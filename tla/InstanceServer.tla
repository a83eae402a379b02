---- MODULE InstanceServer ----
(***************************************************************************)
(* One Minecraft instance: the TServer operations of                       *)
(* core/src/implementations/minecraft/server.rs as concurrent callers, the *)
(* operating-system processes they spawn, and the reader task every spawn  *)
(* leaves behind.  An operation is split where the code awaits: a step is  *)
(* what runs between two awaits (or two lock acquisitions).                *)
(*                                                                         *)
(* Events other than this instance's StateTransition are abstracted.  A    *)
(* blocked caller skips every event up to the first that decides its wait, *)
(* so its broadcast queue is abstracted to that first deciding event.      *)
(***************************************************************************)
EXTENDS InstanceState, Naturals, FiniteSets

CONSTANTS
  Callers,      \* concurrent invocations: HTTP handlers, macro ops, auto-start
  Procs,        \* process incarnations a behavior may spawn (a bound)
  Players,      \* player names that may join
  Jobs,         \* the operations callers may invoke
  Disconnects,  \* may a client hang up, dropping its handler's future?
  NoProc        \* "None" in an Option of a process handle

AllJobs ==
  {"start", "start_block", "stop", "stop_block", "restart", "restart_block", "kill"}

ASSUME ConstantsAssumption ==
  /\ NoProc \notin Procs
  /\ Jobs \subseteq AllJobs
  /\ Disconnects \in BOOLEAN

VARIABLES
  state,      \* MinecraftInstance.state
  announced,  \* the last StateTransition event broadcast for the instance
  procs,      \* Procs -> "none", "up", "dead" (a zombie) or "reaped" (waited on)
  bound,      \* the process that holds the instance's TCP port, or NoProc
  stopReq,    \* processes that have "stop\n" on their standard input
  printed,    \* processes whose "Done" line is in the pipe, unread
  process,    \* MinecraftInstance.process: the stored Child
  stdin,      \* MinecraftInstance.stdin: whose ChildStdin is stored
  procLock,   \* the process mutex across awaits: held inside Child::kill
  reader,     \* where the reader task of each process is
  started,    \* processes whose reader has set did_start
  rcon,       \* MinecraftInstance.rcon_conn
  players,    \* PlayersManager.players
  pc,         \* where each caller is
  job,        \* the operation each caller runs
  mine,       \* the process the caller's start has spawned
  sub,        \* a caller's receiver: "none", "open", or the deciding event
  history     \* what has happened so far: "killed", a kill has forced the state
              \*   to Stopped; "abandoned", a start returned or was dropped after
              \*   UserStart and before its reader existed, the state left as it was

lifeVars   == <<state, announced>>
osVars     == <<procs, bound, stopReq, printed>>
handleVars == <<process, stdin, procLock>>
readerVars == <<reader, started, rcon, players>>
callerVars == <<pc, job, mine, sub>>
vars == <<lifeVars, osVars, handleVars, readerVars, callerVars, history>>

StartPcs  == {"s_port", "s_prelaunch", "s_spawn", "s_stdin", "s_process"}
Pcs == {"idle", "s_begin", "s_persist", "s_wait",
        "t_begin", "t_write", "t_rcon", "t_wait",
        "k_begin", "k_proc", "k_wait", "k_set", "k_send"} \union StartPcs

ReaderPcs == {"none", "read", "ready", "rcon", "clear", "untake", "done"}
Exited == {"dead", "reaped"}

\* The reader is in its loop: it has neither hit end-of-file nor not been spawned.
Reading(p) == reader[p] \in {"read", "ready", "rcon"}

\* A start that has passed UserStart and has no reader task yet.
InFlight(c) == pc[c] \in StartPcs

Killed == "killed" \in history

Fresh == {p \in Procs : procs[p] = "none"}

-----------------------------------------------------------------------------
(* Lifecycle transitions and their events *)

\* The receivers after event e: a start waits for Running or Stopped, a stop
\* for Stopped, and the first event that decides is kept.
Deliver(e) ==
  [c \in Callers |->
     IF sub[c] = "open" /\ (e = "Stopped" \/ (e = "Running" /\ pc[c] = "s_wait"))
     THEN e ELSE sub[c]]

\* Mutant: the table's refusal is not looked at.
TransitionUnchecked(a) ==
  /\ state' = TryNewState(state, a)
  /\ announced' = TryNewState(state, a)

\* State::try_transition with the event as its on_transit callback.
Transition(a) ==
  /\ Allowed(state, a)
  /\ state' = TryNewState(state, a)
  /\ announced' = TryNewState(state, a)

\* The caller's operation is over, with or without an error.
Return(c) ==
  /\ pc' = [pc EXCEPT ![c] = "idle"]
  /\ job' = [job EXCEPT ![c] = "none"]
  /\ mine' = [mine EXCEPT ![c] = NoProc]

Goto(c, label) ==
  /\ pc' = [pc EXCEPT ![c] = label]
  /\ UNCHANGED <<job, mine>>

Init ==
  /\ state = "Stopped"
  /\ announced = "Stopped"
  /\ procs = [p \in Procs |-> "none"]
  /\ bound = NoProc
  /\ stopReq = {}
  /\ printed = {}
  /\ process = NoProc
  /\ stdin = NoProc
  /\ procLock = "free"
  /\ reader = [p \in Procs |-> "none"]
  /\ started = {}
  /\ rcon = "none"
  /\ players = {}
  /\ pc = [c \in Callers |-> "idle"]
  /\ job = [c \in Callers |-> "none"]
  /\ mine = [c \in Callers |-> NoProc]
  /\ sub = [c \in Callers |-> "none"]
  /\ history = {}

-----------------------------------------------------------------------------
(* Invocations *)

\* The non-blocking restart only asks the table whether a stop is possible,
\* assigns nothing, and leaves the rest to a detached task.
EntryPoint(j) ==
  IF j = "kill" THEN "k_begin"
  ELSE IF j \in {"start", "start_block"} THEN "s_begin" ELSE "t_begin"

\* The bound on Procs stands here: a job that starts a server is taken on only
\* if an incarnation is left for it besides those of the callers before it.
StartingJobs == AllJobs \ {"stop", "stop_block", "kill"}

Awaiting ==
  {c \in Callers : job[c] \in StartingJobs
                    /\ pc[c] \notin {"s_stdin", "s_process", "s_persist", "s_wait"}}

Call(c, j) ==
  /\ pc[c] = "idle"
  /\ j \in StartingJobs => Cardinality(Fresh) > Cardinality(Awaiting)
  /\ j = "restart" => Allowed(state, "UserStop")
  /\ pc' = [pc EXCEPT ![c] = EntryPoint(j)]
  /\ job' = [job EXCEPT ![c] = j]
  /\ UNCHANGED <<lifeVars, osVars, handleVars, readerVars, mine, sub, history>>

-----------------------------------------------------------------------------
(* start *)

\* A refused start returns an error and changes nothing.
UserStart(c) ==
  /\ pc[c] = "s_begin"
  /\ \/ /\ Transition("UserStart")
        /\ Goto(c, "s_port")
        /\ sub' = Deliver("Starting")
     \/ /\ ~Allowed(state, "UserStart")
        /\ Return(c)
        /\ UNCHANGED <<lifeVars, sub>>
  /\ UNCHANGED <<osVars, handleVars, readerVars, history>>

\* The port is taken (by a program that need not be ours), the wait for the
\* prelaunch macro panics on a lagged receiver, or the Forge command line cannot
\* be built: start returns and the state stays what UserStart made it.
EarlyReturn(c) ==
  /\ pc[c] \in {"s_port", "s_prelaunch", "s_spawn"}
  /\ Return(c)
  /\ history' = history \union {"abandoned"}
  /\ UNCHANGED <<lifeVars, osVars, handleVars, readerVars, sub>>

PortFree(c) ==
  /\ pc[c] = "s_port"
  /\ bound = NoProc
  /\ Goto(c, "s_prelaunch")
  /\ UNCHANGED <<lifeVars, osVars, handleVars, readerVars, sub, history>>

\* The prelaunch macro, if there is one, exited, detached or failed to spawn.
PrelaunchOver(c) ==
  /\ pc[c] = "s_prelaunch"
  /\ Goto(c, "s_spawn")
  /\ UNCHANGED <<lifeVars, osVars, handleVars, readerVars, sub, history>>

\* Mutants: a failed spawn leaves the state; it sets the state and says nothing.
SpawnFailsStarting(c) ==
  /\ pc[c] = "s_spawn"
  /\ Return(c)
  /\ UNCHANGED <<lifeVars, osVars, handleVars, readerVars, sub, history>>

SpawnFailsSilently(c) ==
  /\ pc[c] = "s_spawn"
  /\ state' = "Stopped"
  /\ Return(c)
  /\ UNCHANGED <<announced, osVars, handleVars, readerVars, sub, history>>

SpawnFails(c) ==
  /\ pc[c] = "s_spawn"
  /\ Transition("InstanceStop")
  /\ sub' = Deliver("Stopped")
  /\ Return(c)
  /\ UNCHANGED <<osVars, handleVars, readerVars, history>>

Spawn(c, p) ==
  /\ pc[c] = "s_spawn"
  /\ p \in Fresh
  /\ procs' = [procs EXCEPT ![p] = "up"]
  /\ mine' = [mine EXCEPT ![c] = p]
  /\ pc' = [pc EXCEPT ![c] = "s_stdin"]
  /\ UNCHANGED <<lifeVars, bound, stopReq, printed, handleVars, readerVars, job, sub, history>>

StoreStdin(c) ==
  /\ pc[c] = "s_stdin"
  /\ stdin' = mine[c]
  /\ Goto(c, "s_process")
  /\ UNCHANGED <<lifeVars, osVars, process, procLock, readerVars, sub, history>>

\* Waits for the process mutex, stores the child and spawns its reader task.
StoreProcess(c) ==
  /\ pc[c] = "s_process"
  /\ procLock = "free"
  /\ process' = mine[c]
  /\ reader' = [reader EXCEPT ![mine[c]] = "read"]
  /\ Goto(c, "s_persist")
  /\ UNCHANGED <<lifeVars, osVars, stdin, procLock, started, rcon, players, sub, history>>

\* write_config_to_file, then the subscription: the reader already runs.
Persist(c) ==
  /\ pc[c] = "s_persist"
  /\ \/ /\ job[c] = "start_block" \/ job[c] = "restart_block"
        /\ Goto(c, "s_wait")
        /\ sub' = [sub EXCEPT ![c] = "open"]
     \/ /\ Return(c)
        /\ UNCHANGED sub
  /\ UNCHANGED <<lifeVars, osVars, handleVars, readerVars, history>>

\* Running: started successfully.  Stopped: exited before starting.
StartWaitOver(c) ==
  /\ pc[c] = "s_wait"
  /\ sub[c] \in {"Running", "Stopped"}
  /\ Return(c)
  /\ sub' = [sub EXCEPT ![c] = "none"]
  /\ UNCHANGED <<lifeVars, osVars, handleVars, readerVars, history>>

\* A receiver that falls 512 events behind gets Lagged, which ends either wait.
WaitLagged(c) ==
  /\ pc[c] \in {"s_wait", "t_wait"}
  /\ Return(c)
  /\ sub' = [sub EXCEPT ![c] = "none"]
  /\ UNCHANGED <<lifeVars, osVars, handleVars, readerVars, history>>

-----------------------------------------------------------------------------
(* stop, restart and the console's "stop" *)

UserStop(c) ==
  /\ pc[c] = "t_begin"
  /\ \/ /\ Transition("UserStop")
        /\ Goto(c, "t_write")
        /\ sub' = Deliver("Stopping")
     \/ /\ ~Allowed(state, "UserStop")
        /\ Return(c)
        /\ UNCHANGED <<lifeVars, sub>>
  /\ UNCHANGED <<osVars, handleVars, readerVars, history>>

\* Mutant: the line is written without its end and the server never acts on it.
WriteStopUnended(c) ==
  /\ pc[c] = "t_write"
  /\ IF stdin # NoProc THEN Goto(c, "t_rcon") ELSE Return(c)
  /\ UNCHANGED <<lifeVars, osVars, handleVars, readerVars, sub, history>>

\* Writing to a process that is gone is an error, and stop returns it.
WriteStop(c) ==
  /\ pc[c] = "t_write"
  /\ \/ /\ stdin # NoProc
        /\ procs[stdin] = "up"
        /\ stopReq' = stopReq \union {stdin}
        /\ Goto(c, "t_rcon")
     \/ /\ stdin # NoProc => procs[stdin] # "up"
        /\ Return(c)
        /\ UNCHANGED stopReq
  /\ UNCHANGED <<lifeVars, procs, bound, printed, handleVars, readerVars, sub, history>>

\* rcon_conn.take(), then the subscription: the "stop" is already on its way.
DropRcon(c) ==
  /\ pc[c] = "t_rcon"
  /\ rcon' = "none"
  /\ \/ /\ job[c] = "stop"
        /\ Return(c)
        /\ UNCHANGED sub
     \/ /\ job[c] # "stop"
        /\ Goto(c, "t_wait")
        /\ sub' = [sub EXCEPT ![c] = "open"]
  /\ UNCHANGED <<lifeVars, osVars, handleVars, reader, started, players, history>>

\* stop returns; restart goes on with its start.
StopWaitOver(c) ==
  /\ pc[c] = "t_wait"
  /\ sub[c] = "Stopped"
  /\ sub' = [sub EXCEPT ![c] = "none"]
  /\ \/ /\ job[c] = "stop_block"
        /\ Return(c)
     \/ /\ job[c] # "stop_block"
        /\ Goto(c, "s_begin")
  /\ UNCHANGED <<lifeVars, osVars, handleVars, readerVars, history>>

\* Mutant: any console "stop" announces Stopping.
ConsoleStopUnchecked ==
  /\ stdin # NoProc
  /\ announced' = "Stopping"
  /\ sub' = Deliver("Stopping")
  /\ stopReq' = IF procs[stdin] = "up" THEN stopReq \union {stdin} ELSE stopReq
  /\ UNCHANGED <<state, procs, bound, printed, handleVars, readerVars, pc, job, mine, history>>

\* send_command("stop"): try_new_state announces Stopping but assigns nothing.
ConsoleStop ==
  /\ stdin # NoProc
  /\ Allowed(state, "UserStop")
  /\ announced' = TryNewState(state, "UserStop")
  /\ sub' = Deliver("Stopping")
  /\ stopReq' = IF procs[stdin] = "up" THEN stopReq \union {stdin} ELSE stopReq
  /\ UNCHANGED <<state, procs, bound, printed, handleVars, readerVars, pc, job, mine, history>>

-----------------------------------------------------------------------------
(* kill *)

KillCheck(c) ==
  /\ pc[c] = "k_begin"
  /\ \/ /\ state = "Stopped"
        /\ Return(c)
     \/ /\ state # "Stopped"
        /\ Goto(c, "k_proc")
  /\ UNCHANGED <<lifeVars, osVars, handleVars, readerVars, sub, history>>

\* The port and the pending input of a process go with it.
Dies(p) ==
  /\ procs' = [procs EXCEPT ![p] = IF @ = "up" THEN "dead" ELSE @]
  /\ bound' = IF bound = p THEN NoProc ELSE bound
  /\ stopReq' = stopReq \ {p}

\* No child stored: go straight to assigning Stopped.
KillNothing(c) ==
  /\ pc[c] = "k_proc"
  /\ procLock = "free"
  /\ process = NoProc
  /\ Goto(c, "k_set")
  /\ UNCHANGED <<lifeVars, osVars, handleVars, readerVars, sub, history>>

\* Child::kill refuses a child that has been waited on, and kill returns that.
KillRefused(c) ==
  /\ pc[c] = "k_proc"
  /\ procLock = "free"
  /\ process # NoProc
  /\ procs[process] = "reaped"
  /\ Return(c)
  /\ UNCHANGED <<lifeVars, osVars, handleVars, readerVars, sub, history>>

KillSignal(c) ==
  /\ pc[c] = "k_proc"
  /\ procLock = "free"
  /\ process # NoProc
  /\ procs[process] \in {"up", "dead"}
  /\ Dies(process)
  /\ procLock' = "held"
  /\ Goto(c, "k_wait")
  /\ UNCHANGED <<lifeVars, printed, process, stdin, readerVars, sub, history>>

KillReap(c) ==
  /\ pc[c] = "k_wait"
  /\ procs' = [procs EXCEPT ![process] = "reaped"]
  /\ procLock' = "free"
  /\ Goto(c, "k_set")
  /\ UNCHANGED <<lifeVars, bound, stopReq, printed, process, stdin, readerVars, sub, history>>

\* Runs after a successful kill too: the block at server.rs:623 has no else.
KillSet(c) ==
  /\ pc[c] = "k_set"
  /\ state' = "Stopped"
  /\ history' = history \union {"killed"}
  /\ Goto(c, "k_send")
  /\ UNCHANGED <<announced, osVars, handleVars, readerVars, sub>>

KillSend(c) ==
  /\ pc[c] = "k_send"
  /\ announced' = "Stopped"
  /\ sub' = Deliver("Stopped")
  /\ Return(c)
  /\ UNCHANGED <<state, osVars, handleVars, readerVars, history>>

-----------------------------------------------------------------------------
(* The HTTP server drops the future of a handler whose client hangs up, at an *)
(* await.  Macro ops and the restart task are spawned tasks and run on.       *)

Cancel(c) ==
  /\ Disconnects
  /\ job[c] \in {"start", "stop", "kill"}
  /\ pc[c] \notin {"idle", "s_port", "k_send"}
  /\ Return(c)
  /\ procLock' = IF pc[c] = "k_wait" THEN "free" ELSE procLock
  /\ history' = IF InFlight(c) THEN history \union {"abandoned"} ELSE history
  /\ UNCHANGED <<lifeVars, osVars, process, stdin, readerVars, sub>>

-----------------------------------------------------------------------------
(* The server process (external): binds its port, reports itself ready,  *)
(* crashes at any time, obeys "stop".                                    *)

Bind(p) ==
  /\ procs[p] = "up"
  /\ bound = NoProc
  /\ bound' = p
  /\ UNCHANGED <<lifeVars, procs, stopReq, printed, handleVars, readerVars, callerVars, history>>

PrintReady(p) ==
  /\ bound = p
  /\ printed' = printed \union {p}
  /\ UNCHANGED <<lifeVars, procs, bound, stopReq, handleVars, readerVars, callerVars, history>>

Exit(p) ==
  /\ procs[p] = "up"
  /\ Dies(p)
  /\ UNCHANGED <<lifeVars, printed, handleVars, readerVars, callerVars, history>>

-----------------------------------------------------------------------------
(* The reader task of process p *)

\* Mutant: did_start is not looked at.
ReadReadyAgain(p) ==
  /\ reader[p] = "read"
  /\ p \in printed
  /\ printed' = printed \ {p}
  /\ reader' = [reader EXCEPT ![p] = "ready"]
  /\ started' = started \union {p}
  /\ UNCHANGED <<lifeVars, procs, bound, stopReq, handleVars, rcon, players, callerVars, history>>

ReadReady(p) ==
  /\ reader[p] = "read"
  /\ p \in printed
  /\ printed' = printed \ {p}
  /\ reader' = [reader EXCEPT ![p] = IF p \in started THEN "read" ELSE "ready"]
  /\ started' = started \union {p}
  /\ UNCHANGED <<lifeVars, procs, bound, stopReq, handleVars, rcon, players, callerVars, history>>

BecomeRunning(p) ==
  /\ reader[p] = "ready"
  /\ Transition("InstanceStart")
  /\ sub' = Deliver("Running")
  /\ reader' = [reader EXCEPT ![p] = "rcon"]
  /\ UNCHANGED <<osVars, handleVars, started, rcon, players, pc, job, mine, history>>

\* Mutant: the retries have no limit.
ConnectRconForever(p) ==
  /\ reader[p] = "rcon"
  /\ bound # NoProc /\ rcon' = "some"
  /\ reader' = [reader EXCEPT ![p] = "read"]
  /\ UNCHANGED <<lifeVars, osVars, handleVars, started, players, callerVars, history>>

\* Connected (somebody listens), given up after the retries, or not configured.
ConnectRcon(p) ==
  /\ reader[p] = "rcon"
  /\ \/ bound # NoProc /\ rcon' = "some"
     \/ rcon' = rcon
     \/ rcon' = "none"
  /\ reader' = [reader EXCEPT ![p] = "read"]
  /\ UNCHANGED <<lifeVars, osVars, handleVars, started, players, callerVars, history>>

PlayerLine(p, n) ==
  /\ reader[p] = "read"
  /\ p \in started
  /\ players' \in {players \union {n}, players \ {n}}
  /\ UNCHANGED <<lifeVars, osVars, handleVars, reader, started, rcon, callerVars, history>>

\* Mutant: only the end of a running server is reported.
EofWhenRunning(p) ==
  /\ reader[p] = "read"
  /\ procs[p] \in Exited
  /\ IF state = "Running" THEN Transition("InstanceStop") ELSE UNCHANGED lifeVars
  /\ sub' = Deliver("Stopped")
  /\ reader' = [reader EXCEPT ![p] = "clear"]
  /\ printed' = printed \ {p}
  /\ UNCHANGED <<procs, bound, stopReq, handleVars, started, rcon, players, pc, job, mine, history>>

\* End-of-file on either stream ends the loop, unread lines of the other or not.
Eof(p) ==
  /\ reader[p] = "read"
  /\ procs[p] \in Exited
  /\ Transition("InstanceStop")
  /\ sub' = Deliver("Stopped")
  /\ reader' = [reader EXCEPT ![p] = "clear"]
  /\ printed' = printed \ {p}
  /\ UNCHANGED <<procs, bound, stopReq, handleVars, started, rcon, players, pc, job, mine, history>>

\* Mutant: the reader ends without taking the RCON connection.
ClearPlayersOnly(p) ==
  /\ reader[p] = "clear"
  /\ players' = {}
  /\ reader' = [reader EXCEPT ![p] = "done"]
  /\ UNCHANGED <<lifeVars, osVars, handleVars, started, rcon, callerVars, history>>

ClearPlayers(p) ==
  /\ reader[p] = "clear"
  /\ players' = {}
  /\ reader' = [reader EXCEPT ![p] = "untake"]
  /\ UNCHANGED <<lifeVars, osVars, handleVars, started, rcon, callerVars, history>>

TakeRcon(p) ==
  /\ reader[p] = "untake"
  /\ rcon' = "none"
  /\ reader' = [reader EXCEPT ![p] = "done"]
  /\ UNCHANGED <<lifeVars, osVars, handleVars, started, players, callerVars, history>>

-----------------------------------------------------------------------------

StartStep(c) ==
  \/ UserStart(c) \/ EarlyReturn(c) \/ PortFree(c) \/ PrelaunchOver(c)
  \/ SpawnFails(c) \/ \E p \in Procs : Spawn(c, p)
  \/ StoreStdin(c) \/ StoreProcess(c) \/ Persist(c) \/ StartWaitOver(c)

StopStep(c) == UserStop(c) \/ WriteStop(c) \/ DropRcon(c) \/ StopWaitOver(c)

KillStep(c) ==
  \/ KillCheck(c) \/ KillNothing(c) \/ KillRefused(c) \/ KillSignal(c)
  \/ KillReap(c) \/ KillSet(c) \/ KillSend(c)

ReaderStep(p) ==
  \/ ReadReady(p) \/ BecomeRunning(p) \/ ConnectRcon(p)
  \/ Eof(p) \/ ClearPlayers(p) \/ TakeRcon(p)

ServerStep(p) == Bind(p) \/ PrintReady(p) \/ Exit(p)

Next ==
  \/ \E c \in Callers :
       \/ \E j \in Jobs : Call(c, j)
       \/ StartStep(c) \/ StopStep(c) \/ KillStep(c) \/ WaitLagged(c) \/ Cancel(c)
  \/ ConsoleStop
  \/ \E p \in Procs :
       \/ ServerStep(p) \/ ReaderStep(p)
       \/ \E n \in Players : PlayerLine(p, n)

Spec == Init /\ [][Next]_vars

\* The runtime polls every task that is ready; a process that has read "stop"
\* exits.  Nothing is assumed of clients, of the prelaunch macro or of crashes.
Fairness ==
  /\ \A c \in Callers : WF_vars(StopStep(c)) /\ WF_vars(KillStep(c))
  /\ \A p \in Procs :
       /\ WF_vars(ReaderStep(p))
       /\ WF_vars(p \in stopReq /\ Exit(p))

FairSpec == Spec /\ Fairness

-----------------------------------------------------------------------------
(* Properties *)

\* Type correctness of the whole state of one instance (server.rs:31-644).
TypeOK ==
  /\ state \in State \ {"Error"}
  /\ announced \in State \ {"Error"}
  /\ procs \in [Procs -> {"none", "up", "dead", "reaped"}]
  /\ bound \in Procs \union {NoProc}
  /\ stopReq \subseteq Procs
  /\ printed \subseteq Procs
  /\ process \in Procs \union {NoProc}
  /\ stdin \in Procs \union {NoProc}
  /\ procLock \in {"free", "held"}
  /\ reader \in [Procs -> ReaderPcs]
  /\ started \subseteq Procs
  /\ rcon \in {"none", "some"}
  /\ players \subseteq Players
  /\ pc \in [Callers -> Pcs]
  /\ job \in [Callers -> AllJobs \union {"none"}]
  /\ mine \in [Callers -> Procs \union {NoProc}]
  /\ sub \in [Callers -> {"none", "open", "Running", "Stopped"}]
  /\ history \subseteq {"killed", "abandoned"}

\* An instance shown as Running or Stopping has a reader task that has seen its
\* server start and will report its end: it is never left in one of these
\* states with nobody to move it on (server.rs:237-470, 529-585).
RunningHasReader ==
  state \in {"Running", "Stopping"} => \E p \in started : Reading(p)

\* Starting is left by the start that set it, by a reader, or by nobody if a
\* start returned early: the `?` and return paths of server.rs:50-195, and a
\* dropped handler, are the only ways to be stuck in Starting.
StartingHasOwner ==
  state = "Starting" =>
    \/ \E c \in Callers : InFlight(c)
    \/ \E p \in Procs : Reading(p)
    \/ "abandoned" \in history

\* Until somebody kills the instance, concurrent starts, restarts, crashes,
\* spawn failures and disconnections never give it two live server processes
\* over one world directory (t_server.rs:92-123, server.rs:31-236).
SingleProcessUnlessKilled ==
  ~Killed => \A p, q \in Procs : procs[p] = "up" /\ procs[q] = "up" => p = q

\* Until a kill, the last event broadcast is the stored state, except for the
\* Stopping that send_command announces of a running instance (server.rs:649-674).
EventsMirrorState ==
  ~Killed => announced = state \/ (announced = "Stopping" /\ state = "Running")

\* Players listed and an RCON connection kept belong to a server whose reader is
\* still there to clear them (server.rs:300-468).
SessionHasReader ==
  players # {} \/ rcon = "some" => \E p \in Procs : Reading(p) \/ reader[p] \in {"clear", "untake"}

\* Until a kill, Running is entered only from Starting: a reader never revives
\* an instance that was stopped or is being stopped (server.rs:300-330).
RunningOnlyFromStarting ==
  [][state' = "Running" /\ state # "Running" => state = "Starting" \/ Killed]_vars

Lifecycle == INSTANCE InstanceLifecycle WITH state <- state, announced <- announced

\* The instance implements the abstract lifecycle.
ImplementsLifecycle == Lifecycle!Spec

\* The claim of t_server.rs:104: an instance that is already running is not
\* started.  One world directory, one live server process, kills included.
NeverTwoServers == \A p, q \in Procs : procs[p] = "up" /\ procs[q] = "up" => p = q

\* The claim of server.rs:486: the Running event that ends a blocking start says
\* that the server it spawned has started.
BlockingStartIsTruthful ==
  \A c \in Callers : pc[c] = "s_wait" /\ sub[c] = "Running" => mine[c] \in started

\* The claim of server.rs:623-635: kill falls back to assigning Stopped, and to
\* the error "Process not available", when the instance has no process.
KillFallbackMeansNoProcess ==
  [][\A c \in Callers : pc[c] # "k_set" /\ pc'[c] = "k_set" => process = NoProc]_vars

\* The reader of a process that has exited gets to its end and reports it.
ExitIsReported ==
  \A p \in Procs : (procs[p] \in Exited /\ Reading(p)) ~> reader[p] = "done"

\* A stop ends once its line is written, by a client that stays or hangs up, or is
\* about to be by a task that nobody drops: the server exits, of itself or for the
\* line, and its reader takes the state out of Stopping.  An HTTP stop that is
\* dropped between the two leaves a server that runs on, in Stopping, and is not
\* claimed to end (server.rs:529-585).
StoppingEnds ==
  /\ state = "Stopping"
  /\ \/ \E p \in Procs : Reading(p) /\ (p \in stopReq \/ procs[p] \in Exited)
     \/ \E c \in Callers : pc[c] = "t_write" /\ job[c] # "stop"
  ~> state # "Stopping"
====
