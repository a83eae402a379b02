---- MODULE MacroExecutor ----
(***************************************************************************)
(* MacroExecutor (core/src/macro_executor.rs): every macro runs in a       *)
(* thread of its own, is aborted from other threads through its handle,    *)
(* and tells everybody else what became of it by broadcast events only.    *)
(* Beside the threads stand the aborters, the task that keeps the exit     *)
(* statuses, and the callers of `spawn`: run_macro, the prelaunch macro of *)
(* an instance, and the core macro of a generic instance.                  *)
(*                                                                         *)
(* A receiver is abstracted to the events it waits for.  The broadcast     *)
(* channel holds 512 events; when a receiver falls behind, the oldest are  *)
(* gone and its next recv is Lagged.                                       *)
(***************************************************************************)
EXTENDS Naturals

CONSTANTS
  Macros,     \* the pids next_process_id hands out (a bound)
  Aborters,   \* threads that abort: kill_macro, the drop guard, shutdown_all
  NoMacro,    \* what an aborter at rest aborts
  Kinds,      \* the callers of spawn
  Lag         \* may receivers fall behind?

AllKinds == {"run", "prelaunch", "restore", "create"}

\* Who enters the macro in a task list, and who awaits exit_future.
Listers == {"run", "prelaunch"}
ExitWaiters == {"prelaunch", "restore"}

ASSUME MacroAssumption ==
  /\ NoMacro \notin Macros
  /\ Kinds \subseteq AllKinds
  /\ Lag \in BOOLEAN

VARIABLES
  thread,      \* where the thread of each macro is
  outcome,     \* how the macro's execution ended
  verdict,     \* the ExitStatus that was, or is about to be, broadcast
  stoppedSent, \* MacroThread::run's stopped_sent, as the set of macros having it
  reports,     \* how many Stopped events were broadcast for each macro
  handles,     \* macro_process_table: nothing is ever removed from it
  aborted,     \* MacroHandle.aborted
  terminated,  \* isolates whose execution was terminated
  woken,       \* MacroHandle.wake: macros whose Notify holds a permit
  aborter,     \* where each aborter is in MacroHandle::abort, and of which macro
  target,
  unread,      \* Stopped events in the exit listener's queue
  missed,      \* Stopped events the exit listener has lost to Lagged
  exitStatus,  \* exit_status_table
  caller,      \* where the caller of spawn is, and its kind
  kind,
  startRx,     \* spawn's receiver
  exitRx,      \* exit_future's receiver
  detachRx,    \* detach_future's receiver
  listed       \* pid_to_task_entry

threadVars == <<thread, outcome, verdict, stoppedSent>>
abortVars  == <<handles, aborted, terminated, woken, aborter, target>>
exitVars   == <<missed, exitStatus>>
callVars   == <<caller, kind, listed>>
rxVars     == <<startRx, exitRx, detachRx>>
busVars    == <<reports, unread>>
vars == <<threadVars, abortVars, exitVars, callVars, rxVars, busVars>>

ThreadPcs ==
  {"none", "setup", "announce", "idle", "busy", "decide", "report", "teardown", "caught", "done"}
Statuses == {"Success", "Error", "Killed"}

\* An execution that an abort has ended.
Interrupted == {"terminated", "woken"}

Init ==
  /\ thread = [m \in Macros |-> "none"]
  /\ outcome = [m \in Macros |-> "none"]
  /\ verdict = [m \in Macros |-> "none"]
  /\ stoppedSent = {}
  /\ reports = [m \in Macros |-> 0]
  /\ handles = {}
  /\ aborted = {}
  /\ terminated = {}
  /\ woken = {}
  /\ aborter = [a \in Aborters |-> "rest"]
  /\ target = [a \in Aborters |-> NoMacro]
  /\ unread = {}
  /\ missed = {}
  /\ exitStatus = [m \in Macros |-> "none"]
  /\ caller = [m \in Macros |-> "none"]
  /\ kind = [m \in Macros |-> "none"]
  /\ startRx = [m \in Macros |-> "off"]
  /\ exitRx = [m \in Macros |-> "off"]
  /\ detachRx = [m \in Macros |-> "off"]
  /\ listed = {}

-----------------------------------------------------------------------------
(* Broadcasts: an open receiver keeps the first event it waits for *)

Hear(rx, m, e) == [rx EXCEPT ![m] = IF @ = "open" THEN e ELSE @]

BroadcastStarted(m) ==
  /\ startRx' = Hear(startRx, m, "Started")
  /\ UNCHANGED <<exitRx, detachRx, busVars>>

BroadcastDetach(m) ==
  /\ detachRx' = Hear(detachRx, m, "Detach")
  /\ UNCHANGED <<startRx, exitRx, busVars>>

BroadcastStopped(m) ==
  /\ reports' = [reports EXCEPT ![m] = @ + 1]
  /\ unread' = unread \union {m}
  /\ startRx' = Hear(startRx, m, "Stopped")
  /\ exitRx' = Hear(exitRx, m, "Stopped")
  /\ UNCHANGED detachRx

-----------------------------------------------------------------------------
(* The macro thread *)

Ends(m, how, label) ==
  /\ outcome' = [outcome EXCEPT ![m] = how]
  /\ thread' = [thread EXCEPT ![m] = label]

\* Mutant: the handle is not entered in the process table.
SetUpUnlisted(m) ==
  /\ thread[m] = "setup"
  /\ thread' = [thread EXCEPT ![m] = "announce"]
  /\ UNCHANGED <<outcome, verdict, stoppedSent, abortVars, exitVars, callVars, rxVars, busVars>>

SetUp(m) ==
  /\ thread[m] = "setup"
  /\ thread' = [thread EXCEPT ![m] = "announce"]
  /\ handles' = handles \union {m}
  /\ UNCHANGED <<outcome, verdict, stoppedSent, aborted, terminated, woken, aborter, target,
                 exitVars, callVars, rxVars, busVars>>

SetupFails(m) ==
  /\ thread[m] = "setup"
  /\ Ends(m, "setupfailed", "report")
  /\ verdict' = [verdict EXCEPT ![m] = "Error"]
  /\ UNCHANGED <<stoppedSent, abortVars, exitVars, callVars, rxVars, busVars>>

\* select! may poll the wake-up before the macro, so the macro starts "idle":
\* between two polls of its event loop.
SendStarted(m) ==
  /\ thread[m] = "announce"
  /\ thread' = [thread EXCEPT ![m] = "idle"]
  /\ BroadcastStarted(m)
  /\ UNCHANGED <<outcome, verdict, stoppedSent, abortVars, exitVars, callVars>>

\* JavaScript runs, possibly forever, and goes back to waiting for an op.
Poll(m) ==
  /\ \/ thread[m] = "idle" /\ thread' = [thread EXCEPT ![m] = "busy"]
     \/ thread[m] = "busy" /\ thread' = [thread EXCEPT ![m] = "idle"]
  /\ UNCHANGED <<outcome, verdict, stoppedSent, abortVars, exitVars, callVars, rxVars, busVars>>

EmitDetach(m) ==
  /\ thread[m] = "busy"
  /\ BroadcastDetach(m)
  /\ UNCHANGED <<threadVars, abortVars, exitVars, callVars>>

\* The event loop has nothing left to do, an abort notwithstanding.
Finish(m) ==
  /\ thread[m] = "busy"
  /\ Ends(m, "finished", "report")
  /\ verdict' = [verdict EXCEPT ![m] = "Success"]
  /\ UNCHANGED <<stoppedSent, abortVars, exitVars, callVars, rxVars, busVars>>

Throw(m) ==
  /\ thread[m] = "busy"
  /\ Ends(m, "thrown", "decide")
  /\ UNCHANGED <<verdict, stoppedSent, abortVars, exitVars, callVars, rxVars, busVars>>

\* Termination interrupts running JavaScript only ...
Terminated(m) ==
  /\ thread[m] = "busy"
  /\ m \in terminated
  /\ Ends(m, "terminated", "decide")
  /\ UNCHANGED <<verdict, stoppedSent, abortVars, exitVars, callVars, rxVars, busVars>>

\* ... and the permit ends the select of an idle event loop.
Woken(m) ==
  /\ thread[m] = "idle"
  /\ m \in woken
  /\ Ends(m, "woken", "decide")
  /\ woken' = woken \ {m}
  /\ UNCHANGED <<verdict, stoppedSent, handles, aborted, terminated, aborter, target,
                 exitVars, callVars, rxVars, busVars>>

\* An error is Killed if the aborted flag is up, Error otherwise.
Decide(m) ==
  /\ thread[m] = "decide"
  /\ thread' = [thread EXCEPT ![m] = "report"]
  /\ verdict' = [verdict EXCEPT ![m] = IF m \in aborted THEN "Killed" ELSE "Error"]
  /\ UNCHANGED <<outcome, stoppedSent, abortVars, exitVars, callVars, rxVars, busVars>>

\* Mutant: stopped_sent stays down.
ReportUnmarked(m) ==
  /\ thread[m] = "report"
  /\ thread' = [thread EXCEPT ![m] = "teardown"]
  /\ BroadcastStopped(m)
  /\ UNCHANGED <<outcome, verdict, stoppedSent, abortVars, exitVars, callVars>>

\* send_stopped
Report(m) ==
  /\ thread[m] = "report"
  /\ thread' = [thread EXCEPT ![m] = "teardown"]
  /\ stoppedSent' = stoppedSent \union {m}
  /\ BroadcastStopped(m)
  /\ UNCHANGED <<outcome, verdict, abortVars, exitVars, callVars>>

\* The runtime cannot be built, or V8 or an op panics, the drop of the
\* JsRuntime after the report included.
Panic(m) ==
  /\ thread[m] \in {"setup", "busy", "teardown"}
  /\ thread' = [thread EXCEPT ![m] = "caught"]
  /\ outcome' = [outcome EXCEPT ![m] = IF thread[m] = "teardown" THEN @ ELSE "panicked"]
  /\ UNCHANGED <<verdict, stoppedSent, abortVars, exitVars, callVars, rxVars, busVars>>

Return(m) ==
  /\ thread[m] = "teardown"
  /\ thread' = [thread EXCEPT ![m] = "done"]
  /\ UNCHANGED <<outcome, verdict, stoppedSent, abortVars, exitVars, callVars, rxVars, busVars>>

\* Mutant: the panic is caught and swallowed.
ReportPanicSilent(m) ==
  /\ thread[m] = "caught"
  /\ thread' = [thread EXCEPT ![m] = "done"]
  /\ UNCHANGED <<outcome, verdict, stoppedSent, abortVars, exitVars, callVars, rxVars, busVars>>

\* After catch_unwind: report the panic unless a Stopped event has gone out.
ReportPanic(m) ==
  /\ thread[m] = "caught"
  /\ thread' = [thread EXCEPT ![m] = "done"]
  /\ \/ /\ m \in stoppedSent
        /\ UNCHANGED <<verdict, rxVars, busVars>>
     \/ /\ m \notin stoppedSent
        /\ verdict' = [verdict EXCEPT ![m] = "Error"]
        /\ BroadcastStopped(m)
  /\ UNCHANGED <<outcome, stoppedSent, abortVars, exitVars, callVars>>

-----------------------------------------------------------------------------
(* MacroHandle::abort, on another thread; a pid that is not in the table is *)
(* NotFound and nothing changes.                                            *)

\* Mutant: the execution is terminated with the flag down.
SetFlagForgotten(a, m) ==
  /\ aborter[a] = "rest"
  /\ m \in handles
  /\ aborter' = [aborter EXCEPT ![a] = "terminate"]
  /\ target' = [target EXCEPT ![a] = m]
  /\ UNCHANGED <<threadVars, handles, aborted, terminated, woken, exitVars, callVars, rxVars, busVars>>

SetFlag(a, m) ==
  /\ aborter[a] = "rest"
  /\ m \in handles
  /\ aborted' = aborted \union {m}
  /\ aborter' = [aborter EXCEPT ![a] = "terminate"]
  /\ target' = [target EXCEPT ![a] = m]
  /\ UNCHANGED <<threadVars, handles, terminated, woken, exitVars, callVars, rxVars, busVars>>

TerminateExecution(a) ==
  /\ aborter[a] = "terminate"
  /\ terminated' = terminated \union {target[a]}
  /\ aborter' = [aborter EXCEPT ![a] = "wake"]
  /\ UNCHANGED <<threadVars, handles, aborted, woken, target, exitVars, callVars, rxVars, busVars>>

\* Mutant: the wake-up leaves no permit.
NotifyOneLost(a) ==
  /\ aborter[a] = "wake"
  /\ aborter' = [aborter EXCEPT ![a] = "rest"]
  /\ target' = [target EXCEPT ![a] = NoMacro]
  /\ UNCHANGED <<threadVars, handles, aborted, terminated, woken, exitVars, callVars, rxVars, busVars>>

NotifyOne(a) ==
  /\ aborter[a] = "wake"
  /\ woken' = woken \union {target[a]}
  /\ aborter' = [aborter EXCEPT ![a] = "rest"]
  /\ target' = [target EXCEPT ![a] = NoMacro]
  /\ UNCHANGED <<threadVars, handles, aborted, terminated, exitVars, callVars, rxVars, busVars>>

-----------------------------------------------------------------------------
(* The task of MacroExecutor::new: it skips what it has lost *)

\* Mutant: the event is consumed and its status is not stored.
ListenForgets(m) ==
  /\ m \in unread
  /\ unread' = unread \ {m}
  /\ UNCHANGED <<threadVars, abortVars, exitVars, callVars, rxVars, reports>>

Listen(m) ==
  /\ m \in unread
  /\ unread' = unread \ {m}
  /\ exitStatus' = [exitStatus EXCEPT ![m] = verdict[m]]
  /\ UNCHANGED <<threadVars, abortVars, missed, callVars, rxVars, reports>>

ListenerLags(m) ==
  /\ Lag
  /\ m \in unread
  /\ unread' = unread \ {m}
  /\ missed' = missed \union {m}
  /\ UNCHANGED <<threadVars, abortVars, exitStatus, callVars, rxVars, reports>>

-----------------------------------------------------------------------------
(* spawn and its callers *)

\* The receiver is opened before the thread exists.
Spawn(m, k) ==
  /\ caller[m] = "none"
  /\ caller' = [caller EXCEPT ![m] = "starting"]
  /\ kind' = [kind EXCEPT ![m] = k]
  /\ startRx' = [startRx EXCEPT ![m] = "open"]
  /\ thread' = [thread EXCEPT ![m] = "setup"]
  /\ UNCHANGED <<outcome, verdict, stoppedSent, abortVars, exitVars, listed, exitRx, detachRx,
                 busVars>>

\* The module path cannot be resolved or the thread not be created.
SpawnFails(m, k) ==
  /\ caller[m] = "none"
  /\ caller' = [caller EXCEPT ![m] = "unspawned"]
  /\ kind' = [kind EXCEPT ![m] = k]
  /\ UNCHANGED <<threadVars, abortVars, exitVars, listed, rxVars, busVars>>

\* Mutant: a lag is taken for the end of the macro.
StartLagsFatal(m) ==
  /\ Lag
  /\ startRx[m] \in {"Started", "Stopped"}
  /\ startRx' = [startRx EXCEPT ![m] = "Stopped"]
  /\ UNCHANGED <<threadVars, abortVars, exitVars, callVars, exitRx, detachRx, busVars>>

\* Lagged is skipped: what is left of the queue may be a Stopped or nothing.
StartLags(m) ==
  /\ Lag
  /\ startRx[m] \in {"Started", "Stopped"}
  /\ startRx' = [startRx EXCEPT ![m] = IF @ = "Started" /\ reports[m] > 0 THEN "Stopped" ELSE "open"]
  /\ UNCHANGED <<threadVars, abortVars, exitVars, callVars, exitRx, detachRx, busVars>>

\* run_macro and prelaunch enter the task; run_macro lets both futures go.
AfterSpawn(k) == IF k = "run" THEN "over" ELSE "waits"

SpawnOk(m) ==
  /\ caller[m] = "starting"
  /\ startRx[m] = "Started"
  /\ startRx' = [startRx EXCEPT ![m] = "off"]
  /\ caller' = [caller EXCEPT ![m] = AfterSpawn(kind[m])]
  /\ listed' = IF kind[m] \in Listers THEN listed \union {m} ELSE listed
  /\ UNCHANGED <<threadVars, abortVars, exitVars, kind, exitRx, detachRx, busVars>>

StoppedBeforeStarted(m) ==
  /\ caller[m] = "starting"
  /\ startRx[m] = "Stopped"
  /\ startRx' = [startRx EXCEPT ![m] = "off"]
  /\ caller' = [caller EXCEPT ![m] = "failed"]
  /\ UNCHANGED <<threadVars, abortVars, exitVars, kind, listed, exitRx, detachRx, busVars>>

\* Ten seconds are over, or the caller's own future is dropped: the macro goes on.
GiveUpSpawn(m) ==
  /\ caller[m] = "starting"
  /\ startRx' = [startRx EXCEPT ![m] = "off"]
  /\ caller' = [caller EXCEPT ![m] = "gaveup"]
  /\ UNCHANGED <<threadVars, abortVars, exitVars, kind, listed, exitRx, detachRx, busVars>>

\* The futures subscribe when they are first polled, `create` awaiting only the
\* second.
OpenExit(m) ==
  /\ caller[m] = "waits"
  /\ kind[m] \in ExitWaiters
  /\ exitRx[m] = "off"
  /\ exitRx' = [exitRx EXCEPT ![m] = "open"]
  /\ UNCHANGED <<threadVars, abortVars, exitVars, callVars, startRx, detachRx, busVars>>

OpenDetach(m) ==
  /\ caller[m] = "waits"
  /\ detachRx[m] = "off"
  /\ detachRx' = [detachRx EXCEPT ![m] = "open"]
  /\ UNCHANGED <<threadVars, abortVars, exitVars, callVars, startRx, exitRx, busVars>>

\* Either future resolves and the other is dropped.
WaitOver(m) ==
  /\ caller[m] = "waits"
  /\ exitRx[m] = "Stopped" \/ detachRx[m] = "Detach"
  /\ caller' = [caller EXCEPT ![m] = "over"]
  /\ exitRx' = [exitRx EXCEPT ![m] = "off"]
  /\ detachRx' = [detachRx EXCEPT ![m] = "off"]
  /\ UNCHANGED <<threadVars, abortVars, exitVars, kind, listed, startRx, busVars>>

\* Both futures unwrap a Lagged, which panics in the caller.
WaitPanics(m) ==
  /\ Lag
  /\ caller[m] = "waits"
  /\ exitRx[m] # "off" \/ detachRx[m] # "off"
  /\ caller' = [caller EXCEPT ![m] = "panicked"]
  /\ exitRx' = [exitRx EXCEPT ![m] = "off"]
  /\ detachRx' = [detachRx EXCEPT ![m] = "off"]
  /\ UNCHANGED <<threadVars, abortVars, exitVars, kind, listed, startRx, busVars>>

-----------------------------------------------------------------------------

\* The steps the code takes by itself; JavaScript (Poll, EmitDetach, Finish,
\* Throw) and panics are not among them.
ThreadStep(m) ==
  \/ SetUp(m) \/ SetupFails(m) \/ SendStarted(m) \/ Terminated(m) \/ Woken(m)
  \/ Decide(m) \/ Report(m) \/ Return(m) \/ ReportPanic(m)

ScriptStep(m) == Poll(m) \/ EmitDetach(m) \/ Finish(m) \/ Throw(m) \/ Panic(m)

AbortStep(a) == TerminateExecution(a) \/ NotifyOne(a)

CallerStep(m) ==
  \/ SpawnOk(m) \/ StoppedBeforeStarted(m) \/ OpenExit(m) \/ OpenDetach(m) \/ WaitOver(m)

Next ==
  \/ \E m \in Macros :
       \/ ThreadStep(m) \/ ScriptStep(m) \/ CallerStep(m)
       \/ \E k \in Kinds : Spawn(m, k) \/ SpawnFails(m, k)
       \/ Listen(m) \/ ListenerLags(m) \/ StartLags(m) \/ GiveUpSpawn(m) \/ WaitPanics(m)
       \/ \E a \in Aborters : SetFlag(a, m)
  \/ \E a \in Aborters : AbortStep(a)

Spec == Init /\ [][Next]_vars

\* Threads and tasks that can run do run.  Nothing is assumed of the script: it
\* may loop or wait forever.
Fairness ==
  /\ \A m \in Macros : WF_vars(ThreadStep(m)) /\ WF_vars(Listen(m)) /\ WF_vars(CallerStep(m))
  /\ \A a \in Aborters : WF_vars(AbortStep(a))

FairSpec == Spec /\ Fairness

-----------------------------------------------------------------------------
(* Properties *)

\* Type correctness of the executor's state (macro_executor.rs:100-559).
TypeOK ==
  /\ thread \in [Macros -> ThreadPcs]
  /\ outcome \in [Macros -> {"none", "setupfailed", "finished", "thrown", "panicked"}
                             \union Interrupted]
  /\ verdict \in [Macros -> Statuses \union {"none"}]
  /\ stoppedSent \subseteq Macros
  /\ reports \in [Macros -> Nat]
  /\ handles \subseteq Macros
  /\ aborted \subseteq Macros
  /\ terminated \subseteq Macros
  /\ woken \subseteq Macros
  /\ aborter \in [Aborters -> {"rest", "terminate", "wake"}]
  /\ target \in [Aborters -> Macros \union {NoMacro}]
  /\ \A a \in Aborters : aborter[a] # "rest" => target[a] \in Macros
  /\ unread \subseteq Macros
  /\ missed \subseteq Macros
  /\ exitStatus \in [Macros -> Statuses \union {"none"}]
  /\ caller \in [Macros -> {"none", "unspawned", "starting", "failed", "gaveup", "waits",
                            "panicked", "over"}]
  /\ kind \in [Macros -> AllKinds \union {"none"}]
  /\ startRx \in [Macros -> {"off", "open", "Started", "Stopped"}]
  /\ exitRx \in [Macros -> {"off", "open", "Stopped"}]
  /\ detachRx \in [Macros -> {"off", "open", "Detach"}]
  /\ listed \subseteq Macros

\* The promise of MacroThread::run: wherever the thread fails or panics, it ends
\* having reported exactly one Stopped event (macro_executor.rs:213-254).
ExactlyOneStopped ==
  \A m \in Macros : reports[m] <= 1 /\ (thread[m] = "done" => reports[m] = 1)

\* A macro that an abort interrupted is reported as Killed, never as failed,
\* whatever step of the abort the thread noticed first (macro_executor.rs:113-121,
\* 349-371).
InterruptionIsNoFailure ==
  \A m \in Macros : outcome[m] \in Interrupted => verdict[m] \in {"none", "Killed"}

\* Whoever is handed a pid by spawn can abort it: the handle is in the table
\* (macro_executor.rs:318-336, 496-516).
SpawnedCanBeAborted ==
  \A m \in Macros : caller[m] \in {"waits", "over", "panicked"} => m \in handles

\* When spawn reports that the macro stopped before it started, there is no macro
\* left running, however far behind its receiver was (macro_executor.rs:468-498).
FailedSpawnLeavesNoMacro ==
  \A m \in Macros : caller[m] = "failed" => reports[m] = 1

\* A macro that has stopped is in the history, or its event is on its way to the
\* table; only a lagging listener leaves it in the task list for ever
\* (macro_executor.rs:382-400, minecraft/macro.rs:71-94).
StoppedLeavesTaskList ==
  \A m \in Macros :
    reports[m] > 0 => exitStatus[m] = verdict[m] \/ m \in unread \/ m \in missed

\* A completed abort ends the macro, be it looping, idle, or about to run its
\* first line (macro_executor.rs:113-121, 344-347).
AbortEndsMacro ==
  \A a \in Aborters : \A m \in Macros : aborter[a] = "wake" /\ target[a] = m ~> thread[m] = "done"

\* spawn learns what became of its macro on every path, a panic while it was set
\* up included; only what a lagging receiver has lost is left to the ten-second
\* timeout (macro_executor.rs:241-316, 448-499).
SpawnIsAnswered ==
  \A m \in Macros :
    caller[m] = "starting" ~>
      \/ caller[m] # "starting"
      \/ startRx[m] = "open" /\ (thread[m] \in {"idle", "busy"} \/ reports[m] > 0)

\* The claim of macro_executor.rs:418: exit_future resolves when the macro stops.
ExitFutureResolves ==
  \A m \in Macros :
    caller[m] = "waits" /\ kind[m] \in ExitWaiters /\ thread[m] = "done" ~> caller[m] = "over"
====
