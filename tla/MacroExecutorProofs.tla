---- MODULE MacroExecutorProofs ----
(***************************************************************************)
(* What TLAPS proves of MacroExecutor, for any set of macros, aborters and *)
(* callers, with receivers that may or may not lag.                        *)
(***************************************************************************)
EXTENDS MacroExecutor, TLAPS

\* Every step keeps the executor well typed (macro_executor.rs:100-559).
THEOREM TypeCorrect == Spec => []TypeOK
<1>1. Init => TypeOK
  BY DEF Init, TypeOK, ThreadPcs
<1>2. TypeOK /\ [Next]_vars => TypeOK'
  <2> SUFFICES ASSUME TypeOK, [Next]_vars PROVE TypeOK'
    OBVIOUS
  <2> USE DEF TypeOK, ThreadPcs, Statuses, Interrupted, Ends, threadVars, abortVars, exitVars, callVars,
              rxVars, busVars
  <2>1. ASSUME NEW m \in Macros, SetUp(m) \/ SetupFails(m) \/ Poll(m) \/ Decide(m) PROVE TypeOK'
    BY <2>1 DEF SetUp, SetupFails, Poll, Decide
  <2>2. ASSUME NEW m \in Macros, SendStarted(m) \/ EmitDetach(m) PROVE TypeOK'
    BY <2>2 DEF SendStarted, EmitDetach, BroadcastStarted, BroadcastDetach, Hear
  <2>3. ASSUME NEW m \in Macros, Finish(m) \/ Throw(m) \/ Terminated(m) \/ Woken(m) PROVE TypeOK'
    BY <2>3 DEF Finish, Throw, Terminated, Woken
  <2>4. ASSUME NEW m \in Macros, Report(m) PROVE TypeOK'
    BY <2>4 DEF Report, BroadcastStopped, Hear
  <2>5. ASSUME NEW m \in Macros, Panic(m) \/ Return(m) PROVE TypeOK'
    BY <2>5 DEF Panic, Return
  <2>6. ASSUME NEW m \in Macros, ReportPanic(m) PROVE TypeOK'
    BY <2>6 DEF ReportPanic, BroadcastStopped, Hear
  <2>7. ASSUME NEW m \in Macros, NEW a \in Aborters, SetFlag(a, m) PROVE TypeOK'
    BY <2>7 DEF SetFlag
  <2>8. ASSUME NEW a \in Aborters, AbortStep(a) PROVE TypeOK'
    BY <2>8 DEF AbortStep, TerminateExecution, NotifyOne
  <2>9. ASSUME NEW m \in Macros, Listen(m) \/ ListenerLags(m) \/ StartLags(m) PROVE TypeOK'
    BY <2>9 DEF Listen, ListenerLags, StartLags
  <2>10. ASSUME NEW m \in Macros, NEW k \in Kinds, Spawn(m, k) \/ SpawnFails(m, k) PROVE TypeOK'
    BY <2>10, MacroAssumption DEF Spawn, SpawnFails
  <2>11. ASSUME NEW m \in Macros, SpawnOk(m) \/ StoppedBeforeStarted(m) \/ GiveUpSpawn(m)
         PROVE TypeOK'
    BY <2>11 DEF SpawnOk, StoppedBeforeStarted, GiveUpSpawn, AfterSpawn
  <2>12. ASSUME NEW m \in Macros, OpenExit(m) \/ OpenDetach(m) \/ WaitOver(m) \/ WaitPanics(m)
         PROVE TypeOK'
    BY <2>12 DEF OpenExit, OpenDetach, WaitOver, WaitPanics
  <2>13. CASE UNCHANGED vars
    BY <2>13 DEF vars
  <2>14. QED
    BY <2>1, <2>2, <2>3, <2>4, <2>5, <2>6, <2>7, <2>8, <2>9, <2>10, <2>11, <2>12, <2>13
    DEF Next, ThreadStep, ScriptStep, CallerStep
<1>3. QED
  BY <1>1, <1>2, PTL DEF Spec

-----------------------------------------------------------------------------
(* What a macro's Stopped events, its verdict and its thread say together *)

\* Before its report a thread has sent nothing; after it, it has sent one event
\* and the verdict no longer changes.
ReportInv ==
  \A m \in Macros :
    /\ reports[m] \in {0, 1}
    /\ reports[m] = 1 <=> thread[m] = "done" \/ m \in stoppedSent
    /\ thread[m] = "teardown" => m \in stoppedSent
    /\ thread[m] \notin {"teardown", "caught", "done"} => m \notin stoppedSent
    /\ reports[m] > 0 => exitStatus[m] = verdict[m] \/ m \in unread \/ m \in missed

\* The flag is up before anything the thread can notice of an abort.
AbortInv ==
  /\ \A a \in Aborters : aborter[a] # "rest" => target[a] \in aborted
  /\ terminated \subseteq aborted
  /\ woken \subseteq aborted
  /\ \A m \in Macros :
       thread[m] \in {"none", "setup", "announce", "idle", "busy", "decide"} => verdict[m] = "none"
  /\ \A m \in Macros :
       outcome[m] \in Interrupted =>
         /\ m \in aborted
         /\ verdict[m] \in {"none", "Killed"}
         /\ thread[m] \in {"decide", "report", "teardown", "caught", "done"}
         /\ thread[m] = "caught" => m \in stoppedSent

\* What a caller of spawn knows of its macro.
CallerInv ==
  \A m \in Macros :
    /\ thread[m] = "announce" => m \in handles
    /\ startRx[m] = "Started" => m \in handles
    /\ startRx[m] = "Stopped" => reports[m] > 0
    /\ caller[m] \in {"none", "unspawned"} => thread[m] = "none"
    /\ thread[m] = "none" => outcome[m] = "none"
    /\ caller[m] \in {"waits", "over", "panicked"} => m \in handles
    /\ caller[m] = "failed" => reports[m] > 0

MacroInv == ReportInv /\ AbortInv /\ CallerInv

\* Every step of a thread, an aborter, the listener or a caller keeps the three
\* parts (macro_executor.rs:112-559).
LEMMA MacroStep ==
  ASSUME TypeOK, TypeOK', MacroInv, [Next]_vars
  PROVE  MacroInv'
<1> USE DEF TypeOK, MacroInv, ReportInv, AbortInv, CallerInv, Interrupted, Ends, Hear, threadVars,
            abortVars, exitVars, callVars, rxVars, busVars
<1>1. ASSUME NEW m \in Macros, SetUp(m) PROVE MacroInv'
  BY <1>1, SMTT(20) DEF SetUp
<1>2. ASSUME NEW m \in Macros, SetupFails(m) PROVE MacroInv'
  BY <1>2, SMTT(20) DEF SetupFails
<1>3. ASSUME NEW m \in Macros, SendStarted(m) PROVE MacroInv'
  BY <1>3, SMTT(20) DEF SendStarted, BroadcastStarted
<1>4. ASSUME NEW m \in Macros, Poll(m) PROVE MacroInv'
  BY <1>4, SMTT(20) DEF Poll
<1>5. ASSUME NEW m \in Macros, EmitDetach(m) PROVE MacroInv'
  BY <1>5, SMTT(20) DEF EmitDetach, BroadcastDetach
<1>6. ASSUME NEW m \in Macros, Finish(m) PROVE MacroInv'
  BY <1>6, SMTT(20) DEF Finish
<1>7. ASSUME NEW m \in Macros, Throw(m) PROVE MacroInv'
  BY <1>7, SMTT(20) DEF Throw
<1>8. ASSUME NEW m \in Macros, Terminated(m) PROVE MacroInv'
  BY <1>8, SMTT(20) DEF Terminated
<1>9. ASSUME NEW m \in Macros, Woken(m) PROVE MacroInv'
  BY <1>9, SMTT(20) DEF Woken
<1>10. ASSUME NEW m \in Macros, Decide(m) PROVE MacroInv'
  BY <1>10, SMTT(20) DEF Decide
<1>11. ASSUME NEW m \in Macros, Report(m) PROVE MacroInv'
  BY <1>11, SMTT(20) DEF Report, BroadcastStopped
<1>12. ASSUME NEW m \in Macros, Panic(m) PROVE MacroInv'
  BY <1>12, SMTT(20) DEF Panic
<1>13. ASSUME NEW m \in Macros, Return(m) PROVE MacroInv'
  BY <1>13, SMTT(20) DEF Return
<1>14. ASSUME NEW m \in Macros, ReportPanic(m) PROVE MacroInv'
  BY <1>14, SMTT(20) DEF ReportPanic, BroadcastStopped
<1>15. ASSUME NEW m \in Macros, NEW a \in Aborters, SetFlag(a, m) PROVE MacroInv'
  BY <1>15, SMTT(20) DEF SetFlag
<1>16. ASSUME NEW a \in Aborters, AbortStep(a) PROVE MacroInv'
  BY <1>16, SMTT(20) DEF AbortStep, TerminateExecution, NotifyOne
<1>17. ASSUME NEW m \in Macros, Listen(m) \/ ListenerLags(m) PROVE MacroInv'
  BY <1>17, SMTT(20) DEF Listen, ListenerLags
<1>18. ASSUME NEW m \in Macros, NEW k \in Kinds, Spawn(m, k) PROVE MacroInv'
  BY <1>18, SMTT(20) DEF Spawn
<1>19. ASSUME NEW m \in Macros, NEW k \in Kinds, SpawnFails(m, k) PROVE MacroInv'
  BY <1>19, SMTT(20) DEF SpawnFails
<1>20. ASSUME NEW m \in Macros, StartLags(m) PROVE MacroInv'
  BY <1>20, SMTT(20) DEF StartLags
<1>21. ASSUME NEW m \in Macros, SpawnOk(m) PROVE MacroInv'
  BY <1>21, SMTT(20) DEF SpawnOk, AfterSpawn
<1>22. ASSUME NEW m \in Macros, StoppedBeforeStarted(m) \/ GiveUpSpawn(m) PROVE MacroInv'
  BY <1>22, SMTT(20) DEF StoppedBeforeStarted, GiveUpSpawn
<1>23. ASSUME NEW m \in Macros, OpenExit(m) \/ OpenDetach(m) PROVE MacroInv'
  BY <1>23, SMTT(20) DEF OpenExit, OpenDetach
<1>24. ASSUME NEW m \in Macros, WaitOver(m) \/ WaitPanics(m) PROVE MacroInv'
  BY <1>24, SMTT(20) DEF WaitOver, WaitPanics
<1>25. CASE UNCHANGED vars
  BY <1>25 DEF vars
<1>26. QED
  BY <1>1, <1>2, <1>3, <1>4, <1>5, <1>6, <1>7, <1>8, <1>9, <1>10, <1>11, <1>12, <1>13, <1>14,
     <1>15, <1>16, <1>17, <1>18, <1>19, <1>20, <1>21, <1>22, <1>23, <1>24, <1>25
  DEF Next, ThreadStep, ScriptStep, CallerStep

-----------------------------------------------------------------------------
(* The theorems *)

\* The three parts are invariants of the specification (macro_executor.rs:112-559).
THEOREM Inductive == Spec => [](TypeOK /\ MacroInv)
<1>1. Init => MacroInv
  BY DEF Init, MacroInv, ReportInv, AbortInv, CallerInv, Interrupted
<1>2. TypeOK /\ TypeOK' /\ MacroInv /\ [Next]_vars => MacroInv'
  BY MacroStep
<1>3. QED
  BY <1>1, <1>2, TypeCorrect, PTL DEF Spec

\* Every macro thread reports once, panics included (macro_executor.rs:213-254).
THEOREM OneReport == Spec => []ExactlyOneStopped
<1>1. MacroInv => ExactlyOneStopped
  <2> SUFFICES ASSUME MacroInv, NEW m \in Macros
               PROVE  reports[m] <= 1 /\ (thread[m] = "done" => reports[m] = 1)
    BY DEF ExactlyOneStopped
  <2>1. reports[m] \in {0, 1} /\ (thread[m] = "done" => reports[m] = 1)
    BY DEF MacroInv, ReportInv
  <2>2. QED
    BY <2>1
<1>2. QED
  BY <1>1, Inductive, PTL

\* An interrupted macro is Killed (macro_executor.rs:113-121, 349-371).
THEOREM KilledNotFailed == Spec => []InterruptionIsNoFailure
<1>1. MacroInv => InterruptionIsNoFailure
  BY DEF MacroInv, AbortInv, InterruptionIsNoFailure
<1>2. QED
  BY <1>1, Inductive, PTL

\* A pid that spawn has returned can be aborted (macro_executor.rs:318-336).
THEOREM Abortable == Spec => []SpawnedCanBeAborted
<1>1. MacroInv => SpawnedCanBeAborted
  BY DEF MacroInv, CallerInv, SpawnedCanBeAborted
<1>2. QED
  BY <1>1, Inductive, PTL

\* A failed spawn leaves no macro behind (macro_executor.rs:468-498).
THEOREM FailureIsFinal == Spec => []FailedSpawnLeavesNoMacro
<1>1. TypeOK /\ MacroInv => FailedSpawnLeavesNoMacro
  BY DEF TypeOK, MacroInv, ReportInv, CallerInv, FailedSpawnLeavesNoMacro
<1>2. QED
  BY <1>1, Inductive, PTL

\* Only lag keeps a stopped macro out of the history (macro_executor.rs:382-400).
THEOREM HistoryIsComplete == Spec => []StoppedLeavesTaskList
<1>1. MacroInv => StoppedLeavesTaskList
  BY DEF MacroInv, ReportInv, StoppedLeavesTaskList
<1>2. QED
  BY <1>1, Inductive, PTL
====
