---- MODULE InstanceServerProofs ----
(***************************************************************************)
(* What TLAPS proves of InstanceServer, for any number of callers,         *)
(* processes and players.                                                  *)
(***************************************************************************)
EXTENDS InstanceServer, TLAPS

-----------------------------------------------------------------------------
(* The state table *)

\* What try_transition does for each action, on a state a Minecraft instance
\* can be in (t_server.rs:86-134).
LEMMA TableFacts ==
  ASSUME state \in State \ {"Error"}
  PROVE  /\ Allowed(state, "UserStart") <=> state = "Stopped"
         /\ Allowed(state, "UserStop") <=> state = "Running"
         /\ Transition("UserStart") =>
              state = "Stopped" /\ state' = "Starting" /\ announced' = "Starting"
         /\ Transition("UserStop") =>
              state = "Running" /\ state' = "Stopping" /\ announced' = "Stopping"
         /\ Transition("InstanceStart") => state' = "Running" /\ announced' = "Running"
         /\ Transition("InstanceStop") => state' = "Stopped" /\ announced' = "Stopped"
         /\ TryNewState(state, "UserStop") = "Stopping" <=> state = "Running"
  BY DEF Allowed, Transition, TryNewState, State

\* Delivering an event leaves every receiver in a legal position.
LEMMA DeliverType ==
  ASSUME NEW e, sub \in [Callers -> {"none", "open", "Running", "Stopped"}]
  PROVE  Deliver(e) \in [Callers -> {"none", "open", "Running", "Stopped"}]
  BY DEF Deliver

-----------------------------------------------------------------------------
(* Type correctness *)

\* Overwriting one value keeps a function's type, wherever the argument lies.
LEMMA ExceptType ==
  ASSUME NEW S, NEW T, NEW f \in [S -> T], NEW x, NEW v \in T
  PROVE  [f EXCEPT ![x] = v] \in [S -> T]
  OBVIOUS

\* Every operation keeps the state of an instance well typed (server.rs:31-644).
THEOREM TypeCorrect == Spec => []TypeOK
<1>1. Init => TypeOK
  BY ConstantsAssumption DEF Init, TypeOK, State, Pcs, ReaderPcs, StartPcs
<1>2. TypeOK /\ [Next]_vars => TypeOK'
  <2> SUFFICES ASSUME TypeOK, [Next]_vars PROVE TypeOK'
    OBVIOUS
  <2>1. state \in State \ {"Error"} /\ sub \in [Callers -> {"none", "open", "Running", "Stopped"}]
    BY DEF TypeOK
  <2> USE DEF TypeOK, State, Pcs, ReaderPcs, StartPcs, Return, Goto, Dies, lifeVars, osVars,
              handleVars, readerVars, callerVars
  <2>2. ASSUME NEW c \in Callers, NEW j \in Jobs, Call(c, j) PROVE TypeOK'
    BY <2>2, ConstantsAssumption, SMTT(60) DEF Call, EntryPoint, AllJobs
  <2>3. ASSUME NEW c \in Callers, UserStart(c) PROVE TypeOK'
    BY <2>3, <2>1, TableFacts, DeliverType, SMTT(60) DEF UserStart
  <2>4. ASSUME NEW c \in Callers, EarlyReturn(c) PROVE TypeOK'
    BY <2>4, SMTT(60) DEF EarlyReturn
  <2>5. ASSUME NEW c \in Callers, PortFree(c) PROVE TypeOK'
    BY <2>5, SMTT(60) DEF PortFree
  <2>6. ASSUME NEW c \in Callers, PrelaunchOver(c) PROVE TypeOK'
    BY <2>6, SMTT(60) DEF PrelaunchOver
  <2>7. ASSUME NEW c \in Callers, SpawnFails(c) PROVE TypeOK'
    BY <2>7, <2>1, TableFacts, DeliverType, SMTT(60) DEF SpawnFails
  <2>8. ASSUME NEW c \in Callers, NEW p \in Procs, Spawn(c, p) PROVE TypeOK'
    BY <2>8, SMTT(60) DEF Spawn
  <2>9. ASSUME NEW c \in Callers, StoreStdin(c) PROVE TypeOK'
    BY <2>9, SMTT(60) DEF StoreStdin
  <2>10. ASSUME NEW c \in Callers, StoreProcess(c) PROVE TypeOK'
    <3>1. reader' \in [Procs -> ReaderPcs]
      <4>1. reader \in [Procs -> ReaderPcs] /\ "read" \in ReaderPcs
        OBVIOUS
      <4>2. [reader EXCEPT ![mine[c]] = "read"] \in [Procs -> ReaderPcs]
        BY ONLY <4>1, ExceptType
      <4>3. QED
        BY <2>10, <4>2 DEF StoreProcess
    <3>2. pc' \in [Callers -> Pcs] /\ process' \in Procs \union {NoProc}
      BY <2>10, SMTT(60) DEF StoreProcess
    <3>3. UNCHANGED <<lifeVars, osVars, stdin, procLock, started, rcon, players, job, mine, sub, history>>
      BY <2>10 DEF StoreProcess
    <3>4. QED
      BY <3>1, <3>2, <3>3, SMTT(60)
  <2>11. ASSUME NEW c \in Callers, Persist(c) PROVE TypeOK'
    BY <2>11, SMTT(60) DEF Persist
  <2>12. ASSUME NEW c \in Callers, StartWaitOver(c) PROVE TypeOK'
    BY <2>12, SMTT(60) DEF StartWaitOver
  <2>13. ASSUME NEW c \in Callers, WaitLagged(c) PROVE TypeOK'
    BY <2>13, SMTT(60) DEF WaitLagged
  <2>14. ASSUME NEW c \in Callers, UserStop(c) PROVE TypeOK'
    BY <2>14, <2>1, TableFacts, DeliverType, SMTT(60) DEF UserStop
  <2>15. ASSUME NEW c \in Callers, WriteStop(c) PROVE TypeOK'
    BY <2>15, SMTT(60) DEF WriteStop
  <2>16. ASSUME NEW c \in Callers, DropRcon(c) PROVE TypeOK'
    BY <2>16, SMTT(60) DEF DropRcon
  <2>17. ASSUME NEW c \in Callers, StopWaitOver(c) PROVE TypeOK'
    BY <2>17, SMTT(60) DEF StopWaitOver
  <2>18. ASSUME NEW c \in Callers, KillCheck(c) PROVE TypeOK'
    BY <2>18, SMTT(60) DEF KillCheck
  <2>19. ASSUME NEW c \in Callers, KillNothing(c) PROVE TypeOK'
    BY <2>19, SMTT(60) DEF KillNothing
  <2>20. ASSUME NEW c \in Callers, KillRefused(c) PROVE TypeOK'
    BY <2>20, SMTT(60) DEF KillRefused
  <2>21. ASSUME NEW c \in Callers, KillSignal(c) PROVE TypeOK'
    BY <2>21, SMTT(60) DEF KillSignal
  <2>22. ASSUME NEW c \in Callers, KillReap(c) PROVE TypeOK'
    <3>1. procs' \in [Procs -> {"none", "up", "dead", "reaped"}]
      <4>1. procs \in [Procs -> {"none", "up", "dead", "reaped"}]
        OBVIOUS
      <4>2. [procs EXCEPT ![process] = "reaped"] \in [Procs -> {"none", "up", "dead", "reaped"}]
        BY <4>1, ExceptType
      <4>3. QED
        BY <2>22, <4>2 DEF KillReap
    <3>2. pc' \in [Callers -> Pcs] /\ procLock' = "free"
      BY <2>22, SMTT(60) DEF KillReap
    <3>3. UNCHANGED <<lifeVars, bound, stopReq, printed, process, stdin, readerVars, job, mine, sub, history>>
      BY <2>22 DEF KillReap
    <3>4. QED
      BY <3>1, <3>2, <3>3, SMTT(60)
  <2>23. ASSUME NEW c \in Callers, KillSet(c) PROVE TypeOK'
    BY <2>23, SMTT(60) DEF KillSet
  <2>24. ASSUME NEW c \in Callers, KillSend(c) PROVE TypeOK'
    BY <2>24, <2>1, DeliverType, SMTT(60) DEF KillSend
  <2>25. ASSUME NEW c \in Callers, Cancel(c) PROVE TypeOK'
    BY <2>25, SMTT(60) DEF Cancel
  <2>26. CASE ConsoleStop
    BY <2>26, <2>1, TableFacts, DeliverType, SMTT(60) DEF ConsoleStop
  <2>27. ASSUME NEW p \in Procs, ServerStep(p) PROVE TypeOK'
    <3>1. CASE Bind(p)
      BY <3>1, SMTT(60) DEF Bind
    <3>2. CASE PrintReady(p)
      BY <3>2, SMTT(60) DEF PrintReady
    <3>3. CASE Exit(p)
      <4>1. procs' \in [Procs -> {"none", "up", "dead", "reaped"}]
        BY <3>3, SMTT(60) DEF Exit
      <4>2. QED
        BY <3>3, <4>1, SMTT(60) DEF Exit
    <3>4. QED
      BY <2>27, <3>1, <3>2, <3>3 DEF ServerStep
  <2>28. ASSUME NEW p \in Procs, ReadReady(p) PROVE TypeOK'
    BY <2>28, SMTT(60) DEF ReadReady
  <2>29. ASSUME NEW p \in Procs, ConnectRcon(p) PROVE TypeOK'
    BY <2>29, SMTT(60) DEF ConnectRcon
  <2>30. ASSUME NEW p \in Procs, ClearPlayers(p) PROVE TypeOK'
    BY <2>30, SMTT(60) DEF ClearPlayers
  <2>31. ASSUME NEW p \in Procs, TakeRcon(p) PROVE TypeOK'
    BY <2>31, SMTT(60) DEF TakeRcon
  <2>32. ASSUME NEW p \in Procs, BecomeRunning(p) PROVE TypeOK'
    BY <2>32, <2>1, TableFacts, DeliverType, SMTT(60) DEF BecomeRunning
  <2>33. ASSUME NEW p \in Procs, Eof(p) PROVE TypeOK'
    BY <2>33, <2>1, TableFacts, DeliverType, SMTT(60) DEF Eof
  <2>34. ASSUME NEW p \in Procs, NEW n \in Players, PlayerLine(p, n) PROVE TypeOK'
    BY <2>34, SMTT(60) DEF PlayerLine
  <2>35. CASE UNCHANGED vars
    BY <2>35 DEF vars
  <2>36. QED
    BY <2>2, <2>3, <2>4, <2>5, <2>6, <2>7, <2>8, <2>9, <2>10, <2>11, <2>12, <2>13, <2>14,
       <2>15, <2>16, <2>17, <2>18, <2>19, <2>20, <2>21, <2>22, <2>23, <2>24, <2>25, <2>26,
       <2>27, <2>28, <2>29, <2>30, <2>31, <2>32, <2>33, <2>34, <2>35
    DEF Next, StartStep, StopStep, KillStep, ReaderStep
<1>3. QED
  BY <1>1, <1>2, PTL DEF Spec

-----------------------------------------------------------------------------
(* Every busy state has somebody to end it *)

\* The program points between a spawn and the reader task it leaves behind.
SpawnedPcs == {"s_stdin", "s_process"}

\* The inductive strengthening of RunningHasReader, StartingHasOwner,
\* EventsMirrorState and SessionHasReader.
OwnerInv ==
  /\ \A p \in Procs : reader[p] = "ready" => p \in started
  /\ \A c \in Callers : pc[c] \in SpawnedPcs => mine[c] \in Procs
  /\ \A c \in Callers : pc[c] = "k_send" => Killed
  /\ RunningHasReader
  /\ StartingHasOwner
  /\ EventsMirrorState
  /\ players # {} => \E p \in Procs : Reading(p) \/ reader[p] = "clear"
  /\ rcon = "some" => \E p \in Procs : Reading(p) \/ reader[p] \in {"clear", "untake"}

\* At most one start or one server at a time, as long as nobody has killed.
SoloInv ==
  ~Killed =>
    /\ \A c, d \in Callers : InFlight(c) /\ InFlight(d) => c = d
    /\ \A c \in Callers : InFlight(c) => state = "Starting"
    /\ \A c \in Callers, p \in Procs : InFlight(c) => ~Reading(p)
    /\ \A c \in Callers, p \in Procs :
         InFlight(c) /\ procs[p] = "up" => pc[c] \in SpawnedPcs /\ mine[c] = p
    /\ \A p, q \in Procs : Reading(p) /\ Reading(q) => p = q
    /\ \A p, q \in Procs : procs[p] = "up" /\ Reading(q) => p = q
    /\ \A p, q \in Procs : procs[p] = "up" /\ procs[q] = "up" => p = q
    /\ \A p \in Procs : Reading(p) \/ procs[p] = "up" => state # "Stopped"
    /\ \A p \in Procs : Reading(p) /\ (p \notin started \/ reader[p] = "ready")
                          => state = "Starting"
\* Every step of an instance keeps its busy states owned (server.rs:31-644).
LEMMA OwnerStep ==
  ASSUME TypeOK, TypeOK', OwnerInv, [Next]_vars
  PROVE  OwnerInv'
<1> USE DEF TypeOK, OwnerInv, RunningHasReader, StartingHasOwner, EventsMirrorState, Killed, Reading,
           InFlight, StartPcs, SpawnedPcs, Return, Goto, Dies, lifeVars, osVars, handleVars, readerVars, callerVars
<1>1. state \in State \ {"Error"}
  OBVIOUS
<1>2. ASSUME NEW c \in Callers, NEW j \in Jobs, Call(c, j) PROVE OwnerInv'
  BY <1>2, SMTT(20) DEF Call, EntryPoint
<1>3. ASSUME NEW c \in Callers, UserStart(c) PROVE OwnerInv'
  BY <1>3, <1>1, TableFacts, SMTT(20) DEF UserStart
<1>4. ASSUME NEW c \in Callers, PortFree(c) PROVE OwnerInv'
  BY <1>4, SMTT(20) DEF PortFree
<1>5. ASSUME NEW c \in Callers, EarlyReturn(c) PROVE OwnerInv'
  BY <1>5, SMTT(20) DEF EarlyReturn
<1>6. ASSUME NEW c \in Callers, PrelaunchOver(c) PROVE OwnerInv'
  BY <1>6, SMTT(20) DEF PrelaunchOver
<1>7. ASSUME NEW c \in Callers, SpawnFails(c) PROVE OwnerInv'
  BY <1>7, <1>1, TableFacts, SMTT(20) DEF SpawnFails
<1>8. ASSUME NEW c \in Callers, NEW p \in Procs, Spawn(c, p) PROVE OwnerInv'
  BY <1>8, SMTT(20) DEF Spawn
<1>9. ASSUME NEW c \in Callers, StoreStdin(c) PROVE OwnerInv'
  BY <1>9, SMTT(20) DEF StoreStdin
<1>10. ASSUME NEW c \in Callers, StoreProcess(c) PROVE OwnerInv'
  BY <1>10, SMTT(20) DEF StoreProcess
<1>11. ASSUME NEW c \in Callers, Persist(c) PROVE OwnerInv'
  BY <1>11, SMTT(20) DEF Persist
<1>12. ASSUME NEW c \in Callers, StartWaitOver(c) PROVE OwnerInv'
  BY <1>12, SMTT(20) DEF StartWaitOver
<1>13. ASSUME NEW c \in Callers, WaitLagged(c) PROVE OwnerInv'
  BY <1>13, SMTT(20) DEF WaitLagged
<1>14. ASSUME NEW c \in Callers, UserStop(c) PROVE OwnerInv'
  BY <1>14, <1>1, TableFacts, SMTT(20) DEF UserStop
<1>15. ASSUME NEW c \in Callers, WriteStop(c) PROVE OwnerInv'
  BY <1>15, SMTT(20) DEF WriteStop
<1>16. ASSUME NEW c \in Callers, DropRcon(c) PROVE OwnerInv'
  BY <1>16, SMTT(20) DEF DropRcon
<1>17. ASSUME NEW c \in Callers, StopWaitOver(c) PROVE OwnerInv'
  BY <1>17, SMTT(20) DEF StopWaitOver
<1>18. ASSUME NEW c \in Callers, KillCheck(c) PROVE OwnerInv'
  BY <1>18, SMTT(20) DEF KillCheck
<1>19. ASSUME NEW c \in Callers, KillNothing(c) PROVE OwnerInv'
  BY <1>19, SMTT(20) DEF KillNothing
<1>20. ASSUME NEW c \in Callers, KillRefused(c) PROVE OwnerInv'
  BY <1>20, SMTT(20) DEF KillRefused
<1>21. ASSUME NEW c \in Callers, KillSignal(c) PROVE OwnerInv'
  BY <1>21, SMTT(20) DEF KillSignal
<1>22. ASSUME NEW c \in Callers, KillReap(c) PROVE OwnerInv'
  BY <1>22, SMTT(20) DEF KillReap
<1>23. ASSUME NEW c \in Callers, KillSet(c) PROVE OwnerInv'
  BY <1>23, SMTT(20) DEF KillSet
<1>24. ASSUME NEW c \in Callers, KillSend(c) PROVE OwnerInv'
  BY <1>24, SMTT(20) DEF KillSend
<1>25. ASSUME NEW c \in Callers, Cancel(c) PROVE OwnerInv'
  BY <1>25, SMTT(20) DEF Cancel
<1>26. CASE ConsoleStop
  BY <1>26, <1>1, TableFacts, SMTT(20) DEF ConsoleStop
<1>27. ASSUME NEW p \in Procs, Bind(p) PROVE OwnerInv'
  BY <1>27, SMTT(20) DEF Bind
<1>28. ASSUME NEW p \in Procs, PrintReady(p) PROVE OwnerInv'
  BY <1>28, SMTT(20) DEF PrintReady
<1>29. ASSUME NEW p \in Procs, Exit(p) PROVE OwnerInv'
  BY <1>29, SMTT(20) DEF Exit
<1>30. ASSUME NEW p \in Procs, ReadReady(p) PROVE OwnerInv'
  BY <1>30, SMTT(20) DEF ReadReady
<1>31. ASSUME NEW p \in Procs, BecomeRunning(p) PROVE OwnerInv'
  BY <1>31, <1>1, TableFacts, SMTT(20) DEF BecomeRunning
<1>32. ASSUME NEW p \in Procs, ConnectRcon(p) PROVE OwnerInv'
  BY <1>32, SMTT(20) DEF ConnectRcon
<1>33. ASSUME NEW p \in Procs, Eof(p) PROVE OwnerInv'
  BY <1>33, <1>1, TableFacts, SMTT(20) DEF Eof
<1>34. ASSUME NEW p \in Procs, ClearPlayers(p) PROVE OwnerInv'
  BY <1>34, SMTT(20) DEF ClearPlayers
<1>35. ASSUME NEW p \in Procs, TakeRcon(p) PROVE OwnerInv'
  BY <1>35, SMTT(20) DEF TakeRcon
<1>36. ASSUME NEW p \in Procs, NEW n \in Players, PlayerLine(p, n) PROVE OwnerInv'
  BY <1>36, SMTT(20) DEF PlayerLine
<1>37. CASE UNCHANGED vars
  BY <1>37 DEF vars
<1>38. QED
  BY <1>2, <1>3, <1>4, <1>5, <1>6, <1>7, <1>8, <1>9, <1>10, <1>11, <1>12, <1>13, <1>14, <1>15,
     <1>16, <1>17, <1>18, <1>19, <1>20, <1>21, <1>22, <1>23, <1>24, <1>25, <1>26, <1>27, <1>28,
     <1>29, <1>30, <1>31, <1>32, <1>33, <1>34, <1>35, <1>36, <1>37
  DEF Next, StartStep, StopStep, KillStep, ServerStep, ReaderStep

\* Every step keeps starts and servers single until a kill (server.rs:31-644).
LEMMA SoloStep ==
  ASSUME TypeOK, OwnerInv, SoloInv, [Next]_vars
  PROVE  SoloInv'
<1> USE DEF TypeOK, SoloInv, Killed, Reading, InFlight, StartPcs, SpawnedPcs,
            Return, Goto, Dies, Fresh, Exited, lifeVars, osVars, handleVars, readerVars, callerVars
<1>1. state \in State \ {"Error"}
  OBVIOUS
<1>2. /\ \A p \in Procs : reader[p] = "ready" => p \in started
      /\ \A c \in Callers : pc[c] \in SpawnedPcs => mine[c] \in Procs
  BY DEF OwnerInv
<1>3. ASSUME NEW c \in Callers, NEW j \in Jobs, Call(c, j) PROVE SoloInv'
  BY <1>3, SMTT(20) DEF Call, EntryPoint
<1>4. ASSUME NEW c \in Callers, UserStart(c) PROVE SoloInv'
  BY <1>4, <1>1, TableFacts, SMTT(20) DEF UserStart
<1>5. ASSUME NEW c \in Callers, PortFree(c) PROVE SoloInv'
  BY <1>5, SMTT(20) DEF PortFree
<1>6. ASSUME NEW c \in Callers, EarlyReturn(c) PROVE SoloInv'
  BY <1>6, SMTT(20) DEF EarlyReturn
<1>7. ASSUME NEW c \in Callers, PrelaunchOver(c) PROVE SoloInv'
  BY <1>7, SMTT(20) DEF PrelaunchOver
<1>8. ASSUME NEW c \in Callers, SpawnFails(c) PROVE SoloInv'
  BY <1>8, <1>1, TableFacts, SMTT(20) DEF SpawnFails
<1>9. ASSUME NEW c \in Callers, NEW p \in Procs, Spawn(c, p) PROVE SoloInv'
  BY <1>9, <1>2, SMTT(20) DEF Spawn
<1>10. ASSUME NEW c \in Callers, StoreStdin(c) PROVE SoloInv'
  BY <1>10, <1>2, SMTT(20) DEF StoreStdin
<1>11. ASSUME NEW c \in Callers, StoreProcess(c) PROVE SoloInv'
  BY <1>11, <1>2, SMTT(20) DEF StoreProcess
<1>12. ASSUME NEW c \in Callers, Persist(c) PROVE SoloInv'
  BY <1>12, SMTT(20) DEF Persist
<1>13. ASSUME NEW c \in Callers, StartWaitOver(c) PROVE SoloInv'
  BY <1>13, SMTT(20) DEF StartWaitOver
<1>14. ASSUME NEW c \in Callers, WaitLagged(c) PROVE SoloInv'
  BY <1>14, SMTT(20) DEF WaitLagged
<1>15. ASSUME NEW c \in Callers, UserStop(c) PROVE SoloInv'
  BY <1>15, <1>1, TableFacts, SMTT(20) DEF UserStop
<1>16. ASSUME NEW c \in Callers, WriteStop(c) PROVE SoloInv'
  BY <1>16, SMTT(20) DEF WriteStop
<1>17. ASSUME NEW c \in Callers, DropRcon(c) PROVE SoloInv'
  BY <1>17, SMTT(20) DEF DropRcon
<1>18. ASSUME NEW c \in Callers, StopWaitOver(c) PROVE SoloInv'
  BY <1>18, SMTT(20) DEF StopWaitOver
<1>19. ASSUME NEW c \in Callers, KillCheck(c) PROVE SoloInv'
  BY <1>19, SMTT(20) DEF KillCheck
<1>20. ASSUME NEW c \in Callers, KillNothing(c) PROVE SoloInv'
  BY <1>20, SMTT(20) DEF KillNothing
<1>21. ASSUME NEW c \in Callers, KillRefused(c) PROVE SoloInv'
  BY <1>21, SMTT(20) DEF KillRefused
<1>22. ASSUME NEW c \in Callers, KillSignal(c) PROVE SoloInv'
  BY <1>22, SMTT(20) DEF KillSignal
<1>23. ASSUME NEW c \in Callers, KillReap(c) PROVE SoloInv'
  BY <1>23, SMTT(20) DEF KillReap
<1>24. ASSUME NEW c \in Callers, KillSet(c) PROVE SoloInv'
  BY <1>24, SMTT(20) DEF KillSet
<1>25. ASSUME NEW c \in Callers, KillSend(c) PROVE SoloInv'
  BY <1>25, SMTT(20) DEF KillSend
<1>26. ASSUME NEW c \in Callers, Cancel(c) PROVE SoloInv'
  BY <1>26, <1>2, SMTT(20) DEF Cancel
<1>27. CASE ConsoleStop
  BY <1>27, <1>1, TableFacts, SMTT(20) DEF ConsoleStop
<1>28. ASSUME NEW p \in Procs, Bind(p) PROVE SoloInv'
  BY <1>28, SMTT(20) DEF Bind
<1>29. ASSUME NEW p \in Procs, PrintReady(p) PROVE SoloInv'
  BY <1>29, SMTT(20) DEF PrintReady
<1>30. ASSUME NEW p \in Procs, Exit(p) PROVE SoloInv'
  BY <1>30, SMTT(20) DEF Exit
<1>31. ASSUME NEW p \in Procs, ReadReady(p) PROVE SoloInv'
  BY <1>31, SMTT(20) DEF ReadReady
<1>32. ASSUME NEW p \in Procs, BecomeRunning(p) PROVE SoloInv'
  BY <1>32, <1>1, TableFacts, <1>2, SMTT(20) DEF BecomeRunning
<1>33. ASSUME NEW p \in Procs, ConnectRcon(p) PROVE SoloInv'
  BY <1>33, SMTT(20) DEF ConnectRcon
<1>34. ASSUME NEW p \in Procs, Eof(p) PROVE SoloInv'
  BY <1>34, <1>1, TableFacts, SMTT(20) DEF Eof
<1>35. ASSUME NEW p \in Procs, ClearPlayers(p) PROVE SoloInv'
  BY <1>35, SMTT(20) DEF ClearPlayers
<1>36. ASSUME NEW p \in Procs, TakeRcon(p) PROVE SoloInv'
  BY <1>36, SMTT(20) DEF TakeRcon
<1>37. ASSUME NEW p \in Procs, NEW n \in Players, PlayerLine(p, n) PROVE SoloInv'
  BY <1>37, SMTT(20) DEF PlayerLine
<1>38. CASE UNCHANGED vars
  BY <1>38 DEF vars
<1>39. QED
  BY <1>3, <1>4, <1>5, <1>6, <1>7, <1>8, <1>9, <1>10, <1>11, <1>12, <1>13, <1>14, <1>15, <1>16,
     <1>17, <1>18, <1>19, <1>20, <1>21, <1>22, <1>23, <1>24, <1>25, <1>26, <1>27, <1>28, <1>29,
     <1>30, <1>31, <1>32, <1>33, <1>34, <1>35, <1>36, <1>37, <1>38
  DEF Next, StartStep, StopStep, KillStep, ServerStep, ReaderStep

-----------------------------------------------------------------------------
(* The theorems *)

\* The two strengthenings are invariants of the specification (server.rs:31-644).
THEOREM Inductive == Spec => [](TypeOK /\ OwnerInv /\ SoloInv)
<1>1. Init => OwnerInv /\ SoloInv
  BY DEF Init, OwnerInv, SoloInv, RunningHasReader, StartingHasOwner, EventsMirrorState, InFlight,
         Reading, StartPcs, SpawnedPcs, Killed
<1>2. TypeOK /\ TypeOK' /\ OwnerInv /\ SoloInv /\ [Next]_vars => OwnerInv' /\ SoloInv'
  BY OwnerStep, SoloStep
<1>3. QED
  BY <1>1, <1>2, TypeCorrect, PTL DEF Spec

\* An instance shown as Running or Stopping has a reader task that will report
\* its end, whatever callers, crashes and kills do (server.rs:237-470).
THEOREM RunningIsWatched == Spec => []RunningHasReader
<1>1. OwnerInv => RunningHasReader
  BY DEF OwnerInv
<1>2. QED
  BY <1>1, Inductive, PTL

\* Only an early return of start leaves Starting with nobody to end it
\* (server.rs:50-195).
THEOREM StartingIsOwned == Spec => []StartingHasOwner
<1>1. OwnerInv => StartingHasOwner
  BY DEF OwnerInv
<1>2. QED
  BY <1>1, Inductive, PTL

\* Until a kill, events tell the stored state (t_server.rs:86-134).
THEOREM EventsTellState == Spec => []EventsMirrorState
<1>1. OwnerInv => EventsMirrorState
  BY DEF OwnerInv
<1>2. QED
  BY <1>1, Inductive, PTL

\* Players and RCON connections never outlive every reader (server.rs:300-468).
THEOREM SessionIsOwned == Spec => []SessionHasReader
<1>1. OwnerInv => SessionHasReader
  BY DEF OwnerInv, SessionHasReader
<1>2. QED
  BY <1>1, Inductive, PTL

\* Until a kill there is one live server process at most (server.rs:31-236).
THEOREM SingleProcess == Spec => []SingleProcessUnlessKilled
<1>1. SoloInv => SingleProcessUnlessKilled
  BY DEF SoloInv, SingleProcessUnlessKilled
<1>2. QED
  BY <1>1, Inductive, PTL

\* Until a kill, Running is entered from Starting only (server.rs:300-330).
THEOREM RunningEntry == Spec => RunningOnlyFromStarting
<1> DEFINE Entered == state' = "Running" /\ state # "Running" => state = "Starting" \/ Killed
<1>1. TypeOK /\ SoloInv /\ [Next]_vars => Entered
  <2> SUFFICES ASSUME TypeOK, SoloInv, [Next]_vars, state' = "Running", state # "Running", ~Killed
               PROVE  state = "Starting"
    OBVIOUS
  <2>1. state \in State \ {"Error"}
    BY DEF TypeOK
  <2>2. \E p \in Procs : BecomeRunning(p)
    <3>1. ASSUME NEW c \in Callers, UserStart(c) \/ SpawnFails(c) \/ UserStop(c) \/ KillSet(c)
          PROVE FALSE
      BY <3>1, <2>1, TableFacts DEF UserStart, SpawnFails, UserStop, KillSet, lifeVars
    <3>2. ASSUME NEW p \in Procs, Eof(p) PROVE FALSE
      BY <3>2, <2>1, TableFacts DEF Eof
    <3>3. CASE UNCHANGED vars
      BY <3>3 DEF vars, lifeVars
    <3>4. CASE Next
      BY <3>1, <3>2, <3>4
      DEF Next, StartStep, StopStep, KillStep, ServerStep, ReaderStep, lifeVars, Call, PortFree,
          EarlyReturn, PrelaunchOver, Spawn, StoreStdin, StoreProcess, Persist,
          StartWaitOver, WaitLagged, WriteStop, DropRcon, StopWaitOver, ConsoleStop, KillCheck,
          KillNothing, KillRefused, KillSignal, KillReap, KillSend, Cancel, Bind, PrintReady, Exit,
          ReadReady, ConnectRcon, PlayerLine, ClearPlayers, TakeRcon
    <3>5. QED
      BY <3>3, <3>4
  <2>3. QED
    BY <2>2 DEF SoloInv, BecomeRunning, Reading
<1>2. QED
  BY <1>1, Inductive, PTL DEF Spec, RunningOnlyFromStarting

\* The instance implements the abstract lifecycle: whatever concurrent callers
\* and readers do, the state moves along the table, a kill's forced write apart,
\* and each transition is announced in the step that makes it (t_server.rs:86-134).
THEOREM Refinement == Spec => ImplementsLifecycle
<1>1. Init => Lifecycle!Init
  BY DEF Init, Lifecycle!Init
<1>2. [Next]_vars => [Lifecycle!Next]_(Lifecycle!vars)
  <2> SUFFICES ASSUME Next PROVE [Lifecycle!Next]_(Lifecycle!vars)
    BY DEF vars, lifeVars, Lifecycle!vars
  <2> DEFINE Abstract == [Lifecycle!Next]_(Lifecycle!vars)
             Stutter  == UNCHANGED lifeVars
  <2>1. ASSUME NEW a \in StateAction, Transition(a) PROVE Abstract
    BY <2>1 DEF Transition, StateAction, Allowed, State, TryNewState, Lifecycle!Next, Lifecycle!Transition,
       Lifecycle!Allowed, Lifecycle!State, Lifecycle!StateAction, Lifecycle!TryNewState
  <2>2. Stutter => Abstract
    BY DEF lifeVars, Lifecycle!vars
  <2>3. \A a \in {"UserStart", "UserStop", "InstanceStart", "InstanceStop"} : a \in StateAction
    BY DEF StateAction
  <2>4. ASSUME NEW c \in Callers, StartStep(c) PROVE Abstract
    BY <2>1, <2>2, <2>3, <2>4
    DEF StartStep, UserStart, SpawnFails, PortFree, EarlyReturn, PrelaunchOver,
        Spawn, StoreStdin, StoreProcess, Persist, StartWaitOver
  <2>5. ASSUME NEW c \in Callers, StopStep(c) PROVE Abstract
    BY <2>1, <2>2, <2>3, <2>5 DEF StopStep, UserStop, WriteStop, DropRcon, StopWaitOver
  <2>6. ASSUME NEW c \in Callers, KillSet(c) \/ KillSend(c) PROVE Abstract
    BY <2>6 DEF KillSet, KillSend, Lifecycle!Next, Lifecycle!Force, Lifecycle!AnnounceForced
  <2>7. ASSUME NEW c \in Callers, KillStep(c) PROVE Abstract
    BY <2>2, <2>6, <2>7 DEF KillStep, KillCheck, KillNothing, KillRefused, KillSignal, KillReap
  <2>8. ASSUME ConsoleStop PROVE Abstract
    BY <2>8 DEF ConsoleStop, Allowed, State, TryNewState, Lifecycle!Next, Lifecycle!AnnounceConsoleStop,
       Lifecycle!Allowed, Lifecycle!State, Lifecycle!TryNewState
  <2>9. ASSUME NEW p \in Procs, ReaderStep(p) PROVE Abstract
    BY <2>1, <2>2, <2>3, <2>9
    DEF ReaderStep, BecomeRunning, Eof, ReadReady, ConnectRcon, ClearPlayers, TakeRcon
  <2>10. ASSUME NEW p \in Procs, ServerStep(p) PROVE Stutter
    BY <2>10 DEF ServerStep, Bind, PrintReady, Exit
  <2>11. ASSUME NEW p \in Procs, NEW n \in Players, PlayerLine(p, n) PROVE Stutter
    BY <2>11 DEF PlayerLine
  <2>12. ASSUME NEW c \in Callers, (\E j \in Jobs : Call(c, j)) \/ WaitLagged(c) \/ Cancel(c)
         PROVE Stutter
    BY <2>12 DEF Call, WaitLagged, Cancel
  <2>13. QED
    BY <2>2, <2>4, <2>5, <2>7, <2>8, <2>9, <2>10, <2>11, <2>12 DEF Next
<1>3. QED
  BY <1>1, <1>2, PTL DEF Spec, ImplementsLifecycle, Lifecycle!Spec
====
