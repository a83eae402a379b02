---- MODULE SettingsProofs ----
(***************************************************************************)
(* Proofs about MinecraftSettings, for any number of clients, any requests *)
(* and any edits by hand, and about MacroSettings, for any macros.         *)
(*                                                                         *)
(* The config file follows the config in memory because whoever changes    *)
(* config is about to save it, and saves it alone unless a write of a      *)
(* client that hung up is still to come (SaveInv).  server.jar is the      *)
(* version that config names because of a fact about all clients: while no *)
(* two changes of version overlap, a jar that does not match belongs to    *)
(* the one client that has renamed it and is about to store its version    *)
(* (JarInv).                                                               *)
(*                                                                         *)
(* What is said of the lines of server.properties rests on what the        *)
(* manifest can hold at all (ManifestInv) and, for a request that no other *)
(* overlaps, on the manifest having every line of the file that can be     *)
(* read from the moment it was read (KeptInv).                             *)
(*                                                                         *)
(* The configs of a macro fit because validated entries have as many names *)
(* as the class and none that it lacks, so all of them                     *)
(* (ValidatedEntries).                                                     *)
(***************************************************************************)
EXTENDS MinecraftSettings, MacroSettings, FiniteSetTheorems, TLAPS

(* The config file and the jar *)

\* What the proofs need of the types.
ShapeInv ==
  /\ at \in [Clients -> Stages]
  /\ req \in [Clients -> Requests \union {NoRequest}]
  /\ "version" \in DOMAIN config
  /\ configFile = [status |-> configFile.status, content |-> configFile.content]
  /\ "version" \in DOMAIN configFile.content
  /\ \A w \in lateConfig :
       /\ w = [content |-> w.content, opened |-> w.opened]
       /\ "version" \in DOMAIN w.content

\* A program that is down has no requests, and no thread of it goes on.
DownInv ==
  ~alive => lateConfig = {} /\ lateJar = {} /\ \A c \in Clients : at[c] = "idle"

\* Who waits for the config file, or for the jar's address, has locked config.
LockInv == \A c \in Clients : at[c] \in {"write_config", "find_jar"} => cfgLock = c

\* A write that comes late is known to be unsaved; unless there is one, the file
\* that is being written is empty.
SaveInv ==
  ~unsaved => /\ lateConfig = {}
              /\ \A c \in Clients : at[c] = "write_config" => configFile.status = "empty"

Versioning(c) == at[c] \in {"check", "find_jar", "rename_jar", "set_version"}

\* The jar is the version of config, or that of the change about to store it.
JarHasAReason ==
  \/ jar = config.version /\ \A c \in Clients : at[c] # "set_version"
  \/ \E c \in Clients : at[c] = "set_version" /\ jar = req[c].val.v

JarInv ==
  /\ \A c \in Clients : Versioning(c) => req[c].op = "version"
  /\ ~swapped =>
       /\ lateJar = {}
       /\ \A c, d \in Clients : Versioning(c) /\ Versioning(d) => c = d
       /\ alive => JarHasAReason
       /\ ~alive => jar = configFile.content.version

IInv == ShapeInv /\ DownInv /\ LockInv /\ SaveInv /\ DiskMatchesMemory /\ JarInv

-----------------------------------------------------------------------------
\* Where a request goes first, and that only a change of version goes to "check".
LEMMA FirstStage ==
  ASSUME NEW r \in Requests
  PROVE  /\ FirstStep[r.op] \in {"clear", "read", "set_port", "set_label", "check"}
         /\ FirstStep[r.op] = "check" => r.op = "version"
<1>1. r.op \in {"view", "update", "port", "label", "version"}
  BY RequestsAssumption DEF Request
<1> QED
  BY <1>1 DEF FirstStep

\* Initially the file is what the program has written before (mod.rs:678).
LEMMA InitOK == SetInit => IInv
<1> SUFFICES ASSUME SetInit PROVE IInv
  OBVIOUS
<1>1. config.version = 1 /\ "version" \in DOMAIN config
  BY DEF SetInit
<1>2. /\ configFile.status = "whole" /\ configFile.content = config
      /\ configFile = [status |-> configFile.status, content |-> configFile.content]
  BY DEF SetInit
<1>3. ShapeInv
  BY <1>1, <1>2 DEF ShapeInv, SetInit, Stages
<1>4. DownInv /\ LockInv /\ SaveInv /\ DiskMatchesMemory
  BY DEF DownInv, LockInv, SaveInv, DiskMatchesMemory, SetInit
<1>5. JarInv
  BY <1>1 DEF JarInv, JarHasAReason, Versioning, SetInit
<1> QED
  BY <1>3, <1>4, <1>5 DEF IInv

\* Every step keeps the shape of the state.
LEMMA ShapeStep ==
  ASSUME IInv, [SetNext]_setVars
  PROVE  ShapeInv'
<1>1. ShapeInv
  BY DEF IInv
<1> USE DEF ShapeInv, Stages, fileVars, lateVars, clientVars, reqVars
<1>2. ASSUME NEW c \in Clients, NEW r \in Requests, Begin(c, r) PROVE ShapeInv'
  BY <1>1, <1>2, FirstStage DEF Begin
<1>3. ASSUME NEW c \in Clients, Clear(c) PROVE ShapeInv'
  BY <1>1, <1>3 DEF Clear, Goto
<1>4. ASSUME NEW c \in Clients, ReadFile(c) PROVE ShapeInv'
  BY <1>1, <1>4 DEF ReadFile, Goto
<1>5. ASSUME NEW c \in Clients, Apply(c) PROVE ShapeInv'
  BY <1>1, <1>5 DEF Apply, Goto
<1>6. ASSUME NEW c \in Clients, SetValue(c) PROVE ShapeInv'
  BY <1>1, <1>6 DEF SetValue, Goto
<1>7. ASSUME NEW c \in Clients, Sync(c) PROVE ShapeInv'
  BY <1>1, <1>7 DEF Sync, Goto, SyncedConfig
<1>8. ASSUME NEW c \in Clients, Unwind(c) PROVE ShapeInv'
  BY <1>1, <1>8 DEF Unwind, Goto
<1>9. ASSUME NEW c \in Clients, SetPort(c) PROVE ShapeInv'
  BY <1>1, <1>9 DEF SetPort, Goto
<1>10. ASSUME NEW c \in Clients, SetConfigPort(c) PROVE ShapeInv'
  BY <1>1, <1>10 DEF SetConfigPort, SetConfigField, Goto
<1>11. ASSUME NEW c \in Clients, SetLabel(c) PROVE ShapeInv'
  BY <1>1, <1>11 DEF SetLabel, SetConfigField, Goto
<1>12. ASSUME NEW c \in Clients, SetVersion(c) PROVE ShapeInv'
  BY <1>1, <1>12 DEF SetVersion, SetConfigField, Goto
<1>13. ASSUME NEW c \in Clients, OpenConfig(c) PROVE ShapeInv'
  BY <1>1, <1>13 DEF OpenConfig, Goto
<1>14. ASSUME NEW c \in Clients, OpenConfigFails(c) PROVE ShapeInv'
  BY <1>1, <1>14 DEF OpenConfigFails, AfterFailedSave, Goto
<1>15. ASSUME NEW c \in Clients, WriteConfigFails(c) PROVE ShapeInv'
  BY <1>1, <1>15 DEF WriteConfigFails, AfterFailedSave, Goto
<1>16. ASSUME NEW c \in Clients, WriteConfig(c) PROVE ShapeInv'
  BY <1>1, <1>16 DEF WriteConfig, Saved, Goto
<1>17. ASSUME NEW c \in Clients, Truncate(c) PROVE ShapeInv'
  BY <1>1, <1>17 DEF Truncate, Goto
<1>18. ASSUME NEW c \in Clients, Format(c) PROVE ShapeInv'
  BY <1>1, <1>18 DEF Format, Goto
<1>19. ASSUME NEW c \in Clients, WriteProps(c) PROVE ShapeInv'
  BY <1>1, <1>19 DEF WriteProps, Goto
<1>20. ASSUME NEW c \in Clients, Check(c) PROVE ShapeInv'
  BY <1>1, <1>20 DEF Check, Goto
<1>21. ASSUME NEW c \in Clients, FindJar(c) PROVE ShapeInv'
  BY <1>1, <1>21 DEF FindJar, Goto
<1>22. ASSUME NEW c \in Clients, RenameJar(c) PROVE ShapeInv'
  BY <1>1, <1>22 DEF RenameJar, Goto
<1>23. ASSUME NEW c \in Clients, Hangup(c) PROVE ShapeInv'
  BY <1>1, <1>23 DEF Hangup, Leaves, Goto
<1>24. ASSUME NEW e \in HandEdits, HandEdit(e[1], e[2]) PROVE ShapeInv'
  BY <1>1, <1>24 DEF HandEdit
<1>25. ASSUME NEW file \in inflight, Land(file) PROVE ShapeInv'
  BY <1>1, <1>25 DEF Land
<1>26. ASSUME NEW w \in lateConfig, OpenLate(w) PROVE ShapeInv'
  BY <1>1, <1>26 DEF OpenLate
<1>27. ASSUME NEW w \in lateConfig, WriteLate(w) PROVE ShapeInv'
  BY <1>1, <1>27 DEF WriteLate, Saved
<1>28. CASE TruncateLate
  BY <1>1, <1>28 DEF TruncateLate
<1>29. ASSUME NEW version \in lateJar, RenameLate(version) PROVE ShapeInv'
  BY <1>1, <1>29 DEF RenameLate
<1>30. CASE Crash
  BY <1>1, <1>30 DEF Crash
<1>31. CASE Restore
  BY <1>1, <1>31 DEF Restore
<1>32. CASE UNCHANGED setVars
  BY <1>1, <1>32 DEF setVars
<1> QED
  BY <1>2, <1>3, <1>4, <1>5, <1>6, <1>7, <1>8, <1>9, <1>10, <1>11, <1>12, <1>13, <1>14,
     <1>15, <1>16, <1>17, <1>18, <1>19, <1>20, <1>21, <1>22, <1>23, <1>24, <1>25,
     <1>26, <1>27, <1>28, <1>29, <1>30, <1>31, <1>32
     DEF SetNext, ClientStep

\* Nothing runs in a program that is down.
LEMMA DownStep ==
  ASSUME IInv, [SetNext]_setVars
  PROVE  DownInv'
<1>1. ShapeInv /\ DownInv
  BY DEF IInv
<1> USE DEF ShapeInv, DownInv, fileVars, lateVars, clientVars, reqVars
<1>2. ASSUME NEW c \in Clients, NEW r \in Requests, Begin(c, r) PROVE DownInv'
  BY <1>1, <1>2 DEF Begin
<1>3. ASSUME NEW c \in Clients, Clear(c) PROVE DownInv'
  BY <1>1, <1>3 DEF Clear, Goto
<1>4. ASSUME NEW c \in Clients, ReadFile(c) PROVE DownInv'
  BY <1>1, <1>4 DEF ReadFile, Goto
<1>5. ASSUME NEW c \in Clients, Apply(c) PROVE DownInv'
  BY <1>1, <1>5 DEF Apply, Goto
<1>6. ASSUME NEW c \in Clients, SetValue(c) PROVE DownInv'
  BY <1>1, <1>6 DEF SetValue, Goto
<1>7. ASSUME NEW c \in Clients, Sync(c) PROVE DownInv'
  BY <1>1, <1>7 DEF Sync, Goto
<1>8. ASSUME NEW c \in Clients, Unwind(c) PROVE DownInv'
  BY <1>1, <1>8 DEF Unwind, Goto
<1>9. ASSUME NEW c \in Clients, SetPort(c) PROVE DownInv'
  BY <1>1, <1>9 DEF SetPort, Goto
<1>10. ASSUME NEW c \in Clients, SetConfigPort(c) PROVE DownInv'
  BY <1>1, <1>10 DEF SetConfigPort, SetConfigField, Goto
<1>11. ASSUME NEW c \in Clients, SetLabel(c) PROVE DownInv'
  BY <1>1, <1>11 DEF SetLabel, SetConfigField, Goto
<1>12. ASSUME NEW c \in Clients, SetVersion(c) PROVE DownInv'
  BY <1>1, <1>12 DEF SetVersion, SetConfigField, Goto
<1>13. ASSUME NEW c \in Clients, OpenConfig(c) PROVE DownInv'
  BY <1>1, <1>13 DEF OpenConfig, Goto
<1>14. ASSUME NEW c \in Clients, OpenConfigFails(c) PROVE DownInv'
  BY <1>1, <1>14 DEF OpenConfigFails, AfterFailedSave, Goto
<1>15. ASSUME NEW c \in Clients, WriteConfigFails(c) PROVE DownInv'
  BY <1>1, <1>15 DEF WriteConfigFails, AfterFailedSave, Goto
<1>16. ASSUME NEW c \in Clients, WriteConfig(c) PROVE DownInv'
  BY <1>1, <1>16 DEF WriteConfig, Saved, Goto
<1>17. ASSUME NEW c \in Clients, Truncate(c) PROVE DownInv'
  BY <1>1, <1>17 DEF Truncate, Goto
<1>18. ASSUME NEW c \in Clients, Format(c) PROVE DownInv'
  BY <1>1, <1>18 DEF Format, Goto
<1>19. ASSUME NEW c \in Clients, WriteProps(c) PROVE DownInv'
  BY <1>1, <1>19 DEF WriteProps, Goto
<1>20. ASSUME NEW c \in Clients, Check(c) PROVE DownInv'
  BY <1>1, <1>20 DEF Check, Goto
<1>21. ASSUME NEW c \in Clients, FindJar(c) PROVE DownInv'
  BY <1>1, <1>21 DEF FindJar, Goto
<1>22. ASSUME NEW c \in Clients, RenameJar(c) PROVE DownInv'
  BY <1>1, <1>22 DEF RenameJar, Goto
<1>23. ASSUME NEW c \in Clients, Hangup(c) PROVE DownInv'
  BY <1>1, <1>23 DEF Hangup, Leaves, Goto
<1>24. ASSUME NEW e \in HandEdits, HandEdit(e[1], e[2]) PROVE DownInv'
  BY <1>1, <1>24 DEF HandEdit
<1>25. ASSUME NEW file \in inflight, Land(file) PROVE DownInv'
  BY <1>1, <1>25 DEF Land
<1>26. ASSUME NEW w \in lateConfig, OpenLate(w) PROVE DownInv'
  BY <1>1, <1>26 DEF OpenLate
<1>27. ASSUME NEW w \in lateConfig, WriteLate(w) PROVE DownInv'
  BY <1>1, <1>27 DEF WriteLate, Saved
<1>28. CASE TruncateLate
  BY <1>1, <1>28 DEF TruncateLate
<1>29. ASSUME NEW version \in lateJar, RenameLate(version) PROVE DownInv'
  BY <1>1, <1>29 DEF RenameLate
<1>30. CASE Crash
  BY <1>1, <1>30 DEF Crash
<1>31. CASE Restore
  BY <1>1, <1>31 DEF Restore
<1>32. CASE UNCHANGED setVars
  BY <1>1, <1>32 DEF setVars
<1> QED
  BY <1>2, <1>3, <1>4, <1>5, <1>6, <1>7, <1>8, <1>9, <1>10, <1>11, <1>12, <1>13, <1>14,
     <1>15, <1>16, <1>17, <1>18, <1>19, <1>20, <1>21, <1>22, <1>23, <1>24, <1>25,
     <1>26, <1>27, <1>28, <1>29, <1>30, <1>31, <1>32
     DEF SetNext, ClientStep

\* config is locked from the opening of its file to the end of the write, and through
\* the requests for a jar's address (mod.rs:754, configurable.rs:112).
LEMMA LockStep ==
  ASSUME IInv, [SetNext]_setVars
  PROVE  LockInv'
<1>1. ShapeInv /\ LockInv
  BY DEF IInv
<1> USE DEF ShapeInv, LockInv, Stages, fileVars, lateVars, clientVars, reqVars
<1>2. ASSUME NEW c \in Clients, NEW r \in Requests, Begin(c, r) PROVE LockInv'
  BY <1>1, <1>2, FirstStage DEF Begin
<1>3. ASSUME NEW c \in Clients, Clear(c) PROVE LockInv'
  BY <1>1, <1>3 DEF Clear, Goto
<1>4. ASSUME NEW c \in Clients, ReadFile(c) PROVE LockInv'
  BY <1>1, <1>4 DEF ReadFile, Goto
<1>5. ASSUME NEW c \in Clients, Apply(c) PROVE LockInv'
  BY <1>1, <1>5 DEF Apply, Goto
<1>6. ASSUME NEW c \in Clients, SetValue(c) PROVE LockInv'
  BY <1>1, <1>6 DEF SetValue, Goto
<1>7. ASSUME NEW c \in Clients, Sync(c) PROVE LockInv'
  BY <1>1, <1>7 DEF Sync, Goto
<1>8. ASSUME NEW c \in Clients, Unwind(c) PROVE LockInv'
  BY <1>1, <1>8 DEF Unwind, Goto
<1>9. ASSUME NEW c \in Clients, SetPort(c) PROVE LockInv'
  BY <1>1, <1>9 DEF SetPort, Goto
<1>10. ASSUME NEW c \in Clients, SetConfigPort(c) PROVE LockInv'
  BY <1>1, <1>10 DEF SetConfigPort, SetConfigField, Goto
<1>11. ASSUME NEW c \in Clients, SetLabel(c) PROVE LockInv'
  BY <1>1, <1>11 DEF SetLabel, SetConfigField, Goto
<1>12. ASSUME NEW c \in Clients, SetVersion(c) PROVE LockInv'
  BY <1>1, <1>12 DEF SetVersion, SetConfigField, Goto
<1>13. ASSUME NEW c \in Clients, OpenConfig(c) PROVE LockInv'
  BY <1>1, <1>13, ClientsAssumption DEF OpenConfig, Goto
<1>14. ASSUME NEW c \in Clients, OpenConfigFails(c) PROVE LockInv'
  BY <1>1, <1>14 DEF OpenConfigFails, AfterFailedSave, Goto
<1>15. ASSUME NEW c \in Clients, WriteConfigFails(c) PROVE LockInv'
  BY <1>1, <1>15 DEF WriteConfigFails, AfterFailedSave, Goto
<1>16. ASSUME NEW c \in Clients, WriteConfig(c) PROVE LockInv'
  BY <1>1, <1>16 DEF WriteConfig, Saved, Goto
<1>17. ASSUME NEW c \in Clients, Truncate(c) PROVE LockInv'
  BY <1>1, <1>17 DEF Truncate, Goto
<1>18. ASSUME NEW c \in Clients, Format(c) PROVE LockInv'
  BY <1>1, <1>18 DEF Format, Goto
<1>19. ASSUME NEW c \in Clients, WriteProps(c) PROVE LockInv'
  BY <1>1, <1>19 DEF WriteProps, Goto
<1>20. ASSUME NEW c \in Clients, Check(c) PROVE LockInv'
  BY <1>1, <1>20, ClientsAssumption DEF Check, Goto
<1>21. ASSUME NEW c \in Clients, FindJar(c) PROVE LockInv'
  BY <1>1, <1>21 DEF FindJar, Goto
<1>22. ASSUME NEW c \in Clients, RenameJar(c) PROVE LockInv'
  BY <1>1, <1>22 DEF RenameJar, Goto
<1>23. ASSUME NEW c \in Clients, Hangup(c) PROVE LockInv'
  BY <1>1, <1>23 DEF Hangup, Leaves, Goto
<1>24. ASSUME NEW e \in HandEdits, HandEdit(e[1], e[2]) PROVE LockInv'
  BY <1>1, <1>24 DEF HandEdit
<1>25. ASSUME NEW file \in inflight, Land(file) PROVE LockInv'
  BY <1>1, <1>25 DEF Land
<1>26. ASSUME NEW w \in lateConfig, OpenLate(w) PROVE LockInv'
  BY <1>1, <1>26 DEF OpenLate
<1>27. ASSUME NEW w \in lateConfig, WriteLate(w) PROVE LockInv'
  BY <1>1, <1>27 DEF WriteLate, Saved
<1>28. CASE TruncateLate
  BY <1>1, <1>28 DEF TruncateLate
<1>29. ASSUME NEW version \in lateJar, RenameLate(version) PROVE LockInv'
  BY <1>1, <1>29 DEF RenameLate
<1>30. CASE Crash
  BY <1>1, <1>30 DEF Crash
<1>31. CASE Restore
  BY <1>1, <1>31 DEF Restore
<1>32. CASE UNCHANGED setVars
  BY <1>1, <1>32 DEF setVars
<1> QED
  BY <1>2, <1>3, <1>4, <1>5, <1>6, <1>7, <1>8, <1>9, <1>10, <1>11, <1>12, <1>13, <1>14,
     <1>15, <1>16, <1>17, <1>18, <1>19, <1>20, <1>21, <1>22, <1>23, <1>24, <1>25,
     <1>26, <1>27, <1>28, <1>29, <1>30, <1>31, <1>32
     DEF SetNext, ClientStep

\* Nobody opens the config file while it is being written, but a client that has hung
\* up (mod.rs:754).
LEMMA SaveStep ==
  ASSUME IInv, [SetNext]_setVars
  PROVE  SaveInv'
<1>1. ShapeInv /\ LockInv /\ SaveInv
  BY DEF IInv
<1> USE DEF ShapeInv, LockInv, SaveInv, fileVars, lateVars, clientVars, reqVars
<1>2. ASSUME NEW c \in Clients, NEW r \in Requests, Begin(c, r) PROVE SaveInv'
  BY <1>1, <1>2, FirstStage DEF Begin
<1>3. ASSUME NEW c \in Clients, Clear(c) PROVE SaveInv'
  BY <1>1, <1>3 DEF Clear, Goto
<1>4. ASSUME NEW c \in Clients, ReadFile(c) PROVE SaveInv'
  BY <1>1, <1>4 DEF ReadFile, Goto
<1>5. ASSUME NEW c \in Clients, Apply(c) PROVE SaveInv'
  BY <1>1, <1>5 DEF Apply, Goto
<1>6. ASSUME NEW c \in Clients, SetValue(c) PROVE SaveInv'
  BY <1>1, <1>6 DEF SetValue, Goto
<1>7. ASSUME NEW c \in Clients, Sync(c) PROVE SaveInv'
  BY <1>1, <1>7 DEF Sync, Goto
<1>8. ASSUME NEW c \in Clients, Unwind(c) PROVE SaveInv'
  BY <1>1, <1>8 DEF Unwind, Goto
<1>9. ASSUME NEW c \in Clients, SetPort(c) PROVE SaveInv'
  BY <1>1, <1>9 DEF SetPort, Goto
<1>10. ASSUME NEW c \in Clients, SetConfigPort(c) PROVE SaveInv'
  BY <1>1, <1>10 DEF SetConfigPort, SetConfigField, Goto
<1>11. ASSUME NEW c \in Clients, SetLabel(c) PROVE SaveInv'
  BY <1>1, <1>11 DEF SetLabel, SetConfigField, Goto
<1>12. ASSUME NEW c \in Clients, SetVersion(c) PROVE SaveInv'
  BY <1>1, <1>12 DEF SetVersion, SetConfigField, Goto
<1>13. ASSUME NEW c \in Clients, OpenConfig(c) PROVE SaveInv'
  BY <1>1, <1>13 DEF OpenConfig, Goto
<1>14. ASSUME NEW c \in Clients, OpenConfigFails(c) PROVE SaveInv'
  BY <1>1, <1>14 DEF OpenConfigFails, AfterFailedSave, Goto
<1>15. ASSUME NEW c \in Clients, WriteConfigFails(c) PROVE SaveInv'
  BY <1>1, <1>15 DEF WriteConfigFails, AfterFailedSave, Goto
<1>16. ASSUME NEW c \in Clients, WriteConfig(c) PROVE SaveInv'
  BY <1>1, <1>16 DEF WriteConfig, Saved, Goto
<1>17. ASSUME NEW c \in Clients, Truncate(c) PROVE SaveInv'
  BY <1>1, <1>17 DEF Truncate, Goto
<1>18. ASSUME NEW c \in Clients, Format(c) PROVE SaveInv'
  BY <1>1, <1>18 DEF Format, Goto
<1>19. ASSUME NEW c \in Clients, WriteProps(c) PROVE SaveInv'
  BY <1>1, <1>19 DEF WriteProps, Goto
<1>20. ASSUME NEW c \in Clients, Check(c) PROVE SaveInv'
  BY <1>1, <1>20 DEF Check, Goto
<1>21. ASSUME NEW c \in Clients, FindJar(c) PROVE SaveInv'
  BY <1>1, <1>21 DEF FindJar, Goto
<1>22. ASSUME NEW c \in Clients, RenameJar(c) PROVE SaveInv'
  BY <1>1, <1>22 DEF RenameJar, Goto
<1>23. ASSUME NEW c \in Clients, Hangup(c) PROVE SaveInv'
  BY <1>1, <1>23 DEF Hangup, Leaves, Goto
<1>24. ASSUME NEW e \in HandEdits, HandEdit(e[1], e[2]) PROVE SaveInv'
  BY <1>1, <1>24 DEF HandEdit
<1>25. ASSUME NEW file \in inflight, Land(file) PROVE SaveInv'
  BY <1>1, <1>25 DEF Land
<1>26. ASSUME NEW w \in lateConfig, OpenLate(w) PROVE SaveInv'
  BY <1>1, <1>26 DEF OpenLate
<1>27. ASSUME NEW w \in lateConfig, WriteLate(w) PROVE SaveInv'
  BY <1>1, <1>27 DEF WriteLate, Saved
<1>28. CASE TruncateLate
  BY <1>1, <1>28 DEF TruncateLate
<1>29. ASSUME NEW version \in lateJar, RenameLate(version) PROVE SaveInv'
  BY <1>1, <1>29 DEF RenameLate
<1>30. CASE Crash
  BY <1>1, <1>30 DEF Crash
<1>31. CASE Restore
  BY <1>1, <1>31 DEF Restore
<1>32. CASE UNCHANGED setVars
  BY <1>1, <1>32 DEF setVars
<1> QED
  BY <1>2, <1>3, <1>4, <1>5, <1>6, <1>7, <1>8, <1>9, <1>10, <1>11, <1>12, <1>13, <1>14,
     <1>15, <1>16, <1>17, <1>18, <1>19, <1>20, <1>21, <1>22, <1>23, <1>24, <1>25,
     <1>26, <1>27, <1>28, <1>29, <1>30, <1>31, <1>32
     DEF SetNext, ClientStep

\* Whoever changes config is about to save it, or leaves it unsaved
\* (configurable.rs:94, mod.rs:754).
LEMMA DiskStep ==
  ASSUME IInv, [SetNext]_setVars
  PROVE  DiskMatchesMemory'
<1>1. ShapeInv /\ DownInv /\ SaveInv /\ DiskMatchesMemory
  BY DEF IInv
<1> USE DEF ShapeInv, DownInv, SaveInv, DiskMatchesMemory, Saving, fileVars, lateVars, clientVars, reqVars
<1>2. ASSUME NEW c \in Clients, NEW r \in Requests, Begin(c, r) PROVE DiskMatchesMemory'
  BY <1>1, <1>2, FirstStage DEF Begin
<1>3. ASSUME NEW c \in Clients, Clear(c) PROVE DiskMatchesMemory'
  BY <1>1, <1>3 DEF Clear, Goto
<1>4. ASSUME NEW c \in Clients, ReadFile(c) PROVE DiskMatchesMemory'
  BY <1>1, <1>4 DEF ReadFile, Goto
<1>5. ASSUME NEW c \in Clients, Apply(c) PROVE DiskMatchesMemory'
  BY <1>1, <1>5 DEF Apply, Goto
<1>6. ASSUME NEW c \in Clients, SetValue(c) PROVE DiskMatchesMemory'
  BY <1>1, <1>6 DEF SetValue, Goto
<1>7. ASSUME NEW c \in Clients, Sync(c) PROVE DiskMatchesMemory'
  BY <1>1, <1>7 DEF Sync, Goto
<1>8. ASSUME NEW c \in Clients, Unwind(c) PROVE DiskMatchesMemory'
  BY <1>1, <1>8 DEF Unwind, Goto
<1>9. ASSUME NEW c \in Clients, SetPort(c) PROVE DiskMatchesMemory'
  BY <1>1, <1>9 DEF SetPort, Goto
<1>10. ASSUME NEW c \in Clients, SetConfigPort(c) PROVE DiskMatchesMemory'
  BY <1>1, <1>10 DEF SetConfigPort, SetConfigField, Goto
<1>11. ASSUME NEW c \in Clients, SetLabel(c) PROVE DiskMatchesMemory'
  BY <1>1, <1>11 DEF SetLabel, SetConfigField, Goto
<1>12. ASSUME NEW c \in Clients, SetVersion(c) PROVE DiskMatchesMemory'
  BY <1>1, <1>12 DEF SetVersion, SetConfigField, Goto
<1>13. ASSUME NEW c \in Clients, OpenConfig(c) PROVE DiskMatchesMemory'
  BY <1>1, <1>13 DEF OpenConfig, Goto
<1>14. ASSUME NEW c \in Clients, OpenConfigFails(c) PROVE DiskMatchesMemory'
  BY <1>1, <1>14 DEF OpenConfigFails, AfterFailedSave, Goto
<1>15. ASSUME NEW c \in Clients, WriteConfigFails(c) PROVE DiskMatchesMemory'
  BY <1>1, <1>15 DEF WriteConfigFails, AfterFailedSave, Goto
<1>16. ASSUME NEW c \in Clients, WriteConfig(c) PROVE DiskMatchesMemory'
  BY <1>1, <1>16 DEF WriteConfig, Saved, Goto
<1>17. ASSUME NEW c \in Clients, Truncate(c) PROVE DiskMatchesMemory'
  BY <1>1, <1>17 DEF Truncate, Goto
<1>18. ASSUME NEW c \in Clients, Format(c) PROVE DiskMatchesMemory'
  BY <1>1, <1>18 DEF Format, Goto
<1>19. ASSUME NEW c \in Clients, WriteProps(c) PROVE DiskMatchesMemory'
  BY <1>1, <1>19 DEF WriteProps, Goto
<1>20. ASSUME NEW c \in Clients, Check(c) PROVE DiskMatchesMemory'
  BY <1>1, <1>20 DEF Check, Goto
<1>21. ASSUME NEW c \in Clients, FindJar(c) PROVE DiskMatchesMemory'
  BY <1>1, <1>21 DEF FindJar, Goto
<1>22. ASSUME NEW c \in Clients, RenameJar(c) PROVE DiskMatchesMemory'
  BY <1>1, <1>22 DEF RenameJar, Goto
<1>23. ASSUME NEW c \in Clients, Hangup(c) PROVE DiskMatchesMemory'
  BY <1>1, <1>23 DEF Hangup, Leaves, Goto
<1>24. ASSUME NEW e \in HandEdits, HandEdit(e[1], e[2]) PROVE DiskMatchesMemory'
  BY <1>1, <1>24 DEF HandEdit
<1>25. ASSUME NEW file \in inflight, Land(file) PROVE DiskMatchesMemory'
  BY <1>1, <1>25 DEF Land
<1>26. ASSUME NEW w \in lateConfig, OpenLate(w) PROVE DiskMatchesMemory'
  BY <1>1, <1>26 DEF OpenLate
<1>27. ASSUME NEW w \in lateConfig, WriteLate(w) PROVE DiskMatchesMemory'
  BY <1>1, <1>27 DEF WriteLate, Saved
<1>28. CASE TruncateLate
  BY <1>1, <1>28 DEF TruncateLate
<1>29. ASSUME NEW version \in lateJar, RenameLate(version) PROVE DiskMatchesMemory'
  BY <1>1, <1>29 DEF RenameLate
<1>30. CASE Crash
  BY <1>1, <1>30 DEF Crash
<1>31. CASE Restore
  BY <1>1, <1>31 DEF Restore
<1>32. CASE UNCHANGED setVars
  BY <1>1, <1>32 DEF setVars
<1> QED
  BY <1>2, <1>3, <1>4, <1>5, <1>6, <1>7, <1>8, <1>9, <1>10, <1>11, <1>12, <1>13, <1>14,
     <1>15, <1>16, <1>17, <1>18, <1>19, <1>20, <1>21, <1>22, <1>23, <1>24, <1>25,
     <1>26, <1>27, <1>28, <1>29, <1>30, <1>31, <1>32
     DEF SetNext, ClientStep

\* The jar is renamed before its version is stored, by a client that is alone
\* in changing it (configurable.rs:170).
LEMMA JarStep ==
  ASSUME IInv, [SetNext]_setVars
  PROVE  JarInv'
<1>1. ShapeInv /\ DownInv /\ JarInv
  BY DEF IInv
<1> USE DEF ShapeInv, DownInv, JarInv, JarHasAReason, Versioning, fileVars, lateVars, clientVars, reqVars
<1>2. ASSUME NEW c \in Clients, NEW r \in Requests, Begin(c, r) PROVE JarInv'
  <2>1. /\ at[c] = "idle" /\ alive /\ alive' = alive
        /\ at' = [at EXCEPT ![c] = FirstStep[r.op]]
        /\ req' = [req EXCEPT ![c] = r]
        /\ UNCHANGED <<config, configFile, jar, lateJar>>
        /\ swapped' = (swapped \/ (r.op = "version" /\
             \E d \in Clients \ {c} : at[d] # "idle" /\ req[d].op = "version"))
    BY <1>2 DEF Begin
  <2>2. /\ at'[c] \in {"clear", "read", "set_port", "set_label", "check"}
        /\ at'[c] = "check" => r.op = "version"
        /\ req'[c] = r
    BY <1>1, <2>1, FirstStage
  <2>3. \A d \in Clients \ {c} : at'[d] = at[d] /\ req'[d] = req[d]
    BY <1>1, <2>1
  <2>4. \A d \in Clients : Versioning(d)' => (req[d].op)' = "version"
    BY <1>1, <2>2, <2>3
  <2>5. ASSUME ~swapped' PROVE /\ \A d, e \in Clients : Versioning(d)' /\ Versioning(e)' => d = e
                               /\ JarHasAReason'
    <3>1. ~swapped /\ JarHasAReason
      BY <1>1, <2>1, <2>5
    <3>2. \A d \in Clients \ {c} : Versioning(d) => r.op # "version"
      BY <1>1, <2>1, <2>5
    <3>3. \A d, e \in Clients : Versioning(d)' /\ Versioning(e)' => d = e
      BY <1>1, <2>2, <2>3, <3>1, <3>2
    <3>4. JarHasAReason'
      BY <2>1, <2>2, <2>3, <3>1
    <3> QED
      BY <3>3, <3>4
  <2> QED
    BY <1>1, <2>1, <2>4, <2>5
<1>3. ASSUME NEW c \in Clients, Clear(c) PROVE JarInv'
  BY <1>1, <1>3 DEF Clear, Goto
<1>4. ASSUME NEW c \in Clients, ReadFile(c) PROVE JarInv'
  BY <1>1, <1>4 DEF ReadFile, Goto
<1>5. ASSUME NEW c \in Clients, Apply(c) PROVE JarInv'
  BY <1>1, <1>5 DEF Apply, Goto
<1>6. ASSUME NEW c \in Clients, SetValue(c) PROVE JarInv'
  BY <1>1, <1>6 DEF SetValue, Goto
<1>7. ASSUME NEW c \in Clients, Sync(c) PROVE JarInv'
  BY <1>1, <1>7 DEF Sync, Goto, SyncedConfig
<1>8. ASSUME NEW c \in Clients, Unwind(c) PROVE JarInv'
  BY <1>1, <1>8 DEF Unwind, Goto
<1>9. ASSUME NEW c \in Clients, SetPort(c) PROVE JarInv'
  BY <1>1, <1>9 DEF SetPort, Goto
<1>10. ASSUME NEW c \in Clients, SetConfigPort(c) PROVE JarInv'
  BY <1>1, <1>10 DEF SetConfigPort, SetConfigField, Goto
<1>11. ASSUME NEW c \in Clients, SetLabel(c) PROVE JarInv'
  BY <1>1, <1>11 DEF SetLabel, SetConfigField, Goto
<1>12. ASSUME NEW c \in Clients, SetVersion(c) PROVE JarInv'
  BY <1>1, <1>12 DEF SetVersion, SetConfigField, Goto
<1>13. ASSUME NEW c \in Clients, OpenConfig(c) PROVE JarInv'
  BY <1>1, <1>13 DEF OpenConfig, Goto
<1>14. ASSUME NEW c \in Clients, OpenConfigFails(c) PROVE JarInv'
  BY <1>1, <1>14 DEF OpenConfigFails, AfterFailedSave, Goto
<1>15. ASSUME NEW c \in Clients, WriteConfigFails(c) PROVE JarInv'
  BY <1>1, <1>15 DEF WriteConfigFails, AfterFailedSave, Goto
<1>16. ASSUME NEW c \in Clients, WriteConfig(c) PROVE JarInv'
  BY <1>1, <1>16 DEF WriteConfig, Saved, Goto
<1>17. ASSUME NEW c \in Clients, Truncate(c) PROVE JarInv'
  BY <1>1, <1>17 DEF Truncate, Goto
<1>18. ASSUME NEW c \in Clients, Format(c) PROVE JarInv'
  BY <1>1, <1>18 DEF Format, Goto
<1>19. ASSUME NEW c \in Clients, WriteProps(c) PROVE JarInv'
  BY <1>1, <1>19 DEF WriteProps, Goto
<1>20. ASSUME NEW c \in Clients, Check(c) PROVE JarInv'
  BY <1>1, <1>20 DEF Check, Goto
<1>21. ASSUME NEW c \in Clients, FindJar(c) PROVE JarInv'
  BY <1>1, <1>21 DEF FindJar, Goto
<1>22. ASSUME NEW c \in Clients, RenameJar(c) PROVE JarInv'
  BY <1>1, <1>22 DEF RenameJar, Goto
<1>23. ASSUME NEW c \in Clients, Hangup(c) PROVE JarInv'
  BY <1>1, <1>23 DEF Hangup, Leaves, Goto
<1>24. ASSUME NEW e \in HandEdits, HandEdit(e[1], e[2]) PROVE JarInv'
  BY <1>1, <1>24 DEF HandEdit
<1>25. ASSUME NEW file \in inflight, Land(file) PROVE JarInv'
  BY <1>1, <1>25 DEF Land
<1>26. ASSUME NEW w \in lateConfig, OpenLate(w) PROVE JarInv'
  BY <1>1, <1>26 DEF OpenLate
<1>27. ASSUME NEW w \in lateConfig, WriteLate(w) PROVE JarInv'
  BY <1>1, <1>27 DEF WriteLate, Saved
<1>28. CASE TruncateLate
  BY <1>1, <1>28 DEF TruncateLate
<1>29. ASSUME NEW version \in lateJar, RenameLate(version) PROVE JarInv'
  BY <1>1, <1>29 DEF RenameLate
<1>30. CASE Crash
  BY <1>1, <1>30 DEF Crash
<1>31. CASE Restore
  BY <1>1, <1>31 DEF Restore
<1>32. CASE UNCHANGED setVars
  BY <1>1, <1>32 DEF setVars
<1> QED
  BY <1>2, <1>3, <1>4, <1>5, <1>6, <1>7, <1>8, <1>9, <1>10, <1>11, <1>12, <1>13, <1>14,
     <1>15, <1>16, <1>17, <1>18, <1>19, <1>20, <1>21, <1>22, <1>23, <1>24, <1>25,
     <1>26, <1>27, <1>28, <1>29, <1>30, <1>31, <1>32
     DEF SetNext, ClientStep

\* The parts together are inductive.
THEOREM Inductive == SetSpec => []IInv
<1>1. IInv /\ [SetNext]_setVars => IInv'
  BY ShapeStep, DownStep, LockStep, SaveStep, DiskStep, JarStep DEF IInv
<1> QED
  BY InitOK, <1>1, PTL DEF SetSpec

\* The config file is whole and says what the instance runs with, however requests
\* interleave, whoever saves last and whenever the writes of clients that hung up
\* land, unless a save failed or is still to land (mod.rs:754, configurable.rs:94).
THEOREM FileFollowsMemory == SetSpec => []DiskMatchesMemory
<1>1. IInv => DiskMatchesMemory
  BY DEF IInv
<1> QED
  BY Inductive, <1>1, PTL

\* server.jar is the version that config names, unless two changes of version
\* overlapped or one was cut short (configurable.rs:112-173).
THEOREM JarFollowsConfig == SetSpec => []JarIsConfiguredVersion
<1>1. IInv => JarIsConfiguredVersion
  BY DEF IInv, JarInv, JarHasAReason, JarIsConfiguredVersion
<1> QED
  BY Inductive, <1>1, PTL


-----------------------------------------------------------------------------
(* The lines of server.properties *)

\* The type of a setting of server.properties, and the texts that may be its value.
PropertyType(k) ==
  IF k \in {"rcon.port", "query.port"} THEN Type("unsigned", {0}, {U16Max}, {})
  ELSE IF k \in ServerPropertySetting.enum THEN Type("enum", {}, {}, {EnumOptions})
  ELSE Unbounded(KindOf(k))

Admits(k, n) ==
  /\ n \in Int
  /\ k \in ServerPropertySetting.boolean => n \in {0, 1}
  /\ k \in ServerPropertySetting.enum => n \in EnumOptions
  /\ KindOf(k) = "unsigned" => n >= 0
  /\ k \in {"rcon.port", "query.port"} => n <= U16Max

\* s is setting k with the value n.
IsSettingOf(s, k, n) ==
  /\ DOMAIN s = {"value", "type", "required", "mutable"}
  /\ s.value = {Value(KindOf(k), n)} /\ s.type = PropertyType(k)
  /\ s.required = TRUE /\ s.mutable = TRUE

IsProperty(k, s) == \E val \in s.value : Admits(k, val.v) /\ IsSettingOf(s, k, val.v)

\* What a manifest holds of server.properties.
Lawful(m) ==
  /\ DOMAIN m = {Cmd, Props}
  /\ \A k \in DOMAIN m[Props] : IsProperty(k, m[Props][k])

ManifestInv == Lawful(manifest)

\* What is read, written or under way.
IsFile(file) ==
  /\ DOMAIN file = {"status", "text"}
  /\ file.status \in {"ok", "garbled"}
  /\ Text(file.text)

TextInv ==
  /\ IsFile(props)
  /\ \A file \in inflight : IsFile(file)
  /\ DOMAIN seen = Clients /\ \A c \in Clients : IsFile(seen[c])

\* What a request is that has come as far as it has.
RequestInv ==
  \A c \in Clients :
    /\ at[c] # "idle" => req[c] \in Requests
    /\ at[c] \in {"set_port", "set_config_port"} => req[c].op = "port"
    /\ at[c] = "set_label" => req[c].op = "label"

\* A request that none has overlapped is the only one, and nothing is on its way to
\* server.properties.
AloneInv ==
  /\ alone \subseteq Clients
  /\ \A c \in alone : at[c] # "idle" =>
       inflight = {} /\ lateProps = 0 /\ \A d \in Clients \ {c} : at[d] = "idle"

\* The manifest has the lines of the file that can be read, but for the setting that
\* client c has set.
Kept(c) ==
  /\ props.status = "ok"
  /\ \A k \in DOMAIN props.text : Readable(k, props.text) =>
       /\ k \in DOMAIN manifest[Props]
       /\ at[c] = "set" \/ k # req[c].id =>
            manifest[Props][k].value = {Value(KindOf(k), Cut(props.text[k]))}

KeptSoFar(c) ==
  /\ at[c] = "apply" => props.status = "ok" /\ seen[c] = props
  /\ at[c] \in {"set", "sync", "panicked"} => Kept(c)
  /\ at[c] \in {"open_config", "write_config", "truncate"} /\ req[c].op = "update" => Kept(c)
  /\ at[c] = "panicked" => "server-port" \notin DOMAIN manifest[Props]

KeptInv == \A c \in alone \ misread : KeptSoFar(c)

LinesInv == ManifestInv /\ TextInv /\ RequestInv /\ AloneInv /\ KeptInv

-----------------------------------------------------------------------------
(* Settings and manifests *)

\* What kind the value of a setting is (configurable.rs:1422): what the proofs need of it.
LEMMA KindFacts ==
  /\ \A k \in ServerPropertySetting.boolean : KindOf(k) = "boolean"
  /\ \A k \in ServerPropertySetting.enum : KindOf(k) = "enum"
  /\ \A k \in ServerPropertySetting.u16 : KindOf(k) = "unsigned"
  /\ \A k : KindOf(k) = "enum" => k \in ServerPropertySetting.enum
  /\ \A k : KindOf(k) \in {"boolean", "enum", "unsigned", "string"}
<1>1. \A k \in ServerPropertySetting.boolean : KindOf(k) = "boolean"
  BY DEF KindOf, ServerPropertySetting
<1>2. \A k \in ServerPropertySetting.enum : KindOf(k) = "enum"
  BY DEF KindOf, ServerPropertySetting
<1>3. \A k \in ServerPropertySetting.u16 : KindOf(k) = "unsigned"
  BY DEF KindOf, ServerPropertySetting
<1>4. ASSUME NEW k
      PROVE  /\ KindOf(k) = "enum" => k \in ServerPropertySetting.enum
             /\ KindOf(k) \in {"boolean", "enum", "unsigned", "string"}
  BY DEF KindOf
<1> QED
  BY <1>1, <1>2, <1>3, <1>4

\* The keys that are treated apart.
LEMMA PortKeys ==
  /\ {"rcon.port", "query.port"} \subseteq ServerPropertySetting.u16
  /\ "server-port" \in ServerPropertySetting.u16
  /\ ServerPropertySetting.u16 \intersect ServerPropertySetting.enum = {}
  /\ ServerPropertySetting.u16 = {"rcon.port", "query.port", "server-port"}
  BY DEF ServerPropertySetting

\* A setting that is built from a value of its kind (configurable.rs:569).
LEMMA BuiltSetting ==
  ASSUME NEW k, NEW n
  PROVE  IsSettingOf(PropertyManifest(k, Value(KindOf(k), n)), k, n)
<1> DEFINE val == Value(KindOf(k), n)
           Built(t) == [value |-> {val}, type |-> t, required |-> TRUE, mutable |-> TRUE]
<1>1. ASSUME NEW t PROVE NewWithType({val}, t) = Built(t)
  <2>1. ({val} # {}) = TRUE
    OBVIOUS
  <2> HIDE DEF val
  <2> QED
    BY <2>1 DEF NewWithType
<1>2. PropertyManifest(k, val) = Built(PropertyType(k))
  <2>1. CASE k \in {"rcon.port", "query.port"}
    <3>1. k \notin ServerPropertySetting.enum
      BY <2>1, PortKeys
    <3>2. PropertyManifest(k, val) = NewWithType({val}, Type("unsigned", {0}, {U16Max}, {}))
      BY <2>1, <3>1 DEF PropertyManifest
    <3> QED
      BY <2>1, <1>1, <3>2 DEF PropertyType
  <2>2. CASE k \in ServerPropertySetting.enum
    BY <2>2, <1>1, PortKeys DEF PropertyManifest, PropertyType
  <2>3. CASE k \notin {"rcon.port", "query.port"} \union ServerPropertySetting.enum
    <3>1. KindOf(k) # "enum"
      BY <2>3, KindFacts
    <3>2. InferType(val) = Unbounded(KindOf(k))
      BY <3>1 DEF InferType, Value
    <3> QED
      BY <2>3, <3>2 DEF PropertyManifest, PropertyType, NewRequired
  <2> QED
    BY <2>1, <2>2, <2>3
<1> HIDE DEF val
<1>3. IsSettingOf(Built(PropertyType(k)), k, n) <=> {val} = {Value(KindOf(k), n)}
  BY DEF IsSettingOf
<1> QED
  BY <1>2, <1>3 DEF val

\* A setting that is built from an admitted value is one of the lawful ones.
LEMMA BuiltIsProperty ==
  ASSUME NEW s, NEW k, NEW n, Admits(k, n), IsSettingOf(s, k, n)
  PROVE  IsProperty(k, s)
<1>1. Value(KindOf(k), n) \in s.value /\ Value(KindOf(k), n).v = n
  BY DEF IsSettingOf, Value
<1> QED
  BY <1>1 DEF IsProperty

\* A line that can be read is of a value that the setting admits.
LEMMA ReadLine ==
  ASSUME NEW k, NEW n \in Int
  PROVE  /\ FromKeyVal(k, n) # {} => Admits(k, n) /\ FromKeyVal(k, n) = {Value(KindOf(k), n)}
         /\ Admits(k, n) /\ (k \in ServerPropertySetting.u16 => n <= U16Max) => FromKeyVal(k, n) # {}
<1>1. ASSUME FromKeyVal(k, n) # {}
      PROVE  Admits(k, n) /\ FromKeyVal(k, n) = {Value(KindOf(k), n)}
  BY <1>1, PortKeys DEF FromKeyVal, Admits, U16Max
<1>2. ASSUME Admits(k, n), k \in ServerPropertySetting.u16 => n <= U16Max
      PROVE  FromKeyVal(k, n) # {}
  BY <1>2 DEF FromKeyVal, Admits, U16Max
<1> QED
  BY <1>1, <1>2

\* A value that is admitted checks.
LEMMA AdmittedChecks ==
  ASSUME NEW k, NEW n, Admits(k, n)
  PROVE  TypeChecks(PropertyType(k), Value(KindOf(k), n))
<1>1. CASE k \in {"rcon.port", "query.port"}
  BY <1>1, KindFacts, PortKeys DEF Admits, PropertyType, Type, TypeChecks, Value
<1>2. CASE k \in ServerPropertySetting.enum
  BY <1>2, KindFacts, PortKeys DEF Admits, PropertyType, Type, TypeChecks, Value
<1>3. CASE k \notin {"rcon.port", "query.port"} \union ServerPropertySetting.enum
  BY <1>3 DEF PropertyType, Unbounded, Type, TypeChecks, Value
<1> QED
  BY <1>1, <1>2, <1>3

\* And a value that checks is admitted.
LEMMA CheckedIsAdmitted ==
  ASSUME NEW k, NEW val \in Values, TypeChecks(PropertyType(k), val)
  PROVE  val = Value(KindOf(k), val.v) /\ Admits(k, val.v)
<1>1. val = [kind |-> val.kind, v |-> val.v] /\ val.v \in Int
  BY DEF Values
<1>2. val.kind = KindOf(k)
  BY KindFacts, PortKeys DEF PropertyType, Unbounded, Type, TypeChecks
<1>3. k \in ServerPropertySetting.boolean => val.v \in {0, 1}
  <2>1. k \in ServerPropertySetting.boolean => KindOf(k) = "boolean"
    BY KindFacts
  <2>2. val.kind = "boolean" => val.v \in {0, 1}
    BY DEF Values
  <2> QED
    BY <1>2, <2>1, <2>2
<1>4. KindOf(k) = "unsigned" => val.v >= 0
  BY <1>2 DEF Values
<1>5. k \in {"rcon.port", "query.port"} => val.v <= U16Max
  BY DEF PropertyType, Type, TypeChecks
<1>6. k \in ServerPropertySetting.enum => val.v \in EnumOptions
  BY PortKeys DEF PropertyType, Type, TypeChecks
<1> QED
  BY <1>1, <1>2, <1>3, <1>4, <1>5, <1>6 DEF Value, Admits

\* What is left of a "=" is a text again.
LEMMA CutText ==
  ASSUME NEW n \in Int
  PROVE  Cut(n) \in Int
  BY PieceAssumption DEF Cut

\* The lines of a file become the settings of their keys, and the others stay
\* (mod.rs:768).
LEMMA Applied ==
  ASSUME NEW m, Lawful(m), NEW text, Text(text)
  PROVE  /\ Lawful(ApplyProperties(m, text))
         /\ \A k \in DOMAIN text : Readable(k, text) =>
              /\ k \in DOMAIN ApplyProperties(m, text)[Props]
              /\ ApplyProperties(m, text)[Props][k].value = {Value(KindOf(k), Cut(text[k]))}
<1> DEFINE lines  == ReadProperties(text)
           parsed == {k \in DOMAIN lines : FromKeyVal(k, lines[k]) # {}}
           old    == m[Props]
           new    == [k \in DOMAIN old \union parsed |->
                        IF k \in parsed
                        THEN PropertyManifest(k, CHOOSE val \in FromKeyVal(k, lines[k]) : TRUE)
                        ELSE old[k]]
<1>1. ApplyProperties(m, text) = [m EXCEPT ![Props] = new]
  BY DEF ApplyProperties
<1>2. DOMAIN lines = DOMAIN text /\ \A k \in DOMAIN text : lines[k] = Cut(text[k])
  BY DEF ReadProperties
<1>3. \A k \in parsed : k \in DOMAIN text /\ lines[k] \in Int
  BY <1>2, CutText DEF Text
<1>4. ASSUME NEW k \in parsed
      PROVE  Admits(k, lines[k]) /\ IsSettingOf(new[k], k, lines[k])
  <2>1. Admits(k, lines[k]) /\ FromKeyVal(k, lines[k]) = {Value(KindOf(k), lines[k])}
    BY <1>3, ReadLine
  <2>2. (CHOOSE val \in FromKeyVal(k, lines[k]) : TRUE) = Value(KindOf(k), lines[k])
    BY <2>1
  <2> QED
    BY <2>1, <2>2, BuiltSetting
<1>5. \A k \in parsed : IsProperty(k, new[k])
  BY <1>4, BuiltIsProperty
<1>6. \A k \in DOMAIN old \ parsed : new[k] = old[k]
  OBVIOUS
<1>7. DOMAIN new = DOMAIN old \union parsed
  OBVIOUS
<1>8. \A k \in DOMAIN text : Readable(k, text) => k \in parsed
  BY <1>2 DEF Readable
<1>9. \A k \in parsed : new[k].value = {Value(KindOf(k), Cut(text[k]))}
  BY <1>2, <1>3, <1>4 DEF IsSettingOf
<1> HIDE DEF new, parsed
<1>10. /\ DOMAIN [m EXCEPT ![Props] = new] = {Cmd, Props}
       /\ [m EXCEPT ![Props] = new][Props] = new
  BY DEF Lawful
<1> QED
  BY <1>1, <1>5, <1>6, <1>7, <1>8, <1>9, <1>10 DEF Lawful

\* A setting keeps its type and gets a value that checks; the others stay
\* (manifest.rs:402).
LEMMA Updated ==
  ASSUME NEW m, Lawful(m), NEW sec \in {Cmd, Props}, NEW id, NEW val \in Values,
         CanUpdate(m, sec, id, val)
  PROVE  /\ Lawful(Update(m, sec, id, val))
         /\ DOMAIN Update(m, sec, id, val)[Props] = DOMAIN m[Props]
         /\ \A k \in DOMAIN m[Props] : k # id => Update(m, sec, id, val)[Props][k] = m[Props][k]
<1> DEFINE new == [m[sec] EXCEPT ![id] = WithValue(m[sec][id], {val})]
<1>1. Update(m, sec, id, val) = [m EXCEPT ![sec] = new]
  BY DEF Update
<1>2. id \in DOMAIN m[sec] /\ TypeChecks(m[sec][id].type, val)
  BY DEF CanUpdate, CanSetValue
<1>3. DOMAIN new = DOMAIN m[sec] /\ \A k \in DOMAIN m[sec] : k # id => new[k] = m[sec][k]
  OBVIOUS
<1>4. new[id] = WithValue(m[sec][id], {val})
  BY <1>2
<1>5. Props # Cmd
  BY DEF Props, Cmd
<1>6. CASE sec = Cmd
  <2> HIDE DEF new
  <2>1. DOMAIN [m EXCEPT ![sec] = new] = {Cmd, Props} /\ [m EXCEPT ![sec] = new][Props] = m[Props]
    BY <1>5, <1>6 DEF Lawful
  <2> QED
    BY <1>1, <2>1 DEF Lawful
<1>7. CASE sec = Props
  <2>1. PICK old \in m[Props][id].value :
          Admits(id, old.v) /\ IsSettingOf(m[Props][id], id, old.v)
    BY <1>2, <1>7 DEF Lawful, IsProperty
  <2>2. TypeChecks(PropertyType(id), val)
    BY <1>2, <1>7, <2>1 DEF IsSettingOf
  <2>3. val = Value(KindOf(id), val.v) /\ Admits(id, val.v)
    BY <2>2, CheckedIsAdmitted
  <2>4. IsSettingOf(new[id], id, val.v)
    <3>1. new[id] = [m[Props][id] EXCEPT !.value = {val}]
      BY <1>4, <1>7 DEF WithValue
    <3>2. ASSUME NEW s, IsSettingOf(s, id, old.v), NEW b, b = {Value(KindOf(id), val.v)}
          PROVE  IsSettingOf([s EXCEPT !.value = b], id, val.v)
      BY <3>2 DEF IsSettingOf
    <3>3. {val} = {Value(KindOf(id), val.v)}
      BY <2>3
    <3>4. IsSettingOf([m[Props][id] EXCEPT !.value = {val}], id, val.v)
      BY <2>1, <3>2, <3>3
    <3> HIDE DEF new
    <3> QED
      BY <3>1, <3>4
  <2>5. IsProperty(id, new[id])
    BY <2>3, <2>4, BuiltIsProperty
  <2> HIDE DEF new
  <2>6. DOMAIN [m EXCEPT ![sec] = new] = {Cmd, Props} /\ [m EXCEPT ![sec] = new][Props] = new
    BY <1>7 DEF Lawful
  <2> QED
    BY <1>1, <1>3, <1>7, <2>5, <2>6 DEF Lawful
<1> QED
  BY <1>6, <1>7

\* set_port builds a setting for any port (configurable.rs:87).
LEMMA PortAdded ==
  ASSUME NEW m, Lawful(m), NEW n \in Nat
  PROVE  Lawful(Add(m, Props, "server-port", PropertyManifest("server-port", Value("unsigned", n))))
<1> DEFINE s   == PropertyManifest("server-port", Value("unsigned", n))
           new == Put(m[Props], "server-port", s)
<1>1. KindOf("server-port") = "unsigned"
  BY KindFacts, PortKeys
<1>2. IsSettingOf(s, "server-port", n)
  BY <1>1, BuiltSetting
<1>3. Admits("server-port", n)
  BY <1>1, KindFacts, PortKeys DEF Admits
<1>4. IsProperty("server-port", s)
  BY <1>2, <1>3, BuiltIsProperty
<1> HIDE DEF s
<1>5. /\ DOMAIN new = DOMAIN m[Props] \union {"server-port"}
      /\ new["server-port"] = s
      /\ \A k \in DOMAIN m[Props] : k # "server-port" => new[k] = m[Props][k]
  BY DEF Put
<1>6. Add(m, Props, "server-port", s) = [m EXCEPT ![Props] = new]
  BY DEF Add
<1> HIDE DEF new
<1>7. DOMAIN [m EXCEPT ![Props] = new] = {Cmd, Props} /\ [m EXCEPT ![Props] = new][Props] = new
  BY DEF Lawful
<1>8. Lawful(Add(m, Props, "server-port", s))
  BY <1>4, <1>5, <1>6, <1>7 DEF Lawful
<1> QED
  BY <1>8 DEF s

\* A manifest that is made anew, or emptied, has no setting of server.properties.
LEMMA Emptied ==
  /\ \A cfg : Lawful(InitManifest(cfg))
  /\ \A m : Lawful(m) => Lawful(ClearSection(m, Props))
<1>1. Props # Cmd
  BY DEF Props, Cmd
<1>2. ASSUME NEW cfg PROVE Lawful(InitManifest(cfg))
  <2>1. DOMAIN InitManifest(cfg) = {Cmd, Props} /\ InitManifest(cfg)[Props] = Empty
    BY DEF InitManifest
  <2> QED
    BY <2>1 DEF Lawful, Empty
<1>3. ASSUME NEW m, Lawful(m) PROVE Lawful(ClearSection(m, Props))
  BY <1>3 DEF Lawful, ClearSection
<1> QED
  BY <1>2, <1>3


\* A setting of a lawful manifest has one value (mod.rs:802).
LEMMA SettingText ==
  ASSUME NEW m, Lawful(m), NEW k \in DOMAIN m[Props]
  PROVE  /\ SettingValue(m, Props, k) \in Int
         /\ m[Props][k].value = {Value(KindOf(k), SettingValue(m, Props, k))}
         /\ Admits(k, SettingValue(m, Props, k))
         /\ IsSettingOf(m[Props][k], k, SettingValue(m, Props, k))
<1>1. PICK val \in m[Props][k].value :
        Admits(k, val.v) /\ IsSettingOf(m[Props][k], k, val.v)
  BY DEF Lawful, IsProperty
<1>2. m[Props][k].value = {Value(KindOf(k), val.v)}
  BY <1>1 DEF IsSettingOf
<1>3. (CHOOSE x \in m[Props][k].value : TRUE) = Value(KindOf(k), val.v)
  BY <1>2
<1>4. Value(KindOf(k), val.v).v = val.v
  BY DEF Value
<1>5. SettingValue(m, Props, k) = val.v
  BY <1>3, <1>4 DEF SettingValue
<1>6. val.v \in Int
  BY <1>1 DEF Admits
<1> QED
  BY <1>1, <1>2, <1>5, <1>6

\* Whatever is printed for texts is a file, with further lines or without
\* (util.rs:36).
LEMMA PrintedFile ==
  ASSUME NEW values, \A k \in DOMAIN values : values[k] \in Int,
         NEW file \in Printed(values)
  PROVE  IsFile(file)
<1> DEFINE keys   == DOMAIN values \ Comments
           broken == {k \in DOMAIN values : values[k] \in DOMAIN Breaks}
           more   == UNION {{<<j, Breaks[values[k]].rest[j]>> : j \in DOMAIN Breaks[values[k]].rest} :
                              k \in broken}
           line(j, last) == IF \E e \in last : e[1] = j
                            THEN (CHOOSE e \in last : e[1] = j)[2] ELSE FirstLine(values[j])
           lasts  == {l \in SUBSET more : \A e \in more : e[1] \in keys \/ e \in l}
           text(last) == [j \in keys \union {e[1] : e \in more} |-> line(j, last)]
           stati  == {IF \A k \in broken : Breaks[values[k]].whole THEN "ok" ELSE "garbled"}
<1>1. Printed(values) = [status : stati, text : {text(last) : last \in lasts}]
  BY DEF Printed
<1>2. stati \subseteq {"ok", "garbled"}
  OBVIOUS
<1>3. \A e \in more : e[2] \in Int
  BY BreaksAssumption
<1>4. \A j \in keys : FirstLine(values[j]) \in Int
  BY BreaksAssumption DEF FirstLine
<1>5. ASSUME NEW last \in lasts PROVE Text(text(last))
  <2>1. ASSUME NEW j \in keys \union {e[1] : e \in more} PROVE line(j, last) \in Int
    <3>1. CASE \E e \in last : e[1] = j
      <4>1. (CHOOSE e \in last : e[1] = j) \in last
        BY <3>1
      <4>2. (CHOOSE e \in last : e[1] = j) \in more
        BY <4>1
      <4> QED
        BY <1>3, <3>1, <4>2
    <3>2. CASE ~\E e \in last : e[1] = j
      <4>1. j \in keys
        BY <2>1, <3>2
      <4> QED
        BY <1>4, <3>2, <4>1
    <3> QED
      BY <3>1, <3>2
  <2> HIDE DEF line, keys, more
  <2> QED
    BY <2>1 DEF Text
<1> HIDE DEF stati, text, lasts
<1>6. PICK last \in lasts : file.text = text(last)
  BY <1>1
<1>7. file.status \in stati /\ DOMAIN file = {"status", "text"}
  BY <1>1
<1> QED
  BY <1>2, <1>5, <1>6, <1>7 DEF IsFile

\* The file that is written for a lawful manifest is one (mod.rs:802).
LEMMA Formatted ==
  ASSUME NEW m, Lawful(m), NEW file \in FormatProperties(m)
  PROVE  IsFile(file)
<1> DEFINE values == [k \in DOMAIN m[Props] |-> (CHOOSE val \in m[Props][k].value : TRUE).v]
<1>1. \A k \in DOMAIN values : values[k] \in Int
  BY SettingText DEF SettingValue
<1>2. file \in Printed(values)
  BY DEF FormatProperties
<1> HIDE DEF values
<1> QED
  BY <1>1, <1>2, PrintedFile

-----------------------------------------------------------------------------
\* A file without lines is a file.
LEMMA BlankIsFile == IsFile(Blank)
  BY DEF IsFile, Text, Blank, Empty

\* What is left of two files of which one was written over the other is a file, which
\* may not be readable (tokio's File, see Overwrites).
LEMMA OverwrittenFile ==
  ASSUME NEW old, IsFile(old), NEW new, IsFile(new), NEW p \in Overwrites(old, new)
  PROVE  IsFile(p)
<1>1. ASSUME NEW kept \in SUBSET DOMAIN old.text
      PROVE  Text(Over([k \in kept |-> old.text[k]], new.text))
  BY DEF Text, Over, IsFile
<1>2. CASE p = new
  BY <1>2
<1>3. CASE p \in [status : {"garbled"}, text : {new.text}]
  BY <1>3 DEF IsFile
<1>4. CASE p \in [status : {new.status},
                  text : {Over([k \in kept |-> old.text[k]], new.text) : kept \in SUBSET DOMAIN old.text}]
  <2>1. p.status = new.status /\ DOMAIN p = {"status", "text"}
    BY <1>4
  <2>2. PICK kept \in SUBSET DOMAIN old.text : p.text = Over([k \in kept |-> old.text[k]], new.text)
    BY <1>4
  <2> QED
    BY <1>1, <2>1, <2>2 DEF IsFile
<1> QED
  BY <1>2, <1>3, <1>4 DEF Overwrites

\* Where a request goes first.
LEMMA FirstOp ==
  ASSUME NEW r \in Requests
  PROVE  /\ FirstStep[r.op] \in {"clear", "read", "set_port", "set_label", "check"}
         /\ FirstStep[r.op] = "set_port" => r.op = "port"
         /\ FirstStep[r.op] = "set_label" => r.op = "label"
<1>1. r.op \in {"view", "update", "port", "label", "version"}
  BY RequestsAssumption DEF Request
<1> QED
  BY <1>1 DEF FirstStep


\* While a request is alone it is the only one to take a step.
LEMMA ActorKept ==
  ASSUME ShapeInv, AloneInv, KeptInv, NEW c \in Clients, at[c] # "idle",
         alone' \subseteq alone, at'[c] = "idle" \/ misread \subseteq misread',
         \A d \in Clients \ {c} : at'[d] = at[d],
         c \in alone \ misread /\ KeptSoFar(c) => KeptSoFar(c)' \/ c \in misread'
  PROVE  KeptInv'
<1>1. ASSUME NEW d \in alone, d # c PROVE KeptSoFar(d)'
  <2>1. at'[d] = "idle"
    BY <1>1 DEF AloneInv
  <2> QED
    BY <2>1 DEF KeptSoFar
<1>2. at'[c] = "idle" => KeptSoFar(c)'
  BY DEF KeptSoFar
<1> QED
  BY <1>1, <1>2 DEF KeptInv

\* The manifest is only ever changed to a lawful one.
LEMMA ManifestStep ==
  ASSUME IInv, LinesInv, [SetNext]_setVars
  PROVE  ManifestInv'
<1>1. ShapeInv /\ ManifestInv /\ TextInv /\ RequestInv
  BY DEF IInv, LinesInv
<1> USE DEF ManifestInv, fileVars, lateVars, clientVars, reqVars
<1>2. ASSUME NEW c \in Clients, NEW r \in Requests, Begin(c, r) PROVE ManifestInv'
  BY <1>1, <1>2 DEF Begin
<1>3. ASSUME NEW c \in Clients, Clear(c) PROVE ManifestInv'
  BY <1>1, <1>3, Emptied DEF Clear, Goto
<1>4. ASSUME NEW c \in Clients, ReadFile(c) PROVE ManifestInv'
  BY <1>1, <1>4 DEF ReadFile, Goto
<1>5. ASSUME NEW c \in Clients, Apply(c) PROVE ManifestInv'
  BY <1>1, <1>5, Applied DEF Apply, Goto, TextInv, IsFile
<1>6. ASSUME NEW c \in Clients, SetValue(c) PROVE ManifestInv'
  <2>1. CASE UNCHANGED manifest
    BY <1>1, <2>1
  <2>2. CASE ~UNCHANGED manifest
    <3>1. /\ at[c] = "set" /\ CanUpdate(manifest, req[c].sec, req[c].id, req[c].val)
          /\ manifest' = Update(manifest, req[c].sec, req[c].id, req[c].val)
      BY <1>6, <2>2 DEF SetValue, Goto
    <3>2. req[c].sec \in {Cmd, Props} /\ req[c].val \in Values
      BY <1>1, <3>1, RequestsAssumption DEF RequestInv, Request
    <3> QED
      BY <1>1, <3>1, <3>2, Updated
  <2> QED
    BY <2>1, <2>2
<1>7. ASSUME NEW c \in Clients, Sync(c) PROVE ManifestInv'
  BY <1>1, <1>7 DEF Sync, Goto
<1>8. ASSUME NEW c \in Clients, Unwind(c) PROVE ManifestInv'
  BY <1>1, <1>8 DEF Unwind, Goto
<1>9. ASSUME NEW c \in Clients, SetPort(c) PROVE ManifestInv'
  <2>1. req[c].val.v % (U16Max + 1) \in Nat
    <3>1. at[c] = "set_port"
      BY <1>9 DEF SetPort, Goto
    <3>2. req[c].val \in Values
      BY <1>1, <3>1, RequestsAssumption DEF RequestInv, Request
    <3>3. req[c].val.v \in Int
      BY <3>2 DEF Values
    <3> QED
      BY <3>3 DEF U16Max
  <2> QED
    BY <1>1, <1>9, <2>1, PortAdded DEF SetPort
<1>10. ASSUME NEW c \in Clients, SetConfigPort(c) PROVE ManifestInv'
  BY <1>1, <1>10 DEF SetConfigPort, SetConfigField, Goto
<1>11. ASSUME NEW c \in Clients, SetLabel(c) PROVE ManifestInv'
  BY <1>1, <1>11 DEF SetLabel, SetConfigField, Goto
<1>12. ASSUME NEW c \in Clients, SetVersion(c) PROVE ManifestInv'
  BY <1>1, <1>12 DEF SetVersion, SetConfigField, Goto
<1>13. ASSUME NEW c \in Clients, OpenConfig(c) PROVE ManifestInv'
  BY <1>1, <1>13 DEF OpenConfig, Goto
<1>14. ASSUME NEW c \in Clients, OpenConfigFails(c) PROVE ManifestInv'
  BY <1>1, <1>14 DEF OpenConfigFails, AfterFailedSave, Goto
<1>15. ASSUME NEW c \in Clients, WriteConfigFails(c) PROVE ManifestInv'
  BY <1>1, <1>15 DEF WriteConfigFails, AfterFailedSave, Goto
<1>16. ASSUME NEW c \in Clients, WriteConfig(c) PROVE ManifestInv'
  BY <1>1, <1>16 DEF WriteConfig, Saved, Goto
<1>17. ASSUME NEW c \in Clients, Truncate(c) PROVE ManifestInv'
  BY <1>1, <1>17 DEF Truncate, Goto
<1>18. ASSUME NEW c \in Clients, Format(c) PROVE ManifestInv'
  BY <1>1, <1>18 DEF Format, Goto
<1>19. ASSUME NEW c \in Clients, WriteProps(c) PROVE ManifestInv'
  BY <1>1, <1>19 DEF WriteProps, Goto
<1>20. ASSUME NEW c \in Clients, Check(c) PROVE ManifestInv'
  BY <1>1, <1>20 DEF Check, Goto
<1>21. ASSUME NEW c \in Clients, FindJar(c) PROVE ManifestInv'
  BY <1>1, <1>21 DEF FindJar, Goto
<1>22. ASSUME NEW c \in Clients, RenameJar(c) PROVE ManifestInv'
  BY <1>1, <1>22 DEF RenameJar, Goto
<1>23. ASSUME NEW c \in Clients, Hangup(c) PROVE ManifestInv'
  BY <1>1, <1>23 DEF Hangup, Leaves, Goto
<1>24. ASSUME NEW e \in HandEdits, HandEdit(e[1], e[2]) PROVE ManifestInv'
  BY <1>1, <1>24 DEF HandEdit
<1>25. ASSUME NEW file \in inflight, Land(file) PROVE ManifestInv'
  BY <1>1, <1>25 DEF Land
<1>26. ASSUME NEW w \in lateConfig, OpenLate(w) PROVE ManifestInv'
  BY <1>1, <1>26 DEF OpenLate
<1>27. ASSUME NEW w \in lateConfig, WriteLate(w) PROVE ManifestInv'
  BY <1>1, <1>27 DEF WriteLate, Saved
<1>28. CASE TruncateLate
  BY <1>1, <1>28 DEF TruncateLate
<1>29. ASSUME NEW version \in lateJar, RenameLate(version) PROVE ManifestInv'
  BY <1>1, <1>29 DEF RenameLate
<1>30. CASE Crash
  BY <1>1, <1>30 DEF Crash
<1>31. CASE Restore
  BY <1>1, <1>31, Applied, Emptied DEF Restore, TextInv, IsFile
<1>32. CASE UNCHANGED setVars
  BY <1>1, <1>32 DEF setVars
<1> QED
  BY <1>2, <1>3, <1>4, <1>5, <1>6, <1>7, <1>8, <1>9, <1>10, <1>11, <1>12, <1>13, <1>14,
     <1>15, <1>16, <1>17, <1>18, <1>19, <1>20, <1>21, <1>22, <1>23, <1>24, <1>25,
     <1>26, <1>27, <1>28, <1>29, <1>30, <1>31, <1>32
     DEF SetNext, ClientStep

\* Whatever is read, written or under way is a file.
LEMMA TextStep ==
  ASSUME IInv, LinesInv, [SetNext]_setVars
  PROVE  TextInv'
<1>1. ShapeInv /\ ManifestInv /\ TextInv
  BY DEF IInv, LinesInv
<1> USE DEF TextInv, ShapeInv, fileVars, lateVars, clientVars, reqVars
<1>2. ASSUME NEW c \in Clients, NEW r \in Requests, Begin(c, r) PROVE TextInv'
  BY <1>1, <1>2 DEF Begin
<1>3. ASSUME NEW c \in Clients, Clear(c) PROVE TextInv'
  BY <1>1, <1>3 DEF Clear, Goto
<1>4. ASSUME NEW c \in Clients, ReadFile(c) PROVE TextInv'
  BY <1>1, <1>4 DEF ReadFile, Goto
<1>5. ASSUME NEW c \in Clients, Apply(c) PROVE TextInv'
  BY <1>1, <1>5, BlankIsFile DEF Apply, Goto
<1>6. ASSUME NEW c \in Clients, SetValue(c) PROVE TextInv'
  BY <1>1, <1>6 DEF SetValue, Goto
<1>7. ASSUME NEW c \in Clients, Sync(c) PROVE TextInv'
  BY <1>1, <1>7 DEF Sync, Goto
<1>8. ASSUME NEW c \in Clients, Unwind(c) PROVE TextInv'
  BY <1>1, <1>8 DEF Unwind, Goto
<1>9. ASSUME NEW c \in Clients, SetPort(c) PROVE TextInv'
  BY <1>1, <1>9 DEF SetPort, Goto
<1>10. ASSUME NEW c \in Clients, SetConfigPort(c) PROVE TextInv'
  BY <1>1, <1>10 DEF SetConfigPort, SetConfigField, Goto
<1>11. ASSUME NEW c \in Clients, SetLabel(c) PROVE TextInv'
  BY <1>1, <1>11 DEF SetLabel, SetConfigField, Goto
<1>12. ASSUME NEW c \in Clients, SetVersion(c) PROVE TextInv'
  BY <1>1, <1>12 DEF SetVersion, SetConfigField, Goto
<1>13. ASSUME NEW c \in Clients, OpenConfig(c) PROVE TextInv'
  BY <1>1, <1>13 DEF OpenConfig, Goto
<1>14. ASSUME NEW c \in Clients, OpenConfigFails(c) PROVE TextInv'
  BY <1>1, <1>14 DEF OpenConfigFails, AfterFailedSave, Goto
<1>15. ASSUME NEW c \in Clients, WriteConfigFails(c) PROVE TextInv'
  BY <1>1, <1>15 DEF WriteConfigFails, AfterFailedSave, Goto
<1>16. ASSUME NEW c \in Clients, WriteConfig(c) PROVE TextInv'
  BY <1>1, <1>16 DEF WriteConfig, Saved, Goto
<1>17. ASSUME NEW c \in Clients, Truncate(c) PROVE TextInv'
  BY <1>1, <1>17, BlankIsFile DEF Truncate, Goto
<1>18. ASSUME NEW c \in Clients, Format(c) PROVE TextInv'
  BY <1>1, <1>18, Formatted DEF Format, Goto, ManifestInv
<1>19. ASSUME NEW c \in Clients, WriteProps(c) PROVE TextInv'
  BY <1>1, <1>19, BlankIsFile DEF WriteProps, Goto
<1>20. ASSUME NEW c \in Clients, Check(c) PROVE TextInv'
  BY <1>1, <1>20 DEF Check, Goto
<1>21. ASSUME NEW c \in Clients, FindJar(c) PROVE TextInv'
  BY <1>1, <1>21 DEF FindJar, Goto
<1>22. ASSUME NEW c \in Clients, RenameJar(c) PROVE TextInv'
  BY <1>1, <1>22 DEF RenameJar, Goto
<1>23. ASSUME NEW c \in Clients, Hangup(c) PROVE TextInv'
  BY <1>1, <1>23, BlankIsFile DEF Hangup, Leaves, Goto
<1>24. ASSUME NEW e \in HandEdits, HandEdit(e[1], e[2]) PROVE TextInv'
  <2>1. e[2] \in Int
    BY TextsAssumption
  <2>2. /\ props' = [props EXCEPT !.text = Over([j \in {e[1]} |-> e[2]], props.text)]
        /\ UNCHANGED <<inflight, seen>>
    BY <1>24 DEF HandEdit
  <2>3. Text(Over([j \in {e[1]} |-> e[2]], props.text))
    BY <1>1, <2>1 DEF Text, Over, IsFile
  <2>4. IsFile(props')
    BY <1>1, <2>2, <2>3 DEF IsFile
  <2> QED
    BY <1>1, <2>2, <2>4
<1>25. ASSUME NEW file \in inflight, Land(file) PROVE TextInv'
  <2>1. inflight' = inflight \ {file} /\ seen' = seen /\ IsFile(file)
    BY <1>1, <1>25 DEF Land
  <2>2. IsFile(props')
    <3>1. CASE props' = props
      BY <1>1, <3>1
    <3>2. CASE props' \in Overwrites(props, file)
      BY <1>1, <2>1, <3>2, OverwrittenFile
    <3> QED
      BY <1>25, <3>1, <3>2 DEF Land
  <2> QED
    BY <1>1, <2>1, <2>2
<1>26. ASSUME NEW w \in lateConfig, OpenLate(w) PROVE TextInv'
  BY <1>1, <1>26 DEF OpenLate
<1>27. ASSUME NEW w \in lateConfig, WriteLate(w) PROVE TextInv'
  BY <1>1, <1>27 DEF WriteLate, Saved
<1>28. CASE TruncateLate
  BY <1>1, <1>28, BlankIsFile DEF TruncateLate
<1>29. ASSUME NEW version \in lateJar, RenameLate(version) PROVE TextInv'
  BY <1>1, <1>29 DEF RenameLate
<1>30. CASE Crash
  BY <1>1, <1>30, BlankIsFile DEF Crash
<1>31. CASE Restore
  BY <1>1, <1>31 DEF Restore
<1>32. CASE UNCHANGED setVars
  BY <1>1, <1>32 DEF setVars
<1> QED
  BY <1>2, <1>3, <1>4, <1>5, <1>6, <1>7, <1>8, <1>9, <1>10, <1>11, <1>12, <1>13, <1>14,
     <1>15, <1>16, <1>17, <1>18, <1>19, <1>20, <1>21, <1>22, <1>23, <1>24, <1>25,
     <1>26, <1>27, <1>28, <1>29, <1>30, <1>31, <1>32
     DEF SetNext, ClientStep

\* A request is at the stages of what it asks for.
LEMMA RequestStep ==
  ASSUME IInv, LinesInv, [SetNext]_setVars
  PROVE  RequestInv'
<1>1. ShapeInv /\ DownInv /\ RequestInv
  BY DEF IInv, LinesInv
<1> USE DEF ShapeInv, DownInv, RequestInv, Stages, fileVars, lateVars, clientVars, reqVars
<1>2. ASSUME NEW c \in Clients, NEW r \in Requests, Begin(c, r) PROVE RequestInv'
  BY <1>1, <1>2, FirstOp DEF Begin
<1>3. ASSUME NEW c \in Clients, Clear(c) PROVE RequestInv'
  BY <1>1, <1>3 DEF Clear, Goto
<1>4. ASSUME NEW c \in Clients, ReadFile(c) PROVE RequestInv'
  BY <1>1, <1>4 DEF ReadFile, Goto
<1>5. ASSUME NEW c \in Clients, Apply(c) PROVE RequestInv'
  BY <1>1, <1>5 DEF Apply, Goto
<1>6. ASSUME NEW c \in Clients, SetValue(c) PROVE RequestInv'
  BY <1>1, <1>6 DEF SetValue, Goto
<1>7. ASSUME NEW c \in Clients, Sync(c) PROVE RequestInv'
  BY <1>1, <1>7 DEF Sync, Goto
<1>8. ASSUME NEW c \in Clients, Unwind(c) PROVE RequestInv'
  BY <1>1, <1>8 DEF Unwind, Goto
<1>9. ASSUME NEW c \in Clients, SetPort(c) PROVE RequestInv'
  BY <1>1, <1>9 DEF SetPort, Goto
<1>10. ASSUME NEW c \in Clients, SetConfigPort(c) PROVE RequestInv'
  BY <1>1, <1>10 DEF SetConfigPort, SetConfigField, Goto
<1>11. ASSUME NEW c \in Clients, SetLabel(c) PROVE RequestInv'
  BY <1>1, <1>11 DEF SetLabel, SetConfigField, Goto
<1>12. ASSUME NEW c \in Clients, SetVersion(c) PROVE RequestInv'
  BY <1>1, <1>12 DEF SetVersion, SetConfigField, Goto
<1>13. ASSUME NEW c \in Clients, OpenConfig(c) PROVE RequestInv'
  BY <1>1, <1>13 DEF OpenConfig, Goto
<1>14. ASSUME NEW c \in Clients, OpenConfigFails(c) PROVE RequestInv'
  BY <1>1, <1>14 DEF OpenConfigFails, AfterFailedSave, Goto
<1>15. ASSUME NEW c \in Clients, WriteConfigFails(c) PROVE RequestInv'
  BY <1>1, <1>15 DEF WriteConfigFails, AfterFailedSave, Goto
<1>16. ASSUME NEW c \in Clients, WriteConfig(c) PROVE RequestInv'
  BY <1>1, <1>16 DEF WriteConfig, Saved, Goto
<1>17. ASSUME NEW c \in Clients, Truncate(c) PROVE RequestInv'
  BY <1>1, <1>17 DEF Truncate, Goto
<1>18. ASSUME NEW c \in Clients, Format(c) PROVE RequestInv'
  BY <1>1, <1>18 DEF Format, Goto
<1>19. ASSUME NEW c \in Clients, WriteProps(c) PROVE RequestInv'
  BY <1>1, <1>19 DEF WriteProps, Goto
<1>20. ASSUME NEW c \in Clients, Check(c) PROVE RequestInv'
  BY <1>1, <1>20 DEF Check, Goto
<1>21. ASSUME NEW c \in Clients, FindJar(c) PROVE RequestInv'
  BY <1>1, <1>21 DEF FindJar, Goto
<1>22. ASSUME NEW c \in Clients, RenameJar(c) PROVE RequestInv'
  BY <1>1, <1>22 DEF RenameJar, Goto
<1>23. ASSUME NEW c \in Clients, Hangup(c) PROVE RequestInv'
  BY <1>1, <1>23 DEF Hangup, Leaves, Goto
<1>24. ASSUME NEW e \in HandEdits, HandEdit(e[1], e[2]) PROVE RequestInv'
  BY <1>1, <1>24 DEF HandEdit
<1>25. ASSUME NEW file \in inflight, Land(file) PROVE RequestInv'
  BY <1>1, <1>25 DEF Land
<1>26. ASSUME NEW w \in lateConfig, OpenLate(w) PROVE RequestInv'
  BY <1>1, <1>26 DEF OpenLate
<1>27. ASSUME NEW w \in lateConfig, WriteLate(w) PROVE RequestInv'
  BY <1>1, <1>27 DEF WriteLate, Saved
<1>28. CASE TruncateLate
  BY <1>1, <1>28 DEF TruncateLate
<1>29. ASSUME NEW version \in lateJar, RenameLate(version) PROVE RequestInv'
  BY <1>1, <1>29 DEF RenameLate
<1>30. CASE Crash
  BY <1>1, <1>30 DEF Crash
<1>31. CASE Restore
  BY <1>1, <1>31 DEF Restore
<1>32. CASE UNCHANGED setVars
  BY <1>1, <1>32 DEF setVars
<1> QED
  BY <1>2, <1>3, <1>4, <1>5, <1>6, <1>7, <1>8, <1>9, <1>10, <1>11, <1>12, <1>13, <1>14,
     <1>15, <1>16, <1>17, <1>18, <1>19, <1>20, <1>21, <1>22, <1>23, <1>24, <1>25,
     <1>26, <1>27, <1>28, <1>29, <1>30, <1>31, <1>32
     DEF SetNext, ClientStep

\* A request that begins while another is at work is not alone, and neither is
\* the other.
LEMMA AloneStep ==
  ASSUME IInv, LinesInv, [SetNext]_setVars
  PROVE  AloneInv'
<1>1. ShapeInv /\ DownInv /\ AloneInv
  BY DEF IInv, LinesInv
<1> USE DEF ShapeInv, DownInv, AloneInv, Stages, fileVars, lateVars, clientVars, reqVars
<1>2. ASSUME NEW c \in Clients, NEW r \in Requests, Begin(c, r) PROVE AloneInv'
  BY <1>1, <1>2 DEF Begin, Idle
<1>3. ASSUME NEW c \in Clients, Clear(c) PROVE AloneInv'
  BY <1>1, <1>3 DEF Clear, Goto
<1>4. ASSUME NEW c \in Clients, ReadFile(c) PROVE AloneInv'
  BY <1>1, <1>4 DEF ReadFile, Goto
<1>5. ASSUME NEW c \in Clients, Apply(c) PROVE AloneInv'
  BY <1>1, <1>5 DEF Apply, Goto
<1>6. ASSUME NEW c \in Clients, SetValue(c) PROVE AloneInv'
  BY <1>1, <1>6 DEF SetValue, Goto
<1>7. ASSUME NEW c \in Clients, Sync(c) PROVE AloneInv'
  BY <1>1, <1>7 DEF Sync, Goto
<1>8. ASSUME NEW c \in Clients, Unwind(c) PROVE AloneInv'
  BY <1>1, <1>8 DEF Unwind, Goto
<1>9. ASSUME NEW c \in Clients, SetPort(c) PROVE AloneInv'
  BY <1>1, <1>9 DEF SetPort, Goto
<1>10. ASSUME NEW c \in Clients, SetConfigPort(c) PROVE AloneInv'
  BY <1>1, <1>10 DEF SetConfigPort, SetConfigField, Goto
<1>11. ASSUME NEW c \in Clients, SetLabel(c) PROVE AloneInv'
  BY <1>1, <1>11 DEF SetLabel, SetConfigField, Goto
<1>12. ASSUME NEW c \in Clients, SetVersion(c) PROVE AloneInv'
  BY <1>1, <1>12 DEF SetVersion, SetConfigField, Goto
<1>13. ASSUME NEW c \in Clients, OpenConfig(c) PROVE AloneInv'
  BY <1>1, <1>13 DEF OpenConfig, Goto
<1>14. ASSUME NEW c \in Clients, OpenConfigFails(c) PROVE AloneInv'
  BY <1>1, <1>14 DEF OpenConfigFails, AfterFailedSave, Goto
<1>15. ASSUME NEW c \in Clients, WriteConfigFails(c) PROVE AloneInv'
  BY <1>1, <1>15 DEF WriteConfigFails, AfterFailedSave, Goto
<1>16. ASSUME NEW c \in Clients, WriteConfig(c) PROVE AloneInv'
  BY <1>1, <1>16 DEF WriteConfig, Saved, Goto
<1>17. ASSUME NEW c \in Clients, Truncate(c) PROVE AloneInv'
  BY <1>1, <1>17 DEF Truncate, Goto
<1>18. ASSUME NEW c \in Clients, Format(c) PROVE AloneInv'
  BY <1>1, <1>18 DEF Format, Goto
<1>19. ASSUME NEW c \in Clients, WriteProps(c) PROVE AloneInv'
  BY <1>1, <1>19 DEF WriteProps, Goto
<1>20. ASSUME NEW c \in Clients, Check(c) PROVE AloneInv'
  BY <1>1, <1>20 DEF Check, Goto
<1>21. ASSUME NEW c \in Clients, FindJar(c) PROVE AloneInv'
  BY <1>1, <1>21 DEF FindJar, Goto
<1>22. ASSUME NEW c \in Clients, RenameJar(c) PROVE AloneInv'
  BY <1>1, <1>22 DEF RenameJar, Goto
<1>23. ASSUME NEW c \in Clients, Hangup(c) PROVE AloneInv'
  BY <1>1, <1>23 DEF Hangup, Leaves, Goto
<1>24. ASSUME NEW e \in HandEdits, HandEdit(e[1], e[2]) PROVE AloneInv'
  BY <1>1, <1>24 DEF HandEdit
<1>25. ASSUME NEW file \in inflight, Land(file) PROVE AloneInv'
  BY <1>1, <1>25 DEF Land
<1>26. ASSUME NEW w \in lateConfig, OpenLate(w) PROVE AloneInv'
  BY <1>1, <1>26 DEF OpenLate
<1>27. ASSUME NEW w \in lateConfig, WriteLate(w) PROVE AloneInv'
  BY <1>1, <1>27 DEF WriteLate, Saved
<1>28. CASE TruncateLate
  BY <1>1, <1>28 DEF TruncateLate
<1>29. ASSUME NEW version \in lateJar, RenameLate(version) PROVE AloneInv'
  BY <1>1, <1>29 DEF RenameLate
<1>30. CASE Crash
  BY <1>1, <1>30 DEF Crash
<1>31. CASE Restore
  BY <1>1, <1>31 DEF Restore
<1>32. CASE UNCHANGED setVars
  BY <1>1, <1>32 DEF setVars
<1> QED
  BY <1>2, <1>3, <1>4, <1>5, <1>6, <1>7, <1>8, <1>9, <1>10, <1>11, <1>12, <1>13, <1>14,
     <1>15, <1>16, <1>17, <1>18, <1>19, <1>20, <1>21, <1>22, <1>23, <1>24, <1>25,
     <1>26, <1>27, <1>28, <1>29, <1>30, <1>31, <1>32
     DEF SetNext, ClientStep

\* A request that is alone finds the file as it read it, and the manifest as it left
\* it.
LEMMA KeptStep ==
  ASSUME IInv, LinesInv, [SetNext]_setVars
  PROVE  KeptInv'
<1>1. ShapeInv /\ DownInv /\ JarInv /\ ManifestInv /\ TextInv /\ RequestInv /\ AloneInv /\ KeptInv
  BY DEF IInv, LinesInv
<1> USE DEF ShapeInv, KeptInv, fileVars, lateVars, clientVars, reqVars
<1>2. ASSUME NEW c \in Clients, NEW r \in Requests, Begin(c, r) PROVE KeptInv'
  BY <1>1, <1>2, FirstOp DEF Begin, KeptSoFar
<1>3. ASSUME NEW c \in Clients, Clear(c) PROVE KeptInv'
  <2>1. /\ at[c] # "idle" /\ alone' \subseteq alone /\ \A d \in Clients \ {c} : at'[d] = at[d]
        /\ at'[c] = "idle" \/ misread \subseteq misread'
    BY <1>1, <1>3 DEF Clear, Goto
  <2>2. ASSUME c \in alone \ misread, KeptSoFar(c) PROVE KeptSoFar(c)'
    BY <1>1, <1>3 DEF Clear, Goto, KeptSoFar
  <2> QED
    BY <1>1, <2>1, <2>2, ActorKept
<1>4. ASSUME NEW c \in Clients, ReadFile(c) PROVE KeptInv'
  <2>1. /\ at[c] # "idle" /\ alone' \subseteq alone /\ \A d \in Clients \ {c} : at'[d] = at[d]
        /\ at'[c] = "idle" \/ misread \subseteq misread'
    BY <1>1, <1>4 DEF ReadFile, Goto
  <2>2. ASSUME c \in alone \ misread, KeptSoFar(c) PROVE KeptSoFar(c)' \/ c \in misread'
    BY <1>1, <1>4 DEF ReadFile, Goto, KeptSoFar, TextInv
  <2> QED
    BY <1>1, <2>1, <2>2, ActorKept
<1>5. ASSUME NEW c \in Clients, Apply(c) PROVE KeptInv'
  <2>1. /\ at[c] # "idle" /\ alone' \subseteq alone /\ \A d \in Clients \ {c} : at'[d] = at[d]
        /\ at'[c] = "idle" \/ misread \subseteq misread'
    BY <1>1, <1>5 DEF Apply, Goto
  <2>2. ASSUME c \in alone \ misread, KeptSoFar(c) PROVE KeptSoFar(c)'
    <3>1. /\ at[c] = "apply" /\ manifest' = ApplyProperties(manifest, seen[c].text)
          /\ UNCHANGED props /\ at'[c] \in {"idle", "set"}
      BY <1>1, <1>5 DEF Apply, Goto, fileVars
    <3>2. props.status = "ok" /\ seen[c] = props
      BY <2>2, <3>1 DEF KeptSoFar
    <3>3. Kept(c)'
      BY <1>1, <3>1, <3>2, Applied DEF Kept, ManifestInv, TextInv, IsFile
    <3> QED
      BY <3>1, <3>3 DEF KeptSoFar
  <2> QED
    BY <1>1, <2>1, <2>2, ActorKept
<1>6. ASSUME NEW c \in Clients, SetValue(c) PROVE KeptInv'
  <2>1. /\ at[c] # "idle" /\ alone' \subseteq alone /\ \A d \in Clients \ {c} : at'[d] = at[d]
        /\ at'[c] = "idle" \/ misread \subseteq misread'
    BY <1>1, <1>6 DEF SetValue, Goto
  <2>2. ASSUME c \in alone \ misread, KeptSoFar(c) PROVE KeptSoFar(c)'
    <3>1. CASE at'[c] = "idle"
      BY <3>1 DEF KeptSoFar
    <3>2. CASE at'[c] # "idle"
      <4>1. /\ at[c] = "set" /\ CanUpdate(manifest, req[c].sec, req[c].id, req[c].val)
            /\ manifest' = Update(manifest, req[c].sec, req[c].id, req[c].val)
            /\ at'[c] = "sync" /\ UNCHANGED <<props, req>>
        BY <1>1, <1>6, <3>2 DEF SetValue, Goto, fileVars
      <4>2. req[c].sec \in {Cmd, Props} /\ req[c].val \in Values
        BY <1>1, <4>1, RequestsAssumption DEF RequestInv, Request
      <4>3. Kept(c)
        BY <2>2, <4>1 DEF KeptSoFar
      <4>4. Kept(c)'
        BY <1>1, <4>1, <4>2, <4>3, Updated DEF Kept, ManifestInv
      <4> QED
        BY <4>1, <4>4 DEF KeptSoFar
    <3> QED
      BY <3>1, <3>2
  <2> QED
    BY <1>1, <2>1, <2>2, ActorKept
<1>7. ASSUME NEW c \in Clients, Sync(c) PROVE KeptInv'
  <2>1. /\ at[c] # "idle" /\ alone' \subseteq alone /\ \A d \in Clients \ {c} : at'[d] = at[d]
        /\ at'[c] = "idle" \/ misread \subseteq misread'
    BY <1>1, <1>7 DEF Sync, Goto
  <2>2. ASSUME c \in alone \ misread, KeptSoFar(c) PROVE KeptSoFar(c)'
    BY <1>1, <1>7, <2>2 DEF Sync, Goto, KeptSoFar, Kept
  <2> QED
    BY <1>1, <2>1, <2>2, ActorKept
<1>8. ASSUME NEW c \in Clients, Unwind(c) PROVE KeptInv'
  <2>1. /\ at[c] # "idle" /\ alone' \subseteq alone /\ \A d \in Clients \ {c} : at'[d] = at[d]
        /\ at'[c] = "idle" \/ misread \subseteq misread'
    BY <1>1, <1>8 DEF Unwind, Goto
  <2>2. ASSUME c \in alone \ misread, KeptSoFar(c) PROVE KeptSoFar(c)'
    BY <1>1, <1>8 DEF Unwind, Goto, KeptSoFar
  <2> QED
    BY <1>1, <2>1, <2>2, ActorKept
<1>9. ASSUME NEW c \in Clients, SetPort(c) PROVE KeptInv'
  <2>1. /\ at[c] # "idle" /\ alone' \subseteq alone /\ \A d \in Clients \ {c} : at'[d] = at[d]
        /\ at'[c] = "idle" \/ misread \subseteq misread'
    BY <1>1, <1>9 DEF SetPort, Goto
  <2>2. ASSUME c \in alone \ misread, KeptSoFar(c) PROVE KeptSoFar(c)'
    BY <1>1, <1>9 DEF SetPort, Goto, KeptSoFar
  <2> QED
    BY <1>1, <2>1, <2>2, ActorKept
<1>10. ASSUME NEW c \in Clients, SetConfigPort(c) PROVE KeptInv'
  <2>1. /\ at[c] # "idle" /\ alone' \subseteq alone /\ \A d \in Clients \ {c} : at'[d] = at[d]
        /\ at'[c] = "idle" \/ misread \subseteq misread'
    BY <1>1, <1>10 DEF SetConfigPort, SetConfigField, Goto
  <2>2. ASSUME c \in alone \ misread, KeptSoFar(c) PROVE KeptSoFar(c)'
    BY <1>1, <1>10 DEF SetConfigPort, SetConfigField, Goto, KeptSoFar, RequestInv
  <2> QED
    BY <1>1, <2>1, <2>2, ActorKept
<1>11. ASSUME NEW c \in Clients, SetLabel(c) PROVE KeptInv'
  <2>1. /\ at[c] # "idle" /\ alone' \subseteq alone /\ \A d \in Clients \ {c} : at'[d] = at[d]
        /\ at'[c] = "idle" \/ misread \subseteq misread'
    BY <1>1, <1>11 DEF SetLabel, SetConfigField, Goto
  <2>2. ASSUME c \in alone \ misread, KeptSoFar(c) PROVE KeptSoFar(c)'
    BY <1>1, <1>11 DEF SetLabel, SetConfigField, Goto, KeptSoFar, RequestInv
  <2> QED
    BY <1>1, <2>1, <2>2, ActorKept
<1>12. ASSUME NEW c \in Clients, SetVersion(c) PROVE KeptInv'
  <2>1. /\ at[c] # "idle" /\ alone' \subseteq alone /\ \A d \in Clients \ {c} : at'[d] = at[d]
        /\ at'[c] = "idle" \/ misread \subseteq misread'
    BY <1>1, <1>12 DEF SetVersion, SetConfigField, Goto
  <2>2. ASSUME c \in alone \ misread, KeptSoFar(c) PROVE KeptSoFar(c)'
    BY <1>1, <1>12 DEF SetVersion, SetConfigField, Goto, KeptSoFar, JarInv, Versioning
  <2> QED
    BY <1>1, <2>1, <2>2, ActorKept
<1>13. ASSUME NEW c \in Clients, OpenConfig(c) PROVE KeptInv'
  <2>1. /\ at[c] # "idle" /\ alone' \subseteq alone /\ \A d \in Clients \ {c} : at'[d] = at[d]
        /\ at'[c] = "idle" \/ misread \subseteq misread'
    BY <1>1, <1>13 DEF OpenConfig, Goto
  <2>2. ASSUME c \in alone \ misread, KeptSoFar(c) PROVE KeptSoFar(c)'
    BY <1>1, <1>13, <2>2 DEF OpenConfig, Goto, KeptSoFar, Kept
  <2> QED
    BY <1>1, <2>1, <2>2, ActorKept
<1>14. ASSUME NEW c \in Clients, OpenConfigFails(c) PROVE KeptInv'
  <2>1. /\ at[c] # "idle" /\ alone' \subseteq alone /\ \A d \in Clients \ {c} : at'[d] = at[d]
        /\ at'[c] = "idle" \/ misread \subseteq misread'
    BY <1>1, <1>14 DEF OpenConfigFails, AfterFailedSave, Goto
  <2>2. ASSUME c \in alone \ misread, KeptSoFar(c) PROVE KeptSoFar(c)'
    BY <1>1, <1>14, <2>2 DEF OpenConfigFails, AfterFailedSave, Goto, KeptSoFar, Kept
  <2> QED
    BY <1>1, <2>1, <2>2, ActorKept
<1>15. ASSUME NEW c \in Clients, WriteConfigFails(c) PROVE KeptInv'
  <2>1. /\ at[c] # "idle" /\ alone' \subseteq alone /\ \A d \in Clients \ {c} : at'[d] = at[d]
        /\ at'[c] = "idle" \/ misread \subseteq misread'
    BY <1>1, <1>15 DEF WriteConfigFails, AfterFailedSave, Goto
  <2>2. ASSUME c \in alone \ misread, KeptSoFar(c) PROVE KeptSoFar(c)'
    BY <1>1, <1>15, <2>2 DEF WriteConfigFails, AfterFailedSave, Goto, KeptSoFar, Kept
  <2> QED
    BY <1>1, <2>1, <2>2, ActorKept
<1>16. ASSUME NEW c \in Clients, WriteConfig(c) PROVE KeptInv'
  <2>1. /\ at[c] # "idle" /\ alone' \subseteq alone /\ \A d \in Clients \ {c} : at'[d] = at[d]
        /\ at'[c] = "idle" \/ misread \subseteq misread'
    BY <1>1, <1>16 DEF WriteConfig, Saved, Goto
  <2>2. ASSUME c \in alone \ misread, KeptSoFar(c) PROVE KeptSoFar(c)'
    BY <1>1, <1>16, <2>2 DEF WriteConfig, Saved, Goto, KeptSoFar, Kept
  <2> QED
    BY <1>1, <2>1, <2>2, ActorKept
<1>17. ASSUME NEW c \in Clients, Truncate(c) PROVE KeptInv'
  <2>1. /\ at[c] # "idle" /\ alone' \subseteq alone /\ \A d \in Clients \ {c} : at'[d] = at[d]
        /\ at'[c] = "idle" \/ misread \subseteq misread'
    BY <1>1, <1>17 DEF Truncate, Goto
  <2>2. ASSUME c \in alone \ misread, KeptSoFar(c) PROVE KeptSoFar(c)'
    BY <1>1, <1>17 DEF Truncate, Goto, KeptSoFar
  <2> QED
    BY <1>1, <2>1, <2>2, ActorKept
<1>18. ASSUME NEW c \in Clients, Format(c) PROVE KeptInv'
  <2>1. /\ at[c] # "idle" /\ alone' \subseteq alone /\ \A d \in Clients \ {c} : at'[d] = at[d]
        /\ at'[c] = "idle" \/ misread \subseteq misread'
    BY <1>1, <1>18 DEF Format, Goto
  <2>2. ASSUME c \in alone \ misread, KeptSoFar(c) PROVE KeptSoFar(c)'
    BY <1>1, <1>18 DEF Format, Goto, KeptSoFar
  <2> QED
    BY <1>1, <2>1, <2>2, ActorKept
<1>19. ASSUME NEW c \in Clients, WriteProps(c) PROVE KeptInv'
  <2>1. /\ at[c] # "idle" /\ alone' \subseteq alone /\ \A d \in Clients \ {c} : at'[d] = at[d]
        /\ at'[c] = "idle" \/ misread \subseteq misread'
    BY <1>1, <1>19 DEF WriteProps, Goto
  <2>2. ASSUME c \in alone \ misread, KeptSoFar(c) PROVE KeptSoFar(c)'
    BY <1>1, <1>19 DEF WriteProps, Goto, KeptSoFar
  <2> QED
    BY <1>1, <2>1, <2>2, ActorKept
<1>20. ASSUME NEW c \in Clients, Check(c) PROVE KeptInv'
  <2>1. /\ at[c] # "idle" /\ alone' \subseteq alone /\ \A d \in Clients \ {c} : at'[d] = at[d]
        /\ at'[c] = "idle" \/ misread \subseteq misread'
    BY <1>1, <1>20 DEF Check, Goto
  <2>2. ASSUME c \in alone \ misread, KeptSoFar(c) PROVE KeptSoFar(c)'
    BY <1>1, <1>20 DEF Check, Goto, KeptSoFar
  <2> QED
    BY <1>1, <2>1, <2>2, ActorKept
<1>21. ASSUME NEW c \in Clients, FindJar(c) PROVE KeptInv'
  <2>1. /\ at[c] # "idle" /\ alone' \subseteq alone /\ \A d \in Clients \ {c} : at'[d] = at[d]
        /\ at'[c] = "idle" \/ misread \subseteq misread'
    BY <1>1, <1>21 DEF FindJar, Goto
  <2>2. ASSUME c \in alone \ misread, KeptSoFar(c) PROVE KeptSoFar(c)'
    BY <1>1, <1>21 DEF FindJar, Goto, KeptSoFar
  <2> QED
    BY <1>1, <2>1, <2>2, ActorKept
<1>22. ASSUME NEW c \in Clients, RenameJar(c) PROVE KeptInv'
  <2>1. /\ at[c] # "idle" /\ alone' \subseteq alone /\ \A d \in Clients \ {c} : at'[d] = at[d]
        /\ at'[c] = "idle" \/ misread \subseteq misread'
    BY <1>1, <1>22 DEF RenameJar, Goto
  <2>2. ASSUME c \in alone \ misread, KeptSoFar(c) PROVE KeptSoFar(c)'
    BY <1>1, <1>22 DEF RenameJar, Goto, KeptSoFar
  <2> QED
    BY <1>1, <2>1, <2>2, ActorKept
<1>23. ASSUME NEW c \in Clients, Hangup(c) PROVE KeptInv'
  <2>1. /\ at[c] # "idle" /\ alone' \subseteq alone /\ \A d \in Clients \ {c} : at'[d] = at[d]
        /\ at'[c] = "idle" \/ misread \subseteq misread'
    BY <1>1, <1>23 DEF Hangup, Leaves, Goto
  <2>2. ASSUME c \in alone \ misread, KeptSoFar(c) PROVE KeptSoFar(c)'
    BY <1>1, <1>23 DEF Hangup, Leaves, Goto, KeptSoFar
  <2> QED
    BY <1>1, <2>1, <2>2, ActorKept
<1>24. ASSUME NEW e \in HandEdits, HandEdit(e[1], e[2]) PROVE KeptInv'
  BY <1>1, <1>24 DEF HandEdit
<1>25. ASSUME NEW file \in inflight, Land(file) PROVE KeptInv'
  BY <1>1, <1>25 DEF Land, AloneInv, KeptSoFar
<1>26. ASSUME NEW w \in lateConfig, OpenLate(w) PROVE KeptInv'
  BY <1>1, <1>26 DEF OpenLate, KeptSoFar, Kept
<1>27. ASSUME NEW w \in lateConfig, WriteLate(w) PROVE KeptInv'
  BY <1>1, <1>27 DEF WriteLate, Saved, KeptSoFar, Kept
<1>28. CASE TruncateLate
  BY <1>1, <1>28 DEF TruncateLate, AloneInv, KeptSoFar
<1>29. ASSUME NEW version \in lateJar, RenameLate(version) PROVE KeptInv'
  BY <1>1, <1>29 DEF RenameLate, KeptSoFar, Kept
<1>30. CASE Crash
  BY <1>1, <1>30 DEF Crash
<1>31. CASE Restore
  BY <1>1, <1>31 DEF Restore, DownInv, AloneInv, KeptSoFar
<1>32. CASE UNCHANGED setVars
  BY <1>1, <1>32 DEF setVars, KeptSoFar, Kept
<1> QED
  BY <1>2, <1>3, <1>4, <1>5, <1>6, <1>7, <1>8, <1>9, <1>10, <1>11, <1>12, <1>13, <1>14,
     <1>15, <1>16, <1>17, <1>18, <1>19, <1>20, <1>21, <1>22, <1>23, <1>24, <1>25,
     <1>26, <1>27, <1>28, <1>29, <1>30, <1>31, <1>32
     DEF SetNext, ClientStep

-----------------------------------------------------------------------------
\* Initially the manifest has what the file says (mod.rs:678).
LEMMA LinesInit == SetInit => LinesInv
<1> SUFFICES ASSUME SetInit PROVE LinesInv
  OBVIOUS
<1>1. props.status = "ok" /\ Text(props.text) /\ DOMAIN props = {"status", "text"}
  BY TextsAssumption DEF SetInit
<1>2. ManifestInv
  BY <1>1, Emptied, Applied DEF SetInit, ManifestInv
<1>3. TextInv
  BY <1>1, BlankIsFile DEF SetInit, TextInv, IsFile
<1>4. RequestInv /\ AloneInv /\ KeptInv
  BY DEF SetInit, RequestInv, AloneInv, KeptInv
<1> QED
  BY <1>2, <1>3, <1>4 DEF LinesInv

\* What is known of lines and settings is inductive relative to IInv.
THEOREM LinesInductive == SetSpec => []LinesInv
<1>1. IInv /\ LinesInv /\ [SetNext]_setVars => LinesInv'
  BY ManifestStep, TextStep, RequestStep, AloneStep, KeptStep DEF LinesInv
<1> QED
  BY LinesInit, <1>1, Inductive, PTL DEF SetSpec


\* An update that no other request overlaps, and that could read the file, writes
\* every other line of it that could be read as it was, up to a second "="
\* (configurable.rs:184).
THEOREM OtherLinesAreKept == SetSpec => []UpdateKeepsTheRest
<1>1. LinesInv => UpdateKeepsTheRest
  <2> SUFFICES ASSUME LinesInv, NEW c \in alone \ misread,
                      at[c] = "truncate", req[c].op = "update",
                      NEW k \in DOMAIN props.text,
                      Readable(k, props.text), k # req[c].id
               PROVE  /\ k \in DOMAIN manifest[Props]
                      /\ SettingValue(manifest, Props, k) = Cut(props.text[k])
    BY DEF UpdateKeepsTheRest
  <2>1. Kept(c)
    BY DEF LinesInv, KeptInv, KeptSoFar
  <2>2. /\ k \in DOMAIN manifest[Props]
        /\ manifest[Props][k].value = {Value(KindOf(k), Cut(props.text[k]))}
    BY <2>1 DEF Kept
  <2>3. (CHOOSE val \in manifest[Props][k].value : TRUE) = Value(KindOf(k), Cut(props.text[k]))
    BY <2>2
  <2>4. Value(KindOf(k), Cut(props.text[k])).v = Cut(props.text[k])
    BY DEF Value
  <2> QED
    BY <2>2, <2>3, <2>4 DEF SettingValue
<1> QED
  BY LinesInductive, <1>1, PTL

\* The expect of sync_configurable_to_restore_config fails only after a read that
\* failed, for a port line that cannot be read, or with an overlapping request
\* (mod.rs:837).
THEOREM PanicsNeedUnreadablePort == SetSpec => []PanicNeedsUnreadablePort
<1>1. LinesInv => PanicNeedsUnreadablePort
  <2> SUFFICES ASSUME LinesInv, NEW c \in alone \ misread, at[c] = "panicked"
               PROVE  ~Readable("server-port", props.text)
    BY DEF PanicNeedsUnreadablePort
  <2>1. Kept(c) /\ "server-port" \notin DOMAIN manifest[Props]
    BY DEF LinesInv, KeptInv, KeptSoFar
  <2>2. Readable("server-port", props.text) => "server-port" \in DOMAIN props.text
    BY DEF Readable
  <2> QED
    BY <2>1, <2>2 DEF Kept
<1> QED
  BY LinesInductive, <1>1, PTL

\* Of plain texts, none of which is for a key that prints as a comment, one file is
\* printed, with their lines (util.rs:36).
LEMMA PrintedPlainly ==
  ASSUME NEW values, DOMAIN values \intersect Comments = {},
         \A k \in DOMAIN values : Plain(values[k]),
         NEW file \in Printed(values)
  PROVE  /\ file.status = "ok" /\ DOMAIN file.text = DOMAIN values
         /\ \A k \in DOMAIN values : file.text[k] = values[k]
<1> DEFINE keys   == DOMAIN values \ Comments
           broken == {k \in DOMAIN values : values[k] \in DOMAIN Breaks}
           more   == UNION {{<<j, Breaks[values[k]].rest[j]>> : j \in DOMAIN Breaks[values[k]].rest} :
                              k \in broken}
           line(j, last) == IF \E e \in last : e[1] = j
                            THEN (CHOOSE e \in last : e[1] = j)[2] ELSE FirstLine(values[j])
           lasts  == {l \in SUBSET more : \A e \in more : e[1] \in keys \/ e \in l}
           text(last) == [j \in keys \union {e[1] : e \in more} |-> line(j, last)]
           stati  == {IF \A k \in broken : Breaks[values[k]].whole THEN "ok" ELSE "garbled"}
<1>1. Printed(values) = [status : stati, text : {text(last) : last \in lasts}]
  BY DEF Printed
<1>2. broken = {}
  BY DEF Plain
<1>3. more = {} /\ stati = {"ok"}
  BY <1>2
<1>4. keys = DOMAIN values
  OBVIOUS
<1>5. ASSUME NEW last \in lasts
      PROVE  DOMAIN text(last) = DOMAIN values /\ \A k \in DOMAIN values : text(last)[k] = values[k]
  <2>1. last = {}
    BY <1>3
  <2>2. \A k \in DOMAIN values : line(k, last) = values[k]
    BY <2>1 DEF FirstLine, Plain
  <2>3. keys \union {e[1] : e \in more} = DOMAIN values
    BY <1>3, <1>4
  <2> HIDE DEF keys, more, line
  <2> QED
    BY <2>2, <2>3
<1> HIDE DEF stati, text, lasts
<1>6. file.status \in stati /\ \E last \in lasts : file.text = text(last)
  BY <1>1
<1> QED
  BY <1>3, <1>5, <1>6

\* The variant of a setting (configurable.rs:1198), and that it can be built again.
LEMMA SettingConverts ==
  ASSUME NEW k, NEW s, NEW n, Admits(k, n), IsSettingOf(s, k, n)
  PROVE  /\ CanBuild(s.value, s.type)
         /\ (/\ k \in ServerPropertySetting.u16 => n <= U16Max
             /\ k \notin WithoutArm \union {"gamemode", "max-chained-neighbor-updates"})
              => TryFromManifest(k, s) = {[variant |-> k, v |-> n]}
<1>1. s.value = {Value(KindOf(k), n)} /\ s.type = PropertyType(k)
  BY DEF IsSettingOf
<1>2. CanBuild(s.value, s.type)
  BY <1>1, AdmittedChecks DEF CanBuild
<1>3. ASSUME k \in ServerPropertySetting.u16 => n <= U16Max,
             k \notin WithoutArm \union {"gamemode", "max-chained-neighbor-updates"}
      PROVE  TryFromManifest(k, s) = {[variant |-> k, v |-> n]}
  <2>1. AskedAs(k) = KindOf(k)
    BY <1>3 DEF AskedAs
  <2>2. Value(KindOf(k), n).kind = KindOf(k) /\ Value(KindOf(k), n).v = n
    BY DEF Value
  <2>3. {x \in s.value : x.kind = AskedAs(k) /\ (k \in ServerPropertySetting.u16 => x.v <= U16Max)}
          = {Value(KindOf(k), n)}
    BY <1>1, <1>3, <2>1, <2>2
  <2> QED
    BY <1>3, <2>2, <2>3 DEF TryFromManifest
<1> QED
  BY <1>2, <1>3

\* What is written of a lawful manifest is read back as it, but for the exceptions
\* that ReadBack names (configurable.rs:1198, 1422, util.rs:36).
THEOREM SettingsReadBack == SetSpec => []ReadBack
<1>1. LinesInv => ReadBack
  <2> SUFFICES ASSUME LinesInv PROVE ReadBack
    OBVIOUS
  <2> DEFINE values == [k \in DOMAIN manifest[Props] |-> SettingValue(manifest, Props, k)]
             keys   == DOMAIN values
             fits(k) == k \in ServerPropertySetting.u16 => values[k] <= U16Max
  <2>1. Lawful(manifest)
    BY DEF LinesInv, ManifestInv
  <2>2. ASSUME NEW k \in keys
        PROVE  /\ values[k] \in Int /\ Admits(k, values[k])
               /\ IsSettingOf(manifest[Props][k], k, values[k])
               /\ manifest[Props][k].value = {Value(KindOf(k), values[k])}
    <3>1. k \in DOMAIN manifest[Props] /\ values[k] = SettingValue(manifest, Props, k)
      OBVIOUS
    <3> HIDE DEF values
    <3> QED
      BY <2>1, <3>1, SettingText
  <2>3. FormatProperties(manifest) = Printed(values)
    BY DEF FormatProperties, SettingValue
  <2> HIDE DEF values
  <2>4. ASSUME keys \intersect Comments = {}, \A k \in keys : Plain(values[k]),
               NEW file \in FormatProperties(manifest)
        PROVE  /\ file.status = "ok" /\ DOMAIN file.text = keys
               /\ \A k \in keys : fits(k) =>
                    FromKeyVal(k, Cut(file.text[k])) = manifest[Props][k].value
    <3>1. /\ file.status = "ok" /\ DOMAIN file.text = keys
          /\ \A k \in keys : file.text[k] = values[k]
      BY <2>3, <2>4, PrintedPlainly
    <3>2. ASSUME NEW k \in keys, fits(k)
          PROVE  FromKeyVal(k, Cut(file.text[k])) = manifest[Props][k].value
      <4>1. Cut(file.text[k]) = values[k]
        BY <2>4, <3>1 DEF Cut, Plain
      <4>2. FromKeyVal(k, values[k]) = {Value(KindOf(k), values[k])}
        <5>1. Admits(k, values[k]) /\ values[k] \in Int
          BY <2>2
        <5>2. k \in ServerPropertySetting.u16 => values[k] <= U16Max
          BY <3>2
        <5> QED
          BY <5>1, <5>2, ReadLine
      <4> QED
        BY <2>2, <4>1, <4>2
    <3> QED
      BY <3>1, <3>2
  <2>5. ASSUME NEW k \in keys
        PROVE  /\ CanBuild(manifest[Props][k].value, manifest[Props][k].type)
               /\ (fits(k) /\ k \notin WithoutArm \union {"gamemode", "max-chained-neighbor-updates"})
                    => TryFromManifest(k, manifest[Props][k]) = {[variant |-> k, v |-> values[k]]}
    BY <2>2, SettingConverts
  <2> QED
    BY <2>4, <2>5 DEF ReadBack, values
<1> QED
  BY LinesInductive, <1>1, PTL

-----------------------------------------------------------------------------
(* The configuration of a macro *)

\* A setting, and one that may be changed.
IsSetting(s) ==
  /\ DOMAIN s = {"value", "type", "required", "mutable"}
  /\ s.required \in BOOLEAN /\ s.mutable = TRUE

\* Settings with the types of a source, and entries with values for all that need one.
Describes(configs, src) ==
  /\ DOMAIN configs = DOMAIN Extract(src)
  /\ \A n \in DOMAIN configs :
       /\ configs[n].type = src.fields[n].type
       /\ configs[n].required <=> src.fields[n].default # None

Fills(entries, src) ==
  /\ DOMAIN entries = DOMAIN Extract(src)
  /\ \A n \in DOMAIN entries : src.fields[n].default # None => entries[n].value # None

PageInv ==
  /\ \A configs \in page : \A n \in DOMAIN configs : IsSetting(configs[n])
  /\ current.page => \A configs \in page : Describes(configs, source)

CacheInv ==
  /\ careful.cache => \A entries \in cache : \A n \in DOMAIN entries :
       \A val \in entries[n].value : TypeChecks(entries[n].type, val)
  /\ current.cache => \A entries \in cache : Fills(entries, source)

\* The last read of the configs has panicked because of another cache.
PanicInv == got = "panicked" => ~current.cache

\* An entry for each field, of its type; with care, one whose value checks, and fresh,
\* a value for each that needs it.
Fits(entries, src, care, fresh) ==
  /\ DOMAIN entries = DOMAIN Extract(src)
  /\ \A n \in DOMAIN entries :
       /\ entries[n].type = src.fields[n].type
       /\ care => \A val \in entries[n].value : TypeChecks(src.fields[n].type, val)
       /\ fresh /\ ~src.fields[n].optional => entries[n].value # None

RunInv ==
  macroRun \in {"validated", "spawned"} /\ ~raced =>
    Fits(injected, source, careful.run, current.run)

MacTypeOK ==
  /\ source \in Sources
  /\ current \in [page : BOOLEAN, cache : BOOLEAN, run : BOOLEAN]
  /\ careful \in [cache : BOOLEAN, run : BOOLEAN]

MacIInv == MacTypeOK /\ PageInv /\ CacheInv /\ PanicInv /\ RunInv

\* What the parser makes of a field (macro_executor.rs:788).
LEMMA ParsedField ==
  ASSUME NEW src \in Sources, NEW n \in DOMAIN Extract(src)
  PROVE  LET s == GetConfigFromCode(src)[n] IN
         /\ DOMAIN GetConfigFromCode(src) = DOMAIN Extract(src)
         /\ IsSetting(s) /\ s.type = src.fields[n].type
         /\ s.required <=> src.fields[n].default # None
<1> DEFINE f == src.fields[n]
           texts == {Squeezed(val) : val \in f.default}
<1>1. Extract(src)[n] = f /\ n \in DOMAIN src.fields
  BY DEF Extract, Nothing
<1>2. GetConfigFromCode(src)[n] = NewWithType(texts, f.type)
  BY <1>1 DEF GetConfigFromCode, ParseConfigSingle
<1>3. texts # {} <=> f.default # None
  BY DEF None
<1>4. DOMAIN GetConfigFromCode(src) = DOMAIN Extract(src)
  BY DEF GetConfigFromCode
<1>5. PICK b \in BOOLEAN : b <=> texts # {}
  OBVIOUS
<1> HIDE DEF texts
<1>6. NewWithType(texts, f.type) = [value |-> texts, type |-> f.type, required |-> b, mutable |-> TRUE]
  BY <1>5 DEF NewWithType
<1> QED
  BY <1>2, <1>3, <1>4, <1>5, <1>6 DEF IsSetting

\* So the configs of a source describe it.
LEMMA ParsedSource ==
  ASSUME NEW src \in Sources
  PROVE  /\ Describes(GetConfigFromCode(src), src)
         /\ \A n \in DOMAIN GetConfigFromCode(src) : IsSetting(GetConfigFromCode(src)[n])
<1>1. DOMAIN GetConfigFromCode(src) = DOMAIN Extract(src)
  BY DEF GetConfigFromCode
<1> QED
  BY <1>1, ParsedField DEF Describes

\* As many entries, each of the type of its setting, are the entries of the settings
\* (macro.rs:222): none is left out.
LEMMA ValidatedEntries ==
  ASSUME NEW src \in Sources, NEW entries, Validates(GetConfigFromCode(src), entries)
  PROVE  /\ DOMAIN entries = DOMAIN Extract(src)
         /\ \A n \in DOMAIN entries : entries[n].type = src.fields[n].type
<1> DEFINE configs == GetConfigFromCode(src)
<1>1. /\ DOMAIN configs = DOMAIN Extract(src)
      /\ \A n \in DOMAIN configs : configs[n].type = src.fields[n].type
  BY ParsedSource DEF Describes
<1>2. \A n \in DOMAIN entries : n \in DOMAIN configs /\ configs[n].type = entries[n].type
  BY DEF Validates, CacheMatches
<1>3. IsFiniteSet(DOMAIN configs)
  BY <1>1, SourcesAssumption, FS_EmptySet DEF Extract, Nothing
<1>4. DOMAIN entries = DOMAIN configs
  <2>1. DOMAIN entries \in SUBSET DOMAIN configs
    BY <1>2
  <2>2. Cardinality(DOMAIN entries) = Cardinality(DOMAIN configs)
    BY DEF Validates
  <2> QED
    BY <1>3, <2>1, <2>2, FS_Subset
<1> QED
  BY <1>1, <1>2, <1>4

\* Initially nothing has been fetched, stored or run.
LEMMA MacInitOK == MacInit => MacIInv
  BY DEF MacInit, MacIInv, MacTypeOK, PageInv, CacheInv, PanicInv, RunInv, None

\* An edit makes all that was made for the source stale.
LEMMA EditStep ==
  ASSUME MacIInv, NEW src \in Sources, Edit(src)
  PROVE  MacIInv'
<1> USE DEF MacIInv, MacTypeOK, Edit
<1>1. MacTypeOK' /\ PanicInv' /\ RunInv'
  BY DEF PanicInv, RunInv
<1>2. PageInv' /\ CacheInv'
  BY DEF PageInv, CacheInv
<1> QED
  BY <1>1, <1>2

\* What get_macro_configs answers with describes the source, merged or not; the
\* merge fails for a value that is required and missing (handlers/instance_macro.rs:148).
LEMMA GetConfigsStep ==
  ASSUME MacIInv, GetConfigs
  PROVE  MacIInv'
<1> DEFINE configs == GetConfigFromCode(source)
           merge(entries) == [n \in DOMAIN configs |-> WithValue(configs[n], entries[n].value)]
<1>1. MacTypeOK /\ PageInv /\ CacheInv /\ RunInv
  BY DEF MacIInv
<1>2. UNCHANGED <<source, folder, cache, macroRun, injected, careful, raced>>
  BY DEF GetConfigs
<1>3. source \in Sources
  BY <1>1 DEF MacTypeOK
<1>4. /\ Describes(configs, source)
      /\ \A n \in DOMAIN configs : IsSetting(configs[n])
  BY <1>3, ParsedSource
<1>5. \A entries : /\ Describes(merge(entries), source)
                   /\ \A n \in DOMAIN merge(entries) : IsSetting(merge(entries)[n])
  <2> TAKE entries
  <2>1. ASSUME NEW n \in DOMAIN configs
        PROVE  /\ IsSetting(merge(entries)[n])
               /\ merge(entries)[n].type = configs[n].type
               /\ merge(entries)[n].required = configs[n].required
    <3>1. merge(entries)[n] = [configs[n] EXCEPT !.value = entries[n].value]
      BY DEF WithValue
    <3>2. IsSetting(configs[n])
      BY <1>4
    <3> HIDE DEF merge, configs
    <3>3. ASSUME NEW s, IsSetting(s), NEW v
          PROVE  LET m == [s EXCEPT !.value = v] IN
                 IsSetting(m) /\ m.type = s.type /\ m.required = s.required
      BY <3>3 DEF IsSetting
    <3> QED
      BY <3>1, <3>2, <3>3
  <2>2. DOMAIN merge(entries) = DOMAIN configs
    OBVIOUS
  <2> HIDE DEF merge, configs
  <2> QED
    BY <1>4, <2>1, <2>2 DEF Describes
<1>6. /\ current' \in {current, [current EXCEPT !.page = TRUE]}
      /\ \/ page' = page /\ current' = current
         \/ page' = {configs}
         \/ \E entries \in cache : page' = {merge(entries)}
      /\ got' = "panicked" => \E entries \in cache :
           /\ Validates(configs, entries)
           /\ ~\A n \in DOMAIN entries : CanSetOptional(configs[n], entries[n].value)
  BY DEF GetConfigs
<1>7. /\ current' \in [page : BOOLEAN, cache : BOOLEAN, run : BOOLEAN]
      /\ current'.cache = current.cache /\ current'.run = current.run
  BY <1>1, <1>6 DEF MacTypeOK
<1>8. PageInv'
  <2> HIDE DEF configs, merge
  <2> QED
    BY <1>1, <1>2, <1>4, <1>5, <1>6 DEF PageInv
<1>9. CacheInv' /\ RunInv' /\ MacTypeOK'
  BY <1>1, <1>2, <1>7 DEF CacheInv, RunInv, MacTypeOK
<1>10. PanicInv'
  <2> SUFFICES ASSUME got' = "panicked", current.cache PROVE FALSE
    BY <1>7 DEF PanicInv
  <2>1. PICK entries \in cache :
          /\ Validates(configs, entries)
          /\ ~\A n \in DOMAIN entries : CanSetOptional(configs[n], entries[n].value)
    BY <1>6
  <2>2. Fills(entries, source) /\ DOMAIN entries = DOMAIN configs
    BY <1>1, <1>3, <1>4, <2>1, ValidatedEntries DEF CacheInv, Describes
  <2>3. \A n \in DOMAIN entries :
          configs[n].mutable /\ (configs[n].required => entries[n].value # None)
    BY <1>4, <2>1, <2>2 DEF Describes, Fills, IsSetting
  <2> QED
    BY <2>1, <2>3 DEF CanSetOptional, None
<1> QED
  BY <1>8, <1>9, <1>10 DEF MacIInv

\* A page for the source is filled in with a value for each setting that needs one.
LEMMA StoreConfigStep ==
  ASSUME MacIInv, StoreConfig
  PROVE  MacIInv'
<1>1. MacTypeOK /\ PageInv /\ CacheInv /\ RunInv
  BY DEF MacIInv
<1>2. UNCHANGED <<source, folder, page, macroRun, injected, raced>> /\ got' = "none"
  BY DEF StoreConfig
<1>3. CASE UNCHANGED <<cache, current, careful>>
  BY <1>1, <1>2, <1>3 DEF MacIInv, MacTypeOK, PageInv, CacheInv, PanicInv, RunInv
<1>4. ASSUME NEW entries \in Uploads, cache' = {entries},
             current' = [current EXCEPT !.cache = FALSE], careful' = [careful EXCEPT !.cache = FALSE]
      PROVE  MacIInv'
  <2>1. /\ current' \in [page : BOOLEAN, cache : BOOLEAN, run : BOOLEAN]
        /\ current'.cache = FALSE /\ current'.page = current.page /\ current'.run = current.run
        /\ careful' \in [cache : BOOLEAN, run : BOOLEAN]
        /\ careful'.cache = FALSE /\ careful'.run = careful.run
    BY <1>1, <1>4 DEF MacTypeOK
  <2> QED
    BY <1>1, <1>2, <2>1 DEF MacIInv, MacTypeOK, PageInv, CacheInv, PanicInv, RunInv
<1>5. ASSUME NEW configs \in page, NEW values \in Fillings(configs),
             cache' = {[n \in DOMAIN configs |-> CacheEntry(WithValue(configs[n], values[n]))]},
             current' = [current EXCEPT !.cache = current.page],
             careful' = [careful EXCEPT !.cache = TRUE]
      PROVE  MacIInv'
  <2> DEFINE entries == [n \in DOMAIN configs |-> CacheEntry(WithValue(configs[n], values[n]))]
  <2>1. ASSUME NEW n \in DOMAIN configs
        PROVE  /\ entries[n].value = values[n] /\ entries[n].type = configs[n].type
               /\ ValidSetting(configs[n], values[n])
    <3>1. IsSetting(configs[n])
      BY <1>1 DEF PageInv
    <3> QED
      BY <1>5, <3>1 DEF IsSetting, CacheEntry, WithValue, Fillings
  <2>2. \A n \in DOMAIN entries : \A val \in entries[n].value : TypeChecks(entries[n].type, val)
    BY <2>1 DEF ValidSetting
  <2>3. current.page => Fills(entries, source)
    <3> SUFFICES ASSUME current.page PROVE Fills(entries, source)
      OBVIOUS
    <3>1. Describes(configs, source)
      BY <1>1 DEF PageInv
    <3> QED
      BY <2>1, <3>1 DEF Describes, Fills, ValidSetting, None
  <2>4. /\ current' \in [page : BOOLEAN, cache : BOOLEAN, run : BOOLEAN]
        /\ current'.cache = current.page
        /\ current'.page = current.page /\ current'.run = current.run
        /\ careful' \in [cache : BOOLEAN, run : BOOLEAN]
        /\ careful'.run = careful.run
    BY <1>1, <1>5 DEF MacTypeOK
  <2>5. CacheInv'
    <3>1. cache' = {entries}
      BY <1>5
    <3> HIDE DEF entries
    <3> QED
      BY <1>2, <2>2, <2>3, <2>4, <3>1 DEF CacheInv
  <2> QED
    BY <1>1, <1>2, <2>4, <2>5 DEF MacIInv, MacTypeOK, PageInv, PanicInv, RunInv
<1> QED
  BY <1>3, <1>4, <1>5 DEF StoreConfig

\* The entries a run takes are those of the source (macro.rs:222).
LEMMA ValidateStep ==
  ASSUME MacIInv, Validate
  PROVE  MacIInv'
<1>1. MacTypeOK /\ PageInv /\ CacheInv /\ PanicInv /\ source \in Sources
  BY DEF MacIInv, MacTypeOK
<1>2. /\ UNCHANGED <<source, folder, page, cache, got>>
      /\ current' = [current EXCEPT !.run = current.cache]
      /\ careful' = [careful EXCEPT !.run = careful.cache]
  BY DEF Validate
<1>3. /\ current' \in [page : BOOLEAN, cache : BOOLEAN, run : BOOLEAN]
      /\ current'.run = current.cache
      /\ current'.page = current.page /\ current'.cache = current.cache
      /\ careful' \in [cache : BOOLEAN, run : BOOLEAN]
      /\ careful'.run = careful.cache /\ careful'.cache = careful.cache
  BY <1>1, <1>2 DEF MacTypeOK
<1>4. Fits(injected', source, careful.cache, current.cache)
  <2>1. CASE ~source.declared /\ injected' = Nothing
    BY <2>1 DEF Fits, Extract, Nothing
  <2>2. ASSUME source.declared, ConfigParses(source), NEW entries \in cache,
               Validates(GetConfigFromCode(source), entries), injected' = entries
        PROVE  Fits(injected', source, careful.cache, current.cache)
    <3>1. /\ DOMAIN entries = DOMAIN Extract(source)
          /\ \A n \in DOMAIN entries : entries[n].type = source.fields[n].type
      BY <1>1, <2>2, ValidatedEntries
    <3>2. Extract(source) = source.fields
      BY <2>2 DEF Extract
    <3>3. \A n \in DOMAIN entries : source.fields[n].optional \/ source.fields[n].default # None
      BY <2>2, <3>1, <3>2 DEF ConfigParses, Parses
    <3>4. careful.cache => \A n \in DOMAIN entries : \A val \in entries[n].value :
            TypeChecks(source.fields[n].type, val)
      BY <1>1, <2>2, <3>1 DEF CacheInv
    <3>5. current.cache => Fills(entries, source)
      BY <1>1, <2>2 DEF CacheInv
    <3> QED
      BY <2>2, <3>1, <3>3, <3>4, <3>5 DEF Fills, Fits
  <2> QED
    BY <2>1, <2>2 DEF Validate
<1>5. RunInv'
  BY <1>2, <1>3, <1>4 DEF RunInv
<1> QED
  BY <1>1, <1>2, <1>3, <1>5 DEF MacIInv, MacTypeOK, PageInv, CacheInv, PanicInv

\* The parts of MacIInv together are inductive.
THEOREM MacInductive == MacSpec => []MacIInv
<1>1. MacIInv /\ [MacNext]_macVars => MacIInv'
  <2> SUFFICES ASSUME MacIInv, [MacNext]_macVars PROVE MacIInv'
    OBVIOUS
  <2>1. CASE Spawn
    BY <2>1 DEF Spawn, MacIInv, MacTypeOK, PageInv, CacheInv, PanicInv, RunInv
  <2>2. CASE UNCHANGED macVars
    BY <2>2 DEF macVars, MacIInv, MacTypeOK, PageInv, CacheInv, PanicInv, RunInv
  <2> QED
    BY <2>1, <2>2, EditStep, GetConfigsStep, StoreConfigStep, ValidateStep DEF MacNext
<1> QED
  BY MacInitOK, <1>1, PTL DEF MacSpec

\* A macro is started with an entry of the declared type for each field of its class
\* and for nothing else, whatever the class is, whatever clients store and however
\* often it was edited, unless it was edited after its cache was validated; the values
\* fit when the cache was a page filled in (macro.rs:222).
THEOREM RunsGetWhatTheyDeclare == MacSpec => []InjectedConfigFits
<1>1. MacIInv => InjectedConfigFits
  BY DEF MacIInv, RunInv, Fits, InjectedConfigFits
<1> QED
  BY MacInductive, <1>1, PTL

\* The unwrap of get_macro_configs does not fail for a cache that is the page of the
\* source as it is, filled in (handlers/instance_macro.rs:148).
THEOREM FilledPagesNeverPanic == MacSpec => []FilledPageNeverPanics
<1>1. MacIInv => FilledPageNeverPanics
  BY DEF MacIInv, PanicInv, FilledPageNeverPanics
<1> QED
  BY MacInductive, <1>1, PTL
====
