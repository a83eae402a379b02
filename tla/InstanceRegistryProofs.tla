---- MODULE InstanceRegistryProofs ----
(***************************************************************************)
(* Proofs about InstanceRegistry, for any number of instances, ports and   *)
(* shards.                                                                 *)
(*                                                                         *)
(* The promises are about instances that have been created or deleted, and *)
(* hold because of where the creation and the deletion of an instance can  *)
(* be at all: PlaceInv says of the stages which of them exclude each       *)
(* other, FilesInv what the directory holds at each of them, UseInv who    *)
(* can be using an instance, and GoneInv that nothing is left of a         *)
(* deletion that could bring an instance back.                             *)
(***************************************************************************)
EXTENDS InstanceRegistry, TLAPS

\* Stages of a creation that has written the marker, and the configuration.
Marked == {"files", "jre", "unpack", "jar", "config", "restore", "port", "grant", "insert"}

Configured == {"restore", "port", "grant", "insert"}

Unannounced == {"mark", "files", "jre", "unpack", "jar", "config", "bootstrap", "restore",
                "failed"}

\* An instance nobody has asked for is nowhere.
FreshInv ==
  \A i \in Ids : kind[i] = "none" =>
    /\ creation[i] = "idle" /\ deletion[i] = "idle"
    /\ i \notin registered /\ i \notin restarting /\ i \notin held /\ i \notin saving
    /\ i \notin gone /\ i \notin announced
    /\ server[i] = "Stopped"
    /\ files[i] = {}

\* An instance that is being created is not used, and one that is being deleted
\* is in the registry until it is taken out.
PlaceInv ==
  \A i \in Ids :
    /\ creation[i] # "idle" =>
         /\ deletion[i] = "idle"
         /\ i \notin registered /\ i \notin restarting /\ i \notin held /\ i \notin saving
         /\ i \notin gone
         /\ server[i] = "Stopped"
    /\ creation[i] \in {"mark", "files", "jre", "unpack", "jar", "config", "port", "grant"}
         => Minecraft(i)
    /\ creation[i] \in {"bootstrap", "remark"} => ~Minecraft(i)
    /\ deletion[i] = "take" => i \in registered
    /\ deletion[i] \notin {"idle", "take"} => i \notin registered
    /\ i \in starting => i \in registered
    /\ portLock = i => creation[i] \in {"grant", "insert"} \/ deletion[i] = "freeing"

DownInv ==
  phase = "down" =>
    /\ registered = {} /\ restarting = {} /\ starting = {} /\ held = {} /\ saving = {}
    /\ portLock = NoOne
    /\ \A i \in Ids : creation[i] = "idle" /\ deletion[i] = "idle"

\* What start-up will find.
FilesInv ==
  \A i \in Ids :
    /\ creation[i] \in Unannounced => i \notin announced
    /\ Minecraft(i) =>
         /\ creation[i] \in Marked => "marker" \in files[i]
         /\ creation[i] \in Configured => "config" \in files[i]
         /\ i \in announced /\ i \notin gone =>
              "marker" \in files[i] /\ ("config" \in files[i] \/ "torn" \in files[i])

\* Whoever uses an instance got it from the registry, and it has been there since
\* the last start.
UseInv ==
  phase # "down" =>
    \A i \in Ids :
      i \in restarting \/ i \in held \/ i \in saving \/ server[i] = "Running"
        => \/ i \in registered \/ i \in gone \/ i \in cut
           \/ deletion[i] \in {"check", "unmark"}

GoneInv ==
  \A i \in Ids :
    /\ i \in gone =>
         /\ i \notin registered
         /\ "marker" \notin files[i]
         /\ creation[i] = "idle"
         /\ deletion[i] \notin {"take", "check", "unmark"}
    /\ deletion[i] \in {"free", "freeing", "destruct", "remove"} => i \in gone
    /\ (i \in gone \/ deletion[i] = "unmark") /\ Minecraft(i) /\ phase # "down"
         => server[i] = "Stopped" \/ i \in revived

\* Whoever is in the registry, on the way out of it or into it, has its port in
\* the set, and whatever is in the set has an owner.
PortsInv ==
  phase # "down" =>
    /\ \A i \in Ids :
         /\ Minecraft(i)
         /\ port[i] \notin mixed
         /\ \/ i \in registered
            \/ deletion[i] \in {"check", "unmark"}
            \/ creation[i] \in {"grant", "insert"}
         => port[i] \in allocated
    /\ \A p \in allocated \ mixed : \E i \in Owners \union cut : port[i] = p

\* A creation's copy is what the requester has.
RightsInv ==
  ~raced =>
    /\ rights = meant
    /\ \A i \in Ids : Minecraft(i) /\ creation[i] \notin {"idle", "insert"} => copied[i] = rights

IInv == /\ RegTypeOK /\ FreshInv /\ PlaceInv /\ DownInv /\ FilesInv /\ UseInv /\ GoneInv
        /\ CreatedIsKept /\ PortsInv /\ RightsInv

-----------------------------------------------------------------------------

\* Every step keeps the types (instance.rs, lib.rs).
LEMMA TypeStep ==
  ASSUME IInv, [RegNext]_regVars
  PROVE  RegTypeOK'
<1>1. RegTypeOK
  BY DEF IInv
<1> USE DEF RegTypeOK, CreationStages, DeletionStages, Whole, Contents, serverVars, portVars, rightVars
<1>2. ASSUME NEW i \in Ids, CreateMinecraft(i) PROVE RegTypeOK'
  BY <1>1, <1>2 DEF CreateMinecraft, Creates
<1>3. ASSUME NEW i \in Ids, CreateGeneric(i) PROVE RegTypeOK'
  BY <1>1, <1>3 DEF CreateGeneric, Creates
<1>4. ASSUME NEW i \in Ids, Mark(i) PROVE RegTypeOK'
  <2>1. creation' \in [Ids -> CreationStages]
    BY <1>1, <1>4 DEF Mark, Creates
  <2>2. PICK new \in SUBSET Contents : files' = [files EXCEPT ![i] = new]
    <3>1. \A old \in SUBSET Contents, m \in SUBSET {"marker"} : old \union m \in SUBSET Contents
      OBVIOUS
    <3>2. files[i] \in SUBSET Contents
      BY <1>1
    <3> QED
      BY <1>4, <3>1, <3>2 DEF Mark
  <2> QED
    BY <1>1, <1>4, <2>1, <2>2 DEF Mark
<1>5. ASSUME NEW i \in Ids, MakeFiles(i) PROVE RegTypeOK'
  BY <1>1, <1>5 DEF MakeFiles, Builds, Creates
<1>6. ASSUME NEW i \in Ids, FindJre(i) PROVE RegTypeOK'
  BY <1>1, <1>6 DEF FindJre, Creates
<1>7. ASSUME NEW i \in Ids, InstallJre(i) PROVE RegTypeOK'
  BY <1>1, <1>7 DEF InstallJre, Creates
<1>8. ASSUME NEW i \in Ids, GetJar(i) PROVE RegTypeOK'
  BY <1>1, <1>8 DEF GetJar, Builds, Creates
<1>9. ASSUME NEW i \in Ids, WriteNewConfig(i) PROVE RegTypeOK'
  BY <1>1, <1>9 DEF WriteNewConfig, Creates
<1>10. ASSUME NEW i \in Ids, Bootstrap(i) PROVE RegTypeOK'
  BY <1>1, <1>10 DEF Bootstrap, Creates
<1>11. ASSUME NEW i \in Ids, RestoreNew(i) PROVE RegTypeOK'
  BY <1>1, <1>11 DEF RestoreNew, Creates
<1>12. ASSUME NEW i \in Ids, CleanUp(i) PROVE RegTypeOK'
  BY <1>1, <1>12 DEF CleanUp, Creates
<1>13. ASSUME NEW i \in Ids, AddPort(i) PROVE RegTypeOK'
  BY <1>1, <1>13 DEF AddPort, Creates
<1>14. ASSUME NEW i \in Ids, Grant(i) PROVE RegTypeOK'
  BY <1>1, <1>14 DEF Grant, Creates
<1>15. ASSUME NEW i \in Ids, Remark(i) PROVE RegTypeOK'
  BY <1>1, <1>15 DEF Remark, Creates
<1>16. ASSUME NEW i \in Ids, Insert(i) PROVE RegTypeOK'
  BY <1>1, <1>16 DEF Insert, Creates
<1>17. ASSUME NEW i \in Ids, Delete(i) PROVE RegTypeOK'
  BY <1>1, <1>17 DEF Delete, Deletes
<1>18. ASSUME NEW i \in Ids, Take(i) PROVE RegTypeOK'
  BY <1>1, <1>18 DEF Take, Deletes
<1>19. ASSUME NEW i \in Ids, CheckStopped(i) PROVE RegTypeOK'
  BY <1>1, <1>19 DEF CheckStopped, Deletes
<1>20. ASSUME NEW i \in Ids, Unmark(i) PROVE RegTypeOK'
  BY <1>1, <1>20 DEF Unmark, Deletes
<1>21. ASSUME NEW i \in Ids, LockPorts(i) PROVE RegTypeOK'
  BY <1>1, <1>21 DEF LockPorts, Deletes
<1>22. ASSUME NEW i \in Ids, FreePort(i) PROVE RegTypeOK'
  BY <1>1, <1>22 DEF FreePort, Deletes
<1>23. ASSUME NEW i \in Ids, Destruct(i) PROVE RegTypeOK'
  BY <1>1, <1>23 DEF Destruct, Deletes
<1>24. ASSUME NEW i \in Ids, RemoveDir(i) PROVE RegTypeOK'
  BY <1>1, <1>24 DEF RemoveDir, Deletes
<1>25. ASSUME NEW i \in Ids, DropDeletion(i) PROVE RegTypeOK'
  BY <1>1, <1>25 DEF DropDeletion, Deletes
<1>26. ASSUME NEW i \in Ids, BeginStart(i) PROVE RegTypeOK'
  BY <1>1, <1>26 DEF BeginStart
<1>27. ASSUME NEW i \in Ids, EndStart(i) PROVE RegTypeOK'
  BY <1>1, <1>27 DEF EndStart
<1>28. ASSUME NEW i \in Ids, MacroHolds(i) PROVE RegTypeOK'
  BY <1>1, <1>28 DEF MacroHolds
<1>29. ASSUME NEW i \in Ids, MacroStarts(i) PROVE RegTypeOK'
  BY <1>1, <1>29 DEF MacroStarts
<1>30. ASSUME NEW i \in Ids, Stops(i) PROVE RegTypeOK'
  BY <1>1, <1>30 DEF Stops
<1>31. ASSUME NEW i \in Ids, RestartStarts(i) PROVE RegTypeOK'
  BY <1>1, <1>31 DEF RestartStarts
<1>32. ASSUME NEW i \in Ids, BeginSave(i) PROVE RegTypeOK'
  BY <1>1, <1>32 DEF BeginSave
<1>33. ASSUME NEW i \in Ids, EndSave(i) PROVE RegTypeOK'
  BY <1>1, <1>33 DEF EndSave
<1>34. ASSUME NEW i \in Ids, EditProperties(i) PROVE RegTypeOK'
  BY <1>1, <1>34 DEF EditProperties
<1>35. ASSUME NEW i \in Ids, NEW p \in Ports, ChangePort(i, p) PROVE RegTypeOK'
  BY <1>1, <1>35 DEF ChangePort
<1>36. ASSUME NEW i \in Ids, ChangeRights(i) PROVE RegTypeOK'
  BY <1>1, <1>36 DEF ChangeRights
<1>37. CASE BeginShutdown
  BY <1>1, <1>37 DEF BeginShutdown
<1>38. CASE StopAll
  BY <1>1, <1>38 DEF StopAll
<1>39. CASE Ends
  BY <1>1, <1>39 DEF Ends
<1>40. CASE StartUp
  BY <1>1, <1>40 DEF StartUp
<1>41. CASE UNCHANGED regVars
  BY <1>1, <1>41 DEF regVars, Owners
<1> QED
  BY <1>2, <1>3, <1>4, <1>5, <1>6, <1>7, <1>8, <1>9, <1>10, <1>11, <1>12, <1>13, <1>14, <1>15, <1>16, <1>17, <1>18, <1>19, <1>20, <1>21, <1>22, <1>23, <1>24, <1>25, <1>26, <1>27, <1>28, <1>29, <1>30, <1>31, <1>32, <1>33, <1>34, <1>35, <1>36, <1>37, <1>38, <1>39, <1>40, <1>41
     DEF RegNext, CreationStep, DeletionStep, UseStep

\* A uuid is used for the first time by its creation (instance.rs:70, 205).
LEMMA FreshStep ==
  ASSUME IInv, [RegNext]_regVars
  PROVE  FreshInv'
<1>1. RegTypeOK /\ FreshInv /\ PlaceInv
  BY DEF IInv
<1> USE DEF RegTypeOK, FreshInv, PlaceInv, serverVars, portVars, rightVars
<1>2. ASSUME NEW i \in Ids, CreateMinecraft(i) PROVE FreshInv'
  BY <1>1, <1>2 DEF CreateMinecraft, Creates
<1>3. ASSUME NEW i \in Ids, CreateGeneric(i) PROVE FreshInv'
  BY <1>1, <1>3 DEF CreateGeneric, Creates
<1>4. ASSUME NEW i \in Ids, Mark(i) PROVE FreshInv'
  BY <1>1, <1>4 DEF Mark, Creates
<1>5. ASSUME NEW i \in Ids, MakeFiles(i) PROVE FreshInv'
  BY <1>1, <1>5 DEF MakeFiles, Builds, Creates
<1>6. ASSUME NEW i \in Ids, FindJre(i) PROVE FreshInv'
  BY <1>1, <1>6 DEF FindJre, Creates
<1>7. ASSUME NEW i \in Ids, InstallJre(i) PROVE FreshInv'
  BY <1>1, <1>7 DEF InstallJre, Creates
<1>8. ASSUME NEW i \in Ids, GetJar(i) PROVE FreshInv'
  BY <1>1, <1>8 DEF GetJar, Builds, Creates
<1>9. ASSUME NEW i \in Ids, WriteNewConfig(i) PROVE FreshInv'
  BY <1>1, <1>9 DEF WriteNewConfig, Creates
<1>10. ASSUME NEW i \in Ids, Bootstrap(i) PROVE FreshInv'
  BY <1>1, <1>10 DEF Bootstrap, Creates
<1>11. ASSUME NEW i \in Ids, RestoreNew(i) PROVE FreshInv'
  BY <1>1, <1>11 DEF RestoreNew, Creates
<1>12. ASSUME NEW i \in Ids, CleanUp(i) PROVE FreshInv'
  BY <1>1, <1>12 DEF CleanUp, Creates
<1>13. ASSUME NEW i \in Ids, AddPort(i) PROVE FreshInv'
  BY <1>1, <1>13 DEF AddPort, Creates
<1>14. ASSUME NEW i \in Ids, Grant(i) PROVE FreshInv'
  BY <1>1, <1>14 DEF Grant, Creates
<1>15. ASSUME NEW i \in Ids, Remark(i) PROVE FreshInv'
  BY <1>1, <1>15 DEF Remark, Creates
<1>16. ASSUME NEW i \in Ids, Insert(i) PROVE FreshInv'
  BY <1>1, <1>16 DEF Insert, Creates
<1>17. ASSUME NEW i \in Ids, Delete(i) PROVE FreshInv'
  BY <1>1, <1>17 DEF Delete, Deletes
<1>18. ASSUME NEW i \in Ids, Take(i) PROVE FreshInv'
  BY <1>1, <1>18 DEF Take, Deletes
<1>19. ASSUME NEW i \in Ids, CheckStopped(i) PROVE FreshInv'
  BY <1>1, <1>19 DEF CheckStopped, Deletes
<1>20. ASSUME NEW i \in Ids, Unmark(i) PROVE FreshInv'
  BY <1>1, <1>20 DEF Unmark, Deletes
<1>21. ASSUME NEW i \in Ids, LockPorts(i) PROVE FreshInv'
  BY <1>1, <1>21 DEF LockPorts, Deletes
<1>22. ASSUME NEW i \in Ids, FreePort(i) PROVE FreshInv'
  BY <1>1, <1>22 DEF FreePort, Deletes
<1>23. ASSUME NEW i \in Ids, Destruct(i) PROVE FreshInv'
  BY <1>1, <1>23 DEF Destruct, Deletes
<1>24. ASSUME NEW i \in Ids, RemoveDir(i) PROVE FreshInv'
  BY <1>1, <1>24 DEF RemoveDir, Deletes
<1>25. ASSUME NEW i \in Ids, DropDeletion(i) PROVE FreshInv'
  BY <1>1, <1>25 DEF DropDeletion, Deletes
<1>26. ASSUME NEW i \in Ids, BeginStart(i) PROVE FreshInv'
  BY <1>1, <1>26 DEF BeginStart
<1>27. ASSUME NEW i \in Ids, EndStart(i) PROVE FreshInv'
  BY <1>1, <1>27 DEF EndStart
<1>28. ASSUME NEW i \in Ids, MacroHolds(i) PROVE FreshInv'
  BY <1>1, <1>28 DEF MacroHolds
<1>29. ASSUME NEW i \in Ids, MacroStarts(i) PROVE FreshInv'
  BY <1>1, <1>29 DEF MacroStarts
<1>30. ASSUME NEW i \in Ids, Stops(i) PROVE FreshInv'
  BY <1>1, <1>30 DEF Stops
<1>31. ASSUME NEW i \in Ids, RestartStarts(i) PROVE FreshInv'
  BY <1>1, <1>31 DEF RestartStarts
<1>32. ASSUME NEW i \in Ids, BeginSave(i) PROVE FreshInv'
  BY <1>1, <1>32 DEF BeginSave
<1>33. ASSUME NEW i \in Ids, EndSave(i) PROVE FreshInv'
  BY <1>1, <1>33 DEF EndSave
<1>34. ASSUME NEW i \in Ids, EditProperties(i) PROVE FreshInv'
  BY <1>1, <1>34 DEF EditProperties
<1>35. ASSUME NEW i \in Ids, NEW p \in Ports, ChangePort(i, p) PROVE FreshInv'
  BY <1>1, <1>35 DEF ChangePort
<1>36. ASSUME NEW i \in Ids, ChangeRights(i) PROVE FreshInv'
  BY <1>1, <1>36 DEF ChangeRights
<1>37. CASE BeginShutdown
  BY <1>1, <1>37 DEF BeginShutdown
<1>38. CASE StopAll
  BY <1>1, <1>38 DEF StopAll
<1>39. CASE Ends
  BY <1>1, <1>39 DEF Ends
<1>40. CASE StartUp
  BY <1>1, <1>40 DEF StartUp, Restorable
<1>41. CASE UNCHANGED regVars
  BY <1>1, <1>41 DEF regVars, Owners
<1> QED
  BY <1>2, <1>3, <1>4, <1>5, <1>6, <1>7, <1>8, <1>9, <1>10, <1>11, <1>12, <1>13, <1>14, <1>15, <1>16, <1>17, <1>18, <1>19, <1>20, <1>21, <1>22, <1>23, <1>24, <1>25, <1>26, <1>27, <1>28, <1>29, <1>30, <1>31, <1>32, <1>33, <1>34, <1>35, <1>36, <1>37, <1>38, <1>39, <1>40, <1>41
     DEF RegNext, CreationStep, DeletionStep, UseStep

\* Creation and deletion of an instance exclude each other (instance.rs:191, 323).
LEMMA PlaceStep ==
  ASSUME IInv, [RegNext]_regVars
  PROVE  PlaceInv'
<1>1. RegTypeOK /\ FreshInv /\ PlaceInv /\ DownInv
  BY DEF IInv
<1> USE DEF RegTypeOK, FreshInv, PlaceInv, DownInv, Minecraft, serverVars, portVars, rightVars
<1>2. ASSUME NEW i \in Ids, CreateMinecraft(i) PROVE PlaceInv'
  BY <1>1, <1>2 DEF CreateMinecraft, Creates
<1>3. ASSUME NEW i \in Ids, CreateGeneric(i) PROVE PlaceInv'
  BY <1>1, <1>3 DEF CreateGeneric, Creates
<1>4. ASSUME NEW i \in Ids, Mark(i) PROVE PlaceInv'
  BY <1>1, <1>4 DEF Mark, Creates
<1>5. ASSUME NEW i \in Ids, MakeFiles(i) PROVE PlaceInv'
  BY <1>1, <1>5 DEF MakeFiles, Builds, Creates
<1>6. ASSUME NEW i \in Ids, FindJre(i) PROVE PlaceInv'
  BY <1>1, <1>6 DEF FindJre, Creates
<1>7. ASSUME NEW i \in Ids, InstallJre(i) PROVE PlaceInv'
  BY <1>1, <1>7 DEF InstallJre, Creates
<1>8. ASSUME NEW i \in Ids, GetJar(i) PROVE PlaceInv'
  BY <1>1, <1>8 DEF GetJar, Builds, Creates
<1>9. ASSUME NEW i \in Ids, WriteNewConfig(i) PROVE PlaceInv'
  BY <1>1, <1>9 DEF WriteNewConfig, Creates
<1>10. ASSUME NEW i \in Ids, Bootstrap(i) PROVE PlaceInv'
  BY <1>1, <1>10 DEF Bootstrap, Creates
<1>11. ASSUME NEW i \in Ids, RestoreNew(i) PROVE PlaceInv'
  BY <1>1, <1>11 DEF RestoreNew, Creates
<1>12. ASSUME NEW i \in Ids, CleanUp(i) PROVE PlaceInv'
  BY <1>1, <1>12 DEF CleanUp, Creates
<1>13. ASSUME NEW i \in Ids, AddPort(i) PROVE PlaceInv'
  BY <1>1, <1>13 DEF AddPort, Creates
<1>14. ASSUME NEW i \in Ids, Grant(i) PROVE PlaceInv'
  BY <1>1, <1>14 DEF Grant, Creates
<1>15. ASSUME NEW i \in Ids, Remark(i) PROVE PlaceInv'
  BY <1>1, <1>15 DEF Remark, Creates
<1>16. ASSUME NEW i \in Ids, Insert(i) PROVE PlaceInv'
  BY <1>1, <1>16, RegistryAssumption DEF Insert, Creates, Readers
<1>17. ASSUME NEW i \in Ids, Delete(i) PROVE PlaceInv'
  BY <1>1, <1>17 DEF Delete, Deletes
<1>18. ASSUME NEW i \in Ids, Take(i) PROVE PlaceInv'
  BY <1>1, <1>18 DEF Take, Deletes, Readers
<1>19. ASSUME NEW i \in Ids, CheckStopped(i) PROVE PlaceInv'
  BY <1>1, <1>19 DEF CheckStopped, Deletes
<1>20. ASSUME NEW i \in Ids, Unmark(i) PROVE PlaceInv'
  BY <1>1, <1>20 DEF Unmark, Deletes
<1>21. ASSUME NEW i \in Ids, LockPorts(i) PROVE PlaceInv'
  BY <1>1, <1>21 DEF LockPorts, Deletes
<1>22. ASSUME NEW i \in Ids, FreePort(i) PROVE PlaceInv'
  BY <1>1, <1>22, RegistryAssumption DEF FreePort, Deletes
<1>23. ASSUME NEW i \in Ids, Destruct(i) PROVE PlaceInv'
  BY <1>1, <1>23 DEF Destruct, Deletes
<1>24. ASSUME NEW i \in Ids, RemoveDir(i) PROVE PlaceInv'
  BY <1>1, <1>24 DEF RemoveDir, Deletes
<1>25. ASSUME NEW i \in Ids, DropDeletion(i) PROVE PlaceInv'
  BY <1>1, <1>25, RegistryAssumption DEF DropDeletion, Deletes
<1>26. ASSUME NEW i \in Ids, BeginStart(i) PROVE PlaceInv'
  BY <1>1, <1>26 DEF BeginStart
<1>27. ASSUME NEW i \in Ids, EndStart(i) PROVE PlaceInv'
  BY <1>1, <1>27 DEF EndStart
<1>28. ASSUME NEW i \in Ids, MacroHolds(i) PROVE PlaceInv'
  BY <1>1, <1>28 DEF MacroHolds
<1>29. ASSUME NEW i \in Ids, MacroStarts(i) PROVE PlaceInv'
  BY <1>1, <1>29 DEF MacroStarts
<1>30. ASSUME NEW i \in Ids, Stops(i) PROVE PlaceInv'
  BY <1>1, <1>30 DEF Stops
<1>31. ASSUME NEW i \in Ids, RestartStarts(i) PROVE PlaceInv'
  BY <1>1, <1>31 DEF RestartStarts
<1>32. ASSUME NEW i \in Ids, BeginSave(i) PROVE PlaceInv'
  BY <1>1, <1>32 DEF BeginSave
<1>33. ASSUME NEW i \in Ids, EndSave(i) PROVE PlaceInv'
  BY <1>1, <1>33 DEF EndSave
<1>34. ASSUME NEW i \in Ids, EditProperties(i) PROVE PlaceInv'
  BY <1>1, <1>34 DEF EditProperties
<1>35. ASSUME NEW i \in Ids, NEW p \in Ports, ChangePort(i, p) PROVE PlaceInv'
  BY <1>1, <1>35 DEF ChangePort
<1>36. ASSUME NEW i \in Ids, ChangeRights(i) PROVE PlaceInv'
  BY <1>1, <1>36 DEF ChangeRights
<1>37. CASE BeginShutdown
  BY <1>1, <1>37 DEF BeginShutdown
<1>38. CASE StopAll
  BY <1>1, <1>38 DEF StopAll
<1>39. CASE Ends
  BY <1>1, <1>39, RegistryAssumption DEF Ends
<1>40. CASE StartUp
  BY <1>1, <1>40 DEF StartUp
<1>41. CASE UNCHANGED regVars
  BY <1>1, <1>41 DEF regVars, Owners
<1> QED
  BY <1>2, <1>3, <1>4, <1>5, <1>6, <1>7, <1>8, <1>9, <1>10, <1>11, <1>12, <1>13, <1>14, <1>15, <1>16, <1>17, <1>18, <1>19, <1>20, <1>21, <1>22, <1>23, <1>24, <1>25, <1>26, <1>27, <1>28, <1>29, <1>30, <1>31, <1>32, <1>33, <1>34, <1>35, <1>36, <1>37, <1>38, <1>39, <1>40, <1>41
     DEF RegNext, CreationStep, DeletionStep, UseStep

\* Nothing in memory survives the process (lib.rs:801).
LEMMA DownStep ==
  ASSUME IInv, [RegNext]_regVars
  PROVE  DownInv'
<1>1. RegTypeOK /\ DownInv
  BY DEF IInv
<1> USE DEF RegTypeOK, DownInv, serverVars, portVars, rightVars
<1>2. ASSUME NEW i \in Ids, CreateMinecraft(i) PROVE DownInv'
  BY <1>1, <1>2 DEF CreateMinecraft, Creates
<1>3. ASSUME NEW i \in Ids, CreateGeneric(i) PROVE DownInv'
  BY <1>1, <1>3 DEF CreateGeneric, Creates
<1>4. ASSUME NEW i \in Ids, Mark(i) PROVE DownInv'
  BY <1>1, <1>4 DEF Mark, Creates
<1>5. ASSUME NEW i \in Ids, MakeFiles(i) PROVE DownInv'
  BY <1>1, <1>5 DEF MakeFiles, Builds, Creates
<1>6. ASSUME NEW i \in Ids, FindJre(i) PROVE DownInv'
  BY <1>1, <1>6 DEF FindJre, Creates
<1>7. ASSUME NEW i \in Ids, InstallJre(i) PROVE DownInv'
  BY <1>1, <1>7 DEF InstallJre, Creates
<1>8. ASSUME NEW i \in Ids, GetJar(i) PROVE DownInv'
  BY <1>1, <1>8 DEF GetJar, Builds, Creates
<1>9. ASSUME NEW i \in Ids, WriteNewConfig(i) PROVE DownInv'
  BY <1>1, <1>9 DEF WriteNewConfig, Creates
<1>10. ASSUME NEW i \in Ids, Bootstrap(i) PROVE DownInv'
  BY <1>1, <1>10 DEF Bootstrap, Creates
<1>11. ASSUME NEW i \in Ids, RestoreNew(i) PROVE DownInv'
  BY <1>1, <1>11 DEF RestoreNew, Creates
<1>12. ASSUME NEW i \in Ids, CleanUp(i) PROVE DownInv'
  BY <1>1, <1>12 DEF CleanUp, Creates
<1>13. ASSUME NEW i \in Ids, AddPort(i) PROVE DownInv'
  BY <1>1, <1>13 DEF AddPort, Creates
<1>14. ASSUME NEW i \in Ids, Grant(i) PROVE DownInv'
  BY <1>1, <1>14 DEF Grant, Creates
<1>15. ASSUME NEW i \in Ids, Remark(i) PROVE DownInv'
  BY <1>1, <1>15 DEF Remark, Creates
<1>16. ASSUME NEW i \in Ids, Insert(i) PROVE DownInv'
  BY <1>1, <1>16 DEF Insert, Creates
<1>17. ASSUME NEW i \in Ids, Delete(i) PROVE DownInv'
  BY <1>1, <1>17 DEF Delete, Deletes
<1>18. ASSUME NEW i \in Ids, Take(i) PROVE DownInv'
  BY <1>1, <1>18 DEF Take, Deletes
<1>19. ASSUME NEW i \in Ids, CheckStopped(i) PROVE DownInv'
  BY <1>1, <1>19 DEF CheckStopped, Deletes
<1>20. ASSUME NEW i \in Ids, Unmark(i) PROVE DownInv'
  BY <1>1, <1>20 DEF Unmark, Deletes
<1>21. ASSUME NEW i \in Ids, LockPorts(i) PROVE DownInv'
  BY <1>1, <1>21 DEF LockPorts, Deletes
<1>22. ASSUME NEW i \in Ids, FreePort(i) PROVE DownInv'
  BY <1>1, <1>22 DEF FreePort, Deletes
<1>23. ASSUME NEW i \in Ids, Destruct(i) PROVE DownInv'
  BY <1>1, <1>23 DEF Destruct, Deletes
<1>24. ASSUME NEW i \in Ids, RemoveDir(i) PROVE DownInv'
  BY <1>1, <1>24 DEF RemoveDir, Deletes
<1>25. ASSUME NEW i \in Ids, DropDeletion(i) PROVE DownInv'
  BY <1>1, <1>25 DEF DropDeletion, Deletes
<1>26. ASSUME NEW i \in Ids, BeginStart(i) PROVE DownInv'
  BY <1>1, <1>26 DEF BeginStart
<1>27. ASSUME NEW i \in Ids, EndStart(i) PROVE DownInv'
  BY <1>1, <1>27 DEF EndStart
<1>28. ASSUME NEW i \in Ids, MacroHolds(i) PROVE DownInv'
  BY <1>1, <1>28 DEF MacroHolds
<1>29. ASSUME NEW i \in Ids, MacroStarts(i) PROVE DownInv'
  BY <1>1, <1>29 DEF MacroStarts
<1>30. ASSUME NEW i \in Ids, Stops(i) PROVE DownInv'
  BY <1>1, <1>30 DEF Stops
<1>31. ASSUME NEW i \in Ids, RestartStarts(i) PROVE DownInv'
  BY <1>1, <1>31 DEF RestartStarts
<1>32. ASSUME NEW i \in Ids, BeginSave(i) PROVE DownInv'
  BY <1>1, <1>32 DEF BeginSave
<1>33. ASSUME NEW i \in Ids, EndSave(i) PROVE DownInv'
  BY <1>1, <1>33 DEF EndSave
<1>34. ASSUME NEW i \in Ids, EditProperties(i) PROVE DownInv'
  BY <1>1, <1>34 DEF EditProperties
<1>35. ASSUME NEW i \in Ids, NEW p \in Ports, ChangePort(i, p) PROVE DownInv'
  BY <1>1, <1>35 DEF ChangePort
<1>36. ASSUME NEW i \in Ids, ChangeRights(i) PROVE DownInv'
  BY <1>1, <1>36 DEF ChangeRights
<1>37. CASE BeginShutdown
  BY <1>1, <1>37 DEF BeginShutdown
<1>38. CASE StopAll
  BY <1>1, <1>38 DEF StopAll
<1>39. CASE Ends
  BY <1>1, <1>39 DEF Ends
<1>40. CASE StartUp
  BY <1>1, <1>40 DEF StartUp
<1>41. CASE UNCHANGED regVars
  BY <1>1, <1>41 DEF regVars, Owners
<1> QED
  BY <1>2, <1>3, <1>4, <1>5, <1>6, <1>7, <1>8, <1>9, <1>10, <1>11, <1>12, <1>13, <1>14, <1>15, <1>16, <1>17, <1>18, <1>19, <1>20, <1>21, <1>22, <1>23, <1>24, <1>25, <1>26, <1>27, <1>28, <1>29, <1>30, <1>31, <1>32, <1>33, <1>34, <1>35, <1>36, <1>37, <1>38, <1>39, <1>40, <1>41
     DEF RegNext, CreationStep, DeletionStep, UseStep

\* Creation writes all that start-up looks for before it announces (mod.rs:634).
LEMMA FilesStep ==
  ASSUME IInv, [RegNext]_regVars
  PROVE  FilesInv'
<1>1. RegTypeOK /\ FreshInv /\ PlaceInv /\ FilesInv /\ GoneInv
  BY DEF IInv
<1> USE DEF RegTypeOK, FreshInv, PlaceInv, FilesInv, GoneInv, Minecraft, Marked, Configured, Unannounced, Whole, Contents, serverVars, portVars, rightVars
<1>2. ASSUME NEW i \in Ids, CreateMinecraft(i) PROVE FilesInv'
  BY <1>1, <1>2 DEF CreateMinecraft, Creates
<1>3. ASSUME NEW i \in Ids, CreateGeneric(i) PROVE FilesInv'
  BY <1>1, <1>3 DEF CreateGeneric, Creates
<1>4. ASSUME NEW i \in Ids, Mark(i) PROVE FilesInv'
  BY <1>1, <1>4 DEF Mark, Creates
<1>5. ASSUME NEW i \in Ids, MakeFiles(i) PROVE FilesInv'
  BY <1>1, <1>5 DEF MakeFiles, Builds, Creates
<1>6. ASSUME NEW i \in Ids, FindJre(i) PROVE FilesInv'
  BY <1>1, <1>6 DEF FindJre, Creates
<1>7. ASSUME NEW i \in Ids, InstallJre(i) PROVE FilesInv'
  BY <1>1, <1>7 DEF InstallJre, Creates
<1>8. ASSUME NEW i \in Ids, GetJar(i) PROVE FilesInv'
  BY <1>1, <1>8 DEF GetJar, Builds, Creates
<1>9. ASSUME NEW i \in Ids, WriteNewConfig(i) PROVE FilesInv'
  BY <1>1, <1>9 DEF WriteNewConfig, Creates
<1>10. ASSUME NEW i \in Ids, Bootstrap(i) PROVE FilesInv'
  BY <1>1, <1>10 DEF Bootstrap, Creates
<1>11. ASSUME NEW i \in Ids, RestoreNew(i) PROVE FilesInv'
  BY <1>1, <1>11 DEF RestoreNew, Creates
<1>12. ASSUME NEW i \in Ids, CleanUp(i) PROVE FilesInv'
  BY <1>1, <1>12 DEF CleanUp, Creates
<1>13. ASSUME NEW i \in Ids, AddPort(i) PROVE FilesInv'
  BY <1>1, <1>13 DEF AddPort, Creates
<1>14. ASSUME NEW i \in Ids, Grant(i) PROVE FilesInv'
  BY <1>1, <1>14 DEF Grant, Creates
<1>15. ASSUME NEW i \in Ids, Remark(i) PROVE FilesInv'
  BY <1>1, <1>15 DEF Remark, Creates
<1>16. ASSUME NEW i \in Ids, Insert(i) PROVE FilesInv'
  BY <1>1, <1>16 DEF Insert, Creates
<1>17. ASSUME NEW i \in Ids, Delete(i) PROVE FilesInv'
  BY <1>1, <1>17 DEF Delete, Deletes
<1>18. ASSUME NEW i \in Ids, Take(i) PROVE FilesInv'
  BY <1>1, <1>18 DEF Take, Deletes
<1>19. ASSUME NEW i \in Ids, CheckStopped(i) PROVE FilesInv'
  BY <1>1, <1>19 DEF CheckStopped, Deletes
<1>20. ASSUME NEW i \in Ids, Unmark(i) PROVE FilesInv'
  BY <1>1, <1>20 DEF Unmark, Deletes
<1>21. ASSUME NEW i \in Ids, LockPorts(i) PROVE FilesInv'
  BY <1>1, <1>21 DEF LockPorts, Deletes
<1>22. ASSUME NEW i \in Ids, FreePort(i) PROVE FilesInv'
  BY <1>1, <1>22 DEF FreePort, Deletes
<1>23. ASSUME NEW i \in Ids, Destruct(i) PROVE FilesInv'
  BY <1>1, <1>23 DEF Destruct, Deletes
<1>24. ASSUME NEW i \in Ids, RemoveDir(i) PROVE FilesInv'
  BY <1>1, <1>24 DEF RemoveDir, Deletes
<1>25. ASSUME NEW i \in Ids, DropDeletion(i) PROVE FilesInv'
  BY <1>1, <1>25 DEF DropDeletion, Deletes
<1>26. ASSUME NEW i \in Ids, BeginStart(i) PROVE FilesInv'
  BY <1>1, <1>26 DEF BeginStart
<1>27. ASSUME NEW i \in Ids, EndStart(i) PROVE FilesInv'
  BY <1>1, <1>27 DEF EndStart
<1>28. ASSUME NEW i \in Ids, MacroHolds(i) PROVE FilesInv'
  BY <1>1, <1>28 DEF MacroHolds
<1>29. ASSUME NEW i \in Ids, MacroStarts(i) PROVE FilesInv'
  BY <1>1, <1>29 DEF MacroStarts
<1>30. ASSUME NEW i \in Ids, Stops(i) PROVE FilesInv'
  BY <1>1, <1>30 DEF Stops
<1>31. ASSUME NEW i \in Ids, RestartStarts(i) PROVE FilesInv'
  BY <1>1, <1>31 DEF RestartStarts
<1>32. ASSUME NEW i \in Ids, BeginSave(i) PROVE FilesInv'
  BY <1>1, <1>32 DEF BeginSave
<1>33. ASSUME NEW i \in Ids, EndSave(i) PROVE FilesInv'
  BY <1>1, <1>33 DEF EndSave
<1>34. ASSUME NEW i \in Ids, EditProperties(i) PROVE FilesInv'
  BY <1>1, <1>34 DEF EditProperties
<1>35. ASSUME NEW i \in Ids, NEW p \in Ports, ChangePort(i, p) PROVE FilesInv'
  BY <1>1, <1>35 DEF ChangePort
<1>36. ASSUME NEW i \in Ids, ChangeRights(i) PROVE FilesInv'
  BY <1>1, <1>36 DEF ChangeRights
<1>37. CASE BeginShutdown
  BY <1>1, <1>37 DEF BeginShutdown
<1>38. CASE StopAll
  BY <1>1, <1>38 DEF StopAll
<1>39. CASE Ends
  BY <1>1, <1>39 DEF Ends
<1>40. CASE StartUp
  BY <1>1, <1>40 DEF StartUp
<1>41. CASE UNCHANGED regVars
  BY <1>1, <1>41 DEF regVars, Owners
<1> QED
  BY <1>2, <1>3, <1>4, <1>5, <1>6, <1>7, <1>8, <1>9, <1>10, <1>11, <1>12, <1>13, <1>14, <1>15, <1>16, <1>17, <1>18, <1>19, <1>20, <1>21, <1>22, <1>23, <1>24, <1>25, <1>26, <1>27, <1>28, <1>29, <1>30, <1>31, <1>32, <1>33, <1>34, <1>35, <1>36, <1>37, <1>38, <1>39, <1>40, <1>41
     DEF RegNext, CreationStep, DeletionStep, UseStep

\* Users of an instance have taken it from the registry (deno_ops/instance_control/mod.rs:34).
LEMMA UseRegStep ==
  ASSUME IInv, [RegNext]_regVars
  PROVE  UseInv'
<1>1. RegTypeOK /\ PlaceInv /\ DownInv /\ UseInv /\ GoneInv
  BY DEF IInv
<1> USE DEF RegTypeOK, PlaceInv, DownInv, UseInv, GoneInv, Minecraft, serverVars, portVars, rightVars
<1>2. ASSUME NEW i \in Ids, CreateMinecraft(i) PROVE UseInv'
  BY <1>1, <1>2 DEF CreateMinecraft, Creates
<1>3. ASSUME NEW i \in Ids, CreateGeneric(i) PROVE UseInv'
  BY <1>1, <1>3 DEF CreateGeneric, Creates
<1>4. ASSUME NEW i \in Ids, Mark(i) PROVE UseInv'
  BY <1>1, <1>4 DEF Mark, Creates
<1>5. ASSUME NEW i \in Ids, MakeFiles(i) PROVE UseInv'
  BY <1>1, <1>5 DEF MakeFiles, Builds, Creates
<1>6. ASSUME NEW i \in Ids, FindJre(i) PROVE UseInv'
  BY <1>1, <1>6 DEF FindJre, Creates
<1>7. ASSUME NEW i \in Ids, InstallJre(i) PROVE UseInv'
  BY <1>1, <1>7 DEF InstallJre, Creates
<1>8. ASSUME NEW i \in Ids, GetJar(i) PROVE UseInv'
  BY <1>1, <1>8 DEF GetJar, Builds, Creates
<1>9. ASSUME NEW i \in Ids, WriteNewConfig(i) PROVE UseInv'
  BY <1>1, <1>9 DEF WriteNewConfig, Creates
<1>10. ASSUME NEW i \in Ids, Bootstrap(i) PROVE UseInv'
  BY <1>1, <1>10 DEF Bootstrap, Creates
<1>11. ASSUME NEW i \in Ids, RestoreNew(i) PROVE UseInv'
  BY <1>1, <1>11 DEF RestoreNew, Creates
<1>12. ASSUME NEW i \in Ids, CleanUp(i) PROVE UseInv'
  BY <1>1, <1>12 DEF CleanUp, Creates
<1>13. ASSUME NEW i \in Ids, AddPort(i) PROVE UseInv'
  BY <1>1, <1>13 DEF AddPort, Creates
<1>14. ASSUME NEW i \in Ids, Grant(i) PROVE UseInv'
  BY <1>1, <1>14 DEF Grant, Creates
<1>15. ASSUME NEW i \in Ids, Remark(i) PROVE UseInv'
  BY <1>1, <1>15 DEF Remark, Creates
<1>16. ASSUME NEW i \in Ids, Insert(i) PROVE UseInv'
  BY <1>1, <1>16 DEF Insert, Creates
<1>17. ASSUME NEW i \in Ids, Delete(i) PROVE UseInv'
  BY <1>1, <1>17 DEF Delete, Deletes
<1>18. ASSUME NEW i \in Ids, Take(i) PROVE UseInv'
  BY <1>1, <1>18 DEF Take, Deletes
<1>19. ASSUME NEW i \in Ids, CheckStopped(i) PROVE UseInv'
  BY <1>1, <1>19 DEF CheckStopped, Deletes
<1>20. ASSUME NEW i \in Ids, Unmark(i) PROVE UseInv'
  BY <1>1, <1>20 DEF Unmark, Deletes
<1>21. ASSUME NEW i \in Ids, LockPorts(i) PROVE UseInv'
  BY <1>1, <1>21 DEF LockPorts, Deletes
<1>22. ASSUME NEW i \in Ids, FreePort(i) PROVE UseInv'
  BY <1>1, <1>22 DEF FreePort, Deletes
<1>23. ASSUME NEW i \in Ids, Destruct(i) PROVE UseInv'
  BY <1>1, <1>23 DEF Destruct, Deletes
<1>24. ASSUME NEW i \in Ids, RemoveDir(i) PROVE UseInv'
  BY <1>1, <1>24 DEF RemoveDir, Deletes
<1>25. ASSUME NEW i \in Ids, DropDeletion(i) PROVE UseInv'
  BY <1>1, <1>25 DEF DropDeletion, Deletes
<1>26. ASSUME NEW i \in Ids, BeginStart(i) PROVE UseInv'
  BY <1>1, <1>26 DEF BeginStart
<1>27. ASSUME NEW i \in Ids, EndStart(i) PROVE UseInv'
  BY <1>1, <1>27 DEF EndStart
<1>28. ASSUME NEW i \in Ids, MacroHolds(i) PROVE UseInv'
  BY <1>1, <1>28 DEF MacroHolds
<1>29. ASSUME NEW i \in Ids, MacroStarts(i) PROVE UseInv'
  BY <1>1, <1>29 DEF MacroStarts
<1>30. ASSUME NEW i \in Ids, Stops(i) PROVE UseInv'
  BY <1>1, <1>30 DEF Stops
<1>31. ASSUME NEW i \in Ids, RestartStarts(i) PROVE UseInv'
  BY <1>1, <1>31 DEF RestartStarts
<1>32. ASSUME NEW i \in Ids, BeginSave(i) PROVE UseInv'
  BY <1>1, <1>32 DEF BeginSave
<1>33. ASSUME NEW i \in Ids, EndSave(i) PROVE UseInv'
  BY <1>1, <1>33 DEF EndSave
<1>34. ASSUME NEW i \in Ids, EditProperties(i) PROVE UseInv'
  BY <1>1, <1>34 DEF EditProperties
<1>35. ASSUME NEW i \in Ids, NEW p \in Ports, ChangePort(i, p) PROVE UseInv'
  BY <1>1, <1>35 DEF ChangePort
<1>36. ASSUME NEW i \in Ids, ChangeRights(i) PROVE UseInv'
  BY <1>1, <1>36 DEF ChangeRights
<1>37. CASE BeginShutdown
  BY <1>1, <1>37 DEF BeginShutdown
<1>38. CASE StopAll
  BY <1>1, <1>38 DEF StopAll
<1>39. CASE Ends
  BY <1>1, <1>39 DEF Ends
<1>40. CASE StartUp
  BY <1>1, <1>40 DEF StartUp
<1>41. CASE UNCHANGED regVars
  BY <1>1, <1>41 DEF regVars, Owners
<1> QED
  BY <1>2, <1>3, <1>4, <1>5, <1>6, <1>7, <1>8, <1>9, <1>10, <1>11, <1>12, <1>13, <1>14, <1>15, <1>16, <1>17, <1>18, <1>19, <1>20, <1>21, <1>22, <1>23, <1>24, <1>25, <1>26, <1>27, <1>28, <1>29, <1>30, <1>31, <1>32, <1>33, <1>34, <1>35, <1>36, <1>37, <1>38, <1>39, <1>40, <1>41
     DEF RegNext, CreationStep, DeletionStep, UseStep

\* The marker goes first, and nothing brings it back (instance.rs:339).
LEMMA GoneStep ==
  ASSUME IInv, [RegNext]_regVars
  PROVE  GoneInv'
<1>1. RegTypeOK /\ FreshInv /\ PlaceInv /\ DownInv /\ GoneInv
  BY DEF IInv
<1> USE DEF RegTypeOK, FreshInv, PlaceInv, DownInv, GoneInv, Minecraft, Whole, Contents, serverVars, portVars, rightVars
<1>2. ASSUME NEW i \in Ids, CreateMinecraft(i) PROVE GoneInv'
  BY <1>1, <1>2 DEF CreateMinecraft, Creates
<1>3. ASSUME NEW i \in Ids, CreateGeneric(i) PROVE GoneInv'
  BY <1>1, <1>3 DEF CreateGeneric, Creates
<1>4. ASSUME NEW i \in Ids, Mark(i) PROVE GoneInv'
  BY <1>1, <1>4 DEF Mark, Creates
<1>5. ASSUME NEW i \in Ids, MakeFiles(i) PROVE GoneInv'
  BY <1>1, <1>5 DEF MakeFiles, Builds, Creates
<1>6. ASSUME NEW i \in Ids, FindJre(i) PROVE GoneInv'
  BY <1>1, <1>6 DEF FindJre, Creates
<1>7. ASSUME NEW i \in Ids, InstallJre(i) PROVE GoneInv'
  BY <1>1, <1>7 DEF InstallJre, Creates
<1>8. ASSUME NEW i \in Ids, GetJar(i) PROVE GoneInv'
  BY <1>1, <1>8 DEF GetJar, Builds, Creates
<1>9. ASSUME NEW i \in Ids, WriteNewConfig(i) PROVE GoneInv'
  BY <1>1, <1>9 DEF WriteNewConfig, Creates
<1>10. ASSUME NEW i \in Ids, Bootstrap(i) PROVE GoneInv'
  BY <1>1, <1>10 DEF Bootstrap, Creates
<1>11. ASSUME NEW i \in Ids, RestoreNew(i) PROVE GoneInv'
  BY <1>1, <1>11 DEF RestoreNew, Creates
<1>12. ASSUME NEW i \in Ids, CleanUp(i) PROVE GoneInv'
  BY <1>1, <1>12 DEF CleanUp, Creates
<1>13. ASSUME NEW i \in Ids, AddPort(i) PROVE GoneInv'
  BY <1>1, <1>13 DEF AddPort, Creates
<1>14. ASSUME NEW i \in Ids, Grant(i) PROVE GoneInv'
  BY <1>1, <1>14 DEF Grant, Creates
<1>15. ASSUME NEW i \in Ids, Remark(i) PROVE GoneInv'
  BY <1>1, <1>15 DEF Remark, Creates
<1>16. ASSUME NEW i \in Ids, Insert(i) PROVE GoneInv'
  BY <1>1, <1>16 DEF Insert, Creates
<1>17. ASSUME NEW i \in Ids, Delete(i) PROVE GoneInv'
  BY <1>1, <1>17 DEF Delete, Deletes
<1>18. ASSUME NEW i \in Ids, Take(i) PROVE GoneInv'
  BY <1>1, <1>18 DEF Take, Deletes
<1>19. ASSUME NEW i \in Ids, CheckStopped(i) PROVE GoneInv'
  BY <1>1, <1>19 DEF CheckStopped, Deletes
<1>20. ASSUME NEW i \in Ids, Unmark(i) PROVE GoneInv'
  BY <1>1, <1>20 DEF Unmark, Deletes
<1>21. ASSUME NEW i \in Ids, LockPorts(i) PROVE GoneInv'
  BY <1>1, <1>21 DEF LockPorts, Deletes
<1>22. ASSUME NEW i \in Ids, FreePort(i) PROVE GoneInv'
  BY <1>1, <1>22 DEF FreePort, Deletes
<1>23. ASSUME NEW i \in Ids, Destruct(i) PROVE GoneInv'
  BY <1>1, <1>23 DEF Destruct, Deletes
<1>24. ASSUME NEW i \in Ids, RemoveDir(i) PROVE GoneInv'
  BY <1>1, <1>24 DEF RemoveDir, Deletes
<1>25. ASSUME NEW i \in Ids, DropDeletion(i) PROVE GoneInv'
  BY <1>1, <1>25 DEF DropDeletion, Deletes
<1>26. ASSUME NEW i \in Ids, BeginStart(i) PROVE GoneInv'
  BY <1>1, <1>26 DEF BeginStart
<1>27. ASSUME NEW i \in Ids, EndStart(i) PROVE GoneInv'
  BY <1>1, <1>27 DEF EndStart
<1>28. ASSUME NEW i \in Ids, MacroHolds(i) PROVE GoneInv'
  BY <1>1, <1>28 DEF MacroHolds
<1>29. ASSUME NEW i \in Ids, MacroStarts(i) PROVE GoneInv'
  BY <1>1, <1>29 DEF MacroStarts
<1>30. ASSUME NEW i \in Ids, Stops(i) PROVE GoneInv'
  BY <1>1, <1>30 DEF Stops
<1>31. ASSUME NEW i \in Ids, RestartStarts(i) PROVE GoneInv'
  BY <1>1, <1>31 DEF RestartStarts
<1>32. ASSUME NEW i \in Ids, BeginSave(i) PROVE GoneInv'
  BY <1>1, <1>32 DEF BeginSave
<1>33. ASSUME NEW i \in Ids, EndSave(i) PROVE GoneInv'
  BY <1>1, <1>33 DEF EndSave
<1>34. ASSUME NEW i \in Ids, EditProperties(i) PROVE GoneInv'
  BY <1>1, <1>34 DEF EditProperties
<1>35. ASSUME NEW i \in Ids, NEW p \in Ports, ChangePort(i, p) PROVE GoneInv'
  BY <1>1, <1>35 DEF ChangePort
<1>36. ASSUME NEW i \in Ids, ChangeRights(i) PROVE GoneInv'
  BY <1>1, <1>36 DEF ChangeRights
<1>37. CASE BeginShutdown
  BY <1>1, <1>37 DEF BeginShutdown
<1>38. CASE StopAll
  BY <1>1, <1>38 DEF StopAll
<1>39. CASE Ends
  BY <1>1, <1>39 DEF Ends
<1>40. CASE StartUp
  BY <1>1, <1>40 DEF StartUp, Restorable
<1>41. CASE UNCHANGED regVars
  BY <1>1, <1>41 DEF regVars, Owners
<1> QED
  BY <1>2, <1>3, <1>4, <1>5, <1>6, <1>7, <1>8, <1>9, <1>10, <1>11, <1>12, <1>13, <1>14, <1>15, <1>16, <1>17, <1>18, <1>19, <1>20, <1>21, <1>22, <1>23, <1>24, <1>25, <1>26, <1>27, <1>28, <1>29, <1>30, <1>31, <1>32, <1>33, <1>34, <1>35, <1>36, <1>37, <1>38, <1>39, <1>40, <1>41
     DEF RegNext, CreationStep, DeletionStep, UseStep

\* What deletion does not delete it puts back (instance.rs:326, 341).
LEMMA KeptStep ==
  ASSUME IInv, [RegNext]_regVars
  PROVE  CreatedIsKept'
<1>1. RegTypeOK /\ FreshInv /\ PlaceInv /\ DownInv /\ FilesInv /\ UseInv /\ GoneInv /\ CreatedIsKept
  BY DEF IInv
<1> USE DEF RegTypeOK, FreshInv, PlaceInv, DownInv, FilesInv, UseInv, GoneInv, CreatedIsKept, Minecraft, Unannounced, serverVars, portVars, rightVars
<1>2. ASSUME NEW i \in Ids, CreateMinecraft(i) PROVE CreatedIsKept'
  BY <1>1, <1>2 DEF CreateMinecraft, Creates
<1>3. ASSUME NEW i \in Ids, CreateGeneric(i) PROVE CreatedIsKept'
  BY <1>1, <1>3 DEF CreateGeneric, Creates
<1>4. ASSUME NEW i \in Ids, Mark(i) PROVE CreatedIsKept'
  BY <1>1, <1>4 DEF Mark, Creates
<1>5. ASSUME NEW i \in Ids, MakeFiles(i) PROVE CreatedIsKept'
  BY <1>1, <1>5 DEF MakeFiles, Builds, Creates
<1>6. ASSUME NEW i \in Ids, FindJre(i) PROVE CreatedIsKept'
  BY <1>1, <1>6 DEF FindJre, Creates
<1>7. ASSUME NEW i \in Ids, InstallJre(i) PROVE CreatedIsKept'
  BY <1>1, <1>7 DEF InstallJre, Creates
<1>8. ASSUME NEW i \in Ids, GetJar(i) PROVE CreatedIsKept'
  BY <1>1, <1>8 DEF GetJar, Builds, Creates
<1>9. ASSUME NEW i \in Ids, WriteNewConfig(i) PROVE CreatedIsKept'
  BY <1>1, <1>9 DEF WriteNewConfig, Creates
<1>10. ASSUME NEW i \in Ids, Bootstrap(i) PROVE CreatedIsKept'
  BY <1>1, <1>10 DEF Bootstrap, Creates
<1>11. ASSUME NEW i \in Ids, RestoreNew(i) PROVE CreatedIsKept'
  BY <1>1, <1>11 DEF RestoreNew, Creates
<1>12. ASSUME NEW i \in Ids, CleanUp(i) PROVE CreatedIsKept'
  BY <1>1, <1>12 DEF CleanUp, Creates
<1>13. ASSUME NEW i \in Ids, AddPort(i) PROVE CreatedIsKept'
  BY <1>1, <1>13 DEF AddPort, Creates
<1>14. ASSUME NEW i \in Ids, Grant(i) PROVE CreatedIsKept'
  BY <1>1, <1>14 DEF Grant, Creates
<1>15. ASSUME NEW i \in Ids, Remark(i) PROVE CreatedIsKept'
  BY <1>1, <1>15 DEF Remark, Creates
<1>16. ASSUME NEW i \in Ids, Insert(i) PROVE CreatedIsKept'
  BY <1>1, <1>16 DEF Insert, Creates
<1>17. ASSUME NEW i \in Ids, Delete(i) PROVE CreatedIsKept'
  BY <1>1, <1>17 DEF Delete, Deletes
<1>18. ASSUME NEW i \in Ids, Take(i) PROVE CreatedIsKept'
  BY <1>1, <1>18 DEF Take, Deletes
<1>19. ASSUME NEW i \in Ids, CheckStopped(i) PROVE CreatedIsKept'
  BY <1>1, <1>19 DEF CheckStopped, Deletes
<1>20. ASSUME NEW i \in Ids, Unmark(i) PROVE CreatedIsKept'
  BY <1>1, <1>20 DEF Unmark, Deletes
<1>21. ASSUME NEW i \in Ids, LockPorts(i) PROVE CreatedIsKept'
  BY <1>1, <1>21 DEF LockPorts, Deletes
<1>22. ASSUME NEW i \in Ids, FreePort(i) PROVE CreatedIsKept'
  BY <1>1, <1>22 DEF FreePort, Deletes
<1>23. ASSUME NEW i \in Ids, Destruct(i) PROVE CreatedIsKept'
  BY <1>1, <1>23 DEF Destruct, Deletes
<1>24. ASSUME NEW i \in Ids, RemoveDir(i) PROVE CreatedIsKept'
  BY <1>1, <1>24 DEF RemoveDir, Deletes
<1>25. ASSUME NEW i \in Ids, DropDeletion(i) PROVE CreatedIsKept'
  BY <1>1, <1>25 DEF DropDeletion, Deletes
<1>26. ASSUME NEW i \in Ids, BeginStart(i) PROVE CreatedIsKept'
  BY <1>1, <1>26 DEF BeginStart
<1>27. ASSUME NEW i \in Ids, EndStart(i) PROVE CreatedIsKept'
  BY <1>1, <1>27 DEF EndStart
<1>28. ASSUME NEW i \in Ids, MacroHolds(i) PROVE CreatedIsKept'
  BY <1>1, <1>28 DEF MacroHolds
<1>29. ASSUME NEW i \in Ids, MacroStarts(i) PROVE CreatedIsKept'
  BY <1>1, <1>29 DEF MacroStarts
<1>30. ASSUME NEW i \in Ids, Stops(i) PROVE CreatedIsKept'
  BY <1>1, <1>30 DEF Stops
<1>31. ASSUME NEW i \in Ids, RestartStarts(i) PROVE CreatedIsKept'
  BY <1>1, <1>31 DEF RestartStarts
<1>32. ASSUME NEW i \in Ids, BeginSave(i) PROVE CreatedIsKept'
  BY <1>1, <1>32 DEF BeginSave
<1>33. ASSUME NEW i \in Ids, EndSave(i) PROVE CreatedIsKept'
  BY <1>1, <1>33 DEF EndSave
<1>34. ASSUME NEW i \in Ids, EditProperties(i) PROVE CreatedIsKept'
  BY <1>1, <1>34 DEF EditProperties
<1>35. ASSUME NEW i \in Ids, NEW p \in Ports, ChangePort(i, p) PROVE CreatedIsKept'
  BY <1>1, <1>35 DEF ChangePort
<1>36. ASSUME NEW i \in Ids, ChangeRights(i) PROVE CreatedIsKept'
  BY <1>1, <1>36 DEF ChangeRights
<1>37. CASE BeginShutdown
  BY <1>1, <1>37 DEF BeginShutdown
<1>38. CASE StopAll
  BY <1>1, <1>38 DEF StopAll
<1>39. CASE Ends
  BY <1>1, <1>39 DEF Ends
<1>40. CASE StartUp
  BY <1>1, <1>40 DEF StartUp, Restorable
<1>41. CASE UNCHANGED regVars
  BY <1>1, <1>41 DEF regVars, Owners
<1> QED
  BY <1>2, <1>3, <1>4, <1>5, <1>6, <1>7, <1>8, <1>9, <1>10, <1>11, <1>12, <1>13, <1>14, <1>15, <1>16, <1>17, <1>18, <1>19, <1>20, <1>21, <1>22, <1>23, <1>24, <1>25, <1>26, <1>27, <1>28, <1>29, <1>30, <1>31, <1>32, <1>33, <1>34, <1>35, <1>36, <1>37, <1>38, <1>39, <1>40, <1>41
     DEF RegNext, CreationStep, DeletionStep, UseStep

\* Ports enter the set with their instances and leave it with them (port_manager.rs:49).
LEMMA PortsStep ==
  ASSUME IInv, [RegNext]_regVars
  PROVE  PortsInv'
<1>1. RegTypeOK /\ FreshInv /\ PlaceInv /\ DownInv /\ PortsInv
  BY DEF IInv
<1> USE DEF RegTypeOK, FreshInv, PlaceInv, DownInv, PortsInv, Owners, Minecraft, serverVars, portVars, rightVars
<1>2. ASSUME NEW i \in Ids, CreateMinecraft(i) PROVE PortsInv'
  BY <1>1, <1>2 DEF CreateMinecraft, Creates
<1>3. ASSUME NEW i \in Ids, CreateGeneric(i) PROVE PortsInv'
  BY <1>1, <1>3 DEF CreateGeneric, Creates
<1>4. ASSUME NEW i \in Ids, Mark(i) PROVE PortsInv'
  BY <1>1, <1>4 DEF Mark, Creates
<1>5. ASSUME NEW i \in Ids, MakeFiles(i) PROVE PortsInv'
  BY <1>1, <1>5 DEF MakeFiles, Builds, Creates
<1>6. ASSUME NEW i \in Ids, FindJre(i) PROVE PortsInv'
  BY <1>1, <1>6 DEF FindJre, Creates
<1>7. ASSUME NEW i \in Ids, InstallJre(i) PROVE PortsInv'
  BY <1>1, <1>7 DEF InstallJre, Creates
<1>8. ASSUME NEW i \in Ids, GetJar(i) PROVE PortsInv'
  BY <1>1, <1>8 DEF GetJar, Builds, Creates
<1>9. ASSUME NEW i \in Ids, WriteNewConfig(i) PROVE PortsInv'
  BY <1>1, <1>9 DEF WriteNewConfig, Creates
<1>10. ASSUME NEW i \in Ids, Bootstrap(i) PROVE PortsInv'
  BY <1>1, <1>10 DEF Bootstrap, Creates
<1>11. ASSUME NEW i \in Ids, RestoreNew(i) PROVE PortsInv'
  BY <1>1, <1>11 DEF RestoreNew, Creates
<1>12. ASSUME NEW i \in Ids, CleanUp(i) PROVE PortsInv'
  BY <1>1, <1>12 DEF CleanUp, Creates
<1>13. ASSUME NEW i \in Ids, AddPort(i) PROVE PortsInv'
  BY <1>1, <1>13 DEF AddPort, Creates
<1>14. ASSUME NEW i \in Ids, Grant(i) PROVE PortsInv'
  BY <1>1, <1>14 DEF Grant, Creates
<1>15. ASSUME NEW i \in Ids, Remark(i) PROVE PortsInv'
  BY <1>1, <1>15 DEF Remark, Creates
<1>16. ASSUME NEW i \in Ids, Insert(i) PROVE PortsInv'
  BY <1>1, <1>16 DEF Insert, Creates
<1>17. ASSUME NEW i \in Ids, Delete(i) PROVE PortsInv'
  BY <1>1, <1>17 DEF Delete, Deletes
<1>18. ASSUME NEW i \in Ids, Take(i) PROVE PortsInv'
  BY <1>1, <1>18 DEF Take, Deletes
<1>19. ASSUME NEW i \in Ids, CheckStopped(i) PROVE PortsInv'
  BY <1>1, <1>19 DEF CheckStopped, Deletes
<1>20. ASSUME NEW i \in Ids, Unmark(i) PROVE PortsInv'
  BY <1>1, <1>20 DEF Unmark, Deletes
<1>21. ASSUME NEW i \in Ids, LockPorts(i) PROVE PortsInv'
  BY <1>1, <1>21 DEF LockPorts, Deletes
<1>22. ASSUME NEW i \in Ids, FreePort(i) PROVE PortsInv'
  BY <1>1, <1>22 DEF FreePort, Deletes
<1>23. ASSUME NEW i \in Ids, Destruct(i) PROVE PortsInv'
  BY <1>1, <1>23 DEF Destruct, Deletes
<1>24. ASSUME NEW i \in Ids, RemoveDir(i) PROVE PortsInv'
  BY <1>1, <1>24 DEF RemoveDir, Deletes
<1>25. ASSUME NEW i \in Ids, DropDeletion(i) PROVE PortsInv'
  BY <1>1, <1>25 DEF DropDeletion, Deletes
<1>26. ASSUME NEW i \in Ids, BeginStart(i) PROVE PortsInv'
  BY <1>1, <1>26 DEF BeginStart
<1>27. ASSUME NEW i \in Ids, EndStart(i) PROVE PortsInv'
  BY <1>1, <1>27 DEF EndStart
<1>28. ASSUME NEW i \in Ids, MacroHolds(i) PROVE PortsInv'
  BY <1>1, <1>28 DEF MacroHolds
<1>29. ASSUME NEW i \in Ids, MacroStarts(i) PROVE PortsInv'
  BY <1>1, <1>29 DEF MacroStarts
<1>30. ASSUME NEW i \in Ids, Stops(i) PROVE PortsInv'
  BY <1>1, <1>30 DEF Stops
<1>31. ASSUME NEW i \in Ids, RestartStarts(i) PROVE PortsInv'
  BY <1>1, <1>31 DEF RestartStarts
<1>32. ASSUME NEW i \in Ids, BeginSave(i) PROVE PortsInv'
  BY <1>1, <1>32 DEF BeginSave
<1>33. ASSUME NEW i \in Ids, EndSave(i) PROVE PortsInv'
  BY <1>1, <1>33 DEF EndSave
<1>34. ASSUME NEW i \in Ids, EditProperties(i) PROVE PortsInv'
  BY <1>1, <1>34 DEF EditProperties
<1>35. ASSUME NEW i \in Ids, NEW p \in Ports, ChangePort(i, p) PROVE PortsInv'
  BY <1>1, <1>35 DEF ChangePort
<1>36. ASSUME NEW i \in Ids, ChangeRights(i) PROVE PortsInv'
  BY <1>1, <1>36 DEF ChangeRights
<1>37. CASE BeginShutdown
  BY <1>1, <1>37 DEF BeginShutdown
<1>38. CASE StopAll
  BY <1>1, <1>38 DEF StopAll
<1>39. CASE Ends
  BY <1>1, <1>39 DEF Ends
<1>40. CASE StartUp
  BY <1>1, <1>40 DEF StartUp
<1>41. CASE UNCHANGED regVars
  BY <1>1, <1>41 DEF regVars, Owners
<1> QED
  BY <1>2, <1>3, <1>4, <1>5, <1>6, <1>7, <1>8, <1>9, <1>10, <1>11, <1>12, <1>13, <1>14, <1>15, <1>16, <1>17, <1>18, <1>19, <1>20, <1>21, <1>22, <1>23, <1>24, <1>25, <1>26, <1>27, <1>28, <1>29, <1>30, <1>31, <1>32, <1>33, <1>34, <1>35, <1>36, <1>37, <1>38, <1>39, <1>40, <1>41
     DEF RegNext, CreationStep, DeletionStep, UseStep

\* Copies are current unless rights have changed (instance.rs:185).
LEMMA RightsStep ==
  ASSUME IInv, [RegNext]_regVars
  PROVE  RightsInv'
<1>1. RegTypeOK /\ FreshInv /\ PlaceInv /\ RightsInv
  BY DEF IInv
<1> USE DEF RegTypeOK, FreshInv, PlaceInv, RightsInv, Minecraft, Copies, serverVars, portVars, rightVars
<1>2. ASSUME NEW i \in Ids, CreateMinecraft(i) PROVE RightsInv'
  BY <1>1, <1>2 DEF CreateMinecraft, Creates
<1>3. ASSUME NEW i \in Ids, CreateGeneric(i) PROVE RightsInv'
  BY <1>1, <1>3 DEF CreateGeneric, Creates
<1>4. ASSUME NEW i \in Ids, Mark(i) PROVE RightsInv'
  BY <1>1, <1>4 DEF Mark, Creates
<1>5. ASSUME NEW i \in Ids, MakeFiles(i) PROVE RightsInv'
  BY <1>1, <1>5 DEF MakeFiles, Builds, Creates
<1>6. ASSUME NEW i \in Ids, FindJre(i) PROVE RightsInv'
  BY <1>1, <1>6 DEF FindJre, Creates
<1>7. ASSUME NEW i \in Ids, InstallJre(i) PROVE RightsInv'
  BY <1>1, <1>7 DEF InstallJre, Creates
<1>8. ASSUME NEW i \in Ids, GetJar(i) PROVE RightsInv'
  BY <1>1, <1>8 DEF GetJar, Builds, Creates
<1>9. ASSUME NEW i \in Ids, WriteNewConfig(i) PROVE RightsInv'
  BY <1>1, <1>9 DEF WriteNewConfig, Creates
<1>10. ASSUME NEW i \in Ids, Bootstrap(i) PROVE RightsInv'
  BY <1>1, <1>10 DEF Bootstrap, Creates
<1>11. ASSUME NEW i \in Ids, RestoreNew(i) PROVE RightsInv'
  BY <1>1, <1>11 DEF RestoreNew, Creates
<1>12. ASSUME NEW i \in Ids, CleanUp(i) PROVE RightsInv'
  BY <1>1, <1>12 DEF CleanUp, Creates
<1>13. ASSUME NEW i \in Ids, AddPort(i) PROVE RightsInv'
  BY <1>1, <1>13 DEF AddPort, Creates
<1>14. ASSUME NEW i \in Ids, Grant(i) PROVE RightsInv'
  <2>1. CASE UNCHANGED <<rights, meant, raced>>
    BY <1>1, <1>14, <2>1 DEF Grant, Creates
  <2>2. CASE /\ rights' = copied[i] \union {i}
             /\ meant' = meant \union {i}
             /\ raced' = (raced \/ Copies(i) # {})
    <3> SUFFICES ASSUME ~raced' PROVE RightsInv'
      OBVIOUS
    <3>1. ~raced /\ Copies(i) = {}
      BY <2>2
    <3>2. /\ creation[i] = "grant"
          /\ creation' = [creation EXCEPT ![i] = "insert"]
          /\ UNCHANGED <<kind, copied>>
      BY <1>14 DEF Grant, Creates
    <3>3. rights' = meant'
      BY <1>1, <2>2, <3>1, <3>2
    <3>4. \A j \in Ids \ {i} : ~(Minecraft(j) /\ creation[j] # "idle")
      BY <3>1
    <3> QED
      BY <1>1, <3>2, <3>3, <3>4
  <2> QED
    BY <1>14, <2>1, <2>2 DEF Grant
<1>15. ASSUME NEW i \in Ids, Remark(i) PROVE RightsInv'
  BY <1>1, <1>15 DEF Remark, Creates
<1>16. ASSUME NEW i \in Ids, Insert(i) PROVE RightsInv'
  BY <1>1, <1>16 DEF Insert, Creates
<1>17. ASSUME NEW i \in Ids, Delete(i) PROVE RightsInv'
  BY <1>1, <1>17 DEF Delete, Deletes
<1>18. ASSUME NEW i \in Ids, Take(i) PROVE RightsInv'
  BY <1>1, <1>18 DEF Take, Deletes
<1>19. ASSUME NEW i \in Ids, CheckStopped(i) PROVE RightsInv'
  BY <1>1, <1>19 DEF CheckStopped, Deletes
<1>20. ASSUME NEW i \in Ids, Unmark(i) PROVE RightsInv'
  BY <1>1, <1>20 DEF Unmark, Deletes
<1>21. ASSUME NEW i \in Ids, LockPorts(i) PROVE RightsInv'
  BY <1>1, <1>21 DEF LockPorts, Deletes
<1>22. ASSUME NEW i \in Ids, FreePort(i) PROVE RightsInv'
  BY <1>1, <1>22 DEF FreePort, Deletes
<1>23. ASSUME NEW i \in Ids, Destruct(i) PROVE RightsInv'
  BY <1>1, <1>23 DEF Destruct, Deletes
<1>24. ASSUME NEW i \in Ids, RemoveDir(i) PROVE RightsInv'
  BY <1>1, <1>24 DEF RemoveDir, Deletes
<1>25. ASSUME NEW i \in Ids, DropDeletion(i) PROVE RightsInv'
  BY <1>1, <1>25 DEF DropDeletion, Deletes
<1>26. ASSUME NEW i \in Ids, BeginStart(i) PROVE RightsInv'
  BY <1>1, <1>26 DEF BeginStart
<1>27. ASSUME NEW i \in Ids, EndStart(i) PROVE RightsInv'
  BY <1>1, <1>27 DEF EndStart
<1>28. ASSUME NEW i \in Ids, MacroHolds(i) PROVE RightsInv'
  BY <1>1, <1>28 DEF MacroHolds
<1>29. ASSUME NEW i \in Ids, MacroStarts(i) PROVE RightsInv'
  BY <1>1, <1>29 DEF MacroStarts
<1>30. ASSUME NEW i \in Ids, Stops(i) PROVE RightsInv'
  BY <1>1, <1>30 DEF Stops
<1>31. ASSUME NEW i \in Ids, RestartStarts(i) PROVE RightsInv'
  BY <1>1, <1>31 DEF RestartStarts
<1>32. ASSUME NEW i \in Ids, BeginSave(i) PROVE RightsInv'
  BY <1>1, <1>32 DEF BeginSave
<1>33. ASSUME NEW i \in Ids, EndSave(i) PROVE RightsInv'
  BY <1>1, <1>33 DEF EndSave
<1>34. ASSUME NEW i \in Ids, EditProperties(i) PROVE RightsInv'
  BY <1>1, <1>34 DEF EditProperties
<1>35. ASSUME NEW i \in Ids, NEW p \in Ports, ChangePort(i, p) PROVE RightsInv'
  BY <1>1, <1>35 DEF ChangePort
<1>36. ASSUME NEW i \in Ids, ChangeRights(i) PROVE RightsInv'
  <2> SUFFICES ASSUME ~raced' PROVE RightsInv'
    OBVIOUS
  <2>1. /\ rights' = meant'
        /\ raced' = (raced \/ Copies(i) # {})
        /\ UNCHANGED <<kind, creation, copied>>
        /\ i \in registered
    BY <1>36 DEF ChangeRights
  <2>2. ~raced /\ Copies(i) = {}
    BY <2>1
  <2>3. \A j \in Ids \ {i} : ~(Minecraft(j) /\ creation[j] # "idle")
    BY <2>2
  <2>4. creation[i] = "idle"
    BY <1>1, <2>1
  <2> QED
    BY <1>1, <2>1, <2>3, <2>4
<1>37. CASE BeginShutdown
  BY <1>1, <1>37 DEF BeginShutdown
<1>38. CASE StopAll
  BY <1>1, <1>38 DEF StopAll
<1>39. CASE Ends
  BY <1>1, <1>39 DEF Ends
<1>40. CASE StartUp
  BY <1>1, <1>40 DEF StartUp
<1>41. CASE UNCHANGED regVars
  BY <1>1, <1>41 DEF regVars, Owners
<1> QED
  BY <1>2, <1>3, <1>4, <1>5, <1>6, <1>7, <1>8, <1>9, <1>10, <1>11, <1>12, <1>13, <1>14, <1>15, <1>16, <1>17, <1>18, <1>19, <1>20, <1>21, <1>22, <1>23, <1>24, <1>25, <1>26, <1>27, <1>28, <1>29, <1>30, <1>31, <1>32, <1>33, <1>34, <1>35, <1>36, <1>37, <1>38, <1>39, <1>40, <1>41
     DEF RegNext, CreationStep, DeletionStep, UseStep

-----------------------------------------------------------------------------

\* A program that starts for the first time has no instance (lib.rs:533).
LEMMA InitOK == RegInit => IInv
<1> SUFFICES ASSUME RegInit PROVE IInv
  OBVIOUS
<1> USE DEF RegInit
<1>1. RegTypeOK
  BY DEF RegTypeOK, CreationStages, DeletionStages
<1>2. FreshInv /\ DownInv
  BY DEF FreshInv, DownInv
<1>3. PlaceInv /\ GoneInv
  BY RegistryAssumption DEF PlaceInv, GoneInv
<1>4. FilesInv /\ UseInv /\ CreatedIsKept
  BY DEF FilesInv, UseInv, CreatedIsKept, Minecraft, Marked, Configured
<1>5. PortsInv /\ RightsInv
  BY DEF PortsInv, RightsInv, Minecraft
<1> QED
  BY <1>1, <1>2, <1>3, <1>4, <1>5 DEF IInv

\* The inductive invariant of the registry.
THEOREM Inductive == RegSpec => []IInv
<1>1. IInv /\ [RegNext]_regVars => IInv'
  BY TypeStep, FreshStep, PlaceStep, DownStep, FilesStep, UseRegStep, GoneStep, KeptStep,
     PortsStep, RightsStep DEF IInv
<1> QED
  BY InitOK, <1>1, PTL DEF RegSpec

\* The registry keeps its types, for any number of instances, ports and shards.
THEOREM TypeCorrect == RegSpec => []RegTypeOK
<1>1. IInv => RegTypeOK
  BY DEF IInv
<1> QED
  BY Inductive, <1>1, PTL

\* An announced Minecraft instance that nobody deletes is never lost, crashes
\* included (handlers/instance.rs:149, lib.rs:146).
THEOREM NoInstanceIsLost == RegSpec => []CreatedIsKept
<1>1. IInv => CreatedIsKept
  BY DEF IInv
<1> QED
  BY Inductive, <1>1, PTL

\* A deleted instance does not come back (handlers/instance.rs:309-386).
THEOREM DeletionIsFinal == RegSpec => []DeletedStaysGone
<1>1. IInv => DeletedStaysGone
  <2> SUFFICES ASSUME IInv PROVE DeletedStaysGone
    OBVIOUS
  <2>1. RegTypeOK /\ GoneInv
    BY DEF IInv
  <2> QED
    BY <2>1 DEF RegTypeOK, GoneInv, DeletedStaysGone, Minecraft
<1> QED
  BY Inductive, <1>1, PTL

\* The port manager has the ports of the instances and no others
\* (port_manager.rs:49-56).
THEOREM PortsHaveOwners == RegSpec => []PortsAreOwned
<1>1. IInv => PortsAreOwned
  <2> SUFFICES ASSUME IInv PROVE PortsAreOwned
    OBVIOUS
  <2>1. RegTypeOK /\ PortsInv
    BY DEF IInv
  <2> QED
    BY <2>1 DEF RegTypeOK, PortsInv, PortsAreOwned
<1> QED
  BY Inductive, <1>1, PTL

\* A creation's late write of the rights undoes nothing, unless rights changed
\* while it held its copy (handlers/instance.rs:185).
THEOREM RightsSurviveCreation == RegSpec => []RightsAreKept
<1>1. IInv => RightsAreKept
  BY DEF IInv, RightsInv, RightsAreKept
<1> QED
  BY Inductive, <1>1, PTL

\* The port manager's mutex and the registry's shards lock each other only across
\* two instances of one shard (handlers/instance.rs:173, instance_server.rs:44).
THEOREM NoDeadlockAcrossShards == RegSpec => []NoLockCycle
<1>1. IInv => NoLockCycle
  <2> SUFFICES ASSUME IInv, \A i, j \in Ids : i # j => shard[i] # shard[j],
                      NEW i \in Ids, portLock = i,
                      creation[i] = "insert" \/ deletion[i] = "take",
                      NEW j \in Readers(shard[i])
               PROVE  FALSE
    BY DEF NoLockCycle
  <2>1. PlaceInv
    BY DEF IInv
  <2>2. j = i /\ j \in starting
    BY DEF IInv, RegTypeOK, Readers
  <2> QED
    BY <2>1, <2>2 DEF PlaceInv
<1> QED
  BY Inductive, <1>1, PTL
====
