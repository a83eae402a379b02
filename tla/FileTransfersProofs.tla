---- MODULE FileTransfersProofs ----
(***************************************************************************)
(* Proofs about FileTransfers, for any number of operations.               *)
(*                                                                         *)
(* An operation that looked for a free name holds a claim to it until it   *)
(* ends (ClaimInv), so whatever comes into that slot meanwhile came by     *)
(* another claim to it, and the two have met (MeetInv).  A file that met   *)
(* no other is thus never emptied, replaced or removed but by a request    *)
(* that names it (MadeInv).                                                *)
(***************************************************************************)
EXTENDS FileTransfers, FiniteSetTheorems, TLAPS

Stages == {"idle", "asked", "resolved", "writing", "removing", "more", "done", "refused",
           "failed", "dropped", "panicked", "late", "late_remove"}

Before == {"idle", "asked", "resolved", "late"}     \* no file has been made yet

Asked  == {"upload", "global", "copy", "unzip", "zip", "link", "move"}
Named  == {"rename", "new", "write", "remove", "remove_all"}

FsTypeOK ==
  /\ entry \in [Slots -> FileIds \union {NoFile}]
  /\ written \in [FileIds -> SUBSET FileIds]
  /\ form \in [Transfers -> Asked \union Named \union {"none"}]
  /\ stage \in [Transfers -> Stages]
  /\ target \in [Transfers -> Slots]
  /\ source \in [Transfers -> Slots]
  /\ handle \in [Transfers -> FileIds \union {NoFile}]
  /\ chunk \in [Transfers -> {"none", "sent", "flushed", "lost"}]
  /\ progress \in [Transfers -> {"none", "open", "ok", "error"}]
  /\ completed \subseteq FileIds

\* A file is in one slot at most.
OneSlot == \A r, s \in Slots : entry[r] = entry[s] /\ entry[r] # NoFile => r = s

\* An operation has no file before it has created or published it, none that is
\* completed before it has ended it, and no chunk without an open file.
NotMade ==
  \A t \in Transfers :
    /\ stage[t] \in Before => handle[t] = NoFile /\ chunk[t] = "none"
    /\ stage[t] \in Before \union {"writing", "removing", "late_remove"} => t \notin completed
    /\ stage[t] = "writing" => form[t] \in Uploads \union Writes /\ handle[t] # NoFile
    /\ stage[t] = "removing" => form[t] \in Uploads /\ handle[t] # NoFile
    /\ stage[t] = "more" => form[t] \in Several /\ (t \in completed \/ handle[t] # t)
    /\ form[t] \in Tasks => handle[t] = NoFile
    /\ handle[t] = NoFile => chunk[t] = "none"
    /\ t \in completed => handle[t] = t \/ form[t] \in Tasks
    /\ \A s \in Slots : entry[s] = t => handle[t] = t \/ t \in completed

\* Two operations with one slot in mind have been told so.
MeetInv ==
  \A t, u \in Transfers, s \in Slots :
    t # u /\ t \in Claims(s) /\ u \in Claims(s) => t \in contested

\* The slot that was found free holds the operation's own file or a contested one.
ClaimInv ==
  \A t \in Transfers :
    form[t] \in Uploads \union Tasks \union {"move"} /\ stage[t] \in Claiming =>
      entry[target[t]] \in {NoFile, t} \union contested

Untouched(f) == f \notin contested /\ f \notin discarded

\* What an operation writes to that is not its own.
HandleInv ==
  \A t \in Transfers : handle[t] \in {NoFile, t} \/ ~Untouched(handle[t])

\* The file of an operation that writes is there as soon as it has been created.
MadeOf(f) ==
  (stage[f] = "writing" /\ handle[f] = f) \/ f \in completed =>
    /\ \E s \in Slots : entry[s] = f
    /\ written[f] \subseteq {f}
    /\ form[f] \in Tasks \/ chunk[f] = "flushed" => f \in written[f]

MadeInv ==
  /\ Untouched(Old) => written[Old] = {Old} /\ \E s \in Slots : entry[s] = Old
  /\ \A f \in Transfers : Untouched(f) => MadeOf(f)

\* The file of an upload is where it was created, and a failure has none but a
\* completed one.
WhereInv ==
  \A t \in Transfers : t \notin contested =>
    /\ stage[t] \in {"writing", "removing"} => \A s \in Slots : entry[s] = t => s = target[t]
    /\ stage[t] = "failed" /\ t \notin stuck =>
         \A s \in Slots : entry[s] = t => t \in completed

ProgressInv ==
  \A t \in Transfers :
    /\ stage[t] = "idle" => progress[t] = "none"
    /\ form[t] \in Moves => progress[t] = "none"
    /\ stage[t] = "failed" /\ progress[t] = "open" => form[t] = "global"

IInv ==
  /\ FsTypeOK /\ OneSlot /\ NotMade /\ MeetInv /\ ClaimInv /\ HandleInv /\ MadeInv
  /\ WhereInv /\ ProgressInv

-----------------------------------------------------------------------------
(* Free names *)

\* A set of natural numbers that is not empty has a least element.
LEMMA MinIsElement ==
  ASSUME NEW S \in SUBSET Nat, S # {}
  PROVE  Min(S) \in S
<1>1. PICK x \in S : \A y \in S : ~(<<y, x>> \in OpToRel(<, Nat))
  BY NatLessThanWellFounded, WFMin
<1>2. \A y \in S : x <= y
  <2> SUFFICES ASSUME NEW y \in S, y < x PROVE FALSE
    OBVIOUS
  <2>1. <<y, x>> \in OpToRel(<, Nat)
    BY DEF OpToRel
  <2> QED
    BY <1>1, <2>1
<1> QED
  BY <1>2 DEF Min

\* While an operation has made no file there is a free name: there are more slots
\* than other files, and a file is in one of them at most (util.rs:158).
LEMMA FreeSlot ==
  ASSUME IInv, NEW t \in Transfers, stage[t] = "asked"
  PROVE  FirstFree \in Slots /\ entry[FirstFree] = NoFile
<1>1. FsTypeOK /\ OneSlot /\ \A s \in Slots : entry[s] # t
  BY SlotsAssumption DEF IInv, NotMade, Before
<1>2. Free # {}
  <2> SUFFICES ASSUME \A s \in Slots : entry[s] # NoFile PROVE FALSE
    BY DEF Free
  <2> DEFINE Others == FileIds \ {t}
  <2>1. IsFiniteSet(Others) /\ Cardinality(Others) = Cardinality(Transfers)
    <3>1. /\ IsFiniteSet(Transfers) /\ Old \notin Transfers
          /\ Cardinality(Transfers) \in Nat
      BY SlotsAssumption, FS_CardinalityType
    <3>2. /\ IsFiniteSet(Transfers \union {Old})
          /\ Cardinality(Transfers \union {Old}) = Cardinality(Transfers) + 1
      BY <3>1, FS_AddElement
    <3>3. t \in FileIds /\ FileIds = Transfers \union {Old}
      BY DEF FileIds
    <3>4. /\ IsFiniteSet(FileIds \ {t})
          /\ Cardinality(FileIds \ {t}) = Cardinality(FileIds) - 1
      BY <3>2, <3>3, FS_RemoveElement
    <3> QED
      BY <3>1, <3>2, <3>3, <3>4
  <2>2. Cardinality(Slots) = MaxSlot + 1 /\ Cardinality(Transfers) <= MaxSlot
    <3>1. MaxSlot \in Nat /\ 0 \in Int /\ MaxSlot \in Int /\ Cardinality(Transfers) <= MaxSlot
      BY SlotsAssumption
    <3>2. Cardinality(0 .. MaxSlot) = IF 0 > MaxSlot THEN 0 ELSE MaxSlot - 0 + 1
      BY <3>1, FS_Interval
    <3> QED
      BY <3>1, <3>2 DEF Slots
  <2>3. entry \in Injection(Slots, Others)
    <3>1. entry \in [Slots -> Others]
      BY <1>1 DEF FsTypeOK
    <3>2. IsInjective(entry)
      BY <1>1, <3>1 DEF OneSlot, IsInjective
    <3> QED
      BY <3>1, <3>2 DEF Injection
  <2>4. Cardinality(Slots) <= Cardinality(Others)
    <3> HIDE DEF Others
    <3> QED
      BY <2>1, <2>3, FS_Injection
  <2>5. Cardinality(Transfers) \in Nat /\ MaxSlot \in Nat
    BY SlotsAssumption, FS_CardinalityType
  <2> QED
    BY <2>1, <2>2, <2>4, <2>5
<1>3. Free \in SUBSET Nat /\ Free \subseteq Slots
  BY SlotsAssumption DEF Free, Slots
<1>4. FirstFree \in Free
  BY <1>2, <1>3, MinIsElement DEF FirstFree
<1> QED
  BY <1>3, <1>4 DEF Free

-----------------------------------------------------------------------------
(* What a step is *)

Begin(t) ==
  \E f \in Asked, how \in {"none", "open"} :
    /\ Begins(t, f, how)
    /\ f = "move" => how = "none"
    /\ source' \in [Transfers -> Slots]

Name(t) == \E f \in Named, s \in Slots : Names(t, f, s) /\ source' \in [Transfers -> Slots]

\* An operation goes on or ends and leaves the files as they are.
Quits(t) ==
  /\ \E to \in Stages \ {"idle", "asked", "resolved", "writing", "more"},
        how \in {"none", "open", "ok", "error"} :
       /\ stage' = [stage EXCEPT ![t] = to]
       /\ progress' = [progress EXCEPT ![t] = how]
       /\ to = "removing" => stage[t] = "writing" /\ form[t] \in Uploads
       /\ to = "late" => stage[t] = "resolved"
       /\ to = "late_remove" => stage[t] = "removing"
       /\ to = "failed" =>
            /\ stage[t] \in {"asked", "resolved", "more"}
            /\ how = "error" \/ form[t] = "global"
       /\ form[t] \in Moves => how = progress[t]
  /\ stage[t] # "idle"
  /\ UNCHANGED <<entry, written, form, target, source, handle, chunk, completed, contested,
                 discarded, stuck>>

\* The file of slot r gets to the slot of t.
Moved(t, r) ==
  /\ r \in Slots /\ r # target[t] /\ entry[r] # NoFile
  /\ entry' = [s \in Slots |-> IF s = target[t] THEN entry[r]
                               ELSE IF s = r THEN NoFile ELSE entry[s]]
  /\ contested' = IF t \in contested \/ UnderWay(entry[r]) THEN contested \union {entry[r]}
                  ELSE contested
  /\ discarded' = IF form[t] = "rename" THEN discarded \union ({entry[target[t]]} \ {NoFile})
                  ELSE discarded

Moving(t) ==
  /\ form[t] \in Moves
  /\ \/ \E to \in {"failed", "done"} : Goes(t, "resolved", to)
     \/ Goes(t, "late", "dropped")
  /\ UNCHANGED <<entry, contested, discarded>> \/ \E r \in Slots : Moved(t, r)
  /\ UNCHANGED <<written, form, target, source, handle, chunk, progress, completed, stuck>>

\* A move takes one file from one slot to another (handlers/instance_fs.rs:450).
LEMMA MoveFileMoves ==
  ASSUME FsTypeOK, NEW t \in Transfers, MoveFile(t)
  PROVE  Moving(t)
<1>1. /\ entry \in [Slots -> FileIds \union {NoFile}]
      /\ source[t] \in Slots /\ target[t] \in Slots
  BY DEF FsTypeOK
<1>2. CASE entry[source[t]] = NoFile \/ source[t] = target[t]
  BY <1>2 DEF MoveFile, Moving
<1>3. CASE ~(entry[source[t]] = NoFile \/ source[t] = target[t])
  <2>1. entry' = [entry EXCEPT ![source[t]] = NoFile, ![target[t]] = entry[source[t]]]
    BY <1>3 DEF MoveFile
  <2>2. entry' = [s \in Slots |-> IF s = target[t] THEN entry[source[t]]
                                 ELSE IF s = source[t] THEN NoFile ELSE entry[s]]
    BY <1>1, <1>3, <2>1
  <2>3. Moved(t, source[t])
    BY <1>1, <1>3, <2>2 DEF MoveFile, Moved
  <2> QED
    BY <1>1, <2>3 DEF MoveFile, Moving
<1> QED
  BY <1>2, <1>3

\* Every operation takes one of these steps.
LEMMA Shapes ==
  ASSUME IInv, [FsNext]_fsVars
  PROVE  \/ \E t \in Transfers :
              \/ Begin(t) \/ Name(t) \/ Resolve(t) \/ CreateFile(t) \/ WriteChunk(t)
              \/ FlushChunk(t) \/ RemovePart(t) \/ EndUpload(t) \/ Quits(t) \/ Publish(t)
              \/ Moving(t) \/ Erase(t)
         \/ UNCHANGED fsVars
<1>1. FsTypeOK /\ NotMade
  BY DEF IInv
<1>2. ASSUME NEW t \in Transfers,
             \/ UploadInstanceFile(t) \/ UploadFile(t) \/ CopyInstanceFiles(t)
             \/ UnzipInstanceFile(t) \/ ZipInstanceFiles(t) \/ GetInstanceFileUrl(t)
             \/ \E s \in Slots : MoveInstanceFile(t, s)
      PROVE  Begin(t)
  BY <1>1, <1>2 DEF FsTypeOK, UploadInstanceFile, UploadFile, CopyInstanceFiles,
     UnzipInstanceFile,
              ZipInstanceFiles, GetInstanceFileUrl, MoveInstanceFile, Begin, Asked
<1>3. ASSUME NEW t \in Transfers, NEW s \in Slots,
             \/ NewFile(t, s) \/ WriteFile(t, s) \/ RemoveFile(t, s)
             \/ \E from \in Slots : RenameFile(t, from, s)
      PROVE  Name(t)
  BY <1>1, <1>3 DEF FsTypeOK, NewFile, WriteFile, RemoveFile, RenameFile, Name, Named
<1>4. ASSUME NEW t \in Transfers, RemoveInstanceDir(t) PROVE Name(t)
  BY <1>1, <1>4, SlotsAssumption DEF FsTypeOK, RemoveInstanceDir, Name, Named, Slots
<1> USE DEF Quits, Goes, Finish, FsTypeOK, StaysAsIs, Moves
<1>5. ASSUME NEW t \in Transfers, NoMoreFields(t) PROVE Quits(t)
  BY <1>1, <1>5 DEF NoMoreFields, Uploads, Stages
<1>6. ASSUME NEW t \in Transfers, Refuse(t) PROVE Quits(t)
  BY <1>1, <1>6 DEF Refuse, Uploads, Stages
<1>7. ASSUME NEW t \in Transfers, ChunkFails(t) PROVE Quits(t)
  BY <1>1, <1>7 DEF ChunkFails, Stages, Uploads
<1>8. ASSUME NEW t \in Transfers, HangUp(t) PROVE Quits(t)
  BY <1>1, <1>8 DEF HangUp, Stages
<1>9. ASSUME NEW t \in Transfers, OthersFail(t) PROVE Quits(t)
  BY <1>1, <1>9 DEF OthersFail, Concludes, Stages, Uploads, Tasks
<1>10. ASSUME NEW t \in Transfers, OthersEnd(t) PROVE Quits(t)
  BY <1>1, <1>10 DEF OthersEnd, Concludes, Stages, NotMade, Several, Uploads
<1>11. ASSUME NEW t \in Transfers, BuildFails(t) \/ LinkReady(t) PROVE Quits(t)
  BY <1>1, <1>11 DEF BuildFails, LinkReady, Stages, Tasks
<1>12. ASSUME NEW t \in Transfers, PublishFails(t) PROVE Quits(t)
  BY <1>1, <1>12 DEF PublishFails, Concludes, Stages, Tasks
<1>13. ASSUME NEW t \in Transfers, CopyPanics(t) PROVE Quits(t)
  BY <1>1, <1>13 DEF CopyPanics, Stages
<1>14. ASSUME NEW t \in Transfers, MoveFile(t) PROVE Moving(t)
  BY <1>1, <1>14, MoveFileMoves
<1>15. ASSUME NEW t \in Transfers, FsStep(t)
       PROVE  \/ Begin(t) \/ Name(t) \/ Resolve(t) \/ CreateFile(t) \/ WriteChunk(t)
              \/ FlushChunk(t) \/ RemovePart(t) \/ EndUpload(t) \/ Quits(t) \/ Publish(t)
              \/ Moving(t) \/ Erase(t)
  BY <1>2, <1>3, <1>4, <1>5, <1>6, <1>7, <1>8, <1>9, <1>10, <1>11, <1>12, <1>13, <1>14, <1>15
  DEF FsStep
<1> QED
  BY <1>15 DEF FsNext

\* Every step keeps the types.
LEMMA TypeStep ==
  ASSUME IInv, [FsNext]_fsVars
  PROVE  FsTypeOK'
<1>1. FsTypeOK /\ NotMade
  BY DEF IInv
<1>2. Old \notin Transfers /\ NoFile \notin Transfers /\ NoFile # Old
  BY SlotsAssumption DEF Old, NoFile
<1> USE DEF FsTypeOK, Stages, FileIds
<1>3. ASSUME NEW t \in Transfers, Begin(t) PROVE FsTypeOK'
  <2>1. PICK f \in Asked, how \in {"none", "open"} :
          Begins(t, f, how) /\ source' \in [Transfers -> Slots]
    BY <1>3 DEF Begin
  <2>2. form' \in [Transfers -> Asked \union Named \union {"none"}]
    BY <1>1, <2>1 DEF Begins
  <2>3. stage' \in [Transfers -> Stages] /\ progress' \in [Transfers -> {"none", "open", "ok", "error"}]
    BY <1>1, <2>1 DEF Begins, Goes, Finish
  <2> QED
    BY <1>1, <2>1, <2>2, <2>3 DEF Begins
<1>4. ASSUME NEW t \in Transfers, Name(t) PROVE FsTypeOK'
  <2>1. PICK f \in Named, s \in Slots : Names(t, f, s) /\ source' \in [Transfers -> Slots]
    BY <1>4 DEF Name
  <2>2. form' \in [Transfers -> Asked \union Named \union {"none"}]
    BY <1>1, <2>1 DEF Names
  <2>3. stage' \in [Transfers -> Stages] /\ target' \in [Transfers -> Slots]
    BY <1>1, <2>1 DEF Names, Goes, Claim
  <2> QED
    BY <1>1, <2>1, <2>2, <2>3 DEF Names
<1>5. ASSUME NEW t \in Transfers, Resolve(t) PROVE FsTypeOK'
  BY <1>1, <1>2, <1>5, FreeSlot DEF Resolve, Goes, Claim
<1>6. ASSUME NEW t \in Transfers, CreateFile(t) PROVE FsTypeOK'
  BY <1>1, <1>2, <1>6 DEF CreateFile, Goes
<1>7. ASSUME NEW t \in Transfers, WriteChunk(t) PROVE FsTypeOK'
  BY <1>1, <1>2, <1>7 DEF WriteChunk
<1>8. ASSUME NEW t \in Transfers, FlushChunk(t) PROVE FsTypeOK'
  BY <1>1, <1>2, <1>8 DEF FlushChunk
<1>9. ASSUME NEW t \in Transfers, RemovePart(t) PROVE FsTypeOK'
  BY <1>1, <1>2, <1>9 DEF RemovePart, Goes, Finish
<1>10. ASSUME NEW t \in Transfers, EndUpload(t) PROVE FsTypeOK'
  BY <1>1, <1>2, <1>10 DEF EndUpload, Goes, Finish
<1>11. ASSUME NEW t \in Transfers, Quits(t) PROVE FsTypeOK'
  BY <1>1, <1>2, <1>11 DEF Quits
<1>12. ASSUME NEW t \in Transfers, Publish(t) PROVE FsTypeOK'
  BY <1>1, <1>2, <1>12 DEF Publish, Concludes, Goes, Finish, Several
<1>13. ASSUME NEW t \in Transfers, Moving(t) PROVE FsTypeOK'
  BY <1>1, <1>2, <1>13 DEF Moving, Moved, Goes, UnderWay
<1>14. ASSUME NEW t \in Transfers, Erase(t) PROVE FsTypeOK'
  BY <1>1, <1>2, <1>14 DEF Erase, Goes
<1>15. CASE UNCHANGED fsVars
  BY <1>1, <1>15 DEF fsVars
<1> QED
  BY <1>3, <1>4, <1>5, <1>6, <1>7, <1>8, <1>9, <1>10, <1>11, <1>12, <1>13, <1>14, <1>15, Shapes

\* A file enters a slot when it is made, and leaves one for another when it is
\* moved.
LEMMA OneSlotStep ==
  ASSUME IInv, [FsNext]_fsVars
  PROVE  OneSlot'
<1>1. FsTypeOK /\ OneSlot /\ NotMade
  BY DEF IInv
<1>2. Old \notin Transfers /\ NoFile \notin Transfers /\ NoFile # Old
  BY SlotsAssumption DEF Old, NoFile
<1> USE DEF FsTypeOK, OneSlot, NotMade, Before, FileIds
<1>3. ASSUME NEW t \in Transfers, Begin(t) PROVE OneSlot'
  BY <1>1, <1>2, <1>3 DEF Begin, Begins, Goes, Finish, Asked
<1>4. ASSUME NEW t \in Transfers, Name(t) PROVE OneSlot'
  BY <1>1, <1>2, <1>4 DEF Name, Names, Goes, Claim, Named
<1>5. ASSUME NEW t \in Transfers, Resolve(t) PROVE OneSlot'
  BY <1>1, <1>2, <1>5, FreeSlot DEF Resolve, Goes, Claim
<1>6. ASSUME NEW t \in Transfers, CreateFile(t) PROVE OneSlot'
  BY <1>1, <1>2, <1>6 DEF CreateFile, Goes
<1>7. ASSUME NEW t \in Transfers, WriteChunk(t) PROVE OneSlot'
  BY <1>1, <1>2, <1>7 DEF WriteChunk
<1>8. ASSUME NEW t \in Transfers, FlushChunk(t) PROVE OneSlot'
  BY <1>1, <1>2, <1>8 DEF FlushChunk
<1>9. ASSUME NEW t \in Transfers, RemovePart(t) PROVE OneSlot'
  BY <1>1, <1>2, <1>9 DEF RemovePart, Goes, Finish
<1>10. ASSUME NEW t \in Transfers, EndUpload(t) PROVE OneSlot'
  BY <1>1, <1>2, <1>10 DEF EndUpload, Goes, Finish
<1>11. ASSUME NEW t \in Transfers, Quits(t) PROVE OneSlot'
  BY <1>1, <1>2, <1>11 DEF Quits
<1>12. ASSUME NEW t \in Transfers, Publish(t) PROVE OneSlot'
  BY <1>1, <1>2, <1>12 DEF Publish, Concludes, Goes, Finish, Several
<1>13. ASSUME NEW t \in Transfers, Moving(t) PROVE OneSlot'
  BY <1>1, <1>2, <1>13 DEF Moving, Moved, Goes, UnderWay
<1>14. ASSUME NEW t \in Transfers, Erase(t) PROVE OneSlot'
  BY <1>1, <1>2, <1>14 DEF Erase, Goes
<1>15. CASE UNCHANGED fsVars
  BY <1>1, <1>15 DEF fsVars
<1> QED
  BY <1>3, <1>4, <1>5, <1>6, <1>7, <1>8, <1>9, <1>10, <1>11, <1>12, <1>13, <1>14, <1>15, Shapes

\* An operation creates or publishes its own file and no other's.
LEMMA NotMadeStep ==
  ASSUME IInv, [FsNext]_fsVars
  PROVE  NotMade'
<1>1. FsTypeOK /\ NotMade
  BY DEF IInv
<1>2. Old \notin Transfers /\ NoFile \notin Transfers /\ NoFile # Old
  BY SlotsAssumption DEF Old, NoFile
<1> USE DEF FsTypeOK, NotMade, Before, Several, Stages, FileIds, Uploads, Writes, Tasks, Moves, Erasures
<1>3. ASSUME NEW t \in Transfers, Begin(t) PROVE NotMade'
  BY <1>1, <1>2, <1>3 DEF Begin, Begins, Goes, Finish, Asked
<1>4. ASSUME NEW t \in Transfers, Name(t) PROVE NotMade'
  BY <1>1, <1>2, <1>4 DEF Name, Names, Goes, Claim, Named
<1>5. ASSUME NEW t \in Transfers, Resolve(t) PROVE NotMade'
  BY <1>1, <1>2, <1>5, FreeSlot DEF Resolve, Goes, Claim
<1>6. ASSUME NEW t \in Transfers, CreateFile(t) PROVE NotMade'
  BY <1>1, <1>2, <1>6 DEF CreateFile, Goes
<1>7. ASSUME NEW t \in Transfers, WriteChunk(t) PROVE NotMade'
  BY <1>1, <1>2, <1>7 DEF WriteChunk
<1>8. ASSUME NEW t \in Transfers, FlushChunk(t) PROVE NotMade'
  BY <1>1, <1>2, <1>8 DEF FlushChunk
<1>9. ASSUME NEW t \in Transfers, RemovePart(t) PROVE NotMade'
  BY <1>1, <1>2, <1>9 DEF RemovePart, Goes, Finish
<1>10. ASSUME NEW t \in Transfers, EndUpload(t) PROVE NotMade'
  <2>1. /\ stage[t] = "writing" /\ handle[t] # NoFile /\ form[t] \notin Tasks
        /\ \/ stage' = [stage EXCEPT ![t] = "done"]
           \/ stage' = [stage EXCEPT ![t] = "more"] /\ form[t] \in Uploads
        /\ completed' = completed \union ({t} \intersect {handle[t]})
        /\ UNCHANGED <<entry, form, handle, chunk>>
    BY <1>1, <1>2, <1>10 DEF EndUpload, Goes
  <2>2. completed' = IF handle[t] = t THEN completed \union {t} ELSE completed
    BY <2>1
  <2> QED
    BY <1>1, <1>2, <2>1, <2>2
<1>11. ASSUME NEW t \in Transfers, Quits(t) PROVE NotMade'
  BY <1>1, <1>2, <1>11 DEF Quits
<1>12. ASSUME NEW t \in Transfers, Publish(t) PROVE NotMade'
  BY <1>1, <1>2, <1>12 DEF Publish, Concludes, Goes, Finish, Several
<1>13. ASSUME NEW t \in Transfers, Moving(t) PROVE NotMade'
  BY <1>1, <1>2, <1>13 DEF Moving, Moved, Goes, UnderWay
<1>14. ASSUME NEW t \in Transfers, Erase(t) PROVE NotMade'
  BY <1>1, <1>2, <1>14 DEF Erase, Goes
<1>15. CASE UNCHANGED fsVars
  BY <1>1, <1>15 DEF fsVars
<1> QED
  BY <1>3, <1>4, <1>5, <1>6, <1>7, <1>8, <1>9, <1>10, <1>11, <1>12, <1>13, <1>14, <1>15, Shapes

\* Whoever gets a slot in mind tells those who have it (resolve_path_conflict does
\* not, which is why their files are contested).
LEMMA MeetStep ==
  ASSUME IInv, [FsNext]_fsVars
  PROVE  MeetInv'
<1>1. FsTypeOK /\ MeetInv
  BY DEF IInv
<1>2. Old \notin Transfers /\ NoFile \notin Transfers /\ NoFile # Old
  BY SlotsAssumption DEF Old, NoFile
<1> USE DEF FsTypeOK, MeetInv, Claims, Claiming, Stages
<1>3. ASSUME NEW t \in Transfers, Begin(t) PROVE MeetInv'
  BY <1>1, <1>2, <1>3 DEF Begin, Begins, Goes, Finish, Asked
<1>4. ASSUME NEW t \in Transfers, Name(t) PROVE MeetInv'
  BY <1>1, <1>2, <1>4 DEF Name, Names, Goes, Claim, Named
<1>5. ASSUME NEW t \in Transfers, Resolve(t) PROVE MeetInv'
  BY <1>1, <1>2, <1>5, FreeSlot DEF Resolve, Goes, Claim
<1>6. ASSUME NEW t \in Transfers, CreateFile(t) PROVE MeetInv'
  BY <1>1, <1>2, <1>6 DEF CreateFile, Goes
<1>7. ASSUME NEW t \in Transfers, WriteChunk(t) PROVE MeetInv'
  BY <1>1, <1>2, <1>7 DEF WriteChunk
<1>8. ASSUME NEW t \in Transfers, FlushChunk(t) PROVE MeetInv'
  BY <1>1, <1>2, <1>8 DEF FlushChunk
<1>9. ASSUME NEW t \in Transfers, RemovePart(t) PROVE MeetInv'
  BY <1>1, <1>2, <1>9 DEF RemovePart, Goes, Finish
<1>10. ASSUME NEW t \in Transfers, EndUpload(t) PROVE MeetInv'
  BY <1>1, <1>2, <1>10 DEF EndUpload, Goes, Finish
<1>11. ASSUME NEW t \in Transfers, Quits(t) PROVE MeetInv'
  BY <1>1, <1>2, <1>11 DEF Quits
<1>12. ASSUME NEW t \in Transfers, Publish(t) PROVE MeetInv'
  BY <1>1, <1>2, <1>12 DEF Publish, Concludes, Goes, Finish, Several
<1>13. ASSUME NEW t \in Transfers, Moving(t) PROVE MeetInv'
  BY <1>1, <1>2, <1>13 DEF Moving, Moved, Goes, UnderWay
<1>14. ASSUME NEW t \in Transfers, Erase(t) PROVE MeetInv'
  BY <1>1, <1>2, <1>14 DEF Erase, Goes
<1>15. CASE UNCHANGED fsVars
  BY <1>1, <1>15 DEF fsVars
<1> QED
  BY <1>3, <1>4, <1>5, <1>6, <1>7, <1>8, <1>9, <1>10, <1>11, <1>12, <1>13, <1>14, <1>15, Shapes

\* What comes into a slot that was found free is contested (util.rs:158).
LEMMA ClaimStep ==
  ASSUME IInv, [FsNext]_fsVars
  PROVE  ClaimInv'
<1>1. FsTypeOK /\ NotMade /\ MeetInv /\ ClaimInv
  BY DEF IInv
<1>2. Old \notin Transfers /\ NoFile \notin Transfers /\ NoFile # Old
  BY SlotsAssumption DEF Old, NoFile
<1> USE DEF FsTypeOK, NotMade, Before, MeetInv, ClaimInv, Claims, Claiming, FileIds, Uploads, Writes, Tasks, Moves, Erasures
<1>3. ASSUME NEW t \in Transfers, Begin(t) PROVE ClaimInv'
  BY <1>1, <1>2, <1>3 DEF Begin, Begins, Goes, Finish, Asked
<1>4. ASSUME NEW t \in Transfers, Name(t) PROVE ClaimInv'
  BY <1>1, <1>2, <1>4 DEF Name, Names, Goes, Claim, Named
<1>5. ASSUME NEW t \in Transfers, Resolve(t) PROVE ClaimInv'
  BY <1>1, <1>2, <1>5, FreeSlot DEF Resolve, Goes, Claim
<1>6. ASSUME NEW t \in Transfers, CreateFile(t) PROVE ClaimInv'
  BY <1>1, <1>2, <1>6 DEF CreateFile, Goes
<1>7. ASSUME NEW t \in Transfers, WriteChunk(t) PROVE ClaimInv'
  BY <1>1, <1>2, <1>7 DEF WriteChunk
<1>8. ASSUME NEW t \in Transfers, FlushChunk(t) PROVE ClaimInv'
  BY <1>1, <1>2, <1>8 DEF FlushChunk
<1>9. ASSUME NEW t \in Transfers, RemovePart(t) PROVE ClaimInv'
  BY <1>1, <1>2, <1>9 DEF RemovePart, Goes, Finish
<1>10. ASSUME NEW t \in Transfers, EndUpload(t) PROVE ClaimInv'
  BY <1>1, <1>2, <1>10 DEF EndUpload, Goes, Finish
<1>11. ASSUME NEW t \in Transfers, Quits(t) PROVE ClaimInv'
  BY <1>1, <1>2, <1>11 DEF Quits
<1>12. ASSUME NEW t \in Transfers, Publish(t) PROVE ClaimInv'
  BY <1>1, <1>2, <1>12 DEF Publish, Concludes, Goes, Finish, Several
<1>13. ASSUME NEW t \in Transfers, Moving(t) PROVE ClaimInv'
  BY <1>1, <1>2, <1>13 DEF Moving, Moved, Goes, UnderWay
<1>14. ASSUME NEW t \in Transfers, Erase(t) PROVE ClaimInv'
  BY <1>1, <1>2, <1>14 DEF Erase, Goes
<1>15. CASE UNCHANGED fsVars
  BY <1>1, <1>15 DEF fsVars
<1> QED
  BY <1>3, <1>4, <1>5, <1>6, <1>7, <1>8, <1>9, <1>10, <1>11, <1>12, <1>13, <1>14, <1>15, Shapes

\* An upload that found its slot taken writes to a contested file.
LEMMA HandleStep ==
  ASSUME IInv, [FsNext]_fsVars
  PROVE  HandleInv'
<1>1. FsTypeOK /\ NotMade /\ ClaimInv /\ HandleInv
  BY DEF IInv
<1>2. Old \notin Transfers /\ NoFile \notin Transfers /\ NoFile # Old
  BY SlotsAssumption DEF Old, NoFile
<1> USE DEF FsTypeOK, NotMade, Before, ClaimInv, Claiming, HandleInv, Untouched, FileIds, Uploads, Writes, Tasks, Moves
<1>3. ASSUME NEW t \in Transfers, Begin(t) PROVE HandleInv'
  BY <1>1, <1>2, <1>3 DEF Begin, Begins, Goes, Finish, Asked
<1>4. ASSUME NEW t \in Transfers, Name(t) PROVE HandleInv'
  BY <1>1, <1>2, <1>4 DEF Name, Names, Goes, Claim, Named
<1>5. ASSUME NEW t \in Transfers, Resolve(t) PROVE HandleInv'
  BY <1>1, <1>2, <1>5, FreeSlot DEF Resolve, Goes, Claim
<1>6. ASSUME NEW t \in Transfers, CreateFile(t) PROVE HandleInv'
  BY <1>1, <1>2, <1>6 DEF CreateFile, Goes
<1>7. ASSUME NEW t \in Transfers, WriteChunk(t) PROVE HandleInv'
  BY <1>1, <1>2, <1>7 DEF WriteChunk
<1>8. ASSUME NEW t \in Transfers, FlushChunk(t) PROVE HandleInv'
  BY <1>1, <1>2, <1>8 DEF FlushChunk
<1>9. ASSUME NEW t \in Transfers, RemovePart(t) PROVE HandleInv'
  BY <1>1, <1>2, <1>9 DEF RemovePart, Goes, Finish
<1>10. ASSUME NEW t \in Transfers, EndUpload(t) PROVE HandleInv'
  BY <1>1, <1>2, <1>10 DEF EndUpload, Goes, Finish
<1>11. ASSUME NEW t \in Transfers, Quits(t) PROVE HandleInv'
  BY <1>1, <1>2, <1>11 DEF Quits
<1>12. ASSUME NEW t \in Transfers, Publish(t) PROVE HandleInv'
  BY <1>1, <1>2, <1>12 DEF Publish, Concludes, Goes, Finish, Several
<1>13. ASSUME NEW t \in Transfers, Moving(t) PROVE HandleInv'
  BY <1>1, <1>2, <1>13 DEF Moving, Moved, Goes, UnderWay
<1>14. ASSUME NEW t \in Transfers, Erase(t) PROVE HandleInv'
  BY <1>1, <1>2, <1>14 DEF Erase, Goes
<1>15. CASE UNCHANGED fsVars
  BY <1>1, <1>15 DEF fsVars
<1> QED
  BY <1>3, <1>4, <1>5, <1>6, <1>7, <1>8, <1>9, <1>10, <1>11, <1>12, <1>13, <1>14, <1>15, Shapes

\* File::create makes an operation's own file, or empties one that is contested or
\* was named by the request (handlers/global_fs.rs:527).
LEMMA CreateKeepsMade ==
  ASSUME IInv, NEW t \in Transfers, CreateFile(t)
  PROVE  MadeInv'
<1> DEFINE there == entry[target[t]]
<1>1. FsTypeOK /\ NotMade /\ ClaimInv /\ MadeInv
  BY DEF IInv
<1>2. Old \notin Transfers /\ NoFile \notin Transfers /\ NoFile # Old
  BY SlotsAssumption DEF Old, NoFile
<1>3. /\ target[t] \in Slots /\ there \in FileIds \union {NoFile}
      /\ form[t] \in Uploads \union Writes /\ stage[t] \in {"resolved", "late"}
      /\ t \notin completed /\ handle[t] = NoFile /\ chunk[t] = "none"
      /\ \A s \in Slots : entry[s] # t
  BY <1>1, <1>2 DEF FsTypeOK, NotMade, Before, CreateFile, Goes
<1>4. /\ stage' \in {[stage EXCEPT ![t] = "writing"], [stage EXCEPT ![t] = "dropped"]}
      /\ form' = form /\ contested' = contested /\ completed' = completed /\ chunk' = chunk
      /\ entry \in [Slots -> FileIds \union {NoFile}] /\ written \in [FileIds -> SUBSET FileIds]
      /\ handle \in [Transfers -> FileIds \union {NoFile}] /\ stage \in [Transfers -> Stages]
  BY <1>1 DEF FsTypeOK, CreateFile, Goes
<1>5. CASE there = NoFile
  <2>1. /\ entry' = [entry EXCEPT ![target[t]] = t] /\ handle' = [handle EXCEPT ![t] = t]
        /\ \E bytes \in {{}, {t}} : written' = [written EXCEPT ![t] = bytes]
        /\ discarded' = discarded
    BY <1>3, <1>5 DEF CreateFile
  <2>2. \A f \in FileIds : f # t =>
          /\ written'[f] = written[f]
          /\ (\E s \in Slots : entry[s] = f) => \E s \in Slots : entry'[s] = f
    BY <1>2, <1>3, <1>4, <1>5, <2>1 DEF FileIds
  <2>3. MadeOf(t)'
    BY <1>3, <1>4, <2>1 DEF MadeOf, FileIds, Uploads, Writes, Tasks
  <2>4. ASSUME NEW f \in Transfers, f # t, MadeOf(f) PROVE MadeOf(f)'
    <3>1. f \in FileIds /\ stage'[f] = stage[f] /\ handle'[f] = handle[f] /\ form'[f] = form[f]
      BY <1>4, <2>1, <2>4 DEF FileIds
    <3> QED
      BY <1>4, <2>2, <2>4, <3>1 DEF MadeOf
  <2>5. Old \in FileIds /\ Old # t
    BY <1>2 DEF FileIds
  <2> QED
    BY <1>1, <1>4, <2>1, <2>2, <2>3, <2>4, <2>5 DEF MadeInv, Untouched
<1>6. CASE there # NoFile
  <2>1. /\ entry' = entry /\ handle' = [handle EXCEPT ![t] = there]
        /\ \E bytes \in {{}, {t}} : written' = [written EXCEPT ![there] = bytes]
        /\ discarded \subseteq discarded'
        /\ form[t] \in Writes => there \in discarded'
    BY <1>3, <1>4, <1>6 DEF CreateFile
  <2>2. there \in contested \/ there \in discarded'
    BY <1>1, <1>3, <1>6, <2>1 DEF ClaimInv, Claiming, Uploads, Writes
  <2>3. there \in FileIds /\ there # t
    BY <1>3, <1>6
  <2>4. \A f \in FileIds : f # there => written'[f] = written[f]
    BY <1>4, <2>1
  <2>5. ASSUME NEW f \in Transfers, f # there, MadeOf(f) PROVE MadeOf(f)'
    <3>1. f \in FileIds /\ form'[f] = form[f]
      BY <1>4 DEF FileIds
    <3>2. CASE f = t
      BY <1>3, <1>4, <2>1, <2>3, <3>2 DEF MadeOf
    <3>3. CASE f # t
      <4>1. stage'[f] = stage[f] /\ handle'[f] = handle[f]
        BY <1>4, <2>1, <3>3
      <4> QED
        BY <1>4, <2>1, <2>4, <2>5, <3>1, <4>1 DEF MadeOf
    <3> QED
      BY <3>2, <3>3
  <2>6. Old \in FileIds
    BY DEF FileIds
  <2> QED
    BY <1>1, <1>4, <2>1, <2>2, <2>4, <2>5, <2>6 DEF MadeInv, Untouched
<1> QED
  BY <1>5, <1>6

\* A chunk gets to the operation's own file or to one that others lost
\* (handlers/instance_fs.rs:800).
LEMMA ChunkKeepsMade ==
  ASSUME IInv, NEW t \in Transfers, FlushChunk(t)
  PROVE  MadeInv'
<1> DEFINE h == handle[t]
<1>1. FsTypeOK /\ NotMade /\ HandleInv /\ MadeInv
  BY DEF IInv
<1>2. Old \notin Transfers /\ NoFile \notin Transfers /\ NoFile # Old
  BY SlotsAssumption DEF Old, NoFile
<1>3. /\ chunk[t] = "sent" /\ h \in FileIds
      /\ \/ chunk' = [chunk EXCEPT ![t] = "lost"] /\ written' = written
         \/ /\ chunk' = [chunk EXCEPT ![t] = "flushed"]
            /\ written' = [written EXCEPT ![h] = written[h] \union {t}]
      /\ written \in [FileIds -> SUBSET FileIds]
      /\ chunk \in [Transfers -> {"none", "sent", "flushed", "lost"}]
      /\ UNCHANGED <<entry, form, stage, handle, completed, contested, discarded>>
  BY <1>1 DEF FsTypeOK, NotMade, FlushChunk
<1>4. \A f \in FileIds : f # h => written'[f] = written[f]
  BY <1>3
<1>5. CASE h = t
  <2>1. MadeOf(t) => MadeOf(t)'
    <3>1. t \in FileIds /\ form[t] \notin Tasks
      BY <1>1, <1>2, <1>3, <1>5 DEF FileIds, NotMade
    <3> QED
      BY <1>3, <1>5, <3>1 DEF MadeOf
  <2>2. ASSUME NEW f \in Transfers, f # t PROVE MadeOf(f) => MadeOf(f)'
    BY <1>3, <1>4, <1>5, <2>2 DEF MadeOf, FileIds
  <2>3. written'[Old] = written[Old]
    BY <1>2, <1>4, <1>5 DEF FileIds
  <2> QED
    BY <1>1, <1>3, <2>1, <2>2, <2>3 DEF MadeInv, Untouched
<1>6. CASE h # t
  <2>1. ~Untouched(h)
    BY <1>1, <1>2, <1>3, <1>6 DEF HandleInv, FileIds
  <2>2. ASSUME NEW f \in Transfers, f # h PROVE MadeOf(f) => MadeOf(f)'
    <3>1. handle[f] # f /\ f = t /\ f \in completed => form[f] \in Tasks
      BY <1>1 DEF NotMade
    <3>2. form[t] \notin Tasks
      BY <1>1, <1>3, <1>2 DEF NotMade, FileIds
    <3> QED
      BY <1>3, <1>4, <1>6, <2>2, <3>1, <3>2 DEF MadeOf, FileIds
  <2>3. Old # h => written'[Old] = written[Old]
    BY <1>4 DEF FileIds
  <2> QED
    BY <1>1, <1>3, <2>1, <2>2, <2>3 DEF MadeInv, Untouched
<1> QED
  BY <1>5, <1>6

\* A rename makes an operation's own file and replaces none that is not contested
\* (util.rs:291).
LEMMA PublishKeepsMade ==
  ASSUME IInv, NEW t \in Transfers, Publish(t)
  PROVE  MadeInv'
<1> DEFINE there == entry[target[t]]
<1>1. FsTypeOK /\ NotMade /\ ClaimInv /\ MadeInv
  BY DEF IInv
<1>2. Old \notin Transfers /\ NoFile \notin Transfers /\ NoFile # Old
  BY SlotsAssumption DEF Old, NoFile
<1>3. /\ target[t] \in Slots /\ there \in FileIds \union {NoFile}
      /\ form[t] \in Tasks /\ stage[t] = "resolved"
      /\ entry' = [entry EXCEPT ![target[t]] = t]
      /\ written' = [written EXCEPT ![t] = {t}]
      /\ stage' \in {[stage EXCEPT ![t] = "done"], [stage EXCEPT ![t] = "panicked"],
                     [stage EXCEPT ![t] = "more"]}
      /\ completed' = completed \union {t}
      /\ entry \in [Slots -> FileIds \union {NoFile}] /\ written \in [FileIds -> SUBSET FileIds]
      /\ stage \in [Transfers -> Stages]
      /\ UNCHANGED <<form, handle, chunk, contested, discarded>>
  BY <1>1 DEF FsTypeOK, Publish, Concludes, Goes
<1>4. there \in {NoFile, t} \union contested
  BY <1>1, <1>3 DEF ClaimInv, Claiming
<1>5. \A f \in FileIds : f # t =>
        /\ written'[f] = written[f]
        /\ f # there /\ (\E s \in Slots : entry[s] = f) => \E s \in Slots : entry'[s] = f
  BY <1>3 DEF FileIds
<1>6. MadeOf(t)'
  <2>1. entry'[target[t]] = t /\ written'[t] = {t}
    BY <1>3 DEF FileIds
  <2> QED
    BY <1>3, <2>1 DEF MadeOf
<1>7. ASSUME NEW f \in Transfers, f # t, f # there, MadeOf(f) PROVE MadeOf(f)'
  <2>1. f \in FileIds /\ stage'[f] = stage[f]
    BY <1>3, <1>7 DEF FileIds
  <2> QED
    BY <1>3, <1>5, <1>7, <2>1 DEF MadeOf
<1>8. Old \in FileIds /\ Old # t /\ NoFile \notin Transfers /\ Old # NoFile
  BY <1>2 DEF FileIds
<1> QED
  BY <1>1, <1>3, <1>4, <1>5, <1>6, <1>7, <1>8 DEF MadeInv, Untouched

\* A file that is neither contested nor discarded keeps its slot, or gets another
\* by a move, and its bytes.
LEMMA MadeStep ==
  ASSUME IInv, [FsNext]_fsVars
  PROVE  MadeInv'
<1>1. FsTypeOK /\ OneSlot /\ NotMade /\ ClaimInv /\ HandleInv /\ MadeInv
  BY DEF IInv
<1>2. Old \notin Transfers /\ NoFile \notin Transfers /\ NoFile # Old
  BY SlotsAssumption DEF Old, NoFile
<1> USE DEF FsTypeOK, OneSlot, NotMade, Before, ClaimInv, Claiming, HandleInv, MadeInv, MadeOf, Untouched, FileIds, Uploads, Writes, Tasks, Moves, Erasures
<1>3. ASSUME NEW t \in Transfers, Begin(t) PROVE MadeInv'
  BY <1>1, <1>2, <1>3 DEF Begin, Begins, Goes, Finish, Asked
<1>4. ASSUME NEW t \in Transfers, Name(t) PROVE MadeInv'
  BY <1>1, <1>2, <1>4 DEF Name, Names, Goes, Claim, Named
<1>5. ASSUME NEW t \in Transfers, Resolve(t) PROVE MadeInv'
  BY <1>1, <1>2, <1>5, FreeSlot DEF Resolve, Goes, Claim
<1>6. ASSUME NEW t \in Transfers, CreateFile(t) PROVE MadeInv'
  BY <1>6, CreateKeepsMade
<1>7. ASSUME NEW t \in Transfers, WriteChunk(t) PROVE MadeInv'
  BY <1>1, <1>2, <1>7 DEF WriteChunk
<1>8. ASSUME NEW t \in Transfers, FlushChunk(t) PROVE MadeInv'
  BY <1>8, ChunkKeepsMade
<1>9. ASSUME NEW t \in Transfers, RemovePart(t) PROVE MadeInv'
  BY <1>1, <1>2, <1>9 DEF RemovePart, Goes, Finish
<1>10. ASSUME NEW t \in Transfers, EndUpload(t) PROVE MadeInv'
  BY <1>1, <1>2, <1>10 DEF EndUpload, Goes, Finish
<1>11. ASSUME NEW t \in Transfers, Quits(t) PROVE MadeInv'
  BY <1>1, <1>2, <1>11 DEF Quits
<1>12. ASSUME NEW t \in Transfers, Publish(t) PROVE MadeInv'
  BY <1>12, PublishKeepsMade
<1>13. ASSUME NEW t \in Transfers, Moving(t) PROVE MadeInv'
  BY <1>1, <1>2, <1>13 DEF Moving, Moved, Goes, UnderWay
<1>14. ASSUME NEW t \in Transfers, Erase(t) PROVE MadeInv'
  BY <1>1, <1>2, <1>14 DEF Erase, Goes
<1>15. CASE UNCHANGED fsVars
  BY <1>1, <1>15 DEF fsVars
<1> QED
  BY <1>3, <1>4, <1>5, <1>6, <1>7, <1>8, <1>9, <1>10, <1>11, <1>12, <1>13, <1>14, <1>15, Shapes

\* A chunk that fails removes the file where it was created
\* (handlers/instance_fs.rs:803).
LEMMA WhereStep ==
  ASSUME IInv, [FsNext]_fsVars
  PROVE  WhereInv'
<1>1. FsTypeOK /\ NotMade /\ WhereInv
  BY DEF IInv
<1>2. Old \notin Transfers /\ NoFile \notin Transfers /\ NoFile # Old
  BY SlotsAssumption DEF Old, NoFile
<1> USE DEF FsTypeOK, NotMade, Before, WhereInv, FileIds, Uploads, Writes, Tasks, Moves, Erasures
<1>3. ASSUME NEW t \in Transfers, Begin(t) PROVE WhereInv'
  BY <1>1, <1>2, <1>3 DEF Begin, Begins, Goes, Finish, Asked
<1>4. ASSUME NEW t \in Transfers, Name(t) PROVE WhereInv'
  BY <1>1, <1>2, <1>4 DEF Name, Names, Goes, Claim, Named
<1>5. ASSUME NEW t \in Transfers, Resolve(t) PROVE WhereInv'
  BY <1>1, <1>2, <1>5, FreeSlot DEF Resolve, Goes, Claim
<1>6. ASSUME NEW t \in Transfers, CreateFile(t) PROVE WhereInv'
  BY <1>1, <1>2, <1>6 DEF CreateFile, Goes
<1>7. ASSUME NEW t \in Transfers, WriteChunk(t) PROVE WhereInv'
  BY <1>1, <1>2, <1>7 DEF WriteChunk
<1>8. ASSUME NEW t \in Transfers, FlushChunk(t) PROVE WhereInv'
  BY <1>1, <1>2, <1>8 DEF FlushChunk
<1>9. ASSUME NEW t \in Transfers, RemovePart(t) PROVE WhereInv'
  BY <1>1, <1>2, <1>9 DEF RemovePart, Goes, Finish
<1>10. ASSUME NEW t \in Transfers, EndUpload(t) PROVE WhereInv'
  BY <1>1, <1>2, <1>10 DEF EndUpload, Goes, Finish
<1>11. ASSUME NEW t \in Transfers, Quits(t) PROVE WhereInv'
  BY <1>1, <1>2, <1>11 DEF Quits
<1>12. ASSUME NEW t \in Transfers, Publish(t) PROVE WhereInv'
  BY <1>1, <1>2, <1>12 DEF Publish, Concludes, Goes, Finish, Several
<1>13. ASSUME NEW t \in Transfers, Moving(t) PROVE WhereInv'
  BY <1>1, <1>2, <1>13 DEF Moving, Moved, Goes, UnderWay
<1>14. ASSUME NEW t \in Transfers, Erase(t) PROVE WhereInv'
  BY <1>1, <1>2, <1>14 DEF Erase, Goes
<1>15. CASE UNCHANGED fsVars
  BY <1>1, <1>15 DEF fsVars
<1> QED
  BY <1>3, <1>4, <1>5, <1>6, <1>7, <1>8, <1>9, <1>10, <1>11, <1>12, <1>13, <1>14, <1>15, Shapes

\* Moves announce nothing, and all others end what they announce when they fail,
\* but for the global upload (handlers/global_fs.rs:556).
LEMMA ProgressStep ==
  ASSUME IInv, [FsNext]_fsVars
  PROVE  ProgressInv'
<1>1. FsTypeOK /\ NotMade /\ ProgressInv
  BY DEF IInv
<1>2. Old \notin Transfers /\ NoFile \notin Transfers /\ NoFile # Old
  BY SlotsAssumption DEF Old, NoFile
<1> USE DEF FsTypeOK, NotMade, Before, ProgressInv, Uploads, Writes, Tasks, Moves, Erasures
<1>3. ASSUME NEW t \in Transfers, Begin(t) PROVE ProgressInv'
  BY <1>1, <1>2, <1>3 DEF Begin, Begins, Goes, Finish, Asked
<1>4. ASSUME NEW t \in Transfers, Name(t) PROVE ProgressInv'
  BY <1>1, <1>2, <1>4 DEF Name, Names, Goes, Claim, Named
<1>5. ASSUME NEW t \in Transfers, Resolve(t) PROVE ProgressInv'
  BY <1>1, <1>2, <1>5, FreeSlot DEF Resolve, Goes, Claim
<1>6. ASSUME NEW t \in Transfers, CreateFile(t) PROVE ProgressInv'
  BY <1>1, <1>2, <1>6 DEF CreateFile, Goes
<1>7. ASSUME NEW t \in Transfers, WriteChunk(t) PROVE ProgressInv'
  BY <1>1, <1>2, <1>7 DEF WriteChunk
<1>8. ASSUME NEW t \in Transfers, FlushChunk(t) PROVE ProgressInv'
  BY <1>1, <1>2, <1>8 DEF FlushChunk
<1>9. ASSUME NEW t \in Transfers, RemovePart(t) PROVE ProgressInv'
  BY <1>1, <1>2, <1>9 DEF RemovePart, Goes, Finish
<1>10. ASSUME NEW t \in Transfers, EndUpload(t) PROVE ProgressInv'
  BY <1>1, <1>2, <1>10 DEF EndUpload, Goes, Finish
<1>11. ASSUME NEW t \in Transfers, Quits(t) PROVE ProgressInv'
  BY <1>1, <1>2, <1>11 DEF Quits
<1>12. ASSUME NEW t \in Transfers, Publish(t) PROVE ProgressInv'
  BY <1>1, <1>2, <1>12 DEF Publish, Concludes, Goes, Finish, Several
<1>13. ASSUME NEW t \in Transfers, Moving(t) PROVE ProgressInv'
  BY <1>1, <1>2, <1>13 DEF Moving, Moved, Goes, UnderWay
<1>14. ASSUME NEW t \in Transfers, Erase(t) PROVE ProgressInv'
  BY <1>1, <1>2, <1>14 DEF Erase, Goes
<1>15. CASE UNCHANGED fsVars
  BY <1>1, <1>15 DEF fsVars
<1> QED
  BY <1>3, <1>4, <1>5, <1>6, <1>7, <1>8, <1>9, <1>10, <1>11, <1>12, <1>13, <1>14, <1>15, Shapes

-----------------------------------------------------------------------------
\* The one file there is at first is where it was.
LEMMA InitOK == FsInit => IInv
<1> SUFFICES ASSUME FsInit PROVE IInv
  OBVIOUS
<1>1. Old \notin Transfers /\ NoFile \notin Transfers /\ NoFile # Old /\ 0 \in Slots
  BY SlotsAssumption DEF Old, NoFile, Slots
<1>2. FsTypeOK
  BY <1>1 DEF FsInit, FsTypeOK, Stages, FileIds
<1>3. OneSlot /\ NotMade /\ MeetInv /\ ClaimInv /\ HandleInv
  BY <1>1 DEF FsInit, OneSlot, NotMade, Before, MeetInv, ClaimInv, Claiming, HandleInv, Claims, Tasks
<1>4. MadeInv
  BY <1>1 DEF FsInit, MadeInv, MadeOf, FileIds
<1>5. WhereInv /\ ProgressInv
  BY <1>1 DEF FsInit, WhereInv, ProgressInv, Moves
<1> QED
  BY <1>2, <1>3, <1>4, <1>5 DEF IInv

\* The parts together are inductive.
THEOREM Inductive == FsSpec => []IInv
<1>1. IInv /\ [FsNext]_fsVars => IInv'
  BY TypeStep, OneSlotStep, NotMadeStep, MeetStep, ClaimStep, HandleStep, MadeStep, WhereStep,
     ProgressStep DEF IInv
<1> QED
  BY InitOK, <1>1, PTL DEF FsSpec

\* A file that was completed is there with its own bytes and no others, for any
\* number of operations and with the threads of those that were given up, unless a
\* request named it or two of them met in a slot (util.rs:158,
\* handlers/instance_fs.rs:718).
THEOREM CompletedFilesStay == FsSpec => []NothingIsOverwritten
<1>1. IInv => NothingIsOverwritten
  <2> SUFFICES ASSUME IInv, NEW f \in completed \ (contested \union discarded)
               PROVE  /\ \E s \in Slots : entry[s] = f
                      /\ written[f] \subseteq {f}
                      /\ f = Old \/ form[f] \in Tasks \/ chunk[f] = "flushed" => f \in written[f]
    BY DEF NothingIsOverwritten
  <2>1. Old \notin Transfers /\ MadeInv /\ Untouched(f) /\ f \in FileIds
    BY SlotsAssumption DEF IInv, FsTypeOK, Untouched
  <2>2. CASE f = Old
    BY <2>1, <2>2 DEF MadeInv
  <2>3. CASE f # Old
    <3>1. f \in Transfers
      BY <2>1, <2>3 DEF FileIds
    <3>2. MadeOf(f)
      BY <2>1, <3>1 DEF MadeInv
    <3> QED
      BY <2>3, <3>1, <3>2 DEF MadeOf
  <2> QED
    BY <2>2, <2>3
<1> QED
  BY Inductive, <1>1, PTL

\* An operation that failed has left completed files at most and no progression
\* open, but for what it could not remove (handlers/instance_fs.rs:803).
THEOREM FailuresLeaveNoPart == FsSpec => []FailedLeavesNoPart
<1>1. IInv => FailedLeavesNoPart
  BY DEF IInv, WhereInv, ProgressInv, FailedLeavesNoPart
<1> QED
  BY Inductive, <1>1, PTL
====
