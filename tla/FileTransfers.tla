---- MODULE FileTransfers ----
(***************************************************************************)
(* Operations on the files of one directory: uploads, copies, moves, zips, *)
(* unzips, writes and removals (core/src/handlers/instance_fs.rs,          *)
(* core/src/handlers/global_fs.rs, core/src/util.rs), with the progression *)
(* each of them announces.                                                 *)
(*                                                                         *)
(* All of them are about one file name and the names with a postfix that   *)
(* resolve_path_conflict tries when it is taken: slot 0 is name.ext, slot  *)
(* n is name_n.ext.  A slot refers to a file, which is known by the        *)
(* operation that made it; an upload goes on writing its file when the     *)
(* slot no longer refers to it.  An operation on several files has one of  *)
(* them here; that the others have names of their own is the bound.        *)
(* Operations that are refused before they change or announce anything are *)
(* left out, and so are those that read.                                   *)
(*                                                                         *)
(* tokio::fs works in threads that do not know of the requester: what a    *)
(* dropped handler was waiting for is done nevertheless, later, and a      *)
(* chunk that was written is on its way to the file when write_all is over.*)
(***************************************************************************)
EXTENDS Naturals, FiniteSets, FiniteSetsExt

CONSTANTS
  Transfers,  \* the operations, each carried out once
  MaxSlot     \* bound: the highest postfix; there is always a free one

VARIABLES
  entry,      \* the file each slot refers to
  written,    \* the operations whose bytes each file holds
  form,       \* what each operation is
  stage,      \* where it is
  target,     \* the slot it writes to, or removes
  source,     \* the slot a move takes its file from
  handle,     \* the file an upload has open
  chunk,      \* the last chunk it wrote: "none", "sent", "flushed" or "lost"
  progress,   \* its progression: "none", "open", "ok" or "error"
  completed,  \* operations whose file was completed
  contested,  \* operations, and files, that met another one in a slot
  discarded,  \* files that a request removed, or replaced by name
  stuck       \* operations that could not remove what they had written

fsVars == <<entry, written, form, stage, target, source, handle, chunk, progress,
            completed, contested, discarded, stuck>>

\* The file that is there from the start, and no file.
Old == "old"
NoFile == "no_file"

FileIds == Transfers \union {Old}

Slots == 0 .. MaxSlot

ASSUME SlotsAssumption ==
  /\ {Old, NoFile} \intersect Transfers = {}
  /\ MaxSlot \in Nat
  /\ IsFiniteSet(Transfers)
  /\ Cardinality(Transfers) <= MaxSlot

Uploads == {"upload", "global"}          \* into an instance, or anywhere
Tasks   == {"copy", "zip", "unzip"}       \* built aside in a task, then renamed
Moves   == {"move", "rename"}            \* within an instance, or anywhere
Writes   == {"new", "write"}
Several == Uploads \union {"copy", "unzip"}   \* those that may have several files
Erasures == {"remove", "remove_all"}

FsInit ==
  /\ entry = [s \in Slots |-> IF s = 0 THEN Old ELSE NoFile]
  /\ written = [f \in FileIds |-> IF f = Old THEN {Old} ELSE {}]
  /\ form = [t \in Transfers |-> "none"]
  /\ stage = [t \in Transfers |-> "idle"]
  /\ target = [t \in Transfers |-> 0]
  /\ source = [t \in Transfers |-> 0]
  /\ handle = [t \in Transfers |-> NoFile]
  /\ chunk = [t \in Transfers |-> "none"]
  /\ progress = [t \in Transfers |-> "none"]
  /\ completed = {Old}
  /\ contested = {}
  /\ discarded = {}
  /\ stuck = {}

-----------------------------------------------------------------------------

Goes(t, from, to) ==
  /\ stage[t] = from
  /\ stage' = [stage EXCEPT ![t] = to]

Finish(t, how) == progress' = [progress EXCEPT ![t] = how]

\* The end is announced; a copy of nothing but empty files has no event to end
\* and panics.
Concludes(t, from, to, how) ==
  \/ Goes(t, from, to) /\ Finish(t, how)
  \/ form[t] = "copy" /\ Goes(t, from, "panicked") /\ Finish(t, "none")

\* Stages with a slot in mind: in the last two it is only a thread that has, and
\* the requester is gone.
Claiming == {"resolved", "writing", "removing", "late", "late_remove"}

Claims(s) == {t \in Transfers : stage[t] \in Claiming /\ target[t] = s}

Claim(t, s) ==
  /\ target' = [target EXCEPT ![t] = s]
  /\ contested' = IF Claims(s) = {} THEN contested ELSE contested \union Claims(s) \union {t}

Free == {s \in Slots : entry[s] = NoFile}

\* Mutant: the name is used as it is.
PlainName == 0

\* resolve_path_conflict, and the loop of the global upload.
FirstFree == Min(Free)

\* A handler has checked its requester, and announces what it begins or not.
Begins(t, f, how) ==
  /\ Goes(t, "idle", "asked")
  /\ form' = [form EXCEPT ![t] = f]
  /\ Finish(t, how)
  /\ UNCHANGED <<entry, written, target, handle, chunk, completed, contested, discarded, stuck>>

UploadInstanceFile(t) == Begins(t, "upload", "open") /\ UNCHANGED source

UploadFile(t) == Begins(t, "global", "open") /\ UNCHANGED source

\* A copy is announced with the first bytes that were copied.
CopyInstanceFiles(t) == Begins(t, "copy", "none") /\ UNCHANGED source

UnzipInstanceFile(t) == Begins(t, "unzip", "open") /\ UNCHANGED source

ZipInstanceFiles(t) == Begins(t, "zip", "open") /\ UNCHANGED source

GetInstanceFileUrl(t) == Begins(t, "link", "open") /\ UNCHANGED source

\* Within an instance a taken name gets a postfix.
MoveInstanceFile(t, from) ==
  Begins(t, "move", "none") /\ source' = [source EXCEPT ![t] = from]

\* The others take the name they are given, and announce nothing but the end.
Names(t, f, s) ==
  /\ Goes(t, "idle", "resolved")
  /\ Claim(t, s)
  /\ form' = [form EXCEPT ![t] = f]
  /\ UNCHANGED <<entry, written, handle, chunk, progress, completed, discarded, stuck>>

RenameFile(t, from, s) ==
  Names(t, "rename", s) /\ source' = [source EXCEPT ![t] = from]

\* Both empty a file that is there.
NewFile(t, s) == Names(t, "new", s) /\ UNCHANGED source

WriteFile(t, s) == Names(t, "write", s) /\ UNCHANGED source

RemoveFile(t, s) == Names(t, "remove", s) /\ UNCHANGED source

RemoveInstanceDir(t) == Names(t, "remove_all", 0) /\ UNCHANGED source

-----------------------------------------------------------------------------
(* Uploads and writes *)

StaysAsIs == UNCHANGED <<entry, written, form, target, source, handle, chunk, completed,
                         contested, discarded, stuck>>

\* No field, or a request that breaks off between two: "Upload complete".
NoMoreFields(t) ==
  /\ form[t] \in Uploads
  /\ Goes(t, "asked", "done")
  /\ Finish(t, "ok")
  /\ StaysAsIs

\* A field without a file name, a protected name, a file that cannot be created,
\* a global name that is taken and has no extension (a panic): the progression
\* never ends.  Or a write, a rename or a removal that does not work.
Refuse(t) ==
  /\ \/ form[t] \in Uploads /\ \E from \in {"asked", "resolved", "more"} : Goes(t, from, "refused")
     \/ form[t] \in Writes \union Moves \union Erasures /\ Goes(t, "resolved", "refused")
     \/ form[t] = "write" /\ Goes(t, "writing", "refused")
     \/ Goes(t, "late", "dropped") \/ Goes(t, "late_remove", "dropped")
  /\ UNCHANGED progress
  /\ StaysAsIs

\* A free name is looked for; copies, zips and unzips are ready to be renamed.
Resolve(t) ==
  /\ form[t] # "link"
  /\ Goes(t, "asked", "resolved")
  /\ Claim(t, FirstFree)
  /\ progress' = IF form[t] = "copy" THEN [progress EXCEPT ![t] = "open"] ELSE progress
  /\ UNCHANGED <<entry, written, form, source, handle, chunk, completed, discarded, stuck>>

\* File::create empties a file that is there, for a requester who is still there
\* or who is gone; fs::write goes on to fill it.
CreateFile(t) ==
  LET there == entry[target[t]]
      f     == IF there = NoFile THEN t ELSE there
  IN
  /\ form[t] \in Uploads \union Writes
  /\ Goes(t, "resolved", "writing") \/ Goes(t, "late", "dropped")
  /\ entry' = [entry EXCEPT ![target[t]] = f]
  /\ handle' = [handle EXCEPT ![t] = f]
  /\ \E bytes \in IF form[t] = "write" THEN {{}, {t}} ELSE {{}} :
       written' = [written EXCEPT ![f] = bytes]
  /\ discarded' = IF form[t] \in Writes THEN discarded \union ({there} \ {NoFile}) ELSE discarded
  /\ UNCHANGED <<form, target, source, chunk, progress, completed, contested, stuck>>

\* write_all hands the chunk on, when the one before is in the file; ...
WriteChunk(t) ==
  /\ stage[t] = "writing" /\ form[t] # "new"
  /\ chunk[t] \in {"none", "flushed"}
  /\ chunk' = [chunk EXCEPT ![t] = "sent"]
  /\ UNCHANGED <<entry, written, form, stage, target, source, handle, progress, completed,
                 contested, discarded, stuck>>

\* ... a thread writes it, whatever has become of the operation or of the name; or
\* cannot, of which only a next write would tell.
FlushChunk(t) ==
  /\ chunk[t] = "sent"
  /\ \/ /\ chunk' = [chunk EXCEPT ![t] = "flushed"]
        /\ written' = [written EXCEPT ![handle[t]] = @ \union {t}]
     \/ /\ chunk' = [chunk EXCEPT ![t] = "lost"]
        /\ UNCHANGED written
  /\ UNCHANGED <<entry, form, stage, target, source, handle, progress, completed, contested,
                 discarded, stuck>>

\* A chunk cannot be read, or the one before it could not be written: the file is
\* to be removed.
ChunkFails(t) ==
  /\ form[t] \in Uploads
  /\ Goes(t, "writing", "removing")
  /\ UNCHANGED progress
  /\ StaysAsIs

\* Mutant: what was written so far stays.
KeepPart(t) ==
  /\ form[t] \in Uploads
  /\ Goes(t, "removing", "failed")
  /\ Finish(t, "error")
  /\ StaysAsIs

\* Whatever has the name is removed.  A global upload that cannot write does not
\* end its progression.
RemovePart(t) ==
  /\ form[t] \in Uploads
  /\ \/ /\ Goes(t, "removing", "failed")
        /\ Finish(t, "error") \/ (form[t] = "global" /\ UNCHANGED progress)
     \/ Goes(t, "late_remove", "dropped") /\ UNCHANGED progress
  /\ \/ entry' = [entry EXCEPT ![target[t]] = NoFile] /\ UNCHANGED stuck
     \/ stuck' = stuck \union {t} /\ UNCHANGED entry
  /\ UNCHANGED <<written, form, target, source, handle, chunk, completed, contested, discarded>>

\* All that was sent has been handed on, and nobody waits for it to be in the
\* file.  An upload goes on with its next field, if there is one.
EndUpload(t) ==
  /\ \/ Goes(t, "writing", "done")
        /\ IF form[t] \in Writes THEN UNCHANGED progress ELSE Finish(t, "ok")
     \/ form[t] \in Uploads /\ Goes(t, "writing", "more") /\ UNCHANGED progress
  /\ completed' = completed \union ({t} \intersect {handle[t]})
  /\ UNCHANGED <<entry, written, form, target, source, handle, chunk, contested, discarded, stuck>>

\* The requester hangs up and the handler is dropped as it stands; what it waits
\* for goes on without it.
HangUp(t) ==
  /\ form[t] \notin Tasks
  /\ \/ \E from \in {"asked", "writing", "more"} : Goes(t, from, "dropped")
     \/ Goes(t, "resolved", "late")
     \/ Goes(t, "removing", "late_remove")
  /\ UNCHANGED progress
  /\ StaysAsIs

\* A field, or an entry of an archive or of a copy, that has another name fails,
\* before this one's turn or after it: what was completed stays.
OthersFail(t) ==
  /\ \/ /\ form[t] \in Uploads
        /\ Goes(t, "asked", "failed") \/ Goes(t, "more", "failed")
        /\ Finish(t, "error") \/ (form[t] = "global" /\ UNCHANGED progress)
     \/ form[t] \in Tasks /\ Concludes(t, "more", "failed", "error")
  /\ StaysAsIs

OthersEnd(t) ==
  /\ Concludes(t, "more", "done", "ok")
  /\ StaysAsIs

-----------------------------------------------------------------------------
(* Copies, zips, unzips and links *)

\* What is built aside fails, and the temporary directory goes with it.
BuildFails(t) ==
  /\ form[t] \in Tasks \union {"link"}
  /\ Goes(t, "asked", "failed")
  /\ Finish(t, "error")
  /\ StaysAsIs

\* A copy panics: it has failed before anything was copied and has no event to
\* end; or it copies several files of less than 100 bytes altogether, and divides
\* by a threshold of 0.
CopyPanics(t) ==
  /\ form[t] = "copy"
  /\ Goes(t, "asked", "panicked")
  /\ progress' \in {progress, [progress EXCEPT ![t] = "open"]}
  /\ StaysAsIs

\* The directory is zipped, and a key handed out.
LinkReady(t) ==
  /\ form[t] = "link"
  /\ Goes(t, "asked", "done")
  /\ Finish(t, "ok")
  /\ StaysAsIs

\* The result is renamed to the name found free; a file that is there by now is
\* replaced.  The other entries of an archive or of a copy follow one by one.
Publish(t) ==
  /\ form[t] \in Tasks
  /\ entry' = [entry EXCEPT ![target[t]] = t]
  /\ written' = [written EXCEPT ![t] = {t}]
  /\ completed' = completed \union {t}
  /\ \/ Concludes(t, "resolved", "done", "ok")
     \/ form[t] \in Several /\ Goes(t, "resolved", "more") /\ UNCHANGED progress
  /\ UNCHANGED <<form, target, source, handle, chunk, contested, discarded, stuck>>

PublishFails(t) ==
  /\ form[t] \in Tasks
  /\ Concludes(t, "resolved", "failed", "error")
  /\ StaysAsIs

-----------------------------------------------------------------------------
(* Moves and removals *)

UnderWay(f) == f \in Transfers /\ stage[f] \in {"writing", "removing"}

\* A file that another operation is writing, or may meet, is contested.
MoveFile(t) ==
  LET f == entry[source[t]] IN
  /\ form[t] \in Moves
  /\ Goes(t, "resolved", IF f = NoFile THEN "failed" ELSE "done") \/ Goes(t, "late", "dropped")
  /\ IF f = NoFile \/ source[t] = target[t] THEN
       UNCHANGED <<entry, contested, discarded>>
     ELSE
       /\ entry' = [entry EXCEPT ![source[t]] = NoFile, ![target[t]] = f]
       /\ contested' = IF t \in contested \/ UnderWay(f) THEN contested \union {f} ELSE contested
       /\ discarded' = IF form[t] = "rename" THEN discarded \union ({entry[target[t]]} \ {NoFile})
                       ELSE discarded
  /\ UNCHANGED <<written, form, target, source, handle, chunk, progress, completed, stuck>>

\* rmdir removes all there is, unless a protected file is among it.
Erase(t) ==
  LET slots == IF form[t] = "remove" THEN {target[t]} ELSE Slots IN
  /\ form[t] \in Erasures
  /\ Goes(t, "resolved", "done") \/ Goes(t, "late", "dropped")
  /\ entry' = [s \in Slots |-> IF s \in slots THEN NoFile ELSE entry[s]]
  /\ discarded' = discarded \union ({entry[s] : s \in slots} \ {NoFile})
  /\ UNCHANGED <<written, form, target, source, handle, chunk, progress, completed, contested,
                 stuck>>

FsStep(t) ==
  \/ UploadInstanceFile(t) \/ UploadFile(t) \/ CopyInstanceFiles(t)
  \/ UnzipInstanceFile(t) \/ ZipInstanceFiles(t) \/ GetInstanceFileUrl(t)
  \/ \E s \in Slots : \/ MoveInstanceFile(t, s)
                      \/ NewFile(t, s) \/ WriteFile(t, s) \/ RemoveFile(t, s)
                      \/ \E from \in Slots : RenameFile(t, from, s)
  \/ RemoveInstanceDir(t)
  \/ NoMoreFields(t) \/ Refuse(t) \/ Resolve(t)
  \/ CreateFile(t) \/ WriteChunk(t) \/ FlushChunk(t) \/ ChunkFails(t) \/ RemovePart(t)
  \/ EndUpload(t) \/ HangUp(t) \/ OthersFail(t) \/ OthersEnd(t)
  \/ BuildFails(t) \/ CopyPanics(t) \/ LinkReady(t) \/ Publish(t) \/ PublishFails(t)
  \/ MoveFile(t) \/ Erase(t)

FsNext == \E t \in Transfers : FsStep(t)

FsSpec == FsInit /\ [][FsNext]_fsVars

-----------------------------------------------------------------------------
(* Properties *)

\* A file that was completed is there and holds its own bytes and no others,
\* whatever its operation and the others do next, requests that were given up and
\* go on in a thread included: unless a request removed it or replaced it by name,
\* or two operations had its name in mind at a time (resolve_path_conflict looks
\* for a free name long before the name is taken).  The last chunk of an upload
\* or of a write may still be on its way, or lost, when it is told to be complete.
NothingIsOverwritten ==
  \A f \in completed \ (contested \union discarded) :
    /\ \E s \in Slots : entry[s] = f
    /\ written[f] \subseteq {f}
    /\ (f = Old \/ form[f] \in Tasks \/ chunk[f] = "flushed") => f \in written[f]

\* An operation that failed has left completed files at most, those of the fields
\* or entries before the one that failed, and never a part of one; and it has ended
\* what it announced, but for the global upload that could not write: unless two
\* operations had the name in mind, or the part could not be removed.
FailedLeavesNoPart ==
  \A t \in Transfers : stage[t] = "failed" =>
    /\ progress[t] = "open" => form[t] = "global"
    /\ t \notin contested \union stuck =>
         \A s \in Slots : entry[s] = t => t \in completed
====
