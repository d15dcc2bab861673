----------------------------- MODULE TempOutput -----------------------------
(***************************************************************************)
(* The output file of one encryption or decryption: a randomly named       *)
(* temporary file beside the output path receives the bytes, is flushed    *)
(* and is then renamed over the path (persist_temp_file).  The module      *)
(* holds the state and the steps the two payload streams share, and the    *)
(* two ways the process can end early: a kill, and a power loss, after     *)
(* which only what was flushed is certain.                                 *)
(***************************************************************************)
CONSTANTS
  Platforms,  \* subset of {"unix", "windows"}
  Priors,     \* what the output path may hold beforehand
  Absent,     \* no file at the path
  Torn        \* a file whose bytes were not flushed before a power loss

VARIABLES
  pc,       \* control state of the operation
  path,     \* what opening the output path finds
  disk,     \* the durable directory entry of the output path
  temp,     \* "none" or "open": the temporary file exists
  flushed,  \* the temporary file's bytes are durable
  ioFailed, \* history: a system call failed
  setting   \* [platform, bare, prior]: fixed for the operation

outputVars == <<pc, path, disk, temp, flushed, ioFailed, setting>>

Final == {"ok", "error", "crashed"}

(* bare: the output path is a plain file name, whose parent() is "".       *)
Settings == [platform : Platforms, bare : BOOLEAN, prior : Priors]

OutputInit ==
  /\ setting \in Settings
  /\ pc = "start"
  /\ path = setting.prior
  /\ disk = setting.prior
  /\ temp = "none"
  /\ flushed = FALSE
  /\ ioFailed = FALSE

(* NamedTempFile::new_in succeeds and the operation goes on at next.       *)
CreateTemp(next) ==
  /\ temp' = "open"
  /\ pc' = next
  /\ UNCHANGED <<path, disk, flushed, ioFailed, setting>>

Goto(next) ==
  /\ pc' = next
  /\ UNCHANGED <<path, disk, temp, flushed, ioFailed, setting>>

(* Mutant: an error return keeps the temporary file.                       *)
KeepTempMutant ==
  /\ pc' = "error"
  /\ UNCHANGED <<path, disk, temp, flushed, setting>>

(* An error return: dropping the NamedTempFile removes it.                 *)
ErrorReturn ==
  /\ pc' = "error"
  /\ temp' = "none"
  /\ UNCHANGED <<path, disk, flushed, setting>>

Reject  == ErrorReturn /\ UNCHANGED ioFailed
IOError == ErrorReturn /\ ioFailed' = TRUE

(* Mutant: the temporary file is renamed without being flushed.            *)
SkipSyncMutant ==
  /\ pc = "sync"
  /\ pc' = "replace"
  /\ UNCHANGED <<path, disk, temp, flushed, ioFailed, setting>>

(* sync_all on the temporary file. *)
SyncTemp ==
  /\ pc = "sync"
  /\ flushed' = TRUE
  /\ pc' = "replace"
  /\ UNCHANGED <<path, disk, temp, ioFailed, setting>>

(* Mutant: the existing output is removed on every platform.               *)
RemoveEverywhereMutant ==
  /\ pc = "replace"
  /\ path # Absent
  /\ path' = Absent
  /\ UNCHANGED <<pc, disk, temp, flushed, ioFailed, setting>>

(* Windows only: an existing output is removed before the rename.          *)
RemoveExisting ==
  /\ pc = "replace"
  /\ setting.platform = "windows"
  /\ path # Absent
  /\ path' = Absent
  /\ UNCHANGED <<pc, disk, temp, flushed, ioFailed, setting>>

(* NamedTempFile::persist: the path now names what the temporary held.     *)
Rename(content) ==
  /\ pc = "replace"
  /\ setting.platform = "windows" => path = Absent
  /\ path' = content
  /\ temp' = "none"
  /\ pc' = IF setting.platform = "unix" THEN "syncParent" ELSE "ok"
  /\ UNCHANGED <<disk, flushed, ioFailed, setting>>

(* Unix only: fsync of the parent directory. *)
SyncParent ==
  /\ pc = "syncParent"
  /\ ~setting.bare
  /\ disk' = path
  /\ pc' = "ok"
  /\ UNCHANGED <<path, temp, flushed, ioFailed, setting>>

(* File::open("") of a bare name's parent cannot succeed.                  *)
ParentNotFound ==
  /\ pc = "syncParent"
  /\ setting.bare
  /\ Reject

OutputIOError == pc \in {"sync", "replace", "syncParent"} /\ IOError

(* The process is killed: nothing is cleaned up. *)
Kill ==
  /\ pc \notin Final
  /\ pc' = "crashed"
  /\ UNCHANGED <<path, disk, temp, flushed, ioFailed, setting>>

(* Power is lost, during the operation or later: a directory change that   *)
(* was not flushed may or may not survive, on Windows the removal without  *)
(* the rename too, and file bytes that were not flushed do not.            *)
PowerLoss ==
  /\ pc' = IF pc \in Final THEN pc ELSE "crashed"
  /\ path' \in {disk} \cup
       (IF path = disk THEN {}
        ELSE {IF flushed \/ path = Absent THEN path ELSE Torn} \cup
             (IF setting.platform = "windows" THEN {Absent} ELSE {}))
  /\ disk' = path'
  /\ UNCHANGED <<temp, flushed, ioFailed, setting>>
=============================================================================
