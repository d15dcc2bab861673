--------------------------- MODULE BundleExtract ---------------------------
(***************************************************************************)
(* `bundle verify`, `bundle list` and `bundle extract`: the capsule is     *)
(* decrypted into a private temporary directory, the layout and every      *)
(* entry's hash are checked, and extraction then writes one file after the *)
(* other, each through a temporary file beside its target.                 *)
(*                                                                         *)
(* Other programs work in the output directory meanwhile: between two      *)
(* steps they create, overwrite or remove nodes, MaxEdits times at most.   *)
(* They put no link where the command has already seen a directory.        *)
(***************************************************************************)
EXTENDS BundleFormat

CONSTANTS
  Platforms, \* subset of {"unix", "windows"}
  Payloads,  \* what the capsule may decrypt to
  Nodes,     \* places in the output directory; <<>> is the directory itself
  Trees,     \* what may be there beforehand
  Foreign,   \* the content of files other programs write
  MaxEdits   \* bound on what other programs do

VARIABLES
  pc,       \* control state of the command
  k,        \* the entry being verified or extracted
  depth,    \* components of its parent that were ensured
  tree,     \* what each place holds
  temp,     \* "none" or "open": the temporary file beside the target
  ioFailed, \* history: a system call failed
  edits,    \* changes other programs made
  touched,  \* history: the places they changed
  setting   \* fixed for the command

control == <<pc, k, depth, temp, ioFailed>>
vars == <<control, tree, edits, touched, setting>>

Final == {"ok", "error", "crashed"}

(* linked: a file with more than one name. *)
Node(kind, content) == [kind |-> kind, content |-> content]
Absent  == Node("absent", <<>>)
Dir     == Node("dir", <<>>)
Symlink == Node("symlink", <<>>)
File(content) == Node("file", content)

Kinds == {"absent", "dir", "symlink", "file", "linked"}

Entries == [path : Seq(STRING), size : Nat, hash : Contents, offset : Nat]

(* Whatever the capsule decrypts to, a manifest that can be read has the   *)
(* fields of its type.  Where an accepted path leads to, and every         *)
(* directory above, is one of the places, with the letters of the manifest *)
(* and lower-cased.                                                        *)
ASSUME ExtractAssumption ==
  /\ Platforms \subseteq {"unix", "windows"}
  /\ \A payload \in Payloads :
       /\ payload.readable \in BOOLEAN
       /\ payload.data \in Contents /\ payload.manifest \in Seq(Entries)
       /\ \A e \in DOMAIN payload.manifest :
            LET path == payload.manifest[e].path
            IN  ValidPath(path) =>
                  \A d \in 0..Len(Components(path)) :
                    {SubSeq(Components(path), 1, d),
                     SubSeq(FoldedPlace(path), 1, d)} \subseteq Nodes
  /\ <<>> \in Nodes
  /\ Trees \subseteq
       [Nodes -> {Absent, Dir, Symlink}
                   \cup [kind : {"file", "linked"}, content : Contents]]
  /\ Foreign \in Contents
  /\ MaxEdits \in Nat

(* mode: "check" stands for verify, list and extract --dry-run.  folds:    *)
(* the file system does not tell upper from lower case.  unlocks: the      *)
(* password opens the capsule and its payload is whole.                    *)
Settings ==
  [mode : {"check", "extract"}, force : BOOLEAN,
   platform : Platforms, folds : BOOLEAN, unlocks : BOOLEAN,
   payload : Payloads, tree : Trees]

manifest == setting.payload.manifest
data == setting.payload.data

(* The place a path leads to. *)
Resolve(p) == IF setting.folds THEN FoldedPlace(p) ELSE Components(p)

Target == Resolve(manifest[k].path)

(* The components of the target's directory are Parent(0) = out_dir, ...   *)
Parent(d) == SubSeq(Target, 1, d)

InDirectory(n) == n = <<>> \/ tree[Front(n)] = Dir

Init ==
  /\ setting \in Settings
  /\ pc = "start"
  /\ k = 1
  /\ depth = 0
  /\ tree = setting.tree
  /\ temp = "none"
  /\ ioFailed = FALSE
  /\ edits = 0
  /\ touched = {}
-----------------------------------------------------------------------------
Goto(next) ==
  /\ pc' = next
  /\ UNCHANGED <<k, depth, temp, ioFailed>>

(* An error return; a temporary file is removed when it is dropped.        *)
Reject ==
  /\ pc' = "error"
  /\ temp' = "none"
  /\ UNCHANGED <<k, depth, ioFailed, tree>>

(* fs::create_dir_all(out_dir), which also accepts a link to a directory.  *)
CreateOutDir(next) ==
  \/ /\ tree[<<>>].kind \in {"absent", "dir"}
     /\ tree' = [tree EXCEPT ![<<>>] = Dir]
     /\ Goto(next)
  \/ /\ tree[<<>>] = Symlink
     /\ Goto(next)
     /\ UNCHANGED tree
  \/ /\ tree[<<>>].kind \notin {"absent", "dir"}
     /\ Reject

(* The command line creates the output directory before it decrypts.       *)
Start ==
  /\ pc = "start"
  /\ IF setting.mode = "extract" THEN CreateOutDir("open")
     ELSE Goto("open") /\ UNCHANGED tree

(* decrypt_and_open *)
OpenBundle ==
  /\ pc = "open"
  /\ IF /\ setting.unlocks
        /\ Decodes(setting.payload)
        /\ ValidLayout(manifest, data)
     THEN Goto("verify") /\ UNCHANGED tree
     ELSE Reject

(* Mutant: the entries are not hashed before the first one is written.     *)
SkipVerifyMutant ==
  /\ pc = "verify"
  /\ pc' = IF setting.mode = "extract" THEN "outDir" ELSE "ok"
  /\ k' = 1
  /\ UNCHANGED <<depth, temp, ioFailed, tree>>

(* verify_all, one entry at a time. *)
VerifyEntry ==
  /\ pc = "verify"
  /\ \/ /\ k > Len(manifest)
        /\ pc' = IF setting.mode = "extract" THEN "outDir" ELSE "ok"
        /\ k' = 1
        /\ UNCHANGED <<depth, temp, ioFailed, tree>>
     \/ /\ k <= Len(manifest)
        /\ EntryAuthentic(data, manifest[k])
        /\ k' = k + 1
        /\ UNCHANGED <<pc, depth, temp, ioFailed, tree>>
     \/ /\ k <= Len(manifest)
        /\ ~EntryAuthentic(data, manifest[k])
        /\ Reject

FirstEntry == IF manifest = <<>> THEN "ok" ELSE "parent"

PrepareOutDir == pc = "outDir" /\ CreateOutDir("checkOutDir")

(* validate_extraction_directory(out_dir) *)
CheckOutDir ==
  /\ pc = "checkOutDir"
  /\ IF tree[<<>>] = Dir THEN Goto(FirstEntry) /\ UNCHANGED tree
     ELSE Reject
-----------------------------------------------------------------------------
(* ensure_safe_extraction_parent, one component at a time: a directory is  *)
(* taken, a missing one below out_dir is created, all else is refused.     *)
EnsureParent ==
  /\ pc = "parent"
  /\ depth < Len(Target)
  /\ LET n == Parent(depth)
     IN  \/ /\ \/ tree[n] = Dir
               \/ tree[n] = Absent /\ n # <<>> /\ InDirectory(n)
            /\ tree' = [tree EXCEPT ![n] = Dir]
            /\ depth' = depth + 1
            /\ UNCHANGED <<pc, k, temp, ioFailed>>
         \/ /\ tree[n] # Dir
            /\ tree[n] = Absent => n = <<>> \/ ~InDirectory(n)
            /\ Reject

(* The parent still resolves to a place below out_dir. *)
ParentEnsured ==
  /\ pc = "parent"
  /\ depth = Len(Target)
  /\ IF InDirectory(Target) THEN Goto("target") /\ UNCHANGED tree
     ELSE Reject

(* validate_existing_target: a regular file with one name. *)
Replaceable(node) == node.kind = "file"

CheckTarget ==
  /\ pc = "target"
  /\ IF \/ tree[Target] = Absent
        \/ setting.force /\ Replaceable(tree[Target])
     THEN Goto("temp") /\ UNCHANGED tree
     ELSE Reject

(* NamedTempFile::new_in, copy_entry and sync_all. *)
WriteTemp ==
  /\ pc = "temp"
  /\ IF InDirectory(Target)
     THEN /\ temp' = "open"
          /\ pc' = "persist"
          /\ UNCHANGED <<k, depth, ioFailed, tree>>
     ELSE Reject

(* persist_output looks at the target a second time; a link that leads     *)
(* nowhere does not exist for it and is then met by the rename.            *)
ChooseRename ==
  /\ pc = "persist"
  /\ IF setting.force /\ tree[Target].kind \notin {"absent", "symlink"}
     THEN IF Replaceable(tree[Target])
          THEN Goto("replace") /\ UNCHANGED tree
          ELSE Reject
     ELSE Goto("noclobber") /\ UNCHANGED tree

(* Windows only: the target is removed before the rename. *)
RemoveTarget ==
  /\ pc = "replace"
  /\ setting.platform = "windows"
  /\ tree[Target].kind \in {"file", "symlink", "linked"}
  /\ tree' = [tree EXCEPT ![Target] = Absent]
  /\ UNCHANGED control

(* The path ends in a separator or a dot, which is no name for a file.     *)
Unnamed == Last(manifest[k].path) \in Skipped

(* The target now names the temporary file's bytes.  The system refuses    *)
(* an unnamed target; Windows may take it for the name before.             *)
Place ==
  /\ Unnamed => setting.platform = "windows"
  /\ tree' = [tree EXCEPT ![Target] = File(Slice(data, manifest[k]))]
  /\ temp' = "none"
  /\ pc' = IF setting.platform = "unix" THEN "syncDir" ELSE "next"
  /\ UNCHANGED <<k, depth, ioFailed>>

Replace ==
  /\ pc = "replace"
  /\ \/ InDirectory(Target) /\ tree[Target] # Dir /\ Place
     \/ (Unnamed \/ ~InDirectory(Target) \/ tree[Target] = Dir) /\ Reject

(* Mutant: persist in place of persist_noclobber. *)
PersistMutant ==
  /\ pc = "noclobber"
  /\ \/ InDirectory(Target) /\ tree[Target] # Dir /\ Place
     \/ (Unnamed \/ ~InDirectory(Target) \/ tree[Target] = Dir) /\ Reject

(* persist_noclobber: the system refuses a name that exists. *)
PlaceNew ==
  /\ pc = "noclobber"
  /\ \/ InDirectory(Target) /\ tree[Target] = Absent /\ Place
     \/ (Unnamed \/ ~InDirectory(Target) \/ tree[Target] # Absent) /\ Reject

(* fsync of the target's directory. *)
SyncDirectory ==
  /\ pc = "syncDir"
  /\ IF InDirectory(Target) THEN Goto("next") /\ UNCHANGED tree ELSE Reject

(* Mutant: the components ensured for one entry count for the next.        *)
KeepDepthMutant ==
  /\ pc = "next"
  /\ k' = k + 1
  /\ pc' = IF k = Len(manifest) THEN "ok" ELSE "parent"
  /\ UNCHANGED <<depth, temp, ioFailed, tree>>

NextEntry ==
  /\ pc = "next"
  /\ k' = k + 1
  /\ depth' = 0
  /\ pc' = IF k = Len(manifest) THEN "ok" ELSE "parent"
  /\ UNCHANGED <<temp, ioFailed, tree>>
-----------------------------------------------------------------------------
IOError ==
  /\ pc \notin Final
  /\ pc' = "error"
  /\ temp' = "none"
  /\ ioFailed' = TRUE
  /\ UNCHANGED <<k, depth, tree>>

(* The process is killed: a temporary file stays. *)
Kill ==
  /\ pc \notin Final
  /\ pc' = "crashed"
  /\ UNCHANGED <<k, depth, temp, ioFailed, tree>>

(* Another program creates a node, overwrites a file or removes a node     *)
(* that holds no other.  A link in place of a directory that was already   *)
(* ensured, which the command would follow, is left out.                   *)
EditTree(n) ==
  /\ pc \notin Final
  /\ edits < MaxEdits
  /\ edits' = edits + 1
  /\ touched' = touched \cup {n}
  /\ \E node \in {Absent, Dir, Symlink, File(Foreign)} :
       /\ node # tree[n]
       /\ tree[n] = Absent => InDirectory(n)
       /\ tree[n] # Absent => node.kind \in {"absent", "file"}
       /\ node = Symlink => \A d \in 0..depth - 1 : n # Parent(d)
       /\ tree[n] = Dir =>
            /\ node = Absent
            /\ \A m \in Nodes : m # <<>> /\ Front(m) = n => tree[m] = Absent
       /\ tree' = [tree EXCEPT ![n] = node]
  /\ UNCHANGED <<control, setting>>

Progress ==
  /\ \/ Start \/ OpenBundle \/ VerifyEntry \/ PrepareOutDir \/ CheckOutDir
     \/ EnsureParent \/ ParentEnsured \/ CheckTarget \/ WriteTemp
     \/ ChooseRename \/ RemoveTarget \/ Replace \/ PlaceNew
     \/ SyncDirectory \/ NextEntry
  /\ UNCHANGED <<edits, touched, setting>>

Fault == (IOError \/ Kill) /\ UNCHANGED <<edits, touched, setting>>

Next == Progress \/ Fault \/ \E n \in Nodes : EditTree(n)

Spec == Init /\ [][Next]_vars
-----------------------------------------------------------------------------
TypeOK ==
  /\ pc \in {"start", "open", "verify", "outDir", "checkOutDir", "parent",
             "target", "temp", "persist", "replace", "noclobber",
             "syncDir", "next"} \cup Final
  /\ k \in 1..Len(manifest) + 1
  /\ k <= Len(manifest) => depth \in 0..Len(Components(manifest[k].path))
  /\ tree \in [Nodes -> [kind : Kinds, content : Contents]]
  /\ temp \in {"none", "open"}
  /\ temp = "open" => pc \in {"persist", "replace", "noclobber", "crashed"}
  /\ ioFailed \in BOOLEAN
  /\ edits \in 0..MaxEdits
  /\ touched \subseteq Nodes

Prior(n) == setting.tree[n]

IsTarget(n) == \E e \in 1..Len(manifest) : Resolve(manifest[e].path) = n

IsParent(n) == \E e \in 1..Len(manifest) :
                 IsStrictPrefix(n, Resolve(manifest[e].path))

(* "Authenticate every entry before creating any named output", and        *)
(* RELEASE_NOTES: no partial named outputs on failure.  Whatever place has *)
(* changed, other than by another program, is the output directory, or all *)
(* files of the bundle are sound and the place is a new directory above an *)
(* entry or an entry's file with exactly the recorded content, where       *)
(* nothing was before or, under --force, an ordinary file.  Only on        *)
(* Windows may a replaced file be missing for a while.                     *)
OutputsWhole ==
  \A n \in Nodes \ touched :
    \/ tree[n] = Prior(n)
    \/ n = <<>> /\ Prior(n) = Absent /\ tree[n] = Dir
    \/ /\ setting.unlocks /\ FilesSound(setting.payload)
       /\ \/ IsParent(n) /\ Prior(n) = Absent /\ tree[n] = Dir
          \/ /\ Prior(n) = Absent \/ (setting.force /\ Prior(n).kind = "file")
             /\ \E e \in 1..Len(manifest) :
                  /\ Resolve(manifest[e].path) = n
                  /\ tree[n] = File(manifest[e].hash)
          \/ /\ setting.force /\ setting.platform = "windows"
             /\ IsTarget(n) /\ Prior(n).kind = "file" /\ tree[n] = Absent

(* Without --force no step of the command changes a place that holds       *)
(* anything, not even one another program has filled since the target was  *)
(* looked at.                                                              *)
NeverOverwrites ==
  [][~setting.force /\ edits' = edits =>
       \A n \in Nodes : tree[n] # Absent => tree'[n] = tree[n]]_vars

(* The place of an entry's file. *)
At(e) == Resolve(manifest[e].path)

(* A reported success means that all files of the bundle are sound, and    *)
(* that it is well formed if its paths are normalized.  After an           *)
(* extraction every entry's file is there with its content, on case        *)
(* folding file systems too, unless another program changed it or, under   *)
(* --force, a later path of the bundle leads to the same place.            *)
SuccessComplete ==
  pc = "ok" =>
    /\ setting.unlocks /\ FilesSound(setting.payload)
    /\ Normalized(manifest) => WellFormed(setting.payload)
    /\ setting.mode = "extract" =>
         \A e \in 1..Len(manifest) :
           \/ At(e) \in touched
           \/ tree[At(e)] = File(manifest[e].hash)
           \/ setting.force /\ \E f \in e + 1..Len(manifest) : At(f) = At(e)

(* What keeps a well-formed bundle from being extracted: something other   *)
(* than a directory above an entry, or a target that is not to be replaced. *)
Obstructed ==
  \/ Prior(<<>>).kind \notin {"absent", "dir"}
  \/ \E n \in Nodes :
       \/ IsParent(n) /\ (IsTarget(n) \/ Prior(n).kind \notin {"absent", "dir"})
       \/ /\ IsTarget(n) /\ Prior(n) # Absent
          /\ ~(setting.force /\ Prior(n).kind = "file")

(* A well-formed bundle is refused only for such a reason, an I/O error or *)
(* the interference of another program.                                    *)
WellFormedAccepted ==
  pc = "error" /\ ~ioFailed /\ touched = {} =>
    \/ ~setting.unlocks \/ ~Decodes(setting.payload)
    \/ ~WellFormed(setting.payload)
    \/ setting.mode = "extract" /\ Obstructed
=============================================================================
