----------------------------- MODULE BundlePack -----------------------------
(***************************************************************************)
(* `bundle pack`: the directory is walked, every file is read once to      *)
(* record its size and hash, the manifest is written to a plaintext        *)
(* temporary file, every file is read again, compared with what was        *)
(* recorded and appended, padding follows, and the temporary file is       *)
(* encrypted to the output path.                                           *)
(*                                                                         *)
(* Other programs change the directory meanwhile, MaxEdits times at most:  *)
(* they write to files, create them and remove them.  A file that is       *)
(* removed or replaced while the command has it open is read to its end    *)
(* from the open handle, as if it had been removed later; so here that     *)
(* happens only between two reads.                                         *)
(***************************************************************************)
EXTENDS BundleFormat

CONSTANTS
  PathOrder,    \* the paths there may be, in the byte order of their names
  Directories,  \* what the directory may hold at first
  BUFFER_SIZE,  \* bytes one read returns (64 KiB in the code)
  Paddings,     \* padding profiles: [kind, size], size for "fixed" alone
  Priors,       \* what the output path may hold beforehand
  NoFile,       \* no file at the output path
  MaxEdits,     \* bound on the changes other programs make
  MaxSize       \* bound on the size of a file

VARIABLES
  pc,       \* control state of the command
  dir,      \* what each path holds
  walked,   \* paths the walk has passed
  found,    \* paths it collected
  sources,  \* files hashed so far, as recorded
  opened,   \* [size, got]: the open file's metadata size and bytes read
  plain,    \* data in the plaintext temporary file, behind the manifest
  copied,   \* sources appended to it
  temp,     \* "none" or "open": the plaintext temporary file
  out,      \* what the output path holds
  ioFailed, \* history: a system call failed
  edits,    \* changes made to the directory
  setting   \* fixed for the command

world == <<dir, edits, setting>>
work == <<walked, found, sources, opened, plain, copied>>
vars == <<pc, world, work, temp, out, ioFailed>>

Final == {"ok", "error", "crashed"}

InOrder == 1..Len(PathOrder)
AllPaths == {PathOrder[i] : i \in InOrder}

Entry(kind, content) == [kind |-> kind, content |-> content]
Absent  == Entry("absent", <<>>)
Special == Entry("special", <<>>)
File(content) == Entry("file", content)

(* A link to a file reads as that file; a link to anything else, a device, *)
(* a socket or a pipe is special.                                          *)
Kinds == {"absent", "file", "link", "special"}
Readable(p) == dir[p].kind \in {"file", "link"}

ASSUME PackAssumption ==
  /\ PathOrder \in Seq(Seq(STRING))
  /\ Directories \subseteq [AllPaths -> [kind : Kinds, content : Contents]]
  /\ BUFFER_SIZE \in Nat \ {0}
  /\ Paddings \subseteq [kind : {"none", "bucket", "fixed"}, size : Nat]
  /\ MaxEdits \in Nat

Settings == [force : BOOLEAN, allow_symlinks : BOOLEAN, padding : Paddings,
             prior : Priors, dir : Directories]

Closed == [size |-> 0, got |-> <<>>]

Init ==
  /\ setting \in Settings
  /\ pc = "start"
  /\ dir = setting.dir
  /\ walked = {}
  /\ found = {}
  /\ sources = <<>>
  /\ opened = Closed
  /\ plain = <<>>
  /\ copied = 0
  /\ temp = "none"
  /\ out = setting.prior
  /\ ioFailed = FALSE
  /\ edits = 0
-----------------------------------------------------------------------------
Goto(next) == pc' = next /\ UNCHANGED <<temp, out, ioFailed>>

(* Mutant: an error return keeps the plaintext temporary file.             *)
KeepTempMutant ==
  /\ pc' = "error"
  /\ UNCHANGED <<work, temp, out, ioFailed>>

(* An error return; the plaintext temporary file is removed.               *)
Reject ==
  /\ pc' = "error"
  /\ temp' = "none"
  /\ UNCHANGED <<work, out, ioFailed>>

(* The output must not exist unless --force is given. *)
Start ==
  /\ pc = "start"
  /\ IF out # NoFile /\ ~setting.force THEN Reject
     ELSE Goto("walk") /\ UNCHANGED work

(* WalkDir meets the paths in some order; every name is UTF-8, which       *)
(* to_string_lossy leaves as it is.                                        *)
WalkPath(p) ==
  /\ pc = "walk"
  /\ p \notin walked
  /\ IF \/ dir[p].kind = "special"
        \/ dir[p].kind = "link" /\ ~setting.allow_symlinks
        \/ dir[p] # Absent /\ ~ValidPath(p)
     THEN Reject
     ELSE /\ walked' = walked \cup {p}
          /\ found' = IF dir[p] = Absent THEN found ELSE found \cup {p}
          /\ Goto("walk")
          /\ UNCHANGED <<sources, opened, plain, copied>>

WalkDone ==
  /\ pc = "walk"
  /\ walked = AllPaths
  /\ Goto("hash")
  /\ UNCHANGED work

(* Mutant: links are left out even when they are allowed. *)
NoLinksMutant ==
  Listed(PathOrder, {p \in found : dir[p].kind # "link"})

(* paths.sort_by *)
Sorted == Listed(PathOrder, found)

(* hash_file: open and take the size from the metadata. *)
HashOpen ==
  /\ pc = "hash"
  /\ Len(sources) < Len(Sorted)
  /\ LET p == Sorted[Len(sources) + 1]
     IN  IF Readable(p)
         THEN /\ opened' = [size |-> Len(dir[p].content), got |-> <<>>]
              /\ Goto("hashing")
              /\ UNCHANGED <<walked, found, sources, plain, copied>>
         ELSE Reject

(* What the next read of the open file returns, up to limit bytes in all.  *)
NextPiece(p, limit) ==
  LET from == Len(opened.got)
      upTo == {n \in {from + BUFFER_SIZE, limit, Len(dir[p].content)} :
                 \A m \in {from + BUFFER_SIZE, limit, Len(dir[p].content)} :
                   n <= m}
  IN  SubSeq(dir[p].content, from + 1, CHOOSE n \in upTo : TRUE)

AtEnd(p) == Len(dir[p].content) <= Len(opened.got)

(* Mutant: a read that returns nothing is not taken for a truncation.      *)
IgnoreEndMutant(p) ==
  /\ Len(opened.got) < opened.size
  /\ opened' = [opened EXCEPT !.got = @ \o NextPiece(p, opened.size)]
  /\ UNCHANGED <<pc, walked, found, sources, plain, copied,
                 temp, out, ioFailed>>

(* A read of the file recorded or to be recorded at p: bytes are taken     *)
(* until the expected size is reached; none before that is a truncation.   *)
ReadPiece(p) ==
  /\ Len(opened.got) < opened.size
  /\ IF NextPiece(p, opened.size) = <<>> THEN Reject
     ELSE /\ opened' = [opened EXCEPT !.got = @ \o NextPiece(p, opened.size)]
          /\ UNCHANGED <<pc, walked, found, sources, plain, copied,
                         temp, out, ioFailed>>

HashRead == pc = "hashing" /\ ReadPiece(Sorted[Len(sources) + 1])

(* The size has been read; one byte more would mean the file has grown.    *)
HashEnd ==
  /\ pc = "hashing"
  /\ Len(opened.got) = opened.size
  /\ LET p == Sorted[Len(sources) + 1]
     IN  IF AtEnd(p)
         THEN /\ sources' = Append(sources, [path |-> p, size |-> opened.size,
                                             hash |-> opened.got])
              /\ opened' = Closed
              /\ Goto("hash")
              /\ UNCHANGED <<walked, found, plain, copied>>
         ELSE Reject

(* build_manifest, its size limit, and the temporary file it begins.       *)
WriteManifest ==
  /\ pc = "hash"
  /\ Len(sources) = Len(Sorted)
  /\ IF ManifestSize(BuildManifest(sources)) > MAX_MANIFEST_SIZE THEN Reject
     ELSE /\ temp' = "open"
          /\ pc' = "copy"
          /\ UNCHANGED <<work, out, ioFailed>>
-----------------------------------------------------------------------------
(* copy_source_checked: the file must still have the recorded size.        *)
CopyOpen ==
  /\ pc = "copy"
  /\ copied < Len(sources)
  /\ LET s == sources[copied + 1]
     IN  IF Readable(s.path) /\ Len(dir[s.path].content) = s.size
         THEN /\ opened' = [size |-> s.size, got |-> <<>>]
              /\ Goto("copying")
              /\ UNCHANGED <<walked, found, sources, plain, copied>>
         ELSE Reject

CopyRead == pc = "copying" /\ ReadPiece(sources[copied + 1].path)

(* Mutant: the second pass does not compare the hash. *)
NoRehashMutant(s) == AtEnd(s.path)

(* The second read gave the recorded bytes and nothing follows them.       *)
Unchanged(s) == AtEnd(s.path) /\ opened.got = s.hash

CopyEnd ==
  /\ pc = "copying"
  /\ Len(opened.got) = opened.size
  /\ IF Unchanged(sources[copied + 1])
     THEN /\ plain' = plain \o opened.got
          /\ copied' = copied + 1
          /\ opened' = Closed
          /\ Goto("copy")
          /\ UNCHANGED <<walked, found, sources>>
     ELSE Reject

(* padding_target: for a bucket the next power of two. *)
PaddedLength(len) ==
  CASE setting.padding.kind = "none" -> len
    [] setting.padding.kind = "bucket" ->
         LET power[n \in 0..len] == IF n = 0 THEN 1 ELSE 2 * power[n - 1]
         IN  CHOOSE p \in {power[n] : n \in 0..len} : len <= p /\ p < 2 * len
    [] setting.padding.kind = "fixed" ->
         IF setting.padding.size < len THEN len ELSE setting.padding.size

Pad ==
  /\ pc = "copy"
  /\ copied = Len(sources)
  /\ LET len == DataStart(sources) + Len(plain)
     IN  plain' = plain \o [i \in 1..PaddedLength(len) - len |-> Zero]
  /\ Goto("encrypt")
  /\ UNCHANGED <<walked, found, sources, opened, copied>>

(* What the reader will find. *)
Payload == [readable |-> TRUE, manifest |-> BuildManifest(sources),
            data |-> plain]

(* encrypt_file_*_with_content_type on the temporary file, which no other  *)
(* program knows; the output path changes as AtomicOutput says of Unix: at *)
(* once, after which the command may still fail before it reports.         *)
Encrypt ==
  /\ pc = "encrypt"
  /\ \/ /\ out' = Payload
        /\ pc' = "encrypted"
        /\ UNCHANGED <<work, temp, ioFailed>>
     \/ Reject

EncryptReturns ==
  /\ pc = "encrypted"
  /\ \/ /\ pc' = "ok"
        /\ temp' = "none"
        /\ UNCHANGED <<work, out, ioFailed>>
     \/ Reject
-----------------------------------------------------------------------------
IOError ==
  /\ pc \notin Final
  /\ pc' = "error"
  /\ temp' = "none"
  /\ ioFailed' = TRUE
  /\ UNCHANGED <<work, out>>

(* The process is killed: the plaintext temporary file stays. *)
Kill ==
  /\ pc \notin Final
  /\ pc' = "crashed"
  /\ UNCHANGED <<work, temp, out, ioFailed>>

IsOpen(p) ==
  \/ pc = "hashing" /\ p = Sorted[Len(sources) + 1]
  \/ pc = "copying" /\ p = sources[copied + 1].path

(* Another program writes to a file in place, or creates or removes one.   *)
EditDirectory(p) ==
  /\ pc \notin Final
  /\ edits < MaxEdits
  /\ edits' = edits + 1
  /\ LET c == dir[p].content
     IN  \/ /\ Readable(p)
            /\ \/ /\ Len(c) < MaxSize
                  /\ \E b \in Byte : dir' = [dir EXCEPT ![p].content = Append(c, b)]
               \/ \E n \in 0..Len(c) - 1 :
                    dir' = [dir EXCEPT ![p].content = SubSeq(c, 1, n)]
               \/ \E i \in DOMAIN c, b \in Byte :
                    dir' = [dir EXCEPT ![p].content[i] = b]
         \/ /\ dir[p] = Absent
            /\ \E b \in Byte : dir' = [dir EXCEPT ![p] = File(<<b>>)]
         \/ /\ dir[p] # Absent
            /\ ~IsOpen(p)
            /\ dir' = [dir EXCEPT ![p] = Absent]
  /\ UNCHANGED <<pc, work, temp, out, ioFailed, setting>>

Progress ==
  /\ \/ Start \/ (\E p \in AllPaths : WalkPath(p)) \/ WalkDone
     \/ HashOpen \/ HashRead \/ HashEnd \/ WriteManifest
     \/ CopyOpen \/ CopyRead \/ CopyEnd \/ Pad
     \/ Encrypt \/ EncryptReturns
  /\ UNCHANGED world

Fault == (IOError \/ Kill) /\ UNCHANGED world

Next == Progress \/ Fault \/ \E p \in AllPaths : EditDirectory(p)

(* The operating system runs the process; the others stop after MaxEdits.  *)
Spec == Init /\ [][Next]_vars /\ WF_vars(Progress)
-----------------------------------------------------------------------------
TypeOK ==
  /\ pc \in {"start", "walk", "hash", "hashing", "copy", "copying",
             "encrypt", "encrypted"} \cup Final
  /\ dir \in [AllPaths -> [kind : Kinds, content : Contents]]
  /\ found \subseteq walked /\ walked \subseteq AllPaths
  /\ sources \in Seq([path : found, size : Nat, hash : Contents])
  /\ opened \in [size : Nat, got : Contents]
  /\ plain \in Contents
  /\ copied \in 0..Len(sources)
  /\ temp \in {"none", "open"}
  /\ temp = "open" => pc \in {"copy", "copying", "encrypt", "encrypted",
                              "crashed"}
  /\ ioFailed \in BOOLEAN
  /\ edits \in 0..MaxEdits

Written == pc \in {"encrypted", "ok"}

(* CHANGELOG: files that change during packing are rejected.  Whatever the *)
(* other programs do between and during the two passes, the reader accepts *)
(* the bundle: each file's bytes are where the manifest says, with the     *)
(* hash it says.  Paths that differ only in case are the exception that    *)
(* PackedOpens is about.                                                   *)
PackedVerifies == Written /\ DistinctPaths(out.manifest) => Verifies(out)

(* FORMAT.md: before extraction the reader refuses case-colliding paths.   *)
(* CHANGELOG: pack, extract, inspect, list and verify are fully            *)
(* implemented, so what pack reports as a success should open.             *)
PackedOpens == pc = "ok" => Verifies(out)

(* A directory nobody changes is packed exactly: every file once, in the   *)
(* order of the paths, with its whole content.                             *)
StableDirectory ==
  Written /\ edits = 0 =>
    LET present == Listed(PathOrder, {p \in AllPaths : dir[p] # Absent})
        m == out.manifest
    IN  /\ [i \in DOMAIN m |-> m[i].path] = present
        /\ \A i \in DOMAIN m :
             Slice(out.data, m[i]) = dir[m[i].path].content

(* `bundle diff` tells what became of each file.  The old bundle holds the *)
(* files the directory held when the command began; against it the new one *)
(* shows a path exactly when one of the two has it, in the order of the    *)
(* paths, and calls it unchanged exactly when its bytes are the same, even *)
(* when other programs have kept its size.                                 *)
DiffExact ==
  Written =>
    LET Held(p) == IF setting.dir[p].kind \in {"file", "link"}
                   THEN {setting.dir[p].content} ELSE {}
        before == Listed(PathOrder, {p \in AllPaths :
                                       Held(p) # {} /\ ValidPath(p)})
        old == BuildManifest([i \in DOMAIN before |->
                 LET c == setting.dir[before[i]].content
                 IN  [path |-> before[i], size |-> Len(c), hash |-> c]])
        new == out.manifest
        Packed(p) == {Slice(out.data, new[k]) :
                        k \in {j \in DOMAIN new : new[j].path = p}}
        diff == DiffManifests(PathOrder, old, new)
    IN  /\ [i \in DOMAIN diff |-> diff[i].path] =
             Listed(PathOrder, {p \in AllPaths :
               \/ Packed(p) # {}
               \/ p \in {before[i] : i \in DOMAIN before}})
        /\ \A i \in DOMAIN diff :
             LET p == diff[i].path
             IN  /\ diff[i].status = "unchanged" <=> Packed(p) = Held(p)
                 /\ diff[i].status = "added" <=> Held(p) = {}
                 /\ diff[i].status = "removed" <=> Packed(p) = {}
                 /\ diff[i].new_size = {Len(c) : c \in Packed(p)}

(* Every run of the command ends. *)
Terminates == <>(pc \in Final)
=============================================================================
