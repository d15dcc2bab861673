---------------------------- MODULE BundleFormat ----------------------------
(***************************************************************************)
(* The plaintext of a bundle: the length of the manifest, the manifest,    *)
(* the contents of the files one after the other, and padding.             *)
(*                                                                         *)
(* A path in a manifest is the sequence of what stands between its         *)
(* slashes: `d/./a` is <<"d", ".", "a">> and `d//a` is <<"d", "", "a">>.   *)
(* BLAKE3 is ideal: the hash of a content is the content itself.  A        *)
(* payload is [readable, manifest, data]: readable says that the manifest  *)
(* can be decoded to its last byte, data is everything behind it.          *)
(***************************************************************************)
EXTENDS Naturals, Sequences, SequencesExt

CONSTANTS
  Names,             \* what Path::components calls normal, no backslash in it
  Drives,            \* those whose second character is a colon
  FoldName(_),       \* str::to_lowercase
  Byte,              \* byte values of file contents
  Zero,              \* the padding byte, one of Byte
  MAX_MANIFEST_SIZE  \* 16 MiB in the code

(* What Path::components passes over behind the first name. *)
Skipped == {"", "."}

ASSUME BundleAssumption ==
  /\ Drives \subseteq Names
  /\ Names \cap Skipped = {}
  /\ Zero \in Byte
  /\ MAX_MANIFEST_SIZE \in Nat

Contents == Seq(Byte)

(* str::to_lowercase of the whole path. *)
FoldPath(p) == [c \in DOMAIN p |-> FoldName(p[c])]

(* validate_relative_path.  The path does not begin with a separator, a    *)
(* dot or a drive, and no backslash or ".." is in it; empty parts and dots *)
(* behind the first name are not components and are not refused.           *)
ValidPath(p) ==
  /\ p \in Seq(Names \cup Skipped)
  /\ p # <<>> /\ p[1] \in Names \ Drives

(* The members of S in their order. *)
Listed(order, S) ==
  LET upTo[n \in 0..Len(order)] ==
        IF n = 0 THEN <<>>
        ELSE IF order[n] \in S THEN Append(upTo[n - 1], order[n])
        ELSE upTo[n - 1]
  IN  upTo[Len(order)]

(* Path::components: the place a path leads to. *)
Components(p) == Listed(p, Names)

(* The place on a file system that does not tell upper from lower case.    *)
FoldedPlace(p) == FoldPath(Components(p))

(* A manifest grows by a byte for each entry.                              *)
ManifestSize(manifest) == 1 + Len(manifest)

(* data_start: where the contents begin in the payload. *)
DataStart(manifest) == 4 + ManifestSize(manifest)

Slice(data, e) == SubSeq(data, e.offset + 1, e.offset + e.size)

(* build_manifest: the files in the order of the sources, end to end.      *)
BuildManifest(sources) ==
  LET end[k \in 0..Len(sources)] ==
        IF k = 0 THEN 0 ELSE end[k - 1] + sources[k].size
  IN  [k \in DOMAIN sources |->
         [path |-> sources[k].path, size |-> sources[k].size,
          hash |-> sources[k].hash, offset |-> end[k - 1]]]

(* The data of a bundle that holds the sources' contents, without padding. *)
DataOf(sources) == FlattenSeq([k \in DOMAIN sources |-> sources[k].hash])
-----------------------------------------------------------------------------
End(e) == e.offset + e.size

NonEmpty(e) == e.size > 0

(* Mutant: lower-casing is left out. *)
ExactPathsMutant(manifest) ==
  \A i, j \in DOMAIN manifest :
    i # j => manifest[i].path # manifest[j].path

(* No two paths are the same after lower-casing; they are compared as they *)
(* are written, not by the places they lead to.                            *)
DistinctPaths(manifest) ==
  \A i, j \in DOMAIN manifest :
    i # j => FoldPath(manifest[i].path) # FoldPath(manifest[j].path)

(* The numbers of the entries that are not empty, sorted by their start;   *)
(* the sort is unstable, in whichever order it leaves equal ones.          *)
SortedRanges(manifest) ==
  LET ranges == {k \in DOMAIN manifest : NonEmpty(manifest[k])}
  IN  CHOOSE order \in Bijection(1..Cardinality(ranges), ranges) :
        \A i, j \in DOMAIN order :
          i < j => manifest[order[i]].offset <= manifest[order[j]].offset

(* Mutant: ranges that touch count as overlapping.                         *)
TouchingMutant(manifest) ==
  LET ranges == SortedRanges(manifest)
  IN  \A i \in 1..Len(ranges) - 1 :
        End(manifest[ranges[i]]) < manifest[ranges[i + 1]].offset

(* No range that is not empty reaches into the next one.                   *)
NoOverlap(manifest) ==
  LET ranges == SortedRanges(manifest)
  IN  \A i \in 1..Len(ranges) - 1 :
        End(manifest[ranges[i]]) <= manifest[ranges[i + 1]].offset

(***************************************************************************)
(* validate_layout.  A sum that does not fit in u64 is refused there; it   *)
(* also exceeds every payload, so the bound below refuses it.              *)
(***************************************************************************)
ValidLayout(manifest, data) ==
  /\ \A k \in DOMAIN manifest :
       /\ ValidPath(manifest[k].path)
       /\ End(manifest[k]) <= Len(data)
  /\ DistinctPaths(manifest)
  /\ NoOverlap(manifest)

(* The reader's checks between decryption and layout: the payload holds a  *)
(* manifest of an accepted size that decodes without trailing bytes.       *)
Decodes(payload) ==
  /\ payload.readable
  /\ ManifestSize(payload.manifest) <= MAX_MANIFEST_SIZE

(* verify_entry *)
EntryAuthentic(data, e) == Slice(data, e) = e.hash

(* What decrypt_and_open and verify_all accept.                            *)
Verifies(payload) ==
  /\ Decodes(payload)
  /\ ValidLayout(payload.manifest, payload.data)
  /\ \A k \in DOMAIN payload.manifest :
       EntryAuthentic(payload.data, payload.manifest[k])
-----------------------------------------------------------------------------
(* Mutant: the sizes are compared, not the hashes. *)
SizeOnlyMutant(before, after) ==
  IF before = {} THEN "added"
  ELSE IF after = {} THEN "removed"
  ELSE IF {e.size : e \in before} = {e.size : e \in after} THEN "unchanged"
  ELSE "modified"

(* The status of a path with these entries, at most one in each manifest.  *)
DiffStatus(before, after) ==
  IF before = {} THEN "added"
  ELSE IF after = {} THEN "removed"
  ELSE IF {e.hash : e \in before} = {e.hash : e \in after} THEN "unchanged"
  ELSE "modified"

(* diff_manifests: the paths of either manifest in the order of their      *)
(* names; a size that does not apply is {}.  list_bundle has verified both *)
(* bundles, so no path occurs twice in one of them.                        *)
DiffManifests(order, old, new) ==
  LET At(m, p) == {m[k] : k \in {j \in DOMAIN m : m[j].path = p}}
      paths == Listed(order, {old[k].path : k \in DOMAIN old}
                              \cup {new[k].path : k \in DOMAIN new})
  IN  [i \in DOMAIN paths |->
         [path |-> paths[i],
          status |-> DiffStatus(At(old, paths[i]), At(new, paths[i])),
          old_size |-> {e.size : e \in At(old, paths[i])},
          new_size |-> {e.size : e \in At(new, paths[i])}]]
-----------------------------------------------------------------------------
(* What the reader promises of every bundle, stated without the algorithm: *)
(* each file's bytes are inside the data and hash as recorded, and no byte *)
(* belongs to two files.                                                   *)
FilesSound(payload) ==
  LET m == payload.manifest
      bytesOf(k) == m[k].offset + 1..End(m[k])
  IN  /\ \A k \in DOMAIN m :
           /\ ValidPath(m[k].path)
           /\ bytesOf(k) \subseteq DOMAIN payload.data
           /\ m[k].size = 0 => m[k].offset <= Len(payload.data)
           /\ Slice(payload.data, m[k]) = m[k].hash
      /\ \A i, j \in DOMAIN m : i # j => bytesOf(i) \cap bytesOf(j) = {}

(* No two paths lead to one place on any platform. *)
CollisionFree(manifest) ==
  \A i, j \in DOMAIN manifest :
    i # j => FoldedPlace(manifest[i].path) # FoldedPlace(manifest[j].path)

(* Every path is written the one way Path::components would write it.      *)
Normalized(manifest) ==
  \A k \in DOMAIN manifest : Components(manifest[k].path) = manifest[k].path

(* A well-formed bundle: sound files under "normalized, collision-free     *)
(* relative paths".                                                        *)
WellFormed(payload) ==
  /\ FilesSound(payload)
  /\ Normalized(payload.manifest)
  /\ CollisionFree(payload.manifest)
=============================================================================
