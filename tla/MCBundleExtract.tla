-------------------------- MODULE MCBundleExtract --------------------------
(***************************************************************************)
(* Small instance of BundleExtract: bundles of up to three files as the    *)
(* writer lays them out, empty files and a subdirectory included, bundles  *)
(* whose manifest or data is wrong in one way, and output directories with *)
(* something in the way.  In the payloads of Aliased two paths that are    *)
(* written differently lead to one place.                                  *)
(***************************************************************************)
EXTENDS BundleExtract

MCFold(name) == IF name = "A" THEN "a" ELSE name

Source(path, content) ==
  [path |-> path, size |-> Len(content), hash |-> content]

Packed(sources) ==
  [readable |-> TRUE, manifest |-> BuildManifest(sources),
   data |-> DataOf(sources)]

OneFile == Packed(<<Source(<<"a">>, <<1>>)>>)

(* An empty file between two that are not. *)
Nested ==
  Packed(<<Source(<<"a">>, <<1>>), Source(<<"b">>, <<>>),
           Source(<<"d", "a">>, <<2, 1>>)>>)

Colliding == Packed(<<Source(<<"A">>, <<1>>), Source(<<"a">>, <<2>>)>>)

(* A file where another entry needs a directory. *)
FileAndDir == Packed(<<Source(<<"d">>, <<1>>), Source(<<"d", "a">>, <<2>>)>>)

(* A valid layout no writer of this repository makes: shared empty ranges, *)
(* the files in another order than their data.                             *)
Reordered ==
  LET m == Nested.manifest
  IN  [Nested EXCEPT !.manifest = <<m[3], m[2], m[1]>>]

Defective ==
  {[Nested EXCEPT !.readable = FALSE],
   [Nested EXCEPT !.data = <<>>],
   [Nested EXCEPT !.data = Front(@)],
   [Nested EXCEPT !.data[2] = 1],
   [Nested EXCEPT !.manifest[3].offset = 0],
   [Nested EXCEPT !.manifest[2].offset = 9],
   [Nested EXCEPT !.manifest[3].path = <<"..", "a">>],
   [Nested EXCEPT !.manifest[1].size = 2]}

(* `d/a` and `d/./a`; `a` and `a//`, the latter no name for a file.        *)
Aliased ==
  {Packed(<<Source(<<"d", "a">>, <<1>>), Source(<<"d", ".", "a">>, <<2>>)>>),
   Packed(<<Source(<<"a">>, <<1>>), Source(<<"a", "", "">>, <<2>>)>>)}

(* A drive at the front, and where it is an ordinary name. *)
Drive ==
  {Packed(<<Source(<<"c:", "a">>, <<1>>)>>),
   Packed(<<Source(<<"d", "c:">>, <<1>>)>>)}

MCForeign == <<1, 1, 1>>

MCPayloads ==
  {Packed(<<>>), OneFile, [OneFile EXCEPT !.data = @ \o <<Zero, Zero>>],
   Nested, Reordered, Colliding, FileAndDir}
  \cup Defective \cup Aliased \cup Drive

MCNodes == {<<>>, <<"a">>, <<"A">>, <<"b">>, <<"d">>, <<"d", "a">>,
           <<"d", "c:">>}

Nothing == [n \in MCNodes |-> Absent]
Empty == [Nothing EXCEPT ![<<>>] = Dir]
Linked == Node("linked", <<1>>)

MCTrees ==
  {Nothing, Empty, [Nothing EXCEPT ![<<>>] = Symlink],
   [Nothing EXCEPT ![<<>>] = File(<<1>>)]}
  \cup {[Empty EXCEPT ![<<"a">>] = node] :
          node \in {File(<<2>>), Linked, Symlink, Dir}}
  \cup {[Empty EXCEPT ![<<"d">>] = node] : node \in {Dir, File(<<1>>), Symlink}}
=============================================================================
