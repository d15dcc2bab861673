---------------------------- MODULE MCBundlePack ----------------------------
(***************************************************************************)
(* Small instance of BundlePack: a directory with two files of up to two   *)
(* bytes, read a byte at a time, which other programs change up to         *)
(* MaxEdits times; links, special files and names that are not portable    *)
(* among them; for PackedOpens two names that differ in case.              *)
(***************************************************************************)
EXTENDS BundlePack

CONSTANT Old  \* an existing output file

MCFold(name) == IF name = "A" THEN "a" ELSE name

(* The second name is not portable; the last is free at first, and with it *)
(* the manifest would be too long.                                         *)
MCPathOrder == << <<"a">>, <<"c:">>, <<"d", "b">>, <<"e">> >>

MCDirectory(one, two, three) ==
  [p \in {MCPathOrder[i] : i \in 1..4} |->
     CASE p = <<"a">> -> one
       [] p = <<"c:">> -> two
       [] p = <<"d", "b">> -> three
       [] p = <<"e">> -> Absent]

MCDirectories ==
  {MCDirectory(one, Absent, three) :
     one \in {Absent, File(<<2, 1>>)},
     three \in {Absent, File(<<>>), File(<<1>>), Special,
                Entry("link", <<2>>)}}
  \cup {MCDirectory(Absent, File(<<1>>), File(<<2>>))}

(* A case-sensitive file system. *)
MCCaseOrder == << <<"A">>, <<"a">> >>

MCCaseDirectories ==
  {[p \in {<<"A">>, <<"a">>} |->
      IF p = <<"A">> THEN File(<<1>>) ELSE File(<<2>>)]}

MCPaddings ==
  {[kind |-> "none", size |-> 0], [kind |-> "bucket", size |-> 0],
   [kind |-> "fixed", size |-> 10]}
=============================================================================
