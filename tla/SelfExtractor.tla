--------------------------- MODULE SelfExtractor ---------------------------
(***************************************************************************)
(* Self-extracting files: what lvau-cli (create_sfx) and lvau-gui          *)
(* (build_sfx_file) append to the stub program, and what the stub          *)
(* (lvau-stub) makes of the end of its own file.                           *)
(*                                                                         *)
(* A file is a record with a kind; its bytes are a few cells, each of      *)
(* which stands for a run of bytes.  The trailer is the payload's length   *)
(* and the magic.                                                          *)
(***************************************************************************)
EXTENDS Naturals, Sequences

StubProgram == [kind |-> "program"]

Cell(file, part) == [file |-> file, part |-> part]

Bytes(file) ==
  IF file.kind = "sfx" THEN file.cells ELSE <<Cell(file, 1), Cell(file, 2)>>

Length(n) == [length |-> n]
Magic == [magic |-> "LVAUSFX1"]

SFX_TRAILER_SIZE == 2

(* of is history: the file that was appended. *)
Executable(file) ==
  [kind |-> "sfx", of |-> file,
   cells |-> Bytes(StubProgram) \o Bytes(file)
             \o <<Length(Len(Bytes(file))), Magic>>]

(* Mutant: the payload is taken from the end of the file, with the trailer. *)
FromEndMutant(cells) ==
  LET trailer == Len(cells) - SFX_TRAILER_SIZE
      start   == Len(cells) - cells[trailer + 1].length
  IN  IF cells[Len(cells)] = Magic
      THEN {SubSeq(cells, start + 1, Len(cells))} ELSE {}

(* extract_payload_from_reader: the payload, or nothing for an error.      *)
ExtractPayload(cells) ==
  IF Len(cells) < SFX_TRAILER_SIZE \/ cells[Len(cells)] # Magic THEN {}
  ELSE LET trailer == Len(cells) - SFX_TRAILER_SIZE
           length  == cells[trailer + 1].length
       IN  IF length > trailer THEN {}
           ELSE {SubSeq(cells, trailer - length + 1, trailer)}
=============================================================================
