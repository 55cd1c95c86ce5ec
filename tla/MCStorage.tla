----------------------------- MODULE MCStorage -----------------------------
(***************************************************************************)
(* Storage with a torrent of seven bytes.  Pieces, blocks and files are cut at  *)
(* different places, and one of the files is empty.                         *)
(***************************************************************************)
EXTENDS Storage

Lengths  == << 1, 3, 0, 3 >>
Starts   == << 0, 1, 4, 4, 7 >>
Bytes    == { 0, 1, 2, 9 }
Text     == [k \in Places |-> << 1, 2, 1, 2, 0, 1, 1 >>[k + 1]]
AllNines == [k \in Places |-> 9]
=============================================================================
