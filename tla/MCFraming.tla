------------------------------ MODULE MCFraming ------------------------------
(***************************************************************************)
(* Framing with a message of one byte and one of two, whose bytes are not     *)
(* those of a length.                                                       *)
(***************************************************************************)
EXTENDS Framing

ShortAndLong == { << 1 >>, << 3, 7 >> }
=============================================================================
