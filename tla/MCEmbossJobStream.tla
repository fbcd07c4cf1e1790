-------------------------- MODULE MCEmbossJobStream --------------------------
(* A two-byte prefix, so that a few bytes reach every header phase.         *)
EXTENDS EmbossJobStream

MCPrefix   == <<"B", "space">>
MCCells    == {"A", "B", "space"}
MCAlphabet == MCCells \cup {"tab", "cr", "lf", "ff"}

=============================================================================
