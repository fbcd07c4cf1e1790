---------------------------- MODULE MCEmbossLink ----------------------------
(* A cell with dots in both rows, and a blank one.                           *)
EXTENDS EmbossLink

MCCells == {{1, 2}, {}}

=============================================================================
