-------------------------- MODULE MCEmbossPipeline --------------------------
EXTENDS EmbossPipeline

\* A blank cell, Row A only, Row B only, both.
MCCells == {{}, {1}, {2}, {1, 2}}
=============================================================================
