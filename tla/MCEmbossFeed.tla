---------------------------- MODULE MCEmbossFeed ----------------------------
EXTENDS EmbossFeed

MCPrefix   == <<"B", "space">>
MCBytes    == {"B", "space"}
MCDotsOf   == [b \in MCBytes |-> IF b = "B" THEN {1, 2} ELSE {}]
MCCells    == {{1, 2}, {}}
MCAlphabet == MCBytes \cup {"lf", "ff"}

=============================================================================
