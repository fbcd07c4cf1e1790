----------------------------- MODULE TactileLine -----------------------------
(***************************************************************************)
(* What the embosser's motor pipeline promises about one line of paper,    *)
(* with no carriage, no queue and no callbacks: cells are accepted at      *)
(* increasing columns, each of their dots is struck once and at its own    *)
(* place (Row B one offset to the right of Row A), the paper moves on only *)
(* when every accepted dot is there, and nothing is accepted or struck     *)
(* without power, nor powered while a fault stands.                        *)
(***************************************************************************)
EXTENDS Integers

CONSTANTS Cells, RowADots, RowBDots, RowBOffset

VARIABLES
  powered,  \* may the motors move?
  faulted,  \* has a fault cut the power, not yet cleared?
  line,     \* cells accepted on the open line, with their column
  marks,    \* dots on the paper: <<dot, column>>
  again     \* dots struck when they were on the paper already: none, ever

vars == <<powered, faulted, line, marks, again>>

Wanted ==
  UNION {((e.cell \cap RowADots) \X {e.at})
           \cup ((e.cell \cap RowBDots) \X {e.at + RowBOffset}) : e \in line}

\* One more cell, to the right of all the others.
Accept ==
  /\ powered
  /\ \E e \in line' \ line : /\ line' = line \cup {e}
                            /\ e.cell \in Cells
                            /\ \A f \in line : f.at < e.at
  /\ UNCHANGED <<powered, faulted, marks, again>>

\* Some dots, each for the first time: no step adds to again.
Strike ==
  /\ powered
  /\ marks \subseteq marks' /\ marks' \subseteq Wanted
  /\ UNCHANGED <<powered, faulted, line, again>>

LineFeed ==
  /\ powered /\ marks = Wanted
  /\ line' = {} /\ marks' = {}
  /\ UNCHANGED <<powered, faulted, again>>

Cut ==
  /\ faulted' = TRUE /\ powered' = FALSE
  /\ UNCHANGED <<line, marks, again>>

\* A cleared fault gives up the interrupted line.
Clear ==
  /\ faulted /\ ~powered
  /\ faulted' = FALSE /\ powered' \in BOOLEAN
  /\ line' = {} /\ marks' = {}
  /\ UNCHANGED again

Power ==
  /\ ~faulted /\ powered' \in BOOLEAN
  /\ UNCHANGED <<faulted, line, marks, again>>

\* The pipeline alone starts powered, under the link it waits to be armed.
Init ==
  /\ powered \in BOOLEAN /\ faulted = FALSE
  /\ line = {} /\ marks = {} /\ again = {}

Next == Accept \/ Strike \/ LineFeed \/ Cut \/ Clear \/ Power

Spec == Init /\ [][Next]_vars
=============================================================================
