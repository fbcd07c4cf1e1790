-------------------------------- MODULE ListOps --------------------------------
(***************************************************************************)
(* What std::remove_if, copy_if and erase leave of a list, as a function of    *)
(* the length of what has been gone through.                                 *)
(***************************************************************************)
EXTENDS Naturals, Sequences

\* The entries of seq that are in S, in their order.
Among(seq, S) ==
  LET kept[i \in 0..Len(seq)] ==
        IF i = 0 THEN <<>>
        ELSE IF seq[i] \in S THEN Append(kept[i - 1], seq[i]) ELSE kept[i - 1]
  IN kept[Len(seq)]

\* The lists in a list, one after the other.
Joined(lists) ==
  LET upTo[i \in 0..Len(lists)] == IF i = 0 THEN <<>> ELSE upTo[i - 1] \o lists[i]
  IN upTo[Len(lists)]
===============================================================================
