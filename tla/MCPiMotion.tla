------------------------------ MODULE MCPiMotion ------------------------------
(* Two documents for the passing run: a line with both rows, and one that     *)
(* turns the page.  One for the other: a capital sign (dot 6, Row B only)     *)
(* first.                                                                    *)
EXTENDS PiMotion

MCText ==
  [line |-> <<Cell({1, 2}), Cell({2}), Newline>>,
   page |-> <<Cell({1}), FormFeed>>]
MCDocs == DOMAIN MCText

SignText == [capital |-> <<Cell({2}), Cell({1})>>]
SignDocs == DOMAIN SignText
===============================================================================
