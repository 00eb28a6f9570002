----------------------- MODULE MCHTMLOptGroupElement -----------------------
(***************************************************************************)
(* One select, two optgroups, so that one can be nested in the other, and  *)
(* an option.  Two labels that differ in white space only.                 *)
(***************************************************************************)
EXTENDS HTMLOptGroupElement

CONSTANTS select, group, inner, option

MCNodes == {select, group, inner, option}

MCLabels == {<<"a", " ", "b">>, <<" ", "a", " ", " ", "b", " ">>}

=============================================================================
