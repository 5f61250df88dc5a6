---------------------------- MODULE MC_DSLBuilder ----------------------------
(***************************************************************************)
(* Two Float objects, one literal, addition, one comparison, values      *)
(* modulo 3, and three kernel shapes: three straight-line calls of any    *)
(* kind (a copy then an update of either side, two uniform stores, a      *)
(* receive), a Where with an else-branch, and a Where nested in an If     *)
(* with an else-branch after it.                                          *)
(***************************************************************************)
EXTENDS DSLBuilder

CONSTANTS a, b

MCObjects == {a, b}
MCOps == {"ADD"}
MCCmpOps == {"LT"}

MCPrograms ==
    { <<"any", "any", "any">>,
      <<"new", "where", "add", "else", "assign", "end", "store">>,
      <<"new", "if", "where", "add", "end", "else", "assign", "end", "store">> }

\* The two objects are interchangeable: nothing in the builder depends on
\* which is constructed first.
ObjectSymmetry == Permutations(MCObjects)
=============================================================================
