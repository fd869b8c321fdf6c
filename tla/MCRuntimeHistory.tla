-------------------------- MODULE MCRuntimeHistory ---------------------------
(***************************************************************************)
(* An instance of RuntimeHistory for TLC: two tests and two workers, a     *)
(* history of at most two runs, and enough runs to exceed the bound of the *)
(* second process.  A mixed file may hold lists beyond any bound.  The     *)
(* tests are interchangeable.                                              *)
(***************************************************************************)
EXTENDS RuntimeHistory, TLC

Overlong == {[t \in Tests |-> <<1, 2, 3, 1, 2, 3>>]}

Symmetry == Permutations(Tests)
==============================================================================
