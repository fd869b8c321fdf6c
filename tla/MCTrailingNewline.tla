------------------------- MODULE MCTrailingNewline ---------------------------
(***************************************************************************)
(* TrailingNewline on all files of up to MaxLines lines.                   *)
(***************************************************************************)
EXTENDS TrailingNewline

CONSTANT MaxLines

AllFiles == {f \in UNION {[1..n -> Lines] : n \in 0..MaxLines} :
                \A i \in 1..Len(f) : f[i].nl \/ i = Len(f)}
==============================================================================
