------------------------------ MODULE WriteOnce ------------------------------
(***************************************************************************)
(* What utils/delayed_init.rs promises to its callers: a cell that an      *)
(* external writer fills at most once, with a value or with the news that  *)
(* the writer is gone, and that every reader sees the same way from then   *)
(* on.  Locks, wakers and polls are invisible at this level.               *)
(***************************************************************************)
CONSTANTS Getters,      \* the callers of DelayedInit::get
          Results,      \* what get may return: Ok(value) or Err(InitDropped)
          None          \* "nothing yet"

VARIABLES cell,         \* the value of the DelayedInit, None while unset
          got           \* got[g]: the last result handed to getter g

Init == /\ cell = None
        /\ got = [g \in Getters |-> None]

\* The writer sends a value, or is dropped without sending one.
Fill(r) == /\ cell = None
           /\ cell' = r
           /\ got' = got

\* A get returns; "Calling `get` again ... is guaranteed to return ... the same value".
Return(g) == /\ cell # None
             /\ got' = [got EXCEPT ![g] = cell]
             /\ cell' = cell

Next == \/ \E r \in Results : Fill(r)
        \/ \E g \in Getters : Return(g)

Spec == Init /\ [][Next]_<<cell, got>>
==============================================================================
