------------------------------ MODULE MCAsyncRing ------------------------------
(* Small instances of AsyncRing for TLC.                                   *)
EXTENDS AsyncRing, TLC

CONSTANTS t1, t2, i1, i2, j1, j2

TwoThreads   == {t1, t2}
TwoItems     == {i1, i2}
TwoJobs      == {j1, j2}
Results      == {"ok", "error"}

\* One job always succeeds and the other fails: a result that belongs to
\* another job shows.
Outcomes     == j1 :> {"ok"} @@ j2 :> {"error"}

Symmetry == Permutations(Thread) \cup Permutations(Item)
================================================================================
