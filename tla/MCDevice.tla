-------------------------------- MODULE MCDevice --------------------------------
(* A small instance of Device for TLC: one file and two descriptor numbers. *)
EXTENDS Device, TLC

CONSTANTS t1, t2, t3, i1, i2, j1, f1, f2

Threads  == {t1, t2, t3}
Items    == {i1, i2}
Fds      == {f1, f2}

\* What a job contains makes no difference to the safety of the ring.
Jobs1    == {j1}
Results  == {"ok"}
Outcomes == j1 :> {"ok"}

DeviceSymmetry == Permutations(Thread) \cup Permutations(Item) \cup Permutations(Fd)
================================================================================
