---------------------------- MODULE MCSessionTable ----------------------------
(* Small instances of SessionTable for TLC.                                *)
EXTENDS SessionTable, TLC

CONSTANTS t1, t2, s1, s2, x1, x2, x3

TwoThreads  == {t1, t2}
TwoSessions  == {s1, s2}
TwoSids     == {x1, x2}
ThreeSids   == {x1, x2, x3}

\* Threads, addresses and identifiers are interchangeable.
Symmetry == Permutations(Thread) \cup Permutations(Session) \cup Permutations(Sid)

AllCalls      == {"gsession", "fsession", "info", "crypt", "authcrypt", "async",
                  "job", "cphash"}
CopyCalls     == {"gsession", "crypt", "cphash"}
LifeCalls     == {"gsession", "fsession"}
=============================================================================
