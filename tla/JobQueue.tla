------------------------------- MODULE JobQueue -------------------------------
(***************************************************************************)
(* What the asynchronous interface (CIOCASYNCCRYPT, CIOCASYNCFETCH)        *)
(* promises, without rings, items, locks or a worker: a bounded queue of   *)
(* jobs that complete in the order they were submitted, each with one      *)
(* result, and are handed out in that order, each once, to whichever       *)
(* thread asks first.                                                      *)
(***************************************************************************)
EXTENDS Naturals, Sequences

CONSTANTS
  Thread,     \* application threads
  Job,        \* contents of a job (a struct kernel_crypt_op)
  Outcome,    \* the results crypto_run may have for each job
  NoAnswer,   \* "nothing fetched"
  Capacity    \* jobs the queue can hold (MAX_COP_RINGSIZE)

VARIABLES
  queue,      \* jobs not yet completed, oldest first
  done,       \* completed jobs with their results, oldest first
  fetched     \* what each thread has fetched last

vars == <<queue, done, fetched>>

Init ==
  /\ queue   = <<>>
  /\ done    = <<>>
  /\ fetched = [t \in Thread |-> NoAnswer]

Submit(j) ==
  /\ Len(queue) + Len(done) < Capacity
  /\ queue' = Append(queue, j)
  /\ UNCHANGED <<done, fetched>>

\* The n oldest jobs complete, each with a result it may have.
Complete(n) ==
  /\ n \in 1..Len(queue)
  /\ \E r \in [1..n -> UNION {Outcome[j] : j \in Job}] :
       /\ \A k \in 1..n : r[k] \in Outcome[queue[k]]
       /\ done' = done \o [k \in 1..n |-> <<queue[k], r[k]>>]
  /\ queue' = SubSeq(queue, n + 1, Len(queue))
  /\ UNCHANGED fetched

Fetch(t) ==
  /\ done # <<>>
  /\ fetched' = [fetched EXCEPT ![t] = Head(done)]
  /\ done' = Tail(done)
  /\ UNCHANGED queue

\* A thread starts another fetch and forgets what it fetched before.
Forget(t) ==
  /\ fetched' = [fetched EXCEPT ![t] = NoAnswer]
  /\ UNCHANGED <<queue, done>>

\* The last descriptor is closed: what is queued is dropped.
Drop ==
  /\ queue' = <<>>
  /\ done'  = <<>>
  /\ UNCHANGED fetched

Next ==
  \/ \E j \in Job : Submit(j)
  \/ \E n \in 1..Capacity : Complete(n)
  \/ \E t \in Thread : Fetch(t) \/ Forget(t)
  \/ Drop

Spec == Init /\ [][Next]_vars
=============================================================================
