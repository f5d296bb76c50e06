------------------------------ MODULE Completion ------------------------------
(***************************************************************************)
(* Waiting for the kernel's crypto drivers (cryptlib.c).  A session has a  *)
(* cipher request and a hash request, each with a struct cryptodev_result  *)
(* (a completion and an error).  cryptodev_cipher_encrypt and decrypt,     *)
(* cryptodev_hash_update and final hand the request to a driver and call   *)
(* waitfor; cryptodev_hash_reset does not.  The driver calls               *)
(* cryptodev_complete, from an interrupt or another thread, at any time.   *)
(*                                                                         *)
(* The session is locked, so one thread submits; the drivers are external. *)
(***************************************************************************)
EXTENDS Naturals

CONSTANTS
  Unit,        \* the requests of a session: its cipher and its hash
  Hash,        \* those among them that are hashes and can be reset
  Error,       \* error codes of drivers
  MaxSubmits   \* bound on the requests submitted

ASSUME CompletionAssumption ==
  /\ Hash \subseteq Unit
  /\ "ok" \notin Error /\ Error \cap {"EINPROGRESS", "EBUSY"} = {}
  /\ MaxSubmits \in Nat

VARIABLES
  memory,      \* "live" until crypto_destroy_session frees the session, then "free"
  completion,  \* completion.done of each struct cryptodev_result
  err,         \* err of each struct cryptodev_result
  driver,      \* each request: "none", "backlog" or "busy"
  outcome,     \* history: how the driver finished the last request
  waiting,     \* the unit waitfor waits for, or NoUnit
  late,        \* requests of each unit a driver has and no call waits for
  unwaited,    \* history: the units that such a request was left behind for
  ret,         \* what the last call returned
  submits

vars == <<memory, completion, err, driver, outcome, waiting, late, unwaited, ret, submits>>

NoUnit  == "none"
Results == Error \cup {"ok"}
Pending == {"EINPROGRESS", "EBUSY"}   \* a driver has the request

\* No request has been submitted.
Idle ==
  /\ completion = [u \in Unit |-> 0]
  /\ err        = [u \in Unit |-> "ok"]
  /\ driver     = [u \in Unit |-> "none"]
  /\ outcome    = [u \in Unit |-> "ok"]
  /\ waiting    = NoUnit
  /\ late       = [u \in Unit |-> 0]
  /\ unwaited   = {}
  /\ ret        = "ok"
  /\ submits    = 0

Init == memory = "live" /\ Idle

-----------------------------------------------------------------------------
Ready == memory = "live" /\ waiting = NoUnit /\ submits < MaxSubmits

\* reinit_completion, then a call the driver answers at once.
SubmitSync(u) ==
  /\ Ready
  /\ completion' = [completion EXCEPT ![u] = 0]
  /\ \E r \in Results :
       /\ ret' = r
       /\ outcome' = [outcome EXCEPT ![u] = r]
  /\ submits' = submits + 1
  /\ UNCHANGED <<memory, err, driver, waiting, late, unwaited>>

\* waitfor if it took -EBUSY for an error.
SubmitNoBacklog(u) ==
  /\ Ready
  /\ completion' = [completion EXCEPT ![u] = 0]
  /\ \/ driver' = [driver EXCEPT ![u] = "busy"] /\ waiting' = u /\ UNCHANGED ret
     \/ driver' = [driver EXCEPT ![u] = "backlog"] /\ ret' = "EBUSY" /\ UNCHANGED waiting
  /\ submits' = submits + 1
  /\ UNCHANGED <<memory, err, outcome, late, unwaited>>

\* The driver takes the request (-EINPROGRESS), or puts it on its backlog
\* (-EBUSY, since CRYPTO_TFM_REQ_MAY_BACKLOG is set): waitfor waits.
SubmitAsync(u) ==
  /\ Ready
  /\ completion' = [completion EXCEPT ![u] = 0]
  /\ \E d \in {"busy", "backlog"} : driver' = [driver EXCEPT ![u] = d]
  /\ waiting' = u
  /\ submits' = submits + 1
  /\ UNCHANGED <<memory, err, outcome, ret, late, unwaited>>

\* wait_for_completion returns; waitfor returns cr->err.  If it was another
\* answer that woke it, the driver keeps the request.
Wake ==
  /\ waiting # NoUnit
  /\ completion[waiting] > 0
  /\ completion' = [completion EXCEPT ![waiting] = @ - 1]
  /\ ret' = err[waiting]
  /\ waiting' = NoUnit
  /\ late' = [late EXCEPT ![waiting] = IF driver[waiting] = "none" THEN @ ELSE @ + 1]
  /\ driver' = [driver EXCEPT ![waiting] = "none"]
  /\ UNCHANGED <<memory, err, outcome, unwaited, submits>>

\* cryptodev_hash_reset, if the driver answers crypto_ahash_init at once.
Reset(u) ==
  /\ Ready
  /\ u \in Hash
  /\ \E r \in Results : ret' = r
  /\ submits' = submits + 1
  /\ UNCHANGED <<memory, completion, err, driver, outcome, waiting, late, unwaited>>

\* A driver has a request of u and nobody will wait for it.
LeaveBehind(u) ==
  /\ late'     = [late EXCEPT ![u] = @ + 1]
  /\ unwaited' = unwaited \cup {u}
  /\ submits'  = submits + 1

\* cryptodev_hash_reset, if the driver takes the request or puts it on its
\* backlog: it does not wait, and returns -EINPROGRESS or -EBUSY as an error.
ResetLate(u) ==
  /\ Ready
  /\ u \in Hash
  /\ ret' \in Pending
  /\ LeaveBehind(u)
  /\ UNCHANGED <<memory, completion, err, driver, outcome, waiting>>

\* What is left for the next session: a driver that still has a request of a
\* session that is freed may overwrite whatever gets the memory next.
Freed == unwaited' = IF \E u \in Unit : late[u] > 0 THEN Unit ELSE unwaited

\* crypto_destroy_session frees the session and its requests.
Destroy ==
  /\ memory = "live"
  /\ waiting = NoUnit
  /\ memory' = "free"
  /\ Freed
  /\ UNCHANGED <<completion, err, driver, outcome, waiting, late, ret, submits>>

-----------------------------------------------------------------------------
(* cryptodev_complete, called by the driver with e.                        *)

\* The callback if it completed on every notification ...
CompleteAlways(u, e) ==
  /\ err' = [err EXCEPT ![u] = IF e = "EINPROGRESS" THEN "ok" ELSE e]
  /\ completion' = [completion EXCEPT ![u] = @ + 1]

\* ... or not on errors.
CompleteSuccess(u, e) ==
  IF e # "ok"
    THEN UNCHANGED <<completion, err>>
    ELSE /\ err' = [err EXCEPT ![u] = e]
         /\ completion' = [completion EXCEPT ![u] = @ + 1]

Complete(u, e) ==
  IF e = "EINPROGRESS"
    THEN UNCHANGED <<completion, err>>
    ELSE /\ err' = [err EXCEPT ![u] = e]
         /\ completion' = [completion EXCEPT ![u] = @ + 1]

\* A request leaves the backlog: the driver says so with -EINPROGRESS.
DriverStart(u) ==
  /\ driver[u] = "backlog"
  /\ driver' = [driver EXCEPT ![u] = "busy"]
  /\ Complete(u, "EINPROGRESS")
  /\ UNCHANGED <<memory, outcome, waiting, ret, submits, late, unwaited>>

DriverFinish(u) ==
  /\ driver[u] = "busy"
  /\ driver' = [driver EXCEPT ![u] = "none"]
  /\ \E r \in Results :
       /\ outcome' = [outcome EXCEPT ![u] = r]
       /\ Complete(u, r)
  /\ UNCHANGED <<memory, waiting, ret, submits, late, unwaited>>

\* A driver finishes a request no call waits for (that one left the backlog
\* earlier changes nothing), and completes all the same.
LateFinish(u) ==
  /\ late[u] > 0
  /\ late' = [late EXCEPT ![u] = @ - 1]
  /\ \E r \in Results : Complete(u, r)
  /\ UNCHANGED <<memory, driver, outcome, waiting, ret, submits, unwaited>>

-----------------------------------------------------------------------------
Driver == \E u \in Unit : DriverStart(u) \/ DriverFinish(u) \/ LateFinish(u)

Next ==
  \/ \E u \in Unit : SubmitSync(u) \/ SubmitAsync(u) \/ Reset(u) \/ ResetLate(u)
  \/ Wake \/ Destroy
  \/ Driver

Spec == Init /\ [][Next]_vars

-----------------------------------------------------------------------------
(* Properties.                                                             *)

(* cryptodev_hash_reset is excepted by name: what follows it when a driver  *)
(* answers crypto_ahash_init later (the units in unwaited) is not promised.*)

\* When no call is waiting, no driver works on a request of the session: its
\* buffers can be released, the request reused and the session freed.  Not so
\* for a hash that cryptodev_hash_reset left with a driver: it takes
\* -EINPROGRESS and -EBUSY for errors and does not wait.
NothingInFlightAfterReturn ==
  waiting = NoUnit => \A u \in Unit \ unwaited : driver[u] = "none" /\ late[u] = 0

\* A waiter is released by the request it waits for, with that request's
\* result: not by the notification that it left the backlog, and not by an
\* earlier request of the session.  A reset of the same hash that a driver
\* carries out late may release it instead, which is excepted: the property
\* rests on drivers answering crypto_ahash_init at once.
WaiterGetsItsResult ==
  waiting # NoUnit /\ waiting \notin unwaited /\ completion[waiting] > 0 =>
    driver[waiting] = "none" /\ err[waiting] = outcome[waiting]

\* Every call that waits for a driver returns.
WaitEnds == waiting # NoUnit ~> waiting = NoUnit
=============================================================================
