------------------------------ MODULE AsyncRing ------------------------------
(***************************************************************************)
(* The asynchronous interface of one open file: the free, todo and done    *)
(* lists of struct crypt_priv, each with its own mutex, the work item      *)
(* cryptask that moves jobs between them, and poll on user_waiter.         *)
(*                                                                         *)
(* A section under one of the list mutexes never blocks inside, so it is   *)
(* one step; a step also contains what the thread does to its own          *)
(* variables up to the next lock, queue_work or wake-up.  Locals of a call *)
(* are reset when it returns.                                              *)
(***************************************************************************)
EXTENDS Naturals, Sequences, FiniteSets, Functions

CONSTANTS
  Thread,      \* application threads that submit, fetch and poll
  Item,        \* addresses kzalloc can return for a todo_list_item
  Job,         \* contents of a struct kernel_crypt_op
  Result,      \* what crypto_run returns: "ok" (0) or an error
  Outcome,     \* the results it may have for each job
  NoJob,       \* a zeroed kcop, or none
  NoItem,      \* a thread holds no item
  NoAnswer,    \* a thread has fetched nothing
  DefRing,     \* DEF_COP_RINGSIZE
  MaxRing      \* MAX_COP_RINGSIZE

ASSUME RingAssumption ==
  /\ DefRing \in Nat /\ MaxRing \in Nat /\ DefRing <= MaxRing
  /\ NoItem \notin Item /\ NoJob \notin Job
  /\ "ok" \in Result
  /\ Outcome \in [Job -> SUBSET Result]
  /\ NoAnswer \notin Job \X Result

VARIABLES
  file,        \* "closed", "open", "cancel" or "free" (cryptodev_release)
  free,        \* pcr->free.list, first entry first
  todo,        \* pcr->todo.list
  done,        \* pcr->done.list
  itemcount,   \* pcr->itemcount
  alloc,       \* items between kzalloc and kfree
  kcop,        \* item->kcop
  result,      \* item->result
  pending,     \* cryptask is queued on cryptodev_wq
  wpc,         \* where cryptask_routine is
  tmp,         \* its local list
  ran,         \* how many items of tmp it has handled
  pc,          \* where each thread is
  item,        \* the item it holds
  job,         \* the kcop it submits
  answer,      \* the kcop and result it fetched
  want,        \* what it polls for: "in" or "out"
  woken        \* its wait queue entry has been triggered

lists  == <<free, todo, done, itemcount, alloc, kcop, result>>
worker == <<pending, wpc, tmp, ran>>
polls  == <<want, woken>>
vars   == <<file, lists, worker, pc, item, job, answer, polls>>

Init ==
  /\ file      = "closed"
  /\ free      = <<>>
  /\ todo      = <<>>
  /\ done      = <<>>
  /\ itemcount = 0
  /\ alloc     = {}
  /\ kcop      = [i \in Item |-> NoJob]
  /\ result    = [i \in Item |-> "ok"]
  /\ pending   = FALSE
  /\ wpc       = "idle"
  /\ tmp       = <<>>
  /\ ran       = 0
  /\ pc        = [t \in Thread |-> "idle"]
  /\ item      = [t \in Thread |-> NoItem]
  /\ job       = [t \in Thread |-> NoJob]
  /\ answer    = [t \in Thread |-> NoAnswer]
  /\ want      = [t \in Thread |-> "none"]
  /\ woken     = [t \in Thread |-> FALSE]

-----------------------------------------------------------------------------
(* A thread may call into the driver while the file is open.  The early    *)
(* returns of crypto_async_run and crypto_async_fetch (-EINVAL for         *)
(* COP_FLAG_NO_ZC, -EBUSY) and of the copies from and to the user change   *)
(* nothing here: they are stuttering steps.                                *)

Ready(t) == file = "open" /\ pc[t] = "idle"

\* The wait queue if poll_wait came after the lists were looked at.
PollingLate == {t \in Thread : pc[t] = "sleep"}

\* Threads between poll_wait and the end of their poll.
Polling == {t \in Thread : pc[t] \in {"check", "count", "sleep"}}

\* wake_up_interruptible(&pcr->user_waiter).
WakeUp == woken' = [t \in Thread |-> woken[t] \/ t \in Polling]

-----------------------------------------------------------------------------
(* CIOCASYNCCRYPT: crypto_async_run.                                       *)

\* crypto_async_run without the list_del.
RunTakeKeepsListed(t, j) ==
  /\ Ready(t)
  /\ free # <<>>
  /\ item' = [item EXCEPT ![t] = Head(free)]
  /\ job'  = [job EXCEPT ![t] = j]
  /\ pc'   = [pc EXCEPT ![t] = "add"]
  /\ UNCHANGED <<file, lists, worker, answer, polls>>

\* free.lock: the first free item is taken off the list.
RunTake(t, j) ==
  /\ Ready(t)
  /\ free # <<>>
  /\ item' = [item EXCEPT ![t] = Head(free)]
  /\ free' = Tail(free)
  /\ job'  = [job EXCEPT ![t] = j]
  /\ pc'   = [pc EXCEPT ![t] = "add"]
  /\ UNCHANGED <<file, todo, done, itemcount, alloc, kcop, result, worker,
                 answer, polls>>

\* A ring that grows by one item too many.
RunGrowTooFar(t, j) ==
  /\ Ready(t)
  /\ free = <<>>
  /\ itemcount <= MaxRing
  /\ itemcount' = itemcount + 1
  /\ job' = [job EXCEPT ![t] = j]
  /\ pc'  = [pc EXCEPT ![t] = "alloc"]
  /\ UNCHANGED <<file, free, todo, done, alloc, kcop, result, worker, item,
                 answer, polls>>

\* crypto_async_run that counts a new item but does not allocate it.
RunGrowNoAlloc(t, j) ==
  /\ Ready(t)
  /\ free = <<>>
  /\ itemcount < MaxRing
  /\ itemcount' = itemcount + 1
  /\ job' = [job EXCEPT ![t] = j]
  /\ pc'  = [pc EXCEPT ![t] = "add"]
  /\ UNCHANGED <<file, free, todo, done, alloc, kcop, result, worker, item,
                 answer, polls>>

\* free.lock: no item is free, but the ring may grow.
RunGrow(t, j) ==
  /\ Ready(t)
  /\ free = <<>>
  /\ itemcount < MaxRing
  /\ itemcount' = itemcount + 1
  /\ job' = [job EXCEPT ![t] = j]
  /\ pc'  = [pc EXCEPT ![t] = "alloc"]
  /\ UNCHANGED <<file, free, todo, done, alloc, kcop, result, worker, item,
                 answer, polls>>

\* kzalloc of a new, zeroed item, outside the lock.
RunAlloc(t) ==
  /\ pc[t] = "alloc"
  /\ \E i \in Item \ alloc :
       /\ alloc'  = alloc \cup {i}
       /\ kcop'   = [kcop EXCEPT ![i] = NoJob]
       /\ result' = [result EXCEPT ![i] = "ok"]
       /\ item'   = [item EXCEPT ![t] = i]
  /\ pc' = [pc EXCEPT ![t] = "add"]
  /\ UNCHANGED <<file, free, todo, done, itemcount, worker, job, answer, polls>>

\* kzalloc fails: return -EFAULT.  itemcount keeps the item it counted.
RunNoMemory(t) ==
  /\ pc[t] = "alloc"
  /\ job' = [job EXCEPT ![t] = NoJob]
  /\ pc'  = [pc EXCEPT ![t] = "idle"]
  /\ UNCHANGED <<file, lists, worker, item, answer, polls>>

\* memcpy into the item, then todo.lock: list_add_tail.
RunAdd(t) ==
  /\ pc[t] = "add"
  /\ kcop' = [kcop EXCEPT ![item[t]] = job[t]]
  /\ todo' = Append(todo, item[t])
  /\ item' = [item EXCEPT ![t] = NoItem]
  /\ job'  = [job EXCEPT ![t] = NoJob]
  /\ pc'   = [pc EXCEPT ![t] = "queue"]
  /\ UNCHANGED <<file, free, done, itemcount, alloc, result, worker, answer, polls>>

\* The work item is queued only if the worker is not running.
RunQueueIfIdle(t) ==
  /\ pc[t] = "queue"
  /\ pending' = (pending \/ wpc = "idle")
  /\ pc' = [pc EXCEPT ![t] = "idle"]
  /\ UNCHANGED <<file, lists, wpc, tmp, ran, item, job, answer, polls>>

\* queue_work: a work item that is already queued stays queued once.
RunQueue(t) ==
  /\ pc[t] = "queue"
  /\ pending' = TRUE
  /\ pc' = [pc EXCEPT ![t] = "idle"]
  /\ UNCHANGED <<file, lists, wpc, tmp, ran, item, job, answer, polls>>

-----------------------------------------------------------------------------
(* CIOCASYNCFETCH: crypto_async_fetch.                                     *)

\* done.lock: the first completed item is taken off the list.
FetchTake(t) ==
  /\ Ready(t)
  /\ done # <<>>
  /\ item' = [item EXCEPT ![t] = Head(done)]
  /\ done' = Tail(done)
  /\ pc'   = [pc EXCEPT ![t] = "copy"]
  /\ UNCHANGED <<file, free, todo, itemcount, alloc, kcop, result, worker,
                 job, answer, polls>>

\* memcpy out of the item and its result.
FetchCopy(t) ==
  /\ pc[t] = "copy"
  /\ answer' = [answer EXCEPT ![t] = <<kcop[item[t]], result[item[t]]>>]
  /\ pc'     = [pc EXCEPT ![t] = "give"]
  /\ UNCHANGED <<file, lists, worker, item, job, polls>>

\* crypto_async_fetch that forgets the item.
FetchGiveNothing(t) ==
  /\ pc[t] = "give"
  /\ item' = [item EXCEPT ![t] = NoItem]
  /\ pc'   = [pc EXCEPT ![t] = "wake"]
  /\ UNCHANGED <<file, lists, worker, job, answer, polls>>

\* free.lock: the item goes to the end of the free list.
FetchGive(t) ==
  /\ pc[t] = "give"
  /\ free' = Append(free, item[t])
  /\ item' = [item EXCEPT ![t] = NoItem]
  /\ pc'   = [pc EXCEPT ![t] = "wake"]
  /\ UNCHANGED <<file, todo, done, itemcount, alloc, kcop, result, worker, job,
                 answer, polls>>

\* Pollers are woken for POLLOUT and the answer is returned to the user.
FetchWake(t) ==
  /\ pc[t] = "wake"
  /\ WakeUp
  /\ answer' = [answer EXCEPT ![t] = NoAnswer]
  /\ pc' = [pc EXCEPT ![t] = "idle"]
  /\ UNCHANGED <<file, lists, worker, item, job, want>>

-----------------------------------------------------------------------------
(* cryptask_routine, run by the workqueue.                                 *)

\* The workqueue clears the pending bit and calls the function; it never
\* runs one work item twice at the same time.
WorkBegin ==
  /\ wpc = "idle"
  /\ pending
  /\ pending' = FALSE
  /\ wpc' = "cut"
  /\ UNCHANGED <<file, lists, tmp, ran, pc, item, job, answer, polls>>

\* todo.lock: list_cut_position moves all jobs to the local list.
WorkCut ==
  /\ wpc = "cut"
  /\ tmp'  = todo
  /\ todo' = <<>>
  /\ ran'  = 0
  /\ wpc'  = "run"
  /\ UNCHANGED <<file, free, done, itemcount, alloc, kcop, result, pending, pc,
                 item, job, answer, polls>>

\* item->result = crypto_run(...) for the next item, without a lock.
WorkRun ==
  /\ wpc = "run"
  /\ ran < Len(tmp)
  /\ \E r \in Outcome[kcop[tmp[ran + 1]]] :
       result' = [result EXCEPT ![tmp[ran + 1]] = r]
  /\ ran' = ran + 1
  /\ UNCHANGED <<file, free, todo, done, itemcount, alloc, kcop, pending, wpc,
                 tmp, pc, item, job, answer, polls>>

\* list_splice instead of list_splice_tail.
WorkSpliceHead ==
  /\ wpc = "run"
  /\ ran = Len(tmp)
  /\ done' = tmp \o done
  /\ tmp'  = <<>>
  /\ ran'  = 0
  /\ wpc'  = "wake"
  /\ UNCHANGED <<file, free, todo, itemcount, alloc, kcop, result, pending, pc,
                 item, job, answer, polls>>

\* done.lock: list_splice_tail of the handled jobs.
WorkSplice ==
  /\ wpc = "run"
  /\ ran = Len(tmp)
  /\ done' = done \o tmp
  /\ tmp'  = <<>>
  /\ ran'  = 0
  /\ wpc'  = "wake"
  /\ UNCHANGED <<file, free, todo, itemcount, alloc, kcop, result, pending, pc,
                 item, job, answer, polls>>

\* cryptask_routine without its wake-up.
WorkSilent ==
  /\ wpc = "wake"
  /\ wpc' = "idle"
  /\ UNCHANGED <<file, lists, pending, tmp, ran, pc, item, job, answer, polls>>

\* wake_up_interruptible for POLLIN.
WorkWake ==
  /\ wpc = "wake"
  /\ WakeUp
  /\ wpc' = "idle"
  /\ UNCHANGED <<file, lists, pending, tmp, ran, pc, item, job, answer, want>>

-----------------------------------------------------------------------------
(* poll: cryptodev_poll and the loop of the system call around it.         *)

\* poll_wait puts the thread on the wait queue before it looks at the lists.
PollStart(t, e) ==
  /\ Ready(t)
  /\ want'  = [want EXCEPT ![t] = e]
  /\ woken' = [woken EXCEPT ![t] = FALSE]
  /\ pc'    = [pc EXCEPT ![t] = "check"]
  /\ UNCHANGED <<file, lists, worker, item, job, answer>>

\* The system call returns and its wait queue entry is removed.
PollReturn(t) ==
  /\ pc'    = [pc EXCEPT ![t] = "idle"]
  /\ want'  = [want EXCEPT ![t] = "none"]
  /\ woken' = [woken EXCEPT ![t] = FALSE]

\* Nothing to report yet: the thread goes on to point p.
PollOn(t, p) == pc' = [pc EXCEPT ![t] = p] /\ UNCHANGED polls

\* list_empty_careful(&pcr->done.list), without the lock.
PollIn(t) ==
  /\ pc[t] = "check"
  /\ want[t] = "in"
  /\ IF done # <<>> THEN PollReturn(t) ELSE PollOn(t, "sleep")
  /\ UNCHANGED <<file, lists, worker, item, job, answer>>

\* list_empty_careful(&pcr->free.list), without the lock.
PollOut(t) ==
  /\ pc[t] = "check"
  /\ want[t] = "out"
  /\ IF free # <<>> THEN PollReturn(t) ELSE PollOn(t, "count")
  /\ UNCHANGED <<file, lists, worker, item, job, answer>>

\* ... || pcr->itemcount < MAX_COP_RINGSIZE, a separate read.
PollCount(t) ==
  /\ pc[t] = "count"
  /\ IF itemcount < MaxRing THEN PollReturn(t) ELSE PollOn(t, "sleep")
  /\ UNCHANGED <<file, lists, worker, item, job, answer>>

\* A triggered sleeper looks again; it stays on the wait queue.
PollAgain(t) ==
  /\ pc[t] = "sleep"
  /\ woken[t]
  /\ woken' = [woken EXCEPT ![t] = FALSE]
  /\ pc'    = [pc EXCEPT ![t] = "check"]
  /\ UNCHANGED <<file, lists, worker, item, job, answer, want>>

\* The timeout of the system call, or a signal, ends the wait.
PollTimeout(t) ==
  /\ pc[t] = "sleep"
  /\ PollReturn(t)
  /\ UNCHANGED <<file, lists, worker, item, job, answer>>

-----------------------------------------------------------------------------
(* cryptodev_open and cryptodev_release.                                   *)

\* DEF_COP_RINGSIZE items are allocated and put on the free list.  An open
\* that runs out of memory frees what it allocated and changes nothing.  (All
\* addresses are unallocated before, so what they hold does not matter.)
Open ==
  /\ file = "closed"
  /\ \E s \in [1..DefRing -> Item] :
       /\ IsInjective(s)
       /\ free' = s
       /\ alloc' = Range(s)
  /\ kcop'   = [i \in Item |-> NoJob]
  /\ result' = [i \in Item |-> "ok"]
  /\ itemcount' = DefRing
  /\ file' = "open"
  /\ UNCHANGED <<todo, done, worker, pc, item, job, answer, polls>>

\* The last descriptor is closed, so no call is in progress.
\* cancel_work_sync takes cryptask off the queue ...
Release ==
  /\ file = "open"
  /\ \A t \in Thread : pc[t] = "idle"
  /\ file' = "cancel"
  /\ pending' = FALSE
  /\ UNCHANGED <<lists, wpc, tmp, ran, pc, item, job, answer, polls>>

\* cancel_work instead of cancel_work_sync.
ReleaseNoWait ==
  /\ file = "cancel"
  /\ free' = (free \o todo) \o done
  /\ todo' = <<>>
  /\ done' = <<>>
  /\ file' = "free"
  /\ UNCHANGED <<itemcount, alloc, kcop, result, worker, pc, item, job, answer,
                 polls>>

\* ... and waits until it is not running.  The lists are spliced.
ReleaseSplice ==
  /\ file = "cancel"
  /\ wpc = "idle"
  /\ free' = (free \o todo) \o done
  /\ todo' = <<>>
  /\ done' = <<>>
  /\ file' = "free"
  /\ UNCHANGED <<itemcount, alloc, kcop, result, worker, pc, item, job, answer,
                 polls>>

\* Every item on the list is freed, and then pcr itself.
ReleaseFree ==
  /\ file = "free"
  /\ alloc' = alloc \ Range(free)
  /\ free'  = <<>>
  /\ itemcount' = 0
  /\ file' = "closed"
  /\ UNCHANGED <<todo, done, kcop, result, worker, pc, item, job, answer, polls>>

-----------------------------------------------------------------------------
\* The application's choices.
Begin(t) ==
  \/ \E j \in Job : RunTake(t, j) \/ RunGrow(t, j)
  \/ FetchTake(t)
  \/ \E e \in {"in", "out"} : PollStart(t, e)
  \/ PollTimeout(t)

\* The next step of a call in progress.
Step(t) ==
  \/ RunAlloc(t) \/ RunAdd(t) \/ RunQueue(t)
  \/ FetchCopy(t) \/ FetchGive(t) \/ FetchWake(t)
  \/ PollIn(t) \/ PollOut(t) \/ PollCount(t) \/ PollAgain(t)

Work == WorkBegin \/ WorkCut \/ WorkRun \/ WorkSplice \/ WorkWake

\* What happens while there is memory ...
NextWithMemory ==
  \/ \E t \in Thread : Begin(t) \/ Step(t)
  \/ Work
  \/ Open \/ Release \/ ReleaseSplice \/ ReleaseFree

\* ... and when there may be none for a new item.
Next ==
  \/ NextWithMemory
  \/ \E t \in Thread : RunNoMemory(t)

Spec == Init /\ [][Next]_vars

\* Threads inside the driver and the workqueue's thread are scheduled, and
\* crypto_run terminates.
Fairness ==
  /\ \A t \in Thread : WF_vars(Step(t))
  /\ WF_vars(Work)
  /\ WF_vars(ReleaseSplice) /\ WF_vars(ReleaseFree)

FairSpec == Init /\ [][NextWithMemory]_vars /\ Fairness
-----------------------------------------------------------------------------
(* Properties.                                                             *)

\* Threads that have taken an item off a list, or allocated one.
Carrying == {t \in Thread : pc[t] \in {"add", "copy", "give"}}

\* Type correctness, with the item each thread must have where the code
\* dereferences it.
TypeOK ==
  /\ file \in {"closed", "open", "cancel", "free"}
  /\ free \in Seq(Item) /\ todo \in Seq(Item) /\ done \in Seq(Item)
  /\ itemcount \in Nat
  /\ alloc \subseteq Item
  /\ kcop \in [Item -> Job \cup {NoJob}]
  /\ result \in [Item -> Result]
  /\ pending \in BOOLEAN
  /\ wpc \in {"idle", "cut", "run", "wake"}
  /\ tmp \in Seq(Item)
  /\ ran \in 0..Len(tmp)
  /\ pc \in [Thread -> {"idle", "alloc", "add", "queue", "copy", "give", "wake",
                        "check", "count", "sleep"}]
  /\ item \in [Thread -> Item \cup {NoItem}]
  /\ job \in [Thread -> Job \cup {NoJob}]
  /\ answer \in [Thread -> (Job \X Result) \cup {NoAnswer}]
  /\ want \in [Thread -> {"none", "in", "out"}]
  /\ woken \in [Thread -> BOOLEAN]
  /\ \A t \in Carrying : item[t] # NoItem

\* Every allocated item is in exactly one place: once on one list, or with one
\* thread.  No item is lost between two lists and none is reused while it is
\* still queued, whatever calls overlap.
ItemsAreConserved ==
  LET queued == ((free \o todo) \o tmp) \o done
  IN  /\ IsInjective(queued)
      /\ \A t, u \in Carrying : item[t] = item[u] => t = u
      /\ \A t \in Carrying : item[t] \notin Range(queued)
      /\ alloc = Range(queued) \cup {item[t] : t \in Carrying}

\* "These are free, pending and done items all together": the items, and
\* those about to be allocated, are never more than itemcount says, and
\* never more than MAX_COP_RINGSIZE.
RingIsBounded ==
  /\ Cardinality(alloc) + Cardinality({t \in Thread : pc[t] = "alloc"}) <= itemcount
  /\ itemcount <= MaxRing

\* No wake-up is lost: while a thread sleeps in poll and has not been woken,
\* what it waits for has not happened, or whoever made it happen is just
\* about to call wake_up_interruptible.
NoLostWakeUp ==
  \A t \in Thread : pc[t] = "sleep" /\ ~woken[t] =>
    /\ want[t] = "in" /\ done # <<>> => wpc = "wake"
    /\ want[t] = "out" /\ (free # <<>> \/ itemcount < MaxRing)
         => \E u \in Thread : pc[u] = "wake"

\* cryptodev_release finds every item it counted: the check that would print
\* "freed %d items, but %d should exist!".
ReleaseFreesAllItems ==
  file = "free" => Len(free) = itemcount

\* Every queued job is handled, unless the file is closed first: no queue_work
\* is lost, not even while cryptask_routine is already running.
JobsComplete ==
  \A i \in Item : i \in Range(todo) ~> i \in Range(done) \/ file # "open"

\* A thread asleep in poll for POLLIN is woken when a job has completed.
PollersWake ==
  \A t \in Thread :
    pc[t] = "sleep" /\ want[t] = "in" /\ done # <<>> ~> pc[t] # "sleep"

\* The contents of a list of items, without and with their results.
Jobs(s)    == [n \in 1..Len(s) |-> kcop[s[n]]]
Answers(s) == [n \in 1..Len(s) |-> <<kcop[s[n]], result[s[n]]>>]

\* The ring implements the bounded queue of JobQueue.  The worker's local list
\* is the head of the abstract queue, and a thread has fetched an answer as
\* soon as it has taken its item: the item must not change before the memcpy.
Queue == INSTANCE JobQueue WITH
  Capacity <- MaxRing,
  queue    <- Jobs(tmp \o todo),
  done     <- Answers(done),
  fetched  <- [t \in Thread |->
                 IF pc[t] = "copy" THEN <<kcop[item[t]], result[item[t]]>>
                                   ELSE answer[t]]

\* Jobs complete and are handed out in the order they were submitted, each
\* once, with its own contents and one of its own results.
ImplementsJobQueue == Queue!Spec
=============================================================================
