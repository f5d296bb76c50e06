---------------------------- MODULE AsyncRingProofs ----------------------------
(***************************************************************************)
(* The safety properties of AsyncRing hold for every number of threads,    *)
(* items and jobs and every size of the ring.                              *)
(***************************************************************************)
EXTENDS AsyncRing, SequenceTheorems, FiniteSetTheorems, TLAPS

-----------------------------------------------------------------------------
(* Lists.  A list is a sequence without repetitions; the facts below say   *)
(* what list_add_tail, list_del of the first entry and list_splice_tail do *)
(* to its entries.                                                         *)

\* An empty list has no entries.
LEMMA EmptyList == IsInjective(<<>>) /\ Range(<<>>) = {}
BY DEF IsInjective, Range

\* A sequence that is not empty starts with an entry.
LEMMA HeadOfList ==
  ASSUME NEW S, NEW s \in Seq(S), s # <<>>
  PROVE  /\ Head(s) \in Range(s)
         /\ Range(s) = {Head(s)} \cup Range(Tail(s))
         /\ IsInjective(s) => IsInjective(Tail(s)) /\ Head(s) \notin Range(Tail(s))
<1>1. /\ Len(s) \in Nat \ {0} /\ DOMAIN s = 1..Len(s) /\ Head(s) = s[1]
      /\ DOMAIN Tail(s) = 1..(Len(s) - 1)
      /\ \A i \in 1..(Len(s) - 1) : Tail(s)[i] = s[i + 1]
  BY EmptySeq, LenProperties, HeadTailProperties
<1>2. \A i \in 2..Len(s) : i - 1 \in 1..(Len(s) - 1) /\ s[i] = Tail(s)[i - 1]
  BY <1>1
<1>3. Range(s) = {Head(s)} \cup Range(Tail(s))
  <2>1. ASSUME NEW x \in Range(s) PROVE x = Head(s) \/ x \in Range(Tail(s))
    <3>1. PICK i \in 1..Len(s) : x = s[i]
      BY <1>1 DEF Range
    <3>2. CASE i = 1
      BY <1>1, <3>1, <3>2
    <3>3. CASE i # 1
      <4>1. i - 1 \in DOMAIN Tail(s) /\ x = Tail(s)[i - 1]
        BY <1>1, <1>2, <3>1, <3>3
      <4> QED
        BY <4>1 DEF Range
    <3> QED
      BY <3>2, <3>3
  <2>2. ASSUME NEW x \in Range(Tail(s)) PROVE x \in Range(s)
    BY <1>1, <2>2 DEF Range
  <2>3. Head(s) \in Range(s)
    BY <1>1 DEF Range
  <2> QED
    BY <2>1, <2>2, <2>3
<1>4. ASSUME IsInjective(s) PROVE IsInjective(Tail(s)) /\ Head(s) \notin Range(Tail(s))
  BY <1>1, <1>4 DEF IsInjective, Range
<1> QED
  BY <1>3, <1>4

\* The entries of two lists put together.
LEMMA ConcatOfLists ==
  ASSUME NEW S, NEW s \in Seq(S), NEW t \in Seq(S)
  PROVE  /\ s \o t \in Seq(S)
         /\ Range(s \o t) = Range(s) \cup Range(t)
         /\ IsInjective(s \o t) <=>
              IsInjective(s) /\ IsInjective(t) /\ Range(s) \cap Range(t) = {}
<1> DEFINE m == Len(s)  n == Len(t)  c == s \o t
<1>1. /\ m \in Nat /\ n \in Nat /\ DOMAIN s = 1..m /\ DOMAIN t = 1..n
      /\ c \in Seq(S) /\ Len(c) = m + n /\ DOMAIN c = 1..(m + n)
      /\ \A i \in 1..(m + n) : c[i] = IF i <= m THEN s[i] ELSE t[i - m]
  BY LenProperties, ConcatProperties
<1>2. /\ \A i \in 1..m : i \in 1..(m + n) /\ c[i] = s[i]
      /\ \A i \in 1..n : m + i \in 1..(m + n) /\ c[m + i] = t[i]
  BY <1>1
<1>3. Range(c) = Range(s) \cup Range(t)
  BY RangeConcatenation
<1>4. ASSUME IsInjective(c) PROVE IsInjective(s) /\ IsInjective(t) /\ Range(s) \cap Range(t) = {}
  <2> HIDE DEF c, m, n
  <2>1. IsInjective(s)
    BY <1>1, <1>2, <1>4 DEF IsInjective
  <2>2. \A i, j \in 1..(m + n) : c[i] = c[j] => i = j
    BY <1>1, <1>4 DEF IsInjective
  <2>3. IsInjective(t)
    <3> SUFFICES ASSUME NEW i \in 1..n, NEW j \in 1..n, t[i] = t[j]
                 PROVE  i = j
      BY <1>1 DEF IsInjective
    <3>1. m + i = m + j
      BY <1>2, <2>2
    <3> QED
      BY <1>1, <3>1
  <2>4. ASSUME NEW i \in 1..m, NEW j \in 1..n, s[i] = t[j] PROVE FALSE
    <3>1. i = m + j
      BY <1>2, <2>2, <2>4
    <3> QED
      BY <1>1, <3>1
  <2> QED
    BY <1>1, <2>1, <2>3, <2>4 DEF Range
<1>5. ASSUME IsInjective(s), IsInjective(t), Range(s) \cap Range(t) = {} PROVE IsInjective(c)
  <2> HIDE DEF c, m, n
  <2> SUFFICES ASSUME NEW i \in 1..(m + n), NEW j \in 1..(m + n), c[i] = c[j]
               PROVE  i = j
    BY <1>1 DEF IsInjective
  <2>1. \A k \in 1..m, l \in 1..n : s[k] # t[l]
    BY <1>1, <1>5 DEF Range
  <2>2. CASE i <= m /\ j <= m
    BY <1>1, <1>5, <2>2 DEF IsInjective
  <2>3. CASE i > m /\ j > m
    <3>1. i - m \in 1..n /\ j - m \in 1..n /\ t[i - m] = t[j - m]
      BY <1>1, <2>3
    <3> QED
      BY <1>1, <1>5, <3>1 DEF IsInjective
  <2>4. CASE i <= m /\ j > m
    <3>1. i \in 1..m /\ j - m \in 1..n /\ s[i] = t[j - m]
      BY <1>1, <2>4
    <3> QED
      BY <2>1, <3>1
  <2>5. CASE i > m /\ j <= m
    <3>1. j \in 1..m /\ i - m \in 1..n /\ s[j] = t[i - m]
      BY <1>1, <2>5
    <3> QED
      BY <2>1, <3>1
  <2> QED
    BY <1>1, <2>2, <2>3, <2>4, <2>5
<1> QED
  BY <1>1, <1>4, <1>5, <1>3

\* An entry added at the end.
LEMMA AppendToList ==
  ASSUME NEW S, NEW s \in Seq(S), NEW x \in S
  PROVE  /\ Append(s, x) \in Seq(S) /\ Append(s, x) # <<>>
         /\ Range(Append(s, x)) = Range(s) \cup {x}
         /\ IsInjective(s) /\ x \notin Range(s) => IsInjective(Append(s, x))
<1>1. Append(s, x) = s \o <<x>> /\ <<x>> \in Seq(S)
  BY AppendIsConcat
<1>2. IsInjective(<<x>>) /\ Range(<<x>>) = {x}
  BY DEF IsInjective, Range
<1>3. Append(s, x) # <<>> /\ Append(s, x) \in Seq(S)
  BY AppendProperties
<1>4. /\ Range(s \o <<x>>) = Range(s) \cup Range(<<x>>)
      /\ IsInjective(s \o <<x>>) <=>
           IsInjective(s) /\ IsInjective(<<x>>) /\ Range(s) \cap Range(<<x>>) = {}
  BY <1>1, ConcatOfLists
<1> QED
  BY <1>1, <1>2, <1>3, <1>4

\* A list has as many entries as it is long.
LEMMA LengthOfList ==
  ASSUME NEW S, NEW s \in Seq(S), IsInjective(s)
  PROVE  IsFiniteSet(Range(s)) /\ Cardinality(Range(s)) = Len(s)
<1>1. Len(s) \in Nat /\ DOMAIN s = 1..Len(s)
  BY LenProperties
<1>2. s \in Surjection(1..Len(s), Range(s)) /\ s \in Injection(1..Len(s), Range(s))
  BY <1>1, LenProperties DEF Surjection, Injection, IsInjective, Range
<1>3. IsFiniteSet(1..Len(s)) /\ Cardinality(1..Len(s)) = Len(s)
  BY <1>1, FS_Interval
<1> QED
  BY <1>1, <1>2, <1>3, FS_Surjection

-----------------------------------------------------------------------------
(***************************************************************************)
(* The inductive invariant.  Its first four parts say when the file, the   *)
(* worker and the lists are in use, where every item is and whose job it   *)
(* contains; the others count items and account for wake-ups.              *)
(***************************************************************************)

\* Calls run and work is queued only while the file is open; cancel_work_sync
\* is over when the lists are spliced, and a closed file has no items.
FileInv ==
  /\ \A t \in Thread : pc[t] # "idle" => file = "open"
  /\ pending => file = "open"
  /\ wpc # "idle" => file \in {"open", "cancel"}
  /\ file \in {"free", "closed"} => todo = <<>> /\ done = <<>>
  /\ file = "closed" => free = <<>> /\ itemcount = 0
  /\ wpc # "run" => tmp = <<>>

\* Every allocated item is in one place: ItemsAreConserved, list by list.
ListInv ==
  /\ IsInjective(free) /\ IsInjective(todo) /\ IsInjective(tmp) /\ IsInjective(done)
  /\ Range(free) \cap Range(todo) = {} /\ Range(free) \cap Range(tmp) = {}
  /\ Range(free) \cap Range(done) = {} /\ Range(todo) \cap Range(tmp) = {}
  /\ Range(todo) \cap Range(done) = {} /\ Range(tmp) \cap Range(done) = {}
  /\ \A t, u \in Carrying : item[t] = item[u] => t = u
  /\ \A t \in Carrying :
       item[t] \notin Range(free) \cup Range(todo) \cup Range(tmp) \cup Range(done)
  /\ alloc = Range(free) \cup Range(todo) \cup Range(tmp) \cup Range(done)
               \cup {item[t] : t \in Carrying}

\* An item that is queued, being run, completed or being fetched contains a
\* job, and a thread that is going to queue an item has a job for it.
JobInv ==
  /\ \A i \in Range(todo) \cup Range(tmp) \cup Range(done) : kcop[i] \in Job
  /\ \A t \in Thread : pc[t] \in {"alloc", "add"} => job[t] \in Job
  /\ \A t \in Thread : pc[t] = "copy" => kcop[item[t]] \in Job

ItemInv ==
  /\ TypeOK
  /\ FileInv
  /\ ListInv
  /\ JobInv

\* The threads that have counted an item they are about to allocate.
Allocating == {t \in Thread : pc[t] = "alloc"}

\* The items, and those about to be allocated; they are finitely many.
Used == Cardinality(alloc) + Cardinality(Allocating)

FiniteInv == IsFiniteSet(alloc) /\ IsFiniteSet(Allocating)

CountInv == FiniteInv /\ RingIsBounded

\* NoLostWakeUp for one thread; one on its way from the free list to itemcount
\* has not missed an item that was freed in between either.
Covered(t) ==
  /\ pc[t] = "sleep" /\ ~woken[t] =>
       /\ want[t] = "in" /\ done # <<>> => wpc = "wake"
       /\ want[t] = "out" /\ (free # <<>> \/ itemcount < MaxRing)
            => \E u \in Thread : pc[u] = "wake"
  /\ pc[t] = "count" =>
       /\ want[t] = "out"
       /\ free # <<>> /\ ~woken[t] => \E u \in Thread : pc[u] = "wake"

WakeInv == \A t \in Thread : Covered(t)

-----------------------------------------------------------------------------
(* Steps.                                                                  *)

\* There are no items before the file is opened.
LEMMA ItemInvInit == Init => ItemInv
<1> SUFFICES ASSUME Init PROVE ItemInv
  OBVIOUS
<1> USE RingAssumption, EmptyList DEF Init
<1>1. TypeOK
  <2>1. <<>> \in Seq(Item) /\ Len(<<>>) = 0
    BY EmptySeq
  <2>2. Carrying = {} /\ pending \in BOOLEAN
    BY DEF Carrying
  <2> QED
    BY <2>1, <2>2 DEF TypeOK
<1>2. FileInv
  BY DEF FileInv
<1>3. ListInv
  BY DEF ListInv, Carrying
<1>4. JobInv
  BY DEF JobInv
<1> QED
  BY <1>1, <1>2, <1>3, <1>4 DEF ItemInv

\* Steps that move no item.
LEMMA SameLists ==
  ASSUME ListInv, UNCHANGED <<free, todo, tmp, done, alloc, item>>, Carrying' = Carrying
  PROVE  ListInv'
BY DEF ListInv

\* The steps of crypto_async_run.
LEMMA RunStep ==
  ASSUME ItemInv, NEW t \in Thread,
         \/ \E j \in Job : RunTake(t, j) \/ RunGrow(t, j)
         \/ RunAlloc(t) \/ RunNoMemory(t) \/ RunAdd(t) \/ RunQueue(t)
  PROVE  ItemInv'
<1> USE RingAssumption DEF ItemInv
<1>1. ASSUME NEW j \in Job, RunTake(t, j) PROVE ItemInv'
  <2>1. /\ Head(free) \in Item /\ Head(free) \in Range(free) /\ Tail(free) \in Seq(Item)
        /\ Range(free) = {Head(free)} \cup Range(Tail(free))
        /\ IsInjective(Tail(free)) /\ Head(free) \notin Range(Tail(free))
    BY <1>1, HeadOfList, HeadTailProperties DEF RunTake, TypeOK, ListInv
  <2>2. Carrying' = Carrying \cup {t} /\ t \notin Carrying
    BY <1>1 DEF RunTake, Ready, Carrying, TypeOK
  <2>3. TypeOK'
    BY <1>1, <2>1, <2>2 DEF RunTake, TypeOK, worker, polls
  <2>4. FileInv'
    BY <1>1 DEF RunTake, FileInv, Ready, worker, TypeOK
  <2>5. ListInv'
    BY <1>1, <2>1, <2>2 DEF RunTake, ListInv, TypeOK, worker, Carrying
  <2>6. JobInv'
    BY <1>1 DEF RunTake, JobInv, TypeOK, worker
  <2> QED
    BY <2>3, <2>4, <2>5, <2>6
<1>2. ASSUME NEW j \in Job, RunGrow(t, j) PROVE ItemInv'
  <2>1. Carrying' = Carrying
    BY <1>2 DEF RunGrow, Ready, Carrying, TypeOK
  <2>2. TypeOK'
    BY <1>2, <2>1 DEF RunGrow, TypeOK, worker, polls
  <2>3. FileInv' /\ JobInv'
    BY <1>2 DEF RunGrow, FileInv, Ready, worker, JobInv, TypeOK
  <2> QED
    BY <1>2, <2>1, <2>2, <2>3, SameLists DEF RunGrow, worker
<1>3. CASE RunAlloc(t)
  <2>1. PICK i \in Item \ alloc :
          /\ alloc'  = alloc \cup {i}
          /\ kcop'   = [kcop EXCEPT ![i] = NoJob]
          /\ result' = [result EXCEPT ![i] = "ok"]
          /\ item'   = [item EXCEPT ![t] = i]
    BY <1>3 DEF RunAlloc
  <2>2. Carrying' = Carrying \cup {t} /\ t \notin Carrying
    BY <1>3 DEF RunAlloc, Carrying, TypeOK
  <2>3. TypeOK'
    BY <1>3, <2>1, <2>2 DEF RunAlloc, TypeOK, worker, polls
  <2>4. FileInv'
    BY <1>3 DEF RunAlloc, FileInv, worker, TypeOK
  <2>5. ListInv'
    BY <1>3, <2>1, <2>2 DEF RunAlloc, ListInv, TypeOK, worker, Carrying
  <2>6. JobInv'
    BY <1>3, <2>1 DEF RunAlloc, JobInv, ListInv, TypeOK, worker, Carrying
  <2> QED
    BY <2>3, <2>4, <2>5, <2>6
<1>4. CASE RunNoMemory(t)
  <2>1. Carrying' = Carrying
    BY <1>4 DEF RunNoMemory, Carrying, TypeOK
  <2>2. TypeOK'
    BY <1>4, <2>1 DEF RunNoMemory, TypeOK, lists, worker, polls
  <2>3. FileInv' /\ JobInv'
    BY <1>4 DEF RunNoMemory, FileInv, lists, worker, JobInv, TypeOK
  <2> QED
    BY <1>4, <2>1, <2>2, <2>3, SameLists DEF RunNoMemory, lists, worker
<1>5. CASE RunAdd(t)
  <2>1. t \in Carrying /\ item[t] \in Item /\ job[t] \in Job
    BY <1>5 DEF RunAdd, Carrying, TypeOK, JobInv
  <2>2. /\ todo' \in Seq(Item)
        /\ Range(todo') = Range(todo) \cup {item[t]}
        /\ IsInjective(todo')
    BY <1>5, <2>1, AppendToList DEF RunAdd, TypeOK, ListInv
  <2>3. Carrying' = Carrying \ {t}
    BY <1>5 DEF RunAdd, Carrying, TypeOK
  <2>4. TypeOK'
    BY <1>5, <2>1, <2>2, <2>3 DEF RunAdd, TypeOK, worker, polls
  <2>5. FileInv'
    BY <1>5 DEF RunAdd, FileInv, worker, TypeOK
  <2>6. ListInv'
    BY <1>5, <2>1, <2>2, <2>3 DEF RunAdd, ListInv, TypeOK, worker, Carrying
  <2>7. JobInv'
    BY <1>5, <2>1, <2>2 DEF RunAdd, JobInv, ListInv, TypeOK, worker, Carrying
  <2> QED
    BY <2>4, <2>5, <2>6, <2>7
<1>6. CASE RunQueue(t)
  <2>1. Carrying' = Carrying
    BY <1>6 DEF RunQueue, Carrying, TypeOK
  <2>2. TypeOK'
    BY <1>6, <2>1 DEF RunQueue, TypeOK, lists, polls
  <2>3. FileInv' /\ JobInv'
    BY <1>6 DEF RunQueue, FileInv, lists, JobInv, TypeOK
  <2> QED
    BY <1>6, <2>1, <2>2, <2>3, SameLists DEF RunQueue, lists
<1> QED
  BY <1>1, <1>2, <1>3, <1>4, <1>5, <1>6

\* The steps of crypto_async_fetch.
LEMMA FetchStep ==
  ASSUME ItemInv, NEW t \in Thread,
         FetchTake(t) \/ FetchCopy(t) \/ FetchGive(t) \/ FetchWake(t)
  PROVE  ItemInv'
<1> USE RingAssumption DEF ItemInv
<1>1. CASE FetchTake(t)
  <2>1. /\ Head(done) \in Item /\ Head(done) \in Range(done) /\ Tail(done) \in Seq(Item)
        /\ Range(done) = {Head(done)} \cup Range(Tail(done))
        /\ IsInjective(Tail(done)) /\ Head(done) \notin Range(Tail(done))
    BY <1>1, HeadOfList, HeadTailProperties DEF FetchTake, TypeOK, ListInv
  <2>2. Carrying' = Carrying \cup {t} /\ t \notin Carrying
    BY <1>1 DEF FetchTake, Ready, Carrying, TypeOK
  <2>3. TypeOK'
    BY <1>1, <2>1, <2>2 DEF FetchTake, TypeOK, worker, polls
  <2>4. FileInv'
    BY <1>1 DEF FetchTake, FileInv, Ready, worker, TypeOK
  <2>5. ListInv'
    BY <1>1, <2>1, <2>2 DEF FetchTake, ListInv, TypeOK, worker, Carrying
  <2>6. JobInv'
    BY <1>1, <2>1 DEF FetchTake, JobInv, TypeOK, worker
  <2> QED
    BY <2>3, <2>4, <2>5, <2>6
<1>2. CASE FetchCopy(t)
  <2>1. Carrying' = Carrying
    BY <1>2 DEF FetchCopy, Carrying, TypeOK
  <2>2. item[t] \in Item /\ kcop[item[t]] \in Job
    BY <1>2 DEF FetchCopy, JobInv, TypeOK, Carrying
  <2>3. TypeOK'
    BY <1>2, <2>1, <2>2 DEF FetchCopy, TypeOK, lists, worker, polls
  <2>4. FileInv' /\ JobInv'
    BY <1>2 DEF FetchCopy, FileInv, lists, worker, JobInv, TypeOK
  <2> QED
    BY <1>2, <2>1, <2>3, <2>4, SameLists DEF FetchCopy, lists, worker
<1>3. CASE FetchGive(t)
  <2>1. t \in Carrying /\ item[t] \in Item
    BY <1>3 DEF FetchGive, Carrying, TypeOK
  <2>2. /\ free' \in Seq(Item)
        /\ Range(free') = Range(free) \cup {item[t]}
        /\ IsInjective(free')
    BY <1>3, <2>1, AppendToList DEF FetchGive, TypeOK, ListInv
  <2>3. Carrying' = Carrying \ {t}
    BY <1>3 DEF FetchGive, Carrying, TypeOK
  <2>4. TypeOK'
    BY <1>3, <2>1, <2>2, <2>3 DEF FetchGive, TypeOK, worker, polls
  <2>5. FileInv'
    BY <1>3 DEF FetchGive, FileInv, worker, TypeOK
  <2>6. ListInv'
    BY <1>3, <2>1, <2>2, <2>3 DEF FetchGive, ListInv, TypeOK, worker, Carrying
  <2>7. JobInv'
    BY <1>3, <2>1 DEF FetchGive, JobInv, TypeOK, worker
  <2> QED
    BY <2>4, <2>5, <2>6, <2>7
<1>4. CASE FetchWake(t)
  <2>1. Carrying' = Carrying
    BY <1>4 DEF FetchWake, Carrying, TypeOK
  <2>2. woken' \in [Thread -> BOOLEAN]
    BY <1>4 DEF FetchWake, WakeUp, TypeOK
  <2>3. TypeOK'
    BY <1>4, <2>1, <2>2 DEF FetchWake, TypeOK, lists, worker
  <2>4. FileInv' /\ JobInv'
    BY <1>4 DEF FetchWake, FileInv, lists, worker, JobInv, TypeOK
  <2> QED
    BY <1>4, <2>1, <2>3, <2>4, SameLists DEF FetchWake, lists, worker
<1> QED
  BY <1>1, <1>2, <1>3, <1>4

\* The steps of cryptask_routine.
LEMMA WorkStep == ASSUME ItemInv, Work PROVE ItemInv'
<1> USE RingAssumption DEF ItemInv
<1>1. ASSUME UNCHANGED <<pc, item>> PROVE Carrying' = Carrying
  BY <1>1 DEF Carrying
<1>2. CASE WorkBegin
  <2>1. TypeOK' /\ FileInv' /\ JobInv'
    BY <1>1, <1>2 DEF WorkBegin, TypeOK, FileInv, JobInv, lists, polls
  <2> QED
    BY <1>1, <1>2, <2>1, SameLists DEF WorkBegin, lists
<1>3. CASE WorkCut
  <2>1. <<>> \in Seq(Item) /\ Len(<<>>) = 0 /\ 0 \in 0..Len(todo)
    BY EmptySeq, LenProperties DEF TypeOK
  <2>2. TypeOK'
    BY <1>1, <1>3, <2>1 DEF WorkCut, TypeOK, polls
  <2>3. FileInv'
    BY <1>3 DEF WorkCut, FileInv, TypeOK
  <2>4. ListInv'
    BY <1>1, <1>3, EmptyList DEF WorkCut, ListInv, FileInv, Carrying
  <2>5. JobInv'
    BY <1>3, EmptyList DEF WorkCut, JobInv
  <2> QED
    BY <2>2, <2>3, <2>4, <2>5
<1>4. CASE WorkRun
  <2>1. /\ ran + 1 \in 1..Len(tmp) /\ tmp[ran + 1] \in Item
        /\ tmp[ran + 1] \in Range(tmp)
    BY <1>4, LenProperties DEF WorkRun, TypeOK, Range
  <2>2. kcop[tmp[ran + 1]] \in Job
    BY <2>1 DEF JobInv
  <2>3. TypeOK'
    BY <1>1, <1>4, <2>1, <2>2 DEF WorkRun, TypeOK, polls
  <2>4. FileInv' /\ JobInv'
    BY <1>4 DEF WorkRun, FileInv, JobInv
  <2> QED
    BY <1>1, <1>4, <2>3, <2>4, SameLists DEF WorkRun
<1>5. CASE WorkSplice
  <2>1. <<>> \in Seq(Item) /\ Len(<<>>) = 0
    BY EmptySeq
  <2>2. /\ done' \in Seq(Item)
        /\ Range(done') = Range(done) \cup Range(tmp)
        /\ IsInjective(done')
    BY <1>5, ConcatOfLists DEF WorkSplice, TypeOK, ListInv
  <2>3. TypeOK'
    BY <1>1, <1>5, <2>1, <2>2 DEF WorkSplice, TypeOK, polls
  <2>4. FileInv'
    BY <1>5 DEF WorkSplice, FileInv, TypeOK
  <2>5. ListInv'
    BY <1>1, <1>5, <2>2, EmptyList DEF WorkSplice, ListInv, Carrying
  <2>6. JobInv'
    BY <1>5, <2>2, EmptyList DEF WorkSplice, JobInv
  <2> QED
    BY <2>3, <2>4, <2>5, <2>6
<1>6. CASE WorkWake
  <2>1. woken' \in [Thread -> BOOLEAN]
    BY <1>6 DEF WorkWake, WakeUp, TypeOK
  <2>2. TypeOK' /\ FileInv' /\ JobInv'
    BY <1>1, <1>6, <2>1 DEF WorkWake, TypeOK, FileInv, JobInv, lists
  <2> QED
    BY <1>1, <1>6, <2>2, SameLists DEF WorkWake, lists
<1> QED
  BY <1>2, <1>3, <1>4, <1>5, <1>6 DEF Work

\* The steps of poll, which move no item.
LEMMA PollStep ==
  ASSUME ItemInv, NEW t \in Thread,
         \/ \E e \in {"in", "out"} : PollStart(t, e)
         \/ PollTimeout(t) \/ PollIn(t) \/ PollOut(t) \/ PollCount(t) \/ PollAgain(t)
  PROVE  ItemInv'
<1> DEFINE P == {"idle", "check", "count", "sleep"}
<1>1. /\ UNCHANGED <<file, lists, worker, item, job, answer>>
      /\ want' \in [Thread -> {"none", "in", "out"}]
      /\ woken' \in [Thread -> BOOLEAN]
      /\ \E p \in P : pc' = [pc EXCEPT ![t] = p]
      /\ pc[t] \in P
      /\ file = "open"
  BY DEF ItemInv, TypeOK, FileInv, PollStart, Ready, PollTimeout, PollReturn, PollIn,
         PollOut, PollOn, PollCount, PollAgain, polls
<1>2. Carrying' = Carrying
  BY <1>1 DEF Carrying, ItemInv, TypeOK
<1>3. TypeOK'
  BY <1>1, <1>2 DEF ItemInv, TypeOK, lists, worker
<1>4. FileInv' /\ JobInv'
  BY <1>1 DEF ItemInv, FileInv, JobInv, lists, worker, TypeOK
<1> QED
  BY <1>1, <1>2, <1>3, <1>4, SameLists DEF ItemInv, lists, worker

\* cryptodev_open and the steps of cryptodev_release.
LEMMA OpenReleaseStep ==
  ASSUME ItemInv, Open \/ Release \/ ReleaseSplice \/ ReleaseFree
  PROVE  ItemInv'
<1> USE RingAssumption DEF ItemInv
<1>1. ASSUME UNCHANGED <<pc, item>> PROVE Carrying' = Carrying
  BY <1>1 DEF Carrying
<1>2. file # "open" => Carrying = {}
  BY DEF FileInv, Carrying
<1>3. <<>> \in Seq(Item) /\ Len(<<>>) = 0
  BY EmptySeq
<1>4. CASE Open
  <2>1. PICK s \in [1..DefRing -> Item] :
          IsInjective(s) /\ free' = s /\ alloc' = Range(s)
    BY <1>4 DEF Open
  <2>2. s \in Seq(Item)
    BY <2>1, SeqDef
  <2>3. tmp = <<>> /\ todo = <<>> /\ done = <<>> /\ Carrying = {} /\ alloc' \subseteq Item
    BY <1>2, <1>4, <2>1, <2>2, RangeOfSeq DEF Open, FileInv
  <2>4. TypeOK'
    BY <1>1, <1>4, <2>1, <2>2, <2>3 DEF Open, TypeOK, worker, polls
  <2>5. FileInv' /\ JobInv'
    BY <1>4, <2>3, EmptyList DEF Open, FileInv, JobInv, worker
  <2>6. ListInv'
    BY <1>1, <1>4, <2>1, <2>3, EmptyList DEF Open, ListInv, worker
  <2> QED
    BY <2>4, <2>5, <2>6
<1>5. CASE Release
  <2>1. TypeOK' /\ FileInv' /\ JobInv'
    BY <1>1, <1>5 DEF Release, TypeOK, FileInv, JobInv, lists, polls
  <2> QED
    BY <1>1, <1>5, <2>1, SameLists DEF Release, lists
<1>6. CASE ReleaseSplice
  <2>1. /\ free \o todo \in Seq(Item)
        /\ Range(free \o todo) = Range(free) \cup Range(todo)
        /\ IsInjective(free \o todo)
    BY ConcatOfLists DEF TypeOK, ListInv
  <2>2. done \in Seq(Item) /\ IsInjective(done) /\ Range(free \o todo) \cap Range(done) = {}
    BY <2>1 DEF TypeOK, ListInv
  <2>3. ASSUME NEW s \in Seq(Item), IsInjective(s), Range(s) \cap Range(done) = {}
        PROVE  /\ s \o done \in Seq(Item)
               /\ Range(s \o done) = Range(s) \cup Range(done)
               /\ IsInjective(s \o done)
    BY <2>2, <2>3, ConcatOfLists
  <2>4. /\ free' \in Seq(Item)
        /\ Range(free') = Range(free) \cup Range(todo) \cup Range(done)
        /\ IsInjective(free')
    BY <1>6, <2>1, <2>2, <2>3 DEF ReleaseSplice
  <2>5. TypeOK'
    BY <1>1, <1>3, <1>6, <2>4 DEF ReleaseSplice, TypeOK, worker, polls
  <2>6. FileInv' /\ JobInv'
    BY <1>6, EmptyList DEF ReleaseSplice, FileInv, JobInv, worker
  <2>7. ListInv'
    BY <1>1, <1>2, <1>6, <2>4, EmptyList DEF ReleaseSplice, ListInv, worker, FileInv
  <2> QED
    BY <2>5, <2>6, <2>7
<1>7. CASE ReleaseFree
  <2>1. TypeOK'
    BY <1>1, <1>3, <1>7 DEF ReleaseFree, TypeOK, worker, polls
  <2>2. FileInv' /\ JobInv'
    BY <1>7, EmptyList DEF ReleaseFree, FileInv, JobInv, worker
  <2>3. ListInv'
    BY <1>1, <1>2, <1>7, EmptyList DEF ReleaseFree, ListInv, worker, FileInv
  <2> QED
    BY <2>1, <2>2, <2>3
<1> QED
  BY <1>4, <1>5, <1>6, <1>7

\* Every step keeps the parts about items.
LEMMA ItemInvStep == ItemInv /\ [Next]_vars => ItemInv'
<1> SUFFICES ASSUME ItemInv, [Next]_vars PROVE ItemInv'
  OBVIOUS
<1>1. CASE UNCHANGED vars
  <2>1. Carrying' = Carrying
    BY <1>1 DEF vars, Carrying
  <2>2. TypeOK' /\ FileInv' /\ JobInv'
    BY <1>1, <2>1 DEF vars, lists, worker, polls, ItemInv, TypeOK, FileInv, JobInv
  <2> QED
    BY <1>1, <2>1, <2>2, SameLists DEF vars, lists, worker, ItemInv
<1>2. CASE Next
  BY <1>2, RunStep, FetchStep, WorkStep, PollStep, OpenReleaseStep
  DEF Next, NextWithMemory, Begin, Step
<1> QED
  BY <1>1, <1>2

-----------------------------------------------------------------------------
(* Counting.                                                               *)

\* A step of a call or of the worker changes the items in use by as much as
\* itemcount, except for the kzalloc that fails: it leaves itemcount too high.
\* cryptodev_open and cryptodev_release set both.
LEMMA CountChange ==
  ASSUME ItemInv, FiniteInv, itemcount <= MaxRing, [Next]_vars
  PROVE  /\ FiniteInv'
         /\ itemcount' <= MaxRing
         /\ \/ Used' - Used = itemcount' - itemcount
            \/ Used' = itemcount'
            \/ ~[NextWithMemory]_vars /\ Used' = Used - 1 /\ itemcount' = itemcount
<1> USE RingAssumption DEF ItemInv
<1>1. Cardinality(alloc) \in Nat /\ Cardinality(Allocating) \in Nat /\ itemcount \in Nat
  BY FS_CardinalityType DEF FiniteInv, TypeOK
<1>2. ASSUME UNCHANGED <<alloc, itemcount>>, Allocating' = Allocating
      PROVE  FiniteInv' /\ itemcount' <= MaxRing /\ Used' - Used = itemcount' - itemcount
  BY <1>1, <1>2 DEF FiniteInv, Used
<1>3. ASSUME NEW t \in Thread, NEW j \in Job, RunGrow(t, j)
      PROVE  FiniteInv' /\ itemcount' <= MaxRing /\ Used' - Used = itemcount' - itemcount
  <2>1. Allocating' = Allocating \cup {t} /\ t \notin Allocating
    BY <1>3 DEF RunGrow, Ready, Allocating, TypeOK
  <2>2. IsFiniteSet(Allocating') /\ Cardinality(Allocating') = Cardinality(Allocating) + 1
    BY <2>1, FS_AddElement DEF FiniteInv
  <2>3. alloc' = alloc /\ itemcount' = itemcount + 1 /\ itemcount < MaxRing
    BY <1>3 DEF RunGrow
  <2> QED
    BY <1>1, <2>2, <2>3 DEF FiniteInv, Used
<1>4. ASSUME NEW t \in Thread, RunAlloc(t)
      PROVE  FiniteInv' /\ itemcount' <= MaxRing /\ Used' - Used = itemcount' - itemcount
  <2>1. Allocating' = Allocating \ {t} /\ t \in Allocating
    BY <1>4 DEF RunAlloc, Allocating, TypeOK
  <2>2. IsFiniteSet(Allocating') /\ Cardinality(Allocating') = Cardinality(Allocating) - 1
    BY <2>1, FS_RemoveElement DEF FiniteInv
  <2>3. PICK i \in Item \ alloc : alloc' = alloc \cup {i}
    BY <1>4 DEF RunAlloc
  <2>4. IsFiniteSet(alloc') /\ Cardinality(alloc') = Cardinality(alloc) + 1
    BY <2>3, FS_AddElement DEF FiniteInv
  <2>5. itemcount' = itemcount
    BY <1>4 DEF RunAlloc
  <2> QED
    BY <1>1, <2>2, <2>4, <2>5 DEF FiniteInv, Used
<1>5. ASSUME NEW t \in Thread, RunNoMemory(t)
      PROVE  FiniteInv' /\ Used' = Used - 1 /\ itemcount' = itemcount
  <2>1. Allocating' = Allocating \ {t} /\ t \in Allocating
    BY <1>5 DEF RunNoMemory, Allocating, TypeOK
  <2>2. IsFiniteSet(Allocating') /\ Cardinality(Allocating') = Cardinality(Allocating) - 1
    BY <2>1, FS_RemoveElement DEF FiniteInv
  <2>3. alloc' = alloc /\ itemcount' = itemcount
    BY <1>5 DEF RunNoMemory, lists
  <2> QED
    BY <1>1, <2>2, <2>3 DEF FiniteInv, Used
<1>6. ASSUME file # "open", UNCHANGED pc PROVE Allocating' = {}
  BY <1>6 DEF Allocating, FileInv
<1>7. ASSUME Open PROVE FiniteInv' /\ itemcount' <= MaxRing /\ Used' = itemcount'
  <2>1. PICK s \in [1..DefRing -> Item] :
          IsInjective(s) /\ free' = s /\ alloc' = Range(s)
    BY <1>7 DEF Open
  <2>2. s \in Seq(Item) /\ Len(s) = DefRing
    BY <2>1, SeqDef, LenProperties
  <2>3. IsFiniteSet(alloc') /\ Cardinality(alloc') = DefRing
    BY <2>1, <2>2, LengthOfList
  <2>4. Allocating' = {} /\ itemcount' = DefRing
    BY <1>6, <1>7 DEF Open
  <2> QED
    BY <2>3, <2>4, FS_EmptySet DEF FiniteInv, Used
<1>8. ASSUME ReleaseFree PROVE FiniteInv' /\ itemcount' <= MaxRing /\ Used' = itemcount'
  <2>1. Carrying = {}
    BY <1>8 DEF ReleaseFree, FileInv, Carrying
  <2>2. alloc' = {}
    BY <1>8, <2>1, EmptyList DEF ReleaseFree, FileInv, ListInv
  <2>3. Allocating' = {} /\ itemcount' = 0
    BY <1>6, <1>8 DEF ReleaseFree
  <2> QED
    BY <2>2, <2>3, FS_EmptySet DEF FiniteInv, Used
<1>9. ASSUME Release \/ ReleaseSplice \/ Work \/ UNCHANGED vars
      PROVE  UNCHANGED <<alloc, itemcount>> /\ Allocating' = Allocating
  BY <1>9 DEF Release, ReleaseSplice, Work, WorkBegin, WorkCut, WorkRun, WorkSplice,
              WorkWake, vars, lists, Allocating
<1>10. ASSUME NEW t \in Thread,
              \/ \E j \in Job : RunTake(t, j)
              \/ FetchTake(t)
              \/ \E e \in {"in", "out"} : PollStart(t, e)
              \/ PollTimeout(t)
              \/ RunAdd(t) \/ RunQueue(t)
              \/ FetchCopy(t) \/ FetchGive(t) \/ FetchWake(t)
              \/ PollIn(t) \/ PollOut(t) \/ PollCount(t) \/ PollAgain(t)
       PROVE  UNCHANGED <<alloc, itemcount>> /\ Allocating' = Allocating
  <2>1. /\ UNCHANGED <<alloc, itemcount>>
        /\ pc[t] # "alloc"
        /\ \E p : p # "alloc" /\ pc' = [pc EXCEPT ![t] = p]
    BY <1>10 DEF RunTake, Ready, FetchTake, PollStart, PollTimeout, PollReturn, RunAdd,
                RunQueue, FetchCopy, FetchGive, FetchWake, PollIn, PollOut, PollOn,
                PollCount, PollAgain, lists
  <2> QED
    BY <2>1 DEF Allocating, TypeOK
<1>11. CASE [NextWithMemory]_vars
  BY <1>2, <1>3, <1>4, <1>7, <1>8, <1>9, <1>10, <1>11 DEF NextWithMemory, Begin, Step
<1>12. CASE ~[NextWithMemory]_vars
  BY <1>5, <1>12 DEF Next
<1> QED
  BY <1>11, <1>12

\* Nothing is counted before the file is opened.
LEMMA CountInit == Init => FiniteInv /\ Used = 0 /\ itemcount = 0
<1> SUFFICES ASSUME Init PROVE FiniteInv /\ Used = 0 /\ itemcount = 0
  OBVIOUS
<1>1. alloc = {} /\ Allocating = {} /\ itemcount = 0
  BY DEF Init, Allocating
<1> QED
  BY <1>1, FS_EmptySet DEF FiniteInv, Used

\* The items and the bounds on their number, in every reachable state.
LEMMA RingInvariance == Spec => [](ItemInv /\ CountInv)
<1>1. Init => ItemInv /\ CountInv
  BY ItemInvInit, CountInit, RingAssumption
  DEF CountInv, RingIsBounded, Used, Allocating
<1>2. ItemInv /\ CountInv /\ [Next]_vars => (ItemInv /\ CountInv)'
  <2> SUFFICES ASSUME ItemInv, CountInv, [Next]_vars PROVE (ItemInv /\ CountInv)'
    OBVIOUS
  <2>1. ItemInv'
    BY ItemInvStep
  <2>2. /\ itemcount \in Nat /\ itemcount' \in Nat
        /\ Cardinality(alloc) \in Nat /\ Cardinality(Allocating) \in Nat
    BY <2>1, FS_CardinalityType DEF ItemInv, TypeOK, CountInv, FiniteInv
  <2>3. FiniteInv /\ Used <= itemcount /\ itemcount <= MaxRing
    BY DEF CountInv, RingIsBounded, Used, Allocating
  <2>4. FiniteInv' /\ itemcount' <= MaxRing /\ Used' <= itemcount'
    <3>1. Cardinality(alloc') \in Nat /\ Cardinality(Allocating') \in Nat
      BY <2>3, CountChange, FS_CardinalityType DEF FiniteInv
    <3>2. Used \in Nat /\ Used' \in Nat
      BY <2>2, <3>1 DEF Used
    <3> QED
      BY <2>2, <2>3, <3>2, CountChange
  <2> QED
    BY <2>1, <2>4 DEF CountInv, RingIsBounded, Used, Allocating
<1> QED
  BY <1>1, <1>2, PTL DEF Spec

-----------------------------------------------------------------------------
(* Waking up.                                                              *)

\* A step of one thread that adds to no list and is not its wake-up leaves the
\* other threads covered.
LEMMA OthersCovered ==
  ASSUME WakeInv, NEW t \in Thread, UNCHANGED <<free, done, itemcount, wpc>>,
         pc[t] # "wake", Covered(t)',
         \A u \in Thread : u # t =>
           pc'[u] = pc[u] /\ woken'[u] = woken[u] /\ want'[u] = want[u]
  PROVE  WakeInv'
<1>1. \A u \in Thread : pc[u] = "wake" => pc'[u] = "wake"
  OBVIOUS
<1>2. ASSUME NEW u \in Thread, u # t PROVE Covered(u)'
  BY <1>1, <1>2 DEF WakeInv, Covered
<1> QED
  BY <1>2 DEF WakeInv

\* The steps that change what a poller waits for: those that add to a list
\* go on to wake everybody who polls.
LEMMA WakeStep ==
  ASSUME ItemInv, ItemInv', WakeInv, [Next]_vars
  PROVE  WakeInv'
<1> USE DEF ItemInv, WakeInv, Covered
<1>1. CASE \A t \in Thread : pc'[t] = "idle"
  BY <1>1
<1>2. CASE UNCHANGED vars
  BY <1>2 DEF vars, lists, worker, polls
<1>3. CASE Open \/ Release \/ ReleaseSplice \/ ReleaseFree
  <2>1. \A t \in Thread : pc'[t] = "idle"
    BY <1>3 DEF Open, Release, ReleaseSplice, ReleaseFree, FileInv
  <2> QED
    BY <1>1, <2>1
<1>4. CASE WorkBegin \/ WorkCut \/ WorkRun
  BY <1>4 DEF WorkBegin, WorkCut, WorkRun, lists, polls
<1>5. CASE WorkSplice
  BY <1>5 DEF WorkSplice, polls
<1>6. CASE WorkWake
  BY <1>6 DEF WorkWake, WakeUp, Polling, lists, TypeOK
<1>7. ASSUME NEW t \in Thread, NEW j \in Job, RunTake(t, j) PROVE WakeInv'
  BY <1>7, EmptyList DEF RunTake, Ready, worker, polls, TypeOK
<1>8. ASSUME NEW t \in Thread, NEW j \in Job, RunGrow(t, j) PROVE WakeInv'
  BY <1>8 DEF RunGrow, Ready, worker, polls, TypeOK
<1>9. ASSUME NEW t \in Thread, RunAlloc(t) \/ RunNoMemory(t) \/ RunAdd(t) \/ RunQueue(t)
      PROVE  WakeInv'
  <2>1. /\ UNCHANGED <<free, done, itemcount, wpc, want, woken>>
        /\ pc[t] # "wake" /\ pc'[t] \notin {"sleep", "count"}
        /\ \A u \in Thread : u # t => pc'[u] = pc[u]
    BY <1>9 DEF RunAlloc, RunNoMemory, RunAdd, RunQueue, lists, worker, polls, TypeOK
  <2> QED
    BY <2>1, OthersCovered
<1>10. ASSUME NEW t \in Thread, FetchTake(t) \/ FetchCopy(t) PROVE WakeInv'
  BY <1>10 DEF FetchTake, FetchCopy, Ready, lists, worker, polls, TypeOK
<1>11. ASSUME NEW t \in Thread, FetchGive(t) PROVE WakeInv'
  BY <1>11 DEF FetchGive, lists, worker, polls, TypeOK
<1>12. ASSUME NEW t \in Thread, FetchWake(t) PROVE WakeInv'
  BY <1>12 DEF FetchWake, WakeUp, Polling, lists, worker, polls, TypeOK
<1>13. ASSUME NEW t \in Thread,
             (\E e \in {"in", "out"} : PollStart(t, e)) \/ PollTimeout(t) \/ PollAgain(t)
       PROVE  WakeInv'
  <2>1. /\ UNCHANGED <<free, done, itemcount, wpc>>
        /\ pc[t] # "wake" /\ pc'[t] \notin {"sleep", "count"}
        /\ \A u \in Thread : u # t =>
             pc'[u] = pc[u] /\ woken'[u] = woken[u] /\ want'[u] = want[u]
    BY <1>13 DEF PollStart, Ready, PollTimeout, PollReturn, PollAgain, lists, worker,
                 TypeOK
  <2> QED
    BY <2>1, OthersCovered
<1>14. ASSUME NEW t \in Thread, PollIn(t) \/ PollOut(t) PROVE WakeInv'
  <2>1. /\ UNCHANGED <<free, done, itemcount, wpc>>
        /\ pc[t] # "wake"
        /\ pc'[t] = "sleep" => want'[t] = "in" /\ done' = <<>>
        /\ pc'[t] = "count" => want'[t] = "out" /\ free' = <<>>
        /\ \A u \in Thread : u # t =>
             pc'[u] = pc[u] /\ woken'[u] = woken[u] /\ want'[u] = want[u]
    BY <1>14 DEF PollIn, PollOut, PollReturn, PollOn, lists, worker, polls, TypeOK
  <2> QED
    BY <2>1, OthersCovered
<1>15. ASSUME NEW t \in Thread, PollCount(t) PROVE WakeInv'
  <2>1. /\ UNCHANGED <<free, done, itemcount, wpc>>
        /\ pc[t] = "count" /\ pc'[t] # "count"
        /\ pc'[t] = "sleep" => /\ itemcount >= MaxRing
                              /\ want'[t] = want[t] /\ woken'[t] = woken[t]
        /\ \A u \in Thread : u # t =>
             pc'[u] = pc[u] /\ woken'[u] = woken[u] /\ want'[u] = want[u]
    BY <1>15, RingAssumption
    DEF PollCount, PollReturn, PollOn, lists, worker, polls, TypeOK
  <2>2. \A u \in Thread : pc[u] = "wake" => pc'[u] = "wake"
    BY <2>1
  <2>3. itemcount \in Nat /\ MaxRing \in Nat
    BY RingAssumption DEF TypeOK
  <2>4. Covered(t)'
    BY <2>1, <2>2, <2>3
  <2> QED
    BY <2>1, <2>4, OthersCovered
<1> QED
  BY <1>2, <1>3, <1>4, <1>5, <1>6, <1>7, <1>8, <1>9, <1>10, <1>11, <1>12, <1>13,
     <1>14, <1>15
  DEF Next, NextWithMemory, Begin, Step, Work

-----------------------------------------------------------------------------
(* What the invariant implies.                                             *)

\* Type correctness: in particular an item is where the code dereferences one,
\* what is run is a job, and a fetched answer is a job and one of its results.
THEOREM RingTypeCorrect == Spec => []TypeOK
<1>1. ItemInv => TypeOK
  BY DEF ItemInv
<1> QED
  BY <1>1, RingInvariance, PTL

\* No item is lost, listed twice or reused while it is queued, although each
\* list has a mutex of its own and items are moved without any.
THEOREM ConservedItems == Spec => []ItemsAreConserved
<1>1. ASSUME ItemInv PROVE ItemsAreConserved
  <2> DEFINE a == free \o todo  b == a \o tmp  c == b \o done
  <2> USE <1>1 DEF ItemInv
  <2>1. /\ a \in Seq(Item) /\ IsInjective(a)
        /\ Range(a) = Range(free) \cup Range(todo)
    BY ConcatOfLists DEF TypeOK, ListInv
  <2>2. /\ tmp \in Seq(Item) /\ IsInjective(tmp) /\ Range(a) \cap Range(tmp) = {}
        /\ done \in Seq(Item) /\ IsInjective(done) /\ Range(a) \cap Range(done) = {}
        /\ Range(tmp) \cap Range(done) = {}
    BY <2>1 DEF TypeOK, ListInv
  <2> HIDE DEF a
  <2>3. b \in Seq(Item) /\ IsInjective(b) /\ Range(b) = Range(a) \cup Range(tmp)
    BY <2>1, <2>2, ConcatOfLists
  <2> HIDE DEF b
  <2>4. IsInjective(c) /\ Range(c) = Range(b) \cup Range(done)
    BY <2>2, <2>3, ConcatOfLists
  <2> HIDE DEF c
  <2>5. Range(c) = Range(free) \cup Range(todo) \cup Range(tmp) \cup Range(done)
    BY <2>1, <2>3, <2>4
  <2>6. /\ IsInjective(c)
        /\ \A t, u \in Carrying : item[t] = item[u] => t = u
        /\ \A t \in Carrying : item[t] \notin Range(c)
        /\ alloc = Range(c) \cup {item[t] : t \in Carrying}
    BY <2>4, <2>5 DEF ListInv
  <2> QED
    BY <2>6 DEF ItemsAreConserved, a, b, c
<1> QED
  BY <1>1, RingInvariance, PTL

\* The ring never grows beyond MAX_COP_RINGSIZE, although items are allocated
\* after free.lock has been dropped and allocations may fail.
THEOREM BoundedRing == Spec => []RingIsBounded
<1>1. CountInv => RingIsBounded
  BY DEF CountInv
<1> QED
  BY <1>1, RingInvariance, PTL

\* No thread stays asleep in poll because a wake-up came between two of the
\* unlocked reads of cryptodev_poll.
THEOREM NoWakeUpIsLost == Spec => []NoLostWakeUp
<1>1. Init => WakeInv
  BY DEF Init, WakeInv, Covered
<1>2. ItemInv /\ ItemInv' /\ WakeInv /\ [Next]_vars => WakeInv'
  BY WakeStep
<1>3. WakeInv => NoLostWakeUp
  BY DEF WakeInv, Covered, NoLostWakeUp
<1> QED
  BY <1>1, <1>2, <1>3, RingInvariance, PTL DEF Spec

\* While no allocation fails, cryptodev_release frees as many items as
\* itemcount says: its check "freed %d items, but %d should exist!" is silent.
\* (RunNoMemory breaks this: the run RingNoMemory.)
THEOREM ReleaseFindsEveryItem == FairSpec => []ReleaseFreesAllItems
<1> DEFINE Exact == ItemInv /\ FiniteInv /\ itemcount <= MaxRing /\ Used = itemcount
<1>1. Init => Exact
  BY ItemInvInit, CountInit, RingAssumption
<1>2. Exact /\ [NextWithMemory]_vars => Exact'
  <2> SUFFICES ASSUME Exact, [NextWithMemory]_vars PROVE Exact'
    OBVIOUS
  <2>1. ItemInv'
    BY ItemInvStep DEF Next
  <2>2. FiniteInv' /\ itemcount' <= MaxRing
    BY CountChange DEF Next
  <2>3. /\ Cardinality(alloc') \in Nat /\ Cardinality(Allocating') \in Nat
        /\ itemcount' \in Nat /\ itemcount \in Nat
    BY <2>1, <2>2, FS_CardinalityType DEF FiniteInv, ItemInv, TypeOK
  <2>4. Used' \in Nat
    BY <2>3 DEF Used
  <2>5. Used' - Used = itemcount' - itemcount \/ Used' = itemcount'
    BY CountChange DEF Next
  <2> QED
    BY <2>1, <2>2, <2>3, <2>4, <2>5
<1>3. Exact => ReleaseFreesAllItems
  <2> SUFFICES ASSUME Exact, file = "free" PROVE Len(free) = itemcount
    BY DEF ReleaseFreesAllItems
  <2>1. Carrying = {} /\ Allocating = {}
    BY DEF ItemInv, FileInv, Carrying, Allocating
  <2>2. alloc = Range(free)
    BY <2>1, EmptyList DEF ItemInv, FileInv, ListInv
  <2>3. Cardinality(alloc) = Len(free) /\ Len(free) \in Nat
    BY <2>2, LengthOfList, LenProperties DEF ItemInv, TypeOK, ListInv
  <2> QED
    BY <2>1, <2>3, FS_EmptySet DEF Used
<1> QED
  BY <1>1, <1>2, <1>3, PTL DEF FairSpec
=============================================================================
