-------------------------- MODULE AsyncRingRefinement --------------------------
(***************************************************************************)
(* The ring of AsyncRing implements the bounded queue of JobQueue, for     *)
(* every number of threads, items and jobs and every size of the ring, and *)
(* even if allocations fail.                                               *)
(***************************************************************************)
EXTENDS AsyncRingProofs

-----------------------------------------------------------------------------
(* The contents of a list: a function of items mapped over it.             *)

Map(g, s) == [n \in 1..Len(s) |-> g[s[n]]]

Image(g, S) == {g[x] : x \in S}

\* A list has as many contents as entries.
LEMMA MapIsSeq ==
  ASSUME NEW S, NEW s \in Seq(S), NEW g
  PROVE  Map(g, s) \in Seq(Image(g, S)) /\ Len(Map(g, s)) = Len(s)
<1>1. Len(s) \in Nat /\ \A n \in 1..Len(s) : s[n] \in S
  BY LenProperties
<1>2. Map(g, s) \in [1..Len(s) -> Image(g, S)]
  BY <1>1 DEF Map, Image
<1>3. Map(g, s) \in Seq(Image(g, S))
  BY <1>1, <1>2, SeqDef
<1> QED
  BY <1>1, <1>2, <1>3, LenProperties

\* Only what the entries contain matters.
LEMMA MapSame ==
  ASSUME NEW S, NEW s \in Seq(S), NEW g, NEW h, \A x \in Range(s) : g[x] = h[x]
  PROVE  Map(g, s) = Map(h, s)
<1>1. \A n \in 1..Len(s) : s[n] \in Range(s)
  BY LenProperties DEF Range
<1> QED
  BY <1>1 DEF Map

\* list_add_tail.
LEMMA MapAppend ==
  ASSUME NEW S, NEW s \in Seq(S), NEW x \in S, NEW g
  PROVE  Map(g, Append(s, x)) = Append(Map(g, s), g[x])
<1> DEFINE T == Image(g, S)
<1> DEFINE a == Append(s, x)  l == Map(g, a)  m == Map(g, s)  r == Append(m, g[x])
<1>1. /\ a \in Seq(S) /\ Len(a) = Len(s) + 1 /\ Len(s) \in Nat /\ a[Len(s) + 1] = x
      /\ \A n \in 1..Len(s) : a[n] = s[n]
  BY AppendProperties, LenProperties
<1> HIDE DEF a
<1>2. l \in Seq(T) /\ Len(l) = Len(a) /\ m \in Seq(T) /\ Len(m) = Len(s)
  BY <1>1, MapIsSeq
<1>3. /\ \A n \in 1..Len(a) : l[n] = g[a[n]]
      /\ \A n \in 1..Len(s) : m[n] = g[s[n]]
  BY DEF Map
<1> HIDE DEF l, m
<1>4. /\ r \in Seq(T) /\ Len(r) = Len(m) + 1 /\ r[Len(m) + 1] = g[x]
      /\ \A n \in 1..Len(m) : r[n] = m[n]
  BY <1>2, AppendProperties DEF Image
<1> HIDE DEF r
<1>5. ASSUME NEW n \in 1..Len(l) PROVE l[n] = r[n]
  <2>1. l[n] = g[a[n]]
    BY <1>2, <1>3
  <2>2. CASE n <= Len(s)
    <3>1. n \in 1..Len(s) /\ n \in 1..Len(m)
      BY <1>1, <1>2, <2>2
    <3>2. a[n] = s[n] /\ m[n] = g[s[n]] /\ r[n] = m[n]
      BY <1>1, <1>3, <1>4, <3>1
    <3> QED
      BY <2>1, <3>2
  <2>3. CASE n = Len(s) + 1
    BY <1>1, <1>2, <1>4, <2>1, <2>3
  <2> QED
    BY <1>1, <1>2, <2>2, <2>3
<1>6. l = r
  BY <1>1, <1>2, <1>3, <1>4, <1>5, SeqEqual
<1> QED
  BY <1>6 DEF l, r, m, a

\* list_splice_tail.
LEMMA MapConcat ==
  ASSUME NEW S, NEW s \in Seq(S), NEW t \in Seq(S), NEW g
  PROVE  Map(g, s \o t) = Map(g, s) \o Map(g, t)
<1> DEFINE T == Image(g, S)
<1> DEFINE a == s \o t  l == Map(g, a)  m == Map(g, s)  k == Map(g, t)  r == m \o k
<1>1. a \in Seq(S)
  BY ConcatProperties
<1>2. /\ Len(a) = Len(s) + Len(t) /\ Len(s) \in Nat /\ Len(t) \in Nat
      /\ \A n \in 1..(Len(s) + Len(t)) : a[n] = IF n <= Len(s) THEN s[n] ELSE t[n - Len(s)]
  BY ConcatProperties, LenProperties
<1> HIDE DEF a
<1>3. l \in Seq(T) /\ Len(l) = Len(a)
  BY <1>1, MapIsSeq
<1>4. m \in Seq(T) /\ Len(m) = Len(s) /\ k \in Seq(T) /\ Len(k) = Len(t)
  BY MapIsSeq
<1>5. /\ \A n \in 1..Len(a) : l[n] = g[a[n]]
      /\ \A n \in 1..Len(s) : m[n] = g[s[n]]
      /\ \A n \in 1..Len(t) : k[n] = g[t[n]]
  BY DEF Map
<1> HIDE DEF l, m, k
<1>6. /\ r \in Seq(T) /\ Len(r) = Len(m) + Len(k)
      /\ \A n \in 1..(Len(m) + Len(k)) : r[n] = IF n <= Len(m) THEN m[n] ELSE k[n - Len(m)]
  BY <1>4, ConcatProperties
<1> HIDE DEF r
<1>7. ASSUME NEW n \in 1..Len(l) PROVE l[n] = r[n]
  <2>1. l[n] = g[a[n]]
    BY <1>3, <1>5
  <2>2. CASE n <= Len(s)
    <3>1. n \in 1..Len(s)
      BY <1>2, <1>3, <2>2
    <3>2. a[n] = s[n] /\ r[n] = m[n]
      BY <1>2, <1>3, <1>4, <1>6, <2>2
    <3>3. m[n] = g[s[n]]
      BY <1>5, <3>1
    <3> QED
      BY <2>1, <3>2, <3>3
  <2>3. CASE n > Len(s)
    <3>1. n - Len(s) \in 1..Len(t)
      BY <1>2, <1>3, <2>3
    <3>2. a[n] = t[n - Len(s)] /\ r[n] = k[n - Len(s)]
      BY <1>2, <1>3, <1>4, <1>6, <2>3
    <3>3. k[n - Len(s)] = g[t[n - Len(s)]]
      BY <1>5, <3>1
    <3> QED
      BY <2>1, <3>2, <3>3
  <2> QED
    BY <1>2, <1>3, <2>2, <2>3
<1>8. l = r
  BY <1>2, <1>3, <1>4, <1>5, <1>6, <1>7, SeqEqual
<1> QED
  BY <1>8 DEF l, r, m, k, a

\* list_del of the first entry.
LEMMA MapTail ==
  ASSUME NEW S, NEW s \in Seq(S), s # <<>>, NEW g
  PROVE  /\ Map(g, s) # <<>>
         /\ Head(Map(g, s)) = g[Head(s)]
         /\ Tail(Map(g, s)) = Map(g, Tail(s))
<1> DEFINE T == Image(g, S)
<1> DEFINE m == Map(g, s)  l == Map(g, Tail(s))
<1>1. /\ Len(s) \in Nat \ {0} /\ Len(Tail(s)) = Len(s) - 1
      /\ \A n \in 1..(Len(s) - 1) : Tail(s)[n] = s[n + 1]
      /\ Head(s) = s[1]
  BY EmptySeq, LenProperties, HeadTailProperties
<1>2. Tail(s) \in Seq(S)
  BY HeadTailProperties
<1>3. l \in Seq(T) /\ Len(l) = Len(Tail(s))
  BY <1>2, MapIsSeq
<1>4. m \in Seq(T) /\ Len(m) = Len(s)
  BY MapIsSeq
<1>5. m \in Seq(T) /\ Len(m) = Len(s) /\ l \in Seq(T) /\ Len(l) = Len(s) - 1
  BY <1>1, <1>3, <1>4
<1>6. /\ \A n \in 1..Len(s) : m[n] = g[s[n]]
      /\ \A n \in 1..(Len(s) - 1) : l[n] = g[Tail(s)[n]]
  BY <1>1 DEF Map
<1> HIDE DEF l, m
<1>7. m # <<>>
  BY <1>1, <1>5, EmptySeq
<1>8. /\ Tail(m) \in Seq(T) /\ Len(Tail(m)) = Len(m) - 1 /\ Head(m) = m[1]
      /\ \A n \in 1..(Len(m) - 1) : Tail(m)[n] = m[n + 1]
  BY <1>5, <1>7, HeadTailProperties
<1>9. \A n \in 1..Len(l) : Tail(m)[n] = l[n]
  BY <1>1, <1>5, <1>6, <1>8
<1>10. Tail(m) = l
  BY <1>1, <1>5, <1>6, <1>8, <1>9, SeqEqual
<1>11. Head(m) = g[Head(s)]
  BY <1>1, <1>6, <1>8
<1> QED
  BY <1>7, <1>10, <1>11 DEF l, m

-----------------------------------------------------------------------------
(* The results of the jobs that the worker has run.                        *)

ResultInv == \A k \in 1..ran : result[tmp[k]] \in Outcome[kcop[tmp[k]]]

\* crypto_run sets the result of one item; the other steps leave the items of
\* the worker's list alone.
LEMMA ResultStep ==
  ASSUME ItemInv, ResultInv, [Next]_vars
  PROVE  ResultInv'
<1> USE RingAssumption DEF ItemInv, ResultInv
<1>1. /\ ran \in Nat /\ \A k \in 1..ran : k \in 1..Len(tmp)
      /\ \A k \in 1..Len(tmp) : tmp[k] \in Item /\ tmp[k] \in Range(tmp)
      /\ \A k, l \in 1..Len(tmp) : tmp[k] = tmp[l] => k = l
  BY LenProperties DEF TypeOK, ListInv, IsInjective, Range
<1>2. ASSUME UNCHANGED <<tmp, ran>>,
             \A i \in Range(tmp) : kcop'[i] = kcop[i] /\ result'[i] = result[i]
      PROVE  ResultInv'
  BY <1>1, <1>2
<1>3. CASE WorkCut \/ WorkSplice
  BY <1>3 DEF WorkCut, WorkSplice
<1>4. CASE WorkRun
  <2>1. PICK r \in Outcome[kcop[tmp[ran + 1]]] : result' = [result EXCEPT ![tmp[ran + 1]] = r]
    BY <1>4 DEF WorkRun
  <2>2. ran' = ran + 1 /\ ran + 1 \in 1..Len(tmp) /\ tmp' = tmp /\ kcop' = kcop
    BY <1>1, <1>4 DEF WorkRun, TypeOK
  <2> SUFFICES ASSUME NEW k \in 1..(ran + 1)
               PROVE  result'[tmp[k]] \in Outcome[kcop[tmp[k]]]
    BY <2>2
  <2>3. CASE k = ran + 1
    BY <1>1, <2>1, <2>2, <2>3 DEF TypeOK
  <2>4. CASE k # ran + 1
    <3>1. k \in 1..ran /\ k \in 1..Len(tmp) /\ tmp[k] # tmp[ran + 1]
      BY <1>1, <2>2, <2>4
    <3> QED
      BY <1>1, <2>1, <2>2, <3>1 DEF TypeOK
  <2> QED
    BY <2>3, <2>4
<1>5. CASE Open
  <2>1. ran = 0
    BY <1>5, EmptySeq DEF Open, FileInv, TypeOK
  <2> QED
    BY <1>5, <2>1 DEF Open, worker
<1>6. ASSUME NEW t \in Thread, RunAlloc(t) PROVE ResultInv'
  BY <1>2, <1>6 DEF RunAlloc, ListInv, worker, TypeOK
<1>7. ASSUME NEW t \in Thread, RunAdd(t) PROVE ResultInv'
  BY <1>2, <1>7 DEF RunAdd, ListInv, Carrying, worker, TypeOK
<1>8. ASSUME UNCHANGED <<tmp, ran, kcop, result>> PROVE ResultInv'
  BY <1>8
<1>9. ASSUME NEW t \in Thread,
             \/ \E j \in Job : RunTake(t, j) \/ RunGrow(t, j)
             \/ FetchTake(t)
             \/ \E e \in {"in", "out"} : PollStart(t, e)
             \/ PollTimeout(t) \/ RunNoMemory(t) \/ RunQueue(t)
             \/ FetchCopy(t) \/ FetchGive(t) \/ FetchWake(t)
             \/ PollIn(t) \/ PollOut(t) \/ PollCount(t) \/ PollAgain(t)
      PROVE  UNCHANGED <<tmp, ran, kcop, result>>
  BY <1>9 DEF RunTake, RunGrow, FetchTake, PollStart, PollTimeout, RunNoMemory, RunQueue,
              FetchCopy, FetchGive, FetchWake, PollIn, PollOut, PollCount, PollAgain,
              lists, worker
<1>10. CASE WorkBegin \/ WorkWake \/ Release \/ ReleaseSplice \/ ReleaseFree \/ UNCHANGED vars
  BY <1>8, <1>10 DEF WorkBegin, WorkWake, Release, ReleaseSplice, ReleaseFree, vars, lists,
                    worker
<1> QED
  BY <1>3, <1>4, <1>5, <1>6, <1>7, <1>8, <1>9, <1>10
  DEF Next, NextWithMemory, Begin, Step, Work

-----------------------------------------------------------------------------
(* The state of the abstract queue, and the steps that leave it alone.     *)

AbsQueue == Jobs(tmp \o todo)
AbsDone  == Answers(done)
AbsFetched ==
  [t \in Thread |-> IF pc[t] = "copy" THEN <<kcop[item[t]], result[item[t]]>> ELSE answer[t]]

\* What the items contain.
Contents == [i \in Item |-> <<kcop[i], result[i]>>]

\* Jobs and Answers map the contents of the items over a list.
LEMMA AbsIsMap ==
  ASSUME TypeOK
  PROVE  AbsQueue = Map(kcop, tmp \o todo) /\ AbsDone = Map(Contents, done)
<1>1. AbsQueue = Map(kcop, tmp \o todo)
  BY DEF AbsQueue, Jobs, Map
<1>2. \A n \in 1..Len(done) : done[n] \in Item
  BY LenProperties DEF TypeOK
<1> QED
  BY <1>1, <1>2 DEF AbsDone, Answers, Map, Contents

\* The abstract queues are as long as the lists.
LEMMA AbsLengths ==
  ASSUME TypeOK
  PROVE  Len(AbsQueue) = Len(tmp \o todo) /\ Len(AbsDone) = Len(done)
<1> DEFINE a == tmp \o todo
<1>1. a \in Seq(Item) /\ done \in Seq(Item)
  BY ConcatProperties DEF TypeOK
<1>2. AbsQueue = Map(kcop, a) /\ AbsDone = Map(Contents, done)
  BY AbsIsMap
<1> HIDE DEF a
<1>3. Len(Map(kcop, a)) = Len(a) /\ Len(Map(Contents, done)) = Len(done)
  BY <1>1, MapIsSeq
<1> QED
  BY <1>2, <1>3 DEF a

\* The queue is the same if its items and what they contain are the same.
LEMMA SameQueue ==
  ASSUME TypeOK, TypeOK', (tmp \o todo)' = tmp \o todo,
         \A i \in Range(tmp) \cup Range(todo) : kcop'[i] = kcop[i]
  PROVE  AbsQueue' = AbsQueue
<1>1. Range(tmp \o todo) = Range(tmp) \cup Range(todo)
  BY RangeConcatenation DEF TypeOK
<1>2. tmp \o todo \in Seq(Item)
  BY ConcatProperties DEF TypeOK
<1>3. AbsQueue' = Map(kcop', (tmp \o todo)') /\ AbsQueue = Map(kcop, tmp \o todo)
  BY DEF AbsQueue, Jobs, Map
<1>4. Map(kcop', tmp \o todo) = Map(kcop, tmp \o todo)
  BY <1>1, <1>2, MapSame
<1> QED
  BY <1>3, <1>4

\* And so are the completed jobs.
LEMMA SameDone ==
  ASSUME TypeOK, TypeOK', done' = done,
         \A i \in Range(done) : kcop'[i] = kcop[i] /\ result'[i] = result[i]
  PROVE  AbsDone' = AbsDone
<1>1. \A i \in Range(done) : Contents'[i] = Contents[i]
  BY RangeOfSeq DEF Contents, TypeOK
<1>2. AbsDone' = Map(Contents', done) /\ AbsDone = Map(Contents, done)
  <2>1. \A n \in 1..Len(done) : done[n] \in Item
    BY LenProperties DEF TypeOK
  <2> QED
    BY <2>1 DEF AbsDone, Answers, Map, Contents
<1>3. Map(Contents', done) = Map(Contents, done)
  BY <1>1, MapSame DEF TypeOK
<1> QED
  BY <1>2, <1>3

\* What is fetched changes only for a thread that fetches: the items that the
\* others have taken off the list are not written.
LEMMA SameFetched ==
  ASSUME \A t \in Thread :
           /\ pc'[t] = "copy" <=> pc[t] = "copy"
           /\ pc[t] = "copy" =>
                /\ item'[t] = item[t]
                /\ kcop'[item[t]] = kcop[item[t]] /\ result'[item[t]] = result[item[t]]
           /\ pc[t] # "copy" => answer'[t] = answer[t]
  PROVE  AbsFetched' = AbsFetched
BY DEF AbsFetched

\* There is room for a job whose item a thread has: the ring is the bound.
LEMMA RoomForCarried ==
  ASSUME ItemInv, CountInv, NEW t \in Carrying
  PROVE  Len(AbsQueue) + Len(AbsDone) < MaxRing
<1> DEFINE a == tmp \o todo  b == a \o done
<1> USE DEF ItemInv
<1>1. /\ a \in Seq(Item) /\ IsInjective(a) /\ Range(a) = Range(tmp) \cup Range(todo)
      /\ Len(a) \in Nat /\ Len(done) \in Nat /\ done \in Seq(Item)
  BY ConcatOfLists, LenProperties DEF TypeOK, ListInv
<1>2. Range(a) \cap Range(done) = {} /\ IsInjective(done)
  BY <1>1 DEF ListInv
<1>3. Len(AbsQueue) = Len(a) /\ Len(AbsDone) = Len(done)
  BY AbsLengths
<1> HIDE DEF a
<1>4. /\ b \in Seq(Item) /\ IsInjective(b) /\ Range(b) = Range(a) \cup Range(done)
      /\ Len(b) = Len(a) + Len(done)
  BY <1>1, <1>2, ConcatOfLists, ConcatProperties
<1> HIDE DEF b
<1>5. IsFiniteSet(Range(b)) /\ Cardinality(Range(b)) = Len(b)
  BY <1>4, LengthOfList
<1> DEFINE all == Range(b) \cup {item[t]}
<1>6. item[t] \notin Range(b) /\ all \subseteq alloc
  BY <1>1, <1>4 DEF ListInv
<1>7. IsFiniteSet(all) /\ Cardinality(all) = Len(b) + 1
  BY <1>5, <1>6, FS_AddElement
<1> HIDE DEF all
<1>8. Cardinality(all) <= Cardinality(alloc) /\ Cardinality(alloc) \in Nat
  BY <1>6, FS_Subset, FS_CardinalityType DEF CountInv, FiniteInv
<1>9. Cardinality(Allocating) \in Nat /\ itemcount \in Nat /\ MaxRing \in Nat
  BY FS_CardinalityType, RingAssumption DEF CountInv, FiniteInv, TypeOK
<1>10. Cardinality(alloc) + Cardinality(Allocating) <= itemcount /\ itemcount <= MaxRing
  BY DEF CountInv, RingIsBounded, Allocating
<1> QED
  BY <1>1, <1>3, <1>4, <1>7, <1>8, <1>9, <1>10

-----------------------------------------------------------------------------
(* The steps that move the abstract queue.                                 *)

\* list_add_tail of a job is its submission.
LEMMA AddIsSubmit ==
  ASSUME ItemInv, ItemInv', CountInv, NEW t \in Thread, RunAdd(t)
  PROVE  Queue!Submit(job[t]) /\ job[t] \in Job
<1> DEFINE a == tmp \o todo  x == item[t]
<1>1. TypeOK /\ TypeOK' /\ t \in Carrying /\ x \in Item /\ job[t] \in Job
  BY DEF ItemInv, RunAdd, Carrying, TypeOK, JobInv
<1>2. /\ x \notin Range(tmp) /\ x \notin Range(todo) /\ x \notin Range(done)
      /\ \A u \in Carrying : u # t => item[u] # x
  BY <1>1 DEF ItemInv, ListInv
<1>3. kcop'[x] = job[t] /\ \A i : i # x => kcop'[i] = kcop[i]
  BY <1>1 DEF RunAdd, TypeOK
<1>4. (tmp \o todo)' = Append(a, x)
  <2>1. tmp \in Seq(Item) /\ todo \in Seq(Item) /\ <<x>> \in Seq(Item)
    BY <1>1 DEF TypeOK
  <2>2. Append(todo, x) = todo \o <<x>> /\ Append(a, x) = a \o <<x>>
    BY <1>1, <2>1, AppendIsConcat, ConcatProperties
  <2>3. tmp \o (todo \o <<x>>) = a \o <<x>>
    BY <2>1, ConcatAssociative
  <2>4. (tmp \o todo)' = tmp \o Append(todo, x)
    BY DEF RunAdd, worker
  <2> QED
    BY <2>2, <2>3, <2>4
<1>5. AbsQueue' = Append(AbsQueue, job[t])
  <2>1. a \in Seq(Item) /\ Range(a) = Range(tmp) \cup Range(todo)
    BY <1>1, ConcatProperties, RangeConcatenation DEF TypeOK
  <2>2. AbsQueue' = Map(kcop', Append(a, x)) /\ AbsQueue = Map(kcop, a)
    BY <1>4 DEF AbsQueue, Jobs, Map
  <2>3. a \in Seq(Item) /\ x \in Item
    BY <1>1, <2>1
  <2> HIDE DEF a, x
  <2>4. Map(kcop', Append(a, x)) = Append(Map(kcop', a), kcop'[x])
    BY <2>3, MapAppend
  <2>5. Map(kcop', a) = Map(kcop, a)
    BY <1>2, <1>3, <2>1, MapSame
  <2> QED
    BY <1>3, <2>2, <2>4, <2>5
<1>6. AbsDone' = AbsDone
  BY <1>1, <1>2, <1>3, SameDone DEF RunAdd
<1>7. AbsFetched' = AbsFetched
  BY <1>1, <1>2, <1>3, SameFetched DEF RunAdd, Carrying, TypeOK
<1>8. Len(AbsQueue) + Len(AbsDone) < MaxRing
  BY <1>1, RoomForCarried
<1> QED
  BY <1>1, <1>5, <1>6, <1>7, <1>8 DEF Queue!Submit, AbsQueue, AbsDone, AbsFetched

\* list_del of the first completed item is the fetch: the thread has the
\* answer from here on, although it copies it later.
LEMMA TakeIsFetch ==
  ASSUME ItemInv, ItemInv', NEW t \in Thread, FetchTake(t)
  PROVE  Queue!Fetch(t)
<1>1. /\ TypeOK /\ TypeOK' /\ done \in Seq(Item) /\ done # <<>> /\ Head(done) \in Item
      /\ kcop' = kcop /\ result' = result /\ done' = Tail(done)
      /\ tmp' = tmp /\ todo' = todo
  BY HeadTailProperties DEF ItemInv, FetchTake, TypeOK, worker
<1>2. Contents' = Contents
  BY <1>1 DEF Contents
<1>3. AbsDone = Map(Contents, done) /\ AbsDone' = Map(Contents, Tail(done))
  <2>1. AbsDone = Map(Contents, done)
    BY <1>1, AbsIsMap
  <2>2. \A n \in 1..Len(done') : done'[n] \in Item
    BY <1>1, LenProperties DEF TypeOK
  <2>3. AbsDone' = Map(Contents', done')
    BY <2>2 DEF AbsDone, Answers, Map, Contents
  <2> QED
    BY <1>1, <1>2, <2>1, <2>3
<1>4. AbsDone # <<>> /\ Head(AbsDone) = Contents[Head(done)] /\ AbsDone' = Tail(AbsDone)
  <2>1. done \in Seq(Item) /\ done # <<>>
    BY <1>1
  <2>2. /\ Map(Contents, done) # <<>>
        /\ Head(Map(Contents, done)) = Contents[Head(done)]
        /\ Tail(Map(Contents, done)) = Map(Contents, Tail(done))
    BY <2>1, MapTail
  <2> QED
    BY <1>3, <2>2
<1>5. AbsQueue' = AbsQueue
  BY <1>1, SameQueue
<1>6. AbsFetched' = [AbsFetched EXCEPT ![t] = Contents[Head(done)]]
  BY <1>1 DEF AbsFetched, FetchTake, Ready, Contents, TypeOK
<1> QED
  BY <1>4, <1>5, <1>6 DEF Queue!Fetch, AbsQueue, AbsDone, AbsFetched

\* The end of a call of crypto_async_fetch.
LEMMA WakeIsForget ==
  ASSUME ItemInv, ItemInv', NEW t \in Thread, FetchWake(t)
  PROVE  Queue!Forget(t)
<1>1. /\ TypeOK /\ TypeOK' /\ UNCHANGED <<kcop, result, done, tmp, todo, item>>
      /\ pc[t] = "wake" /\ pc' = [pc EXCEPT ![t] = "idle"]
      /\ answer' = [answer EXCEPT ![t] = NoAnswer]
  BY DEF ItemInv, FetchWake, lists, worker
<1>2. AbsQueue' = AbsQueue /\ AbsDone' = AbsDone
  BY <1>1, SameQueue, SameDone
<1>3. AbsFetched' = [AbsFetched EXCEPT ![t] = NoAnswer]
  BY <1>1 DEF AbsFetched, TypeOK
<1> QED
  BY <1>2, <1>3 DEF Queue!Forget, AbsQueue, AbsDone, AbsFetched

\* cryptodev_release drops what is queued and completed.
LEMMA SpliceIsDrop ==
  ASSUME ItemInv, ItemInv', ReleaseSplice
  PROVE  Queue!Drop
<1>1. /\ tmp' = <<>> /\ todo' = <<>> /\ done' = <<>>
      /\ UNCHANGED <<kcop, result, pc, item, answer>>
  BY DEF ItemInv, FileInv, ReleaseSplice, worker
<1>2. (tmp \o todo)' = <<>>
  BY <1>1
<1>3. AbsQueue' = <<>> /\ AbsDone' = <<>>
  BY <1>1, <1>2 DEF AbsQueue, AbsDone, Jobs, Answers
<1>4. AbsFetched' = AbsFetched
  BY <1>1, SameFetched
<1> QED
  BY <1>3, <1>4 DEF Queue!Drop, AbsQueue, AbsDone, AbsFetched

\* The rest of a list after its first part.
LEMMA RestOfConcat ==
  ASSUME NEW S, NEW s \in Seq(S), NEW t \in Seq(S)
  PROVE  SubSeq(s \o t, Len(s) + 1, Len(s \o t)) = t
<1>1. Len(s) \in Nat /\ Len(t) \in Nat /\ Len(s \o t) = Len(s) + Len(t)
  BY LenProperties, ConcatProperties
<1>2. CASE t = <<>>
  <2>1. Len(s \o t) < Len(s) + 1
    BY <1>1, <1>2
  <2> QED
    BY <1>1, <1>2, <2>1, SubSeqEmpty
<1>3. CASE t # <<>>
  <2>1. Len(t) >= 1
    BY <1>1, <1>3, EmptySeq
  <2>2. SubSeq(s \o t, Len(s) + 1, Len(s) + Len(t)) = SubSeq(t, 1, Len(t))
    <3>1. /\ Len(s) + 1 \in Len(s) + 1 .. Len(s) + Len(t)
          /\ Len(s) + Len(t) \in Len(s) + 1 .. Len(s) + Len(t)
          /\ Len(s) + 1 - Len(s) = 1 /\ Len(s) + Len(t) - Len(s) = Len(t)
      BY <1>1, <2>1
    <3> QED
      BY <3>1, SubSeqOfConcat2
  <2> QED
    BY <1>1, <2>2, SubSeqFull
<1> QED
  BY <1>2, <1>3

\* The worker's list is no longer than the ring.
LEMMA BatchIsBounded ==
  ASSUME ItemInv, CountInv
  PROVE  Len(tmp) \in Nat /\ Len(tmp) <= MaxRing
<1>1. /\ Len(tmp) \in Nat /\ IsFiniteSet(Range(tmp)) /\ Cardinality(Range(tmp)) = Len(tmp)
  BY LengthOfList, LenProperties DEF ItemInv, TypeOK, ListInv
<1>2. Range(tmp) \subseteq alloc /\ IsFiniteSet(alloc)
  BY DEF ItemInv, ListInv, CountInv, FiniteInv
<1>3. Cardinality(Range(tmp)) <= Cardinality(alloc) /\ Cardinality(alloc) \in Nat
  BY <1>2, FS_Subset, FS_CardinalityType
<1>4. Cardinality(Allocating) \in Nat /\ itemcount \in Nat /\ MaxRing \in Nat
  BY FS_CardinalityType, RingAssumption DEF CountInv, FiniteInv, ItemInv, TypeOK
<1>5. Cardinality(alloc) + Cardinality(Allocating) <= itemcount /\ itemcount <= MaxRing
  BY DEF CountInv, RingIsBounded, Allocating
<1> QED
  BY <1>1, <1>3, <1>4, <1>5

\* list_splice_tail of the worker's list completes all its jobs at once, each
\* with the result of its own crypto_run.
LEMMA SpliceIsComplete ==
  ASSUME ItemInv, ItemInv', CountInv, ResultInv, WorkSplice, tmp # <<>>
  PROVE  \E n \in 1..MaxRing : Queue!Complete(n)
<1> DEFINE n == Len(tmp)
           p == Map(kcop, tmp)
           z == Map(kcop, todo)
           r == [k \in 1..n |-> result[tmp[k]]]
           c == [k \in 1..n |-> <<AbsQueue[k], r[k]>>]
           Some == UNION {Outcome[j] : j \in Job}
<1>1. /\ TypeOK /\ TypeOK' /\ tmp \in Seq(Item) /\ todo \in Seq(Item) /\ done \in Seq(Item)
      /\ ran = n /\ tmp' = <<>> /\ todo' = todo /\ done' = done \o tmp
      /\ UNCHANGED <<kcop, result, pc, item, answer>>
  BY DEF ItemInv, TypeOK, WorkSplice
<1>2. n \in 1..MaxRing /\ n \in Nat
  BY <1>1, EmptySeq, BatchIsBounded
<1>3. /\ \A k \in 1..n : tmp[k] \in Item /\ tmp[k] \in Range(tmp)
      /\ \A k \in 1..n : kcop[tmp[k]] \in Job
      /\ \A k \in 1..n : result[tmp[k]] \in Outcome[kcop[tmp[k]]]
  <2>1. \A k \in 1..n : tmp[k] \in Item /\ tmp[k] \in Range(tmp)
    BY <1>1, LenProperties DEF Range
  <2>2. \A k \in 1..n : result[tmp[k]] \in Outcome[kcop[tmp[k]]]
    BY <1>1 DEF ResultInv
  <2> QED
    BY <2>1, <2>2 DEF ItemInv, JobInv
<1>4. AbsQueue = p \o z
  BY <1>1, AbsIsMap, MapConcat
<1>5. /\ p \in Seq(Image(kcop, Item)) /\ Len(p) = n
      /\ z \in Seq(Image(kcop, Item)) /\ Len(z) = Len(todo) /\ Len(todo) \in Nat
  BY <1>1, MapIsSeq, LenProperties
<1>6. \A k \in 1..n : AbsQueue[k] = kcop[tmp[k]]
  <2>1. \A k \in 1..n : p[k] = kcop[tmp[k]]
    BY DEF Map
  <2> HIDE DEF p, z, n
  <2>2. \A k \in 1..n : (p \o z)[k] = p[k]
    BY <1>2, <1>5, ConcatProperties
  <2> QED
    BY <1>4, <2>1, <2>2
<1>7. r \in [1..n -> Some] /\ \A k \in 1..n : r[k] \in Outcome[AbsQueue[k]]
  BY <1>3, <1>6
<1>8. AbsDone' = AbsDone \o c
  <2>1. Contents' = Contents
    BY <1>1 DEF Contents
  <2>2. AbsDone = Map(Contents, done)
    BY <1>1, AbsIsMap
  <2>3. AbsDone' = Map(Contents', done')
    <3>1. \A k \in 1..Len(done') : done'[k] \in Item
      BY <1>1, LenProperties DEF TypeOK
    <3> QED
      BY <3>1 DEF AbsDone, Answers, Map, Contents
  <2>4. Map(Contents, done \o tmp) = Map(Contents, done) \o Map(Contents, tmp)
    BY <1>1, MapConcat
  <2>5. Map(Contents, tmp) = c
    BY <1>3, <1>6 DEF Map, Contents
  <2>6. done' = done \o tmp
    BY <1>1
  <2> HIDE DEF c
  <2> QED
    BY <2>1, <2>2, <2>3, <2>4, <2>5, <2>6
<1>9. AbsQueue' = SubSeq(AbsQueue, n + 1, Len(AbsQueue))
  <2>1. AbsQueue' = z
    <3>1. (tmp \o todo)' = todo
      BY <1>1, ConcatEmptySeq
    <3> QED
      BY <1>1, <3>1 DEF AbsQueue, Jobs, Map
  <2> HIDE DEF p, z, n
  <2>2. SubSeq(p \o z, n + 1, Len(p \o z)) = z
    BY <1>5, RestOfConcat
  <2> QED
    BY <1>4, <2>1, <2>2
<1>10. AbsFetched' = AbsFetched
  BY <1>1, SameFetched
<1>11. n \in 1..Len(AbsQueue)
  <2> HIDE DEF p, z, n
  <2>1. Len(p \o z) = n + Len(todo)
    <3>1. p \in Seq(Image(kcop, Item)) /\ z \in Seq(Image(kcop, Item))
      BY <1>5
    <3>2. Len(p \o z) = Len(p) + Len(z)
      BY <3>1, ConcatProperties
    <3> QED
      BY <1>5, <3>2
  <2> QED
    BY <1>2, <1>4, <1>5, <2>1
<1> HIDE DEF n, p, z, r, c
<1>12. Queue!Complete(n)
  BY <1>7, <1>8, <1>9, <1>10, <1>11
  DEF Queue!Complete, AbsQueue, AbsDone, AbsFetched, c
<1> QED
  BY <1>2, <1>12

-----------------------------------------------------------------------------
(* The steps that the abstract queue does not see.                         *)

Stutter == AbsQueue' = AbsQueue /\ AbsDone' = AbsDone /\ AbsFetched' = AbsFetched

\* Moving free items, waiting in poll and waking up.
LEMMA QuietStep ==
  ASSUME ItemInv, ItemInv', UNCHANGED <<todo, tmp, done, kcop, result, answer>>,
         \A t \in Thread : /\ pc'[t] = "copy" <=> pc[t] = "copy"
                           /\ pc[t] = "copy" => item'[t] = item[t]
  PROVE  Stutter
<1>1. TypeOK /\ TypeOK'
  BY DEF ItemInv
<1>2. AbsQueue' = AbsQueue
  BY <1>1, SameQueue
<1>3. AbsDone' = AbsDone
  BY <1>1, SameDone
<1>4. AbsFetched' = AbsFetched
  BY SameFetched
<1> QED
  BY <1>2, <1>3, <1>4 DEF Stutter

\* A new item is none of those that are queued, completed or being fetched.
LEMMA AllocIsQuiet ==
  ASSUME ItemInv, ItemInv', NEW t \in Thread, RunAlloc(t)
  PROVE  Stutter
<1>1. TypeOK /\ TypeOK' /\ UNCHANGED <<todo, tmp, done, answer>>
  BY DEF ItemInv, RunAlloc, worker
<1>2. PICK i \in Item \ alloc :
        /\ kcop'   = [kcop EXCEPT ![i] = NoJob]
        /\ result' = [result EXCEPT ![i] = "ok"]
        /\ item'   = [item EXCEPT ![t] = i]
  BY DEF RunAlloc
<1>3. \A x \in alloc : kcop'[x] = kcop[x] /\ result'[x] = result[x]
  BY <1>1, <1>2 DEF TypeOK
<1>4. AbsQueue' = AbsQueue
  BY <1>1, <1>3, SameQueue DEF ItemInv, ListInv
<1>5. AbsDone' = AbsDone
  BY <1>1, <1>3, SameDone DEF ItemInv, ListInv
<1>6. \A u \in Thread : pc[u] = "copy" => item[u] \in alloc
  BY DEF ItemInv, ListInv, Carrying
<1>7. AbsFetched' = AbsFetched
  BY <1>1, <1>2, <1>3, <1>6, SameFetched DEF RunAlloc, TypeOK
<1> QED
  BY <1>4, <1>5, <1>7 DEF Stutter

\* The answer was fetched when its item was taken; nothing has changed it.
LEMMA CopyIsQuiet ==
  ASSUME ItemInv, ItemInv', NEW t \in Thread, FetchCopy(t)
  PROVE  Stutter
<1>1. /\ TypeOK /\ TypeOK' /\ UNCHANGED <<kcop, result, done, tmp, todo, item>>
      /\ pc[t] = "copy" /\ pc' = [pc EXCEPT ![t] = "give"]
      /\ answer' = [answer EXCEPT ![t] = <<kcop[item[t]], result[item[t]]>>]
  BY DEF ItemInv, FetchCopy, lists, worker
<1>2. AbsQueue' = AbsQueue /\ AbsDone' = AbsDone
  BY <1>1, SameQueue, SameDone
<1>3. AbsFetched' = AbsFetched
  BY <1>1 DEF AbsFetched, TypeOK
<1> QED
  BY <1>2, <1>3 DEF Stutter

\* list_cut_position keeps the order: the worker's list was empty.
LEMMA CutIsQuiet ==
  ASSUME ItemInv, ItemInv', WorkCut
  PROVE  Stutter
<1>1. /\ TypeOK /\ TypeOK' /\ UNCHANGED <<kcop, result, done, pc, item, answer>>
      /\ tmp = <<>> /\ tmp' = todo /\ todo' = <<>> /\ todo \in Seq(Item)
  BY DEF ItemInv, FileInv, TypeOK, WorkCut
<1>2. (tmp \o todo)' = tmp \o todo
  BY <1>1, ConcatEmptySeq
<1>3. AbsQueue' = AbsQueue
  BY <1>1, <1>2, SameQueue
<1>4. AbsDone' = AbsDone
  BY <1>1, SameDone
<1>5. AbsFetched' = AbsFetched
  BY <1>1, SameFetched
<1> QED
  BY <1>3, <1>4, <1>5 DEF Stutter

\* crypto_run writes the result of an item that is not completed yet.
LEMMA RunIsQuiet ==
  ASSUME ItemInv, ItemInv', WorkRun
  PROVE  Stutter
<1>1. TypeOK /\ TypeOK' /\ UNCHANGED <<kcop, todo, tmp, done, pc, item, answer>>
  BY DEF ItemInv, WorkRun
<1>2. ran + 1 \in 1..Len(tmp)
  BY <1>1, LenProperties DEF WorkRun, TypeOK
<1>3. tmp[ran + 1] \in Range(tmp)
  BY <1>1, <1>2, LenProperties DEF TypeOK, Range
<1>4. \A x : x \notin Range(tmp) => result'[x] = result[x]
  BY <1>1, <1>3 DEF WorkRun, TypeOK
<1>5. AbsQueue' = AbsQueue
  BY <1>1, SameQueue
<1>6. AbsDone' = AbsDone
  BY <1>1, <1>4, SameDone DEF ItemInv, ListInv
<1>7. \A u \in Thread : pc[u] = "copy" => item[u] \notin Range(tmp)
  BY DEF ItemInv, ListInv, Carrying
<1>8. AbsFetched' = AbsFetched
  BY <1>1, <1>4, <1>7, SameFetched
<1> QED
  BY <1>5, <1>6, <1>8 DEF Stutter

\* A run of the worker that found nothing to do.
LEMMA EmptySpliceIsQuiet ==
  ASSUME ItemInv, ItemInv', WorkSplice, tmp = <<>>
  PROVE  Stutter
<1>1. done \in Seq(Item) /\ done' = done
  BY ConcatEmptySeq DEF ItemInv, TypeOK, WorkSplice
<1> QED
  BY <1>1, QuietStep DEF WorkSplice

\* An open file starts with empty lists, and nobody has fetched anything.
LEMMA OpenIsQuiet ==
  ASSUME ItemInv, ItemInv', Open
  PROVE  Stutter
<1>1. /\ TypeOK /\ TypeOK' /\ UNCHANGED <<todo, tmp, done, pc, item, answer>>
      /\ todo = <<>> /\ done = <<>> /\ tmp = <<>>
      /\ \A t \in Thread : pc[t] = "idle"
  BY DEF ItemInv, FileInv, Open, worker
<1>2. Range(tmp) = {} /\ Range(todo) = {} /\ Range(done) = {}
  BY <1>1, EmptyList
<1>3. AbsQueue' = AbsQueue
  BY <1>1, <1>2, SameQueue
<1>4. AbsDone' = AbsDone
  BY <1>1, <1>2, SameDone
<1>5. AbsFetched' = AbsFetched
  BY <1>1, SameFetched
<1> QED
  BY <1>3, <1>4, <1>5 DEF Stutter

-----------------------------------------------------------------------------
(* The refinement.                                                         *)

\* Each step of the ring is a step of the queue, or one it does not see.
LEMMA QueueStep ==
  ASSUME ItemInv, ItemInv', CountInv, ResultInv, [Next]_vars
  PROVE  [Queue!Next]_(Queue!vars)
<1>1. ASSUME Stutter PROVE UNCHANGED Queue!vars
  BY <1>1 DEF Stutter, AbsQueue, AbsDone, AbsFetched, Queue!vars
<1>2. ASSUME NEW t \in Thread, RunAdd(t) PROVE Queue!Next
  BY <1>2, AddIsSubmit DEF Queue!Next
<1>3. ASSUME NEW t \in Thread, FetchTake(t) \/ FetchWake(t) PROVE Queue!Next
  BY <1>3, TakeIsFetch, WakeIsForget DEF Queue!Next
<1>4. CASE ReleaseSplice
  BY <1>4, SpliceIsDrop DEF Queue!Next
<1>5. ASSUME WorkSplice PROVE Queue!Next \/ Stutter
  BY <1>5, SpliceIsComplete, EmptySpliceIsQuiet DEF Queue!Next
<1>6. ASSUME NEW t \in Thread, RunAlloc(t) \/ FetchCopy(t) PROVE Stutter
  BY <1>6, AllocIsQuiet, CopyIsQuiet
<1>7. ASSUME WorkCut \/ WorkRun \/ Open PROVE Stutter
  BY <1>7, CutIsQuiet, RunIsQuiet, OpenIsQuiet
<1>8. ASSUME NEW t \in Thread,
             \/ \E j \in Job : RunTake(t, j) \/ RunGrow(t, j)
             \/ \E e \in {"in", "out"} : PollStart(t, e)
             \/ PollTimeout(t) \/ RunNoMemory(t) \/ RunQueue(t) \/ FetchGive(t)
             \/ PollIn(t) \/ PollOut(t) \/ PollCount(t) \/ PollAgain(t)
      PROVE  Stutter
  <2>1. /\ UNCHANGED <<todo, tmp, done, kcop, result, answer>>
        /\ pc[t] # "copy" /\ pc'[t] # "copy"
        /\ \A u \in Thread : u # t => pc'[u] = pc[u] /\ item'[u] = item[u]
    BY <1>8 DEF RunTake, RunGrow, PollStart, Ready, PollTimeout, RunNoMemory, RunQueue,
                FetchGive, PollIn, PollOut, PollCount, PollAgain, PollReturn, PollOn,
                lists, worker, ItemInv, TypeOK
  <2> QED
    BY <2>1, QuietStep
<1>9. ASSUME WorkBegin \/ WorkWake \/ Release \/ ReleaseFree \/ UNCHANGED vars
      PROVE  Stutter
  <2>1. UNCHANGED <<todo, tmp, done, kcop, result, answer, pc, item>>
    BY <1>9 DEF WorkBegin, WorkWake, Release, ReleaseFree, vars, lists, worker
  <2> QED
    BY <2>1, QuietStep
<1> QED
  BY <1>1, <1>2, <1>3, <1>4, <1>5, <1>6, <1>7, <1>8, <1>9
  DEF Next, NextWithMemory, Begin, Step, Work

\* Every behaviour of the ring is one of the bounded queue: jobs complete and
\* are handed out in the order they were submitted, each once, with its own
\* contents and one of its own results, and never more than MAX_COP_RINGSIZE
\* of them are in the driver.
THEOREM RingImplementsQueue == Spec => ImplementsJobQueue
<1>1. Init => Queue!Init
  BY ConcatEmptySeq DEF Init, Queue!Init, Jobs, Answers
<1>2. Init => ResultInv
  BY DEF Init, ResultInv
<1>3. ItemInv /\ ResultInv /\ [Next]_vars => ResultInv'
  BY ResultStep
<1>4. ItemInv /\ ItemInv' /\ CountInv /\ ResultInv /\ [Next]_vars
        => [Queue!Next]_(Queue!vars)
  BY QueueStep
<1> QED
  BY <1>1, <1>2, <1>3, <1>4, RingInvariance, PTL DEF Spec, ImplementsJobQueue, Queue!Spec
=============================================================================
