---------------------------- MODULE ZeroCopyProofs ----------------------------
(***************************************************************************)
(* Proofs about ZeroCopy, for every page size, every preallocation and     *)
(* every set of requests, and whatever fails.                              *)
(***************************************************************************)
EXTENDS ZeroCopy, FiniteSetTheorems, TLAPS

-----------------------------------------------------------------------------
(* Pages.                                                                  *)

\* An address is a page and an offset in it.
LEMMA PageAndOffset ==
  ASSUME NEW a \in Nat
  PROVE  /\ a \div PageSize \in Nat
         /\ a % PageSize \in 0..(PageSize - 1)
         /\ (a \div PageSize) * PageSize + (a % PageSize) = a
<1> USE ZeroCopyAssumption
<1>1. a \div PageSize \in Nat
  OBVIOUS
<1>2. a % PageSize \in 0..(PageSize - 1)
  OBVIOUS
<1>3. a - PageSize * (a \div PageSize) = a % PageSize
  OBVIOUS
<1> DEFINE q == a \div PageSize  r == a % PageSize
<1> HIDE DEF q, r
<1>4. a - PageSize * q = r /\ q \in Nat /\ r \in 0..(PageSize - 1)
  BY <1>1, <1>2, <1>3 DEF q, r
<1>5. q * PageSize + r = a
  BY <1>4
<1>6. (a \div PageSize) * PageSize + (a % PageSize) = a
  BY <1>5 DEF q, r
<1> QED
  BY <1>1, <1>2, <1>6

\* The page that contains an address.
LEMMA PageOfAddress ==
  ASSUME NEW a \in Nat, NEW q \in Nat, q * PageSize <= a, a < q * PageSize + PageSize
  PROVE  a \div PageSize = q
BY ZeroCopyAssumption

\* An address above the start of a page is on that page or a later one.
LEMMA PagesBelow ==
  ASSUME NEW a \in Nat, NEW q \in Nat, q * PageSize <= a
  PROVE  q <= a \div PageSize
BY ZeroCopyAssumption

\* Higher addresses are on later pages.
LEMMA PagesInOrder ==
  ASSUME NEW a \in Nat, NEW b \in Nat, a <= b
  PROVE  a \div PageSize <= b \div PageSize
BY ZeroCopyAssumption

\* PAGECOUNT is 0 for an empty buffer only.
LEMMA PageCountType ==
  ASSUME NEW addr \in Nat, NEW len \in Nat
  PROVE  PageCount(addr, len) \in Nat /\ (PageCount(addr, len) = 0 <=> len = 0)
<1>1. CASE len = 0
  BY <1>1 DEF PageCount
<1>2. CASE len # 0
  <2>1. addr + len - 1 \in Nat /\ addr <= addr + len - 1
    BY <1>2
  <2>2. /\ addr \div PageSize \in Nat /\ (addr + len - 1) \div PageSize \in Nat
        /\ addr \div PageSize <= (addr + len - 1) \div PageSize
    BY <2>1, PageAndOffset, PagesInOrder
  <2> QED
    BY <1>2, <2>2 DEF PageCount
<1> QED
  BY <1>1, <1>2

\* In place, the larger count is the count of the larger length.
LEMMA PageCountOfLarger ==
  ASSUME NEW addr \in Nat, NEW len \in Nat, NEW other \in Nat
  PROVE  Larger(PageCount(addr, len), PageCount(addr, other))
           = PageCount(addr, Larger(len, other))
<1>1. ASSUME NEW l \in Nat, NEW m \in Nat, l <= m
      PROVE  PageCount(addr, l) <= PageCount(addr, m)
  <2>1. CASE l = 0
    BY <2>1, PageCountType
  <2>2. CASE l # 0
    <3>1. addr + l - 1 \in Nat /\ addr + m - 1 \in Nat /\ addr + l - 1 <= addr + m - 1
      BY <1>1, <2>2
    <3>2. /\ (addr + l - 1) \div PageSize <= (addr + m - 1) \div PageSize
          /\ (addr + l - 1) \div PageSize \in Nat /\ (addr + m - 1) \div PageSize \in Nat
          /\ addr \div PageSize \in Nat
      BY <3>1, PagesInOrder, PageAndOffset
    <3> QED
      BY <1>1, <2>2, <3>2 DEF PageCount
  <2> QED
    BY <2>1, <2>2
<1>2. PageCount(addr, len) \in Nat /\ PageCount(addr, other) \in Nat
  BY PageCountType
<1>3. CASE len < other
  BY <1>1, <1>2, <1>3 DEF Larger
<1>4. CASE ~(len < other)
  BY <1>1, <1>2, <1>4 DEF Larger
<1> QED
  BY <1>3, <1>4

-----------------------------------------------------------------------------
(* The entries of one buffer.                                              *)

\* Entry k of the n entries of a buffer made so far, with rest bytes to come:
\* it has its own page, and ends with it unless it is the last.
IsEntry(e, addr, len, k, n, rest) ==
  /\ e \in Entry
  /\ e.page = (addr \div PageSize) + k - 1
  /\ e.offset = IF k = 1 THEN addr % PageSize ELSE 0
  /\ e.offset + e.length <= PageSize
  /\ k < n \/ rest # 0 => e.offset + e.length = PageSize
  /\ k = n => Begins(e) + e.length + rest = addr + len

\* The first n entries are in slots first, first + 1, ... of the list s.
Described(s, first, addr, len, n, rest) ==
  /\ n = 0 => rest = len
  /\ \A k \in 1..n : IsEntry(s[first + k - 1], addr, len, k, n, rest)

\* The entry that the loop of __get_userbuf makes after n others.
NextOffset(addr, n) == IF n = 0 THEN PageOffset(addr) ELSE 0
NextLength(addr, n, rest) == Smaller(PageSize - NextOffset(addr, n), rest)
EntryAfter(addr, n, rest) ==
  [page |-> (addr \div PageSize) + n, offset |-> NextOffset(addr, n),
   length |-> NextLength(addr, n, rest)]

\* It describes the next bytes, and PAGECOUNT has counted it.
LEMMA NextEntry ==
  ASSUME NEW s, NEW r, NEW first \in Nat, NEW addr \in Nat, NEW len \in Nat,
         NEW n \in Nat, NEW rest \in Nat, rest # 0,
         Described(s, first, addr, len, n, rest),
         \A k \in 1..n : r[first + k - 1] = s[first + k - 1],
         r[first + n] = EntryAfter(addr, n, rest)
  PROVE  /\ Described(r, first, addr, len, n + 1, rest - NextLength(addr, n, rest))
         /\ rest - NextLength(addr, n, rest) \in Nat
         /\ n < PageCount(addr, len)
<1> DEFINE q == addr \div PageSize  e == r[first + n]
           off == NextOffset(addr, n)  l == NextLength(addr, n, rest)
<1> USE ZeroCopyAssumption
<1>1. q \in Nat /\ addr % PageSize \in 0..(PageSize - 1) /\ q * PageSize + (addr % PageSize) = addr
  BY PageAndOffset
<1>2. off \in 0..(PageSize - 1) /\ l \in 1..PageSize /\ l <= rest /\ l <= PageSize - off
  BY <1>1 DEF NextOffset, NextLength, PageOffset, Smaller
<1>3. e \in Entry /\ e.page = q + n /\ e.offset = off /\ e.length = l
  <2>1. e = [page |-> q + n, offset |-> off, length |-> l]
    BY DEF EntryAfter
  <2>2. q + n \in Nat /\ off \in 0..(PageSize - 1) /\ l \in 1..PageSize /\ off + l <= PageSize
    BY <1>1, <1>2
  <2> HIDE DEF e, q, off, l
  <2> QED
    BY <2>1, <2>2 DEF Entry
<1>4. /\ n = 0 => off = addr % PageSize
      /\ n # 0 => off = 0
      /\ rest - l # 0 => off + l = PageSize
  BY <1>1, <1>2 DEF NextOffset, NextLength, PageOffset, Smaller
<1> HIDE DEF off, l
<1>5. Begins(e) = (q + n) * PageSize + off
  BY <1>3 DEF Begins
<1>6. Begins(e) + rest = addr + len
  <2>1. CASE n = 0
    <3>1. rest = len /\ off = addr % PageSize
      BY <1>4, <2>1 DEF Described
    <3>2. (q + n) * PageSize = q * PageSize
      BY <1>1, <2>1
    <3> QED
      BY <1>1, <1>5, <3>1, <3>2
  <2>2. CASE n # 0
    <3> DEFINE p == s[first + n - 1]
    <3>1. /\ p \in Entry /\ p.page = q + n - 1 /\ p.offset + p.length = PageSize
          /\ Begins(p) + p.length + rest = addr + len
      BY <2>2 DEF Described, IsEntry
    <3>2. Begins(p) = (q + n - 1) * PageSize + p.offset
      BY <3>1 DEF Begins
    <3>3. (q + n - 1) * PageSize + PageSize = (q + n) * PageSize
      <4>1. q \in Int
        BY <1>1
      <4> HIDE DEF q
      <4> QED
        BY <4>1
    <3>4. p.offset \in Nat /\ p.length \in Nat /\ (q + n - 1) * PageSize \in Nat
      BY <1>1, <2>2, <3>1 DEF Entry
    <3>5. off = 0
      BY <1>4, <2>2
    <3> HIDE DEF q, p, e
    <3> QED
      BY <1>1, <1>5, <3>1, <3>2, <3>3, <3>4, <3>5
  <2> QED
    BY <2>1, <2>2
<1>7. (q + n) * PageSize \in Nat
  <2>1. q \in Nat
    BY <1>1
  <2> HIDE DEF q
  <2> QED
    BY <2>1
<1>8. n < PageCount(addr, len)
  <2>1. len # 0
    <3>1. CASE n = 0
      BY <3>1 DEF Described
    <3>2. CASE n # 0
      <4>1. (q + n) * PageSize >= q * PageSize + PageSize
        BY <1>1, <3>2
      <4> HIDE DEF q, e
      <4> QED
        BY <1>1, <1>2, <1>5, <1>6, <1>7, <4>1
    <3> QED
      BY <3>1, <3>2
  <2>2. addr + len - 1 \in Nat /\ (q + n) * PageSize <= addr + len - 1
    BY <1>2, <1>5, <1>6, <1>7, <2>1
  <2>3. q + n <= (addr + len - 1) \div PageSize
    BY <1>1, <2>2, PagesBelow
  <2>4. (addr + len - 1) \div PageSize \in Nat
    BY <2>2, PageAndOffset
  <2> QED
    BY <1>1, <2>1, <2>3, <2>4 DEF PageCount
<1>9. \A k \in 1..n : IsEntry(s[first + k - 1], addr, len, k, n, rest)
  BY DEF Described
<1>10. ASSUME NEW k \in 1..(n + 1)
       PROVE  IsEntry(r[first + k - 1], addr, len, k, n + 1, rest - l)
  <2>1. CASE k \in 1..n
    <3>1. r[first + k - 1] = s[first + k - 1] /\ k # n + 1
      BY <2>1
    <3>2. IsEntry(s[first + k - 1], addr, len, k, n, rest)
      BY <1>9, <2>1
    <3> QED
      BY <3>1, <3>2 DEF IsEntry
  <2>2. CASE k = n + 1
    <3>1. first + k - 1 = first + n
      BY <2>2
    <3>2. rest - l # 0 => off + l = PageSize
      BY <1>4
    <3>3. Begins(e) + l + (rest - l) = addr + len
      BY <1>2, <1>5, <1>6, <1>7
    <3>4. off = IF k = 1 THEN addr % PageSize ELSE 0
      BY <1>4, <2>2
    <3>5. q + n = q + k - 1
      BY <1>1, <2>2
    <3> HIDE DEF e
    <3> QED
      BY <1>2, <1>3, <2>2, <3>1, <3>2, <3>3, <3>4, <3>5 DEF IsEntry, e
  <2> QED
    BY <2>1, <2>2
<1>11. Described(r, first, addr, len, n + 1, rest - l)
  BY <1>10 DEF Described
<1> QED
  BY <1>2, <1>8, <1>11 DEF l

\* When all bytes are described the entries are as many as PAGECOUNT said.
LEMMA LastEntry ==
  ASSUME NEW s, NEW first \in Nat, NEW addr \in Nat, NEW len \in Nat, NEW n \in Nat,
         Described(s, first, addr, len, n, 0)
  PROVE  n = PageCount(addr, len)
<1> USE ZeroCopyAssumption
<1>1. CASE n = 0
  BY <1>1 DEF Described, PageCount
<1>2. CASE n # 0
  <2> DEFINE q == addr \div PageSize  e == s[first + n - 1]
  <2>1. /\ e \in Entry /\ e.page = q + n - 1 /\ e.offset + e.length <= PageSize
        /\ Begins(e) + e.length + 0 = addr + len
    BY <1>2 DEF Described, IsEntry
  <2>2. /\ q \in Nat /\ q * PageSize + (addr % PageSize) = addr
        /\ addr % PageSize \in 0..(PageSize - 1)
    BY PageAndOffset
  <2>3. e.offset \in Nat /\ e.length \in 1..PageSize /\ q + n - 1 \in Nat
    BY <1>2, <2>1, <2>2 DEF Entry
  <2>4. Begins(e) = (q + n - 1) * PageSize + e.offset /\ (q + n - 1) * PageSize \in Nat
    BY <2>1, <2>3 DEF Begins
  <2> HIDE DEF e
  <2>5. /\ addr + len - 1 \in Nat /\ (q + n - 1) * PageSize <= addr + len - 1
        /\ addr + len - 1 < (q + n - 1) * PageSize + PageSize
    BY <2>1, <2>3, <2>4
  <2>6. (addr + len - 1) \div PageSize = q + n - 1
    BY <2>3, <2>5, PageOfAddress
  <2>7. len # 0
    <3>1. n = 1 => e.offset = addr % PageSize
      BY DEF Described, IsEntry, e
    <3>2. n # 1 => (q + n - 1) * PageSize >= q * PageSize + PageSize
      BY <1>2, <2>2
    <3>3. n = 1 => (q + n - 1) * PageSize = q * PageSize
      BY <2>2
    <3> HIDE DEF q
    <3> QED
      BY <2>1, <2>2, <2>3, <2>4, <3>1, <3>2, <3>3
  <2> QED
    BY <2>2, <2>6, <2>7 DEF PageCount
<1> QED
  BY <1>1, <1>2

\* Where entry k of n entries of a buffer begins and ends; p is where its page
\* begins.
Placed(e, addr, len, k, n, p) ==
  /\ e \in Entry /\ e.offset + e.length <= PageSize
  /\ Begins(e) \in Nat /\ e.length \in 1..PageSize /\ p \in Nat
  /\ Begins(e) >= p /\ Begins(e) < p + PageSize
  /\ Begins(e) + e.length <= p + PageSize
  /\ k = 1 => Begins(e) = addr
  /\ k # 1 => Begins(e) = p /\ Begins(e) > addr
  /\ k < n => Begins(e) + e.length = p + PageSize
  /\ k = n => Begins(e) + e.length = addr + len

\* Where the k-th entry of a described buffer lies: it starts at the buffer or at
\* its page, and ends at its page or at the end of the buffer.
LEMMA EntryBounds ==
  ASSUME NEW s, NEW first \in Nat, NEW addr \in Nat, NEW len \in Nat, NEW n \in Nat,
         Described(s, first, addr, len, n, 0), NEW k \in 1..n
  PROVE  Placed(s[first + k - 1], addr, len, k, n, ((addr \div PageSize) + k - 1) * PageSize)
<1> DEFINE e == s[first + k - 1]  q == addr \div PageSize  p == q + k - 1
<1> USE ZeroCopyAssumption
<1>1. q \in Nat /\ addr % PageSize \in 0..(PageSize - 1) /\ q * PageSize + (addr % PageSize) = addr
  BY PageAndOffset
<1>2. IsEntry(e, addr, len, k, n, 0)
  BY DEF Described
<1>3. /\ e \in Entry /\ e.page = p /\ e.offset + e.length <= PageSize
      /\ e.offset = IF k = 1 THEN addr % PageSize ELSE 0
      /\ k < n => e.offset + e.length = PageSize
      /\ k = n => Begins(e) + e.length + 0 = addr + len
  BY <1>2 DEF IsEntry
<1>4. e.offset \in 0..(PageSize - 1) /\ e.length \in 1..PageSize
  BY <1>3 DEF Entry
<1>5. Begins(e) = p * PageSize + e.offset
  BY <1>3 DEF Begins
<1> HIDE DEF e, q
<1>6. p \in Nat /\ (k = 1 => p = q)
  BY <1>1
<1>7. p * PageSize \in Nat /\ q * PageSize \in Nat
  BY <1>1, <1>6
<1>8. k # 1 => p * PageSize >= q * PageSize + PageSize
  BY <1>1
<1> HIDE DEF p
<1>9. /\ Begins(e) \in Nat
      /\ Begins(e) >= p * PageSize /\ Begins(e) < p * PageSize + PageSize
      /\ Begins(e) + e.length <= p * PageSize + PageSize
  BY <1>3, <1>4, <1>5, <1>7
<1>10. /\ k = 1 => Begins(e) = addr
       /\ k # 1 => Begins(e) = p * PageSize /\ Begins(e) > addr
  BY <1>1, <1>3, <1>4, <1>5, <1>6, <1>7, <1>8
<1>11. /\ k < n => Begins(e) + e.length = p * PageSize + PageSize
       /\ k = n => Begins(e) + e.length = addr + len
  BY <1>3, <1>4, <1>5, <1>7, <1>9
<1> QED
  BY <1>3, <1>4, <1>7, <1>9, <1>10, <1>11 DEF Placed, e, p, q

\* An entry ends where the next begins, none before the buffer or after it.
LEMMA EntriesInOrder ==
  ASSUME NEW s, NEW first \in Nat, NEW addr \in Nat, NEW len \in Nat, NEW n \in Nat,
         Described(s, first, addr, len, n, 0), NEW k \in 1..n
  PROVE  /\ Begins(s[first + k - 1]) >= addr
         /\ Begins(s[first + k - 1]) + s[first + k - 1].length <= addr + len
         /\ \A j \in 1..n : k < j =>
              Begins(s[first + k - 1]) + s[first + k - 1].length <= Begins(s[first + j - 1])
         /\ k + 1 \in 1..n =>
              Begins(s[first + k + 1 - 1]) = Begins(s[first + k - 1]) + s[first + k - 1].length
<1> DEFINE q == addr \div PageSize
           B(i) == Begins(s[first + i - 1])
           L(i) == s[first + i - 1].length
           P(i) == (q + i - 1) * PageSize
<1> USE ZeroCopyAssumption
<1>1. q \in Nat
  BY PageAndOffset
<1>2. ASSUME NEW i \in 1..n
      PROVE  /\ B(i) \in Nat /\ L(i) \in Nat \ {0} /\ P(i) \in Nat
             /\ B(i) >= P(i) /\ B(i) >= addr
             /\ i # 1 => B(i) = P(i)
             /\ i < n => B(i) + L(i) = P(i) + PageSize
             /\ i = n => B(i) + L(i) = addr + len
  <2>1. /\ B(i) \in Nat /\ L(i) \in 1..PageSize
        /\ P(i) \in Nat /\ B(i) >= P(i)
        /\ i = 1 => B(i) = addr
        /\ i # 1 => B(i) = P(i) /\ B(i) > addr
        /\ i < n => B(i) + L(i) = P(i) + PageSize
        /\ i = n => B(i) + L(i) = addr + len
    <3>1. Placed(s[first + i - 1], addr, len, i, n, P(i))
      BY EntryBounds
    <3> HIDE DEF P
    <3> QED
      BY <3>1 DEF Placed
  <2> HIDE DEF B, L, P
  <2> QED
    BY <2>1
<1>3. ASSUME NEW i \in 1..n, NEW j \in 1..n, i < j PROVE P(i) + PageSize <= P(j)
  <2> HIDE DEF q
  <2>1. (q + i - 1) * PageSize + PageSize = (q + i) * PageSize
    BY <1>1
  <2>2. q + i \in Nat /\ q + j - 1 \in Nat /\ q + i <= q + j - 1
    BY <1>1, <1>3
  <2>3. (q + i) * PageSize <= (q + j - 1) * PageSize
    BY <2>2
  <2> QED
    BY <2>1, <2>3
<1>4. \A j \in 1..n : k < j => P(k) + PageSize <= P(j)
  BY <1>3
<1>5. k + 1 \in 1..n => P(k + 1) = P(k) + PageSize
  <2> HIDE DEF q
  <2> QED
    BY <1>1
<1> HIDE DEF B, L, P
<1>6. B(k) >= addr
  BY <1>2
<1>7. \A j \in 1..n : k < j => B(k) + L(k) <= B(j)
  <2> SUFFICES ASSUME NEW j \in 1..n, k < j PROVE B(k) + L(k) <= B(j)
    OBVIOUS
  <2>1. B(k) + L(k) = P(k) + PageSize
    BY <1>2
  <2>2. B(j) >= P(j) /\ P(k) + PageSize <= P(j) /\ P(j) \in Nat /\ B(j) \in Nat
    BY <1>2, <1>4
  <2>3. P(k) \in Nat /\ B(k) \in Nat /\ L(k) \in Nat
    BY <1>2
  <2> QED
    BY <2>1, <2>2, <2>3
<1>8. B(k) + L(k) <= addr + len
  <2>1. CASE k = n
    BY <1>2, <2>1
  <2>2. CASE k # n
    <3>1. n \in 1..n /\ k < n
      BY <2>2
    <3>2. B(k) + L(k) <= B(n) /\ B(n) + L(n) = addr + len
      BY <1>2, <1>7, <3>1
    <3>3. B(k) \in Nat /\ L(k) \in Nat /\ B(n) \in Nat /\ L(n) \in Nat
      BY <1>2, <3>1
    <3> QED
      BY <3>2, <3>3
  <2> QED
    BY <2>1, <2>2
<1>9. k + 1 \in 1..n => B(k + 1) = B(k) + L(k)
  <2> SUFFICES ASSUME k + 1 \in 1..n PROVE B(k + 1) = B(k) + L(k)
    OBVIOUS
  <2>1. B(k) + L(k) = P(k) + PageSize
    BY <1>2
  <2>2. B(k + 1) = P(k + 1)
    <3>1. k + 1 # 1
      OBVIOUS
    <3> QED
      BY <1>2, <3>1
  <2> QED
    BY <1>5, <2>1, <2>2
<1>10. first + k + 1 - 1 = first + (k + 1) - 1
  OBVIOUS
<1> QED
  BY <1>6, <1>7, <1>8, <1>9, <1>10 DEF B, L

-----------------------------------------------------------------------------
(* The invariant.                                                          *)

\* The length of the source, or of the only buffer, and the pages it is in.
SrcLen   == IF InPlace /\ req.mode # "srtp" THEN Larger(req.slen, req.dlen) ELSE req.slen
SrcPages == PageCount(req.src, SrcLen)
DstPages == PageCount(req.dst, req.dlen)

\* The request, what was counted for it, and that the arrays are large enough.
PlainInv ==
  /\ req.src = 0 => req.slen = 0
  /\ req.dst = 0 => req.dlen = 0
  /\ used_pages = IF InPlace THEN SrcPages ELSE SrcPages + DstPages
  /\ readonly_pages = IF InPlace THEN 0 ELSE SrcPages
  /\ pc # "adjust" => used_pages <= array_size
  /\ pc \notin {"copy", "stale"}

SrtpInv ==
  /\ Diff(req) \in 0..MaxDiff
  /\ pc \in {"copy", "src_sg"} => req.src # 0
  /\ pc = "stale" => req.src = 0
  /\ pc # "adjust" => 2 * AuthPages <= array_size
  /\ pc = "use" => used_pages = AuthPages /\ readonly_pages = 0
  /\ pc = "use" /\ req.src = 0 => torn
  /\ pc \notin {"dst", "dst_sg"}

RequestInv ==
  pc # "idle" =>
    /\ req.mode # "srtp" => PlainInv
    /\ req.mode = "srtp" => SrtpInv
    /\ pc \in {"dst", "dst_sg"} => ~InPlace

SrcDescribed == Described(sg, 1, req.src, SrcLen, SrcPages, 0)
DstDescribed == Described(sg, SrcPages + 1, req.dst, req.dlen, DstPages, 0)

\* Where get_userbuf_srtp takes the payload to start.
Payload == req.src + Diff(req)

\* The second list of SRTP: the first one, from the payload's first byte on.
SecondList ==
  \E j \in 1..AuthPages :
    /\ dst_sg = AuthPages + j
    /\ \A k \in 1..AuthPages : k # j => sg[AuthPages + k] = sg[k]
    /\ sg[dst_sg] \in Entry
    /\ Begins(sg[dst_sg]) = Payload /\ Begins(sg[j]) <= Payload
    /\ Begins(sg[dst_sg]) + sg[dst_sg].length = Begins(sg[j]) + sg[j].length

\* The pages that are pinned and the entries that are made, step by step.
ListInv ==
  /\ pc \in {"idle", "adjust", "src", "stale"} => held = {} /\ DOMAIN sg = {}
  /\ pc = "src_sg" =>
       /\ held = 1..SrcPages
       /\ \E n \in 0..SrcPages :
            DOMAIN sg = 1..n /\ Described(sg, 1, req.src, SrcLen, n, left)
  /\ pc \in {"copy", "dst"} => held = 1..SrcPages /\ DOMAIN sg = 1..SrcPages /\ SrcDescribed
  /\ pc = "dst_sg" =>
       /\ held = 1..(SrcPages + DstPages) /\ SrcDescribed
       /\ \E n \in 0..DstPages :
            /\ DOMAIN sg = 1..(SrcPages + n)
            /\ Described(sg, SrcPages + 1, req.dst, req.dlen, n, left)
  /\ pc = "use" /\ NullAuth => held = {} /\ DOMAIN sg = {1, AuthPages + 1}
  /\ pc = "use" /\ ~NullAuth =>
       /\ held = 1..used_pages /\ SrcDescribed
       /\ req.mode = "srtp" => DOMAIN sg = 1..(2 * AuthPages) /\ SecondList
       /\ req.mode # "srtp" => DOMAIN sg = 1..used_pages /\ (~InPlace => DstDescribed)
  /\ pc # "use" \/ req.mode # "srtp" => dst_sg = 0

ZeroCopyInv == TypeOK /\ RequestInv /\ ListInv /\ PinsBalanced

\* What TypeOK says of the counts of a request.
LEMMA CountTypes ==
  ASSUME TypeOK
  PROVE  /\ req.src \in Nat /\ req.slen \in Nat /\ req.dst \in Nat /\ req.dlen \in Nat
         /\ SrcLen \in Nat /\ SrcPages \in Nat /\ DstPages \in Nat /\ AuthPages \in Nat
         /\ (SrcPages = 0 <=> SrcLen = 0) /\ (DstPages = 0 <=> req.dlen = 0)
         /\ req.mode = "srtp" => SrcLen = req.slen /\ SrcPages = AuthPages
<1>1. req.src \in Nat /\ req.slen \in Nat /\ req.dst \in Nat /\ req.dlen \in Nat
  BY DEF TypeOK
<1>2. SrcLen \in Nat
  BY <1>1 DEF SrcLen, Larger
<1>3. /\ SrcPages \in Nat /\ DstPages \in Nat /\ AuthPages \in Nat
      /\ (SrcPages = 0 <=> SrcLen = 0) /\ (DstPages = 0 <=> req.dlen = 0)
  BY <1>1, <1>2, PageCountType DEF SrcPages, DstPages, AuthPages
<1> QED
  BY <1>1, <1>2, <1>3 DEF SrcLen, SrcPages, AuthPages

\* The difference as an int: exact for a payload near the buffer.
LEMMA DiffType ==
  ASSUME NEW r, r.src \in Nat, r.dst \in Nat
  PROVE  /\ Diff(r) \in Nat
         /\ r.dst \in r.src..(r.src + MaxDiff) => r.src + Diff(r) = r.dst
<1> DEFINE d == r.dst - r.src
<1>1. d \in Int /\ IntMod \in Nat \ {0} /\ MaxDiff \in Nat /\ MaxDiff < IntMod
  BY ZeroCopyAssumption
<1>2. r.dst \in r.src..(r.src + MaxDiff) => d >= 0 /\ d < IntMod /\ r.src + d = r.dst
  BY <1>1
<1> HIDE DEF d
<1>3. d % IntMod \in Nat
  BY <1>1
<1>4. d >= 0 /\ d < IntMod => d % IntMod = d
  BY <1>1
<1>5. Diff(r) = d % IntMod
  BY DEF Diff, d
<1> QED
  BY <1>2, <1>3, <1>4, <1>5

\* The buffer being described, in terms of the request.
LEMMA WhichBuffer ==
  ASSUME TypeOK, RequestInv, pc \in {"src", "src_sg", "dst", "dst_sg"}
  PROVE  /\ pc \in {"src", "src_sg"} =>
              Buffer = [addr |-> req.src, len |-> SrcLen, count |-> SrcPages, first |-> 1]
         /\ pc \in {"dst", "dst_sg"} =>
              Buffer = [addr |-> req.dst, len |-> req.dlen, count |-> DstPages,
                        first |-> SrcPages + 1]
<1>1. pc # "idle"
  OBVIOUS
<1>2. CASE pc \in {"src", "src_sg"}
  <2>1. CASE req.mode = "srtp"
    BY <1>2, <2>1, CountTypes DEF Buffer, SrcLen
  <2>2. CASE req.mode # "srtp" /\ InPlace
    BY <1>2, <2>2 DEF Buffer, SrcLen, RequestInv, PlainInv
  <2>3. CASE req.mode # "srtp" /\ ~InPlace
    BY <1>2, <2>3 DEF Buffer, SrcLen, RequestInv, PlainInv
  <2> QED
    BY <2>1, <2>2, <2>3
<1>3. CASE pc \in {"dst", "dst_sg"}
  <2>1. req.mode # "srtp" /\ ~InPlace
    BY <1>3 DEF RequestInv, SrtpInv
  <2>2. used_pages - readonly_pages = DstPages /\ readonly_pages = SrcPages
    BY <1>3, <2>1, CountTypes DEF RequestInv, PlainInv
  <2> QED
    BY <1>3, <2>2 DEF Buffer
<1> QED
  BY <1>2, <1>3

-----------------------------------------------------------------------------
(* The beginning and the end of a request.                                 *)

\* The invariant holds initially.
LEMMA InvInit == Init => ZeroCopyInv
<1> SUFFICES ASSUME Init PROVE ZeroCopyInv
  OBVIOUS
<1>1. Prealloc \in Nat
  BY ZeroCopyAssumption
<1>2. req \in [mode : {"plain", "tls", "srtp"}, src : Nat, slen : Nat, dst : Nat, dlen : Nat]
  BY DEF Init, NoRequest
<1>3. DOMAIN sg = {} /\ marked = {} /\ stale = NoEntry
  BY DEF Init
<1>4. torn \in BOOLEAN /\ unpinned \in BOOLEAN /\ leaked \in BOOLEAN
  BY DEF Init
<1>5. /\ array_size \in Nat /\ array_size >= Prealloc /\ used_pages \in Nat
      /\ readonly_pages \in 0..used_pages /\ held \subseteq Nat /\ left \in Nat
  BY <1>1 DEF Init
<1>6. TypeOK
  BY <1>2, <1>3, <1>4, <1>5 DEF TypeOK, Init
<1> QED
  BY <1>3, <1>6 DEF ZeroCopyInv, RequestInv, ListInv, PinsBalanced, Init

\* After a call nothing is pinned and nothing is listed.
LEMMA EndOfCall ==
  ASSUME TypeOK, End, array_size' = array_size,
         used_pages' \in Nat, readonly_pages' \in 0..used_pages',
         torn' \in BOOLEAN, unpinned' \in BOOLEAN, leaked' \in BOOLEAN, PinsBalanced'
  PROVE  ZeroCopyInv'
<1>1. TypeOK'
  BY DEF TypeOK, End, NoRequest
<1> QED
  BY <1>1 DEF ZeroCopyInv, RequestInv, ListInv, End

\* get_userbuf.
LEMMA StartStep ==
  ASSUME ZeroCopyInv, NEW r \in Request, Start(r)
  PROVE  ZeroCopyInv'
<1> DEFINE s == [r EXCEPT !.slen = IF r.src = 0 THEN 0 ELSE r.slen,
                          !.dlen = IF r.dst = 0 THEN 0 ELSE r.dlen]
           n == PageCount(s.src, s.slen)
           m == PageCount(s.dst, s.dlen)
<1>1. /\ pc = "idle" /\ r.mode = "plain" /\ req' = s
      /\ used_pages' = IF s.src = s.dst THEN Larger(n, m) ELSE n + m
      /\ readonly_pages' = IF s.src = s.dst THEN 0 ELSE n
      /\ pc' = IF used_pages' > array_size THEN "adjust" ELSE "src"
      /\ UNCHANGED <<array_size, held, torn, unpinned, leaked, lists, left>>
  BY DEF Start
<1>2. /\ s \in [mode : {"plain", "tls", "srtp"}, src : Nat, slen : Nat, dst : Nat, dlen : Nat]
      /\ s.mode = "plain" /\ s.src \in Nat /\ s.slen \in Nat /\ s.dst \in Nat /\ s.dlen \in Nat
      /\ s.src = 0 => s.slen = 0
      /\ s.dst = 0 => s.dlen = 0
  BY <1>1, ZeroCopyAssumption
<1> HIDE DEF s
<1>3. n \in Nat /\ m \in Nat
  BY <1>2, PageCountType
<1>4. s.src = s.dst => Larger(n, m) = PageCount(s.src, Larger(s.slen, s.dlen))
  BY <1>2, PageCountOfLarger
<1>5. /\ InPlace' <=> s.src = s.dst
      /\ SrcPages' = IF s.src = s.dst THEN Larger(n, m) ELSE n
      /\ DstPages' = m
  BY <1>1, <1>2, <1>4 DEF InPlace, SrcPages, SrcLen, DstPages
<1> HIDE DEF n, m
<1>6. used_pages' \in Nat /\ readonly_pages' \in 0..used_pages'
  BY <1>1, <1>3 DEF Larger
<1>7. TypeOK'
  BY <1>1, <1>2, <1>6 DEF ZeroCopyInv, TypeOK, lists
<1>8. RequestInv'
  <2>1. array_size \in Nat
    BY DEF ZeroCopyInv, TypeOK
  <2>2. PlainInv'
    BY <1>1, <1>2, <1>5, <1>6, <2>1 DEF PlainInv
  <2> QED
    BY <1>1, <1>2, <2>2 DEF RequestInv
<1>9. ListInv'
  BY <1>1 DEF ZeroCopyInv, ListInv, lists
<1>10. PinsBalanced'
  BY <1>1 DEF ZeroCopyInv, PinsBalanced
<1> QED
  BY <1>7, <1>8, <1>9, <1>10 DEF ZeroCopyInv

\* get_userbuf_tls.
LEMMA StartTlsStep ==
  ASSUME ZeroCopyInv, NEW r \in Request, StartTls(r)
  PROVE  ZeroCopyInv'
<1> DEFINE s == [r EXCEPT !.src = r.dst, !.slen = 0]
           m == PageCount(r.dst, r.dlen)
<1>1. /\ pc = "idle" /\ r.mode = "tls" /\ r.dst # 0 /\ req' = s
      /\ used_pages' = m /\ readonly_pages' = 0 /\ pc' = "adjust"
      /\ UNCHANGED <<array_size, held, torn, unpinned, leaked, lists, left>>
  BY DEF StartTls
<1>2. /\ s \in [mode : {"plain", "tls", "srtp"}, src : Nat, slen : Nat, dst : Nat, dlen : Nat]
      /\ s.mode = "tls" /\ s.src = r.dst /\ s.slen = 0 /\ s.dst = r.dst /\ s.dlen = r.dlen
      /\ r.dst \in Nat /\ r.dlen \in Nat
  BY <1>1, ZeroCopyAssumption
<1> HIDE DEF s
<1>3. m \in Nat
  BY <1>2, PageCountType
<1>4. Larger(0, r.dlen) = r.dlen
  BY <1>2 DEF Larger
<1>5. InPlace' /\ SrcPages' = m
  BY <1>1, <1>2, <1>4 DEF InPlace, SrcPages, SrcLen
<1> HIDE DEF m
<1>6. TypeOK'
  BY <1>1, <1>2, <1>3 DEF ZeroCopyInv, TypeOK, lists
<1>7. RequestInv'
  BY <1>1, <1>2, <1>5 DEF RequestInv, PlainInv
<1>8. ListInv'
  BY <1>1 DEF ZeroCopyInv, ListInv, lists
<1>9. PinsBalanced'
  BY <1>1 DEF ZeroCopyInv, PinsBalanced
<1> QED
  BY <1>6, <1>7, <1>8, <1>9 DEF ZeroCopyInv

\* get_userbuf_srtp.
LEMMA StartSrtpStep ==
  ASSUME ZeroCopyInv, NEW r \in Request, StartSrtp(r)
  PROVE  ZeroCopyInv'
<1>1. /\ pc = "idle" /\ r.mode = "srtp" /\ req' = r /\ pc' = "adjust"
      /\ Diff(r) <= MaxDiff
      /\ UNCHANGED <<pinning, lists, left>>
  BY DEF StartSrtp
<1>2. /\ r \in [mode : {"plain", "tls", "srtp"}, src : Nat, slen : Nat, dst : Nat, dlen : Nat]
      /\ r.src \in Nat /\ r.dst \in Nat /\ MaxDiff \in Nat
  BY ZeroCopyAssumption
<1>3. Diff(r) \in 0..MaxDiff
  BY <1>1, <1>2, DiffType
<1>4. TypeOK'
  BY <1>1, <1>2 DEF ZeroCopyInv, TypeOK, pinning, lists
<1>5. RequestInv'
  BY <1>1, <1>3 DEF RequestInv, SrtpInv
<1>6. ListInv'
  BY <1>1 DEF ZeroCopyInv, ListInv, pinning, lists
<1>7. PinsBalanced'
  BY <1>1 DEF ZeroCopyInv, PinsBalanced, pinning
<1> QED
  BY <1>4, <1>5, <1>6, <1>7 DEF ZeroCopyInv

\* adjust_sg_array.
LEMMA AdjustStep ==
  ASSUME ZeroCopyInv, Adjust \/ AdjustFails
  PROVE  ZeroCopyInv'
<1>1. CASE AdjustFails
  <2>1. PinsBalanced'
    BY <1>1 DEF ZeroCopyInv, PinsBalanced, AdjustFails
  <2> QED
    BY <1>1, <2>1, EndOfCall DEF ZeroCopyInv, TypeOK, AdjustFails
<1>2. CASE Adjust
  <2>1. /\ pc = "adjust" /\ pc' = "src"
        /\ UNCHANGED <<used_pages, readonly_pages, held, torn, unpinned, leaked, lists,
                       left, req>>
        /\ array_size' \in array_size..MaxPages /\ array_size' >= Wanted
    BY <1>2 DEF Adjust
  <2>2. TypeOK'
    BY <2>1, ZeroCopyAssumption DEF ZeroCopyInv, TypeOK, lists
  <2>3. /\ UNCHANGED <<InPlace, SrcLen, SrcPages, DstPages, AuthPages>>
    BY <2>1 DEF InPlace, SrcLen, SrcPages, DstPages, AuthPages
  <2>4. AuthPages \in Nat /\ used_pages \in Nat /\ array_size' \in Nat
    BY <2>2, CountTypes DEF ZeroCopyInv, TypeOK
  <2>5. RequestInv'
    BY <2>1, <2>3, <2>4 DEF ZeroCopyInv, RequestInv, PlainInv, SrtpInv, Wanted
  <2>6. ListInv'
    BY <2>1 DEF ZeroCopyInv, ListInv, lists
  <2>7. PinsBalanced'
    BY <2>1 DEF ZeroCopyInv, PinsBalanced
  <2> QED
    BY <2>2, <2>5, <2>6, <2>7 DEF ZeroCopyInv
<1> QED
  BY <1>1, <1>2

-----------------------------------------------------------------------------
(* __get_userbuf.                                                          *)

\* The steps within a call leave the request and its counts alone.
LEMMA SameRequest ==
  ASSUME TypeOK, UNCHANGED <<used_pages, readonly_pages, array_size, req>>
  PROVE  /\ InPlace' <=> InPlace
         /\ UNCHANGED <<SrcLen, SrcPages, DstPages, AuthPages>>
BY DEF InPlace, SrcLen, SrcPages, DstPages, AuthPages

\* Where a call goes from a buffer that is described.
LEMMA WhereNext ==
  ASSUME TypeOK, RequestInv, pc \in {"src", "src_sg", "dst", "dst_sg"}
  PROVE  /\ AfterBuffer \in {"stale", "copy", "dst", "use"}
         /\ AfterBuffer = "stale" <=> NullAuth
         /\ AfterBuffer = "copy" <=> req.mode = "srtp" /\ ~NullAuth
         /\ AfterBuffer = "dst" <=> req.mode # "srtp" /\ ~InPlace /\ pc \in {"src", "src_sg"}
BY DEF AfterBuffer, NullAuth

\* The source, or the destination, is described: what follows has its list.
LEMMA BufferDone ==
  ASSUME ZeroCopyInv, pc \in {"src", "src_sg", "dst", "dst_sg"}, pc' = AfterBuffer,
         UNCHANGED <<pinning, sg, dst_sg, stale, left, req>>, marked' \subseteq Nat,
         ~NullAuth, SrcDescribed,
         pc \in {"src", "src_sg"} => held = 1..SrcPages /\ DOMAIN sg = 1..SrcPages,
         pc \in {"dst", "dst_sg"} =>
           /\ held = 1..(SrcPages + DstPages) /\ DOMAIN sg = 1..(SrcPages + DstPages)
           /\ DstDescribed
  PROVE  ZeroCopyInv'
<1> USE DEF ZeroCopyInv
<1>1. /\ InPlace' <=> InPlace
      /\ UNCHANGED <<SrcLen, SrcPages, DstPages, AuthPages>>
  BY SameRequest DEF pinning
<1>2. /\ pc' \in {"copy", "dst", "use"}
      /\ pc' = "copy" <=> req.mode = "srtp" /\ ~NullAuth
      /\ pc' = "dst" <=> req.mode # "srtp" /\ ~InPlace /\ pc \in {"src", "src_sg"}
  BY WhereNext
<1>3. TypeOK'
  BY <1>2 DEF TypeOK, pinning
<1>4. RequestInv'
  BY <1>1, <1>2 DEF RequestInv, PlainInv, SrtpInv, NullAuth, pinning
<1>5. SrcDescribed' /\ (pc \in {"dst", "dst_sg"} => DstDescribed')
  BY <1>1 DEF SrcDescribed, DstDescribed
<1>6. req.mode # "srtp" => used_pages = IF InPlace THEN SrcPages ELSE SrcPages + DstPages
  BY DEF RequestInv, PlainInv
<1>7. pc \in {"dst", "dst_sg"} => ~InPlace
  BY DEF RequestInv
<1>8. ListInv'
  <2>1. UNCHANGED <<held, sg, dst_sg, req, used_pages>> /\ dst_sg = 0
    BY DEF pinning, ListInv
  <2>2. CASE pc' \in {"copy", "dst"}
    <3>1. held' = 1..SrcPages' /\ DOMAIN sg' = 1..SrcPages'
      BY <1>1, <1>2, <1>7, <2>1, <2>2 DEF RequestInv, SrtpInv
    <3> QED
      BY <1>5, <2>1, <2>2, <3>1 DEF ListInv
  <2>3. CASE pc' = "use"
    <3>1. req.mode # "srtp" /\ (InPlace \/ pc \in {"dst", "dst_sg"})
      BY <1>2, <2>3 DEF NullAuth
    <3>2. held' = 1..used_pages' /\ DOMAIN sg' = 1..used_pages'
      BY <1>6, <1>7, <2>1, <3>1
    <3>3. ~InPlace' => DstDescribed'
      BY <1>1, <1>5, <3>1
    <3>4. req'.mode # "srtp" /\ dst_sg' = 0 /\ ~NullAuth'
      BY <2>1, <3>1 DEF NullAuth
    <3> QED
      BY <1>5, <2>3, <3>2, <3>3, <3>4 DEF ListInv
  <2> QED
    BY <1>2, <2>2, <2>3
<1>9. PinsBalanced'
  BY DEF PinsBalanced, pinning
<1> QED
  BY <1>3, <1>4, <1>8, <1>9

\* An empty buffer has no entries.
LEMMA EmptyBuffer ==
  ASSUME NEW s, NEW first, NEW addr
  PROVE  Described(s, first, addr, 0, 0, 0)
BY DEF Described

\* Preservation by SkipBuffer.
LEMMA SkipStep ==
  ASSUME ZeroCopyInv, SkipBuffer
  PROVE  ZeroCopyInv'
<1> USE DEF ZeroCopyInv
<1>1. /\ pc \in {"src", "dst"} /\ pc' = AfterBuffer
      /\ Buffer.addr = 0 \/ Buffer.len = 0 \/ Buffer.count = 0
      /\ UNCHANGED <<pinning, sg, dst_sg, stale, left, req>>
      /\ marked' \subseteq marked \cup {Buffer.first}
  BY DEF SkipBuffer
<1>2. marked' \subseteq Nat
  <2>1. Buffer.first \in Nat
    BY <1>1, WhichBuffer, CountTypes
  <2> QED
    BY <1>1, <2>1 DEF TypeOK
<1>3. CASE NullAuth
  <2>1. /\ pc = "src" /\ pc' = "stale" /\ req.mode = "srtp" /\ req.src = 0
    BY <1>1, <1>3, WhereNext DEF NullAuth, RequestInv, SrtpInv
  <2>2. UNCHANGED <<AuthPages, NullAuth>>
    BY <1>1 DEF AuthPages, NullAuth
  <2>3. TypeOK'
    BY <1>1, <1>2, <2>1 DEF TypeOK, pinning
  <2>4. RequestInv'
    BY <1>1, <2>1, <2>2 DEF RequestInv, SrtpInv, pinning
  <2>5. ListInv' /\ PinsBalanced'
    BY <1>1, <2>1, <2>2 DEF ListInv, PinsBalanced, pinning
  <2> QED
    BY <2>3, <2>4, <2>5
<1>4. CASE pc = "src" /\ ~NullAuth
  <2>1. req.src = 0 \/ SrcLen = 0 \/ SrcPages = 0
    BY <1>1, <1>4, WhichBuffer
  <2>2. req.src = 0 => SrcLen = 0
    <3>1. req.src = 0 => req.mode # "srtp" /\ PlainInv
      BY <1>4 DEF RequestInv, NullAuth
    <3> QED
      BY <3>1, CountTypes DEF SrcLen, Larger, InPlace, PlainInv
  <2>3. SrcPages = 0 /\ SrcLen = 0
    BY <2>1, <2>2, CountTypes
  <2>4. held = 1..SrcPages /\ DOMAIN sg = 1..SrcPages
    BY <1>4, <2>3 DEF ListInv
  <2>5. SrcDescribed
    BY <2>3, EmptyBuffer DEF SrcDescribed
  <2> QED
    BY <1>1, <1>4, <1>2, <2>4, <2>5, BufferDone
<1>5. CASE pc = "dst" /\ ~NullAuth
  <2>1. req.dst = 0 \/ req.dlen = 0 \/ DstPages = 0
    BY <1>1, <1>5, WhichBuffer
  <2>2. req.dst = 0 => req.dlen = 0
    BY <1>5 DEF RequestInv, SrtpInv, PlainInv
  <2>3. DstPages = 0 /\ req.dlen = 0
    BY <2>1, <2>2, CountTypes
  <2>4. SrcPages + DstPages = SrcPages
    BY <2>3, CountTypes
  <2>5. held = 1..SrcPages /\ DOMAIN sg = 1..SrcPages /\ SrcDescribed
    BY <1>5 DEF ListInv
  <2>6. DstDescribed
    BY <2>3, EmptyBuffer DEF DstDescribed
  <2> QED
    BY <1>1, <1>5, <1>2, <2>4, <2>5, <2>6, BufferDone
<1> QED
  BY <1>1, <1>4, <1>5, <1>3

\* The slots of a buffer are consecutive.
LEMMA SlotsAreConsecutive ==
  ASSUME NEW b, NEW n \in Nat, b.first \in Nat
  PROVE  Slots(b, n) = b.first..(b.first + n - 1)
<1>1. \A k \in b.first..(b.first + n - 1) :
        k - b.first \in 0..(n - 1) /\ k = b.first + (k - b.first)
  OBVIOUS
<1> QED
  BY <1>1 DEF Slots

\* get_user_pages.
LEMMA PinStep ==
  ASSUME ZeroCopyInv, Pin
  PROVE  ZeroCopyInv'
<1> USE DEF ZeroCopyInv
<1>1. /\ pc \in {"src", "dst"}
      /\ held' = held \cup Slots(Buffer, Buffer.count)
      /\ left' = Buffer.len
      /\ pc' = IF pc = "src" THEN "src_sg" ELSE "dst_sg"
      /\ UNCHANGED <<array_size, used_pages, readonly_pages, torn, unpinned, leaked, lists,
                     req>>
  BY DEF Pin
<1>2. /\ InPlace' <=> InPlace
      /\ UNCHANGED <<SrcLen, SrcPages, DstPages, AuthPages>>
  BY <1>1, SameRequest
<1>3. /\ SrcLen \in Nat /\ SrcPages \in Nat /\ DstPages \in Nat /\ req.dlen \in Nat
  BY CountTypes
<1>4. left' \in Nat /\ held' \subseteq Nat
  <2>1. Buffer.len \in Nat /\ Buffer.first \in Nat /\ Buffer.count \in Nat
    BY <1>1, <1>3, WhichBuffer
  <2>2. Slots(Buffer, Buffer.count) \subseteq Nat
    BY <2>1, SlotsAreConsecutive
  <2> QED
    BY <1>1, <2>1, <2>2 DEF TypeOK
<1>5. TypeOK'
  BY <1>1, <1>4 DEF TypeOK, lists
<1>6. RequestInv'
  <2>1. pc = "src" => req.src # 0
    BY WhichBuffer DEF Pin
  <2> QED
    BY <1>1, <1>2, <2>1 DEF RequestInv, PlainInv, SrtpInv
<1>7. ListInv'
  <2>1. CASE pc = "src"
    <3>1. held = {} /\ DOMAIN sg = {} /\ dst_sg = 0
      BY <2>1 DEF ListInv
    <3>2. Buffer = [addr |-> req.src, len |-> SrcLen, count |-> SrcPages, first |-> 1]
      BY <2>1, WhichBuffer
    <3>3. held' = 1..SrcPages
      <4>1. Buffer.first = 1 /\ Buffer.count = SrcPages
        BY <3>2
      <4>2. Slots(Buffer, SrcPages) = 1..(1 + SrcPages - 1)
        BY <1>3, <4>1, SlotsAreConsecutive
      <4>3. 1 + SrcPages - 1 = SrcPages
        BY <1>3
      <4> QED
        BY <1>1, <3>1, <4>1, <4>2, <4>3
    <3>4. Described(sg, 1, req.src, SrcLen, 0, left')
      BY <1>1, <3>2 DEF Described
    <3>5. 0 \in 0..SrcPages /\ DOMAIN sg = 1..0
      BY <1>3, <3>1
    <3> QED
      BY <1>1, <1>2, <2>1, <3>1, <3>3, <3>4, <3>5 DEF ListInv, lists
  <2>2. CASE pc = "dst"
    <3>1. held = 1..SrcPages /\ DOMAIN sg = 1..SrcPages /\ SrcDescribed /\ dst_sg = 0
      BY <2>2 DEF ListInv
    <3>2. Buffer = [addr |-> req.dst, len |-> req.dlen, count |-> DstPages,
                    first |-> SrcPages + 1]
      BY <2>2, WhichBuffer
    <3>3. held' = 1..(SrcPages + DstPages)
      <4>1. Buffer.first = SrcPages + 1 /\ Buffer.count = DstPages
        BY <3>2
      <4>2. Slots(Buffer, DstPages) = (SrcPages + 1)..(SrcPages + 1 + DstPages - 1)
        BY <1>3, <4>1, SlotsAreConsecutive
      <4>3. SrcPages + 1 + DstPages - 1 = SrcPages + DstPages
        BY <1>3
      <4> QED
        BY <1>1, <1>3, <3>1, <4>1, <4>2, <4>3
    <3>4. Described(sg, SrcPages + 1, req.dst, req.dlen, 0, left')
      BY <1>1, <3>2 DEF Described
    <3>5. SrcDescribed'
      BY <1>1, <1>2, <3>1 DEF SrcDescribed, lists
    <3>6. 0 \in 0..DstPages /\ DOMAIN sg = 1..(SrcPages + 0)
      BY <1>3, <3>1
    <3> QED
      BY <1>1, <1>2, <2>2, <3>1, <3>3, <3>4, <3>5, <3>6 DEF ListInv, lists
  <2> QED
    BY <1>1, <2>1, <2>2
<1>8. PinsBalanced'
  BY <1>1 DEF PinsBalanced
<1> QED
  BY <1>5, <1>6, <1>7, <1>8

\* A page that cannot be pinned ends the call.
LEMMA PinFailsStep ==
  ASSUME ZeroCopyInv, NEW n \in 0..MaxPages, PinFails(n)
  PROVE  ZeroCopyInv'
<1> USE DEF ZeroCopyInv
<1> DEFINE now == held \cup Slots(Buffer, n)
           put == IF pc = "dst" THEN 1..used_pages ELSE {}
<1>1. /\ pc \in {"src", "dst"} /\ End /\ array_size' = array_size
      /\ unpinned' = (unpinned \/ ~(put \subseteq now))
      /\ leaked'   = (leaked \/ ~(now \subseteq put))
      /\ torn' = (torn \/ pc = "dst" \/ n > 0)
      /\ used_pages' = IF pc = "dst" THEN 0 ELSE used_pages
      /\ readonly_pages' = IF pc = "dst" THEN 0 ELSE readonly_pages
  BY DEF PinFails
<1>2. torn' \in BOOLEAN /\ unpinned' \in BOOLEAN /\ leaked' \in BOOLEAN
  BY <1>1
<1>3. used_pages' \in Nat /\ readonly_pages' \in 0..used_pages'
  BY <1>1 DEF TypeOK
<1>4. PinsBalanced'
  <2> SUFFICES ASSUME ~torn' PROVE ~unpinned' /\ ~leaked'
    BY DEF PinsBalanced
  <2>1. pc = "src" /\ ~(n > 0) /\ ~torn
    BY <1>1
  <2>2. n = 0
    BY <2>1, ZeroCopyAssumption
  <2>3. Slots(Buffer, n) = {}
    BY <2>2 DEF Slots
  <2>4. now = {} /\ put = {}
    BY <2>1, <2>3 DEF ListInv
  <2> QED
    BY <1>1, <2>1, <2>4 DEF PinsBalanced
<1> QED
  BY <1>1, <1>2, <1>3, <1>4, EndOfCall

\* Entries that are not written stay what they are.
LEMMA SameEntries ==
  ASSUME NEW s, NEW r, NEW first, NEW addr, NEW len, NEW n, NEW rest,
         Described(s, first, addr, len, n, rest),
         \A k \in 1..n : r[first + k - 1] = s[first + k - 1]
  PROVE  Described(r, first, addr, len, n, rest)
BY DEF Described

\* One sg_set_page, for a buffer b that has n entries so far.
LEMMA MakeEntry ==
  ASSUME TypeOK, FillEntry, NEW n \in Nat,
         Buffer.first \in Nat \ {0}, Buffer.addr \in Nat, Buffer.len \in Nat,
         DOMAIN sg = 1..(Buffer.first - 1 + n),
         Described(sg, Buffer.first, Buffer.addr, Buffer.len, n, left)
  PROVE  /\ DOMAIN sg' = 1..(Buffer.first + n)
         /\ \A k \in DOMAIN sg : sg'[k] = sg[k]
         /\ \A k \in DOMAIN sg' : sg'[k] \in Entry
         /\ Described(sg', Buffer.first, Buffer.addr, Buffer.len, n + 1, left')
         /\ left' \in Nat
         /\ n < PageCount(Buffer.addr, Buffer.len)
<1> DEFINE b == Buffer
           l == NextLength(b.addr, n, left)
           e == EntryAfter(b.addr, n, left)
<1>1. Cardinality({k \in DOMAIN sg : k >= b.first}) = n
  <2> DEFINE f == b.first  g == f - 1 + n
  <2>1. {k \in DOMAIN sg : k >= b.first} = f..g
    OBVIOUS
  <2>2. f \in Int /\ g \in Int /\ (f > g <=> n = 0) /\ g - f + 1 = n
    OBVIOUS
  <2> HIDE DEF f, g
  <2>3. Cardinality(f..g) = IF f > g THEN 0 ELSE g - f + 1
    BY <2>2, FS_Interval
  <2> QED
    BY <2>1, <2>2, <2>3
<1>2. /\ sg' = [k \in DOMAIN sg \cup {b.first + n} |-> IF k = b.first + n THEN e ELSE sg[k]]
      /\ left' = left - l /\ left > 0
  BY <1>1 DEF FillEntry, NextOffset, NextLength, EntryAfter
<1>3. left \in Nat /\ left # 0
  BY <1>2 DEF TypeOK
<1>4. DOMAIN sg' = 1..(b.first + n)
  BY <1>2
<1> HIDE DEF b, l, e
<1>5. b.first + n \notin DOMAIN sg
  BY DEF b
<1>6. \A k \in DOMAIN sg : sg'[k] = sg[k]
  BY <1>2, <1>5
<1>7. sg'[b.first + n] = e
  BY <1>2
<1>8. \A k \in 1..n : sg'[b.first + k - 1] = sg[b.first + k - 1]
  <2>1. \A k \in 1..n : b.first + k - 1 \in DOMAIN sg
    BY DEF b
  <2> QED
    BY <1>6, <2>1
<1>9. /\ Described(sg', b.first, b.addr, b.len, n + 1, left - l)
      /\ left - l \in Nat
      /\ n < PageCount(b.addr, b.len)
  <2> DEFINE f == b.first  a == b.addr  m == b.len  r == sg'
  <2>1. f \in Nat /\ a \in Nat /\ m \in Nat /\ Described(sg, f, a, m, n, left)
    BY DEF b
  <2>2. r[f + n] = EntryAfter(a, n, left) /\ \A k \in 1..n : r[f + k - 1] = sg[f + k - 1]
    BY <1>7, <1>8 DEF e
  <2> HIDE DEF f, a, m, r
  <2>3. /\ Described(r, f, a, m, n + 1, left - NextLength(a, n, left))
        /\ left - NextLength(a, n, left) \in Nat
        /\ n < PageCount(a, m)
    BY <1>3, <2>1, <2>2, NextEntry
  <2> QED
    BY <2>3 DEF l, f, a, m, r
<1>10. e \in Entry
  <2>1. IsEntry(sg'[b.first + (n + 1) - 1], b.addr, b.len, n + 1, n + 1, left - l)
    BY <1>9 DEF Described
  <2>2. b.first + (n + 1) - 1 = b.first + n
    BY DEF b
  <2> QED
    BY <1>7, <2>1, <2>2 DEF IsEntry
<1>11. \A k \in DOMAIN sg' : sg'[k] \in Entry
  BY <1>2, <1>6, <1>7, <1>10 DEF TypeOK
<1> QED
  BY <1>2, <1>4, <1>6, <1>9, <1>11 DEF b

\* Preservation by FillEntry: the list describes one page more.
LEMMA FillStep ==
  ASSUME ZeroCopyInv, FillEntry
  PROVE  ZeroCopyInv'
<1> USE DEF ZeroCopyInv
<1>1. pc \in {"src_sg", "dst_sg"} /\ pc' = pc /\ UNCHANGED <<pinning, dst_sg, marked, stale, req>>
  BY DEF FillEntry
<1>2. /\ InPlace' <=> InPlace
      /\ UNCHANGED <<SrcLen, SrcPages, DstPages, AuthPages>>
  BY <1>1, SameRequest DEF pinning
<1>3. /\ SrcLen \in Nat /\ SrcPages \in Nat /\ DstPages \in Nat /\ req.dlen \in Nat
      /\ req.src \in Nat /\ req.dst \in Nat
  BY CountTypes
<1>4. RequestInv'
  BY <1>1, <1>2 DEF RequestInv, PlainInv, SrtpInv, pinning
<1>5. PinsBalanced'
  BY <1>1 DEF PinsBalanced, pinning
<1>6. dst_sg = 0
  BY <1>1 DEF ListInv
<1>7. ASSUME DOMAIN sg' \subseteq Nat, \A k \in DOMAIN sg' : sg'[k] \in Entry, left' \in Nat
      PROVE  TypeOK'
  BY <1>1, <1>6, <1>7 DEF TypeOK, pinning
<1>8. CASE pc = "src_sg"
  <2>1. PICK n \in 0..SrcPages :
          DOMAIN sg = 1..n /\ Described(sg, 1, req.src, SrcLen, n, left)
    BY <1>8 DEF ListInv
  <2>2. /\ Buffer.first = 1 /\ Buffer.addr = req.src /\ Buffer.len = SrcLen
    BY <1>8, WhichBuffer
  <2>3. n \in Nat /\ 1 - 1 + n = n /\ 1 + n = n + 1
    BY <1>3
  <2>4. /\ DOMAIN sg' = 1..(n + 1)
        /\ \A k \in DOMAIN sg' : sg'[k] \in Entry
        /\ Described(sg', 1, req.src, SrcLen, n + 1, left')
        /\ left' \in Nat
        /\ n < SrcPages
    BY <1>3, <2>1, <2>2, <2>3, MakeEntry DEF SrcPages
  <2>5. TypeOK'
    <3>1. DOMAIN sg' \subseteq Nat
      BY <2>3, <2>4
    <3> QED
      BY <1>7, <2>4, <3>1
  <2>6. n + 1 \in 0..SrcPages /\ held = 1..SrcPages
    BY <1>3, <1>8, <2>3, <2>4 DEF ListInv
  <2>7. ListInv'
    BY <1>1, <1>2, <1>6, <1>8, <2>4, <2>6 DEF ListInv, pinning
  <2> QED
    BY <1>4, <1>5, <2>5, <2>7
<1>9. CASE pc = "dst_sg"
  <2>1. PICK n \in 0..DstPages :
          /\ DOMAIN sg = 1..(SrcPages + n)
          /\ Described(sg, SrcPages + 1, req.dst, req.dlen, n, left)
    BY <1>9 DEF ListInv
  <2>2. /\ Buffer.first = SrcPages + 1 /\ Buffer.addr = req.dst /\ Buffer.len = req.dlen
    BY <1>9, WhichBuffer
  <2>3. n \in Nat /\ SrcPages + 1 - 1 + n = SrcPages + n /\ SrcPages + 1 + n = SrcPages + (n + 1)
    BY <1>3
  <2>4. /\ DOMAIN sg' = 1..(SrcPages + (n + 1))
        /\ \A k \in DOMAIN sg : sg'[k] = sg[k]
        /\ \A k \in DOMAIN sg' : sg'[k] \in Entry
        /\ Described(sg', SrcPages + 1, req.dst, req.dlen, n + 1, left')
        /\ left' \in Nat
        /\ n < DstPages
    BY <1>3, <2>1, <2>2, <2>3, MakeEntry DEF DstPages
  <2>5. TypeOK'
    <3>1. DOMAIN sg' \subseteq Nat
      BY <1>3, <2>3, <2>4
    <3> QED
      BY <1>7, <2>4, <3>1
  <2>6. n + 1 \in 0..DstPages /\ held = 1..(SrcPages + DstPages) /\ SrcDescribed
    BY <1>3, <1>9, <2>3, <2>4 DEF ListInv
  <2>7. SrcDescribed'
    <3>1. \A k \in 1..SrcPages : sg'[1 + k - 1] = sg[1 + k - 1]
      BY <1>3, <2>1, <2>3, <2>4
    <3>2. Described(sg', 1, req.src, SrcLen, SrcPages, 0)
      BY <2>6, <3>1, SameEntries DEF SrcDescribed
    <3> QED
      BY <1>1, <1>2, <3>2 DEF SrcDescribed
  <2>8. ListInv'
    BY <1>1, <1>2, <1>6, <1>9, <2>4, <2>6, <2>7 DEF ListInv, pinning
  <2> QED
    BY <1>4, <1>5, <2>5, <2>8
<1> QED
  BY <1>1, <1>8, <1>9

\* Preservation by FillDone: nothing of the buffer is left undescribed.
LEMMA FillDoneStep ==
  ASSUME ZeroCopyInv, FillDone
  PROVE  ZeroCopyInv'
<1> USE DEF ZeroCopyInv
<1>1. /\ pc \in {"src_sg", "dst_sg"} /\ left = 0 /\ pc' = AfterBuffer
      /\ UNCHANGED <<pinning, sg, dst_sg, stale, left, req>> /\ marked' \subseteq Nat
      /\ ~NullAuth
  BY DEF FillDone, lists, TypeOK, RequestInv, SrtpInv, NullAuth
<1>2. /\ SrcLen \in Nat /\ SrcPages \in Nat /\ DstPages \in Nat /\ req.dlen \in Nat
      /\ req.src \in Nat /\ req.dst \in Nat
  BY CountTypes
<1>3. CASE pc = "src_sg"
  <2>1. PICK n \in 0..SrcPages :
          DOMAIN sg = 1..n /\ Described(sg, 1, req.src, SrcLen, n, 0)
    BY <1>1, <1>3 DEF ListInv
  <2>2. n = SrcPages
    BY <1>2, <2>1, LastEntry DEF SrcPages
  <2>3. SrcDescribed /\ DOMAIN sg = 1..SrcPages /\ held = 1..SrcPages
    BY <1>3, <2>1, <2>2 DEF SrcDescribed, ListInv
  <2> QED
    BY <1>1, <1>3, <2>3, BufferDone
<1>4. CASE pc = "dst_sg"
  <2>1. PICK n \in 0..DstPages :
          /\ DOMAIN sg = 1..(SrcPages + n)
          /\ Described(sg, SrcPages + 1, req.dst, req.dlen, n, 0)
    BY <1>1, <1>4 DEF ListInv
  <2>2. n = DstPages
    BY <1>2, <2>1, LastEntry DEF DstPages
  <2>3. /\ DstDescribed /\ SrcDescribed
        /\ DOMAIN sg = 1..(SrcPages + DstPages) /\ held = 1..(SrcPages + DstPages)
    BY <1>4, <2>1, <2>2 DEF DstDescribed, ListInv
  <2> QED
    BY <1>1, <1>4, <2>3, BufferDone
<1> QED
  BY <1>1, <1>3, <1>4

-----------------------------------------------------------------------------
(* The second list of get_userbuf_srtp.                                    *)

\* The entries that sg_copy reads, in terms of the packet.
LEMMA PacketEntries ==
  ASSUME ZeroCopyInv, pc = "copy", NEW k \in 1..AuthPages
  PROVE  /\ sg[k] \in Entry /\ sg[k].offset + sg[k].length <= PageSize
         /\ Begins(sg[k]) \in Nat /\ sg[k].length \in Nat
         /\ Begins(sg[k]) >= req.src
         /\ Begins(sg[k]) + sg[k].length <= req.src + req.slen
         /\ Before(k) = Begins(sg[k]) - req.src
<1>1. /\ req.mode = "srtp" /\ SrcDescribed /\ TypeOK
  BY DEF ZeroCopyInv, RequestInv, PlainInv, ListInv
<1>2. /\ req.src \in Nat /\ req.slen \in Nat /\ AuthPages \in Nat
      /\ Described(sg, 1, req.src, req.slen, AuthPages, 0)
  BY <1>1, CountTypes DEF SrcDescribed
<1>3. 1 + k - 1 = k
  BY <1>2
<1>4. Placed(sg[k], req.src, req.slen, k, AuthPages,
             ((req.src \div PageSize) + k - 1) * PageSize)
  BY <1>2, <1>3, EntryBounds
<1>5. /\ Begins(sg[k]) >= req.src
      /\ Begins(sg[k]) + sg[k].length <= req.src + req.slen
  <2>1. /\ Begins(sg[1 + k - 1]) >= req.src
        /\ Begins(sg[1 + k - 1]) + sg[1 + k - 1].length <= req.src + req.slen
    BY <1>2, EntriesInOrder
  <2> QED
    BY <1>3, <2>1
<1>6. /\ sg[k] \in Entry /\ sg[k].offset + sg[k].length <= PageSize
      /\ Begins(sg[k]) \in Nat /\ sg[k].length \in Nat
  BY <1>4, ZeroCopyAssumption DEF Placed
<1> QED
  BY <1>5, <1>6 DEF Before

\* sg_copy of the whole packet copies every entry as it is.
LEMMA CopyIsWhole ==
  ASSUME ZeroCopyInv, pc = "copy"
  PROVE  /\ DOMAIN SgCopy(req.slen) = 1..(2 * AuthPages)
         /\ \A k \in 1..AuthPages : /\ SgCopy(req.slen)[k] = sg[k]
                                    /\ SgCopy(req.slen)[AuthPages + k] = sg[k]
<1> DEFINE c == SgCopy(req.slen)
<1>1. AuthPages \in Nat /\ req.src \in Nat /\ req.slen \in Nat
  BY CountTypes DEF ZeroCopyInv
<1>2. DOMAIN c = 1..(2 * AuthPages)
  BY DEF SgCopy
<1>3. ASSUME NEW k \in 1..AuthPages
      PROVE  /\ SgCopy(req.slen)[k] = sg[k]
             /\ SgCopy(req.slen)[AuthPages + k] = sg[k]
  <2>1. k \in 1..(2 * AuthPages) /\ AuthPages + k \in 1..(2 * AuthPages)
    BY <1>1
  <2>2. k <= AuthPages /\ ~(AuthPages + k <= AuthPages) /\ AuthPages + k - AuthPages = k
    BY <1>1
  <2>3. Smaller(sg[k].length, req.slen - Before(k)) = sg[k].length
    <3>1. /\ Begins(sg[k]) \in Nat /\ sg[k].length \in Nat
          /\ Begins(sg[k]) + sg[k].length <= req.src + req.slen
          /\ Before(k) = Begins(sg[k]) - req.src
      BY PacketEntries
    <3>2. ~(req.slen - Before(k) < sg[k].length)
      BY <1>1, <3>1
    <3>3. CASE sg[k].length < req.slen - Before(k)
      BY <3>3 DEF Smaller
    <3>4. CASE ~(sg[k].length < req.slen - Before(k))
      BY <1>1, <3>1, <3>2, <3>4 DEF Smaller
    <3> QED
      BY <3>3, <3>4
  <2>4. [sg[k] EXCEPT !.length = Smaller(@, req.slen - Before(k))] = sg[k]
    <3>1. sg[k] \in Entry
      BY PacketEntries
    <3>2. [sg[k] EXCEPT !.length = sg[k].length] = sg[k]
      BY <3>1 DEF Entry
    <3> QED
      BY <2>3, <3>2
  <2>5. SgCopy(req.slen)[k] = sg[k]
    BY <2>1, <2>2 DEF SgCopy
  <2>6. SgCopy(req.slen)[AuthPages + k]
          = [sg[k] EXCEPT !.length = Smaller(@, req.slen - Before(k))]
    <3> DEFINE x == AuthPages + k
    <3>1. x \in 1..(2 * AuthPages) /\ ~(x <= AuthPages)
      BY <2>1, <2>2
    <3> HIDE DEF x
    <3>2. x - AuthPages = k
      BY <1>1 DEF x
    <3>3. SgCopy(req.slen)[x]
            = LET j == x - AuthPages
              IN  [sg[j] EXCEPT !.length = Smaller(@, req.slen - Before(j))]
      BY <3>1, Zenon DEF SgCopy
    <3> QED
      BY <3>2, <3>3 DEF x
  <2> QED
    BY <2>4, <2>5, <2>6
<1> QED
  BY <1>2, <1>3

\* Advancing the start of an entry leaves its end, and leaves an entry.
LEMMA ShortEntry ==
  ASSUME NEW e \in Entry, NEW m \in Nat, e.offset + m < PageSize, m < e.length,
         NEW f, f = [e EXCEPT !.offset = @ + m, !.length = @ - m]
  PROVE  /\ f.page = e.page /\ f.offset = e.offset + m /\ f.length = e.length - m
         /\ f \in Entry
<1> DEFINE o == e.offset + m  l == e.length - m
<1>1. o \in 0..(PageSize - 1) /\ l \in 1..PageSize /\ o + l <= PageSize
  <2>1. e.offset \in Nat /\ e.length \in 1..PageSize /\ e.offset + e.length <= PageSize
    BY ZeroCopyAssumption DEF Entry
  <2> QED
    BY <2>1, ZeroCopyAssumption
<1>2. f = [e EXCEPT !.offset = o, !.length = l]
  OBVIOUS
<1> HIDE DEF o, l
<1>3. f.page = e.page /\ f.offset = o /\ f.length = l /\ f \in Entry
  BY <1>1, <1>2 DEF Entry
<1> QED
  BY <1>3 DEF o, l

\* sg_advance: the entry the payload starts in is shortened to start with it.
LEMMA AdvanceToPayload ==
  ASSUME ZeroCopyInv, pc = "copy", NEW a \in SgAdvance(SgCopy(req.slen), Diff(req))
  PROVE  \E j \in 1..AuthPages :
           /\ a.at = AuthPages + j
           /\ DOMAIN a.sg = 1..(2 * AuthPages)
           /\ \A k \in 1..AuthPages : a.sg[k] = sg[k]
           /\ \A k \in 1..AuthPages : k # j => a.sg[AuthPages + k] = sg[k]
           /\ a.sg[a.at] \in Entry
           /\ Begins(a.sg[a.at]) = Payload /\ Begins(sg[j]) <= Payload
           /\ Begins(a.sg[a.at]) + a.sg[a.at].length = Begins(sg[j]) + sg[j].length
<1> DEFINE c == SgCopy(req.slen)
<1>1. /\ AuthPages \in Nat /\ req.src \in Nat /\ Diff(req) \in Nat
      /\ PageSize \in Nat \ {0}
  BY CountTypes, DiffType, ZeroCopyAssumption DEF ZeroCopyInv
<1>2. /\ DOMAIN c = 1..(2 * AuthPages)
      /\ \A k \in 1..AuthPages : c[k] = sg[k] /\ c[AuthPages + k] = sg[k]
  BY CopyIsWhole
<1> HIDE DEF c
<1>3. PICK j \in 1..AuthPages :
        /\ Diff(req) - Before(j) \in 0..(c[AuthPages + j].length - 1)
        /\ a = [at |-> AuthPages + j,
                sg |-> [c EXCEPT
                          ![AuthPages + j].offset = @ + (Diff(req) - Before(j)),
                          ![AuthPages + j].length = @ - (Diff(req) - Before(j))]]
  BY DEF SgAdvance, c
<1> DEFINE m == Diff(req) - Before(j)
           e == [c[AuthPages + j] EXCEPT !.offset = @ + m, !.length = @ - m]
<1>4. /\ sg[j] \in Entry /\ sg[j].offset + sg[j].length <= PageSize
      /\ Begins(sg[j]) \in Nat /\ sg[j].length \in Nat
      /\ Before(j) = Begins(sg[j]) - req.src
  BY PacketEntries
<1>5. c[AuthPages + j] = sg[j]
  BY <1>2
<1>6. m \in 0..(sg[j].length - 1) /\ m = Payload - Begins(sg[j]) /\ Payload \in Nat
  BY <1>1, <1>3, <1>4, <1>5 DEF Payload
<1>7. a.at = AuthPages + j /\ a.sg = [c EXCEPT ![AuthPages + j] = e]
  BY <1>3
<1>8. AuthPages + j \in DOMAIN c
  BY <1>1, <1>2
<1> HIDE DEF m
<1>9. m \in Nat /\ sg[j].offset + m < PageSize /\ m < sg[j].length
  BY <1>1, <1>4, <1>6 DEF Entry
<1>10. sg[j].page \in Nat /\ sg[j].offset \in Nat /\ sg[j].length \in 1..PageSize
  BY <1>4 DEF Entry
<1>11. /\ e.page = sg[j].page /\ e.offset = sg[j].offset + m /\ e.length = sg[j].length - m
       /\ e \in Entry
  <2>1. e = [sg[j] EXCEPT !.offset = @ + m, !.length = @ - m]
    BY <1>5
  <2> DEFINE x == sg[j]
  <2>2. x \in Entry /\ m \in Nat /\ x.offset + m < PageSize /\ m < x.length
    BY <1>4, <1>9
  <2>3. e = [x EXCEPT !.offset = @ + m, !.length = @ - m]
    BY <2>1
  <2> HIDE DEF e, x
  <2>4. /\ e.page = x.page /\ e.offset = x.offset + m /\ e.length = x.length - m
        /\ e \in Entry
    BY <2>2, <2>3, ShortEntry
  <2> QED
    BY <2>4 DEF x
<1> HIDE DEF e
<1>12. Begins(e) = Begins(sg[j]) + m
  <2>1. sg[j].page * PageSize \in Nat
    BY <1>1, <1>10
  <2> QED
    BY <1>9, <1>10, <1>11, <2>1 DEF Begins
<1>13. /\ Begins(e) = Payload /\ Begins(sg[j]) <= Payload
       /\ Begins(e) + e.length = Begins(sg[j]) + sg[j].length
  BY <1>1, <1>4, <1>6, <1>11, <1>12
<1>14. DOMAIN a.sg = 1..(2 * AuthPages) /\ a.sg[a.at] = e
  BY <1>2, <1>7, <1>8
<1>15. \A k \in 1..AuthPages :
         /\ a.sg[k] = sg[k]
         /\ k # j => a.sg[AuthPages + k] = sg[k]
  <2>1. ASSUME NEW k \in 1..AuthPages
        PROVE  /\ k \in DOMAIN c /\ k # AuthPages + j
               /\ AuthPages + k \in DOMAIN c /\ (k # j => AuthPages + k # AuthPages + j)
    BY <1>1, <1>2
  <2> QED
    BY <1>2, <1>7, <2>1
<1> QED
  BY <1>7, <1>11, <1>13, <1>14, <1>15

\* Preservation by CopyList: the copy for SRTP skips the header.
LEMMA CopyStep ==
  ASSUME ZeroCopyInv, CopyList
  PROVE  ZeroCopyInv'
<1> USE DEF ZeroCopyInv
<1>1. /\ pc = "copy" /\ pc' = "use" /\ used_pages' = AuthPages /\ readonly_pages' = 0
      /\ UNCHANGED <<array_size, held, torn, unpinned, leaked, marked, stale, left, req>>
  BY DEF CopyList
<1>2. PICK a \in SgAdvance(SgCopy(req.slen), Diff(req)) : sg' = a.sg /\ dst_sg' = a.at
  BY DEF CopyList
<1>3. PICK j \in 1..AuthPages :
        /\ dst_sg' = AuthPages + j
        /\ DOMAIN sg' = 1..(2 * AuthPages)
        /\ \A k \in 1..AuthPages : sg'[k] = sg[k]
        /\ \A k \in 1..AuthPages : k # j => sg'[AuthPages + k] = sg[k]
        /\ sg'[dst_sg'] \in Entry
        /\ Begins(sg'[dst_sg']) = Payload /\ Begins(sg[j]) <= Payload
        /\ Begins(sg'[dst_sg']) + sg'[dst_sg'].length = Begins(sg[j]) + sg[j].length
  BY <1>1, <1>2, AdvanceToPayload
<1>4. /\ req.mode = "srtp" /\ SrcDescribed /\ held = 1..SrcPages
      /\ AuthPages \in Nat /\ SrcPages = AuthPages /\ req.src # 0
  BY <1>1, CountTypes DEF RequestInv, PlainInv, SrtpInv, ListInv
<1>5. UNCHANGED <<SrcLen, SrcPages, AuthPages, Payload>>
  BY <1>1 DEF InPlace, SrcLen, SrcPages, AuthPages, Payload
<1>6. TypeOK'
  <2>1. \A k \in DOMAIN sg' : sg'[k] \in Entry
    <3> SUFFICES ASSUME NEW k \in 1..(2 * AuthPages) PROVE sg'[k] \in Entry
      BY <1>3
    <3>1. CASE k \in 1..AuthPages
      BY <1>1, <1>3, <3>1, PacketEntries
    <3>2. CASE k \notin 1..AuthPages
      <4>1. k - AuthPages \in 1..AuthPages /\ AuthPages + (k - AuthPages) = k
        BY <1>4, <3>2
      <4>2. CASE k = dst_sg'
        BY <1>3, <4>2
      <4>3. CASE k # dst_sg'
        <5>1. sg'[AuthPages + (k - AuthPages)] = sg[k - AuthPages]
          BY <1>3, <4>1, <4>3
        <5> QED
          BY <1>1, <4>1, <5>1, PacketEntries
      <4> QED
        BY <4>2, <4>3
    <3> QED
      BY <3>1, <3>2
  <2>2. DOMAIN sg' \subseteq Nat /\ dst_sg' \in DOMAIN sg'
    BY <1>3, <1>4
  <2> QED
    BY <1>1, <1>4, <2>1, <2>2 DEF TypeOK
<1>7. RequestInv'
  BY <1>1, <1>4, <1>5 DEF RequestInv, SrtpInv
<1>8. SrcDescribed'
  <2>1. \A k \in 1..SrcPages : sg'[1 + k - 1] = sg[1 + k - 1]
    BY <1>3, <1>4
  <2>2. Described(sg', 1, req.src, SrcLen, SrcPages, 0)
    BY <1>4, <2>1, SameEntries DEF SrcDescribed
  <2> QED
    BY <1>1, <1>5, <2>2 DEF SrcDescribed
<1>9. SecondList'
  BY <1>1, <1>3, <1>5 DEF SecondList
<1>10. ListInv'
  BY <1>1, <1>3, <1>4, <1>5, <1>8, <1>9 DEF ListInv, NullAuth
<1>11. PinsBalanced'
  BY <1>1 DEF PinsBalanced
<1> QED
  BY <1>6, <1>7, <1>10, <1>11

\* Preservation by CopyStale: with auth_src NULL an earlier request's entry is
\* used, and torn says so.
LEMMA StaleStep ==
  ASSUME ZeroCopyInv, CopyStale \/ StaleTooShort
  PROVE  ZeroCopyInv'
<1> USE DEF ZeroCopyInv
<1>1. pc = "stale" /\ torn' = TRUE
  BY DEF CopyStale, StaleTooShort
<1>2. PinsBalanced'
  BY <1>1 DEF PinsBalanced
<1>3. CASE StaleTooShort
  <2>1. /\ End /\ array_size' = array_size /\ used_pages' = 0 /\ readonly_pages' = 0
        /\ unpinned' = (unpinned \/ ~(1..AuthPages \subseteq held)) /\ leaked' = leaked
    BY <1>3 DEF StaleTooShort
  <2>2. unpinned' \in BOOLEAN /\ leaked' \in BOOLEAN /\ torn' \in BOOLEAN
    BY <1>1, <2>1 DEF TypeOK
  <2> QED
    BY <1>2, <2>1, <2>2, EndOfCall
<1>4. CASE CopyStale
  <2> DEFINE d == Diff(req)
             e == [stale EXCEPT !.offset = @ + d, !.length = StaleLen - d]
  <2>1. /\ d < StaleLen /\ dst_sg' = AuthPages + 1 /\ pc' = "use"
        /\ sg' = [k \in {1, AuthPages + 1} |-> IF k = 1 THEN stale ELSE e]
        /\ used_pages' = AuthPages /\ readonly_pages' = 0
        /\ UNCHANGED <<array_size, held, unpinned, leaked, marked, stale, left, req>>
    BY <1>4 DEF CopyStale
  <2>2. /\ d \in Nat /\ req.slen \in Nat /\ AuthPages \in Nat
        /\ req.mode = "srtp" /\ req.src = 0 /\ held = {}
    BY <1>1, DiffType, CountTypes DEF RequestInv, PlainInv, SrtpInv, ListInv
  <2>3. stale \in Entry
    <3>1. stale # NoEntry
      BY <2>1, <2>2 DEF NoEntry, StaleLen, Smaller
    <3> QED
      BY <3>1 DEF TypeOK
  <2>4. /\ stale.page \in Nat /\ stale.offset \in 0..(PageSize - 1)
        /\ stale.length \in 1..PageSize /\ stale.offset + stale.length <= PageSize
    BY <2>3 DEF Entry
  <2>5. StaleLen \in Nat /\ StaleLen <= stale.length
    BY <2>2, <2>4, ZeroCopyAssumption DEF StaleLen, Smaller
  <2> DEFINE o == stale.offset + d  l == StaleLen - d
  <2>6. o \in 0..(PageSize - 1) /\ l \in 1..PageSize /\ o + l <= PageSize
    BY <2>1, <2>2, <2>4, <2>5, ZeroCopyAssumption
  <2>7. e = [stale EXCEPT !.offset = o, !.length = l]
    OBVIOUS
  <2> HIDE DEF d, e, o, l
  <2>8. e \in Entry
    BY <2>3, <2>6, <2>7 DEF Entry
  <2>9. /\ DOMAIN sg' = {1, AuthPages + 1} /\ DOMAIN sg' \subseteq Nat
        /\ \A k \in DOMAIN sg' : sg'[k] \in Entry
    BY <2>1, <2>2, <2>3, <2>8
  <2>10. TypeOK'
    BY <1>1, <2>1, <2>2, <2>9 DEF TypeOK
  <2>11. UNCHANGED <<AuthPages, NullAuth>>
    BY <2>1 DEF AuthPages, NullAuth
  <2>12. RequestInv'
    BY <1>1, <2>1, <2>2, <2>11 DEF RequestInv, SrtpInv
  <2>13. ListInv'
    BY <2>1, <2>2, <2>9, <2>11 DEF ListInv, NullAuth
  <2> QED
    BY <1>2, <2>10, <2>12, <2>13
<1> QED
  BY <1>3, <1>4

\* release_user_pages.
LEMMA ReleaseStep ==
  ASSUME ZeroCopyInv, Release \/ CopyNoPayload
  PROVE  ZeroCopyInv'
<1> USE DEF ZeroCopyInv
<1>1. CASE Release
  <2>1. /\ End /\ UNCHANGED <<array_size, torn>> /\ used_pages' = 0 /\ pc = "use"
        /\ unpinned' = (unpinned \/ ~(1..used_pages \subseteq held))
        /\ leaked'   = (leaked \/ ~(held \subseteq 1..used_pages))
    BY <1>1 DEF Release
  <2>2. readonly_pages' = 0
    BY <1>1 DEF Release, TypeOK
  <2>3. unpinned' \in BOOLEAN /\ leaked' \in BOOLEAN
    BY <2>1
  <2>4. PinsBalanced'
    <3>1. CASE NullAuth
      BY <2>1, <3>1 DEF PinsBalanced, RequestInv, SrtpInv, NullAuth
    <3>2. CASE ~NullAuth
      <4>1. held = 1..used_pages
        BY <2>1, <3>2 DEF ListInv
      <4>2. unpinned' = unpinned /\ leaked' = leaked
        BY <2>1, <4>1 DEF TypeOK
      <4> QED
        BY <2>1, <4>2 DEF PinsBalanced
    <3> QED
      BY <3>1, <3>2
  <2> QED
    BY <2>1, <2>2, <2>3, <2>4, EndOfCall DEF TypeOK
<1>2. CASE CopyNoPayload
  <2>1. /\ End /\ UNCHANGED <<array_size, torn>> /\ used_pages' = 0 /\ readonly_pages' = 0
        /\ pc = "copy"
        /\ unpinned' = (unpinned \/ ~(1..AuthPages \subseteq held))
        /\ leaked'   = (leaked \/ ~(held \subseteq 1..AuthPages))
    BY <1>2 DEF CopyNoPayload
  <2>2. held = 1..AuthPages
    BY <2>1, CountTypes DEF RequestInv, PlainInv, ListInv
  <2>3. unpinned' = unpinned /\ leaked' = leaked
    BY <2>1, <2>2 DEF TypeOK
  <2>4. PinsBalanced'
    BY <2>1, <2>3 DEF PinsBalanced
  <2> QED
    BY <2>1, <2>3, <2>4, EndOfCall DEF TypeOK
<1> QED
  BY <1>1, <1>2

\* The invariant is inductive: one case per action.
LEMMA InvStep == ZeroCopyInv /\ [Next]_vars => ZeroCopyInv'
<1> SUFFICES ASSUME ZeroCopyInv, [Next]_vars PROVE ZeroCopyInv'
  OBVIOUS
<1>1. CASE UNCHANGED vars
  <2>1. /\ InPlace' <=> InPlace
        /\ UNCHANGED <<SrcLen, SrcPages, DstPages, AuthPages, Payload, NullAuth>>
    BY <1>1, SameRequest DEF ZeroCopyInv, vars, pinning, Payload, NullAuth
  <2>2. TypeOK' /\ PinsBalanced'
    BY <1>1 DEF ZeroCopyInv, TypeOK, PinsBalanced, vars, pinning, lists
  <2>3. RequestInv'
    BY <1>1, <2>1 DEF ZeroCopyInv, RequestInv, PlainInv, SrtpInv, vars, pinning
  <2>4. UNCHANGED <<SrcDescribed, DstDescribed, SecondList>>
    BY <1>1, <2>1 DEF SrcDescribed, DstDescribed, SecondList, vars, pinning, lists
  <2>5. ListInv'
    BY <1>1, <2>1, <2>4 DEF ZeroCopyInv, ListInv, vars, pinning, lists
  <2> QED
    BY <2>2, <2>3, <2>5 DEF ZeroCopyInv
<1> QED
  BY <1>1, StartStep, StartTlsStep, StartSrtpStep, AdjustStep, SkipStep, PinStep, FillStep,
     FillDoneStep, PinFailsStep, CopyStep, StaleStep, ReleaseStep
  DEF Next

\* The invariant holds in every reachable state.
LEMMA ZeroCopyInvariance == Spec => []ZeroCopyInv
BY InvInit, InvStep, PTL DEF Spec

-----------------------------------------------------------------------------
(* What the entries cover.                                                 *)

\* The bytes of an entry.
Bytes(e) == Begins(e)..(Begins(e) + e.length - 1)

\* Every byte of a buffer is in the entry of its page.
LEMMA ByteInEntry ==
  ASSUME NEW s, NEW first \in Nat, NEW addr \in Nat, NEW len \in Nat, NEW n \in Nat,
         Described(s, first, addr, len, n, 0), NEW x \in addr..(addr + len - 1)
  PROVE  \E k \in 1..n : x \in Bytes(s[first + k - 1])
<1> DEFINE q == addr \div PageSize  p == x \div PageSize  k == p - q + 1
<1> USE ZeroCopyAssumption
<1>1. len # 0 /\ addr + len - 1 \in Nat /\ x \in Nat /\ addr <= x /\ x <= addr + len - 1
  OBVIOUS
<1>2. n = ((addr + len - 1) \div PageSize) - q + 1
  BY <1>1, LastEntry DEF PageCount
<1>3. q \in Nat /\ p \in Nat /\ q <= p /\ p <= (addr + len - 1) \div PageSize
  BY <1>1, PageAndOffset, PagesInOrder
<1>4. k \in 1..n
  <2>1. (addr + len - 1) \div PageSize \in Nat
    BY <1>1, PageAndOffset
  <2> QED
    BY <1>2, <1>3, <2>1
<1>5. p * PageSize + (x % PageSize) = x /\ x % PageSize \in 0..(PageSize - 1)
  BY <1>1, PageAndOffset
<1>6. q + k - 1 = p
  BY <1>3
<1> DEFINE e == s[first + k - 1]
<1>7. Placed(e, addr, len, k, n, p * PageSize)
  <2>1. Placed(e, addr, len, k, n, (q + k - 1) * PageSize)
    BY <1>4, EntryBounds
  <2> QED
    BY <1>6, <2>1
<1> HIDE DEF k, p, e
<1>8. p * PageSize \in Nat /\ p * PageSize <= x /\ x < p * PageSize + PageSize
  BY <1>3, <1>5
<1>9. Begins(e) <= x /\ x <= Begins(e) + e.length - 1 /\ Begins(e) \in Nat /\ e.length \in Nat
  BY <1>1, <1>4, <1>7, <1>8 DEF Placed
<1>10. x \in Bytes(e)
  BY <1>1, <1>9 DEF Bytes
<1> QED
  BY <1>4, <1>10 DEF e

\* A buffer that is described is covered by its entries, in order.
LEMMA DescribedIsCovered ==
  ASSUME NEW first \in Nat, NEW addr \in Nat, NEW len \in Nat, NEW n \in Nat,
         Described(sg, first, addr, len, n, 0)
  PROVE  Covers(first..(first + n - 1), addr, len)
<1> DEFINE S == first..(first + n - 1)
           E == IF len = 0 THEN {} ELSE addr..(addr + len - 1)
<1>1. ASSUME NEW i \in S PROVE i - first + 1 \in 1..n /\ i = first + (i - first + 1) - 1
  BY <1>1
<1>2. ASSUME NEW i \in S
      PROVE  /\ Begins(sg[i]) \in Nat /\ sg[i].length \in 1..PageSize
             /\ Begins(sg[i]) >= addr
             /\ Begins(sg[i]) + sg[i].length <= addr + len
             /\ i + 1 \in S => Begins(sg[i + 1]) = Begins(sg[i]) + sg[i].length
  <2> DEFINE k == i - first + 1
  <2>1. k \in 1..n /\ i = first + k - 1 /\ i + 1 = first + k + 1 - 1
    BY <1>1
  <2>2. i + 1 \in S => k + 1 \in 1..n
    BY <1>1
  <2> HIDE DEF k, S
  <2>3. Placed(sg[first + k - 1], addr, len, k, n, ((addr \div PageSize) + k - 1) * PageSize)
    BY <2>1, EntryBounds
  <2>4. /\ Begins(sg[first + k - 1]) >= addr
        /\ Begins(sg[first + k - 1]) + sg[first + k - 1].length <= addr + len
    BY <2>1, EntriesInOrder
  <2>5. k + 1 \in 1..n =>
          Begins(sg[first + k + 1 - 1]) = Begins(sg[first + k - 1]) + sg[first + k - 1].length
    BY <2>1, EntriesInOrder
  <2>6. Begins(sg[i]) \in Nat /\ sg[i].length \in 1..PageSize
    BY <2>1, <2>3 DEF Placed
  <2> QED
    BY <2>1, <2>2, <2>4, <2>6, <2>5
<1>3. ASSUME NEW x \in E PROVE \E i \in S : x \in Bytes(sg[i])
  <2>1. x \in addr..(addr + len - 1)
    BY <1>3
  <2>2. PICK k \in 1..n : x \in Bytes(sg[first + k - 1])
    BY <2>1, ByteInEntry
  <2>3. first + k - 1 \in S
    OBVIOUS
  <2> QED
    BY <2>2, <2>3
<1>4. ASSUME NEW i \in S, NEW x \in Bytes(sg[i]) PROVE x \in E
  <2>1. /\ Begins(sg[i]) \in Nat /\ sg[i].length \in Nat \ {0}
        /\ Begins(sg[i]) >= addr /\ Begins(sg[i]) + sg[i].length <= addr + len
    BY <1>2, ZeroCopyAssumption
  <2>2. x \in Begins(sg[i])..(Begins(sg[i]) + sg[i].length - 1)
    BY <1>4 DEF Bytes
  <2> QED
    BY <2>1, <2>2
<1> HIDE DEF S, E
<1>5. UNION {Bytes(sg[i]) : i \in S} = E
  BY <1>3, <1>4
<1>6. \A i \in S : i + 1 \in S => Begins(sg[i + 1]) = Begins(sg[i]) + sg[i].length
  BY <1>2
<1> QED
  BY <1>5, <1>6 DEF Covers, Bytes, S, E

-----------------------------------------------------------------------------
(* The theorems.                                                           *)

\* Type correctness, whatever requests follow each other and fail.
THEOREM ZeroCopyTypeCorrect == Spec => []TypeOK
<1>1. ZeroCopyInv => TypeOK
  BY DEF ZeroCopyInv
<1> QED
  BY <1>1, ZeroCopyInvariance, PTL

\* The entries marked by sg_mark_end.  A request described by one buffer only
\* marks the first one; the second mark of a request is for its destination.
MarkInv ==
  /\ pc = "idle" => marked = {}
  /\ req.mode = "tls" => InPlace
  /\ EmptyOutput \/ marked \subseteq 1..array_size

\* An empty buffer is marked within the array, unless it is a destination after
\* a source that has pages.
LEMMA MarkInBounds ==
  ASSUME ZeroCopyInv, MarkInv, SkipBuffer, ~EmptyOutput
  PROVE  marked' \subseteq 1..array_size
<1> USE DEF ZeroCopyInv
<1>1. /\ array_size \in Nat \ {0} /\ marked \subseteq 1..array_size
      /\ req.mode \in {"plain", "tls", "srtp"} /\ {1} \subseteq 1..array_size
  BY ZeroCopyAssumption DEF TypeOK, MarkInv
<1>2. CASE pc = "src"
  <2>1. Buffer.first = 1
    BY <1>2, WhichBuffer
  <2>2. marked' = marked \/ marked' = marked \cup {1}
    BY <2>1 DEF SkipBuffer
  <2> QED
    BY <1>1, <2>2
<1>3. CASE pc = "dst"
  <2>1. /\ Buffer.first = SrcPages + 1 /\ Buffer.addr = req.dst
        /\ Buffer.len = req.dlen /\ Buffer.count = DstPages
    BY <1>3, WhichBuffer
  <2>2. req.mode # "srtp" /\ ~InPlace
    BY <1>3 DEF RequestInv, SrtpInv
  <2>3. req.mode = "plain"
    BY <1>1, <2>2 DEF MarkInv
  <2>4. CASE req.dst = 0
    BY <1>1, <2>1, <2>2, <2>3, <2>4 DEF SkipBuffer
  <2>5. CASE req.dst # 0
    <3>1. req.dlen = 0
      BY <2>1, <2>5, CountTypes DEF SkipBuffer
    <3>2. SrcLen = 0
      BY <2>2, <2>3, <2>5, <3>1 DEF EmptyOutput, SrcLen
    <3>3. Buffer.first = 1
      BY <2>1, <3>2, CountTypes
    <3>4. marked' = marked \/ marked' = marked \cup {1}
      BY <3>3 DEF SkipBuffer
    <3> QED
      BY <1>1, <3>4
  <2> QED
    BY <2>4, <2>5
<1> QED
  BY <1>2, <1>3 DEF SkipBuffer

\* A request that starts has nothing marked, and every end takes the marks off.
LEMMA MarkStep ==
  ASSUME ZeroCopyInv, MarkInv, [Next]_vars
  PROVE  MarkInv'
<1> USE DEF ZeroCopyInv
<1>1. CASE End
  BY <1>1 DEF End, MarkInv, NoRequest
<1>2. ASSUME NEW r \in Request, Start(r) \/ StartTls(r) \/ StartSrtp(r)
      PROVE  MarkInv'
  <2>1. marked' = {} /\ pc' # "idle"
    BY <1>2 DEF Start, StartTls, StartSrtp, MarkInv, lists
  <2>2. req'.mode = "tls" => InPlace'
    <3>1. r \in [mode : {"plain", "tls", "srtp"}, src : Nat, slen : Nat, dst : Nat,
                 dlen : Nat]
      BY ZeroCopyAssumption
    <3> QED
      BY <1>2, <3>1 DEF Start, StartTls, StartSrtp, InPlace
  <2> QED
    BY <2>1, <2>2 DEF MarkInv
<1>3. CASE Adjust
  <2>1. array_size \in Nat /\ array_size' \in array_size..MaxPages /\ MaxPages \in Nat
    BY <1>3, ZeroCopyAssumption DEF Adjust, TypeOK
  <2>2. 1..array_size \subseteq 1..array_size'
    BY <2>1
  <2>3. UNCHANGED <<marked, req>> /\ pc' # "idle"
    BY <1>3 DEF Adjust, lists
  <2> QED
    BY <2>2, <2>3 DEF MarkInv, EmptyOutput, InPlace
<1>4. CASE SkipBuffer
  <2>1. UNCHANGED <<req, array_size>> /\ pc' # "idle"
    BY <1>4, WhereNext DEF SkipBuffer, pinning
  <2>2. EmptyOutput' = EmptyOutput /\ InPlace' = InPlace
    BY <2>1 DEF EmptyOutput, InPlace
  <2> QED
    BY <1>4, <2>1, <2>2, MarkInBounds DEF MarkInv
<1>5. CASE Pin \/ FillEntry \/ FillDone \/ CopyList \/ CopyStale
  <2>1. UNCHANGED <<marked, req, array_size>>
    BY <1>5 DEF Pin, FillEntry, FillDone, CopyList, CopyStale, pinning, lists
  <2>2. pc' # "idle"
    BY <1>5, WhereNext DEF Pin, FillEntry, FillDone, CopyList, CopyStale
  <2> QED
    BY <2>1, <2>2 DEF MarkInv, EmptyOutput, InPlace
<1>6. CASE UNCHANGED vars
  BY <1>6 DEF MarkInv, EmptyOutput, InPlace, vars, lists, pinning
<1>7. ASSUME Next
      PROVE  \/ End \/ \E r \in Request : Start(r) \/ StartTls(r) \/ StartSrtp(r)
             \/ Adjust \/ SkipBuffer
             \/ Pin \/ FillEntry \/ FillDone \/ CopyList \/ CopyStale
  BY <1>7 DEF Next, AdjustFails, PinFails, CopyNoPayload, StaleTooShort, Release
<1> QED
  BY <1>1, <1>2, <1>3, <1>4, <1>5, <1>6, <1>7

\* get_user_pages, sg_set_page, sg_copy and sg_mark_end never write past the
\* end of ses->pages or ses->sg, which grow only while a request is being set
\* up; excepted is the sg_mark_end of an empty destination after a source.
THEOREM ArraysAreLargeEnough == Spec => []SlotsInBounds
<1>1. ASSUME ZeroCopyInv PROVE held \cup DOMAIN sg \subseteq 1..array_size
  <2> USE <1>1 DEF ZeroCopyInv
  <2>1. /\ SrcPages \in Nat /\ DstPages \in Nat /\ AuthPages \in Nat
        /\ req.mode = "srtp" => SrcPages = AuthPages
    BY CountTypes
  <2>2. /\ array_size \in Nat \ {0} /\ used_pages \in Nat
        /\ pc \in {"idle", "adjust", "src", "src_sg", "dst", "dst_sg", "copy", "stale", "use"}
    BY ZeroCopyAssumption DEF TypeOK
  <2>3. CASE pc \in {"idle", "adjust", "src", "stale"}
    BY <2>3 DEF ListInv
  <2>4. CASE req.mode = "srtp" /\ ~NullAuth /\ pc \in {"src_sg", "copy", "use"}
    <3>1. 2 * AuthPages <= array_size /\ (pc = "use" => used_pages = AuthPages)
      BY <2>4 DEF RequestInv, SrtpInv
    <3>2. held = 1..AuthPages
      BY <2>1, <2>4, <3>1 DEF ListInv
    <3>3. \E n \in 0..(2 * AuthPages) : DOMAIN sg = 1..n
      <4>1. CASE pc = "src_sg"
        <5>1. PICK n \in 0..SrcPages : DOMAIN sg = 1..n
          BY <4>1 DEF ListInv
        <5>2. n \in 0..(2 * AuthPages)
          BY <2>1, <2>4
        <5> QED
          BY <5>1, <5>2
      <4>2. CASE pc = "copy"
        <5>1. AuthPages \in 0..(2 * AuthPages) /\ DOMAIN sg = 1..AuthPages
          BY <2>1, <2>4, <4>2 DEF ListInv
        <5> QED
          BY <5>1
      <4>3. CASE pc = "use"
        <5>1. 2 * AuthPages \in 0..(2 * AuthPages) /\ DOMAIN sg = 1..(2 * AuthPages)
          BY <2>1, <2>4, <4>3 DEF ListInv
        <5> QED
          BY <5>1
      <4> QED
        BY <2>4, <4>1, <4>2, <4>3
    <3> QED
      BY <2>1, <2>2, <3>1, <3>2, <3>3
  <2>5. CASE req.mode # "srtp" /\ pc \in {"src_sg", "dst", "dst_sg", "use"}
    <3>1. /\ used_pages = IF InPlace THEN SrcPages ELSE SrcPages + DstPages
          /\ used_pages <= array_size
          /\ pc \in {"dst", "dst_sg"} => ~InPlace
      BY <2>5 DEF RequestInv, PlainInv
    <3>2. SrcPages <= used_pages
      BY <2>1, <3>1
    <3>3. CASE pc = "src_sg"
      <4>1. held = 1..SrcPages
        BY <3>3 DEF ListInv
      <4>2. PICK n \in 0..SrcPages : DOMAIN sg = 1..n
        BY <3>3 DEF ListInv
      <4> QED
        BY <2>1, <2>2, <3>1, <3>2, <4>1, <4>2
    <3>4. CASE pc = "dst"
      <4>1. held = 1..SrcPages /\ DOMAIN sg = 1..SrcPages
        BY <3>4 DEF ListInv
      <4> QED
        BY <2>1, <2>2, <3>1, <3>2, <4>1
    <3>5. CASE pc = "dst_sg"
      <4>1. held = 1..(SrcPages + DstPages)
        BY <3>5 DEF ListInv
      <4>2. PICK n \in 0..DstPages : DOMAIN sg = 1..(SrcPages + n)
        BY <3>5 DEF ListInv
      <4>3. SrcPages + DstPages <= array_size
        BY <3>1, <3>5
      <4> QED
        BY <2>1, <2>2, <4>1, <4>2, <4>3
    <3>6. CASE pc = "use"
      <4>1. held = 1..used_pages /\ DOMAIN sg = 1..used_pages
        BY <2>5, <3>6 DEF ListInv, NullAuth
      <4> QED
        BY <2>2, <3>1, <4>1
    <3> QED
      BY <2>5, <3>3, <3>4, <3>5, <3>6
  <2>6. pc = "copy" => req.mode = "srtp"
    BY DEF RequestInv, PlainInv
  <2>7. pc \in {"dst", "dst_sg"} => req.mode # "srtp"
    BY DEF RequestInv, SrtpInv
  <2>8. NullAuth => req.mode = "srtp" /\ pc \notin {"src_sg", "copy"}
    BY DEF NullAuth, RequestInv, SrtpInv
  <2>9. CASE NullAuth /\ pc = "use"
    <3>1. held = {} /\ DOMAIN sg = {1, AuthPages + 1} /\ 2 * AuthPages <= array_size
      BY <2>8, <2>9 DEF ListInv, RequestInv, SrtpInv
    <3>2. AuthPages + 1 <= array_size
      BY <2>1, <2>2, <3>1
    <3> QED
      BY <2>1, <2>2, <3>1, <3>2
  <2> QED
    BY <2>2, <2>3, <2>4, <2>5, <2>6, <2>7, <2>8, <2>9
<1>2. ZeroCopyInv /\ MarkInv => SlotsInBounds
  BY <1>1 DEF MarkInv, SlotsInBounds
<1>3. Init => MarkInv
  BY DEF Init, MarkInv, NoRequest
<1>4. ZeroCopyInv /\ MarkInv /\ [Next]_vars => MarkInv'
  BY MarkStep
<1> QED
  BY <1>2, <1>3, <1>4, ZeroCopyInvariance, PTL DEF Spec

\* No scatterlist entry stands for a page that is not pinned, and PAGECOUNT is
\* exact: the loop of __get_userbuf never needs an entry more.  The entry that
\* SRTP finds when auth_src is NULL is excepted.
THEOREM EntriesHavePages == Spec => []EntriesArePinned
<1>1. ASSUME ZeroCopyInv PROVE EntriesArePinned
  <2> USE <1>1 DEF ZeroCopyInv
  <2>1. /\ SrcPages \in Nat /\ DstPages \in Nat /\ AuthPages \in Nat
        /\ req.mode = "srtp" => SrcPages = AuthPages
    BY CountTypes
  <2>2. pc \in {"idle", "adjust", "src", "src_sg", "dst", "dst_sg", "copy", "stale",
          "use"}
    BY DEF TypeOK
  <2>3. CASE pc = "use" /\ req.mode = "srtp" /\ ~NullAuth
    <3>1. held = 1..AuthPages /\ DOMAIN sg = 1..(2 * AuthPages)
      BY <2>3 DEF ListInv, RequestInv, SrtpInv
    <3>2. \E j \in 1..AuthPages : dst_sg = AuthPages + j
      BY <2>3 DEF ListInv, SecondList
    <3>3. dst_sg # 0
      BY <2>1, <3>2
    <3>4. \A k \in DOMAIN sg : (IF k > AuthPages THEN k - AuthPages ELSE k) \in held
      BY <2>1, <3>1
    <3> QED
      BY <2>3, <3>3, <3>4 DEF EntriesArePinned
  <2>4. CASE ~(pc = "use" /\ req.mode = "srtp")
    <3>1. dst_sg = 0
      BY <2>4 DEF ListInv
    <3>2. DOMAIN sg \subseteq held
      <4>1. ~(pc = "use" /\ NullAuth)
        BY <2>4 DEF NullAuth
      <4> QED
        BY <2>1, <2>2, <2>4, <4>1 DEF ListInv
    <3>3. pc = "src_sg" => DOMAIN sg \subseteq 1..Buffer.count
      <4>1. pc = "src_sg" => Buffer.count = SrcPages
        BY WhichBuffer
      <4> QED
        BY <3>2, <4>1 DEF ListInv
    <3> QED
      BY <3>1, <3>2, <3>3 DEF EntriesArePinned
  <2>5. CASE pc = "use" /\ NullAuth
    BY <2>5 DEF EntriesArePinned
  <2> QED
    BY <2>3, <2>4, <2>5
<1> QED
  BY <1>1, ZeroCopyInvariance, PTL

\* Every page that is pinned is put once, unless a source was pinned in part, a
\* destination could not be pinned (the run PinPartial), or an SRTP request had
\* auth_src NULL.
THEOREM PinsAreBalanced == Spec => []PinsBalanced
<1>1. ZeroCopyInv => PinsBalanced
  BY DEF ZeroCopyInv
<1> QED
  BY <1>1, ZeroCopyInvariance, PTL

\* The operation works on exactly the user's bytes, wherever the buffers start
\* in a page, however long they are, in place or not.
THEOREM BuffersAreCovered == Spec => []ScatterCoversBuffers
<1>1. ASSUME ZeroCopyInv PROVE ScatterCoversBuffers
  <2> SUFFICES ASSUME pc = "use", req.mode # "srtp"
               PROVE  /\ DOMAIN sg = 1..used_pages
                      /\ IF InPlace
                           THEN Covers(1..used_pages, req.src, Larger(req.slen, req.dlen))
                           ELSE /\ Covers(1..readonly_pages, req.src, req.slen)
                                /\ Covers((readonly_pages + 1)..used_pages, req.dst, req.dlen)
    BY DEF ScatterCoversBuffers
  <2> USE <1>1 DEF ZeroCopyInv
  <2>1. /\ DOMAIN sg = 1..used_pages /\ SrcDescribed /\ (~InPlace => DstDescribed)
        /\ used_pages = IF InPlace THEN SrcPages ELSE SrcPages + DstPages
        /\ readonly_pages = IF InPlace THEN 0 ELSE SrcPages
    BY DEF ListInv, RequestInv, PlainInv, NullAuth
  <2>2. /\ req.src \in Nat /\ req.dst \in Nat /\ req.dlen \in Nat
        /\ SrcLen \in Nat /\ SrcPages \in Nat /\ DstPages \in Nat
    BY CountTypes
  <2>3. Covers(1..(1 + SrcPages - 1), req.src, SrcLen)
    BY <2>1, <2>2, DescribedIsCovered DEF SrcDescribed
  <2>4. 1 + SrcPages - 1 = SrcPages /\ SrcPages + 1 + DstPages - 1 = SrcPages + DstPages
    BY <2>2
  <2>5. CASE InPlace
    BY <2>1, <2>3, <2>4, <2>5 DEF SrcLen
  <2>6. CASE ~InPlace
    <3>1. SrcPages + 1 \in Nat /\ Described(sg, SrcPages + 1, req.dst, req.dlen, DstPages, 0)
      BY <2>1, <2>2, <2>6 DEF DstDescribed
    <3>2. Covers((SrcPages + 1)..(SrcPages + 1 + DstPages - 1), req.dst, req.dlen)
      BY <2>2, <3>1, DescribedIsCovered
    <3> QED
      BY <2>1, <2>3, <2>4, <2>6, <3>2 DEF SrcLen
  <2> QED
    BY <2>1, <2>5, <2>6
<1> QED
  BY <1>1, ZeroCopyInvariance, PTL

\* SRTP: the second list is the payload, from its first byte in whatever page
\* the header ends in to the last byte of the packet.
LEMMA SecondListIsPayload ==
  ASSUME ZeroCopyInv, pc = "use", req.mode = "srtp", ~NullAuth
  PROVE  Covers(dst_sg..(2 * AuthPages), Payload, req.src + req.slen - Payload)
<1> DEFINE C    == AuthPages
           B(k) == Begins(sg[k])
           N(k) == sg[k].length
           last == req.src + req.slen
           S    == dst_sg..(2 * AuthPages)
<1>1. /\ C \in Nat /\ req.src \in Nat /\ req.slen \in Nat /\ Payload \in Nat
      /\ Payload >= req.src
      /\ Described(sg, 1, req.src, req.slen, C, 0) /\ SecondList
  <2>1. SrcDescribed /\ SecondList /\ SrtpInv
    BY DEF ZeroCopyInv, ListInv, RequestInv
  <2> QED
    BY <2>1, CountTypes, DiffType DEF ZeroCopyInv, SrcDescribed, Payload
<1>2. PICK j \in 1..C :
        /\ dst_sg = C + j
        /\ \A k \in 1..C : k # j => sg[C + k] = sg[k]
        /\ sg[dst_sg] \in Entry
        /\ B(dst_sg) = Payload /\ B(j) <= Payload
        /\ B(dst_sg) + N(dst_sg) = B(j) + N(j)
  BY <1>1 DEF SecondList
<1>3. ASSUME NEW k \in 1..C
      PROVE  B(k) \in Nat /\ N(k) \in Nat \ {0} /\ B(k) + N(k) <= last
  <2>1. 1 + k - 1 = k
    BY <1>1
  <2>2. Placed(sg[k], req.src, req.slen, k, C, ((req.src \div PageSize) + k - 1) * PageSize)
    BY <1>1, <2>1, EntryBounds
  <2>3. B(1 + k - 1) + N(1 + k - 1) <= last
    BY <1>1, EntriesInOrder
  <2> QED
    BY <2>1, <2>2, <2>3, ZeroCopyAssumption DEF Placed
<1>4. ASSUME NEW k \in 1..C, NEW m \in 1..C, k < m PROVE B(k) + N(k) <= B(m)
  <2>1. 1 + k - 1 = k /\ 1 + m - 1 = m
    BY <1>1
  <2>2. B(1 + k - 1) + N(1 + k - 1) <= B(1 + m - 1)
    BY <1>1, <1>4, EntriesInOrder
  <2> QED
    BY <2>1, <2>2
<1>5. ASSUME NEW k \in 1..C, k + 1 \in 1..C PROVE B(k + 1) = B(k) + N(k)
  <2>1. Covers(1..(1 + C - 1), req.src, req.slen)
    BY <1>1, DescribedIsCovered
  <2>2. 1 + C - 1 = C
    BY <1>1
  <2> QED
    BY <1>5, <2>1, <2>2 DEF Covers
<1>6. ASSUME NEW x \in req.src..(last - 1)
      PROVE  \E k \in 1..C : x >= B(k) /\ x < B(k) + N(k)
  <2>1. PICK k \in 1..C : x \in Bytes(sg[1 + k - 1])
    <3> DEFINE f == 1  a == req.src  l == req.slen  n == C
    <3>1. /\ f \in Nat /\ a \in Nat /\ l \in Nat /\ n \in Nat
          /\ Described(sg, f, a, l, n, 0) /\ x \in a..(a + l - 1)
      BY <1>1, <1>6
    <3> HIDE DEF f, a, l, n
    <3>2. \E k \in 1..n : x \in Bytes(sg[f + k - 1])
      BY <3>1, ByteInEntry
    <3> QED
      BY <3>2 DEF f, n
  <2>2. x \in B(k)..(B(k) + N(k) - 1)
    BY <1>1, <2>1 DEF Bytes
  <2> QED
    BY <1>3, <2>2
<1>7. N(dst_sg) \in Nat \ {0}
  BY <1>2, ZeroCopyAssumption DEF Entry
<1> HIDE DEF B, N, C, last
<1>8. last \in Nat
  BY <1>1 DEF last
<1>9. ASSUME NEW i \in S
      PROVE  \E k \in 1..C : i = C + k /\ k >= j
  <2>1. i - C \in 1..C /\ i - C >= j /\ i = C + (i - C)
    BY <1>1, <1>2 DEF C
  <2> QED
    BY <2>1
<1>10. ASSUME NEW k \in 1..C, k >= j
       PROVE  /\ C + k \in S
              /\ B(C + k) = (IF k = j THEN Payload ELSE B(k))
              /\ B(C + k) + N(C + k) = B(k) + N(k)
              /\ N(C + k) \in Nat \ {0}
              /\ B(C + k) >= Payload
              /\ B(C + k) + N(C + k) <= last
  <2>1. C + k \in S
    BY <1>1, <1>2, <1>10 DEF C
  <2>2. CASE k = j
    BY <1>1, <1>2, <1>3, <1>7, <2>1, <2>2
  <2>3. CASE k # j
    <3>1. B(C + k) = B(k) /\ N(C + k) = N(k)
      BY <1>2, <2>3 DEF B, N
    <3>2. B(j) + N(j) <= B(k)
      BY <1>1, <1>4, <1>10, <2>3
    <3>3. B(k) >= Payload
      BY <1>1, <1>2, <1>3, <1>7, <3>2
    <3> QED
      BY <1>3, <2>1, <2>3, <3>1, <3>3
  <2> QED
    BY <2>2, <2>3
<1>11. Payload < last
  BY <1>1, <1>2, <1>3, <1>7, <1>8
<1> DEFINE E == Payload..(last - 1)
<1>12. ASSUME NEW x \in E PROVE \E i \in S : x \in Bytes(sg[i])
  <2>1. x \in req.src..(last - 1) /\ x >= Payload /\ x \in Nat
    BY <1>1, <1>8
  <2>2. PICK k \in 1..C : x >= B(k) /\ x < B(k) + N(k)
    BY <1>6, <2>1
  <2>3. ~(k < j)
    <3>1. k < j => B(k) + N(k) <= B(j)
      BY <1>4
    <3> QED
      BY <1>1, <1>2, <1>3, <2>1, <2>2, <3>1
  <2>4. k >= j
    BY <1>1, <2>3
  <2>5. x >= B(C + k) /\ x < B(C + k) + N(C + k)
    BY <1>10, <2>1, <2>2, <2>4
  <2>6. B(C + k) \in Nat /\ N(C + k) \in Nat /\ C + k \in S
    BY <1>1, <1>3, <1>10, <2>4
  <2>7. x \in Bytes(sg[C + k])
    BY <2>1, <2>5, <2>6 DEF Bytes, B, N
  <2> QED
    BY <2>6, <2>7
<1>13. ASSUME NEW i \in S, NEW x \in Bytes(sg[i]) PROVE x \in E
  <2>1. PICK k \in 1..C : i = C + k /\ k >= j
    BY <1>9
  <2>2. B(i) \in Nat /\ N(i) \in Nat \ {0} /\ B(i) >= Payload /\ B(i) + N(i) <= last
    BY <1>1, <1>3, <1>10, <2>1
  <2>3. x \in B(i)..(B(i) + N(i) - 1)
    BY <1>13 DEF Bytes, B, N
  <2> QED
    BY <1>1, <1>8, <2>2, <2>3
<1>14. ASSUME NEW i \in S, i + 1 \in S PROVE B(i + 1) = B(i) + N(i)
  <2>1. PICK k \in 1..C : i = C + k /\ k >= j
    BY <1>9
  <2>2. k + 1 \in 1..C /\ k + 1 > j /\ i + 1 = C + (k + 1)
    BY <1>1, <1>14, <2>1 DEF C
  <2>3. B(C + (k + 1)) = B(k + 1)
    BY <1>1, <1>10, <2>2
  <2>4. B(i) + N(i) = B(k) + N(k)
    BY <1>10, <2>1
  <2> QED
    BY <1>5, <2>2, <2>3, <2>4
<1>15. Payload + (req.src + req.slen - Payload) - 1 = last - 1
       /\ req.src + req.slen - Payload # 0
  BY <1>1, <1>8, <1>11 DEF last
<1> HIDE DEF S, E
<1>16. UNION {Bytes(sg[i]) : i \in S} = E
  BY <1>12, <1>13
<1>17. \A i \in S : i + 1 \in S => Begins(sg[i + 1]) = Begins(sg[i]) + sg[i].length
  BY <1>14 DEF B, N
<1>18. UNION {Begins(sg[i])..(Begins(sg[i]) + sg[i].length - 1) : i \in S} = E
  BY <1>16 DEF Bytes
<1> QED
  BY <1>15, <1>17, <1>18 DEF Covers, S, E

\* SRTP authenticates the whole packet and encrypts exactly what follows its
\* header, for every length of the header and every place of the packet, when
\* the packet is not NULL and the payload is at most MaxDiff bytes into it.
THEOREM PayloadIsCovered == Spec => []PayloadFollowsHeader
<1>1. ASSUME ZeroCopyInv PROVE PayloadFollowsHeader
  <2> SUFFICES ASSUME pc = "use", req.mode = "srtp", ~NullAuth
               PROVE  /\ Covers(1..used_pages, req.src, req.slen)
                      /\ req.dst \in req.src..(req.src + MaxDiff) =>
                           Covers(dst_sg..(2 * used_pages), req.dst,
                                  req.src + req.slen - req.dst)
    BY DEF PayloadFollowsHeader
  <2>1. SrcDescribed /\ used_pages = AuthPages
    BY <1>1 DEF ZeroCopyInv, ListInv, RequestInv, SrtpInv
  <2>2. /\ AuthPages \in Nat /\ req.src \in Nat /\ req.slen \in Nat /\ req.dst \in Nat
        /\ Described(sg, 1, req.src, req.slen, AuthPages, 0)
    BY <1>1, <2>1, CountTypes DEF ZeroCopyInv, SrcDescribed
  <2>3. Covers(1..(1 + AuthPages - 1), req.src, req.slen)
    BY <2>2, DescribedIsCovered
  <2>4. 1 + AuthPages - 1 = AuthPages
    BY <2>2
  <2>5. Covers(dst_sg..(2 * AuthPages), Payload, req.src + req.slen - Payload)
    BY <1>1, SecondListIsPayload
  <2>6. req.dst \in req.src..(req.src + MaxDiff) => Payload = req.dst
    BY <2>2, DiffType DEF Payload
  <2> QED
    BY <2>1, <2>3, <2>4, <2>5, <2>6
<1> QED
  BY <1>1, ZeroCopyInvariance, PTL
=============================================================================
