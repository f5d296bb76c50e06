---------------------------- MODULE CryptRunProofs ----------------------------
(***************************************************************************)
(* Proofs about CryptRun, for buffers of any length, any sessions and any  *)
(* number of calls and failures.                                           *)
(***************************************************************************)
EXTENDS CryptRun, SequenceTheorems, WellFoundedInduction, TLAPS

-----------------------------------------------------------------------------
(* Induction over the chunks of a buffer.                                  *)

\* A set that has 0 and with every number the next has all natural numbers.
LEMMA Induction ==
  ASSUME NEW N, 0 \in N, \A n \in Nat : n \in N => n + 1 \in N
  PROVE  Nat \subseteq N
<1> DEFINE T == Nat \ N
           R == OpToRel(<, Nat)
<1> SUFFICES ASSUME T # {} PROVE FALSE
  OBVIOUS
<1>1. IsWellFoundedOn(R, Nat)
  BY NatLessThanWellFounded, Zenon
<1>2. \A x, y \in Nat : y < x => <<y, x>> \in R
  BY DEF OpToRel
<1>3. T \subseteq Nat
  OBVIOUS
<1>4. PICK x \in T : \A y \in T : <<y, x>> \notin R
  <2> HIDE DEF R, T
  <2> QED
    BY <1>1, <1>3, WFMin
<1> HIDE DEF R
<1>5. x \in Nat /\ x # 0 /\ x - 1 \in Nat /\ x - 1 < x
  OBVIOUS
<1>6. x - 1 \notin T
  <2> HIDE DEF T
  <2>1. <<x - 1, x>> \in R
    BY <1>2, <1>5
  <2> QED
    BY <1>4, <2>1
<1> QED
  BY <1>5, <1>6

\* A sequence, of whatever chunks.
IsSeq(x) == \E T : x \in Seq(T)

\* What the equations of Chain say about c.
Step(op, w, x) ==
  LET d == CryptChunk(op, w.iv, x) IN [out |-> Append(w.out, d.out), iv |-> d.iv]
Links(op, v, s, n, c) ==
  c = [k \in 0..n |-> IF k = 0 THEN [out |-> <<>>, iv |-> v]
                               ELSE Step(op, c[k - 1], s[k])]

\* The equations have a solution.
LEMMA ChainExists ==
  ASSUME NEW op, NEW v, NEW s, NEW n \in Nat
  PROVE  \E c : Links(op, v, s, n, c)
<1> DEFINE N == {m \in Nat : \E c : Links(op, v, s, m, c)}
<1>1. 0 \in N
  <2> DEFINE c == [k \in 0..0 |-> [out |-> <<>>, iv |-> v]]
  <2>1. c = [k \in 0..0 |-> IF k = 0 THEN [out |-> <<>>, iv |-> v]
                                     ELSE Step(op, c[k - 1], s[k])]
    OBVIOUS
  <2>2. Links(op, v, s, 0, c)
    BY <2>1 DEF Links
  <2> QED
    BY <2>2
<1>2. ASSUME NEW m \in Nat, m \in N PROVE m + 1 \in N
  <2>1. PICK c : Links(op, v, s, m, c)
    BY <1>2
  <2> DEFINE b == [k \in 0..(m + 1) |-> IF k = 0 THEN [out |-> <<>>, iv |-> v]
                                        ELSE Step(op, c[k - 1], s[k])]
  <2>2. \A k \in 0..m : b[k] = c[k]
    BY <2>1 DEF Links
  <2>3. \A k \in 0..(m + 1) : k # 0 => b[k - 1] = c[k - 1]
    <3> HIDE DEF b
    <3> QED
      BY <2>2
  <2>4. b = [k \in 0..(m + 1) |-> IF k = 0 THEN [out |-> <<>>, iv |-> v]
                                  ELSE Step(op, b[k - 1], s[k])]
    <3> DEFINE a == [k \in 0..(m + 1) |-> IF k = 0 THEN [out |-> <<>>, iv |-> v]
                                  ELSE Step(op, b[k - 1], s[k])]
    <3>1. ASSUME NEW k \in 0..(m + 1) PROVE a[k] = b[k]
      <4>1. CASE k = 0
        BY <4>1
      <4>2. CASE k # 0
        <5>1. b[k] = Step(op, c[k - 1], s[k])
          BY <4>2
        <5> HIDE DEF b
        <5>2. a[k] = Step(op, b[k - 1], s[k]) /\ b[k - 1] = c[k - 1]
          BY <2>3, <4>2
        <5> QED
          BY <5>1, <5>2
      <4> QED
        BY <4>1, <4>2
    <3> QED
      BY <3>1
  <2>5. Links(op, v, s, m + 1, b)
    <3> HIDE DEF b
    <3> QED
      BY <2>4 DEF Links
  <2> QED
    BY <2>5
<1> HIDE DEF N
<1>3. Nat \subseteq N
  BY <1>1, <1>2, Induction
<1> QED
  BY <1>3 DEF N

\* The chain of a message starts at the IV and goes on block by block.
LEMMA ChainLinks ==
  ASSUME NEW op, NEW v, NEW s, Len(s) \in Nat
  PROVE  Links(op, v, s, Len(s), Chain(op, v, s))
<1>1. Chain(op, v, s) = CHOOSE c : Links(op, v, s, Len(s), c)
  BY DEF Chain, Links, Step
<1>2. \E c : Links(op, v, s, Len(s), c)
  BY ChainExists
<1> QED
  BY <1>1, <1>2

-----------------------------------------------------------------------------
(* What is needed about sequences.                                         *)

\* Joining two sequences gives a sequence.
LEMMA Concat ==
  ASSUME NEW a, NEW b, IsSeq(a), IsSeq(b)
  PROVE  IsSeq(a \o b)
<1>1. PICK T : a \in Seq(T)
  BY DEF IsSeq
<1>2. PICK U : b \in Seq(U)
  BY DEF IsSeq
<1>3. a \in Seq(T \cup U) /\ b \in Seq(T \cup U)
  BY <1>1, <1>2
<1>4. a \o b \in Seq(T \cup U)
  BY <1>3
<1> QED
  BY <1>4 DEF IsSeq

\* Joining is associative: the split into pages does not matter.
LEMMA ConcatTwice ==
  ASSUME NEW a, NEW b, NEW c, IsSeq(a), IsSeq(b), IsSeq(c)
  PROVE  (a \o b) \o c = a \o (b \o c)
<1>1. PICK T : a \in Seq(T)
  BY DEF IsSeq
<1>2. PICK U : b \in Seq(U)
  BY DEF IsSeq
<1>3. PICK V : c \in Seq(V)
  BY DEF IsSeq
<1> DEFINE W == T \cup U \cup V
<1>4. a \in Seq(W) /\ b \in Seq(W) /\ c \in Seq(W)
  BY <1>1, <1>2, <1>3
<1> HIDE DEF W
<1> QED
  BY <1>4, ConcatAssociative

\* Joining with nothing changes nothing.
LEMMA ConcatEmpty ==
  ASSUME NEW a, IsSeq(a)
  PROVE  a \o <<>> = a /\ <<>> \o a = a
<1>1. PICK T : a \in Seq(T)
  BY DEF IsSeq
<1> QED
  BY <1>1, ConcatEmptySeq

\* Appending a block is joining a sequence of one.
LEMMA AppendIsSeq ==
  ASSUME NEW a, NEW x, IsSeq(a)
  PROVE  /\ IsSeq(Append(a, x)) /\ IsSeq(<<x>>)
         /\ Append(a, x) = a \o <<x>>
<1>1. PICK T : a \in Seq(T)
  BY DEF IsSeq
<1> DEFINE U == T \cup {x}
<1>2. a \in Seq(U) /\ x \in U
  BY <1>1
<1> HIDE DEF U
<1>3. Append(a, x) \in Seq(U) /\ <<x>> \in Seq(U) /\ Append(a, x) = a \o <<x>>
  BY <1>2, AppendIsConcat
<1> QED
  BY <1>3 DEF IsSeq

\* The prefixes of a message grow by one block at a time.
LEMMA Prefixes ==
  ASSUME NEW s, IsSeq(s)
  PROVE  /\ Len(s) \in Nat
         /\ SubSeq(s, 1, 0) = <<>> /\ SubSeq(s, 1, Len(s)) = s
         /\ \A k \in 0..Len(s) : IsSeq(SubSeq(s, 1, k))
         /\ \A k \in 0..(Len(s) - 1) : SubSeq(s, 1, k + 1) = SubSeq(s, 1, k) \o <<s[k + 1]>>
<1>1. PICK T : s \in Seq(T)
  BY DEF IsSeq
<1>2. Len(s) \in Nat
  BY <1>1
<1>3. SubSeq(s, 1, 0) = <<>> /\ SubSeq(s, 1, Len(s)) = s
  BY <1>1
<1>4. \A k \in 0..Len(s) : SubSeq(s, 1, k) \in Seq(T)
  BY <1>1
<1>5. ASSUME NEW k \in 0..(Len(s) - 1)
      PROVE  SubSeq(s, 1, k + 1) = SubSeq(s, 1, k) \o <<s[k + 1]>>
  <2> DEFINE a == SubSeq(s, 1, k)  b == SubSeq(s, 1, k + 1)
  <2>1. a \in Seq(T) /\ b \in Seq(T) /\ Len(a) = k /\ Len(b) = k + 1 /\ s[k + 1] \in T
    BY <1>1
  <2>2. \A i \in 1..k : a[i] = s[i] /\ b[i] = s[i]
    BY <1>1
  <2>3. b[k + 1] = s[k + 1]
    BY <1>1
  <2> HIDE DEF a, b
  <2> QED
    BY <2>1, <2>2, <2>3 DEF a, b
<1> QED
  BY <1>2, <1>3, <1>4, <1>5 DEF IsSeq

-----------------------------------------------------------------------------
(* A buffer through the cipher, chunk by chunk.                            *)

\* Before the first block nothing is written and the IV is the one given.
LEMMA FirstLink ==
  ASSUME NEW op, NEW v, NEW s, IsSeq(s)
  PROVE  Chain(op, v, s)[0].out = <<>> /\ Chain(op, v, s)[0].iv = v
<1>1. Len(s) \in Nat /\ 0 \in 0..Len(s)
  BY Prefixes
<1> DEFINE c == Chain(op, v, s)
<1>2. Links(op, v, s, Len(s), c)
  BY <1>1, ChainLinks
<1> HIDE DEF c
<1>3. c[0] = [out |-> <<>>, iv |-> v]
  BY <1>1, <1>2 DEF Links
<1> QED
  BY <1>3 DEF c

\* One block more is one cipher step more.
LEMMA NextLink ==
  ASSUME NEW op, NEW v, NEW s, IsSeq(s), NEW k \in 0..(Len(s) - 1)
  PROVE  Chain(op, v, s)[k + 1] = Step(op, Chain(op, v, s)[k], s[k + 1])
<1>1. Len(s) \in Nat /\ k + 1 \in 0..Len(s) /\ k + 1 # 0 /\ k + 1 - 1 = k
  BY Prefixes
<1> DEFINE c == Chain(op, v, s)
<1>2. Links(op, v, s, Len(s), c)
  BY <1>1, ChainLinks
<1> HIDE DEF c
<1>3. c[k + 1] = Step(op, c[k], s[k + 1])
  BY <1>1, <1>2 DEF Links
<1> QED
  BY <1>3 DEF c

\* What the cipher writes is a sequence.
LEMMA ChainIsSeq ==
  ASSUME NEW op, NEW v, NEW s, IsSeq(s), NEW k \in 0..Len(s)
  PROVE  IsSeq(Chain(op, v, s)[k].out)
<1> DEFINE c == Chain(op, v, s)
           N == {n \in Nat : n \in 0..Len(s) => IsSeq(c[n].out)}
<1>1. Len(s) \in Nat
  BY Prefixes
<1>2. 0 \in N
  <2>1. <<>> \in Seq({})
    OBVIOUS
  <2>2. IsSeq(<<>>)
    BY <2>1 DEF IsSeq
  <2>3. c[0].out = <<>>
    BY FirstLink
  <2> QED
    BY <2>2, <2>3
<1>3. ASSUME NEW n \in Nat, n \in N PROVE n + 1 \in N
  <2> SUFFICES ASSUME n + 1 \in 0..Len(s) PROVE IsSeq(c[n + 1].out)
    OBVIOUS
  <2>1. n \in 0..(Len(s) - 1) /\ n \in 0..Len(s)
    BY <1>1
  <2>2. c[n + 1] = Step(op, c[n], s[n + 1])
    BY <2>1, NextLink
  <2>3. IsSeq(c[n].out)
    BY <1>3, <2>1
  <2> HIDE DEF c
  <2>4. c[n + 1].out = Append(c[n].out, CryptChunk(op, c[n].iv, s[n + 1]).out)
    BY <2>2 DEF Step
  <2> QED
    BY <2>3, <2>4, AppendIsSeq
<1> HIDE DEF N
<1>4. Nat \subseteq N
  BY <1>2, <1>3, Induction
<1>5. k \in Nat
  BY <1>1
<1> QED
  BY <1>4, <1>5 DEF N

\* One chunk more: what the copying path does with a page.
OneMore(c, k, d) ==
  c[k + 1].out = c[k].out \o d.out /\ c[k + 1].iv = d.iv /\ IsSeq(d.out)

\* A page encrypted with the IV the pages before it left is the next link.
LEMMA OneChunk ==
  ASSUME NEW op, NEW v, NEW s, IsSeq(s), NEW k \in 0..(Len(s) - 1), NEW w,
         w = Chain(op, v, s)[k].iv
  PROVE  OneMore(Chain(op, v, s), k, Crypt(op, w, <<s[k + 1]>>))
<1> DEFINE x == s[k + 1]
           c == Chain(op, v, s)
           e == Chain(op, w, <<x>>)
           d == CryptChunk(op, w, x)
<1>1. c[k + 1] = Step(op, c[k], x)
  BY NextLink
<1>2. IsSeq(<<x>>) /\ Len(<<x>>) = 1 /\ <<x>>[1] = x
  <2>1. <<x>> \in Seq({x})
    OBVIOUS
  <2> QED
    BY <2>1 DEF IsSeq
<1>3. 0 \in 0..(Len(<<x>>) - 1) /\ 1 \in 0..Len(<<x>>)
  BY <1>2
<1>4. e[0 + 1] = Step(op, e[0], <<x>>[0 + 1])
  <2> DEFINE y == <<x>>  z == 0
  <2>1. IsSeq(y) /\ z \in 0..(Len(y) - 1)
    BY <1>2, <1>3
  <2> HIDE DEF y, z, x
  <2>2. Chain(op, w, y)[z + 1] = Step(op, Chain(op, w, y)[z], y[z + 1])
    BY <2>1, NextLink
  <2> QED
    BY <2>2 DEF y, z
<1>5. e[0].out = <<>> /\ e[0].iv = w
  BY <1>2, FirstLink
<1>6. Crypt(op, w, <<x>>) = e[1]
  BY <1>2 DEF Crypt
<1>7. IsSeq(e[1].out)
  BY <1>2, <1>3, ChainIsSeq
<1>8. IsSeq(c[k].out)
  <2>1. k \in 0..Len(s)
    BY Prefixes
  <2> QED
    BY <2>1, ChainIsSeq
<1>9. w = c[k].iv
  OBVIOUS
<1> HIDE DEF c, e, x
<1>10. e[1] = Step(op, e[0], x)
  BY <1>2, <1>4
<1>11. e[1].out = Append(<<>>, d.out) /\ e[1].iv = d.iv
  BY <1>5, <1>10 DEF Step
<1>12. c[k + 1].out = Append(c[k].out, d.out) /\ c[k + 1].iv = d.iv
  BY <1>1, <1>9 DEF Step
<1> HIDE DEF d
<1>13. Append(<<>>, d.out) = <<d.out>>
  OBVIOUS
<1>14. c[k + 1].out = c[k].out \o <<d.out>>
  BY <1>8, <1>12, AppendIsSeq
<1>15. OneMore(c, k, e[1])
  BY <1>7, <1>11, <1>12, <1>13, <1>14 DEF OneMore
<1> QED
  BY <1>6, <1>15 DEF c, x

-----------------------------------------------------------------------------
(* Hash states.                                                            *)

\* The state of a hash that has absorbed x.
Live(x) == [is |-> "live", chunks |-> x]

IsState(h) == h = Spent \/ \E x : IsSeq(x) /\ h = Live(x)

\* A finished hash state is no live one, and neither is the absence of a digest.
LEMMA StateKinds ==
  /\ Fresh = Live(<<>>) /\ IsSeq(<<>>) /\ IsState(Fresh) /\ IsState(Spent)
  /\ Spent # NoDigest
  /\ \A x : Live(x) # Spent /\ Live(x) # NoDigest
<1>1. Fresh = Live(<<>>)
  BY DEF Fresh, Live
<1>2. <<>> \in Seq({})
  OBVIOUS
<1>3. IsSeq(<<>>)
  BY <1>2 DEF IsSeq
<1>4. Spent # NoDigest
  <2>1. Spent.is = "spent" /\ NoDigest.is = "none"
    BY DEF Spent, NoDigest
  <2> QED
    BY <2>1
<1>5. ASSUME NEW x PROVE Live(x) # Spent /\ Live(x) # NoDigest
  <2>1. Live(x).is = "live" /\ Spent.is = "spent" /\ NoDigest.is = "none"
    BY DEF Spent, NoDigest, Live
  <2> QED
    BY <2>1
<1> QED
  BY <1>1, <1>3, <1>4, <1>5 DEF IsState

\* A live state remembers all it was given.
LEMMA AbsorbLive ==
  ASSUME NEW x, NEW s
  PROVE  Absorb(Live(x), s) = Live(x \o s)
<1>1. Live(x) # Spent
  BY StateKinds
<1>2. Absorb(Live(x), s) = [Live(x) EXCEPT !.chunks = @ \o s]
  BY <1>1 DEF Absorb
<1> QED
  BY <1>2 DEF Live

\* An update leaves a hash state.
LEMMA AbsorbIsState ==
  ASSUME NEW h, NEW s, IsState(h), IsSeq(s)
  PROVE  IsState(Absorb(h, s))
<1>1. CASE h = Spent
  BY <1>1 DEF Absorb, IsState
<1>2. CASE h # Spent
  <2>1. PICK x : IsSeq(x) /\ h = Live(x)
    BY <1>2 DEF IsState
  <2> QED
    BY <2>1, AbsorbLive, Concat DEF IsState
<1> QED
  BY <1>1, <1>2

\* Absorbing nothing, and absorbing in two parts.
LEMMA AbsorbNothing ==
  ASSUME NEW h, IsState(h)
  PROVE  Absorb(h, <<>>) = h
<1>1. CASE h = Spent
  BY <1>1 DEF Absorb
<1>2. CASE h # Spent
  <2>1. PICK x : IsSeq(x) /\ h = Live(x)
    BY <1>2 DEF IsState
  <2>2. x \o <<>> = x
    BY <2>1, ConcatEmpty
  <2>3. Absorb(Live(x), <<>>) = Live(x \o <<>>)
    BY AbsorbLive
  <2> QED
    BY <2>1, <2>2, <2>3
<1> QED
  BY <1>1, <1>2

\* Two updates are one update with both data: hashing page by page is hashing
\* the whole buffer.
LEMMA AbsorbTwice ==
  ASSUME NEW h, NEW a, NEW b, IsState(h), IsSeq(a), IsSeq(b)
  PROVE  Absorb(Absorb(h, a), b) = Absorb(h, a \o b)
<1>1. CASE h = Spent
  BY <1>1 DEF Absorb
<1>2. CASE h # Spent
  <2>1. PICK x : IsSeq(x) /\ h = Live(x)
    BY <1>2 DEF IsState
  <2>2. (x \o a) \o b = x \o (a \o b)
    BY <2>1, ConcatTwice
  <2> QED
    BY <2>1, <2>2, AbsorbLive
<1> QED
  BY <1>1, <1>2

-----------------------------------------------------------------------------
(* The invariant.                                                          *)

FlagName == {"update", "final", "reset", "write_iv", "no_zc"}
Cop == [ses : Session, op : {"encrypt", "decrypt"}, flags : SUBSET FlagName, data : Data,
        ragged : BOOLEAN, aligned : BOOLEAN, inplace : BOOLEAN, withiv : BOOLEAN]

\* crypto_run has reset the hash and set the IV.
InCall == pc \in {"zc", "std", "final", "reply"}

CryptTypeOK ==
  /\ DOMAIN hash = Session /\ DOMAIN iv = Session /\ DOMAIN stream = Session
  /\ \A s \in Session : IsState(hash[s]) /\ IsState(stream[s])
  /\ uflags \in SUBSET FlagName
  /\ pc \in {"idle", "run", "zc", "std", "final", "reply"}
  /\ pc # "idle" => cop \in Cop
  /\ ~InCall => at = 0 /\ out = <<>>
  /\ InCall => IsState(start.hash)

\* The application and the session agree on what was hashed, unless the
\* application knows that it does not know.
StreamInv ==
  /\ \A s \in Hashes : stream[s] # Spent /\ (InCall => s # S) => hash[s] = stream[s]
  /\ InCall /\ HasHash /\ Continued # Spent => start.hash = Continued

\* The first k chunks of the request and their plaintext.
Chained    == Chain(cop.op, start.iv, cop.data)
PlainTo(k) ==
  IF cop.op = "decrypt" /\ HasCipher THEN Chained[k].out ELSE SubSeq(cop.data, 1, k)

\* The first k chunks have been handled.
Progress(k) ==
  /\ HasCipher => out = Chained[k].out /\ iv[S] = Chained[k].iv
  /\ HasHash /\ HashesItsData => hash[S] = Absorb(start.hash, PlainTo(k))

RunInv ==
  /\ pc = "zc" => at = 0 /\ Progress(0)
  /\ pc = "std" => at \in 0..Len(cop.data) /\ Progress(at)
  /\ pc = "final" => Progress(Len(cop.data))
  /\ pc = "reply" =>
       /\ HasCipher => /\ out = Chained[Len(cop.data)].out
                       /\ cop.withiv => kiv = Chained[Len(cop.data)].iv
       /\ HasHash /\ HashesItsData =>
            Absorb(start.hash, PlainTo(Len(cop.data))) = IF Finals THEN digest ELSE hash[S]
       /\ IF Finals THEN IsState(digest) ELSE digest = NoDigest

CryptInv == CryptTypeOK /\ StreamInv /\ RunInv

\* The request of a call.
LEMMA CopTypes ==
  ASSUME CryptTypeOK, pc # "idle"
  PROVE  /\ S \in Session /\ cop.op \in {"encrypt", "decrypt"}
         /\ IsSeq(cop.data) /\ Len(cop.data) \in Nat
         /\ (HasHash => S \in Hashes)
<1>1. cop \in Cop
  BY DEF CryptTypeOK
<1>2. S \in Session /\ cop.op \in {"encrypt", "decrypt"} /\ cop.data \in Data
  BY <1>1 DEF Cop, S
<1>3. IsSeq(cop.data)
  BY <1>2, CryptAssumption DEF IsSeq
<1> QED
  BY <1>2, <1>3, Prefixes DEF HasHash

\* The part of the plaintext known after k blocks is a sequence.
LEMMA PlainIsSeq ==
  ASSUME CryptTypeOK, pc # "idle", NEW k \in 0..Len(cop.data)
  PROVE  IsSeq(PlainTo(k))
<1>1. IsSeq(Chained[k].out)
  BY CopTypes, ChainIsSeq DEF Chained
<1>2. IsSeq(SubSeq(cop.data, 1, k))
  BY CopTypes, Prefixes
<1> QED
  BY <1>1, <1>2 DEF PlainTo

\* After the last block all of the plaintext is known.
LEMMA PlainIsAll ==
  ASSUME CryptTypeOK, pc # "idle"
  PROVE  /\ Plain = PlainTo(Len(cop.data)) /\ IsSeq(Plain)
         /\ Crypt(cop.op, start.iv, cop.data) = Chained[Len(cop.data)]
<1>1. SubSeq(cop.data, 1, Len(cop.data)) = cop.data
  BY CopTypes, Prefixes
<1>2. Len(cop.data) \in 0..Len(cop.data)
  BY CopTypes
<1>3. Crypt(cop.op, start.iv, cop.data) = Chained[Len(cop.data)]
  BY DEF Crypt, Chained
<1>4. Plain = PlainTo(Len(cop.data))
  <2>1. CASE cop.op = "decrypt" /\ HasCipher
    BY <1>3, <2>1 DEF Plain, PlainTo
  <2>2. CASE ~(cop.op = "decrypt" /\ HasCipher)
    BY <1>1, <2>2 DEF Plain, PlainTo
  <2> QED
    BY <2>1, <2>2
<1> QED
  BY <1>2, <1>3, <1>4, PlainIsSeq

\* Nothing has been handled at the start.
LEMMA NoProgress ==
  ASSUME CryptTypeOK, pc # "idle"
  PROVE  /\ Chained[0].out = <<>> /\ Chained[0].iv = start.iv
         /\ PlainTo(0) = <<>>
<1>1. Chained[0].out = <<>> /\ Chained[0].iv = start.iv
  BY CopTypes, FirstLink DEF Chained
<1>2. SubSeq(cop.data, 1, 0) = <<>>
  BY CopTypes, Prefixes
<1> QED
  BY <1>1, <1>2 DEF PlainTo

\* What an update hashes is a sequence.
LEMMA HashedIsSeq ==
  ASSUME NEW s, IsSeq(s), NEW b
  PROVE  IsSeq(Hashed(s, b))
<1>1. Len(s) \in Nat /\ Len(s) \in 0..Len(s)
  BY Prefixes
<1>2. IsSeq(HashNCrypt(s).out)
  BY <1>1, ChainIsSeq DEF HashNCrypt, Crypt
<1>3. IsSeq([k \in 1..Len(s) |-> OldDst])
  <2>1. [k \in 1..Len(s) |-> OldDst] \in Seq({OldDst})
    BY <1>1
  <2> QED
    BY <2>1 DEF IsSeq
<1> QED
  BY <1>2, <1>3 DEF Hashed

-----------------------------------------------------------------------------
(* The invariant is inductive.                                             *)

\* The invariant holds initially.
LEMMA CryptInit == Init => CryptInv
<1> SUFFICES ASSUME Init PROVE CryptInv
  OBVIOUS
<1>1. pc = "idle" /\ ~InCall
  BY DEF Init, InCall
<1>2. \A s \in Session : hash[s] = Fresh /\ stream[s] = Fresh
  BY DEF Init
<1>3. CryptTypeOK
  BY <1>1, <1>2, StateKinds DEF Init, CryptTypeOK
<1>4. Hashes \subseteq Session
  BY CryptAssumption
<1>5. StreamInv
  BY <1>1, <1>2, <1>4 DEF StreamInv
<1> QED
  BY <1>1, <1>3, <1>5 DEF CryptInv, RunInv

\* A call that fails, whatever it has done to its own session.
LEMMA FailStep ==
  ASSUME CryptInv, pc # "idle", NEW r, Fail(r),
         DOMAIN hash' = Session, DOMAIN iv' = Session,
         \A s \in Session : s # S => hash'[s] = hash[s],
         IsState(hash'[S])
  PROVE  CryptInv'
<1>1. /\ pc' = "idle" /\ at' = 0 /\ out' = <<>> /\ uflags' = uflags
      /\ stream' = [stream EXCEPT ![S] = Spent]
  BY DEF Fail, End
<1>2. ~InCall'
  BY <1>1 DEF InCall
<1>3. S \in Session /\ Hashes \subseteq Session /\ DOMAIN stream = Session
  BY CopTypes, CryptAssumption DEF CryptInv, CryptTypeOK
<1>4. /\ DOMAIN stream' = Session /\ stream'[S] = Spent
      /\ \A s \in Session : s # S => stream'[s] = stream[s]
  BY <1>1, <1>3
<1>5. \A s \in Session : IsState(hash'[s]) /\ IsState(stream'[s])
  BY <1>4, StateKinds DEF CryptInv, CryptTypeOK
<1>6. CryptTypeOK'
  BY <1>1, <1>2, <1>4, <1>5 DEF CryptInv, CryptTypeOK
<1>7. \A s \in Hashes : stream'[s] # Spent => hash'[s] = stream'[s]
  BY <1>3, <1>4 DEF CryptInv, StreamInv
<1>8. StreamInv'
  BY <1>2, <1>7 DEF StreamInv
<1> QED
  BY <1>1, <1>6, <1>8 DEF CryptInv, RunInv

\* Preservation by Call.
LEMMA CallStep ==
  ASSUME CryptInv, NEW o \in Ops, NEW f \in Flags \cup {uflags}, NEW d \in Data,
         Call(o[1], o[2], f, d)
  PROVE  CryptInv'
<1>1. pc = "idle" /\ pc' = "run" /\ UNCHANGED <<hash, iv, at, out, start, uflags, stream>>
  BY DEF Call, session
<1>2. ~InCall /\ ~InCall'
  BY <1>1 DEF InCall
<1>3. o[1] \in Session /\ o[2] \in {"encrypt", "decrypt"} /\ f \in SUBSET FlagName
  BY CryptAssumption DEF CryptInv, CryptTypeOK, FlagName
<1>4. cop' \in Cop
  BY <1>3 DEF Call, Cop
<1>5. CryptTypeOK'
  BY <1>1, <1>2, <1>4 DEF CryptInv, CryptTypeOK
<1>6. StreamInv'
  BY <1>1, <1>2 DEF CryptInv, StreamInv
<1> QED
  BY <1>1, <1>5, <1>6 DEF CryptInv, RunInv

\* The reset of the hash.
LEMMA ResetIsState ==
  ASSUME CryptInv, pc = "run", hash' = [hash EXCEPT ![S] = ResetHash]
  PROVE  /\ IsState(ResetHash) /\ hash'[S] = ResetHash /\ DOMAIN hash' = Session
         /\ \A s \in Session : s # S => hash'[s] = hash[s]
<1>1. S \in Session /\ DOMAIN hash = Session /\ IsState(hash[S])
  BY CopTypes DEF CryptInv, CryptTypeOK
<1> QED
  BY <1>1, StateKinds DEF ResetHash

\* Preservation by RunResetFails.
LEMMA ResetFailsStep ==
  ASSUME CryptInv, RunResetFails
  PROVE  CryptInv'
<1>1. pc # "idle" /\ hash' = [hash EXCEPT ![S] = Spent] /\ iv' = iv /\ Fail("error")
  BY DEF RunResetFails
<1>2. S \in Session /\ DOMAIN hash = Session /\ DOMAIN iv = Session
  BY <1>1, CopTypes DEF CryptInv, CryptTypeOK
<1>3. /\ DOMAIN hash' = Session /\ DOMAIN iv' = Session /\ hash'[S] = Spent
      /\ \A s \in Session : s # S => hash'[s] = hash[s]
  BY <1>1, <1>2
<1> QED
  BY <1>1, <1>3, FailStep, StateKinds

\* Preservation by RunRefuse.
LEMMA RefuseStep ==
  ASSUME CryptInv, RunRefuse
  PROVE  CryptInv'
<1>1. pc = "run" /\ hash' = [hash EXCEPT ![S] = ResetHash] /\ iv' = iv /\ Fail("EINVAL")
  BY DEF RunRefuse
<1>2. DOMAIN iv = Session
  BY DEF CryptInv, CryptTypeOK
<1> QED
  BY <1>1, <1>2, ResetIsState, FailStep

\* Preservation by RunStart, which sets the IV and resets the hash.
LEMMA StartStep ==
  ASSUME CryptInv, RunStart
  PROVE  CryptInv'
<1> DEFINE f == IF cop.data # <<>> /\ ~cop.aligned
                  THEN cop.flags \cup {"no_zc"} ELSE cop.flags
<1>1. /\ pc = "run" /\ hash' = [hash EXCEPT ![S] = ResetHash]
      /\ iv' = IF HasCipher /\ cop.withiv THEN [iv EXCEPT ![S] = kiv] ELSE iv
      /\ start' = [flags |-> cop.flags, hash |-> ResetHash, iv |-> iv'[S]]
      /\ cop' = [cop EXCEPT !.flags = f]
      /\ pc' \in {"zc", "std", "final"} /\ (pc' = "final" => cop.data = <<>>)
      /\ UNCHANGED <<at, out, uflags, stream>>
  BY DEF RunStart
<1>2. cop \in Cop /\ DOMAIN iv = Session /\ DOMAIN stream = Session /\ at = 0 /\ out = <<>>
  BY <1>1 DEF CryptInv, CryptTypeOK, InCall
<1>3. f \in SUBSET FlagName
  BY <1>2 DEF Cop, FlagName
<1> HIDE DEF f
<1>4. /\ cop' \in Cop /\ cop'.ses = cop.ses /\ cop'.op = cop.op /\ cop'.data = cop.data
      /\ cop'.inplace = cop.inplace
  BY <1>1, <1>2, <1>3 DEF Cop
<1>5. /\ IsState(ResetHash) /\ hash'[S] = ResetHash /\ DOMAIN hash' = Session
      /\ \A s \in Session : s # S => hash'[s] = hash[s]
  BY <1>1, ResetIsState
<1>6. /\ S' = S /\ HasHash' = HasHash /\ HasCipher' = HasCipher
      /\ HashesItsData' = HashesItsData
  BY <1>4 DEF S, HasHash, HasCipher, HashesItsData
<1>7. pc' # "idle" /\ InCall' /\ ~InCall
  BY <1>1 DEF InCall
<1>8. start'.hash = ResetHash /\ start'.iv = iv'[S] /\ start'.flags = cop.flags
  BY <1>1
<1>9. CryptTypeOK'
  <2>1. \A s \in Session : IsState(hash'[s]) /\ IsState(stream'[s])
    BY <1>1, <1>5 DEF CryptInv, CryptTypeOK
  <2>2. DOMAIN iv' = Session
    BY <1>1, <1>2
  <2>3. uflags' \in SUBSET FlagName
    BY <1>1 DEF CryptInv, CryptTypeOK
  <2> QED
    BY <1>1, <1>2, <1>4, <1>5, <1>7, <1>8, <2>1, <2>2, <2>3 DEF CryptTypeOK
<1>10. StreamInv'
  <2>1. \A s \in Hashes : stream'[s] # Spent /\ s # S => hash'[s] = stream'[s]
    <3>1. Hashes \subseteq Session
      BY CryptAssumption
    <3> QED
      BY <1>1, <1>5, <1>7, <3>1 DEF CryptInv, StreamInv
  <2>2. ASSUME HasHash, Continued' # Spent PROVE ResetHash = Continued'
    <3>1. Continued' = IF cop.flags = {} \/ "reset" \in cop.flags THEN Fresh ELSE stream[S]
      BY <1>1, <1>6, <1>8 DEF Continued
    <3>2. CASE Resets
      BY <2>2, <3>1, <3>2 DEF Resets, ResetHash
    <3>3. CASE ~Resets
      <4>1. Continued' = stream[S] /\ ResetHash = hash[S]
        BY <2>2, <3>1, <3>3 DEF Resets, ResetHash
      <4>2. S \in Hashes
        BY <2>2 DEF HasHash
      <4> QED
        BY <1>7, <2>2, <4>1, <4>2 DEF CryptInv, StreamInv
    <3> QED
      BY <3>2, <3>3
  <2> QED
    BY <1>6, <1>7, <1>8, <2>1, <2>2 DEF StreamInv
<1>11. Progress(0)'
  <2>1. /\ Chained'[0].out = <<>> /\ Chained'[0].iv = start'.iv
        /\ PlainTo(0)' = <<>>
    <3>1. IsSeq(cop'.data)
      BY <1>1, <1>4, CopTypes DEF CryptInv
    <3>2. Chained'[0].out = <<>> /\ Chained'[0].iv = start'.iv
      BY <3>1, FirstLink DEF Chained
    <3>3. SubSeq(cop'.data, 1, 0) = <<>>
      BY <3>1, Prefixes
    <3> QED
      BY <3>2, <3>3 DEF PlainTo
  <2>2. hash'[S] = Absorb(start'.hash, <<>>)
    BY <1>5, <1>8, AbsorbNothing
  <2>3. out' = <<>>
    BY <1>1, <1>2
  <2> QED
    BY <1>6, <1>8, <2>1, <2>2, <2>3 DEF Progress
<1>12. pc' = "final" => Len(cop'.data) = 0
  BY <1>1, <1>4
<1>13. Len(cop'.data) \in Nat
  BY <1>1, <1>4, CopTypes DEF CryptInv
<1>14. RunInv'
  <2>1. pc' = "final" => Progress(Len(cop.data))'
    BY <1>11, <1>12
  <2>2. at' = 0 /\ 0 \in 0..Len(cop'.data)
    BY <1>1, <1>2, <1>13
  <2> QED
    BY <1>1, <1>11, <2>1, <2>2 DEF RunInv
<1> QED
  BY <1>9, <1>10, <1>14 DEF CryptInv

\* What hash_n_crypt does to the session of the call.
LEMMA HashNCryptTypes ==
  ASSUME CryptInv, pc # "idle", NEW s, IsSeq(s), NEW b, DoHashNCrypt(s, b)
  PROVE  /\ DOMAIN hash' = Session /\ DOMAIN iv' = Session
         /\ \A x \in Session : x # S => hash'[x] = hash[x]
         /\ IsState(hash'[S])
         /\ HasHash => hash'[S] = Absorb(hash[S], Hashed(s, b))
         /\ HasCipher => iv'[S] = HashNCrypt(s).iv
<1>1. /\ S \in Session /\ DOMAIN hash = Session /\ DOMAIN iv = Session
      /\ IsState(hash[S])
  BY CopTypes DEF CryptInv, CryptTypeOK
<1>2. IsState(Absorb(hash[S], Hashed(s, b)))
  BY <1>1, HashedIsSeq, AbsorbIsState
<1> QED
  BY <1>1, <1>2 DEF DoHashNCrypt

\* A failing hash_n_crypt touches only the session of the request.
LEMMA HashNCryptFailsTypes ==
  ASSUME CryptInv, pc # "idle", NEW s, IsSeq(s), NEW b, HashNCryptFails(s, b)
  PROVE  /\ DOMAIN hash' = Session /\ DOMAIN iv' = Session
         /\ \A x \in Session : x # S => hash'[x] = hash[x]
         /\ IsState(hash'[S])
<1>1. /\ S \in Session /\ DOMAIN hash = Session /\ DOMAIN iv = Session
      /\ IsState(hash[S])
  BY CopTypes DEF CryptInv, CryptTypeOK
<1>2. IsState(Absorb(hash[S], Hashed(s, b))) /\ IsState(Spent)
  BY <1>1, HashedIsSeq, AbsorbIsState, StateKinds
<1>3. CASE hash' = [hash EXCEPT ![S] = Spent] /\ DOMAIN iv' = Session
  BY <1>1, <1>2, <1>3
<1>4. CASE /\ hash' = IF HasHash /\ cop.op = "encrypt"
                        THEN [hash EXCEPT ![S] = Absorb(@, Hashed(s, b))] ELSE hash
           /\ iv' = iv
  BY <1>1, <1>2, <1>4
<1> QED
  BY <1>1, <1>3, <1>4 DEF HashNCryptFails

\* A step inside a call that keeps the other sessions and moves on.
LEMMA InsideCall ==
  ASSUME CryptInv, InCall, InCall', UNCHANGED <<cop, start, uflags, stream>>,
         DOMAIN hash' = Session, DOMAIN iv' = Session,
         \A x \in Session : x # S => hash'[x] = hash[x],
         IsState(hash'[S])
  PROVE  /\ CryptTypeOK' /\ StreamInv'
         /\ S' = S /\ HasHash' = HasHash /\ HasCipher' = HasCipher
         /\ HashesItsData' = HashesItsData /\ Chained' = Chained /\ Finals' = Finals
         /\ \A k : PlainTo(k)' = PlainTo(k)
<1>1. pc' \in {"idle", "run", "zc", "std", "final", "reply"} /\ pc # "idle"
  BY DEF InCall
<1>2. /\ S' = S /\ HasHash' = HasHash /\ HasCipher' = HasCipher
      /\ HashesItsData' = HashesItsData /\ Finals' = Finals
      /\ Continued' = Continued
  BY DEF S, HasHash, HasCipher, HashesItsData, Continued, Finals
<1>3. Chained' = Chained
  BY DEF Chained
<1>4. \A k : PlainTo(k)' = PlainTo(k)
  BY <1>2, <1>3 DEF PlainTo
<1>5. CryptTypeOK'
  BY <1>1 DEF CryptInv, CryptTypeOK
<1>6. Hashes \subseteq Session
  BY CryptAssumption
<1>7. StreamInv'
  <2>1. \A s \in Hashes : stream'[s] # Spent /\ s # S => hash'[s] = stream'[s]
    BY <1>6 DEF CryptInv, StreamInv
  <2> QED
    BY <1>2, <2>1 DEF CryptInv, StreamInv
<1> QED
  BY <1>2, <1>3, <1>4, <1>5, <1>7

\* The session is left as it is.
LEMMA SameSession ==
  ASSUME CryptInv, InCall, UNCHANGED <<hash, iv>>
  PROVE  /\ DOMAIN hash' = Session /\ DOMAIN iv' = Session
         /\ \A x \in Session : x # S => hash'[x] = hash[x]
         /\ IsState(hash'[S])
BY CopTypes DEF CryptInv, CryptTypeOK, InCall

\* Preservation by ZcFallBack: nothing has been processed before the fall-back.
LEMMA FallBackStep ==
  ASSUME CryptInv, ZcFallBack
  PROVE  CryptInv'
<1>1. /\ pc = "zc" /\ pc' = "std" /\ InCall /\ InCall'
      /\ UNCHANGED <<hash, iv, cop, kiv, at, out, start, uflags, stream>>
  BY DEF ZcFallBack, InCall, session, request
<1>2. /\ CryptTypeOK' /\ StreamInv'
      /\ S' = S /\ HasHash' = HasHash /\ HasCipher' = HasCipher
      /\ HashesItsData' = HashesItsData /\ Chained' = Chained
      /\ PlainTo(0)' = PlainTo(0)
  BY <1>1, SameSession, InsideCall
<1>3. at = 0 /\ Progress(0)
  BY <1>1 DEF CryptInv, RunInv
<1>4. Progress(0)'
  BY <1>1, <1>2, <1>3 DEF Progress
<1>5. at' = 0 /\ 0 \in 0..Len(cop'.data)
  BY <1>1, <1>3, CopTypes DEF CryptInv
<1>6. RunInv'
  BY <1>1, <1>4, <1>5 DEF RunInv
<1> QED
  BY <1>2, <1>6 DEF CryptInv

\* Zero-copy: the whole buffer at once.
LEMMA ZcStep ==
  ASSUME CryptInv, ZcRun
  PROVE  CryptInv'
<1> DEFINE n == Len(cop.data)
<1>1. /\ pc = "zc" /\ pc' = "final" /\ InCall /\ InCall' /\ pc # "idle"
      /\ DoHashNCrypt(cop.data, cop.inplace)
      /\ out' = IF HasCipher THEN HashNCrypt(cop.data).out ELSE out
      /\ UNCHANGED <<cop, start, uflags, stream>>
  BY DEF ZcRun, InCall
<1>2. IsSeq(cop.data) /\ n \in Nat /\ cop.op \in {"encrypt", "decrypt"}
  BY <1>1, CopTypes DEF CryptInv
<1>3. /\ DOMAIN hash' = Session /\ DOMAIN iv' = Session
      /\ \A x \in Session : x # S => hash'[x] = hash[x]
      /\ IsState(hash'[S])
      /\ HasHash => hash'[S] = Absorb(hash[S], Hashed(cop.data, cop.inplace))
      /\ HasCipher => iv'[S] = HashNCrypt(cop.data).iv
  BY <1>1, <1>2, HashNCryptTypes
<1>4. /\ CryptTypeOK' /\ StreamInv'
      /\ S' = S /\ HasHash' = HasHash /\ HasCipher' = HasCipher
      /\ HashesItsData' = HashesItsData /\ Chained' = Chained
      /\ PlainTo(n)' = PlainTo(n)
  BY <1>1, <1>3, InsideCall
<1>5. Progress(0) /\ IsState(start.hash)
  BY <1>1 DEF CryptInv, RunInv, CryptTypeOK
<1>6. /\ Chained[0].iv = start.iv /\ PlainTo(0) = <<>>
      /\ Crypt(cop.op, start.iv, cop.data) = Chained[n]
      /\ Plain = PlainTo(n)
  BY <1>1, NoProgress, PlainIsAll DEF CryptInv
<1>7. HasCipher => HashNCrypt(cop.data) = Chained[n]
  BY <1>5, <1>6 DEF Progress, HashNCrypt
<1>8. HasHash /\ HashesItsData => hash[S] = start.hash
  BY <1>5, <1>6, AbsorbNothing DEF Progress
<1>9. HashesItsData => Hashed(cop.data, cop.inplace) = PlainTo(n)
  <2>1. Plain = IF cop.op = "decrypt" /\ HasCipher THEN Chained[n].out ELSE cop.data
    BY <1>6 DEF Plain
  <2> QED
    BY <1>2, <1>6, <1>7, <2>1 DEF Hashed, HashesItsData
<1>10. Progress(n)'
  BY <1>1, <1>3, <1>4, <1>7, <1>8, <1>9 DEF Progress
<1>11. n' = n
  BY <1>1
<1> HIDE DEF n
<1>12. Progress(Len(cop.data))'
  BY <1>1, <1>10, <1>11 DEF n
<1>13. RunInv'
  BY <1>1, <1>12 DEF RunInv
<1> QED
  BY <1>4, <1>13 DEF CryptInv

\* Preservation by ZcFails.
LEMMA ZcFailsStep ==
  ASSUME CryptInv, ZcFails
  PROVE  CryptInv'
<1>1. pc # "idle" /\ HashNCryptFails(cop.data, cop.inplace) /\ Fail("error")
  BY DEF ZcFails
<1>2. IsSeq(cop.data)
  BY <1>1, CopTypes DEF CryptInv
<1> QED
  BY <1>1, <1>2, HashNCryptFailsTypes, FailStep

\* Copying: one chunk more.
LEMMA StdStep ==
  ASSUME CryptInv, StdChunk
  PROVE  CryptInv'
<1>1. /\ pc = "std" /\ pc' = "std" /\ InCall /\ InCall' /\ pc # "idle"
      /\ at < Len(cop.data) /\ at' = at + 1
      /\ DoHashNCrypt(Chunk, TRUE)
      /\ out' = IF HasCipher THEN out \o HashNCrypt(Chunk).out ELSE out
      /\ UNCHANGED <<cop, start, uflags, stream>>
  BY DEF StdChunk, InCall
<1>2. /\ IsSeq(cop.data) /\ Len(cop.data) \in Nat /\ cop.op \in {"encrypt", "decrypt"}
      /\ at \in 0..Len(cop.data) /\ Progress(at) /\ IsState(start.hash)
  BY <1>1, CopTypes DEF CryptInv, RunInv, CryptTypeOK
<1>3. at \in 0..(Len(cop.data) - 1) /\ at + 1 \in 0..Len(cop.data)
  BY <1>1, <1>2
<1>4. IsSeq(Chunk)
  <2>1. Chunk \in Seq({cop.data[at + 1]})
    BY DEF Chunk
  <2> QED
    BY <2>1 DEF IsSeq
<1>5. /\ DOMAIN hash' = Session /\ DOMAIN iv' = Session
      /\ \A x \in Session : x # S => hash'[x] = hash[x]
      /\ IsState(hash'[S])
      /\ HasHash => hash'[S] = Absorb(hash[S], Hashed(Chunk, TRUE))
      /\ HasCipher => iv'[S] = HashNCrypt(Chunk).iv
  BY <1>1, <1>4, HashNCryptTypes
<1>6. /\ CryptTypeOK' /\ StreamInv'
      /\ S' = S /\ HasHash' = HasHash /\ HasCipher' = HasCipher
      /\ HashesItsData' = HashesItsData /\ Chained' = Chained
      /\ \A k : PlainTo(k)' = PlainTo(k)
  BY <1>1, <1>5, InsideCall
<1>7. HasCipher =>
        /\ Chained[at + 1].out = Chained[at].out \o HashNCrypt(Chunk).out
        /\ Chained[at + 1].iv = HashNCrypt(Chunk).iv
        /\ out = Chained[at].out
  <2> SUFFICES ASSUME HasCipher
               PROVE  /\ Chained[at + 1].out = Chained[at].out \o HashNCrypt(Chunk).out
                      /\ Chained[at + 1].iv = HashNCrypt(Chunk).iv
                      /\ out = Chained[at].out
    OBVIOUS
  <2>1. iv[S] = Chained[at].iv /\ out = Chained[at].out
    BY <1>2 DEF Progress
  <2>2. HashNCrypt(Chunk) = Crypt(cop.op, iv[S], <<cop.data[at + 1]>>)
    BY DEF HashNCrypt, Chunk
  <2>3. /\ Chained[at + 1].out
             = Chained[at].out \o Crypt(cop.op, iv[S], <<cop.data[at + 1]>>).out
        /\ Chained[at + 1].iv = Crypt(cop.op, iv[S], <<cop.data[at + 1]>>).iv
    <3> DEFINE s == cop.data  v == start.iv  op == cop.op  k == at  w == iv[S]
    <3>1. IsSeq(s) /\ k \in 0..(Len(s) - 1) /\ w = Chain(op, v, s)[k].iv
      BY <1>2, <1>3, <2>1 DEF Chained
    <3> HIDE DEF s, v, op, k, w
    <3>2. OneMore(Chain(op, v, s), k, Crypt(op, w, <<s[k + 1]>>))
      BY <3>1, OneChunk
    <3> QED
      BY <3>2 DEF OneMore, s, v, op, k, w, Chained
  <2> QED
    BY <2>1, <2>2, <2>3
<1>8. PlainTo(at + 1) = PlainTo(at) \o Hashed(Chunk, TRUE)
  <2>1. CASE cop.op = "decrypt" /\ HasCipher
    BY <1>7, <2>1 DEF PlainTo, Hashed
  <2>2. CASE ~(cop.op = "decrypt" /\ HasCipher)
    <3>1. Hashed(Chunk, TRUE) = <<cop.data[at + 1]>>
      BY <1>2, <2>2 DEF Hashed, Chunk
    <3>2. SubSeq(cop.data, 1, at + 1) = SubSeq(cop.data, 1, at) \o <<cop.data[at + 1]>>
      BY <1>2, <1>3, Prefixes
    <3> QED
      BY <2>2, <3>1, <3>2 DEF PlainTo
  <2> QED
    BY <2>1, <2>2
<1>9. Absorb(start.hash, PlainTo(at + 1))
        = Absorb(Absorb(start.hash, PlainTo(at)), Hashed(Chunk, TRUE))
  <2>1. IsSeq(PlainTo(at)) /\ IsSeq(Hashed(Chunk, TRUE))
    BY <1>1, <1>2, <1>4, PlainIsSeq, HashedIsSeq DEF CryptInv
  <2> QED
    <3> DEFINE h == start.hash  a == PlainTo(at)  b == Hashed(Chunk, TRUE)
    <3>1. IsState(h) /\ IsSeq(a) /\ IsSeq(b) /\ PlainTo(at + 1) = a \o b
      BY <1>2, <1>8, <2>1
    <3> HIDE DEF h, a, b
    <3>2. Absorb(Absorb(h, a), b) = Absorb(h, a \o b)
      BY <3>1, AbsorbTwice
    <3> QED
      BY <3>1, <3>2 DEF h, a, b
<1>10. /\ HasCipher => out' = Chained[at + 1].out /\ iv'[S] = Chained[at + 1].iv
       /\ HasHash /\ HashesItsData => hash'[S] = Absorb(start.hash, PlainTo(at + 1))
  BY <1>1, <1>2, <1>5, <1>7, <1>9 DEF Progress
<1>11. PlainTo(at)' = PlainTo(at + 1)
  <2>1. PlainTo(at)' = IF cop.op = "decrypt" /\ HasCipher THEN Chained[at + 1].out
                       ELSE SubSeq(cop.data, 1, at + 1)
    BY <1>1, <1>6 DEF PlainTo
  <2> QED
    BY <2>1 DEF PlainTo
<1>12. Progress(at)'
  BY <1>1, <1>6, <1>10, <1>11 DEF Progress
<1>13. at' \in 0..Len(cop'.data)
  BY <1>1, <1>3
<1>14. RunInv'
  BY <1>1, <1>12, <1>13 DEF RunInv
<1> QED
  BY <1>6, <1>14 DEF CryptInv

\* Preservation by StdFails.
LEMMA StdFailsStep ==
  ASSUME CryptInv, StdFails
  PROVE  CryptInv'
<1>1. pc = "std" /\ pc # "idle" /\ InCall
  BY DEF StdFails, InCall
<1>2. IsSeq(Chunk)
  <2>1. Chunk \in Seq({cop.data[at + 1]})
    BY DEF Chunk
  <2> QED
    BY <2>1 DEF IsSeq
<1>3. CASE UNCHANGED session /\ Fail("EFAULT")
  <2>1. UNCHANGED <<hash, iv>>
    BY <1>3 DEF session
  <2> QED
    BY <1>1, <1>3, <2>1, SameSession, FailStep
<1>4. CASE HashNCryptFails(Chunk, TRUE) /\ Fail("error")
  BY <1>1, <1>2, <1>4, HashNCryptFailsTypes, FailStep
<1>5. CASE DoHashNCrypt(Chunk, TRUE) /\ Fail("EFAULT")
  BY <1>1, <1>2, <1>5, HashNCryptTypes, FailStep
<1> QED
  BY <1>3, <1>4, <1>5 DEF StdFails

\* Preservation by StdDone: the last link of the chain is the whole result.
LEMMA StdDoneStep ==
  ASSUME CryptInv, StdDone
  PROVE  CryptInv'
<1>1. /\ pc = "std" /\ pc' = "final" /\ InCall /\ InCall' /\ at = Len(cop.data)
      /\ UNCHANGED <<hash, iv, cop, out, start, uflags, stream>>
  BY DEF StdDone, InCall, session, request
<1>2. /\ CryptTypeOK' /\ StreamInv'
      /\ S' = S /\ HasHash' = HasHash /\ HasCipher' = HasCipher
      /\ HashesItsData' = HashesItsData /\ Chained' = Chained
      /\ PlainTo(Len(cop.data))' = PlainTo(Len(cop.data))
  <2>1. /\ CryptTypeOK' /\ StreamInv'
        /\ S' = S /\ HasHash' = HasHash /\ HasCipher' = HasCipher
        /\ HashesItsData' = HashesItsData /\ Chained' = Chained
    BY <1>1, SameSession, InsideCall
  <2> QED
    BY <1>1, <2>1 DEF PlainTo
<1>3. Progress(Len(cop.data))
  BY <1>1 DEF CryptInv, RunInv
<1>4. Progress(Len(cop.data))'
  BY <1>1, <1>2, <1>3 DEF Progress
<1>5. RunInv'
  BY <1>1, <1>4 DEF RunInv
<1> QED
  BY <1>2, <1>5 DEF CryptInv

\* Preservation by RunFinal, which finishes the hash and fetches the IV.
LEMMA FinalStep ==
  ASSUME CryptInv, RunFinal
  PROVE  CryptInv'
<1>1. /\ pc = "final" /\ pc' = "reply" /\ InCall /\ InCall' /\ pc # "idle"
      /\ kiv' = IF HasCipher /\ cop.withiv THEN iv[S] ELSE kiv
      /\ digest' = IF Finals THEN hash[S] ELSE NoDigest
      /\ hash' = IF Finals THEN [hash EXCEPT ![S] = Spent] ELSE hash
      /\ UNCHANGED <<iv, cop, out, start, uflags, stream>>
  BY DEF RunFinal, InCall
<1>2. S \in Session /\ DOMAIN hash = Session /\ DOMAIN iv = Session /\ IsState(hash[S])
  BY <1>1, CopTypes DEF CryptInv, CryptTypeOK
<1>3. /\ DOMAIN hash' = Session /\ DOMAIN iv' = Session
      /\ \A x \in Session : x # S => hash'[x] = hash[x]
      /\ IsState(hash'[S]) /\ (~Finals => hash'[S] = hash[S])
  BY <1>1, <1>2, StateKinds
<1>4. /\ CryptTypeOK' /\ StreamInv'
      /\ S' = S /\ HasHash' = HasHash /\ HasCipher' = HasCipher
      /\ HashesItsData' = HashesItsData /\ Chained' = Chained /\ Finals' = Finals
  BY <1>1, <1>3, InsideCall
<1>5. PlainTo(Len(cop.data))' = PlainTo(Len(cop.data))
  BY <1>1, <1>4 DEF PlainTo
<1>6. Progress(Len(cop.data))
  BY <1>1 DEF CryptInv, RunInv
<1>7. HasCipher => /\ out' = Chained[Len(cop.data)].out
                   /\ cop.withiv => kiv' = Chained[Len(cop.data)].iv
  BY <1>1, <1>6 DEF Progress
<1>8. HasHash /\ HashesItsData =>
        Absorb(start.hash, PlainTo(Len(cop.data))) = IF Finals THEN digest' ELSE hash'[S]
  BY <1>1, <1>3, <1>6 DEF Progress
<1>9. IF Finals THEN IsState(digest') ELSE digest' = NoDigest
  BY <1>1, <1>2
<1>10. RunInv'
  BY <1>1, <1>4, <1>5, <1>7, <1>8, <1>9 DEF RunInv
<1> QED
  BY <1>4, <1>10 DEF CryptInv

\* Preservation by RunFinalFails.
LEMMA FinalFailsStep ==
  ASSUME CryptInv, RunFinalFails
  PROVE  CryptInv'
<1>1. pc # "idle" /\ hash' = [hash EXCEPT ![S] = Spent] /\ iv' = iv /\ Fail("error")
  BY DEF RunFinalFails
<1>2. S \in Session /\ DOMAIN hash = Session /\ DOMAIN iv = Session
  BY <1>1, CopTypes DEF CryptInv, CryptTypeOK
<1>3. /\ DOMAIN hash' = Session /\ DOMAIN iv' = Session /\ hash'[S] = Spent
      /\ \A s \in Session : s # S => hash'[s] = hash[s]
  BY <1>1, <1>2
<1> QED
  BY <1>1, <1>3, FailStep, StateKinds

\* Preservation by ReplyError and ReplyFails.
LEMMA ReplyFailsStep ==
  ASSUME CryptInv, ReplyError \/ ReplyFails
  PROVE  CryptInv'
<1>1. pc # "idle" /\ InCall /\ UNCHANGED <<hash, iv>>
  BY DEF ReplyError, ReplyFails, session, InCall
<1>2. CASE Fail(ret)
  BY <1>1, <1>2, SameSession, FailStep
<1>3. CASE Fail("EFAULT")
  BY <1>1, <1>3, SameSession, FailStep
<1> QED
  BY <1>2, <1>3 DEF ReplyError, ReplyFails

\* The application extends its stream by what the session has absorbed.
LEMMA ReplyStep ==
  ASSUME CryptInv, Reply
  PROVE  CryptInv'
<1> DEFINE x == IF digest # NoDigest \/ ~HashesItsData THEN Spent
                ELSE Absorb(Continued, Plain)
<1>1. /\ pc = "reply" /\ InCall /\ pc # "idle" /\ pc' = "idle" /\ at' = 0 /\ out' = <<>>
      /\ uflags' = cop.flags /\ UNCHANGED <<hash, iv>>
      /\ stream' = [stream EXCEPT ![S] = x]
  BY DEF Reply, End, session, InCall
<1>2. ~InCall'
  BY <1>1 DEF InCall
<1>3. /\ S \in Session /\ Hashes \subseteq Session /\ DOMAIN stream = Session
      /\ cop \in Cop
  BY <1>1, CopTypes, CryptAssumption DEF CryptInv, CryptTypeOK
<1>4. IsState(x)
  <2>1. IsState(Continued)
    BY <1>3, StateKinds DEF Continued, CryptInv, CryptTypeOK
  <2>2. IsSeq(Plain)
    BY <1>1, PlainIsAll DEF CryptInv
  <2>3. IsState(Absorb(Continued, Plain))
    BY <2>1, <2>2, AbsorbIsState
  <2> QED
    BY <2>3, StateKinds
<1>5. HasHash /\ x # Spent => hash[S] = x
  <2> SUFFICES ASSUME HasHash, x # Spent PROVE hash[S] = x
    OBVIOUS
  <2>1. digest = NoDigest /\ HashesItsData /\ x = Absorb(Continued, Plain)
    OBVIOUS
  <2>2. Continued # Spent
    BY <2>1 DEF Absorb
  <2>3. start.hash = Continued
    BY <1>1, <2>2 DEF CryptInv, StreamInv
  <2>4. ~Finals
    <3>1. ~IsState(NoDigest)
      BY StateKinds DEF IsState
    <3> QED
      BY <1>1, <2>1, <3>1 DEF CryptInv, RunInv
  <2>5. Absorb(start.hash, PlainTo(Len(cop.data))) = hash[S]
    BY <1>1, <2>1, <2>4 DEF CryptInv, RunInv
  <2>6. Plain = PlainTo(Len(cop.data))
    BY <1>1, PlainIsAll DEF CryptInv
  <2> QED
    BY <2>1, <2>3, <2>5, <2>6
<1> HIDE DEF x
<1>6. /\ DOMAIN stream' = Session /\ stream'[S] = x
      /\ \A s \in Session : s # S => stream'[s] = stream[s]
  BY <1>1, <1>3
<1>7. \A s \in Session : IsState(hash'[s]) /\ IsState(stream'[s])
  BY <1>1, <1>4, <1>6 DEF CryptInv, CryptTypeOK
<1>8. CryptTypeOK'
  <2>1. uflags' \in SUBSET FlagName
    BY <1>1, <1>3 DEF Cop
  <2> QED
    BY <1>1, <1>2, <1>6, <1>7, <2>1 DEF CryptInv, CryptTypeOK
<1>9. \A s \in Hashes : stream'[s] # Spent => hash'[s] = stream'[s]
  <2> SUFFICES ASSUME NEW s \in Hashes, stream'[s] # Spent PROVE hash'[s] = stream'[s]
    OBVIOUS
  <2>1. CASE s = S
    BY <1>1, <1>5, <1>6, <2>1 DEF HasHash
  <2>2. CASE s # S
    BY <1>1, <1>3, <1>6, <2>2 DEF CryptInv, StreamInv
  <2> QED
    BY <2>1, <2>2
<1>10. StreamInv'
  BY <1>2, <1>9 DEF StreamInv
<1> QED
  BY <1>1, <1>8, <1>10 DEF CryptInv, RunInv

\* CIOCCPHASH.
LEMMA CopyHashStep ==
  ASSUME CryptInv, NEW s \in Session, NEW t \in Session,
         CopyHashState(s, t) \/ CopyHashFails(s, t)
  PROVE  CryptInv'
<1>1. /\ pc = "idle" /\ pc' = "idle" /\ s \in Hashes /\ t \in Hashes
      /\ UNCHANGED <<iv, at, out, uflags, cop, start>>
  BY DEF CopyHashState, CopyHashFails, request
<1>2. ~InCall /\ ~InCall'
  BY <1>1 DEF InCall
<1>3. /\ DOMAIN hash = Session /\ DOMAIN stream = Session /\ DOMAIN iv = Session
      /\ \A u \in Session : IsState(hash[u]) /\ IsState(stream[u])
      /\ \A u \in Hashes : stream[u] # Spent => hash[u] = stream[u]
  BY <1>2 DEF CryptInv, CryptTypeOK, StreamInv
<1>4. PICK h, x : /\ hash' = [hash EXCEPT ![t] = h] /\ stream' = [stream EXCEPT ![t] = x]
                  /\ IsState(h) /\ IsState(x) /\ (x # Spent => h = x)
  <2>1. CASE CopyHashState(s, t)
    BY <1>1, <1>3, <2>1 DEF CopyHashState
  <2>2. CASE CopyHashFails(s, t)
    BY <1>1, <1>3, <2>2, StateKinds DEF CopyHashFails
  <2> QED
    BY <2>1, <2>2
<1>5. /\ DOMAIN hash' = Session /\ DOMAIN stream' = Session
      /\ hash'[t] = h /\ stream'[t] = x
      /\ \A u \in Session : u # t => hash'[u] = hash[u] /\ stream'[u] = stream[u]
  BY <1>3, <1>4
<1>6. \A u \in Session : IsState(hash'[u]) /\ IsState(stream'[u])
  BY <1>3, <1>4, <1>5
<1>7. CryptTypeOK'
  BY <1>1, <1>2, <1>3, <1>5, <1>6 DEF CryptInv, CryptTypeOK
<1>8. Hashes \subseteq Session
  BY CryptAssumption
<1>9. \A u \in Hashes : stream'[u] # Spent => hash'[u] = stream'[u]
  BY <1>3, <1>4, <1>5, <1>8
<1>10. StreamInv'
  BY <1>2, <1>9 DEF StreamInv
<1> QED
  BY <1>1, <1>7, <1>10 DEF CryptInv, RunInv

\* The invariant is inductive: one case per action.
LEMMA CryptStep == CryptInv /\ [Next]_vars => CryptInv'
<1> SUFFICES ASSUME CryptInv, [Next]_vars PROVE CryptInv'
  OBVIOUS
<1>1. CASE UNCHANGED vars
  <2>1. UNCHANGED <<hash, iv, cop, kiv, at, out, digest, start, pc, uflags, stream>>
    BY <1>1 DEF vars, session, request
  <2>2. /\ InCall' = InCall /\ S' = S /\ HasHash' = HasHash /\ HasCipher' = HasCipher
        /\ HashesItsData' = HashesItsData /\ Finals' = Finals /\ Continued' = Continued
    BY <2>1 DEF InCall, S, HasHash, HasCipher, HashesItsData, Finals, Continued
  <2>3. CryptTypeOK'
    BY <2>1, <2>2 DEF CryptInv, CryptTypeOK
  <2>4. StreamInv'
    BY <2>1, <2>2 DEF CryptInv, StreamInv
  <2>5. Chained' = Chained
    BY <2>1 DEF Chained
  <2>6. /\ PlainTo(0)' = PlainTo(0) /\ PlainTo(at)' = PlainTo(at)
        /\ PlainTo(Len(cop.data))' = PlainTo(Len(cop.data))
    BY <2>1, <2>2, <2>5 DEF PlainTo
  <2>7. /\ Progress(0)' = Progress(0) /\ Progress(at)' = Progress(at)
        /\ Progress(Len(cop.data))' = Progress(Len(cop.data))
    BY <2>1, <2>2, <2>5, <2>6 DEF Progress
  <2>8. RunInv'
    BY <2>1, <2>2, <2>5, <2>6, <2>7 DEF CryptInv, RunInv
  <2> QED
    BY <2>3, <2>4, <2>8 DEF CryptInv
<1> QED
  BY <1>1, CallStep, ResetFailsStep, RefuseStep, StartStep, FallBackStep, ZcStep, ZcFailsStep,
     StdStep, StdFailsStep, StdDoneStep, FinalStep, FinalFailsStep, ReplyFailsStep, ReplyStep,
     CopyHashStep
  DEF Next

\* The invariant holds in every reachable state.
LEMMA CryptInvariance == Spec => []CryptInv
BY CryptInit, CryptStep, PTL DEF Spec

-----------------------------------------------------------------------------
(* The theorems.                                                           *)

\* For buffers of any number of pages the zero-copy path, the copying path
\* and the fall-back from one to the other give the same output, the same IV
\* and the same hash.
THEOREM PathsAgree == Spec => []ResultIsPathIndependent
<1>1. ASSUME CryptInv PROVE ResultIsPathIndependent
  <2> SUFFICES ASSUME pc = "reply"
               PROVE  LET c == Crypt(cop.op, start.iv, cop.data)
                          h == Absorb(start.hash, Plain)
                      IN  /\ HasCipher => out = c.out /\ (cop.withiv => kiv = c.iv)
                          /\ HasHash /\ HashesItsData =>
                               h = IF Finals THEN digest ELSE hash[S]
    BY DEF ResultIsPathIndependent
  <2>1. /\ Plain = PlainTo(Len(cop.data))
        /\ Crypt(cop.op, start.iv, cop.data) = Chained[Len(cop.data)]
    BY <1>1, PlainIsAll DEF CryptInv
  <2> QED
    BY <1>1, <2>1 DEF CryptInv, RunInv
<1> QED
  BY <1>1, CryptInvariance, PTL

\* Whatever calls, copies of hash states and failures went before, a digest
\* covers the whole stream it ends and nothing else.
THEOREM DigestsAreOfStreams == Spec => []DigestsCoverTheStream
<1>1. ASSUME CryptInv PROVE DigestsCoverTheStream
  <2> SUFFICES ASSUME pc = "reply", digest # NoDigest, HashesItsData,
                      Absorb(Continued, Plain) # Spent
               PROVE  digest = Absorb(Continued, Plain)
    BY DEF DigestsCoverTheStream
  <2>1. Finals /\ HasHash /\ InCall
    BY <1>1 DEF CryptInv, RunInv, Finals, InCall
  <2>2. Continued # Spent
    BY DEF Absorb
  <2>3. start.hash = Continued
    BY <1>1, <2>1, <2>2 DEF CryptInv, StreamInv
  <2>4. Plain = PlainTo(Len(cop.data))
    BY <1>1, PlainIsAll DEF CryptInv
  <2> QED
    BY <1>1, <2>1, <2>3, <2>4 DEF CryptInv, RunInv
<1> QED
  BY <1>1, CryptInvariance, PTL
=============================================================================
