---------------------------- MODULE AuthEncProofs ----------------------------
(***************************************************************************)
(* Proofs about AuthEnc, for any number of threads, any kinds of session,  *)
(* block sizes, tag lengths and texts of any length.                       *)
(***************************************************************************)
EXTENDS AuthEnc, SequenceTheorems, TLAPS

-----------------------------------------------------------------------------
(* Records, in terms of the session k they are made with.                  *)

\* A sequence, of whatever bytes.
IsSeq(x) == \E T : x \in Seq(T)

\* How many bytes pad_record adds to n bytes, and what it makes of s.
PadTo(b, n) == b - (n % b)
Padded(b, s) ==
  IF b > 1 THEN s \o [i \in 1..PadTo(b, Len(s)) |-> <<"num", PadTo(b, Len(s)) - 1>>] ELSE s

\* A TLS record before it is padded.
Tagged(k, r) ==
  r.data \o (IF k.digestsize > 0 THEN Mac(r.auth_len, r.data, r.tag_len) ELSE <<>>)

ModeOf(k, f) ==
  IF "SRTP" \in f THEN "srtp"
  ELSE IF "TLS" \in f /\ ~k.aead THEN "tls"
  ELSE IF k.aead THEN "aead" ELSE "none"

\* A tag of a hash, or of a session without one, which makes none.
HashTag(k, n) == k.digestsize > 0 => n \in 1..k.digestsize

\* r is a record that a session k can have made.  Of a tag that is longer than
\* the digest, nothing is known.
Made(k, r) ==
  /\ IsSeq(r.data) /\ r.auth_len \in Nat /\ r.head \in Nat /\ r.tag_len \in Nat
  /\ k.digestsize > 0 /\ ModeOf(k, r.flags) = "tls" => r.tag_len > 0
  /\ ModeOf(k, r.flags) # "none"
  /\ ModeOf(k, r.flags) = "srtp" =>
       /\ k.stream /\ ~k.aead /\ r.bytes = r.data
       /\ r.head <= MaxDiff /\ r.head < r.auth_len
  /\ ModeOf(k, r.flags) = "tls" =>
       /\ r.auth_len <= PageSize
       /\ HashTag(k, r.tag_len) => r.bytes = Padded(k.blocksize, Tagged(k, r))
  /\ ModeOf(k, r.flags) = "aead" =>
       /\ r.auth_len <= PageSize /\ r.bytes = r.data \o Mac(r.auth_len, r.data, r.tag_len)

\* What fill_kcaop_from_caop left in a request.
Filled(k, az, c) ==
  c.op \in {"encrypt", "decrypt"} =>
    /\ c.tag_len \in Nat /\ c.auth_len \in Nat /\ c.head \in Nat /\ IsSeq(c.rec.data)
    /\ k.digestsize > 0 => c.tag_len > 0
    /\ c.tag_len = 0 /\ k.aead => az = 0
    /\ c.op = "decrypt" => Made(k, c.rec) /\ c.flags = c.rec.flags
                           /\ c.dst_len = Len(c.rec.bytes)
    /\ c.op = "encrypt" =>
         LET n == Len(c.rec.data) + c.tag_len
         IN  n + k.blocksize < IntMod \div 2 =>
               c.dst_len = IF "TLS" \in c.flags THEN n + PadTo(k.blocksize, n) ELSE n

\* The invariant.  It says nothing of sessions without a cipher, which are
\* refused, and that includes the one that was freed.
AuthInv ==
  /\ ses \in Kind \cup {NoSession} /\ authsize \in Nat /\ DOMAIN kcaop = Thread
  /\ ses.init =>
       /\ authsize <= ses.maxtag
       /\ wire = NoRecord \/ Made(ses, wire)
       /\ \A t \in Thread : Filled(ses, authsize, kcaop[t])

\* What the properties say of the last call.
Authentic(k, l) ==
  l.call.op = "decrypt" /\ l.ret = "ok" /\ (k.digestsize > 0 \/ l.mode = "aead") =>
    /\ l.intact
    /\ SameAuth(l.call)
    /\ l.mode # "srtp" \/ l.same =>
         l.data = l.call.rec.data /\ l.len = Len(l.call.rec.data)
Opened(az, l) ==
  /\ l.call.op = "decrypt" /\ l.intact /\ l.same
  /\ SameAuth(l.call) /\ l.call.tag_len = l.call.rec.tag_len
  => \/ l.ret = "ok" /\ l.data = l.call.rec.data
     \/ l.mode = "srtp" /\ l.call.tag_len > Len(l.call.rec.bytes)
     \/ l.mode = "aead" /\ l.call.tag_len > az
     \/ l.mode # "aead" /\ l.call.rec.bytes = <<>>
Verified(l) == l.mode = "srtp" /\ l.ret \in {"EINVAL", "EBADMSG"} => ~l.decrypted
Good(k, az, l) ==
  /\ Sound(k, l.call) => l.ret # "overrun" /\ Authentic(k, l) /\ Opened(az, l)
  /\ Verified(l)

-----------------------------------------------------------------------------
(* Lemmas about kinds of session and about sequences.                      *)

\* The sizes of the session are numbers, and an initialised one has a block size.
LEMMA KindFacts ==
  ASSUME AuthInv
  PROVE  /\ ses.blocksize \in Nat /\ ses.digestsize \in 0..MaxResult
         /\ ses.digestsize \in Nat /\ ses.maxtag \in Nat
         /\ ses.init => ses \in Kind /\ ses.blocksize > 0
<1>1. CASE ses = NoSession
  BY <1>1, AuthEncAssumption DEF NoSession
<1>2. CASE ses \in Kind
  BY <1>2, AuthEncAssumption
<1> QED
  BY <1>1, <1>2 DEF AuthInv

\* What is put together from two sequences.
LEMMA Joined ==
  ASSUME NEW a, NEW b, IsSeq(a), IsSeq(b)
  PROVE  /\ Len(a) \in Nat /\ Len(b) \in Nat
         /\ IsSeq(a \o b) /\ Len(a \o b) = Len(a) + Len(b)
         /\ \A i \in 1..(Len(a) + Len(b)) :
              (a \o b)[i] = IF i <= Len(a) THEN a[i] ELSE b[i - Len(a)]
         /\ SubSeq(a \o b, 1, Len(a)) = a
<1>1. PICK T : a \in Seq(T)
  BY DEF IsSeq
<1>2. PICK U : b \in Seq(U)
  BY DEF IsSeq
<1> DEFINE W == T \cup U
<1>3. a \in Seq(W) /\ b \in Seq(W)
  BY <1>1, <1>2
<1> HIDE DEF W
<1>4. /\ a \o b \in Seq(W) /\ Len(a \o b) = Len(a) + Len(b)
      /\ \A i \in 1..(Len(a) + Len(b)) :
           (a \o b)[i] = IF i <= Len(a) THEN a[i] ELSE b[i - Len(a)]
  BY <1>3, ConcatProperties
<1>5. Len(a) \in Nat /\ Len(b) \in Nat
  BY <1>3
<1>6. SubSeq(a \o b, 1, Len(a)) = a
  <2> DEFINE c == a \o b
  <2>1. c \in Seq(W) /\ Len(c) = Len(a) + Len(b) /\ \A i \in 1..Len(a) : c[i] = a[i]
    BY <1>4, <1>5
  <2> HIDE DEF c
  <2>2. \A i \in 1..Len(a) : c[i] \in W
    BY <1>3, <2>1
  <2>3. /\ SubSeq(c, 1, Len(a)) \in Seq(W) /\ Len(SubSeq(c, 1, Len(a))) = Len(a)
        /\ \A i \in 1..Len(a) : SubSeq(c, 1, Len(a))[i] = c[i]
    BY <1>5, <2>1, <2>2
  <2>4. SubSeq(c, 1, Len(a)) = a
    BY <1>3, <2>1, <2>3, SeqEqual
  <2> QED
    BY <2>4 DEF c
<1> QED
  BY <1>4, <1>5, <1>6 DEF IsSeq

\* A MAC of n bytes is a sequence of n bytes, each naming what it authenticates.
LEMMA MacIsSeq ==
  ASSUME NEW a, NEW s, NEW n \in Nat
  PROVE  /\ IsSeq(Mac(a, s, n)) /\ Len(Mac(a, s, n)) = n
         /\ \A i \in 1..n : Mac(a, s, n)[i] = <<"mac", a, s, i>>
<1> DEFINE m == Mac(a, s, n)  T == {<<"mac", a, s, i>> : i \in 1..n}
<1>1. m \in Seq(T) /\ Len(m) = n
  BY DEF Mac
<1>2. \A i \in 1..n : m[i] = <<"mac", a, s, i>>
  BY DEF Mac
<1> HIDE DEF m, T
<1> QED
  BY <1>1, <1>2 DEF IsSeq, m

\* A pad of n equal bytes is a sequence of length n.
LEMMA PadIsSeq ==
  ASSUME NEW n \in Nat, NEW x
  PROVE  /\ IsSeq([i \in 1..n |-> x]) /\ Len([i \in 1..n |-> x]) = n
<1>1. [i \in 1..n |-> x] \in Seq({x}) /\ Len([i \in 1..n |-> x]) = n
  OBVIOUS
<1> QED
  BY <1>1 DEF IsSeq

\* The empty text is a sequence.
LEMMA EmptyIsSeq == IsSeq(<<>>) /\ Len(<<>>) = 0
<1>1. <<>> \in Seq({})
  OBVIOUS
<1> QED
  BY <1>1 DEF IsSeq

\* Appending nothing changes nothing.
LEMMA JoinEmpty ==
  ASSUME NEW a, IsSeq(a)
  PROVE  a \o <<>> = a /\ Len(a) \in Nat
<1>1. PICK T : a \in Seq(T)
  BY DEF IsSeq
<1> QED
  BY <1>1, ConcatEmptySeq

\* The pad fills a block, and rounding up is monotonic.
LEMMA PadLength ==
  ASSUME NEW b \in Nat, b > 0, NEW n \in Nat
  PROVE  PadTo(b, n) \in 1..b
BY DEF PadTo

\* A longer record is not shorter once it is padded: the room that is checked for
\* the longest tag is enough for a truncated one.
LEMMA PadMonotonic ==
  ASSUME NEW b \in Nat, b > 0, NEW n \in Nat, NEW m \in Nat, n <= m
  PROVE  n + PadTo(b, n) <= m + PadTo(b, m)
<1> DEFINE p == n \div b  q == m \div b
<1>1. /\ p \in Nat /\ q \in Nat
      /\ n = b * p + (n % b) /\ m = b * q + (m % b)
      /\ n % b \in 0..(b - 1) /\ m % b \in 0..(b - 1)
  OBVIOUS
<1> HIDE DEF p, q
<1>2. p <= q
  <2> SUFFICES ASSUME q + 1 <= p PROVE FALSE
    BY <1>1
  <2>1. b * (q + 1) <= b * p
    BY <1>1
  <2>2. b * (q + 1) = b * q + b /\ b * p \in Nat /\ b * q \in Nat
    BY <1>1
  <2> QED
    BY <1>1, <2>1, <2>2
<1>3. b * p <= b * q /\ b * p \in Nat /\ b * q \in Nat
  BY <1>1, <1>2
<1>4. n + PadTo(b, n) = b * p + b /\ m + PadTo(b, m) = b * q + b
  BY <1>1, <1>3 DEF PadTo
<1> QED
  BY <1>3, <1>4

-----------------------------------------------------------------------------
(* Opening a TLS record y: a text d, t bytes of MAC, p bytes of pad.       *)

Layout(y, a, d, t, p) ==
  /\ IsSeq(y) /\ IsSeq(d) /\ Len(y) = Len(d) + t + p
  /\ \A i \in 1..Len(d) : y[i] = d[i]
  /\ \A i \in 1..t : y[Len(d) + i] = <<"mac", a, d, i>>
  /\ \A i \in (Len(d) + t + 1)..(Len(d) + t + p) : y[i] = <<"num", p - 1>>

\* The checks of tls_auth_n_crypt on a decrypted record s, for a tag of n bytes.
Passes(s, a, n, pad) ==
  LET m == Len(s) - pad - n
  IN  n <= Len(s) - pad /\ SubSeq(s, m + 1, Len(s) - pad) = Mac(a, SubSeq(s, 1, m), n)

\* An altered record is the same but for one byte, which is not of a MAC.
LEMMA AlteredByte ==
  ASSUME NEW y, IsSeq(y), NEW s \in Altered(y)
  PROVE  \E i \in 1..Len(y), v \in Nat :
           /\ IsSeq(s) /\ Len(s) = Len(y)
           /\ s[i] = <<"num", v>> /\ s[i] # y[i]
           /\ \A j \in 1..Len(y) : j # i => s[j] = y[j]
<1>1. PICK T : y \in Seq(T)
  BY DEF IsSeq
<1>2. PICK i \in DOMAIN y, b \in Damage : s = [y EXCEPT ![i] = b] /\ s # y
  BY DEF Altered
<1>3. PICK v \in Nat : b = <<"num", v>>
  BY DEF Damage
<1>4. DOMAIN y = 1..Len(y) /\ Len(y) \in Nat /\ i \in 1..Len(y)
  BY <1>1
<1> DEFINE U == T \cup {b}
<1>5. y \in Seq(U) /\ b \in U
  BY <1>1
<1> HIDE DEF U
<1>6. /\ s \in Seq(U) /\ Len(s) = Len(y)
      /\ \A j \in 1..Len(y) : s[j] = IF j = i THEN b ELSE y[j]
  BY <1>2, <1>4, <1>5, ExceptSeq
<1>7. s[i] # y[i]
  <2> SUFFICES ASSUME s[i] = y[i] PROVE FALSE
    OBVIOUS
  <2>1. \A j \in 1..Len(s) : s[j] = y[j]
    BY <1>6
  <2>2. s = y
    BY <1>5, <1>6, <2>1, SeqEqual
  <2> QED
    BY <1>2, <2>2
<1>8. IsSeq(s)
  BY <1>6 DEF IsSeq
<1>9. s[i] = <<"num", v>>
  BY <1>3, <1>4, <1>6
<1> QED
  BY <1>4, <1>6, <1>7, <1>8, <1>9

\* The bytes that are compared with the tag.
TagBytes(s, a, n, pad) ==
  /\ Len(s) - pad - n \in Nat
  /\ \A i \in 1..n : s[Len(s) - pad - n + i]
                      = <<"mac", a, SubSeq(s, 1, Len(s) - pad - n), i>>

\* A record that passes the comparison holds the bytes of the computed MAC.
LEMMA PassedBytes ==
  ASSUME NEW s, IsSeq(s), NEW a, NEW n \in Nat, NEW pad \in 0..Len(s), Passes(s, a, n, pad)
  PROVE  TagBytes(s, a, n, pad)
<1> DEFINE e == Len(s) - pad  m == e - n  x == SubSeq(s, 1, m)
<1>1. PICK T : s \in Seq(T)
  BY DEF IsSeq
<1>2. Len(s) \in Nat /\ e \in Nat /\ e <= Len(s)
  BY <1>1
<1>3. m \in Nat /\ SubSeq(s, m + 1, e) = Mac(a, x, n)
  BY <1>2 DEF Passes
<1>4. \A i \in 1..n : Mac(a, x, n)[i] = <<"mac", a, x, i>>
  BY MacIsSeq
<1> HIDE DEF x
<1>5. ASSUME NEW i \in 1..n PROVE s[m + i] = <<"mac", a, x, i>>
  <2> HIDE DEF e
  <2>1. i \in 1..(e - (m + 1) + 1) /\ m + 1 + i - 1 = m + i
    BY <1>2, <1>3
  <2>2. SubSeq(s, m + 1, e)[i] = s[m + 1 + i - 1]
    BY <1>1, <1>2, <1>3, <2>1
  <2> QED
    BY <1>3, <1>4, <2>1, <2>2
<1> QED
  BY <1>3, <1>5 DEF x, TagBytes

\* The pad that verify_tls_record_pad finds.
LEMMA FoundPad ==
  ASSUME NEW s, NEW v \in Nat, Len(s) \in Nat, s[Len(s)] = <<"num", v>>,
         VerifyTlsRecordPad(s) # 0
  PROVE  /\ VerifyTlsRecordPad(s) = v + 1 /\ v + 1 <= Len(s)
         /\ \A i \in 1..v : s[Len(s) - i] = <<"num", v>>
<1>1. s[Len(s)][2] = v
  OBVIOUS
<1> QED
  BY <1>1 DEF VerifyTlsRecordPad

\* The heart of the TLS case: whatever byte of the text, the tag or the pad was
\* changed, tls_auth_n_crypt does not accept the record.
LEMMA AlteredIsRefused ==
  ASSUME NEW y, NEW a, NEW d, NEW t \in Nat \ {0}, NEW p \in Nat, Layout(y, a, d, t, p),
         NEW s \in Altered(y), NEW ca, NEW n \in Nat \ {0}, NEW pad,
         pad = IF p > 0 THEN VerifyTlsRecordPad(s) ELSE 0,
         p > 0 => pad # 0,
         Passes(s, ca, n, pad)
  PROVE  FALSE
<1> DEFINE l == Len(d)  L == Len(y)
<1>1. /\ l \in Nat /\ L = l + t + p /\ IsSeq(y) /\ IsSeq(d)
      /\ \A i \in 1..l : y[i] = d[i]
      /\ \A i \in 1..t : y[l + i] = <<"mac", a, d, i>>
      /\ \A i \in (l + t + 1)..(l + t + p) : y[i] = <<"num", p - 1>>
  BY JoinEmpty DEF Layout
<1>2. PICK i \in 1..L, v \in Nat :
        /\ IsSeq(s) /\ Len(s) = L
        /\ s[i] = <<"num", v>> /\ s[i] # y[i]
        /\ \A j \in 1..L : j # i => s[j] = y[j]
  BY <1>1, AlteredByte
<1> HIDE DEF l, L
<1>3. p > 0 => \E w \in Nat : s[L] = <<"num", w>>
  <2> SUFFICES ASSUME p > 0 PROVE \E w \in Nat : s[L] = <<"num", w>>
    OBVIOUS
  <2>1. CASE i = L
    BY <1>2, <2>1
  <2>2. CASE i # L
    <3>1. L \in (l + t + 1)..(l + t + p) /\ L \in 1..L /\ p - 1 \in Nat
      BY <1>1
    <3>2. s[L] = <<"num", p - 1>>
      BY <1>1, <1>2, <2>2, <3>1
    <3> QED
      BY <3>1, <3>2
  <2> QED
    BY <2>1, <2>2
<1>4. ASSUME p > 0
      PROVE  \E w \in Nat : /\ pad = w + 1 /\ w + 1 <= L /\ s[L] = <<"num", w>>
                            /\ \A j \in 1..w : s[L - j] = <<"num", w>>
  <2>1. PICK w \in Nat : s[L] = <<"num", w>>
    BY <1>3, <1>4
  <2>2. Len(s) = L /\ L \in Nat /\ VerifyTlsRecordPad(s) # 0 /\ pad = VerifyTlsRecordPad(s)
    BY <1>1, <1>2, <1>4
  <2>3. s[Len(s)] = <<"num", w>> /\ Len(s) \in Nat
    BY <2>1, <2>2
  <2>4. /\ VerifyTlsRecordPad(s) = w + 1 /\ w + 1 <= Len(s)
        /\ \A j \in 1..w : s[Len(s) - j] = <<"num", w>>
    BY <2>2, <2>3, FoundPad
  <2> QED
    BY <2>1, <2>2, <2>4
<1>5. pad \in 0..L
  <2>1. CASE p > 0
    BY <1>1, <1>4, <2>1
  <2>2. CASE ~(p > 0)
    BY <1>1, <2>2
  <2> QED
    BY <2>1, <2>2
<1> DEFINE e == L - pad  m == e - n  x == SubSeq(s, 1, m)
<1>6. m \in Nat /\ \A j \in 1..n : s[m + j] = <<"mac", ca, x, j>>
  <2>1. pad \in 0..Len(s) /\ n \in Nat /\ IsSeq(s)
    BY <1>2, <1>5
  <2>2. TagBytes(s, ca, n, pad)
    BY <2>1, PassedBytes
  <2>3. Len(s) = L
    BY <1>2
  <2> QED
    BY <2>2, <2>3 DEF TagBytes
<1> HIDE DEF x
<1>7. e \in Nat /\ e <= L /\ m + n = e
  <2>1. n \in Nat /\ L \in Nat /\ pad \in Nat /\ L - pad \in Nat /\ L - pad <= L
    BY <1>1, <1>5
  <2> QED
    BY <2>1
<1>8. s[e] = <<"mac", ca, x, n>> /\ e \in 1..L
  <2>1. n \in 1..n /\ m + n = e
    BY <1>7
  <2>2. s[m + n] = <<"mac", ca, x, n>>
    BY <1>6, <2>1
  <2>3. e \in 1..L
    BY <1>6, <1>7, <1>1
  <2> HIDE DEF e, m
  <2> QED
    BY <2>1, <2>2, <2>3
<1>9. ASSUME NEW j \in Nat, NEW u, s[j] = <<"num", u>> PROVE j \notin (m + 1)..e
  <2> SUFFICES ASSUME j \in (m + 1)..e PROVE FALSE
    OBVIOUS
  <2>1. j - m \in 1..n /\ m + (j - m) = j
    BY <1>6, <1>7, <1>9
  <2>2. s[m + (j - m)] = <<"mac", ca, x, j - m>>
    BY <1>6, <2>1
  <2>3. s[j][1] = "mac"
    BY <2>1, <2>2
  <2>4. s[j][1] = "num"
    BY <1>9
  <2> QED
    BY <2>3, <2>4
<1> HIDE DEF m, e
<1>10. e = l + t
  <2>1. CASE ~(p > 0)
    BY <1>1, <2>1 DEF e
  <2>2. CASE p > 0
    <3>1. PICK w \in Nat : /\ pad = w + 1 /\ w + 1 <= L /\ s[L] = <<"num", w>>
                           /\ \A j \in 1..w : s[L - j] = <<"num", w>>
      BY <1>4, <2>2
    <3>2. e = L - w - 1
      BY <1>1, <3>1 DEF e
    <3>3. ~(e > l + t)
      <4> SUFFICES ASSUME e > l + t PROVE FALSE
        OBVIOUS
      <4>1. e \in (l + t + 1)..(l + t + p)
        BY <1>1, <1>8, <1>7
      <4>2. \E u : s[e] = <<"num", u>>
        BY <1>1, <1>2, <1>8, <4>1
      <4>3. e \in (m + 1)..e /\ e \in Nat
        BY <1>6, <1>7
      <4> QED
        BY <1>9, <4>2, <4>3
    <3>4. ~(e < l + t)
      <4> SUFFICES ASSUME e < l + t PROVE FALSE
        OBVIOUS
      <4>1. L - (l + t) \in 1..w /\ L - (L - (l + t)) = l + t
        BY <1>1, <1>7, <2>2, <3>2
      <4>2. s[l + t] = <<"num", w>>
        BY <3>1, <4>1
      <4>3. y[l + t] = <<"mac", a, d, t>> /\ l + t \in 1..L
        BY <1>1
      <4>4. s[l + t] # y[l + t]
        <5>1. s[l + t][1] = "num" /\ y[l + t][1] = "mac"
          BY <4>2, <4>3
        <5> QED
          BY <5>1
      <4>5. i = l + t
        BY <1>2, <4>3, <4>4
      <4>6. L \in (l + t + 1)..(l + t + p) /\ L \in 1..L /\ L # i
        BY <1>1, <2>2, <4>5
      <4>7. s[L] = <<"num", p - 1>>
        BY <1>1, <1>2, <4>6
      <4>8. w = p - 1
        BY <3>1, <4>7
      <4> QED
        BY <1>1, <3>2, <4>8
    <3> QED
      BY <1>1, <1>7, <3>3, <3>4
  <2> QED
    BY <2>1, <2>2
<1>11. i \notin (m + 1)..e
  BY <1>2, <1>9
<1>12. i # e
  <2>1. e \in (m + 1)..e
    BY <1>6, <1>7
  <2> QED
    BY <1>11, <2>1
<1>13. ca = a /\ x = d /\ n = t
  <2>1. s[e] = y[e] /\ y[l + t] = <<"mac", a, d, t>>
    BY <1>1, <1>2, <1>8, <1>12
  <2>2. <<"mac", ca, x, n>> = <<"mac", a, d, t>>
    BY <1>8, <1>10, <2>1
  <2> QED
    BY <2>2
<1>14. m = l
  BY <1>1, <1>6, <1>7, <1>10, <1>13
<1>15. CASE i \in 1..l
  <2>1. PICK T : s \in Seq(T)
    BY <1>2 DEF IsSeq
  <2>2. SubSeq(s, 1, l)[i] = s[i]
    BY <1>1, <1>2, <1>15, <2>1
  <2>3. s[i] = d[i] /\ y[i] = d[i]
    BY <1>1, <1>13, <1>14, <1>15, <2>2 DEF x
  <2> QED
    BY <1>2, <2>3
<1>16. CASE i \in (l + 1)..(l + t)
  BY <1>10, <1>11, <1>14, <1>16
<1>17. CASE i \in (l + t + 1)..(l + t + p)
  <2>1. p > 0
    BY <1>1, <1>17
  <2>2. PICK w \in Nat : /\ pad = w + 1 /\ w + 1 <= L /\ s[L] = <<"num", w>>
                         /\ \A j \in 1..w : s[L - j] = <<"num", w>>
    BY <1>4, <2>1
  <2>3. w = p - 1
    BY <1>1, <1>10, <2>2 DEF e
  <2>4. y[i] = <<"num", w>>
    BY <1>1, <1>17, <2>3
  <2>5. CASE i = L
    BY <1>2, <2>2, <2>4, <2>5
  <2>6. CASE i # L
    <3>1. L - i \in 1..w /\ L - (L - i) = i
      BY <1>1, <1>17, <2>3, <2>6
    <3>2. s[i] = <<"num", w>>
      BY <2>2, <3>1
    <3> QED
      BY <1>2, <2>4, <3>2
  <2> QED
    BY <2>5, <2>6
<1>18. i \in 1..l \/ i \in (l + 1)..(l + t) \/ i \in (l + t + 1)..(l + t + p)
  BY <1>1, <1>2
<1> QED
  BY <1>15, <1>16, <1>17, <1>18

\* A record that arrives intact: its pad and its text.
LEMMA IntactPad ==
  ASSUME NEW y, NEW a, NEW d, NEW t \in Nat, NEW p \in Nat \ {0}, Layout(y, a, d, t, p)
  PROVE  VerifyTlsRecordPad(y) = p
<1> DEFINE l == Len(d)  L == Len(y)
<1>1. /\ l \in Nat /\ L = l + t + p
      /\ \A i \in (l + t + 1)..(l + t + p) : y[i] = <<"num", p - 1>>
  BY JoinEmpty DEF Layout
<1> HIDE DEF l, L
<1>2. L \in (l + t + 1)..(l + t + p) /\ p - 1 \in Nat /\ p - 1 + 1 = p /\ ~(p > L)
  BY <1>1
<1>3. y[L] = <<"num", p - 1>>
  BY <1>1, <1>2
<1>4. y[L][2] = p - 1
  BY <1>3
<1>5. ASSUME NEW i \in 1..(p - 1) PROVE y[L - i] = <<"num", p - 1>>
  <2>1. L - i \in (l + t + 1)..(l + t + p)
    BY <1>1
  <2> QED
    BY <1>1, <2>1
<1> QED
  BY <1>2, <1>4, <1>5 DEF VerifyTlsRecordPad, L

\* The text of a record is its prefix of that length.
LEMMA IntactText ==
  ASSUME NEW y, NEW a, NEW d, NEW t \in Nat, NEW p \in Nat, Layout(y, a, d, t, p)
  PROVE  /\ SubSeq(y, 1, Len(d)) = d /\ Len(d) \in Nat
         /\ Len(y) = Len(d) + t + p
<1> DEFINE x == SubSeq(y, 1, Len(d))
<1>1. PICK T : y \in Seq(T)
  BY DEF Layout, IsSeq
<1>2. PICK U : d \in Seq(U)
  BY DEF Layout, IsSeq
<1> DEFINE W == T \cup U
<1>3. y \in Seq(W) /\ d \in Seq(W)
  BY <1>1, <1>2
<1> HIDE DEF W
<1>4. /\ Len(d) \in Nat /\ Len(y) = Len(d) + t + p /\ \A i \in 1..Len(d) : y[i] = d[i]
  BY <1>2 DEF Layout
<1>5. \A i \in 1..Len(d) : y[i] \in W
  BY <1>3, <1>4
<1>6. x \in Seq(W) /\ Len(x) = Len(d) /\ \A i \in 1..Len(d) : x[i] = y[i]
  BY <1>3, <1>4, <1>5
<1>7. x = d
  BY <1>3, <1>4, <1>6, SeqEqual
<1> QED
  BY <1>4, <1>7

\* Its tag is the right one ...
LEMMA IntactPasses ==
  ASSUME NEW y, NEW a, NEW d, NEW t \in Nat, NEW p \in Nat, Layout(y, a, d, t, p)
  PROVE  Passes(y, a, t, p)
<1> DEFINE l == Len(d)  z == SubSeq(y, l + 1, l + t)  g == Mac(a, d, t)
<1>1. /\ l \in Nat /\ Len(y) = l + t + p /\ SubSeq(y, 1, l) = d
  BY IntactText
<1>2. IsSeq(y) /\ \A i \in 1..t : y[l + i] = <<"mac", a, d, i>>
  BY DEF Layout
<1>3. PICK T : y \in Seq(T)
  BY <1>2 DEF IsSeq
<1>4. g \in Seq({<<"mac", a, d, i>> : i \in 1..t}) /\ Len(g) = t
      /\ \A i \in 1..t : g[i] = <<"mac", a, d, i>>
  BY MacIsSeq DEF Mac
<1> DEFINE W == T \cup {<<"mac", a, d, i>> : i \in 1..t}
<1>5. y \in Seq(W) /\ g \in Seq(W)
  BY <1>3, <1>4
<1> HIDE DEF W, l, g
<1>6. \A i \in (l + 1)..(l + t) : y[i] \in W
  BY <1>1, <1>5
<1>7. z \in Seq(W) /\ Len(z) = t /\ \A i \in 1..t : z[i] = y[l + 1 + i - 1]
  BY <1>1, <1>5, <1>6
<1>8. \A i \in 1..t : z[i] = g[i]
  <2> TAKE i \in 1..t
  <2>1. l + 1 + i - 1 = l + i
    BY <1>1
  <2> QED
    BY <1>2, <1>4, <1>7, <2>1
<1>9. z = g
  BY <1>4, <1>5, <1>7, <1>8, SeqEqual
<1>10. Len(y) - p - t = l /\ Len(y) - p = l + t /\ t <= Len(y) - p
  BY <1>1
<1> QED
  BY <1>1, <1>9, <1>10 DEF Passes, g

\* ... and no other passes.
LEMMA OneTagPasses ==
  ASSUME NEW y, NEW a, NEW d, NEW t \in Nat \ {0}, NEW p \in Nat, Layout(y, a, d, t, p),
         NEW ca, NEW n \in Nat \ {0}, Passes(y, ca, n, p)
  PROVE  ca = a /\ SubSeq(y, 1, Len(y) - p - n) = d
<1> DEFINE l == Len(d)  x == SubSeq(y, 1, Len(y) - p - n)
<1>1. l \in Nat /\ Len(y) = l + t + p
  BY JoinEmpty DEF Layout
<1>2. p \in 0..Len(y) /\ IsSeq(y)
  BY <1>1 DEF Layout
<1>3. TagBytes(y, ca, n, p)
  BY <1>2, PassedBytes
<1>4. n \in 1..n /\ Len(y) - p - n + n = l + t /\ t \in 1..t
  BY <1>1
<1>5. y[Len(y) - p - n + n] = <<"mac", ca, x, n>>
  BY <1>3, <1>4 DEF TagBytes
<1>6. y[l + t] = <<"mac", a, d, t>>
  BY <1>4 DEF Layout
<1> HIDE DEF x
<1>7. <<"mac", ca, x, n>> = <<"mac", a, d, t>>
  BY <1>4, <1>5, <1>6
<1> QED
  BY <1>7 DEF x

-----------------------------------------------------------------------------
(* The records that pad_record completes have that layout.                 *)

\* The bytes of tag in a TLS record.
TagOf(k, r) == IF k.digestsize > 0 THEN r.tag_len ELSE 0

\* The bytes of a text with its tag appended.
LEMMA TaggedBytes ==
  ASSUME NEW k, NEW r, IsSeq(r.data), r.tag_len \in Nat
  PROVE  /\ IsSeq(Tagged(k, r)) /\ Len(r.data) \in Nat /\ TagOf(k, r) \in Nat
         /\ Len(Tagged(k, r)) = Len(r.data) + TagOf(k, r)
         /\ \A i \in 1..Len(r.data) : Tagged(k, r)[i] = r.data[i]
         /\ \A i \in 1..TagOf(k, r) :
              Tagged(k, r)[Len(r.data) + i] = <<"mac", r.auth_len, r.data, i>>
<1> DEFINE d == r.data  a == r.auth_len  t == TagOf(k, r)
           g == IF k.digestsize > 0 THEN Mac(a, d, r.tag_len) ELSE <<>>
<1>1. t \in Nat
  BY DEF TagOf
<1>2. IsSeq(g) /\ Len(g) = t /\ \A i \in 1..t : g[i] = <<"mac", a, d, i>>
  <2>1. CASE k.digestsize > 0
    <3>1. g = Mac(a, d, r.tag_len) /\ t = r.tag_len
      BY <2>1 DEF TagOf
    <3> HIDE DEF g
    <3> QED
      BY <3>1, MacIsSeq
  <2>2. CASE ~(k.digestsize > 0)
    <3>1. g = <<>> /\ t = 0
      BY <2>2 DEF TagOf
    <3> HIDE DEF g, t
    <3> QED
      BY <3>1, EmptyIsSeq
  <2> QED
    BY <2>1, <2>2
<1>3. Tagged(k, r) = d \o g
  BY DEF Tagged
<1> HIDE DEF d, g, t, a
<1>4. IsSeq(d)
  BY DEF d
<1>5. /\ Len(d) \in Nat /\ IsSeq(d \o g) /\ Len(d \o g) = Len(d) + Len(g)
      /\ \A i \in 1..(Len(d) + Len(g)) :
           (d \o g)[i] = IF i <= Len(d) THEN d[i] ELSE g[i - Len(d)]
  BY <1>2, <1>4, Joined
<1> DEFINE w == Tagged(k, r)
<1>6. /\ Len(d) \in Nat /\ IsSeq(w) /\ Len(w) = Len(d) + t
      /\ \A i \in 1..(Len(d) + t) : w[i] = IF i <= Len(d) THEN d[i] ELSE g[i - Len(d)]
  BY <1>2, <1>3, <1>5
<1> HIDE DEF w
<1>7. \A i \in 1..Len(d) : w[i] = d[i]
  BY <1>1, <1>6
<1>8. ASSUME NEW i \in 1..t PROVE w[Len(d) + i] = <<"mac", a, d, i>>
  <2>1. /\ Len(d) + i \in 1..(Len(d) + t) /\ ~(Len(d) + i <= Len(d))
        /\ Len(d) + i - Len(d) = i
    BY <1>1, <1>6
  <2>2. w[Len(d) + i] = g[i]
    BY <1>6, <2>1
  <2> QED
    BY <1>2, <2>2
<1> QED
  BY <1>1, <1>6, <1>7, <1>8 DEF w, d, t, a

\* A record that tls_auth_n_crypt makes is a text, its MAC and a pad, and there is
\* a pad exactly when the cipher has blocks.
LEMMA PaddedLayout ==
  ASSUME NEW k, k.blocksize \in Nat, k.blocksize > 0,
         NEW r, IsSeq(r.data), r.tag_len \in Nat
  PROVE  \E p \in Nat :
           /\ (p > 0 <=> k.blocksize > 1)
           /\ p <= PadTo(k.blocksize, Len(r.data) + TagOf(k, r))
           /\ Layout(Padded(k.blocksize, Tagged(k, r)), r.auth_len, r.data, TagOf(k, r), p)
<1> DEFINE b == k.blocksize  w == Tagged(k, r)  d == r.data  t == TagOf(k, r)  q == PadTo(b, Len(w))
<1>1. /\ IsSeq(w) /\ Len(d) \in Nat /\ t \in Nat /\ Len(w) = Len(d) + t
      /\ \A i \in 1..Len(d) : w[i] = d[i]
      /\ \A i \in 1..t : w[Len(d) + i] = <<"mac", r.auth_len, d, i>>
  BY TaggedBytes
<1>2. b \in Nat /\ b > 0 /\ IsSeq(d)
  OBVIOUS
<1> HIDE DEF b, w, d, t
<1>3. q \in 1..b
  <2>1. Len(w) \in Nat
    BY <1>1
  <2> QED
    BY <1>2, <2>1, PadLength
<1>4. CASE ~(b > 1)
  <2>1. Padded(b, w) = w
    BY <1>4 DEF Padded
  <2>2. Layout(w, r.auth_len, d, t, 0)
    <3>1. Len(w) = Len(d) + t + 0 /\ (Len(d) + t + 1)..(Len(d) + t + 0) = {}
      BY <1>1
    <3> QED
      BY <1>1, <1>2, <3>1 DEF Layout
  <2>3. 0 <= PadTo(b, Len(d) + t)
    BY <1>1, <1>3
  <2> QED
    BY <1>4, <2>1, <2>2, <2>3 DEF b, d, t, w
<1>5. CASE b > 1
  <2> DEFINE g == [i \in 1..q |-> <<"num", q - 1>>]  y == Padded(b, w)
  <2>1. y = w \o g
    BY <1>5 DEF Padded
  <2>2. q \in Nat /\ q > 0
    BY <1>2, <1>3
  <2>3. q <= PadTo(b, Len(d) + t)
    BY <1>1, <2>2
  <2> HIDE DEF y, q
  <2>4. IsSeq(g) /\ Len(g) = q /\ \A i \in 1..q : g[i] = <<"num", q - 1>>
    BY <2>2, PadIsSeq
  <2> HIDE DEF g
  <2>5. /\ IsSeq(w \o g) /\ Len(w \o g) = Len(w) + Len(g)
        /\ \A i \in 1..(Len(w) + Len(g)) :
             (w \o g)[i] = IF i <= Len(w) THEN w[i] ELSE g[i - Len(w)]
    BY <1>1, <2>4, Joined
  <2>6. /\ IsSeq(y) /\ Len(y) = Len(d) + t + q
        /\ \A i \in 1..(Len(d) + t + q) :
             y[i] = IF i <= Len(d) + t THEN w[i] ELSE g[i - (Len(d) + t)]
    BY <1>1, <2>1, <2>4, <2>5
  <2>7. ASSUME NEW i \in 1..Len(d) PROVE y[i] = d[i]
    BY <1>1, <2>2, <2>6
  <2>8. ASSUME NEW i \in 1..t PROVE y[Len(d) + i] = <<"mac", r.auth_len, d, i>>
    <3>1. Len(d) + i \in 1..(Len(d) + t + q) /\ Len(d) + i <= Len(d) + t
      BY <1>1, <2>2
    <3> QED
      BY <1>1, <2>6, <3>1
  <2>9. ASSUME NEW i \in (Len(d) + t + 1)..(Len(d) + t + q) PROVE y[i] = <<"num", q - 1>>
    <3>1. /\ i \in 1..(Len(d) + t + q) /\ ~(i <= Len(d) + t)
          /\ i - (Len(d) + t) \in 1..q
      BY <1>1, <2>2
    <3>2. y[i] = g[i - (Len(d) + t)]
      BY <2>6, <3>1
    <3> QED
      BY <2>4, <3>1, <3>2
  <2>10. Layout(y, r.auth_len, d, t, q)
    BY <1>2, <2>6, <2>7, <2>8, <2>9 DEF Layout
  <2> QED
    BY <1>5, <2>2, <2>3, <2>10 DEF b, d, t, w, y
<1> QED
  BY <1>4, <1>5

-----------------------------------------------------------------------------
(* The operators of the model, in these terms.                             *)

\* The mode of a request depends on the session and on the flags only.
LEMMA ModeIs == \A c : Mode(c) = ModeOf(ses, c.flags)
BY DEF Mode, ModeOf

\* The padding depends on the block size of the session only.
LEMMA PadRecordIs == \A s : PadRecord(s) = Padded(ses.blocksize, s)
BY DEF PadRecord, Padded, PadSize, PadTo

\* A tag that is no longer than the digest is the MAC of that length.
LEMMA TagIs ==
  ASSUME NEW a, NEW s, ses.digestsize \in Nat, NEW n \in 0..ses.digestsize
  PROVE  Tag(a, s, n) = Mac(a, s, n)
<1>1. \A i \in 1..n : i <= ses.digestsize
  OBVIOUS
<1> QED
  BY <1>1, Zenon DEF Tag, Mac

\* What a call reports, and what it gives back.
Reports(l, m, c, e, i, q, d) ==
  /\ l.mode = m /\ l.call = c /\ l.ret = e /\ l.intact = i /\ l.same = q
  /\ l.decrypted = d
Returns(l, s) == l.data = s /\ l.len = Len(s)

\* Before the first call nothing is reported, which satisfies every property.
LEMMA NothingIsGood ==
  ASSUME NEW k, NEW az PROVE Good(k, az, Nothing)
BY DEF Good, Authentic, Opened, Verified, Nothing, NoCall

-----------------------------------------------------------------------------
(* What each mode decides about a record.                                  *)

\* A decrypted TLS record still ends in a number, so that the pad is one.
LEMMA PadIsFound ==
  ASSUME NEW y, NEW a, NEW d, NEW t \in Nat, NEW p \in Nat \ {0}, Layout(y, a, d, t, p),
         NEW s, s = y \/ s \in Altered(y)
  PROVE  Len(s) = Len(y) /\ VerifyTlsRecordPad(s) \in 0..Len(s)
<1> DEFINE L == Len(y)
<1>1. /\ L \in Nat /\ IsSeq(y) /\ L \in 1..L
      /\ y[L] = <<"num", p - 1>> /\ p - 1 \in Nat
  <2>1. Len(d) \in Nat /\ L = Len(d) + t + p
    BY JoinEmpty DEF Layout
  <2>2. L \in (Len(d) + t + 1)..(Len(d) + t + p)
    BY <2>1
  <2> HIDE DEF L
  <2>3. y[L] = <<"num", p - 1>>
    BY <2>2 DEF Layout
  <2> QED
    BY <2>1, <2>3 DEF Layout
<1>2. Len(s) = L /\ \E w \in Nat : s[L] = <<"num", w>>
  <2>1. CASE s = y
    BY <1>1, <2>1
  <2>2. CASE s \in Altered(y)
    <3>1. PICK i \in 1..L, v \in Nat :
            /\ IsSeq(s) /\ Len(s) = L
            /\ s[i] = <<"num", v>> /\ s[i] # y[i]
            /\ \A j \in 1..L : j # i => s[j] = y[j]
      BY <1>1, <2>2, AlteredByte
    <3> HIDE DEF L
    <3>2. CASE i = L
      BY <3>1, <3>2
    <3>3. CASE i # L
      BY <1>1, <3>1, <3>3
    <3> QED
      BY <3>2, <3>3
  <2> QED
    BY <2>1, <2>2
<1> HIDE DEF L
<1>3. PICK w \in Nat : s[L] = <<"num", w>>
  BY <1>2
<1>4. s[Len(s)][2] = w
  BY <1>2, <1>3
<1>5. VerifyTlsRecordPad(s) \in {0, w + 1} /\ (VerifyTlsRecordPad(s) # 0 => ~(w + 1 > L))
  BY <1>2, <1>4 DEF VerifyTlsRecordPad
<1> QED
  BY <1>1, <1>2, <1>5 DEF L

\* The pad that tls_auth_n_crypt cuts off.
PadOf(b, s) == IF b > 1 THEN VerifyTlsRecordPad(s) ELSE 0

\* What tls_auth_n_crypt decides on a session with a hash, for a sound tag length.
LEMMA TlsDecides ==
  ASSUME ses.digestsize \in Nat, ses.digestsize > 0, ses.digestsize <= MaxResult,
         NEW c, c.tag_len \in 1..ses.digestsize, NEW junk,
         NEW s, Len(s) \in Nat, PadOf(ses.blocksize, s) \in 0..Len(s)
  PROVE  LET pad == PadOf(ses.blocksize, s)
             ok  == Passes(s, c.auth_len, c.tag_len, pad) /\ (ses.blocksize > 1 => pad # 0)
         IN  \/ ok /\ TlsOpen(c, s, junk) = Success(c, SubSeq(s, 1, Len(s) - pad - c.tag_len))
             \/ ~ok /\ \E e \in {"EINVAL", "EBADMSG"} : TlsOpen(c, s, junk) = Failed(c, e)
<1> DEFINE pad == PadOf(ses.blocksize, s)
           n   == c.tag_len
           k   == IF n > ses.digestsize THEN ses.digestsize ELSE n
           m   == Len(s) - pad - n
           x   == SubSeq(s, 1, m)
           z   == SubSeq(s, m + 1, m + k)
           y   == SubSeq(s, m + 1, Len(s) - pad)
           bad == ses.blocksize > 1 /\ pad = 0
<1>1. n \in Nat /\ n \in 0..ses.digestsize /\ pad \in Nat /\ pad \in 0..Len(s)
      /\ ~(n > ses.digestsize) /\ ~(n > MaxResult) /\ k = n
  BY AuthEncAssumption
<1>2. TlsOpen(c, s, junk) =
        IF n > MaxResult \/ n > Len(s) - pad THEN Failed(c, "EINVAL")
        ELSE IF z # Mac(c.auth_len, x, k) \/ (n > ses.digestsize /\ ~junk) \/ bad
               THEN Failed(c, "EBADMSG")
        ELSE Success(c, x)
  BY Zenon DEF TlsOpen, HasHash, PadOf
<1>3. Passes(s, c.auth_len, n, pad) <=> n <= Len(s) - pad /\ y = Mac(c.auth_len, x, n)
  BY Zenon DEF Passes
<1>4. m + k = Len(s) - pad
  BY <1>1
<1> HIDE DEF n, x, pad, m, k
<1>5. z = y
  BY <1>4
<1> HIDE DEF z, y
<1>6. n > Len(s) - pad <=> ~(n <= Len(s) - pad)
  BY <1>1
<1>7. CASE n > Len(s) - pad
  <2>1. ~Passes(s, c.auth_len, n, pad)
    BY <1>3, <1>6, <1>7
  <2>2. TlsOpen(c, s, junk) = Failed(c, "EINVAL")
    BY <1>2, <1>7
  <2> QED
    BY <2>1, <2>2 DEF n, pad
<1>8. CASE ~(n > Len(s) - pad) /\ (y # Mac(c.auth_len, x, n) \/ bad)
  <2>1. ~(Passes(s, c.auth_len, n, pad) /\ ~bad)
    BY <1>3, <1>8, Zenon
  <2>2. TlsOpen(c, s, junk) = Failed(c, "EBADMSG")
    BY <1>1, <1>2, <1>5, <1>8, Zenon
  <2> QED
    BY <2>1, <2>2 DEF n, pad
<1>9. CASE ~(n > Len(s) - pad) /\ y = Mac(c.auth_len, x, n) /\ ~bad
  <2>1. Passes(s, c.auth_len, n, pad)
    BY <1>3, <1>6, <1>9
  <2>2. TlsOpen(c, s, junk) = Success(c, x)
    BY <1>1, <1>2, <1>5, <1>9, Zenon
  <2> QED
    BY <1>9, <2>1, <2>2 DEF n, pad, x, m
<1> QED
  BY <1>7, <1>8, <1>9

\* A report of a mode other than SRTP is good if it is an error on a record
\* that need not be accepted, or the text of a record that may be.
LEMMA GoodReport ==
  ASSUME NEW k, NEW az, NEW l, NEW m, m \in {"tls", "aead"}, NEW c, NEW e, NEW i, NEW q, NEW x,
         Reports(l, m, c, e, i, q, x), e # "overrun",
         e = "ok" /\ (k.digestsize > 0 \/ m = "aead") =>
           i /\ SameAuth(c) /\ l.data = c.rec.data /\ l.len = Len(c.rec.data),
         i /\ q /\ SameAuth(c) /\ c.tag_len = c.rec.tag_len =>
           \/ e = "ok" /\ l.data = c.rec.data
           \/ m = "aead" /\ c.tag_len > az
           \/ m = "tls" /\ c.rec.bytes = <<>>
  PROVE  Good(k, az, l)
BY DEF Good, Authentic, Opened, Verified, Reports

\* Nothing is said of a request that is not sound, in a mode other than SRTP.
LEMMA UnsoundIsGood ==
  ASSUME NEW k, NEW az, NEW l, NEW m, m \in {"tls", "aead"}, NEW c, NEW e, NEW i, NEW q, NEW x,
         Reports(l, m, c, e, i, q, x), ~Sound(k, c)
  PROVE  Good(k, az, l)
BY DEF Good, Verified, Reports

\* The authenticated data of TLS and AEAD are told apart by their length.
LEMMA SameAuthIs ==
  ASSUME NEW c, Mode(c) \in {"tls", "aead"}
  PROVE  SameAuth(c) <=> c.auth_len = c.rec.auth_len
BY DEF SameAuth, Mode

\* What the decryption of a TLS record reports, whether intact or not.
LEMMA TlsIsGood ==
  ASSUME AuthInv, ses.init, NEW c, c.op = "decrypt", Filled(ses, authsize, c),
         Mode(c) = "tls", NEW i \in BOOLEAN, NEW q \in BOOLEAN, NEW junk,
         NEW s \in Decrypts(c.rec.bytes, i /\ q), NEW l,
         l = [TlsOpen(c, s, junk) EXCEPT !.intact = i, !.same = q, !.decrypted = TRUE]
  PROVE  Good(ses, authsize, l)
<1> DEFINE r == c.rec  y == r.bytes  d == r.data  a == r.auth_len  t == TagOf(ses, r)
           b == ses.blocksize  pad == PadOf(b, s)  n == c.tag_len
<1>1. \A e : TlsOpen(c, s, junk) = Failed(c, e) => Reports(l, "tls", c, e, i, q, TRUE)
  BY DEF Failed, Nothing, Reports
<1>2. \A x : TlsOpen(c, s, junk) = Success(c, x) =>
             Reports(l, "tls", c, "ok", i, q, TRUE) /\ Returns(l, x)
  BY DEF Success, Failed, Nothing, Reports, Returns
<1> HIDE DEF r, y, d, a, t, b, pad, n
<1>3. CASE ~Sound(ses, c)
  <2>1. (\E e : TlsOpen(c, s, junk) = Failed(c, e)) \/ (\E x : TlsOpen(c, s, junk) = Success(c, x))
    BY Zenon DEF TlsOpen
  <2> QED
    BY <1>1, <1>2, <1>3, <2>1, UnsoundIsGood
<1> SUFFICES ASSUME Sound(ses, c) PROVE Good(ses, authsize, l)
  BY <1>3
<1> USE DEF r, y, d, a, t, b, pad, n
<1>4. ses.digestsize > 0 => c.tag_len <= ses.digestsize /\ c.rec.tag_len <= ses.digestsize
  BY DEF Sound
<1>5. SameAuth(c) <=> c.auth_len = a
  BY SameAuthIs
<1>6. /\ b \in Nat /\ b > 0 /\ ses.digestsize \in Nat /\ ses.digestsize <= MaxResult
      /\ n \in Nat /\ (ses.digestsize > 0 => n \in 1..ses.digestsize)
  BY <1>4, KindFacts, AuthEncAssumption DEF Filled
<1>7. Made(ses, r) /\ ModeOf(ses, r.flags) = "tls"
  BY ModeIs DEF Filled
<1>8. /\ IsSeq(d) /\ r.tag_len \in Nat /\ y = Padded(b, Tagged(ses, r))
      /\ ses.digestsize > 0 => r.tag_len \in 1..ses.digestsize
  <2>1. HashTag(ses, r.tag_len)
    BY <1>6, <1>7, <1>4 DEF Made, HashTag
  <2> QED
    BY <1>7, <2>1 DEF Made, HashTag
<1>9. PICK p \in Nat : (p > 0 <=> b > 1) /\ Layout(y, a, d, t, p)
  BY <1>6, <1>8, PaddedLayout
<1>10. t \in Nat /\ (ses.digestsize > 0 => t = r.tag_len) /\ (~(ses.digestsize > 0) => t = 0)
  BY <1>8 DEF TagOf
<1>11. (i /\ q => s = y) /\ (~(i /\ q) => s \in Altered(y))
  BY DEF Decrypts
<1>12. Mode(c) = "tls"
  OBVIOUS
<1> HIDE DEF r, y, d, a, t, b, pad, n
<1>13. IsSeq(y) /\ Len(d) \in Nat /\ Len(y) = Len(d) + t + p /\ SubSeq(y, 1, Len(d)) = d
  <2>1. IsSeq(y)
    BY <1>9 DEF Layout
  <2>2. t \in Nat /\ p \in Nat /\ Layout(y, a, d, t, p)
    BY <1>9, <1>10
  <2>3. SubSeq(y, 1, Len(d)) = d /\ Len(d) \in Nat /\ Len(y) = Len(d) + t + p
    BY ONLY <2>2, IntactText
  <2> QED
    BY <2>1, <2>3
<1>14. Len(s) = Len(y)
  <2>1. CASE s = y
    BY <2>1
  <2>2. CASE s \in Altered(y)
    <3>1. \E j \in 1..Len(y), v \in Nat : IsSeq(s) /\ Len(s) = Len(y)
      BY <1>13, <2>2, AlteredByte
    <3> QED
      BY <3>1
  <2> QED
    BY <1>11, <2>1, <2>2
<1>15. pad \in 0..Len(s) /\ Len(s) \in Nat
  <2>1. CASE b > 1
    <3>1. VerifyTlsRecordPad(s) \in 0..Len(s)
      <4>1. p \in Nat \ {0} /\ (s = y \/ s \in Altered(y))
        BY <1>9, <1>11, <2>1
      <4> QED
        BY <1>9, <1>10, <4>1, PadIsFound
    <3> QED
      BY <1>10, <1>13, <1>14, <2>1, <3>1 DEF pad, PadOf
  <2>2. CASE ~(b > 1)
    BY <1>10, <1>13, <1>14, <2>2 DEF pad, PadOf
  <2> QED
    BY <2>1, <2>2
<1>16. s = y => pad = p
  <2> SUFFICES ASSUME s = y PROVE pad = p
    OBVIOUS
  <2>1. CASE b > 1
    <3>1. p \in Nat \ {0}
      BY <1>9, <2>1
    <3>2. VerifyTlsRecordPad(y) = p
      BY <1>9, <1>10, <3>1, IntactPad
    <3> QED
      BY <2>1, <3>2 DEF pad, PadOf
  <2>2. CASE ~(b > 1)
    BY <1>9, <2>2 DEF pad, PadOf
  <2> QED
    BY <2>1, <2>2
<1>17. CASE ~(ses.digestsize > 0)
  <2> DEFINE x == SubSeq(s, 1, Len(s) - pad)
  <2>1. TlsOpen(c, s, junk) = Success(c, x)
    BY <1>17, Zenon DEF TlsOpen, HasHash, PadOf, pad, b
  <2> HIDE DEF x
  <2>2. Reports(l, "tls", c, "ok", i, q, TRUE) /\ l.data = x
    BY <1>2, <2>1 DEF Returns
  <2>3. i /\ q => x = d
    <3> SUFFICES ASSUME i /\ q PROVE x = d
      OBVIOUS
    <3>1. s = y /\ pad = p /\ t = 0 /\ Len(y) - p = Len(d)
      BY <1>10, <1>11, <1>13, <1>16, <1>17
    <3> QED
      BY <1>13, <3>1 DEF x
  <2> QED
    BY <1>17, <2>2, <2>3, GoodReport DEF d, r
<1>18. CASE ses.digestsize > 0
  <2> DEFINE ok == Passes(s, c.auth_len, n, pad) /\ (b > 1 => pad # 0)
             x  == SubSeq(s, 1, Len(s) - pad - n)
  <2>1. n \in Nat \ {0} /\ t \in Nat \ {0} /\ t = r.tag_len
    BY <1>6, <1>8, <1>10, <1>18
  <2>2. \/ ok /\ TlsOpen(c, s, junk) = Success(c, x)
        \/ ~ok /\ \E e \in {"EINVAL", "EBADMSG"} : TlsOpen(c, s, junk) = Failed(c, e)
    BY <1>6, <1>15, <1>18, TlsDecides DEF n, pad, b
  <2> HIDE DEF x
  <2>3. CASE ok
    <3>1. Reports(l, "tls", c, "ok", i, q, TRUE) /\ l.data = x /\ l.len = Len(x)
      BY <1>2, <2>2, <2>3 DEF Returns
    <3>2. s = y
      <4> SUFFICES ASSUME s \in Altered(y) PROVE FALSE
        BY <1>11
      <4>1. pad = IF p > 0 THEN VerifyTlsRecordPad(s) ELSE 0
        BY <1>9 DEF pad, PadOf
      <4>2. p > 0 => pad # 0
        BY <1>9, <2>3
      <4> QED
        BY <1>9, <2>1, <2>3, <4>1, <4>2, AlteredIsRefused
    <3>3. c.auth_len = a /\ x = d
      <4>1. Passes(y, c.auth_len, n, p)
        BY <1>16, <2>3, <3>2
      <4>2. c.auth_len = a /\ SubSeq(y, 1, Len(y) - p - n) = d
        BY <1>9, <2>1, <4>1, OneTagPasses
      <4> QED
        BY <1>16, <3>2, <4>2 DEF x
    <3>4. i
      <4>1. y \notin Altered(y)
        BY DEF Altered
      <4> QED
        BY <1>11, <3>2, <4>1
    <3> QED
      BY <1>5, <3>1, <3>3, <3>4, GoodReport DEF d, r
  <2>4. CASE ~ok
    <3>1. PICK e \in {"EINVAL", "EBADMSG"} : TlsOpen(c, s, junk) = Failed(c, e)
      BY <2>2, <2>4
    <3>2. Reports(l, "tls", c, e, i, q, TRUE)
      BY <1>1, <3>1
    <3>3. ~(i /\ q /\ c.auth_len = a /\ n = r.tag_len)
      <4> SUFFICES ASSUME i /\ q, c.auth_len = a, n = t PROVE ok
        BY <2>1, <2>4
      <4>1. s = y /\ pad = p
        BY <1>11, <1>16
      <4>2. Passes(y, a, t, p)
        BY <1>9, <1>10, IntactPasses
      <4> QED
        BY <1>9, <4>1, <4>2
    <3> QED
      BY <1>5, <3>2, <3>3, GoodReport DEF r, n
  <2> QED
    BY <2>3, <2>4
<1> QED
  BY <1>17, <1>18

\* What a call reports of a payload that decrypts to s.
SrtpReport(c, x, s) == [SrtpOpen(c, x, s) EXCEPT !.intact = x.intact, !.same = x.same]

\* What the decryption of an SRTP record reports, whether intact or not.
LEMMA SrtpIsGood ==
  ASSUME AuthInv, ses.init, NEW c, c.op = "decrypt", Filled(ses, authsize, c),
         Mode(c) = "srtp", NEW x, x.intact \in BOOLEAN, x.same \in BOOLEAN,
         NEW s \in Decrypts(c.rec.bytes, x.intact /\ x.same)
  PROVE  Good(ses, authsize, SrtpReport(c, x, s))
<1> DEFINE i == x.intact  q == x.same  o == SrtpOpen(c, x, s)  l == SrtpReport(c, x, s)
<1>1. \A e : o = Failed(c, e) => Reports(l, "srtp", c, e, i, q, FALSE)
  BY DEF Failed, Nothing, Reports, SrtpReport
<1>2. o = [Success(c, s) EXCEPT !.decrypted = TRUE] =>
        Reports(l, "srtp", c, "ok", i, q, TRUE) /\ Returns(l, s)
  BY DEF Success, Failed, Nothing, Reports, Returns, SrtpReport
<1>3. c.rec.bytes = c.rec.data /\ c.tag_len \in Nat
  BY ModeIs DEF Filled, Made
<1>4. i /\ q => s = c.rec.data
  BY <1>3 DEF Decrypts
<1> HIDE DEF i, q, o
<1>5. CASE ~Sound(ses, c)
  <2>1. \/ \E e : o = Failed(c, e)
        \/ o = [Success(c, s) EXCEPT !.decrypted = TRUE]
    BY DEF o, SrtpOpen
  <2>2. Verified(l) /\ l.call = c
    BY <1>1, <1>2, <2>1 DEF Reports, Verified
  <2> QED
    BY <1>5, <2>2 DEF Good
<1> SUFFICES ASSUME Sound(ses, c) PROVE Good(ses, authsize, l)
  BY <1>5
<1>6. HasHash => ~(c.tag_len > ses.digestsize) /\ ~(c.tag_len > MaxResult)
  <2>1. ses.digestsize \in 0..MaxResult
    BY KindFacts
  <2> QED
    BY <1>3, <2>1, AuthEncAssumption DEF Sound, HasHash
<1> DEFINE long == HasHash /\ c.tag_len > CaopLen(c)
<1>7. o = IF long THEN Failed(c, "EINVAL")
          ELSE IF HasHash /\ ~SrtpTagMatches(c, x) THEN Failed(c, "EBADMSG")
          ELSE [Success(c, s) EXCEPT !.decrypted = TRUE]
  BY <1>6, Zenon DEF o, SrtpOpen
<1>8. CASE long
  <2>1. o = Failed(c, "EINVAL")
    BY <1>8, <1>7
  <2>2. Reports(l, "srtp", c, "EINVAL", i, q, FALSE) /\ c.tag_len > Len(c.rec.bytes)
    BY <1>1, <1>8, <2>1 DEF CaopLen
  <2> QED
    BY <2>2 DEF Good, Authentic, Opened, Verified, Reports
<1>9. CASE ~long /\ (HasHash /\ ~SrtpTagMatches(c, x))
  <2>1. o = Failed(c, "EBADMSG")
    BY <1>9, <1>7
  <2>2. Reports(l, "srtp", c, "EBADMSG", i, q, FALSE)
    BY <1>1, <2>1
  <2>3. ~(i /\ SameAuth(c) /\ c.tag_len = c.rec.tag_len)
    BY <1>3, <1>9, <1>6 DEF SrtpTagMatches, i
  <2> QED
    BY <2>2, <2>3 DEF Good, Authentic, Opened, Verified, Reports
<1>10. CASE ~long /\ ~(HasHash /\ ~SrtpTagMatches(c, x))
  <2>1. o = [Success(c, s) EXCEPT !.decrypted = TRUE]
    BY <1>10, <1>7
  <2>2. Reports(l, "srtp", c, "ok", i, q, TRUE) /\ Returns(l, s)
    BY <1>2, <2>1
  <2>3. ses.digestsize > 0 => i /\ SameAuth(c)
    BY <1>10 DEF SrtpTagMatches, i, HasHash
  <2>4. l.ret # "overrun" /\ Verified(l)
    BY <2>2 DEF Reports, Verified
  <2>5. Authentic(ses, l)
    BY <1>4, <2>2, <2>3 DEF Authentic, Reports, Returns
  <2>6. Opened(authsize, l)
    BY <1>4, <2>2 DEF Opened, Reports, Returns
  <2> QED
    BY <2>4, <2>5, <2>6 DEF Good
<1> QED
  BY <1>8, <1>9, <1>10

\* The transform never takes a longer tag than it had, and a sound request is
\* carried out with its own.
LEMMA AeadTagIs ==
  ASSUME AuthInv, ses.init, NEW c, c.op \in {"encrypt", "decrypt"},
         Filled(ses, authsize, c), Mode(c) = "aead", c.tag_len <= authsize
  PROVE  /\ AeadTag(c) \in Nat /\ AeadTag(c) <= authsize
         /\ Sound(ses, c) => AeadTag(c) = c.tag_len /\ (c.tag_len = 0 => authsize = 0)
<1>1. ses.aead
  BY DEF Mode
<1>2. /\ c.tag_len \in Nat /\ authsize \in Nat /\ (c.tag_len = 0 => authsize = 0)
      /\ ses.maxtag \in Nat /\ authsize <= ses.maxtag
  BY <1>1, KindFacts DEF Filled, AuthInv
<1>3. Sound(ses, c) => c.tag_len \in ses.tags \cup {0, ses.maxtag}
  BY <1>1 DEF Sound
<1>4. AeadTag(c) \in Nat /\ AeadTag(c) <= authsize
  BY <1>2 DEF AeadTag
<1>5. ASSUME Sound(ses, c) PROVE AeadTag(c) = c.tag_len
  <2>1. CASE c.tag_len = 0
    BY <1>2, <2>1 DEF AeadTag
  <2>2. CASE c.tag_len # 0 /\ c.tag_len \in ses.tags
    BY <2>2 DEF AeadTag
  <2>3. CASE c.tag_len # 0 /\ c.tag_len \notin ses.tags
    <3>1. c.tag_len = ses.maxtag /\ AeadTag(c) = authsize
      BY <1>3, <1>5, <2>3 DEF AeadTag
    <3> QED
      BY <1>2, <3>1
  <2> QED
    BY <2>1, <2>2, <2>3
<1> QED
  BY <1>2, <1>4, <1>5

\* What the driver verifies of a record.
AeadOk(c, x) == x.intact /\ x.same /\ SameAuth(c) /\ AeadTag(c) = c.rec.tag_len

\* What a call reports of an AEAD record.
AeadReport(c, x) == [AeadOpen(c, x) EXCEPT !.intact = x.intact, !.same = x.same]

\* What the decryption of an AEAD record reports, whether intact or not.
LEMMA AeadIsGood ==
  ASSUME AuthInv, ses.init, NEW c, c.op = "decrypt", Filled(ses, authsize, c),
         Mode(c) = "aead", c.tag_len <= authsize,
         NEW x, x.intact \in BOOLEAN, x.same \in BOOLEAN
  PROVE  Good(ses, AeadTag(c), AeadReport(c, x))
<1> DEFINE d == c.rec.data  y == c.rec.bytes  n == AeadTag(c)  i == x.intact  q == x.same
           m == CaopLen(c) - (IF c.tag_len = 0 THEN authsize ELSE c.tag_len)
           z == SubSeq(y, 1, m)  o == AeadOpen(c, x)  l == AeadReport(c, x)
<1>1. \A e : o = Failed(c, e) => Reports(l, "aead", c, e, i, q, FALSE)
  BY DEF Failed, Nothing, Reports, AeadReport
<1>2. \A v : o = Success(c, v) => Reports(l, "aead", c, "ok", i, q, FALSE) /\ Returns(l, v)
  BY DEF Success, Failed, Nothing, Reports, Returns, AeadReport
<1> HIDE DEF l
<1>3. o = IF CaopLen(c) < n THEN Failed(c, "EINVAL")
          ELSE IF AeadOk(c, x) THEN Success(c, z) ELSE Failed(c, "EBADMSG")
  BY Zenon DEF AeadOpen, AeadOk
<1>4. CASE ~Sound(ses, c)
  <2>1. \E e : Reports(l, "aead", c, e, i, q, FALSE)
    BY <1>1, <1>2, <1>3
  <2> QED
    BY <1>4, <2>1, UnsoundIsGood DEF l
<1> SUFFICES ASSUME Sound(ses, c) PROVE Good(ses, n, l)
  BY <1>4 DEF l
<1>5. n = c.tag_len /\ n \in Nat /\ (c.tag_len = 0 => authsize = 0)
  BY AeadTagIs
<1>6. /\ IsSeq(d) /\ c.rec.tag_len \in Nat
      /\ y = d \o Mac(c.rec.auth_len, d, c.rec.tag_len) /\ CaopLen(c) = Len(y)
  BY ModeIs DEF Filled, Made, CaopLen
<1> DEFINE g == Mac(c.rec.auth_len, d, c.rec.tag_len)
<1>7. IsSeq(g) /\ Len(g) = c.rec.tag_len
  BY <1>6, MacIsSeq
<1>8. y = d \o g
  BY <1>6
<1>9. m = CaopLen(c) - n
  BY <1>5
<1> HIDE DEF d, g, y, z, o, n, m
<1>10. Len(d) \in Nat /\ Len(y) = Len(d) + c.rec.tag_len /\ SubSeq(y, 1, Len(d)) = d
  <2>1. IsSeq(d) /\ IsSeq(g)
    BY <1>6, <1>7
  <2>2. Len(d) \in Nat /\ Len(d \o g) = Len(d) + Len(g) /\ SubSeq(d \o g, 1, Len(d)) = d
    BY <2>1, Joined, Zenon
  <2> QED
    BY <1>7, <1>8, <2>2
<1>11. n = c.rec.tag_len => ~(CaopLen(c) < n) /\ z = d
  <2> SUFFICES ASSUME n = c.rec.tag_len PROVE ~(CaopLen(c) < n) /\ z = d
    OBVIOUS
  <2>1. m = Len(d) /\ ~(CaopLen(c) < n)
    <3>1. CaopLen(c) = Len(d) + n
      BY <1>6, <1>10
    <3> QED
      BY <1>5, <1>9, <1>10, <3>1
  <2> QED
    BY <1>10, <2>1 DEF z
<1>12. CASE ~(CaopLen(c) < n) /\ AeadOk(c, x)
  <2>1. o = Success(c, z) /\ z = d
    BY <1>3, <1>11, <1>12 DEF AeadOk, n
  <2>2. Reports(l, "aead", c, "ok", i, q, FALSE) /\ Returns(l, d)
    BY <1>2, <2>1
  <2> QED
    BY <1>12, <2>2, GoodReport DEF Returns, d, AeadOk
<1>13. CASE CaopLen(c) < n \/ ~AeadOk(c, x)
  <2>1. PICK e \in {"EINVAL", "EBADMSG"} : o = Failed(c, e)
    BY <1>3, <1>13
  <2>2. Reports(l, "aead", c, e, i, q, FALSE)
    BY <1>1, <2>1
  <2>3. ~(i /\ q /\ SameAuth(c) /\ c.tag_len = c.rec.tag_len)
    BY <1>5, <1>11, <1>13 DEF AeadOk, n
  <2> QED
    BY <2>2, <2>3, GoodReport
<1> QED
  BY <1>12, <1>13

\* A TLS record for a sound request is a sequence.
LEMMA TlsBytes ==
  ASSUME AuthInv, ses.init, NEW c, Sound(ses, c), Made(ses, c.rec),
         ModeOf(ses, c.rec.flags) = "tls"
  PROVE  IsSeq(c.rec.bytes)
<1>1. ses.blocksize \in Nat /\ ses.blocksize > 0 /\ ses.digestsize \in Nat
  BY KindFacts
<1>2. HashTag(ses, c.rec.tag_len) /\ IsSeq(c.rec.data) /\ c.rec.tag_len \in Nat
  BY <1>1 DEF HashTag, Made, Sound
<1>3. c.rec.bytes = Padded(ses.blocksize, Tagged(ses, c.rec))
  BY <1>2 DEF Made
<1>4. PICK p \in Nat : Layout(c.rec.bytes, c.rec.auth_len, c.rec.data, TagOf(ses, c.rec), p)
  BY <1>1, <1>2, <1>3, PaddedLayout
<1> QED
  BY <1>4 DEF Layout

\* A record that was made passes the checks: only what a property names
\* is refused.
LEMMA RefusedIsGood ==
  ASSUME AuthInv, ses.init, NEW c, c.op \in {"encrypt", "decrypt"},
         Filled(ses, authsize, c),
         ~Accepts(c) \/ (Mode(c) = "aead" /\ c.tag_len > authsize)
  PROVE  Good(ses, authsize, Refused(c))
<1>1. CASE c.op # "decrypt"
  BY <1>1, NothingIsGood DEF Refused
<1>2. CASE c.op = "decrypt"
  <2> DEFINE q == CallIv(c) = c.rec.iv  l == Refused(c)  m == Mode(c)
  <2>1. Reports(l, m, c, "EINVAL", TRUE, q, FALSE)
    BY <1>2 DEF Refused, Undecided, Failed, Nothing, Reports
  <2>2. CASE ~Sound(ses, c)
    BY <2>1, <2>2 DEF Good, Verified, Reports
  <2> SUFFICES ASSUME Sound(ses, c) PROVE Good(ses, authsize, l)
    BY <2>2
  <2>3. Made(ses, c.rec) /\ m = ModeOf(ses, c.rec.flags)
    BY <1>2, ModeIs DEF Filled
  <2>4. c.dst_len = Len(c.rec.bytes) /\ CaopLen(c) = Len(c.rec.bytes)
    BY <1>2 DEF Filled, CaopLen
  <2>5. IsSeq(c.rec.bytes)
    <3>1. CASE m = "srtp"
      BY <2>3, <3>1 DEF Made
    <3>2. CASE m = "tls"
      BY <2>3, <3>2, TlsBytes
    <3>3. CASE m = "aead"
      <4>1. /\ IsSeq(c.rec.data) /\ c.rec.tag_len \in Nat
            /\ c.rec.bytes = c.rec.data \o Mac(c.rec.auth_len, c.rec.data, c.rec.tag_len)
        BY <2>3, <3>3 DEF Made
      <4>2. IsSeq(Mac(c.rec.auth_len, c.rec.data, c.rec.tag_len))
        BY <4>1, MacIsSeq
      <4> QED
        BY <4>1, <4>2, Joined
    <3> QED
      BY <2>3, <3>1, <3>2, <3>3 DEF Made, ModeOf
  <2>6. c.dst_len = 0 => c.rec.bytes = <<>>
    <3>1. PICK T : c.rec.bytes \in Seq(T)
      BY <2>5 DEF IsSeq
    <3> QED
      BY <2>4, <3>1, EmptySeq
  <2>7. SameAuth(c) =>
          \/ m = "aead" /\ c.tag_len > authsize
          \/ m # "aead" /\ c.rec.bytes = <<>>
    <3> SUFFICES ASSUME SameAuth(c)
                 PROVE  \/ m = "aead" /\ c.tag_len > authsize
                        \/ m # "aead" /\ c.rec.bytes = <<>>
      OBVIOUS
    <3>1. CASE m = "srtp"
      <4>1. "SRTP" \in c.flags
        BY <3>1 DEF Mode
      <4>2. /\ ses.stream /\ ~ses.aead
            /\ c.head \in Nat /\ c.head <= MaxDiff /\ c.head < c.auth_len /\ c.auth_len \in Nat
        BY <2>3, <3>1, <4>1 DEF Made, SameAuth
      <4>3. "dst" \notin c.null /\ c.auth_len # 0
        BY <4>2 DEF Sound
      <4>4. c.dst_len = 0
        BY <3>1, <4>2, <4>3 DEF Accepts
      <4> QED
        BY <2>6, <3>1, <4>4
    <3>2. CASE m = "tls"
      <4>1. c.auth_len <= PageSize /\ "dst" \notin c.null
        BY <2>3, <3>2 DEF Made, SameAuth, Sound
      <4>2. c.dst_len = 0
        BY <3>2, <4>1 DEF Accepts
      <4> QED
        BY <2>6, <3>2, <4>2
    <3>3. CASE m = "aead"
      <4>1. c.auth_len <= PageSize
        BY <2>3, <3>3 DEF Made, SameAuth
      <4>2. Accepts(c)
        BY <3>3, <4>1 DEF Accepts
      <4> QED
        BY <3>3, <4>2
    <3>4. m \in {"srtp", "tls", "aead"}
      BY <2>3 DEF Made, ModeOf
    <3> QED
      BY <3>1, <3>2, <3>3, <3>4
  <2> HIDE DEF l, m, q
  <2>8. Authentic(ses, l)
    BY <2>1 DEF Authentic, Reports
  <2>9. Opened(authsize, l)
    BY <2>1, <2>7 DEF Opened, Reports
  <2>10. l.ret # "overrun" /\ Verified(l)
    BY <2>1 DEF Reports, Verified
  <2> QED
    BY <2>8, <2>9, <2>10 DEF Good, l
<1> QED
  BY <1>1, <1>2

-----------------------------------------------------------------------------
(* The steps.                                                              *)

\* A transform's tag length only shrinks, which keeps every request.
LEMMA ShorterTag ==
  ASSUME NEW k, NEW az \in Nat, NEW bz \in Nat, bz <= az
  PROVE  \A c : Filled(k, az, c) => Filled(k, bz, c)
<1>1. az = 0 => bz = 0
  OBVIOUS
<1> QED
  BY <1>1 DEF Filled

\* A step that ends or fills one request, leaves the session and can only shorten
\* the tag of the transform preserves the invariant.
LEMMA Preserved ==
  ASSUME AuthInv, NEW t \in Thread, NEW v, kcaop' = [kcaop EXCEPT ![t] = v],
         ses' = ses, authsize' \in Nat, authsize' <= authsize,
         ses.init => wire' = wire \/ Made(ses, wire'),
         ses.init => Filled(ses, authsize', v)
  PROVE  AuthInv'
<1>1. authsize \in Nat /\ ses \in Kind \cup {NoSession} /\ DOMAIN kcaop = Thread
  BY DEF AuthInv
<1>2. DOMAIN kcaop' = Thread
  BY <1>1
<1>3. ASSUME ses.init
      PROVE  /\ authsize' <= ses.maxtag
             /\ wire' = NoRecord \/ Made(ses, wire')
             /\ \A u \in Thread : Filled(ses, authsize', kcaop'[u])
  <2>1. wire = NoRecord \/ Made(ses, wire)
    BY <1>3 DEF AuthInv
  <2>2. \A u \in Thread : Filled(ses, authsize, kcaop[u])
    BY <1>3 DEF AuthInv
  <2>3. wire' = NoRecord \/ Made(ses, wire')
    BY <1>3, <2>1
  <2>4. ASSUME NEW u \in Thread PROVE Filled(ses, authsize', kcaop'[u])
    <3>1. Filled(ses, authsize', kcaop[u])
      BY <1>1, <2>2, ShorterTag
    <3>2. kcaop'[u] = IF u = t THEN v ELSE kcaop[u]
      BY <1>1
    <3> QED
      BY <1>3, <3>1, <3>2
  <2>5. authsize' <= ses.maxtag
    <3>1. authsize <= ses.maxtag /\ ses.maxtag \in Nat
      BY <1>3, KindFacts DEF AuthInv
    <3> QED
      BY <1>1, <3>1
  <2> QED
    BY <2>3, <2>4, <2>5
<1> QED
  BY <1>1, <1>2, <1>3 DEF AuthInv

\* A thread without a request satisfies what is said of requests.
LEMMA NoCallIsFilled ==
  ASSUME NEW k, NEW az PROVE Filled(k, az, NoCall)
BY DEF Filled, NoCall

\* The end of a call that makes no record.
LEMMA CallEnds ==
  ASSUME AuthInv, NEW t \in Thread, kcaop' = [kcaop EXCEPT ![t] = NoCall],
         ses' = ses, wire' = wire, authsize' \in Nat, authsize' <= authsize
  PROVE  AuthInv'
<1>1. Filled(ses, authsize', NoCall)
  BY NoCallIsFilled
<1> QED
  BY <1>1, Preserved

\* What every step that runs a request to its end knows of it.
LEMMA RunFacts ==
  ASSUME AuthInv, NEW t \in Thread, NEW m, NEW o, Run(t, m, o)
  PROVE  /\ ses.init /\ ses' = ses /\ authsize \in Nat
         /\ kcaop[t].op = o /\ o \in {"encrypt", "decrypt"}
         /\ Filled(ses, authsize, kcaop[t])
         /\ Mode(kcaop[t]) = m /\ ModeOf(ses, kcaop[t].flags) = m
         /\ Accepts(kcaop[t])
         /\ kcaop' = [kcaop EXCEPT ![t] = NoCall]
BY ModeIs DEF Run, Ready, Usable, AuthInv

\* A TLS record fits the length that cryptodev_get_dst_len computed, which
\* leaves room for a tag even where there is none.
LEMMA TlsFits ==
  ASSUME NEW k, k.blocksize \in Nat, k.blocksize > 0,
         NEW r, IsSeq(r.data), r.tag_len \in Nat, NEW n, n = Len(r.data) + r.tag_len
  PROVE  Len(Padded(k.blocksize, Tagged(k, r))) <= n + PadTo(k.blocksize, n)
<1> DEFINE b == k.blocksize  t == TagOf(k, r)  l == Len(r.data)  y == Padded(b, Tagged(k, r))
<1>1. PICK p \in Nat : /\ p <= PadTo(b, l + t)
                       /\ Layout(y, r.auth_len, r.data, t, p)
  BY PaddedLayout
<1>2. t \in Nat /\ t <= r.tag_len
  BY DEF TagOf
<1>3. b \in Nat /\ b > 0 /\ r.tag_len \in Nat /\ l \in Nat
  BY JoinEmpty
<1> HIDE DEF b, t, l, y
<1>4. Len(y) = l + t + p
  BY <1>1 DEF Layout, l
<1>5. n \in Nat /\ l + t \in Nat /\ l + t <= n
  BY <1>2, <1>3 DEF l
<1>6. l + t + PadTo(b, l + t) <= n + PadTo(b, n)
  BY <1>3, <1>5, PadMonotonic
<1>7. PadTo(b, l + t) \in 1..b /\ PadTo(b, n) \in 1..b
  BY <1>3, <1>5, PadLength
<1>8. Len(y) <= n + PadTo(b, n)
  BY <1>1, <1>2, <1>3, <1>4, <1>5, <1>6, <1>7
<1> QED
  BY <1>8 DEF b, y

\* The record of a tag that is no longer than the digest, as r describes it.
LEMMA TlsRecordIs ==
  ASSUME NEW c, NEW r, r.data = c.rec.data, r.auth_len = c.auth_len, r.tag_len = c.tag_len,
         c.tag_len \in Nat, ses.digestsize \in Nat, HashTag(ses, c.tag_len)
  PROVE  TlsRecord(c) = Padded(ses.blocksize, Tagged(ses, r))
<1> DEFINE w == c.rec.data \o (IF HasHash THEN Tag(c.auth_len, c.rec.data, c.tag_len) ELSE <<>>)
<1>1. w = Tagged(ses, r)
  <2>1. CASE ses.digestsize > 0
    <3>1. c.tag_len \in 0..ses.digestsize
      BY <2>1 DEF HashTag
    <3>2. Tag(c.auth_len, c.rec.data, c.tag_len) = Mac(c.auth_len, c.rec.data, c.tag_len)
      BY <3>1, TagIs
    <3> QED
      BY <2>1, <3>2 DEF Tagged, HasHash
  <2>2. CASE ~(ses.digestsize > 0)
    BY <2>2 DEF Tagged, HasHash
  <2> QED
    BY <2>1, <2>2
<1>2. TlsRecord(c) = PadRecord(w)
  BY DEF TlsRecord
<1> HIDE DEF w
<1> QED
  BY <1>1, <1>2, PadRecordIs

\* A sound request is given what it asks for, in every mode.
LEMMA SoundHolds ==
  ASSUME AuthInv, ses.init, NEW c, c.op \in {"encrypt", "decrypt"},
         Filled(ses, authsize, c), Accepts(c), Sound(ses, c),
         Mode(c) = "aead" => c.tag_len <= authsize
  PROVE  Holds(c)
<1> DEFINE H == IntMod \div 2  b == ses.blocksize  l == Len(c.rec.data)  n == l + c.tag_len
<1>1. /\ b \in Nat /\ b > 0 /\ ses.digestsize \in 0..MaxResult /\ ses.digestsize \in Nat
      /\ H \in Nat /\ MaxResult \in Nat
  BY KindFacts, AuthEncAssumption
<1>2. /\ c.tag_len \in Nat /\ c.auth_len \in Nat /\ c.head \in Nat /\ IsSeq(c.rec.data)
      /\ ses.digestsize > 0 => c.tag_len > 0
  BY DEF Filled
<1>3. l \in Nat /\ n \in Nat
  BY <1>2, JoinEmpty
<1>4. HasHash => c.tag_len <= MaxResult
  BY <1>1, <1>2 DEF Sound, HasHash
<1>5. PadTo(b, n) \in 1..b
  BY <1>1, <1>3, PadLength
<1>6. CASE Mode(c) = "srtp"
  <2>1. "SRTP" \in c.flags
    BY <1>6 DEF Mode
  <2>2. "auth_src" \notin c.null /\ c.head + CaopLen(c) <= c.auth_len
    BY <2>1 DEF Sound
  <2> QED
    BY <1>4, <1>6, <2>2 DEF Holds
<1>7. CASE Mode(c) # "srtp"
  <2>1. "SRTP" \notin c.flags
    BY <1>7 DEF Mode
  <2>2. "dst" \notin c.null /\ (c.auth_len > 0 => "auth_src" \notin c.null)
    BY <2>1 DEF Sound
  <2>3. CaopLen(c) + c.tag_len + b < H
    BY DEF Sound
  <2>4. ASSUME c.op = "encrypt"
        PROVE  /\ c.dst_len = IF "TLS" \in c.flags THEN n + PadTo(b, n) ELSE n
               /\ CaopLen(c) = l /\ n + b < H
    <3>1. CaopLen(c) = l
      BY <2>4 DEF CaopLen
    <3>2. n + b < H
      BY <2>3, <3>1
    <3> QED
      BY <2>4, <3>1, <3>2 DEF Filled
  <2> HIDE DEF H, b, l, n
  <2>5. CASE Mode(c) = "aead"
    <3>1. AeadTag(c) = c.tag_len
      BY <2>5, AeadTagIs
    <3>2. c.op = "encrypt" => CaopLen(c) + AeadTag(c) <= c.dst_len
      <4> SUFFICES ASSUME c.op = "encrypt" PROVE l + c.tag_len <= c.dst_len
        BY <2>4, <3>1
      <4> QED
        BY <1>1, <1>3, <1>5, <2>4 DEF n
    <3> QED
      BY <2>2, <2>5, <3>2 DEF Holds
  <2>6. CASE Mode(c) = "tls"
    <3>1. "TLS" \in c.flags
      BY <2>6 DEF Mode
    <3>2. c.op = "encrypt" => c.dst_len < H
      <4> SUFFICES ASSUME c.op = "encrypt" PROVE c.dst_len < H
        OBVIOUS
      <4> QED
        BY <1>1, <1>3, <1>5, <2>4, <3>1
    <3>3. c.op = "decrypt" => c.dst_len < H
      <4> SUFFICES ASSUME c.op = "decrypt" PROVE c.dst_len < H
        OBVIOUS
      <4>1. Made(ses, c.rec) /\ c.flags = c.rec.flags /\ c.dst_len = CaopLen(c)
        BY DEF Filled, CaopLen
      <4>2. ModeOf(ses, c.rec.flags) = "tls"
        BY <2>6, <4>1, ModeIs
      <4>3. IsSeq(c.rec.bytes)
        BY <4>1, <4>2, TlsBytes
      <4>4. CaopLen(c) \in Nat
        BY <4>3, JoinEmpty DEF CaopLen
      <4> QED
        BY <1>1, <1>2, <2>3, <4>1, <4>4
    <3>4. c.op = "encrypt" => Len(TlsRecord(c)) <= c.dst_len
      <4> SUFFICES ASSUME c.op = "encrypt" PROVE Len(TlsRecord(c)) <= c.dst_len
        OBVIOUS
      <4> DEFINE r == [data |-> c.rec.data, auth_len |-> c.auth_len, tag_len |-> c.tag_len]
      <4>1. r.data = c.rec.data /\ r.auth_len = c.auth_len /\ r.tag_len = c.tag_len
        OBVIOUS
      <4>2. HashTag(ses, c.tag_len)
        BY <1>1, <1>2 DEF HashTag, Sound
      <4> HIDE DEF r
      <4>3. TlsRecord(c) = Padded(ses.blocksize, Tagged(ses, r))
        BY <1>1, <1>2, <4>1, <4>2, TlsRecordIs
      <4>4. /\ IsSeq(r.data) /\ r.tag_len \in Nat /\ n = Len(r.data) + r.tag_len
            /\ ses.blocksize \in Nat /\ ses.blocksize > 0
        BY <1>1, <1>2, <4>1 DEF n, l, b
      <4>5. Len(Padded(ses.blocksize, Tagged(ses, r))) <= n + PadTo(ses.blocksize, n)
        BY <4>4, TlsFits
      <4> QED
        BY <2>4, <3>1, <4>3, <4>5 DEF b
    <3> QED
      BY <1>4, <2>2, <2>6, <3>2, <3>3, <3>4 DEF Holds, H
  <2>7. Mode(c) \in {"aead", "tls"}
    BY <1>7 DEF Accepts, Mode
  <2> QED
    BY <2>5, <2>6, <2>7
<1> QED
  BY <1>6, <1>7

\* Preservation by TlsEncrypt: the record that is made has the TLS layout.
LEMMA TlsEncryptStep ==
  ASSUME AuthInv, NEW t \in Thread, TlsEncrypt(t)
  PROVE  AuthInv' /\ Good(ses', authsize', last')
<1> DEFINE c == kcaop[t]  r == wire'
<1>1. /\ ses.init /\ ses' = ses /\ authsize \in Nat /\ c.op = "encrypt"
      /\ Filled(ses, authsize, c) /\ ModeOf(ses, c.flags) = "tls" /\ Mode(c) = "tls"
      /\ Accepts(c) /\ kcaop' = [kcaop EXCEPT ![t] = NoCall]
  BY RunFacts DEF TlsEncrypt
<1>2. wire' = Record(c, TlsRecord(c)) /\ last' = Nothing /\ authsize' = authsize
  BY DEF TlsEncrypt
<1>3. ses.blocksize \in Nat /\ ses.blocksize > 0 /\ ses.digestsize \in Nat
  BY <1>1, KindFacts
<1>4. /\ IsSeq(c.rec.data) /\ c.auth_len \in Nat /\ c.head \in Nat /\ c.tag_len \in Nat
      /\ ses.digestsize > 0 => c.tag_len > 0
  BY <1>1 DEF Filled
<1>5. c.auth_len <= PageSize
  BY <1>1 DEF Accepts
<1>6. r.flags = c.flags /\ r.auth_len = c.auth_len /\ r.head = c.head /\ r.data = c.rec.data
      /\ r.tag_len = c.tag_len /\ r.bytes = TlsRecord(c)
  BY <1>2 DEF Record
<1> HIDE DEF r
<1>7. HashTag(ses, r.tag_len) => r.bytes = Padded(ses.blocksize, Tagged(ses, r))
  BY <1>3, <1>4, <1>6, TlsRecordIs
<1>8. Made(ses, r)
  BY <1>1, <1>4, <1>5, <1>6, <1>7 DEF Made
<1>9. AuthInv'
  <2>1. Filled(ses, authsize', NoCall)
    BY NoCallIsFilled
  <2>2. authsize' <= authsize /\ authsize' \in Nat
    BY <1>1, <1>2
  <2>3. Made(ses, wire')
    BY <1>8 DEF r
  <2> QED
    BY <1>1, <2>1, <2>2, <2>3, Preserved
<1> QED
  BY <1>2, <1>9, NothingIsGood

\* Preservation by TlsDecrypt.
LEMMA TlsDecryptStep ==
  ASSUME AuthInv, NEW t \in Thread, TlsDecrypt(t)
  PROVE  AuthInv' /\ Good(ses', authsize', last')
<1> DEFINE c == kcaop[t]
<1>1. /\ ses.init /\ ses' = ses /\ authsize \in Nat /\ c.op = "decrypt"
      /\ Filled(ses, authsize, c) /\ Mode(c) = "tls"
      /\ kcaop' = [kcaop EXCEPT ![t] = NoCall]
  BY RunFacts DEF TlsDecrypt
<1>2. wire' = wire /\ authsize' = authsize
  BY DEF TlsDecrypt
<1>3. PICK x \in Arrivals(c) : \E s \in Decrypts(c.rec.bytes, x.intact /\ x.same) :
        last' = [TlsOpen(c, s, x.junk) EXCEPT !.intact = x.intact, !.same = x.same,
                                              !.decrypted = TRUE]
  BY DEF TlsDecrypt
<1>4. x.intact \in BOOLEAN /\ x.same \in BOOLEAN
  BY DEF Arrivals
<1>5. Good(ses, authsize, last')
  <2>1. PICK s \in Decrypts(c.rec.bytes, x.intact /\ x.same) :
        last' = [TlsOpen(c, s, x.junk) EXCEPT !.intact = x.intact, !.same = x.same,
                                              !.decrypted = TRUE]
    BY <1>3
  <2> HIDE DEF c
  <2> QED
    BY <1>1, <1>4, <2>1, TlsIsGood
<1>6. AuthInv'
  <2>1. authsize' \in Nat /\ authsize' <= authsize
    BY <1>1, <1>2
  <2> QED
    BY <1>1, <1>2, <2>1, CallEnds
<1> QED
  BY <1>1, <1>2, <1>5, <1>6

\* Preservation by SrtpEncrypt.
LEMMA SrtpEncryptStep ==
  ASSUME AuthInv, NEW t \in Thread, SrtpEncrypt(t)
  PROVE  AuthInv' /\ Good(ses', authsize', last')
<1> DEFINE c == kcaop[t]  r == wire'
<1>1. /\ ses.init /\ ses' = ses /\ authsize \in Nat /\ c.op = "encrypt"
      /\ Filled(ses, authsize, c) /\ ModeOf(ses, c.flags) = "srtp" /\ Mode(c) = "srtp"
      /\ Accepts(c) /\ kcaop' = [kcaop EXCEPT ![t] = NoCall]
  BY RunFacts DEF SrtpEncrypt
<1>2. wire' = Record(c, c.rec.data) /\ last' = Nothing /\ authsize' = authsize
  BY DEF SrtpEncrypt
<1>3. IsSeq(c.rec.data) /\ c.auth_len \in Nat /\ c.head \in Nat /\ c.tag_len \in Nat
  BY <1>1 DEF Filled
<1>4. ses.stream /\ ~ses.aead /\ c.head <= MaxDiff /\ c.head < c.auth_len
  <2>1. "auth_src" \notin c.null
    BY <1>1 DEF SrtpEncrypt, Holds
  <2> QED
    BY <1>1, <2>1 DEF Accepts
<1>5. r.flags = c.flags /\ r.auth_len = c.auth_len /\ r.head = c.head /\ r.data = c.rec.data
      /\ r.tag_len = c.tag_len /\ r.bytes = c.rec.data
  BY <1>2 DEF Record
<1> HIDE DEF r
<1>6. Made(ses, r)
  BY <1>1, <1>3, <1>4, <1>5 DEF Made
<1>7. AuthInv'
  <2>1. Filled(ses, authsize', NoCall)
    BY NoCallIsFilled
  <2>2. authsize' <= authsize /\ authsize' \in Nat
    BY <1>1, <1>2
  <2>3. Made(ses, wire')
    BY <1>2, <1>6 DEF r
  <2> QED
    BY <1>1, <2>1, <2>2, <2>3, Preserved
<1> QED
  BY <1>2, <1>7, NothingIsGood

\* Preservation by SrtpDecrypt.
LEMMA SrtpDecryptStep ==
  ASSUME AuthInv, NEW t \in Thread, SrtpDecrypt(t)
  PROVE  AuthInv' /\ Good(ses', authsize', last')
<1> DEFINE c == kcaop[t]
<1>1. /\ ses.init /\ ses' = ses /\ authsize \in Nat /\ c.op = "decrypt"
      /\ Filled(ses, authsize, c) /\ Mode(c) = "srtp"
      /\ kcaop' = [kcaop EXCEPT ![t] = NoCall]
  BY RunFacts DEF SrtpDecrypt
<1>2. wire' = wire /\ authsize' = authsize
  BY DEF SrtpDecrypt
<1>3. PICK x \in Arrivals(c) : \E s \in Decrypts(c.rec.bytes, x.intact /\ x.same) :
        last' = SrtpReport(c, x, s)
  BY DEF SrtpDecrypt, SrtpReport
<1>4. x.intact \in BOOLEAN /\ x.same \in BOOLEAN
  BY DEF Arrivals
<1>5. Good(ses, authsize, last')
  <2>1. PICK s \in Decrypts(c.rec.bytes, x.intact /\ x.same) :
        last' = SrtpReport(c, x, s)
    BY <1>3
  <2> HIDE DEF c
  <2> QED
    BY <1>1, <1>4, <2>1, SrtpIsGood
<1>6. AuthInv'
  <2>1. authsize' \in Nat /\ authsize' <= authsize
    BY <1>1, <1>2
  <2> QED
    BY <1>1, <1>2, <2>1, CallEnds
<1> QED
  BY <1>1, <1>2, <1>5, <1>6

\* Preservation by AeadRefused.
LEMMA AeadRefusedStep ==
  ASSUME AuthInv, NEW t \in Thread, AeadRefused(t)
  PROVE  AuthInv' /\ Good(ses', authsize', last')
<1> DEFINE c == kcaop[t]
<1>1. /\ ses.init /\ ses' = ses /\ authsize \in Nat /\ c.op \in {"encrypt", "decrypt"}
      /\ Filled(ses, authsize, c) /\ Mode(c) = "aead"
      /\ kcaop' = [kcaop EXCEPT ![t] = NoCall]
  BY RunFacts DEF AeadRefused
<1>2. wire' = wire /\ authsize' = authsize /\ last' = Refused(c) /\ c.tag_len > authsize
  BY DEF AeadRefused
<1>3. Good(ses, authsize, Refused(c))
  <2> HIDE DEF c
  <2> QED
    BY <1>1, <1>2, RefusedIsGood
<1>4. AuthInv'
  <2>1. authsize' \in Nat /\ authsize' <= authsize
    BY <1>1, <1>2
  <2> QED
    BY <1>1, <1>2, <2>1, CallEnds
<1> QED
  BY <1>1, <1>2, <1>3, <1>4

\* Preservation by AeadDecrypt, which may set a shorter tag length.
LEMMA AeadDecryptStep ==
  ASSUME AuthInv, NEW t \in Thread, AeadDecrypt(t)
  PROVE  AuthInv' /\ Good(ses', authsize', last')
<1> DEFINE c == kcaop[t]
<1>1. /\ ses.init /\ ses' = ses /\ authsize \in Nat /\ c.op = "decrypt"
      /\ Filled(ses, authsize, c) /\ Mode(c) = "aead"
      /\ kcaop' = [kcaop EXCEPT ![t] = NoCall]
  BY RunFacts DEF AeadDecrypt
<1>2. wire' = wire /\ authsize' = AeadTag(c) /\ c.tag_len <= authsize
  BY DEF AeadDecrypt
<1>3. PICK x \in Arrivals(c) : last' = AeadReport(c, x)
  BY DEF AeadDecrypt, AeadReport
<1>4. x.intact \in BOOLEAN /\ x.same \in BOOLEAN
  BY DEF Arrivals
<1> HIDE DEF c
<1>5. AeadTag(c) \in Nat /\ AeadTag(c) <= authsize
  BY <1>1, <1>2, AeadTagIs
<1>6. Good(ses, AeadTag(c), last')
  BY <1>1, <1>2, <1>3, <1>4, AeadIsGood
<1>7. AuthInv'
  BY <1>1, <1>2, <1>5, CallEnds
<1> QED
  BY <1>1, <1>2, <1>6, <1>7

\* Preservation by AeadEncrypt, which may set a shorter tag length.
LEMMA AeadEncryptStep ==
  ASSUME AuthInv, NEW t \in Thread, AeadEncrypt(t)
  PROVE  AuthInv' /\ Good(ses', authsize', last')
<1> DEFINE c == kcaop[t]  r == wire'  d == c.rec.data  n == AeadTag(c)
<1>1. /\ ses.init /\ ses' = ses /\ authsize \in Nat /\ c.op = "encrypt"
      /\ Filled(ses, authsize, c) /\ ModeOf(ses, c.flags) = "aead" /\ Mode(c) = "aead"
      /\ Accepts(c) /\ kcaop' = [kcaop EXCEPT ![t] = NoCall]
  BY RunFacts DEF AeadEncrypt
<1>2. /\ authsize' = n /\ c.tag_len <= authsize /\ last' = Nothing
      /\ wire' = [Record(c, d \o Mac(c.auth_len, d, n)) EXCEPT !.tag_len = n]
  BY DEF AeadEncrypt
<1>3. IsSeq(d) /\ c.auth_len \in Nat /\ c.head \in Nat
  BY <1>1 DEF Filled
<1>4. c.auth_len <= PageSize
  BY <1>1 DEF Accepts
<1>5. r.flags = c.flags /\ r.auth_len = c.auth_len /\ r.head = c.head /\ r.data = d
      /\ r.tag_len = n /\ r.bytes = d \o Mac(c.auth_len, d, n)
  BY <1>2 DEF Record
<1>6. n \in Nat /\ n <= authsize
  <2> HIDE DEF c
  <2> QED
    BY <1>1, <1>2, AeadTagIs
<1> HIDE DEF r, d, n
<1>7. Made(ses, r)
  BY <1>1, <1>3, <1>4, <1>5, <1>6 DEF Made
<1>8. AuthInv'
  <2>1. Filled(ses, authsize', NoCall)
    BY NoCallIsFilled
  <2>2. authsize' <= authsize /\ authsize' \in Nat
    BY <1>2, <1>6
  <2>3. Made(ses, wire')
    BY <1>7 DEF r
  <2> QED
    BY <1>1, <2>1, <2>2, <2>3, Preserved
<1> QED
  BY <1>2, <1>8, NothingIsGood

\* Preservation by RunRefused.
LEMMA RunRefusedStep ==
  ASSUME AuthInv, NEW t \in Thread, RunRefused(t)
  PROVE  AuthInv' /\ Good(ses', authsize', last')
<1> DEFINE c == kcaop[t]
<1>1. /\ ses = NoSession \/ ~Usable(c) \/ ~Accepts(c)
      /\ kcaop' = [kcaop EXCEPT ![t] = NoCall]
      /\ last' = IF Usable(c) THEN Refused(c) ELSE Nothing
      /\ ses' = ses /\ authsize' = authsize /\ wire' = wire
  BY DEF RunRefused
<1>2. authsize \in Nat
  BY DEF AuthInv
<1>3. AuthInv'
  <2>1. authsize' \in Nat /\ authsize' <= authsize
    BY <1>1, <1>2
  <2> QED
    BY <1>1, <2>1, CallEnds
<1>4. CASE ~Usable(c)
  BY <1>1, <1>3, <1>4, NothingIsGood
<1>5. CASE Usable(c)
  <2>1. ses.init /\ c.op \in {"encrypt", "decrypt"}
    BY <1>5 DEF Usable
  <2>2. ~Accepts(c)
    BY <1>1, <1>5, <2>1 DEF NoSession
  <2>3. Filled(ses, authsize, c)
    BY <2>1 DEF AuthInv
  <2> HIDE DEF c
  <2>4. Good(ses, authsize, Refused(c))
    BY <2>1, <2>2, <2>3, RefusedIsGood
  <2> QED
    BY <1>1, <1>3, <1>5, <2>4
<1> QED
  BY <1>4, <1>5

\* Preservation by RunFails, with the tag length set or not.
LEMMA RunFailsStep ==
  ASSUME AuthInv, NEW t \in Thread, RunFails(t)
  PROVE  AuthInv' /\ Good(ses', authsize', last')
<1> DEFINE c == kcaop[t]
<1>1. /\ ses.init /\ c.op \in {"encrypt", "decrypt"} /\ authsize \in Nat
      /\ Filled(ses, authsize, c)
  BY DEF RunFails, Usable, AuthInv
<1>2. /\ wire' = wire /\ last' = Nothing /\ ses' = ses
      /\ kcaop' = [kcaop EXCEPT ![t] = NoCall]
      /\ authsize' = authsize \/
           (Mode(c) = "aead" /\ c.tag_len <= authsize /\ authsize' = AeadTag(c))
  BY DEF RunFails
<1> HIDE DEF c
<1>3. authsize' \in Nat /\ authsize' <= authsize
  <2>1. CASE authsize' = authsize
    BY <1>1, <2>1
  <2>2. CASE Mode(c) = "aead" /\ c.tag_len <= authsize /\ authsize' = AeadTag(c)
    BY <1>1, <2>2, AeadTagIs
  <2> QED
    BY <1>2, <2>1, <2>2
<1>4. AuthInv'
  BY <1>2, <1>3, CallEnds
<1> QED
  BY <1>2, <1>4, NothingIsGood

\* Preservation by RunsOff: the request was not a sound one.
LEMMA RunsOffStep ==
  ASSUME AuthInv, NEW t \in Thread, RunsOff(t)
  PROVE  AuthInv' /\ Good(ses', authsize', last')
<1> DEFINE c == kcaop[t]
<1>1. /\ ses.init /\ c.op \in {"encrypt", "decrypt"} /\ authsize \in Nat
      /\ Filled(ses, authsize, c) /\ Accepts(c)
  BY DEF RunsOff, Ready, Usable, AuthInv
<1>2. /\ wire' = wire /\ ses' = ses /\ ~Holds(c)
      /\ Mode(c) = "aead" => c.tag_len <= authsize
      /\ authsize' = IF Mode(c) = "aead" THEN AeadTag(c) ELSE authsize
      /\ last' = Undecided(c, "overrun")
  BY DEF RunsOff
<1>3. PICK v \in {NoCall, [NoCall EXCEPT !.op = "oops"]} : kcaop' = [kcaop EXCEPT ![t] = v]
  BY DEF RunsOff
<1>4. v.op \notin {"encrypt", "decrypt"}
  BY <1>3 DEF NoCall
<1> HIDE DEF c
<1>5. authsize' \in Nat /\ authsize' <= authsize
  BY <1>1, <1>2, AeadTagIs
<1>6. Filled(ses, authsize', v)
  BY <1>4 DEF Filled
<1>7. AuthInv'
  BY <1>2, <1>3, <1>5, <1>6, Preserved
<1>8. ~Sound(ses, c)
  BY <1>1, <1>2, SoundHolds
<1>9. last'.call = c /\ last'.ret = "overrun"
  BY <1>2 DEF Undecided, Failed, Nothing
<1> QED
  BY <1>2, <1>7, <1>8, <1>9 DEF Good, Verified

\* Preservation by Finish: without a session nothing is claimed of the requests.
LEMMA FinishStep ==
  ASSUME AuthInv, Finish
  PROVE  AuthInv' /\ Good(ses', authsize', last')
<1>1. ses' = NoSession /\ authsize' = authsize /\ kcaop' = kcaop /\ last' = Nothing
  BY DEF Finish
<1>2. ~ses'.init
  BY <1>1 DEF NoSession
<1> QED
  BY <1>1, <1>2, NothingIsGood DEF AuthInv

\* What cryptodev_get_dst_len makes of the length n of a text and its tag.
DstLen(f, n) ==
  LET m   == n % IntMod
      pad == IF m < IntMod \div 2 THEN PadSize(m)
             ELSE ses.blocksize + ((IntMod - m) % ses.blocksize)
  IN  IF "TLS" \in f THEN (m + pad) % IntMod ELSE m

\* A length that leaves room for a block below the largest int does not wrap.
LEMMA NoWrap ==
  ASSUME AuthInv, ses.init, NEW f, NEW n \in Nat, n + ses.blocksize < IntMod \div 2
  PROVE  DstLen(f, n) = IF "TLS" \in f THEN n + PadTo(ses.blocksize, n) ELSE n
<1> DEFINE b == ses.blocksize  H == IntMod \div 2
<1>1. b \in Nat /\ b > 0 /\ IntMod \in Nat /\ IntMod > 0
  BY KindFacts, AuthEncAssumption
<1>2. H \in Nat /\ H <= IntMod
  BY <1>1
<1>3. PadTo(b, n) \in 1..b /\ PadSize(n) = PadTo(b, n)
  BY <1>1, PadLength DEF PadSize, PadTo
<1> HIDE DEF b, H
<1>4. n + b < H
  BY DEF b, H
<1>5. n < IntMod /\ n < H /\ n + PadTo(b, n) \in Nat /\ n + PadTo(b, n) < IntMod
  BY <1>1, <1>2, <1>3, <1>4
<1>6. \A m \in Nat : m < IntMod => m % IntMod = m
  BY <1>1
<1>7. n % IntMod = n /\ (n + PadTo(b, n)) % IntMod = n + PadTo(b, n)
  BY <1>5, <1>6
<1> QED
  BY <1>3, <1>5, <1>7 DEF DstLen, b, H

\* fill_kcaop_from_caop completes a request r, passed on as f.
LEMMA FillStep ==
  ASSUME AuthInv, NEW t \in Thread, NEW r \in Caop[t], NEW f,
         DOMAIN f = DOMAIN NoCall, f.op = r.op, f.tag_len = r.tag_len, f.auth_len = r.auth_len,
         f.head = r.head,
         r.op = "decrypt" => wire # NoRecord /\ f.flags = wire.flags /\ f.rec = wire,
         r.op # "decrypt" => f.rec.data = r.data,
         Fill(t, f)
  PROVE  AuthInv' /\ Good(ses', authsize', last')
<1> DEFINE d == [f EXCEPT !.tag_len = IF f.tag_len = 0 THEN GetTagLen ELSE f.tag_len]
           v == [d EXCEPT !.dst_len = GetDstLen(d)]
<1>1. /\ kcaop' = [kcaop EXCEPT ![t] = v] /\ last' = Nothing
      /\ ses' = ses /\ authsize' = authsize /\ wire' = wire
  BY DEF Fill
<1>2. {"op", "flags", "tag_len", "auth_len", "head", "rec", "dst_len"} \subseteq DOMAIN f
  BY DEF NoCall
<1>3. /\ v.op = f.op /\ v.flags = f.flags /\ v.auth_len = f.auth_len /\ v.head = f.head
      /\ v.rec = f.rec
      /\ d.op = f.op /\ d.flags = f.flags /\ d.rec = f.rec
      /\ v.tag_len = d.tag_len
      /\ d.tag_len = IF f.tag_len = 0 THEN GetTagLen ELSE f.tag_len
      /\ v.dst_len = GetDstLen(d)
  BY <1>2
<1> HIDE DEF v, d
<1>4. ASSUME ses.init, f.op \in {"encrypt", "decrypt"} PROVE Filled(ses, authsize, v)
  <2>1. ses \in Kind /\ ses.digestsize \in Nat /\ authsize \in Nat
    BY <1>4, KindFacts DEF AuthInv
  <2>2. r.tag_len \in Nat /\ r.auth_len \in Nat /\ r.head \in Nat /\ IsSeq(r.data)
    <3>1. /\ r.tag_len \in 0..(IntMod - 1) /\ r.auth_len \in Nat /\ r.head \in Nat
          /\ r.data \in Seq({r.data[j] : j \in DOMAIN r.data})
      BY AuthEncAssumption
    <3>2. IsSeq(r.data)
      BY <3>1 DEF IsSeq
    <3> QED
      BY <3>1, <3>2
  <2>3. /\ v.tag_len \in Nat
        /\ ses.digestsize > 0 => v.tag_len > 0
        /\ v.tag_len = 0 /\ ses.aead => authsize = 0
    BY <1>3, <1>4, <2>1, <2>2 DEF GetTagLen, HasHash
  <2>4. CASE f.op = "decrypt"
    <3>1. Made(ses, v.rec) /\ v.flags = v.rec.flags
      BY <1>3, <1>4, <2>4 DEF AuthInv
    <3>2. v.dst_len = Len(v.rec.bytes)
      BY <1>3, <2>4 DEF GetDstLen, CaopLen
    <3>3. IsSeq(v.rec.data)
      BY <3>1 DEF Made
    <3> QED
      BY <1>3, <2>2, <2>3, <2>4, <3>1, <3>2, <3>3 DEF Filled
  <2>5. CASE f.op = "encrypt"
    <3>1. IsSeq(v.rec.data)
      BY <1>3, <2>2, <2>5
    <3> DEFINE n == Len(v.rec.data) + v.tag_len
    <3>2. n \in Nat
      BY <2>3, <3>1, JoinEmpty
    <3>3. v.dst_len = DstLen(v.flags, n)
      BY <1>3, <2>5 DEF GetDstLen, CaopLen, DstLen
    <3> HIDE DEF n
    <3>4. n + ses.blocksize < IntMod \div 2 =>
            v.dst_len = IF "TLS" \in v.flags THEN n + PadTo(ses.blocksize, n) ELSE n
      BY <1>4, <3>2, <3>3, NoWrap
    <3>5. LET m == Len(v.rec.data) + v.tag_len
          IN  m + ses.blocksize < IntMod \div 2 =>
                v.dst_len = IF "TLS" \in v.flags THEN m + PadTo(ses.blocksize, m) ELSE m
      BY <3>4 DEF n
    <3> QED
      BY <1>3, <2>2, <2>3, <2>5, <3>1, <3>5 DEF Filled
  <2> QED
    BY <1>4, <2>4, <2>5
<1>5. ses.init => Filled(ses, authsize, v)
  <2>1. CASE f.op \in {"encrypt", "decrypt"}
    BY <1>4, <2>1
  <2>2. CASE f.op \notin {"encrypt", "decrypt"}
    BY <1>3, <2>2 DEF Filled
  <2> QED
    BY <2>1, <2>2
<1>6. AuthInv'
  <2>1. authsize' \in Nat /\ authsize' <= authsize
    BY <1>1 DEF AuthInv
  <2>2. ses.init => Filled(ses, authsize', v)
    BY <1>1, <1>5
  <2> QED
    BY <1>1, <2>1, <2>2, Preserved
<1> QED
  BY <1>1, <1>6, NothingIsGood

\* Preservation by AuthCrypt: the checks of fill_kcaop_from_caop.
LEMMA AuthCryptStep ==
  ASSUME AuthInv, Good(ses, authsize, last), NEW t \in Thread, AuthCrypt(t)
  PROVE  AuthInv' /\ Good(ses', authsize', last')
<1> DEFINE c(r) == [NoCall EXCEPT !.op = r.op, !.inplace = r.inplace, !.null = r.null,
                                  !.tag_len = r.tag_len, !.iv = r.iv,
                                  !.auth_len = r.auth_len, !.head = r.head]
           e(r) == [c(r) EXCEPT !.flags = r.flags, !.rec.data = r.data]
           d(r) == [c(r) EXCEPT !.flags = wire.flags, !.rec = wire]
<1>1. PICK r \in Caop[t] :
        IF r.op = "decrypt" THEN wire # NoRecord /\ Fill(t, d(r))
        ELSE Fill(t, e(r)) \/ FillDivides(t, e(r))
  BY Zenon DEF AuthCrypt
<1>2. CASE r.op = "decrypt"
  <2> DEFINE f == d(r)
  <2>1. /\ DOMAIN f = DOMAIN NoCall /\ f.op = r.op /\ f.tag_len = r.tag_len
        /\ f.auth_len = r.auth_len /\ f.head = r.head /\ f.flags = wire.flags /\ f.rec = wire
    BY DEF NoCall
  <2>2. wire # NoRecord /\ Fill(t, f)
    BY <1>1, <1>2
  <2> HIDE DEF f
  <2> QED
    BY <1>2, <2>1, <2>2, FillStep
<1>3. CASE r.op # "decrypt" /\ Fill(t, e(r))
  <2> DEFINE f == e(r)
  <2>1. /\ DOMAIN f = DOMAIN NoCall /\ f.op = r.op /\ f.tag_len = r.tag_len
        /\ f.auth_len = r.auth_len /\ f.head = r.head /\ f.rec.data = r.data
    BY DEF NoCall, NoRecord
  <2>2. Fill(t, f)
    BY <1>3
  <2> HIDE DEF f
  <2> QED
    BY <1>3, <2>1, <2>2, FillStep
<1>4. CASE FillDivides(t, e(r))
  <2> DEFINE v == [NoCall EXCEPT !.op = "oops"]
  <2>1. /\ kcaop' = [kcaop EXCEPT ![t] = v] /\ last' = last
        /\ ses' = ses /\ authsize' = authsize /\ wire' = wire
    BY <1>4 DEF FillDivides
  <2>2. v.op = "oops"
    BY DEF NoCall
  <2> HIDE DEF v
  <2>3. Filled(ses, authsize', v)
    BY <2>2 DEF Filled
  <2>4. authsize' \in Nat /\ authsize' <= authsize
    BY <2>1 DEF AuthInv
  <2>5. AuthInv'
    BY <2>1, <2>3, <2>4, Preserved
  <2> QED
    BY <2>1, <2>5
<1> QED
  BY <1>1, <1>2, <1>3, <1>4

-----------------------------------------------------------------------------
(* The invariant, and the properties.                                      *)

\* The invariant holds initially.
LEMMA AuthStarts == Init => AuthInv /\ Good(ses, authsize, last)
<1> SUFFICES ASSUME Init PROVE AuthInv /\ Good(ses, authsize, last)
  OBVIOUS
<1>1. ses \in Kind /\ authsize \in Nat /\ authsize <= ses.maxtag
  BY AuthEncAssumption DEF Init
<1>2. DOMAIN kcaop = Thread /\ \A t \in Thread : kcaop[t] = NoCall
  BY DEF Init
<1>3. wire = NoRecord /\ last = Nothing
  BY DEF Init
<1> QED
  BY <1>1, <1>2, <1>3, NoCallIsFilled, NothingIsGood DEF AuthInv

\* The invariant is inductive: one case per action.
LEMMA AuthSteps ==
  AuthInv /\ Good(ses, authsize, last) /\ [Next]_vars
    => AuthInv' /\ Good(ses', authsize', last')
<1> SUFFICES ASSUME AuthInv, Good(ses, authsize, last), [Next]_vars
             PROVE  AuthInv' /\ Good(ses', authsize', last')
  OBVIOUS
<1>1. CASE UNCHANGED vars
  BY <1>1 DEF vars, AuthInv
<1>2. ASSUME NEW t \in Thread, AuthCrypt(t) PROVE AuthInv' /\ Good(ses', authsize', last')
  BY <1>2, AuthCryptStep
<1>3. ASSUME NEW t \in Thread, RunRefused(t) PROVE AuthInv' /\ Good(ses', authsize', last')
  BY <1>3, RunRefusedStep
<1>4. ASSUME NEW t \in Thread, RunFails(t) PROVE AuthInv' /\ Good(ses', authsize', last')
  BY <1>4, RunFailsStep
<1>5. ASSUME NEW t \in Thread, TlsEncrypt(t) PROVE AuthInv' /\ Good(ses', authsize', last')
  BY <1>5, TlsEncryptStep
<1>6. ASSUME NEW t \in Thread, TlsDecrypt(t) PROVE AuthInv' /\ Good(ses', authsize', last')
  BY <1>6, TlsDecryptStep
<1>7. ASSUME NEW t \in Thread, SrtpEncrypt(t) PROVE AuthInv' /\ Good(ses', authsize', last')
  BY <1>7, SrtpEncryptStep
<1>8. ASSUME NEW t \in Thread, SrtpDecrypt(t) PROVE AuthInv' /\ Good(ses', authsize', last')
  BY <1>8, SrtpDecryptStep
<1>9. ASSUME NEW t \in Thread, AeadRefused(t) PROVE AuthInv' /\ Good(ses', authsize', last')
  BY <1>9, AeadRefusedStep
<1>10. ASSUME NEW t \in Thread, AeadEncrypt(t) PROVE AuthInv' /\ Good(ses', authsize', last')
  BY <1>10, AeadEncryptStep
<1>11. ASSUME NEW t \in Thread, AeadDecrypt(t) PROVE AuthInv' /\ Good(ses', authsize', last')
  BY <1>11, AeadDecryptStep
<1>12. CASE Finish
  BY <1>12, FinishStep
<1>13. ASSUME NEW t \in Thread, RunsOff(t) PROVE AuthInv' /\ Good(ses', authsize', last')
  BY <1>13, RunsOffStep
<1> QED
  BY <1>1, <1>2, <1>3, <1>4, <1>5, <1>6, <1>7, <1>8, <1>9, <1>10, <1>11, <1>12, <1>13
     DEF Next

\* The invariant holds in every reachable state.
LEMMA AuthInvariant == Spec => [](AuthInv /\ Good(ses, authsize, last))
<1> DEFINE I == AuthInv /\ Good(ses, authsize, last)
<1>1. Init => I
  BY AuthStarts
<1>2. I /\ [Next]_vars => I'
  BY AuthSteps
<1> HIDE DEF I
<1>3. Spec => []I
  BY <1>1, <1>2, PTL DEF Spec
<1> QED
  BY <1>3 DEF I

\* RecordsFitTheirBuffer holds in every behaviour: what tls_auth_n_crypt and
\* auth_n_crypt read and write for a sound request is within the buffers, the
\* destination being as long as cryptodev_get_dst_len made it under the first
\* look-up, whatever other threads do before the second, for every block size,
\* tag length and text.  Of requests that are not sound it says nothing: the
\* model has them run off their lists.
THEOREM RecordsFit == Spec => []RecordsFitTheirBuffer
<1>1. AuthInv /\ Good(ses, authsize, last) => RecordsFitTheirBuffer
  BY DEF Good, RecordsFitTheirBuffer
<1> QED
  BY <1>1, AuthInvariant, PTL

\* AcceptedRecordsAreAuthentic holds in every behaviour: if one byte of a
\* record, or its pad or tag, is another than was encrypted, no mode of
\* authenc.c accepts it in a sound request, and what is accepted is the text at
\* its own length.  A tag length that the AEAD transform does not take is not
\* sound: there the length that is reported is wrong.
THEOREM AuthenticRecords == Spec => []AcceptedRecordsAreAuthentic
<1>1. AuthInv /\ Good(ses, authsize, last) => AcceptedRecordsAreAuthentic
  BY DEF Good, Authentic, AcceptedRecordsAreAuthentic, Accepted, HasHash
<1> QED
  BY <1>1, AuthInvariant, PTL

\* IntactRecordsAreAccepted holds in every behaviour: verify_tls_record_pad
\* finds the pad of pad_record, the tag is where it was put, and the checks of
\* the decrypting call let every record through that the encrypting one made,
\* if the request is sound, which a tag longer than the digest is not.
THEOREM IntactRecords == Spec => []IntactRecordsAreAccepted
<1>1. AuthInv /\ Good(ses, authsize, last) => IntactRecordsAreAccepted
  BY DEF Good, Opened, IntactRecordsAreAccepted
<1> QED
  BY <1>1, AuthInvariant, PTL

\* SrtpVerifiesFirst holds in every behaviour: srtp_auth_n_crypt has decrypted
\* nothing of a payload that it refuses.
THEOREM SrtpIsVerified == Spec => []SrtpVerifiesFirst
<1>1. AuthInv /\ Good(ses, authsize, last) => SrtpVerifiesFirst
  BY DEF Good, Verified, SrtpVerifiesFirst
<1> QED
  BY <1>1, AuthInvariant, PTL
=============================================================================
