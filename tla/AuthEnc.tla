------------------------------- MODULE AuthEnc -------------------------------
(***************************************************************************)
(* CIOCAUTHCRYPT (authenc.c): authenticated encryption the TLS way (MAC,   *)
(* pad, encrypt), the SRTP way (encrypt, MAC) or with an AEAD cipher.      *)
(*                                                                         *)
(* A call looks its session up twice, and each look-up returns it locked:  *)
(* fill_kcaop_from_caop completes the request (tag length, destination     *)
(* length), crypto_auth_run carries it out.  Each is one step here; calls  *)
(* of other threads come in between.                                       *)
(*                                                                         *)
(* A byte is <<"num", n>>, one byte of a MAC or one that was in memory     *)
(* before; ciphers are external and recover the plaintext of a record if   *)
(* it is intact and the IV the same.  Lengths are the u32 of the caller,   *)
(* and what is computed of them wraps at IntMod, 2^32.                     *)
(***************************************************************************)
EXTENDS Naturals, Sequences

CONSTANTS
  Thread,     \* application threads
  Kind,       \* sessions: [init, aead, stream, blocksize, ivsize, digestsize, maxtag, tags],
              \* tags being the lengths crypto_aead_setauthsize takes
  Caop,       \* the requests of each thread: [op, flags, inplace, null, tag_len, iv,
              \* auth_len, head, data]; null says which of auth_src and dst (or src, if it
              \* is another buffer) are NULL, head is src - auth_src as an unsigned int
  NoIv,       \* caop->iv is NULL
  PageSize,   \* PAGE_SIZE: bounds the authenticated data of TLS and AEAD
  MaxDiff,    \* MAX_SRTP_AUTH_DATA_DIFF
  MaxResult,  \* AALG_MAX_RESULT_LEN: no hash of crypto_create_session makes more bytes
  IntMod      \* the number of values of an int

ASSUME AuthEncAssumption ==
  /\ Kind \subseteq [init : BOOLEAN, aead : BOOLEAN, stream : BOOLEAN, blocksize : Nat,
                     ivsize : Nat, digestsize : 0..MaxResult, maxtag : Nat,
                     tags : SUBSET Nat]
  /\ \A k \in Kind : k.init => k.blocksize > 0
  /\ \A t \in Thread : \A c \in Caop[t] :
       /\ c.tag_len \in 0..(IntMod - 1) /\ c.auth_len \in Nat /\ c.head \in Nat
       /\ c.data \in Seq({c.data[i] : i \in DOMAIN c.data})
  /\ PageSize \in Nat /\ MaxDiff \in Nat /\ MaxResult \in Nat /\ IntMod \in Nat \ {0}

VARIABLES
  ses,        \* the session, or NoSession once CIOCFSESSION has freed it
  authsize,   \* crypto_aead_authsize of its transform
  iv,         \* cdata.async.iv
  wire,       \* the last record that was encrypted
  kcaop,      \* each thread's struct kernel_crypt_auth_op
  last        \* history: what the step before did, if it ended a call that wrote
              \* a record or decided on one

vars == <<ses, authsize, iv, wire, kcaop, last>>

NoSession == [init |-> FALSE, aead |-> FALSE, stream |-> FALSE, blocksize |-> 0,
              ivsize |-> 0, digestsize |-> 0, maxtag |-> 0, tags |-> {}]
NoRecord  == [flags |-> {}, iv |-> NoIv, auth_len |-> 0, head |-> 0, data |-> <<>>,
              tag_len |-> 0, bytes |-> <<>>]
NoCall    == [op |-> "none", flags |-> {}, inplace |-> TRUE, null |-> {}, tag_len |-> 0,
              iv |-> NoIv, auth_len |-> 0, head |-> 0, rec |-> NoRecord, dst_len |-> 0]
Nothing   == [mode |-> "none", call |-> NoCall, ret |-> "ok", len |-> 0, data |-> <<>>,
              intact |-> FALSE, same |-> FALSE, decrypted |-> FALSE]

\* What cdata.async.iv holds after a cipher has chained on.
Chained == "chained"

Init ==
  /\ ses \in Kind
  /\ authsize = ses.maxtag
  /\ iv       = "zero"
  /\ wire     = NoRecord
  /\ kcaop    = [t \in Thread |-> NoCall]
  /\ last     = Nothing

-----------------------------------------------------------------------------
HasHash == ses.digestsize > 0

\* caop->len, the length of the text or of the record.
CaopLen(c) == IF c.op = "decrypt" THEN Len(c.rec.bytes) ELSE Len(c.rec.data)

\* cryptodev_get_tag_len: the digest's length, or the tag length the AEAD
\* transform has now.
GetTagLen ==
  IF HasHash THEN ses.digestsize ELSE IF ses.init /\ ses.aead THEN authsize ELSE 0

\* Bytes that round n up to a multiple of the block size; a whole block if n
\* is one already.
PadSize(n) == ses.blocksize - (n % ses.blocksize)

\* cryptodev_get_dst_len without room for the pad.
GetDstLenNoPad(c) ==
  IF c.op = "decrypt" THEN CaopLen(c) ELSE (CaopLen(c) + c.tag_len) % IntMod

\* cryptodev_get_dst_len.  An int: from IntMod \div 2 on it is negative, and so
\* is then the remainder.
GetDstLen(c) ==
  LET n   == (CaopLen(c) + c.tag_len) % IntMod
      pad == IF n < IntMod \div 2 THEN PadSize(n)
             ELSE ses.blocksize + ((IntMod - n) % ses.blocksize)
  IN  IF c.op = "decrypt" THEN CaopLen(c)
      ELSE IF "TLS" \in c.flags THEN (n + pad) % IntMod ELSE n

\* A thread that died in the driver keeps the session's mutex.
Unlocked == \A t \in Thread : kcaop[t].op # "oops"

\* fill_kcaop_from_caop.  (A missing session, a request for TLS or SRTP that is
\* not in place and a failing copy return an error and change nothing.)
Fill(t, c) ==
  /\ Unlocked
  /\ kcaop[t] = NoCall
  /\ ses # NoSession
  /\ c.flags # {} => c.inplace
  /\ "TLS" \in c.flags /\ c.op # "decrypt" => ses.blocksize > 0
  /\ LET d == [c EXCEPT !.tag_len = IF @ = 0 THEN GetTagLen ELSE @]
     IN  kcaop' = [kcaop EXCEPT ![t] = [d EXCEPT !.dst_len = GetDstLen(d)]]
  /\ last' = Nothing
  /\ UNCHANGED <<ses, authsize, iv, wire>>

\* The same on a session without a cipher: its block size is 0, and a TLS
\* request divides by it before crypto_auth_run can refuse the session.
FillDivides(t, c) ==
  /\ Unlocked
  /\ kcaop[t] = NoCall
  /\ ses # NoSession
  /\ "TLS" \in c.flags /\ c.op # "decrypt" /\ c.inplace /\ ses.blocksize = 0
  /\ kcaop' = [kcaop EXCEPT ![t] = [NoCall EXCEPT !.op = "oops"]]
  /\ UNCHANGED <<ses, authsize, iv, wire, last>>

\* CIOCAUTHCRYPT: a text to encrypt, or the record on the wire to decrypt in
\* the mode it was made for, with any tag length, IV and authenticated data.
\* Authenticated data are told apart by their length and, in SRTP, by where the
\* payload begins in them.  COP_FLAG_WRITE_IV only adds a copy to the user.
AuthCrypt(t) ==
  \E r \in Caop[t] :
    LET c == [NoCall EXCEPT !.op = r.op, !.inplace = r.inplace, !.null = r.null,
                            !.tag_len = r.tag_len, !.iv = r.iv,
                            !.auth_len = r.auth_len, !.head = r.head]
        e == [c EXCEPT !.flags = r.flags, !.rec.data = r.data]
    IN  IF r.op = "decrypt"
          THEN wire # NoRecord /\ Fill(t, [c EXCEPT !.flags = wire.flags, !.rec = wire])
          ELSE Fill(t, e) \/ FillDivides(t, e)

-----------------------------------------------------------------------------
(* crypto_auth_run, up to the call of a mode.                              *)

\* The dispatch of __crypto_auth_run_zc.
Mode(c) ==
  IF "SRTP" \in c.flags THEN "srtp"
  ELSE IF "TLS" \in c.flags /\ ~ses.aead THEN "tls"
  ELSE IF ses.aead THEN "aead" ELSE "none"

\* cryptodev_cipher_set_iv: without an IV, or for a cipher that has none, the
\* session keeps what the last call left.
CallIv(c) == IF c.iv = NoIv \/ ses.ivsize = 0 THEN iv ELSE c.iv

\* ... and after the cipher has run.
NextIv(c) == IF ses.ivsize = 0 THEN iv ELSE Chained

\* The session can be used at all: otherwise nothing is changed.
Usable(c) == ses.init /\ c.op \in {"encrypt", "decrypt"}

\* The checks of crypto_auth_zc_srtp, _tls and _aead, get_userbuf_srtp and _tls
\* before the operation starts.  dst_len is only compared with 0, and nothing
\* compares auth_len with the payload: sg_advance only has to find its start,
\* in the list of a NULL auth_src whatever is left there.
Accepts(c) ==
  CASE Mode(c) = "srtp" -> /\ ses.stream /\ ~ses.aead
                           /\ c.dst_len # 0 /\ c.auth_len # 0
                           /\ ~({"auth_src", "dst"} \subseteq c.null)
                           /\ c.head <= MaxDiff
                           /\ c.head < c.auth_len \/ "auth_src" \in c.null
    [] Mode(c) = "tls"  -> c.auth_len <= PageSize /\ c.dst_len # 0 /\ "dst" \notin c.null
    [] Mode(c) = "aead" -> c.auth_len <= PageSize
    [] Mode(c) = "none" -> FALSE

\* The caller's next step: what each mode below is a case of.
Ready(t, m, o) ==
  /\ Unlocked
  /\ kcaop[t].op = o
  /\ Usable(kcaop[t]) /\ Mode(kcaop[t]) = m /\ Accepts(kcaop[t])

Run(t, m, o) ==
  /\ Ready(t, m, o)
  /\ kcaop' = [kcaop EXCEPT ![t] = NoCall]
  /\ UNCHANGED ses

\* What a decrypting call did: an error, or the buffer's new contents.
Failed(c, e) == [Nothing EXCEPT !.mode = Mode(c), !.call = c, !.ret = e]
Success(c, s) == [Failed(c, "ok") EXCEPT !.len = Len(s), !.data = s]
Undecided(c, e) ==
  [Failed(c, e) EXCEPT !.intact = TRUE, !.same = (CallIv(c) = c.rec.iv)]
Refused(c) == IF c.op = "decrypt" THEN Undecided(c, "EINVAL") ELSE Nothing

\* The record that encryption leaves in the user's buffer.
Record(c, b) ==
  [flags |-> c.flags, iv |-> CallIv(c), auth_len |-> c.auth_len, head |-> c.head,
   data |-> c.rec.data, tag_len |-> c.tag_len, bytes |-> b]

\* The authenticated data are those the record was made with.
SameAuth(c) ==
  /\ c.auth_len = c.rec.auth_len
  /\ "SRTP" \in c.flags => c.head = c.rec.head

\* A record decrypts to what was encrypted if it arrives intact and is given
\* the same IV, and to something else otherwise.
Damage == {<<"num", 0>>, <<"num", 1>>, <<"num", 255>>}
Altered(s) == {[s EXCEPT ![i] = b] : i \in DOMAIN s, b \in Damage} \ {s}
Decrypts(s, same) == IF same THEN {s} ELSE Altered(s)

\* Whether the record is intact, whether the IV is the same, and whether the
\* bytes that a tag longer than the digest is compared with happen to match:
\* they are what hash_output and vhash held before.
Arrivals(c) ==
  {x \in [intact : BOOLEAN, same : BOOLEAN, junk : BOOLEAN] :
     /\ x.same => CallIv(c) = c.rec.iv
     /\ x.junk => HasHash /\ c.tag_len > ses.digestsize}

\* n bytes of the MAC over the authenticated data and the text, from the reset
\* state of the hash; and what hash_output holds, of which the hash writes no
\* more than its digest.
Mac(a, s, n) == [i \in 1..n |-> <<"mac", a, s, i>>]
Tag(a, s, n) ==
  [i \in 1..n |-> IF i <= ses.digestsize THEN <<"mac", a, s, i>> ELSE <<"junk", i>>]

\* A pad filled with its length instead of its length less one.
PadRecordLong(s) ==
  LET n == PadSize(Len(s))
  IN  IF ses.blocksize > 1 THEN s \o [i \in 1..n |-> <<"num", n>>] ELSE s

\* pad_record.
PadRecord(s) ==
  LET n == PadSize(Len(s))
  IN  IF ses.blocksize > 1 THEN s \o [i \in 1..n |-> <<"num", n - 1>>] ELSE s

\* The text, its tag and the pad.
TlsRecord(c) ==
  PadRecord(c.rec.data \o
            (IF HasHash THEN Tag(c.auth_len, c.rec.data, c.tag_len) ELSE <<>>))

\* The tag length of an AEAD transform once auth_n_crypt has asked it for the
\* request's.  crypto_aead_setauthsize may refuse; its result is not looked at.
AeadTag(c) == IF c.tag_len # 0 /\ c.tag_len \in ses.tags THEN c.tag_len ELSE authsize

-----------------------------------------------------------------------------
(* How crypto_auth_run ends in every mode.                                 *)

\* The second look-up finds no session, or a check refuses the request.  The
\* hash has then been reset and the IV set.
RunRefused(t) ==
  LET c == kcaop[t]
  IN  /\ Unlocked
      /\ c # NoCall
      /\ ses = NoSession \/ ~Usable(c) \/ ~Accepts(c)
      /\ iv'    = IF Usable(c) THEN CallIv(c) ELSE iv
      /\ kcaop' = [kcaop EXCEPT ![t] = NoCall]
      /\ last'  = IF Usable(c) THEN Refused(c) ELSE Nothing
      /\ UNCHANGED <<ses, authsize, wire>>

\* The hash cannot be reset, before anything else; or memory, a page of the user
\* or a driver fails, at any point: the cipher may have chained on, and an AEAD
\* transform may have its new tag length already.
RunFails(t) ==
  LET c == kcaop[t]
  IN  /\ Unlocked
      /\ Usable(c)
      /\ \/ iv' = iv /\ authsize' = authsize
         \/ /\ Accepts(c)
            /\ iv' \in {CallIv(c), NextIv(c)}
            /\ authsize' \in {authsize} \cup
                 (IF Mode(c) = "aead" /\ c.tag_len <= authsize THEN {AeadTag(c)} ELSE {})
      /\ kcaop' = [kcaop EXCEPT ![t] = NoCall]
      /\ last' = Nothing
      /\ UNCHANGED <<ses, wire>>

\* Whether what the operation reads and writes is there: the scatterlists hold
\* what the hash and the cipher are asked for, and hash_output the tag.
Holds(c) ==
  LET n   == CaopLen(c)
      out == c.op = "encrypt"
  IN  CASE Mode(c) = "srtp" -> /\ "auth_src" \notin c.null
                               /\ c.head + n <= c.auth_len
                               /\ out /\ HasHash => c.tag_len <= MaxResult
        [] Mode(c) = "tls"  -> /\ c.dst_len < IntMod \div 2
                               /\ out /\ HasHash => c.tag_len <= MaxResult
                               /\ out => Len(TlsRecord(c)) <= c.dst_len
                               /\ HasHash /\ c.auth_len > 0 => "auth_src" \notin c.null
        [] Mode(c) = "aead" -> /\ "dst" \notin c.null
                               /\ c.auth_len > 0 => "auth_src" \notin c.null
                               /\ out => n + AeadTag(c) <= c.dst_len

\* It is not: the operation goes on past the end of a list, in one that is
\* missing or in the one of a call before.  The thread dies there, or the call
\* ends somehow.
RunsOff(t) ==
  LET c == kcaop[t]
  IN  /\ \E m \in {"tls", "srtp", "aead"} : Ready(t, m, c.op)
      /\ Mode(c) = "aead" => c.tag_len <= authsize
      /\ ~Holds(c)
      /\ \E v \in {NoCall, [NoCall EXCEPT !.op = "oops"]} : kcaop' = [kcaop EXCEPT ![t] = v]
      /\ iv' \in {CallIv(c), NextIv(c)}
      /\ authsize' = IF Mode(c) = "aead" THEN AeadTag(c) ELSE authsize
      /\ last' = Undecided(c, "overrun")
      /\ UNCHANGED <<ses, wire>>

-----------------------------------------------------------------------------
(* tls_auth_n_crypt                                                        *)

\* Hash the text, append the tag, pad and encrypt.
TlsEncrypt(t) ==
  LET c == kcaop[t]
  IN  /\ Run(t, "tls", "encrypt")
      /\ Holds(c)
      /\ wire' = Record(c, TlsRecord(c))
      /\ iv'   = NextIv(c)
      /\ last' = Nothing
      /\ UNCHANGED authsize

\* verify_tls_record_pad: the length of the pad, 0 for -EBADMSG.
VerifyTlsRecordPad(s) ==
  LET n == s[Len(s)][2]
  IN  IF n + 1 > Len(s) \/ \E i \in 1..n : s[Len(s) - i] # <<"num", n>>
        THEN 0 ELSE n + 1

\* Decryption that compares the pad only.
TlsOpenPadOnly(c, s, junk) ==
  LET pad == IF ses.blocksize > 1 THEN VerifyTlsRecordPad(s) ELSE 0
      n   == Len(s) - pad
  IN  IF c.tag_len > n \/ (ses.blocksize > 1 /\ pad = 0)
        THEN Failed(c, "EBADMSG") ELSE Success(c, SubSeq(s, 1, n - c.tag_len))

\* What follows the decryption: cut off the pad, compare the tag.  A bad pad
\* is remembered until the tag is compared.
TlsOpen(c, s, junk) ==
  LET pad == IF ses.blocksize > 1 THEN VerifyTlsRecordPad(s) ELSE 0
      n   == Len(s) - pad
      m   == n - c.tag_len
      k   == IF c.tag_len > ses.digestsize THEN ses.digestsize ELSE c.tag_len
  IN  IF ~HasHash THEN Success(c, SubSeq(s, 1, n))
      ELSE IF c.tag_len > MaxResult \/ c.tag_len > n THEN Failed(c, "EINVAL")
      ELSE IF \/ SubSeq(s, m + 1, m + k) # Mac(c.auth_len, SubSeq(s, 1, m), k)
              \/ c.tag_len > ses.digestsize /\ ~junk
              \/ ses.blocksize > 1 /\ pad = 0
             THEN Failed(c, "EBADMSG")
      ELSE Success(c, SubSeq(s, 1, m))

TlsDecrypt(t) ==
  LET c == kcaop[t]
  IN  /\ Run(t, "tls", "decrypt")
      /\ Holds(c)
      /\ \E x \in Arrivals(c) : \E s \in Decrypts(c.rec.bytes, x.intact /\ x.same) :
           last' = [TlsOpen(c, s, x.junk) EXCEPT !.intact = x.intact, !.same = x.same,
                                                 !.decrypted = TRUE]
      /\ iv' = NextIv(c)
      /\ UNCHANGED <<authsize, wire>>

-----------------------------------------------------------------------------
(* srtp_auth_n_crypt.  The tag is in a buffer of its own; it covers the    *)
(* header and the encrypted payload.                                       *)

SrtpEncrypt(t) ==
  LET c == kcaop[t]
  IN  /\ Run(t, "srtp", "encrypt")
      /\ Holds(c)
      /\ wire' = Record(c, c.rec.data)
      /\ iv'   = NextIv(c)
      /\ last' = Nothing
      /\ UNCHANGED authsize

\* The tag the caller passes matches: a shorter one than was made is a prefix.
SrtpTagMatches(c, x) ==
  /\ x.intact /\ SameAuth(c)
  /\ IF c.tag_len > ses.digestsize THEN x.junk /\ ses.digestsize <= c.rec.tag_len
     ELSE c.tag_len <= c.rec.tag_len

\* Decryption before verification, as in TLS.
SrtpOpenFirst(c, x, s) ==
  LET bad == HasHash /\ (c.tag_len > CaopLen(c) \/ ~SrtpTagMatches(c, x))
  IN  [(IF bad THEN Failed(c, "EBADMSG") ELSE Success(c, s)) EXCEPT !.decrypted = TRUE]

\* The tag is verified first; only then is the payload decrypted, to s.
SrtpOpen(c, x, s) ==
  IF HasHash /\ (c.tag_len > MaxResult \/ c.tag_len > CaopLen(c)) THEN Failed(c, "EINVAL")
  ELSE IF HasHash /\ ~SrtpTagMatches(c, x) THEN Failed(c, "EBADMSG")
  ELSE [Success(c, s) EXCEPT !.decrypted = TRUE]

SrtpDecrypt(t) ==
  LET c == kcaop[t]
  IN  /\ Run(t, "srtp", "decrypt")
      /\ Holds(c)
      /\ \E x \in Arrivals(c) : \E s \in Decrypts(c.rec.bytes, x.intact /\ x.same) :
           last' = [SrtpOpen(c, x, s) EXCEPT !.intact = x.intact, !.same = x.same]
      /\ iv' = IF last'.decrypted THEN NextIv(c) ELSE CallIv(c)
      /\ UNCHANGED <<authsize, wire>>

-----------------------------------------------------------------------------
(* auth_n_crypt.  The driver writes the tag after the text.                *)

\* A longer tag than the transform has now.
AeadRefused(t) ==
  LET c == kcaop[t]
  IN  /\ Run(t, "aead", c.op)
      /\ c.tag_len > authsize
      /\ iv'   = CallIv(c)
      /\ last' = Refused(c)
      /\ UNCHANGED <<authsize, wire>>

\* In place the larger of the two lengths is pinned, otherwise dst_len bytes.
AeadEncrypt(t) ==
  LET c == kcaop[t]
      n == AeadTag(c)
  IN  /\ Run(t, "aead", "encrypt")
      /\ c.tag_len <= authsize /\ Holds(c)
      /\ authsize' = n
      /\ wire' = [Record(c, c.rec.data \o Mac(c.auth_len, c.rec.data, n)) EXCEPT !.tag_len = n]
      /\ iv'   = NextIv(c)
      /\ last' = Nothing

\* The driver refuses what is shorter than its tag and verifies the rest.  The
\* length that is reported is less by the tag length of the request.
AeadOpen(c, x) ==
  LET n == AeadTag(c)
      m == CaopLen(c) - (IF c.tag_len = 0 THEN authsize ELSE c.tag_len)
  IN  IF CaopLen(c) < n THEN Failed(c, "EINVAL")
      ELSE IF x.intact /\ x.same /\ SameAuth(c) /\ n = c.rec.tag_len
             THEN Success(c, SubSeq(c.rec.bytes, 1, m))
      ELSE Failed(c, "EBADMSG")

AeadDecrypt(t) ==
  LET c == kcaop[t]
  IN  /\ Run(t, "aead", "decrypt")
      /\ c.tag_len <= authsize /\ Holds(c)
      /\ authsize' = AeadTag(c)
      /\ \E x \in Arrivals(c) :
           last' = [AeadOpen(c, x) EXCEPT !.intact = x.intact, !.same = x.same]
      /\ iv' = NextIv(c)
      /\ UNCHANGED wire

\* CIOCFSESSION, between the two look-ups of other calls or at any time.  No
\* record of the session can be decrypted any more.
Finish ==
  /\ Unlocked
  /\ ses # NoSession
  /\ ses'  = NoSession
  /\ wire' = NoRecord
  /\ last' = Nothing
  /\ UNCHANGED <<authsize, iv, kcaop>>

-----------------------------------------------------------------------------
Next ==
  \/ \E t \in Thread :
       \/ AuthCrypt(t) \/ RunRefused(t) \/ RunFails(t) \/ RunsOff(t)
       \/ TlsEncrypt(t) \/ TlsDecrypt(t)
       \/ SrtpEncrypt(t) \/ SrtpDecrypt(t)
       \/ AeadRefused(t) \/ AeadEncrypt(t) \/ AeadDecrypt(t)
  \/ Finish

Spec == Init /\ [][Next]_vars

-----------------------------------------------------------------------------
(* Properties.                                                             *)

\* A request that is what authenc.c takes it to be, on a session k: its tag is
\* no longer than a digest, and of a length the AEAD transform takes; its
\* lengths do not add up to more than an int; and the buffers are there, SRTP's
\* header and payload in what is authenticated.  None of this is checked.
Sound(k, c) ==
  /\ k.digestsize > 0 => c.tag_len <= k.digestsize /\ c.rec.tag_len <= k.digestsize
  /\ k.aead => c.tag_len \in k.tags \cup {0, k.maxtag}
  /\ CaopLen(c) + c.tag_len + k.blocksize < IntMod \div 2
  /\ "dst" \notin c.null
  /\ IF "SRTP" \in c.flags THEN "auth_src" \notin c.null /\ c.head + CaopLen(c) <= c.auth_len
     ELSE c.auth_len > 0 => "auth_src" \notin c.null

\* No sound request reads or writes outside its buffers: the length computed by
\* the first look-up is enough for the text, the tag and the pad that the
\* second one writes, although the transform's tag length may have been
\* changed by another call in between.
RecordsFitTheirBuffer == Sound(ses, last.call) => last.ret # "overrun"

\* The last call decrypted a record without fault ...
Accepted == last.call.op = "decrypt" /\ last.ret = "ok"

\* A session that authenticates accepts, of sound requests, only intact records
\* with their own authenticated data, and gives back their text at its own
\* length.  (The tag of SRTP does not cover the IV, so there the text is only
\* given back for the same IV.)  Not so of a tag length that the transform of
\* an AEAD cipher does not take: the record is accepted with the tag it has,
\* and the length that is reported is another one.
AcceptedRecordsAreAuthentic ==
  Accepted /\ Sound(ses, last.call) /\ (HasHash \/ last.mode = "aead") =>
    LET r == last.call.rec
    IN  /\ last.intact
        /\ SameAuth(last.call)
        /\ last.mode # "srtp" \/ last.same => last.data = r.data /\ last.len = Len(r.data)

\* A record that is passed on unchanged in a sound request, with its IV, its
\* authenticated data and its tag length, is accepted.  The exceptions are a
\* payload of SRTP that is shorter than its tag, an AEAD transform that was
\* given a shorter tag since, and an empty record of TLS or SRTP.  (A tag that
\* is longer than the digest is not sound: its last bytes were never written,
\* and the record is refused unless memory holds them again.)
IntactRecordsAreAccepted ==
  LET c == last.call
  IN  /\ c.op = "decrypt" /\ last.intact /\ last.same
      /\ SameAuth(c) /\ c.tag_len = c.rec.tag_len /\ Sound(ses, c)
      => \/ last.ret = "ok" /\ last.data = c.rec.data
         \/ last.mode = "srtp" /\ c.tag_len > Len(c.rec.bytes)
         \/ last.mode = "aead" /\ c.tag_len > authsize
         \/ last.mode # "aead" /\ c.rec.bytes = <<>>

\* SRTP decrypts nothing it has not authenticated: a refused payload is still
\* encrypted in the caller's buffer.
SrtpVerifiesFirst ==
  last.mode = "srtp" /\ last.ret \in {"EINVAL", "EBADMSG"} => ~last.decrypted
=============================================================================
