------------------------------- MODULE MCAuthEnc -------------------------------
(* Small instances of AuthEnc for TLC.                                     *)
EXTENDS AuthEnc, TLC

CONSTANTS t1, t2

Threads == {t1, t2}

\* cbc and ctr with a MAC, cbc and the null cipher without, two AEAD ciphers,
\* one of which takes its full tag only, and a MAC alone.  Block sizes 1 and 3,
\* digests and tags of two bytes.
Block  == [init |-> TRUE, aead |-> FALSE, stream |-> FALSE, blocksize |-> 3,
           ivsize |-> 1, digestsize |-> 2, maxtag |-> 0, tags |-> {}]
Stream == [Block EXCEPT !.stream = TRUE, !.blocksize = 1]
Gcm    == [Stream EXCEPT !.aead = TRUE, !.digestsize = 0, !.maxtag = 2, !.tags = {2}]
Kinds ==
  {Block, [Block EXCEPT !.digestsize = 0],
   Stream, [Stream EXCEPT !.digestsize = 0, !.ivsize = 0],
   Gcm, [Gcm EXCEPT !.tags = {1, 2}],
   [Block EXCEPT !.init = FALSE, !.stream = FALSE, !.blocksize = 0, !.ivsize = 0]}

\* Texts of none, two and three bytes, some of which look like a pad.
Num(n) == <<"num", n>>
Text   == <<Num(7), Num(1)>>
Texts  == {<<>>, Text, <<Num(0), Num(1), Num(1)>>}

\* Ordinary requests: TLS and AEAD with and without authenticated data, SRTP
\* with and without a header, everything that is there being authenticated.
Plain == [op |-> "encrypt", flags |-> {}, inplace |-> TRUE, null |-> {}, tag_len |-> 0,
          iv |-> "a", auth_len |-> 0, head |-> 0, data |-> Text]
WithAuth(r) ==
  IF "SRTP" \in r.flags
    THEN {[r EXCEPT !.auth_len = h + Len(r.data), !.head = h] : h \in {0, 1}}
    ELSE {[r EXCEPT !.auth_len = a] : a \in {0, 1}}
Encrypts ==
  UNION {WithAuth([Plain EXCEPT !.flags = f, !.tag_len = n, !.data = d]) :
           f \in {{}, {"TLS"}, {"SRTP"}}, n \in {0, 1}, d \in Texts}
NoIvs ==
  {[Plain EXCEPT !.flags = f, !.iv = "none", !.auth_len = 1] : f \in {{}, {"TLS"}}} \cup
  {[Plain EXCEPT !.flags = {"SRTP"}, !.tag_len = 2, !.iv = "none", !.auth_len = 3, !.head = 1]}

\* Requests that are refused, and some that are not but should be: tags that are
\* longer than the digest, than hash_output or than an int can count, buffers
\* that are missing, and SRTP packets that do not hold their payload.
Odd ==
  {[Plain EXCEPT !.flags = f, !.inplace = i, !.auth_len = 2, !.data = <<Num(0)>>] :
     f \in SUBSET {"TLS", "SRTP"}, i \in BOOLEAN} \cup
  {[Plain EXCEPT !.op = "other"]}
Unsound ==
  {[Plain EXCEPT !.flags = {"SRTP"}, !.tag_len = n, !.auth_len = 4, !.head = 1,
                 !.data = <<Num(0), Num(1), Num(1)>>] : n \in {3, 4}} \cup
  {[Plain EXCEPT !.flags = f, !.tag_len = n, !.auth_len = 1] :
     f \in {{}, {"TLS"}}, n \in {3, 14, 30}} \cup
  {[Plain EXCEPT !.flags = f, !.null = u, !.auth_len = 1] :
     f \in {{}, {"TLS"}, {"SRTP"}}, u \in SUBSET {"auth_src", "dst"}} \cup
  {[Plain EXCEPT !.flags = {"SRTP"}, !.auth_len = a, !.head = h] :
     a \in {1, 2, 4}, h \in {1, 2}}

\* Ways to pass a record on.
Passed == [Plain EXCEPT !.op = "decrypt", !.data = <<>>]
Decrypting ==
  {[Passed EXCEPT !.tag_len = n, !.auth_len = a, !.head = a \div 3] :
     n \in 0..3, a \in {0, 1, 3, 4}} \cup
  {[Passed EXCEPT !.iv = "none", !.auth_len = a, !.head = a \div 3] : a \in {1, 3}} \cup
  {[Passed EXCEPT !.null = {u}, !.tag_len = n, !.auth_len = 1] :
     u \in {"auth_src", "dst"}, n \in {0, 4}}

\* The second: calls that change the session in between.
Meanwhile ==
  {[Plain EXCEPT !.flags = {"TLS"}, !.auth_len = 1],
   [Plain EXCEPT !.tag_len = 1, !.auth_len = 1]}

Caops == t1 :> (Encrypts \cup NoIvs \cup Odd \cup Unsound \cup Decrypting) @@ t2 :> Meanwhile
================================================================================
