------------------------------- MODULE CryptRun -------------------------------
(***************************************************************************)
(* CIOCCRYPT on the sessions of a file: crypto_run with its zero-copy and  *)
(* its copying path (main.c), the hash and cipher calls of cryptlib.c that *)
(* they make, the copies from and to the user around them (ioctl.c), and   *)
(* CIOCCPHASH.  A session is locked from the reset of its hash to the      *)
(* final, so the calls are taken one at a time; what is hard here is what  *)
(* a sequence of calls, with failures on the way, does to a session.       *)
(*                                                                         *)
(* Data are sequences of page-sized chunks.  Encryption and decryption are *)
(* terms of a free algebra chained as CBC does; a hash state holds the     *)
(* sequence of chunks it has absorbed.  An AEAD session that is used with  *)
(* CIOCCRYPT, where every call to the driver would add a tag or check one, *)
(* is outside this algebra and is not modelled.  Drivers answer before a   *)
(* call goes on; module Completion has the reset that is not waited for.   *)
(***************************************************************************)
EXTENDS Naturals, Sequences, FiniteSets

CONSTANTS
  Session,     \* sessions of the file
  Ciphers,     \* those with a cipher (cdata.init)
  Hashes,      \* those with a hash (hdata.init)
  Data,        \* contents of source buffers
  Flags,       \* values of cop->flags, as sets of flag names
  Ops,         \* pairs of a session and an operation asked of it
  MaxCalls,    \* bound on the number of calls
  Faults       \* failures that happen: "user", "crypto", "pin"

ASSUME CryptAssumption ==
  /\ Ciphers \cup Hashes = Session
  /\ Flags \subseteq SUBSET {"update", "final", "reset", "write_iv", "no_zc"}
  /\ \A d \in Data : d \in Seq({d[k] : k \in DOMAIN d})
  /\ Ops \subseteq Session \X {"encrypt", "decrypt"}
  /\ MaxCalls \in Nat
  /\ Faults \subseteq {"user", "crypto", "pin"}

VARIABLES
  hash,     \* state of the session's hash request
  iv,       \* cdata.async.iv
  pc,
  cop,      \* the request: session, operation, flags, data, ...
  kiv,      \* kcop->iv
  at,       \* chunks __crypto_run_std has handled
  out,      \* chunks written to the destination
  digest,   \* kcop->hash_output, once digestsize is set
  ret,      \* result of crypto_run or of the ioctl
  uflags,   \* cop->flags as copied back to the user's struct by the last call
  calls,
  start,    \* history: flags, hash state and IV the request started from
  stream    \* history: what the application has hashed in each session

session == <<hash, iv>>
request == <<cop, kiv, at, out, digest, ret, start>>
vars    == <<session, request, pc, uflags, calls, stream>>

Fresh    == [is |-> "live", chunks |-> <<>>]   \* a hash state after init
Spent    == [is |-> "spent", chunks |-> <<>>]  \* after final, or a failed update
NoDigest == [is |-> "none", chunks |-> <<>>]
UserIv   == <<"iv">>         \* the IV the user passes
OldDst   == <<"old">>        \* what a destination held before the call
NoCop    == [ses |-> CHOOSE s \in Session : TRUE, op |-> "encrypt", flags |-> {},
             data |-> <<>>, ragged |-> FALSE, aligned |-> TRUE,
             inplace |-> TRUE, withiv |-> FALSE]

NoStart  == [flags |-> {}, hash |-> Fresh, iv |-> <<"zero">>]

Init ==
  /\ hash   = [s \in Session |-> Fresh]
  /\ iv     = [s \in Session |-> <<"zero">>]
  /\ pc     = "idle"
  /\ cop    = NoCop
  /\ kiv    = UserIv
  /\ at     = 0
  /\ out    = <<>>
  /\ digest = NoDigest
  /\ ret    = "ok"
  /\ uflags = {}
  /\ calls  = 0
  /\ start  = NoStart
  /\ stream = [s \in Session |-> Fresh]

-----------------------------------------------------------------------------
(* The kernel's crypto API, as cryptlib.c uses it.                         *)

\* crypto_ahash_update.
Absorb(h, s) == IF h = Spent THEN Spent ELSE [h EXCEPT !.chunks = @ \o s]

\* One chunk through the cipher: its output and the IV for the next one.
CryptChunk(op, v, x) ==
  IF op = "encrypt"
    THEN LET c == <<"enc", v, x>> IN [out |-> c, iv |-> c]
    ELSE [out |-> IF Len(x) = 3 /\ x[1] = "enc" /\ x[2] = v
                    THEN x[3] ELSE <<"dec", v, x>>,
          iv |-> x]

\* The first k chunks of a buffer through the cipher, for every k.
Chain(op, v, s) ==
  LET c[k \in 0..Len(s)] ==
        IF k = 0 THEN [out |-> <<>>, iv |-> v]
        ELSE LET d == CryptChunk(op, c[k - 1].iv, s[k])
             IN  [out |-> Append(c[k - 1].out, d.out), iv |-> d.iv]
  IN  c

\* A whole buffer through the cipher.
Crypt(op, v, s) == Chain(op, v, s)[Len(s)]

-----------------------------------------------------------------------------
S == cop.ses
HasCipher == S \in Ciphers
HasHash   == S \in Hashes

\* crypto_run, or the ioctl, ends: the session is put back.
End(r) ==
  /\ pc'     = "idle"
  /\ cop'    = NoCop
  /\ kiv'    = UserIv
  /\ at'     = 0
  /\ out'    = <<>>
  /\ digest' = NoDigest
  /\ ret'    = r
  /\ start'  = NoStart

\* The call fails: the application does not know what was hashed.
Fail(r) ==
  /\ End(r)
  /\ stream' = [stream EXCEPT ![S] = Spent]
  /\ UNCHANGED <<uflags, calls>>

\* kcop_from_user.  The flags are new, or those the last call left in the
\* user's struct crypt_op.  (What makes no difference to a request, such as the
\* alignment of no data, is left out; an unknown operation or session is refused
\* before anything changes.)
Call(s, op, f, d) ==
  /\ pc = "idle"
  /\ calls < MaxCalls
  /\ \E ragged, aligned, inplace, withiv \in BOOLEAN :
       /\ ragged => s \in Ciphers
       /\ withiv => s \in Ciphers
       /\ ragged \/ ~aligned \/ ~inplace => d # <<>>
       /\ cop' = [ses |-> s, op |-> op, flags |-> f, data |-> d, ragged |-> ragged,
                  aligned |-> aligned, inplace |-> inplace, withiv |-> withiv]
  /\ pc' = "run"
  /\ calls' = calls + 1
  /\ UNCHANGED <<session, kiv, at, out, digest, ret, start, uflags, stream>>

\* cryptodev_hash_reset only if the user asks for it.
ResetOnRequest == HasHash /\ "reset" \in cop.flags

\* cryptodev_hash_reset is called for a call without flags, or on request.
Resets == HasHash /\ (cop.flags = {} \/ "reset" \in cop.flags)

\* The hash state the request starts from.
ResetHash == IF Resets THEN Fresh ELSE hash[S]

\* crypto_ahash_init fails.
RunResetFails ==
  /\ pc = "run"
  /\ Resets
  /\ "crypto" \in Faults
  /\ hash' = [hash EXCEPT ![S] = Spent]
  /\ Fail("error")
  /\ UNCHANGED iv

\* The length is not a multiple of the block size: -EINVAL, after the reset.
RunRefuse ==
  /\ pc = "run"
  /\ HasCipher /\ cop.ragged /\ cop.data # <<>>
  /\ hash' = [hash EXCEPT ![S] = ResetHash]
  /\ Fail("EINVAL")
  /\ UNCHANGED iv

\* Reset, IV and the choice of the path: a buffer that is not aligned turns
\* zero-copy off in cop->flags.
RunStart ==
  /\ pc = "run"
  /\ ~(HasCipher /\ cop.ragged /\ cop.data # <<>>)
  /\ hash' = [hash EXCEPT ![S] = ResetHash]
  /\ iv' = IF HasCipher /\ cop.withiv THEN [iv EXCEPT ![S] = kiv] ELSE iv
  /\ start' = [flags |-> cop.flags, hash |-> ResetHash, iv |-> iv'[S]]
  /\ LET f == IF cop.data # <<>> /\ ~cop.aligned
                THEN cop.flags \cup {"no_zc"} ELSE cop.flags
     IN  /\ cop' = [cop EXCEPT !.flags = f]
         /\ pc' = IF cop.data = <<>> THEN "final"
                  ELSE IF "no_zc" \in f THEN "std" ELSE "zc"
  /\ UNCHANGED <<kiv, at, out, digest, ret, uflags, calls, stream>>

-----------------------------------------------------------------------------
(* hash_n_crypt on chunks s: hash before encryption, after decryption.     *)

HashNCrypt(s) == Crypt(cop.op, iv[S], s)

\* What is hashed: the source, or, when decrypting, what the destination
\* holds afterwards.  If there is no cipher that is what it held before,
\* unless both are the same memory.
Hashed(s, samebuffer) ==
  IF cop.op = "encrypt" THEN s
  ELSE IF HasCipher THEN HashNCrypt(s).out
  ELSE IF samebuffer THEN s ELSE [k \in 1..Len(s) |-> OldDst]

DoHashNCrypt(s, samebuffer) ==
  /\ hash' = IF HasHash
               THEN [hash EXCEPT ![S] = Absorb(@, Hashed(s, samebuffer))]
               ELSE hash
  /\ iv' = IF HasCipher THEN [iv EXCEPT ![S] = HashNCrypt(s).iv] ELSE iv

\* A CryptoAPI call fails: the hash, which comes after decryption, or the
\* cipher, which comes after the hash when encrypting.
HashNCryptFails(s, samebuffer) ==
  /\ "crypto" \in Faults
  /\ \/ /\ HasHash
        /\ hash' = [hash EXCEPT ![S] = Spent]
        /\ iv' = IF HasCipher /\ cop.op = "decrypt"
                   THEN [iv EXCEPT ![S] = HashNCrypt(s).iv] ELSE iv
     \/ /\ HasCipher
        /\ hash' = IF HasHash /\ cop.op = "encrypt"
                     THEN [hash EXCEPT ![S] = Absorb(@, Hashed(s, samebuffer))]
                     ELSE hash
        /\ UNCHANGED iv

-----------------------------------------------------------------------------
(* __crypto_run_zc                                                         *)

\* get_userbuf fails before anything is done: fall back to copying.
ZcFallBack ==
  /\ pc = "zc"
  /\ "pin" \in Faults
  /\ pc' = "std"
  /\ UNCHANGED <<session, request, uflags, calls, stream>>

\* hash_n_crypt on the pinned pages, which are then released.
ZcRun ==
  /\ pc = "zc"
  /\ DoHashNCrypt(cop.data, cop.inplace)
  /\ out' = IF HasCipher THEN HashNCrypt(cop.data).out ELSE out
  /\ pc' = "final"
  /\ UNCHANGED <<cop, kiv, at, digest, ret, start, uflags, calls, stream>>

ZcFails ==
  /\ pc = "zc"
  /\ HashNCryptFails(cop.data, cop.inplace)
  /\ Fail("error")

-----------------------------------------------------------------------------
(* __crypto_run_std: one page at a time through a kernel buffer.           *)

Chunk == <<cop.data[at + 1]>>

\* The copying loop if it gave the cipher the same IV for every page.
StdChunkSameIv ==
  /\ pc = "std"
  /\ at < Len(cop.data)
  /\ hash' = IF HasHash THEN [hash EXCEPT ![S] = Absorb(@, Hashed(Chunk, TRUE))]
                        ELSE hash
  /\ out' = IF HasCipher THEN out \o HashNCrypt(Chunk).out ELSE out
  /\ at' = at + 1
  /\ UNCHANGED <<iv, cop, kiv, digest, ret, start, pc, uflags, calls, stream>>

\* The next page is copied in, hashed and encrypted, and copied out.
StdChunk ==
  /\ pc = "std"
  /\ at < Len(cop.data)
  /\ DoHashNCrypt(Chunk, TRUE)
  /\ out' = IF HasCipher THEN out \o HashNCrypt(Chunk).out ELSE out
  /\ at' = at + 1
  /\ UNCHANGED <<cop, kiv, digest, ret, start, pc, uflags, calls, stream>>

\* There is no page for the buffer or copy_from_user fails, hash_n_crypt fails,
\* or copy_to_user fails after it.
StdFails ==
  /\ pc = "std"
  /\ at < Len(cop.data)
  /\ \/ "user" \in Faults /\ UNCHANGED session /\ Fail("EFAULT")
     \/ HashNCryptFails(Chunk, TRUE) /\ Fail("error")
     \/ "user" \in Faults /\ HasCipher /\ DoHashNCrypt(Chunk, TRUE) /\ Fail("EFAULT")

StdDone ==
  /\ pc = "std"
  /\ at = Len(cop.data)
  /\ pc' = "final"
  /\ UNCHANGED <<session, request, uflags, calls, stream>>

-----------------------------------------------------------------------------
(* The end of crypto_run and kcop_to_user.                                 *)

\* Whether a digest is made: COP_FLAG_FINAL, no COP_FLAG_UPDATE, or no data.
Finals ==
  HasHash /\ ("final" \in cop.flags \/ "update" \notin cop.flags \/ cop.data = <<>>)

\* cryptodev_cipher_get_iv and cryptodev_hash_final.  Without a hash and
\* without data nothing has assigned ret, and any value may be returned.
RunFinal ==
  /\ pc = "final"
  /\ kiv' = IF HasCipher /\ cop.withiv THEN iv[S] ELSE kiv
  /\ digest' = IF Finals THEN hash[S] ELSE NoDigest
  /\ hash' = IF Finals THEN [hash EXCEPT ![S] = Spent] ELSE hash
  /\ \E r \in IF ~HasHash /\ cop.data = <<>> THEN {"ok", "junk"} ELSE {"ok"} :
       ret' = r
  /\ pc' = "reply"
  /\ UNCHANGED <<iv, cop, at, out, start, uflags, calls, stream>>

RunFinalFails ==
  /\ pc = "final"
  /\ Finals
  /\ "crypto" \in Faults
  /\ hash' = [hash EXCEPT ![S] = Spent]
  /\ Fail("error")
  /\ UNCHANGED iv

\* A non-zero ret: the ioctl returns it and copies nothing.
ReplyError ==
  /\ pc = "reply"
  /\ ret # "ok"
  /\ Fail(ret)
  /\ UNCHANGED session

\* The plaintext of the request.
Plain == IF cop.op = "decrypt" /\ HasCipher
           THEN Crypt("decrypt", start.iv, cop.data).out ELSE cop.data

\* What the application takes this call to continue: a call without flags, or
\* with COP_FLAG_RESET, starts a new stream.
Continued ==
  IF start.flags = {} \/ "reset" \in start.flags THEN Fresh ELSE stream[S]

\* Whether a call hashes the application's data on every path: decrypting
\* without a cipher, zero-copy hashes what the destination holds.
HashesItsData == HasCipher \/ cop.op = "encrypt" \/ cop.inplace

\* kcop_to_user copies the digest, the IV if asked for, and the struct with
\* its flags.  The application extends or starts its stream.
Reply ==
  /\ pc = "reply"
  /\ ret = "ok"
  /\ uflags' = cop.flags
  /\ stream' = [stream EXCEPT ![S] =
                  IF digest # NoDigest \/ ~HashesItsData THEN Spent
                  ELSE Absorb(Continued, Plain)]
  /\ End("ok")
  /\ UNCHANGED <<session, calls>>

ReplyFails ==
  /\ pc = "reply"
  /\ ret = "ok"
  /\ "user" \in Faults
  /\ Fail("EFAULT")
  /\ UNCHANGED session

\* CIOCCPHASH: cryptodev_hash_copy exports the state of the source session
\* and imports it into the destination.
CopyHashState(from, to) ==
  /\ pc = "idle"
  /\ calls < MaxCalls
  /\ from \in Hashes /\ to \in Hashes /\ from # to
  /\ hash'   = [hash EXCEPT ![to] = hash[from]]
  /\ stream' = [stream EXCEPT ![to] = stream[from]]
  /\ calls' = calls + 1
  /\ UNCHANGED <<iv, request, pc, uflags>>

\* The export fails, or the import into the destination.
CopyHashFails(from, to) ==
  /\ pc = "idle"
  /\ calls < MaxCalls
  /\ "crypto" \in Faults
  /\ from \in Hashes /\ to \in Hashes /\ from # to
  /\ \E h \in {hash[to], Spent} : hash' = [hash EXCEPT ![to] = h]
  /\ stream' = [stream EXCEPT ![to] = Spent]
  /\ calls' = calls + 1
  /\ UNCHANGED <<iv, request, pc, uflags>>

-----------------------------------------------------------------------------
Next ==
  \/ \E o \in Ops, f \in Flags \cup {uflags}, d \in Data : Call(o[1], o[2], f, d)
  \/ RunResetFails \/ RunRefuse \/ RunStart
  \/ ZcFallBack \/ ZcRun \/ ZcFails
  \/ StdChunk \/ StdFails \/ StdDone
  \/ RunFinal \/ RunFinalFails
  \/ ReplyError \/ Reply \/ ReplyFails
  \/ \E s, t \in Session : CopyHashState(s, t) \/ CopyHashFails(s, t)

Spec == Init /\ [][Next]_vars
-----------------------------------------------------------------------------
(* Properties.                                                             *)

\* The result of a call depends on its data, its IV and the hash state it
\* started from, and not on the path it took: zero-copy, copying page by page
\* or the fall-back from one to the other write the same output, leave the
\* same IV and hash the plaintext exactly once.  The exception is a hash
\* session that is asked to decrypt from one buffer to another.  Ciphers are
\* those that chain from call to call; AEAD sessions are left out.
ResultIsPathIndependent ==
  pc = "reply" /\ ret = "ok" =>
    LET c == Crypt(cop.op, start.iv, cop.data)
        h == Absorb(start.hash, Plain)
    IN  /\ HasCipher => out = c.out /\ (cop.withiv => kiv = c.iv)
        /\ HasHash /\ HashesItsData => h = IF Finals THEN digest ELSE hash[S]

\* A digest covers all the data of the stream it ends, in order: every
\* update since the stream began, also through sessions whose state was
\* copied with CIOCCPHASH, and nothing from an earlier stream or a failed
\* call.
DigestsCoverTheStream ==
  pc = "reply" /\ ret = "ok" /\ digest # NoDigest /\ HashesItsData =>
    LET expected == Absorb(Continued, Plain)
    IN  expected # Spent => digest = expected

\* A call without multi-update flags returns the digest of its own data.
\* With COP_FLAG_NO_ZC or COP_FLAG_WRITE_IV it does not: see the README.
OneShotDigestIsFresh ==
  pc = "reply" /\ digest # NoDigest /\ cop.flags \cap {"update", "final", "reset"} = {}
    => digest = Absorb(Fresh, Plain)
=============================================================================
