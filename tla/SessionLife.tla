------------------------------ MODULE SessionLife ------------------------------
(***************************************************************************)
(* The life of one session: crypto_create_session (ioctl.c) with the key   *)
(* handling, cryptodev_cipher_init and cryptodev_hash_init it calls        *)
(* (cryptlib.c), the requests of module Completion while the session is    *)
(* listed, and crypto_destroy_session.                                     *)
(*                                                                         *)
(* Until it is listed the session is known to one thread.  Its pointers    *)
(* are kept apart from the memory they point to: an error path frees the   *)
(* memory and leaves the pointers, and only init tells whether they count. *)
(***************************************************************************)
EXTENDS Completion

CONSTANTS
  Sop,         \* what applications ask for: [cipher, mac, keylen, mackeylen, mackey]
  MaxKey,      \* CRYPTO_CIPHER_MAX_KEY_LEN
  MaxMacKey,   \* CRYPTO_HMAC_MAX_KEY_LEN
  Header       \* RTA_SPACE of the header of a composite AEAD key

ASSUME LifeAssumption ==
  /\ Sop \subseteq [cipher : {"none", "block", "stream", "aead"},
                    mac : {"none", "digest", "hmac"}, keylen : Nat, mackeylen : Nat,
                    mackey : BOOLEAN]      \* sop->mackey is not NULL
  /\ Unit = {"cipher", "hash"}
  /\ MaxKey \in Nat /\ MaxMacKey \in Nat /\ Header \in Nat

VARIABLES
  stage,       \* how far crypto_create_session is; "none": there is no session
  sop,         \* the request being carried out
  held,        \* resources that are allocated
  ptr,         \* pointers of the session that are not NULL
  init,        \* cdata.init and hdata.init: the units that have them set
  keys,        \* bytes written at keys.ckey and keys.mkey, key length passed on
  misfreed     \* history: something was freed that was not allocated

life == <<stage, sop, held, ptr, init, keys, misfreed>>
answers  == <<completion, err, driver, outcome, waiting, late, ret, submits>>
requests == <<answers, unwaited>>

Tfm     == [u \in Unit |-> <<u, "tfm">>]
Request == [u \in Unit |-> <<u, "request">>]
Pages   == <<"session", "pages">>
Sg      == <<"session", "sg">>
Ses     == <<"session", "struct">>

NoKeys == [ckey |-> 0, keylen |-> 0, mkey |-> 0]
NoSop  == [cipher |-> "none", mac |-> "none", keylen |-> 0, mackeylen |-> 0,
           mackey |-> FALSE]

LifeInit ==
  /\ Idle
  /\ memory = "free"
  /\ stage = "none" /\ sop = NoSop /\ keys = NoKeys
  /\ held = {} /\ ptr = {} /\ init = {}
  /\ misfreed = FALSE

-----------------------------------------------------------------------------
(* What is freed.  Freeing a NULL pointer does nothing.                    *)

\* cryptodev_cipher_deinit and cryptodev_hash_deinit if they went by the
\* pointers alone.
DeinitByPointer(u) == {Tfm[u], Request[u]} \cap ptr

\* cryptodev_cipher_deinit, cryptodev_hash_deinit.
Deinit(u) == IF u \in init THEN {Tfm[u], Request[u]} \cap ptr ELSE {}

\* session_error, and crypto_destroy_session: everything the session has.
FreeSession ==
  LET gone == (UNION {Deinit(u) : u \in Unit}) \cup ({Pages, Sg} \cap ptr) \cup {Ses}
  IN  /\ misfreed' = (misfreed \/ ~(gone \subseteq held))
      /\ held'  = held \ gone
      /\ stage' = "none"
      /\ sop' = NoSop /\ keys' = NoKeys /\ ptr' = {} /\ init' = {}
      /\ Freed

-----------------------------------------------------------------------------
(* crypto_create_session                                                   *)

\* The switches over sop->cipher and sop->mac, then kzalloc.  (A request for
\* neither, an unknown algorithm or no memory: an error and no change.)
Create(s) ==
  /\ stage = "none"
  /\ s.cipher # "none" \/ s.mac # "none"
  /\ stage' = "cipher"
  /\ sop'   = s
  /\ held'  = {Ses}
  /\ UNCHANGED <<memory, requests, ptr, init, keys, misfreed>>

SessionError == FreeSession /\ UNCHANGED <<memory, answers>>

Composite == sop.cipher = "aead" /\ sop.mackeylen # 0

\* cryptodev_get_cipher_keylen without the check of the MAC key.
KeylenUnchecked ==
  IF sop.keylen > MaxKey THEN {}
  ELSE {sop.keylen + (IF Composite THEN Header + sop.mackeylen ELSE 0)}

\* cryptodev_get_cipher_keylen: a composite AEAD key is a header, the MAC key
\* and the cipher key.  None for -EINVAL.
Keylen ==
  IF sop.keylen > MaxKey \/ (Composite /\ sop.mackeylen > MaxMacKey) THEN {}
  ELSE {sop.keylen + (IF Composite THEN Header + sop.mackeylen ELSE 0)}

\* cryptodev_get_cipher_key writes the parts one after the other at keys.ckey;
\* a part that cannot be read, such as one at NULL, ends it.
CipherKey ==
  /\ stage = "cipher" /\ sop.cipher # "none"
  /\ Composite => sop.mackey
  /\ \E n \in Keylen :
       keys' = [keys EXCEPT !.keylen = n,
                  !.ckey = (IF Composite THEN Header + sop.mackeylen ELSE 0) + sop.keylen]
  /\ stage' = "cipher_init"
  /\ UNCHANGED <<memory, requests, sop, held, ptr, init, misfreed>>

CipherKeyFails ==
  /\ stage = "cipher" /\ sop.cipher # "none"
  /\ SessionError

\* cryptodev_cipher_init and cryptodev_hash_init: the transform is allocated,
\* given its key, and a request is allocated for it.
UnitInit(u, next) ==
  /\ held'  = held \cup {Tfm[u], Request[u]}
  /\ ptr'   = ptr \cup {Tfm[u], Request[u]}
  /\ init'  = init \cup {u}
  /\ stage' = next
  /\ UNCHANGED <<memory, requests, sop, keys, misfreed>>

\* No transform: an error pointer is left in its place.  A key of the wrong
\* size or no memory for the request: the label error frees the transform,
\* and its pointer stays.
UnitInitFails(u) ==
  /\ \E got \in {{}, {Tfm[u]}} : held' = (held \cup got) \ {Tfm[u], Request[u]}
  /\ ptr'   = ptr \cup {Tfm[u]}
  /\ stage' = "error"
  /\ UNCHANGED <<memory, requests, sop, init, keys, misfreed>>

CipherInit  == stage = "cipher_init" /\ UnitInit("cipher", "hash")
CipherFails == stage = "cipher_init" /\ UnitInitFails("cipher")

SkipCipher ==
  /\ stage = "cipher" /\ sop.cipher = "none"
  /\ stage' = "hash"
  /\ UNCHANGED <<memory, requests, sop, held, ptr, init, keys, misfreed>>

WantsHash == sop.mac # "none" /\ sop.cipher # "aead"

\* The MAC key is copied even if the hash takes none, and not if it is NULL:
\* cryptodev_hash_init then gets mackeylen bytes that were never written.
HashKey ==
  /\ stage = "hash" /\ WantsHash
  /\ sop.mackeylen <= MaxMacKey
  /\ keys'  = [keys EXCEPT !.mkey = IF sop.mackey THEN sop.mackeylen ELSE 0]
  /\ stage' = "hash_init"
  /\ UNCHANGED <<memory, requests, sop, held, ptr, init, misfreed>>

HashKeyFails == stage = "hash" /\ WantsHash /\ SessionError

HashInit  == stage = "hash_init" /\ UnitInit("hash", "reset")
HashFails == stage = "hash_init" /\ UnitInitFails("hash")

\* An AEAD cipher has its own MAC: sop->mac is left alone.
SkipHash ==
  /\ stage = "hash" /\ ~WantsHash
  /\ stage' = "arrays"
  /\ UNCHANGED <<memory, requests, sop, held, ptr, init, keys, misfreed>>

\* cryptodev_hash_reset, which may fail.
HashReset ==
  /\ stage = "reset"
  /\ stage' \in {"arrays", "error"}
  /\ UNCHANGED <<memory, requests, sop, held, ptr, init, keys, misfreed>>

\* It also fails when a driver has taken the request and will answer later:
\* the error path goes on to free the request under it.
HashResetLate ==
  /\ stage = "reset" /\ submits < MaxSubmits
  /\ stage' = "error"
  /\ LeaveBehind("hash")
  /\ UNCHANGED <<memory, completion, err, driver, outcome, waiting, ret,
                 sop, held, ptr, init, keys, misfreed>>

\* ses_new->pages and ses_new->sg: both are allocated before either is checked.
Arrays ==
  /\ stage = "arrays"
  /\ \E a \in SUBSET {Pages, Sg} :
       /\ held'  = held \cup a
       /\ ptr'   = ptr \cup a
       /\ stage' = IF a = {Pages, Sg} THEN "list" ELSE "error"
  /\ UNCHANGED <<memory, requests, sop, init, keys, misfreed>>

\* The session is listed: other threads find it.  Its memory was zeroed.
List ==
  /\ stage = "list"
  /\ stage'  = "listed"
  /\ memory' = "live"
  /\ completion' = [u \in Unit |-> 0]
  /\ err' = [u \in Unit |-> "ok"]
  /\ UNCHANGED <<driver, outcome, waiting, late, unwaited, ret, submits, sop, held, ptr,
                 init, keys, misfreed>>

Abandon == stage = "error" /\ SessionError

-----------------------------------------------------------------------------
\* A request is only submitted to a unit that has been initialised.
Use ==
  /\ \E u \in init : SubmitSync(u) \/ SubmitAsync(u) \/ Reset(u) \/ ResetLate(u)
  /\ UNCHANGED life

Serve == (Wake \/ Driver) /\ UNCHANGED life

\* crypto_destroy_session, for a listed session that no call uses.
DestroySession == Destroy /\ FreeSession

LifeNext ==
  \/ \E s \in Sop : Create(s)
  \/ SkipCipher \/ CipherKey \/ CipherKeyFails \/ CipherInit \/ CipherFails
  \/ SkipHash \/ HashKey \/ HashKeyFails \/ HashInit \/ HashFails \/ HashReset
  \/ HashResetLate \/ Arrays \/ List \/ Abandon
  \/ Use \/ Serve \/ DestroySession

LifeSpec == LifeInit /\ [][LifeNext]_<<vars, life>>

\* Drivers finish what they have accepted, and a completed waiter runs.
LifeFairSpec ==
  LifeSpec /\ WF_<<vars, life>>(Driver /\ UNCHANGED life)
           /\ WF_<<vars, life>>(Wake /\ UNCHANGED life)

-----------------------------------------------------------------------------
(* Properties.                                                             *)

\* Whatever fails while a session is set up, and after it is destroyed:
\* everything that was allocated for it has been freed, once.
EverythingIsFreedOnce ==
  /\ ~misfreed
  /\ stage = "none" => held = {}

\* No driver works on a request that was freed, or whose transform was, unless
\* it answered a crypto_ahash_init late: cryptodev_hash_reset does not wait, and
\* session_error or crypto_destroy_session frees the hash under that driver.
DriversUseLiveRequests ==
  \A u \in Unit \ unwaited :
    driver[u] # "none" \/ late[u] > 0 => {Tfm[u], Request[u], Ses} \subseteq held

\* The keys stay in struct keys, and the MAC key does not overwrite the
\* cipher's: "only ckey is used and it can cover all the structure space;
\* otherwise both keys may be used simultaneously but they are confined to
\* their spaces".  The whole key that the cipher's setkey gets was written.
\* (The hash's may get mackeylen bytes that were not: see HashKey.)
KeysAreConfined ==
  /\ keys.keylen = keys.ckey
  /\ keys.ckey <= MaxKey + MaxMacKey + Header
  /\ keys.mkey <= MaxMacKey
  /\ keys.mkey > 0 => keys.ckey <= MaxKey
=============================================================================
