--------------------------- MODULE SessionLifeProofs ---------------------------
(***************************************************************************)
(* The safety properties of SessionLife and of the requests of module      *)
(* Completion hold for every set of requests for a session, every length   *)
(* of keys, every set of driver errors and any number of submissions.      *)
(***************************************************************************)
EXTENDS SessionLife, TLAPS

Stages == {"none", "cipher", "cipher_init", "hash", "hash_init", "reset",
           "arrays", "list", "listed", "error"}

\* The transforms and the requests of the units.
Parts == {Tfm[u] : u \in Unit} \cup {Request[u] : u \in Unit}

LifeTypeOK ==
  /\ memory \in {"live", "free"}
  /\ completion \in [Unit -> Nat]
  /\ err \in [Unit -> Results]
  /\ driver \in [Unit -> {"none", "backlog", "busy"}]
  /\ outcome \in [Unit -> Results]
  /\ waiting \in Unit \cup {NoUnit}
  /\ late \in [Unit -> Nat]
  /\ unwaited \subseteq Unit
  /\ ret \in Results \cup Pending
  /\ submits \in Nat
  /\ stage \in Stages
  /\ sop \in [cipher : {"none", "block", "stream", "aead"},
              mac : {"none", "digest", "hmac"}, keylen : Nat, mackeylen : Nat,
              mackey : BOOLEAN]
  /\ held \subseteq Parts \cup {Pages, Sg, Ses}
  /\ ptr \subseteq Parts \cup {Pages, Sg}
  /\ init \subseteq Unit
  /\ keys \in [ckey : Nat, keylen : Nat, mkey : Nat]
  /\ misfreed \in BOOLEAN

\* Other threads reach the session exactly while it is listed, and only the
\* unit that waitfor waits for is with a driver, whose answer is not there yet,
\* but for the units a late reset was left behind for.
RequestInv ==
  /\ memory = "live" <=> stage = "listed"
  /\ waiting # NoUnit => stage = "listed" /\ waiting \in init
  /\ \A u \in Unit : driver[u] # "none" => waiting = u
  /\ \A u \in Unit \ unwaited : late[u] = 0 /\ (driver[u] # "none" => completion[u] = 0)
  /\ WaiterGetsItsResult

\* What is allocated: the structure, the parts of the units that are
\* initialised, and the arrays whose pointers are set.  A pointer to a part
\* says nothing unless init does.
MemoryInv ==
  /\ ~misfreed
  /\ \A u \in Unit : /\ Tfm[u] \in held <=> u \in init
                     /\ Request[u] \in held <=> u \in init
                     /\ u \in init => Tfm[u] \in ptr /\ Request[u] \in ptr
  /\ Pages \in held <=> Pages \in ptr
  /\ Sg \in held <=> Sg \in ptr
  /\ Ses \in held <=> stage # "none"
  /\ stage = "none" => init = {} /\ ptr = {}
  /\ stage \in {"cipher", "cipher_init"} => init = {}
  /\ stage \in {"hash", "hash_init"} => init \subseteq {"cipher"}

\* Only the composite key of an AEAD cipher reaches beyond the space of the
\* cipher key, and with one there is no MAC key at keys.mkey.
KeyInv ==
  /\ KeysAreConfined
  /\ stage \in {"none", "cipher"} => keys = NoKeys
  /\ sop.cipher # "aead" => keys.ckey <= MaxKey
  /\ keys.mkey > 0 => sop.cipher # "aead"

LifeIInv ==
  /\ LifeTypeOK
  /\ RequestInv
  /\ MemoryInv
  /\ KeyInv

-----------------------------------------------------------------------------
(* Steps.                                                                  *)

\* The resources of a session are different from each other.
LEMMA Distinct ==
  /\ \A u, v \in Unit : /\ Tfm[u] # Request[v]
                        /\ Tfm[u] = Tfm[v] => u = v
                        /\ Request[u] = Request[v] => u = v
  /\ \A u \in Unit : {Tfm[u], Request[u]} \cap {Pages, Sg, Ses} = {}
  /\ Pages # Sg /\ Pages # Ses /\ Sg # Ses
BY LifeAssumption DEF Tfm, Request, Pages, Sg, Ses

\* There is no session at first.
LEMMA LifeInvInit == LifeInit => LifeIInv
<1> SUFFICES ASSUME LifeInit PROVE LifeIInv
  OBVIOUS
<1> USE LifeAssumption, CompletionAssumption DEF LifeInit, Idle
<1>1. LifeTypeOK
  BY DEF LifeTypeOK, Stages, NoUnit, Results, NoKeys, NoSop, Parts
<1>2. RequestInv
  BY DEF RequestInv, WaiterGetsItsResult, NoUnit
<1>3. MemoryInv
  BY DEF MemoryInv
<1>4. KeyInv
  BY DEF KeyInv, KeysAreConfined, NoKeys, NoSop
<1> QED
  BY <1>1, <1>2, <1>3, <1>4 DEF LifeIInv

\* session_error and crypto_destroy_session free what is allocated and nothing
\* else: a pointer that an error path left behind is not followed.
LEMMA FreeSessionFreesAll ==
  ASSUME LifeTypeOK, MemoryInv, stage # "none", FreeSession
  PROVE  held' = {} /\ ~misfreed'
<1> DEFINE gone == (UNION {Deinit(u) : u \in Unit}) \cup ({Pages, Sg} \cap ptr) \cup {Ses}
<1>1. gone \subseteq held
  BY DEF MemoryInv, Deinit
<1>2. held \subseteq gone
  BY DEF LifeTypeOK, MemoryInv, Deinit, Parts
<1> QED
  BY <1>1, <1>2 DEF FreeSession, MemoryInv

\* Afterwards there is no session.
LEMMA FreeSessionInv ==
  ASSUME LifeIInv, stage # "none", FreeSession, memory' = "free", UNCHANGED answers,
         waiting = NoUnit
  PROVE  LifeIInv'
<1>1. held' = {} /\ ~misfreed'
  BY FreeSessionFreesAll DEF LifeIInv
<1>2. stage' = "none" /\ sop' = NoSop /\ keys' = NoKeys /\ ptr' = {} /\ init' = {}
  BY DEF FreeSession
<1>3. misfreed' \in BOOLEAN
  BY DEF FreeSession
<1>4. /\ memory' = "free" /\ waiting' = NoUnit
      /\ \A u \in Unit : driver'[u] = driver[u] /\ completion'[u] = completion[u]
      /\ late' = late /\ unwaited \subseteq unwaited' /\ unwaited' \subseteq Unit
  BY DEF answers, FreeSession, Freed, LifeIInv, LifeTypeOK
<1> USE <1>2, LifeAssumption DEF LifeIInv
<1>5. LifeTypeOK'
  BY <1>1, <1>3, <1>4 DEF LifeTypeOK, answers, Stages, NoKeys, NoSop
<1>6. RequestInv'
  BY <1>4 DEF RequestInv, WaiterGetsItsResult
<1>7. MemoryInv'
  BY <1>1 DEF MemoryInv
<1>8. KeyInv'
  BY DEF KeyInv, KeysAreConfined, NoKeys, NoSop
<1> QED
  BY <1>5, <1>6, <1>7, <1>8

\* cryptodev_get_cipher_key writes as many bytes as cryptodev_get_cipher_keylen
\* has checked; without a MAC key in front they fit the space of a cipher key.
LEMMA CipherKeyFits ==
  ASSUME LifeTypeOK, KeyInv, CipherKey
  PROVE  /\ keys' \in [ckey : Nat, keylen : Nat, mkey : Nat]
         /\ keys'.keylen = keys'.ckey /\ keys'.mkey = 0
         /\ keys'.ckey <= MaxKey + MaxMacKey + Header
         /\ sop.cipher # "aead" => keys'.ckey <= MaxKey
<1> DEFINE mac == IF Composite THEN Header + sop.mackeylen ELSE 0
<1>1. /\ sop.keylen \in Nat /\ sop.mackeylen \in Nat
      /\ MaxKey \in Nat /\ MaxMacKey \in Nat /\ Header \in Nat
  BY LifeAssumption DEF LifeTypeOK
<1>2. PICK n \in Keylen :
        keys' = [keys EXCEPT !.keylen = n, !.ckey = mac + sop.keylen]
  BY DEF CipherKey
<1>3. /\ sop.keylen <= MaxKey
      /\ Composite => sop.mackeylen <= MaxMacKey
      /\ n = sop.keylen + mac
  BY <1>1, <1>2 DEF Keylen
<1>4. /\ mac \in Nat /\ mac <= Header + MaxMacKey
      /\ sop.cipher # "aead" => mac = 0
  BY <1>1, <1>3 DEF Composite
<1>5. keys = [ckey |-> 0, keylen |-> 0, mkey |-> 0]
  BY DEF CipherKey, KeyInv, NoKeys
<1> HIDE DEF mac
<1>6. keys' = [ckey |-> mac + sop.keylen, keylen |-> n, mkey |-> 0]
  BY <1>2, <1>5
<1> QED
  BY <1>1, <1>3, <1>4, <1>6

\* Every step of crypto_create_session keeps the invariant.
LEMMA CreateStep ==
  ASSUME LifeIInv,
         \/ \E s \in Sop : Create(s)
         \/ SkipCipher \/ CipherKey \/ CipherKeyFails \/ CipherInit \/ CipherFails
         \/ SkipHash \/ HashKey \/ HashKeyFails \/ HashInit \/ HashFails \/ HashReset
         \/ HashResetLate \/ Arrays \/ List \/ Abandon
  PROVE  LifeIInv'
<1> USE Distinct, LifeAssumption
    DEF LifeIInv, LifeTypeOK, RequestInv, MemoryInv, KeyInv, Stages, Parts, requests, answers,
        KeysAreConfined, WaiterGetsItsResult
<1>1. ASSUME NEW s \in Sop, Create(s) PROVE LifeIInv'
  <2>1. keys' = NoKeys /\ init' = {} /\ ptr' = {} /\ held' = {Ses} /\ ~misfreed'
    BY <1>1 DEF Create
  <2>2. LifeTypeOK'
    BY <1>1 DEF Create
  <2>3. RequestInv'
    BY <1>1 DEF Create
  <2>4. MemoryInv'
    BY <1>1, <2>1 DEF Create
  <2>5. KeyInv'
    BY <1>1, <2>1 DEF Create, NoKeys
  <2> QED
    BY <2>2, <2>3, <2>4, <2>5
<1>2. CASE SkipCipher
  BY <1>2 DEF SkipCipher, NoKeys
<1>3. CASE CipherKey
  <2>1. RequestInv' /\ MemoryInv'
    BY <1>3 DEF CipherKey
  <2>2. /\ keys'.keylen = keys'.ckey /\ keys'.mkey = 0
        /\ keys'.ckey <= MaxKey + MaxMacKey + Header
        /\ sop.cipher # "aead" => keys'.ckey <= MaxKey
        /\ keys' \in [ckey : Nat, keylen : Nat, mkey : Nat]
    BY <1>3, CipherKeyFits
  <2>3. LifeTypeOK'
    BY <1>3, <2>2 DEF CipherKey
  <2>4. KeyInv'
    BY <1>3, <2>2 DEF CipherKey
  <2> QED
    BY <2>1, <2>3, <2>4
<1>4. CASE CipherInit
  BY <1>4 DEF CipherInit, UnitInit
<1>5. CASE CipherFails
  <2>1. LifeTypeOK' /\ RequestInv' /\ KeyInv'
    BY <1>5 DEF CipherFails, UnitInitFails
  <2>2. MemoryInv'
    BY <1>5 DEF CipherFails, UnitInitFails
  <2> QED
    BY <2>1, <2>2
<1>6. CASE SkipHash
  BY <1>6 DEF SkipHash
<1>7. CASE HashKey
  BY <1>7 DEF HashKey, WantsHash
<1>8. CASE HashInit
  BY <1>8 DEF HashInit, UnitInit
<1>9. CASE HashFails
  <2>1. LifeTypeOK' /\ RequestInv' /\ KeyInv'
    BY <1>9 DEF HashFails, UnitInitFails
  <2>2. MemoryInv'
    BY <1>9 DEF HashFails, UnitInitFails
  <2> QED
    BY <2>1, <2>2
<1>10. CASE HashReset
  BY <1>10 DEF HashReset
<1>11. CASE Arrays
  BY <1>11 DEF Arrays
<1>12. CASE List
  <2>1. LifeTypeOK'
    BY <1>12 DEF List, Results
  <2>2. RequestInv'
    BY <1>12 DEF List
  <2>3. MemoryInv' /\ KeyInv'
    BY <1>12 DEF List
  <2> QED
    BY <2>1, <2>2, <2>3
<1>13. CASE CipherKeyFails \/ HashKeyFails \/ Abandon
  BY <1>13, FreeSessionInv DEF CipherKeyFails, HashKeyFails, Abandon, SessionError
<1>14. CASE HashResetLate
  BY <1>14 DEF HashResetLate, LeaveBehind
<1> QED
  BY <1>1, <1>2, <1>3, <1>4, <1>5, <1>6, <1>7, <1>8, <1>9, <1>10, <1>11,
     <1>12, <1>13, <1>14

\* Requests, their answers and the destruction of the session keep it too.
LEMMA UseStep ==
  ASSUME LifeIInv, Use \/ Serve \/ DestroySession
  PROVE  LifeIInv'
<1> USE LifeAssumption, CompletionAssumption
    DEF LifeIInv, LifeTypeOK, RequestInv, life, NoUnit, Results, Pending,
        WaiterGetsItsResult
<1>1. ASSUME UNCHANGED life, UNCHANGED memory PROVE MemoryInv' /\ KeyInv'
  BY <1>1 DEF MemoryInv, KeyInv, KeysAreConfined
<1>2. ASSUME NEW u \in init, SubmitSync(u), UNCHANGED life PROVE LifeIInv'
  BY <1>1, <1>2 DEF SubmitSync, Ready
<1>3. ASSUME NEW u \in init, SubmitAsync(u), UNCHANGED life PROVE LifeIInv'
  BY <1>1, <1>3 DEF SubmitAsync, Ready
<1>4. ASSUME NEW u \in init, Reset(u), UNCHANGED life PROVE LifeIInv'
  BY <1>1, <1>4 DEF Reset, Ready
<1>5. ASSUME Wake, UNCHANGED life PROVE LifeIInv'
  BY <1>1, <1>5 DEF Wake
<1>6. ASSUME NEW u \in Unit, DriverStart(u), UNCHANGED life PROVE LifeIInv'
  BY <1>1, <1>6 DEF DriverStart, Complete
<1>7. ASSUME NEW u \in Unit, DriverFinish(u), UNCHANGED life PROVE LifeIInv'
  BY <1>1, <1>7 DEF DriverFinish, Complete
<1>8. CASE DestroySession
  BY <1>8, FreeSessionInv DEF DestroySession, Destroy, answers
<1>9. ASSUME NEW u \in init, ResetLate(u), UNCHANGED life PROVE LifeIInv'
  BY <1>1, <1>9 DEF ResetLate, LeaveBehind, Ready
<1>10. ASSUME NEW u \in Unit, LateFinish(u), UNCHANGED life PROVE LifeIInv'
  BY <1>1, <1>10 DEF LateFinish, Complete
<1> QED
  BY <1>2, <1>3, <1>4, <1>5, <1>6, <1>7, <1>8, <1>9, <1>10 DEF Use, Serve, Driver

\* The inductive invariant holds in every reachable state.
LEMMA LifeInvariance == LifeSpec => []LifeIInv
<1>1. LifeIInv /\ [LifeNext]_<<vars, life>> => LifeIInv'
  <2> SUFFICES ASSUME LifeIInv, [LifeNext]_<<vars, life>> PROVE LifeIInv'
    OBVIOUS
  <2>1. CASE UNCHANGED <<vars, life>>
    BY <2>1 DEF vars, life, LifeIInv, LifeTypeOK, RequestInv, MemoryInv, KeyInv,
                KeysAreConfined, WaiterGetsItsResult
  <2>2. CASE LifeNext
    BY <2>2, CreateStep, UseStep DEF LifeNext
  <2> QED
    BY <2>1, <2>2
<1> QED
  BY <1>1, LifeInvInit, PTL DEF LifeSpec
-----------------------------------------------------------------------------
(* What the invariant implies.                                             *)

\* The state of a session that is set up, used and destroyed is well typed.
THEOREM LifeTypeCorrect == LifeSpec => []LifeTypeOK
<1>1. LifeIInv => LifeTypeOK
  BY DEF LifeIInv
<1> QED
  BY <1>1, LifeInvariance, PTL

\* Whichever allocation, key or transform fails in crypto_create_session, and
\* in crypto_destroy_session, everything is freed and nothing is freed twice.
THEOREM FreedOnce == LifeSpec => []EverythingIsFreedOnce
<1>1. LifeIInv => EverythingIsFreedOnce
  BY DEF LifeIInv, LifeTypeOK, MemoryInv, EverythingIsFreedOnce, Parts
<1> QED
  BY <1>1, LifeInvariance, PTL

\* A driver that is still working has a request, a transform and a session
\* that exist, at whatever time drivers answer what waitfor waits for; a hash
\* whose reset a driver carries out late is excepted.
THEOREM RequestsOutliveDrivers == LifeSpec => []DriversUseLiveRequests
<1>1. LifeIInv => DriversUseLiveRequests
  BY LifeAssumption
  DEF LifeIInv, RequestInv, MemoryInv, DriversUseLiveRequests, NoUnit
<1> QED
  BY <1>1, LifeInvariance, PTL

\* No key overwrites the other or leaves struct keys, for every length asked
\* for, and the whole key that the cipher's setkey gets was written.
THEOREM ConfinedKeys == LifeSpec => []KeysAreConfined
<1>1. LifeIInv => KeysAreConfined
  BY DEF LifeIInv, KeyInv
<1> QED
  BY <1>1, LifeInvariance, PTL

\* waitfor returns with the result of the request it was called for, unless a
\* late answer to a reset of the same hash is still to come.
THEOREM RightResult == LifeSpec => []WaiterGetsItsResult
<1>1. LifeIInv => WaiterGetsItsResult
  BY DEF LifeIInv, RequestInv
<1> QED
  BY <1>1, LifeInvariance, PTL

\* When a call has returned no driver works for the session any more, except on
\* a reset that cryptodev_hash_reset did not wait for.
THEOREM NothingInFlight == LifeSpec => []NothingInFlightAfterReturn
<1>1. LifeIInv => NothingInFlightAfterReturn
  BY LifeAssumption DEF LifeIInv, RequestInv, NothingInFlightAfterReturn, NoUnit
<1> QED
  BY <1>1, LifeInvariance, PTL
=============================================================================
