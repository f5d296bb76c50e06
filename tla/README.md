# A formal model of cryptodev-linux

cryptodev-linux is a Linux kernel module. It gives user space the kernel's
ciphers and hashes through ioctls on `/dev/crypto`. This directory holds TLA+
modules that model the module's own logic, TLC configurations that check them on
small instances, and TLAPS proofs of the safety properties for any number of
threads, sessions and items, any page size and data of any length.

`PROJECT.json` lists the components, the runs, a mutant for each property (a
plausible bug that the property must catch), the source lines behind each
definition, the findings, the hazards and the theorems.

## The system

Each `open` of the device creates a `struct crypt_priv` with two independent parts.

| Part | State it keeps | Operations | What is hard |
|---|---|---|---|
| Session table (`ioctl.c`) | `fcrypt.list`, `fcrypt.sem`; per session a mutex, an identifier, cipher, hash, page arrays | CIOCGSESSION, CIOCFSESSION, CIOCGSESSINFO, look-ups by every request, release | two levels of mutexes; sessions freed while others wait for them; identifiers and memory reused |
| Asynchronous ring (`ioctl.c`) | `free`, `todo`, `done`, each with a mutex; `itemcount`; the work item `cryptask`; `user_waiter` | CIOCASYNCCRYPT, CIOCASYNCFETCH, poll, the worker, open, release | items between lists; a worker that is finishing when a job arrives; lost wake-ups; failed allocations |
| Requests (`main.c`, `cryptlib.c`) | the session's hash state and IV | CIOCCRYPT, CIOCCPHASH | two data paths that must agree; flags over a sequence of calls; failures half way |
| Zero-copy buffers (`zc.c`, `util.c`) | the session's `pages`, `sg`, `array_size`, `used_pages`, `readonly_pages` | `get_userbuf`, `get_userbuf_tls`, `get_userbuf_srtp`, `release_user_pages` | page arithmetic at the edges; array growth; pins after failures |
| Driver requests (`cryptlib.c`) | a completion and an error per cipher and per hash | submit, `waitfor`, `cryptodev_complete` | callbacks at any time, two of them for a backlogged request, and one for a reset nobody waits for |
| Session setup (`ioctl.c`, `cryptlib.c`) | transforms, requests, arrays of a new session | `crypto_create_session`, `cryptodev_*_init`, `_deinit` | error paths that free what was obtained so far |
| Authenticated encryption (`authenc.c`) | the transform's tag size, the IV | CIOCAUTHCRYPT in TLS, SRTP and AEAD form | lengths, pads and tags; two look-ups with other calls in between |
| Device (`ioctl.c`) | the workqueue, the misc device, cloned descriptors | module init and exit, CRIOGET | order of creation and destruction |

The parts meet in few places. A request (`crypto_run`) finds its session in the
table and keeps it locked while it uses the buffers, the hash, the cipher and the
drivers. The worker is another caller of `crypto_run`. `cryptodev_release` stops
the worker, frees the ring and then the sessions.

What makes each part correct:

- table: nobody touches a freed session, a session has one user at a time, a
  request runs on the session it names, nothing outlives the file, every call returns;
- ring: no item is lost or in two places, jobs come out in order with their own
  results, a queued job is run and its pollers are woken, the ring is bounded;
- requests: the result does not depend on the data path, and a digest covers
  exactly the data the application hashed;
- buffers: the scatterlist describes exactly the user's bytes, within the arrays,
  and every pin is dropped once;
- drivers: a wait ends with its own request's result, and nothing is in flight
  after it;
- setup: whatever fails, everything obtained is freed once, and keys stay in their
  places;
- authenticated encryption: for requests that keep to what the header asks of
  them, records fit their buffers, only authentic records are accepted, and intact
  ones are;
- device: nothing uses the workqueue or a file's state before it exists or after
  it is gone, and nothing is left after a failed load or an unload.

## The modules

| Module | Models | Checked by | Proved in |
|---|---|---|---|
| `SessionTable` | the session table under all ioctls, the worker and release | `MCSessionTable`: `SessionCalls`, `SessionCopy`, `SessionCreate` | `SessionTableProofs` |
| `JobQueue` | what the asynchronous interface promises: a bounded queue | through `AsyncRing` | `AsyncRingRefinement` |
| `AsyncRing` | the ring, the worker, poll, open and release | `MCAsyncRing`: `RingQueue`, `RingNoMemory`, and with `Device` | `AsyncRingProofs` |
| `Device` | the module, its workqueue and device, descriptors, around the ring | `MCDevice`: `DeviceSafety` | `DeviceProofs` |
| `ZeroCopy` | `zc.c`, `util.c`, the buffers of `authenc.c` | `MCZeroCopy`: `PinFaults`, `PinPartial` | `ZeroCopyProofs` |
| `CryptRun` | `crypto_run`, its paths, flags and copies | `MCCryptRun`: `CryptCalls`, `CryptOneShot` | `CryptRunProofs` |
| `AuthEnc` | `authenc.c`: CIOCAUTHCRYPT | `MCAuthEnc`: `AuthCalls` | `AuthEncProofs` |
| `Completion` | `waitfor` and the drivers' callbacks | with `SessionLife` | `SessionLifeProofs` |
| `SessionLife` | setup, use and destruction of a session, around `Completion` | `MCSessionLife`: `SessionLife` | `SessionLifeProofs` |

`Device` extends `AsyncRing` and `SessionLife` extends `Completion`: the steps of
the inner module are steps of the outer one, which adds the state around them.

Operators named after a mistake (`UnlinkNothing`, `PollingLate`,
`StdChunkSameIv`, ...) are the mutants of `PROJECT.json`. The specifications do
not use them.

### SessionTable

A step is what a thread does between two points where it may block: taking
`fcr->sem`, taking `ses->sem`, using a locked session. Unlocking never blocks, so
it belongs to the step before it. `pc` says where a thread is and `phase` for
which caller, because `crypto_get_session_by_sid` and `crypto_finish_session` are
shared.

| Code | Actions |
|---|---|
| `crypto_create_session`, CIOCGSESSION | `CreateAlloc`, `CreateError`, `CreateList`, `CreateFill`, `CreateReturn`, `CreateUndo` |
| `crypto_finish_session` | `Finish`, `FinishFound`, `FinishMissing`, `FinishReturn` |
| `crypto_destroy_session` | `DestroyLock`, `FreeSession` |
| `crypto_get_session_by_sid` | `GetFound`, `GetMissing`, `LockSession` |
| its callers | `Info`, `Crypt`, `AuthCrypt`, `Submit`, `Job`, `CopyHash`, `PutReturn`, `PutAndRun`, `AuthDies`, `HoldSource`, `CopyReturn` |
| `cryptodev_release`, `crypto_finish_all_sessions` | `Release`, `ReleaseStart`, `ReleaseMore`, `ReleaseDone` |

CIOCCRYPT looks its session up twice (`fill_kcop_from_cop`, then `crypto_run`), and
so does the model. CIOCAUTHCRYPT has the same shape, and it can die with the
session locked (`AuthDies`): at the division in `cryptodev_get_dst_len`, or behind
the end of a scatterlist (`AuthEnc` has both). The thread is then at `oops` for
ever, and its session stays locked. A job of the worker may name a session that
has been finished since. Session setup is one step that may fail (`SessionLife`
has its parts). When `CreateFill` reads a freed session it gets any identifier:
this read, `sop->ses = ses_new->sid`, is the one dereference that
`ReferencedSessionsAreLive` excepts. `kzalloc` may return an address that was
freed before.

### AsyncRing and JobQueue

One step per section of a list mutex, per `queue_work` and per wake-up; poll's
unlocked reads are steps of their own. The calls that return at once (-EBUSY,
-EINVAL, a bad user pointer) change nothing and are stuttering steps. `poll(2)`,
the wait queue and the workqueue are external. They are modelled from how the
code uses them: `poll_wait` before the checks, one execution of a work item at a
time, the pending bit cleared before the function is called.
`NextWithMemory` leaves out the failing allocation, `Next` has it (`RunNoMemory`).

`JobQueue` has a queue of jobs, a queue of completed jobs with results, and what
each thread fetched last. `AsyncRing` implements it with the worker's local list
`tmp` as the head of the abstract queue. A thread has fetched as soon as it has
taken the item, so the refinement also says that an item does not change between
`list_del` and `memcpy`.

### Device

| Code | Actions |
|---|---|
| `init_cryptodev`, `cryptodev_register` | `InitWorkqueue`, `Register`, `RegisterFails`, `InitSysctl` |
| `exit_cryptodev` | `ExitWorkqueue`, `ExitDeregister` |
| CRIOGET, `clonefd` | `Clone`, `CloneReturn` |
| `cryptodev_open`, `cryptodev_release` | `DeviceOpen`, `DeviceRelease` with the ring's |

The kernel's reference counts are external: an open file holds the module, a
descriptor or a call holds the file. `Clone` and `CloneReturn` are two steps
because the descriptor can be used, and closed, before the user is told its
number.

### ZeroCopy

`get_userbuf` step by step: page counts, growth of the arrays, pinning, one
scatterlist entry per step, release. Pages are 4 bytes long. `held` is the set of
slots that hold a pin. `unpinned` and `leaked` record a put without a pin and a
pin without a put. `torn` records that `get_user_pages` failed for a destination
or pinned part of a buffer. Requests of all three kinds alternate on one session,
because they share its arrays and counters. SRTP lists the pages of a packet twice
(`SgCopy`) and moves the second list to the payload (`SgAdvance`).

What the code does not refuse is modelled too:

- `sg_mark_end` for an empty buffer writes the entry it is given (`marked`). For an
  empty destination after a source that fills the array this is the entry after
  the last one. CIOCAUTHCRYPT gets there when `len + tag_len` wraps to 0;
  `SlotsInBounds` excepts it (`EmptyOutput`).
- The distance between an SRTP packet and its payload is truncated to an `int`
  (`Diff`, modulo `IntMod`), so a payload far away can look close.
- With `auth_src` NULL nothing is pinned for an SRTP packet, but pages are counted
  and the first entry of an earlier request (`stale`) is listed (`CopyStale`,
  `StaleTooShort`). `EntriesArePinned`, `PayloadFollowsHeader` and `PinsBalanced`
  except such requests.

A negative destination length of TLS is not followed here; `AuthEnc` has it
(`RunsOff`). How many bytes of the payload's list the cipher is asked for is also a
matter of `AuthEnc`.

### CryptRun

Data are sequences of page-sized chunks. The cipher is a free algebra chained as
CBC does (`Chain`), and a hash state holds the sequence of chunks it absorbed, or is
`Spent` after a final or a failure. Every call chooses its flags, data, alignment, in-place or
not, and IV. Flags may also be those the last call left in the user's struct.
`stream` is the application's own idea of what it has hashed, for comparison.
Failing user copies, driver calls and pinning are parameters. An AEAD session can
also be used with CIOCCRYPT; each call to its driver then adds or checks a tag,
which is outside the algebra and not modelled.

### AuthEnc

A call has two steps, as it has two look-ups: `AuthCrypt` (`fill_kcaop_from_caop`:
the tag length if none was given, the destination's length) and one of the modes
(`crypto_auth_run`). A second thread's calls, and the session's end, come in
between. Bytes are numbers or bytes of a MAC, so that a pad is told from a tag. A
cipher gives back what was encrypted for an intact record and the same IV, and one
changed byte otherwise. The bytes of pads, their verification and the comparison
of tags are modelled as the code does them. In SRTP the tag is in a buffer of its
own and covers the authenticated data, told apart by their length and by where the
payload starts in them.

Lengths are the caller's 32-bit numbers, and `GetDstLen` computes with them as an
`int` does: modulo `IntMod`, with a remainder that is negative for a negative
length. A tag can be longer than the digest: `Tag` then ends in what `hash_output`
held, and `junk` says whether the same bytes are there when it is compared. An AEAD
transform takes the tag lengths in `tags`; one that it refuses changes nothing and
nobody notices (`AeadTag`). SRTP's `auth_len`, `head` and `len` are independent, and
`auth_src` and the text may be NULL. Where the buffers then do not hold what the
operation reads or writes (`Holds`), it goes on past their end (`RunsOff`): the
thread dies or the call ends somehow, with `ret` "overrun".

The properties are about sound requests (`Sound`): no tag longer than the digest or
of a length the transform refuses, no lengths that wrap, buffers that are there,
and SRTP's header and payload within the authenticated data. The header asks most
of this of applications (`src/crypto/cryptodev.h:160-205`); the code checks little
of it. `head` is the difference after its truncation to an `int`, which `ZeroCopy`
has in full.

| Code | Definitions |
|---|---|
| `cryptodev_get_tag_len`, `cryptodev_get_dst_len` | `GetTagLen`, `GetDstLen` |
| `fill_kcaop_from_caop` | `Fill`, `FillDivides` |
| `__crypto_auth_run_zc` and its checks | `Mode`, `Accepts`, `Ready`, `RunRefused`, `RunFails` |
| the lists and buffers of the modes | `Holds`, `RunsOff` |
| `tls_auth_n_crypt`, `pad_record`, `verify_tls_record_pad` | `TlsEncrypt`, `TlsRecord`, `TlsDecrypt`, `TlsOpen`, `PadRecord`, `VerifyTlsRecordPad` |
| `srtp_auth_n_crypt` | `SrtpEncrypt`, `SrtpDecrypt`, `SrtpOpen` |
| `auth_n_crypt`, `cryptodev_cipher_set_tag_size` | `AeadTag`, `AeadRefused`, `AeadEncrypt`, `AeadDecrypt`, `AeadOpen` |

`last` remembers what the call that just ended did. The properties compare it with
the record that was on the wire.

### SessionLife

`crypto_create_session` allocation by allocation. `held` is what is allocated,
`ptr` which of the session's pointers are not NULL, and `init` which of its two
units count. The three differ after a failed init, which frees the transform and
leaves the pointer. The error label of `crypto_create_session` and
`crypto_destroy_session` free the same things (`FreeSession`); `misfreed` records
one that was not allocated. While the session is listed, `Use` and `Serve` take
the steps of `Completion`.

### Completion

A driver answers at once, takes the request, or puts it on its backlog and calls
back first with `-EINPROGRESS`. `cryptodev_hash_reset` does not wait: a driver that
answers `crypto_ahash_init` later is left with the request (`ResetLate`, and
`HashResetLate` while the session is set up), `late` counts such requests, and
their completions come at any time (`LateFinish`), where they may wake the waiter
for another request. `unwaited` remembers for which units this happened, also
through the session's end; `NothingInFlightAfterReturn`, `WaiterGetsItsResult` and
`DriversUseLiveRequests` except those units.

## The runs

Passing runs:

- `SessionCalls`: two threads, two session addresses, three identifiers, every
  call, under fairness. Addresses and identifiers are reused, and a duplicate
  identifier can always be replaced. The worker's jobs and release are calls of
  these threads, so each pair of them meets. `EveryCallReturns` is stated for
  behaviours without CIOCCPHASH and without a CIOCAUTHCRYPT that dies, and deadlock
  is not checked, because both really make others wait for ever. 176,000 states,
  about a minute.
- `DeviceSafety`: three threads, a ring that grows from one item to two, failing
  allocations, two descriptor numbers, loading and unloading any number of times.
  With three threads the ring is full while another call is in progress. With two
  numbers a closed one is given to the next clone. Deadlock is checked.
- `RingQueue`: two threads, the same ring without failing allocations, fairness,
  the refinement of `JobQueue`. One job succeeds and the other fails, so a result
  that belongs to another job shows.
- `PinFaults`: buffers at all kinds of offsets and lengths of up to three pages,
  in place, apart, NULL or empty. The arrays start with one entry and must grow
  more than once. SRTP headers end inside a page, at a boundary and with the packet;
  payloads also lie `IntMod` bytes away, or just after a packet at NULL. 593,000
  states, about a minute.
- `CryptCalls`: sequences of three calls on sessions with a cipher and a hash,
  only a hash, only a cipher. Two chunks are enough to show wrong chaining, and
  three calls to start, continue and finish a stream around a failure. Deadlock is
  not checked: the application may stop calling, as it does at the bound `MaxCalls`.
- `AuthCalls`: sessions with a block or stream cipher with and without a MAC, with
  an AEAD cipher, and with a MAC only. Block sizes 3 and 1 and texts of zero to
  three bytes give every residue, with texts that look like pads. Tags have
  default, full or shorter length, one byte more than the digest, more than
  `hash_output` holds (`MaxResult` is 3), or so much that an `int` of 32 values
  (`IntMod`) wraps to a negative number or to 0. One of the two AEAD transforms
  refuses shorter tags. Buffers are missing, and SRTP packets too short. One
  thread uses every mode and every way to pass a record on: intact or damaged, with
  the same or another IV, header and tag length. The other thread encrypts in
  between, TLS records or with a shorter AEAD tag. Deadlock is not checked: after
  `FillDivides` or `RunsOff` the session can stay locked. About 223,000 states, a
  little over a minute.
- `SessionLife`: every pair of algorithm kinds, keys that are absent, as long as
  allowed and one byte longer, every failure, three driver requests on the cipher
  and the hash, with one error code. Sessions are created and destroyed again and again. Deadlock is not
  checked: the bound `MaxSubmits` ends the use of a session.

`MaxCalls`, `MaxSubmits` and `MaxPages` are bounds of the models only. The others
(numbers of threads, items, addresses, page size, `IntMod`) are small values of quantities
that are finite in the code as well.

Runs in which TLC finds what a comment or a header promises to be false:

- `SessionCopy`: CIOCCPHASH holds the source session's mutex while it takes
  `fcr->sem` for the second look-up. All other code takes `fcr->sem` first. A copy
  and any look-up of its source wait for each other for ever, with every later call on the file
  behind them; so do two copies in opposite directions and a copy of a session
  onto itself.
- `SessionCreate`: the identifier CIOCGSESSION returns is read from the session
  after `fcr->sem` was dropped, when another thread may have freed it.
- `RingNoMemory`: `itemcount` is not lowered when the allocation it announced
  fails. The ring stays smaller and release reports missing items.
- `PinPartial`: pages pinned by an incomplete `get_user_pages` are never put, and
  after a failure for the destination pages are put that were not pinned.
- `CryptOneShot`: `COP_FLAG_NO_ZC` keeps the hash from being reset, and
  `crypto_run` sets that flag itself for unaligned buffers and hands it back to
  the user.

Smaller observations that are modelled as the code has them and have no run of
their own. In the table and in requests: CIOCFSESSION of an unknown identifier
returns 0 (`FinishMissing`), because the loop variable it tests is never NULL; an empty `COP_FLAG_UPDATE` finalises the hash
(`Finals`); an empty request on a session with only a cipher returns an
uninitialised value (`RunFinal`); and on a session with only a hash `COP_DECRYPT`
hashes the destination, which is the source in the copying path but not in the
zero-copy path (`Hashed`). `CryptCalls` asks for that too; the two properties of
requests name it as their exception (`HashesItsData`).

In CIOCAUTHCRYPT: a TLS request on a session without a cipher divides by a block
size of 0 while it holds the session (`FillDivides`); SRTP refuses a payload that
is shorter than its tag, although the tag is not part of it (`SrtpOpen`); an AEAD
session accepts no longer tag than the last call used, although a tag length of
zero stands for "digest size or max tag" (`src/crypto/cryptodev.h:153`); the result
of `crypto_aead_setauthsize` is not looked at, so an AEAD transform that refuses the
tag length writes the longer tag it had into a destination of `len + tag_len` bytes
(`AeadTag`, `RunsOff`), or decrypts with the tag it has, and reports a length that is
less by the tag length of the request (`AeadOpen`); a bad pad is forgotten on a TLS
session without a hash (`TlsOpen`); encryption does not compare the tag length with
the digest's, so that a longer tag ends in what the buffer held (`Tag`), and the
intact record is refused unless the same bytes are there again; destination lengths
wrap, and only 0 is refused, not for AEAD (`GetDstLen`, `Accepts`); SRTP does not
compare the payload's length with the packet's, and TLS and AEAD pass a missing list
on for `auth_src` NULL with an `auth_len` (`Holds`). `IntactRecordsAreAccepted` names
the first two of SRTP and AEAD as exceptions, `Sound` the others.

In the ring: CIOCASYNCFETCH has recycled the item when a failing copy to the user
is reported, so the application never learns which job it was. In CIOCCPHASH: a
session without a hash is not refused, and its unset transform is used; `CryptRun`
copies between sessions with a hash only. In CRIOGET: if its number cannot be given
to the user, the new descriptor is closed by number, which may by then belong to
another file (`CloneReturn` has the case within one file).

In setup: a hash that is given a key length and no key is set up with bytes nobody
wrote (`HashKey`). In the reset of a hash: if a driver answers it later, the session,
or the error path of its creation, frees the request under the driver
(`HashResetLate`), which `waitfor` is there to prevent for every other request: "otherwise
hardware or driver might try to access memory which will be freed or reused for
another request" (`src/cryptlib.c:286`).

In the buffers of SRTP: the comment of `get_userbuf_srtp` says that a payload that is
not within the authenticated buffer is refused (`src/authenc.c:99`). The distance is
truncated to an `int` first, so one a multiple of 4 GiB away is taken, and bytes of
the packet are encrypted in its place (`StartSrtp`, `CopyList`); so is one just after
a packet at NULL (`CopyStale`).

### Fairness

- `SessionTable`: strong fairness for each thread inside the driver. The kernel
  schedules it, and its mutexes queue their waiters, so a mutex that is released
  again and again is given to each waiter. Using a session terminates. New calls
  are the application's choice and are not fair.
- `AsyncRing`: weak fairness for each thread inside the driver, for the worker and
  for release. Every section of a list mutex is short and contains no other lock.
  Timeouts of poll are not fair.
- `SessionLife`, `Completion`: weak fairness for drivers, which must finish what they accepted,
  and for a thread whose completion was signalled.

## The proofs

Every invariant, every action property and the refinement that a passing run checks
is also a theorem, for all values of the constants. `PROJECT.json` lists the
theorems. What they rest on, besides types (numbers are natural numbers, null
values are no members of the sets they stand beside):

| Module | Assumption | Why |
|---|---|---|
| `AsyncRing` | `DefRing <= MaxRing` | `DEF_COP_RINGSIZE` and `MAX_COP_RINGSIZE` |
| `ZeroCopy` | `PageSize` and `Prealloc` are not 0; `2 * MaxDiff < IntMod` | an `int` has a sign, and `MAX_SRTP_AUTH_DATA_DIFF` is 256 |
| `CryptRun` | each session has a cipher or a hash; data are sequences | `crypto_create_session` refuses a session with neither |
| `AuthEnc` | a cipher's block size is not 0; digests have at most `MaxResult` bytes; tag lengths are below `IntMod` | `cryptodev_crypto_blkcipher_blocksize`; the hashes of `crypto_create_session`; `tag_len` is a `__u32` |

None of the properties is inductive alone. The strengthenings, and where they are
needed:

**`SessionTableProofs`.** That no freed session is referenced rests on who holds which
mutex, which rests on where threads are. `IInv` adds:

- `ControlInv`: which caller a thread can be working for at each point;
- `FileInv`: release runs alone, and a closed file has an empty list;
- `FileLockInv`: `fcr->sem` is owned exactly from a successful look-up to the lock
  of the session, and through the destruction of a session;
- `SessionLockInv`: `ses->sem` is owned exactly where the code uses, copies from or
  frees the session;
- `ReachInv`: listed and referenced sessions are live, a thread waits only for a
  listed session, and one that is being created or destroyed is not listed and,
  in the first case, known to no other thread;
- `NoLeakInv`: a live session is listed or some thread is creating or destroying it.

The argument at the step that matters: a thread that frees a session owns
`fcr->sem`, so nobody waits for the session or destroys it too, and owns
`ses->sem`, so nobody uses it or copies from it. The session is not listed any
more, so nobody will find it.

**`SessionLifeProofs`.** `MemoryInv` says what is allocated at each stage of
`crypto_create_session`: the parts of exactly the units whose `init` is set, and
the arrays whose pointers are. `RequestInv` says that only the unit waited for is
with a driver, that no unit outside `unwaited` has a late request, and that
`waitfor` waits only on a listed session, so that nothing else is freed under a
driver. `KeyInv` says that only a composite AEAD key reaches
beyond the space of the cipher key, and that there is then no MAC key.

**`AsyncRingProofs`.** `ListInv` says list by list that items are in one place, with
those that threads carry. Lemmas say what `list_add_tail`, `list_del` and
`list_splice_tail` do to lists without repetitions. `FileInv` says when calls, the
worker and release can meet. `CountInv` counts an item from the moment `itemcount`
announces it, before it is allocated. `WakeInv` adds to `NoLostWakeUp` the poller
that is between its read of the free list and its read of `itemcount`: an item that
was freed in between has woken it or is about to.

**`AsyncRingRefinement`.** A step of the ring is a step of `JobQueue` or leaves the
mapped queue alone: `RunAdd` submits, `WorkSplice` completes the whole batch,
`FetchTake` fetches, `ReleaseSplice` drops what is left. `ResultInv` says that the
items of the batch that were run have a result of their own job. `RoomForCarried`
derives the bound of the abstract queue from `RingIsBounded`.

**`DeviceProofs`.** Every step of the device is a step of the ring or a stutter
(`DeviceImplementsRing`), so the ring's theorems carry over (`DeviceRing`).
`ModuleInv` and `ReferenceInv` relate loading to what exists, and `f_count` to the
number of descriptors.

**`ZeroCopyProofs`.** `Described(sg, first, addr, len, n, rest)` says that `n` entries
from `first` on describe the bytes of a buffer but for the last `rest`, page after
page. Each step of `__get_userbuf` extends it by an entry (`NextEntry`), and it is
complete exactly after `PageCount` entries. From it follows that the bytes of the
entries are the buffer's. `RequestInv` fixes the counters and the size of the
arrays for each kind of request, `ListInv` the pins and the entries at each point.
`SecondList` describes what `sg_copy` and `sg_advance` left for SRTP.

**`CryptRunProofs`.** `Progress(k)` says that output, IV and hash are what the first
`k` chunks give. Zero-copy reaches the end of the data in one step and the copying
path chunk by chunk; a fall-back starts at 0. `StreamInv` says that the hash state
of a session between calls is what the application takes it to be, unless the
application knows it is spent. The chaining of a cipher over a buffer is a
recursive function: `ChainExists` shows that its equations have a solution and
`ChainLinks` that it satisfies them, by induction over the number of chunks, stated
for sets of numbers (`Induction`).

**`AuthEncProofs`.** `Made(k, r)` describes each record that a session `k` can have
made, byte by byte (of a TLS record whose tag is longer than the digest nothing is
known), and `Filled` a request between its two look-ups. Both survive calls of other
threads because the tag length of a transform only shrinks (`ShorterTag`). A sound
request is carried out with the tag length its destination was computed for
(`AeadTagIs`), its lengths do not wrap (`NoWrap`) and its buffers hold what is
written (`SoundHolds`). For TLS, `Layout` divides a record into
text, tag and pad, and `AlteredIsRefused` is the core: if one byte is another, the
pad that is found either covers the end of the tag, which needs a second changed
byte, or leaves a byte of the pad where the tag should end; so the tag is compared
at its own place, and the changed byte is in the text, in the tag or in the pad,
and each is noticed. `OneTagPasses` shows that an intact record is not accepted
with other authenticated data or at another length. MACs are free: different
inputs have different ones.

Only model-checked: liveness (`EveryCallReturns`, `JobsComplete`, `PollersWake`,
`WaitEnds`), which needs fairness and is out of the prover's reach. The violations
are TLC's counterexamples.

## Plan

Modelled, in the order of their importance to every request: `SessionTable`,
`JobQueue` and `AsyncRing`, `ZeroCopy`, `CryptRun`, `Completion`, `SessionLife`,
`AuthEnc`, `Device`; proved: every safety property of each.

Next:

1. What the violated properties would need: `ReleaseFreesAllItems`,
   `PinsAlwaysBalanced`, `OneShotDigestIsFresh` and `ReturnedSidIsTheListedOne` as
   theorems for the behaviours without the step that breaks them, as
   `ReleaseFindsEveryItem` and `PinsAreBalanced` already are.
2. Safety parts of the liveness properties, such as that a queued job always has a
   worker on its way, and that without CIOCCPHASH the owners of mutexes never wait
   in a circle.
3. Shorter proofs: the lemmas on lists and sequences are shared by several modules.

## Not modelled

- The 32-bit compatibility ioctls: they convert structure layouts and call the
  same functions. Read, not checked: CIOCAUTHCRYPT and CIOCCPHASH have no 32-bit
  form, and the 32-bit asynchronous ioctls are numbered 107 and 108
  (`src/cryptodev_int.h`) where the header has 110 and 111
  (`src/crypto/cryptodev.h:302`), so a 32-bit application gets -EINVAL for them.
- The contents of `get_session_info`, logging and the value of the verbosity
  sysctl: they have no effect on the state.
- The address space and task a queued job keeps pointers to: the kernel's side of
  them is not in this code.
- The kernel's crypto algorithms, mutexes, workqueues and memory management:
  external, modelled from their use.
- `tests`, `examples` and `lib`: user-space programs, read as documentation.
