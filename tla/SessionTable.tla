----------------------------- MODULE SessionTable -----------------------------
(***************************************************************************)
(* The session table of one open /dev/crypto file: struct fcrypt (a list   *)
(* of sessions and the mutex fcr->sem) and the life of struct csession,    *)
(* from kzalloc to kfree, under the ioctls that look sessions up, use them *)
(* and destroy them.                                                       *)
(*                                                                         *)
(* A step of the model is what a thread does between two points where it   *)
(* may block or be observed: acquiring fcr->sem, acquiring ses->sem, and   *)
(* using a session it has locked.  Releasing a mutex never blocks, so a    *)
(* release is part of the step that precedes it.  Because the list is only *)
(* read and written under fcr->sem, a section that takes fcr->sem and      *)
(* cannot block before it drops it again is one step.                      *)
(***************************************************************************)
EXTENDS Naturals, FiniteSets

CONSTANTS
  Thread,     \* tasks inside an ioctl, and the workqueue's worker
  Session,    \* addresses kzalloc can return for a struct csession
  Sid,        \* session identifiers (32-bit random numbers in the code)
  NoThread,   \* "mutex not owned"
  NoSession,  \* the NULL pointer
  NoSid,      \* "no identifier" in an idle thread
  Calls       \* which operations the application and the worker perform

ASSUME ConstAssumption ==
  /\ NoThread \notin Thread
  /\ NoSession \notin Session
  /\ NoSid \notin Sid
  /\ Calls \subseteq {"gsession", "fsession", "info", "crypt", "authcrypt",
                      "async", "job", "cphash"}

VARIABLES
  file,   \* "open", "releasing" (inside cryptodev_release) or "closed"
  fsem,   \* owner of fcr->sem
  list,   \* sessions linked on fcr->list
  mem,    \* "live" from kzalloc to kfree, otherwise "free"
  sem,    \* owner of each session's ses->sem
  sid,    \* ses->sid
  pc,     \* where each thread is
  phase,  \* on whose behalf it is there (the caller's continuation)
  ptr,    \* the thread's ses_ptr / ses_new
  src,    \* src_ses, locked by crypto_copy_hash_state
  arg,    \* the identifier the call was given, or returns (sop->ses)
  dst,    \* dst_sid of crypto_copy_hash_state
  ret     \* result of the thread's last call

table  == <<file, fsem, list, mem, sem, sid>>
locals == <<pc, phase, ptr, src, arg, dst, ret>>
vars   == <<table, locals>>

Pcs    == {"idle", "create", "fill_sop", "copy_sop", "get", "wait", "use",
           "oops", "finish", "destroy", "free", "release"}
Phases == {"none", "gsession", "fsession", "info", "fill", "submit", "run",
           "auth", "authrun", "src", "dst", "release"}
Rets   == {"none", "ok", "EINVAL", "ENOENT", "EFAULT", "EBUSY"}

Init ==
  /\ file  = "open"
  /\ fsem  = NoThread
  /\ list  = {}
  /\ mem   = [s \in Session |-> "free"]
  /\ sem   = [s \in Session |-> NoThread]
  /\ sid   \in [Session -> Sid]
  /\ pc    = [t \in Thread |-> "idle"]
  /\ phase = [t \in Thread |-> "none"]
  /\ ptr   = [t \in Thread |-> NoSession]
  /\ src   = [t \in Thread |-> NoSession]
  /\ arg   = [t \in Thread |-> NoSid]
  /\ dst   = [t \in Thread |-> NoSid]
  /\ ret   = [t \in Thread |-> "none"]

-----------------------------------------------------------------------------
(* Starting a call and returning from it.                                  *)

\* A thread may enter the driver while the file is open and it is idle.
Call(t, name) ==
  /\ name \in Calls
  /\ file = "open"
  /\ pc[t] = "idle"
  /\ ret' = [ret EXCEPT ![t] = "none"]

\* The call of t ends with result r and its local variables die.
Return(t, r) ==
  /\ pc'    = [pc EXCEPT ![t] = "idle"]
  /\ phase' = [phase EXCEPT ![t] = "none"]
  /\ ptr'   = [ptr EXCEPT ![t] = NoSession]
  /\ src'   = [src EXCEPT ![t] = NoSession]
  /\ arg'   = [arg EXCEPT ![t] = NoSid]
  /\ dst'   = [dst EXCEPT ![t] = NoSid]
  /\ ret'   = [ret EXCEPT ![t] = r]

-----------------------------------------------------------------------------
(* CIOCGSESSION: crypto_create_session and the copy of sop to the user.    *)

\* kzalloc of the session and the first random sid.
CreateAlloc(t) ==
  /\ Call(t, "gsession")
  /\ \E s \in Session, x \in Sid :
       /\ mem[s] = "free"
       /\ mem' = [mem EXCEPT ![s] = "live"]
       /\ sid' = [sid EXCEPT ![s] = x]
       /\ ptr' = [ptr EXCEPT ![t] = s]
  /\ pc'    = [pc EXCEPT ![t] = "create"]
  /\ phase' = [phase EXCEPT ![t] = "gsession"]
  /\ UNCHANGED <<file, fsem, list, sem, src, arg, dst>>

\* session_error: a cipher, hash or buffer could not be set up.
CreateError(t) ==
  /\ pc[t] = "create"
  /\ mem' = [mem EXCEPT ![ptr[t]] = "free"]
  /\ Return(t, "EINVAL")
  /\ UNCHANGED <<file, fsem, list, sem, sid>>

\* The sids crypto_create_session can leave the "restart" loop with: the one
\* already drawn, if no listed session has it, or else a fresh one.
AcceptAnySid(s) == {sid[s]}
AcceptedSids(s) ==
  IF \E r \in list : sid[r] = sid[s]
    THEN Sid \ {sid[r] : r \in list}
    ELSE {sid[s]}

\* mutex_lock(&fcr->sem); duplicate check; list_add; mutex_unlock(&fcr->sem).
\* arg keeps the identifier the session was listed under.
CreateList(t) ==
  /\ pc[t] = "create"
  /\ fsem = NoThread
  /\ \E x \in AcceptedSids(ptr[t]) :
       /\ sid' = [sid EXCEPT ![ptr[t]] = x]
       /\ arg' = [arg EXCEPT ![t] = x]
  /\ list' = list \cup {ptr[t]}
  /\ pc'   = [pc EXCEPT ![t] = "fill_sop"]
  /\ UNCHANGED <<file, fsem, mem, sem, phase, ptr, src, dst, ret>>

\* sop->ses = ses_new->sid, after fcr->sem was dropped: if the session has
\* been destroyed in between, what is read is whatever the memory holds.
CreateFill(t) ==
  /\ pc[t] = "fill_sop"
  /\ \E x \in IF mem[ptr[t]] = "live" THEN {sid[ptr[t]]} ELSE Sid :
       arg' = [arg EXCEPT ![t] = x]
  /\ pc'  = [pc EXCEPT ![t] = "copy_sop"]
  /\ ptr' = [ptr EXCEPT ![t] = NoSession]
  /\ UNCHANGED <<table, phase, src, dst, ret>>

\* copy_to_user(arg, &sop, ...) succeeds.
CreateReturn(t) ==
  /\ pc[t] = "copy_sop"
  /\ Return(t, "ok")
  /\ UNCHANGED table

\* copy_to_user fails: the session is finished again and -EFAULT returned.
CreateUndo(t) ==
  /\ pc[t] = "copy_sop"
  /\ pc' = [pc EXCEPT ![t] = "finish"]
  /\ UNCHANGED <<table, phase, ptr, src, arg, dst, ret>>

-----------------------------------------------------------------------------
(* CIOCFSESSION: crypto_finish_session and crypto_destroy_session.         *)

Finish(t) ==
  /\ Call(t, "fsession")
  /\ \E x \in Sid : arg' = [arg EXCEPT ![t] = x]
  /\ pc'    = [pc EXCEPT ![t] = "finish"]
  /\ phase' = [phase EXCEPT ![t] = "fsession"]
  /\ UNCHANGED <<table, ptr, src, dst>>

\* The sessions list_for_each_entry can stop at, looking for identifier x.
MatchAnything(x) == list
Matches(x) == {s \in list : sid[s] = x}

\* crypto_finish_session if it left the session on the list.
UnlinkNothing(t, s) ==
  /\ fsem' = t
  /\ list' = list
  /\ ptr'  = [ptr EXCEPT ![t] = s]
  /\ pc'   = [pc EXCEPT ![t] = "destroy"]

\* list_del under fcr->sem; the mutex stays held for crypto_destroy_session.
Unlink(t, s) ==
  /\ fsem' = t
  /\ list' = list \ {s}
  /\ ptr'  = [ptr EXCEPT ![t] = s]
  /\ pc'   = [pc EXCEPT ![t] = "destroy"]

FinishFound(t) ==
  /\ pc[t] = "finish"
  /\ fsem = NoThread
  /\ \E s \in Matches(arg[t]) : Unlink(t, s)
  /\ UNCHANGED <<file, mem, sem, sid, phase, src, arg, dst, ret>>

\* What crypto_finish_session returns, through its caller, once it is done.
FinishResult(t) == IF phase[t] = "gsession" THEN "EFAULT" ELSE "ok"

\* No session has the identifier.  After list_for_each_entry_safe ses_ptr is
\* never NULL, so the -ENOENT branch is not taken.
FinishMissing(t) ==
  /\ pc[t] = "finish"
  /\ fsem = NoThread
  /\ Matches(arg[t]) = {}
  /\ Return(t, FinishResult(t))
  /\ UNCHANGED table

\* mutex_trylock or mutex_lock of ses->sem, fcr->sem held.
DestroyWithoutWaiting(t) ==
  /\ pc[t] = "destroy"
  /\ sem' = [sem EXCEPT ![ptr[t]] = t]
  /\ pc'  = [pc EXCEPT ![t] = "free"]
  /\ UNCHANGED <<file, fsem, list, mem, sid, phase, ptr, src, arg, dst, ret>>

DestroyLock(t) ==
  /\ pc[t] = "destroy"
  /\ sem[ptr[t]] = NoThread
  /\ sem' = [sem EXCEPT ![ptr[t]] = t]
  /\ pc'  = [pc EXCEPT ![t] = "free"]
  /\ UNCHANGED <<file, fsem, list, mem, sid, phase, ptr, src, arg, dst, ret>>

\* cipher and hash deinit, buffers freed, ses->sem unlocked, kfree(ses_ptr).
FreeSession(t) ==
  /\ mem' = [mem EXCEPT ![ptr[t]] = "free"]
  /\ sem' = [sem EXCEPT ![ptr[t]] = NoThread]

\* crypto_finish_session drops fcr->sem and returns.
FinishReturn(t) ==
  /\ pc[t] = "free"
  /\ phase[t] # "release"
  /\ FreeSession(t)
  /\ fsem' = NoThread
  /\ Return(t, FinishResult(t))
  /\ UNCHANGED <<file, list, sid>>

-----------------------------------------------------------------------------
(* crypto_get_session_by_sid, crypto_put_session and their callers.        *)

\* CIOCGSESSINFO: get_session_info.
Info(t) ==
  /\ Call(t, "info")
  /\ \E x \in Sid : arg' = [arg EXCEPT ![t] = x]
  /\ pc'    = [pc EXCEPT ![t] = "get"]
  /\ phase' = [phase EXCEPT ![t] = "info"]
  /\ UNCHANGED <<table, ptr, src, dst>>

\* CIOCCRYPT: the first look-up is fill_kcop_from_cop's, the second
\* crypto_run's.
Crypt(t) ==
  /\ Call(t, "crypt")
  /\ \E x \in Sid : arg' = [arg EXCEPT ![t] = x]
  /\ pc'    = [pc EXCEPT ![t] = "get"]
  /\ phase' = [phase EXCEPT ![t] = "fill"]
  /\ UNCHANGED <<table, ptr, src, dst>>

\* CIOCAUTHCRYPT: the first look-up is fill_kcaop_from_caop's, the second
\* crypto_auth_run's.
AuthCrypt(t) ==
  /\ Call(t, "authcrypt")
  /\ \E x \in Sid : arg' = [arg EXCEPT ![t] = x]
  /\ pc'    = [pc EXCEPT ![t] = "get"]
  /\ phase' = [phase EXCEPT ![t] = "auth"]
  /\ UNCHANGED <<table, ptr, src, dst>>

\* CIOCASYNCCRYPT: kcop_from_user looks the session up; the job is queued after
\* it was put again, and run later.
Submit(t) ==
  /\ Call(t, "async")
  /\ \E x \in Sid : arg' = [arg EXCEPT ![t] = x]
  /\ pc'    = [pc EXCEPT ![t] = "get"]
  /\ phase' = [phase EXCEPT ![t] = "submit"]
  /\ UNCHANGED <<table, ptr, src, dst>>

\* cryptask_routine hands a queued job to crypto_run in the worker; its
\* session may have been finished since the job was queued.
Job(t) ==
  /\ Call(t, "job")
  /\ \E x \in Sid : arg' = [arg EXCEPT ![t] = x]
  /\ pc'    = [pc EXCEPT ![t] = "get"]
  /\ phase' = [phase EXCEPT ![t] = "run"]
  /\ UNCHANGED <<table, ptr, src, dst>>

\* CIOCCPHASH: crypto_copy_hash_state looks up the source session first.
CopyHash(t) ==
  /\ Call(t, "cphash")
  /\ \E x, y \in Sid :
       /\ arg' = [arg EXCEPT ![t] = x]
       /\ dst' = [dst EXCEPT ![t] = y]
  /\ pc'    = [pc EXCEPT ![t] = "get"]
  /\ phase' = [phase EXCEPT ![t] = "src"]
  /\ UNCHANGED <<table, ptr, src>>

\* The look-up of t under fcr->sem finds a session; fcr->sem stays held
\* while t waits for ses->sem.
GetFoundDropsLock(t) ==
  /\ pc[t] = "get"
  /\ fsem = NoThread
  /\ \E s \in Matches(arg[t]) : ptr' = [ptr EXCEPT ![t] = s]
  /\ pc'   = [pc EXCEPT ![t] = "wait"]
  /\ UNCHANGED <<file, fsem, list, mem, sem, sid, phase, src, arg, dst, ret>>

GetFound(t) ==
  /\ pc[t] = "get"
  /\ fsem = NoThread
  /\ \E s \in Matches(arg[t]) : ptr' = [ptr EXCEPT ![t] = s]
  /\ fsem' = t
  /\ pc'   = [pc EXCEPT ![t] = "wait"]
  /\ UNCHANGED <<file, list, mem, sem, sid, phase, src, arg, dst, ret>>

\* The caller of the look-up if it did not test for NULL.
GetMissingUnchecked(t) ==
  /\ pc[t] = "get"
  /\ fsem = NoThread
  /\ Matches(arg[t]) = {}
  /\ pc' = [pc EXCEPT ![t] = "use"]
  /\ UNCHANGED <<table, phase, ptr, src, arg, dst, ret>>

\* The look-up finds nothing and the caller returns an error; a copy that
\* already holds its source session puts it back.
GetMissing(t) ==
  /\ pc[t] = "get"
  /\ fsem = NoThread
  /\ Matches(arg[t]) = {}
  /\ sem' = IF phase[t] = "dst" THEN [sem EXCEPT ![src[t]] = NoThread] ELSE sem
  /\ Return(t, IF phase[t] \in {"src", "dst"} THEN "ENOENT" ELSE "EINVAL")
  /\ UNCHANGED <<file, fsem, list, mem, sid>>

\* mutex_lock(&ses_ptr->sem), then mutex_unlock(&fcr->sem).
LockSession(t) ==
  /\ pc[t] = "wait"
  /\ sem[ptr[t]] = NoThread
  /\ sem'  = [sem EXCEPT ![ptr[t]] = t]
  /\ fsem' = NoThread
  /\ pc'   = [pc EXCEPT ![t] = "use"]
  /\ UNCHANGED <<file, list, mem, sid, phase, ptr, src, arg, dst, ret>>

\* The session is used and put back, and the call ends: get_session_info or
\* crypto_run (crypto_auth_run) and the copy to the user that follows, with or
\* without an error, fill_kcop_from_cop (fill_kcaop_from_caop) with one (a bad
\* IV pointer, a bad request), or crypto_async_run after it.
Results(p) ==
  {"EINVAL", "EFAULT"} \cup (IF p \in {"fill", "auth"} THEN {} ELSE {"ok"})
                       \cup (IF p = "submit" THEN {"EBUSY"} ELSE {})

PutReturn(t) ==
  /\ pc[t] = "use"
  /\ phase[t] \in {"info", "run", "fill", "submit", "auth", "authrun"}
  /\ sem' = [sem EXCEPT ![ptr[t]] = NoThread]
  /\ \E r \in Results(phase[t]) : Return(t, r)
  /\ UNCHANGED <<file, fsem, list, mem, sid>>

\* The put that starts the request over, as a retry loop without an end would.
PutAndFillAgain(t) ==
  /\ pc[t] = "use"
  /\ phase[t] \in {"fill", "auth"}
  /\ sem' = [sem EXCEPT ![ptr[t]] = NoThread]
  /\ ptr' = [ptr EXCEPT ![t] = NoSession]
  /\ pc'  = [pc EXCEPT ![t] = "get"]
  /\ UNCHANGED <<file, fsem, list, mem, sid, phase, src, arg, dst, ret>>

\* fill_kcop_from_cop (fill_kcaop_from_caop) is done: the session is put and
\* looked up again.
PutAndRun(t) ==
  /\ pc[t] = "use"
  /\ phase[t] \in {"fill", "auth"}
  /\ sem'   = [sem EXCEPT ![ptr[t]] = NoThread]
  /\ ptr'   = [ptr EXCEPT ![t] = NoSession]
  /\ pc'    = [pc EXCEPT ![t] = "get"]
  /\ phase' = [phase EXCEPT ![t] = IF @ = "fill" THEN "run" ELSE "authrun"]
  /\ UNCHANGED <<file, fsem, list, mem, sid, src, arg, dst, ret>>

\* CIOCAUTHCRYPT dies inside the kernel while it uses the session:
\* cryptodev_get_dst_len divides by the block size of a session that has no
\* cipher, and a request whose lists are shorter than its lengths may run off
\* them (AuthEnc has both).  The task is killed, and ses->sem stays locked.
AuthDies(t) ==
  /\ pc[t] = "use"
  /\ phase[t] \in {"auth", "authrun"}
  /\ pc' = [pc EXCEPT ![t] = "oops"]
  /\ UNCHANGED <<table, phase, ptr, src, arg, dst, ret>>

\* The source session stays locked while the destination is looked up.
HoldSource(t) ==
  /\ pc[t] = "use"
  /\ phase[t] = "src"
  /\ src'   = [src EXCEPT ![t] = ptr[t]]
  /\ ptr'   = [ptr EXCEPT ![t] = NoSession]
  /\ arg'   = [arg EXCEPT ![t] = dst[t]]
  /\ pc'    = [pc EXCEPT ![t] = "get"]
  /\ phase' = [phase EXCEPT ![t] = "dst"]
  /\ UNCHANGED <<table, dst, ret>>

\* cryptodev_hash_copy, then both sessions are put back.
CopyReturn(t) ==
  /\ pc[t] = "use"
  /\ phase[t] = "dst"
  /\ sem' = [s \in Session |->
               IF s \in {ptr[t], src[t]} THEN NoThread ELSE sem[s]]
  /\ \E r \in {"ok", "EINVAL"} : Return(t, r)
  /\ UNCHANGED <<file, fsem, list, mem, sid>>

-----------------------------------------------------------------------------
(* cryptodev_release and cryptodev_open.                                   *)

\* The last descriptor is closed: no ioctl is in progress (each one holds a
\* reference to the file) and cancel_work_sync has stopped the worker.  The
\* files of a task that died are closed too.
Release(t) ==
  /\ file = "open"
  /\ pc[t] = "idle"
  /\ \A u \in Thread : pc[u] \in {"idle", "oops"}
  /\ file'  = "releasing"
  /\ pc'    = [pc EXCEPT ![t] = "release"]
  /\ phase' = [phase EXCEPT ![t] = "release"]
  /\ ret'   = [ret EXCEPT ![t] = "none"]
  /\ UNCHANGED <<fsem, list, mem, sem, sid, ptr, src, arg, dst>>

\* crypto_finish_all_sessions takes fcr->sem and unlinks the next session.
ReleaseStart(t) ==
  /\ pc[t] = "release"
  /\ fsem = NoThread
  /\ \E s \in list : Unlink(t, s)
  /\ UNCHANGED <<file, mem, sem, sid, phase, src, arg, dst, ret>>

\* The session is freed and the loop goes on to the next one.
ReleaseMore(t) ==
  /\ pc[t] = "free"
  /\ phase[t] = "release"
  /\ FreeSession(t)
  /\ \E s \in list : Unlink(t, s)
  /\ UNCHANGED <<file, sid, phase, src, arg, dst, ret>>

\* Whether list_for_each_entry_safe has come to the end of the list.
StopAfterFirst == TRUE
EndOfList == list = {}

\* Nothing is left: the last session is freed, then the file's own state.
ReleaseDone(t) ==
  /\ phase[t] = "release"
  /\ EndOfList
  /\ \/ pc[t] = "release" /\ fsem = NoThread /\ UNCHANGED <<mem, sem>>
     \/ pc[t] = "free" /\ FreeSession(t)
  /\ fsem' = NoThread
  /\ list' = {}
  /\ file' = "closed"
  /\ Return(t, "ok")
  /\ UNCHANGED sid

\* A new open of the device gets a new, empty struct fcrypt.
Open(t) ==
  /\ file = "closed"
  /\ file' = "open"
  /\ UNCHANGED <<fsem, list, mem, sem, sid, locals>>

-----------------------------------------------------------------------------
\* A new call or the end of the file's life: the application's choice.
Begin(t) ==
  \/ CreateAlloc(t) \/ Finish(t) \/ Info(t) \/ Crypt(t) \/ AuthCrypt(t)
  \/ Submit(t) \/ Job(t) \/ CopyHash(t) \/ Release(t) \/ Open(t)

\* The next step of a call in progress.
Step(t) ==
  \/ CreateError(t) \/ CreateList(t) \/ CreateFill(t) \/ CreateReturn(t)
  \/ CreateUndo(t)
  \/ FinishFound(t) \/ FinishMissing(t) \/ DestroyLock(t) \/ FinishReturn(t)
  \/ GetFound(t) \/ GetMissing(t) \/ LockSession(t)
  \/ PutReturn(t) \/ PutAndRun(t) \/ AuthDies(t) \/ HoldSource(t) \/ CopyReturn(t)
  \/ ReleaseStart(t) \/ ReleaseMore(t) \/ ReleaseDone(t)

Next == \E t \in Thread : Begin(t) \/ Step(t)

Spec == Init /\ [][Next]_vars

\* A thread inside the driver is scheduled, a mutex it waits for is handed
\* to it if it is released again and again (kernel mutexes queue their
\* waiters), and a session operation terminates.
Fairness == \A t \in Thread : SF_vars(Step(t))

FairSpec == Spec /\ Fairness

-----------------------------------------------------------------------------
(* Properties.                                                             *)

\* Type correctness: every variable is in its set, and a thread that is at a
\* point where the code dereferences a pointer has one that is not NULL.
TypeOK ==
  /\ file \in {"open", "releasing", "closed"}
  /\ fsem \in Thread \cup {NoThread}
  /\ list \subseteq Session
  /\ mem \in [Session -> {"free", "live"}]
  /\ sem \in [Session -> Thread \cup {NoThread}]
  /\ sid \in [Session -> Sid]
  /\ pc \in [Thread -> Pcs]
  /\ phase \in [Thread -> Phases]
  /\ ptr \in [Thread -> Session \cup {NoSession}]
  /\ src \in [Thread -> Session \cup {NoSession}]
  /\ arg \in [Thread -> Sid \cup {NoSid}]
  /\ dst \in [Thread -> Sid \cup {NoSid}]
  /\ ret \in [Thread -> Rets]
  /\ \A t \in Thread :
       /\ pc[t] \in {"create", "fill_sop", "wait", "use", "oops", "destroy",
                   "free"} => ptr[t] # NoSession
       /\ phase[t] = "dst" => src[t] # NoSession

\* The sessions thread t dereferences, will once it gets their mutex, or did
\* when it died.
Refs(t) ==
  (IF pc[t] \in {"create", "fill_sop", "wait", "use", "oops", "destroy", "free"}
     THEN {ptr[t]} ELSE {})
    \cup (IF phase[t] = "dst" THEN {src[t]} ELSE {})

\* No session is freed while a thread waits for its mutex, holds it or is
\* destroying it: crypto_get_session_by_sid locks ses->sem before it drops
\* fcr->sem, and crypto_destroy_session runs under fcr->sem and waits for
\* ses->sem before it frees.  One dereference is excepted because it is done
\* without either mutex: crypto_create_session's last, sop->ses =
\* ses_new->sid (pc "fill_sop"), which ReturnedSidIsTheListedOne is about.
ReferencedSessionsAreLive ==
  \A t \in Thread : pc[t] # "fill_sop" => \A s \in Refs(t) : mem[s] = "live"

\* A thread that uses a session, or holds one as the source of a copy, owns
\* its mutex: two ioctls on one session, or an ioctl and its destruction,
\* never overlap (crypto_get_session_by_sid: "The returned session is
\* locked").
SessionsInUseAreOwned ==
  \A t \in Thread :
    /\ pc[t] \in {"use", "oops", "free"} => sem[ptr[t]] = t
    /\ phase[t] = "dst" => sem[src[t]] = t

\* Listed sessions have different identifiers, whatever the random numbers
\* of concurrent crypto_create_session calls are.
SidsAreUnique ==
  \A s, r \in list : sid[s] = sid[r] => s = r

\* A thread works on the session whose identifier its caller passed, even if
\* the memory or the identifier of a finished session was reused meanwhile.
UsesRequestedSession ==
  \A t \in Thread : pc[t] \in {"wait", "use"} => sid[ptr[t]] = arg[t]

\* Once cryptodev_release has returned, no session of the file is allocated:
\* crypto_finish_all_sessions reaches every session, including those of
\* calls that failed half way.
ClosedFileHasNoSessions ==
  file = "closed" => \A s \in Session : mem[s] = "free"

\* A session that has left fcr->list is locked by no one but the thread
\* that destroys it: a look-up never returns a session that was finished
\* before the look-up took its mutex.
UnlinkedSessionsAreOnlyDestroyed ==
  [][\A s \in Session, t \in Thread :
       s \notin list /\ sem[s] # t /\ sem'[s] = t => pc[t] = "destroy"]_vars

\* No thread ever copies a hash state from one session to another.
NoCopies == \A t \in Thread : phase[t] \notin {"src", "dst"}

\* No thread has died inside CIOCAUTHCRYPT.
NobodyDies == \A t \in Thread : pc[t] # "oops"

\* Every ioctl, job and release eventually returns and no thread waits for a
\* mutex for ever, in an application that does not use CIOCCPHASH and as long
\* as no CIOCAUTHCRYPT dies with its session locked (the division of
\* cryptodev_get_dst_len): the next look-up of that session would wait for it
\* with fcr->sem held, and every other call on the file behind it.
EveryCallReturns ==
  []NoCopies /\ []NobodyDies
    => \A t \in Thread : pc[t] # "idle" ~> pc[t] = "idle"

\* CIOCCPHASH between two sessions of the file returns.  The code does not
\* guarantee it: see the README.
CopyReturns ==
  \A t \in Thread : phase[t] \in {"src", "dst"} ~> pc[t] = "idle"

\* The identifier CIOCGSESSION returns is the one the new session was listed
\* under.  The code reads it after dropping fcr->sem: see the README.
ReturnedSidIsTheListedOne ==
  [][\A t \in Thread :
       pc[t] = "fill_sop" /\ pc'[t] = "copy_sop" => arg'[t] = arg[t]]_vars
=============================================================================
