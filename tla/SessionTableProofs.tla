-------------------------- MODULE SessionTableProofs --------------------------
(***************************************************************************)
(* The safety properties of SessionTable hold for every number of threads, *)
(* session addresses and identifiers.                                      *)
(***************************************************************************)
EXTENDS SessionTable, TLAPS

\* The state cryptodev_open leaves is well typed.
LEMMA TypeInit == Init => TypeOK
  BY DEF Init, TypeOK, Pcs, Phases, Rets

\* Every step keeps the types; in particular a thread that goes on to
\* dereference a session has found one (the look-ups test for NULL).
LEMMA TypeStep == TypeOK /\ [Next]_vars => TypeOK'
<1> SUFFICES ASSUME TypeOK, [Next]_vars PROVE TypeOK'
  OBVIOUS
<1> USE ConstAssumption DEF TypeOK, Pcs, Phases, Rets, table, locals
<1>1. CASE UNCHANGED vars
  BY <1>1 DEF vars
<1>2. ASSUME NEW t \in Thread, Begin(t) PROVE TypeOK'
  <2>1. CASE CreateAlloc(t)
    BY <2>1 DEF CreateAlloc, Call
  <2>2. CASE Finish(t)
    BY <2>2 DEF Finish, Call
  <2>3. CASE Info(t)
    BY <2>3 DEF Info, Call
  <2>4. CASE Crypt(t)
    BY <2>4 DEF Crypt, Call
  <2>5. CASE Job(t)
    BY <2>5 DEF Job, Call
  <2>6. CASE CopyHash(t)
    BY <2>6 DEF CopyHash, Call
  <2>7. CASE Release(t)
    BY <2>7 DEF Release
  <2>8. CASE Open(t)
    BY <2>8 DEF Open
  <2>9. CASE Submit(t)
    BY <2>9 DEF Submit, Call
  <2>10. CASE AuthCrypt(t)
    BY <2>10 DEF AuthCrypt, Call
  <2> QED
    BY <1>2, <2>1, <2>2, <2>3, <2>4, <2>5, <2>6, <2>7, <2>8, <2>9,
       <2>10 DEF Begin
<1>3. ASSUME NEW t \in Thread, Step(t) PROVE TypeOK'
  <2>1. CASE CreateError(t)
    BY <2>1 DEF CreateError, Return
  <2>2. CASE CreateList(t)
    BY <2>2 DEF CreateList, AcceptedSids
  <2>3. CASE CreateFill(t)
    BY <2>3 DEF CreateFill
  <2>4. CASE CreateReturn(t)
    BY <2>4 DEF CreateReturn, Return
  <2>5. CASE CreateUndo(t)
    BY <2>5 DEF CreateUndo
  <2>6. CASE FinishFound(t)
    BY <2>6 DEF FinishFound, Matches, Unlink
  <2>7. CASE FinishMissing(t)
    BY <2>7 DEF FinishMissing, Return, FinishResult
  <2>8. CASE DestroyLock(t)
    BY <2>8 DEF DestroyLock
  <2>9. CASE FinishReturn(t)
    BY <2>9 DEF FinishReturn, FreeSession, Return, FinishResult
  <2>10. CASE GetFound(t)
    BY <2>10 DEF GetFound, Matches
  <2>11. CASE GetMissing(t)
    BY <2>11 DEF GetMissing, Return
  <2>12. CASE LockSession(t)
    BY <2>12 DEF LockSession
  <2>13. CASE PutReturn(t)
    BY <2>13 DEF PutReturn, Results, Return
  <2>14. CASE PutAndRun(t)
    BY <2>14 DEF PutAndRun
  <2>15. CASE HoldSource(t)
    BY <2>15 DEF HoldSource
  <2>16. CASE CopyReturn(t)
    BY <2>16 DEF CopyReturn, Return
  <2>17. CASE ReleaseStart(t)
    BY <2>17 DEF ReleaseStart, Unlink
  <2>18. CASE ReleaseMore(t)
    BY <2>18 DEF ReleaseMore, FreeSession, Unlink
  <2>19. CASE ReleaseDone(t)
    BY <2>19 DEF ReleaseDone, FreeSession, Return
  <2>20. CASE AuthDies(t)
    BY <2>20 DEF AuthDies
  <2> QED
    BY <1>3, <2>1, <2>2, <2>3, <2>4, <2>5, <2>6, <2>7, <2>8, <2>9, <2>10,
       <2>11, <2>12, <2>13, <2>14, <2>15, <2>16, <2>17, <2>18, <2>19, <2>20
    DEF Step
<1> QED
  BY <1>1, <1>2, <1>3 DEF Next

\* Type correctness, for every value of the constants: in particular no
\* ioctl, job or release dereferences a NULL session pointer.
THEOREM TypeCorrect == Spec => []TypeOK
  BY TypeInit, TypeStep, PTL DEF Spec

-----------------------------------------------------------------------------
(***************************************************************************)
(* The inductive invariant.  Its parts say where a thread may be on whose  *)
(* behalf, that the two kinds of mutex are owned exactly where the code    *)
(* says they are, and who may still reach a session in each state of it.   *)
(***************************************************************************)

\* The control points of the helper functions, and their callers.
ControlInv ==
  \A t \in Thread :
    /\ pc[t] = "idle" <=> phase[t] = "none"
    /\ pc[t] \in {"create", "fill_sop", "copy_sop"} => phase[t] = "gsession"
    /\ pc[t] \in {"get", "wait", "use"}
         => phase[t] \in {"info", "fill", "submit", "run", "auth", "authrun",
                         "src", "dst"}
    /\ pc[t] = "oops" => phase[t] \in {"auth", "authrun"}
    /\ pc[t] = "finish" => phase[t] \in {"gsession", "fsession"}
    /\ pc[t] \in {"destroy", "free"}
         => phase[t] \in {"gsession", "fsession", "release"}
    /\ pc[t] = "release" => phase[t] = "release"

\* cryptodev_release runs alone, but for tasks that died, and ends with an empty
\* list and no dead task in the file.
FileInv ==
  /\ \A t \in Thread :
       phase[t] = "release"
         => /\ file = "releasing"
            /\ \A u \in Thread : u # t => pc[u] \in {"idle", "oops"}
  /\ file = "closed" => list = {} /\ \A t \in Thread : pc[t] = "idle"

\* fcr->sem is owned from a successful look-up until ses->sem is locked, and
\* all through the destruction of a session.
FileLockInv ==
  \A t \in Thread : fsem = t <=> pc[t] \in {"wait", "destroy", "free"}

\* Where the code owns ses->sem.
Holds(t, s) ==
  \/ pc[t] \in {"use", "oops", "free"} /\ ptr[t] = s
  \/ phase[t] = "dst" /\ src[t] = s

SessionLockInv ==
  \A t \in Thread, s \in Session : sem[s] = t <=> Holds(t, s)

\* A thread waits only for a listed session; a session that is being created
\* or destroyed is not listed, and one that is being created is known to no
\* other thread, but for one that is at its unlocked read of ses_new->sid.
ReachInv ==
  /\ \A s \in list : mem[s] = "live"
  /\ ReferencedSessionsAreLive
  /\ \A t \in Thread :
       /\ pc[t] = "wait" => ptr[t] \in list
       /\ pc[t] \in {"create", "destroy", "free"} => ptr[t] \notin list
       /\ pc[t] = "create"
            => \A u \in Thread :
                 u # t /\ pc[u] # "fill_sop" => ptr[t] \notin Refs(u)

\* No session is lost: it is listed, or a thread is creating or destroying it.
NoLeakInv ==
  \A s \in Session : mem[s] = "live" =>
    \/ s \in list
    \/ \E t \in Thread : pc[t] \in {"create", "destroy", "free"} /\ ptr[t] = s

IInv ==
  /\ TypeOK
  /\ ControlInv
  /\ FileInv
  /\ FileLockInv
  /\ SessionLockInv
  /\ ReachInv
  /\ NoLeakInv
  /\ SidsAreUnique
  /\ UsesRequestedSession

\* A newly opened file has no sessions, owners or calls.
LEMMA InvInit == Init => IInv
  BY TypeInit, ConstAssumption
  DEF Init, IInv, ControlInv, FileInv, FileLockInv, SessionLockInv, Holds,
      ReachInv, NoLeakInv, ReferencedSessionsAreLive, Refs, SidsAreUnique,
      UsesRequestedSession

\* Every step keeps the invariant.  The steps that free a session are the
\* ones that need it all: the thread owns fcr->sem and ses->sem, so by the two
\* lock invariants no other thread waits for the session, uses it, copies from
\* it or destroys it, and none can be creating it.
LEMMA InvStep == IInv /\ [Next]_vars => IInv'
<1> SUFFICES ASSUME IInv, [Next]_vars PROVE IInv'
  OBVIOUS
<1>1. TypeOK'
  BY TypeStep DEF IInv
<1> USE <1>1, ConstAssumption
    DEF IInv, TypeOK, ControlInv, FileInv, FileLockInv, SessionLockInv, Holds,
        ReachInv, NoLeakInv, ReferencedSessionsAreLive, Refs, SidsAreUnique,
        UsesRequestedSession, table, locals
<1>2. CASE UNCHANGED vars
  BY <1>2 DEF vars
<1>3. ASSUME NEW t \in Thread, Begin(t) PROVE IInv'
  <2>1. CASE CreateAlloc(t)
    BY <2>1 DEF CreateAlloc, Call
  <2>2. CASE Finish(t)
    BY <2>2 DEF Finish, Call
  <2>3. CASE Info(t)
    BY <2>3 DEF Info, Call
  <2>4. CASE Crypt(t)
    BY <2>4 DEF Crypt, Call
  <2>5. CASE Job(t)
    BY <2>5 DEF Job, Call
  <2>6. CASE CopyHash(t)
    BY <2>6 DEF CopyHash, Call
  <2>7. CASE Release(t)
    BY <2>7 DEF Release
  <2>8. CASE Open(t)
    BY <2>8 DEF Open
  <2>9. CASE Submit(t)
    BY <2>9 DEF Submit, Call
  <2>10. CASE AuthCrypt(t)
    BY <2>10 DEF AuthCrypt, Call
  <2> QED
    BY <1>3, <2>1, <2>2, <2>3, <2>4, <2>5, <2>6, <2>7, <2>8, <2>9,
       <2>10 DEF Begin
<1>4. ASSUME NEW t \in Thread, Step(t) PROVE IInv'
  <2>1. CASE CreateError(t)
    BY <2>1 DEF CreateError, Return
  <2>2. CASE CreateList(t)
    BY <2>2 DEF CreateList, AcceptedSids
  <2>3. CASE CreateFill(t)
    BY <2>3 DEF CreateFill
  <2>4. CASE CreateReturn(t)
    BY <2>4 DEF CreateReturn, Return
  <2>5. CASE CreateUndo(t)
    BY <2>5 DEF CreateUndo
  <2>6. CASE FinishFound(t)
    BY <2>6 DEF FinishFound, Matches, Unlink
  <2>7. CASE FinishMissing(t)
    BY <2>7 DEF FinishMissing, Return, FinishResult
  <2>8. CASE DestroyLock(t)
    BY <2>8 DEF DestroyLock
  <2>9. CASE FinishReturn(t)
    BY <2>9 DEF FinishReturn, FreeSession, Return, FinishResult
  <2>10. CASE GetFound(t)
    BY <2>10 DEF GetFound, Matches
  <2>11. CASE GetMissing(t)
    BY <2>11 DEF GetMissing, Return
  <2>12. CASE LockSession(t)
    BY <2>12 DEF LockSession
  <2>13. CASE PutReturn(t)
    BY <2>13 DEF PutReturn, Results, Return
  <2>14. CASE PutAndRun(t)
    BY <2>14 DEF PutAndRun
  <2>15. CASE HoldSource(t)
    BY <2>15 DEF HoldSource
  <2>16. CASE CopyReturn(t)
    BY <2>16 DEF CopyReturn, Return
  <2>17. CASE ReleaseStart(t)
    BY <2>17 DEF ReleaseStart, Unlink
  <2>18. CASE ReleaseMore(t)
    BY <2>18 DEF ReleaseMore, FreeSession, Unlink
  <2>19. CASE ReleaseDone(t)
    <3>1. list = {} /\ phase[t] = "release" /\ pc[t] \in {"release", "free"}
      BY <2>19 DEF ReleaseDone, EndOfList
    <3>2. \A u \in Thread : u # t => pc[u] \in {"idle", "oops"}
      BY <3>1
    <3>3. \A u \in Thread : u # t => pc[u] = "idle"
      <4> SUFFICES ASSUME NEW u \in Thread, u # t, pc[u] = "oops" PROVE FALSE
        BY <3>2
      <4>1. ptr[u] \in Session /\ sem[ptr[u]] = u /\ mem[ptr[u]] = "live"
        OBVIOUS
      <4>2. pc[t] = "free" /\ ptr[t] = ptr[u]
        BY <3>1, <3>2, <4>1
      <4> QED
        BY <4>1, <4>2
    <3> QED
      BY <2>19, <3>1, <3>3 DEF ReleaseDone, FreeSession, Return, EndOfList
  <2>20. CASE AuthDies(t)
    BY <2>20 DEF AuthDies
  <2> QED
    BY <1>4, <2>1, <2>2, <2>3, <2>4, <2>5, <2>6, <2>7, <2>8, <2>9, <2>10,
       <2>11, <2>12, <2>13, <2>14, <2>15, <2>16, <2>17, <2>18, <2>19, <2>20
    DEF Step
<1> QED
  BY <1>2, <1>3, <1>4 DEF Next

\* The inductive invariant holds in every reachable state.
LEMMA Invariance == Spec => []IInv
  BY InvInit, InvStep, PTL DEF Spec

-----------------------------------------------------------------------------
(* What the invariant implies.                                             *)

\* No thread waits for, holds, copies from or destroys a session that has
\* been freed: crypto_get_session_by_sid and crypto_destroy_session together
\* exclude a use after free, whatever the application's threads do (the
\* property excepts the one read that is under no mutex).
THEOREM NoUseAfterFree == Spec => []ReferencedSessionsAreLive
<1>1. IInv => ReferencedSessionsAreLive
  BY DEF IInv, ReachInv
<1> QED
  BY <1>1, Invariance, PTL

\* The users of a session exclude each other: whoever runs a request on it,
\* copies its hash state or frees it owns ses->sem.
THEOREM MutualExclusion == Spec => []SessionsInUseAreOwned
<1>1. IInv => SessionsInUseAreOwned
  BY DEF IInv, TypeOK, SessionLockInv, Holds, SessionsInUseAreOwned
<1> QED
  BY <1>1, Invariance, PTL

\* Two listed sessions never have the same identifier: the duplicate check
\* and the list_add of crypto_create_session are one section of fcr->sem.
THEOREM UniqueSids == Spec => []SidsAreUnique
<1>1. IInv => SidsAreUnique
  BY DEF IInv
<1> QED
  BY <1>1, Invariance, PTL

\* A request runs on a session with the identifier its caller passed, although
\* identifiers and memory are reused.
THEOREM RightSession == Spec => []UsesRequestedSession
<1>1. IInv => UsesRequestedSession
  BY DEF IInv
<1> QED
  BY <1>1, Invariance, PTL

\* cryptodev_release leaks no session: every one that exists is listed or in
\* the hands of a call, and no call is in progress when the file is closed.
THEOREM ReleaseFreesSessions == Spec => []ClosedFileHasNoSessions
<1>1. IInv => ClosedFileHasNoSessions
  BY DEF IInv, TypeOK, FileInv, NoLeakInv, ClosedFileHasNoSessions
<1> QED
  BY <1>1, Invariance, PTL

\* Once crypto_finish_session has unlinked a session, only the thread that
\* destroys it can still get its mutex.
THEOREM FinishedSessionsStayFinished == Spec => UnlinkedSessionsAreOnlyDestroyed
<1> DEFINE OnlyDestroyed ==
      \A s \in Session, t \in Thread :
        s \notin list /\ sem[s] # t /\ sem'[s] = t => pc[t] = "destroy"
<1>1. IInv /\ [Next]_vars => OnlyDestroyed
  <2> SUFFICES ASSUME IInv, [Next]_vars PROVE OnlyDestroyed
    OBVIOUS
  <2> USE ConstAssumption DEF IInv, TypeOK, ReachInv, table
  <2>1. CASE UNCHANGED vars
    BY <2>1 DEF vars
  <2>2. ASSUME NEW t \in Thread, Begin(t) PROVE OnlyDestroyed
    BY <2>2 DEF Begin, CreateAlloc, Finish, Info, Crypt, AuthCrypt, Submit, Job,
                CopyHash, Release, Open
  <2>3. ASSUME NEW t \in Thread, Step(t) PROVE OnlyDestroyed
    <3>1. CASE LockSession(t)
      BY <3>1 DEF LockSession
    <3>2. CASE DestroyLock(t)
      BY <3>2 DEF DestroyLock
    <3>3. CASE ~LockSession(t) /\ ~DestroyLock(t)
      BY <2>3, <3>3
      DEF Step, CreateError, CreateList, CreateFill, CreateReturn, CreateUndo,
          FinishFound, FinishMissing, FinishReturn, FreeSession, GetFound,
          GetMissing, PutReturn, PutAndRun, AuthDies, HoldSource, CopyReturn,
          ReleaseStart, ReleaseMore, ReleaseDone
    <3> QED
      BY <3>1, <3>2, <3>3
  <2> QED
    BY <2>1, <2>2, <2>3 DEF Next
<1> QED
  BY <1>1, Invariance, PTL DEF Spec, UnlinkedSessionsAreOnlyDestroyed
=============================================================================
