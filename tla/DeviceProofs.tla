------------------------------ MODULE DeviceProofs ------------------------------
(***************************************************************************)
(* The safety properties of Device hold for every number of threads, items *)
(* and descriptors.                                                        *)
(***************************************************************************)
EXTENDS Device, AsyncRingProofs

\* Every step of the device is a step of the ring or leaves it alone.
LEMMA DeviceStepIsRingStep == [DeviceNext]_<<vars, device>> => [Next]_vars
<1> SUFFICES ASSUME DeviceNext PROVE Next \/ UNCHANGED vars
  BY DEF device
<1>1. CASE Ring
  BY <1>1 DEF Ring, Next, NextWithMemory
<1>2. CASE DeviceOpen \/ DeviceRelease
  BY <1>2 DEF DeviceOpen, DeviceRelease, Next, NextWithMemory
<1>3. CASE ~Ring /\ ~DeviceOpen /\ ~DeviceRelease
  BY <1>3 DEF DeviceNext, InitWorkqueue, Register, RegisterFails, InitSysctl,
              ExitWorkqueue, ExitDeregister, Clone, CloneReturn, Close
<1> QED
  BY <1>1, <1>2, <1>3

\* The ring inside the device, its descriptors and module behaves like the
\* ring of AsyncRing, so what is proved of that one holds here.
THEOREM DeviceImplementsRing == DeviceSpec => Spec
BY DeviceStepIsRingStep, PTL DEF DeviceSpec, DeviceInit, Spec

-----------------------------------------------------------------------------
(* The inductive invariant.                                                *)

DeviceTypeOK ==
  /\ mod \in {"unloaded", "init", "loaded", "exit"}
  /\ wq \in BOOLEAN /\ node \in BOOLEAN /\ sysctl \in BOOLEAN
  /\ fds \subseteq Fd /\ IsFiniteSet(fds)
  /\ clone \in [Thread -> Fd \cup {NoFd}]

\* What is registered at each point of loading and unloading.
ModuleInv ==
  /\ wq <=> mod \in {"init", "loaded"}
  /\ mod = "loaded" => node
  /\ mod = "unloaded" => ~node
  /\ mod \in {"unloaded", "init"} => ~sysctl

\* A file exists only while the module is loaded; f_count is the number of
\* descriptors, and they and the calls of CRIOGET keep the file open.
ReferenceInv ==
  /\ file # "closed" => node /\ mod \in {"init", "loaded"}
  /\ refs = Cardinality(fds)
  /\ fds # {} => file = "open"
  /\ \A t \in Thread : clone[t] # NoFd => file = "open"

DeviceInv ==
  /\ DeviceTypeOK
  /\ ModuleInv
  /\ ReferenceInv

\* The module is not loaded at first.
LEMMA DeviceInvInit == DeviceInit => DeviceInv
<1> SUFFICES ASSUME DeviceInit PROVE DeviceInv
  OBVIOUS
<1>1. DeviceTypeOK
  BY FS_EmptySet DEF DeviceInit, DeviceTypeOK
<1>2. ModuleInv
  BY DEF DeviceInit, ModuleInv
<1>3. ReferenceInv
  BY FS_EmptySet DEF DeviceInit, Init, ReferenceInv
<1> QED
  BY <1>1, <1>2, <1>3 DEF DeviceInv

\* Every step keeps the invariant.
LEMMA DeviceInvStep ==
  ASSUME ItemInv, DeviceInv, [DeviceNext]_<<vars, device>>
  PROVE  DeviceInv'
<1> USE DeviceAssumption DEF DeviceInv
<1>1. Cardinality(fds) \in Nat /\ (Cardinality(fds) = 0 <=> fds = {})
  BY FS_CardinalityType, FS_EmptySet DEF DeviceTypeOK
<1>2. CASE InitWorkqueue \/ Register \/ RegisterFails \/ InitSysctl \/ ExitWorkqueue
           \/ ExitDeregister \/ UNCHANGED <<vars, device>>
  <2>1. /\ UNCHANGED <<fds, refs, clone>> /\ file' = file
        /\ \/ file = "closed"
           \/ mod' \in {"init", "loaded"} /\ node' /\ mod \in {"init", "loaded"}
    BY <1>2 DEF InitWorkqueue, Register, RegisterFails, InitSysctl, ExitWorkqueue,
                ExitDeregister, vars, device, ModuleInv, ReferenceInv
  <2>2. DeviceTypeOK'
    BY <1>2, <2>1 DEF InitWorkqueue, Register, RegisterFails, InitSysctl, ExitWorkqueue,
                      ExitDeregister, device, DeviceTypeOK
  <2>3. ModuleInv'
    BY <1>2 DEF InitWorkqueue, Register, RegisterFails, InitSysctl, ExitWorkqueue,
                ExitDeregister, device, DeviceTypeOK, ModuleInv
  <2>4. ReferenceInv'
    BY <2>1 DEF ReferenceInv
  <2> QED
    BY <2>2, <2>3, <2>4
<1>3. CASE DeviceOpen
  <2>1. PICK f \in Fd : fds' = {f}
    BY <1>3 DEF DeviceOpen
  <2>2. IsFiniteSet(fds') /\ Cardinality(fds') = 1
    BY <2>1, FS_Singleton
  <2> QED
    BY <1>3, <2>1, <2>2 DEF DeviceOpen, Open, DeviceTypeOK, ModuleInv, ReferenceInv
<1>4. CASE DeviceRelease
  BY <1>1, <1>4 DEF DeviceRelease, Release, device, DeviceTypeOK, ModuleInv, ReferenceInv
<1>5. ASSUME NEW t \in Thread, Clone(t) PROVE DeviceInv'
  <2>1. PICK f \in Fd \ fds : /\ fds' = fds \cup {f}
                              /\ clone' = [clone EXCEPT ![t] = f]
    BY <1>5 DEF Clone
  <2>2. IsFiniteSet(fds') /\ Cardinality(fds') = Cardinality(fds) + 1
    BY <2>1, FS_AddElement DEF DeviceTypeOK
  <2> QED
    BY <1>5, <2>1, <2>2
    DEF Clone, Ready, vars, lists, DeviceTypeOK, ModuleInv, ReferenceInv
<1>6. ASSUME NEW t \in Thread, CloneReturn(t) PROVE DeviceInv'
  <2>1. \/ fds' = fds /\ refs' = refs
        \/ fds' = fds \ {clone[t]} /\ refs' = IF clone[t] \in fds THEN refs - 1 ELSE refs
    BY <1>6 DEF CloneReturn
  <2>2. IsFiniteSet(fds') /\ refs' = Cardinality(fds')
    BY <2>1, FS_RemoveElement DEF DeviceTypeOK, ReferenceInv
  <2> QED
    BY <1>6, <2>1, <2>2 DEF CloneReturn, vars, DeviceTypeOK, ModuleInv, ReferenceInv
<1>7. ASSUME NEW f \in Fd, Close(f) PROVE DeviceInv'
  <2>1. IsFiniteSet(fds') /\ refs' = Cardinality(fds')
    BY <1>7, FS_RemoveElement DEF Close, DeviceTypeOK, ReferenceInv
  <2> QED
    BY <1>7, <2>1 DEF Close, vars, DeviceTypeOK, ModuleInv, ReferenceInv
<1>8. CASE Ring
  <2>1. UNCHANGED device /\ (file' = file \/ file \in {"cancel", "free"})
    BY <1>8 DEF Ring, Begin, Step, Work, RunTake, RunGrow, FetchTake, PollStart,
         PollTimeout, RunAlloc, RunNoMemory, RunAdd, RunQueue, FetchCopy, FetchGive,
         FetchWake, PollIn, PollOut, PollCount, PollAgain, WorkBegin, WorkCut, WorkRun,
         WorkSplice, WorkWake, ReleaseSplice, ReleaseFree
  <2> QED
    BY <2>1 DEF device, DeviceTypeOK, ModuleInv, ReferenceInv
<1> QED
  BY <1>2, <1>3, <1>4, <1>5, <1>6, <1>7, <1>8 DEF DeviceNext

\* The invariants of the ring and of the device, in every reachable state.
LEMMA DeviceInvariance == DeviceSpec => [](ItemInv /\ DeviceInv)
<1>1. DeviceSpec => [](ItemInv /\ CountInv)
  BY DeviceImplementsRing, RingInvariance, PTL
<1>2. ItemInv /\ DeviceInv /\ [DeviceNext]_<<vars, device>> => DeviceInv'
  BY DeviceInvStep
<1> QED
  BY <1>1, <1>2, DeviceInvInit, PTL DEF DeviceSpec

-----------------------------------------------------------------------------
(* What the invariants imply.                                              *)

\* What the run DeviceSafety checks of the ring holds of every device.
THEOREM DeviceRing ==
  DeviceSpec => [](TypeOK /\ ItemsAreConserved /\ RingIsBounded /\ NoLostWakeUp)
BY DeviceImplementsRing, RingTypeCorrect, ConservedItems, BoundedRing, NoWakeUpIsLost, PTL

\* The workqueue that all files share exists whenever work is queued on it.
THEOREM QueueOutlivesWork == DeviceSpec => []WorkHasAQueue
<1>1. ItemInv /\ DeviceInv => WorkHasAQueue
  BY DEF ItemInv, FileInv, DeviceInv, ModuleInv, ReferenceInv, WorkHasAQueue
<1> QED
  BY <1>1, DeviceInvariance, PTL

\* cancel_work_sync has taken effect before anything is freed.
THEOREM WorkerIsStopped == DeviceSpec => []WorkerStopsBeforeFree
<1>1. ItemInv => WorkerStopsBeforeFree
  BY DEF ItemInv, FileInv, WorkerStopsBeforeFree
<1> QED
  BY <1>1, DeviceInvariance, PTL

\* No descriptor and no call outlives the state of the file, although CRIOGET
\* and close race.
THEOREM FileOutlives == DeviceSpec => []FileOutlivesItsUsers
<1>1. ItemInv /\ DeviceInv => FileOutlivesItsUsers
  BY DEF ItemInv, FileInv, DeviceInv, ReferenceInv, FileOutlivesItsUsers
<1> QED
  BY <1>1, DeviceInvariance, PTL

\* A module that failed to load, or was unloaded, has left nothing behind.
THEOREM CleanUnload == DeviceSpec => []NothingIsLeftBehind
<1>1. DeviceInv => NothingIsLeftBehind
  BY DEF DeviceInv, ModuleInv, ReferenceInv, NothingIsLeftBehind
<1> QED
  BY <1>1, DeviceInvariance, PTL
=============================================================================
