-------------------------------- MODULE Device --------------------------------
(***************************************************************************)
(* The life of the driver around the ring of module AsyncRing: init and    *)
(* exit of the module, the workqueue cryptodev_wq all files share,         *)
(* /dev/crypto, the descriptors of an open file and CRIOGET, which makes   *)
(* another one.  The kernel's part is external: a file keeps a reference   *)
(* on the module (fops.owner), descriptors and calls keep one on the file, *)
(* and the last one calls cryptodev_release.                               *)
(***************************************************************************)
EXTENDS AsyncRing

CONSTANTS
  Fd,          \* descriptor numbers of the process
  NoFd         \* clonefd has none

ASSUME DeviceAssumption == NoFd \notin Fd

VARIABLES
  mod,         \* "unloaded", "init", "loaded" or "exit"
  wq,          \* cryptodev_wq exists
  node,        \* /dev/crypto is registered
  sysctl,      \* verbosity_sysctl_header is not NULL
  fds,         \* open descriptors of the file
  refs,        \* references of descriptors on the file (f_count)
  clone        \* the descriptor a thread in CRIOGET has just made, or NoFd

device == <<mod, wq, node, sysctl, fds, refs, clone>>

DeviceInit ==
  /\ Init
  /\ mod = "unloaded"
  /\ wq = FALSE /\ node = FALSE /\ sysctl = FALSE
  /\ fds = {} /\ refs = 0
  /\ clone = [t \in Thread |-> NoFd]

-----------------------------------------------------------------------------
(* init_cryptodev and exit_cryptodev                                       *)

\* The workqueue comes first.  (Without it loading fails, with no change.)
InitWorkqueue ==
  /\ mod = "unloaded"
  /\ mod' = "init"
  /\ wq' = TRUE
  /\ UNCHANGED <<vars, node, sysctl, fds, refs, clone>>

\* cryptodev_register: the device can be opened from here on.
Register ==
  /\ mod = "init" /\ ~node
  /\ node' = TRUE
  /\ UNCHANGED <<vars, mod, wq, sysctl, fds, refs, clone>>

\* The error path if it forgot the workqueue.
RegisterFailsKeepsQueue ==
  /\ mod = "init" /\ ~node
  /\ mod' = "unloaded"
  /\ UNCHANGED <<vars, wq, node, sysctl, fds, refs, clone>>

\* misc_register fails: the workqueue is destroyed.
RegisterFails ==
  /\ mod = "init" /\ ~node
  /\ mod' = "unloaded"
  /\ wq' = FALSE
  /\ UNCHANGED <<vars, node, sysctl, fds, refs, clone>>

\* register_sysctl_table, whose failure is ignored.
InitSysctl ==
  /\ mod = "init" /\ node
  /\ sysctl' \in BOOLEAN
  /\ mod' = "loaded"
  /\ UNCHANGED <<vars, wq, node, fds, refs, clone>>

\* Unloading if open files kept no reference on the module.
ExitWhileOpen ==
  /\ mod = "loaded"
  /\ mod' = "exit"
  /\ wq' = FALSE
  /\ UNCHANGED <<vars, node, sysctl, fds, refs, clone>>

\* The module is unloaded once no file refers to it.  The workqueue is flushed
\* and destroyed; /dev/crypto is still there, but cannot be opened any more.
ExitWorkqueue ==
  /\ mod = "loaded"
  /\ file = "closed"
  /\ mod' = "exit"
  /\ wq' = FALSE
  /\ UNCHANGED <<vars, node, sysctl, fds, refs, clone>>

\* The sysctl, if it is registered, and the device are removed.
ExitDeregister ==
  /\ mod = "exit"
  /\ mod' = "unloaded"
  /\ sysctl' = FALSE
  /\ node' = FALSE
  /\ UNCHANGED <<vars, wq, fds, refs, clone>>

-----------------------------------------------------------------------------
(* Descriptors.                                                            *)

DeviceOpen ==
  /\ node /\ mod # "exit"
  /\ Open
  /\ \E f \in Fd : fds' = {f}
  /\ refs' = 1
  /\ UNCHANGED <<mod, wq, node, sysctl, clone>>

\* A call needs a descriptor to begin with.
CanCall(t) == fds # {} /\ clone[t] = NoFd

\* clonefd without get_file.
CloneNoReference(t) ==
  /\ Ready(t) /\ CanCall(t)
  /\ \E f \in Fd \ fds :
       /\ fds' = fds \cup {f}
       /\ clone' = [clone EXCEPT ![t] = f]
  /\ UNCHANGED <<vars, mod, wq, node, sysctl, refs>>

\* CRIOGET: clonefd.  With no descriptor left its error number is what the user
\* is given.
Clone(t) ==
  /\ Ready(t) /\ CanCall(t)
  /\ \E f \in Fd \ fds :
       /\ fds' = fds \cup {f}
       /\ clone' = [clone EXCEPT ![t] = f]
  /\ refs' = refs + 1
  /\ UNCHANGED <<vars, mod, wq, node, sysctl>>

\* put_user, and sys_close of the new descriptor if that fails: another thread
\* may have closed it already.
CloneReturn(t) ==
  /\ clone[t] # NoFd
  /\ clone' = [clone EXCEPT ![t] = NoFd]
  /\ \/ UNCHANGED <<fds, refs>>
     \/ fds' = fds \ {clone[t]} /\ refs' = IF clone[t] \in fds THEN refs - 1 ELSE refs
  /\ UNCHANGED <<vars, mod, wq, node, sysctl>>

Close(f) ==
  /\ f \in fds
  /\ fds' = fds \ {f}
  /\ refs' = refs - 1
  /\ UNCHANGED <<vars, mod, wq, node, sysctl, clone>>

\* cryptodev_release, with the last reference: no call is in progress.
DeviceRelease ==
  /\ refs = 0
  /\ \A t \in Thread : clone[t] = NoFd
  /\ Release
  /\ UNCHANGED device

-----------------------------------------------------------------------------
Ring ==
  /\ \/ \E t \in Thread : ((CanCall(t) \/ pc[t] # "idle") /\ Begin(t)) \/ Step(t) \/ RunNoMemory(t)
     \/ Work \/ ReleaseSplice \/ ReleaseFree
  /\ UNCHANGED device

DeviceNext ==
  \/ InitWorkqueue \/ Register \/ RegisterFails \/ InitSysctl
  \/ ExitWorkqueue \/ ExitDeregister
  \/ DeviceOpen \/ DeviceRelease
  \/ \E t \in Thread : Clone(t) \/ CloneReturn(t)
  \/ \E f \in Fd : Close(f)
  \/ Ring

DeviceSpec == DeviceInit /\ [][DeviceNext]_<<vars, device>>

-----------------------------------------------------------------------------
(* Properties.                                                             *)

\* queue_work is only called, and the work item only runs, while the
\* workqueue exists, although all files share it and the module may be
\* loaded and unloaded at any time.
WorkHasAQueue ==
  pending \/ wpc # "idle" \/ (\E t \in Thread : pc[t] = "queue") => wq

\* The work item is neither queued nor running when cryptodev_release frees
\* the items and the struct crypt_priv it is part of.
WorkerStopsBeforeFree ==
  file \in {"free", "closed"} => ~pending /\ wpc = "idle"

\* As long as there is a descriptor, the first or one of CRIOGET, or a call,
\* the state of the file is there.
FileOutlivesItsUsers ==
  fds # {} \/ (\E t \in Thread : pc[t] # "idle" \/ clone[t] # NoFd) => file = "open"

\* Whichever step of loading failed, and after unloading, nothing the module
\* registered is left.
NothingIsLeftBehind ==
  mod = "unloaded" => ~wq /\ ~node /\ ~sysctl /\ file = "closed"
=============================================================================
