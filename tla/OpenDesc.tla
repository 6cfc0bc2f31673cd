------------------------------ MODULE OpenDesc ------------------------------
(***************************************************************************)
(* Open descriptors of the driver, the monitors they are attached to, and  *)
(* the delivery of messages and of end-of-file to the descriptors' reads.  *)
(*                                                                         *)
(* Sources: kernel/manager.c (open, close, send, attach, cleanup),         *)
(* os/winnt/kernel/manager.c (the parked read IRP),                        *)
(* os/winnt/kernel/interface.c (read, cancel, cleanup) and                 *)
(* kernel/monitor.c (incoming_message, refdown, end messages).             *)
(*                                                                         *)
(* One thread per descriptor: the thread of the process that opened it,    *)
(* which also runs the kernel code on the descriptor's behalf, so Desc is  *)
(* both the set of descriptor objects and the set of threads.  Only the    *)
(* daemon has two descriptors, the monitor's owner and the one that gets   *)
(* the messages to CO_MODULE_PRINTK, and uses both with one thread: while  *)
(* it is inside the driver for one, the other's thread is idle.  A critical *)
(* section is one step unless another thread can act inside it without     *)
(* the lock; "lock" and "write_lock" are then held across steps.  Two      *)
(* windows are such: try_send_direct and userspace_eof load opened->os->irp *)
(* before they take the cancel spin lock.  A thread that goes on with an   *)
(* IRP somebody else has completed in that window completes it twice: the  *)
(* model halts and nothing is claimed of what follows.  It halts too when  *)
(* the unlocked decrement of monitor->refcount loses an update.            *)
(*                                                                         *)
(* Environment, from user/monitor.c: a handle is used for one CREATE or    *)
(* one ATTACH, reads follow the ATTACH, and nothing but the close of the   *)
(* handle follows CO_MONITOR_IOCTL_CLOSE.                                  *)
(***************************************************************************)
EXTENDS Integers, Sequences, FiniteSets

CONSTANTS
  Desc,            (* descriptor objects and the threads that opened them   *)
  Mon,             (* monitor objects                                       *)
  Module,          (* indices of connected_modules                          *)
  Console,         (* the module GET_CONSOLE sends to, or None              *)
  Conet,           (* the modules a kernel-mode adapter may serve           *)
  Daemon,          (* the descriptors one thread of the daemon uses         *)
  Limit,           (* CO_QUEUE_COUNT_LIMIT_BEFORE_SLEEP                     *)
  MaxSend,         (* bound: messages accepted per descriptor               *)
  MaxReads,        (* bound: reads parked per descriptor                    *)
  Oversize,        (* a message may exceed the buffer of a read             *)
  None             (* NULL                                                  *)

ASSUME ConstantsAssumption ==
  /\ IsFiniteSet(Desc) /\ IsFiniteSet(Mon) /\ IsFiniteSet(Module)
  /\ Conet \subseteq Module /\ Daemon \subseteq Desc
  /\ None \notin Desc /\ None \notin Mon /\ None \notin Module
  /\ Limit \in Nat /\ MaxSend \in Nat /\ MaxReads \in Nat
  /\ Oversize \in BOOLEAN

VARIABLES
  (* co_manager_open_desc *)
  alloc, handle, active, ref_count, lock, monitor, monitor_owner, out_queue, irp,
  (* co_monitor *)
  mstate, listed, refcount, connected_modules, write_lock,
  (* thread locals: program counter, descriptor whose reference is held, IRP
     loaded, descriptor in co_manager_close_, monitor in co_monitor_refdown,
     modules still to handle, loaded monitor reference count *)
  pc, ref, saw, victim, down, todo, loaded,
  (* history: numbers of the last message accepted and delivered, IRPs parked,
     who took the last IRP, parked after EOF, end messages sent, double completion *)
  sent, got, reads, taker, stale, ended, halted

descVars   == <<alloc, handle, active, ref_count, lock, monitor, monitor_owner,
                out_queue, irp>>
monVars    == <<mstate, listed, refcount, connected_modules, write_lock>>
threadVars == <<pc, ref, saw, victim, down, todo, loaded>>
histVars   == <<sent, got, reads, taker, stale, ended, halted>>
vars       == <<descVars, monVars, threadVars, histVars>>

PCs == {"new", "idle", "attach", "attach_slots", "read", "send", "direct",
        "throttle", "drop", "cleanup", "cleanup_slots", "cleanup_close",
        "detach", "close", "unlist", "end", "end_slots", "eof_take",
        "eof_drop", "end_slot", "refdown", "refdown_store", "free",
        "detached", "gone"}

TypeOK ==
  /\ alloc \in [Desc -> {"none", "open", "freed"}]
  /\ handle \in [Desc -> BOOLEAN]
  /\ active \in [Desc -> BOOLEAN]
  /\ ref_count \in [Desc -> Nat]
  /\ lock \in [Desc -> Desc \cup {None}]
  /\ monitor \in [Desc -> Mon \cup {None}]
  /\ monitor_owner \in [Desc -> BOOLEAN]
  /\ out_queue \in [Desc -> Seq(Nat)]
  /\ irp \in [Desc -> Nat]
  /\ mstate \in [Mon -> {"none", "live", "destroyed"}]
  /\ listed \in [Mon -> BOOLEAN]
  /\ refcount \in [Mon -> Int]
  /\ connected_modules \in [Mon -> [Module -> Desc \cup {None}]]
  /\ write_lock \in [Mon -> Desc \cup {None}]
  /\ pc \in [Desc -> PCs]
  /\ ref \in [Desc -> Desc \cup {None}]
  /\ saw \in [Desc -> Nat]
  /\ victim \in [Desc -> Desc \cup {None}]
  /\ down \in [Desc -> Mon \cup {None}]
  /\ todo \in [Desc -> SUBSET Module]
  /\ loaded \in [Desc -> Int]
  /\ sent \in [Desc -> Nat] /\ got \in [Desc -> Nat] /\ reads \in [Desc -> Nat]
  /\ taker \in [Desc -> {"none", "sender", "eof", "cancel"}]
  /\ stale \in [Desc -> BOOLEAN]
  /\ ended \in [Mon -> BOOLEAN]
  /\ halted \in {"no", "sender", "eof", "refcount"}

Init ==
  /\ alloc = [d \in Desc |-> "none"]
  /\ handle = [d \in Desc |-> FALSE]
  /\ active = [d \in Desc |-> FALSE]
  /\ ref_count = [d \in Desc |-> 0]
  /\ lock = [d \in Desc |-> None]
  /\ monitor = [d \in Desc |-> None]
  /\ monitor_owner = [d \in Desc |-> FALSE]
  /\ out_queue = [d \in Desc |-> <<>>]
  /\ irp = [d \in Desc |-> 0]
  /\ mstate = [m \in Mon |-> "none"]
  /\ listed = [m \in Mon |-> FALSE]
  /\ refcount = [m \in Mon |-> 0]
  /\ connected_modules = [m \in Mon |-> [k \in Module |-> None]]
  /\ write_lock = [m \in Mon |-> None]
  /\ pc = [t \in Desc |-> "new"]
  /\ ref = [t \in Desc |-> None]
  /\ saw = [t \in Desc |-> 0]
  /\ victim = [t \in Desc |-> None]
  /\ down = [t \in Desc |-> None]
  /\ todo = [t \in Desc |-> {}]
  /\ loaded = [t \in Desc |-> 0]
  /\ sent = [d \in Desc |-> 0]
  /\ got = [d \in Desc |-> 0]
  /\ reads = [d \in Desc |-> 0]
  /\ taker = [d \in Desc |-> "none"]
  /\ stale = [d \in Desc |-> FALSE]
  /\ ended = [m \in Mon |-> FALSE]
  /\ halted = "no"

-----------------------------------------------------------------------------
(* Helpers.                                                                *)

(* Thread t is about to execute l. *)
At(t, l) == halted = "no" /\ pc[t] = l
Goto(t, l) == pc' = [pc EXCEPT ![t] = l]

(* Thread t is outside the driver, at l: so is the daemon's thread for its other handle. *)
Outside(t, l) ==
  /\ At(t, l)
  /\ t \in Daemon => \A u \in Daemon \ {t} : pc[u] \in {"new", "idle", "gone"}

(* KMUTEX is recursive: a thread takes opened->lock when it is free or its own. *)
CanLock_Unlocked(t, d) == TRUE
CanLock(t, d) == lock[d] \in {None, t}

(* Where thread t is once an operation is over. *)
Rest(t) == IF handle[t] THEN "idle" ELSE "gone"

(* The threads that use d under a reference of their own. *)
HoldersOf(d) == {t \in Desc : ref[t] = d}

(* ref_count++ and ref_count-- under opened->lock. *)
Ref_NotTaken(d) == ref_count
Ref(d) == [ref_count EXCEPT ![d] = @ + 1]

Unref_Twice(d) == [ref_count EXCEPT ![d] = @ - 2]
Unref(d) == [ref_count EXCEPT ![d] = @ - 1]

(* close = (opened->ref_count == 0), with the count as it was before the decrement. *)
IsLastRef_BeforeDecrement(d) == ref_count[d] = 0
IsLastRef(d) == ref_count[d] = 1

(* co_manager_close: drop one reference of d; the last one starts co_manager_close_. *)
Close(t, d, next) ==
  /\ CanLock(t, d)
  /\ ref_count' = Unref(d)
  /\ IF IsLastRef(d)
       THEN victim' = [victim EXCEPT ![t] = d] /\ Goto(t, "close")
       ELSE victim' = victim /\ Goto(t, next)

(* co_manager_close of a slot's reference, under connected_modules_write_lock.
   By ClosedKeepsNoSlot a descriptor that loses its last reference here has no
   monitor, and co_manager_close_ only frees it. *)
CloseSlotRef(t, d) ==
  /\ CanLock(t, d)
  /\ ref_count' = Unref(d)
  /\ alloc' = IF IsLastRef(d) THEN [alloc EXCEPT ![d] = "freed"] ELSE alloc

SetSlot(m, k, d) == connected_modules' = [connected_modules EXCEPT ![m][k] = d]

-----------------------------------------------------------------------------
(* IRP_MJ_CREATE, CO_MANAGER_IOCTL_CREATE and CO_MANAGER_IOCTL_ATTACH.     *)

Open(d) ==
  /\ Outside(d, "new")
  /\ alloc' = [alloc EXCEPT ![d] = "open"]
  /\ handle' = [handle EXCEPT ![d] = TRUE]
  /\ active' = [active EXCEPT ![d] = TRUE]
  /\ ref_count' = [ref_count EXCEPT ![d] = 1]
  /\ Goto(d, "idle")
  /\ UNCHANGED <<lock, monitor, monitor_owner, out_queue, irp, monVars, ref, saw,
                 victim, down, todo, loaded, histVars>>

Create(d, m) ==
  /\ Outside(d, "idle") /\ monitor[d] = None
  /\ mstate[m] = "none"
  /\ mstate' = [mstate EXCEPT ![m] = "live"]
  /\ listed' = [listed EXCEPT ![m] = TRUE]
  /\ refcount' = [refcount EXCEPT ![m] = 1]
  /\ monitor' = [monitor EXCEPT ![d] = m]
  /\ monitor_owner' = [monitor_owner EXCEPT ![d] = TRUE]
  /\ UNCHANGED <<alloc, handle, active, ref_count, lock, out_queue, irp,
                 connected_modules, write_lock, threadVars, histVars>>

(* The first half of ATTACH, under manager->lock. *)
Attached_NotCounted(m) == refcount
Attached(m) == [refcount EXCEPT ![m] = @ + 1]

AttachFind(d, m, ks) ==
  /\ Outside(d, "idle") /\ monitor[d] = None
  /\ listed[m]
  /\ refcount' = Attached(m)
  /\ monitor' = [monitor EXCEPT ![d] = m]
  /\ todo' = [todo EXCEPT ![d] = ks]
  /\ Goto(d, "attach")
  /\ UNCHANGED <<alloc, handle, active, ref_count, lock, monitor_owner, out_queue,
                 irp, mstate, listed, connected_modules, write_lock, ref, saw,
                 victim, down, loaded, histVars>>

(* The second half, under connected_modules_write_lock. *)
AttachLock(d) ==
  /\ At(d, "attach")
  /\ write_lock[monitor[d]] = None
  /\ write_lock' = [write_lock EXCEPT ![monitor[d]] = d]
  /\ Goto(d, "attach_slots")
  /\ UNCHANGED <<descVars, mstate, listed, refcount, connected_modules, ref, saw,
                 victim, down, todo, loaded, histVars>>

(* if (old_opened) co_manager_close(manager, old_opened): the slot is emptied
   here and filled by AttachSlot; nobody reads it without the lock between. *)
AttachEvict(d, k) ==
  LET m == monitor[d]  old == connected_modules[m][k] IN
  /\ At(d, "attach_slots") /\ k \in todo[d]
  /\ old # None
  /\ CloseSlotRef(d, old)
  /\ SetSlot(m, k, None)
  /\ UNCHANGED <<handle, active, lock, monitor, monitor_owner, out_queue, irp,
                 mstate, listed, refcount, write_lock, threadVars, histVars>>

AttachSlot(d, k) ==
  LET m == monitor[d] IN
  /\ At(d, "attach_slots") /\ k \in todo[d]
  /\ connected_modules[m][k] = None
  /\ SetSlot(m, k, d)
  /\ ref_count' = Ref(d)
  /\ todo' = [todo EXCEPT ![d] = @ \ {k}]
  /\ UNCHANGED <<alloc, handle, active, lock, monitor, monitor_owner, out_queue, irp,
                 mstate, listed, refcount, write_lock, pc, ref, saw, victim, down,
                 loaded, histVars>>

AttachUnlock(d) ==
  /\ At(d, "attach_slots") /\ todo[d] = {}
  /\ write_lock' = [write_lock EXCEPT ![monitor[d]] = None]
  /\ Goto(d, "idle")
  /\ UNCHANGED <<descVars, mstate, listed, refcount, connected_modules, ref, saw,
                 victim, down, todo, loaded, histVars>>

-----------------------------------------------------------------------------
(* IRP_MJ_READ (manager_read) and the cancellation of a parked read.       *)

(* opened->active is tested before opened->lock is taken. *)
ReadCheck(d) ==
  /\ Outside(d, "idle") /\ monitor[d] # None /\ ~monitor_owner[d]
  /\ active[d]
  /\ reads[d] < MaxReads \/ out_queue[d] # <<>>
  /\ Goto(d, "read")
  /\ UNCHANGED <<descVars, monVars, ref, saw, victim, down, todo, loaded, histVars>>

(* The messages that fit are popped from the tail; n is how many did. *)
Popped_WrongEnd(d, n) == SubSeq(out_queue[d], 1, Len(out_queue[d]) - n)
Popped(d, n) == SubSeq(out_queue[d], n + 1, Len(out_queue[d]))

ReadDrain(d, n) ==
  /\ At(d, "read") /\ CanLock(d, d)
  /\ out_queue[d] # <<>> /\ n <= Len(out_queue[d])
  /\ Oversize \/ n > 0
  /\ out_queue' = [out_queue EXCEPT ![d] = Popped(d, n)]
  /\ got' = [got EXCEPT ![d] = IF n = 0 THEN @ ELSE out_queue[d][n]]
  /\ Goto(d, "idle")
  /\ UNCHANGED <<alloc, handle, active, ref_count, lock, monitor, monitor_owner, irp,
                 monVars, ref, saw, victim, down, todo, loaded, sent, reads, taker,
                 stale, ended, halted>>

MayPark_NoQueueTest(d) == irp[d] = 0
MayPark(d) == out_queue[d] = <<>> /\ irp[d] = 0

(* A read is parked already: STATUS_INVALID_PARAMETER. *)
ReadBusy(d) ==
  /\ At(d, "read") /\ CanLock(d, d)
  /\ out_queue[d] = <<>> /\ irp[d] # 0
  /\ Goto(d, "idle")
  /\ UNCHANGED <<descVars, monVars, ref, saw, victim, down, todo, loaded, histVars>>

ReadPark(d) ==
  /\ At(d, "read") /\ CanLock(d, d)
  /\ MayPark(d)
  /\ reads' = [reads EXCEPT ![d] = @ + 1]
  /\ irp' = [irp EXCEPT ![d] = reads[d] + 1]
  /\ ref_count' = Ref(d)
  /\ stale' = [stale EXCEPT ![d] = ~active[d]]
  /\ Goto(d, "idle")
  /\ UNCHANGED <<alloc, handle, active, lock, monitor, monitor_owner, out_queue,
                 monVars, ref, saw, victim, down, todo, loaded, sent, got, taker,
                 ended, halted>>

(* manager_irp_cancel: NT cancels the reads of a thread that exits.  The IRP's
   reference is the thread's own until "drop". *)
Cancel(d) ==
  /\ Outside(d, "idle") \/ Outside(d, "gone")
  /\ irp[d] # 0
  /\ irp' = [irp EXCEPT ![d] = 0]
  /\ ref' = [ref EXCEPT ![d] = d]
  /\ taker' = [taker EXCEPT ![d] = "cancel"]
  /\ Goto(d, "drop")
  /\ UNCHANGED <<alloc, handle, active, ref_count, lock, monitor, monitor_owner,
                 out_queue, monVars, saw, victim, down, todo, loaded, sent, got,
                 reads, stale, ended, halted>>

-----------------------------------------------------------------------------
(* incoming_message: find the module's descriptor and take a reference, send, *)
(* drop the reference.  The owner's thread runs it in CO_MONITOR_IOCTL_RUN,   *)
(* any other in CO_MONITOR_IOCTL_GET_CONSOLE.  co_monitor_filter_linux_message *)
(* hands what Linux sends to a bound conet module to the adapter (filtered).   *)

Message(t, k, filtered) ==
  LET m == monitor[t]  d == connected_modules[m][k] IN
  /\ Outside(t, "idle") /\ monitor[t] # None
  /\ monitor_owner[t] \/ k = Console
  /\ filtered => monitor_owner[t] /\ k \in Conet
  /\ write_lock[m] = None
  /\ d # None
  /\ CanLock(t, d) /\ ref_count[d] # 0
  /\ sent[d] + Cardinality(HoldersOf(d)) < MaxSend
  /\ ref_count' = Ref(d)
  /\ ref' = [ref EXCEPT ![t] = d]
  /\ Goto(t, IF filtered THEN "drop" ELSE "send")
  /\ UNCHANGED <<alloc, handle, active, lock, monitor, monitor_owner, out_queue, irp,
                 monVars, saw, victim, down, todo, loaded, histVars>>

AfterQueueing_NoSleep(d) == "drop"
AfterQueueing(d) == IF Len(out_queue[d]) + 1 > Limit THEN "throttle" ELSE "drop"

(* co_manager_send when no read is parked: queue the message of an active
   descriptor, and sleep if the queue is then too long. *)
SendQueue(t) ==
  LET d == ref[t] IN
  /\ At(t, "send") /\ CanLock(t, d)
  /\ irp[d] = 0
  /\ IF active[d]
       THEN /\ out_queue' = [out_queue EXCEPT ![d] = Append(@, sent[d] + 1)]
            /\ sent' = [sent EXCEPT ![d] = @ + 1]
            /\ Goto(t, AfterQueueing(d))
       ELSE UNCHANGED <<out_queue, sent>> /\ Goto(t, "drop")
  /\ lock' = [lock EXCEPT ![d] = None]
  /\ UNCHANGED <<alloc, handle, active, ref_count, monitor, monitor_owner, irp,
                 monVars, ref, saw, victim, down, todo, loaded, got, reads, taker,
                 stale, ended, halted>>

(* try_send_direct loads the IRP; opened->lock stays held. *)
SendSeeIrp(t) ==
  LET d == ref[t] IN
  /\ At(t, "send") /\ CanLock(t, d)
  /\ irp[d] # 0
  /\ lock' = [lock EXCEPT ![d] = t]
  /\ saw' = [saw EXCEPT ![t] = irp[d]]
  /\ Goto(t, "direct")
  /\ UNCHANGED <<alloc, handle, active, ref_count, monitor, monitor_owner, out_queue,
                 irp, monVars, ref, victim, down, todo, loaded, histVars>>

(* The IRP is taken and its reference dropped, then the message is copied to it if
   it fits; if not, the read is completed as cancelled and the message is queued. *)
SendTake(t, fits) ==
  LET d == ref[t] IN
  /\ At(t, "direct") /\ irp[d] = saw[t]
  /\ Oversize \/ fits
  /\ irp' = [irp EXCEPT ![d] = 0]
  /\ taker' = [taker EXCEPT ![d] = "sender"]
  /\ ref_count' = Unref(d)
  /\ saw' = [saw EXCEPT ![t] = 0]
  /\ IF fits
       THEN /\ sent' = [sent EXCEPT ![d] = @ + 1]
            /\ got' = [got EXCEPT ![d] = sent[d] + 1]
            /\ lock' = [lock EXCEPT ![d] = None]
            /\ Goto(t, "drop")
       ELSE (* co_manager_send goes on as if no read were parked *)
            UNCHANGED <<sent, got, lock>> /\ Goto(t, "send")
  /\ UNCHANGED <<alloc, handle, active, monitor, monitor_owner, out_queue, monVars,
                 ref, victim, down, todo, loaded, reads, stale, ended, halted>>

(* The IRP loaded by try_send_direct has been completed since. *)
SendStale(t) ==
  /\ At(t, "direct") /\ irp[ref[t]] # saw[t]
  /\ halted' = "sender"
  /\ UNCHANGED <<descVars, monVars, threadVars, sent, got, reads, taker, stale, ended>>

(* The queue is short enough again, or the descriptor is not active any more. *)
Relieved_ActiveIgnored(d) == Len(out_queue[d]) <= Limit
Relieved(d) == Len(out_queue[d]) <= Limit \/ ~active[d]

SendResume(t) ==
  LET d == ref[t] IN
  /\ At(t, "throttle") /\ CanLock(t, d)
  /\ Relieved(d)
  /\ Goto(t, "drop")
  /\ UNCHANGED <<descVars, monVars, ref, saw, victim, down, todo, loaded, histVars>>

(* co_manager_close at the end of incoming_message and of manager_irp_cancel. *)
DropRef(t) ==
  /\ At(t, "drop")
  /\ Close(t, ref[t], Rest(t))
  /\ ref' = [ref EXCEPT ![t] = None]
  /\ UNCHANGED <<alloc, handle, active, lock, monitor, monitor_owner, out_queue, irp,
                 monVars, saw, down, todo, loaded, histVars>>

-----------------------------------------------------------------------------
(* IRP_MJ_CLEANUP and IRP_MJ_CLOSE: co_manager_open_desc_deactive_and_close.  *)
(* The file's FsContext is cleared first, so it happens once.                 *)

CleanupStart(d) == IF monitor[d] = None THEN "cleanup_close" ELSE "cleanup"

Cleanup(d) ==
  /\ Outside(d, "idle") \/ At(d, "detached")
  /\ active' = [active EXCEPT ![d] = FALSE]
  /\ Goto(d, CleanupStart(d))
  /\ UNCHANGED <<alloc, handle, ref_count, lock, monitor, monitor_owner, out_queue,
                 irp, monVars, ref, saw, victim, down, todo, loaded, histVars>>

CleanupLock(d) ==
  /\ At(d, "cleanup")
  /\ write_lock[monitor[d]] = None
  /\ write_lock' = [write_lock EXCEPT ![monitor[d]] = d]
  /\ Goto(d, "cleanup_slots")
  /\ UNCHANGED <<descVars, mstate, listed, refcount, connected_modules, ref, saw,
                 victim, down, todo, loaded, histVars>>

CleanupSlot(d, k) ==
  /\ At(d, "cleanup_slots")
  /\ connected_modules[monitor[d]][k] = d
  /\ CloseSlotRef(d, d)
  /\ SetSlot(monitor[d], k, None)
  /\ UNCHANGED <<handle, active, lock, monitor, monitor_owner, out_queue, irp,
                 mstate, listed, refcount, write_lock, threadVars, histVars>>

CleanupUnlock(d) ==
  /\ At(d, "cleanup_slots")
  /\ \A k \in Module : connected_modules[monitor[d]][k] # d
  /\ write_lock' = [write_lock EXCEPT ![monitor[d]] = None]
  /\ Goto(d, "cleanup_close")
  /\ UNCHANGED <<descVars, mstate, listed, refcount, connected_modules, ref, saw,
                 victim, down, todo, loaded, histVars>>

CleanupClose(d) ==
  /\ At(d, "cleanup_close")
  /\ handle' = [handle EXCEPT ![d] = FALSE]
  /\ Close(d, d, "gone")
  /\ UNCHANGED <<alloc, active, lock, monitor, monitor_owner, out_queue, irp,
                 monVars, ref, saw, down, todo, loaded, histVars>>

-----------------------------------------------------------------------------
(* co_manager_close_ of victim[t] and CO_MONITOR_IOCTL_CLOSE, which both run  *)
(* co_monitor_refdown.                                                        *)

(* Complete a read that is still parked, then give up the monitor, if any. *)
CloseDesc(t) ==
  LET d == victim[t] IN
  /\ At(t, "close")
  /\ irp' = [irp EXCEPT ![d] = 0]
  /\ IF monitor[d] # None
       THEN /\ down' = [down EXCEPT ![t] = monitor[d]]
            /\ monitor' = [monitor EXCEPT ![d] = None]
            /\ Goto(t, "unlist")
       ELSE UNCHANGED <<down, monitor>> /\ Goto(t, "free")
  /\ UNCHANGED <<alloc, handle, active, ref_count, lock, monitor_owner, out_queue,
                 monVars, ref, saw, victim, todo, loaded, histVars>>

(* Leave manager->opens and free the descriptor. *)
FreeDesc(t) ==
  /\ At(t, "free")
  /\ alloc' = [alloc EXCEPT ![victim[t]] = "freed"]
  /\ victim' = [victim EXCEPT ![t] = None]
  /\ Goto(t, Rest(t))
  /\ UNCHANGED <<handle, active, ref_count, lock, monitor, monitor_owner, out_queue,
                 irp, monVars, ref, saw, down, todo, loaded, histVars>>

IoctlClose(d) ==
  /\ Outside(d, "idle") /\ monitor[d] # None
  /\ down' = [down EXCEPT ![d] = monitor[d]]
  /\ Goto(d, "unlist")
  /\ UNCHANGED <<descVars, monVars, ref, saw, victim, todo, loaded, histVars>>

-----------------------------------------------------------------------------
(* co_monitor_refdown(down[t], ..., IsOwner(t)).                              *)

IsOwner(t) == monitor_owner[IF victim[t] # None THEN victim[t] ELSE t]

(* The test of refcount and the removal from manager->monitors.  The test fails only
   after an update of refcount was lost, and the model has halted by then. *)
Unlist(t) ==
  LET m == down[t] IN
  /\ At(t, "unlist")
  /\ refcount[m] > 0
  /\ listed' = IF IsOwner(t) THEN [listed EXCEPT ![m] = FALSE] ELSE listed
  /\ Goto(t, IF IsOwner(t) THEN "end" ELSE "refdown")
  /\ UNCHANGED <<descVars, mstate, refcount, connected_modules, write_lock, ref, saw,
                 victim, down, todo, loaded, histVars>>

(* send_monitor_end_messages: for each slot EOF, clear it, close its descriptor. *)
EndLock(t) ==
  /\ At(t, "end")
  /\ write_lock[down[t]] = None
  /\ write_lock' = [write_lock EXCEPT ![down[t]] = t]
  /\ Goto(t, "end_slots")
  /\ UNCHANGED <<descVars, mstate, listed, refcount, connected_modules, ref, saw,
                 victim, down, todo, loaded, histVars>>

AfterEofMark_ReadIgnored(d) == "end_slot"
AfterEofMark(d) == IF irp[d] = 0 THEN "end_slot" ELSE "eof_take"

(* co_manager_send_eof: active is cleared without opened->lock, and
   userspace_eof loads the IRP. *)
EofMark(t, k) ==
  LET d == connected_modules[down[t]][k] IN
  /\ At(t, "end_slots") /\ d # None
  /\ active' = [active EXCEPT ![d] = FALSE]
  /\ todo' = [todo EXCEPT ![t] = {k}]
  /\ saw' = [saw EXCEPT ![t] = irp[d]]
  /\ Goto(t, AfterEofMark(d))
  /\ UNCHANGED <<alloc, handle, ref_count, lock, monitor, monitor_owner, out_queue,
                 irp, monVars, ref, victim, down, loaded, histVars>>

(* The IRP is taken under the cancel spin lock only; its reference is t's. *)
EofTake(t, k) ==
  LET d == connected_modules[down[t]][k] IN
  /\ At(t, "eof_take") /\ k \in todo[t]
  /\ irp[d] = saw[t]
  /\ irp' = [irp EXCEPT ![d] = 0]
  /\ taker' = [taker EXCEPT ![d] = "eof"]
  /\ ref' = [ref EXCEPT ![t] = d]
  /\ saw' = [saw EXCEPT ![t] = 0]
  /\ Goto(t, "eof_drop")
  /\ UNCHANGED <<alloc, handle, active, ref_count, lock, monitor, monitor_owner,
                 out_queue, monVars, victim, down, todo, loaded, sent, got, reads,
                 stale, ended, halted>>

(* The IRP loaded by userspace_eof has been completed since. *)
EofStale(t, k) ==
  /\ At(t, "eof_take") /\ k \in todo[t]
  /\ irp[connected_modules[down[t]][k]] # saw[t]
  /\ halted' = "eof"
  /\ UNCHANGED <<descVars, monVars, threadVars, sent, got, reads, taker, stale, ended>>

(* The close in userspace_eof; the read completes with STATUS_PIPE_BROKEN. *)
EofDrop(t) ==
  /\ At(t, "eof_drop")
  /\ CanLock(t, ref[t])
  /\ ref_count' = Unref(ref[t])
  /\ ref' = [ref EXCEPT ![t] = None]
  /\ Goto(t, "end_slot")
  /\ UNCHANGED <<alloc, handle, active, lock, monitor, monitor_owner, out_queue, irp,
                 monVars, saw, victim, down, todo, loaded, histVars>>

EndSlot(t, k) ==
  /\ At(t, "end_slot") /\ k \in todo[t]
  /\ CloseSlotRef(t, connected_modules[down[t]][k])
  /\ SetSlot(down[t], k, None)
  /\ todo' = [todo EXCEPT ![t] = {}]
  /\ Goto(t, "end_slots")
  /\ UNCHANGED <<handle, active, lock, monitor, monitor_owner, out_queue, irp,
                 mstate, listed, refcount, write_lock, ref, saw, victim, down,
                 loaded, histVars>>

EndUnlock(t) ==
  LET m == down[t] IN
  /\ At(t, "end_slots")
  /\ \A k \in Module : connected_modules[m][k] = None
  /\ write_lock' = [write_lock EXCEPT ![m] = None]
  /\ ended' = [ended EXCEPT ![m] = TRUE]
  /\ Goto(t, "refdown")
  /\ UNCHANGED <<descVars, mstate, listed, refcount, connected_modules, ref, saw,
                 victim, down, todo, loaded, sent, got, reads, taker, stale, halted>>

(* if (--cmon->refcount == 0) co_monitor_destroy, and what follows the call:
   the rest of co_manager_close_, or of CO_MONITOR_IOCTL_CLOSE. *)
SetRefcount(t, n) ==
  LET m == down[t] IN
  /\ refcount' = [refcount EXCEPT ![m] = n]
  /\ mstate' = IF n = 0 THEN [mstate EXCEPT ![m] = "destroyed"] ELSE mstate
  /\ down' = [down EXCEPT ![t] = None]
  /\ IF victim[t] # None
       THEN UNCHANGED <<monitor, monitor_owner>> /\ Goto(t, "free")
       ELSE /\ monitor' = [monitor EXCEPT ![t] = None]
            /\ monitor_owner' = [monitor_owner EXCEPT ![t] = FALSE]
            /\ Goto(t, "detached")
  /\ UNCHANGED <<alloc, handle, active, ref_count, lock, out_queue, irp, listed,
                 connected_modules, write_lock, ref, saw, victim, todo, sent, got,
                 reads, taker, stale, ended>>

(* The decrement takes no lock: it is a load and a store.  If another thread has
   changed refcount in between, the count is wrong from then on. *)
RefdownLoad(t) ==
  /\ At(t, "refdown")
  /\ loaded' = [loaded EXCEPT ![t] = refcount[down[t]]]
  /\ Goto(t, "refdown_store")
  /\ UNCHANGED <<descVars, monVars, ref, saw, victim, down, todo, histVars>>

RefdownStore(t) ==
  /\ At(t, "refdown_store")
  /\ halted' = IF refcount[down[t]] = loaded[t] THEN halted ELSE "refcount"
  /\ SetRefcount(t, loaded[t] - 1)
  /\ loaded' = [loaded EXCEPT ![t] = 0]

-----------------------------------------------------------------------------

Step(t) ==
  \/ Open(t)
  \/ \E m \in Mon : Create(t, m)
  \/ \E m \in Mon, ks \in SUBSET Module : AttachFind(t, m, ks)
  \/ AttachLock(t)
  \/ \E k \in Module : AttachEvict(t, k) \/ AttachSlot(t, k)
  \/ AttachUnlock(t)
  \/ ReadCheck(t) \/ ReadBusy(t) \/ ReadPark(t)
  \/ \E n \in 0..MaxSend : ReadDrain(t, n)
  \/ Cancel(t)
  \/ \E k \in Module, filtered \in BOOLEAN : Message(t, k, filtered)
  \/ SendQueue(t) \/ SendSeeIrp(t)
  \/ \E fits \in BOOLEAN : SendTake(t, fits)
  \/ SendStale(t) \/ SendResume(t) \/ DropRef(t)
  \/ Cleanup(t) \/ CleanupLock(t) \/ CleanupUnlock(t) \/ CleanupClose(t)
  \/ \E k \in Module : CleanupSlot(t, k)
  \/ CloseDesc(t) \/ FreeDesc(t) \/ IoctlClose(t)
  \/ Unlist(t) \/ EndLock(t) \/ EofDrop(t) \/ EndUnlock(t)
  \/ \E k \in Module : EofMark(t, k) \/ EofTake(t, k) \/ EofStale(t, k) \/ EndSlot(t, k)
  \/ RefdownLoad(t) \/ RefdownStore(t)

Over == halted # "no" \/ \A t \in Desc : pc[t] = "gone" /\ irp[t] = 0

Next ==
  \/ \E t \in Desc : Step(t)
  \/ Over /\ UNCHANGED vars   (* every process is gone, or the machine is *)

Spec == Init /\ [][Next]_vars

(* NT runs every thread that is inside the driver or on its way out of it, and a
   client's reactor reads again whenever a read is over (packet_read_completed). *)
Inside(t) == pc[t] \notin {"new", "idle"} /\ Step(t)
Reader(t) == ReadCheck(t)

FairSpec == Spec /\ \A t \in Desc : WF_vars(Inside(t)) /\ WF_vars(Reader(t))

-----------------------------------------------------------------------------
(* Properties.                                                             *)

SlotsOf(d) == {s \in Mon \X Module : connected_modules[s[1]][s[2]] = d}
One(b) == IF b THEN 1 ELSE 0

(* Every reference of an open descriptor is accounted for: ref_count is the open
   handle, the slots that point to it, the parked read and the threads that use
   it; a descriptor that is not open has none of them, so co_manager_close_ frees
   it exactly when nothing can reach it any more. *)
RefExact ==
  \A d \in Desc :
    /\ ref_count[d] = One(handle[d]) + One(irp[d] # 0)
                      + Cardinality(SlotsOf(d)) + Cardinality(HoldersOf(d))
    /\ alloc[d] # "open" => ref_count[d] = 0
    /\ \A t \in Desc : victim[t] = d => ref_count[d] = 0 /\ alloc[d] = "open"

(* The monitor's reference count is the number of descriptors attached to it, until
   an update is lost; co_monitor_destroy then never runs under an attached one. *)
Connections(m) == Cardinality({d \in Desc : monitor[d] = m})
                  + Cardinality({t \in Desc : down[t] = m /\ victim[t] # None})

RefcountIsConnections ==
  \A m \in Mon : /\ refcount[m] = Connections(m)
                 /\ mstate[m] = "live" <=> refcount[m] > 0
MonRefExact == halted # "refcount" => RefcountIsConnections

(* A read is never parked while a message waits for it: manager_read parks only on an
   empty queue and co_manager_send queues only after it took the parked read. *)
NoLostWakeup == \A d \in Desc : irp[d] # 0 => out_queue[d] = <<>>

(* Seen through sent, got, out_queue and irp, the descriptors are the channels of
   MessageChannel: the queue, the direct delivery and every way a read can end together
   keep order, lose nothing and never let a read wait beside a message. *)
Channels == INSTANCE MessageChannel WITH
  Channel <- Desc, accepted <- sent, delivered <- got, pending <- out_queue,
  waiting <- [d \in Desc |-> irp[d] # 0]

ImplementsChannels == Channels!Spec

(* While a descriptor is active its queue exceeds the limit by no more than the
   senders that sleep on it: co_manager_send stops each sender after one message. *)
QueueBound ==
  \A d \in Desc : active[d] =>
    Len(out_queue[d]) <= Limit + Cardinality({t \in Desc : pc[t] = "throttle" /\ ref[t] = d})

(* A descriptor whose handle is closed is in a slot only if it was detached by
   CO_MONITOR_IOCTL_CLOSE, so closing a slot's last reference never starts a nested
   co_monitor_refdown under connected_modules_write_lock. *)
ClosedKeepsNoSlot ==
  \A d \in Desc : SlotsOf(d) # {} /\ ~handle[d] => monitor[d] = None

(* What ties descriptors to monitors: a monitor counts those that are attached to it, as long
   as no update of the count was lost, and keeps in its slots none that is closed but those
   CO_MONITOR_IOCTL_CLOSE detached. *)
AttachmentsExact == MonRefExact /\ ClosedKeepsNoSlot

(* EOF leaves no read parked on a live handle but one whose test of "active" was
   already over when the end messages cleared the flag. *)
EofMissesOnlyStaleReads ==
  \A d \in Desc :
    irp[d] # 0 /\ ~active[d] /\ ~stale[d] =>
      \/ pc[d] \in {"cleanup", "cleanup_slots", "cleanup_close", "gone"}
      \/ \E t \in Desc : pc[t] = "eof_take" /\ saw[t] = irp[d]

(* A sender finds its IRP completed only if a cancel or an end-of-file took it: senders and
   readers exclude each other by opened->lock.  End-of-file loses it to a sender or a cancel. *)
RacesAreLockless ==
  /\ halted = "sender" => \E t \in Desc : pc[t] = "direct" /\ taker[ref[t]] \in {"cancel", "eof"}
  /\ halted = "eof" => \E t \in Desc : /\ pc[t] = "eof_take"
                                       /\ \E k \in todo[t] : taker[connected_modules[down[t]][k]]
                                                               \in {"cancel", "sender"}

(* A sender that sleeps on a full queue goes on: the reader makes room, or the descriptor
   is deactivated by end-of-file or by the close of its handle. *)
ThrottleEnds ==
  \A t \in Desc : pc[t] = "throttle" ~> (pc[t] # "throttle" \/ halted # "no")

(* The descriptor of an exited process is freed once no slot points to it: the cancelled
   read, the senders that still use it and the handle each give their reference back. *)
ClosedIsFreed ==
  \A d \in Desc : (pc[d] = "gone" /\ SlotsOf(d) = {}) ~> (alloc[d] = "freed" \/ halted # "no")

=============================================================================
