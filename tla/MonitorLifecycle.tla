-------------------------- MODULE MonitorLifecycle --------------------------
(***************************************************************************)
(* The life of monitors in the driver: CO_MANAGER_IOCTL_CREATE with every  *)
(* allocation that can fail, START, RUN, RESET, and the destruction when   *)
(* the last descriptor goes; what each of them takes and gives back, and   *)
(* the memory counted in manager->hostmem_used without a lock.             *)
(*                                                                         *)
(* Sources: kernel/monitor.c, os/winnt/kernel/core.c, kernel/manager.c     *)
(* (the limit), arch/i386/passage.c (the passage page).                    *)
(*                                                                         *)
(* The module has the state of the driver and one action per step of an    *)
(* ioctl; which ioctl comes next is the caller's choice (module Daemon).   *)
(* The kernel is built without CONFIG_COOPERATIVE_VIDEO, so no video       *)
(* device is ever enabled and the video buffer is left out.                *)
(***************************************************************************)
EXTENDS Integers, Sequences, FiniteSets, FiniteSetsExt

CONSTANTS
  Monitor,         (* the monitors, one per daemon                          *)
  HostAmount,      (* manager->hostmem_amount, in MB                        *)
  RamSize,         (* config.ram_size of each monitor, 0 for the default    *)
  Enabled,         (* the device tables with an enabled entry               *)
  Child            (* bound: the processes that attach to a monitor, besides
                      its daemon                                            *)

ASSUME LifecycleAssumption ==
  /\ IsFiniteSet(Monitor) /\ HostAmount \in Nat /\ RamSize \in [Monitor -> Nat]
  /\ Enabled \subseteq {"scsi", "block", "fs"}
  /\ IsFiniteSet(Child) /\ Child \intersect {"daemon", "manager", "messages"} = {}

Opener == Child \union {"daemon"}

VARIABLES
  hostmem_used,    (* manager->hostmem_used, in MB                          *)
  monState,        (* co_monitor.state; "NONE", "FREED" without a monitor   *)
  held,            (* what the monitor has allocated and can still free     *)
  armed,           (* the 10 ms timer is in the host's timer queue          *)
  refcount,        (* co_monitor.refcount                                   *)
  closing,         (* the refcount that a thread in co_monitor_refdown has  *)
                   (* read, by its process; 0 when none is in there         *)
  listed,          (* the monitors in manager->monitors                     *)
  kernel,          (* where the ioctl of a monitor's daemon is              *)
  loaded,          (* the hostmem_used it has read                          *)
  (* history: what can never be freed any more and where it was lost, what was freed
     without being allocated, the ways two updates of hostmem_used overlapped, and
     whether an update of the monitor's refcount was lost, where its model ends *)
  leaked, wild, raced, miscounted

lifecycleVars == <<hostmem_used, monState, held, armed, refcount, closing, miscounted, listed,
                   kernel, loaded, leaked, wild, raced>>
memoryVars    == <<hostmem_used, loaded, raced>>
countVars     == <<refcount, closing, miscounted>>
monitorVars   == <<monState, held, armed, countVars, listed, leaked, wild>>

-----------------------------------------------------------------------------
(* Memory sizes *)

hostmem_usage_limit ==
  IF HostAmount >= 256 THEN HostAmount - 64 ELSE (HostAmount * 3) \div 4

CO_LOWMEMORY_MAX_MB == 984

memory_size(m) ==
  LET asked == IF RamSize[m] # 0 THEN RamSize[m]
               ELSE IF HostAmount >= 128 THEN HostAmount \div 4 ELSE 16
  IN Min({Max({asked, 8}), CO_LOWMEMORY_MAX_MB})

-----------------------------------------------------------------------------
(* What a monitor allocates, in the order of co_monitor_create *)

EarlyStep == <<"monitor", "console", "modulesMutex", "queueMutex", "idleWait",
               "ioBuffer", "sharedPage", "osdep">>
LateStep  == <<"ram", "timer">>
Device    == <<"scsi", "block", "fs">>

Steps(sequence) == {sequence[i] : i \in DOMAIN sequence}
Resource == Steps(EarlyStep) \union Steps(LateStep) \union Steps(Device)
              \union {"conetMutex", "archdep", "passagePage"}

Before(sequence, s) ==
  {sequence[i] : i \in {j \in DOMAIN sequence : \A k \in 1..j : sequence[k] # s}}

(* The labels of the error path and what they free, in order; "hostmem" is
   out_revert_used_mem, which takes the memory off hostmem_used again. *)
ErrorPath == <<"timer", "ram", "hostmem", "osdep", "sharedPage", "ioBuffer", "idleWait",
               "modulesMutex", "queueMutex", "console", "monitor">>

(* The label the goto of a failing step names.  A failing queueMutex jumps to
   out_free_mutex1, which is the label of queueMutex itself. *)
GotoLabel ==
  [console |-> "monitor", modulesMutex |-> "console", queueMutex |-> "queueMutex",
   idleWait |-> "modulesMutex", ioBuffer |-> "idleWait", sharedPage |-> "ioBuffer",
   osdep |-> "sharedPage", hostmem |-> "osdep", ram |-> "hostmem", timer |-> "ram",
   scsi |-> "timer", block |-> "timer", fs |-> "timer"]
ErrorLabel_LimitTooFar     == [GotoLabel EXCEPT !.hostmem = "hostmem"]
ErrorLabel_DeviceKeepsTimer == [GotoLabel EXCEPT !.scsi = "ram", !.block = "ram", !.fs = "ram"]
ErrorLabel == GotoLabel

(* co_monitor_os_exit destroys conet_mutex whether or not the protocol was registered. *)
OsExit(resources) ==
  IF "osdep" \in resources THEN resources \union {"conetMutex"} ELSE resources

FreedBy(step) ==
  IF step = "monitor" THEN {}
  ELSE LET from == CHOOSE i \in DOMAIN ErrorPath : ErrorPath[i] = ErrorLabel[step]
       IN OsExit(Steps(SubSeq(ErrorPath, from, Len(ErrorPath))))

(* What load_configuration frees itself when a table fails: that table and those loaded
   before it, by the labels error_2, error_1 and error_0. *)
ConfigUndo ==
  [step \in Resource |->
     CASE step = "fs"    -> {"fs", "block", "scsi"}
       [] step = "block" -> {"block", "scsi"}
       [] step = "scsi"  -> {"scsi"}
       [] OTHER          -> {}]

(* Freeing these is harmless when the pointer is NULL, which it is until the step that
   allocates them has succeeded. *)
NullSafe == {"modulesMutex", "queueMutex", "idleWait", "ram", "timer", "archdep",
             "passagePage"} \union Steps(Device)

(* Frees resources of m: one that was never allocated is a wild free, unless NULL is
   tested for; what is still held when the monitor itself is freed is lost. *)
Free(m, resources, where) ==
  /\ wild' = [wild EXCEPT ![m] = @ \union ((resources \ held[m]) \ NullSafe)]
  /\ leaked' = [leaked EXCEPT ![m] =
                  IF "monitor" \in resources
                  THEN @ \union {<<r, where>> : r \in held[m] \ resources} ELSE @]
  /\ held' = [held EXCEPT ![m] = IF "monitor" \in resources THEN {} ELSE @ \ resources]

LifecycleInit ==
  /\ hostmem_used = 0
  /\ monState = [m \in Monitor |-> "NONE"]
  /\ held     = [m \in Monitor |-> {}]
  /\ armed    = [m \in Monitor |-> FALSE]
  /\ refcount = [m \in Monitor |-> 0]
  /\ closing  = [m \in Monitor |-> [o \in Opener |-> 0]]
  /\ listed   = {}
  /\ kernel   = [m \in Monitor |-> "idle"]
  /\ loaded   = [m \in Monitor |-> 0]
  /\ leaked   = [m \in Monitor |-> {}]
  /\ wild     = [m \in Monitor |-> {}]
  /\ raced    = {}
  /\ miscounted = [m \in Monitor |-> FALSE]

-----------------------------------------------------------------------------
(* manager->hostmem_used is read and written back without a lock.  The history notes
   an addition between another monitor's check and its own addition, and a store
   between another's load and store. *)

LoadUsed(m, next) ==
  /\ loaded' = [loaded EXCEPT ![m] = hostmem_used]
  /\ kernel' = [kernel EXCEPT ![m] = next]
  /\ UNCHANGED <<hostmem_used, raced>>

StoreUsed(m, delta) ==
  /\ hostmem_used' = loaded[m] + delta
  /\ raced' = raced
       \union (IF \E n \in Monitor \ {m} : kernel[n] \in {"add", "revert", "release"}
               THEN {"lost update"} ELSE {})
       \union (IF delta > 0 /\ \E n \in Monitor \ {m} : kernel[n] \in {"checked", "add"}
               THEN {"stale check"} ELSE {})
  /\ loaded' = [loaded EXCEPT ![m] = 0]

(* The steps of co_monitor_create up to the memory check.  registered: the conet
   protocol could be registered, so that conet_mutex exists. *)
CreateChecked(m, registered) ==
  /\ kernel[m] = "idle" /\ monState[m] = "NONE"
  /\ hostmem_used + memory_size(m) <= hostmem_usage_limit
  /\ held' = [held EXCEPT ![m] =
                Steps(EarlyStep) \union (IF registered THEN {"conetMutex"} ELSE {})]
  /\ monState' = [monState EXCEPT ![m] = "EMPTY"]
  /\ kernel' = [kernel EXCEPT ![m] = "checked"]
  /\ UNCHANGED <<armed, countVars, listed, leaked, wild, memoryVars>>

(* A step up to the check fails; "hostmem" is the check itself. *)
CreateFailsEarly(m, step, registered) ==
  /\ kernel[m] = "idle" /\ monState[m] = "NONE"
  /\ step \in Steps(EarlyStep) \union {"hostmem"}
  /\ step = "hostmem" => hostmem_used + memory_size(m) > hostmem_usage_limit
  /\ LET done == Before(EarlyStep, step)
           \union (IF step = "hostmem" /\ registered THEN {"conetMutex"} ELSE {})
         freed == FreedBy(step)
     IN /\ leaked' = [leaked EXCEPT ![m] = {<<r, "create">> : r \in done \ freed}]
        /\ wild' = [wild EXCEPT ![m] = (freed \ done) \ NullSafe]
  /\ monState' = [monState EXCEPT ![m] = "FREED"]
  /\ UNCHANGED <<held, armed, countVars, listed, kernel, memoryVars>>

CreateLoadsUsed(m) ==
  kernel[m] = "checked" /\ LoadUsed(m, "add") /\ UNCHANGED monitorVars

CreateAddsUsed(m) ==
  /\ kernel[m] = "add" /\ StoreUsed(m, memory_size(m))
  /\ kernel' = [kernel EXCEPT ![m] = "counted"]
  /\ UNCHANGED monitorVars

(* A step after the memory was counted fails; the error path frees up to the memory. *)
CreateFailsLate(m, step) ==
  /\ kernel[m] = "counted"
  /\ step \in Steps(LateStep) \union Enabled
  /\ LET done == Before(LateStep \o Device, step) \intersect (Steps(LateStep) \union Enabled)
     IN held' = [held EXCEPT ![m] = (@ \union done)
                   \ (ConfigUndo[step] \union (FreedBy(step) \ FreedBy("ram")))]
  /\ kernel' = [kernel EXCEPT ![m] = "failed"]
  /\ UNCHANGED <<monState, armed, countVars, listed, leaked, wild, memoryVars>>

(* out_revert_used_mem and the rest of the error path. *)
RevertLoadsUsed(m) ==
  kernel[m] = "failed" /\ LoadUsed(m, "revert") /\ UNCHANGED monitorVars

Reverted_Not(m) == 0
Reverted(m) == -memory_size(m)

RevertUsed(m) ==
  /\ kernel[m] = "revert" /\ StoreUsed(m, Reverted(m))
  /\ Free(m, FreedBy("ram") \ {"hostmem"}, "create")
  /\ monState' = [monState EXCEPT ![m] = "FREED"]
  /\ kernel' = [kernel EXCEPT ![m] = "idle"]
  /\ UNCHANGED <<armed, countVars, listed>>

(* The monitor is complete: listed under manager->lock, with the caller's reference. *)
CreateDone(m) ==
  /\ kernel[m] = "counted"
  /\ held' = [held EXCEPT ![m] = @ \union Steps(LateStep) \union Enabled]
  /\ refcount' = [refcount EXCEPT ![m] = 1]
  /\ listed' = listed \union {m}
  /\ monState' = [monState EXCEPT ![m] = "INITIALIZED"]
  /\ kernel' = [kernel EXCEPT ![m] = "idle"]
  /\ UNCHANGED <<armed, closing, miscounted, leaked, wild, memoryVars>>

-----------------------------------------------------------------------------
(* The ioctls of a monitor.  Each is given the outcome its allocations have. *)

Devices == Steps(Device)

(* START: guest_address_space_init allocates archdep and the passage page over whatever
   pointers were there, then writes page tables. *)
StartOutcome == {"not loaded", "no archdep", "no page", "no tables", "ok"}

Start(m, outcome) ==
  /\ monState[m] = "INITIALIZED"
  /\ LET dropped == CASE outcome = "not loaded" -> {}
                      [] outcome = "no archdep" -> {"archdep"}
                      [] OTHER                  -> {"archdep", "passagePage"}
         taken   == IF outcome \in {"no tables", "ok"} THEN {"archdep", "passagePage"} ELSE {}
     IN /\ leaked' = [leaked EXCEPT ![m] =
                        @ \union {<<r, "start">> : r \in held[m] \intersect dropped}]
        /\ held' = [held EXCEPT ![m] = (@ \ dropped) \union taken]
  /\ armed' = [armed EXCEPT ![m] = @ \/ outcome = "ok"]
  /\ monState' = [monState EXCEPT ![m] = IF outcome = "ok" THEN "STARTED" ELSE @]
  /\ UNCHANGED <<countVars, listed, wild, kernel, memoryVars>>

(* RUN: the guest runs until the ioctl returns, here with the guest still alive. *)
Run(m) ==
  /\ monState[m] \in {"STARTED", "RUNNING"}
  /\ monState' = [monState EXCEPT ![m] = "RUNNING"]
  /\ UNCHANGED <<held, armed, countVars, listed, kernel, leaked, wild, memoryVars>>

(* RUN in which the guest asks for CO_OPERATION_TERMINATE. *)
Terminate(m) ==
  /\ monState[m] \in {"STARTED", "RUNNING"}
  /\ armed' = [armed EXCEPT ![m] = FALSE]
  /\ monState' = [monState EXCEPT ![m] = "TERMINATED"]
  /\ UNCHANGED <<held, countVars, listed, kernel, leaked, wild, memoryVars>>

(* RESET: new pseudo RAM, then the devices are unregistered and loaded again; a failure
   leaves the monitor EMPTY. *)
Reset(m, failing) ==
  /\ failing \in {"none", "ram"} \union Enabled
  /\ held' = [held EXCEPT ![m] =
       CASE failing = "ram" -> @ \ {"ram"}
         [] failing \in Enabled ->
              ((@ \ Devices) \union (Before(Device, failing) \intersect Enabled))
                \ (ConfigUndo[failing] \union {"ram"})
         [] OTHER -> ((@ \ Devices) \union {"ram"}) \union Enabled]
  /\ listed' = IF failing = "none" THEN listed \union {m} ELSE listed
  /\ monState' = [monState EXCEPT ![m] = IF failing = "none" THEN "INITIALIZED" ELSE "EMPTY"]
  /\ UNCHANGED <<armed, countVars, kernel, leaked, wild, memoryVars>>

(* ATTACH, under manager->lock: one more descriptor of the monitor. *)
OneMore_NotCounted(m) == refcount
OneMore(m) == [refcount EXCEPT ![m] = @ + 1]

Attach(m) ==
  /\ refcount[m] > 0 /\ m \in listed
  /\ refcount' = OneMore(m)
  /\ UNCHANGED <<monState, held, armed, closing, miscounted, listed, kernel, leaked, wild,
                 memoryVars>>

(* The states in which co_monitor_destroy takes the timer out of the host's queue. *)
TimerStates == {"STARTED", "RUNNING"}

(* co_monitor_refdown, for a descriptor of the process o.  The owner takes the monitor off
   the list under manager->lock; --cmon->refcount then has no lock: it is read here and
   written in the next step. *)
RefdownReads(m, o, owner) ==
  /\ refcount[m] > 0
  /\ listed' = IF owner THEN listed \ {m} ELSE listed
  /\ closing' = [closing EXCEPT ![m][o] = refcount[m]]
  /\ UNCHANGED <<monState, held, armed, refcount, miscounted, kernel, leaked, wild, memoryVars>>

(* The last descriptor destroys the monitor, and its thread is in there until that is done.
   An ATTACH or another decrement since the read is lost. *)
RefdownWrites(m, o) ==
  /\ closing[m][o] > 0 /\ kernel[m] = "idle"
  /\ refcount' = [refcount EXCEPT ![m] = closing[m][o] - 1]
  /\ \/ /\ refcount[m] # closing[m][o]
        /\ miscounted' = [miscounted EXCEPT ![m] = TRUE]
        /\ UNCHANGED <<closing, kernel, armed>>
     \/ /\ refcount[m] = closing[m][o] /\ refcount[m] > 1
        /\ closing' = [closing EXCEPT ![m][o] = 0]
        /\ UNCHANGED <<miscounted, kernel, armed>>
     \/ /\ refcount[m] = closing[m][o] /\ refcount[m] = 1
        /\ kernel' = [kernel EXCEPT ![m] = "destroy"]
        /\ armed' = [armed EXCEPT ![m] = @ /\ monState[m] \notin TimerStates]
        /\ UNCHANGED <<closing, miscounted>>
  /\ UNCHANGED <<monState, held, listed, leaked, wild, memoryVars>>

DestroyLoadsUsed(m) ==
  kernel[m] = "destroy" /\ LoadUsed(m, "release") /\ UNCHANGED monitorVars

(* co_monitor_destroy; it has no co_os_wait_destroy. *)
Destroyed(m) ==
  /\ kernel[m] = "release" /\ StoreUsed(m, -memory_size(m))
  /\ Free(m, Resource \ {"idleWait"}, "destroy")
  /\ monState' = [monState EXCEPT ![m] = "FREED"]
  /\ kernel' = [kernel EXCEPT ![m] = "idle"]
  /\ closing' = [closing EXCEPT ![m] = [o \in Opener |-> 0]]
  /\ UNCHANGED <<armed, refcount, miscounted, listed>>

-----------------------------------------------------------------------------
Live(m) == held[m] # {} /\ "monitor" \in held[m]

LifecycleTypeOK ==
  /\ hostmem_used \in Int
  /\ monState \in [Monitor -> {"NONE", "EMPTY", "INITIALIZED", "STARTED", "RUNNING",
                               "TERMINATED", "FREED"}]
  /\ held \in [Monitor -> SUBSET Resource]
  /\ armed \in [Monitor -> BOOLEAN]
  /\ refcount \in [Monitor -> Nat]
  /\ closing \in [Monitor -> [Opener -> Nat]]
  /\ miscounted \in [Monitor -> BOOLEAN]
  /\ listed \subseteq Monitor
  /\ kernel \in [Monitor -> {"idle", "checked", "add", "counted", "failed", "revert",
                             "destroy", "release"}]
  /\ loaded \in [Monitor -> Int]
  /\ leaked \in [Monitor -> SUBSET (Resource \X {"create", "start", "destroy"})]
  /\ wild \in [Monitor -> SUBSET Resource]
  /\ raced \subseteq {"lost update", "stale check"}
=============================================================================
