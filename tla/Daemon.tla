------------------------------- MODULE Daemon -------------------------------
(***************************************************************************)
(* colinux-daemon: the process that creates a monitor, loads the kernel,   *)
(* starts and runs the guest, restarts it when it reboots and takes it     *)
(* down; and the handler of console and service events, a second thread    *)
(* that asks the guest to shut down.  One daemon per monitor, several of   *)
(* them on one driver.                                                     *)
(*                                                                         *)
(* The daemon launches a console and a process for each network and serial *)
(* device, which attach to the monitor and may outlive the daemon: here    *)
(* they only hold it, what they do with it is HelperDaemons's.             *)
(*                                                                         *)
(* Sources: user/daemon.c, user/monitor.c, os/winnt/user/daemon/main.c.    *)
(* The ioctls are the actions of MonitorLifecycle.  The messages the run   *)
(* loop receives are module OpenDesc's; here the guest's queue holds at    *)
(* most the power message of the handler.                                  *)
(***************************************************************************)
EXTENDS MonitorLifecycle

CONSTANTS
  Pidfile,         (* the daemons started with a pid file                   *)
  Executes,        (* the daemons whose configuration has exec entries      *)
  Faulty,          (* bound: the daemons some step of which may fail        *)
  Stoppable,       (* bound: the daemons that get a stop event              *)
  Launched,        (* bound: the processes each daemon launches             *)
  MaxReboots       (* bound: reboots each guest makes that was not told to  *)

ASSUME DaemonAssumption ==
  /\ Pidfile \subseteq Monitor /\ Executes \subseteq Monitor
  /\ Faulty \subseteq Monitor /\ Stoppable \subseteq Monitor
  /\ Launched \in [Monitor -> SUBSET Child]
  /\ MaxReboots \in [Monitor -> Nat]

VARIABLES
  pc,              (* where the main thread of each daemon is               *)
  user,            (* what the daemon has taken: memory, handles, children  *)
  nextReboot,      (* daemon->next_reboot_will_shutdown                     *)
  stop,            (* the handler: "none", "flagged", "sent"                *)
  power,           (* the power message is in the guest's queue             *)
  joined,          (* the launched processes: "no", "started", "attached", "left" *)
  reboots,         (* bound: reboots so far                                 *)
  cutShort         (* history: why the daemon skipped its clean-up, or "no" *)

daemonVars == <<pc, user, nextReboot, stop, power, joined, reboots, cutShort>>
handlerVars == <<nextReboot, stop, power>>

DaemonsStart(present) ==
  /\ pc = [d \in Monitor |-> IF d \in present THEN "begin" ELSE "exited"]
  /\ user = [d \in Monitor |-> {}]
  /\ nextReboot = [d \in Monitor |-> FALSE]
  /\ stop = [d \in Monitor |-> "none"]
  /\ power = [d \in Monitor |-> FALSE]
  /\ joined = [d \in Monitor |-> [c \in Child |-> "no"]]
  /\ reboots = [d \in Monitor |-> 0]
  /\ cutShort = [d \in Monitor |-> "no"]
DaemonInit == \E present \in SUBSET Monitor : DaemonsStart(present)

Goto(d, next)      == pc' = [pc EXCEPT ![d] = next]
Owns(d, resources) == user' = [user EXCEPT ![d] = resources]

(* No ioctl of the daemon itself is in the driver. *)
Settled(d) ==
  kernel[d] \notin {"checked", "add", "counted", "failed", "revert"} /\ closing[d]["daemon"] = 0

-----------------------------------------------------------------------------
(* co_daemon_start_monitor *)

LoadImage(d) ==
  /\ pc[d] = "begin"
  /\ \/ Goto(d, "image") /\ Owns(d, {"image"})
     \/ d \in Faulty /\ Goto(d, "exit") /\ UNCHANGED user
  /\ UNCHANGED <<handlerVars, joined, reboots, cutShort, lifecycleVars>>

(* A symbol the kernel image lacks, or another version of the driver. *)
OpenManager(d) ==
  /\ pc[d] = "image"
  /\ \/ Goto(d, "create") /\ Owns(d, {"image", "manager"})
     \/ d \in Faulty /\ Goto(d, "exit") /\ Owns(d, {})
  /\ UNCHANGED <<handlerVars, joined, reboots, cutShort, lifecycleVars>>

CreateMonitor(d) ==
  /\ pc[d] = "create"
  /\ \E registered \in IF d \in Faulty THEN BOOLEAN ELSE {TRUE} :
       \/ CreateChecked(d, registered)
       \/ CreateFailsEarly(d, "hostmem", registered)
       \/ d \in Faulty /\ \E step \in Resource : CreateFailsEarly(d, step, registered)
  /\ Goto(d, "creating")
  /\ UNCHANGED <<user, handlerVars, joined, reboots, cutShort>>

(* The ioctl goes on in the driver, whatever becomes of the process. *)
CreateContinues(d) ==
  /\ \/ CreateLoadsUsed(d) \/ CreateAddsUsed(d) \/ CreateDone(d)
     \/ d \in Faulty /\ \E step \in Resource : CreateFailsLate(d, step)
     \/ RevertLoadsUsed(d) \/ RevertUsed(d)
  /\ UNCHANGED daemonVars

CreateReturns(d) ==
  /\ pc[d] = "creating" /\ kernel[d] = "idle"
  /\ IF monState[d] = "INITIALIZED" THEN Goto(d, "created") /\ UNCHANGED user
     ELSE Goto(d, "exit") /\ Owns(d, {})
  /\ UNCHANGED <<handlerVars, joined, reboots, cutShort, lifecycleVars>>

(* A failing initrd leaves the manager's handle open; a failing kernel image does not. *)
LoadGuest(d) ==
  /\ pc[d] = "created"
  /\ \/ Goto(d, "loaded") /\ UNCHANGED <<user, lifecycleVars>>
     \/ d \in Faulty /\ Goto(d, "exit") /\ Owns(d, {"manager"}) /\ UNCHANGED lifecycleVars
     \/ d \in Faulty /\ Goto(d, "exit") /\ Owns(d, {}) /\ RefdownReads(d, "daemon", TRUE)
  /\ UNCHANGED <<handlerVars, joined, reboots, cutShort>>

-----------------------------------------------------------------------------
(* co_daemon_run *)

OpenMessages(d) ==
  /\ pc[d] = "loaded"
  /\ \/ Goto(d, "opened") /\ Owns(d, user[d] \union {"reactor", "messages"}) /\ Attach(d)
     \/ d \in Faulty /\ Goto(d, "end") /\ UNCHANGED <<user, lifecycleVars>>
  /\ UNCHANGED <<handlerVars, joined, reboots, cutShort>>

(* A pid file that cannot be written returns at once and leaves the reactor and the message
   descriptor; a console that cannot be launched leaves the descriptor.  A process for a
   device that cannot be launched is only warned of, and is one that never attaches. *)
Launch(d) ==
  /\ pc[d] = "opened"
  /\ \/ /\ Goto(d, "start")
        /\ Owns(d, user[d] \union {r \in {"pidfile"} : d \in Pidfile}
                           \union {r \in {"executes"} : d \in Executes})
        /\ nextReboot' = [nextReboot EXCEPT ![d] = FALSE]
        /\ joined' = [joined EXCEPT ![d] = [c \in Child |-> IF c \in Launched[d] THEN "started" ELSE "no"]]
     \/ /\ d \in Faulty /\ Goto(d, "end")
        /\ \/ d \in Pidfile /\ UNCHANGED user
           \/ Owns(d, user[d] \ {"reactor"})
        /\ UNCHANGED <<nextReboot, joined>>
  /\ UNCHANGED <<stop, power, reboots, cutShort, lifecycleVars>>

(* A failing START goes past co_daemon_kill_executes and the close of the messages. *)
StartGuest(d) ==
  /\ pc[d] = "start"
  /\ \/ Start(d, "ok") /\ Goto(d, "run") /\ UNCHANGED cutShort
     \/ /\ d \in Faulty /\ \E outcome \in StartOutcome \ {"ok"} : Start(d, outcome)
        /\ Goto(d, "out")
        /\ cutShort' = [cutShort EXCEPT ![d] = "start failed"]
  /\ UNCHANGED <<user, handlerVars, joined, reboots>>

RunGuest(d) ==
  pc[d] = "run" /\ Run(d) /\ UNCHANGED daemonVars

(* RUN returns an error: the loop ends with the guest as it is. *)
AfterRunError_Out == "out"
AfterRunError == "kill"

RunFails(d) ==
  /\ pc[d] = "run" /\ d \in Faulty /\ Goto(d, AfterRunError)
  /\ UNCHANGED <<user, handlerVars, joined, reboots, cutShort, lifecycleVars>>

GuestEnds(d, reason) ==
  /\ pc[d] = "run" /\ Terminate(d)
  /\ reason = "reboot" => reboots[d] < MaxReboots[d] \/ power[d]
  /\ Goto(d, IF reason = "reboot" THEN "rebooted" ELSE "ended")
  /\ UNCHANGED <<user, handlerVars, joined, reboots, cutShort>>

(* The switch over the termination reason. *)
Restarts_FlagIgnored(d) == pc[d] = "rebooted"
Restarts(d) == pc[d] = "rebooted" /\ ~nextReboot[d]

RestartOrEnd(d) ==
  /\ pc[d] \in {"rebooted", "ended"}
  /\ Goto(d, IF Restarts(d) THEN "restart" ELSE "kill")
  /\ UNCHANGED <<user, handlerVars, joined, reboots, cutShort, lifecycleVars>>

(* co_daemon_restart: the reset flushes the guest's queue; then kernel and initrd are
   loaded again, and any failure ends the loop. *)
Restart(d) ==
  /\ pc[d] = "restart"
  /\ power' = [power EXCEPT ![d] = FALSE]
  /\ reboots' = [reboots EXCEPT ![d] = @ + 1]
  /\ \/ Reset(d, "none") /\ Goto(d, "start")
     \/ d \in Faulty /\ \E failing \in {"none", "ram"} \union Enabled : Reset(d, failing) /\ Goto(d, "kill")
  /\ UNCHANGED <<user, nextReboot, stop, joined, cutShort>>

CloseMessages(d) ==
  /\ pc[d] = "kill" /\ Goto(d, "out")
  /\ Owns(d, user[d] \ {"executes", "messages"})
  /\ RefdownReads(d, "daemon", FALSE)
  /\ UNCHANGED <<handlerVars, joined, reboots, cutShort>>

RemovePidfile(d) ==
  /\ pc[d] = "out" /\ Settled(d) /\ Goto(d, "end")
  /\ Owns(d, user[d] \ {"pidfile", "reactor"})
  /\ UNCHANGED <<handlerVars, joined, reboots, cutShort, lifecycleVars>>

(* co_daemon_end_monitor *)
EndMonitor(d) ==
  /\ pc[d] = "end" /\ Goto(d, "exit")
  /\ Owns(d, user[d] \ {"manager", "image"})
  /\ RefdownReads(d, "daemon", TRUE)
  /\ UNCHANGED <<handlerVars, joined, reboots, cutShort>>

(* The process ends and the system closes what it left open: a driver handle by its
   descriptor's clean-up, one after the other; a file and a child process stay. *)
ExitCloses(d, handle) ==
  /\ pc[d] = "exit" /\ Settled(d)
  /\ handle \in user[d] \intersect {"manager", "messages"}
  /\ Owns(d, user[d] \ {handle})
  /\ IF refcount[d] > 0 THEN RefdownReads(d, "daemon", handle = "manager")
     ELSE UNCHANGED lifecycleVars
  /\ UNCHANGED <<pc, handlerVars, joined, reboots, cutShort>>

Exit(d) ==
  /\ pc[d] = "exit" /\ Settled(d)
  /\ user[d] \intersect {"manager", "messages"} = {}
  /\ Goto(d, "exited")
  /\ Owns(d, user[d] \intersect {"pidfile", "executes"})
  /\ power' = [power EXCEPT ![d] = FALSE]
  /\ UNCHANGED <<nextReboot, stop, joined, reboots, cutShort, lifecycleVars>>

(* What goes on in the driver, in the thread of whoever closed a descriptor. *)
RefdownContinues(d) ==
  /\ RefdownWrites(d, "daemon")
  /\ UNCHANGED daemonVars

DestroyContinues(d) ==
  /\ DestroyLoadsUsed(d) \/ Destroyed(d)
  /\ UNCHANGED daemonVars

-----------------------------------------------------------------------------
(* The launched processes, each in its own time: it attaches when the monitor is still on
   the list, and its descriptor goes when it ends, which may be after the daemon. *)

ChildAttaches(d, c) ==
  /\ joined[d][c] = "started" /\ Attach(d)
  /\ joined' = [joined EXCEPT ![d][c] = "attached"]
  /\ UNCHANGED <<pc, user, handlerVars, reboots, cutShort>>

ChildCloses(d, c) ==
  /\ joined[d][c] = "attached" /\ RefdownReads(d, c, FALSE)
  /\ joined' = [joined EXCEPT ![d][c] = "left"]
  /\ UNCHANGED <<pc, user, handlerVars, reboots, cutShort>>

ChildRefdown(d, c) ==
  RefdownWrites(d, c) /\ UNCHANGED daemonVars

-----------------------------------------------------------------------------
(* co_winnt_daemon_stop, in the thread of the console or service events.  g_daemon is
   never cleared, and message_monitor is NULL until co_user_monitor_open has succeeded. *)

BeforeOpen == {"image", "create", "creating", "created", "loaded"}

StopFlags(d) ==
  /\ d \in Stoppable /\ pc[d] \notin {"begin", "exited"} /\ stop[d] = "none"
  /\ nextReboot' = [nextReboot EXCEPT ![d] = TRUE]
  /\ stop' = [stop EXCEPT ![d] = "flagged"]
  /\ UNCHANGED <<pc, user, power, joined, reboots, cutShort, lifecycleVars>>

StopSends(d) ==
  /\ stop[d] = "flagged" /\ pc[d] # "exited"
  /\ stop' = [stop EXCEPT ![d] = "sent"]
  /\ IF "messages" \in user[d]
     THEN power' = [power EXCEPT ![d] = TRUE] /\ UNCHANGED <<pc, cutShort>>
     ELSE \/ (* the NULL or freed monitor handle: the process dies *)
             /\ Goto(d, "exit")
             /\ cutShort' = [cutShort EXCEPT ![d] = IF @ = "no" THEN "crash" ELSE @]
             /\ UNCHANGED power
          \/ (* a freed one may still be readable, and its handle is closed *)
             pc[d] \notin BeforeOpen /\ UNCHANGED <<pc, cutShort, power>>
  /\ UNCHANGED <<user, nextReboot, joined, reboots, lifecycleVars>>

-----------------------------------------------------------------------------
MainStep(d) ==
  /\ ~miscounted[d]
  /\ \/ LoadImage(d) \/ OpenManager(d) \/ CreateMonitor(d) \/ CreateContinues(d)
     \/ CreateReturns(d) \/ LoadGuest(d) \/ OpenMessages(d) \/ Launch(d) \/ StartGuest(d)
     \/ RestartOrEnd(d) \/ Restart(d) \/ CloseMessages(d) \/ RemovePidfile(d) \/ EndMonitor(d)
     \/ (\E handle \in {"manager", "messages"} : ExitCloses(d, handle))
     \/ Exit(d) \/ RefdownContinues(d) \/ DestroyContinues(d)

GuestStep(d) ==
  /\ ~miscounted[d]
  /\ RunGuest(d) \/ RunFails(d) \/ \E reason \in {"reboot", "other"} : GuestEnds(d, reason)

ChildStep(d) ==
  ~miscounted[d] /\ \E c \in Child : ChildAttaches(d, c) \/ ChildCloses(d, c) \/ ChildRefdown(d, c)

HostInit == LifecycleInit /\ DaemonInit
HostNext ==
  \E d \in Monitor : MainStep(d) \/ GuestStep(d) \/ ChildStep(d) \/ StopFlags(d) \/ StopSends(d)

(* The main thread goes on; a guest that has the power message shuts down or reboots.
   Nobody else need ever act: the guest may run for ever, and no event need come. *)
GuestObeys(d) ==
  power[d] /\ ~miscounted[d] /\ \E reason \in {"reboot", "other"} : GuestEnds(d, reason)

HostFairness == \A d \in Monitor :
  WF_<<lifecycleVars, daemonVars>>(MainStep(d)) /\ WF_<<lifecycleVars, daemonVars>>(GuestObeys(d))

HostSpec == HostInit /\ [][HostNext]_<<lifecycleVars, daemonVars>>
HostLiveSpec == HostSpec /\ HostFairness

-----------------------------------------------------------------------------
(* Types of the driver's and the daemons' state. *)
HostTypeOK ==
  /\ LifecycleTypeOK
  /\ pc \in [Monitor -> BeforeOpen \union {"begin", "opened", "start", "run", "rebooted",
                "ended", "restart", "kill", "out", "end", "exit", "exited"}]
  /\ user \in [Monitor -> SUBSET {"image", "manager", "reactor", "messages", "pidfile",
                                  "executes"}]
  /\ nextReboot \in [Monitor -> BOOLEAN]
  /\ stop \in [Monitor -> {"none", "flagged", "sent"}]
  /\ power \in [Monitor -> BOOLEAN]
  /\ joined \in [Monitor -> [Child -> {"no", "started", "attached", "left"}]]
  /\ reboots \in [Monitor -> Nat] /\ \A d \in Monitor : reboots[d] <= MaxReboots[d] + 1
  /\ cutShort \in [Monitor -> {"no", "start failed", "crash"}]

(* Whatever fails and in whatever order the handles go, the only memory a monitor ever
   loses is: connected_modules_write_lock when the next mutex cannot be created, the wait
   object that co_monitor_destroy forgets, and what the START after a reboot allocates over.
   Nothing is freed that was not allocated, but for conet_mutex when the protocol could
   not be registered (co_monitor_create, co_monitor_destroy, co_monitor_start). *)
LeaksAreKnown == \A m \in Monitor :
  /\ leaked[m] \subseteq {<<"modulesMutex", "create">>, <<"idleWait", "destroy">>,
                          <<"archdep", "start">>, <<"passagePage", "start">>}
  /\ wild[m] \subseteq {"conetMutex"}
  /\ <<"archdep", "start">> \in leaked[m] => reboots[m] > 0

(* The memory of some monitors. *)
TotalMemory(monitors) == MapThenSumSet(memory_size, monitors)

(* hostmem_used is the memory of the monitors that are counted, unless two updates of it
   overlapped; and it is within the limit unless a create was added between another's
   check and its addition (the unlocked check and update of co_monitor_create). *)
Counted(m) == kernel[m] \in {"counted", "failed", "revert", "destroy", "release"}
                \/ (kernel[m] = "idle" /\ Live(m))
HostmemAccounted ==
  /\ "lost update" \notin raced => hostmem_used = TotalMemory({m \in Monitor : Counted(m)})
  /\ raced = {} => hostmem_used <= hostmem_usage_limit

(* Who has a descriptor of the monitor, with those that are within co_monitor_refdown. *)
Openers(m) == {o \in Opener : closing[m][o] > 0} \union {c \in Child : joined[m][c] = "attached"}
Holders(m) == (user[m] \intersect {"manager", "messages"}) \union Openers(m)

(* A monitor lives exactly as long as somebody has a descriptor of it, unless an update of its
   refcount was lost: none is freed under a launched process, which may hold it long after
   the daemon has gone, and when the daemon and all of those have let go it is freed, its
   memory and its timer with it.  No monitor is on the manager's list without its daemon, and
   the timer is armed only while the guest can be entered.  A daemon that went through its
   clean-up leaves neither pid file nor children; a START that fails leaves the children, a
   crash in the stop handler may leave both (co_monitor_refdown, co_daemon_run's exits). *)
ExitLeavesNothing == \A m \in Monitor :
  /\ armed[m] => monState[m] \in {"STARTED", "RUNNING"} /\ kernel[m] = "idle"
  /\ ~miscounted[m] =>
       /\ \A c \in Child : joined[m][c] = "attached" => kernel[m] = "idle" /\ Live(m)
       /\ pc[m] = "exited" /\ Holders(m) = {} =>
            monState[m] \in {"NONE", "FREED"} /\ held[m] = {} /\ refcount[m] = 0
  /\ pc[m] = "exited" =>
       /\ m \notin listed
       /\ "executes" \in user[m] => cutShort[m] = "start failed"
       /\ "pidfile" \in user[m] => cutShort[m] = "crash"

(* A stop that reached the queue of a running guest, with the flag set, ends the daemon: the
   guest goes down and is not restarted, even when it reboots.  (The model of a monitor ends
   where an update of its refcount is lost.) *)
StopEnds == \A d \in Stoppable :
  (pc[d] = "run" /\ power[d] /\ nextReboot[d]) ~> (pc[d] = "exited" \/ miscounted[d])
=============================================================================
