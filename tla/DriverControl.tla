---------------------------- MODULE DriverControl ----------------------------
(***************************************************************************)
(* What stands around the driver: the programs that install it, ask for    *)
(* it and remove it, daemons as far as they look at the number of monitors *)
(* and at the addresses in the registry, and the driver's load and unload. *)
(*                                                                         *)
(* Sources: os/winnt/user/daemon (driver.c, main.c, registry.c),           *)
(* os/winnt/user/manager.c, user/manager.c, user/daemon.c; in the driver   *)
(* os/winnt/kernel (interface.c: DriverEntry, driver_unload, manager.c),   *)
(* kernel/manager.c (load, unload, STATUS), kernel/reversedpfns.c and      *)
(* arch/i386/manager.c.                                                    *)
(*                                                                         *)
(* The service manager (scm) and NT's loader are external.  A record that  *)
(* is deleted stays, marked, until its driver has stopped; a driver that   *)
(* is told to stop is unloaded when its last handle is closed, and opened  *)
(* by nobody meanwhile.  A program opens, uses and closes a record in one  *)
(* call, which is one step.                                                *)
(***************************************************************************)
EXTENDS Integers, FiniteSets, Sequences

CONSTANT Scene     (* a sequence of: commands (a sequence of: does, version),
                      driver (the version that is installed and runs, or "none"),
                      faults (what may fail)                                *)

Command == {"install", "remove", "status", "daemon"}
Fault   == {"access", "create", "start", "load", "open", "registry", "monitor"}

ASSUME SceneAssumption ==
  /\ Scene # <<>>
  /\ \A s \in DOMAIN Scene :
       /\ Scene[s].faults \subseteq Fault
       /\ Len(Scene[s].commands) \in Nat
       /\ DOMAIN Scene[s].commands = 1..Len(Scene[s].commands)
       /\ \A p \in DOMAIN Scene[s].commands :
            Scene[s].commands[p].does \in Command /\ Scene[s].commands[p].version # "none"

VARIABLES
  scene,           (* which of Scene happens                                  *)
  scm,             (* the record of the driver and what its service does      *)
  driver,          (* the driver in memory                                    *)
  program,         (* the programs that run                                   *)
  registry         (* the address that is stored for each index: who made it  *)

controlVars == <<scene, scm, driver, program, registry>>

Playing    == Scene[scene]
Program    == DOMAIN Playing.commands
Given      == Len(Playing.commands) + 1     \* the record that was there before
Does(p)    == Playing.commands[p].does
Version(p) == Playing.commands[p].version
Fails(what) == IF what \in Playing.faults THEN BOOLEAN ELSE {FALSE}

-----------------------------------------------------------------------------
(* The driver.  held: what it has allocated; lost: what nothing refers to any more; wild:
   what is used although it is not there. *)

Unloaded == [loaded |-> FALSE, state |-> "none", monitors |-> 0, version |-> "none",
             held |-> {}, lost |-> {}, wild |-> {}]

(* co_manager_load in its order.  "memory" only asks for the amount of memory. *)
LoadStep == <<"lock", "memory", "debug", "arch", "osdep", "reversed">>
DoneBefore(k) == {LoadStep[i] : i \in 1..(k - 1)} \ {"memory"}

(* What a step that fails keeps itself: co_os_manager_init its structure when there is no
   mutex, co_manager_alloc_reversed_pfns both of its tables; their pages are in the lists that
   co_os_manager_free frees. *)
co_manager_arch_init == {{}}
co_os_manager_init == {{}, {"osdep"}}
co_manager_alloc_reversed_pfns == {{}, {"pfns"}, {"pfns", "pgds"}}
Keeps(k) == CASE LoadStep[k] = "osdep" -> co_os_manager_init
              [] LoadStep[k] = "reversed" -> co_manager_alloc_reversed_pfns
              [] OTHER -> co_manager_arch_init

(* Its error path: the step that failed jumps to the label that frees what was done before. *)
ErrorPath_ArchKept(k) == DoneBefore(k) \ {"arch"}
ErrorPath(k) == DoneBefore(k)

Allocated == {"lock", "debug", "arch", "osdep", "pfns", "pgds"}

Loads(d) == [d EXCEPT !.state = "initialized", !.held = Allocated]
LoadFails(d, k, kept) ==
  [d EXCEPT !.state = "not initialized",
            !.lost = @ \union (DoneBefore(k) \ ErrorPath(k)) \union kept]

(* DriverEntry does not look at what co_manager_load answers, nor does that look whether there
   is memory for the second table before it is filled. *)
DriverEntry(version) ==
  LET d == [driver EXCEPT !.loaded = TRUE, !.version = version, !.monitors = 0] IN
  {Loads(d)} \union
  (IF "load" \notin Playing.faults THEN {}
   ELSE {[Loads(d) EXCEPT !.wild = @ \union {"pgds"}]}
          \union UNION {{LoadFails(d, k, kept) : kept \in Keeps(k)} : k \in DOMAIN LoadStep})

(* driver_unload: co_manager_unload frees nothing of a driver that was not initialized. *)
co_manager_unload(d) ==
  [Unloaded EXCEPT !.wild = d.wild,
                   !.lost = d.lost \union (IF d.state = "initialized" THEN {} ELSE d.held)]

-----------------------------------------------------------------------------
(* The service manager. *)

Present == scm.record # 0
DriverRuns == scm.state = "running"

Stopped(s) == [s EXCEPT !.state = "stopped", !.marked = FALSE, !.record = IF s.marked THEN 0 ELSE @]
Deleted(s) == IF s.state = "stopped" THEN [s EXCEPT !.record = 0] ELSE [s EXCEPT !.marked = TRUE]

(* The handles that are left: the last one that goes takes along a driver that is to stop. *)
Settles(left, d) ==
  IF scm.state = "stopping" /\ left = {}
  THEN scm' = Stopped(scm) /\ driver' = co_manager_unload(d)
  ELSE driver' = d /\ UNCHANGED scm

-----------------------------------------------------------------------------
(* The programs.  made: that it made a record; index: the number of monitors it was told of,
   knows: whose they were; mac: who made the address it uses; gone: who had made a record
   when this one deleted the record. *)

NewProgram == [at |-> "start", rc |-> "none", handle |-> FALSE, made |-> FALSE,
               knows |-> {}, index |-> 0, mac |-> 0, gone |-> {}]

Open     == {p \in Program : program[p].handle}
Monitors == {p \in Program : program[p].at = "runs"}
IsAt(p, at)    == program[p].at = at
ProgramAt(p, at)  == [program[p] EXCEPT !.at = at]
HandleClosed(r)    == [r EXCEPT !.handle = FALSE]
Becomes(p, r) == program' = [program EXCEPT ![p] = r]

(* main: the exit codes scripts may ask for; every other error is 1. *)
ExitCode(rc) == IF rc \in {"ok", "version", "no access"} THEN rc ELSE "error"
Exits(r, rc) == [r EXCEPT !.at = "ended", !.rc = ExitCode(rc)]

(* co_os_manager_is_installed, and what each program makes of it. *)
IsInstalled(p) ==
  /\ IsAt(p, "start") /\ Does(p) # "daemon"
  /\ \/ /\ "access" \in Playing.faults
        /\ \E rc \in {"access denied", "no access"} : Becomes(p, Exits(program[p], rc))
     \/ Does(p) = "install" /\ Present  /\ Becomes(p, Exits(program[p], "ok"))
     \/ Does(p) = "install" /\ ~Present /\ Becomes(p, ProgramAt(p, "create"))
     \/ Does(p) # "install" /\ Present  /\ Becomes(p, ProgramAt(p, "open"))
     \/ Does(p) # "install" /\ ~Present /\ Becomes(p, Exits(program[p], "no access"))
  /\ UNCHANGED <<scene, scm, driver, registry>>

(* CreateService refuses a name that exists, a marked one, too. *)
CreateRecord(p) ==
  /\ IsAt(p, "create")
  /\ \/ /\ Present \/ "create" \in Playing.faults
        /\ Becomes(p, Exits(program[p], "error")) /\ UNCHANGED scm
     \/ /\ ~Present
        /\ scm' = [scm EXCEPT !.record = p, !.version = Version(p)]
        /\ Becomes(p, [ProgramAt(p, "launch") EXCEPT !.made = TRUE])
  /\ UNCHANGED <<scene, driver, registry>>

StartDriver(p) ==
  /\ IsAt(p, "launch")
  /\ \/ /\ "start" \in Playing.faults \/ ~Present \/ scm.marked \/ scm.state # "stopped"
        /\ Becomes(p, ProgramAt(p, "undo")) /\ UNCHANGED <<scm, driver>>
     \/ /\ Present /\ ~scm.marked /\ scm.state = "stopped"
        /\ driver' \in DriverEntry(scm.version)
        /\ scm' = [scm EXCEPT !.state = "running"] /\ Becomes(p, ProgramAt(p, "open"))
  /\ UNCHANGED <<scene, registry>>

(* co_winnt_remove_driver_lowlevel deletes whatever record there is by now, if it is not
   marked yet. *)
DeleteRecord(p, rc) ==
  /\ scm' = IF Present /\ ~scm.marked THEN Deleted(scm) ELSE scm
  /\ Becomes(p, [Exits(program[p], rc) EXCEPT
                   !.gone = {q \in Program : program[q].made} \union {Given}])
  /\ UNCHANGED <<scene, driver, registry>>

UndoInstall(p)  == IsAt(p, "undo") /\ DeleteRecord(p, "error")
RemoveRecord(p) == IsAt(p, "delete") /\ DeleteRecord(p, program[p].rc)

(* co_os_manager_open, and co_manager_open in the driver, which takes the lock of the manager
   that a driver which failed to load has freed. *)
NotOpened(p) == IF Does(p) = "remove" THEN [ProgramAt(p, "stop") EXCEPT !.rc = "no access"]
              ELSE Exits(program[p], IF Does(p) = "status" THEN "error" ELSE "no access")
OpenDriver(p) ==
  /\ IsAt(p, "open") \/ (IsAt(p, "start") /\ Does(p) = "daemon")
  /\ \/ /\ ~DriverRuns \/ "open" \in Playing.faults
        /\ Becomes(p, NotOpened(p)) /\ UNCHANGED driver
     \/ /\ DriverRuns /\ driver.state # "initialized"
        /\ driver' = [driver EXCEPT !.wild = @ \union {"lock"}]
        /\ UNCHANGED program
     \/ /\ DriverRuns /\ driver.state = "initialized"
        /\ LET r == IF Does(p) = "install" THEN Exits(program[p], "ok") ELSE ProgramAt(p, "ask")
           IN Becomes(p, [r EXCEPT !.handle = TRUE])
        /\ UNCHANGED driver
  /\ UNCHANGED <<scene, scm, registry>>

(* co_manager_status, and what each makes of the answer: a driver of another version is
   removed all the same. *)
Asked(p) ==
  LET told == [program[p] EXCEPT !.knows = Monitors, !.index = driver.monitors]
      same == driver.version = Version(p)
  IN CASE Does(p) = "daemon" /\ same            -> [told EXCEPT !.at = "macs"]
       [] Does(p) = "status" /\ same            -> HandleClosed(Exits(told, "ok"))
       [] Does(p) # "remove" /\ ~same           -> HandleClosed(Exits(program[p], "version"))
       [] Does(p) = "remove" /\ ~same           ->
            HandleClosed([ProgramAt(p, "stop") EXCEPT !.rc = "no access"])
       [] Does(p) = "remove" /\ same /\ driver.monitors # 0 -> HandleClosed(Exits(told, "busy"))
       [] Does(p) = "remove" /\ same /\ driver.monitors = 0 ->
            HandleClosed([told EXCEPT !.at = "stop", !.rc = "ok"])
       [] OTHER -> program[p]
AskStatus(p) ==
  /\ IsAt(p, "ask")
  /\ Becomes(p, Asked(p))
  /\ Settles(IF Asked(p).handle THEN Open ELSE Open \ {p}, driver)
  /\ UNCHANGED <<scene, registry>>

(* ControlService(STOP); co_winnt_unload_driver_lowlevel_by_name goes on whatever it says, but
   not without access to the service manager. *)
StopDriver(p) ==
  /\ IsAt(p, "stop")
  /\ \/ /\ "access" \in Playing.faults
        /\ Becomes(p, Exits(program[p], program[p].rc)) /\ UNCHANGED <<scm, driver>>
     \/ /\ ~DriverRuns /\ Becomes(p, ProgramAt(p, "delete")) /\ UNCHANGED <<scm, driver>>
     \/ /\ DriverRuns /\ Becomes(p, ProgramAt(p, "delete"))
        /\ IF Open = {} THEN scm' = Stopped(scm) /\ driver' = co_manager_unload(driver)
           ELSE scm' = [scm EXCEPT !.state = "stopping"] /\ UNCHANGED driver
  /\ UNCHANGED <<scene, registry>>

(* What the registry holds for the index p was told, and what it holds once p stored its own. *)
StoredMac(p) == registry[program[p].index]
WithMac(p) == [registry EXCEPT ![program[p].index] = p]

(* co_daemon_prepare_net_macs: the number of monitors is the index; an address that is not
   there is made up and stored. *)
ReadMac(p) ==
  /\ IsAt(p, "macs")
  /\ \/ /\ StoredMac(p) = 0 \/ "registry" \in Playing.faults
        /\ Becomes(p, [ProgramAt(p, "store") EXCEPT !.mac = p])
     \/ StoredMac(p) # 0 /\ Becomes(p, [ProgramAt(p, "monitor") EXCEPT !.mac = StoredMac(p)])
  /\ UNCHANGED <<scene, scm, driver, registry>>

WriteMac(p) ==
  /\ IsAt(p, "store") /\ Becomes(p, ProgramAt(p, "monitor"))
  /\ \E fails \in Fails("registry") :
       registry' = IF fails THEN registry ELSE WithMac(p)
  /\ UNCHANGED <<scene, scm, driver>>

(* co_monitor_create counts the monitor; an error closes the handle. *)
CreateMonitor(p) ==
  /\ IsAt(p, "monitor")
  /\ \/ /\ Becomes(p, ProgramAt(p, "runs"))
        /\ driver' = [driver EXCEPT !.monitors = @ + 1] /\ UNCHANGED scm
     \/ /\ "monitor" \in Playing.faults
        /\ Becomes(p, HandleClosed(Exits(program[p], "error"))) /\ Settles(Open \ {p}, driver)
  /\ UNCHANGED <<scene, registry>>

(* The guest ends and the handle of its daemon is closed. *)
DaemonEnds(p) ==
  /\ IsAt(p, "runs") /\ Becomes(p, HandleClosed(Exits(program[p], "ok")))
  /\ Settles(Open \ {p}, [driver EXCEPT !.monitors = @ - 1])
  /\ UNCHANGED <<scene, registry>>

(* co_winnt_install_driver leaves its handle to the end of the process. *)
ProgramExits(p) ==
  /\ IsAt(p, "ended") /\ program[p].handle
  /\ Becomes(p, HandleClosed(program[p])) /\ Settles(Open \ {p}, driver)
  /\ UNCHANGED <<scene, registry>>

-----------------------------------------------------------------------------
PlaysAt(n) ==
  /\ scene = n
  /\ scm = IF Playing.driver = "none"
           THEN [record |-> 0, version |-> "none", state |-> "stopped", marked |-> FALSE]
           ELSE [record |-> Given, version |-> Playing.driver, state |-> "running",
                 marked |-> FALSE]
  /\ driver = IF Playing.driver = "none" THEN Unloaded
              ELSE Loads([Unloaded EXCEPT !.loaded = TRUE, !.version = Playing.driver])
  /\ program = [p \in Program |-> NewProgram]
  /\ registry = [index \in 0..Len(Playing.commands) |-> 0]

ControlInit == \E n \in DOMAIN Scene : PlaysAt(n)

(* What uses memory that is not there is not followed. *)
ControlNext ==
  /\ driver.wild = {}
  /\ \E p \in Program :
       \/ IsInstalled(p) \/ CreateRecord(p) \/ StartDriver(p) \/ UndoInstall(p) \/ RemoveRecord(p)
       \/ OpenDriver(p) \/ AskStatus(p) \/ StopDriver(p) \/ ReadMac(p) \/ WriteMac(p)
       \/ CreateMonitor(p) \/ DaemonEnds(p) \/ ProgramExits(p)

-----------------------------------------------------------------------------
Versions == {Version(p) : p \in Program} \union {Playing.driver, "none"}
ServiceRecords ==
  [record : Program \union {0, Given}, version : Versions,
   state : {"stopped", "running", "stopping"}, marked : BOOLEAN]
Drivers ==
  [loaded : BOOLEAN, state : {"none", "initialized", "not initialized"},
   monitors : 0..Cardinality(Program), version : Versions, held : {{}, Allocated},
   lost : SUBSET Allocated, wild : SUBSET {"lock", "pgds"}]
Programs ==
  [at : {"start", "create", "launch", "undo", "open", "ask", "stop", "delete", "macs", "store",
         "monitor", "runs", "ended"},
   rc : {"none", "ok", "version", "no access", "error"}, handle : BOOLEAN, made : BOOLEAN,
   knows : SUBSET Program, index : 0..Cardinality(Program), mac : Program \union {0},
   gone : SUBSET (Program \union {Given})]

ControlTypeOK ==
  /\ scm \in ServiceRecords /\ driver \in Drivers /\ program \in [Program -> Programs]
  /\ registry \in [0..Cardinality(Program) -> Program \union {0}]

(* The driver is in memory from its start until its last handle is closed after it was told to
   stop, and counts the monitors of the daemons that run, each with a handle. *)
DriverInUse ==
  /\ driver.loaded <=> scm.state # "stopped"
  /\ driver.loaded => Present /\ driver.version # "none"
  /\ scm.state = "stopping" => Open # {}
  /\ Open # {} => driver.loaded /\ driver.state = "initialized"
  /\ driver.monitors = Cardinality(Monitors) /\ Monitors \subseteq Open

(* A load that fails leaves what its last step kept, and an unload nothing: all else that was
   allocated is freed once. *)
NothingForgotten ==
  /\ driver.lost \subseteq {"osdep", "pfns", "pgds"}
  /\ driver.held = (IF driver.state = "initialized" THEN Allocated ELSE {})
  /\ "load" \notin Playing.faults => driver.lost = {} /\ driver.wild = {}

(* Two guests that run have the same address only if their daemons were told the same number
   of monitors: they asked before either had one, or a monitor that the first one counted
   had ended when the second asked. *)
AddressesKnown ==
  \A p, q \in Monitors : p # q /\ program[p].mac = program[q].mac =>
    /\ program[p].index = program[q].index
    /\ \/ p \notin program[q].knows /\ q \notin program[p].knows
       \/ p \in program[q].knows /\ \E r \in program[p].knows \ program[q].knows : ~IsAt(r, "runs")
       \/ q \in program[p].knows /\ \E r \in program[q].knows \ program[p].knows : ~IsAt(r, "runs")

(* --remove-driver answers ok only if no monitor was there when it asked, and then no record
   that was there when it deleted is that of a driver one can open; --install-driver answers
   ok for its own record only if that is still there, or somebody deleted it. *)
AnswersTrue ==
  \A p \in Program :
    /\ Does(p) = "remove" /\ program[p].rc = "ok" => program[p].knows = {}
    /\ DriverRuns /\ ~scm.marked => scm.record \notin program[p].gone
    /\ Does(p) = "install" /\ program[p].rc = "ok" /\ program[p].made =>
         scm.record = p \/ \E q \in Program : p \in program[q].gone

ControlAgrees == DriverInUse /\ NothingForgotten /\ AddressesKnown /\ AnswersTrue
=============================================================================
