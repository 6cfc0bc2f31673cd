---------------------------- MODULE ServiceControl ----------------------------
(***************************************************************************)
(* A daemon that Windows runs as a service: the program that installs or   *)
(* removes it, the service manager (external), and the two threads of the  *)
(* process, service_main with the daemon in it, and the dispatcher, which  *)
(* runs the control handler.  Both report through one unlocked ssStatus.   *)
(* A daemon that a user starts has a console handler and no service.       *)
(*                                                                         *)
(* Sources: os/winnt/user/daemon/service.c, main.c.  What the daemon does  *)
(* between its create and its end is in the module Daemon; here it is: made *)
(* (its messages not opened), reachable, over (and freed).                 *)
(***************************************************************************)
EXTENDS Integers

CONSTANT MaxControls   (* bound: the controls and console events one process gets *)

ASSUME ServiceAssumption == MaxControls \in Nat

VARIABLES
  entry,      (* of the service manager: the service's record, what it was told
                 last, the failures it counts, whether restarts are set and due *)
  process,    (* its threads, the shared status and g_daemon                    *)
  controls,   (* the controls and events this process was sent                  *)
  history     (* of this process: "stop" (one was reported), "lost" (one came
                 before g_daemon was set), "overlap" (of two reports)           *)

serviceVars == <<entry, process, controls, history>>

NoProcess == [as |-> "nothing", main |-> "none", handler |-> "idle", control |-> "none",
              asks |-> "none", status |-> "none", daemon |-> "null", power |-> FALSE]

ServiceInit ==
  /\ entry = [record |-> "none", restarts |-> FALSE, told |-> "stopped", failures |-> 0,
             due |-> FALSE]
  /\ process = NoProcess /\ controls = 0 /\ history = {}

MainGoes(at) == [process EXCEPT !.main = at]

-----------------------------------------------------------------------------
(* --install-service and --remove-service, from another process.  The restarts are set after
   the record was made, and not on Windows NT 4. *)
InstallService ==
  /\ entry.record = "none" /\ entry' = [entry EXCEPT !.record = "installed", !.restarts = FALSE]
  /\ UNCHANGED <<process, controls, history>>

SetRestartOptions ==
  /\ entry.record = "installed" /\ ~entry.restarts /\ entry' = [entry EXCEPT !.restarts = TRUE]
  /\ UNCHANGED <<process, controls, history>>

RemoveService ==
  /\ entry.record = "installed"
  /\ entry' = [entry EXCEPT !.record = IF entry.told = "stopped" THEN "none" ELSE "marked"]
  /\ UNCHANGED <<process, controls, history>>

(* A marked record goes when its service has stopped. *)
Hears(told) ==
  [entry EXCEPT !.told = told,
                !.record = IF told = "stopped" /\ @ = "marked" THEN "none" ELSE @]

-----------------------------------------------------------------------------
(* service_main, when a user starts the service or its restart is due.  A report writes
   ssStatus and then hands it to the service manager. *)

Begins(as) == [NoProcess EXCEPT !.as = as, !.main = IF as = "service" THEN "register" ELSE "daemon"]

ServiceStarts ==
  /\ process.as = "nothing" /\ entry.record = "installed" /\ entry.told = "stopped"
  /\ entry' = [entry EXCEPT !.told = "start pending", !.due = FALSE]
  /\ process' = Begins("service") /\ controls' = 0 /\ history' = {}

PlainStarts ==
  /\ process.as = "nothing" /\ process' = Begins("plain")
  /\ controls' = 0 /\ history' = {} /\ UNCHANGED entry

RegisterServiceCtrlHandler ==
  /\ process.main = "register"
  /\ process' \in {MainGoes("running"), MainGoes("returned")}
  /\ UNCHANGED <<entry, controls, history>>

MainReports == {"running", "stopped"}
Overlaps(busy) == IF busy THEN history \union {"overlap"} ELSE history

MainWrites ==
  /\ process.main \in MainReports
  /\ process' = [process EXCEPT !.status = process.main,
                                !.main = IF @ = "running" THEN "tell running" ELSE "tell stopped"]
  /\ history' = Overlaps(process.handler \in {"write", "tell"})
  /\ UNCHANGED <<entry, controls>>

MainTells ==
  /\ process.main \in {"tell running", "tell stopped"}
  /\ entry' = Hears(process.status)
  /\ process' = MainGoes(IF process.main = "tell running" THEN "daemon" ELSE "returned")
  /\ history' = Overlaps(process.handler \in {"write", "tell"})
  /\ UNCHANGED controls

(* co_winnt_daemon_main: g_daemon is set when co_daemon_create returns, its messages are opened
   by co_daemon_run, and it keeps its value when the daemon is freed. *)
AfterDaemon == IF process.as = "service" THEN "stopped" ELSE "returned"
DaemonCreated ==
  /\ process.main = "daemon" /\ process.daemon = "null"
  /\ process' \in {[process EXCEPT !.daemon = "made"], MainGoes(AfterDaemon)}
  /\ UNCHANGED <<entry, controls, history>>

DaemonOpens ==
  /\ process.main = "daemon" /\ process.daemon = "made"
  /\ process' = [process EXCEPT !.daemon = "reachable"]
  /\ UNCHANGED <<entry, controls, history>>

DaemonOver ==
  /\ process.main = "daemon" /\ process.daemon \in {"made", "reachable"}
  /\ process' = [process EXCEPT !.daemon = "over"]
  /\ UNCHANGED <<entry, controls, history>>

MainReturns ==
  /\ process.main = "daemon" /\ process.daemon = "over" /\ process' = MainGoes(AfterDaemon)
  /\ UNCHANGED <<entry, controls, history>>

-----------------------------------------------------------------------------
(* co_winnt_daemon_stop: without a daemon nothing happens, and nothing is remembered.  One whose
   messages are not open makes it use a handle that is NULL, one that is freed whatever is there. *)
Died == [process EXCEPT !.main = "dead", !.handler = "idle"]
DaemonStop(rest) ==
  \/ /\ process.daemon = "null" /\ process' = rest /\ history' = history \union {"lost"}
  \/ process.daemon \in {"made", "over"} /\ process' = Died /\ UNCHANGED history
  \/ process.daemon = "over" /\ process' = rest /\ UNCHANGED history
  \/ process.daemon = "reachable" /\ process' = [rest EXCEPT !.power = TRUE] /\ UNCHANGED history

(* The service manager takes STOP only for a service that runs, and INTERROGATE also for one
   that stops; it sends one control at a time. *)
ControlSent(control) ==
  /\ process.as = "service" /\ process.main \notin {"dead", "register"} /\ process.handler = "idle"
  /\ controls < MaxControls /\ controls' = controls + 1
  /\ \/ control \in {"stop", "shutdown"} /\ entry.told = "running"
     \/ control = "interrogate" /\ entry.told \in {"running", "stop pending"}
  /\ process' = [process EXCEPT !.handler = "write", !.control = control,
                                !.asks = IF control = "interrogate" THEN process.status
                                         ELSE "stop pending"]
  /\ history' = Overlaps(process.main \in {"tell running", "tell stopped"})
  /\ UNCHANGED entry

HandlerWrites ==
  /\ process.handler = "write"
  /\ process' = [process EXCEPT !.status = process.asks, !.handler = "tell"]
  /\ history' = Overlaps(process.main \in {"tell running", "tell stopped"})
  /\ UNCHANGED <<entry, controls>>

(* co_winnt_service_control_callback: what is not a stop only reports. *)
HandlerTells ==
  /\ process.handler = "tell"
  /\ entry' = Hears(process.status)
  /\ process' = [process EXCEPT !.handler = IF process.control = "interrogate" THEN "idle" ELSE "stop"]
  /\ history' = Overlaps(process.main \in {"tell running", "tell stopped"})
                  \union (IF process.control = "interrogate" THEN {} ELSE {"stop"})
  /\ UNCHANGED controls

HandlerStops ==
  /\ process.handler = "stop" /\ DaemonStop([process EXCEPT !.handler = "idle"])
  /\ UNCHANGED <<entry, controls>>

(* co_winnt_daemon_ctrl_handler, on a thread that Windows makes for each event. *)
ConsoleEvent(event) ==
  /\ process.main = "daemon" /\ controls < MaxControls /\ controls' = controls + 1
  /\ \/ event = "break" /\ UNCHANGED <<process, history>>
     \/ event = "logoff" /\ process.as = "service" /\ UNCHANGED <<process, history>>
     \/ event = "logoff" /\ process.as = "plain" /\ DaemonStop(process)
     \/ event \in {"close", "shutdown"} /\ DaemonStop(process)
  /\ UNCHANGED entry

(* The end of the process: the dispatcher returns once the service manager heard of the stop;
   of one that died it makes a failure, and restarts it after the first two. *)
ProcessEnds ==
  /\ process.main = "returned" /\ process.handler = "idle"
  /\ process.as = "plain" \/ entry.told = "stopped"
  /\ process' = NoProcess /\ history' = {} /\ UNCHANGED <<entry, controls>>

ProcessDied ==
  /\ process.main = "dead" /\ process' = NoProcess /\ history' = {} /\ UNCHANGED controls
  /\ IF process.as = "service" /\ entry.told # "stopped"
     THEN entry' = [Hears("stopped") EXCEPT !.failures = IF @ < 3 THEN @ + 1 ELSE @,
                                            !.due = entry.restarts /\ entry.failures < 2]
     ELSE UNCHANGED entry

ServiceNext ==
  \/ InstallService \/ SetRestartOptions \/ RemoveService
  \/ ServiceStarts \/ PlainStarts \/ RegisterServiceCtrlHandler \/ MainWrites \/ MainTells
  \/ DaemonCreated \/ DaemonOpens \/ DaemonOver \/ MainReturns
  \/ (\E control \in {"stop", "shutdown", "interrogate"} : ControlSent(control))
  \/ HandlerWrites \/ HandlerTells \/ HandlerStops
  \/ (\E event \in {"break", "logoff", "close", "shutdown"} : ConsoleEvent(event))
  \/ ProcessEnds \/ ProcessDied

-----------------------------------------------------------------------------
Told == {"stopped", "start pending", "running", "stop pending"}
Entries ==
  [record : {"none", "installed", "marked"}, restarts : BOOLEAN, told : Told, failures : 0..3,
   due : BOOLEAN]
Processes ==
  [as : {"nothing", "plain", "service"},
   main : {"none", "register", "running", "tell running", "daemon", "stopped", "tell stopped",
           "returned", "dead"},
   handler : {"idle", "write", "tell", "stop"}, control : {"none", "stop", "shutdown", "interrogate"},
   asks : Told \union {"none"}, status : Told \union {"none"},
   daemon : {"null", "made", "reachable", "over"}, power : BOOLEAN]

ServiceTypeOK ==
  /\ entry \in Entries /\ process \in Processes
  /\ controls \in 0..MaxControls /\ history \subseteq {"stop", "lost", "overlap"}

(* Unless two reports overlapped, the service manager has been told how it stands with the
   service: that it runs, that it stops once a stop was taken, and its end, without which the
   dispatcher never returns. *)
StatusTrue ==
  process.as = "service" /\ "overlap" \notin history /\ process.handler = "idle" =>
    CASE process.main \in {"register", "running", "tell running"} -> entry.told = "start pending"
      [] process.main \in {"daemon", "stopped", "tell stopped"} ->
           entry.told = IF "stop" \in history THEN "stop pending" ELSE "running"
      [] process.main = "returned" -> entry.told \in {"stopped", "start pending"}
      [] OTHER -> TRUE

(* A stop that was taken has reached the guest, unless it came before there was a daemon; and
   only a stop or an event that comes before the daemon's messages are open, or after its end,
   kills the process. *)
StopReaches ==
  /\ "stop" \in history /\ process.handler # "stop" /\ process.daemon = "reachable" =>
       process.power \/ "lost" \in history
  /\ process.main = "dead" => process.daemon \in {"made", "over"}

ServiceExact == StatusTrue /\ StopReaches
=============================================================================
