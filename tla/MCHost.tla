------------------------------- MODULE MCHost -------------------------------
(* Two daemons on one driver, whose limit holds either monitor and not both; only the first
   meets failures, a stop event and a reboot, and launches processes.  Besides, one helper
   of each kind. *)
EXTENDS UserProcesses

CONSTANTS d1, d2, console

Monitors == {d1, d2}
Reboots == [d \in {d1, d2} |-> IF d = d1 THEN 1 ELSE 0]
Launches == [d \in {d1, d2} |-> IF d = d1 THEN {console} ELSE {}]
RamSizes == [d \in {d1, d2} |-> IF d = d1 THEN 0 ELSE 100]

(* Where the other daemon never starts, the guest also reboots and the launched process attaches. *)
Apart == reboots[d1] > 0 \/ joined[d1][console] \in {"attached", "left"} =>
           pc[d2] = "exited" /\ monState[d2] = "NONE"

(* The values of the constants: TLC evaluates a definition that the .cfg names every time it is
   used, and one that such a definition names only once. *)
MCMonitor == Monitors
MCMaxReboots == Reboots
MCLaunched == Launches
MCRamSize == RamSizes
=============================================================================
