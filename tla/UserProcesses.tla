---------------------------- MODULE UserProcesses ----------------------------
(***************************************************************************)
(* The processes on the host: the daemons that own the monitors, and a     *)
(* helper that joins a device to one of their guests.  What couples them   *)
(* is in the driver and is modelled with each (the helper sees a monitor   *)
(* end, the daemon's RUN thread sleeps in a helper's queue), so a          *)
(* behaviour watches one of the two kinds: a helper after the daemons of   *)
(* other guests have gone, or daemons before there is a helper.            *)
(***************************************************************************)
EXTENDS Daemon, HelperDaemons

VARIABLE watched   (* "daemons" or "helpers": which processes take steps     *)

processVars == <<lifecycleVars, daemonVars, helperVars, watched>>

ProcessInit ==
  /\ LifecycleInit /\ HelperInit
  /\ \/ watched = "daemons" /\ DaemonInit /\ kind = "tap"
     \/ watched = "helpers" /\ DaemonsStart({})

ProcessNext ==
  \/ watched = "daemons" /\ HostNext /\ UNCHANGED <<helperVars, watched>>
  \/ watched = "helpers" /\ HelperNext /\ UNCHANGED <<lifecycleVars, daemonVars, watched>>

ProcessSpec == ProcessInit /\ [][ProcessNext]_processVars /\ HostFairness /\ HelperFairness

(* Types of all of it. *)
ProcessTypeOK == HostTypeOK /\ HelperTypeOK /\ watched \in {"daemons", "helpers"}
=============================================================================
