---------------------------- MODULE GuestDevices ----------------------------
(***************************************************************************)
(* Parts of the system that work apart from each other: block devices,     *)
(* SCSI disks, a cofs volume, a conet unit, the console, the TAP card of a *)
(* network daemon, what that card answers itself, and the debug log in the *)
(* drivers, a connection and the datagrams through the slirp daemon, the   *)
(* command line of a daemon, the driver from its installation to its       *)
(* removal, and a daemon as a service.                                     *)
(*                                                                         *)
(* In the code they have no variable in common: each has a structure of    *)
(* its own, and its own locks or none.  A step of one leaves the state of  *)
(* the others as it is, so their interleavings show nothing that each part *)
(* alone does not.  A behaviour therefore exercises one part, chosen at    *)
(* the start, and the others stay as they begin.                           *)
(***************************************************************************)
EXTENDS DebugLog, BlockDevices, ScsiDevices, Cofs, ConetAdapter, Console, TapDriver, Masquerade,
  SlirpTcp, SlirpDatagrams, Configuration, DriverControl, ServiceControl

VARIABLE exercised   \* the part whose steps this behaviour takes

Part == {"debug", "block", "scsi", "cofs", "conet", "console", "tap", "slirp", "datagrams",
         "config", "control", "service", "masquerade"}

guestDevicesVars == <<exercised, debugVars, blockVars, scsiVars, cofsVars, conetVars, consoleVars,
                      tapVars, slirpVars, datagramsVars, configVars, controlVars, serviceVars,
                      masqueradeVars>>

GuestDevicesInit ==
  /\ exercised \in Part
  /\ DebugInit /\ BlockInit /\ ScsiInit /\ CofsInit /\ ConetInit /\ ConsoleInit
  /\ TapInit /\ SlirpInit /\ ConfigInit /\ ServiceInit
  /\ IF exercised = "datagrams" THEN DatagramsInit
     ELSE StartsWith(CHOOSE x \in DOMAIN Exchange : ~Exchange[x].redirect)
  /\ IF exercised = "control" THEN ControlInit ELSE PlaysAt(1)
  /\ IF exercised = "masquerade" THEN MasqueradeInit ELSE TakesCourse(<<>>)

OthersStay ==
  /\ IF exercised = "debug" THEN TRUE ELSE UNCHANGED debugVars
  /\ IF exercised = "block" THEN TRUE ELSE UNCHANGED blockVars
  /\ IF exercised = "scsi" THEN TRUE ELSE UNCHANGED scsiVars
  /\ IF exercised = "cofs" THEN TRUE ELSE UNCHANGED cofsVars
  /\ IF exercised = "conet" THEN TRUE ELSE UNCHANGED conetVars
  /\ IF exercised = "console" THEN TRUE ELSE UNCHANGED consoleVars
  /\ IF exercised = "tap" THEN TRUE ELSE UNCHANGED tapVars
  /\ IF exercised = "slirp" THEN TRUE ELSE UNCHANGED slirpVars
  /\ IF exercised = "datagrams" THEN TRUE ELSE UNCHANGED datagramsVars
  /\ IF exercised = "config" THEN TRUE ELSE UNCHANGED configVars
  /\ IF exercised = "control" THEN TRUE ELSE UNCHANGED controlVars
  /\ IF exercised = "service" THEN TRUE ELSE UNCHANGED serviceVars
  /\ IF exercised = "masquerade" THEN TRUE ELSE UNCHANGED masqueradeVars

GuestDevicesNext ==
  /\ UNCHANGED exercised
  /\ \/ exercised = "debug" /\ DebugNext
     \/ exercised = "block" /\ BlockNext
     \/ exercised = "scsi" /\ ScsiNext
     \/ exercised = "cofs" /\ CofsNext
     \/ exercised = "conet" /\ ConetNext
     \/ exercised = "console" /\ ConsoleNext
     \/ exercised = "tap" /\ TapNext
     \/ exercised = "slirp" /\ SlirpNext
     \/ exercised = "datagrams" /\ DatagramsNext
     \/ exercised = "config" /\ ConfigNext
     \/ exercised = "control" /\ ControlNext
     \/ exercised = "service" /\ ServiceNext
     \/ exercised = "masquerade" /\ MasqueradeNext
  /\ OthersStay

GuestDevicesSpec == GuestDevicesInit /\ [][GuestDevicesNext]_guestDevicesVars

(* Every variable of the part that is exercised has its type; the others are as at the start. *)
PartsTypeOK ==
  CASE exercised = "debug" -> DebugTypeOK
    [] exercised = "block" -> BlockTypeOK
    [] exercised = "scsi" -> ScsiTypeOK
    [] exercised = "cofs" -> CofsTypeOK
    [] exercised = "conet" -> ConetTypeOK
    [] exercised = "console" -> ConsoleTypeOK
    [] exercised = "tap" -> TapTypeOK
    [] exercised = "slirp" -> SlirpTypeOK
    [] exercised = "datagrams" -> DatagramsTypeOK
    [] exercised = "config" -> ConfigTypeOK
    [] exercised = "control" -> ControlTypeOK
    [] exercised = "service" -> ServiceTypeOK
    [] exercised = "masquerade" -> MasqueradeTypeOK

(* What each part promises is checked where it is exercised.

   The host's inodes of a volume are a tree that holds the paths of the guest's, as long as no
   FORGET overtook a lookup and no rename ran out of memory; see PathsAgree in Cofs. *)
CofsAgrees == exercised = "cofs" => PathsAgree

(* The guest's datagrams go through slirp whole, to whom they were for and back; see the parts
   in SlirpDatagrams. *)
DatagramsExact == exercised = "datagrams" => DatagramsAgree

(* The programs agree with the driver and with each other on what is installed, loaded and in
   use, and a daemon that is a service with the service manager on whether it runs. *)
ControlExact ==
  /\ exercised = "control" => ControlAgrees
  /\ exercised = "service" => ServiceExact

=============================================================================
