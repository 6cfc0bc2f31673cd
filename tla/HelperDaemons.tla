--------------------------- MODULE HelperDaemons ---------------------------
(***************************************************************************)
(* A process that joins a device of the host to the guest: the network     *)
(* daemons for a TAP adapter and for a bridged card, and the serial        *)
(* daemon.  One thread waits in the reactor for the reads it has issued,   *)
(* on the monitor's descriptor and on the device, and writes to the one    *)
(* what it has read from the other; the bridged daemon has a second        *)
(* thread that receives from the card and goes to sleep when the card is   *)
(* lost.                                                                   *)
(*                                                                         *)
(* Sources: user/reactor.c, os/winnt/user/reactor.c, user/daemon-base/     *)
(* main.cpp, conet-daemon/daemon.cpp, coserial-daemon/main.c and           *)
(* conet-bridged-daemon/main.c under os/winnt/user.  The driver's side of  *)
(* the descriptor is module OpenDesc; here it is a queue with its limit,   *)
(* filled by the thread that runs the guest.                               *)
(***************************************************************************)
EXTENDS Integers, Sequences

CONSTANTS
  HelperKind,      (* of "tap", "serial", "bridge": the daemons looked at    *)
  HelperLimit,     (* messages a descriptor may queue before its sender sleeps *)
  Numbers,         (* bound: the guest numbers its messages modulo this      *)
  MaxTries         (* tries to open the card again, 20 in the code           *)

ASSUME HelperAssumption ==
  /\ HelperKind \subseteq {"tap", "serial", "bridge"}
  /\ HelperLimit \in Nat /\ MaxTries \in Nat \ {0}
  /\ Numbers \in Nat /\ Numbers > 2 * HelperLimit + 4

VARIABLES
  kind,            (* which daemon this is                                   *)
  toHelper,        (* the descriptor's queue in the driver                   *)
  guestSleeps,     (* the RUN thread waits in co_manager_send                *)
  sentNo, passedNo,   (* number of the next message to send, to pass on      *)
  monitorOver,     (* the monitor has sent its end-of-file                   *)
  monitorRead,     (* the read on the descriptor and the messages it holds   *)
  deviceRead,      (* the read on the device                                 *)
  thread,          (* the main thread: where it is, messages yet to pass on  *)
  receiver,        (* pcap2Daemon                                            *)
  suspended,       (* pcap_packet.suspended                                  *)
  card, adapter,   (* the card is there; pcap_packet.adhandle                *)
  tries,           (* loop: tries to open it again                           *)
  misled           (* history: "late" after a flag read before it was taken
                      back; "crashed" when a closed adapter was used         *)

driverSide == <<toHelper, guestSleeps, sentNo, monitorOver>>
bridgeSide == <<receiver, suspended, card, adapter, tries, misled>>
helperVars == <<kind, driverSide, passedNo, monitorRead, deviceRead, thread, bridgeSide>>

Read(state, data) == [state |-> state, data |-> data]
At(place)   == thread' = [thread EXCEPT !.at = place]
After(n)    == (n + 1) % Numbers
Alive       == thread.at # "ended"

HelperInit ==
  /\ kind \in HelperKind
  /\ toHelper = <<>> /\ guestSleeps = FALSE /\ sentNo = 0 /\ passedNo = 0
  /\ monitorOver = FALSE /\ monitorRead = Read("pending", <<>>)
  /\ deviceRead = IF kind = "bridge" THEN "none" ELSE "pending"
  /\ thread = [at |-> "select", left |-> <<>>]
  /\ receiver = IF kind = "bridge" THEN "loop" ELSE "none"
  /\ suspended = FALSE /\ card = TRUE /\ tries = 0 /\ misled = "no"
  /\ adapter = IF kind = "bridge" THEN "open" ELSE "closed"

-----------------------------------------------------------------------------
(* The driver: co_manager_send, manager_read and the end-of-file. *)

Overfull(queue) == Len(queue) > HelperLimit

GuestSends ==
  /\ Alive /\ ~guestSleeps /\ ~monitorOver
  /\ sentNo' = After(sentNo)
  /\ IF monitorRead.state = "pending"
     THEN monitorRead' = Read("done", <<sentNo>>) /\ UNCHANGED <<toHelper, guestSleeps>>
     ELSE /\ toHelper' = Append(toHelper, sentNo)
          /\ guestSleeps' = Overfull(toHelper')
          /\ UNCHANGED monitorRead
  /\ UNCHANGED <<kind, monitorOver, passedNo, deviceRead, thread, bridgeSide>>

MonitorEnds ==
  /\ ~guestSleeps /\ ~monitorOver
  /\ monitorOver' = TRUE
  /\ monitorRead' = IF monitorRead.state = "pending" THEN Read("broken pipe", <<>>) ELSE monitorRead
  /\ UNCHANGED <<kind, toHelper, guestSleeps, sentNo, passedNo, deviceRead, thread, bridgeSide>>

(* The device: input, or an error that ends the read; and the end of a write that waits. *)
DeviceReads ==
  /\ deviceRead = "pending"
  /\ deviceRead' \in {"done", "broken pipe", "failed"}
  /\ UNCHANGED <<kind, driverSide, passedNo, monitorRead, thread, bridgeSide>>

DeviceWritten ==
  /\ thread.at = "writing" /\ At("relay")
  /\ UNCHANGED <<kind, driverSide, passedNo, monitorRead, deviceRead, bridgeSide>>

-----------------------------------------------------------------------------
(* The reactor.  A user is added at the head of the list, and the first in the list whose
   event is set is served: the device's comes after the monitor's only if it was made first. *)

Users == CASE kind = "tap"    -> <<"monitor", "device">>
           [] kind = "serial" -> <<"device", "monitor">>
           [] kind = "bridge" -> <<"monitor">>

EventSet(u) == IF u = "monitor" THEN monitorRead.state \in {"done", "broken pipe"}
                                ELSE deviceRead \in {"done", "broken pipe", "failed"}
Served(u) == \E i \in DOMAIN Users :
  /\ Users[i] = u /\ EventSet(u)
  /\ \A j \in 1..(i - 1) : ~EventSet(Users[j])

(* packet_read_completed on the descriptor: its messages are passed on one by one. *)
SelectMonitor ==
  /\ thread.at = "select" /\ Served("monitor")
  /\ thread' = IF monitorRead.state = "done" THEN [at |-> "relay", left |-> monitorRead.data]
               ELSE [thread EXCEPT !.at = "ended"]
  /\ monitorRead' = Read("none", <<>>)
  /\ UNCHANGED <<kind, driverSide, passedNo, deviceRead, bridgeSide>>

(* ... and on the device: what was read goes to the driver and the next read is issued; an
   error that is no broken pipe issues none. *)
SelectDevice ==
  /\ thread.at = "select" /\ Served("device")
  /\ \/ deviceRead = "done" /\ deviceRead' = "pending" /\ UNCHANGED thread
     \/ deviceRead = "done" /\ deviceRead' = "none" /\ At("ended")
     \/ deviceRead = "broken pipe" /\ deviceRead' = "none" /\ At("ended")
     \/ deviceRead = "failed" /\ deviceRead' = "none" /\ UNCHANGED thread
  /\ UNCHANGED <<kind, driverSide, passedNo, monitorRead, bridgeSide>>

(* monitor_receive: a message of the buffer is passed on when all of it is there. *)
Whole_NotLast(left) == Len(left) - 1 > 0
Whole(left) == Len(left) - 1 >= 0

(* packet_send_whole: done, failed without notice, or the thread waits for as long as it
   takes; pcap_sendpacket does not wait. *)
Relay ==
  /\ thread.at = "relay" /\ thread.left # <<>>
  /\ passedNo' = IF Whole(thread.left) THEN After(passedNo) ELSE passedNo
  /\ thread' \in [at : IF kind = "bridge" THEN {"relay"} ELSE {"relay", "writing"},
                  left : {Tail(thread.left)}]
  /\ UNCHANGED <<kind, driverSide, monitorRead, deviceRead, bridgeSide>>

(* The loop of co_manager_send, which looks at the queue again every 100 ms, over what a read
   has left in it. *)
StillSleeps_Always(sleeps, queue) == sleeps
StillSleeps(sleeps, queue) == sleeps /\ Overfull(queue)

(* packet_read_async on the descriptor: manager_read takes all that is queued, so the
   sender goes on; with the monitor gone it fails, and the reactor's error ends the daemon. *)
ReadAgain ==
  /\ thread.at = "relay" /\ thread.left = <<>>
  /\ \/ monitorOver /\ At("ended") /\ UNCHANGED <<toHelper, guestSleeps, monitorRead>>
     \/ /\ ~monitorOver
        /\ monitorRead' = Read(IF toHelper = <<>> THEN "pending" ELSE "done", toHelper)
        /\ toHelper' = <<>> /\ guestSleeps' = StillSleeps(guestSleeps, toHelper')
        /\ At(IF kind = "bridge" THEN "check" ELSE "select")
  /\ UNCHANGED <<kind, sentNo, monitorOver, passedNo, deviceRead, bridgeSide>>

-----------------------------------------------------------------------------
(* The bridged daemon: pcap2Daemon and the main thread.  An adapter that is open when its
   card goes stays useless when the card comes back. *)

CardGoes ==
  /\ kind = "bridge" /\ card /\ card' = FALSE
  /\ adapter' = IF adapter = "open" THEN "broken" ELSE adapter
  /\ UNCHANGED <<kind, driverSide, passedNo, monitorRead, deviceRead, thread, receiver,
                 suspended, tries, misled>>

CardComes ==
  /\ kind = "bridge" /\ ~card /\ card' = TRUE
  /\ UNCHANGED <<kind, driverSide, passedNo, monitorRead, deviceRead, thread, receiver,
                 suspended, adapter, tries, misled>>

ReceiverGoes(from, to) ==
  /\ receiver = from /\ receiver' = to /\ Alive
  /\ UNCHANGED <<kind, driverSide, passedNo, monitorRead, deviceRead, card, adapter, tries>>

(* pcap_next_ex is called with the adapter of that moment, and uses it until it returns with
   a packet, which is written to the driver, a timeout or an error.  Without an adapter the
   process crashes; with one that is closed meanwhile it may. *)
Misused == misled' = IF misled = "no" THEN "crashed" ELSE misled

Receive ==
  /\ ReceiverGoes("loop", "receiving") /\ UNCHANGED suspended
  /\ IF adapter = "closed" THEN Misused /\ At("ended") ELSE UNCHANGED <<misled, thread>>
Received ==
  /\ adapter # "broken" /\ ReceiverGoes("receiving", "loop")
  /\ UNCHANGED <<suspended, misled, thread>>
ReceiveFails ==
  /\ adapter = "broken" /\ ReceiverGoes("receiving", "offline")
  /\ suspended' = TRUE /\ UNCHANGED <<misled, thread>>
SuspendThread ==
  ReceiverGoes("offline", "suspended") /\ UNCHANGED <<suspended, misled, thread>>
Continued ==
  ReceiverGoes("resumed", "loop") /\ suspended' = FALSE /\ UNCHANGED <<misled, thread>>

MainGoes(from, to) ==
  /\ thread.at = from /\ At(to)
  /\ UNCHANGED <<kind, driverSide, passedNo, monitorRead, deviceRead, card>>

(* The main thread looks at the flag when the reactor has served it, so not before the guest
   sends something. *)
Offline == suspended

CheckReceiver ==
  /\ MainGoes("check", IF Offline THEN "close" ELSE "select")
  /\ misled' = IF Offline /\ receiver = "resumed" THEN "late" ELSE misled
  /\ UNCHANGED <<receiver, suspended, adapter, tries>>

CloseAdapter ==
  /\ adapter' = "closed" /\ tries' = 0
  /\ \/ MainGoes("close", "open")
        /\ IF receiver = "receiving" THEN Misused ELSE UNCHANGED misled
     \/ receiver = "receiving" /\ MainGoes("close", "ended") /\ Misused
  /\ UNCHANGED <<receiver, suspended>>

(* A try also fails with the card there, when its filter cannot be set; the adapter is then
   left open, and forgotten by the next try. *)
OpenAdapter ==
  /\ \/ card /\ MainGoes("open", "resume") /\ adapter' = "open" /\ tries' = 0
     \/ /\ MainGoes("open", IF tries + 1 = MaxTries THEN "ended" ELSE "open")
        /\ tries' = tries + 1
        /\ adapter' \in {adapter} \union (IF card THEN {"open"} ELSE {})
  /\ UNCHANGED <<receiver, suspended, misled>>

(* ResumeThread has no effect on a thread that has not suspended itself yet. *)
Resumed(place) == IF place = "suspended" THEN "resumed" ELSE place
ResumeReceiver ==
  /\ MainGoes("resume", "select") /\ receiver' = Resumed(receiver)
  /\ UNCHANGED <<suspended, adapter, tries, misled>>

-----------------------------------------------------------------------------
MainThread == SelectMonitor \/ SelectDevice \/ Relay \/ ReadAgain
                \/ CheckReceiver \/ CloseAdapter \/ OpenAdapter \/ ResumeReceiver
ReceiverThread == ReceiveFails \/ SuspendThread \/ Continued

HelperNext ==
  \/ GuestSends \/ MonitorEnds \/ DeviceReads \/ DeviceWritten
  \/ MainThread \/ ReceiverThread \/ Receive \/ Received
  \/ CardGoes \/ CardComes

(* The threads are scheduled. *)
HelperFairness ==
  /\ WF_helperVars(MainThread)
  /\ WF_helperVars(ReceiverThread) /\ WF_helperVars(Receive)

-----------------------------------------------------------------------------
HelperTypeOK ==
  /\ kind \in HelperKind
  /\ guestSleeps \in BOOLEAN /\ monitorOver \in BOOLEAN
  /\ sentNo \in 0..(Numbers - 1) /\ passedNo \in 0..(Numbers - 1)
  /\ monitorRead.state \in {"none", "pending", "done", "broken pipe"}
  /\ deviceRead \in {"none", "pending", "done", "broken pipe", "failed"}
  /\ thread.at \in {"select", "relay", "writing", "check", "close", "open", "resume", "ended"}
  /\ receiver \in {"none", "loop", "receiving", "offline", "suspended", "resumed"}
  /\ suspended \in BOOLEAN /\ card \in BOOLEAN /\ tries \in 0..MaxTries
  /\ adapter \in {"open", "broken", "closed"} /\ misled \in {"no", "late", "crashed"}

(* Nothing is lost, doubled or out of order on the way from the guest to the device, whatever
   is in the driver's queue, in the buffer of a finished read or half passed on; the
   sender sleeps only beside too long a queue; and while the daemon lives, a read is out
   unless it is busy with what the last one brought. *)
OnTheWay == thread.left \o monitorRead.data \o toHelper
RelayExact == Alive =>
  /\ \A i \in 1..Len(OnTheWay) : OnTheWay[i] = (passedNo + i - 1) % Numbers
  /\ sentNo = (passedNo + Len(OnTheWay)) % Numbers
  /\ guestSleeps => Overfull(toHelper)
  /\ monitorRead.state = "none" <=> thread.at \in {"relay", "writing"}

(* The main thread closes the adapter and opens it again only while the receiver is about to
   go to sleep or asleep, and the receiver never works on a closed one; but for a main
   thread that comes round before the receiver it has resumed took its flag back. *)
BridgeExact ==
  /\ misled # "crashed"
  /\ misled = "no" /\ thread.at \in {"close", "open", "resume"} =>
       suspended /\ receiver \in {"offline", "suspended"}
  /\ kind = "bridge" /\ thread.at \in {"select", "relay", "check"} => adapter # "closed"
HelpersExact == RelayExact /\ BridgeExact

(* What a helper owes depends on others: the device finishes what is written to it, and its
   input leaves the monitor a turn (the serial port comes first in the serial daemon's
   reactor); and the guest goes on sending.  Then a guest that had to wait for the helper
   goes on; a helper whose monitor is gone ends; and a receiver that lost its card is
   resumed, or its daemon gives up. *)
OthersGoOn ==
  WF_helperVars(DeviceWritten) /\ SF_helperVars(SelectMonitor) /\ WF_helperVars(GuestSends)
HelpersServe ==
  OthersGoOn =>
    /\ guestSleeps ~> (~guestSleeps \/ ~Alive)
    /\ monitorOver ~> ~Alive
    /\ receiver = "suspended" ~> (receiver # "suspended" \/ ~Alive)
=============================================================================
