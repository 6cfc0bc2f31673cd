----------------------------- MODULE TapDriver -----------------------------
(***************************************************************************)
(* The TAP driver, behind the network daemon of a guest: a virtual network *)
(* card whose packets a process reads from a device.  A packet the host    *)
(* transmits waits for a read, or a read waits for a packet; a read may be *)
(* cancelled, the process may close the device, the power may go, and the  *)
(* card may be halted while all of that goes on.                           *)
(*                                                                         *)
(* Sources: tapdrvr.c, instance.c, mem.c and lock.h of                     *)
(* os/winnt/kernel/tap-win32.  The host's network stack, its I/O manager   *)
(* and the process are external.  One device; no more than one process     *)
(* opens it at a time, with one thread and overlapped reads.  Writes to    *)
(* the device, point-to-point mode and the built-in DHCP server keep state *)
(* of their own that the queues do not meet: they are in Masquerade.  The  *)
(* OID queries keep none and are left out.                                 *)
(***************************************************************************)
EXTENDS Integers, Sequences, FiniteSets, SequencesExt

CONSTANTS
  TapSender,       (* threads of the host's network stack                   *)
  PacketQueueSize, IrpQueueSize,    (* PACKET_QUEUE_SIZE, IRP_QUEUE_SIZE     *)
  MaxReads, MaxPackets,             (* bounds: reads, packets sent           *)
  MaxSessions      (* bound: how often the device is opened                 *)

ASSUME TapAssumption ==
  /\ PacketQueueSize \in Nat \ {0} /\ IrpQueueSize \in Nat \ {0}
  /\ MaxReads \in Nat /\ MaxPackets \in Nat /\ MaxSessions \in Nat

VARIABLES
  tapHeld,         (* what the adapter has allocated                        *)
  tap,             (* m_InterfaceIsRunning, m_TapIsRunning, m_TapOpens,
                      m_MediaState, m_MediaStateAlwaysConnected, m_Halt      *)
  tapPackets, tapIrps,      (* m_PacketQueue, m_IrpQueue                     *)
  tapRead,         (* the reads: where each is, its cancel routine is set, the
                      packet it got, the session, how often it was completed *)
  tapReads, tapSession, tapSent,    (* numbers given out                     *)
  tapHandle,       (* the process: "none", "open", "closing" after CloseHandle *)
  tapSender,       (* each sender: where it is, its session, a read it ends  *)
  tapCancel,       (* the read whose cancel routine runs, or 0               *)
  tapClose, tapHalt,        (* how far IRP_MJ_CLOSE and AdapterHalt are      *)
  tapMishaps       (* history                                               *)

tapVars == <<tapHeld, tap, tapPackets, tapIrps, tapRead, tapReads, tapSession, tapSent,
             tapHandle, tapSender, tapCancel, tapClose, tapHalt, tapMishaps>>
tapQueues == <<tapPackets, tapIrps>>

NoPacket  == [no |-> 0, session |-> 0]
NewRead   == [at |-> "new", routine |-> FALSE, packet |-> NoPacket, session |-> 0, ended |-> 0]
TapIdle   == [at |-> "idle", session |-> 0, read |-> 0]

TapInit ==
  /\ tapHeld = {}
  /\ tap = [interface |-> FALSE, running |-> FALSE, opens |-> FALSE, media |-> FALSE,
            always |-> FALSE, halt |-> FALSE]
  /\ tapPackets = <<>> /\ tapIrps = <<>>
  /\ tapRead = [r \in 1..MaxReads |-> NewRead]
  /\ tapReads = 0 /\ tapSession = 0 /\ tapSent = 0
  /\ tapHandle = "none" /\ tapSender = [t \in TapSender |-> TapIdle] /\ tapCancel = 0
  /\ tapClose = "no" /\ tapHalt = "not created" /\ tapMishaps = {}

IS_UP == tap.interface /\ tap.running

(* A read is completed: again, if it was before. *)
Ended(r)        == [r EXCEPT !.at = "done", !.routine = FALSE, !.ended = @ + 1]
EndedWith(r, p) == [Ended(r) EXCEPT !.packet = p]

-----------------------------------------------------------------------------
(* AdapterCreate and CreateTapDevice: what they allocate, in order, and what the two
   functions that undo it free. *)

TapSteps == <<"adapter", "shutdownHandler", "name", "tapName", "linkName", "device",
              "packetQueue", "irpQueue", "instance">>
TapDeviceFreeResources == {"packetQueue", "irpQueue", "linkName", "device", "tapName"}
AdapterFreeResources == {"name", "shutdownHandler"}

TapCreate ==
  /\ tapHalt = "not created"
  /\ tapHeld' = ToSet(TapSteps)
  /\ \E always \in BOOLEAN :     (* MediaStatus in the registry *)
       tap' = [tap EXCEPT !.interface = TRUE, !.running = TRUE, !.media = always,
                          !.always = always]
  /\ tapHalt' = "no"
  /\ UNCHANGED <<tapQueues, tapRead, tapReads, tapSession, tapSent, tapHandle, tapSender,
                 tapCancel, tapClose, tapMishaps>>

(* The step that fails; of the two queues either, after the other was made. *)
TapCreateFails(i) ==
  /\ tapHalt = "not created" /\ TapSteps[i] # "shutdownHandler"
  /\ LET done == {TapSteps[j] : j \in 1..(i - 1)}
                   \union (IF TapSteps[i] = "packetQueue" THEN {"irpQueue"} ELSE {})
     IN tapHeld' = done \ (TapDeviceFreeResources \union AdapterFreeResources)
  /\ tapHalt' = "failed"
  /\ UNCHANGED <<tap, tapQueues, tapRead, tapReads, tapSession, tapSent, tapHandle, tapSender,
                 tapCancel, tapClose, tapMishaps>>

-----------------------------------------------------------------------------
(* The process: IRP_MJ_CREATE, the ioctl that sets the media status, CloseHandle. *)

TapOpen ==
  /\ tapHandle = "none" /\ tapSession < MaxSessions /\ tapClose = "no" /\ ~tap.halt
  /\ tap.running /\ ~tap.opens
  /\ tap' = [tap EXCEPT !.opens = TRUE]
  /\ tapHandle' = "open" /\ tapSession' = tapSession + 1
  /\ UNCHANGED <<tapHeld, tapQueues, tapRead, tapReads, tapSent, tapSender, tapCancel, tapClose,
                 tapHalt, tapMishaps>>

SetMediaStatus(state) == IF tap.always THEN tap.media ELSE state

TapConnects ==
  /\ tapHandle = "open" /\ ~tap.halt
  /\ \E state \in BOOLEAN : tap' = [tap EXCEPT !.media = SetMediaStatus(state)]
  /\ UNCHANGED <<tapHeld, tapQueues, tapRead, tapReads, tapSession, tapSent, tapHandle,
                 tapSender, tapCancel, tapClose, tapHalt, tapMishaps>>

TapCloseHandle ==
  /\ tapHandle = "open" /\ tapHandle' = "closing"
  /\ \A r \in 1..tapReads : tapRead[r].at # "reading"
  /\ UNCHANGED <<tapHeld, tap, tapQueues, tapRead, tapReads, tapSession, tapSent, tapSender,
                 tapCancel, tapClose, tapHalt, tapMishaps>>

(* IRP_MJ_CLOSE comes when no read is out any more.  It stops the senders that have not yet
   looked, then flushes, then reports the media as disconnected. *)
TapCloses ==
  /\ tapHandle = "closing" /\ tapHandle' = "none"
  /\ \A r \in 1..tapReads : tapRead[r].ended > 0
  /\ IF tap.halt THEN UNCHANGED <<tap, tapClose>>
     ELSE tap' = [tap EXCEPT !.opens = FALSE] /\ tapClose' = "irps"
  /\ UNCHANGED <<tapHeld, tapQueues, tapRead, tapReads, tapSession, tapSent, tapSender,
                 tapCancel, tapHalt, tapMishaps>>

TapCloseEnds ==
  /\ tapClose = "flushed" /\ tapClose' = "no"
  /\ tap' = [tap EXCEPT !.media = SetMediaStatus(FALSE)]
  /\ UNCHANGED <<tapHeld, tapQueues, tapRead, tapReads, tapSession, tapSent, tapHandle,
                 tapSender, tapCancel, tapHalt, tapMishaps>>

-----------------------------------------------------------------------------
(* IRP_MJ_READ: two sections of m_QueueLock, between which the queues may change. *)

(* A packet is taken at once if no other read waits. *)
Immediate_Overtakes(irps) == TRUE
Immediate(irps) == irps = <<>>

ReadServes ==
  /\ tapHandle = "open" /\ tapReads < MaxReads
  /\ \A r \in 1..tapReads : tapRead[r].at # "reading"
  /\ tapReads' = tapReads + 1
  /\ LET read == [NewRead EXCEPT !.session = tapSession]
         set(r) == tapRead' = [tapRead EXCEPT ![tapReads'] = r]
     IN IF tap.halt \/ ~tap.interface THEN set(Ended(read)) /\ UNCHANGED tapPackets
        ELSE IF IS_UP /\ tapPackets # <<>> /\ Immediate(tapIrps)
        THEN set(EndedWith(read, Head(tapPackets))) /\ tapPackets' = Tail(tapPackets)
        ELSE set([read EXCEPT !.at = "reading"]) /\ UNCHANGED tapPackets
  /\ UNCHANGED <<tapHeld, tap, tapIrps, tapSession, tapSent, tapHandle, tapSender, tapCancel,
                 tapClose, tapHalt, tapMishaps>>

(* It does not look for a packet again. *)
ReadPends(r) ==
  /\ tapRead[r].at = "reading"
  /\ IF IS_UP /\ Len(tapIrps) < IrpQueueSize
     THEN /\ tapIrps' = Append(tapIrps, r)
          /\ tapRead' = [tapRead EXCEPT ![r].at = "queued", ![r].routine = TRUE]
          /\ tapMishaps' = tapMishaps \union {m \in {"beside"} : tapPackets # <<>>}
     ELSE tapRead' = [tapRead EXCEPT ![r] = Ended(@)] /\ UNCHANGED <<tapIrps, tapMishaps>>
  /\ UNCHANGED <<tapHeld, tap, tapPackets, tapReads, tapSession, tapSent, tapHandle, tapSender,
                 tapCancel, tapClose, tapHalt>>

-----------------------------------------------------------------------------
(* AdapterTransmit *)

SendChecks(t) ==
  /\ tapSender[t] = TapIdle /\ tapSent < MaxPackets
  /\ tapHalt \notin {"not created", "failed", "freed", "gone"}
  /\ tap.opens /\ tap.media
  /\ tapSender' = [tapSender EXCEPT ![t] = [TapIdle EXCEPT !.at = "checked", !.session = tapSession]]
  /\ UNCHANGED <<tapHeld, tap, tapQueues, tapRead, tapReads, tapSession, tapSent, tapHandle,
                 tapCancel, tapClose, tapHalt, tapMishaps>>

(* Packets are numbered as they enter the queue; one that does not is dropped. *)
SendPushes(t) ==
  /\ tapSender[t].at = "checked"
  /\ IF IS_UP /\ Len(tapPackets) < PacketQueueSize
     THEN /\ tapSent' = tapSent + 1
          /\ tapPackets' = Append(tapPackets, [no |-> tapSent', session |-> tapSender[t].session])
          /\ tapSender' = [tapSender EXCEPT ![t].at = "pairs"]
          /\ tapMishaps' = tapMishaps \union
               {m \in {"late packet"} : ~tap.opens \/ tapSession # tapSender[t].session}
     ELSE /\ tapSender' = [tapSender EXCEPT ![t] = TapIdle]
          /\ UNCHANGED <<tapSent, tapPackets, tapMishaps>>
  /\ UNCHANGED <<tapHeld, tap, tapIrps, tapRead, tapReads, tapSession, tapHandle, tapCancel,
                 tapClose, tapHalt>>

(* One read and one packet are taken together, while there are both. *)
Paired == IS_UP /\ tapPackets # <<>> /\ tapIrps # <<>>

SendPairs(t) ==
  /\ tapSender[t].at = "pairs"
  /\ IF Paired
     THEN LET r == Head(tapIrps) IN
          /\ tapIrps' = Tail(tapIrps) /\ tapPackets' = Tail(tapPackets)
          /\ tapRead' = [tapRead EXCEPT ![r].at = "popped", ![r].packet = Head(tapPackets)]
          /\ tapSender' = [tapSender EXCEPT ![t].at = "completes", ![t].read = r]
          /\ UNCHANGED tapMishaps
     ELSE /\ tapSender' = [tapSender EXCEPT ![t] = TapIdle]
          /\ tapMishaps' = IF IS_UP THEN tapMishaps \ {"beside"}
                           ELSE tapMishaps \union {m \in {"beside"} : tapPackets # <<>>}
          /\ UNCHANGED <<tapQueues, tapRead>>
  /\ UNCHANGED <<tapHeld, tap, tapReads, tapSession, tapSent, tapHandle, tapCancel, tapClose,
                 tapHalt>>

(* CompleteIRP, without the lock. *)
SendCompletes(t) ==
  /\ tapSender[t].at = "completes"
  /\ tapRead' = [tapRead EXCEPT ![tapSender[t].read] = Ended(@)]
  /\ tapSender' = [tapSender EXCEPT ![t].at = "pairs", ![t].read = 0]
  /\ UNCHANGED <<tapHeld, tap, tapQueues, tapReads, tapSession, tapSent, tapHandle, tapCancel,
                 tapClose, tapHalt, tapMishaps>>

-----------------------------------------------------------------------------
(* IoCancelIrp takes the cancel routine and calls it with the cancel spin lock held.  The
   reads are cancelled by the thread that issued them, as it ends. *)
CancelStarts(r) ==
  /\ tapCancel = 0 /\ tapRead[r].routine /\ tapCancel' = r
  /\ tapRead' = [tapRead EXCEPT ![r].routine = FALSE]
  /\ UNCHANGED <<tapHeld, tap, tapQueues, tapReads, tapSession, tapSent, tapHandle, tapSender,
                 tapClose, tapHalt, tapMishaps>>

(* What is left in the queue moves up. *)
QueueExtract(q, item) ==
  LET kept[i \in 0..Len(q)] ==
        IF i = 0 THEN <<>> ELSE IF q[i] = item THEN kept[i - 1] ELSE Append(kept[i - 1], q[i])
  IN kept[Len(q)]

(* CancelIRPCallback.  The lookup of the adapter fails when it is gone, and when another
   thread is in the lookup just then; the read is then completed wherever it is. *)
CancelRuns ==
  /\ tapCancel # 0 /\ tapCancel' = 0
  /\ \E found \in BOOLEAN :
       /\ found => "instance" \in tapHeld
       /\ tapIrps' = IF found THEN QueueExtract(tapIrps, tapCancel) ELSE tapIrps
       /\ tapRead' = IF ~found \/ tapCancel \in ToSet(tapIrps)
                     THEN [tapRead EXCEPT ![tapCancel] = Ended(@)] ELSE tapRead
       /\ tapMishaps' = tapMishaps \union {m \in {"lookup"} : ~found}
  /\ UNCHANGED <<tapHeld, tap, tapPackets, tapReads, tapSession, tapSent, tapHandle, tapSender,
                 tapClose, tapHalt>>

(* FlushQueues: the reads are cancelled, then the packets freed. *)
Flushes(stage, next) ==
  \/ /\ stage = "irps" /\ tapIrps # <<>>
     /\ tapRead' = [tapRead EXCEPT ![Head(tapIrps)] = Ended(@)]
     /\ tapIrps' = Tail(tapIrps) /\ next = "irps" /\ UNCHANGED tapPackets
  \/ stage = "irps" /\ tapIrps = <<>> /\ next = "packets" /\ UNCHANGED <<tapQueues, tapRead>>
  \/ /\ stage = "packets" /\ tapPackets # <<>>
     /\ tapPackets' = Tail(tapPackets) /\ next = "packets" /\ UNCHANGED <<tapIrps, tapRead>>
  \/ stage = "packets" /\ tapPackets = <<>> /\ next = "flushed" /\ UNCHANGED <<tapQueues, tapRead>>

CloseFlushes ==
  /\ tapClose' \in {"irps", "packets", "flushed"} /\ Flushes(tapClose, tapClose')
  /\ UNCHANGED <<tapHeld, tap, tapReads, tapSession, tapSent, tapHandle, tapSender, tapCancel,
                 tapHalt, tapMishaps>>
HaltFlushes ==
  /\ tapHalt' \in {"irps", "packets", "flushed"} /\ Flushes(tapHalt, tapHalt')
  /\ UNCHANGED <<tapHeld, tap, tapReads, tapSession, tapSent, tapHandle, tapSender, tapCancel,
                 tapClose, tapMishaps>>

-----------------------------------------------------------------------------
(* OID_PNP_SET_POWER: the interface goes down and comes up; the queues stay as they are. *)
TapPower ==
  /\ tapHalt = "no" /\ tap' = [tap EXCEPT !.interface = ~@]
  /\ UNCHANGED <<tapHeld, tapQueues, tapRead, tapReads, tapSession, tapSent, tapHandle,
                 tapSender, tapCancel, tapClose, tapHalt, tapMishaps>>

(* AdapterHalt, DestroyTapDevice *)
HaltMarks ==
  /\ tapHalt = "no" /\ tapHalt' = "irps"
  /\ tap' = [tap EXCEPT !.interface = FALSE, !.running = FALSE, !.opens = FALSE, !.halt = TRUE]
  /\ UNCHANGED <<tapHeld, tapQueues, tapRead, tapReads, tapSession, tapSent, tapHandle,
                 tapSender, tapCancel, tapClose, tapMishaps>>

(* It sleeps, so that the calls that have begun can end, and frees the queues. *)
TapInside ==
  \/ \E t \in TapSender : tapSender[t] # TapIdle
  \/ tapClose # "no" \/ \E r \in 1..tapReads : tapRead[r].at = "reading"
  \/ tapCancel # 0
HaltFrees ==
  /\ tapHalt = "flushed" /\ tapHalt' = "freed"
  /\ tapHeld' = tapHeld \ (TapDeviceFreeResources \union AdapterFreeResources)
  /\ tapMishaps' = tapMishaps \union {m \in {"late call"} : TapInside}
  /\ UNCHANGED <<tap, tapQueues, tapRead, tapReads, tapSession, tapSent, tapHandle, tapSender,
                 tapCancel, tapClose>>

HaltRemoves ==
  /\ tapHalt = "freed" /\ tapHalt' = "gone"
  /\ tapHeld' = tapHeld \ {"instance", "adapter"}
  /\ UNCHANGED <<tap, tapQueues, tapRead, tapReads, tapSession, tapSent, tapHandle, tapSender,
                 tapCancel, tapClose, tapMishaps>>

(* What a call does after the queues were freed under it, and what a read that is completed
   twice does, is undefined: behaviours end. *)
TapNext ==
  /\ "late call" \notin tapMishaps /\ \A r \in 1..tapReads : tapRead[r].ended <= 1
  /\ \/ TapCreate \/ (\E i \in DOMAIN TapSteps : TapCreateFails(i))
     \/ TapOpen \/ TapConnects \/ TapCloseHandle \/ TapCloses \/ TapCloseEnds \/ CloseFlushes
     \/ ReadServes \/ CancelRuns \/ \E r \in 1..tapReads : ReadPends(r) \/ CancelStarts(r)
     \/ \E t \in TapSender : SendChecks(t) \/ SendPushes(t) \/ SendPairs(t) \/ SendCompletes(t)
     \/ TapPower \/ HaltMarks \/ HaltFlushes \/ HaltFrees \/ HaltRemoves

TapSpec == TapInit /\ [][TapNext]_tapVars

-----------------------------------------------------------------------------
TapTypeOK ==
  /\ tapHeld \subseteq ToSet(TapSteps)
  /\ tap \in [interface : BOOLEAN, running : BOOLEAN, opens : BOOLEAN, media : BOOLEAN,
              always : BOOLEAN, halt : BOOLEAN]
  /\ Len(tapPackets) <= PacketQueueSize /\ Len(tapIrps) <= IrpQueueSize
  /\ \A r \in 1..MaxReads :
       /\ tapRead[r].at \in {"new", "reading", "queued", "popped", "done"}
       /\ tapRead[r].routine \in BOOLEAN /\ tapRead[r].ended \in Nat
  /\ tapHandle \in {"none", "open", "closing"} /\ tapCancel \in 0..MaxReads
  /\ \A t \in TapSender : tapSender[t].at \in {"idle", "checked", "pairs", "completes"}
  /\ tapClose \in {"no", "irps", "packets", "flushed"}
  /\ tapHalt \in {"not created", "failed", "no", "irps", "packets", "flushed", "freed", "gone"}
  /\ tapMishaps \subseteq {"beside", "late packet", "lookup", "late call"}

(* Whatever is cancelled, closed, halted or loses its power in whatever order: no read is
   ended twice, and one that is over is in the queue no more, unless a cancellation did not
   find its adapter (LookupAdapterInInstanceList); the reads get the packets in the order
   they were sent; no read waits beside a packet, unless the packet came between the two
   sections of the read, or the power went before it was paired; a process gets no packet
   that was sent to the one before it, unless it was on its way when that one closed; the
   device is taken exactly while a process has it; and a card that is halted leaves no
   read and no packet behind, nor memory, while a failing create leaves the adapter's. *)
TapExact ==
  /\ "lookup" \notin tapMishaps => \A r \in 1..MaxReads :
       /\ tapRead[r].ended <= 1
       /\ tapRead[r].at = "queued" <=> r \in ToSet(tapIrps)
       /\ tapRead[r].ended = 1 <=> tapRead[r].at = "done"
  /\ \A r, s \in 1..MaxReads :
       r < s /\ tapRead[r].packet # NoPacket /\ tapRead[s].packet # NoPacket =>
         tapRead[r].packet.no < tapRead[s].packet.no
  /\ Paired /\ "beside" \notin tapMishaps =>
       \E t \in TapSender : tapSender[t].at \in {"pairs", "completes"}
  /\ "late packet" \notin tapMishaps => \A r \in 1..MaxReads :
       tapRead[r].packet.no > 0 => tapRead[r].packet.session = tapRead[r].session
  /\ ~tap.halt => (tap.opens <=> tapHandle # "none")
  /\ ~tap.opens /\ tapClose = "no" /\ ~tap.halt => (tap.media => tap.always)
  /\ tapHalt \in {"flushed", "freed", "gone"} => tapIrps = <<>> /\ tapPackets = <<>>
  /\ tapHalt = "gone" => tapHeld = {}
  /\ tapHalt = "failed" => tapHeld \subseteq {"adapter"}
=============================================================================
