---------------------------- MODULE BlockDevices ----------------------------
(***************************************************************************)
(* The block devices of the guests: what a guest's driver asks for through *)
(* CO_DEVICE_BLOCK, the use count and the file behind it, asynchronous     *)
(* reads and writes with their completions, and what RESET and the         *)
(* destruction of the monitor do to a device in use.                       *)
(*                                                                         *)
(* Sources: kernel/block.c, kernel/fileblock.c, os/winnt/kernel/block.c,   *)
(* kernel/monitor.c (free_file_blockdevice).  One device per monitor; the  *)
(* guest asks as its driver in patch/cobd-core.diff does: STAT before the  *)
(* first OPEN, and a count of its own.  Completions reach the guest        *)
(* through the queue of module LinuxMessages; here they arrive at once.    *)
(***************************************************************************)
EXTENDS Integers, FiniteSets, FiniteSetsExt

CONSTANTS
  BlkMonitor,      (* the monitors                                          *)
  AsyncEnabled,    (* those with config.cobd_async_enable                   *)
  MaxUse,          (* bound: opens of one device                            *)
  Tag,             (* bound: the requests of a guest that can be in flight  *)
  MaxResets,       (* bound: none resets after so many                        *)
  ProbeMin, ProbeMax, MaxBit       (* test_buffer_size, the bits of a size  *)

ASSUME BlockAssumption ==
  /\ 0 \notin Tag
  /\ AsyncEnabled \subseteq BlkMonitor /\ MaxUse \in Nat /\ MaxResets \in Nat
  /\ ProbeMin \in Nat \ {0} /\ ProbeMax \in Nat /\ ProbeMin < ProbeMax /\ MaxBit \in Nat

VARIABLES
  device,          (* use_count, the file's state and whether sysdep is set *)
  blockRc,         (* the static rc of co_monitor_block_request             *)
  asked,           (* the request each RUN thread serves: type and own rc   *)
  guest,           (* the guest driver: count, STAT done, requests waited for *)
  flight,          (* the I/O in flight: tag and the guest it was for       *)
  resets,          (* bound: resets so far, which numbers the guests        *)
  alive,           (* the monitors that are not freed                       *)
  (* history: the monitors told another one's rc, and the guests and freed monitors
     that completions came too late for *)
  wrongRc, late

blockVars == <<device, blockRc, asked, guest, flight, resets, alive, wrongRc, late>>

NoRequest  == [type |-> "none", rc |-> "none", async |-> FALSE, tag |-> 0]
NewDevice  == [use_count |-> 0, state |-> "CLOSED", sysdep |-> FALSE]
NewGuest   == [refcount |-> 0, stat |-> FALSE, waits |-> {}]

BlockInit ==
  /\ device = [m \in BlkMonitor |-> NewDevice]
  /\ blockRc = "OK"
  /\ asked  = [m \in BlkMonitor |-> NoRequest]
  /\ guest  = [m \in BlkMonitor |-> NewGuest]
  /\ flight = [m \in BlkMonitor |-> {}]
  /\ resets = [m \in BlkMonitor |-> 0]
  /\ alive  = BlkMonitor
  /\ wrongRc = {} /\ late = {}

-----------------------------------------------------------------------------
(* The size of a device, for STAT.  A device answers the standard query, the length ioctl
   or neither; a disk that answers neither is probed.  A read succeeds within the device
   and, on a disk, at a multiple of its sector. *)

probe_area(disk, offset, length) ==
  /\ offset + length <= disk.size
  /\ offset % disk.sector = 0 /\ length % disk.sector = 0

scan_bit[i \in 0..MaxBit] == IF i = 0 THEN 1 ELSE 2 * scan_bit[i - 1]

test_buffer_sizes == {n \in {ProbeMin * scan_bit[i] : i \in 0..MaxBit} : n <= ProbeMax}

detect_size_binary_search(disk) ==
  LET good    == {n \in test_buffer_sizes : probe_area(disk, 0, n)}
      length  == Min(good)
      top     == Min({i \in 0..MaxBit : ~probe_area(disk, scan_bit[i], length)})
      build_size[i \in 0..top] ==
        IF i = top THEN 0
        ELSE LET with_bit == build_size[i + 1] + scan_bit[i]
             IN IF probe_area(disk, with_bit, length) THEN with_bit ELSE build_size[i + 1]
  IN IF good = {} \/ length >= ProbeMax THEN "ERROR" ELSE build_size[0] + length

co_os_file_get_size(disk) ==
  IF disk.answers \in {"standard", "length"} THEN disk.size ELSE detect_size_binary_search(disk)

-----------------------------------------------------------------------------
(* The guest's driver makes a request. *)

Asks(m, type) ==
  /\ m \in alive /\ asked[m].type = "none"
  /\ asked' = [asked EXCEPT ![m] = [NoRequest EXCEPT !.type = type]]
  /\ UNCHANGED <<device, blockRc, guest, flight, resets, alive, wrongRc, late>>

AsksStat(m)  == guest[m].refcount = 0 /\ ~guest[m].stat /\ Asks(m, "STAT")
AsksOpen(m)  == /\ guest[m].refcount > 0 \/ guest[m].stat
                /\ guest[m].refcount < MaxUse /\ device[m].use_count < MaxUse
                /\ Asks(m, "OPEN")
AsksClose(m) == guest[m].refcount > 0 /\ Asks(m, "CLOSE")
AsksIO(m)    == guest[m].refcount > 0 /\ Asks(m, "IO")

(* intern_monitor_block_request with the service of a file block device, up to the static
   rc.  An answer to the guest is stored there, and then read. *)
AnsweredIO(m, rc, async, tag) ==
  /\ blockRc' = rc
  /\ asked' = [asked EXCEPT ![m] = [@ EXCEPT !.rc = rc, !.async = async, !.tag = tag]]
Answered(m, rc) == AnsweredIO(m, rc, FALSE, 0)

Unserved(m, type) == asked[m].type = type /\ asked[m].rc = "none"

ServeStat(m) ==
  /\ Unserved(m, "STAT")
  /\ \E rc \in {"OK", "ERROR"} :
       /\ rc = "OK" => device[m].state = "CLOSED" /\ ~device[m].sysdep
       /\ Answered(m, rc)
  /\ UNCHANGED <<device, guest, flight, resets, alive, wrongRc, late>>

ServeOpen(m) ==
  /\ Unserved(m, "OPEN")
  /\ \/ /\ device[m].use_count >= 1
        /\ device' = [device EXCEPT ![m].use_count = @ + 1] /\ Answered(m, "OK")
     \/ /\ device[m].use_count = 0 /\ device[m].state = "CLOSED"
        /\ device' = [device EXCEPT ![m] = [use_count |-> 1, state |-> "OPENED", sysdep |-> TRUE]]
        /\ Answered(m, "OK")
     \/ (* the file is open already, or cannot be opened *)
        /\ device[m].use_count = 0
        /\ UNCHANGED device /\ Answered(m, "ERROR")
  /\ UNCHANGED <<guest, flight, resets, alive, wrongRc, late>>

(* The closes that only count. *)
OnlyCounts_LastToo(count) == count >= 1
OnlyCounts(count) == count > 1

ServeClose(m) ==
  /\ Unserved(m, "CLOSE")
  /\ LET count == device[m].use_count IN
     IF count = 0 THEN UNCHANGED device /\ Answered(m, "ERROR")
     ELSE IF OnlyCounts(count)
     THEN device' = [device EXCEPT ![m].use_count = @ - 1] /\ Answered(m, "OK")
     ELSE IF device[m].state = "OPENED"
     THEN device' = [device EXCEPT ![m] = NewDevice] /\ Answered(m, "OK")
     ELSE UNCHANGED device /\ Answered(m, "ERROR")
  /\ UNCHANGED <<guest, flight, resets, alive, wrongRc, late>>

(* A read or write: synchronous, done or failed; asynchronous, with a completion to come
   when the system calls it pending or successful, and none when it refuses it.  The
   request is marked async in either case. *)
Accepted == {"SUCCESS", "PENDING"}

ServeIO(m) ==
  /\ Unserved(m, "IO")
  /\ IF device[m].state # "OPENED" THEN Answered(m, "ERROR") /\ UNCHANGED flight
     ELSE IF m \in AsyncEnabled
     THEN \/ \E status \in {"SUCCESS", "PENDING"}, tag \in Tag :
               /\ \A io \in flight[m] : io.tag # tag
               /\ flight' = [flight EXCEPT ![m] = @ \union {[tag |-> tag, guest |-> resets[m]]}]
               /\ AnsweredIO(m, IF status \in Accepted THEN "OK" ELSE "ERROR", TRUE, tag)
          \/ AnsweredIO(m, "ERROR", TRUE, 0) /\ UNCHANGED flight
     ELSE (\E rc \in {"OK", "ERROR"} : Answered(m, rc)) /\ UNCHANGED flight
  /\ UNCHANGED <<device, guest, resets, alive, wrongRc, late>>

(* co_monitor_block_request reads its static rc back, which every monitor's RUN thread
   writes; the guest's driver acts on what it is told.  A CLOSE counts down in any case;
   a request that was refused but seems accepted is waited for in vain (tag 0). *)
Report(m) ==
  /\ asked[m].rc # "none"
  /\ asked' = [asked EXCEPT ![m] = NoRequest]
  /\ wrongRc' = IF blockRc # asked[m].rc THEN wrongRc \union {m} ELSE wrongRc
  /\ LET type == asked[m].type
         ok   == blockRc = "OK"
     IN guest' = [guest EXCEPT ![m] =
          CASE type = "STAT"          -> [@ EXCEPT !.stat = ok]
            [] type = "OPEN"  /\ ok   -> [@ EXCEPT !.refcount = @ + 1, !.stat = FALSE]
            [] type = "OPEN"  /\ ~ok  -> [@ EXCEPT !.stat = FALSE]
            [] type = "CLOSE"         -> [@ EXCEPT !.refcount = @ - 1]
            [] type = "IO"            ->
                 IF ok /\ asked[m].async
                 THEN [@ EXCEPT !.waits = @ \union {asked[m].tag}] ELSE @]
  /\ UNCHANGED <<device, blockRc, flight, resets, alive, late>>

-----------------------------------------------------------------------------
(* The completion of an asynchronous request: the page is unmapped and the message goes to
   the monitor it was started for, with no reference to it.  It runs in the thread that
   started it, between two requests. *)
Completes(m, io) ==
  /\ io \in flight[m] /\ asked[m].type = "none"
  /\ flight' = [flight EXCEPT ![m] = @ \ {io}]
  /\ guest' = [guest EXCEPT ![m].waits = IF io.guest = resets[m] THEN @ \ {io.tag} ELSE @]
  /\ late' = late \union (IF m \notin alive THEN {"freed monitor"}
                          ELSE IF io.guest # resets[m] THEN {"next guest"} ELSE {})
  /\ UNCHANGED <<device, blockRc, asked, resets, alive, wrongRc>>

(* RESET frees the device, closing an open file, and loads it again for the next guest. *)
BlockReset(m) ==
  /\ m \in alive /\ asked[m].type = "none" /\ \A n \in BlkMonitor : resets[n] < MaxResets
  /\ device' = [device EXCEPT ![m] = NewDevice]
  /\ guest'  = [guest EXCEPT ![m] = NewGuest]
  /\ resets' = [resets EXCEPT ![m] = @ + 1]
  /\ wrongRc' = wrongRc \ {m}
  /\ UNCHANGED <<blockRc, asked, flight, alive, late>>

BlockDestroy(m) ==
  /\ m \in alive /\ asked[m].type = "none"
  /\ device' = [device EXCEPT ![m] = NewDevice]
  /\ guest'  = [guest EXCEPT ![m] = NewGuest]
  /\ alive'  = alive \ {m}
  /\ UNCHANGED <<blockRc, asked, flight, resets, wrongRc, late>>

BlockNext == \E m \in BlkMonitor :
  \/ AsksStat(m) \/ AsksOpen(m) \/ AsksClose(m) \/ AsksIO(m)
  \/ ServeStat(m) \/ ServeOpen(m) \/ ServeClose(m) \/ ServeIO(m) \/ Report(m)
  \/ (\E io \in flight[m] : Completes(m, io))
  \/ BlockReset(m) \/ BlockDestroy(m)

BlockSpec == BlockInit /\ [][BlockNext]_blockVars

-----------------------------------------------------------------------------
BlockTypeOK ==
  /\ device \in [BlkMonitor -> [use_count : 0..MaxUse, state : {"CLOSED", "OPENED"},
                                sysdep : BOOLEAN]]
  /\ blockRc \in {"OK", "ERROR"}
  /\ asked \in [BlkMonitor -> [type : {"none", "STAT", "OPEN", "CLOSE", "IO"},
                               rc : {"none", "OK", "ERROR"}, async : BOOLEAN, tag : Tag \union {0}]]
  /\ guest \in [BlkMonitor -> [refcount : 0..MaxUse, stat : BOOLEAN, waits : SUBSET (Tag \union {0})]]
  /\ \A m \in BlkMonitor : flight[m] \subseteq [tag : Tag, guest : 0..MaxResets]
  /\ resets \in [BlkMonitor -> 0..MaxResets]
  /\ alive \subseteq BlkMonitor /\ wrongRc \subseteq BlkMonitor

Settled(m) == m \in alive /\ asked[m].type = "none" /\ m \notin wrongRc

(* Between two requests the host's use count is the guest's, over every reboot, and the
   file is open exactly while it is used: unless a guest was told the answer of another
   monitor's request (the static rc). *)
BlockCountsAgree == \A m \in BlkMonitor : Settled(m) =>
  /\ device[m].use_count = guest[m].refcount
  /\ (device[m].state = "OPENED") <=> (device[m].use_count > 0)
  /\ device[m].sysdep <=> (device[m].state = "OPENED")

(* Probing finds the size of a device that can be read at any offset. *)
ProbedSizes == \A size \in ProbeMin..scan_bit[MaxBit] :
  co_os_file_get_size([answers |-> "none", size |-> size, sector |-> 1]) = size

(* "This *would* work in all cases" (block.c, the comment on the search): a guest whose STAT
   was answered was told the size of its device, whatever its sector, if there is a length to
   try that suits it.  It is not so: every power of two below the sector is refused like an
   offset behind the end, the search stops at the first bit, and a device that is read by
   sectors seems to have as many bytes as that length. *)
EveryDeviceSized == \A m \in BlkMonitor : guest[m].stat =>
  \A size \in ProbeMin..scan_bit[MaxBit], sector \in 1..ProbeMax :
    /\ size % sector = 0
    /\ \E n \in test_buffer_sizes : n < ProbeMax /\ n <= size /\ n % sector = 0
    => co_os_file_get_size([answers |-> "none", size |-> size, sector |-> sector]) = size

(* A guest waits for an interrupt exactly for its requests that are in flight: none is
   answered twice or never, and a completion comes too late only for a guest that was
   reset or a monitor that was freed with asynchronous I/O enabled; it then touches
   the next guest, or freed memory.  The static rc can break this, too. *)
BlockWaits ==
  /\ \A m \in BlkMonitor : Settled(m) =>
       guest[m].waits = {io.tag : io \in {x \in flight[m] : x.guest = resets[m]}}
  /\ AsyncEnabled = {} => late = {}

(* And the size that STAT answers for a device without a length is right when it can be
   read at any offset. *)
BlockAnswers == BlockWaits /\ ProbedSizes

(* What a guest and the driver know of a device agrees (BlockCountsAgree), and each of its
   requests is answered once (BlockAnswers), over every reboot and beside the requests of
   another monitor. *)
BlocksExact == BlockCountsAgree /\ BlockAnswers
=============================================================================
