---------------------------- MODULE ScsiDevices ----------------------------
(***************************************************************************)
(* The SCSI devices of the guests: the host file a guest opens, sizes and  *)
(* closes through CO_DEVICE_SCSI, and the reads and writes that a worker   *)
(* thread carries out from a queue all monitors share.                     *)
(*                                                                         *)
(* Sources: kernel/scsi.c, os/winnt/kernel/scsi.c.  One device per         *)
(* monitor, at unit 0; the guest asks as its driver in                     *)
(* patch/scsi-core.diff does.  GET_CONFIG, SIZE and PASS keep no state and *)
(* are left out.  The queue has no lock: its index and its in_use flags    *)
(* are loads and stores of each monitor's RUN thread here.                 *)
(***************************************************************************)
EXTENDS Integers, FiniteSets, FiniteSetsExt

CONSTANTS
  ScsiMonitor,     (* the monitors                                          *)
  Resized,         (* those whose configuration gives the file a size       *)
  Shared,          (* those whose file is opened for sharing                *)
  QueueSize,       (* IO_QUEUE_SIZE                                         *)
  ScsiTag,         (* bound: the commands of a guest in flight              *)
  MaxScsiResets    (* bound: none resets after so many                        *)

ASSUME ScsiAssumption ==
  /\ Resized \subseteq ScsiMonitor /\ Shared \subseteq ScsiMonitor
  /\ QueueSize \in Nat \ {0} /\ MaxScsiResets \in Nat /\ "none" \notin ScsiMonitor

VARIABLES
  scsiFile,        (* per monitor: os_handle is set, the handles open on the
                      file, and whether it still has to be resized          *)
  scsiGuest,       (* the guest's driver: has a handle, commands it waits for *)
  scsiThread,      (* each RUN thread: where it is in scsi_file_io, its slot *)
  nextEntry,       (* next_entry                                            *)
  ioQueue,         (* io_queue, with the entries just past its end          *)
  scsiWork,        (* the work items: their slot and whether they run       *)
  scsiResets, scsiAlive,
  scsiMishaps      (* history: what went wrong                              *)

scsiVars == <<scsiFile, scsiGuest, scsiThread, nextEntry, ioQueue, scsiWork, scsiResets,
              scsiAlive, scsiMishaps>>

Entry     == 0..QueueSize           \* bound: one past the end
ScsiIdle  == [at |-> "idle", slot |-> 0, tag |-> "none"]
FreeEntry == [in_use |-> FALSE, mp |-> "none", guest |-> 0, tag |-> "none"]
NewFile(m) == [handle |-> FALSE, open |-> 0, resize |-> m \in Resized]
NewScsiGuest == [handle |-> FALSE, waits |-> {}]

ScsiInit ==
  /\ scsiFile   = [m \in ScsiMonitor |-> NewFile(m)]
  /\ scsiGuest  = [m \in ScsiMonitor |-> NewScsiGuest]
  /\ scsiThread = [m \in ScsiMonitor |-> ScsiIdle]
  /\ nextEntry  = 0
  /\ ioQueue    = [s \in Entry |-> FreeEntry]
  /\ scsiWork   = {}
  /\ scsiResets = [m \in ScsiMonitor |-> 0] /\ scsiAlive = ScsiMonitor
  /\ scsiMishaps = {}

Running(m) == m \in scsiAlive /\ scsiThread[m].at = "idle"

-----------------------------------------------------------------------------
(* CO_SCSI_OPEN, which the guest sends while it has no handle.  ZwCreateFile fails, or
   another handle excludes it.  A file with a size is extended, closed and opened again: one
   that cannot be extended stays open although the guest is told that it failed, and one
   that cannot be opened again leaves a handle that is not open any more. *)

MaxOpen == 2       \* bound: handles open on one file

ScsiOpen(m) ==
  /\ Running(m) /\ ~scsiGuest[m].handle
  /\ \/ UNCHANGED <<scsiFile, scsiGuest, scsiMishaps>>
     \/ /\ scsiFile[m].open = 0 \/ m \in Shared
        /\ scsiFile[m].open < MaxOpen
        /\ \/ /\ scsiFile' = [scsiFile EXCEPT ![m] = [handle |-> TRUE, open |-> @.open + 1,
                                                      resize |-> FALSE]]
              /\ scsiGuest' = [scsiGuest EXCEPT ![m].handle = TRUE]
              /\ UNCHANGED scsiMishaps
           \/ /\ scsiFile[m].resize
              /\ scsiFile' = [scsiFile EXCEPT ![m].handle = TRUE, ![m].open = @ + 1]
              /\ scsiMishaps' = scsiMishaps \union {<<m, "not resized">>}
              /\ UNCHANGED scsiGuest
           \/ /\ scsiFile[m].resize
              /\ scsiFile' = [scsiFile EXCEPT ![m].handle = TRUE, ![m].resize = FALSE]
              /\ scsiMishaps' = scsiMishaps \union {<<m, "not reopened">>}
              /\ UNCHANGED scsiGuest
  /\ UNCHANGED <<scsiThread, nextEntry, ioQueue, scsiWork, scsiResets, scsiAlive>>

(* ZwClose fails for a handle that is not open: only one it closes is forgotten. *)
scsi_file_close_Forgets(f) == [f EXCEPT !.handle = FALSE]
scsi_file_close(f) ==
  IF f.handle /\ f.open > 0 THEN [f EXCEPT !.handle = FALSE, !.open = @ - 1] ELSE f

(* The guest forgets its handle in any case. *)
ScsiClose(m) ==
  /\ Running(m) /\ scsiGuest[m].handle
  /\ scsiFile' = [scsiFile EXCEPT ![m] = scsi_file_close(@)]
  /\ scsiGuest' = [scsiGuest EXCEPT ![m].handle = FALSE]
  /\ UNCHANGED <<scsiThread, nextEntry, ioQueue, scsiWork, scsiResets, scsiAlive, scsiMishaps>>

-----------------------------------------------------------------------------
(* CO_SCSI_IO: get_next_entry, one load or store at a time. *)

ScsiIO(m, tag) ==
  /\ Running(m) /\ scsiGuest[m].handle /\ tag \notin scsiGuest[m].waits
  /\ nextEntry \in Entry
  /\ scsiThread' = [scsiThread EXCEPT ![m] = [at |-> "increment", slot |-> nextEntry, tag |-> tag]]
  /\ UNCHANGED <<scsiFile, scsiGuest, nextEntry, ioQueue, scsiWork, scsiResets, scsiAlive,
                 scsiMishaps>>

Increment(m) ==
  /\ scsiThread[m].at = "increment"
  /\ nextEntry' = scsiThread[m].slot + 1
  /\ scsiThread' = [scsiThread EXCEPT ![m].at = "wrap"]
  /\ UNCHANGED <<scsiFile, scsiGuest, ioQueue, scsiWork, scsiResets, scsiAlive, scsiMishaps>>

(* An index another thread has not yet wrapped is past the end of the queue, where in_use
   is whatever lies there. *)
Wrap(m) ==
  /\ scsiThread[m].at = "wrap"
  /\ nextEntry' = IF nextEntry >= QueueSize THEN 0 ELSE nextEntry
  /\ LET s == scsiThread[m].slot IN
     /\ \E in_use \in IF s < QueueSize THEN {ioQueue[s].in_use} ELSE BOOLEAN :
          scsiThread' = [scsiThread EXCEPT ![m].at = IF in_use THEN "scan" ELSE "claim"]
     /\ scsiMishaps' = IF s < QueueSize THEN scsiMishaps
                       ELSE scsiMishaps \union {<<m, "beyond the queue">>}
  /\ UNCHANGED <<scsiFile, scsiGuest, ioQueue, scsiWork, scsiResets, scsiAlive>>

(* The first free entry; while there is none the thread sleeps and looks again. *)
Scannable == {s \in 0..(QueueSize - 1) : ~ioQueue[s].in_use}

Scan(m) ==
  /\ scsiThread[m].at = "scan" /\ Scannable # {}
  /\ scsiThread' = [scsiThread EXCEPT ![m].at = "claim",
                                      ![m].slot = Min(Scannable)]
  /\ UNCHANGED <<scsiFile, scsiGuest, nextEntry, ioQueue, scsiWork, scsiResets, scsiAlive,
                 scsiMishaps>>

(* The entry that was seen to be free is taken, filled and queued for a worker thread. *)
ClaimAndQueue(m) ==
  /\ scsiThread[m].at = "claim"
  /\ LET s == scsiThread[m].slot IN
     /\ ioQueue' = [ioQueue EXCEPT ![s] = [in_use |-> TRUE, mp |-> m, guest |-> scsiResets[m],
                                           tag |-> scsiThread[m].tag]]
     /\ scsiMishaps' = IF ioQueue[s].in_use
                       THEN scsiMishaps \union {<<m, "same entry">>, <<ioQueue[s].mp, "same entry">>}
                       ELSE scsiMishaps
     /\ scsiWork' = scsiWork \union {s}
  /\ scsiGuest' = [scsiGuest EXCEPT ![m].waits = @ \union {scsiThread[m].tag}]
  /\ scsiThread' = [scsiThread EXCEPT ![m] = ScsiIdle]
  /\ UNCHANGED <<scsiFile, nextEntry, scsiResets, scsiAlive>>

(* _scsi_dio in the worker thread: the transfer through the device's handle and the memory
   of the guest that is there now, the interrupt, and the entry is free again. *)
WorkDone(s) ==
  /\ s \in scsiWork
  /\ LET r == ioQueue[s] IN
     /\ scsiMishaps' = scsiMishaps \union
          (IF r.mp \in ScsiMonitor /\ r.mp \notin scsiAlive THEN {<<r.mp, "freed monitor">>}
           ELSE IF r.mp \in ScsiMonitor /\ r.guest # scsiResets[r.mp] THEN {<<r.mp, "next guest">>}
           ELSE {})
     /\ scsiGuest' = IF r.mp \in ScsiMonitor /\ r.guest = scsiResets[r.mp]
                     THEN [scsiGuest EXCEPT ![r.mp].waits = @ \ {r.tag}] ELSE scsiGuest
     /\ ioQueue' = [ioQueue EXCEPT ![s] = FreeEntry]
  /\ scsiWork' = scsiWork \ {s}
  /\ UNCHANGED <<scsiFile, scsiThread, nextEntry, scsiResets, scsiAlive>>

-----------------------------------------------------------------------------
(* co_monitor_unregister_and_free_scsi_devices, at RESET and when the monitor goes. *)

Unregistered(m) ==
  LET f == scsiFile[m] IN
  [NewFile(m) EXCEPT !.open = scsi_file_close(f).open, !.resize = f.resize]

ScsiReset(m) ==
  /\ Running(m) /\ \A n \in ScsiMonitor : scsiResets[n] < MaxScsiResets
  /\ scsiFile'   = [scsiFile EXCEPT ![m] = Unregistered(m)]
  /\ scsiGuest'  = [scsiGuest EXCEPT ![m] = NewScsiGuest]
  /\ scsiResets' = [scsiResets EXCEPT ![m] = @ + 1]
  /\ UNCHANGED <<scsiThread, nextEntry, ioQueue, scsiWork, scsiAlive, scsiMishaps>>

ScsiDestroy(m) ==
  /\ Running(m)
  /\ scsiFile'  = [scsiFile EXCEPT ![m] = Unregistered(m)]
  /\ scsiGuest' = [scsiGuest EXCEPT ![m] = NewScsiGuest]
  /\ scsiAlive' = scsiAlive \ {m}
  /\ UNCHANGED <<scsiThread, nextEntry, ioQueue, scsiWork, scsiResets, scsiMishaps>>

ScsiNext ==
  \/ \E m \in ScsiMonitor :
       \/ ScsiOpen(m) \/ ScsiClose(m) \/ ScsiReset(m) \/ ScsiDestroy(m)
       \/ (\E tag \in ScsiTag : ScsiIO(m, tag))
       \/ Increment(m) \/ Wrap(m) \/ Scan(m) \/ ClaimAndQueue(m)
  \/ \E s \in Entry : WorkDone(s)

ScsiSpec == ScsiInit /\ [][ScsiNext]_scsiVars

-----------------------------------------------------------------------------
ScsiTypeOK ==
  /\ scsiFile \in [ScsiMonitor -> [handle : BOOLEAN, open : 0..MaxOpen, resize : BOOLEAN]]
  /\ \A m \in ScsiMonitor :
       /\ scsiGuest[m].handle \in BOOLEAN /\ scsiGuest[m].waits \subseteq ScsiTag
       /\ scsiThread[m].at \in {"idle", "increment", "wrap", "scan", "claim"}
       /\ scsiThread[m].slot \in Entry
  /\ nextEntry \in 0..(QueueSize + 1) /\ scsiWork \subseteq Entry
  /\ \A s \in scsiWork : ioQueue[s].in_use
  /\ scsiResets \in [ScsiMonitor -> 0..MaxScsiResets] /\ scsiAlive \subseteq ScsiMonitor

Unhurt(m, what) == \A w \in what : <<m, w>> \notin scsiMishaps

(* A command that a guest was told is accepted has one entry of the queue and one answer to
   come, unless two threads took the same entry; a full queue delays a command and loses
   none.  And the file's one handle is the one the guest was given, over every reboot,
   until an open that failed half way leaves a handle the guest knows nothing of
   (get_next_entry, _scsi_dio, scsi_file_open, scsi_file_close). *)
ScsiExact == \A m \in ScsiMonitor :
  /\ Unhurt(m, {"same entry", "beyond the queue"}) /\ m \in scsiAlive =>
       \A tag \in ScsiTag :
         Cardinality({s \in scsiWork : ioQueue[s].mp = m /\ ioQueue[s].tag = tag
                                         /\ ioQueue[s].guest = scsiResets[m]})
           = IF tag \in scsiGuest[m].waits THEN 1 ELSE 0
  /\ Unhurt(m, {"not resized", "not reopened"}) =>
       /\ scsiFile[m].handle <=> scsiGuest[m].handle
       /\ scsiFile[m].open = IF scsiFile[m].handle THEN 1 ELSE 0
=============================================================================
