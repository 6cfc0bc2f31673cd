# A TLA+ development of coLinux

coLinux runs a Linux kernel as a coroutine inside a Windows driver.  This directory
models the driver (`src/src/colinux/kernel`, `src/src/colinux/os/winnt/kernel`) and the
user processes that talk to it.  Paths below are relative to `src/src/colinux`.

## Inventory

| part | state it keeps | operations | interacts through |
|---|---|---|---|
| manager (`kernel/manager.c`) | list of open descriptors, list of monitors, `hostmem_used` | load, unload, open, close, send, ioctl CREATE / ATTACH / LIST / INFO / STATUS | `manager->lock`; called by the NT interface |
| open descriptor (`kernel/manager.c`, `os/winnt/kernel/manager.c`) | `active`, `ref_count`, `lock`, `monitor`, `out_queue`, one parked read IRP | open, read, cancel, send, end-of-file, cleanup, free | referenced by its handle, by `connected_modules`, by the parked IRP and by senders |
| NT interface (`os/winnt/kernel/interface.c`) | the IRP in flight | dispatch of CREATE, CLEANUP, CLOSE, READ, WRITE, DEVICE_CONTROL; cancel routine | the I/O manager's threads and its cancel spin lock |
| monitor (`kernel/monitor.c`) | `state`, `refcount`, `connected_modules`, message queue to the guest, timer, devices, page tables | create, load, start, run, reset, message, console, close | the owner's RUN ioctl is the guest's processor; others attach |
| messages to the guest (`kernel/monitor.c`, `common/queue.c`, `common/messages.c`) | `linux_message_queue`, `idle_wait`, `messages_waiting` in the passage page | message_from_user, callback_return_messages, idle, timer | any process and the drivers' completions produce; the RUN thread consumes |
| page pool, guest pages (`os/winnt/kernel/alloc.c`, `kernel/pages.c`, `kernel/reversedpfns.c`, `kernel/transfer.c`) | MDL buckets, `pp_pfns`, reversed pfns | get / put page, alloc / free pages, copy | `osdep->mutex`; guest requests |
| block devices (`kernel/block.c`, `kernel/fileblock.c`, `os/winnt/kernel/block.c`, `fileio.c`) | state and use count per unit, file handle | stat, open, close, read, write (synchronous and asynchronous) | guest requests; completion messages |
| SCSI, cofs, PCI, video | device tables, inode table | guest requests | guest requests |
| conet adapter (`os/winnt/kernel/conet.c`) | binding state per unit, packet pools | bind, unbind, inject, receive | NDIS callbacks, work items, the guest's messages |
| TAP driver (`os/winnt/kernel/tap-win32`) | packets and pending reads, each in a queue; open, halted, media connected | open, read, write, cancel, close, transmit, power, halt | the network daemon's handle, the host's network stack, the I/O manager |
| its DHCP server and ARP (same) | configured addresses, what it was asked, a frame on its way through it | ioctls, writes, transmit | the network daemon, the host's network stack |
| slirp daemon (`user/slirp`) | per connection: state, send and receive buffers, reassembly queue, timers; sockets of UDP ports and pings with their expiry; fragments; mbufs; DHCP leases | frames of the guest, select on the host's sockets, timeouts | the guest's messages, sockets of the host |
| debug log (`kernel/debug.c`) | sections, their buffers, the readers' position | write, read, fold, resize | any thread |
| passage (`arch/i386`) | page tables and processor state of both worlds | switch | the RUN thread |
| user daemon (`user/daemon.c`, `user/monitor.c`) | the monitor handle, child processes | create, load, start, run, restart, shut down | ioctls |
| reactor, network, serial and console processes | one overlapped read and write per handle | read, write, dispatch | ATTACH, READ, WRITE |

What is hard in it: threads of several processes and of the guest's processor meet in
one descriptor under four locks (`manager->lock`, `connected_modules_write_lock`,
`opened->lock`, the cancel spin lock) and in three places without any; processes die at
any moment; completions run in callbacks; several counters are kept by hand.  The
properties that make each part correct are the ones its hazards in `PROJECT.json` name.

### What makes each part correct

* Open descriptors: a reference is held exactly by the handle, the slots of monitors, the
  parked read and the threads inside; a descriptor is freed once and only then; messages
  come out once and in order; a parked read never waits beside a message; a dead process
  takes nobody with it.
* Messages to the guest: first in, first out through two buffers of different capacity;
  the RUN thread does not sleep over a message; nothing of a guest that was reset reaches
  the next one; the timer never outlives the monitor.
* Guest pages: one owner per frame; page table, reversed map and `pp_pfns` agree; every
  frame goes back; a bucket goes back to NT only when none of its frames is used.
* Monitor lifecycle: every failure of create, load and start undoes what went before it,
  a reset leaves what a fresh monitor would have, the account of promised memory is kept.
* Daemon: however its run loop ends, the guest is stopped, its monitor freed and its
  helpers closed; a stop ends it.
* Helper daemons: what the guest sends reaches the device once and in order; no thread
  uses an adapter that is closed; the guest does not wait for ever.
* Block devices and SCSI: a request completes once, to the guest that made it; opens and
  closes match across resets.
* conet adapter: no packet and no work item touches an adapter that is unbound, and none is
  left behind.
* cofs: an inode lives as long as the guest or a child refers to it, and both sides mean the
  same file by it.
* TAP driver: a read is answered once and gets the packets in order; a process gets none that
  was meant for the one before it; a halted card leaves nothing behind.
* The card's own answers: a lease tells what is configured now, a client is refused only for
  what it asked since the device was opened, and what is the server's does not reach the process.
* The driver and the programs: it is in memory while somebody uses it, a load that fails
  frees what it had, a removal that answers ok found no monitor, two guests do not get one
  address unknown to each other.
* A daemon as a service: the service manager is told how it stands with the service, and
  a stop it was told to take reaches the guest.
* Console: the process that is connected shows what the driver's shadow shows.
* Slirp: what one end of a connection sends reaches the other once and in order, and its
  end only after all of it, through lost, repeated and reordered segments and a full buffer.
* Slirp's datagrams: what a protocol or the guest gets is whole, whatever became of its
  fragments; an answer is shown as from whom the guest asked; a socket in use is kept; no
  mbuf is lost.
* Debug log: a section is neither freed in use nor forgotten although it is written, read,
  folded and resized by several threads.

## Modules

| module | what it is | checked by | proofs |
|---|---|---|---|
| `MessageChannel` | abstract: FIFO channels without loss or duplication, where a read waits only while nothing is pending | as a PROPERTY of the next two | - |
| `OpenDesc` | descriptors, their monitors, the threads inside the driver | `OpenDescRefs`, `OpenDescMessages`, `OpenDescLive`, `OpenDescDaemon`, `OpenDescRefcount` | `OpenDescProofs` |
| `LinuxMessages` | the queue to the guest, the RUN loop, the timer, block completions | `LinuxMessages`, `LinuxMessagesLive` | `LinuxMessagesProofs` |
| `GuestPages` | the page pool and the pages of the guests | `GuestPages`, `GuestPagesBuckets` | `GuestPagesProofs` |
| `MonitorLifecycle` | what a monitor takes and gives back, `hostmem_used` | in `Daemon` | `UserProcessesProofs` |
| `Daemon` | the process that owns a monitor, on top of `MonitorLifecycle` | in `UserProcesses` | `UserProcessesProofs` |
| `HelperDaemons` | network and serial daemons and their reactor | in `UserProcesses` | `UserProcessesProofs` |
| `UserProcesses` | composes the two | `MCHost` | - |
| `DebugLog` | sections, their buffers and reference counts | in `GuestDevices` | `GuestServicesProofs` |
| `ConetAdapter`, `BlockDevices`, `ScsiDevices` | the conet adapter, the block devices and the SCSI units | in `GuestDevices` | `GuestDevicesProofs` |
| `Console`, `TapDriver` | the text console, the TAP driver | in `GuestDevices` | `GuestServicesProofs` |
| `Cofs` | the file system | in `GuestDevices` | - |
| `SlirpTcp` | one connection between the guest and a socket of the host | in `GuestDevices` | - |
| `SlirpDatagrams` | the rest of slirp: fragments, UDP, pings, ARP, DHCP, mbufs | in `GuestDevices` | - |
| `Configuration` | the command line of a daemon | in `GuestDevices` | `GuestDevicesProofs` |
| `DriverControl` | the driver's installation, load, use and removal by several programs | in `GuestDevices` | `ProgramsProofs` |
| `ServiceControl` | a daemon that Windows runs as a service | in `GuestDevices` | `ProgramsProofs` |
| `Masquerade` | what a TAP card answers itself: point-to-point mode, ARP, DHCP | in `GuestDevices` | `ProgramsProofs` |
| `GuestDevices` | composes the parts above, from `DebugLog` on | `GuestDevices` | - |
| `MCOpenDesc`, `MCLinuxMessages`, `MCGuestPages` | symmetry sets for TLC | | |
| `MCHost`, `MCGuestDevices` | values of the function constants | | |

`OpenDesc` and `LinuxMessages` are the two directions of one conversation: the guest's
messages leave through `incoming_message` (`OpenDesc`), the processes' messages enter
through `manager_write` (`LinuxMessages`).  They share no state but the monitor, so they
are composed only through what they say about it: `MessageToMonitor` is the point where
`LinuxMessages` calls into `OpenDesc`, and it is one step there because the run thread
does nothing else until that call returns.

### OpenDesc

`OpenDesc` models descriptors, their monitors and the threads that run in the driver on
their behalf.  `Desc` is both the set of descriptors and of threads: the process that
opened a descriptor uses it with one thread.  `pc` says where that thread is inside the
driver.  A critical section is one action unless another thread can act inside it
without its lock; `lock` (opened->lock) and `write_lock` (connected_modules_write_lock)
are variables only because they are held across actions.

| code | actions |
|---|---|
| co_manager_open, IOCTL CREATE | `Open`, `Create` |
| IOCTL ATTACH | `AttachFind` (manager->lock), `AttachLock`, `AttachEvict`, `AttachSlot`, `AttachUnlock` (write lock) |
| manager_read | `ReadCheck` (unlocked test of active), then `ReadDrain`, `ReadBusy` or `ReadPark` |
| manager_irp_cancel | `Cancel`, `DropRef` |
| incoming_message, co_manager_send, try_send_direct | `Message`, `SendQueue` or `SendSeeIrp`, `SendTake` / `SendStale`, `SendResume`, `DropRef` |
| deactive_and_close | `Cleanup`, `CleanupLock`, `CleanupSlot`, `CleanupUnlock`, `CleanupClose` |
| co_manager_close_ | `CloseDesc`, the refdown actions, `FreeDesc` |
| CO_MONITOR_IOCTL_CLOSE, co_monitor_refdown | `IoctlClose`, `Unlist`, `EndLock`, `EofMark`, `EofTake` / `EofStale`, `EofDrop`, `EndSlot`, `EndUnlock`, `RefdownLoad`, `RefdownStore` |

Messages are numbered per descriptor, IRPs too; `sent`, `got`, `reads`, `taker`, `stale`
and `ended` are history.  `try_send_direct` and `userspace_eof` load the parked IRP
before they take the cancel spin lock; if the IRP is completed in that window the code
completes it a second time, which is undefined in NT.  There the model sets `halted` and
stops (`SendStale`, `EofStale`); it does the same once the unlocked decrement of the
monitor's reference count loses an update.  All properties are claimed up to that point,
and `RacesAreLockless` says what must have happened for it to be reached.

The environment follows `user/monitor.c`: one CREATE or one ATTACH per handle, reads
after the ATTACH, and only the close of the handle after CO_MONITOR_IOCTL_CLOSE.

### LinuxMessages

| code | actions |
|---|---|
| manager_write, co_monitor_message_from_user | `QueueMessage` (under the queue's mutex), `WakeUp` |
| the completion of an asynchronous block request, co_monitor_message_from_user_free | `IoDone` |
| timer_callback | `TimerFires` |
| run, iteration up to the switch | `Run`, `Enter` |
| callback_return_messages | `Copy`, `Malformed`, `Copied` |
| the guest (external) | `GuestAsks` |
| iteration after the switch | `Interrupted`, `Idle`, `MessageToMonitor`, `DeviceRequest`, `Terminate` |
| co_idle | `Idle`, `Woken` or `Alerted`, `IdleOver` |
| start, co_monitor_user_reset, co_monitor_destroy | `Start`, `Reset`, `Destroy` |

The hand-over takes one message per step with the mutex held, a KMUTEX: no producer and no
kernel APC runs meanwhile, which is why `QueueMessage` and `IoDone` are disabled in
`copying`.  The timer is a DPC and may fire there.  The event `idle_wait` is a
SynchronizationEvent: the wait that ends clears it.  The wait is alertable and its result
is ignored, so it may also end for nothing (`Alerted`).  `messages_waiting` is the guest's
side of the buffer: while the guest has not taken what it was given, nothing more is
handed over.

`boot` numbers the guests of one monitor and advances at the flush of RESET: a message
queued between `Terminate` and `Reset` is meant for the guest that is gone and must be
flushed; one queued after it is meant for the next.  A message larger than the I/O buffer
stays at the head of the queue for ever, and everything behind it with it: `Size` contains
such a message in the safety run, and not in the liveness run, because the clients in
`user/` and `os/winnt/user/` send messages that fit.

Two facts about the code came out of the model and are what `SleepsOnLeftovers` says:
`co_idle` sleeps before it looks at the queue, so a message that the last hand-over left
behind (the buffer was full, or a malformed message ended the loop) is not delivered until
the next timer tick or message although its producer has set the event already; and no
other message can be slept over.

### GuestPages

| code | actions |
|---|---|
| co_os_get_page, co_manager_get_page | `GetPage` with `HandedOut`, part of the next ones |
| co_os_put_page | `PutPage`, part of `PutBack` and `Release` |
| alloc_pp_ram_mapping in create and RESET | `Create`, `TablePage` |
| co_monitor_copy_region (LOAD_SECTION, LOAD_INITRD), co_alloc_pages, co_free_pages | `BeginRange` and, for each page, the next |
| co_monitor_alloc_and_map_page | `AlreadyThere`, `AllocAndMap`, `AllocFails` |
| co_monitor_free_and_unmap_page | `Unmap`, `PutBack` |
| free_pseudo_physical_memory | `BeginRelease`, `Release` |

Each guest is worked on by one thread; guests meet in the pool, under `osdep->mutex`, and
in the reversed map, which has no lock.  A bucket is a set of frames and `use_count` its
count of those in use; `NewMappedPage` is the fallback when NT gives no bucket.  Nothing
clears a page table: `TablePage` takes the entries of a new one from `Uncleared`, a set of tables
that an instance chooses and of which nothing is assumed, so that an entry may name any frame,
another guest's or a free one, until the driver writes it (`written`).  `MappingsExact` is
about written entries, and says that the page of any other never had a frame; that the guest's
processor is not led astray by the others is not claimed, and not so: they are what the frame
held.  Nothing clears the reversed map either; no operation reads it, and what is claimed is
about frames behind a page, whose entry was written, so `reversed` may begin empty.
A frame with a number not below `hostmem_pages` (`High`) is refused by
`co_manager_get_page` after it was taken and stays taken: `NothingLost` excepts it, and
this is a leak until the driver is unloaded.  The rollback of `co_alloc_pages` frees the
range before the failed page, the pages that were there before the call included; the
properties hold in spite of it, the guest's loss is not one of them (hazard at
`kernel/monitor.c:473`).

### MonitorLifecycle and Daemon

`MonitorLifecycle` has the driver's side: `held` is what a monitor has allocated and can
still reach, `leaked` what it has lost and where, `wild` what was freed without having been
allocated.  The sequences `EarlyStep`, `LateStep` and `Device` are the order of
co_monitor_create, `ErrorPath` the order of its labels and `GotoLabel` the label each
failing step jumps to, so that what a failure frees follows from the code's own tables.
`hostmem_used` is loaded and stored in two steps; `raced` notes which updates overlapped.

| code | actions |
|---|---|
| co_monitor_create up to the memory check | `CreateChecked`, `CreateFailsEarly` |
| its addition to hostmem_used and the rest | `CreateLoadsUsed`, `CreateAddsUsed`, `CreateFailsLate`, `CreateDone` |
| its error path | `RevertLoadsUsed`, `RevertUsed` |
| start with guest_address_space_init | `Start` |
| RUN, CO_OPERATION_TERMINATE | `Run`, `Terminate` |
| co_monitor_user_reset | `Reset` |
| ATTACH, co_monitor_refdown, co_monitor_destroy | `Attach`, `RefdownReads`, `RefdownWrites`, `DestroyLoadsUsed`, `Destroyed` |
| co_daemon_start_monitor | `LoadImage`, `OpenManager`, `CreateMonitor`, `CreateContinues`, `CreateReturns`, `LoadGuest` |
| co_daemon_run up to its loop | `OpenMessages`, `Launch`, `StartGuest` |
| the loop, co_daemon_restart | `RunGuest`, `RunFails`, `GuestEnds`, `RestartOrEnd`, `Restart` |
| its exits, co_daemon_end_monitor | `CloseMessages`, `RemovePidfile`, `EndMonitor` |
| the end of the process; the thread that closed a descriptor, in the driver | `ExitCloses`, `Exit`; `RefdownContinues`, `DestroyContinues` |
| the launched console, network and serial processes | `ChildAttaches`, `ChildCloses`, `ChildRefdown` |
| co_winnt_daemon_stop, in a thread of its own | `StopFlags`, `StopSends` |

`Daemon` calls the actions of `MonitorLifecycle` from its own.  A daemon in `Faulty` meets
every failure its code handles; `cutShort` notes why one skipped its clean-up: a START that
fails leaves through a return that closes neither the children nor the messages, and the
stop handler may use a handle that is NULL or already freed.

The processes that co_daemon_run launches attach to the monitor by its id, which works while
it is on the manager's list, and close their descriptors when they end, in any order with the
daemon's own: the monitor may outlive its daemon.  What they do with their descriptors is
in `OpenDesc` and `HelperDaemons`; here they hold the monitor.  `--cmon->refcount` has no lock, so
co_monitor_refdown reads the count in one step and writes it in the next, each closing
thread by itself (`closing`).  Where an update is lost by that, `miscounted` says so, and the
model of that monitor ends: it is destroyed under an attached process or never, which is the
finding of `opendesc_refcount`.  `ExitLeavesNothing` says of all other behaviours that the
monitor is freed with the last descriptor, neither before nor never.

### HelperDaemons

| code | actions |
|---|---|
| co_manager_send, manager_read, end-of-file (the driver's side, as far as a helper sees it) | `GuestSends`, `MonitorEnds` |
| the device (external) | `DeviceReads`, `DeviceWritten` |
| co_reactor_select, the read of the first user whose event is set | `SelectMonitor`, `SelectDevice` |
| monitor_receive, packet_send_whole, packet_read_async | `Relay`, `ReadAgain` |
| pcap2Daemon, the bridged daemon's receiver | `Receive`, `Received`, `ReceiveFails`, `SuspendThread`, `Continued` |
| the loop of its main thread | `CheckReceiver`, `CloseAdapter`, `OpenAdapter`, `ResumeReceiver` |
| the card (external) | `CardGoes`, `CardComes` |

Messages are numbered modulo `Numbers`, more than can be on their way at once, so that a
lost, doubled or overtaken one shows.  `suspended` is taken back by the receiver, not by the
main thread that resumes it: the main thread may come round and see it still set.  `misled`
is set then, and when an adapter is used after its close; `BridgeExact` says the second is
only reached through the first.  A bridged daemon looks at the flag only when the guest has
sent something, so that a lost card is not noticed by a guest that only listens.  A device
read that ends with an error other than a broken pipe is not issued again: the helper goes
on in one direction (`SelectDevice`, fourth disjunct).

`UserProcesses` joins the two kinds of process.  They meet only in the driver, in state each
of the two modules has already, so a behaviour watches one of them (`watched`); in the
behaviours that watch a helper the daemons have ended, lest their fairness be violated.

### The devices of a guest and other separate parts

`GuestDevices` sets its parts beside each other.  They share no state, so a behaviour
exercises one of them, chosen at the start (`exercised`): the reachable states are the sum
of the parts' and not their product, and every reachable state of a part is reached.

| module | code | actions |
|---|---|---|
| `DebugLog` | co_debug_writev, get_section, append_to_buffer, put_section | `WriteBegin`, `CreateSection`, `LinkSection`, `GetLoads`, `GetStores`, `GetLocks`, `AppendLine`, `TotalStores`, `PutStores` |
| | co_debug_read | `ReadBegins`, `ReadVisits`, `ReadCopies`, `ReadSaves`, `ReadEnds` |
| | co_debug_fold, co_debug_free | `FoldSection`, `DebugFree` |
| `BlockDevices` | the guest's requests (external) | `AsksStat`, `AsksOpen`, `AsksClose`, `AsksIO` |
| | co_monitor_block_request and the service of a file | `ServeStat`, `ServeOpen`, `ServeClose`, `ServeIO`, `Report` |
| | the completion; RESET; destruction | `Completes`, `BlockReset`, `BlockDestroy` |
| `ScsiDevices` | scsi_file_open, scsi_file_close | `ScsiOpen`, `ScsiClose` |
| | scsi_file_io, get_next_entry, the worker | `ScsiIO`, `Increment`, `Wrap`, `Scan`, `ClaimAndQueue`, `WorkDone` |
| | RESET; destruction | `ScsiReset`, `ScsiDestroy` |
| `Cofs` | inode_lookup, inode_mknod, inode_mkdir, unlink, rmdir, rename, the directory's names, forget | one action each, with the guest's tree beside the host's |
| `ConetAdapter` | co_conet_bind_adapter, co_conet_unbind_adapter | `BindChecks`, `BindOpens`, `BindLists`, `Unbind`, `UnbindFrees` |
| | co_conet_unregister_protocol, unbind_adapter (NDIS) | `DestroyStarts`, `UnregisterCloses`, `UnregisterFrees`, `MonitorFreed`, `HostUnbinds` |
| | co_conet_inject_packet_to_adapter and its completion | `InjectFinds`, `InjectAllocates`, `InjectLinks`, `InjectSends`, `SendComplete` |
| | receive, receive_packet, transfer_complete, the work item | `Receive`, `ReceivePart`, `TransferComplete`, `WorkItemRuns` |
| `Console` | incoming_message, co_console_op | `GuestWrites`, `ShadowFollows` |
| | co_monitor_user_get_console; attach and detach of a process | `GetCopies`, `GetSends`, `ConAttach`, `ConDetach` |
| `TapDriver` | AdapterCreate, CreateTapDevice | `TapCreate`, `TapCreateFails` |
| | IRP_MJ_CREATE, the media status, IRP_MJ_CLOSE | `TapOpen`, `TapConnects`, `TapCloses`, `CloseFlushes`, `TapCloseEnds` |
| | IRP_MJ_READ and its cancellation | `ReadServes`, `ReadPends`, `CancelRuns` |
| | AdapterTransmit | `SendChecks`, `SendPushes`, `SendPairs`, `SendCompletes` |
| | OID_PNP_SET_POWER; AdapterHalt | `TapPower`, `HaltMarks`, `HaltFlushes`, `HaltFrees`, `HaltRemoves` |
| | the process and the I/O manager (external) | `TapCloseHandle`, `CancelStarts` |

A thread that injects a packet keeps the pointers to the adapter, its pool and its binding
over four steps, under no lock; `injector.sees` says what they are worth when another thread
has closed or freed the adapter meanwhile, or the next one was allocated in its memory.  A
packet of a freed pool is still given and linked, on whatever list lies there (`list` becomes
"strayed"), and one that is handed to a closed binding may never be completed (`late`).  `ConetExact`
says that only such an injection does either.

What the code leaves unprotected is a step of its own: the load and the store of a section's
reference count and of `sections_total_filled`; the static `rc` of co_monitor_block_request,
which all monitors' RUN threads write; the index and the flags of the SCSI queue; the time
between the search of a conet adapter and its listing; the copy of a console row and its
sending; the two sections of the queue lock in a TAP read, and the test of `m_TapOpens` and
the push in a transmit.  Each module has one history variable that notes when such a window was hit
(`mishaps`, `wrongRc` and `late`, `scsiMishaps`, `cofsMishaps`, `conetMishaps`, `torn`,
`tapMishaps`), and
a property is claimed with exactly the exceptions it names: what TLC shows is that nothing
but the named window breaks it.  After a freed section was used, a TAP queue was
freed under a call, or a read was completed twice, the behaviour of the driver is undefined,
and `DebugNext` and `TapNext` stop there.

Some facts the models hold that a reader of the code may not expect: a bind of a unit that
is listed already answers well and ignores the new adapter and address; transfer_complete
does not look at the status; no program calls the unbind ioctl, but a user of the interface
may; GET_CONSOLE leaves out the oldest `config.y` rows of the scrollback; a SCSI file whose
resize fails stays open behind an answer that it is not; a TAP adapter that cannot be
created leaves its memory behind, and one that is halted waits half a second for the calls
inside, not for their end.

### SlirpTcp

One connection, opened by the guest or, through a redirected port, by the host.  The daemon
has one thread, so each handler is one step on the record `conn` (socket and control block
together); `tcp_input` and `tcp_output` are operators on that record, in the order of the
code's parts, and the steps are their callers.

| code | actions |
|---|---|
| monitor_receive, slirp_input, tcp_input | `SlirpInput` |
| slirp_select_poll: a connect that is over, an accept, soread, sowrite | `PollConnected`, `PollAccept`, `PollRead`, `PollWrite` |
| tcp_fasttimo; tcp_slowtimo and tcp_timers | `FastTimo`; `Rexmt`, `Persist`, `Keep`, `TwoMsl` |
| the peer behind the host's socket (external) | `PeerWrites`, `PeerEnds`, `PeerResets` |
| the TCP of the guest (external) | `GuestConnects`, `GuestSends`, `GuestFinishes`, `GuestResends`, `GuestReads`, `GuestAborts`, `GuestReceives` |

The messages of slirp_output are discardable and the guest's queue may be full: a segment
that finds no room in `out` or `toSlirp` (`NetRoom`) is lost.  Both ends send again what is
not acknowledged, in larger segments than before, so that segments overlap and overtake.
Times are left open: a timer that is set may fire at any moment.  The streams are units that
are numbered, so that one lost, doubled or out of place shows.

`SlirpExact` says what a user of the connection relies on.  It holds with one exception that
the code makes and the property names: `tcp_close` frees `so_rcv`, and at the last
acknowledgment of an orderly end (LAST_ACK) there may be units in it that the host's socket
has not taken; they are lost (`conn.lost`).  Another fact that the model keeps and a reader
may not expect: `snd_wnd` is unsigned and reduced by what is acknowledged, so an old segment
with a new acknowledgment can make it wrap (`Less`); more is then sent than the guest has
room for, and it is sent again until the next window comes.

### SlirpDatagrams

The state of the daemon is one record, `net`: the phase of the main loop, the number of mbufs
that are not on the free list, the queues of fragments, the sockets (newest first) and the
one found last, the hardware address of the guest, the leases and the two clocks.  Each
handler is a step on it; its parts are operators from such a record to the next, named like
the functions.  A datagram of the guest is a name, its data are units of that name, and
`Exchange` says which frames may come in a behaviour, how often and in any order.

| code | actions |
|---|---|
| monitor_receive, slirp_input, arp_input, ip_input, ip_reass, udp_input, icmp_input, bootp_input and what they send | `FrameArrives` |
| slirp_select_fill: expiry, the sockets that are selected | `Fill` |
| updtime, ip_slowtimo in slirp_select_poll | `Poll` |
| sorecvfrom of one socket, udp_output, icmp_reflect, icmp_error | `sorecvfrom` |
| the end of a round of wait_loop | `LoopsOn` |
| the host's clock (external) | `Tick` |

`DatagramsExact` has eight parts.  `WholeDatagrams`: whatever order, overlap or number the
fragments come in, what a protocol gets is one datagram and all of it.  `MbufsHeld` accounts
for every mbuf; the two kinds left behind are a packet smaller than a header (`ip_input`
returns without m_freem) and the reply of a DHCP request when all addresses are taken.
`LeavesByItsPort`, `AnswersShown` and `EchoesArePings` say which socket a datagram leaves
through and from whom an answer is shown to be: exceptions are an answer of somebody else
than was asked last, on which the nameserver's address is put, too, and a datagram
from port 9, which finds the socket of a ping (pings use that port) and whose packet is
then echoed.  `ExpiresWhenIdle` is claimed for the clock the daemon has: it is read once a
round and is 0 before the first, so that a socket may live shorter by what the daemon was
behind; and a sum beyond 32 bits of milliseconds is over at once.  `LeasesKept`:
an address is told only to whom it is leased; the one that is acknowledged is the first lease of
that hardware address and need not be the one offered, as each DISCOVER takes another.

### Configuration

A parameter is a record of what the parsers look at: the word before `=`, the kind of index
between the two, the comma-separated fields of the value as a sequence of names ("long" does
not fit its buffer, "text" is no number), and whether it stands in an @file.  `stage` is the parser that
runs next; each takes its parameters out of `argv`, and `fate` notes what became of them.

| code | actions |
|---|---|
| get_params_list on the text of an @file, character by character | `ScanChar` |
| co_cmdline_params_alloc, eval_params_file | `ParamsAlloc` |
| co_winnt_daemon_parse_args, co_daemon_parse_args | `Switch`, `SwitchWithArgument` |
| kernel, mem, setcobd, initrd, color, cocon, cursor | `OneOption` |
| scsi, cobd, eth, cofs, ttys, exec; the aliases; pci | `Device`, `RefusesDevice`, `NoMore`; `Alias`; `PciDevice` |
| the boot line; co_winnt_main after the parsers | `FormatRemaining`; `CheckUnparsed` |
| launch of the net and serial daemons and programs, and their end | `LaunchDaemons`, `KillExecutes` |

`ConfigExact` has four parts: a parameter that was taken sets what it names and nothing else;
none goes unheeded; a PCI slot and a launched process belong to a device that is configured;
and the scanner finds the parameters of a text and leaves none out.  The exceptions it names
are what the code does: a parameter of an @file for which there is no memory and one the
boot line has no room for are dropped in silence, the rc of fetching a color is not looked
at, and a key without an index (`pci=noacpi`) leaves the buffer of the index as it was.

### DriverControl and ServiceControl

A scene (`Scene`) is the programs that run at one time, whether a driver is installed before,
and what may fail.  Each program is at one of its calls of Windows (`at`), which is one step; the
record of the driver, its state and the driver in memory follow what the service manager does.

| code | actions |
|---|---|
| co_os_manager_is_installed, and what each program makes of it | `IsInstalled` |
| co_winnt_load_driver_lowlevel_by_name | `CreateRecord`, `StartDriver` with `DriverEntry`, `UndoInstall` |
| co_os_manager_open; co_manager_status | `OpenDriver`; `AskStatus` |
| co_winnt_unload_driver_lowlevel_by_name | `StopDriver` with `co_manager_unload`, `RemoveRecord` |
| co_daemon_prepare_net_macs, the registry | `ReadMac`, `WriteMac` |
| create and end of a monitor; the end of a process | `CreateMonitor`, `DaemonEnds`; `ProgramExits` |
| --install-service, --remove-service | `InstallService`, `SetRestartOptions`, `RemoveService` |
| service_main and co_winnt_daemon_main | `ServiceStarts`, `PlainStarts`, `RegisterServiceCtrlHandler`, `MainWrites`, `MainTells`, `DaemonCreated`, `DaemonOpens`, `DaemonOver`, `MainReturns` |
| co_winnt_service_control_callback | `ControlSent`, `HandlerWrites`, `HandlerTells`, `HandlerStops` |
| co_winnt_daemon_ctrl_handler | `ConsoleEvent` |
| the end of the process (external) | `ProcessEnds`, `ProcessDied` |

`ControlExact` says what scripts and other programs rely on.  Its exceptions are what the code
does.  DriverEntry does not look at what co_manager_load answers, so a driver that failed to
load stays, without the lock that the next open takes (`driver.wild`); a load also fills a table
there was no memory for, and forgets the structure or the tables of its last step.
--remove-driver stops a driver that a daemon has opened since it asked, and one of another
version whatever runs there; an install that cannot start the driver deletes the record of the
name, its own or not.  Addresses of network cards are stored by the number of monitors there were:
daemons that were told the same number use the same (`AddressesKnown`).  The two threads of a
service share `ssStatus`: where two reports overlap the service manager may be told what the
other wrote; a stop before the daemon is created is lost although "stop pending" was told, and one
between its create and its open, or after its end, ends the process.

### Masquerade

`course` is what the process that configures a TAP card has still to do, `transmit` the frame of
the host that AdapterTransmit is at.  Neither locks the fields it reads or writes, so an ioctl and a
transmit are several steps each.

| code | actions |
|---|---|
| IRP_MJ_CREATE, IRP_MJ_CLOSE with ResetTapAdapterState | `OpenDevice`, `CloseDevice` |
| CONFIG_TUN and CONFIG_POINT_TO_POINT, CONFIG_DHCP_MASQ, DHCP_SET_OPT | `ConfigTun`, `ConfigDhcpMasq`, `SetOptions`, `RefuseShort` |
| IRP_MJ_WRITE | `WriteDevice` |
| AdapterTransmit: DHCP masquerading, point-to-point, the queue | `Transmit`, `Masquerades`, `PointToPoint`, `PassOn` |
| SendDHCPMsg; the end of ProcessDHCP | `SetOptionsOf`, `SendDHCPMsg`; `NoteRequest` |

`lived` remembers what the server was asked since the device was opened, whether a frame was on
its way meanwhile (`straddled`), and whether an ioctl ran since the frame came (`mixed`).
`MasqueradeExact` has the exceptions the code makes: a frame that is at the server while the
device is opened or closed leaves its note to the next process; CONFIG_TUN with a network that
no longer encloses the server's address does not set its ARP back on, so that nobody answers
for it (`lived.moved`); and the ioctl takes options of up to 256 bytes, of which an answer has
room for 234: with longer ones no lease is ever given.  Reconfiguring the server keeps the
count of bad requests, so that a client may be refused for what it asked the server before.

## Runs

| run | bounds | shows |
|---|---|---|
| `opendesc_refs` | 3 descriptors, 1 monitor, 1 module, 1 message, 1 read | references, with ATTACH evicting, detaching and both kinds of close in every order |
| `opendesc_messages` | 2 descriptors, 2 modules, 3 messages, 2 reads, queue limit 1 | delivery, with a full queue, a short buffer, cancel, end-of-file and the two lockless windows |
| `opendesc_live` | 2 descriptors, 2 modules, 3 messages, 2 reads, queue limit 0 | the sleeping sender wakes, the dead descriptor is freed |
| `opendesc_daemon` | as above, one process with both descriptors | violated: see Findings |
| `opendesc_refcount` | as `opendesc_refs` | violated: see Findings |
| `linux_messages` | 2 producers, sizes 1 and 3 in a buffer of 2, 3 messages, 1 block request, 2 guests | the order of delivery, the wake-ups, reset |
| `linux_messages_live` | 1 producer, sizes 1 and 2, 3 messages, 1 guest | delivery and the return of RUN |
| `guest_pages` | 2 guests of 2 pages and 1 table, 3 frames, buckets of 2 | owners, page tables and the reversed map through ranges, failures, rollback, reset with too few frames |
| `guest_pages_buckets` | 2 guests of 1 page and 1 table, 5 frames, one too high, buckets of 2 | the pool: two buckets at once, the high frame |
| `host` | 2 daemons on 160 MB (limit 120), of 40 and 100 MB, the first with every failure, a stop, 1 reboot and 1 launched process; 1 helper of each kind, queue limit 1, numbers modulo 7, 2 tries | what a daemon leaves behind, the account of memory, that a stop ends it; the helpers' relay and the bridged daemon's two threads |
| `guest_devices` | see below | the parts behind a guest's devices, slirp, the command line, the driver's life and a service |
| `block_size` | as `guest_devices` | violated: see Findings |

The bounds are the smallest at which each of the cases occurs.  Descriptors and monitors
interact in pairs, through a slot; a third descriptor matters only for the eviction of one
by another while a third ends, which is `opendesc_refs`.  A limit of 1 (0) stands for 1024:
what the code does depends on which side of the limit the queue is, and a second message
is the first that throttles.  Three messages let one be handed over, one be left behind
and one arrive meanwhile; sizes 1, 2 and 3 in a buffer of 2 are a message that leaves room,
one that fills it and one that never fits.  Two guests suffice for RESET because nothing
of a guest but its requests in flight survives its own.  Three frames for six pages make
every allocation fail somewhere; two buckets of two are the smallest pool where a frame
could go back to the wrong one.  A new table names one frame, each in turn, in its first entry
(`OneFrame`): the operations read entries one at a time.  

`host`: either monitor fits below the limit of 120 MB and both do not, so that the unlocked
check can be passed by both; the second daemon has no failures, since what the two share is
only `hostmem_used`.  One launched process is enough to come before, between and after the two
descriptors of the daemon.  The states are a product of the two daemons, so the guest reboots, and the
process attaches, only in behaviours where the second daemon never starts (`Apart`): a reboot and a
process touch their own monitor only.  A queue limit of 1 lets a second message put the guest to sleep; at
most five messages are on their way then, fewer than seven numbers.

`guest_devices`: the log has two writers, one of which writes through two pointers, two
slots (the section that is overwritten and its successor) and buffers of 2 that grow to 8
at most; block and SCSI have two monitors with one request in flight and one RESET, since
what they share are the static `rc` and the queue, here of one entry, so that the second
command finds it full; the volume has one file, two directories and four inode numbers, so
that a rename can replace a file, move it between directories, and put a directory below itself; the conet unit has two users, two
adapters and a pool of two packets, so that sends and receives compete for the last; the
console has two rows and five of buffer, so that the rows that are left out, the
scrollback and the screen all differ, two processes and two operations of the guest; the
TAP card is opened twice, and one sender and two reads meet over a packet queue of 1 (a
second packet may find it full) and a read queue of 2 (the order of the reads shows).
Sizes found by probing are checked for all sizes up to 16, with every sector up to 4 in `block_size`.
The connections of slirp (`MCConnection`) are opened by either end, with up to two units in
each direction and a window of the guest of 1 or 2; its buffers hold two and one segment is
on the way in each direction, which is enough for retransmission to meet what it repeats.

The command lines (`MCCommandLine`) are a kernel and every pair of block devices and
aliases, every pair of the other devices and options, two network units with every pair of
PCI slots, and every pair of switches: what one parser leaves for another shows with two.
Two units of each kind, room for one parameter on the boot line, texts of four characters.

The datagrams (`MCExchange`) are ten scenes: six fragments of two datagrams with one id, three
fragments twice each, fragments among whole packets and time, one port with four
destinations, expiry around the end of the clock, a redirected port, pings, broken headers,
ARP with answers of this machine, DHCP.  A link of two units makes packets of three go in two pieces; memory is for three
to seven mbufs, so that each allocation also fails; the clock has eight steps, an expiry
three, so that the sum wraps.

The scenes of `DriverControl` (`MCScene`) are seven: three daemons at one driver, with and
without failures of the registry and of the creation of a monitor; a removal beside two daemons
and an install; two installs, a removal and a question, with starts that fail; programs of two
versions; a driver that fails to load at each step; and no access, no record, no handle.  A
service gets two controls or console events, so that a second one meets the first.

The network card of `Masquerade` has three addresses, the card's, the server's and one more;
four courses configure it in different orders, with options that just fit and just do not,
close and open it again, while twelve frames come in any order and as often as the steps allow:
every kind of ARP and DHCP packet with most ways to be passed over.

The sum of these parts would take long, so a constraint, `Followed`, leaves out what shows
least: a connection of more than one unit whose ends both have finished, and one that was
given up or reset after something was sent (an end then only waits for the other, and what
it got is not claimed to be complete); a console that an overlap misled, and a log after a
count was overwritten or a section freed early, of which nothing is claimed either; conet
after two kinds of mishap, so that each kind is followed to the end, but alone; block devices once a monitor was told an `rc` of the other, when a
guest has reset its device or both were told one; a TAP card that is opened for the second time
after more than one read or packet; of cofs an open directory, a lookup that waits, and a mishap
once the four numbers are given out; and a card that got an address under a frame on its way
after requests with a wrong one, of which the server's memory is not claimed any more.  An
invariant of one part is checked in the states where that part is exercised.  The run of
`EveryDeviceSized` follows the block devices only (`Sizing`).

Deadlock is checked except in `OpenDescMessages` and `OpenDescLive`, where the bounds stop
senders and readers, in `MCHost`, where all processes end, and in `GuestDevices` and
`BlockSize`, where monitors are destroyed, the log is freed, the card is halted and the bounds on operations
stop the guest.

### Fairness

`OpenDesc!FairSpec`: NT schedules every thread that is inside the driver
(`WF(Inside(t))`), and a client's reactor issues the next read when one is over
(`WF(Reader(t))`, `user/reactor.c` and packet_read_completed).  Nobody is obliged to open,
attach, send or die.

`LinuxMessages!FairSpec`: NT schedules the run thread and the producers inside the driver
and fires the timer; the daemon's loop calls RUN again (`user/daemon.c`), which is part of
`WF(RunThread)`; the guest, which is machine code that always ends in some switch, asks
for something; and since the host's clock interrupts it again and again it asks for
FORWARD_INTERRUPT again and again (strong fairness).  `Alerted` has no fairness: an alert
is not owed.

`Daemon!HostFairness`: the main thread goes on, and a guest that holds the power message
shuts down or reboots in the end.  A guest may otherwise run for ever, and no stop need
come.

`HelperDaemons!HelperFairness`: the threads are scheduled.  What a helper owes depends on
others, and the hypothesis `OthersGoOn` of `HelpersServe` says so: the device finishes a
write (a serial port or a TAP adapter may take any time, and the code waits without a
limit), its input leaves the descriptor a turn (the serial daemon serves its port first, so
that input without a pause starves the guest), and the guest goes on sending (only then
does the bridged daemon look at its receiver).

### Findings

* `OpenDescDaemon`: the daemon runs the guest and reads its CO_MODULE_PRINTK descriptor
  with one thread.  When that queue is over its limit (1024 messages within one RUN) the
  sender, which is this thread, sleeps in the driver for a read only it could issue.
* `BlockSize`: of its search for the size of a device `os/winnt/kernel/block.c:271` says that
  "This *would* work in all cases".  The search looks for the first power of two that cannot be
  read, from 1 upwards (`:305`); a disk that is read by sectors refuses offset 1, so its size is
  found to be the length of the first read that succeeded (`SizesSearched` of `GuestDevicesProofs`
  proves it for all sizes and sectors).  `BlocksExact` claims the size only of a device that can be
  read at any offset (`ProbedSizes`).
* Without a run of its own: `resize_section` documents that a buffer at least half full is doubled
  (`kernel/debug.c:67`); its last test (`:88`) throws a new size away and keeps an equal one, so
  a section never grows and its lines are dropped instead (`ResizeKeeps` of
  `GuestServicesProofs`: the size never changes).
* `OpenDescRefcount`: `co_monitor_refdown` decrements `refcount` without the lock under
  which ATTACH increments it; one lost update and the monitor is destroyed under an
  attached descriptor, or never.

## Proofs

The proofs hold for every value of the constants that satisfies `ConstantsAssumption` of
the module: any number of descriptors, monitors, modules, producers, any sizes and bounds.
`Desc`, `Mon` and `Module` are finite sets, for the sake of the counts.  The other modules
are proved from their own named assumptions in the same way; the finite `Writer` and `Slot`
of `DebugAssumption` serve its sums, and its `StartSize <= MaxSize` is
`CO_DEBUG_SECTION_BUFFER_START_SIZE` 0x1000 against `MAX_SIZE` 0x10000
(`kernel/debug.h:21-22`).  `ConfigAssumption` only says what a parameter is (`Parameter`).

`OpenDescProofs`.  `IInv` is the type invariant, `RefExact`, `ControlInv` (what a thread at
a given `pc` has found and still holds), `LockInv` (who holds the two locks that are kept
across actions) and `VictimInv` (a descriptor that a thread is about to drop is one it has
a reference to).  `RefExact` is not inductive alone: a decrement keeps it only if the
dropping thread was counted, which is what `ControlInv` and `VictimInv` carry from the
step that took the reference.  The count is a cardinality, so the lemmas `SlotChange`,
`HolderChange`, `Taken` and `Given` say by how much one step changes it.  From `IInv`
follow `TypeCorrect` and `ReferencesExact`; `NeverWaitsBesideMessage` is inductive
relative to it; and `RefinesChannels` maps every step to a step of `MessageChannel` or to
a stutter.

The second half goes on from there, with `SInv`, which adds to `IInv` one conjunct per
question.  `MonInv`: until an unlocked decrement loses an update the reference count of a
monitor is the number of descriptors attached to it; that needs `ListedInv`, since ATTACH
takes a reference of any listed monitor: one that is listed is still attached to its owner, or
its owner's last reference is just being given up.  `LocalsInv` says what each thread has in
its locals meanwhile.  `SlotInv`: the slots of a descriptor are slots of one monitor, the one
it is attached to while it is, and are gone before its handle is closed, which is more than
`ClosedKeepsNoSlot`.  `QueueBound` counts the senders that sleep, a cardinality that each step
changes by one at most; `QueueInv` adds that a descriptor that is not open has no queue.  `EofInv` and
`TakerInv` say who completes the read that an end-of-file has marked: the thread about
to end it, or whoever took it in the window between the load and the spin lock.
`RacesAreLockless` is inductive beside them.

`LinuxMessagesProofs`.  `IInv` adds to the type invariant `QueueExact` (the queue holds
the messages `popped + 1 .. sent`), `Meant` (they are for this guest, but for
completions), `ControlInv` and `Wakes`.  `Wakes` is the strengthening of
`SleepsOnLeftovers` to all places the run thread can be: while a message waits, the event
is set, a producer is about to set it, the last hand-over left it, or the thread is on its
way to a hand-over.  The last case is where `ControlInv` is needed: the guest that asked to
idle has taken its messages, so the next entry does hand over.  Theorems: `TypeCorrect`,
`TimerIsSafe`, `ResetFlushes`, `NoMessageSleptOver` and `RefinesChannel`.

`GuestPagesProofs`.  `GInv` adds to the type invariant, `PoolAccounted`, `OneOwner` and
`MappingsExact` what a guest is in the middle of, `OpInv`: that the page it is at lies in the
range it began with, that a page just unmapped has no entry any more, and which pages have no
frame yet (of a guest that is being created) or any more (of one that is being released).  Of a
page table only the written entries are right; all that is assumed of the others is that their
pages have no frame, for any `Uncleared`.
The `use_count` of a bucket is the cardinality of its frames in use; the lemmas
`GetPageExact` and `PutPageExact` say what the two pool operations do to the frames in use
and to no other, `OwnMore`, `OwnLess` and `OwnSame` carry the ownership of every other frame
over a step, and `MapAt` the agreement of page table, reversed map and `pp_pfns`.

`GuestDevicesProofs`.  The parts of `GuestDevices` share no variable, so each is proved by
itself, from its own `Init` and `Next` (`ConetSpec`, `BlockSpec`,
`ScsiSpec`, and so on).  `AdapterInv` adds to the
types of `ConetAdapter` who holds which adapter (`HoldersExact`, `LifeExact`, `MonitorExact`):
a thread that binds has made the one in its hands, one that unbinds has taken it off the list,
and no other thread is at it.  Beside those, `BoundExact` (NDIS is open with a handle while the
adapter is listed, unless the card was lost), `OneAdapter` (two only after two threads passed the
check at once) and `PoolKept` are inductive; and so is `PointersRight`, which says what the pointers of an
injecting thread are worth, and with it `InjectorExact`, `LateExact` and `WildExact`: a packet is late or
linked elsewhere only after the adapter was closed or freed in the hands of that thread.  `BlockInv` follows a request from the guest's
question to its answer: the count of the guest runs behind that of the driver by exactly the
answer on its way (`CountsRight`), and its wait set by the accepted request of which it was not
told yet (`WaitsRight`); tags in flight are distinct, and no I/O is for a guest that comes later
(`FlightRight`), so that after a reset nothing that completes is the new guest's.
`SizesProbed` is about `detect_size_binary_search` alone: by induction over the bits, from the
first power of two that cannot be read downwards, what is found so far is never beyond the end
and misses less than the bit just tried.  `ScsiInv` relates each entry of the shared, unlocked
`io_queue` to the work item and the guest it is for: an entry is in use exactly while a work
item is queued for it (`QueueRight`), a command has one entry while the guest waits for it
(`CommandsRight`), the command in a thread's hands is none of those (`ThreadRight`), and open
files follow the guest's handle (`FileRight`).

`GuestDevicesProofs`, the command line.  `ConfigInv` says what is left in `argv` (`ArgvInv`: unread
parameters, in the order of the line), for each setting which parameter may be behind it and for
each parameter that was taken which setting must be (`SettingsInv`), and what the order of the
parsers is for: no option is set before its turn and nothing goes to the boot line before the end
(`StageInv`), so a setting that is made overwrites none but of a PCI slot given twice, where the
later parameter wins.  `HeededInv` follows a refusal to the error it ends in, and `ScanInv` the
scanner through a character at a time: the parity of the quotes since the parameter began is its
state, which is why a blank ends a parameter outside of quotes and never inside.  The parameters
taken out of `argv` one by one are a recursive function in the model (`Without`), about which
`ByInduction` of `NaturalSets` can reason.

`GuestServicesProofs`, the console.  `ConsoleInv` says what a process was sent: after n messages of
its GET_CONSOLE the cells of `SentCells(n)` show what the shadow shows once it has caught up with
the operation that was sent before it (`Truth`), and a message made but not yet sent is the row
of the present shadow or marked stale (`MadeRight`).  `MessageShows` is about one such message.
`OpAlike` says that what the guest writes leaves two pictures alike, in any cells if it moves no
row, and in the cells of a whole GET_CONSOLE if it does: it comes down to `MemmoveAlike` and
`FilledAlike`, with the row by row `bmove` by induction over the rows.  `OpsExact`, which says
what each operation does to the cells of one console, is proved operation by operation
(`ScrollExact`, `MoveExact`, `ClearExact`).

`GuestServicesProofs`, the TAP driver.  `TapInv` is the types and nine parts, each about one thing
that `TapExact` asks.  A read is `Past` its second section or it is the last one issued, with no
packet and in no queue (`ReadsRight`); only reads that are past it are in the queue, cancelled or
in a sender's hands (`IrpsRight`, `ElsewhereRight`).  Both queues grow, every read that has a packet
comes before every read that waits, and its packet before every packet that waits (`OrderRight`):
that is why a read may take a packet at once only when no other waits.  A read that a sender
completes was taken out of the queue by that sender and no other (`OnceRight`), which is what
keeps a cancellation, a flush and a completion from ending it twice; a device that is closed has
no packet left unless a sender had looked before the close (`LateRight`); and so on.  The lemmas
`KeptReads`, `KeptIrps`, `KeptOrder` and `KeptElsewhere` serve all the actions that only complete reads; `ExtractIs` is the loop of
`QueueExtract`, by induction over the slots.

`GuestServicesProofs`, the debug log.  `LogInv` says for every thread which section it is at and
whether that is on the list (`HolderKnown`), and for every section who may be at it: one that is
off the list is empty and either new or just taken off by the reader (`OffListKnown`), one that is
folded is nobody's (`FoldedKnown`), and who writes through a pointer is at that pointer's section
(`PointerKnown`).  With these `CountKnown` and `TotalKnown` are inductive: a thread that counts
itself in or out changes one cardinality by one (`UsersMove`, `AddersMove`), a line or a read one
term of a sum (`FilledOne`).  `LastIsReader` is why no last reference is given back under a user:
a section on the list has its owner's, and off the list only the reader can still be at it.  All
of it is claimed until a count loses an update or a section is freed before its creator counted
itself in (`Counted`); `AlongStep` serves the steps of a thread that stays at its section,
`TurnsStep` those that turn to another.

`UserProcessesProofs`, the daemons.  `HostInv` is the type invariant and, for every monitor,
`OneRight`: which state of the monitor goes with which place of its daemon and step of its ioctl
(`StageRight`), that the references are exactly the
descriptors of the process, of the launched processes and of those within co_monitor_refdown
(`Holders`) until an update is lost, that there is one while the monitor lives, and none but the
destroying thread's while it is destroyed (`RefsRight`), who of them can be there at all (`JoinRight`), what it has allocated (`HeldRight`) and lost (`LeaksRight`),
and what the process has and why (`UserRight`).  `LeaksAreKnown` and `ExitLeavesNothing` are not
inductive without them: what an error path leaves depends on what had been allocated at that
step, which `EarlyOutcome` and `LateOutcome` work out for every step that can fail.  A step moves
one monitor, so `MovedRight` and `KeptRight` carry the others, and there is one lemma per action.
`MemoryInv` then relates `hostmem_used` to the monitors `Booked`, through the load and the store
of the unlocked update: what a thread loaded is the sum as long as nobody stored meanwhile.  That
the memory of a set of monitors is a sum, whichever is added first (`SumsAdd`), comes from
`NaturalSets`.

`ProgramsProofs`, the driver and the programs.  `ControlInv` says at each place of a program whether
it has a handle, an address and which answer (`StationInv`), how the service manager's record, the
loaded driver and the open handles go together (`UseInv`, `RecordInv`), and who knows of whom.
That is what the addresses rest on: a daemon's index is the number of the monitors it was told of,
`KnowsInv` orders those sets, and `MacInv` ties an address to its index.  If two running daemons
have one address their indices are equal, so the sets have equal cardinality, and unless one has
counted a monitor that has ended since, neither can hold the other: `ControlInvAddresses`.
For the service, `ServiceInv` relates what either thread is about to report to what the service
manager was told last (`StatusInv`), and a stop that was taken to the flag, the write and the guest
(`StopInv`, `WrittenInv`).

`ProgramsProofs`, the card's own answers.  `MasqueradeInv`: while a frame is decided about, the history
already has it and the server's memory has not (`SessionKnown`); the verdict was made from that memory
and no ioctl has touched it unless `straddled` says so (`VerdictKnown`).  `AnswerKnown` has the length of
the options, from `OptionsHave`, which adds up what `SetDHCPOpt` wrote for any length the process
supplied; `ModeKnown` says what the two modes are between the steps of the ioctls, which is where
`ServerFound` could fail; `PassedKnown` what has gone past the server.  Every step of an ioctl comes down to
`AsideStep`, since it marks the frame on its way as mixed, and every step of the frame outside of a
decision to `PassStep`.

`NaturalSets` has the induction: the provers cannot instantiate the library's theorems that take
a predicate, but they can use `WFMin`, which takes a set, so a property is put as the set of the
numbers that have it (`ByInduction`).  A sum over a finite set, as the community modules fold it,
is a recursion over its subsets; by induction over their size it has one solution (`SumsExist`,
`SumUnique`), whichever element is taken first (`SumAdds`).

`UserProcessesProofs`, the helpers.  `HelperInv` adds to `RelayExact` and `BridgeExact` where
messages can be (`ReadsExact`: a queue in the driver only while no read is out, a rest only while
the thread relays it) and the receiver's flag (`CardExact`).  Messages are numbered modulo
`Numbers`; that the numbers on the way are consecutive is carried over appending, taking the
first and joining (`NumberedAppend`, `NumberedTail`, `JoinedAppend`) by `ModUnique` and
`ModShift`, for any modulus.

Only model-checked: the liveness properties (`ThrottleEnds`, `ClosedIsFreed`, `Delivered`,
`RunReturns`, `StopEnds`, `HelpersServe`), which are out of the prover's reach; and
these parts of `GuestDevices`, with their types: `Cofs` (`CofsAgrees`), `SlirpTcp`
(`SlirpExact`), `SlirpDatagrams` (`DatagramsExact`).  `PartsTypeOK` is every
part's type invariant in one run; the parts with proofs have theirs proved.

## Plan

The modules are done in the order `OpenDesc`, `LinuxMessages`, `GuestPages` (where most
threads meet), `MonitorLifecycle` with `Daemon`, the devices, the helpers.  What is left is
to prove more of it, in this order:

1. `Cofs`: that the operations keep the two sides equal, for any table.

## Not modelled, and why

* The passage between the two kernels and the processor state (`arch/i386`): machine code
  that is generated at run time.
* The guest's address space and its boot parameters (`guest_address_space_init`,
  `co_monitor_load_*`): written once, before the guest runs.  Whether the memory for them is
  taken and given back is in `MonitorLifecycle`.
* `kernel/transfer.c`: address arithmetic and a copy, without state; its callers' failures
  are outcomes in `GuestPages` and `BlockDevices`.
* Video: compiled only with `CONFIG_COOPERATIVE_VIDEO`, which `conf/linux-2.6.33.7-config`
  leaves unset.  PCI: a table that is filled once.
* Of the configuration: the video units (not compiled), the paths of images and their
  aliases, the characters of a MAC address; `common/snprintf.c`: formatting.
* The console front ends beyond attach, detach and their copy of the console: user interface.
* The search for a network adapter in the daemons: calls of Windows without state of coLinux.
* Of slirp: the queues of `if.c` as queues (slirp_can_output always answers yes, so they pass
  each packet on at once), IP options, urgent data, the emulated protocols, the programs and
  terminals of `misc.c`, and a second connection between the same ports.
* Of the TAP driver, OpenVPN's, the OID queries and the ioctls that only tell something are
  left out: they keep no state.
* co_user_monitor_close frees the buffer of a read that is still pending
  (`user/monitor.c:127`): memory of a process is in no module; that the read may still end
  with a message is in `OpenDesc`.
* `src/patch` is the guest kernel, of which only the requests it makes are modelled, as
  external definitions.
