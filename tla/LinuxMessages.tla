---------------------------- MODULE LinuxMessages ----------------------------
(***************************************************************************)
(* The messages of a monitor to its guest: linux_message_queue, the thread *)
(* that runs the guest in CO_MONITOR_IOCTL_RUN and sleeps when it idles,   *)
(* the 10 ms timer, and the completions of asynchronous block requests.    *)
(*                                                                         *)
(* Sources: kernel/monitor.c, os/winnt/kernel/block.c (the completion),    *)
(* os/winnt/kernel/interface.c (manager_write) and the wait and timer of   *)
(* os/winnt/kernel/lowlevel.                                               *)
(*                                                                         *)
(* The guest is a coroutine of the thread "run": it goes on from a switch  *)
(* to the next and asks for one operation each time.  What it does with    *)
(* the I/O buffer is modelled from how kernel/monitor.c uses it: it takes  *)
(* every message handed to it before it asks for anything.  The daemon     *)
(* calls RUN again until the guest terminates, then RESET or CLOSE.        *)
(* A block request still in flight when the monitor is destroyed completes *)
(* into freed memory: the model leaves out what happens after that.        *)
(***************************************************************************)
EXTENDS Integers, Sequences

CONSTANTS
  Producer,        (* threads that write messages to the guest              *)
  Size,            (* sizes of a message                                    *)
  Capacity,        (* size of the I/O buffer                                *)
  MaxMessages,     (* bound: messages queued                                *)
  MaxIo,           (* bound: block requests in flight                       *)
  MaxBoots         (* bound: guests one monitor runs                        *)

ASSUME ConstantsAssumption ==
  /\ Size \subseteq Nat \ {0} /\ Capacity \in Nat
  /\ MaxMessages \in Nat /\ MaxIo \in Nat /\ MaxBoots \in Nat

VARIABLES
  state,           (* co_monitor.state, or "DESTROYED"                      *)
  linux_message_queue,
  idle_wait,       (* the event is set                                      *)
  messages_waiting,
  used,            (* bytes of the I/O buffer the loop has filled           *)
  timer,           (* the timer is active                                   *)
  timer_interrupt,
  pc,              (* where the run thread is                               *)
  operation,       (* co_passage_page->operation                            *)
  first,           (* this RUN is the first of its guest                    *)
  waking,          (* producers between queueing and co_os_wait_wakeup      *)
  inflight,        (* block requests of this guest that are not complete    *)
  orphans,         (* those of the guests before it                         *)
  (* history: guests so far, numbers of the last message queued and of the last one
     removed, whether the last hand-over left messages behind, and whether a guest got
     a message meant for one before it *)
  boot, sent, popped, left, stale

runVars   == <<pc, operation, first>>
queueVars == <<linux_message_queue, sent>>
ioVars    == <<inflight, orphans>>
histVars  == <<used, popped, left, stale>>
vars == <<state, linux_message_queue, idle_wait, messages_waiting, timer,
          timer_interrupt, runVars, waking, ioVars, boot, sent, histVars>>

Message == [n : Nat, size : Size, good : BOOLEAN, io : BOOLEAN, boot : Nat]

TypeOK ==
  /\ state \in {"INITIALIZED", "STARTED", "RUNNING", "TERMINATED", "DESTROYED"}
  /\ linux_message_queue \in Seq(Message)
  /\ idle_wait \in BOOLEAN
  /\ messages_waiting \in Nat /\ used \in Nat
  /\ timer \in BOOLEAN /\ timer_interrupt \in BOOLEAN
  /\ pc \in {"user", "enter", "copying", "guest", "exit", "asleep", "awake"}
  /\ operation \in {"START", "IDLE", "FORWARD_INTERRUPT", "MESSAGE_FROM_MONITOR",
                    "MESSAGE_TO_MONITOR", "DEVICE", "TERMINATE"}
  /\ first \in BOOLEAN
  /\ waking \subseteq Producer
  /\ inflight \in Nat /\ orphans \in Nat
  /\ boot \in Nat /\ sent \in Nat /\ popped \in Nat
  /\ left \in BOOLEAN /\ stale \in BOOLEAN

Init ==
  /\ state = "INITIALIZED"
  /\ linux_message_queue = <<>>
  /\ idle_wait = FALSE
  /\ messages_waiting = 0 /\ used = 0
  /\ timer = FALSE /\ timer_interrupt = FALSE
  /\ pc = "user" /\ operation = "START" /\ first = FALSE
  /\ waking = {}
  /\ inflight = 0 /\ orphans = 0
  /\ boot = 1 /\ sent = 0 /\ popped = 0 /\ left = FALSE /\ stale = FALSE

-----------------------------------------------------------------------------
(* Producers: co_monitor_message_from_user queues under the mutex, then wakes *)
(* the run thread.  The completion of a block request does the same in a      *)
(* kernel APC of the run thread: one step, and never while the guest runs or  *)
(* while the thread holds the mutex.                                          *)

Queued(m) ==
  /\ linux_message_queue' = Append(linux_message_queue, m)
  /\ sent' = m.n

(* co_os_wait_wakeup sets the event. *)
Signalled_Not == idle_wait
Signalled == TRUE

(* Requests in flight once one more is complete. *)
Completed_Twice(n) == n - 2
Completed(n) == n - 1

QueueMessage(p, size, good) ==
  /\ state # "DESTROYED" /\ p \notin waking
  /\ pc # "copying"
  /\ sent < MaxMessages
  /\ Queued([n |-> sent + 1, size |-> size, good |-> good, io |-> FALSE, boot |-> boot])
  /\ waking' = waking \cup {p}
  /\ UNCHANGED <<state, idle_wait, messages_waiting, timer, timer_interrupt, runVars,
                 ioVars, boot, histVars>>

WakeUp(p) ==
  /\ p \in waking
  /\ waking' = waking \ {p}
  /\ idle_wait' = Signalled
  /\ UNCHANGED <<state, queueVars, messages_waiting, timer, timer_interrupt, runVars,
                 ioVars, boot, histVars>>

IoDone(old, size) ==
  /\ state # "DESTROYED" /\ pc \notin {"copying", "guest"}
  /\ IF old THEN orphans > 0 /\ orphans' = Completed(orphans) /\ inflight' = inflight
            ELSE inflight > 0 /\ inflight' = Completed(inflight) /\ orphans' = orphans
  /\ Queued([n |-> sent + 1, size |-> size, good |-> TRUE, io |-> TRUE,
             boot |-> IF old THEN boot - 1 ELSE boot])
  /\ idle_wait' = Signalled
  /\ UNCHANGED <<state, messages_waiting, timer, timer_interrupt, runVars, waking,
                 boot, histVars>>

(* timer_callback, a DPC. *)
TimerWakes_NotAtAll == idle_wait
TimerWakes == TRUE

TimerFires ==
  /\ timer
  /\ ~(timer_interrupt /\ idle_wait)
  /\ timer_interrupt' = TRUE
  /\ idle_wait' = TimerWakes
  /\ UNCHANGED <<state, queueVars, messages_waiting, timer, runVars, waking, ioVars,
                 boot, histVars>>

-----------------------------------------------------------------------------
(* callback_return_messages: one message after the other goes to the I/O buffer, *)
(* with the mutex of the queue held.                                             *)

HeadFits ==
  linux_message_queue # <<>> /\ used + Head(linux_message_queue).size <= Capacity

(* co_queue_pop_tail. *)
Popped_Newest(q) == SubSeq(q, 1, Len(q) - 1)
Popped(q) == Tail(q)

Pop ==
  /\ pc = "copying" /\ HeadFits
  /\ linux_message_queue' = Popped(linux_message_queue)
  /\ popped' = Head(linux_message_queue).n

Copy ==
  LET m == Head(linux_message_queue) IN
  /\ Pop /\ m.good
  /\ messages_waiting' = messages_waiting + 1
  /\ used' = used + m.size
  /\ stale' = (stale \/ (~m.io /\ m.boot # boot))
  /\ UNCHANGED <<state, idle_wait, timer, timer_interrupt, runVars, waking, ioVars, boot,
                 sent, left>>

HandedOver(rest) ==
  /\ pc' = "guest" /\ used' = 0
  /\ left' = (rest # <<>>)
  /\ UNCHANGED <<state, idle_wait, messages_waiting, timer, timer_interrupt, operation,
                 first, waking, ioVars, boot, sent, stale>>

(* A message that names an unknown module or device is dropped, and ends the loop. *)
Malformed ==
  /\ Pop /\ ~Head(linux_message_queue).good
  /\ HandedOver(Popped(linux_message_queue))

Copied ==
  /\ pc = "copying" /\ ~HeadFits
  /\ HandedOver(linux_message_queue)
  /\ UNCHANGED <<linux_message_queue, popped>>

-----------------------------------------------------------------------------
(* The run thread: run and iteration.                                      *)

Run ==
  /\ pc = "user" /\ state \in {"STARTED", "RUNNING"}
  /\ first' = (state = "STARTED")
  /\ state' = "RUNNING"
  /\ pc' = "enter"
  /\ UNCHANGED <<queueVars, idle_wait, messages_waiting, timer, timer_interrupt,
                 operation, waking, ioVars, boot, histVars>>

(* The guest asked to idle or was interrupted: hand it what waits, unless it has not
   taken what was handed to it before. *)
Enter ==
  LET returns == operation \in {"FORWARD_INTERRUPT", "IDLE"} IN
  /\ pc = "enter"
  /\ operation' = IF returns THEN "MESSAGE_FROM_MONITOR" ELSE operation
  /\ pc' = IF returns /\ messages_waiting = 0 THEN "copying" ELSE "guest"
  /\ UNCHANGED <<state, queueVars, idle_wait, messages_waiting, timer, timer_interrupt,
                 first, waking, ioVars, boot, histVars>>

(* External: the guest takes its messages, runs, and asks for op. *)
GuestAsks(op) ==
  /\ pc = "guest"
  /\ operation' = op
  /\ messages_waiting' = IF op = "MESSAGE_TO_MONITOR" THEN 1 ELSE 0
  /\ pc' = "exit"
  /\ UNCHANGED <<state, queueVars, idle_wait, timer, timer_interrupt, first, waking,
                 ioVars, boot, histVars>>

(* iteration returned PTRUE; run ignores it in the first RUN of a guest. *)
Again == pc' = IF first THEN "user" ELSE "enter"

(* Return to userspace once in a while. *)
ReturnsToUser_Never == FALSE
ReturnsToUser == timer_interrupt

Interrupted ==
  /\ pc = "exit" /\ operation = "FORWARD_INTERRUPT"
  /\ IF ReturnsToUser THEN timer_interrupt' = FALSE /\ pc' = "user"
                      ELSE timer_interrupt' = timer_interrupt /\ Again
  /\ UNCHANGED <<state, queueVars, idle_wait, messages_waiting, timer, operation, first,
                 waking, ioVars, boot, histVars>>

(* co_idle: sleep on the event, then look at the queue without the mutex. *)
Idle ==
  /\ pc = "exit" /\ operation = "IDLE"
  /\ pc' = "asleep"
  /\ UNCHANGED <<state, queueVars, idle_wait, messages_waiting, timer, timer_interrupt,
                 operation, first, waking, ioVars, boot, histVars>>

(* The event is a SynchronizationEvent: the wait clears it. *)
Woken ==
  /\ pc = "asleep" /\ idle_wait
  /\ idle_wait' = FALSE
  /\ pc' = "awake"
  /\ UNCHANGED <<state, queueVars, messages_waiting, timer, timer_interrupt, operation,
                 first, waking, ioVars, boot, histVars>>

(* The wait is alertable, and co_idle does not look at how it ended: it also ends when the
   daemon is killed. *)
Alerted ==
  /\ pc = "asleep"
  /\ pc' = "awake"
  /\ UNCHANGED <<state, queueVars, idle_wait, messages_waiting, timer, timer_interrupt,
                 operation, first, waking, ioVars, boot, histVars>>

IdleOver ==
  /\ pc = "awake"
  /\ IF linux_message_queue = <<>> THEN pc' = "user" ELSE Again
  /\ UNCHANGED <<state, queueVars, idle_wait, messages_waiting, timer, timer_interrupt,
                 operation, first, waking, ioVars, boot, histVars>>

(* The guest's message goes to incoming_message (OpenDesc); the buffer is free again. *)
MessageToMonitor ==
  /\ pc = "exit" /\ operation = "MESSAGE_TO_MONITOR"
  /\ messages_waiting' = 0
  /\ Again
  /\ UNCHANGED <<state, queueVars, idle_wait, timer, timer_interrupt, operation, first,
                 waking, ioVars, boot, histVars>>

(* device_request: a block request may complete later; nothing else matters here. *)
DeviceRequest(io) ==
  /\ pc = "exit" /\ operation = "DEVICE"
  /\ io => inflight + orphans < MaxIo /\ sent + inflight + orphans < MaxMessages
  /\ inflight' = IF io THEN inflight + 1 ELSE inflight
  /\ Again
  /\ UNCHANGED <<state, queueVars, idle_wait, messages_waiting, timer, timer_interrupt,
                 operation, first, waking, orphans, boot, histVars>>

TerminatedTimer == FALSE

Terminate ==
  /\ pc = "exit" /\ operation = "TERMINATE"
  /\ timer' = TerminatedTimer
  /\ state' = "TERMINATED"
  /\ pc' = "user"
  /\ UNCHANGED <<queueVars, idle_wait, messages_waiting, timer_interrupt, operation,
                 first, waking, ioVars, boot, histVars>>

-----------------------------------------------------------------------------
(* The daemon, between two RUNs: start, co_monitor_user_reset and the destruction of *)
(* the monitor with its last descriptor.                                             *)

Start ==
  /\ pc = "user" /\ state = "INITIALIZED"
  /\ timer' = TRUE
  /\ operation' = "START"
  /\ state' = "STARTED"
  /\ UNCHANGED <<queueVars, idle_wait, messages_waiting, timer_interrupt, pc, first,
                 waking, ioVars, boot, histVars>>

(* The queue after RESET.  What is queued from here on is meant for the next guest. *)
Flushed_Kept == linux_message_queue
Flushed == <<>>

Reset ==
  /\ pc = "user" /\ state = "TERMINATED"
  /\ boot < MaxBoots
  /\ linux_message_queue' = Flushed
  /\ popped' = IF Flushed = <<>> THEN sent ELSE popped
  /\ messages_waiting' = 0
  /\ state' = "INITIALIZED"
  /\ boot' = boot + 1
  /\ orphans' = orphans + inflight /\ inflight' = 0
  /\ left' = FALSE
  /\ UNCHANGED <<idle_wait, timer, timer_interrupt, runVars, waking, used, sent, stale>>

Destroy ==
  /\ pc = "user" /\ waking = {} /\ state # "DESTROYED"
  /\ timer' = IF state \in {"RUNNING", "STARTED"} THEN FALSE ELSE timer
  /\ linux_message_queue' = <<>> /\ popped' = sent
  /\ state' = "DESTROYED"
  /\ UNCHANGED <<idle_wait, messages_waiting, timer_interrupt, runVars, waking, ioVars,
                 boot, used, sent, left, stale>>

-----------------------------------------------------------------------------

Operations == {"IDLE", "FORWARD_INTERRUPT", "MESSAGE_TO_MONITOR", "DEVICE", "TERMINATE"}

RunThread ==
  \/ Run \/ Enter \/ Copy \/ Malformed \/ Copied \/ Interrupted \/ Idle \/ Woken \/ IdleOver \/ MessageToMonitor
  \/ \E io \in BOOLEAN : DeviceRequest(io)
  \/ Terminate

Next ==
  \/ \E p \in Producer :
       WakeUp(p) \/ \E size \in Size, good \in BOOLEAN : QueueMessage(p, size, good)
  \/ \E old \in BOOLEAN, size \in Size : IoDone(old, size)
  \/ TimerFires
  \/ RunThread \/ Alerted
  \/ \E op \in Operations : GuestAsks(op)
  \/ Start \/ Reset \/ Destroy
  \/ state = "DESTROYED" /\ UNCHANGED vars

Spec == Init /\ [][Next]_vars

(* NT runs the run thread and the producers inside the driver and fires the timer, the
   daemon calls RUN again, and the guest asks for something and is interrupted by the
   host's clock again and again. *)
FairSpec ==
  /\ Spec
  /\ \A p \in Producer : WF_vars(WakeUp(p))
  /\ WF_vars(RunThread) /\ WF_vars(TimerFires)
  /\ WF_vars(\E op \in Operations : GuestAsks(op))
  /\ SF_vars(GuestAsks("FORWARD_INTERRUPT"))

-----------------------------------------------------------------------------
(* Properties.                                                             *)

(* The queue and the I/O buffer are one first-in first-out channel: the guest gets the
   messages in the order they were queued, each once, whatever the size of the buffer,
   the order of completions and producers, and a reset. *)
Guest == INSTANCE MessageChannel WITH
  Channel <- {"linux"},
  accepted <- [c \in {"linux"} |-> sent],
  delivered <- [c \in {"linux"} |-> popped],
  pending <- [c \in {"linux"} |-> [i \in 1..Len(linux_message_queue)
                                     |-> linux_message_queue[i].n]],
  waiting <- [c \in {"linux"} |-> FALSE]

ImplementsChannel == Guest!Spec

(* The run thread sleeps beside a queued message only when the event is set, a producer is
   about to set it, or the message was left behind by the last hand-over: those wait for
   the timer, although a producer has asked for them to be delivered. *)
SleepsOnLeftovers ==
  pc = "asleep" /\ linux_message_queue # <<>> => idle_wait \/ waking # {} \/ left

(* A guest that was rebooted gets no message meant for the one before it, but for the
   completions of block requests that were in flight. *)
StaleAreCompletions == ~stale

(* The timer runs only for a started guest, so a destroyed monitor, whose timer is
   cancelled in these states alone, is never touched by timer_callback. *)
TimerNeedsGuest == timer => state \in {"STARTED", "RUNNING"}

(* Guests of one monitor do not meet: one that was rebooted gets nothing of the one before it
   but completions, and the timer of one that is gone does not fire. *)
GuestsApart == StaleAreCompletions /\ TimerNeedsGuest

(* Every message queued for a running guest leaves the queue: the timer wakes an idle
   guest for those that one hand-over left behind. *)
Delivered ==
  \A n \in 1..MaxMessages :
    state = "RUNNING" /\ sent >= n ~> popped >= n \/ state # "RUNNING"

(* RUN returns to userspace once in a while. *)
RunReturns == pc # "user" ~> pc = "user"

=============================================================================
