------------------------- MODULE LinuxMessagesProofs -------------------------
(***************************************************************************)
(* Theorems about LinuxMessages, for every set of producers, every set of  *)
(* sizes and every size of the I/O buffer.                                 *)
(*                                                                         *)
(* IInv is inductive.  The queue holds the messages after the last one     *)
(* removed, in order (QueueExact), so that taking from its tail is a step  *)
(* of the channel.  ControlInv says what the guest has asked for where     *)
(* the run thread is, and Wakes follows a queued message through the run   *)
(* thread: it is about to be handed over, was left behind, or the event is *)
(* set for it; asleep, only the last three remain (SleepsOnLeftovers).     *)
(***************************************************************************)
EXTENDS LinuxMessages, TLAPS

(* The queue holds the messages popped + 1 .. sent in this order. *)
QueueExact ==
  /\ Len(linux_message_queue) = sent - popped
  /\ \A i \in 1..Len(linux_message_queue) : linux_message_queue[i].n = popped + i

(* What is queued is for this guest, but for completions. *)
Meant ==
  \A i \in 1..Len(linux_message_queue) :
    linux_message_queue[i].io \/ linux_message_queue[i].boot = boot

Asked == operation \in {"IDLE", "FORWARD_INTERRUPT"}

ControlInv ==
  /\ pc # "user" => state = "RUNNING"
  /\ state = "TERMINATED" => operation = "TERMINATE"
  /\ state = "INITIALIZED" => operation \in {"START", "TERMINATE"}
  /\ pc \in {"asleep", "awake"} => operation = "IDLE"
  /\ pc \in {"user", "enter", "exit", "asleep", "awake"} /\ Asked => messages_waiting = 0

(* Where the run thread can be when a queued message is taken next without the event. *)
OnItsWay == pc \in {"copying", "awake"} \/ (pc \in {"user", "enter"} /\ Asked)

Wakes ==
  linux_message_queue # <<>> => idle_wait \/ waking # {} \/ left \/ OnItsWay

IInv ==
  /\ TypeOK /\ boot # 0
  /\ QueueExact /\ Meant /\ StaleAreCompletions
  /\ TimerNeedsGuest /\ ControlInv /\ Wakes

-----------------------------------------------------------------------------
(* Lemmas about the queue.                                                 *)

LEMMA QueuedKeeps ==
  ASSUME IInv, NEW size \in Size, NEW good \in BOOLEAN, NEW io \in BOOLEAN,
         NEW b \in Nat, io \/ b = boot,
         Queued([n |-> sent + 1, size |-> size, good |-> good, io |-> io, boot |-> b]),
         UNCHANGED <<popped, boot>>
  PROVE  /\ linux_message_queue' \in Seq(Message) /\ sent' \in Nat
         /\ QueueExact' /\ Meant'
<1> DEFINE m == [n |-> sent + 1, size |-> size, good |-> good, io |-> io, boot |-> b]
<1>1. /\ linux_message_queue \in Seq(Message) /\ sent \in Nat /\ popped \in Nat
      /\ QueueExact /\ Meant
  BY DEF IInv, TypeOK
<1>2. m \in Message
  BY <1>1 DEF Message
<1>3. linux_message_queue' = Append(linux_message_queue, m) /\ sent' = sent + 1
  BY DEF Queued
<1>4. m.n = sent + 1 /\ (m.io \/ m.boot = boot)
  OBVIOUS
<1> HIDE DEF m
<1>5. linux_message_queue' \in Seq(Message) /\ sent' \in Nat
  BY <1>1, <1>2, <1>3
<1>6. QueueExact'
  BY <1>1, <1>2, <1>3, <1>4 DEF QueueExact
<1>7. Meant'
  BY <1>1, <1>2, <1>3, <1>4 DEF Meant
<1> QED
  BY <1>5, <1>6, <1>7

LEMMA PopKeeps ==
  ASSUME IInv, Pop, UNCHANGED <<sent, boot>>
  PROVE  /\ linux_message_queue' \in Seq(Message) /\ popped' \in Nat
         /\ Head(linux_message_queue) \in Message
         /\ Head(linux_message_queue).io \/ Head(linux_message_queue).boot = boot
         /\ QueueExact' /\ Meant'
<1> DEFINE q == linux_message_queue
<1>1. /\ q \in Seq(Message) /\ q # <<>> /\ sent \in Nat /\ popped \in Nat
      /\ QueueExact /\ Meant
  BY DEF IInv, TypeOK, Pop, HeadFits
<1>2. q' = Tail(q) /\ popped' = Head(q).n
  BY DEF Pop, Popped
<1>3. Head(q) = q[1] /\ Head(q) \in Message /\ Len(q) >= 1
  BY <1>1
<1>4. popped' = popped + 1
  BY <1>1, <1>2, <1>3 DEF QueueExact
<1>5. /\ q' \in Seq(Message) /\ Len(q') = Len(q) - 1
      /\ \A i \in 1..Len(q') : q'[i] = q[i + 1] /\ i + 1 \in 1..Len(q)
  BY <1>1, <1>2
<1>6. QueueExact'
  <2>1. Len(q') = sent' - popped'
    BY <1>1, <1>4, <1>5 DEF QueueExact
  <2>2. ASSUME NEW i \in 1..Len(q') PROVE q'[i].n = popped' + i
    <3>1. i \in Int /\ q'[i] = q[i + 1] /\ i + 1 \in 1..Len(q)
      BY <1>5
    <3>2. q[i + 1].n = popped + (i + 1)
      BY <1>1, <3>1 DEF QueueExact
    <3> QED
      BY <1>1, <1>4, <3>1, <3>2
  <2> QED
    BY <2>1, <2>2 DEF QueueExact
<1>7. Meant'
  BY <1>1, <1>5 DEF Meant
<1> QED
  BY <1>1, <1>3, <1>4, <1>5, <1>6, <1>7 DEF Meant

-----------------------------------------------------------------------------
LEMMA InitIInv == Init => IInv
<1> SUFFICES ASSUME Init PROVE IInv
  OBVIOUS
<1>1. TypeOK /\ boot # 0
  <2>1. <<>> \in Seq(Message)
    OBVIOUS
  <2>2. /\ messages_waiting \in Nat /\ used \in Nat /\ inflight \in Nat /\ orphans \in Nat
        /\ boot \in Nat /\ sent \in Nat /\ popped \in Nat /\ boot # 0
    BY DEF Init
  <2>3. linux_message_queue \in Seq(Message)
    BY <2>1 DEF Init
  <2> QED
    BY <2>2, <2>3, Zenon DEF Init, TypeOK
<1>2. QueueExact /\ Meant
  BY DEF Init, QueueExact, Meant
<1> QED
  BY <1>1, <1>2 DEF Init, IInv, StaleAreCompletions, TimerNeedsGuest, ControlInv, Wakes

(* Most steps leave the queue and the guests alone. *)
LEMMA QueueLeftAlone ==
  ASSUME IInv, UNCHANGED <<queueVars, popped, boot>>
  PROVE  QueueExact' /\ Meant'
BY DEF IInv, QueueExact, Meant, queueVars

(* What the steps of the producers, the completions and the timer have to keep. *)
LEMMA OutsideStep ==
  ASSUME IInv,
         \/ \E p \in Producer : WakeUp(p)
         \/ \E p \in Producer, size \in Size, good \in BOOLEAN : QueueMessage(p, size, good)
         \/ \E old \in BOOLEAN, size \in Size : IoDone(old, size)
         \/ TimerFires
  PROVE  IInv'
<1> USE DEF runVars, queueVars, ioVars, histVars
<1>0. /\ TypeOK /\ boot # 0 /\ StaleAreCompletions /\ TimerNeedsGuest
      /\ ControlInv /\ Wakes
  BY DEF IInv
<1>1. ASSUME NEW p \in Producer, WakeUp(p) PROVE IInv'
  <2>1. QueueExact' /\ Meant'
    BY <1>1, QueueLeftAlone DEF WakeUp
  <2>2. TypeOK' /\ boot' # 0
    BY <1>0, <1>1 DEF TypeOK, WakeUp, Signalled
  <2>3. StaleAreCompletions' /\ TimerNeedsGuest' /\ ControlInv'
    BY <1>0, <1>1 DEF StaleAreCompletions, TimerNeedsGuest, ControlInv, Asked, WakeUp
  <2>4. Wakes'
    BY <1>1 DEF Wakes, WakeUp, Signalled
  <2> QED
    BY <2>1, <2>2, <2>3, <2>4 DEF IInv
<1>2. ASSUME NEW p \in Producer, NEW size \in Size, NEW good \in BOOLEAN,
             QueueMessage(p, size, good)
      PROVE  IInv'
  <2>1. boot \in Nat
    BY <1>0 DEF TypeOK
  <2>2. /\ linux_message_queue' \in Seq(Message) /\ sent' \in Nat
        /\ QueueExact' /\ Meant'
    BY <1>2, <2>1, QueuedKeeps DEF QueueMessage
  <2>3. TypeOK' /\ boot' # 0
    BY <1>0, <1>2, <2>2 DEF TypeOK, QueueMessage
  <2>4. StaleAreCompletions' /\ TimerNeedsGuest' /\ ControlInv'
    BY <1>0, <1>2 DEF StaleAreCompletions, TimerNeedsGuest, ControlInv, Asked, QueueMessage
  <2>5. Wakes'
    BY <1>2 DEF Wakes, QueueMessage
  <2> QED
    BY <2>2, <2>3, <2>4, <2>5 DEF IInv
<1>3. ASSUME NEW old \in BOOLEAN, NEW size \in Size, IoDone(old, size) PROVE IInv'
  <2> DEFINE b == IF old THEN boot - 1 ELSE boot
  <2>1. b \in Nat
    BY <1>0 DEF TypeOK
  <2>2. /\ linux_message_queue' \in Seq(Message) /\ sent' \in Nat
        /\ QueueExact' /\ Meant'
    BY <1>3, <2>1, QueuedKeeps DEF IoDone
  <2>3. inflight' \in Nat /\ orphans' \in Nat
    BY <1>0, <1>3 DEF TypeOK, IoDone, Completed
  <2>4. TypeOK' /\ boot' # 0
    BY <1>0, <1>3, <2>2, <2>3 DEF TypeOK, IoDone, Signalled
  <2>5. StaleAreCompletions' /\ TimerNeedsGuest' /\ ControlInv'
    BY <1>0, <1>3 DEF StaleAreCompletions, TimerNeedsGuest, ControlInv, Asked, IoDone
  <2>6. Wakes'
    BY <1>3 DEF Wakes, IoDone, Signalled
  <2> QED
    BY <2>2, <2>4, <2>5, <2>6 DEF IInv
<1>4. ASSUME TimerFires PROVE IInv'
  <2>1. QueueExact' /\ Meant'
    BY <1>4, QueueLeftAlone DEF TimerFires
  <2>2. TypeOK' /\ boot' # 0
    BY <1>0, <1>4 DEF TypeOK, TimerFires, TimerWakes
  <2>3. StaleAreCompletions' /\ TimerNeedsGuest' /\ ControlInv'
    BY <1>0, <1>4 DEF StaleAreCompletions, TimerNeedsGuest, ControlInv, Asked, TimerFires
  <2>4. Wakes'
    BY <1>4 DEF Wakes, TimerFires, TimerWakes
  <2> QED
    BY <2>1, <2>2, <2>3, <2>4 DEF IInv
<1> QED
  BY <1>1, <1>2, <1>3, <1>4

(* The hand-over. *)
LEMMA HandOverStep == ASSUME IInv, Enter \/ Copy \/ Malformed \/ Copied PROVE IInv'
<1> USE DEF runVars, queueVars, ioVars, histVars
<1>0. /\ TypeOK /\ boot # 0 /\ StaleAreCompletions /\ TimerNeedsGuest
      /\ ControlInv /\ Wakes /\ QueueExact /\ Meant
  BY DEF IInv
<1>1. ASSUME Enter PROVE IInv'
  <2>1. QueueExact' /\ Meant'
    BY <1>1, QueueLeftAlone DEF Enter
  <2>2. TypeOK' /\ boot' # 0
    BY <1>0, <1>1 DEF TypeOK, Enter
  <2>3. StaleAreCompletions' /\ TimerNeedsGuest' /\ ControlInv'
    BY <1>0, <1>1 DEF StaleAreCompletions, TimerNeedsGuest, ControlInv, Asked, Enter
  <2>4. Wakes'
    BY <1>0, <1>1 DEF Wakes, OnItsWay, ControlInv, Asked, Enter
  <2> QED
    BY <2>1, <2>2, <2>3, <2>4 DEF IInv
<1>2. ASSUME Copy PROVE IInv'
  <2>1. /\ linux_message_queue' \in Seq(Message) /\ popped' \in Nat
        /\ Head(linux_message_queue) \in Message
        /\ Head(linux_message_queue).io \/ Head(linux_message_queue).boot = boot
        /\ QueueExact' /\ Meant'
    BY <1>2, PopKeeps DEF Copy
  <2>2. used' \in Nat /\ messages_waiting' \in Nat
    <3>1. Head(linux_message_queue).size \in Nat
      BY <2>1, ConstantsAssumption DEF Message
    <3> QED
      BY <1>0, <1>2, <3>1 DEF TypeOK, Copy
  <2>3. stale' = FALSE
    BY <1>0, <1>2, <2>1 DEF StaleAreCompletions, TypeOK, Copy
  <2>4. TypeOK' /\ boot' # 0
    BY <1>0, <1>2, <2>1, <2>2, <2>3 DEF TypeOK, Copy
  <2>5. StaleAreCompletions' /\ TimerNeedsGuest' /\ ControlInv'
    BY <1>0, <1>2, <2>3
       DEF StaleAreCompletions, TimerNeedsGuest, ControlInv, Asked, Copy, Pop
  <2>6. Wakes'
    BY <1>2 DEF Wakes, OnItsWay, Copy, Pop
  <2> QED
    BY <2>1, <2>4, <2>5, <2>6 DEF IInv
<1>3. ASSUME Malformed PROVE IInv'
  <2>1. /\ linux_message_queue' \in Seq(Message) /\ popped' \in Nat
        /\ QueueExact' /\ Meant'
    BY <1>3, PopKeeps DEF Malformed, HandedOver
  <2>2. TypeOK' /\ boot' # 0
    BY <1>0, <1>3, <2>1 DEF TypeOK, Malformed, HandedOver
  <2>3. StaleAreCompletions' /\ TimerNeedsGuest' /\ ControlInv'
    BY <1>0, <1>3
       DEF StaleAreCompletions, TimerNeedsGuest, ControlInv, Asked, Malformed, HandedOver, Pop
  <2>4. Wakes'
    BY <1>3 DEF Wakes, Malformed, HandedOver, Pop
  <2> QED
    BY <2>1, <2>2, <2>3, <2>4 DEF IInv
<1>4. ASSUME Copied PROVE IInv'
  <2>1. QueueExact' /\ Meant'
    BY <1>4, QueueLeftAlone DEF Copied, HandedOver
  <2>2. TypeOK' /\ boot' # 0
    BY <1>0, <1>4 DEF TypeOK, Copied, HandedOver
  <2>3. StaleAreCompletions' /\ TimerNeedsGuest' /\ ControlInv'
    BY <1>0, <1>4
       DEF StaleAreCompletions, TimerNeedsGuest, ControlInv, Asked, Copied, HandedOver
  <2>4. Wakes'
    BY <1>4 DEF Wakes, Copied, HandedOver
  <2> QED
    BY <2>1, <2>2, <2>3, <2>4 DEF IInv
<1> QED
  BY <1>1, <1>2, <1>3, <1>4

(* The run thread between two hand-overs, and the guest. *)
LEMMA RunStep ==
  ASSUME IInv,
         \/ Run \/ Interrupted \/ Idle \/ Woken \/ Alerted \/ IdleOver \/ MessageToMonitor
         \/ \E io \in BOOLEAN : DeviceRequest(io)
         \/ Terminate
         \/ \E op \in Operations : GuestAsks(op)
  PROVE  IInv'
<1> USE DEF runVars, queueVars, ioVars, histVars
<1>0. /\ TypeOK /\ boot # 0 /\ StaleAreCompletions /\ TimerNeedsGuest
      /\ ControlInv /\ Wakes
  BY DEF IInv
<1>1. ASSUME Run PROVE IInv'
  <2>1. QueueExact' /\ Meant'
    BY <1>1, QueueLeftAlone DEF Run
  <2>2. TypeOK' /\ boot' # 0
    BY <1>0, <1>1 DEF TypeOK, Run
  <2>3. StaleAreCompletions' /\ TimerNeedsGuest' /\ ControlInv'
    BY <1>0, <1>1 DEF StaleAreCompletions, TimerNeedsGuest, ControlInv, Asked, Run
  <2>4. Wakes'
    BY <1>0, <1>1 DEF Wakes, OnItsWay, ControlInv, Asked, Run
  <2> QED
    BY <2>1, <2>2, <2>3, <2>4 DEF IInv
<1>2. ASSUME Interrupted PROVE IInv'
  <2>1. QueueExact' /\ Meant'
    BY <1>2, QueueLeftAlone DEF Interrupted
  <2>2. TypeOK' /\ boot' # 0
    BY <1>0, <1>2 DEF TypeOK, Interrupted, ReturnsToUser, Again
  <2>3. StaleAreCompletions' /\ TimerNeedsGuest' /\ ControlInv'
    BY <1>0, <1>2 DEF StaleAreCompletions, TimerNeedsGuest, ControlInv, Asked, Interrupted, ReturnsToUser, Again
  <2>4. Wakes'
    BY <1>0, <1>2 DEF Wakes, OnItsWay, ControlInv, Asked, Interrupted, ReturnsToUser, Again
  <2> QED
    BY <2>1, <2>2, <2>3, <2>4 DEF IInv
<1>3. ASSUME Idle PROVE IInv'
  <2>1. QueueExact' /\ Meant'
    BY <1>3, QueueLeftAlone DEF Idle
  <2>2. TypeOK' /\ boot' # 0
    BY <1>0, <1>3 DEF TypeOK, Idle
  <2>3. StaleAreCompletions' /\ TimerNeedsGuest' /\ ControlInv'
    BY <1>0, <1>3 DEF StaleAreCompletions, TimerNeedsGuest, ControlInv, Asked, Idle
  <2>4. Wakes'
    BY <1>0, <1>3 DEF Wakes, OnItsWay, ControlInv, Asked, Idle
  <2> QED
    BY <2>1, <2>2, <2>3, <2>4 DEF IInv
<1>4. ASSUME Woken PROVE IInv'
  <2>1. QueueExact' /\ Meant'
    BY <1>4, QueueLeftAlone DEF Woken
  <2>2. TypeOK' /\ boot' # 0
    BY <1>0, <1>4, ZenonT(60) DEF TypeOK, Woken
  <2>3. StaleAreCompletions' /\ TimerNeedsGuest' /\ ControlInv'
    BY <1>0, <1>4 DEF StaleAreCompletions, TimerNeedsGuest, ControlInv, Asked, Woken
  <2>4. Wakes'
    BY <1>0, <1>4 DEF Wakes, OnItsWay, ControlInv, Asked, Woken
  <2> QED
    BY <2>1, <2>2, <2>3, <2>4 DEF IInv
<1>5. ASSUME Alerted PROVE IInv'
  <2>1. QueueExact' /\ Meant'
    BY <1>5, QueueLeftAlone DEF Alerted
  <2>2. TypeOK' /\ boot' # 0
    BY <1>0, <1>5 DEF TypeOK, Alerted
  <2>3. StaleAreCompletions' /\ TimerNeedsGuest' /\ ControlInv'
    BY <1>0, <1>5 DEF StaleAreCompletions, TimerNeedsGuest, ControlInv, Asked, Alerted
  <2>4. Wakes'
    BY <1>0, <1>5 DEF Wakes, OnItsWay, ControlInv, Asked, Alerted
  <2> QED
    BY <2>1, <2>2, <2>3, <2>4 DEF IInv
<1>6. ASSUME IdleOver PROVE IInv'
  <2>1. QueueExact' /\ Meant'
    BY <1>6, QueueLeftAlone DEF IdleOver
  <2>2. TypeOK' /\ boot' # 0
    BY <1>0, <1>6 DEF TypeOK, IdleOver, Again
  <2>3. StaleAreCompletions' /\ TimerNeedsGuest' /\ ControlInv'
    BY <1>0, <1>6 DEF StaleAreCompletions, TimerNeedsGuest, ControlInv, Asked, IdleOver, Again
  <2>4. Wakes'
    BY <1>0, <1>6 DEF Wakes, OnItsWay, ControlInv, Asked, IdleOver, Again
  <2> QED
    BY <2>1, <2>2, <2>3, <2>4 DEF IInv
<1>7. ASSUME MessageToMonitor PROVE IInv'
  <2>1. QueueExact' /\ Meant'
    BY <1>7, QueueLeftAlone DEF MessageToMonitor
  <2>2. TypeOK' /\ boot' # 0
    BY <1>0, <1>7 DEF TypeOK, MessageToMonitor, Again
  <2>3. StaleAreCompletions' /\ TimerNeedsGuest' /\ ControlInv'
    BY <1>0, <1>7 DEF StaleAreCompletions, TimerNeedsGuest, ControlInv, Asked, MessageToMonitor, Again
  <2>4. Wakes'
    BY <1>0, <1>7 DEF Wakes, OnItsWay, ControlInv, Asked, MessageToMonitor, Again
  <2> QED
    BY <2>1, <2>2, <2>3, <2>4 DEF IInv
<1>8. ASSUME NEW io \in BOOLEAN, DeviceRequest(io) PROVE IInv'
  <2>1. QueueExact' /\ Meant'
    BY <1>8, QueueLeftAlone DEF DeviceRequest
  <2>2. TypeOK' /\ boot' # 0
    BY <1>0, <1>8 DEF TypeOK, DeviceRequest, Again
  <2>3. StaleAreCompletions' /\ TimerNeedsGuest' /\ ControlInv'
    BY <1>0, <1>8 DEF StaleAreCompletions, TimerNeedsGuest, ControlInv, Asked, DeviceRequest, Again
  <2>4. Wakes'
    BY <1>0, <1>8 DEF Wakes, OnItsWay, ControlInv, Asked, DeviceRequest, Again
  <2> QED
    BY <2>1, <2>2, <2>3, <2>4 DEF IInv
<1>9. ASSUME Terminate PROVE IInv'
  <2>1. QueueExact' /\ Meant'
    BY <1>9, QueueLeftAlone DEF Terminate
  <2>2. TypeOK' /\ boot' # 0
    BY <1>0, <1>9 DEF TypeOK, Terminate, TerminatedTimer
  <2>3. StaleAreCompletions' /\ TimerNeedsGuest' /\ ControlInv'
    BY <1>0, <1>9 DEF StaleAreCompletions, TimerNeedsGuest, ControlInv, Asked, Terminate, TerminatedTimer
  <2>4. Wakes'
    BY <1>0, <1>9 DEF Wakes, OnItsWay, ControlInv, Asked, Terminate, TerminatedTimer
  <2> QED
    BY <2>1, <2>2, <2>3, <2>4 DEF IInv
<1>10. ASSUME NEW op \in Operations, GuestAsks(op) PROVE IInv'
  <2>1. QueueExact' /\ Meant'
    BY <1>10, QueueLeftAlone DEF GuestAsks
  <2>2. TypeOK' /\ boot' # 0
    BY <1>0, <1>10 DEF TypeOK, GuestAsks, Operations
  <2>3. StaleAreCompletions' /\ TimerNeedsGuest' /\ ControlInv'
    BY <1>0, <1>10 DEF StaleAreCompletions, TimerNeedsGuest, ControlInv, Asked, GuestAsks, Operations
  <2>4. Wakes'
    BY <1>0, <1>10 DEF Wakes, OnItsWay, ControlInv, Asked, GuestAsks, Operations
  <2> QED
    BY <2>1, <2>2, <2>3, <2>4 DEF IInv
<1> QED
  BY <1>1, <1>2, <1>3, <1>4, <1>5, <1>6, <1>7, <1>8, <1>9, <1>10

(* The daemon between two RUNs. *)
LEMMA DaemonStep == ASSUME IInv, Start \/ Reset \/ Destroy PROVE IInv'
<1> USE DEF runVars, queueVars, ioVars, histVars
<1>0. /\ TypeOK /\ boot # 0 /\ StaleAreCompletions /\ TimerNeedsGuest
      /\ ControlInv /\ Wakes
  BY DEF IInv
<1>1. ASSUME Start PROVE IInv'
  <2>1. QueueExact' /\ Meant'
    BY <1>1, QueueLeftAlone DEF Start
  <2>2. TypeOK' /\ boot' # 0
    BY <1>0, <1>1 DEF TypeOK, Start
  <2>3. StaleAreCompletions' /\ TimerNeedsGuest' /\ ControlInv'
    BY <1>0, <1>1 DEF StaleAreCompletions, TimerNeedsGuest, ControlInv, Asked, Start
  <2>4. Wakes'
    BY <1>0, <1>1 DEF Wakes, OnItsWay, ControlInv, Asked, Start
  <2> QED
    BY <2>1, <2>2, <2>3, <2>4 DEF IInv
<1>2. ASSUME Reset PROVE IInv'
  <2>1. linux_message_queue' = <<>> /\ popped' = sent /\ sent' = sent
    BY <1>2 DEF Reset, Flushed
  <2>2. sent \in Nat
    BY <1>0 DEF TypeOK
  <2>3. linux_message_queue' \in Seq(Message) /\ QueueExact' /\ Meant' /\ Wakes'
    BY <2>1, <2>2 DEF QueueExact, Meant, Wakes
  <2>4. TypeOK' /\ boot' # 0
    <3>1. boot' \in Nat /\ boot' # 0 /\ orphans' \in Nat /\ inflight' \in Nat
          /\ messages_waiting' \in Nat
      BY <1>0, <1>2 DEF TypeOK, Reset
    <3>2. sent' \in Nat /\ popped' \in Nat
      BY <2>1, <2>2
    <3> QED
      BY <1>0, <1>2, <2>3, <3>1, <3>2 DEF TypeOK, Reset
  <2>5. StaleAreCompletions' /\ TimerNeedsGuest' /\ ControlInv'
    BY <1>0, <1>2 DEF StaleAreCompletions, TimerNeedsGuest, ControlInv, Asked, Reset
  <2> QED
    BY <2>3, <2>4, <2>5 DEF IInv
<1>3. ASSUME Destroy PROVE IInv'
  <2>1. linux_message_queue' = <<>> /\ popped' = sent /\ sent' = sent
    BY <1>3 DEF Destroy
  <2>2. sent \in Nat
    BY <1>0 DEF TypeOK
  <2>3. linux_message_queue' \in Seq(Message) /\ QueueExact' /\ Meant' /\ Wakes'
    BY <2>1, <2>2 DEF QueueExact, Meant, Wakes
  <2>4. TypeOK' /\ boot' # 0
    BY <1>0, <1>3, <2>1, <2>2, <2>3 DEF TypeOK, Destroy
  <2>5. StaleAreCompletions' /\ TimerNeedsGuest' /\ ControlInv'
    BY <1>0, <1>3 DEF StaleAreCompletions, TimerNeedsGuest, ControlInv, Asked, Destroy
  <2> QED
    BY <2>3, <2>4, <2>5 DEF IInv
<1> QED
  BY <1>1, <1>2, <1>3

LEMMA NextIInv == IInv /\ [Next]_vars => IInv'
<1> SUFFICES ASSUME IInv, [Next]_vars PROVE IInv'
  OBVIOUS
<1>1. CASE UNCHANGED vars
  BY <1>1 DEF IInv, TypeOK, QueueExact, Meant, StaleAreCompletions, TimerNeedsGuest,
              ControlInv, Asked, Wakes, OnItsWay,
              vars, runVars, queueVars, ioVars, histVars
<1>2. CASE Next
  BY <1>1, <1>2, OutsideStep, HandOverStep, RunStep, DaemonStep DEF Next, RunThread
<1> QED
  BY <1>1, <1>2

-----------------------------------------------------------------------------
(* Every reachable state is well typed, whatever the producers, the sizes and the buffer. *)
THEOREM TypeCorrect == Spec => []TypeOK
<1>1. IInv => TypeOK
  BY DEF IInv
<1> QED
  BY <1>1, InitIInv, NextIInv, PTL DEF Spec

(* timer_callback never runs for a monitor that is destroyed, reset or terminated. *)
THEOREM TimerIsSafe == Spec => []TimerNeedsGuest
<1>1. IInv => TimerNeedsGuest
  BY DEF IInv
<1> QED
  BY <1>1, InitIInv, NextIInv, PTL DEF Spec

(* A rebooted guest gets no message meant for the one before it but completions. *)
THEOREM ResetFlushes == Spec => []StaleAreCompletions
<1>1. IInv => StaleAreCompletions
  BY DEF IInv
<1> QED
  BY <1>1, InitIInv, NextIInv, PTL DEF Spec

(* Together: nothing but a completion passes from one guest of a monitor to the next. *)
THEOREM GuestsNeverMeet == Spec => []GuestsApart
BY TimerIsSafe, ResetFlushes, PTL DEF GuestsApart

(* The run thread never sleeps over a message but for those one hand-over left behind. *)
THEOREM NoMessageSleptOver == Spec => []SleepsOnLeftovers
<1>1. IInv => SleepsOnLeftovers
  BY DEF IInv, Wakes, OnItsWay, SleepsOnLeftovers
<1> QED
  BY <1>1, InitIInv, NextIInv, PTL DEF Spec

-----------------------------------------------------------------------------
(* Refinement of MessageChannel.                                           *)

Numbers(q) == [i \in 1..Len(q) |-> q[i].n]

SameChannel == UNCHANGED <<linux_message_queue, sent, popped>>

LEMMA ChannelView ==
  /\ Guest!Init <=> /\ sent = 0 /\ popped = 0 /\ Numbers(linux_message_queue) = <<>>
  /\ SameChannel => UNCHANGED Guest!chanVars
<1>1. Guest!Init <=> /\ sent = 0 /\ popped = 0 /\ Numbers(linux_message_queue) = <<>>
  BY DEF Guest!Init, Numbers
<1>2. SameChannel => UNCHANGED Guest!chanVars
  BY DEF SameChannel, Guest!chanVars
<1> QED
  BY <1>1, <1>2

LEMMA NumbersType ==
  ASSUME NEW q \in Seq(Message)
  PROVE  Numbers(q) \in Seq(Nat) /\ Len(Numbers(q)) = Len(q)
<1>1. Len(q) \in Nat /\ \A i \in 1..Len(q) : q[i] \in Message
  OBVIOUS
<1>2. \A i \in 1..Len(q) : q[i].n \in Nat
  BY <1>1 DEF Message
<1>3. Numbers(q) \in [1..Len(q) -> Nat]
  BY <1>2 DEF Numbers
<1> QED
  BY <1>1, <1>3

LEMMA AcceptedRefines ==
  ASSUME IInv, NEW m \in Message, m.n = sent + 1, Queued(m), popped' = popped
  PROVE  Guest!Next
<1> DEFINE q == linux_message_queue
<1>1. q \in Seq(Message) /\ sent \in Nat
  BY DEF IInv, TypeOK
<1>2. q' = Append(q, m) /\ sent' = sent + 1
  BY DEF Queued
<1>3. Numbers(q') = Append(Numbers(q), sent + 1)
  <2>1. Numbers(q) \in Seq(Nat) /\ Len(Numbers(q)) = Len(q)
    BY <1>1, NumbersType
  <2>2. Len(q') = Len(q) + 1 /\ q'[Len(q) + 1] = m /\ \A i \in 1..Len(q) : q'[i] = q[i]
    BY <1>1, <1>2
  <2>3. DOMAIN Append(Numbers(q), sent + 1) = 1..Len(q')
    BY <1>1, <2>1, <2>2
  <2>4. \A i \in 1..Len(q') : Append(Numbers(q), sent + 1)[i] = q'[i].n
    BY <1>1, <2>1, <2>2 DEF Numbers
  <2>5. Append(Numbers(q), sent + 1) = [i \in 1..Len(q') |-> Append(Numbers(q), sent + 1)[i]]
    BY <1>1, <2>1, <2>3
  <2> QED
    BY <2>4, <2>5 DEF Numbers
<1>4. Guest!Accept("linux")
  BY <1>2, <1>3 DEF Guest!Accept, Numbers
<1> QED
  BY <1>4 DEF Guest!Next

LEMMA TakenRefines ==
  ASSUME IInv, NEW n \in 1..Len(linux_message_queue),
         linux_message_queue' = SubSeq(linux_message_queue, n + 1, Len(linux_message_queue)),
         popped' = linux_message_queue[n].n, sent' = sent
  PROVE  Guest!Next
<1> DEFINE q == linux_message_queue
<1>1. q \in Seq(Message) /\ n \in Nat /\ n <= Len(q) /\ Len(q) \in Nat
  BY DEF IInv, TypeOK
<1>2. Numbers(q) \in Seq(Nat) /\ Len(Numbers(q)) = Len(q)
  BY <1>1, NumbersType
<1>3. Numbers(q') = SubSeq(Numbers(q), n + 1, Len(Numbers(q)))
  <2>1. /\ Len(q') = Len(q) - n
        /\ \A i \in 1..Len(q') : q'[i] = q[i + n] /\ i + n \in 1..Len(q)
    BY <1>1
  <2>2. SubSeq(Numbers(q), n + 1, Len(q)) = [i \in 1..(Len(q) - n) |-> Numbers(q)[i + n]]
    BY <1>1, <1>2
  <2>3. \A i \in 1..Len(q') : Numbers(q)[i + n] = q'[i].n
    BY <2>1 DEF Numbers
  <2> QED
    BY <1>2, <2>1, <2>2, <2>3 DEF Numbers
<1>4. Guest!Take("linux", n)
  BY <1>1, <1>3 DEF Guest!Take, Numbers
<1>5. n \in 1..Len(Numbers(q))
  BY <1>2
<1> QED
  BY <1>4, <1>5 DEF Guest!Next, Numbers

LEMMA StepRefines == ASSUME IInv, Next PROVE Guest!Next \/ SameChannel
<1> USE DEF runVars, queueVars, ioVars, histVars
<1> DEFINE q == linux_message_queue
<1>0. /\ q \in Seq(Message) /\ sent \in Nat /\ popped \in Nat /\ boot \in Nat /\ boot # 0
      /\ QueueExact
  BY DEF IInv, TypeOK
<1>1. ASSUME NEW p \in Producer, NEW size \in Size, NEW good \in BOOLEAN,
             QueueMessage(p, size, good)
      PROVE  Guest!Next
  <2> DEFINE m == [n |-> sent + 1, size |-> size, good |-> good, io |-> FALSE, boot |-> boot]
  <2>1. m \in Message /\ m.n = sent + 1
    BY <1>0 DEF Message
  <2> QED
    BY <1>1, <2>1, AcceptedRefines DEF QueueMessage
<1>2. ASSUME NEW old \in BOOLEAN, NEW size \in Size, IoDone(old, size) PROVE Guest!Next
  <2> DEFINE m == [n |-> sent + 1, size |-> size, good |-> TRUE, io |-> TRUE,
                   boot |-> IF old THEN boot - 1 ELSE boot]
  <2>1. m \in Message /\ m.n = sent + 1
    BY <1>0 DEF Message
  <2> QED
    BY <1>2, <2>1, AcceptedRefines DEF IoDone
<1>3. ASSUME Pop, sent' = sent PROVE Guest!Next
  <2>1. q # <<>> /\ q' = Tail(q) /\ popped' = Head(q).n
    BY <1>3 DEF Pop, HeadFits, Popped
  <2>2. 1 \in 1..Len(q) /\ Head(q) = q[1] /\ Tail(q) = SubSeq(q, 1 + 1, Len(q))
    BY <1>0, <2>1
  <2> QED
    BY <1>3, <2>1, <2>2, TakenRefines
<1>4. CASE Copy \/ Malformed
  BY <1>3, <1>4 DEF Copy, Malformed, HandedOver
<1>5. CASE Reset \/ Destroy
  <2>1. q' = <<>> /\ popped' = sent /\ sent' = sent
    BY <1>5 DEF Reset, Destroy, Flushed
  <2>2. CASE q = <<>>
    BY <1>0, <2>1, <2>2 DEF QueueExact, SameChannel
  <2>3. CASE q # <<>>
    <3>1. Len(q) \in 1..Len(q)
      BY <1>0, <2>3
    <3>2. q[Len(q)].n = sent
      BY <1>0, <3>1 DEF QueueExact
    <3>3. SubSeq(q, Len(q) + 1, Len(q)) = <<>>
      BY <1>0
    <3> QED
      BY <2>1, <3>1, <3>2, <3>3, TakenRefines
  <2> QED
    BY <2>2, <2>3
<1>6. CASE \/ \E p \in Producer : WakeUp(p)
           \/ TimerFires \/ Run \/ Enter \/ Copied \/ Interrupted \/ Idle
           \/ Woken \/ Alerted \/ IdleOver
  BY <1>6 DEF SameChannel, WakeUp, TimerFires, Run, Enter, Copied, HandedOver, Interrupted,
              Idle, Woken, Alerted, IdleOver
<1>7. CASE \/ MessageToMonitor \/ Terminate \/ Start
           \/ \E io \in BOOLEAN : DeviceRequest(io)
           \/ \E op \in Operations : GuestAsks(op)
           \/ UNCHANGED vars
  BY <1>7 DEF SameChannel, MessageToMonitor, DeviceRequest, Terminate, GuestAsks, Start, vars
<1> QED
  BY <1>1, <1>2, <1>4, <1>5, <1>6, <1>7 DEF Next, RunThread

(* The queue and the I/O buffer are one first-in first-out channel to the guest. *)
THEOREM RefinesChannel == Spec => ImplementsChannel
<1>1. Init => Guest!Init
  BY ChannelView DEF Init, Numbers
<1>2. IInv /\ [Next]_vars => [Guest!Next]_(Guest!chanVars)
  <2> SUFFICES ASSUME IInv, [Next]_vars PROVE Guest!Next \/ UNCHANGED Guest!chanVars
    OBVIOUS
  <2>1. UNCHANGED vars => SameChannel
    BY DEF vars, queueVars, histVars, SameChannel
  <2> QED
    BY <2>1, StepRefines, ChannelView
<1> QED
  BY <1>1, <1>2, InitIInv, NextIInv, PTL DEF Spec, ImplementsChannel, Guest!Spec
=============================================================================
