------------------------- MODULE UserProcessesProofs -------------------------
(***************************************************************************)
(* Proofs about the processes on the host, for the specification that      *)
(* UserProcesses composes of them: first the daemons and the ioctls they   *)
(* are in (Daemon, MonitorLifecycle), for any set of monitors, any sizes   *)
(* and any limit of the host's memory; then the helpers (HelperDaemons),   *)
(* for any limit of the queue and any modulus of the numbers.              *)
(*                                                                         *)
(* A step of a daemon or of its ioctls touches one monitor (Moved), so     *)
(* what OneRight says of the others stays (KeptRight), and each action is  *)
(* proved for the monitor it moves.  The memory on the books is the one    *)
(* thing the monitors share, and has an invariant of its own.              *)
(***************************************************************************)
EXTENDS UserProcesses, SequenceTheorems, FiniteSetTheorems, NaturalSets, TLAPS

-----------------------------------------------------------------------------
(* The daemons and their monitors.                                          *)

(* What every monitor has from its first allocations until it is freed. *)
Base     == {"monitor", "console", "ioBuffer", "sharedPage", "osdep"}
Basic    == Steps(EarlyStep) \union {"conetMutex"}
Creating == {"checked", "add", "counted", "failed", "revert"}
Ending   == {"destroy", "release"}
Gone     == {"NONE", "FREED"}
Handles  == {"manager", "messages"}

(* Where the ioctls of a monitor's daemon are, and what state its monitor is in. *)
StageRight(m) ==
  /\ kernel[m] \in Creating =>
       monState[m] = "EMPTY" /\ pc[m] \in {"creating", "exit"} /\ user[m] = {"image", "manager"}
  /\ kernel[m] \in Ending => monState[m] \notin Gone /\ pc[m] \in {"exit", "exited"}
  /\ pc[m] \in {"begin", "image", "create"} => kernel[m] = "idle" /\ monState[m] = "NONE"
  /\ pc[m] = "creating" /\ kernel[m] = "idle" => monState[m] \in {"INITIALIZED", "FREED"}
  /\ pc[m] \in {"created", "loaded", "opened", "start"} => kernel[m] = "idle" /\ monState[m] = "INITIALIZED"
  /\ pc[m] = "run" => kernel[m] = "idle" /\ monState[m] \in {"STARTED", "RUNNING"}
  /\ pc[m] \in {"rebooted", "ended", "restart"} => kernel[m] = "idle" /\ monState[m] = "TERMINATED"
  /\ pc[m] \in {"kill", "out", "end"} => kernel[m] = "idle" /\ monState[m] \notin Gone
  /\ pc[m] = "exited" => kernel[m] \notin Creating /\ user[m] \intersect Handles = {}
  /\ armed[m] => monState[m] \in {"STARTED", "RUNNING"} /\ kernel[m] = "idle"

(* The references of a monitor are the descriptors of its daemon and of the processes that have
   attached, with those whose close is within co_monitor_refdown; while it is destroyed, nobody
   has one but the thread that does it. *)
RefsRight(m) ==
  IF kernel[m] = "idle" /\ monState[m] \notin Gone
  THEN /\ Holders(m) # {}
       /\ m \in listed <=> "manager" \in user[m]
       /\ ~miscounted[m] => refcount[m] = Cardinality(Holders(m))
  ELSE /\ refcount[m] = 0 /\ m \notin listed
       /\ IF kernel[m] \in Ending
          THEN /\ user[m] \intersect Handles = {} /\ Openers(m) # {}
               /\ \A c \in Child : joined[m][c] # "attached"
          ELSE Openers(m) = {}

(* Who may be within co_monitor_refdown, and before which place no process was launched. *)
Unlaunched == {"begin", "image", "create", "creating", "created", "loaded", "opened"}
JoinRight(m) ==
  /\ pc[m] \in Unlaunched => \A c \in Child : joined[m][c] = "no"
  /\ closing[m]["daemon"] > 0 => pc[m] \in {"out", "exit"}
  /\ \A c \in Child : closing[m][c] > 0 => joined[m][c] = "left"

(* What a monitor has to free. *)
HeldRight(m) ==
  /\ kernel[m] = "idle" /\ monState[m] \in Gone => held[m] = {}
  /\ kernel[m] # "idle" \/ monState[m] \notin Gone => Base \subseteq held[m]
  /\ kernel[m] \in Creating => held[m] \subseteq Basic
  /\ (pc[m] \in {"creating", "created", "loaded", "opened", "start"} /\ "archdep" \in held[m]) =>
       reboots[m] > 0
LeaksRight(m) ==
  /\ leaked[m] \subseteq {<<"modulesMutex", "create">>, <<"idleWait", "destroy">>,
                          <<"archdep", "start">>, <<"passagePage", "start">>}
  /\ wild[m] \subseteq {"conetMutex"}
  /\ <<"archdep", "start">> \in leaked[m] => reboots[m] > 0

(* What the process of a daemon has, and why something is left. *)
UserRight(m) ==
  /\ pc[m] = "begin" => user[m] = {}
  /\ pc[m] = "image" => user[m] = {"image"}
  /\ pc[m] \in {"create", "creating", "created", "loaded"} => user[m] = {"image", "manager"}
  /\ pc[m] = "opened" => user[m] = {"image", "manager", "reactor", "messages"}
  /\ pc[m] \in {"start", "run", "rebooted", "ended", "restart", "kill"} => Handles \subseteq user[m]
  /\ pc[m] \in {"out", "end"} => "manager" \in user[m]
  /\ pc[m] = "out" /\ "messages" \notin user[m] => cutShort[m] = "no"
  /\ pc[m] = "end" => "pidfile" \notin user[m]
  /\ pc[m] \notin {"out", "end", "exit", "exited"} => cutShort[m] = "no"
  /\ pc[m] \in {"out", "end", "exit", "exited"} /\ "executes" \in user[m] => cutShort[m] = "start failed"
  /\ pc[m] \in {"exit", "exited"} /\ "pidfile" \in user[m] => cutShort[m] = "crash"
RebootsRight(m) ==
  /\ power[m] => stop[m] = "sent"
  /\ stop[m] # "sent" \/ power[m] => reboots[m] <= MaxReboots[m]
  /\ pc[m] \in {"rebooted", "restart"} => reboots[m] < MaxReboots[m] \/ power[m]

OneRight(m) ==
  /\ StageRight(m) /\ RefsRight(m) /\ HeldRight(m) /\ LeaksRight(m) /\ UserRight(m)
  /\ RebootsRight(m) /\ JoinRight(m)

(* Who is about to store a value of hostmem_used, or has made sure that there is room. *)
MemoryRight ==
  /\ "lost update" \notin raced =>
       \A m \in Monitor : kernel[m] \in {"add", "revert", "release"} => loaded[m] = hostmem_used
  /\ raced = {} =>
       \A m \in Monitor : kernel[m] \in {"checked", "add"} =>
         hostmem_used + memory_size(m) <= hostmem_usage_limit

HostInv == HostTypeOK /\ (\A m \in Monitor : OneRight(m))

LEMMA StepsAre ==
  /\ Steps(EarlyStep) = {"monitor", "console", "modulesMutex", "queueMutex", "idleWait",
                         "ioBuffer", "sharedPage", "osdep"}
  /\ Steps(LateStep) = {"ram", "timer"}
  /\ Steps(Device) = {"scsi", "block", "fs"}
<1>1. DOMAIN EarlyStep = 1..8 /\ DOMAIN LateStep = 1..2 /\ DOMAIN Device = 1..3
  BY DEF EarlyStep, LateStep, Device
<1>2. /\ 1..8 = {1, 2, 3, 4, 5, 6, 7, 8}
      /\ 1..2 = {1, 2}
      /\ 1..3 = {1, 2, 3}
  OBVIOUS
<1>3. /\ EarlyStep[1] = "monitor" /\ EarlyStep[2] = "console" /\ EarlyStep[3] = "modulesMutex"
      /\ EarlyStep[4] = "queueMutex" /\ EarlyStep[5] = "idleWait" /\ EarlyStep[6] = "ioBuffer"
      /\ EarlyStep[7] = "sharedPage" /\ EarlyStep[8] = "osdep"
  BY DEF EarlyStep
<1>4. LateStep[1] = "ram" /\ LateStep[2] = "timer"
  BY DEF LateStep
<1>5. Device[1] = "scsi" /\ Device[2] = "block" /\ Device[3] = "fs"
  BY DEF Device
<1>6. Steps(EarlyStep) = {EarlyStep[1], EarlyStep[2], EarlyStep[3], EarlyStep[4], EarlyStep[5],
                          EarlyStep[6], EarlyStep[7], EarlyStep[8]}
  BY <1>1, <1>2 DEF Steps
<1>7. Steps(LateStep) = {LateStep[1], LateStep[2]}
  BY <1>1, <1>2 DEF Steps
<1>8. Steps(Device) = {Device[1], Device[2], Device[3]}
  BY <1>1, <1>2 DEF Steps
<1> QED
  BY <1>3, <1>4, <1>5, <1>6, <1>7, <1>8

LEMMA ResourceIs ==
  Resource = {"monitor", "console", "modulesMutex", "queueMutex", "idleWait", "ioBuffer",
              "sharedPage", "osdep", "ram", "timer", "scsi", "block", "fs", "conetMutex",
              "archdep", "passagePage"}
BY StepsAre DEF Resource

LEMMA EarlyIs ==
  ASSUME NEW s
  PROVE  \A j \in 1..8 : EarlyStep[j] \in Before(EarlyStep, s) <=> \A k \in 1..j : EarlyStep[k] # s
<1>1. DOMAIN EarlyStep = 1..8
  BY DEF EarlyStep
<1>2. \A i, j \in 1..8 : EarlyStep[i] = EarlyStep[j] => i = j
  BY DEF EarlyStep
<1> QED
  BY <1>1, <1>2 DEF Before

LEMMA EarlyFreed ==
  ASSUME NEW k \in 1..11, NEW step, step # "monitor", ErrorLabel[step] = ErrorPath[k]
  PROVE  FreedBy(step) = OsExit({ErrorPath[i] : i \in k..11})
<1>1. DOMAIN ErrorPath = 1..11 /\ Len(ErrorPath) = 11
  BY DEF ErrorPath
<1>2. \A i, j \in 1..11 : ErrorPath[i] = ErrorPath[j] => i = j
  BY DEF ErrorPath
<1> DEFINE from == CHOOSE i \in DOMAIN ErrorPath : ErrorPath[i] = ErrorLabel[step]
<1>3. from = k
  BY <1>1, <1>2
<1>4. Steps(SubSeq(ErrorPath, k, 11)) = {ErrorPath[i] : i \in k..11}
  <2> DEFINE s == SubSeq(ErrorPath, k, 11)
  <2> DEFINE Labels == {"timer", "ram", "hostmem", "osdep", "sharedPage", "ioBuffer", "idleWait",
                        "modulesMutex", "queueMutex", "console", "monitor"}
  <2>1. ErrorPath \in Seq(Labels)
    BY DEF ErrorPath
  <2> HIDE DEF Labels
  <2>2. DOMAIN s = 1..(12 - k) /\ \A i \in 1..(12 - k) : s[i] = ErrorPath[k + i - 1]
    BY <2>1, <1>1
  <2>3. \A i \in k..11 : i - k + 1 \in 1..(12 - k) /\ ErrorPath[i] = ErrorPath[k + (i - k + 1) - 1]
    OBVIOUS
  <2>4. \A i \in 1..(12 - k) : k + i - 1 \in k..11
    OBVIOUS
  <2> HIDE DEF s
  <2>5. Steps(s) \subseteq {ErrorPath[i] : i \in k..11}
    BY <2>2, <2>4 DEF Steps
  <2>6. {ErrorPath[i] : i \in k..11} \subseteq Steps(s)
    <3> SUFFICES ASSUME NEW i \in k..11 PROVE ErrorPath[i] \in Steps(s)
      OBVIOUS
    <3>1. i - k + 1 \in DOMAIN s /\ k + (i - k + 1) - 1 = i
      BY <2>2, <2>3
    <3>2. s[i - k + 1] = ErrorPath[i]
      BY <2>2, <3>1
    <3> QED
      BY <3>1, <3>2 DEF Steps
  <2> QED
    BY <2>5, <2>6 DEF s
<1> QED
  BY <1>1, <1>3, <1>4 DEF FreedBy

LEMMA PathIs ==
  /\ ErrorPath[1] = "timer"
  /\ ErrorPath[2] = "ram"
  /\ ErrorPath[3] = "hostmem"
  /\ ErrorPath[4] = "osdep"
  /\ ErrorPath[5] = "sharedPage"
  /\ ErrorPath[6] = "ioBuffer"
  /\ ErrorPath[7] = "idleWait"
  /\ ErrorPath[8] = "modulesMutex"
  /\ ErrorPath[9] = "queueMutex"
  /\ ErrorPath[10] = "console"
  /\ ErrorPath[11] = "monitor"
BY DEF ErrorPath

LEMMA FromIs ==
  /\ {ErrorPath[i] : i \in 1..11} = {ErrorPath[1], ErrorPath[2], ErrorPath[3], ErrorPath[4], ErrorPath[5], ErrorPath[6], ErrorPath[7], ErrorPath[8], ErrorPath[9], ErrorPath[10], ErrorPath[11]}
  /\ {ErrorPath[i] : i \in 2..11} = {ErrorPath[2], ErrorPath[3], ErrorPath[4], ErrorPath[5], ErrorPath[6], ErrorPath[7], ErrorPath[8], ErrorPath[9], ErrorPath[10], ErrorPath[11]}
  /\ {ErrorPath[i] : i \in 3..11} = {ErrorPath[3], ErrorPath[4], ErrorPath[5], ErrorPath[6], ErrorPath[7], ErrorPath[8], ErrorPath[9], ErrorPath[10], ErrorPath[11]}
  /\ {ErrorPath[i] : i \in 4..11} = {ErrorPath[4], ErrorPath[5], ErrorPath[6], ErrorPath[7], ErrorPath[8], ErrorPath[9], ErrorPath[10], ErrorPath[11]}
  /\ {ErrorPath[i] : i \in 5..11} = {ErrorPath[5], ErrorPath[6], ErrorPath[7], ErrorPath[8], ErrorPath[9], ErrorPath[10], ErrorPath[11]}
  /\ {ErrorPath[i] : i \in 6..11} = {ErrorPath[6], ErrorPath[7], ErrorPath[8], ErrorPath[9], ErrorPath[10], ErrorPath[11]}
  /\ {ErrorPath[i] : i \in 7..11} = {ErrorPath[7], ErrorPath[8], ErrorPath[9], ErrorPath[10], ErrorPath[11]}
  /\ {ErrorPath[i] : i \in 8..11} = {ErrorPath[8], ErrorPath[9], ErrorPath[10], ErrorPath[11]}
  /\ {ErrorPath[i] : i \in 9..11} = {ErrorPath[9], ErrorPath[10], ErrorPath[11]}
  /\ {ErrorPath[i] : i \in 10..11} = {ErrorPath[10], ErrorPath[11]}
  /\ {ErrorPath[i] : i \in 11..11} = {ErrorPath[11]}
<1>1. 1..11 = {1, 2, 3, 4, 5, 6, 7, 8, 9, 10, 11}
  OBVIOUS
<1>2. 2..11 = {2, 3, 4, 5, 6, 7, 8, 9, 10, 11}
  OBVIOUS
<1>3. 3..11 = {3, 4, 5, 6, 7, 8, 9, 10, 11}
  OBVIOUS
<1>4. 4..11 = {4, 5, 6, 7, 8, 9, 10, 11}
  OBVIOUS
<1>5. 5..11 = {5, 6, 7, 8, 9, 10, 11}
  OBVIOUS
<1>6. 6..11 = {6, 7, 8, 9, 10, 11}
  OBVIOUS
<1>7. 7..11 = {7, 8, 9, 10, 11}
  OBVIOUS
<1>8. 8..11 = {8, 9, 10, 11}
  OBVIOUS
<1>9. 9..11 = {9, 10, 11}
  OBVIOUS
<1>10. 10..11 = {10, 11}
  OBVIOUS
<1>11. 11..11 = {11}
  OBVIOUS
<1> QED
  BY <1>1, <1>2, <1>3, <1>4, <1>5, <1>6, <1>7, <1>8, <1>9, <1>10, <1>11

LEMMA FreedIs ==
  /\ FreedBy("monitor") = {}
  /\ FreedBy("console") = {"monitor"}
  /\ FreedBy("modulesMutex") = {"console", "monitor"}
  /\ FreedBy("queueMutex") = {"queueMutex", "console", "monitor"}
  /\ FreedBy("idleWait") = {"modulesMutex", "queueMutex", "console", "monitor"}
  /\ FreedBy("ioBuffer") = {"idleWait", "modulesMutex", "queueMutex", "console", "monitor"}
  /\ FreedBy("sharedPage") = {"ioBuffer", "idleWait", "modulesMutex", "queueMutex", "console", "monitor"}
  /\ FreedBy("osdep") = {"sharedPage", "ioBuffer", "idleWait", "modulesMutex", "queueMutex", "console", "monitor"}
  /\ FreedBy("hostmem") = {"osdep", "sharedPage", "ioBuffer", "idleWait", "modulesMutex", "queueMutex", "console", "monitor", "conetMutex"}
  /\ FreedBy("ram") = {"hostmem", "osdep", "sharedPage", "ioBuffer", "idleWait", "modulesMutex", "queueMutex", "console", "monitor", "conetMutex"}
  /\ FreedBy("timer") = {"ram", "hostmem", "osdep", "sharedPage", "ioBuffer", "idleWait", "modulesMutex", "queueMutex", "console", "monitor", "conetMutex"}
  /\ FreedBy("scsi") = {"timer", "ram", "hostmem", "osdep", "sharedPage", "ioBuffer", "idleWait", "modulesMutex", "queueMutex", "console", "monitor", "conetMutex"}
  /\ FreedBy("block") = {"timer", "ram", "hostmem", "osdep", "sharedPage", "ioBuffer", "idleWait", "modulesMutex", "queueMutex", "console", "monitor", "conetMutex"}
  /\ FreedBy("fs") = {"timer", "ram", "hostmem", "osdep", "sharedPage", "ioBuffer", "idleWait", "modulesMutex", "queueMutex", "console", "monitor", "conetMutex"}
<1>1. FreedBy("monitor") = {}
  BY DEF FreedBy
<1>2. FreedBy("console") = {"monitor"}
  <2>1. ErrorLabel["console"] = ErrorPath[11] /\ "console" # "monitor" /\ 11 \in 1..11
    BY PathIs DEF ErrorLabel, GotoLabel
  <2>2. FreedBy("console") = OsExit({ErrorPath[i] : i \in 11..11})
    BY <2>1, EarlyFreed
  <2> QED
    BY <2>2, FromIs, PathIs DEF OsExit
<1>3. FreedBy("modulesMutex") = {"console", "monitor"}
  <2>1. ErrorLabel["modulesMutex"] = ErrorPath[10] /\ "modulesMutex" # "monitor" /\ 10 \in 1..11
    BY PathIs DEF ErrorLabel, GotoLabel
  <2>2. FreedBy("modulesMutex") = OsExit({ErrorPath[i] : i \in 10..11})
    BY <2>1, EarlyFreed
  <2> QED
    BY <2>2, FromIs, PathIs DEF OsExit
<1>4. FreedBy("queueMutex") = {"queueMutex", "console", "monitor"}
  <2>1. ErrorLabel["queueMutex"] = ErrorPath[9] /\ "queueMutex" # "monitor" /\ 9 \in 1..11
    BY PathIs DEF ErrorLabel, GotoLabel
  <2>2. FreedBy("queueMutex") = OsExit({ErrorPath[i] : i \in 9..11})
    BY <2>1, EarlyFreed
  <2> QED
    BY <2>2, FromIs, PathIs DEF OsExit
<1>5. FreedBy("idleWait") = {"modulesMutex", "queueMutex", "console", "monitor"}
  <2>1. ErrorLabel["idleWait"] = ErrorPath[8] /\ "idleWait" # "monitor" /\ 8 \in 1..11
    BY PathIs DEF ErrorLabel, GotoLabel
  <2>2. FreedBy("idleWait") = OsExit({ErrorPath[i] : i \in 8..11})
    BY <2>1, EarlyFreed
  <2> QED
    BY <2>2, FromIs, PathIs DEF OsExit
<1>6. FreedBy("ioBuffer") = {"idleWait", "modulesMutex", "queueMutex", "console", "monitor"}
  <2>1. ErrorLabel["ioBuffer"] = ErrorPath[7] /\ "ioBuffer" # "monitor" /\ 7 \in 1..11
    BY PathIs DEF ErrorLabel, GotoLabel
  <2>2. FreedBy("ioBuffer") = OsExit({ErrorPath[i] : i \in 7..11})
    BY <2>1, EarlyFreed
  <2> QED
    BY <2>2, FromIs, PathIs DEF OsExit
<1>7. FreedBy("sharedPage") = {"ioBuffer", "idleWait", "modulesMutex", "queueMutex", "console", "monitor"}
  <2>1. ErrorLabel["sharedPage"] = ErrorPath[6] /\ "sharedPage" # "monitor" /\ 6 \in 1..11
    BY PathIs DEF ErrorLabel, GotoLabel
  <2>2. FreedBy("sharedPage") = OsExit({ErrorPath[i] : i \in 6..11})
    BY <2>1, EarlyFreed
  <2> QED
    BY <2>2, FromIs, PathIs DEF OsExit
<1>8. FreedBy("osdep") = {"sharedPage", "ioBuffer", "idleWait", "modulesMutex", "queueMutex", "console", "monitor"}
  <2>1. ErrorLabel["osdep"] = ErrorPath[5] /\ "osdep" # "monitor" /\ 5 \in 1..11
    BY PathIs DEF ErrorLabel, GotoLabel
  <2>2. FreedBy("osdep") = OsExit({ErrorPath[i] : i \in 5..11})
    BY <2>1, EarlyFreed
  <2> QED
    BY <2>2, FromIs, PathIs DEF OsExit
<1>9. FreedBy("hostmem") = {"osdep", "sharedPage", "ioBuffer", "idleWait", "modulesMutex", "queueMutex", "console", "monitor", "conetMutex"}
  <2>1. ErrorLabel["hostmem"] = ErrorPath[4] /\ "hostmem" # "monitor" /\ 4 \in 1..11
    BY PathIs DEF ErrorLabel, GotoLabel
  <2>2. FreedBy("hostmem") = OsExit({ErrorPath[i] : i \in 4..11})
    BY <2>1, EarlyFreed
  <2> QED
    BY <2>2, FromIs, PathIs DEF OsExit
<1>10. FreedBy("ram") = {"hostmem", "osdep", "sharedPage", "ioBuffer", "idleWait", "modulesMutex", "queueMutex", "console", "monitor", "conetMutex"}
  <2>1. ErrorLabel["ram"] = ErrorPath[3] /\ "ram" # "monitor" /\ 3 \in 1..11
    BY PathIs DEF ErrorLabel, GotoLabel
  <2>2. FreedBy("ram") = OsExit({ErrorPath[i] : i \in 3..11})
    BY <2>1, EarlyFreed
  <2> QED
    BY <2>2, FromIs, PathIs DEF OsExit
<1>11. FreedBy("timer") = {"ram", "hostmem", "osdep", "sharedPage", "ioBuffer", "idleWait", "modulesMutex", "queueMutex", "console", "monitor", "conetMutex"}
  <2>1. ErrorLabel["timer"] = ErrorPath[2] /\ "timer" # "monitor" /\ 2 \in 1..11
    BY PathIs DEF ErrorLabel, GotoLabel
  <2>2. FreedBy("timer") = OsExit({ErrorPath[i] : i \in 2..11})
    BY <2>1, EarlyFreed
  <2> QED
    BY <2>2, FromIs, PathIs DEF OsExit
<1>12. FreedBy("scsi") = {"timer", "ram", "hostmem", "osdep", "sharedPage", "ioBuffer", "idleWait", "modulesMutex", "queueMutex", "console", "monitor", "conetMutex"}
  <2>1. ErrorLabel["scsi"] = ErrorPath[1] /\ "scsi" # "monitor" /\ 1 \in 1..11
    BY PathIs DEF ErrorLabel, GotoLabel
  <2>2. FreedBy("scsi") = OsExit({ErrorPath[i] : i \in 1..11})
    BY <2>1, EarlyFreed
  <2> QED
    BY <2>2, FromIs, PathIs DEF OsExit
<1>13. FreedBy("block") = {"timer", "ram", "hostmem", "osdep", "sharedPage", "ioBuffer", "idleWait", "modulesMutex", "queueMutex", "console", "monitor", "conetMutex"}
  <2>1. ErrorLabel["block"] = ErrorPath[1] /\ "block" # "monitor" /\ 1 \in 1..11
    BY PathIs DEF ErrorLabel, GotoLabel
  <2>2. FreedBy("block") = OsExit({ErrorPath[i] : i \in 1..11})
    BY <2>1, EarlyFreed
  <2> QED
    BY <2>2, FromIs, PathIs DEF OsExit
<1>14. FreedBy("fs") = {"timer", "ram", "hostmem", "osdep", "sharedPage", "ioBuffer", "idleWait", "modulesMutex", "queueMutex", "console", "monitor", "conetMutex"}
  <2>1. ErrorLabel["fs"] = ErrorPath[1] /\ "fs" # "monitor" /\ 1 \in 1..11
    BY PathIs DEF ErrorLabel, GotoLabel
  <2>2. FreedBy("fs") = OsExit({ErrorPath[i] : i \in 1..11})
    BY <2>1, EarlyFreed
  <2> QED
    BY <2>2, FromIs, PathIs DEF OsExit
<1> QED
  BY <1>1, <1>2, <1>3, <1>4, <1>5, <1>6, <1>7, <1>8, <1>9, <1>10, <1>11, <1>12, <1>13, <1>14

LEMMA BeforeIs ==
  /\ Before(EarlyStep, "monitor") = {}
  /\ Before(EarlyStep, "console") = {"monitor"}
  /\ Before(EarlyStep, "modulesMutex") = {"monitor", "console"}
  /\ Before(EarlyStep, "queueMutex") = {"monitor", "console", "modulesMutex"}
  /\ Before(EarlyStep, "idleWait") = {"monitor", "console", "modulesMutex", "queueMutex"}
  /\ Before(EarlyStep, "ioBuffer") = {"monitor", "console", "modulesMutex", "queueMutex", "idleWait"}
  /\ Before(EarlyStep, "sharedPage") = {"monitor", "console", "modulesMutex", "queueMutex", "idleWait", "ioBuffer"}
  /\ Before(EarlyStep, "osdep") = {"monitor", "console", "modulesMutex", "queueMutex", "idleWait", "ioBuffer", "sharedPage"}
  /\ Before(EarlyStep, "hostmem") = {"monitor", "console", "modulesMutex", "queueMutex", "idleWait", "ioBuffer", "sharedPage", "osdep"}
<1> DEFINE reach(s) == {i \in 1..8 : \A k \in 1..i : EarlyStep[k] # s}
<1>1. DOMAIN EarlyStep = 1..8
  BY DEF EarlyStep
<1>2. /\ EarlyStep[1] = "monitor"
      /\ EarlyStep[2] = "console"
      /\ EarlyStep[3] = "modulesMutex"
      /\ EarlyStep[4] = "queueMutex"
      /\ EarlyStep[5] = "idleWait"
      /\ EarlyStep[6] = "ioBuffer"
      /\ EarlyStep[7] = "sharedPage"
      /\ EarlyStep[8] = "osdep"
  BY DEF EarlyStep
<1>3. \A s : Before(EarlyStep, s) = {EarlyStep[i] : i \in reach(s)}
  BY <1>1 DEF Before
<1>4. reach("monitor") = {}
  BY <1>2
<1>5. reach("console") = {1}
  BY <1>2
<1>6. reach("modulesMutex") = {1, 2}
  BY <1>2
<1>7. reach("queueMutex") = {1, 2, 3}
  BY <1>2
<1>8. reach("idleWait") = {1, 2, 3, 4}
  BY <1>2
<1>9. reach("ioBuffer") = {1, 2, 3, 4, 5}
  BY <1>2
<1>10. reach("sharedPage") = {1, 2, 3, 4, 5, 6}
  BY <1>2
<1>11. reach("osdep") = {1, 2, 3, 4, 5, 6, 7}
  BY <1>2
<1>12. reach("hostmem") = {1, 2, 3, 4, 5, 6, 7, 8}
  BY <1>2
<1> HIDE DEF reach
<1>13. Before(EarlyStep, "monitor") = {}
  BY <1>2, <1>3, <1>4
<1>14. Before(EarlyStep, "console") = {"monitor"}
  BY <1>2, <1>3, <1>5
<1>15. Before(EarlyStep, "modulesMutex") = {"monitor", "console"}
  BY <1>2, <1>3, <1>6
<1>16. Before(EarlyStep, "queueMutex") = {"monitor", "console", "modulesMutex"}
  BY <1>2, <1>3, <1>7
<1>17. Before(EarlyStep, "idleWait") = {"monitor", "console", "modulesMutex", "queueMutex"}
  BY <1>2, <1>3, <1>8
<1>18. Before(EarlyStep, "ioBuffer") = {"monitor", "console", "modulesMutex", "queueMutex", "idleWait"}
  BY <1>2, <1>3, <1>9
<1>19. Before(EarlyStep, "sharedPage") = {"monitor", "console", "modulesMutex", "queueMutex", "idleWait", "ioBuffer"}
  BY <1>2, <1>3, <1>10
<1>20. Before(EarlyStep, "osdep") = {"monitor", "console", "modulesMutex", "queueMutex", "idleWait", "ioBuffer", "sharedPage"}
  BY <1>2, <1>3, <1>11
<1>21. Before(EarlyStep, "hostmem") = {"monitor", "console", "modulesMutex", "queueMutex", "idleWait", "ioBuffer", "sharedPage", "osdep"}
  BY <1>2, <1>3, <1>12
<1> QED
  BY <1>13, <1>14, <1>15, <1>16, <1>17, <1>18, <1>19, <1>20, <1>21

LEMMA UndoIs ==
  /\ ConfigUndo["fs"] = {"fs", "block", "scsi"} /\ ConfigUndo["block"] = {"block", "scsi"}
  /\ ConfigUndo["scsi"] = {"scsi"} /\ ConfigUndo["ram"] = {} /\ ConfigUndo["timer"] = {}
BY ResourceIs DEF ConfigUndo

LEMMA TwoAndThree ==
  ASSUME NEW S, NEW s \in Seq(S), NEW t \in Seq(S), Len(s) = 2, Len(t) = 3
  PROVE  /\ DOMAIN (s \o t) = 1..5
         /\ \A i \in 1..5 : (s \o t)[i] = IF i <= 2 THEN s[i] ELSE t[i - 2]
<1>1. s \o t \in Seq(S) /\ Len(s \o t) = Len(s) + Len(t)
  BY ConcatProperties
<1>2. \A i \in 1..(Len(s) + Len(t)) : (s \o t)[i] = IF i <= Len(s) THEN s[i] ELSE t[i - Len(s)]
  BY ConcatProperties
<1>3. DOMAIN (s \o t) = 1..5
  BY <1>1
<1>4. \A i \in 1..5 : (s \o t)[i] = IF i <= 2 THEN s[i] ELSE t[i - 2]
  <2> DEFINE appended == s \o t
  <2>1. \A i \in 1..(Len(s) + Len(t)) : appended[i] = IF i <= Len(s) THEN s[i] ELSE t[i - Len(s)]
    BY <1>2
  <2> HIDE DEF appended
  <2>2. \A i \in 1..5 : appended[i] = IF i <= 2 THEN s[i] ELSE t[i - 2]
    BY <2>1
  <2> QED
    BY <2>2 DEF appended
<1> QED
  BY <1>3, <1>4

LEMMA LateBefore ==
  /\ Before(LateStep \o Device, "ram") = {} /\ Before(LateStep \o Device, "timer") = {"ram"}
  /\ Before(LateStep \o Device, "scsi") = {"ram", "timer"}
  /\ Before(LateStep \o Device, "block") = {"ram", "timer", "scsi"}
  /\ Before(LateStep \o Device, "fs") = {"ram", "timer", "scsi", "block"}
<1> DEFINE Tables == {"ram", "timer", "scsi", "block", "fs"}
           order == LateStep \o Device
           reach(s) == {i \in 1..5 : \A k \in 1..i : order[k] # s}
<1>1. LateStep \in Seq(Tables) /\ Device \in Seq(Tables) /\ Len(LateStep) = 2 /\ Len(Device) = 3
  <2>1. LateStep \in Seq(Tables)
    BY DEF LateStep
  <2>2. Device \in Seq(Tables)
    BY DEF Device
  <2>3. Len(LateStep) = 2 /\ Len(Device) = 3
    BY DEF LateStep, Device
  <2> QED
    BY <2>1, <2>2, <2>3
<1> HIDE DEF Tables
<1>2. /\ DOMAIN order = 1..5 /\ order[1] = "ram" /\ order[2] = "timer" /\ order[3] = "scsi"
      /\ order[4] = "block" /\ order[5] = "fs"
  <2>1. /\ LateStep[1] = "ram" /\ LateStep[2] = "timer" /\ Device[1] = "scsi"
        /\ Device[2] = "block" /\ Device[3] = "fs"
    BY DEF LateStep, Device
  <2>2. DOMAIN order = 1..5
    BY <1>1, TwoAndThree
  <2>3. \A i \in 1..5 : order[i] = IF i <= 2 THEN LateStep[i] ELSE Device[i - 2]
    BY <1>1, TwoAndThree
  <2> QED
    BY <2>1, <2>2, <2>3
<1> HIDE DEF order
<1>3. \A s : Before(order, s) = {order[i] : i \in reach(s)}
  BY <1>2 DEF Before
<1>4. /\ reach("ram") = {} /\ reach("timer") = {1} /\ reach("scsi") = {1, 2}
      /\ reach("block") = {1, 2, 3} /\ reach("fs") = {1, 2, 3, 4}
  BY <1>2
<1> HIDE DEF reach
<1>5. /\ Before(order, "ram") = {} /\ Before(order, "timer") = {"ram"}
      /\ Before(order, "scsi") = {"ram", "timer"}
      /\ Before(order, "block") = {"ram", "timer", "scsi"}
      /\ Before(order, "fs") = {"ram", "timer", "scsi", "block"}
  BY <1>2, <1>3, <1>4
<1> QED
  BY <1>5 DEF order

LEMMA EnabledFact == Enabled \subseteq {"scsi", "block", "fs"}
BY LifecycleAssumption

(* What a failing step leaves allocated, and what it frees too much. *)
LEMMA EarlyOutcome ==
  ASSUME NEW step \in Steps(EarlyStep) \union {"hostmem"}, NEW extra \in SUBSET {"conetMutex"},
         extra # {} => step = "hostmem"
  PROVE  /\ (Before(EarlyStep, step) \union extra) \ FreedBy(step) \subseteq {"modulesMutex"}
         /\ (FreedBy(step) \ (Before(EarlyStep, step) \union extra)) \ NullSafe \subseteq {"conetMutex"}
         /\ FreedBy(step) \subseteq Resource
<1>1. step \in {"monitor", "console", "modulesMutex", "queueMutex", "idleWait", "ioBuffer",
                "sharedPage", "osdep", "hostmem"}
  BY StepsAre
<1>2. {"modulesMutex", "queueMutex", "idleWait"} \subseteq NullSafe
  BY DEF NullSafe
<1>3. CASE step = "monitor"
  BY <1>2, <1>3, FreedIs, BeforeIs, ResourceIs
<1>4. CASE step = "console"
  BY <1>2, <1>4, FreedIs, BeforeIs, ResourceIs
<1>5. CASE step = "modulesMutex"
  BY <1>2, <1>5, FreedIs, BeforeIs, ResourceIs
<1>6. CASE step = "queueMutex"
  BY <1>2, <1>6, FreedIs, BeforeIs, ResourceIs
<1>7. CASE step = "idleWait"
  BY <1>2, <1>7, FreedIs, BeforeIs, ResourceIs
<1>8. CASE step = "ioBuffer"
  BY <1>2, <1>8, FreedIs, BeforeIs, ResourceIs
<1>9. CASE step = "sharedPage"
  BY <1>2, <1>9, FreedIs, BeforeIs, ResourceIs
<1>10. CASE step = "osdep"
  BY <1>2, <1>10, FreedIs, BeforeIs, ResourceIs
<1>11. CASE step = "hostmem"
  BY <1>2, <1>11, FreedIs, BeforeIs, ResourceIs
<1> QED
  BY <1>1, <1>3, <1>4, <1>5, <1>6, <1>7, <1>8, <1>9, <1>10, <1>11

LateUndone(step) == ConfigUndo[step] \union (FreedBy(step) \ FreedBy("ram"))

LEMMA LateOutcome ==
  ASSUME NEW step \in Steps(LateStep) \union Enabled
  PROVE  /\ Before(LateStep \o Device, step) \subseteq LateUndone(step)
         /\ LateUndone(step) \intersect Base = {}
<1>1. step \in {"ram", "timer", "scsi", "block", "fs"}
  BY StepsAre, EnabledFact
<1> QED
  BY <1>1, FreedIs, LateBefore, UndoIs DEF LateUndone, Base

LEMMA BasicIs ==
  /\ Basic = {"monitor", "console", "modulesMutex", "queueMutex", "idleWait", "ioBuffer",
              "sharedPage", "osdep", "conetMutex"}
  /\ Basic = FreedBy("ram") \ {"hostmem"}
  /\ Base \subseteq Basic /\ Basic \subseteq Resource /\ "monitor" \in Base
  /\ (Basic \ Base) \ NullSafe \subseteq {"conetMutex"}
  /\ (Resource \ Base) \ NullSafe \subseteq {"conetMutex"}
  /\ "archdep" \notin Basic /\ Base \intersect {"archdep", "passagePage"} = {}
<1>1. Basic = {"monitor", "console", "modulesMutex", "queueMutex", "idleWait", "ioBuffer",
               "sharedPage", "osdep", "conetMutex"}
  BY StepsAre DEF Basic
<1>2. NullSafe = {"modulesMutex", "queueMutex", "idleWait", "ram", "timer", "archdep",
                  "passagePage", "scsi", "block", "fs"}
  BY StepsAre DEF NullSafe
<1>3. Basic = FreedBy("ram") \ {"hostmem"}
  BY <1>1, FreedIs
<1>4. /\ Base \subseteq Basic /\ Basic \subseteq Resource /\ "monitor" \in Base
      /\ "archdep" \notin Basic /\ Base \intersect {"archdep", "passagePage"} = {}
  BY <1>1, ResourceIs DEF Base
<1>5. (Basic \ Base) \ NullSafe \subseteq {"conetMutex"}
  <2> SUFFICES ASSUME NEW r \in Basic, r \notin Base, r \notin NullSafe PROVE r = "conetMutex"
    OBVIOUS
  <2> QED
    BY <1>1, <1>2 DEF Base
<1>6. (Resource \ Base) \ NullSafe \subseteq {"conetMutex"}
  <2> SUFFICES ASSUME NEW r \in Resource, r \notin Base, r \notin NullSafe PROVE r = "conetMutex"
    OBVIOUS
  <2> QED
    BY <1>2, ResourceIs DEF Base
<1> QED
  BY <1>1, <1>3, <1>4, <1>5, <1>6

LEMMA DevicesAre ==
  /\ Devices = {"scsi", "block", "fs"} /\ Devices \subseteq Resource /\ Enabled \subseteq Devices
  /\ Devices \intersect Base = {} /\ "ram" \notin Base /\ "ram" \in Resource
  /\ \A failing \in Enabled : ConfigUndo[failing] \subseteq Devices
<1>1. Devices = {"scsi", "block", "fs"}
  BY StepsAre DEF Devices
<1> QED
  BY <1>1, EnabledFact, ResourceIs, UndoIs DEF Base

-----------------------------------------------------------------------------
(* A step of one daemon, or of its ioctl, leaves the others as they are. *)

States  == {"NONE", "EMPTY", "INITIALIZED", "STARTED", "RUNNING", "TERMINATED", "FREED"}
Kernels == {"idle", "checked", "add", "counted", "failed", "revert", "destroy", "release"}
Lost    == Resource \X {"create", "start", "destroy"}
Points  == BeforeOpen \union {"begin", "opened", "start", "run", "rebooted", "ended", "restart",
                              "kill", "out", "end", "exit", "exited"}
Places  == {"no", "started", "attached", "left"}
Things  == {"image", "manager", "reactor", "messages", "pidfile", "executes"}

(* What the step makes of the monitor's own state has its type ... *)
LifeTyped(d) ==
  /\ monState'[d] \in States /\ held'[d] \in SUBSET Resource /\ armed'[d] \in BOOLEAN
  /\ refcount'[d] \in Nat /\ kernel'[d] \in Kernels
  /\ leaked'[d] \in SUBSET Lost /\ wild'[d] \in SUBSET Resource
  /\ closing'[d] \in [Opener -> Nat] /\ miscounted'[d] \in BOOLEAN
MemoryTyped(d) ==
  hostmem_used' \in Int /\ loaded'[d] \in Int /\ raced' \subseteq {"lost update", "stale check"}
DaemonTyped(d) ==
  /\ pc'[d] \in Points /\ user'[d] \in SUBSET Things /\ nextReboot'[d] \in BOOLEAN
  /\ stop'[d] \in {"none", "flagged", "sent"} /\ power'[d] \in BOOLEAN
  /\ reboots'[d] \in Nat /\ reboots'[d] <= MaxReboots[d] + 1 /\ cutShort'[d] \in {"no", "start failed", "crash"}
  /\ joined'[d] \in [Child -> Places]

(* ... and nothing else changes. *)
LifeOnly(d) ==
  /\ monState' = [monState EXCEPT ![d] = monState'[d]] /\ held' = [held EXCEPT ![d] = held'[d]]
  /\ armed' = [armed EXCEPT ![d] = armed'[d]] /\ refcount' = [refcount EXCEPT ![d] = refcount'[d]]
  /\ kernel' = [kernel EXCEPT ![d] = kernel'[d]] /\ leaked' = [leaked EXCEPT ![d] = leaked'[d]]
  /\ wild' = [wild EXCEPT ![d] = wild'[d]]
  /\ closing' = [closing EXCEPT ![d] = closing'[d]]
  /\ miscounted' = [miscounted EXCEPT ![d] = miscounted'[d]]
  /\ \/ listed' = listed
     \/ listed' = listed \union {d}
     \/ listed' = listed \ {d}
MemoryOnly(d) == loaded' = [loaded EXCEPT ![d] = loaded'[d]]
DaemonOnly(d) ==
  /\ pc' = [pc EXCEPT ![d] = pc'[d]] /\ user' = [user EXCEPT ![d] = user'[d]]
  /\ nextReboot' = [nextReboot EXCEPT ![d] = nextReboot'[d]]
  /\ stop' = [stop EXCEPT ![d] = stop'[d]] /\ power' = [power EXCEPT ![d] = power'[d]]
  /\ reboots' = [reboots EXCEPT ![d] = reboots'[d]]
  /\ cutShort' = [cutShort EXCEPT ![d] = cutShort'[d]]
  /\ joined' = [joined EXCEPT ![d] = joined'[d]]

Moved(d) ==
  /\ LifeTyped(d) /\ MemoryTyped(d) /\ DaemonTyped(d)
  /\ LifeOnly(d) /\ MemoryOnly(d) /\ DaemonOnly(d)

Kept(m) ==
  /\ monState'[m] = monState[m] /\ held'[m] = held[m] /\ armed'[m] = armed[m]
  /\ refcount'[m] = refcount[m] /\ kernel'[m] = kernel[m] /\ leaked'[m] = leaked[m]
  /\ wild'[m] = wild[m] /\ (m \in listed' <=> m \in listed)
  /\ pc'[m] = pc[m] /\ user'[m] = user[m] /\ stop'[m] = stop[m] /\ power'[m] = power[m]
  /\ reboots'[m] = reboots[m] /\ cutShort'[m] = cutShort[m]
  /\ closing'[m] = closing[m] /\ miscounted'[m] = miscounted[m] /\ joined'[m] = joined[m]

(* Who has a descriptor of a monitor, and how many there can be. *)
LEMMA OpenersSame ==
  ASSUME NEW m, closing'[m] = closing[m], joined'[m] = joined[m]
  PROVE  Openers(m)' = Openers(m)
BY DEF Openers

LEMMA HoldersSame ==
  ASSUME NEW m, Openers(m)' = Openers(m), user'[m] \intersect Handles = user[m] \intersect Handles
  PROVE  Holders(m)' = Holders(m)
BY DEF Holders, Handles

LEMMA HandlesApart ==
  /\ IsFiniteSet(Child) /\ "daemon" \notin Child /\ "manager" \notin Opener /\ "messages" \notin Opener
  /\ Opener = Child \union {"daemon"}
BY LifecycleAssumption DEF Opener

LEMMA HoldersFinite ==
  ASSUME NEW m
  PROVE  IsFiniteSet(Holders(m)) /\ Cardinality(Holders(m)) \in Nat
<1>1. IsFiniteSet(Opener \union Handles)
  <2>1. IsFiniteSet({"daemon", "manager", "messages"})
    <3>1. IsFiniteSet({"daemon"}) /\ IsFiniteSet({"manager"}) /\ IsFiniteSet({"messages"})
      BY FS_Singleton
    <3>2. IsFiniteSet({"daemon"} \union {"manager"})
      BY <3>1, FS_Union
    <3>3. IsFiniteSet(({"daemon"} \union {"manager"}) \union {"messages"})
      BY <3>1, <3>2, FS_Union
    <3>4. ({"daemon"} \union {"manager"}) \union {"messages"} = {"daemon", "manager", "messages"}
      OBVIOUS
    <3> QED
      BY <3>3, <3>4
  <2>2. IsFiniteSet(Child \union {"daemon", "manager", "messages"})
    BY <2>1, HandlesApart, FS_Union
  <2>3. Child \union {"daemon", "manager", "messages"} = Opener \union Handles
    BY DEF Opener, Handles
  <2> QED
    BY <2>2, <2>3
<1>2. Holders(m) \subseteq Opener \union Handles
  BY DEF Holders, Openers, Opener, Handles
<1>3. IsFiniteSet(Holders(m))
  BY <1>1, <1>2, FS_Subset
<1> QED
  BY <1>3, FS_CardinalityType

LEMMA KeptRight ==
  ASSUME NEW m, OneRight(m), Kept(m)
  PROVE  OneRight(m)'
<1>1. StageRight(m)'
  BY DEF OneRight, StageRight, Kept
<1>2. RefsRight(m)'
  <2>1. Openers(m)' = Openers(m) /\ Holders(m)' = Holders(m)
    BY OpenersSame, HoldersSame DEF Kept
  <2> QED
    BY <2>1 DEF OneRight, RefsRight, Kept
<1>3. HeldRight(m)'
  BY DEF OneRight, HeldRight, Kept
<1>4. LeaksRight(m)'
  BY DEF OneRight, LeaksRight, Kept
<1>5. UserRight(m)'
  BY DEF OneRight, UserRight, Kept
<1>6. RebootsRight(m)'
  BY DEF OneRight, RebootsRight, Kept
<1>7. JoinRight(m)'
  BY DEF OneRight, JoinRight, Kept
<1> QED
  BY <1>1, <1>2, <1>3, <1>4, <1>5, <1>6, <1>7 DEF OneRight

LEMMA TypesAre ==
  /\ HostTypeOK => LifecycleTypeOK
  /\ LifecycleTypeOK <=>
       /\ hostmem_used \in Int /\ monState \in [Monitor -> States]
       /\ held \in [Monitor -> SUBSET Resource] /\ armed \in [Monitor -> BOOLEAN]
       /\ refcount \in [Monitor -> Nat] /\ listed \subseteq Monitor
       /\ kernel \in [Monitor -> Kernels] /\ loaded \in [Monitor -> Int]
       /\ leaked \in [Monitor -> SUBSET Lost] /\ wild \in [Monitor -> SUBSET Resource]
       /\ closing \in [Monitor -> [Opener -> Nat]] /\ miscounted \in [Monitor -> BOOLEAN]
       /\ raced \subseteq {"lost update", "stale check"}
  /\ HostTypeOK <=>
       /\ LifecycleTypeOK
       /\ pc \in [Monitor -> Points] /\ user \in [Monitor -> SUBSET Things]
       /\ nextReboot \in [Monitor -> BOOLEAN] /\ stop \in [Monitor -> {"none", "flagged", "sent"}]
       /\ power \in [Monitor -> BOOLEAN]
       /\ reboots \in [Monitor -> Nat] /\ \A d \in Monitor : reboots[d] <= MaxReboots[d] + 1
       /\ cutShort \in [Monitor -> {"no", "start failed", "crash"}]
       /\ joined \in [Monitor -> [Child -> Places]]
BY Zenon DEF HostTypeOK, LifecycleTypeOK, States, Kernels, Lost, Points, Things, Places

LEMMA MovedRight ==
  ASSUME HostInv, NEW d \in Monitor, Moved(d), OneRight(d)'
  PROVE  HostInv'
<1>1. HostTypeOK /\ LifecycleTypeOK
  BY TypesAre DEF HostInv
<1>2. LifecycleTypeOK'
  <2>1. /\ monState' \in [Monitor -> States] /\ held' \in [Monitor -> SUBSET Resource]
        /\ armed' \in [Monitor -> BOOLEAN] /\ refcount' \in [Monitor -> Nat]
        /\ kernel' \in [Monitor -> Kernels] /\ leaked' \in [Monitor -> SUBSET Lost]
        /\ wild' \in [Monitor -> SUBSET Resource] /\ listed' \subseteq Monitor
        /\ closing' \in [Monitor -> [Opener -> Nat]] /\ miscounted' \in [Monitor -> BOOLEAN]
    BY <1>1, TypesAre DEF Moved, LifeTyped, LifeOnly
  <2>2. hostmem_used' \in Int /\ loaded' \in [Monitor -> Int] /\ raced' \subseteq {"lost update", "stale check"}
    BY <1>1, TypesAre DEF Moved, MemoryTyped, MemoryOnly
  <2> QED
    BY <2>1, <2>2 DEF LifecycleTypeOK, States, Kernels, Lost
<1>3. HostTypeOK'
  <2>1. /\ pc' \in [Monitor -> Points] /\ user' \in [Monitor -> SUBSET Things]
        /\ nextReboot' \in [Monitor -> BOOLEAN] /\ stop' \in [Monitor -> {"none", "flagged", "sent"}]
        /\ power' \in [Monitor -> BOOLEAN] /\ cutShort' \in [Monitor -> {"no", "start failed", "crash"}]
        /\ joined' \in [Monitor -> [Child -> Places]]
    BY <1>1, TypesAre, ZenonT(60) DEF Moved, DaemonTyped, DaemonOnly
  <2>2. reboots' \in [Monitor -> Nat] /\ \A m \in Monitor : reboots'[m] <= MaxReboots[m] + 1
    <3>1. /\ reboots' = [reboots EXCEPT ![d] = reboots'[d]]
          /\ reboots'[d] \in Nat /\ reboots'[d] <= MaxReboots[d] + 1
      BY DEF Moved, DaemonTyped, DaemonOnly
    <3>2. reboots \in [Monitor -> Nat] /\ \A m \in Monitor : reboots[m] <= MaxReboots[m] + 1
      BY <1>1, TypesAre
    <3> QED
      BY <3>1, <3>2
  <2> QED
    BY <1>2, <2>1, <2>2 DEF HostTypeOK, Points, Things, Places
<1>4. \A m \in Monitor : OneRight(m)'
  <2> SUFFICES ASSUME NEW m \in Monitor, m # d PROVE OneRight(m)'
    OBVIOUS
  <2>1. Kept(m)
    <3>1. /\ monState'[m] = monState[m] /\ held'[m] = held[m] /\ armed'[m] = armed[m]
          /\ refcount'[m] = refcount[m] /\ kernel'[m] = kernel[m] /\ leaked'[m] = leaked[m]
          /\ wild'[m] = wild[m] /\ (m \in listed' <=> m \in listed)
          /\ closing'[m] = closing[m] /\ miscounted'[m] = miscounted[m]
      BY <1>1, TypesAre, ZenonT(60) DEF Moved, LifeOnly
    <3>2. /\ pc'[m] = pc[m] /\ user'[m] = user[m] /\ stop'[m] = stop[m] /\ power'[m] = power[m]
          /\ reboots'[m] = reboots[m] /\ cutShort'[m] = cutShort[m] /\ joined'[m] = joined[m]
      BY <1>1, TypesAre, ZenonT(60) DEF Moved, DaemonOnly
    <3> QED
      BY <3>1, <3>2 DEF Kept
  <2> QED
    BY <2>1, KeptRight DEF HostInv
<1> QED
  BY <1>3, <1>4 DEF HostInv

LEMMA AtDaemon ==
  ASSUME HostInv, NEW d \in Monitor
  PROVE  /\ monState[d] \in States /\ held[d] \in SUBSET Resource /\ armed[d] \in BOOLEAN
         /\ refcount[d] \in Nat /\ kernel[d] \in Kernels /\ leaked[d] \in SUBSET Lost
         /\ wild[d] \in SUBSET Resource /\ loaded[d] \in Int /\ hostmem_used \in Int
         /\ raced \subseteq {"lost update", "stale check"}
         /\ pc[d] \in Points /\ user[d] \in SUBSET Things /\ nextReboot[d] \in BOOLEAN
         /\ stop[d] \in {"none", "flagged", "sent"} /\ power[d] \in BOOLEAN
         /\ reboots[d] \in Nat /\ reboots[d] <= MaxReboots[d] + 1 /\ MaxReboots[d] \in Nat
         /\ cutShort[d] \in {"no", "start failed", "crash"}
         /\ StageRight(d) /\ RefsRight(d) /\ HeldRight(d) /\ LeaksRight(d) /\ UserRight(d)
         /\ RebootsRight(d) /\ JoinRight(d)
         /\ closing[d] \in [Opener -> Nat] /\ miscounted[d] \in BOOLEAN
         /\ joined[d] \in [Child -> Places]
<1>1. HostTypeOK /\ LifecycleTypeOK
  BY TypesAre DEF HostInv
<1>2. /\ StageRight(d) /\ RefsRight(d) /\ HeldRight(d) /\ LeaksRight(d) /\ UserRight(d)
      /\ RebootsRight(d) /\ JoinRight(d)
  BY DEF HostInv, OneRight
<1> QED
  BY <1>1, <1>2, TypesAre, DaemonAssumption

LEMMA Functions ==
  ASSUME HostInv
  PROVE  /\ monState \in [Monitor -> States] /\ held \in [Monitor -> SUBSET Resource]
         /\ armed \in [Monitor -> BOOLEAN] /\ refcount \in [Monitor -> Nat]
         /\ kernel \in [Monitor -> Kernels] /\ leaked \in [Monitor -> SUBSET Lost]
         /\ wild \in [Monitor -> SUBSET Resource] /\ loaded \in [Monitor -> Int]
         /\ pc \in [Monitor -> Points] /\ user \in [Monitor -> SUBSET Things]
         /\ nextReboot \in [Monitor -> BOOLEAN] /\ stop \in [Monitor -> {"none", "flagged", "sent"}]
         /\ power \in [Monitor -> BOOLEAN] /\ reboots \in [Monitor -> Nat]
         /\ cutShort \in [Monitor -> {"no", "start failed", "crash"}]
         /\ closing \in [Monitor -> [Opener -> Nat]] /\ miscounted \in [Monitor -> BOOLEAN]
         /\ joined \in [Monitor -> [Child -> Places]]
BY TypesAre DEF HostInv

LEMMA DaemonSame ==
  ASSUME HostInv, NEW d \in Monitor, UNCHANGED daemonVars
  PROVE  DaemonTyped(d) /\ DaemonOnly(d)
BY AtDaemon, Functions DEF daemonVars, DaemonTyped, DaemonOnly

LEMMA MemorySame ==
  ASSUME HostInv, NEW d \in Monitor, UNCHANGED memoryVars
  PROVE  MemoryTyped(d) /\ MemoryOnly(d)
BY AtDaemon, Functions DEF memoryVars, MemoryTyped, MemoryOnly

LEMMA LifeSame ==
  ASSUME HostInv, NEW d \in Monitor, UNCHANGED lifecycleVars
  PROVE  /\ LifeTyped(d) /\ LifeOnly(d) /\ MemoryTyped(d) /\ MemoryOnly(d)
         /\ monState'[d] = monState[d] /\ held'[d] = held[d] /\ armed'[d] = armed[d]
         /\ refcount'[d] = refcount[d] /\ kernel'[d] = kernel[d] /\ leaked'[d] = leaked[d]
         /\ wild'[d] = wild[d] /\ listed' = listed /\ closing' = closing /\ miscounted' = miscounted
BY AtDaemon, Functions DEF lifecycleVars, LifeTyped, LifeOnly, MemoryTyped, MemoryOnly

(* A step of the daemon alone. *)
DaemonMoves(d) ==
  /\ UNCHANGED <<lifecycleVars, reboots>>
  /\ DaemonTyped(d) /\ DaemonOnly(d)

(* The places between the ioctl that creates the monitor and the guest's start. *)
Fresh == {"creating", "created", "loaded", "opened", "start"}

(* It keeps its handles while there is a monitor, and its place in co_monitor_refdown. *)
Stays(d) ==
  /\ \/ joined' = joined
     \/ /\ pc'[d] \notin Unlaunched
        /\ \A c \in Child : joined[d][c] = "no" /\ joined'[d][c] \in {"no", "started"}
  /\ \/ user'[d] \intersect Handles = user[d] \intersect Handles
     \/ kernel[d] = "idle" /\ monState[d] \in Gone
  /\ pc'[d] \in Unlaunched => pc[d] \in Unlaunched
  /\ closing[d]["daemon"] > 0 => pc'[d] \in {"out", "exit"}

LEMMA DaemonMovesRight ==
  ASSUME HostInv, NEW d \in Monitor, DaemonMoves(d), UserRight(d)', RebootsRight(d)', Stays(d),
         StageRight(d)',
         pc'[d] \in Fresh => pc[d] \in Fresh
  PROVE  HostInv'
<1>1. /\ LifeTyped(d) /\ LifeOnly(d) /\ MemoryTyped(d) /\ MemoryOnly(d)
      /\ monState'[d] = monState[d] /\ held'[d] = held[d] /\ armed'[d] = armed[d]
      /\ refcount'[d] = refcount[d] /\ kernel'[d] = kernel[d] /\ leaked'[d] = leaked[d]
      /\ wild'[d] = wild[d] /\ listed' = listed /\ closing' = closing /\ miscounted' = miscounted
  BY LifeSame DEF DaemonMoves
<1>2. HeldRight(d)'
  BY <1>1, AtDaemon DEF HeldRight, Fresh, DaemonMoves
<1>3. LeaksRight(d)'
  BY <1>1, AtDaemon DEF LeaksRight, DaemonMoves
<1>4. RefsRight(d) /\ JoinRight(d)
  BY AtDaemon
<1>5. Openers(d)' = Openers(d) /\ \A c \in Child : joined'[d][c] = "attached" <=> joined[d][c] = "attached"
  <2>1. \A c \in Child : joined'[d][c] = "attached" <=> joined[d][c] = "attached"
    BY DEF Stays
  <2> QED
    BY <1>1, <2>1 DEF Openers
<1>6. RefsRight(d)'
  <2>1. CASE user'[d] \intersect Handles = user[d] \intersect Handles
    <3>1. Holders(d)' = Holders(d) /\ ("manager" \in user'[d] <=> "manager" \in user[d])
      BY <1>5, <2>1, HoldersSame DEF Handles
    <3> QED
      BY <1>1, <1>4, <1>5, <2>1, <3>1 DEF RefsRight
  <2>2. CASE kernel[d] = "idle" /\ monState[d] \in Gone
    BY <1>1, <1>4, <1>5, <2>2 DEF RefsRight, Ending
  <2> QED
    BY <2>1, <2>2 DEF Stays
<1>7. JoinRight(d)'
  <2>1. \A c \in Child : closing[d][c] > 0 => joined'[d][c] = "left"
    <3>1. ASSUME NEW c \in Child, closing[d][c] > 0 PROVE joined'[d][c] = "left"
      <4>1. joined[d][c] = "left"
        BY <1>4, <3>1 DEF JoinRight
      <4> QED
        BY <4>1 DEF Stays
    <3> QED
      BY <3>1
  <2>2. pc'[d] \in Unlaunched => \A c \in Child : joined'[d][c] = "no"
    BY <1>4 DEF Stays, JoinRight
  <2> QED
    BY <1>1, <2>1, <2>2 DEF Stays, JoinRight
<1>8. OneRight(d)'
  BY <1>2, <1>3, <1>6, <1>7 DEF OneRight
<1>9. Moved(d)
  BY <1>1 DEF Moved, DaemonMoves
<1> QED
  BY <1>8, <1>9, MovedRight

LEMMA JoinSame ==
  ASSUME NEW d, JoinRight(d), closing'[d] = closing[d], joined'[d] = joined[d],
         pc'[d] \in Unlaunched => pc[d] \in Unlaunched,
         closing[d]["daemon"] > 0 => pc'[d] \in {"out", "exit"}
  PROVE  JoinRight(d)' /\ Openers(d)' = Openers(d)
<1>1. Openers(d)' = Openers(d)
  BY OpenersSame
<1> QED
  BY <1>1 DEF JoinRight

LEMMA LoadImageRight ==
  ASSUME HostInv, NEW d \in Monitor, LoadImage(d)
  PROVE  HostInv'
<1>1. /\ UNCHANGED lifecycleVars /\ pc[d] = "begin" /\ nextReboot' = nextReboot /\ stop' = stop
      /\ power' = power /\ joined' = joined /\ reboots' = reboots /\ cutShort' = cutShort
      /\ \/ pc'[d] = "image" /\ user'[d] = {"image"}
         \/ pc'[d] = "exit" /\ user'[d] = user[d]
  BY Functions DEF LoadImage, Goto, Owns, handlerVars
<1>2. DaemonMoves(d)
  <2>1. DaemonTyped(d)
    BY <1>1, AtDaemon DEF DaemonTyped, Points, Things, BeforeOpen
  <2>2. DaemonOnly(d)
    <3>1. /\ pc' = [pc EXCEPT ![d] = pc'[d]]
          /\ user' = [user EXCEPT ![d] = user'[d]]
      BY Functions DEF LoadImage, Goto, Owns
    <3> QED
      BY <1>1, <3>1, Functions DEF DaemonOnly
  <2> QED
    BY <1>1, <2>1, <2>2 DEF DaemonMoves
<1>3. UserRight(d)'
  BY <1>1, AtDaemon DEF UserRight, Handles
<1>4. RebootsRight(d)'
  BY <1>1, AtDaemon DEF RebootsRight
<1>5. Stays(d)
  <2>1. StageRight(d) /\ JoinRight(d) /\ user[d] = {}
    BY <1>1, AtDaemon DEF UserRight
  <2> QED
    BY <1>1, <2>1 DEF Stays, StageRight, JoinRight, Unlaunched, Gone
<1>6. StageRight(d)'
  BY <1>1, LifeSame, AtDaemon, ZenonT(60) DEF StageRight, Gone, Creating, Ending, Handles
<1>7. pc'[d] \in Fresh => pc[d] \in Fresh
  BY <1>1 DEF Fresh
<1> QED
  BY <1>2, <1>3, <1>4, <1>5, <1>6, <1>7, DaemonMovesRight

(* The outcomes of LoadGuest and OpenMessages without an ioctl that succeeds. *)
LoadsOnly(d) ==
  /\ pc[d] = "created"
  /\ \/ Goto(d, "loaded") /\ UNCHANGED user
     \/ Goto(d, "exit") /\ Owns(d, {"manager"})
  /\ UNCHANGED <<handlerVars, joined, reboots, cutShort, lifecycleVars>>
EndsUnopened(d) ==
  /\ pc[d] = "loaded" /\ Goto(d, "end")
  /\ UNCHANGED <<user, handlerVars, joined, reboots, cutShort, lifecycleVars>>

LEMMA OpenManagerRight ==
  ASSUME HostInv, NEW d \in Monitor, OpenManager(d)
  PROVE  HostInv'
<1>1. /\ UNCHANGED lifecycleVars
      /\ pc[d] = "image"
      /\ nextReboot' = nextReboot /\ stop' = stop /\ power' = power /\ joined' = joined /\ reboots' = reboots /\ cutShort' = cutShort
      /\ \/ pc'[d] = "create" /\ user'[d] = {"image", "manager"}
         \/ pc'[d] = "exit" /\ user'[d] = {}
  BY Functions, AtDaemon, ZenonT(60) DEF OpenManager, Goto, Owns, handlerVars
<1>2. DaemonMoves(d)
  <2>1. DaemonTyped(d)
    BY <1>1, AtDaemon DEF DaemonTyped, Points, Things, BeforeOpen
  <2>2. DaemonOnly(d)
    <3>1. /\ pc' = [pc EXCEPT ![d] = pc'[d]]
          /\ user' = [user EXCEPT ![d] = user'[d]]
      BY Functions DEF OpenManager, Goto, Owns, handlerVars
    <3> QED
      BY <1>1, <3>1, Functions DEF DaemonOnly
  <2> QED
    BY <1>1, <2>1, <2>2 DEF DaemonMoves
<1>3. StageRight(d) /\ RefsRight(d) /\ UserRight(d) /\ RebootsRight(d) /\ JoinRight(d)
  BY AtDaemon
<1>4. /\ monState'[d] = monState[d] /\ armed'[d] = armed[d] /\ refcount'[d] = refcount[d]
      /\ kernel'[d] = kernel[d] /\ listed' = listed
  BY <1>1, LifeSame
<1>6. UserRight(d)'
  BY <1>1, <1>3 DEF UserRight, Handles
<1>7. RebootsRight(d)'
  BY <1>1, <1>3, AtDaemon DEF RebootsRight
<1>8. Stays(d)
  BY <1>1, <1>3 DEF Stays, StageRight, JoinRight, Unlaunched, UserRight, Gone, Handles
<1>9. StageRight(d)'
  BY <1>1, <1>3, <1>4 DEF StageRight, Gone, Creating, Ending, Handles
<1>10. pc'[d] \in Fresh => pc[d] \in Fresh
  BY <1>1 DEF Fresh
<1> QED
  BY <1>2, <1>6, <1>7, <1>8, <1>9, <1>10, DaemonMovesRight

LEMMA CreateReturnsRight ==
  ASSUME HostInv, NEW d \in Monitor, CreateReturns(d)
  PROVE  HostInv'
<1>1. /\ UNCHANGED lifecycleVars
      /\ pc[d] = "creating" /\ kernel[d] = "idle"
      /\ nextReboot' = nextReboot /\ stop' = stop /\ power' = power /\ joined' = joined /\ reboots' = reboots /\ cutShort' = cutShort
      /\ \/ pc'[d] = "created" /\ user'[d] = user[d] /\ monState[d] = "INITIALIZED"
         \/ pc'[d] = "exit" /\ user'[d] = {} /\ monState[d] # "INITIALIZED"
  BY Functions, AtDaemon, ZenonT(60) DEF CreateReturns, Goto, Owns, handlerVars
<1>2. DaemonMoves(d)
  <2>1. DaemonTyped(d)
    BY <1>1, AtDaemon DEF DaemonTyped, Points, Things, BeforeOpen
  <2>2. DaemonOnly(d)
    <3>1. /\ pc' = [pc EXCEPT ![d] = pc'[d]]
          /\ user' = [user EXCEPT ![d] = user'[d]]
      BY Functions DEF CreateReturns, Goto, Owns, handlerVars
    <3> QED
      BY <1>1, <3>1, Functions DEF DaemonOnly
  <2> QED
    BY <1>1, <2>1, <2>2 DEF DaemonMoves
<1>3. StageRight(d) /\ RefsRight(d) /\ UserRight(d) /\ RebootsRight(d) /\ JoinRight(d)
  BY AtDaemon
<1>4. /\ monState'[d] = monState[d] /\ armed'[d] = armed[d] /\ refcount'[d] = refcount[d]
      /\ kernel'[d] = kernel[d] /\ listed' = listed
  BY <1>1, LifeSame
<1>6. UserRight(d)'
  BY <1>1, <1>3 DEF UserRight, Handles
<1>7. RebootsRight(d)'
  BY <1>1, <1>3, AtDaemon DEF RebootsRight
<1>8. Stays(d)
  BY <1>1, <1>3 DEF Stays, StageRight, JoinRight, Unlaunched, UserRight, Gone, Handles
<1>9. StageRight(d)'
  BY <1>1, <1>3, <1>4 DEF StageRight, Gone, Creating, Ending, Handles
<1>10. pc'[d] \in Fresh => pc[d] \in Fresh
  BY <1>1 DEF Fresh
<1> QED
  BY <1>2, <1>6, <1>7, <1>8, <1>9, <1>10, DaemonMovesRight

LEMMA LoadGuestOnlyRight ==
  ASSUME HostInv, NEW d \in Monitor, LoadsOnly(d)
  PROVE  HostInv'
<1>1. /\ UNCHANGED lifecycleVars
      /\ pc[d] = "created"
      /\ nextReboot' = nextReboot /\ stop' = stop /\ power' = power /\ joined' = joined /\ reboots' = reboots /\ cutShort' = cutShort
      /\ \/ pc'[d] = "loaded" /\ user'[d] = user[d]
         \/ pc'[d] = "exit" /\ user'[d] = {"manager"}
  BY Functions, AtDaemon, ZenonT(60) DEF LoadsOnly, Goto, Owns, handlerVars
<1>2. DaemonMoves(d)
  <2>1. DaemonTyped(d)
    BY <1>1, AtDaemon DEF DaemonTyped, Points, Things, BeforeOpen
  <2>2. DaemonOnly(d)
    <3>1. /\ pc' = [pc EXCEPT ![d] = pc'[d]]
          /\ user' = [user EXCEPT ![d] = user'[d]]
      BY Functions DEF LoadsOnly, Goto, Owns, handlerVars
    <3> QED
      BY <1>1, <3>1, Functions DEF DaemonOnly
  <2> QED
    BY <1>1, <2>1, <2>2 DEF DaemonMoves
<1>3. StageRight(d) /\ RefsRight(d) /\ UserRight(d) /\ RebootsRight(d) /\ JoinRight(d)
  BY AtDaemon
<1>4. /\ monState'[d] = monState[d] /\ armed'[d] = armed[d] /\ refcount'[d] = refcount[d]
      /\ kernel'[d] = kernel[d] /\ listed' = listed
  BY <1>1, LifeSame
<1>6. UserRight(d)'
  BY <1>1, <1>3 DEF UserRight, Handles
<1>7. RebootsRight(d)'
  BY <1>1, <1>3, AtDaemon DEF RebootsRight
<1>8. Stays(d)
  BY <1>1, <1>3 DEF Stays, StageRight, JoinRight, Unlaunched, UserRight, Gone, Handles
<1>9. StageRight(d)'
  BY <1>1, <1>3, <1>4 DEF StageRight, Gone, Creating, Ending, Handles
<1>10. pc'[d] \in Fresh => pc[d] \in Fresh
  BY <1>1 DEF Fresh
<1> QED
  BY <1>2, <1>6, <1>7, <1>8, <1>9, <1>10, DaemonMovesRight

LEMMA OpenMessagesOnlyRight ==
  ASSUME HostInv, NEW d \in Monitor, EndsUnopened(d)
  PROVE  HostInv'
<1>1. /\ UNCHANGED lifecycleVars
      /\ pc[d] = "loaded"
      /\ user' = user /\ nextReboot' = nextReboot /\ stop' = stop /\ power' = power /\ joined' = joined /\ reboots' = reboots /\ cutShort' = cutShort
      /\ pc'[d] = "end" /\ user'[d] = user[d]
  BY Functions, AtDaemon DEF EndsUnopened, Goto, Owns, handlerVars
<1>2. DaemonMoves(d)
  <2>1. DaemonTyped(d)
    BY <1>1, AtDaemon DEF DaemonTyped, Points, Things, BeforeOpen
  <2>2. DaemonOnly(d)
    <3>1. /\ pc' = [pc EXCEPT ![d] = pc'[d]]
      BY Functions DEF EndsUnopened, Goto, Owns, handlerVars
    <3> QED
      BY <1>1, <3>1, Functions DEF DaemonOnly
  <2> QED
    BY <1>1, <2>1, <2>2 DEF DaemonMoves
<1>3. StageRight(d) /\ RefsRight(d) /\ UserRight(d) /\ RebootsRight(d) /\ JoinRight(d)
  BY AtDaemon
<1>4. /\ monState'[d] = monState[d] /\ armed'[d] = armed[d] /\ refcount'[d] = refcount[d]
      /\ kernel'[d] = kernel[d] /\ listed' = listed
  BY <1>1, LifeSame
<1>5. user[d] = {"image", "manager"} /\ cutShort[d] = "no"
  BY <1>1, <1>3 DEF StageRight, RefsRight, UserRight, Handles, Gone
<1>6. UserRight(d)'
  BY <1>1, <1>3, <1>5 DEF UserRight, Handles
<1>7. RebootsRight(d)'
  BY <1>1, <1>3, AtDaemon DEF RebootsRight
<1>8. Stays(d)
  BY <1>1, <1>3, <1>5 DEF Stays, StageRight, JoinRight, Unlaunched, UserRight, Gone, Handles
<1>9. StageRight(d)'
  BY <1>1, <1>3, <1>4, <1>5 DEF StageRight, Gone, Creating, Ending, Handles
<1>10. pc'[d] \in Fresh => pc[d] \in Fresh
  BY <1>1 DEF Fresh
<1> QED
  BY <1>2, <1>6, <1>7, <1>8, <1>9, <1>10, DaemonMovesRight

LEMMA LaunchRight ==
  ASSUME HostInv, NEW d \in Monitor, Launch(d)
  PROVE  HostInv'
<1>1. /\ UNCHANGED lifecycleVars
      /\ pc[d] = "opened"
      /\ stop' = stop /\ power' = power /\ reboots' = reboots /\ cutShort' = cutShort
      /\ \/ /\ pc'[d] = "start" /\ nextReboot'[d] = FALSE
            /\ user'[d] = user[d] \union {r \in {"pidfile"} : d \in Pidfile} \union {r \in {"executes"} : d \in Executes}
            /\ joined'[d] = [c \in Child |-> IF c \in Launched[d] THEN "started" ELSE "no"]
         \/ pc'[d] = "end" /\ user'[d] = user[d] /\ nextReboot'[d] = nextReboot[d] /\ joined' = joined
         \/ pc'[d] = "end" /\ user'[d] = user[d] \ {"reactor"} /\ nextReboot'[d] = nextReboot[d] /\ joined' = joined
  BY Functions, AtDaemon, ZenonT(60) DEF Launch, Goto, Owns, handlerVars
<1>2. DaemonMoves(d)
  <2>1. DaemonTyped(d)
    BY <1>1, AtDaemon DEF DaemonTyped, Points, Things, BeforeOpen, Places
  <2>2. DaemonOnly(d)
    <3>1. /\ pc' = [pc EXCEPT ![d] = pc'[d]]
          /\ user' = [user EXCEPT ![d] = user'[d]]
          /\ nextReboot' = [nextReboot EXCEPT ![d] = nextReboot'[d]]
          /\ joined' = [joined EXCEPT ![d] = joined'[d]]
      BY Functions, ZenonT(60) DEF Launch, Goto, Owns, handlerVars
    <3> QED
      BY <1>1, <3>1, Functions DEF DaemonOnly
  <2> QED
    BY <1>1, <2>1, <2>2 DEF DaemonMoves
<1>3. StageRight(d) /\ RefsRight(d) /\ UserRight(d) /\ RebootsRight(d) /\ JoinRight(d)
  BY AtDaemon
<1>4. /\ monState'[d] = monState[d] /\ armed'[d] = armed[d] /\ refcount'[d] = refcount[d]
      /\ kernel'[d] = kernel[d] /\ listed' = listed
  BY <1>1, LifeSame
<1>5. user[d] = {"image", "manager", "reactor", "messages"} /\ cutShort[d] = "no"
  BY <1>1, <1>3 DEF StageRight, RefsRight, UserRight, Handles, Gone
<1>6. UserRight(d)'
  BY <1>1, <1>3, <1>5 DEF UserRight, Handles
<1>7. RebootsRight(d)'
  BY <1>1, <1>3, AtDaemon DEF RebootsRight
<1>8. Stays(d)
  <2>1. ~(closing[d]["daemon"] > 0) /\ \A c \in Child : joined[d][c] = "no"
    BY <1>1, <1>3 DEF JoinRight, Unlaunched
  <2>2. user'[d] \intersect Handles = user[d] \intersect Handles
    BY <1>1, <1>5 DEF Handles
  <2>3. pc'[d] \notin Unlaunched
    BY <1>1 DEF Unlaunched
  <2>4. joined' = joined \/ \A c \in Child : joined'[d][c] \in {"no", "started"}
    BY <1>1
  <2> QED
    BY <2>1, <2>2, <2>3, <2>4 DEF Stays
<1>9. StageRight(d)'
  BY <1>1, <1>3, <1>4, <1>5 DEF StageRight, Gone, Creating, Ending, Handles
<1>10. pc'[d] \in Fresh => pc[d] \in Fresh
  BY <1>1 DEF Fresh
<1> QED
  BY <1>2, <1>6, <1>7, <1>8, <1>9, <1>10, DaemonMovesRight

LEMMA RunFailsRight ==
  ASSUME HostInv, NEW d \in Monitor, RunFails(d)
  PROVE  HostInv'
<1>1. /\ UNCHANGED lifecycleVars
      /\ pc[d] = "run"
      /\ user' = user /\ nextReboot' = nextReboot /\ stop' = stop /\ power' = power /\ joined' = joined /\ reboots' = reboots /\ cutShort' = cutShort
      /\ pc'[d] = "kill" /\ user'[d] = user[d]
  BY Functions, AtDaemon DEF RunFails, AfterRunError, Goto, Owns, handlerVars
<1>2. DaemonMoves(d)
  <2>1. DaemonTyped(d)
    BY <1>1, AtDaemon DEF DaemonTyped, Points, Things, BeforeOpen
  <2>2. DaemonOnly(d)
    <3>1. /\ pc' = [pc EXCEPT ![d] = pc'[d]]
      BY Functions DEF RunFails, AfterRunError, Goto, Owns, handlerVars
    <3> QED
      BY <1>1, <3>1, Functions DEF DaemonOnly
  <2> QED
    BY <1>1, <2>1, <2>2 DEF DaemonMoves
<1>3. StageRight(d) /\ RefsRight(d) /\ UserRight(d) /\ RebootsRight(d) /\ JoinRight(d)
  BY AtDaemon
<1>4. /\ monState'[d] = monState[d] /\ armed'[d] = armed[d] /\ refcount'[d] = refcount[d]
      /\ kernel'[d] = kernel[d] /\ listed' = listed
  BY <1>1, LifeSame
<1>6. UserRight(d)'
  BY <1>1, <1>3 DEF UserRight, Handles
<1>7. RebootsRight(d)'
  BY <1>1, <1>3, AtDaemon DEF RebootsRight
<1>8. Stays(d)
  BY <1>1, <1>3 DEF Stays, StageRight, JoinRight, Unlaunched, UserRight, Gone, Handles
<1>9. StageRight(d)'
  BY <1>1, <1>3, <1>4 DEF StageRight, Gone, Creating, Ending, Handles
<1>10. pc'[d] \in Fresh => pc[d] \in Fresh
  BY <1>1 DEF Fresh
<1> QED
  BY <1>2, <1>6, <1>7, <1>8, <1>9, <1>10, DaemonMovesRight

LEMMA RestartOrEndRight ==
  ASSUME HostInv, NEW d \in Monitor, RestartOrEnd(d)
  PROVE  HostInv'
<1>1. /\ UNCHANGED lifecycleVars
      /\ pc[d] \in {"rebooted", "ended"}
      /\ user'[d] = user[d]
      /\ user' = user /\ nextReboot' = nextReboot /\ stop' = stop /\ power' = power /\ joined' = joined /\ reboots' = reboots /\ cutShort' = cutShort
      /\ \/ pc'[d] = "restart" /\ pc[d] = "rebooted"
         \/ pc'[d] = "kill"
  BY Functions, AtDaemon DEF RestartOrEnd, Restarts, Goto, Owns, handlerVars
<1>2. DaemonMoves(d)
  <2>1. DaemonTyped(d)
    BY <1>1, AtDaemon DEF DaemonTyped, Points, Things, BeforeOpen
  <2>2. DaemonOnly(d)
    <3>1. /\ pc' = [pc EXCEPT ![d] = pc'[d]]
      BY Functions DEF RestartOrEnd, Restarts, Goto, Owns, handlerVars
    <3> QED
      BY <1>1, <3>1, Functions DEF DaemonOnly
  <2> QED
    BY <1>1, <2>1, <2>2 DEF DaemonMoves
<1>3. StageRight(d) /\ RefsRight(d) /\ UserRight(d) /\ RebootsRight(d) /\ JoinRight(d)
  BY AtDaemon
<1>4. /\ monState'[d] = monState[d] /\ armed'[d] = armed[d] /\ refcount'[d] = refcount[d]
      /\ kernel'[d] = kernel[d] /\ listed' = listed
  BY <1>1, LifeSame
<1>6. UserRight(d)'
  BY <1>1, <1>3 DEF UserRight, Handles
<1>7. RebootsRight(d)'
  BY <1>1, <1>3, AtDaemon DEF RebootsRight
<1>8. Stays(d)
  BY <1>1, <1>3 DEF Stays, StageRight, JoinRight, Unlaunched, UserRight, Gone, Handles
<1>9. StageRight(d)'
  BY <1>1, <1>3, <1>4 DEF StageRight, Gone, Creating, Ending, Handles
<1>10. pc'[d] \in Fresh => pc[d] \in Fresh
  BY <1>1 DEF Fresh
<1> QED
  BY <1>2, <1>6, <1>7, <1>8, <1>9, <1>10, DaemonMovesRight

LEMMA RemovePidfileRight ==
  ASSUME HostInv, NEW d \in Monitor, RemovePidfile(d)
  PROVE  HostInv'
<1>1. /\ UNCHANGED lifecycleVars
      /\ pc[d] = "out" /\ closing[d]["daemon"] = 0
      /\ nextReboot' = nextReboot /\ stop' = stop /\ power' = power /\ joined' = joined /\ reboots' = reboots /\ cutShort' = cutShort
      /\ pc'[d] = "end" /\ user'[d] = user[d] \ {"pidfile", "reactor"}
  BY Functions, AtDaemon DEF RemovePidfile, Settled, Goto, Owns, handlerVars
<1>2. DaemonMoves(d)
  <2>1. DaemonTyped(d)
    BY <1>1, AtDaemon DEF DaemonTyped, Points, Things, BeforeOpen
  <2>2. DaemonOnly(d)
    <3>1. /\ pc' = [pc EXCEPT ![d] = pc'[d]]
          /\ user' = [user EXCEPT ![d] = user'[d]]
      BY Functions DEF RemovePidfile, Goto, Owns, handlerVars
    <3> QED
      BY <1>1, <3>1, Functions DEF DaemonOnly
  <2> QED
    BY <1>1, <2>1, <2>2 DEF DaemonMoves
<1>3. StageRight(d) /\ RefsRight(d) /\ UserRight(d) /\ RebootsRight(d) /\ JoinRight(d)
  BY AtDaemon
<1>4. /\ monState'[d] = monState[d] /\ armed'[d] = armed[d] /\ refcount'[d] = refcount[d]
      /\ kernel'[d] = kernel[d] /\ listed' = listed
  BY <1>1, LifeSame
<1>6. UserRight(d)'
  BY <1>1, <1>3 DEF UserRight, Handles
<1>7. RebootsRight(d)'
  BY <1>1, <1>3, AtDaemon DEF RebootsRight
<1>8. Stays(d)
  <2>1. ~(closing[d]["daemon"] > 0)
    BY <1>1
  <2> QED
    BY <1>1, <2>1 DEF Stays, Unlaunched, Handles
<1>9. StageRight(d)'
  BY <1>1, <1>3, <1>4 DEF StageRight, Gone, Creating, Ending, Handles
<1>10. pc'[d] \in Fresh => pc[d] \in Fresh
  BY <1>1 DEF Fresh
<1> QED
  BY <1>2, <1>6, <1>7, <1>8, <1>9, <1>10, DaemonMovesRight

LEMMA ExitClosesOnlyRight ==
  ASSUME HostInv, NEW d \in Monitor, NEW handle \in Handles, ExitCloses(d, handle), refcount[d] = 0,
         ~miscounted[d]
  PROVE  HostInv'
<1>1. /\ UNCHANGED lifecycleVars
      /\ pc[d] = "exit" /\ kernel[d] \notin Creating /\ closing[d]["daemon"] = 0 /\ refcount[d] = 0
      /\ handle \in user[d]
      /\ pc' = pc /\ nextReboot' = nextReboot /\ stop' = stop /\ power' = power /\ joined' = joined /\ reboots' = reboots /\ cutShort' = cutShort
      /\ pc'[d] = "exit" /\ user'[d] = user[d] \ {handle}
  <2>1. UNCHANGED lifecycleVars
    BY DEF ExitCloses
  <2>2. pc'[d] = "exit" /\ user'[d] = user[d] \ {handle}
    BY Functions DEF ExitCloses, Owns
  <2> QED
    BY <2>1, <2>2 DEF ExitCloses, Settled, Creating, handlerVars
<1>2. DaemonMoves(d)
  <2>1. DaemonTyped(d)
    BY <1>1, AtDaemon DEF DaemonTyped, Points, Things, BeforeOpen
  <2>2. DaemonOnly(d)
    <3>1. /\ user' = [user EXCEPT ![d] = user'[d]]
      BY Functions DEF ExitCloses, Goto, Owns, handlerVars
    <3> QED
      BY <1>1, <3>1, Functions DEF DaemonOnly
  <2> QED
    BY <1>1, <2>1, <2>2 DEF DaemonMoves
<1>3. StageRight(d) /\ RefsRight(d) /\ UserRight(d) /\ RebootsRight(d) /\ JoinRight(d)
  BY AtDaemon
<1>4. /\ monState'[d] = monState[d] /\ armed'[d] = armed[d] /\ refcount'[d] = refcount[d]
      /\ kernel'[d] = kernel[d] /\ listed' = listed
  BY <1>1, LifeSame
<1>5. kernel[d] = "idle" /\ monState[d] \in Gone
  <2>1. kernel[d] = "idle" \/ kernel[d] \in Ending
    BY <1>1, AtDaemon DEF Kernels, Creating, Ending
  <2>2. kernel[d] \notin Ending
    BY <1>1, <1>3 DEF RefsRight, Ending
  <2>3. Cardinality(Holders(d)) = 0 => Holders(d) = {}
    BY HoldersFinite, FS_EmptySet
  <2> QED
    BY <1>1, <1>3, <2>1, <2>2, <2>3 DEF RefsRight
<1>6. UserRight(d)'
  BY <1>1, <1>3, <1>5 DEF UserRight, Handles
<1>7. RebootsRight(d)'
  BY <1>1, <1>3, AtDaemon DEF RebootsRight
<1>8. Stays(d)
  BY <1>1, <1>5 DEF Stays, Unlaunched
<1>9. StageRight(d)'
  BY <1>1, <1>3, <1>4, <1>5 DEF StageRight, Gone, Creating, Ending, Handles
<1>10. pc'[d] \in Fresh => pc[d] \in Fresh
  BY <1>1 DEF Fresh
<1> QED
  BY <1>2, <1>6, <1>7, <1>8, <1>9, <1>10, DaemonMovesRight

LEMMA ExitRight ==
  ASSUME HostInv, NEW d \in Monitor, Exit(d)
  PROVE  HostInv'
<1>1. /\ UNCHANGED lifecycleVars
      /\ pc[d] = "exit" /\ kernel[d] \notin Creating /\ closing[d]["daemon"] = 0 /\ user[d] \intersect {"manager", "messages"} = {}
      /\ nextReboot' = nextReboot /\ stop' = stop /\ joined' = joined /\ reboots' = reboots /\ cutShort' = cutShort
      /\ pc'[d] = "exited" /\ user'[d] = user[d] \intersect {"pidfile", "executes"} /\ power'[d] = FALSE
  BY Functions, AtDaemon DEF Exit, Settled, Creating, Goto, Owns, handlerVars
<1>2. DaemonMoves(d)
  <2>1. DaemonTyped(d)
    BY <1>1, AtDaemon DEF DaemonTyped, Points, Things, BeforeOpen
  <2>2. DaemonOnly(d)
    <3>1. /\ pc' = [pc EXCEPT ![d] = pc'[d]]
          /\ user' = [user EXCEPT ![d] = user'[d]]
          /\ power' = [power EXCEPT ![d] = power'[d]]
      BY Functions DEF Exit, Goto, Owns, handlerVars
    <3> QED
      BY <1>1, <3>1, Functions DEF DaemonOnly
  <2> QED
    BY <1>1, <2>1, <2>2 DEF DaemonMoves
<1>3. StageRight(d) /\ RefsRight(d) /\ UserRight(d) /\ RebootsRight(d) /\ JoinRight(d)
  BY AtDaemon
<1>4. /\ monState'[d] = monState[d] /\ armed'[d] = armed[d] /\ refcount'[d] = refcount[d]
      /\ kernel'[d] = kernel[d] /\ listed' = listed
  BY <1>1, LifeSame
<1>6. UserRight(d)'
  BY <1>1, <1>3 DEF UserRight, Handles
<1>7. RebootsRight(d)'
  BY <1>1, <1>3, AtDaemon DEF RebootsRight
<1>8. Stays(d)
  <2>1. ~(closing[d]["daemon"] > 0)
    BY <1>1
  <2> QED
    BY <1>1, <2>1 DEF Stays, Unlaunched, Handles
<1>9. StageRight(d)'
  BY <1>1, <1>3, <1>4 DEF StageRight, Gone, Creating, Ending, Handles
<1>10. pc'[d] \in Fresh => pc[d] \in Fresh
  BY <1>1 DEF Fresh
<1> QED
  BY <1>2, <1>6, <1>7, <1>8, <1>9, <1>10, DaemonMovesRight

LEMMA StopFlagsRight ==
  ASSUME HostInv, NEW d \in Monitor, StopFlags(d)
  PROVE  HostInv'
<1>1. /\ UNCHANGED lifecycleVars
      /\ stop[d] = "none"
      /\ pc' = pc /\ user' = user /\ power' = power /\ joined' = joined /\ reboots' = reboots /\ cutShort' = cutShort
      /\ pc'[d] = pc[d] /\ user'[d] = user[d] /\ nextReboot'[d] = TRUE /\ stop'[d] = "flagged"
  BY Functions, AtDaemon DEF StopFlags, Goto, Owns, handlerVars
<1>2. DaemonMoves(d)
  <2>1. DaemonTyped(d)
    BY <1>1, AtDaemon DEF DaemonTyped, Points, Things, BeforeOpen
  <2>2. DaemonOnly(d)
    <3>1. /\ nextReboot' = [nextReboot EXCEPT ![d] = nextReboot'[d]]
          /\ stop' = [stop EXCEPT ![d] = stop'[d]]
      BY Functions DEF StopFlags, Goto, Owns, handlerVars
    <3> QED
      BY <1>1, <3>1, Functions DEF DaemonOnly
  <2> QED
    BY <1>1, <2>1, <2>2 DEF DaemonMoves
<1>3. StageRight(d) /\ RefsRight(d) /\ UserRight(d) /\ RebootsRight(d) /\ JoinRight(d)
  BY AtDaemon
<1>4. /\ monState'[d] = monState[d] /\ armed'[d] = armed[d] /\ refcount'[d] = refcount[d]
      /\ kernel'[d] = kernel[d] /\ listed' = listed
  BY <1>1, LifeSame
<1>6. UserRight(d)'
  BY <1>1, <1>3 DEF UserRight, Handles
<1>7. RebootsRight(d)'
  BY <1>1, <1>3, AtDaemon DEF RebootsRight
<1>8. Stays(d)
  BY <1>1, <1>3 DEF Stays, StageRight, JoinRight, Unlaunched, UserRight, Gone, Handles
<1>9. StageRight(d)'
  BY <1>1, <1>3, <1>4 DEF StageRight, Gone, Creating, Ending, Handles
<1>10. pc'[d] \in Fresh => pc[d] \in Fresh
  BY <1>1 DEF Fresh
<1> QED
  BY <1>2, <1>6, <1>7, <1>8, <1>9, <1>10, DaemonMovesRight

LEMMA StopSendsRight ==
  ASSUME HostInv, NEW d \in Monitor, StopSends(d)
  PROVE  HostInv'
<1>1. /\ UNCHANGED lifecycleVars
      /\ stop[d] = "flagged" /\ pc[d] # "exited" /\ stop'[d] = "sent" /\ user'[d] = user[d]
      /\ user' = user /\ nextReboot' = nextReboot /\ joined' = joined /\ reboots' = reboots
      /\ \/ pc'[d] = pc[d] /\ cutShort'[d] = cutShort[d] /\ power'[d] = TRUE
         \/ pc'[d] = pc[d] /\ cutShort'[d] = cutShort[d] /\ power'[d] = power[d]
         \/ pc'[d] = "exit" /\ "messages" \notin user[d] /\ power'[d] = power[d] /\ cutShort'[d] = IF cutShort[d] = "no" THEN "crash" ELSE cutShort[d]
  BY Functions, AtDaemon DEF StopSends, Goto, Owns, handlerVars
<1>2. DaemonMoves(d)
  <2>1. DaemonTyped(d)
    BY <1>1, AtDaemon DEF DaemonTyped, Points, Things, BeforeOpen
  <2>2. DaemonOnly(d)
    <3>1. /\ pc' = [pc EXCEPT ![d] = pc'[d]]
          /\ stop' = [stop EXCEPT ![d] = stop'[d]]
          /\ power' = [power EXCEPT ![d] = power'[d]]
          /\ cutShort' = [cutShort EXCEPT ![d] = cutShort'[d]]
      BY Functions DEF StopSends, Goto, Owns, handlerVars
    <3> QED
      BY <1>1, <3>1, Functions DEF DaemonOnly
  <2> QED
    BY <1>1, <2>1, <2>2 DEF DaemonMoves
<1>3. StageRight(d) /\ RefsRight(d) /\ UserRight(d) /\ RebootsRight(d) /\ JoinRight(d)
  BY AtDaemon
<1>4. /\ monState'[d] = monState[d] /\ armed'[d] = armed[d] /\ refcount'[d] = refcount[d]
      /\ kernel'[d] = kernel[d] /\ listed' = listed
  BY <1>1, LifeSame
<1>6. UserRight(d)'
  <2>1. CASE pc'[d] = pc[d] /\ cutShort'[d] = cutShort[d]
    BY <1>1, <1>3, <2>1 DEF UserRight, Handles
  <2>2. CASE /\ pc'[d] = "exit" /\ "messages" \notin user[d]
             /\ cutShort'[d] = IF cutShort[d] = "no" THEN "crash" ELSE cutShort[d]
    <3>1. pc[d] \notin {"opened", "start", "run", "rebooted", "ended", "restart", "kill"}
      BY <1>3, <2>2 DEF UserRight, Handles
    <3>2. pc[d] \in {"begin", "image", "create", "creating", "created", "loaded"} =>
            "executes" \notin user[d] /\ "pidfile" \notin user[d]
      <4>1. pc[d] \in {"begin", "image", "create", "creating", "created", "loaded"} =>
              user[d] \subseteq {"image", "manager"}
        <5>1. UserRight(d)
          BY <1>3
        <5>2. /\ pc[d] = "begin" => user[d] = {}
              /\ pc[d] = "image" => user[d] = {"image"}
              /\ pc[d] \in {"create", "creating", "created", "loaded"} => user[d] = {"image", "manager"}
          BY <5>1 DEF UserRight
        <5> QED
          BY <5>2
      <4> QED
        BY <4>1
    <3>3. pc[d] \in Points
      BY AtDaemon
    <3>4. "executes" \in user[d] => cutShort[d] = "start failed" /\ pc[d] \in {"end", "exit"}
      BY <1>1, <1>3, <2>2, <3>1, <3>2, <3>3 DEF UserRight, Points, BeforeOpen
    <3>5. "pidfile" \in user[d] => cutShort[d] \in {"no", "crash"}
      BY <1>1, <1>3, <2>2, <3>1, <3>2, <3>3 DEF UserRight, Points, BeforeOpen
    <3> QED
      BY <1>1, <2>2, <3>4, <3>5 DEF UserRight, Handles
  <2> QED
    BY <1>1, <2>1, <2>2
<1>7. RebootsRight(d)'
  BY <1>1, <1>3, AtDaemon DEF RebootsRight
<1>8. Stays(d)
  BY <1>1, <1>3 DEF Stays, StageRight, JoinRight, Unlaunched, UserRight, Gone, Handles
<1>9. StageRight(d)'
  BY <1>1, <1>3, <1>4 DEF StageRight, Gone, Creating, Ending, Handles
<1>10. pc'[d] \in Fresh => pc[d] \in Fresh
  BY <1>1 DEF Fresh
<1> QED
  BY <1>2, <1>6, <1>7, <1>8, <1>9, <1>10, DaemonMovesRight

-----------------------------------------------------------------------------
(* The memory sizes, and the steps that only touch hostmem_used. *)

LEMMA LargerOfTwo ==
  ASSUME NEW a \in Int, NEW b \in Int
  PROVE  Max({a, b}) \in {a, b} /\ Max({a, b}) >= a /\ Max({a, b}) >= b
<1>1. \E x \in {a, b} : \A y \in {a, b} : x >= y
  <2>1. CASE a >= b
    BY <2>1
  <2>2. CASE b >= a
    BY <2>2
  <2> QED
    BY <2>1, <2>2
<1>2. Max({a, b}) \in {a, b} /\ \A y \in {a, b} : Max({a, b}) >= y
  BY <1>1 DEF Max
<1> QED
  BY <1>2

LEMMA SmallerOfTwo ==
  ASSUME NEW a \in Int, NEW b \in Int
  PROVE  Min({a, b}) \in {a, b}
<1>1. \E x \in {a, b} : \A y \in {a, b} : x =< y
  <2>1. CASE a >= b
    BY <2>1
  <2>2. CASE b >= a
    BY <2>2
  <2> QED
    BY <2>1, <2>2
<1> QED
  BY <1>1 DEF Min

LEMMA MemorySize ==
  ASSUME NEW m \in Monitor
  PROVE  memory_size(m) \in Nat /\ memory_size(m) > 0
<1> DEFINE asked == IF RamSize[m] # 0 THEN RamSize[m]
                    ELSE IF HostAmount >= 128 THEN HostAmount \div 4 ELSE 16
           larger == Max({asked, 8})
<1>1. asked \in Int
  BY LifecycleAssumption
<1> HIDE DEF asked
<1>2. larger \in {asked, 8} /\ larger >= 8
  BY <1>1, LargerOfTwo
<1>3. larger \in Int /\ larger >= 8
  BY <1>1, <1>2
<1> HIDE DEF larger
<1>4. Min({larger, 984}) \in {larger, 984}
  BY <1>3, SmallerOfTwo
<1>5. memory_size(m) = Min({larger, 984})
  BY DEF memory_size, CO_LOWMEMORY_MAX_MB, larger, asked
<1> QED
  BY <1>3, <1>4, <1>5

(* The ioctl goes one step on in the creation, or in the destruction. *)
KernelMoves(d, next) ==
  /\ UNCHANGED <<daemonVars, monitorVars>> /\ kernel' = [kernel EXCEPT ![d] = next]
  /\ MemoryTyped(d) /\ MemoryOnly(d)
  /\ \/ kernel[d] \in Creating /\ next \in Creating
     \/ kernel[d] \in Ending /\ next \in Ending

LEMMA KernelMovesRight ==
  ASSUME HostInv, NEW d \in Monitor, NEW next, KernelMoves(d, next)
  PROVE  HostInv'
<1>1. /\ monState' = monState /\ held' = held /\ armed' = armed /\ refcount' = refcount
      /\ listed' = listed /\ leaked' = leaked /\ wild' = wild /\ UNCHANGED daemonVars
      /\ closing' = closing /\ miscounted' = miscounted /\ pc' = pc /\ user' = user /\ joined' = joined
  BY DEF KernelMoves, monitorVars, countVars, daemonVars
<1>2. /\ kernel'[d] = next /\ kernel' = [kernel EXCEPT ![d] = kernel'[d]] /\ kernel'[d] \in Kernels
  BY Functions DEF KernelMoves, Creating, Ending, Kernels
<1>3. Moved(d)
  <2>1. LifeTyped(d)
    BY <1>1, <1>2, AtDaemon DEF LifeTyped
  <2>2. LifeOnly(d)
    BY <1>1, <1>2, Functions DEF LifeOnly
  <2> QED
    BY <1>1, <2>1, <2>2, DaemonSame DEF KernelMoves, Moved
<1>4. /\ StageRight(d) /\ RefsRight(d) /\ HeldRight(d) /\ LeaksRight(d) /\ UserRight(d)
      /\ RebootsRight(d) /\ JoinRight(d)
  BY AtDaemon
<1>5. \/ kernel[d] \in Creating /\ kernel'[d] \in Creating
      \/ kernel[d] \in Ending /\ kernel'[d] \in Ending
  BY <1>2 DEF KernelMoves
<1>6. StageRight(d)'
  BY <1>1, <1>4, <1>5 DEF StageRight, Creating, Ending, daemonVars
<1>10. JoinRight(d)' /\ Openers(d)' = Openers(d)
  <2>1. closing[d]["daemon"] > 0 => pc[d] \in {"out", "exit"}
    BY <1>4 DEF JoinRight
  <2> QED
    BY <1>1, <1>4, <2>1, JoinSame
<1>7. RefsRight(d)'
  BY <1>1, <1>4, <1>5, <1>10 DEF RefsRight, Creating, Ending
<1>8. HeldRight(d)'
  BY <1>1, <1>4, <1>5 DEF HeldRight, Creating, Ending, daemonVars
<1>9. LeaksRight(d)' /\ UserRight(d)' /\ RebootsRight(d)'
  <2>1. LeaksRight(d)'
    BY <1>1, <1>4 DEF LeaksRight, daemonVars
  <2>2. UserRight(d)'
    BY <1>1, <1>4 DEF UserRight, daemonVars
  <2>3. RebootsRight(d)'
    BY <1>1, <1>4 DEF RebootsRight, daemonVars
  <2> QED
    BY <2>1, <2>2, <2>3
<1> QED
  BY <1>3, <1>6, <1>7, <1>8, <1>9, <1>10, MovedRight DEF OneRight

LEMMA StoreTyped ==
  ASSUME HostInv, NEW d \in Monitor, NEW delta \in Int, StoreUsed(d, delta)
  PROVE  MemoryTyped(d) /\ MemoryOnly(d)
<1>1. loaded' = [loaded EXCEPT ![d] = 0] /\ loaded'[d] = 0
  BY Functions DEF StoreUsed
<1>2. hostmem_used' \in Int
  <2>1. hostmem_used' = loaded[d] + delta
    BY DEF StoreUsed
  <2>2. loaded[d] \in Int
    BY AtDaemon
  <2> QED
    BY <2>1, <2>2
<1>3. raced' \subseteq {"lost update", "stale check"}
  <2>1. raced \subseteq {"lost update", "stale check"}
    BY AtDaemon
  <2> QED
    BY <2>1 DEF StoreUsed
<1>4. loaded'[d] \in Int
  BY <1>1
<1>5. loaded' = [loaded EXCEPT ![d] = loaded'[d]]
  BY <1>1
<1> QED
  BY <1>2, <1>3, <1>4, <1>5 DEF MemoryTyped, MemoryOnly

LEMMA LoadTyped ==
  ASSUME HostInv, NEW d \in Monitor, NEW next, LoadUsed(d, next)
  PROVE  MemoryTyped(d) /\ MemoryOnly(d)
<1>1. loaded' = [loaded EXCEPT ![d] = hostmem_used] /\ loaded'[d] = hostmem_used
  BY Functions DEF LoadUsed
<1> QED
  BY <1>1, AtDaemon DEF LoadUsed, MemoryTyped, MemoryOnly

LEMMA LoadsUsedRight ==
  ASSUME HostInv, NEW d \in Monitor, UNCHANGED daemonVars,
         CreateLoadsUsed(d) \/ RevertLoadsUsed(d) \/ DestroyLoadsUsed(d)
  PROVE  HostInv'
<1>1. PICK next \in {"add", "revert", "release"} :
        /\ LoadUsed(d, next) /\ UNCHANGED monitorVars
        /\ \/ kernel[d] = "checked" /\ next = "add"
           \/ kernel[d] = "failed" /\ next = "revert"
           \/ kernel[d] = "destroy" /\ next = "release"
  <2>1. CASE CreateLoadsUsed(d)
    BY <2>1 DEF CreateLoadsUsed
  <2>2. CASE RevertLoadsUsed(d)
    BY <2>2 DEF RevertLoadsUsed
  <2>3. CASE DestroyLoadsUsed(d)
    BY <2>3 DEF DestroyLoadsUsed
  <2> QED
    BY <2>1, <2>2, <2>3
<1>2. KernelMoves(d, next)
  <2>1. kernel' = [kernel EXCEPT ![d] = next]
    BY <1>1 DEF LoadUsed
  <2>2. MemoryTyped(d) /\ MemoryOnly(d)
    BY <1>1, LoadTyped
  <2> QED
    BY <1>1, <2>1, <2>2 DEF KernelMoves, Creating, Ending
<1> QED
  BY <1>2, KernelMovesRight

LEMMA CreateAddsUsedRight ==
  ASSUME HostInv, NEW d \in Monitor, UNCHANGED daemonVars, CreateAddsUsed(d)
  PROVE  HostInv'
<1>1. StoreUsed(d, memory_size(d)) /\ memory_size(d) \in Int
  BY MemorySize DEF CreateAddsUsed
<1>2. MemoryTyped(d) /\ MemoryOnly(d)
  BY <1>1, StoreTyped
<1>3. KernelMoves(d, "counted")
  BY <1>2 DEF KernelMoves, CreateAddsUsed, Creating
<1> QED
  BY <1>3, KernelMovesRight

-----------------------------------------------------------------------------
(* The ioctl that creates a monitor. *)

LEMMA BasicParts == Steps(EarlyStep) \union {"conetMutex"} = Basic /\ Steps(EarlyStep) \subseteq Basic
                    /\ Base \subseteq Steps(EarlyStep)
BY StepsAre DEF Basic, Base

LEMMA CreateCheckedRight ==
  ASSUME HostInv, NEW d \in Monitor, NEW registered \in BOOLEAN, pc[d] = "create",
         CreateChecked(d, registered), Goto(d, "creating"),
         UNCHANGED <<user, handlerVars, joined, reboots, cutShort>>
  PROVE  HostInv'
<1> DEFINE h == Steps(EarlyStep) \union (IF registered THEN {"conetMutex"} ELSE {})
<1>1. Base \subseteq h /\ h \subseteq Basic /\ h \in SUBSET Resource
  BY BasicParts, BasicIs
<1>2. held' = [held EXCEPT ![d] = h]
  BY DEF CreateChecked
<1> HIDE DEF h
<1>3. /\ monState' = [monState EXCEPT ![d] = "EMPTY"] /\ kernel' = [kernel EXCEPT ![d] = "checked"]
      /\ pc' = [pc EXCEPT ![d] = "creating"]
      /\ armed' = armed /\ refcount' = refcount /\ listed' = listed /\ leaked' = leaked /\ wild' = wild
      /\ UNCHANGED memoryVars
      /\ user' = user /\ nextReboot' = nextReboot /\ stop' = stop /\ power' = power
      /\ reboots' = reboots /\ cutShort' = cutShort /\ joined' = joined
      /\ closing' = closing /\ miscounted' = miscounted
      /\ monState[d] = "NONE" /\ kernel[d] = "idle"
  BY DEF CreateChecked, Goto, handlerVars, countVars
<1>4. held'[d] = h /\ monState'[d] = "EMPTY" /\ kernel'[d] = "checked" /\ pc'[d] = "creating"
  BY <1>2, <1>3, Functions
<1>5. Moved(d)
  <2>1. LifeTyped(d)
    BY <1>1, <1>3, <1>4, AtDaemon DEF LifeTyped, States, Kernels
  <2>2. LifeOnly(d)
    BY <1>2, <1>3, <1>4, Functions DEF LifeOnly
  <2>3. DaemonTyped(d)
    BY <1>3, <1>4, AtDaemon DEF DaemonTyped, Points, BeforeOpen
  <2>4. DaemonOnly(d)
    BY <1>3, <1>4, Functions DEF DaemonOnly
  <2> QED
    BY <1>3, <2>1, <2>2, <2>3, <2>4, MemorySame DEF Moved
<1>6. StageRight(d) /\ RefsRight(d) /\ LeaksRight(d) /\ UserRight(d) /\ RebootsRight(d) /\ JoinRight(d)
  BY AtDaemon
<1>7. user[d] = {"image", "manager"} /\ cutShort[d] = "no" /\ armed[d] = FALSE /\ refcount[d] = 0
      /\ d \notin listed /\ Openers(d) = {}
  <2>1. user[d] = {"image", "manager"} /\ cutShort[d] = "no"
    BY <1>6 DEF UserRight
  <2>2. armed[d] = FALSE
    BY <1>3, <1>6, AtDaemon DEF StageRight
  <2>3. refcount[d] = 0 /\ d \notin listed /\ Openers(d) = {}
    BY <1>3, <1>6 DEF RefsRight, Gone, Ending
  <2> QED
    BY <2>1, <2>2, <2>3
<1>8. StageRight(d)'
  BY <1>3, <1>4, <1>7 DEF StageRight, Creating, Ending, Gone
<1>12. JoinRight(d)' /\ Openers(d)' = Openers(d)
  <2>1. ~(closing[d]["daemon"] > 0) /\ pc[d] \in Unlaunched
    BY <1>6 DEF JoinRight, Unlaunched
  <2> QED
    BY <1>3, <1>6, <2>1, JoinSame
<1>9. RefsRight(d)'
  BY <1>3, <1>4, <1>7, <1>12 DEF RefsRight, Ending
<1>10. HeldRight(d)'
  BY <1>1, <1>4, BasicIs DEF HeldRight
<1>11. LeaksRight(d)' /\ UserRight(d)' /\ RebootsRight(d)'
  <2>1. LeaksRight(d)'
    BY <1>3, <1>6 DEF LeaksRight
  <2>2. UserRight(d)'
    BY <1>3, <1>4, <1>7 DEF UserRight
  <2>3. RebootsRight(d)'
    BY <1>3, <1>4, <1>6 DEF RebootsRight
  <2> QED
    BY <2>1, <2>2, <2>3
<1> QED
  BY <1>5, <1>6, <1>8, <1>9, <1>10, <1>11, <1>12, MovedRight DEF OneRight

LEMMA CreateFailsEarlyRight ==
  ASSUME HostInv, NEW d \in Monitor, NEW step, NEW registered \in BOOLEAN, pc[d] = "create",
         CreateFailsEarly(d, step, registered), Goto(d, "creating"),
         UNCHANGED <<user, handlerVars, joined, reboots, cutShort>>
  PROVE  HostInv'
<1> DEFINE extra == IF step = "hostmem" /\ registered THEN {"conetMutex"} ELSE {}
           done  == Before(EarlyStep, step) \union extra
           l == {<<r, "create">> : r \in done \ FreedBy(step)}
           w == (FreedBy(step) \ done) \ NullSafe
<1>1. step \in Steps(EarlyStep) \union {"hostmem"} /\ extra \in SUBSET {"conetMutex"}
      /\ (extra # {} => step = "hostmem")
  BY DEF CreateFailsEarly
<1>2. leaked' = [leaked EXCEPT ![d] = l] /\ wild' = [wild EXCEPT ![d] = w]
  BY DEF CreateFailsEarly
<1> HIDE DEF extra
<1>3. done \ FreedBy(step) \subseteq {"modulesMutex"} /\ w \subseteq {"conetMutex"}
  BY <1>1, EarlyOutcome
<1>4. l \subseteq {<<"modulesMutex", "create">>} /\ l \in SUBSET Lost /\ w \in SUBSET Resource
  BY <1>3, ResourceIs DEF Lost
<1> HIDE DEF l, w
<1>5. /\ monState' = [monState EXCEPT ![d] = "FREED"] /\ pc' = [pc EXCEPT ![d] = "creating"]
      /\ held' = held /\ kernel' = kernel /\ armed' = armed /\ refcount' = refcount /\ listed' = listed
      /\ UNCHANGED memoryVars
      /\ user' = user /\ nextReboot' = nextReboot /\ stop' = stop /\ power' = power
      /\ reboots' = reboots /\ cutShort' = cutShort /\ joined' = joined
      /\ closing' = closing /\ miscounted' = miscounted
      /\ monState[d] = "NONE" /\ kernel[d] = "idle"
  BY DEF CreateFailsEarly, Goto, handlerVars, countVars
<1>6. leaked'[d] = l /\ wild'[d] = w /\ monState'[d] = "FREED" /\ pc'[d] = "creating"
  BY <1>2, <1>5, Functions
<1>7. Moved(d)
  <2>1. LifeTyped(d)
    BY <1>4, <1>5, <1>6, AtDaemon DEF LifeTyped, States
  <2>2. LifeOnly(d)
    BY <1>2, <1>5, <1>6, Functions DEF LifeOnly
  <2>3. DaemonTyped(d)
    BY <1>5, <1>6, AtDaemon DEF DaemonTyped, Points, BeforeOpen
  <2>4. DaemonOnly(d)
    BY <1>5, <1>6, Functions DEF DaemonOnly
  <2> QED
    BY <1>5, <2>1, <2>2, <2>3, <2>4, MemorySame DEF Moved
<1>8. StageRight(d) /\ RefsRight(d) /\ HeldRight(d) /\ UserRight(d) /\ RebootsRight(d) /\ JoinRight(d)
  BY AtDaemon
<1>9. user[d] = {"image", "manager"} /\ cutShort[d] = "no" /\ armed[d] = FALSE /\ refcount[d] = 0
      /\ d \notin listed /\ held[d] = {} /\ Openers(d) = {}
  <2>1. user[d] = {"image", "manager"} /\ cutShort[d] = "no"
    BY <1>8 DEF UserRight
  <2>2. armed[d] = FALSE
    BY <1>5, <1>8, AtDaemon DEF StageRight
  <2>3. refcount[d] = 0 /\ d \notin listed /\ held[d] = {} /\ Openers(d) = {}
    BY <1>5, <1>8 DEF RefsRight, HeldRight, Gone, Ending
  <2> QED
    BY <2>1, <2>2, <2>3
<1>10. StageRight(d)'
  BY <1>5, <1>6, <1>9 DEF StageRight, Creating, Ending, Gone
<1>15. JoinRight(d)' /\ Openers(d)' = Openers(d)
  <2>1. ~(closing[d]["daemon"] > 0) /\ pc[d] \in Unlaunched
    BY <1>8 DEF JoinRight, Unlaunched
  <2> QED
    BY <1>5, <1>8, <2>1, JoinSame
<1>11. RefsRight(d)'
  BY <1>5, <1>6, <1>9, <1>15 DEF RefsRight, Gone, Ending
<1>12. HeldRight(d)'
  BY <1>5, <1>6, <1>9 DEF HeldRight, Gone, Creating
<1>13. LeaksRight(d)'
  <2>1. leaked'[d] \subseteq {<<"modulesMutex", "create">>} /\ wild'[d] \subseteq {"conetMutex"}
    BY <1>3, <1>4, <1>6
  <2>2. <<"archdep", "start">> \notin leaked'[d]
    <3>1. <<"archdep", "start">> # <<"modulesMutex", "create">>
      OBVIOUS
    <3> QED
      BY <2>1, <3>1
  <2> QED
    BY <2>1, <2>2 DEF LeaksRight
<1>14. UserRight(d)' /\ RebootsRight(d)'
  <2>1. UserRight(d)'
    BY <1>5, <1>6, <1>9 DEF UserRight
  <2>2. RebootsRight(d)'
    BY <1>5, <1>6, <1>8 DEF RebootsRight
  <2> QED
    BY <2>1, <2>2
<1> QED
  BY <1>7, <1>10, <1>11, <1>12, <1>13, <1>14, <1>15, MovedRight DEF OneRight

LEMMA CreateMonitorRight ==
  ASSUME HostInv, NEW d \in Monitor, CreateMonitor(d)
  PROVE  HostInv'
<1>1. /\ pc[d] = "create" /\ Goto(d, "creating") /\ UNCHANGED <<user, handlerVars, joined, reboots, cutShort>>
      /\ \E registered \in BOOLEAN :
           \/ CreateChecked(d, registered)
           \/ \E step : CreateFailsEarly(d, step, registered)
  BY DEF CreateMonitor
<1> QED
  BY <1>1, CreateCheckedRight, CreateFailsEarlyRight

LEMMA CreateFailsLateRight ==
  ASSUME HostInv, NEW d \in Monitor, NEW step, CreateFailsLate(d, step), UNCHANGED daemonVars
  PROVE  HostInv'
<1> DEFINE done == Before(LateStep \o Device, step) \intersect (Steps(LateStep) \union Enabled)
           h == (held[d] \union done) \ LateUndone(step)
<1>1. kernel[d] = "counted" /\ step \in Steps(LateStep) \union Enabled
  BY DEF CreateFailsLate
<1>2. held' = [held EXCEPT ![d] = h]
  BY DEF CreateFailsLate, LateUndone
<1>3. /\ StageRight(d) /\ RefsRight(d) /\ HeldRight(d) /\ LeaksRight(d) /\ UserRight(d)
      /\ RebootsRight(d) /\ JoinRight(d)
  BY AtDaemon
<1>4. Base \subseteq held[d] /\ held[d] \subseteq Basic
  BY <1>1, <1>3 DEF HeldRight, Creating
<1>5. Base \subseteq h /\ h \subseteq Basic /\ h \in SUBSET Resource
  <2>1. done \subseteq LateUndone(step) /\ LateUndone(step) \intersect Base = {}
    BY <1>1, LateOutcome
  <2> HIDE DEF done
  <2> QED
    BY <1>4, <2>1, BasicIs
<1> HIDE DEF h
<1>6. /\ kernel' = [kernel EXCEPT ![d] = "failed"]
      /\ monState' = monState /\ armed' = armed /\ refcount' = refcount /\ listed' = listed
      /\ leaked' = leaked /\ wild' = wild /\ UNCHANGED memoryVars
      /\ closing' = closing /\ miscounted' = miscounted /\ pc' = pc /\ user' = user /\ joined' = joined
  BY DEF CreateFailsLate, countVars, daemonVars
<1>7. held'[d] = h /\ kernel'[d] = "failed"
  BY <1>2, <1>6, Functions
<1>8. Moved(d)
  <2>1. LifeTyped(d)
    BY <1>5, <1>6, <1>7, AtDaemon DEF LifeTyped, Kernels
  <2>2. LifeOnly(d)
    BY <1>2, <1>6, <1>7, Functions DEF LifeOnly
  <2> QED
    BY <1>6, <2>1, <2>2, MemorySame, DaemonSame DEF Moved
<1>9. StageRight(d)'
  BY <1>1, <1>3, <1>6, <1>7 DEF StageRight, Creating, Ending, daemonVars
<1>13. JoinRight(d)' /\ Openers(d)' = Openers(d)
  <2>1. closing[d]["daemon"] > 0 => pc[d] \in {"out", "exit"}
    BY <1>3 DEF JoinRight
  <2> QED
    BY <1>3, <1>6, <2>1, JoinSame
<1>10. RefsRight(d)'
  BY <1>1, <1>3, <1>6, <1>7, <1>13 DEF RefsRight, Ending
<1>11. HeldRight(d)'
  BY <1>5, <1>7, BasicIs DEF HeldRight
<1>12. LeaksRight(d)' /\ UserRight(d)' /\ RebootsRight(d)'
  <2>1. LeaksRight(d)'
    BY <1>3, <1>6 DEF LeaksRight, daemonVars
  <2>2. UserRight(d)'
    BY <1>3 DEF UserRight, daemonVars
  <2>3. RebootsRight(d)'
    BY <1>3 DEF RebootsRight, daemonVars
  <2> QED
    BY <2>1, <2>2, <2>3
<1> QED
  BY <1>8, <1>9, <1>10, <1>11, <1>12, <1>13, MovedRight DEF OneRight

LEMMA CreateDoneRight ==
  ASSUME HostInv, NEW d \in Monitor, CreateDone(d), UNCHANGED daemonVars
  PROVE  HostInv'
<1> DEFINE h == held[d] \union Steps(LateStep) \union Enabled
<1>1. kernel[d] = "counted"
  BY DEF CreateDone
<1>2. held' = [held EXCEPT ![d] = h]
  BY DEF CreateDone
<1>3. /\ StageRight(d) /\ RefsRight(d) /\ HeldRight(d) /\ LeaksRight(d) /\ UserRight(d)
      /\ RebootsRight(d) /\ JoinRight(d)
  BY AtDaemon
<1>4. Base \subseteq held[d] /\ held[d] \subseteq Basic /\ monState[d] = "EMPTY"
      /\ pc[d] \in {"creating", "exit"} /\ user[d] = {"image", "manager"} /\ armed[d] = FALSE
  <2>1. kernel[d] \in Creating
    BY <1>1 DEF Creating
  <2>2. Base \subseteq held[d] /\ held[d] \subseteq Basic
    BY <1>1, <1>3, <2>1 DEF HeldRight
  <2>3. monState[d] = "EMPTY" /\ pc[d] \in {"creating", "exit"} /\ user[d] = {"image", "manager"}
    BY <1>3, <2>1 DEF StageRight
  <2>4. armed[d] = FALSE
    BY <1>1, <1>3, AtDaemon DEF StageRight
  <2> QED
    BY <2>2, <2>3, <2>4
<1>5. Base \subseteq h /\ "archdep" \notin h /\ h \in SUBSET Resource
  BY <1>4, BasicIs, StepsAre, DevicesAre, EnabledFact, ResourceIs
<1> HIDE DEF h
<1>6. /\ kernel' = [kernel EXCEPT ![d] = "idle"] /\ monState' = [monState EXCEPT ![d] = "INITIALIZED"]
      /\ refcount' = [refcount EXCEPT ![d] = 1] /\ listed' = listed \union {d}
      /\ armed' = armed /\ leaked' = leaked /\ wild' = wild /\ UNCHANGED memoryVars
      /\ closing' = closing /\ miscounted' = miscounted /\ pc' = pc /\ user' = user /\ joined' = joined
  BY DEF CreateDone, daemonVars
<1>7. held'[d] = h /\ kernel'[d] = "idle" /\ monState'[d] = "INITIALIZED" /\ refcount'[d] = 1
      /\ d \in listed'
  BY <1>2, <1>6, Functions
<1>8. Moved(d)
  <2>1. LifeTyped(d)
    <3>1. "INITIALIZED" \in States /\ "idle" \in Kernels /\ 1 \in Nat
      BY DEF States, Kernels
    <3>2. /\ armed'[d] \in BOOLEAN /\ leaked'[d] \in SUBSET Lost /\ wild'[d] \in SUBSET Resource
          /\ closing'[d] \in [Opener -> Nat] /\ miscounted'[d] \in BOOLEAN
      BY <1>6, AtDaemon
    <3> QED
      BY <1>5, <1>7, <3>1, <3>2 DEF LifeTyped
  <2>2. LifeOnly(d)
    BY <1>2, <1>6, <1>7, Functions DEF LifeOnly
  <2> QED
    BY <1>6, <2>1, <2>2, MemorySame, DaemonSame DEF Moved
<1>9. StageRight(d)'
  BY <1>4, <1>6, <1>7 DEF StageRight, Creating, Ending, daemonVars
<1>13. JoinRight(d)' /\ Openers(d)' = Openers(d)
  <2>1. closing[d]["daemon"] > 0 => pc[d] \in {"out", "exit"}
    BY <1>3 DEF JoinRight
  <2> QED
    BY <1>3, <1>6, <2>1, JoinSame
<1>10. RefsRight(d)'
  <2>1. Openers(d) = {}
    BY <1>1, <1>3 DEF RefsRight, Ending
  <2>2. Holders(d)' = {"manager"}
    BY <1>4, <1>6, <1>13, <2>1 DEF Holders
  <2>3. Cardinality({"manager"}) = 1
    BY FS_Singleton
  <2> QED
    BY <1>4, <1>6, <1>7, <2>2, <2>3 DEF RefsRight, Gone
<1>11. HeldRight(d)'
  BY <1>5, <1>7 DEF HeldRight, Gone, Creating
<1>12. LeaksRight(d)' /\ UserRight(d)' /\ RebootsRight(d)'
  <2>1. LeaksRight(d)'
    BY <1>3, <1>6 DEF LeaksRight, daemonVars
  <2>2. UserRight(d)'
    BY <1>3 DEF UserRight, daemonVars
  <2>3. RebootsRight(d)'
    BY <1>3 DEF RebootsRight, daemonVars
  <2> QED
    BY <2>1, <2>2, <2>3
<1> QED
  BY <1>8, <1>9, <1>10, <1>11, <1>12, <1>13, MovedRight DEF OneRight

(* What both ends of a monitor free is all it holds, but for the wait object. *)
LEMMA FreedOutcome ==
  ASSUME HostInv, NEW d \in Monitor, NEW resources \in SUBSET Resource, NEW where,
         Free(d, resources, where), Base \subseteq held[d], Base \subseteq resources,
         \/ resources = Basic /\ held[d] \subseteq Basic /\ where = "create"
         \/ resources = Resource \ {"idleWait"} /\ where = "destroy"
  PROVE  /\ held' = [held EXCEPT ![d] = held'[d]] /\ held'[d] = {}
         /\ leaked' = [leaked EXCEPT ![d] = leaked'[d]]
         /\ leaked'[d] \subseteq leaked[d] \union {<<"idleWait", "destroy">>}
         /\ wild' = [wild EXCEPT ![d] = wild'[d]] /\ wild'[d] \subseteq wild[d] \union {"conetMutex"}
<1>1. "monitor" \in resources
  BY BasicIs
<1>2. held' = [held EXCEPT ![d] = {}]
  BY <1>1 DEF Free
<1> DEFINE l == {<<r, where>> : r \in held[d] \ resources}
           w == (resources \ held[d]) \ NullSafe
<1>3. leaked' = [leaked EXCEPT ![d] = leaked[d] \union l]
  BY <1>1 DEF Free
<1>4. wild' = [wild EXCEPT ![d] = wild[d] \union w]
  BY DEF Free
<1>5. l \subseteq {<<"idleWait", "destroy">>}
  <2>1. held[d] \subseteq Resource
    BY AtDaemon
  <2>2. CASE resources = Basic /\ held[d] \subseteq Basic
    BY <2>2
  <2>3. CASE resources = Resource \ {"idleWait"} /\ where = "destroy"
    BY <2>1, <2>3
  <2> QED
    BY <2>2, <2>3
<1>6. w \subseteq {"conetMutex"}
  <2>1. CASE resources = Basic
    BY <2>1, BasicIs
  <2>2. CASE resources = Resource \ {"idleWait"}
    BY <2>2, BasicIs
  <2> QED
    BY <2>1, <2>2
<1> HIDE DEF l, w
<1>7. held'[d] = {} /\ leaked'[d] = leaked[d] \union l /\ wild'[d] = wild[d] \union w
  BY <1>2, <1>3, <1>4, Functions
<1>8. leaked'[d] \subseteq leaked[d] \union {<<"idleWait", "destroy">>}
  BY <1>5, <1>7
<1>9. wild'[d] \subseteq wild[d] \union {"conetMutex"}
  BY <1>6, <1>7
<1>10. /\ held' = [held EXCEPT ![d] = held'[d]]
       /\ leaked' = [leaked EXCEPT ![d] = leaked'[d]]
       /\ wild' = [wild EXCEPT ![d] = wild'[d]]
  BY <1>2, <1>3, <1>4, <1>7
<1> QED
  BY <1>7, <1>8, <1>9, <1>10

(* The monitor is gone: by the error path of its creation or by its destruction. *)
Goes(d) ==
  /\ \/ kernel[d] = "revert" /\ Free(d, FreedBy("ram") \ {"hostmem"}, "create")
     \/ kernel[d] = "release" /\ Free(d, Resource \ {"idleWait"}, "destroy")
  /\ monState' = [monState EXCEPT ![d] = "FREED"] /\ kernel' = [kernel EXCEPT ![d] = "idle"]
  /\ MemoryTyped(d) /\ MemoryOnly(d)
  /\ closing' = IF kernel[d] = "revert" THEN closing ELSE [closing EXCEPT ![d] = [o \in Opener |-> 0]]
  /\ UNCHANGED <<armed, refcount, miscounted, listed, daemonVars>>

LEMMA GoesRight ==
  ASSUME HostInv, NEW d \in Monitor, Goes(d)
  PROVE  HostInv'
<1>1. /\ StageRight(d) /\ RefsRight(d) /\ HeldRight(d) /\ LeaksRight(d) /\ UserRight(d)
      /\ RebootsRight(d) /\ JoinRight(d)
  BY AtDaemon
<1>2. kernel[d] \in {"revert", "release"}
  BY DEF Goes
<1>3. Base \subseteq held[d] /\ (kernel[d] = "revert" => held[d] \subseteq Basic)
  BY <1>1, <1>2 DEF HeldRight, Creating
<1>4. /\ held' = [held EXCEPT ![d] = held'[d]] /\ held'[d] = {}
      /\ leaked' = [leaked EXCEPT ![d] = leaked'[d]]
      /\ leaked'[d] \subseteq leaked[d] \union {<<"idleWait", "destroy">>}
      /\ wild' = [wild EXCEPT ![d] = wild'[d]] /\ wild'[d] \subseteq wild[d] \union {"conetMutex"}
  <2>1. CASE kernel[d] = "revert" /\ Free(d, FreedBy("ram") \ {"hostmem"}, "create")
    <3>1. Free(d, Basic, "create") /\ Base \subseteq Basic /\ Basic \in SUBSET Resource
      BY <2>1, BasicIs
    <3> QED
      BY <1>3, <2>1, <3>1, FreedOutcome
  <2>2. CASE kernel[d] = "release" /\ Free(d, Resource \ {"idleWait"}, "destroy")
    <3>1. Base \subseteq Resource \ {"idleWait"}
      BY ResourceIs DEF Base
    <3> QED
      BY <1>3, <2>2, <3>1, FreedOutcome
  <2> QED
    BY <2>1, <2>2 DEF Goes
<1>5. /\ monState' = [monState EXCEPT ![d] = "FREED"] /\ kernel' = [kernel EXCEPT ![d] = "idle"]
      /\ monState'[d] = "FREED" /\ kernel'[d] = "idle"
      /\ armed' = armed /\ refcount' = refcount /\ listed' = listed /\ UNCHANGED daemonVars
      /\ miscounted' = miscounted /\ pc' = pc /\ user' = user /\ joined' = joined
  BY Functions DEF Goes, daemonVars
<1>6. /\ refcount[d] = 0 /\ d \notin listed /\ armed[d] = FALSE /\ pc[d] \in {"creating", "exit", "exited"}
      /\ pc[d] = "exited" => user[d] \intersect Handles = {}
  <2>1. refcount[d] = 0 /\ d \notin listed
    BY <1>1, <1>2 DEF RefsRight
  <2>2. armed[d] = FALSE
    BY <1>1, <1>2, AtDaemon DEF StageRight
  <2>3. /\ pc[d] \in {"creating", "exit", "exited"}
        /\ pc[d] = "exited" => user[d] \intersect Handles = {}
    BY <1>1, <1>2 DEF StageRight, Creating, Ending
  <2> QED
    BY <2>1, <2>2, <2>3
<1>13. /\ closing' = [closing EXCEPT ![d] = closing'[d]] /\ closing'[d] \in [Opener -> Nat]
       /\ closing'[d] = closing[d] \/ closing'[d] = [o \in Opener |-> 0]
  <2>1. CASE closing' = closing
    BY <2>1, Functions
  <2>2. CASE closing' = [closing EXCEPT ![d] = [o \in Opener |-> 0]]
    BY <2>2, Functions
  <2> QED
    BY <2>1, <2>2 DEF Goes
<1>14. \/ kernel[d] = "revert" /\ closing'[d] = closing[d]
       \/ kernel[d] = "release" /\ closing'[d] = [o \in Opener |-> 0]
  BY Functions DEF Goes
<1>15. Openers(d)' = {}
  <2>1. CASE kernel[d] = "revert" /\ closing'[d] = closing[d]
    BY <1>1, <1>5, <2>1, OpenersSame DEF RefsRight, Ending
  <2>2. CASE kernel[d] = "release" /\ closing'[d] = [o \in Opener |-> 0]
    <3>1. \A c \in Child : joined[d][c] # "attached"
      BY <1>1, <2>2 DEF RefsRight, Ending
    <3>2. \A o \in Opener : ~(closing'[d][o] > 0)
      BY <2>2
    <3> QED
      BY <1>5, <3>1, <3>2 DEF Openers
  <2> QED
    BY <1>14, <2>1, <2>2
<1>16. JoinRight(d)'
  <2>1. \A o \in Opener : ~(closing'[d][o] > 0)
    BY <1>15 DEF Openers
  <2>2. "daemon" \in Opener /\ Child \subseteq Opener
    BY DEF Opener
  <2>3. pc[d] \in Unlaunched => \A c \in Child : joined[d][c] = "no"
    BY <1>1 DEF JoinRight
  <2> QED
    BY <1>5, <2>1, <2>2, <2>3 DEF JoinRight
<1>7. Moved(d)
  <2>1. leaked'[d] \in SUBSET Lost
    <3>1. <<"idleWait", "destroy">> \in Lost
      BY ResourceIs DEF Lost
    <3> QED
      BY <1>4, <3>1, AtDaemon
  <2>2. wild'[d] \in SUBSET Resource
    BY <1>4, ResourceIs, AtDaemon
  <2>3. LifeTyped(d)
    BY <1>4, <1>5, <1>13, <2>1, <2>2, AtDaemon DEF LifeTyped, Kernels, States
  <2>4. LifeOnly(d)
    BY <1>4, <1>5, <1>13, Functions DEF LifeOnly
  <2> QED
    BY <1>5, <2>3, <2>4, DaemonSame DEF Moved, Goes
<1>8. StageRight(d)'
  BY <1>5, <1>6 DEF StageRight, Creating, Ending, Gone, daemonVars
<1>9. RefsRight(d)'
  BY <1>5, <1>6, <1>15 DEF RefsRight, Gone, Ending
<1>10. HeldRight(d)'
  BY <1>4, <1>5 DEF HeldRight, Gone, Creating
<1>11. LeaksRight(d)'
  <2>1. <<"archdep", "start">> \in leaked'[d] => <<"archdep", "start">> \in leaked[d]
    <3>1. <<"archdep", "start">> # <<"idleWait", "destroy">>
      OBVIOUS
    <3> QED
      BY <1>4, <3>1
  <2> QED
    BY <1>1, <1>4, <1>5, <2>1 DEF LeaksRight, daemonVars
<1>12. UserRight(d)' /\ RebootsRight(d)'
  <2>1. UserRight(d)'
    BY <1>1, <1>5, ZenonT(60) DEF UserRight, daemonVars
  <2>2. RebootsRight(d)'
    BY <1>1, <1>5 DEF RebootsRight, daemonVars
  <2> QED
    BY <2>1, <2>2
<1> QED
  BY <1>7, <1>8, <1>9, <1>10, <1>11, <1>12, <1>16, MovedRight DEF OneRight

LEMMA GoneRight ==
  ASSUME HostInv, NEW d \in Monitor, RevertUsed(d) \/ Destroyed(d), UNCHANGED daemonVars
  PROVE  HostInv'
<1>1. memory_size(d) \in Int /\ -memory_size(d) \in Int
  BY MemorySize
<1>2. StoreUsed(d, -memory_size(d))
  BY DEF RevertUsed, Destroyed, Reverted
<1>3. MemoryTyped(d) /\ MemoryOnly(d)
  BY <1>1, <1>2, StoreTyped
<1>4. Goes(d)
  <2>1. CASE RevertUsed(d)
    BY <1>3, <2>1 DEF Goes, RevertUsed, countVars
  <2>2. CASE Destroyed(d)
    BY <1>3, <2>2 DEF Goes, Destroyed
  <2> QED
    BY <2>1, <2>2
<1> QED
  BY <1>4, GoesRight

-----------------------------------------------------------------------------
(* The descriptors of a monitor. *)

LEMMA OneLess ==
  \A n \in Nat : /\ n + 1 \in Nat
                 /\ n > 0 => n - 1 \in Nat
                 /\ n > 1 => n - 1 # 0
                 /\ n = 1 => n - 1 = 0
OBVIOUS

LEMMA SwapCount ==
  ASSUME NEW S, IsFiniteSet(S), NEW x \in S, NEW y, y \notin S
  PROVE  Cardinality((S \ {x}) \union {y}) = Cardinality(S)
<1>1. IsFiniteSet(S \ {x}) /\ Cardinality(S \ {x}) = Cardinality(S) - 1 /\ Cardinality(S) \in Nat
  BY FS_RemoveElement, FS_CardinalityType
<1>2. y \notin S \ {x}
  OBVIOUS
<1>3. Cardinality((S \ {x}) \union {y}) = Cardinality(S \ {x}) + 1
  BY <1>1, <1>2, FS_AddElement
<1> QED
  BY <1>1, <1>3

(* Which monitors there are references of. *)
LEMMA Referenced ==
  ASSUME HostInv, NEW d \in Monitor, refcount[d] > 0 \/ (kernel[d] = "idle" /\ Openers(d) # {})
  PROVE  /\ kernel[d] = "idle" /\ monState[d] \notin Gone /\ Base \subseteq held[d]
         /\ Holders(d) # {} /\ (d \in listed <=> "manager" \in user[d])
         /\ ~miscounted[d] => refcount[d] = Cardinality(Holders(d))
<1>1. RefsRight(d) /\ HeldRight(d)
  BY AtDaemon
<1>2. kernel[d] = "idle" /\ monState[d] \notin Gone
  BY <1>1 DEF RefsRight, Ending
<1> QED
  BY <1>1, <1>2 DEF RefsRight, HeldRight

(* A handle goes, and the daemon is within co_monitor_refdown; the owner's takes the monitor
   off the list. *)
Drops(d, handle) ==
  /\ RefdownReads(d, "daemon", handle = "manager") /\ handle \in user[d]
  /\ user' = [user EXCEPT ![d] = user'[d]]
  /\ user'[d] \subseteq user[d] \ {handle} /\ (user[d] \ {handle}) \intersect Handles \subseteq user'[d]
  /\ pc' = [pc EXCEPT ![d] = pc'[d]]
  /\ pc[d] \in {"created", "kill", "end", "exit"}
  /\ pc'[d] = IF pc[d] = "kill" THEN "out" ELSE "exit"
  /\ UNCHANGED <<handlerVars, joined, reboots, cutShort>>
  /\ ~(closing[d]["daemon"] > 0)

LEMMA DropsRight ==
  ASSUME HostInv, NEW d \in Monitor, NEW handle \in Handles, Drops(d, handle), UserRight(d)'
  PROVE  HostInv'
<1>1. /\ StageRight(d) /\ RefsRight(d) /\ HeldRight(d) /\ LeaksRight(d) /\ UserRight(d)
      /\ RebootsRight(d) /\ JoinRight(d)
  BY AtDaemon
<1>2. refcount[d] > 0 /\ refcount[d] \in Nat /\ handle \in user[d]
  BY AtDaemon DEF Drops, RefdownReads
<1>3. /\ kernel[d] = "idle" /\ monState[d] \notin Gone /\ Base \subseteq held[d]
      /\ Holders(d) # {} /\ (d \in listed <=> "manager" \in user[d])
      /\ ~miscounted[d] => refcount[d] = Cardinality(Holders(d))
  BY <1>2, Referenced
<1>4. /\ listed' = IF handle = "manager" THEN listed \ {d} ELSE listed
      /\ closing' = [closing EXCEPT ![d]["daemon"] = refcount[d]]
      /\ refcount' = refcount /\ miscounted' = miscounted /\ kernel' = kernel /\ armed' = armed
      /\ monState' = monState /\ held' = held /\ leaked' = leaked /\ wild' = wild /\ UNCHANGED memoryVars
      /\ nextReboot' = nextReboot /\ stop' = stop /\ power' = power /\ reboots' = reboots
      /\ cutShort' = cutShort /\ joined' = joined
  BY DEF Drops, RefdownReads, handlerVars
<1>5. closing[d] \in [Opener -> Nat] /\ "daemon" \in Opener /\ Child \subseteq Opener
  BY AtDaemon DEF Opener
<1>6. /\ closing'[d] = [closing[d] EXCEPT !["daemon"] = refcount[d]]
      /\ closing' = [closing EXCEPT ![d] = closing'[d]]
  BY <1>4, Functions
<1>7. closing'[d] \in [Opener -> Nat] /\ closing'[d]["daemon"] = refcount[d]
      /\ \A o \in Opener : o # "daemon" => closing'[d][o] = closing[d][o]
  BY <1>2, <1>5, <1>6
<1>8. pc'[d] \in {"out", "exit"} /\ user'[d] \subseteq user[d]
  BY DEF Drops
<1>9. /\ "manager" \in user'[d] <=> "manager" \in user[d] /\ handle # "manager"
      /\ user'[d] \intersect Handles = (user[d] \intersect Handles) \ {handle}
  BY DEF Drops, Handles
<1>10. Openers(d)' = Openers(d) \union {"daemon"}
  BY <1>2, <1>4, <1>5, <1>7 DEF Openers
<1>11. Holders(d)' = (Holders(d) \ {handle}) \union {"daemon"} /\ handle \in Holders(d) /\ "daemon" \notin Holders(d)
  <2>1. Openers(d) \subseteq Opener /\ handle \notin Opener
    BY HandlesApart DEF Openers, Opener, Handles
  <2>2. "daemon" \notin Openers(d) /\ "daemon" \notin Handles
    BY HandlesApart DEF Openers, Drops, Handles
  <2>3. Holders(d) = (user[d] \intersect Handles) \union Openers(d)
        /\ Holders(d)' = (user'[d] \intersect Handles) \union Openers(d)'
    BY DEF Holders, Handles
  <2> QED
    BY <1>2, <1>9, <1>10, <2>1, <2>2, <2>3
<1>12. Cardinality(Holders(d)') = Cardinality(Holders(d))
  BY <1>11, HoldersFinite, SwapCount
<1>13. Moved(d)
  <2>1. LifeTyped(d)
    BY <1>4, <1>7, AtDaemon DEF LifeTyped
  <2>2. LifeOnly(d)
    BY <1>4, <1>6, Functions DEF LifeOnly
  <2>3. DaemonTyped(d)
    <3>1. pc'[d] \in Points /\ user'[d] \in SUBSET Things
      BY <1>8, AtDaemon DEF Points
    <3> QED
      BY <1>4, <3>1, AtDaemon DEF DaemonTyped
  <2>4. DaemonOnly(d)
    <3>1. pc' = [pc EXCEPT ![d] = pc'[d]] /\ user' = [user EXCEPT ![d] = user'[d]]
      BY DEF Drops
    <3> QED
      BY <1>4, <3>1, Functions DEF DaemonOnly
  <2> QED
    BY <1>4, <2>1, <2>2, <2>3, <2>4, MemorySame DEF Moved
<1>14. StageRight(d)'
  BY <1>1, <1>3, <1>4, <1>8 DEF StageRight, Creating, Ending
<1>15. RefsRight(d)'
  <2>1. d \in listed' <=> "manager" \in user'[d]
    BY <1>3, <1>4, <1>9
  <2>2. Holders(d)' # {}
    BY <1>11
  <2>3. ~miscounted'[d] => refcount'[d] = Cardinality(Holders(d)')
    BY <1>3, <1>4, <1>12
  <2> QED
    BY <1>3, <1>4, <2>1, <2>2, <2>3 DEF RefsRight
<1>16. HeldRight(d)'
  BY <1>1, <1>3, <1>4, <1>8 DEF HeldRight, Creating
<1>17. LeaksRight(d)'
  BY <1>1, <1>4 DEF LeaksRight
<1>18. RebootsRight(d)'
  BY <1>1, <1>4, <1>8 DEF RebootsRight
<1>19. JoinRight(d)'
  <2>1. \A c \in Child : closing'[d][c] = closing[d][c]
    BY <1>5, <1>7, HandlesApart
  <2> QED
    BY <1>1, <1>4, <1>8, <2>1 DEF JoinRight, Unlaunched
<1> QED
  BY <1>13, <1>14, <1>15, <1>16, <1>17, <1>18, <1>19, MovedRight DEF OneRight

LEMMA LoadGuestRight ==
  ASSUME HostInv, NEW d \in Monitor, LoadGuest(d)
  PROVE  HostInv'
<1>1. CASE LoadsOnly(d)
  BY <1>1, LoadGuestOnlyRight
<1>2. CASE /\ pc[d] = "created" /\ Goto(d, "exit") /\ Owns(d, {}) /\ RefdownReads(d, "daemon", TRUE)
           /\ UNCHANGED <<handlerVars, joined, reboots, cutShort>>
  <2>1. StageRight(d) /\ UserRight(d) /\ JoinRight(d)
    BY AtDaemon
  <2>2. user[d] = {"image", "manager"} /\ ~(closing[d]["daemon"] > 0)
    BY <1>2, <2>1 DEF UserRight, JoinRight
  <2>3. /\ pc' = [pc EXCEPT ![d] = "exit"] /\ pc'[d] = "exit"
        /\ user' = [user EXCEPT ![d] = {}] /\ user'[d] = {}
    BY <1>2, Functions DEF Goto, Owns
  <2>4. ("manager" = "manager") = TRUE
    OBVIOUS
  <2>5. RefdownReads(d, "daemon", "manager" = "manager")
    BY <1>2, <2>4
  <2>6. Drops(d, "manager")
    <3>1. (user[d] \ {"manager"}) \intersect Handles \subseteq {}
      BY <2>2 DEF Handles
    <3> QED
      BY <1>2, <2>2, <2>3, <2>5, <3>1 DEF Drops
  <2>7. UserRight(d)'
    BY <2>3 DEF UserRight
  <2> QED
    BY <2>6, <2>7, DropsRight DEF Handles
<1> QED
  BY <1>1, <1>2 DEF LoadGuest, LoadsOnly

LEMMA CloseMessagesRight ==
  ASSUME HostInv, NEW d \in Monitor, CloseMessages(d)
  PROVE  HostInv'
<1>1. StageRight(d) /\ UserRight(d) /\ JoinRight(d)
  BY AtDaemon
<1>2. Handles \subseteq user[d] /\ ~(closing[d]["daemon"] > 0) /\ cutShort[d] = "no" /\ pc[d] = "kill"
  BY <1>1 DEF CloseMessages, JoinRight, UserRight
<1>3. /\ pc' = [pc EXCEPT ![d] = "out"] /\ pc'[d] = "out"
      /\ user' = [user EXCEPT ![d] = user[d] \ {"executes", "messages"}]
      /\ user'[d] = user[d] \ {"executes", "messages"}
      /\ UNCHANGED <<handlerVars, joined, reboots, cutShort>>
  BY Functions DEF CloseMessages, Goto, Owns
<1>4. ("messages" = "manager") = FALSE
  OBVIOUS
<1>5. RefdownReads(d, "daemon", "messages" = "manager")
  BY <1>4 DEF CloseMessages
<1>6. Drops(d, "messages")
  <2>1. (user[d] \ {"messages"}) \intersect Handles \subseteq user'[d]
    BY <1>3 DEF Handles
  <2>2. "messages" \in user[d]
    BY <1>2 DEF Handles
  <2> QED
    BY <1>2, <1>3, <1>5, <2>1, <2>2 DEF Drops
<1>7. UserRight(d)'
  <2>1. "manager" \in user'[d] /\ "executes" \notin user'[d]
    BY <1>2, <1>3 DEF Handles
  <2> QED
    BY <1>2, <1>3, <2>1 DEF UserRight
<1> QED
  BY <1>6, <1>7, DropsRight DEF Handles

LEMMA EndMonitorRight ==
  ASSUME HostInv, NEW d \in Monitor, EndMonitor(d)
  PROVE  HostInv'
<1>1. StageRight(d) /\ UserRight(d) /\ JoinRight(d)
  BY AtDaemon
<1>2. "manager" \in user[d] /\ ~(closing[d]["daemon"] > 0) /\ pc[d] = "end" /\ "pidfile" \notin user[d]
      /\ ("executes" \in user[d] => cutShort[d] = "start failed")
  BY <1>1 DEF EndMonitor, JoinRight, UserRight
<1>3. /\ pc' = [pc EXCEPT ![d] = "exit"] /\ pc'[d] = "exit"
      /\ user' = [user EXCEPT ![d] = user[d] \ {"manager", "image"}]
      /\ user'[d] = user[d] \ {"manager", "image"}
      /\ UNCHANGED <<handlerVars, joined, reboots, cutShort>>
  BY Functions DEF EndMonitor, Goto, Owns
<1>4. ("manager" = "manager") = TRUE
  OBVIOUS
<1>5. RefdownReads(d, "daemon", "manager" = "manager")
  BY <1>4 DEF EndMonitor
<1>6. Drops(d, "manager")
  <2>1. (user[d] \ {"manager"}) \intersect Handles \subseteq user'[d]
    BY <1>3 DEF Handles
  <2> QED
    BY <1>2, <1>3, <1>5, <2>1 DEF Drops
<1>7. UserRight(d)'
  BY <1>2, <1>3 DEF UserRight
<1> QED
  BY <1>6, <1>7, DropsRight DEF Handles

LEMMA ExitClosesRight ==
  ASSUME HostInv, NEW d \in Monitor, NEW handle \in {"manager", "messages"}, ExitCloses(d, handle),
         ~miscounted[d]
  PROVE  HostInv'
<1>1. handle \in Handles /\ refcount[d] \in Nat
  BY AtDaemon DEF Handles
<1>2. CASE refcount[d] = 0
  BY <1>1, <1>2, ExitClosesOnlyRight
<1>3. CASE refcount[d] > 0
  <2>1. UserRight(d)
    BY AtDaemon
  <2>2. /\ pc[d] = "exit" /\ handle \in user[d] /\ RefdownReads(d, "daemon", handle = "manager")
        /\ ~(closing[d]["daemon"] > 0)
    BY <1>3 DEF ExitCloses, Settled
  <2>3. /\ user' = [user EXCEPT ![d] = user[d] \ {handle}] /\ user'[d] = user[d] \ {handle}
        /\ pc' = pc /\ UNCHANGED <<handlerVars, joined, reboots, cutShort>>
    BY Functions DEF ExitCloses, Owns
  <2>4. pc' = [pc EXCEPT ![d] = pc'[d]] /\ pc'[d] = "exit"
    BY <2>2, <2>3, Functions
  <2>5. Drops(d, handle)
    BY <2>2, <2>3, <2>4 DEF Drops
  <2>6. UserRight(d)'
    BY <2>1, <2>2, <2>3, <2>4 DEF UserRight
  <2> QED
    BY <1>1, <2>5, <2>6, DropsRight
<1> QED
  BY <1>1, <1>2, <1>3

LEMMA OpenMessagesRight ==
  ASSUME HostInv, NEW d \in Monitor, OpenMessages(d)
  PROVE  HostInv'
<1>1. CASE EndsUnopened(d)
  BY <1>1, OpenMessagesOnlyRight
<1>2. CASE /\ pc[d] = "loaded" /\ Goto(d, "opened") /\ Owns(d, user[d] \union {"reactor", "messages"})
           /\ Attach(d) /\ UNCHANGED <<handlerVars, joined, reboots, cutShort>>
  <2>1. /\ StageRight(d) /\ RefsRight(d) /\ HeldRight(d) /\ LeaksRight(d) /\ UserRight(d)
        /\ RebootsRight(d) /\ JoinRight(d) /\ refcount[d] \in Nat
    BY AtDaemon
  <2>2. /\ user[d] = {"image", "manager"} /\ kernel[d] = "idle" /\ monState[d] = "INITIALIZED"
        /\ cutShort[d] = "no" /\ armed[d] = FALSE
    <3>1. kernel[d] = "idle" /\ monState[d] = "INITIALIZED"
      BY <1>2, <2>1 DEF StageRight
    <3>2. armed[d] = FALSE
      BY <2>1, <3>1, AtDaemon DEF StageRight
    <3> QED
      BY <1>2, <2>1, <3>1, <3>2 DEF UserRight
  <2>3. /\ pc' = [pc EXCEPT ![d] = "opened"] /\ pc'[d] = "opened"
        /\ user' = [user EXCEPT ![d] = user[d] \union {"reactor", "messages"}]
        /\ user'[d] = {"image", "manager", "reactor", "messages"}
        /\ refcount' = [refcount EXCEPT ![d] = refcount[d] + 1] /\ refcount'[d] = refcount[d] + 1
    BY <1>2, <2>2, Functions DEF Goto, Owns, Attach, OneMore
  <2>4. /\ monState' = monState /\ held' = held /\ armed' = armed /\ listed' = listed
        /\ kernel' = kernel /\ leaked' = leaked /\ wild' = wild /\ UNCHANGED memoryVars
        /\ nextReboot' = nextReboot /\ stop' = stop /\ power' = power /\ reboots' = reboots
        /\ cutShort' = cutShort /\ closing' = closing /\ miscounted' = miscounted /\ joined' = joined
    BY <1>2 DEF Attach, handlerVars
  <2>5. d \in listed /\ (~miscounted[d] => refcount[d] = Cardinality(Holders(d)))
    BY <2>1, <2>2 DEF RefsRight, Gone
  <2>6. Holders(d)' = Holders(d) \union {"messages"} /\ "messages" \notin Holders(d)
    <3>1. Openers(d)' = Openers(d)
      BY <2>4, OpenersSame
    <3>2. "messages" \notin Openers(d)
      BY HandlesApart DEF Openers, Opener
    <3> QED
      BY <2>2, <2>3, <3>1, <3>2 DEF Holders
  <2>7. Cardinality(Holders(d)') = Cardinality(Holders(d)) + 1
    BY <2>6, HoldersFinite, FS_AddElement
  <2>8. Moved(d)
    <3>1. LifeTyped(d)
      <4>1. refcount'[d] \in Nat
        BY <2>1, <2>3
      <4> QED
        BY <2>4, <4>1, AtDaemon DEF LifeTyped
    <3>2. LifeOnly(d)
      BY <2>3, <2>4, Functions DEF LifeOnly
    <3>3. DaemonTyped(d)
      BY <2>3, <2>4, AtDaemon DEF DaemonTyped, Points, Things
    <3>4. DaemonOnly(d)
      BY <2>3, <2>4, Functions DEF DaemonOnly
    <3> QED
      BY <2>4, <3>1, <3>2, <3>3, <3>4, MemorySame DEF Moved
  <2>9. StageRight(d)'
    BY <2>2, <2>3, <2>4 DEF StageRight, Creating, Ending
  <2>10. RefsRight(d)'
    <3>1. ~miscounted'[d] => refcount'[d] = Cardinality(Holders(d)')
      BY <2>3, <2>4, <2>5, <2>7
    <3>2. Holders(d)' # {} /\ (d \in listed' <=> "manager" \in user'[d])
      BY <2>3, <2>4, <2>5, <2>6
    <3> QED
      BY <2>2, <2>4, <3>1, <3>2 DEF RefsRight, Gone
  <2>11. HeldRight(d)'
    BY <1>2, <2>1, <2>3, <2>4 DEF HeldRight
  <2>12. LeaksRight(d)'
    BY <2>1, <2>4 DEF LeaksRight
  <2>13. UserRight(d)'
    BY <2>2, <2>3, <2>4 DEF UserRight
  <2>14. RebootsRight(d)'
    BY <2>1, <2>3, <2>4 DEF RebootsRight
  <2>15. JoinRight(d)'
    BY <1>2, <2>1, <2>3, <2>4 DEF JoinRight, Unlaunched
  <2> QED
    BY <2>8, <2>9, <2>10, <2>11, <2>12, <2>13, <2>14, <2>15, MovedRight DEF OneRight
<1> QED
  BY <1>1, <1>2 DEF OpenMessages, EndsUnopened

(* A step of the references while the daemon stays where it is; the last one that goes begins
   the destruction. *)
Counts(d) ==
  /\ kernel[d] = "idle" /\ monState[d] \notin Gone
  /\ refcount' = [refcount EXCEPT ![d] = refcount'[d]] /\ refcount'[d] \in Nat
  /\ closing' = [closing EXCEPT ![d] = closing'[d]] /\ closing'[d] \in [Opener -> Nat]
  /\ miscounted' = [miscounted EXCEPT ![d] = miscounted'[d]] /\ miscounted'[d] \in BOOLEAN
  /\ joined' = [joined EXCEPT ![d] = joined'[d]] /\ joined'[d] \in [Child -> Places]
  /\ \/ kernel' = kernel /\ armed' = armed
     \/ /\ kernel' = [kernel EXCEPT ![d] = "destroy"] /\ armed' = [armed EXCEPT ![d] = FALSE]
        /\ pc[d] \in {"exit", "exited"}
  /\ monState' = monState /\ held' = held /\ leaked' = leaked /\ wild' = wild /\ listed' = listed
  /\ UNCHANGED memoryVars
  /\ pc' = pc /\ user' = user /\ nextReboot' = nextReboot /\ stop' = stop /\ power' = power
  /\ reboots' = reboots /\ cutShort' = cutShort

LEMMA CountsRight ==
  ASSUME HostInv, NEW d \in Monitor, Counts(d), RefsRight(d)', JoinRight(d)'
  PROVE  HostInv'
<1>1. /\ StageRight(d) /\ RefsRight(d) /\ HeldRight(d) /\ LeaksRight(d) /\ UserRight(d)
      /\ RebootsRight(d)
  BY AtDaemon
<1>2. /\ monState' = monState /\ held' = held /\ leaked' = leaked /\ wild' = wild /\ listed' = listed
      /\ UNCHANGED memoryVars
      /\ pc' = pc /\ user' = user /\ nextReboot' = nextReboot /\ stop' = stop /\ power' = power
      /\ reboots' = reboots /\ cutShort' = cutShort
      /\ kernel[d] = "idle" /\ monState[d] \notin Gone
  BY DEF Counts
<1>3. /\ kernel' = [kernel EXCEPT ![d] = kernel'[d]] /\ armed' = [armed EXCEPT ![d] = armed'[d]]
      /\ \/ kernel'[d] = "idle" /\ armed'[d] = armed[d]
         \/ kernel'[d] = "destroy" /\ armed'[d] = FALSE /\ pc[d] \in {"exit", "exited"}
  <2>1. CASE kernel' = kernel /\ armed' = armed
    BY <1>2, <2>1, Functions
  <2>2. CASE /\ kernel' = [kernel EXCEPT ![d] = "destroy"] /\ armed' = [armed EXCEPT ![d] = FALSE]
             /\ pc[d] \in {"exit", "exited"}
    BY <2>2, Functions
  <2> QED
    BY <2>1, <2>2 DEF Counts
<1>4. Base \subseteq held[d]
  BY <1>1, <1>2 DEF HeldRight
<1>5. Moved(d)
  <2>1. LifeTyped(d)
    <3>1. kernel'[d] \in Kernels /\ armed'[d] \in BOOLEAN
      BY <1>3, AtDaemon DEF Kernels
    <3>2. refcount'[d] \in Nat /\ closing'[d] \in [Opener -> Nat] /\ miscounted'[d] \in BOOLEAN
      BY DEF Counts
    <3> QED
      BY <1>2, <3>1, <3>2, AtDaemon DEF LifeTyped
  <2>2. LifeOnly(d)
    <3>1. /\ refcount' = [refcount EXCEPT ![d] = refcount'[d]]
          /\ closing' = [closing EXCEPT ![d] = closing'[d]]
          /\ miscounted' = [miscounted EXCEPT ![d] = miscounted'[d]]
      BY DEF Counts
    <3> QED
      BY <1>2, <1>3, <3>1, Functions DEF LifeOnly
  <2>3. joined' = [joined EXCEPT ![d] = joined'[d]] /\ joined'[d] \in [Child -> Places]
    BY DEF Counts
  <2>4. DaemonTyped(d)
    BY <1>2, <2>3, AtDaemon DEF DaemonTyped
  <2>5. DaemonOnly(d)
    BY <1>2, <2>3, Functions DEF DaemonOnly
  <2> QED
    BY <1>2, <2>1, <2>2, <2>4, <2>5, MemorySame DEF Moved
<1>6. StageRight(d)'
  <2>1. CASE kernel'[d] = "idle" /\ armed'[d] = armed[d]
    BY <1>1, <1>2, <2>1 DEF StageRight
  <2>2. CASE kernel'[d] = "destroy" /\ armed'[d] = FALSE /\ pc[d] \in {"exit", "exited"}
    BY <1>1, <1>2, <2>2 DEF StageRight, Creating, Ending
  <2> QED
    BY <1>3, <2>1, <2>2
<1>7. HeldRight(d)'
  <2>1. kernel'[d] \notin Creating
    BY <1>3 DEF Creating
  <2> QED
    BY <1>1, <1>2, <1>4, <2>1 DEF HeldRight
<1>8. LeaksRight(d)' /\ UserRight(d)' /\ RebootsRight(d)'
  <2>1. LeaksRight(d)'
    BY <1>1, <1>2 DEF LeaksRight
  <2>2. UserRight(d)'
    BY <1>1, <1>2 DEF UserRight
  <2>3. RebootsRight(d)'
    BY <1>1, <1>2 DEF RebootsRight
  <2> QED
    BY <2>1, <2>2, <2>3
<1> QED
  BY <1>5, <1>6, <1>7, <1>8, MovedRight DEF OneRight

(* The decrement is written: it was lost, it leaves others, or it was the last. *)
LEMMA RefdownWritesRight ==
  ASSUME HostInv, NEW d \in Monitor, NEW o \in Opener, RefdownWrites(d, o), UNCHANGED daemonVars,
         ~miscounted[d]
  PROVE  HostInv'
<1>1. StageRight(d) /\ RefsRight(d) /\ UserRight(d) /\ JoinRight(d)
  BY AtDaemon
<1>2. /\ refcount[d] \in Nat /\ closing[d] \in [Opener -> Nat] /\ joined[d] \in [Child -> Places]
      /\ closing[d][o] \in Nat /\ closing[d][o] > 0 /\ kernel[d] = "idle" /\ o \in Openers(d)
  <2>1. /\ refcount[d] \in Nat /\ closing[d] \in [Opener -> Nat] /\ joined[d] \in [Child -> Places]
        /\ closing[d][o] > 0 /\ kernel[d] = "idle"
    BY AtDaemon DEF RefdownWrites
  <2> QED
    BY <2>1 DEF Openers
<1>3. /\ monState[d] \notin Gone /\ (d \in listed <=> "manager" \in user[d])
      /\ refcount[d] = Cardinality(Holders(d)) /\ Holders(d) # {} /\ o \in Holders(d)
  BY <1>2, Referenced DEF Holders
<1>4. /\ monState' = monState /\ held' = held /\ leaked' = leaked /\ wild' = wild /\ listed' = listed
      /\ UNCHANGED memoryVars
      /\ pc' = pc /\ user' = user /\ nextReboot' = nextReboot /\ stop' = stop /\ power' = power
      /\ reboots' = reboots /\ cutShort' = cutShort /\ joined' = joined
      /\ refcount' = [refcount EXCEPT ![d] = closing[d][o] - 1]
  BY DEF RefdownWrites, daemonVars
<1>5. /\ refcount'[d] = closing[d][o] - 1 /\ refcount'[d] \in Nat
      /\ refcount' = [refcount EXCEPT ![d] = refcount'[d]]
      /\ joined' = [joined EXCEPT ![d] = joined'[d]] /\ joined'[d] \in [Child -> Places]
  <2>1. closing[d][o] - 1 \in Nat
    BY <1>2, OneLess
  <2>2. refcount'[d] = closing[d][o] - 1 /\ joined'[d] = joined[d]
        /\ joined' = [joined EXCEPT ![d] = joined'[d]]
    BY <1>4, Functions
  <2> QED
    BY <1>2, <1>4, <2>1, <2>2
<1>6. \A c \in Child : joined[d][c] = "attached" => ~(closing[d][c] > 0)
  BY <1>1 DEF JoinRight
<1>7. "daemon" \in Opener /\ Child \subseteq Opener /\ o \notin Handles /\ Openers(d) \subseteq Opener
  BY HandlesApart DEF Openers, Opener, Handles
<1>8. CASE /\ refcount[d] # closing[d][o] /\ miscounted' = [miscounted EXCEPT ![d] = TRUE]
           /\ UNCHANGED <<closing, kernel, armed>>
  <2>1. miscounted'[d] = TRUE /\ miscounted' = [miscounted EXCEPT ![d] = miscounted'[d]]
    BY <1>8, Functions
  <2>2. closing' = [closing EXCEPT ![d] = closing'[d]] /\ closing'[d] = closing[d]
    BY <1>8, Functions
  <2>3. Counts(d)
    BY <1>2, <1>3, <1>4, <1>5, <1>8, <2>1, <2>2 DEF Counts
  <2>4. Openers(d)' = Openers(d) /\ Holders(d)' = Holders(d)
    BY <1>4, <2>2, OpenersSame, HoldersSame
  <2>5. RefsRight(d)'
    BY <1>2, <1>3, <1>4, <1>8, <2>1, <2>4 DEF RefsRight
  <2>6. JoinRight(d)'
    BY <1>1, <1>4, <2>2 DEF JoinRight
  <2> QED
    BY <2>3, <2>5, <2>6, CountsRight
<1>9. CASE /\ refcount[d] = closing[d][o] /\ refcount[d] > 1 /\ closing' = [closing EXCEPT ![d][o] = 0]
           /\ UNCHANGED <<miscounted, kernel, armed>>
  <2>1. closing'[d] = [closing[d] EXCEPT ![o] = 0] /\ closing' = [closing EXCEPT ![d] = closing'[d]]
    BY <1>9, Functions
  <2>2. closing'[d] \in [Opener -> Nat] /\ closing'[d][o] = 0
        /\ \A p \in Opener : p # o => closing'[d][p] = closing[d][p]
    BY <1>2, <2>1
  <2>3. miscounted' = [miscounted EXCEPT ![d] = miscounted'[d]] /\ miscounted'[d] = miscounted[d]
        /\ miscounted[d] \in BOOLEAN
    BY <1>9, AtDaemon, Functions
  <2>4. Counts(d)
    BY <1>2, <1>3, <1>4, <1>5, <1>9, <2>1, <2>2, <2>3 DEF Counts
  <2>5. Openers(d)' = Openers(d) \ {o}
    <3>1. \A p \in Opener : closing'[d][p] > 0 <=> closing[d][p] > 0 /\ p # o
      BY <2>2
    <3>2. o \in Child => joined[d][o] # "attached"
      BY <1>2, <1>6
    <3> QED
      BY <1>4, <3>1, <3>2 DEF Openers
  <2>6. Holders(d)' = Holders(d) \ {o}
    BY <1>4, <1>7, <2>5 DEF Holders, Handles
  <2>7. IsFiniteSet(Holders(d)') /\ Cardinality(Holders(d)') = Cardinality(Holders(d)) - 1
    BY <1>3, <2>6, HoldersFinite, FS_RemoveElement
  <2>8. Holders(d)' # {}
    <3>1. Cardinality(Holders(d)) > 1 /\ Cardinality(Holders(d)) \in Nat
      BY <1>2, <1>3, <1>9
    <3>2. Cardinality(Holders(d)) - 1 # 0
      BY <3>1, OneLess
    <3>3. Cardinality(Holders(d)') # 0
      BY <2>7, <3>2
    <3> QED
      BY <2>7, <3>3, FS_EmptySet
  <2>9. refcount'[d] = Cardinality(Holders(d)')
    BY <1>3, <1>5, <1>9, <2>7
  <2>10. RefsRight(d)'
    BY <1>2, <1>3, <1>4, <1>9, <2>8, <2>9 DEF RefsRight
  <2>11. JoinRight(d)'
    <3>1. \A p \in Opener : closing'[d][p] > 0 => closing[d][p] > 0
      BY <2>2
    <3> QED
      BY <1>1, <1>4, <1>7, <3>1 DEF JoinRight
  <2> QED
    BY <2>4, <2>10, <2>11, CountsRight
<1>10. CASE /\ refcount[d] = closing[d][o] /\ refcount[d] = 1
            /\ kernel' = [kernel EXCEPT ![d] = "destroy"]
            /\ armed' = [armed EXCEPT ![d] = @ /\ monState[d] \notin TimerStates]
            /\ UNCHANGED <<closing, miscounted>>
  <2>1. Holders(d) = {o}
    <3>3. Cardinality(Holders(d)) = 1
      BY <1>3, <1>10
    <3>4. IsFiniteSet(Holders(d) \ {o}) /\ Cardinality(Holders(d) \ {o}) = Cardinality(Holders(d)) - 1
      BY <1>3, HoldersFinite, FS_RemoveElement
    <3>1. IsFiniteSet(Holders(d) \ {o}) /\ Cardinality(Holders(d) \ {o}) = 0
      BY <3>3, <3>4
    <3>2. Holders(d) \ {o} = {}
      BY <3>1, FS_EmptySet
    <3> QED
      BY <1>3, <3>2
  <2>2. user[d] \intersect Handles = {} /\ \A c \in Child : joined[d][c] # "attached"
    <3>1. user[d] \intersect Handles = {}
      BY <1>7, <2>1 DEF Holders, Handles
    <3>2. ASSUME NEW c \in Child, joined[d][c] = "attached" PROVE FALSE
      <4>1. c = o
        BY <2>1, <3>2 DEF Holders, Openers
      <4> QED
        BY <1>2, <1>6, <3>2, <4>1
    <3> QED
      BY <3>1, <3>2
  <2>3. pc[d] \in {"exit", "exited"}
    <3>1. "manager" \notin user[d] /\ ~(Handles \subseteq user[d])
      BY <2>2 DEF Handles
    <3>2. pc[d] \notin {"begin", "image"}
      BY <1>1, <1>3 DEF StageRight, Gone
    <3>3. pc[d] \in Points
      BY AtDaemon
    <3> QED
      BY <1>1, <3>1, <3>2, <3>3 DEF UserRight, Points, BeforeOpen
  <2>4. armed' = [armed EXCEPT ![d] = FALSE]
    <3>1. (armed[d] /\ monState[d] \notin TimerStates) = FALSE
      BY <1>1 DEF StageRight, TimerStates
    <3> QED
      BY <1>10, <3>1
  <2>5. /\ miscounted' = [miscounted EXCEPT ![d] = miscounted'[d]] /\ miscounted'[d] = miscounted[d]
        /\ miscounted[d] \in BOOLEAN
        /\ closing' = [closing EXCEPT ![d] = closing'[d]] /\ closing'[d] = closing[d]
    BY <1>10, AtDaemon, Functions
  <2>6. Counts(d)
    BY <1>2, <1>3, <1>4, <1>5, <1>10, <2>3, <2>4, <2>5 DEF Counts
  <2>7. RefsRight(d)'
    <3>1. refcount'[d] = 0 /\ d \notin listed'
      BY <1>3, <1>4, <1>5, <1>10, <2>2 DEF Handles
    <3>2. kernel'[d] = "destroy"
      BY <1>10, Functions
    <3>3. Openers(d)' # {}
      BY <1>2, <1>4, <2>5, OpenersSame
    <3> QED
      BY <1>4, <2>2, <3>1, <3>2, <3>3 DEF RefsRight, Ending
  <2>8. JoinRight(d)'
    BY <1>1, <1>4, <2>5 DEF JoinRight
  <2> QED
    BY <2>6, <2>7, <2>8, CountsRight
<1> QED
  BY <1>8, <1>9, <1>10, Zenon DEF RefdownWrites

(* A launched process attaches, and ends. *)
LEMMA ChildAttachesRight ==
  ASSUME HostInv, NEW d \in Monitor, NEW c \in Child, ChildAttaches(d, c)
  PROVE  HostInv'
<1>1. /\ JoinRight(d) /\ refcount[d] \in Nat /\ closing[d] \in [Opener -> Nat]
      /\ joined[d] \in [Child -> Places] /\ miscounted[d] \in BOOLEAN
  BY AtDaemon
<1>2. joined[d][c] = "started" /\ refcount[d] > 0
  BY DEF ChildAttaches, Attach
<1>3. /\ kernel[d] = "idle" /\ monState[d] \notin Gone
      /\ Holders(d) # {} /\ (d \in listed <=> "manager" \in user[d])
      /\ ~miscounted[d] => refcount[d] = Cardinality(Holders(d))
  BY <1>2, Referenced
<1>4. /\ monState' = monState /\ held' = held /\ leaked' = leaked /\ wild' = wild /\ listed' = listed
      /\ UNCHANGED memoryVars /\ kernel' = kernel /\ armed' = armed
      /\ closing' = closing /\ miscounted' = miscounted
      /\ pc' = pc /\ user' = user /\ nextReboot' = nextReboot /\ stop' = stop /\ power' = power
      /\ reboots' = reboots /\ cutShort' = cutShort
      /\ refcount' = [refcount EXCEPT ![d] = @ + 1]
      /\ joined' = [joined EXCEPT ![d][c] = "attached"]
  BY DEF ChildAttaches, Attach, OneMore, handlerVars
<1>5. /\ refcount'[d] = refcount[d] + 1 /\ refcount'[d] \in Nat
      /\ refcount' = [refcount EXCEPT ![d] = refcount'[d]]
  <2>1. refcount[d] + 1 \in Nat
    BY <1>1, OneLess
  <2>2. refcount'[d] = refcount[d] + 1
    BY <1>4, Functions
  <2> QED
    BY <1>4, <2>1, <2>2
<1>6. /\ joined'[d] = [joined[d] EXCEPT ![c] = "attached"]
      /\ joined' = [joined EXCEPT ![d] = joined'[d]]
  BY <1>4, Functions
<1>7. joined'[d] \in [Child -> Places] /\ joined'[d][c] = "attached"
      /\ \A b \in Child : b # c => joined'[d][b] = joined[d][b]
  BY <1>1, <1>6 DEF Places
<1>8. /\ miscounted' = [miscounted EXCEPT ![d] = miscounted'[d]] /\ miscounted'[d] = miscounted[d]
      /\ closing' = [closing EXCEPT ![d] = closing'[d]] /\ closing'[d] = closing[d]
  BY <1>4, Functions
<1>9. Counts(d)
  BY <1>1, <1>3, <1>4, <1>5, <1>6, <1>7, <1>8 DEF Counts
<1>10. Openers(d)' = Openers(d) \union {c} /\ c \notin Openers(d)
  <2>1. ~(closing[d][c] > 0)
    BY <1>1, <1>2 DEF JoinRight
  <2> QED
    BY <1>2, <1>7, <1>8, <2>1 DEF Openers
<1>11. Holders(d)' = Holders(d) \union {c} /\ c \notin Holders(d)
  <2>1. c \notin Handles
    BY HandlesApart DEF Handles, Opener
  <2> QED
    BY <1>4, <1>10, <2>1 DEF Holders, Handles
<1>12. Cardinality(Holders(d)') = Cardinality(Holders(d)) + 1
  BY <1>11, HoldersFinite, FS_AddElement
<1>13. RefsRight(d)'
  <2>1. ~miscounted'[d] => refcount'[d] = Cardinality(Holders(d)')
    BY <1>3, <1>5, <1>8, <1>12
  <2> QED
    BY <1>3, <1>4, <1>11, <2>1 DEF RefsRight
<1>14. JoinRight(d)'
  <2>1. pc[d] \notin Unlaunched
    BY <1>1, <1>2 DEF JoinRight
  <2>2. \A b \in Child : closing[d][b] > 0 => joined'[d][b] = "left"
    BY <1>1, <1>2, <1>7 DEF JoinRight
  <2> QED
    BY <1>1, <1>4, <1>8, <2>1, <2>2 DEF JoinRight
<1> QED
  BY <1>9, <1>13, <1>14, CountsRight

LEMMA ChildClosesRight ==
  ASSUME HostInv, NEW d \in Monitor, NEW c \in Child, ChildCloses(d, c)
  PROVE  HostInv'
<1>1. /\ JoinRight(d) /\ refcount[d] \in Nat /\ closing[d] \in [Opener -> Nat]
      /\ joined[d] \in [Child -> Places] /\ miscounted[d] \in BOOLEAN
  BY AtDaemon
<1>2. joined[d][c] = "attached" /\ refcount[d] > 0
  BY DEF ChildCloses, RefdownReads
<1>3. /\ kernel[d] = "idle" /\ monState[d] \notin Gone
      /\ Holders(d) # {} /\ (d \in listed <=> "manager" \in user[d])
      /\ ~miscounted[d] => refcount[d] = Cardinality(Holders(d))
  BY <1>2, Referenced
<1>4. /\ monState' = monState /\ held' = held /\ leaked' = leaked /\ wild' = wild /\ listed' = listed
      /\ UNCHANGED memoryVars /\ kernel' = kernel /\ armed' = armed
      /\ refcount' = refcount /\ miscounted' = miscounted
      /\ pc' = pc /\ user' = user /\ nextReboot' = nextReboot /\ stop' = stop /\ power' = power
      /\ reboots' = reboots /\ cutShort' = cutShort
      /\ closing' = [closing EXCEPT ![d][c] = refcount[d]]
      /\ joined' = [joined EXCEPT ![d][c] = "left"]
  BY DEF ChildCloses, RefdownReads, handlerVars
<1>5. c \in Opener /\ Child \subseteq Opener /\ "daemon" \in Opener /\ c # "daemon"
  BY HandlesApart
<1>6. /\ closing'[d] = [closing[d] EXCEPT ![c] = refcount[d]]
      /\ closing' = [closing EXCEPT ![d] = closing'[d]]
      /\ joined'[d] = [joined[d] EXCEPT ![c] = "left"]
      /\ joined' = [joined EXCEPT ![d] = joined'[d]]
  BY <1>4, Functions
<1>7. joined'[d] \in [Child -> Places] /\ joined'[d][c] = "left"
      /\ \A b \in Child : b # c => joined'[d][b] = joined[d][b]
  BY <1>1, <1>6 DEF Places
<1>8. closing'[d] \in [Opener -> Nat] /\ closing'[d][c] = refcount[d]
      /\ \A o \in Opener : o # c => closing'[d][o] = closing[d][o]
  BY <1>1, <1>5, <1>6
<1>9. /\ miscounted' = [miscounted EXCEPT ![d] = miscounted'[d]] /\ miscounted'[d] = miscounted[d]
      /\ refcount' = [refcount EXCEPT ![d] = refcount'[d]] /\ refcount'[d] = refcount[d]
  BY <1>4, Functions
<1>10. Counts(d)
  BY <1>1, <1>3, <1>4, <1>6, <1>7, <1>8, <1>9 DEF Counts
<1>11. Openers(d)' = Openers(d)
  <2>1. c \in Openers(d)
    BY <1>2 DEF Openers
  <2>2. c \in Openers(d)'
    BY <1>2, <1>5, <1>8 DEF Openers
  <2>3. ASSUME NEW o, o # c PROVE o \in Openers(d)' <=> o \in Openers(d)
    BY <1>5, <1>7, <1>8, <2>3 DEF Openers
  <2> QED
    BY <2>1, <2>2, <2>3
<1>12. Holders(d)' = Holders(d)
  BY <1>4, <1>11, HoldersSame
<1>13. RefsRight(d)'
  BY <1>3, <1>4, <1>9, <1>12 DEF RefsRight
<1>14. JoinRight(d)'
  <2>1. \A b \in Child : closing'[d][b] > 0 => joined'[d][b] = "left"
    BY <1>1, <1>5, <1>7, <1>8 DEF JoinRight
  <2>2. closing'[d]["daemon"] = closing[d]["daemon"]
    BY <1>5, <1>8
  <2>3. pc[d] \notin Unlaunched
    BY <1>1, <1>2 DEF JoinRight
  <2> QED
    BY <1>1, <1>4, <2>1, <2>2, <2>3 DEF JoinRight
<1> QED
  BY <1>10, <1>13, <1>14, CountsRight

-----------------------------------------------------------------------------
(* The ioctls of a running guest. *)

(* One of them: only these fields of the monitor and the daemon change. *)
Serves(d) ==
  /\ kernel[d] = "idle" /\ monState[d] \notin Gone
  /\ monState' = [monState EXCEPT ![d] = monState'[d]] /\ monState'[d] \in States \ Gone
  /\ held' = [held EXCEPT ![d] = held'[d]] /\ held'[d] \in SUBSET Resource /\ Base \subseteq held'[d]
  /\ armed' = [armed EXCEPT ![d] = armed'[d]] /\ armed'[d] \in BOOLEAN
  /\ leaked' = [leaked EXCEPT ![d] = leaked'[d]] /\ leaked'[d] \in SUBSET Lost
  /\ pc' = [pc EXCEPT ![d] = pc'[d]] /\ pc'[d] \in Points
  /\ power' = [power EXCEPT ![d] = power'[d]] /\ power'[d] \in BOOLEAN
  /\ reboots' = [reboots EXCEPT ![d] = reboots'[d]]
  /\ reboots'[d] \in Nat /\ reboots'[d] <= MaxReboots[d] + 1
  /\ cutShort' = [cutShort EXCEPT ![d] = cutShort'[d]]
  /\ cutShort'[d] \in {"no", "start failed", "crash"}
  /\ listed' = listed \/ (listed' = listed \union {d} /\ d \in listed)
  /\ UNCHANGED <<countVars, kernel, wild, memoryVars, user, nextReboot, stop, joined>>
  /\ pc[d] \in {"start", "run", "restart"}
  /\ pc'[d] \notin Unlaunched

LEMMA ServesRight ==
  ASSUME HostInv, NEW d \in Monitor, Serves(d), StageRight(d)', LeaksRight(d)', UserRight(d)',
         RebootsRight(d)', pc'[d] \in Fresh => ("archdep" \notin held'[d] \/ reboots'[d] > 0)
  PROVE  HostInv'
<1>1. RefsRight(d) /\ HeldRight(d) /\ JoinRight(d)
  BY AtDaemon
<1>2. Moved(d)
  <2>1. LifeTyped(d)
    BY AtDaemon DEF LifeTyped, Serves, countVars
  <2>2. LifeOnly(d)
    BY Functions DEF LifeOnly, Serves, countVars
  <2>3. DaemonTyped(d)
    BY AtDaemon DEF DaemonTyped, Serves
  <2>4. DaemonOnly(d)
    BY Functions DEF DaemonOnly, Serves
  <2> QED
    BY <2>1, <2>2, <2>3, <2>4, MemorySame DEF Moved, Serves
<1>3. /\ refcount' = refcount /\ closing' = closing /\ miscounted' = miscounted /\ joined' = joined
      /\ user' = user /\ kernel' = kernel /\ kernel[d] = "idle"
      /\ monState[d] \notin Gone /\ monState'[d] \notin Gone
  BY DEF Serves, countVars
<1>4. JoinRight(d)' /\ Openers(d)' = Openers(d)
  <2>1. closing[d]["daemon"] > 0 => pc'[d] \in {"out", "exit"}
    BY <1>1 DEF Serves, JoinRight
  <2> QED
    BY <1>1, <1>3, <2>1, JoinSame DEF Serves
<1>5. RefsRight(d)'
  <2>1. listed' = listed
    <3>1. d \in listed => listed \union {d} = listed
      OBVIOUS
    <3>2. listed' = listed \/ (listed' = listed \union {d} /\ d \in listed)
      BY DEF Serves
    <3> QED
      BY <3>1, <3>2
  <2>2. Holders(d)' = Holders(d)
    BY <1>3, <1>4, HoldersSame
  <2> QED
    BY <1>1, <1>3, <2>1, <2>2 DEF RefsRight
<1>6. HeldRight(d)'
  BY DEF HeldRight, Serves, Creating, Fresh
<1> QED
  BY <1>2, <1>4, <1>5, <1>6, MovedRight DEF OneRight

LEMMA StartGuestRight ==
  ASSUME HostInv, NEW d \in Monitor, StartGuest(d)
  PROVE  HostInv'
<1>1. PICK outcome \in StartOutcome :
        /\ Start(d, outcome)
        /\ \/ outcome = "ok" /\ Goto(d, "run") /\ cutShort' = cutShort
           \/ outcome # "ok" /\ Goto(d, "out") /\ cutShort' = [cutShort EXCEPT ![d] = "start failed"]
  <2>1. CASE Start(d, "ok") /\ Goto(d, "run") /\ UNCHANGED cutShort
    BY <2>1 DEF StartOutcome
  <2>2. CASE /\ \E outcome \in StartOutcome \ {"ok"} : Start(d, outcome)
             /\ Goto(d, "out") /\ cutShort' = [cutShort EXCEPT ![d] = "start failed"]
    BY <2>2
  <2> QED
    BY <2>1, <2>2 DEF StartGuest
<1>2. pc[d] = "start" /\ UNCHANGED <<user, handlerVars, joined, reboots>>
  BY DEF StartGuest
<1> DEFINE dropped == CASE outcome = "not loaded" -> {}
                        [] outcome = "no archdep" -> {"archdep"}
                        [] OTHER                  -> {"archdep", "passagePage"}
           taken == IF outcome \in {"no tables", "ok"} THEN {"archdep", "passagePage"} ELSE {}
           lost  == {<<r, "start">> : r \in held[d] \intersect dropped}
           h     == (held[d] \ dropped) \union taken
<1>3. held' = [held EXCEPT ![d] = h] /\ leaked' = [leaked EXCEPT ![d] = leaked[d] \union lost]
  BY <1>1 DEF Start
<1>4. dropped \subseteq {"archdep", "passagePage"} /\ taken \subseteq {"archdep", "passagePage"}
  <2>1. dropped \subseteq {"archdep", "passagePage"}
    <3>1. CASE outcome = "not loaded"
      BY <3>1
    <3>2. CASE outcome = "no archdep"
      BY <3>2
    <3>3. CASE outcome \notin {"not loaded", "no archdep"}
      BY <3>3
    <3> QED
      BY <3>1, <3>2, <3>3
  <2> QED
    BY <2>1
<1> HIDE DEF dropped, taken
<1>5. StageRight(d) /\ HeldRight(d) /\ LeaksRight(d) /\ UserRight(d) /\ RebootsRight(d)
  BY AtDaemon
<1>6. kernel[d] = "idle" /\ monState[d] = "INITIALIZED" /\ Base \subseteq held[d] /\ armed[d] = FALSE
      /\ ("archdep" \in held[d] => reboots[d] > 0) /\ Handles \subseteq user[d] /\ cutShort[d] = "no"
  <2>1. kernel[d] = "idle" /\ monState[d] = "INITIALIZED"
    BY <1>2, <1>5 DEF StageRight
  <2>2. Base \subseteq held[d] /\ ("archdep" \in held[d] => reboots[d] > 0)
    BY <1>2, <1>5, <2>1 DEF HeldRight, Gone
  <2>3. armed[d] = FALSE
    BY <1>5, <2>1, AtDaemon DEF StageRight
  <2> QED
    BY <1>2, <1>5, <2>1, <2>2, <2>3 DEF UserRight
<1>7. h \in SUBSET Resource /\ Base \subseteq h
  <2>1. {"archdep", "passagePage"} \subseteq Resource /\ Base \intersect {"archdep", "passagePage"} = {}
    BY ResourceIs, BasicIs
  <2>2. held[d] \subseteq Resource
    BY AtDaemon
  <2> QED
    BY <1>4, <1>6, <2>1, <2>2
<1>8. /\ lost \subseteq {<<"archdep", "start">>, <<"passagePage", "start">>} /\ lost \in SUBSET Lost
      /\ <<"archdep", "start">> \in lost => "archdep" \in held[d]
  <2> SUFFICES ASSUME NEW r \in held[d] \intersect dropped
               PROVE  /\ <<r, "start">> \in {<<"archdep", "start">>, <<"passagePage", "start">>}
                      /\ <<r, "start">> \in Lost
                      /\ <<"archdep", "start">> = <<r, "start">> => "archdep" \in held[d]
    OBVIOUS
  <2>1. r = "archdep" \/ r = "passagePage"
    BY <1>4
  <2>2. r \in Resource /\ "start" \in {"create", "start", "destroy"}
    BY AtDaemon
  <2>3. <<r, "start">> \in Lost
    BY <2>2 DEF Lost
  <2>4. <<"archdep", "start">> = <<r, "start">> => r = "archdep"
    OBVIOUS
  <2> QED
    BY <2>1, <2>3, <2>4
<1> HIDE DEF h, lost
<1>9. /\ held'[d] = h /\ leaked'[d] = leaked[d] \union lost
      /\ monState'[d] = (IF outcome = "ok" THEN "STARTED" ELSE monState[d])
      /\ monState' = [monState EXCEPT ![d] = monState'[d]]
  BY <1>1, <1>3, Functions DEF Start
<1>10. armed' = [armed EXCEPT ![d] = (outcome = "ok")] /\ armed'[d] = (outcome = "ok")
  <2>1. (armed[d] \/ outcome = "ok") = (outcome = "ok")
    BY <1>6
  <2>2. armed' = [armed EXCEPT ![d] = armed[d] \/ outcome = "ok"]
    BY <1>1 DEF Start
  <2>3. armed' = [armed EXCEPT ![d] = (outcome = "ok")]
    BY <2>1, <2>2
  <2> QED
    BY <2>3, Functions
<1>11. /\ pc' = [pc EXCEPT ![d] = pc'[d]] /\ cutShort' = [cutShort EXCEPT ![d] = cutShort'[d]]
       /\ \/ outcome = "ok" /\ pc'[d] = "run" /\ cutShort'[d] = "no"
          \/ outcome # "ok" /\ pc'[d] = "out" /\ cutShort'[d] = "start failed"
  <2>1. CASE outcome = "ok"
    <3>1. pc' = [pc EXCEPT ![d] = "run"] /\ cutShort' = cutShort
      BY <1>1, <2>1 DEF Goto
    <3> QED
      BY <1>6, <2>1, <3>1, Functions
  <2>2. CASE outcome # "ok"
    <3>1. pc' = [pc EXCEPT ![d] = "out"] /\ cutShort' = [cutShort EXCEPT ![d] = "start failed"]
      BY <1>1, <2>2 DEF Goto
    <3> QED
      BY <2>2, <3>1, Functions
  <2> QED
    BY <2>1, <2>2
<1>12. Serves(d)
  <2>1. monState'[d] \in States \ Gone
    BY <1>6, <1>9 DEF States, Gone
  <2>2. leaked'[d] \in SUBSET Lost
    BY <1>8, <1>9, AtDaemon
  <2>3. /\ held' = [held EXCEPT ![d] = held'[d]] /\ held'[d] \in SUBSET Resource /\ Base \subseteq held'[d]
        /\ leaked' = [leaked EXCEPT ![d] = leaked'[d]]
    BY <1>3, <1>7, <1>9
  <2>4. armed' = [armed EXCEPT ![d] = armed'[d]] /\ armed'[d] \in BOOLEAN
    BY <1>10
  <2>5. pc'[d] \in Points /\ cutShort'[d] \in {"no", "start failed", "crash"}
    BY <1>11 DEF Points
  <2>6. /\ listed' = listed
        /\ UNCHANGED <<countVars, kernel, wild, memoryVars, user, nextReboot, stop, joined>>
        /\ power' = power /\ reboots' = reboots
    BY <1>1, <1>2 DEF Start, handlerVars
  <2>7. /\ power' = [power EXCEPT ![d] = power'[d]] /\ power'[d] \in BOOLEAN
        /\ reboots' = [reboots EXCEPT ![d] = reboots'[d]]
        /\ reboots'[d] \in Nat /\ reboots'[d] <= MaxReboots[d] + 1
    BY <2>6, AtDaemon, Functions
  <2>8. pc[d] \in {"start", "run", "restart"} /\ pc'[d] \notin Unlaunched
    BY <1>2, <1>11 DEF Unlaunched
  <2> QED
    BY <1>6, <1>9, <1>11, <2>1, <2>2, <2>3, <2>4, <2>5, <2>6, <2>7, <2>8 DEF Serves, Gone
<1>13. StageRight(d)'
  <2>1. kernel'[d] = "idle"
    BY <1>1, <1>6 DEF Start
  <2> QED
    BY <1>6, <1>9, <1>10, <1>11, <2>1 DEF StageRight, Creating, Ending, Gone
<1>14. LeaksRight(d)'
  <2>1. reboots' = reboots /\ wild' = wild
    BY <1>1, <1>2 DEF Start
  <2>2. <<"archdep", "start">> \in leaked'[d] => reboots'[d] > 0
    BY <1>5, <1>6, <1>8, <1>9, <2>1 DEF LeaksRight
  <2> QED
    BY <1>5, <1>8, <1>9, <2>1, <2>2 DEF LeaksRight
<1>15. UserRight(d)'
  <2>1. user' = user
    BY <1>2
  <2> QED
    BY <1>6, <1>11, <2>1 DEF UserRight, Handles
<1>16. RebootsRight(d)'
  <2>1. power' = power /\ stop' = stop /\ reboots' = reboots
    BY <1>2 DEF handlerVars
  <2> QED
    BY <1>5, <1>11, <2>1 DEF RebootsRight
<1>17. pc'[d] \notin Fresh
  BY <1>11 DEF Fresh
<1> QED
  BY <1>12, <1>13, <1>14, <1>15, <1>16, <1>17, ServesRight

LEMMA RunGuestRight ==
  ASSUME HostInv, NEW d \in Monitor, RunGuest(d)
  PROVE  HostInv'
<1>1. StageRight(d) /\ HeldRight(d) /\ LeaksRight(d) /\ UserRight(d) /\ RebootsRight(d)
  BY AtDaemon
<1>2. /\ pc[d] = "run" /\ monState' = [monState EXCEPT ![d] = "RUNNING"] /\ monState'[d] = "RUNNING"
      /\ UNCHANGED <<held, armed, countVars, listed, kernel, leaked, wild, memoryVars>>
      /\ UNCHANGED daemonVars
  BY Functions DEF RunGuest, Run
<1>3. kernel[d] = "idle" /\ monState[d] \in {"STARTED", "RUNNING"} /\ Base \subseteq held[d]
  <2>1. kernel[d] = "idle" /\ monState[d] \in {"STARTED", "RUNNING"}
    BY <1>1, <1>2 DEF StageRight
  <2> QED
    BY <1>1, <2>1 DEF HeldRight, Gone
<1>4. Serves(d)
  <2>1. monState'[d] \in States \ Gone
    BY <1>2 DEF States, Gone
  <2>2. /\ held' = [held EXCEPT ![d] = held'[d]] /\ held'[d] \in SUBSET Resource /\ Base \subseteq held'[d]
        /\ armed' = [armed EXCEPT ![d] = armed'[d]] /\ armed'[d] \in BOOLEAN
        /\ leaked' = [leaked EXCEPT ![d] = leaked'[d]] /\ leaked'[d] \in SUBSET Lost
    BY <1>2, <1>3, AtDaemon, Functions
  <2>3. DaemonTyped(d) /\ DaemonOnly(d)
    BY <1>2, DaemonSame
  <2>4. pc[d] \in {"start", "run", "restart"} /\ pc'[d] \notin Unlaunched
    BY <1>2 DEF daemonVars, Unlaunched
  <2> QED
    BY <1>2, <1>3, <2>1, <2>2, <2>3, <2>4 DEF Serves, DaemonTyped, DaemonOnly, daemonVars, Gone
<1>5. StageRight(d)'
  BY <1>2, <1>3 DEF StageRight, Creating, Ending, daemonVars
<1>6. LeaksRight(d)'
  BY <1>1, <1>2 DEF LeaksRight, daemonVars
<1>7. UserRight(d)'
  BY <1>1, <1>2 DEF UserRight, daemonVars
<1>8. RebootsRight(d)'
  BY <1>1, <1>2 DEF RebootsRight, daemonVars
<1>9. pc'[d] \notin Fresh
  BY <1>2 DEF Fresh, daemonVars
<1> QED
  BY <1>4, <1>5, <1>6, <1>7, <1>8, <1>9, ServesRight

LEMMA GuestEndsRight ==
  ASSUME HostInv, NEW d \in Monitor, NEW reason, GuestEnds(d, reason)
  PROVE  HostInv'
<1>1. StageRight(d) /\ HeldRight(d) /\ LeaksRight(d) /\ UserRight(d) /\ RebootsRight(d)
  BY AtDaemon
<1> DEFINE next == IF reason = "reboot" THEN "rebooted" ELSE "ended"
<1>2. next \in {"rebooted", "ended"} /\ (next = "rebooted" => reboots[d] < MaxReboots[d] \/ power[d])
  BY DEF GuestEnds
<1>3. pc' = [pc EXCEPT ![d] = next]
  BY DEF GuestEnds, Goto
<1> HIDE DEF next
<1>4. /\ pc[d] = "run" /\ monState' = [monState EXCEPT ![d] = "TERMINATED"] /\ monState'[d] = "TERMINATED"
      /\ armed' = [armed EXCEPT ![d] = FALSE] /\ armed'[d] = FALSE /\ pc'[d] = next
      /\ UNCHANGED <<held, countVars, listed, kernel, leaked, wild, memoryVars>>
      /\ user' = user /\ nextReboot' = nextReboot /\ stop' = stop /\ power' = power
      /\ reboots' = reboots /\ cutShort' = cutShort /\ joined' = joined
  BY <1>3, Functions DEF GuestEnds, Terminate, handlerVars
<1>5. kernel[d] = "idle" /\ monState[d] \in {"STARTED", "RUNNING"} /\ Base \subseteq held[d]
      /\ Handles \subseteq user[d] /\ cutShort[d] = "no"
  <2>1. kernel[d] = "idle" /\ monState[d] \in {"STARTED", "RUNNING"}
    BY <1>1, <1>4 DEF StageRight
  <2>2. Base \subseteq held[d]
    BY <1>1, <2>1 DEF HeldRight, Gone
  <2> QED
    BY <1>1, <1>4, <2>1, <2>2 DEF UserRight
<1>6. Serves(d)
  <2>1. monState'[d] \in States \ Gone /\ pc'[d] \in Points
    BY <1>2, <1>4 DEF States, Gone, Points
  <2>2. /\ held' = [held EXCEPT ![d] = held'[d]] /\ held'[d] \in SUBSET Resource /\ Base \subseteq held'[d]
        /\ leaked' = [leaked EXCEPT ![d] = leaked'[d]] /\ leaked'[d] \in SUBSET Lost
    BY <1>4, <1>5, AtDaemon, Functions
  <2>3. /\ monState' = [monState EXCEPT ![d] = monState'[d]]
        /\ armed' = [armed EXCEPT ![d] = armed'[d]] /\ armed'[d] \in BOOLEAN
        /\ pc' = [pc EXCEPT ![d] = pc'[d]]
    BY <1>3, <1>4
  <2>4. /\ power' = [power EXCEPT ![d] = power'[d]] /\ power'[d] \in BOOLEAN
        /\ reboots' = [reboots EXCEPT ![d] = reboots'[d]]
        /\ reboots'[d] \in Nat /\ reboots'[d] <= MaxReboots[d] + 1
        /\ cutShort' = [cutShort EXCEPT ![d] = cutShort'[d]]
        /\ cutShort'[d] \in {"no", "start failed", "crash"}
    BY <1>4, AtDaemon, Functions
  <2>5. pc[d] \in {"start", "run", "restart"} /\ pc'[d] \notin Unlaunched
    BY <1>2, <1>4 DEF Unlaunched
  <2> QED
    BY <1>4, <1>5, <2>1, <2>2, <2>3, <2>4, <2>5 DEF Serves, Gone
<1>7. StageRight(d)'
  BY <1>2, <1>4, <1>5 DEF StageRight, Creating, Ending
<1>8. LeaksRight(d)'
  BY <1>1, <1>4 DEF LeaksRight
<1>9. UserRight(d)'
  BY <1>2, <1>4, <1>5 DEF UserRight
<1>10. RebootsRight(d)'
  BY <1>1, <1>2, <1>4 DEF RebootsRight
<1>11. pc'[d] \notin Fresh
  BY <1>2, <1>4 DEF Fresh
<1> QED
  BY <1>6, <1>7, <1>8, <1>9, <1>10, <1>11, ServesRight

LEMMA RestartRight ==
  ASSUME HostInv, NEW d \in Monitor, Restart(d)
  PROVE  HostInv'
<1>1. StageRight(d) /\ HeldRight(d) /\ LeaksRight(d) /\ UserRight(d) /\ RebootsRight(d) /\ RefsRight(d)
  BY AtDaemon
<1>2. PICK failing \in {"none", "ram"} \union Enabled :
        /\ Reset(d, failing)
        /\ \/ Goto(d, "start") /\ failing = "none"
           \/ Goto(d, "kill")
  BY DEF Restart
<1>3. /\ pc[d] = "restart" /\ power' = [power EXCEPT ![d] = FALSE] /\ power'[d] = FALSE
      /\ reboots' = [reboots EXCEPT ![d] = reboots[d] + 1] /\ reboots'[d] = reboots[d] + 1
      /\ user' = user /\ nextReboot' = nextReboot /\ stop' = stop /\ cutShort' = cutShort
      /\ joined' = joined
  BY Functions DEF Restart
<1> DEFINE h == CASE failing = "ram" -> held[d] \ {"ram"}
                  [] failing \in Enabled ->
                       ((held[d] \ Devices) \union (Before(Device, failing) \intersect Enabled))
                         \ (ConfigUndo[failing] \union {"ram"})
                  [] OTHER -> ((held[d] \ Devices) \union {"ram"}) \union Enabled
<1>4. held' = [held EXCEPT ![d] = h]
  BY <1>2 DEF Reset
<1>5. kernel[d] = "idle" /\ monState[d] = "TERMINATED" /\ Base \subseteq held[d] /\ armed[d] = FALSE
      /\ Handles \subseteq user[d] /\ cutShort[d] = "no" /\ d \in listed
  <2>1. kernel[d] = "idle" /\ monState[d] = "TERMINATED"
    BY <1>1, <1>3 DEF StageRight
  <2>2. Base \subseteq held[d]
    BY <1>1, <2>1 DEF HeldRight, Gone
  <2>3. armed[d] = FALSE
    BY <1>1, <2>1, AtDaemon DEF StageRight
  <2>4. Handles \subseteq user[d] /\ cutShort[d] = "no"
    BY <1>1, <1>3 DEF UserRight
  <2>5. d \in listed
    BY <1>1, <2>1, <2>4 DEF RefsRight, Gone, Handles
  <2> QED
    BY <2>1, <2>2, <2>3, <2>4, <2>5
<1>6. h \in SUBSET Resource /\ Base \subseteq h
  <2>1. held[d] \subseteq Resource
    BY AtDaemon
  <2>2. CASE failing = "ram"
    BY <1>5, <2>1, <2>2, DevicesAre
  <2>3. CASE failing \in Enabled /\ failing # "ram"
    <3> DEFINE undone == ConfigUndo[failing] \union {"ram"}
               before == Before(Device, failing) \intersect Enabled
    <3>1. undone \intersect Base = {} /\ before \subseteq Resource
      BY <2>3, DevicesAre
    <3>2. h = ((held[d] \ Devices) \union before) \ undone
      BY <2>3
    <3> HIDE DEF h, undone, before
    <3> QED
      BY <1>5, <2>1, <3>1, <3>2, DevicesAre
  <2>4. CASE failing = "none"
    <3>1. "none" \notin Enabled
      BY EnabledFact
    <3>2. h = ((held[d] \ Devices) \union {"ram"}) \union Enabled
      BY <2>4, <3>1
    <3> HIDE DEF h
    <3> QED
      BY <1>5, <2>1, <3>2, DevicesAre
  <2> QED
    BY <1>2, <2>2, <2>3, <2>4
<1> HIDE DEF h
<1>7. /\ held'[d] = h
      /\ monState'[d] = (IF failing = "none" THEN "INITIALIZED" ELSE "EMPTY")
      /\ monState' = [monState EXCEPT ![d] = monState'[d]]
      /\ listed' = listed \/ (listed' = listed \union {d} /\ d \in listed)
      /\ UNCHANGED <<armed, countVars, kernel, leaked, wild, memoryVars>>
  BY <1>2, <1>4, <1>5, Functions DEF Reset
<1>8. /\ pc' = [pc EXCEPT ![d] = pc'[d]]
      /\ (pc'[d] = "start" /\ failing = "none") \/ pc'[d] = "kill"
  BY <1>2, Functions DEF Goto
<1>9. reboots[d] \in Nat /\ MaxReboots[d] \in Nat /\ reboots[d] <= MaxReboots[d]
      /\ (stop[d] # "sent" => reboots[d] < MaxReboots[d])
  <2>1. reboots[d] \in Nat /\ MaxReboots[d] \in Nat
    BY AtDaemon
  <2>2. /\ power[d] => stop[d] = "sent" /\ reboots[d] <= MaxReboots[d]
        /\ power[d] \/ reboots[d] < MaxReboots[d]
    BY <1>1, <1>3 DEF RebootsRight
  <2> QED
    BY <2>1, <2>2
<1>10. Serves(d)
  <2>1. monState'[d] \in States \ Gone
    BY <1>7 DEF States, Gone
  <2>2. pc'[d] \in Points
    BY <1>8 DEF Points
  <2>3. /\ armed' = [armed EXCEPT ![d] = armed'[d]] /\ armed'[d] \in BOOLEAN
        /\ leaked' = [leaked EXCEPT ![d] = leaked'[d]] /\ leaked'[d] \in SUBSET Lost
        /\ cutShort' = [cutShort EXCEPT ![d] = cutShort'[d]]
        /\ cutShort'[d] \in {"no", "start failed", "crash"}
    BY <1>3, <1>7, AtDaemon, Functions
  <2>4. held' = [held EXCEPT ![d] = held'[d]] /\ held'[d] \in SUBSET Resource /\ Base \subseteq held'[d]
    BY <1>4, <1>6, <1>7
  <2>5. /\ power' = [power EXCEPT ![d] = power'[d]] /\ power'[d] \in BOOLEAN
        /\ reboots' = [reboots EXCEPT ![d] = reboots'[d]]
    BY <1>3
  <2>6. reboots'[d] \in Nat /\ reboots'[d] <= MaxReboots[d] + 1
    BY <1>3, <1>9
  <2>7. pc[d] \in {"start", "run", "restart"} /\ pc'[d] \notin Unlaunched
    BY <1>3, <1>8 DEF Unlaunched
  <2> QED
    BY <1>3, <1>5, <1>7, <1>8, <2>1, <2>2, <2>3, <2>4, <2>5, <2>6, <2>7 DEF Serves, Gone
<1>11. StageRight(d)'
  <2>1. armed'[d] = FALSE /\ kernel'[d] = "idle"
    BY <1>5, <1>7
  <2> QED
    BY <1>7, <1>8, <2>1 DEF StageRight, Creating, Ending, Gone
<1>12. reboots'[d] > 0
  BY <1>3, <1>9
<1>13. LeaksRight(d)'
  BY <1>1, <1>7, <1>12 DEF LeaksRight
<1>14. UserRight(d)'
  BY <1>3, <1>5, <1>8 DEF UserRight
<1>15. RebootsRight(d)'
  BY <1>3, <1>8, <1>9 DEF RebootsRight
<1> QED
  BY <1>10, <1>11, <1>12, <1>13, <1>14, <1>15, ServesRight

-----------------------------------------------------------------------------
LEMMA HostStart ==
  ASSUME LifecycleInit, NEW present \in SUBSET Monitor, DaemonsStart(present)
  PROVE  HostInv
<1>1. HostTypeOK
  <2>1. LifecycleTypeOK
    BY DEF LifecycleInit, LifecycleTypeOK
  <2> QED
    BY <2>1, DaemonAssumption DEF DaemonsStart, HostTypeOK
<1>2. ASSUME NEW m \in Monitor PROVE OneRight(m)
  <2>1. /\ monState[m] = "NONE" /\ held[m] = {} /\ armed[m] = FALSE /\ refcount[m] = 0 /\ listed = {}
        /\ kernel[m] = "idle" /\ leaked[m] = {} /\ wild[m] = {}
        /\ user[m] = {} /\ stop[m] = "none" /\ power[m] = FALSE /\ reboots[m] = 0
        /\ cutShort[m] = "no" /\ pc[m] \in {"begin", "exited"}
    BY DEF LifecycleInit, DaemonsStart
  <2>2. (\A o \in Opener : closing[m][o] = 0) /\ \A c \in Child : joined[m][c] = "no"
    BY DEF LifecycleInit, DaemonsStart
  <2>3. StageRight(m)
    BY <2>1 DEF StageRight, Creating, Ending, Handles
  <2>4. RefsRight(m)
    <3>1. Openers(m) = {}
      BY <2>2 DEF Openers
    <3> QED
      BY <2>1, <3>1 DEF RefsRight, Gone, Ending
  <2>5. HeldRight(m)
    BY <2>1 DEF HeldRight, Gone, Creating
  <2>6. LeaksRight(m)
    BY <2>1 DEF LeaksRight
  <2>7. UserRight(m)
    BY <2>1 DEF UserRight
  <2>8. RebootsRight(m)
    BY <2>1, DaemonAssumption DEF RebootsRight
  <2>9. JoinRight(m)
    BY <2>2 DEF JoinRight, Opener
  <2> QED
    BY <2>3, <2>4, <2>5, <2>6, <2>7, <2>8, <2>9 DEF OneRight
<1> QED
  BY <1>1, <1>2 DEF HostInv

LEMMA HostStep == HostInv /\ [HostNext]_<<lifecycleVars, daemonVars>> => HostInv'
<1> SUFFICES ASSUME HostInv, [HostNext]_<<lifecycleVars, daemonVars>> PROVE HostInv'
  OBVIOUS
<1>1. CASE UNCHANGED <<lifecycleVars, daemonVars>>
  <2>1. HostTypeOK'
    BY <1>1 DEF HostInv, HostTypeOK, LifecycleTypeOK, lifecycleVars, daemonVars
  <2>2. ASSUME NEW m \in Monitor PROVE OneRight(m)'
    <3>1. Kept(m)
      BY <1>1 DEF Kept, lifecycleVars, daemonVars
    <3> QED
      BY <3>1, KeptRight DEF HostInv
  <2> QED
    BY <2>1, <2>2 DEF HostInv
<1>2. ASSUME NEW d \in Monitor, GuestStep(d) PROVE HostInv'
  BY <1>2, RunGuestRight, RunFailsRight, GuestEndsRight DEF GuestStep
<1>3. ASSUME NEW d \in Monitor, StopFlags(d) \/ StopSends(d) PROVE HostInv'
  BY <1>3, StopFlagsRight, StopSendsRight
<1>4. ASSUME NEW d \in Monitor, MainStep(d) PROVE HostInv'
  <2>1. CASE LoadImage(d) \/ OpenManager(d) \/ CreateMonitor(d) \/ CreateReturns(d) \/ LoadGuest(d)
               \/ OpenMessages(d) \/ Launch(d) \/ StartGuest(d)
    BY <2>1, LoadImageRight, OpenManagerRight, CreateMonitorRight, CreateReturnsRight, LoadGuestRight,
       OpenMessagesRight, LaunchRight, StartGuestRight
  <2>2. CASE RestartOrEnd(d) \/ Restart(d) \/ CloseMessages(d) \/ RemovePidfile(d) \/ EndMonitor(d) \/ Exit(d)
    BY <1>4, <2>2, RestartOrEndRight, RestartRight, CloseMessagesRight, RemovePidfileRight, EndMonitorRight,
       ExitRight
  <2>3. CASE \E handle \in {"manager", "messages"} : ExitCloses(d, handle)
    BY <1>4, <2>3, ExitClosesRight DEF MainStep
  <2>4. CASE CreateContinues(d)
    BY <2>4, LoadsUsedRight, CreateAddsUsedRight, CreateDoneRight, CreateFailsLateRight, GoneRight
       DEF CreateContinues
  <2>5. CASE DestroyContinues(d)
    BY <2>5, LoadsUsedRight, GoneRight DEF DestroyContinues
  <2>6. CASE RefdownContinues(d)
    <3>1. ~miscounted[d] /\ "daemon" \in Opener
      BY <1>4 DEF MainStep, Opener
    <3> QED
      BY <2>6, <3>1, RefdownWritesRight DEF RefdownContinues
  <2> QED
    BY <1>4, <2>1, <2>2, <2>3, <2>4, <2>5, <2>6 DEF MainStep
<1>5. ASSUME NEW d \in Monitor, ChildStep(d) PROVE HostInv'
  <2>1. PICK c \in Child : ChildAttaches(d, c) \/ ChildCloses(d, c) \/ ChildRefdown(d, c)
    BY <1>5 DEF ChildStep
  <2>2. ~miscounted[d] /\ c \in Opener
    BY <1>5 DEF ChildStep, Opener
  <2>3. CASE ChildRefdown(d, c)
    BY <2>2, <2>3, RefdownWritesRight DEF ChildRefdown
  <2> QED
    BY <2>1, <2>3, ChildAttachesRight, ChildClosesRight
<1> QED
  BY <1>1, <1>2, <1>3, <1>4, <1>5 DEF HostNext

-----------------------------------------------------------------------------
(* hostmem_used *)

(* The law of the sum of memory sizes. *)
TotalsAdd ==
  /\ TotalMemory({}) = 0
  /\ \A S \in SUBSET Monitor : TotalMemory(S) \in Nat
  /\ \A S \in SUBSET Monitor : \A m \in Monitor \ S :
       TotalMemory(S \union {m}) = TotalMemory(S) + memory_size(m)

(* The memory of a set of monitors as a sum over a function. *)
MemoryOf == [m \in Monitor |-> memory_size(m)]

LEMMA TotalIs ==
  ASSUME NEW S \in SUBSET Monitor
  PROVE  MemoryOf \in [Monitor -> Nat] /\ TotalMemory(S) = SumOf(MemoryOf, S)
<1>1. MemoryOf \in [Monitor -> Nat]
  BY MemorySize DEF MemoryOf
<1> DEFINE Folds(iter, s) == IF s = {} THEN 0 ELSE memory_size(FirstOf(s)) + iter[s \ {FirstOf(s)}]
           Is(iter) == iter = [s \in SUBSET S |-> Folds(iter, s)]
<1>2. TotalMemory(S) = (CHOOSE iter : Is(iter))[S]
  BY DEF TotalMemory, MapThenSumSet, MapThenFoldSet, FirstOf
<1>3. ASSUME NEW iter, NEW s \in SUBSET S PROVE Folds(iter, s) = Summed(MemoryOf, iter, s)
  <2>1. s # {} => FirstOf(s) \in Monitor
    BY DEF FirstOf
  <2> QED
    BY <2>1 DEF Summed, MemoryOf
<1>4. ASSUME NEW iter PROVE Is(iter) <=> SumsTo(MemoryOf, iter, S)
  BY <1>3 DEF SumsTo
<1> HIDE DEF Is
<1>5. IsFiniteSet(Monitor)
  BY LifecycleAssumption
<1>6. /\ \E iter : SumsTo(MemoryOf, iter, S)
      /\ \A iter : SumsTo(MemoryOf, iter, S) => iter[S] = SumOf(MemoryOf, S)
  BY <1>1, <1>5, SumSolved
<1>7. PICK iter : Is(iter) /\ iter = CHOOSE i : Is(i)
  BY <1>4, <1>6
<1>8. iter[S] = SumOf(MemoryOf, S)
  BY <1>4, <1>6, <1>7
<1> QED
  BY <1>1, <1>2, <1>7, <1>8

(* Which monitor is added first makes no difference. *)
LEMMA SumsAdd == TotalsAdd
<1>1. MemoryOf \in [Monitor -> Nat] /\ \A S \in SUBSET Monitor : TotalMemory(S) = SumOf(MemoryOf, S)
  <2>1. {} \in SUBSET Monitor
    OBVIOUS
  <2> QED
    BY <2>1, TotalIs
<1>2. IsFiniteSet(Monitor)
  BY LifecycleAssumption
<1>3. /\ SumOf(MemoryOf, {}) = 0
      /\ \A S \in SUBSET Monitor : SumOf(MemoryOf, S) \in Nat
      /\ \A S \in SUBSET Monitor : \A m \in Monitor \ S :
           SumOf(MemoryOf, S \union {m}) = SumOf(MemoryOf, S) + MemoryOf[m]
  BY <1>1, <1>2, SumAdds
<1>4. {} \in SUBSET Monitor /\ \A S \in SUBSET Monitor : \A m \in Monitor \ S : S \union {m} \in SUBSET Monitor
  OBVIOUS
<1>5. \A m \in Monitor : MemoryOf[m] = memory_size(m)
  BY DEF MemoryOf
<1> QED
  BY <1>1, <1>3, <1>4, <1>5 DEF TotalsAdd

(* The monitors whose memory is counted, by their stage. *)
OnBooks(m) ==
  \/ kernel[m] \in {"counted", "failed", "revert", "destroy", "release"}
  \/ kernel[m] = "idle" /\ monState[m] \notin Gone
Booked == {m \in Monitor : OnBooks(m)}

MemoryInv ==
  /\ MemoryRight
  /\ "lost update" \notin raced => hostmem_used = TotalMemory(Booked)
  /\ raced = {} => hostmem_used <= hostmem_usage_limit

LEMMA BookedIsCounted == HostInv => Booked = {m \in Monitor : Counted(m)}
<1> SUFFICES ASSUME HostInv, NEW m \in Monitor PROVE OnBooks(m) <=> Counted(m)
  BY DEF Booked
<1>1. HeldRight(m) /\ monState[m] \in States
  BY AtDaemon
<1>2. kernel[m] = "idle" => (Live(m) <=> monState[m] \notin Gone)
  <2>1. "monitor" \in Base
    BY DEF Base
  <2> QED
    BY <1>1, <2>1 DEF HeldRight, Live
<1> QED
  BY <1>2 DEF OnBooks, Counted

LEMMA BooksAccounted == HostInv /\ MemoryInv => HostmemAccounted
BY BookedIsCounted, Zenon DEF MemoryInv, HostmemAccounted

LEMMA LimitFact == hostmem_usage_limit \in Int
BY LifecycleAssumption DEF hostmem_usage_limit

(* A step of d's ioctl that leaves the books as they are. *)
Keeps(d) ==
  /\ UNCHANGED memoryVars
  /\ \A m \in Monitor \ {d} : kernel'[m] = kernel[m] /\ monState'[m] = monState[m]
  /\ OnBooks(d)' <=> OnBooks(d)
  /\ kernel'[d] \in {"add", "revert", "release"} => kernel'[d] = kernel[d]
  /\ kernel'[d] = "checked" =>
       kernel[d] = "checked" \/ hostmem_used + memory_size(d) <= hostmem_usage_limit

LEMMA KeepsAccounted ==
  ASSUME HostInv, MemoryInv, NEW d \in Monitor, Keeps(d)
  PROVE  MemoryInv'
<1>1. hostmem_used' = hostmem_used /\ loaded' = loaded /\ raced' = raced
  BY DEF Keeps, memoryVars
<1>2. Booked' = Booked
  <2>1. \A m \in Monitor : OnBooks(m)' <=> OnBooks(m)
    BY DEF Keeps, OnBooks
  <2> QED
    BY <2>1 DEF Booked
<1>3. MemoryRight'
  <2>1. ASSUME "lost update" \notin raced, NEW m \in Monitor, kernel'[m] \in {"add", "revert", "release"}
        PROVE  loaded'[m] = hostmem_used'
    <3>1. kernel'[m] = kernel[m]
      BY <2>1 DEF Keeps
    <3> QED
      BY <1>1, <2>1, <3>1 DEF MemoryInv, MemoryRight
  <2>2. ASSUME raced = {}, NEW m \in Monitor, kernel'[m] \in {"checked", "add"}
        PROVE  hostmem_used' + memory_size(m) <= hostmem_usage_limit
    <3>1. kernel[m] \in {"checked", "add"} \/ hostmem_used + memory_size(m) <= hostmem_usage_limit
      BY <2>2 DEF Keeps
    <3> QED
      BY <1>1, <2>2, <3>1 DEF MemoryInv, MemoryRight
  <2> QED
    BY <1>1, <2>1, <2>2 DEF MemoryRight
<1> QED
  BY <1>1, <1>2, <1>3 DEF MemoryInv

LEMMA LifeKeeps ==
  ASSUME NEW d \in Monitor, UNCHANGED lifecycleVars
  PROVE  Keeps(d)
BY DEF Keeps, lifecycleVars, memoryVars, OnBooks

(* What the ioctls that do not touch hostmem_used do. *)
LEMMA IoctlKeeps ==
  ASSUME HostInv, NEW d \in Monitor,
         \/ \E registered, step : CreateChecked(d, registered) \/ CreateFailsEarly(d, step, registered)
         \/ CreateDone(d) \/ \E step : CreateFailsLate(d, step)
         \/ \E outcome : Start(d, outcome)
         \/ Run(d) \/ Terminate(d) \/ Attach(d)
         \/ (\E failing : Reset(d, failing)) /\ kernel[d] = "idle" /\ monState[d] \notin Gone
         \/ \E o, owner : RefdownReads(d, o, owner)
         \/ \E o \in Opener : RefdownWrites(d, o)
  PROVE  Keeps(d)
<1>1. kernel \in [Monitor -> Kernels] /\ monState \in [Monitor -> States]
  BY Functions
<1>3. ASSUME NEW registered, NEW step, CreateChecked(d, registered) \/ CreateFailsEarly(d, step, registered)
      PROVE  Keeps(d)
  <2>1. CASE CreateChecked(d, registered)
    BY <1>1, <2>1 DEF CreateChecked, Keeps, OnBooks, Gone
  <2>2. CASE CreateFailsEarly(d, step, registered)
    BY <1>1, <2>2 DEF CreateFailsEarly, Keeps, OnBooks, Gone
  <2> QED
    BY <1>3, <2>1, <2>2
<1>4. CASE CreateDone(d)
  BY <1>1, <1>4 DEF CreateDone, Keeps, OnBooks, Gone
<1>5. ASSUME NEW step, CreateFailsLate(d, step) PROVE Keeps(d)
  BY <1>1, <1>5 DEF CreateFailsLate, Keeps, OnBooks
<1>6. ASSUME NEW outcome, Start(d, outcome) PROVE Keeps(d)
  <2>1. /\ UNCHANGED memoryVars /\ kernel' = kernel /\ monState[d] = "INITIALIZED"
        /\ monState' = [monState EXCEPT ![d] = IF outcome = "ok" THEN "STARTED" ELSE @]
    BY <1>6 DEF Start
  <2> QED
    BY <1>1, <2>1 DEF Keeps, OnBooks, Gone
<1>7. CASE Run(d) \/ Terminate(d) \/ Attach(d)
  <2>1. CASE Run(d)
    BY <1>1, <2>1 DEF Run, Keeps, OnBooks, Gone
  <2>2. CASE Terminate(d)
    BY <1>1, <2>2 DEF Terminate, Keeps, OnBooks, Gone
  <2>3. CASE Attach(d)
    BY <2>3 DEF Attach, Keeps, OnBooks
  <2> QED
    BY <1>7, <2>1, <2>2, <2>3
<1>8. ASSUME NEW failing, Reset(d, failing), kernel[d] = "idle", monState[d] \notin Gone PROVE Keeps(d)
  <2>1. /\ UNCHANGED memoryVars /\ kernel' = kernel
        /\ monState' = [monState EXCEPT ![d] = IF failing = "none" THEN "INITIALIZED" ELSE "EMPTY"]
    BY <1>8 DEF Reset
  <2> QED
    BY <1>1, <1>8, <2>1 DEF Keeps, OnBooks, Gone
<1>9. ASSUME NEW o, NEW owner, RefdownReads(d, o, owner) PROVE Keeps(d)
  BY <1>9 DEF RefdownReads, Keeps, OnBooks
<1>10. ASSUME NEW o \in Opener, RefdownWrites(d, o) PROVE Keeps(d)
  <2>1. /\ UNCHANGED memoryVars /\ monState' = monState /\ closing[d][o] > 0 /\ kernel[d] = "idle"
        /\ kernel' = [kernel EXCEPT ![d] = "destroy"] \/ kernel' = kernel
    BY <1>10 DEF RefdownWrites
  <2>2. monState[d] \notin Gone
    <3>1. o \in Openers(d)
      BY <2>1 DEF Openers
    <3> QED
      BY <2>1, <3>1, Referenced
  <2> QED
    BY <1>1, <2>1, <2>2 DEF Keeps, OnBooks
<1> QED
  BY <1>3, <1>4, <1>5, <1>6, <1>7, <1>8, <1>9, <1>10

LEMMA LoadsAccounted ==
  ASSUME HostInv, MemoryInv, NEW d \in Monitor,
         CreateLoadsUsed(d) \/ RevertLoadsUsed(d) \/ DestroyLoadsUsed(d)
  PROVE  MemoryInv'
<1>1. PICK next \in {"add", "revert", "release"} :
        /\ LoadUsed(d, next) /\ UNCHANGED monitorVars
        /\ \/ kernel[d] = "checked" /\ next = "add"
           \/ kernel[d] = "failed" /\ next = "revert"
           \/ kernel[d] = "destroy" /\ next = "release"
  <2>1. CASE CreateLoadsUsed(d)
    BY <2>1 DEF CreateLoadsUsed
  <2>2. CASE RevertLoadsUsed(d)
    BY <2>2 DEF RevertLoadsUsed
  <2>3. CASE DestroyLoadsUsed(d)
    BY <2>3 DEF DestroyLoadsUsed
  <2> QED
    BY <2>1, <2>2, <2>3
<1>2. /\ hostmem_used' = hostmem_used /\ raced' = raced /\ monState' = monState
      /\ loaded'[d] = hostmem_used /\ kernel'[d] = next
      /\ \A m \in Monitor \ {d} : loaded'[m] = loaded[m] /\ kernel'[m] = kernel[m]
  BY <1>1, Functions DEF LoadUsed, monitorVars
<1>3. Booked' = Booked
  <2>1. \A m \in Monitor : OnBooks(m)' <=> OnBooks(m)
    BY <1>1, <1>2 DEF OnBooks
  <2> QED
    BY <2>1 DEF Booked
<1>4. MemoryRight'
  <2>1. ASSUME "lost update" \notin raced, NEW m \in Monitor, kernel'[m] \in {"add", "revert", "release"}
        PROVE  loaded'[m] = hostmem_used'
    BY <1>2, <2>1 DEF MemoryInv, MemoryRight
  <2>2. ASSUME raced = {}, NEW m \in Monitor, kernel'[m] \in {"checked", "add"}
        PROVE  hostmem_used' + memory_size(m) <= hostmem_usage_limit
    <3>1. kernel[m] \in {"checked", "add"}
      BY <1>1, <1>2, <2>2
    <3> QED
      BY <1>2, <2>2, <3>1 DEF MemoryInv, MemoryRight
  <2> QED
    BY <1>2, <2>1, <2>2 DEF MemoryRight
<1> QED
  BY <1>2, <1>3, <1>4 DEF MemoryInv

(* A store, by its amount: what the history then says of the others. *)
LEMMA StoreFacts ==
  ASSUME HostInv, MemoryInv, NEW d \in Monitor, NEW delta \in Int, StoreUsed(d, delta),
         kernel[d] \in {"add", "revert", "release"}
  PROVE  /\ "lost update" \notin raced' =>
              /\ "lost update" \notin raced /\ hostmem_used' = hostmem_used + delta
              /\ \A m \in Monitor \ {d} : kernel[m] \notin {"add", "revert", "release"}
         /\ raced' = {} => /\ raced = {} /\ hostmem_used' = hostmem_used + delta
                           /\ delta > 0 => \A m \in Monitor \ {d} : kernel[m] \notin {"checked", "add"}
<1>1. /\ hostmem_used' = loaded[d] + delta
      /\ raced' = raced
           \union (IF \E n \in Monitor \ {d} : kernel[n] \in {"add", "revert", "release"}
                   THEN {"lost update"} ELSE {})
           \union (IF delta > 0 /\ \E n \in Monitor \ {d} : kernel[n] \in {"checked", "add"}
                   THEN {"stale check"} ELSE {})
  BY DEF StoreUsed
<1>2. "lost update" \notin raced => loaded[d] = hostmem_used
  BY DEF MemoryInv, MemoryRight
<1>3. "lost update" \notin raced' =>
        /\ "lost update" \notin raced
        /\ \A m \in Monitor \ {d} : kernel[m] \notin {"add", "revert", "release"}
  BY <1>1
<1>4. raced' = {} =>
        raced = {} /\ (delta > 0 => \A m \in Monitor \ {d} : kernel[m] \notin {"checked", "add"})
  <2> SUFFICES ASSUME raced' = {}
               PROVE  raced = {} /\ (delta > 0 => \A m \in Monitor \ {d} : kernel[m] \notin {"checked", "add"})
    OBVIOUS
  <2>1. raced = {} /\ "stale check" \notin raced'
    BY <1>1
  <2>2. ~(delta > 0 /\ \E n \in Monitor \ {d} : kernel[n] \in {"checked", "add"})
    BY <1>1, <2>1
  <2> QED
    BY <2>1, <2>2
<1> QED
  BY <1>1, <1>2, <1>3, <1>4

LEMMA AddsAccounted ==
  ASSUME TotalsAdd, HostInv, MemoryInv, NEW d \in Monitor, CreateAddsUsed(d)
  PROVE  MemoryInv'
<1> DEFINE size == memory_size(d)
<1>1. size \in Nat /\ size > 0 /\ hostmem_used \in Int
  BY MemorySize, AtDaemon
<1>2. kernel[d] = "add" /\ StoreUsed(d, size) /\ kernel' = [kernel EXCEPT ![d] = "counted"] /\ monState' = monState
  BY DEF CreateAddsUsed, monitorVars
<1> HIDE DEF size
<1>3. kernel'[d] = "counted" /\ \A m \in Monitor \ {d} : kernel'[m] = kernel[m]
  BY <1>2, Functions
<1>4. /\ "lost update" \notin raced' =>
           /\ "lost update" \notin raced /\ hostmem_used' = hostmem_used + size
           /\ \A m \in Monitor \ {d} : kernel[m] \notin {"add", "revert", "release"}
      /\ raced' = {} => /\ raced = {} /\ hostmem_used' = hostmem_used + size
                        /\ \A m \in Monitor \ {d} : kernel[m] \notin {"checked", "add"}
  <2>1. size \in Int /\ kernel[d] \in {"add", "revert", "release"}
    BY <1>1, <1>2
  <2>2. /\ "lost update" \notin raced' =>
             /\ "lost update" \notin raced /\ hostmem_used' = hostmem_used + size
             /\ \A m \in Monitor \ {d} : kernel[m] \notin {"add", "revert", "release"}
        /\ raced' = {} => /\ raced = {} /\ hostmem_used' = hostmem_used + size
                          /\ size > 0 => \A m \in Monitor \ {d} : kernel[m] \notin {"checked", "add"}
    BY <1>2, <2>1, StoreFacts
  <2> QED
    BY <1>1, <2>2
<1>5. Booked' = Booked \union {d} /\ d \notin Booked /\ Booked \subseteq Monitor
  <2>1. \A m \in Monitor \ {d} : OnBooks(m)' <=> OnBooks(m)
    BY <1>2, <1>3 DEF OnBooks
  <2>2. OnBooks(d)' /\ ~OnBooks(d)
    BY <1>2, <1>3 DEF OnBooks
  <2> QED
    BY <2>1, <2>2 DEF Booked
<1>6. TotalMemory(Booked') = TotalMemory(Booked) + size
  <2>1. TotalMemory(Booked \union {d}) = TotalMemory(Booked) + size
    BY <1>5 DEF TotalsAdd, size
  <2> QED
    BY <1>5, <2>1
<1>7. MemoryRight'
  <2>1. ASSUME "lost update" \notin raced', NEW m \in Monitor, kernel'[m] \in {"add", "revert", "release"}
        PROVE  FALSE
    BY <1>3, <1>4, <2>1
  <2>2. ASSUME raced' = {}, NEW m \in Monitor, kernel'[m] \in {"checked", "add"}
        PROVE  FALSE
    BY <1>3, <1>4, <2>2
  <2> QED
    BY <2>1, <2>2 DEF MemoryRight
<1>8. "lost update" \notin raced' => hostmem_used' = TotalMemory(Booked')
  BY <1>4, <1>6 DEF MemoryInv
<1>9. raced' = {} => hostmem_used' <= hostmem_usage_limit
  <2>1. raced = {} => hostmem_used + size <= hostmem_usage_limit
    BY <1>2 DEF MemoryInv, MemoryRight, size
  <2> QED
    BY <1>4, <2>1
<1> QED
  BY <1>7, <1>8, <1>9 DEF MemoryInv

LEMMA GoneAccounted ==
  ASSUME TotalsAdd, HostInv, MemoryInv, NEW d \in Monitor, RevertUsed(d) \/ Destroyed(d)
  PROVE  MemoryInv'
<1> DEFINE size == memory_size(d)
           less == -memory_size(d)
<1>1. size \in Int /\ hostmem_used \in Int /\ less \in Int /\ less <= 0 /\ less + size = 0
  <2>1. memory_size(d) \in Nat /\ hostmem_used \in Int
    BY MemorySize, AtDaemon
  <2> QED
    BY <2>1
<1>2. /\ kernel[d] \in {"revert", "release"} /\ StoreUsed(d, less)
      /\ kernel' = [kernel EXCEPT ![d] = "idle"] /\ monState' = [monState EXCEPT ![d] = "FREED"]
  BY DEF RevertUsed, Destroyed, Reverted
<1> HIDE DEF size, less
<1>3. /\ kernel'[d] = "idle" /\ monState'[d] = "FREED"
      /\ \A m \in Monitor \ {d} : kernel'[m] = kernel[m] /\ monState'[m] = monState[m]
  BY <1>2, Functions
<1>4. /\ "lost update" \notin raced' =>
           /\ "lost update" \notin raced /\ hostmem_used' = hostmem_used + less
           /\ \A m \in Monitor \ {d} : kernel[m] \notin {"add", "revert", "release"}
      /\ raced' = {} => raced = {} /\ hostmem_used' = hostmem_used + less
  BY <1>1, <1>2, StoreFacts
<1>5. Booked' = Booked \ {d} /\ d \in Booked /\ Booked \subseteq Monitor
  <2>1. \A m \in Monitor \ {d} : OnBooks(m)' <=> OnBooks(m)
    BY <1>3 DEF OnBooks
  <2>2. ~OnBooks(d)' /\ OnBooks(d)
    BY <1>2, <1>3 DEF OnBooks, Gone
  <2> QED
    BY <2>1, <2>2 DEF Booked
<1>6. TotalMemory(Booked) = TotalMemory(Booked') + size /\ TotalMemory(Booked') \in Nat
  <2>1. (Booked \ {d}) \union {d} = Booked
    BY <1>5
  <2>2. /\ TotalMemory((Booked \ {d}) \union {d}) = TotalMemory(Booked \ {d}) + size
        /\ TotalMemory(Booked \ {d}) \in Nat
    BY <1>5 DEF TotalsAdd, size
  <2> QED
    BY <1>5, <2>1, <2>2
<1>7. raced' = {} => hostmem_used' <= hostmem_used /\ hostmem_used' \in Int
  <2>1. raced' = {} => hostmem_used' = hostmem_used + less
    BY <1>4
  <2> QED
    BY <1>1, <2>1
<1>8. MemoryRight'
  <2>1. ASSUME "lost update" \notin raced', NEW m \in Monitor, kernel'[m] \in {"add", "revert", "release"}
        PROVE  FALSE
    BY <1>3, <1>4, <2>1
  <2>2. ASSUME raced' = {}, NEW m \in Monitor, kernel'[m] \in {"checked", "add"}
        PROVE  hostmem_used' + memory_size(m) <= hostmem_usage_limit
    <3>1. kernel[m] \in {"checked", "add"} /\ raced = {}
      BY <1>3, <1>4, <2>2
    <3>2. hostmem_used + memory_size(m) <= hostmem_usage_limit /\ memory_size(m) \in Int
      BY <3>1, MemorySize DEF MemoryInv, MemoryRight
    <3>3. hostmem_used' <= hostmem_used /\ hostmem_used' \in Int
      BY <1>7, <2>2
    <3> QED
      BY <1>1, <3>2, <3>3, LimitFact
  <2> QED
    BY <2>1, <2>2 DEF MemoryRight
<1>9. "lost update" \notin raced' => hostmem_used' = TotalMemory(Booked')
  <2>1. "lost update" \notin raced => hostmem_used = TotalMemory(Booked)
    BY DEF MemoryInv
  <2> DEFINE before == TotalMemory(Booked)
             after  == TotalMemory(Booked')
  <2>2. before = after + size /\ after \in Nat
    BY <1>6
  <2> HIDE DEF before, after
  <2>3. before + less = after
    BY <1>1, <2>2
  <2> QED
    BY <1>4, <2>1, <2>3 DEF before, after
<1>10. raced' = {} => hostmem_used' <= hostmem_usage_limit
  <2>1. raced = {} => hostmem_used <= hostmem_usage_limit
    BY DEF MemoryInv
  <2> QED
    <3>1. raced' = {} => raced = {}
      BY <1>4
    <3> QED
      BY <1>1, <1>7, <2>1, <3>1, LimitFact
<1> QED
  BY <1>8, <1>9, <1>10 DEF MemoryInv

LEMMA StepKeeps ==
  ASSUME HostInv, NEW d \in Monitor, MainStep(d) \/ GuestStep(d) \/ ChildStep(d) \/ StopFlags(d) \/ StopSends(d),
         ~CreateContinues(d), ~DestroyContinues(d)
  PROVE  Keeps(d)
<1>1. StageRight(d)
  BY AtDaemon
<1>2. CASE UNCHANGED lifecycleVars
  BY <1>2, LifeKeeps
<1>3. CASE CreateMonitor(d)
  BY <1>3, IoctlKeeps DEF CreateMonitor
<1>4. CASE LoadGuest(d)
  <2>1. CASE UNCHANGED lifecycleVars
    BY <2>1, LifeKeeps
  <2>2. CASE RefdownReads(d, "daemon", TRUE)
    BY <2>2, IoctlKeeps
  <2> QED
    BY <1>4, <2>1, <2>2 DEF LoadGuest
<1>5. CASE OpenMessages(d)
  <2>1. CASE UNCHANGED lifecycleVars
    BY <2>1, LifeKeeps
  <2>2. CASE Attach(d)
    BY <2>2, IoctlKeeps
  <2> QED
    BY <1>5, <2>1, <2>2 DEF OpenMessages
<1>6. CASE StartGuest(d)
  BY <1>6, IoctlKeeps DEF StartGuest
<1>7. CASE Restart(d)
  <2>1. kernel[d] = "idle" /\ monState[d] \notin Gone
    BY <1>1, <1>7 DEF Restart, StageRight, Gone
  <2>2. \E failing : Reset(d, failing)
    BY <1>7 DEF Restart
  <2> QED
    BY <2>1, <2>2, IoctlKeeps
<1>8. CASE CloseMessages(d) \/ EndMonitor(d)
  <2>1. \E o, owner : RefdownReads(d, o, owner)
    BY <1>8 DEF CloseMessages, EndMonitor
  <2> QED
    BY <2>1, IoctlKeeps
<1>9. ASSUME NEW handle, ExitCloses(d, handle) PROVE Keeps(d)
  <2>1. CASE UNCHANGED lifecycleVars
    BY <2>1, LifeKeeps
  <2>2. CASE RefdownReads(d, "daemon", handle = "manager")
    BY <2>2, IoctlKeeps
  <2> QED
    BY <1>9, <2>1, <2>2 DEF ExitCloses
<1>10. CASE RunGuest(d)
  BY <1>10, IoctlKeeps DEF RunGuest
<1>11. ASSUME NEW reason, GuestEnds(d, reason) PROVE Keeps(d)
  BY <1>11, IoctlKeeps DEF GuestEnds
<1>12. CASE LoadImage(d) \/ OpenManager(d) \/ CreateReturns(d) \/ Launch(d) \/ RestartOrEnd(d)
              \/ RemovePidfile(d) \/ Exit(d) \/ RunFails(d) \/ StopFlags(d) \/ StopSends(d)
  BY <1>12, LifeKeeps DEF LoadImage, OpenManager, CreateReturns, Launch, RestartOrEnd, RemovePidfile,
     Exit, RunFails, StopFlags, StopSends
<1>13. CASE RefdownContinues(d) \/ ChildStep(d)
  <2>1. (\E o \in Opener : RefdownWrites(d, o)) \/ Attach(d) \/ \E o, owner : RefdownReads(d, o, owner)
    BY <1>13 DEF RefdownContinues, ChildStep, ChildAttaches, ChildCloses, ChildRefdown, Opener
  <2> QED
    BY <2>1, IoctlKeeps
<1> QED
  BY <1>3, <1>4, <1>5, <1>6, <1>7, <1>8, <1>9, <1>10, <1>11, <1>12, <1>13 DEF MainStep, GuestStep

LEMMA MemoryStep ==
  TotalsAdd =>
    (HostInv /\ MemoryInv /\ [HostNext]_<<lifecycleVars, daemonVars>> => MemoryInv')
<1> SUFFICES ASSUME TotalsAdd, HostInv, MemoryInv, [HostNext]_<<lifecycleVars, daemonVars>>
             PROVE  MemoryInv'
  OBVIOUS
<1>1. CASE UNCHANGED <<lifecycleVars, daemonVars>>
  BY <1>1 DEF MemoryInv, MemoryRight, Booked, OnBooks, lifecycleVars
<1>2. ASSUME NEW d \in Monitor,
             MainStep(d) \/ GuestStep(d) \/ ChildStep(d) \/ StopFlags(d) \/ StopSends(d)
      PROVE  MemoryInv'
  <2>1. CASE CreateContinues(d)
    <3>1. CASE CreateDone(d) \/ \E step \in Resource : CreateFailsLate(d, step)
      BY <3>1, IoctlKeeps, KeepsAccounted
    <3> QED
      BY <2>1, <3>1, LoadsAccounted, AddsAccounted, GoneAccounted DEF CreateContinues
  <2>2. CASE DestroyContinues(d)
    BY <2>2, LoadsAccounted, GoneAccounted DEF DestroyContinues
  <2>3. CASE ~CreateContinues(d) /\ ~DestroyContinues(d)
    BY <1>2, <2>3, StepKeeps, KeepsAccounted
  <2> QED
    BY <2>1, <2>2, <2>3
<1> QED
  BY <1>1, <1>2 DEF HostNext

LEMMA MemoryStart ==
  ASSUME TotalsAdd, LifecycleInit
  PROVE  MemoryInv
<1>1. hostmem_used = 0 /\ raced = {} /\ \A m \in Monitor : kernel[m] = "idle" /\ monState[m] = "NONE"
  BY DEF LifecycleInit
<1>2. Booked = {}
  BY <1>1 DEF Booked, OnBooks, Gone
<1>3. 0 <= hostmem_usage_limit
  BY LifecycleAssumption DEF hostmem_usage_limit
<1> QED
  BY <1>1, <1>2, <1>3 DEF MemoryInv, MemoryRight, TotalsAdd

LEMMA NothingLeft == HostInv => ExitLeavesNothing
<1> SUFFICES ASSUME HostInv, NEW m \in Monitor
             PROVE  /\ armed[m] => monState[m] \in {"STARTED", "RUNNING"} /\ kernel[m] = "idle"
                    /\ ~miscounted[m] =>
                         /\ \A c \in Child : joined[m][c] = "attached" => kernel[m] = "idle" /\ Live(m)
                         /\ pc[m] = "exited" /\ Holders(m) = {} =>
                              monState[m] \in {"NONE", "FREED"} /\ held[m] = {} /\ refcount[m] = 0
                    /\ pc[m] = "exited" =>
                         /\ m \notin listed
                         /\ "executes" \in user[m] => cutShort[m] = "start failed"
                         /\ "pidfile" \in user[m] => cutShort[m] = "crash"
  BY DEF ExitLeavesNothing
<1>1. StageRight(m) /\ RefsRight(m) /\ HeldRight(m) /\ UserRight(m)
  BY AtDaemon
<1>2. armed[m] => monState[m] \in {"STARTED", "RUNNING"} /\ kernel[m] = "idle"
  BY <1>1 DEF StageRight
<1>3. ASSUME NEW c \in Child, joined[m][c] = "attached" PROVE kernel[m] = "idle" /\ Live(m)
  <2>1. c \in Openers(m)
    BY <1>3 DEF Openers
  <2>2. kernel[m] = "idle" /\ monState[m] \notin Gone
    BY <1>1, <1>3, <2>1 DEF RefsRight
  <2>3. Base \subseteq held[m] /\ "monitor" \in Base
    BY <1>1, <2>2 DEF HeldRight, Base
  <2> QED
    BY <2>2, <2>3 DEF Live
<1>4. ASSUME pc[m] = "exited", Holders(m) = {}
      PROVE  monState[m] \in {"NONE", "FREED"} /\ held[m] = {} /\ refcount[m] = 0
  <2>1. Openers(m) = {}
    BY <1>4 DEF Holders
  <2>2. kernel[m] \notin Creating /\ kernel[m] \in Kernels
    BY <1>1, <1>4, AtDaemon DEF StageRight
  <2>3. kernel[m] = "idle" /\ monState[m] \in Gone /\ refcount[m] = 0
    BY <1>1, <1>4, <2>1, <2>2 DEF RefsRight, Creating, Ending, Kernels
  <2>4. held[m] = {}
    BY <1>1, <2>3 DEF HeldRight
  <2> QED
    BY <2>3, <2>4 DEF Gone
<1>5. ASSUME pc[m] = "exited"
      PROVE  /\ m \notin listed
             /\ "executes" \in user[m] => cutShort[m] = "start failed"
             /\ "pidfile" \in user[m] => cutShort[m] = "crash"
  <2>1. "manager" \notin user[m]
    BY <1>1, <1>5 DEF StageRight, Handles
  <2> QED
    BY <1>1, <1>5, <2>1 DEF RefsRight, UserRight
<1> QED
  BY <1>2, <1>3, <1>4, <1>5

LEMMA LeaksSeen == HostInv => LeaksAreKnown
BY DEF HostInv, OneRight, LeaksRight, LeaksAreKnown

-----------------------------------------------------------------------------
(* The helpers.                                                             *)

HelperPlace == {"select", "relay", "writing", "check", "close", "open", "resume", "ended"}

(* The main thread has nothing left to pass on except while it relays; nothing is queued in
   the driver while a read is out; and only a finished read holds messages. *)
ReadsExact ==
  Alive =>
    /\ thread.at \notin {"relay", "writing"} => thread.left = <<>>
    /\ monitorRead.state = "pending" => toHelper = <<>>
    /\ monitorRead.state # "done" => monitorRead.data = <<>>

(* The receiver's flag is set from the error that stops it until it goes on, and the adapter
   is closed at most while the main thread opens it again, which it has tries left for. *)
CardExact ==
  /\ receiver = "none" <=> kind # "bridge"
  /\ suspended <=> receiver \in {"offline", "suspended", "resumed"}
  /\ kind = "bridge" /\ thread.at \notin {"open", "ended"} => adapter # "closed"
  /\ thread.at = "open" => tries < MaxTries

SequencesOK ==
  /\ toHelper \in Seq(Nat) /\ thread \in [at : HelperPlace, left : Seq(Nat)]
  /\ monitorRead \in [state : {"none", "pending", "done", "broken pipe"}, data : Seq(Nat)]

HelperInv == HelperTypeOK /\ SequencesOK /\ RelayExact /\ BridgeExact /\ ReadsExact /\ CardExact

-----------------------------------------------------------------------------
(* Numbers modulo Numbers.                                                  *)

LEMMA HelperDivMod ==
  ASSUME NEW N \in Int, N > 0, NEW x \in Int
  PROVE  /\ x \div N \in Int /\ x % N \in 0..(N - 1) /\ x = N * (x \div N) + (x % N)
<1>1. x % N \in 0..(N - 1)
  OBVIOUS
<1>2. x \div N \in Int
  OBVIOUS
<1>3. x = (x \div N) * N + (x % N)
  BY Z3
<1>4. (x \div N) * N = N * (x \div N)
  BY <1>2
<1> QED
  BY <1>1, <1>2, <1>3, <1>4

LEMMA NoMultiple ==
  ASSUME NEW N \in Int, N > 0, NEW d \in Int, -N < N * d, N * d < N
  PROVE  d = 0
<1>1. d >= 1 => N * d >= N
  OBVIOUS
<1>2. d <= -1 => N * d <= -N
  OBVIOUS
<1> QED
  BY <1>1, <1>2

LEMMA ModUnique ==
  ASSUME NEW N \in Int, N > 0, NEW x \in Int, NEW q \in Int, NEW r \in 0..(N - 1), x = N * q + r
  PROVE  x % N = r
<1> DEFINE p == x \div N
           s == x % N
<1>1. p \in Int /\ s \in 0..(N - 1) /\ x = N * p + s
  BY HelperDivMod
<1> HIDE DEF p, s
<1>2. N * (p - q) = r - s
  BY <1>1
<1>3. p - q = 0
  BY <1>1, <1>2, NoMultiple
<1> QED
  BY <1>1, <1>2, <1>3

LEMMA ModShift ==
  ASSUME NEW N \in Int, N > 0, NEW x \in Int, NEW k \in Int
  PROVE  ((x % N) + k) % N = (x + k) % N
<1> DEFINE p == x \div N
           s == x % N
           y == s + k
           t == y \div N
           u == y % N
<1>1. p \in Int /\ s \in 0..(N - 1) /\ x = N * p + s
  BY HelperDivMod
<1> HIDE DEF p, s
<1>2. y \in Int
  BY <1>1
<1> HIDE DEF y
<1>3. t \in Int /\ u \in 0..(N - 1) /\ y = N * t + u
  BY <1>2, HelperDivMod
<1> HIDE DEF t, u
<1>4. x + k = N * (p + t) + u
  BY <1>1, <1>3 DEF y
<1>5. p + t \in Int /\ x + k \in Int
  BY <1>1, <1>3
<1>6. \A z, q \in Int : z = N * q + u => z % N = u
  BY <1>3, ModUnique
<1>7. (x + k) % N = u
  BY <1>4, <1>5, <1>6
<1> QED
  BY <1>7 DEF u, y, s

LEMMA NumbersFact ==
  /\ Numbers \in Nat /\ Numbers > 0 /\ HelperLimit \in Nat /\ MaxTries \in Nat /\ MaxTries > 0
  /\ \A x \in Int : After(x) \in 0..(Numbers - 1)
  /\ \A x, k \in Int : ((x % Numbers) + k) % Numbers = (x + k) % Numbers
<1>1. /\ Numbers \in Int /\ Numbers > 0 /\ HelperLimit \in Nat /\ MaxTries \in Nat /\ MaxTries > 0
  BY HelperAssumption
<1>2. \A x \in Int : After(x) \in 0..(Numbers - 1)
  BY <1>1, HelperDivMod DEF After
<1>3. \A x, k \in Int : ((x % Numbers) + k) % Numbers = (x + k) % Numbers
  BY <1>1, ModShift
<1> QED
  BY <1>1, <1>2, <1>3

(* The messages of q are numbered from p on, and the one after them is s. *)
Numbered(q, p, s) ==
  /\ \A i \in 1..Len(q) : q[i] = (p + i - 1) % Numbers
  /\ s = (p + Len(q)) % Numbers

LEMMA NumberedAppend ==
  ASSUME NEW q \in Seq(Nat), NEW p \in Nat, NEW s \in Nat, Numbered(q, p, s)
  PROVE  Numbered(Append(q, s), p, After(s))
<1>1. /\ Len(Append(q, s)) = Len(q) + 1 /\ Append(q, s)[Len(q) + 1] = s
      /\ \A i \in 1..Len(q) : Append(q, s)[i] = q[i]
      /\ Len(q) \in Nat
  OBVIOUS
<1>2. After(s) = (p + (Len(q) + 1)) % Numbers
  <2>0. \A x \in Int : ((x % Numbers) + 1) % Numbers = (x + 1) % Numbers
    BY NumbersFact
  <2>1. (((p + Len(q)) % Numbers) + 1) % Numbers = ((p + Len(q)) + 1) % Numbers
    BY <1>1, <2>0
  <2>2. (p + Len(q)) + 1 = p + (Len(q) + 1)
    BY <1>1
  <2> QED
    BY <2>1, <2>2 DEF Numbered, After
<1>3. ASSUME NEW i \in 1..(Len(q) + 1)
      PROVE  Append(q, s)[i] = (p + i - 1) % Numbers
  <2>1. CASE i \in 1..Len(q)
    BY <1>1, <2>1 DEF Numbered
  <2>2. CASE i = Len(q) + 1
    <3>1. p + i - 1 = p + Len(q)
      BY <1>1, <2>2
    <3> QED
      BY <1>1, <2>2, <3>1 DEF Numbered
  <2> QED
    BY <1>1, <2>1, <2>2
<1> QED
  BY <1>1, <1>2, <1>3 DEF Numbered

LEMMA NumberedTail ==
  ASSUME NEW q \in Seq(Nat), q # <<>>, NEW p \in Nat, NEW s \in Nat, Numbered(q, p, s)
  PROVE  Numbered(Tail(q), After(p), s)
<1>1. /\ Len(Tail(q)) = Len(q) - 1 /\ Len(q) \in Nat /\ Len(q) > 0
      /\ \A i \in 1..(Len(q) - 1) : Tail(q)[i] = q[i + 1]
  OBVIOUS
<1>2. \A k \in Int : (After(p) + k) % Numbers = ((p + 1) + k) % Numbers
  BY NumbersFact DEF After
<1>3. s = (After(p) + (Len(q) - 1)) % Numbers
  <2>1. (p + 1) + (Len(q) - 1) = p + Len(q)
    BY <1>1
  <2> QED
    BY <1>1, <1>2, <2>1 DEF Numbered
<1>4. After(p) \in Int
  BY NumbersFact
<1>5. ASSUME NEW i \in 1..(Len(q) - 1)
      PROVE  Tail(q)[i] = (After(p) + i - 1) % Numbers
  <2>1. i + 1 \in 1..Len(q) /\ Tail(q)[i] = q[i + 1] /\ i - 1 \in Int
    BY <1>1
  <2>2. q[i + 1] = (p + (i + 1) - 1) % Numbers
    BY <2>1 DEF Numbered
  <2>3. p + (i + 1) - 1 = (p + 1) + (i - 1) /\ After(p) + i - 1 = After(p) + (i - 1)
    BY <1>4
  <2> QED
    BY <1>2, <2>1, <2>2, <2>3
<1> QED
  BY <1>1, <1>3, <1>5 DEF Numbered

LEMMA JoinedTail ==
  ASSUME NEW a \in Seq(Nat), NEW b \in Seq(Nat), a # <<>>
  PROVE  Tail(a) \o b = Tail(a \o b) /\ a \o b # <<>>
<1>1. /\ Len(a) \in Nat /\ Len(a) > 0 /\ Len(b) \in Nat
      /\ Tail(a) \in Seq(Nat) /\ Len(Tail(a)) = Len(a) - 1
      /\ \A i \in 1..(Len(a) - 1) : Tail(a)[i] = a[i + 1]
  OBVIOUS
<1>2. /\ a \o b \in Seq(Nat) /\ Len(a \o b) = Len(a) + Len(b)
      /\ \A i \in 1..(Len(a) + Len(b)) : (a \o b)[i] = IF i <= Len(a) THEN a[i] ELSE b[i - Len(a)]
  BY ConcatProperties
<1>3. a \o b # <<>>
  BY <1>1, <1>2
<1>4. /\ Tail(a \o b) \in Seq(Nat) /\ Len(Tail(a \o b)) = Len(a) + Len(b) - 1
      /\ \A i \in 1..(Len(a) + Len(b) - 1) : Tail(a \o b)[i] = (a \o b)[i + 1]
  BY <1>2, <1>3, HeadTailProperties
<1>5. /\ Tail(a) \o b \in Seq(Nat) /\ Len(Tail(a) \o b) = Len(a) + Len(b) - 1
      /\ \A i \in 1..(Len(a) + Len(b) - 1) :
           (Tail(a) \o b)[i] = IF i <= Len(a) - 1 THEN Tail(a)[i] ELSE b[i - (Len(a) - 1)]
  BY <1>1, ConcatProperties
<1>6. ASSUME NEW i \in 1..(Len(a) + Len(b) - 1)
      PROVE  (Tail(a) \o b)[i] = Tail(a \o b)[i]
  <2>1. i + 1 \in 1..(Len(a) + Len(b))
    BY <1>1
  <2>2. CASE i <= Len(a) - 1
    BY <1>1, <1>2, <1>4, <1>5, <2>1, <2>2
  <2>3. CASE ~(i <= Len(a) - 1)
    <3>1. i - (Len(a) - 1) = (i + 1) - Len(a) /\ ~(i + 1 <= Len(a))
      BY <1>1, <2>3
    <3> QED
      BY <1>2, <1>4, <1>5, <2>1, <2>3, <3>1
  <2> QED
    BY <2>2, <2>3
<1> QED
  BY <1>3, <1>4, <1>5, <1>6, SeqEqual

LEMMA JoinedAppend ==
  ASSUME NEW a \in Seq(Nat), NEW b \in Seq(Nat), NEW x \in Nat
  PROVE  a \o Append(b, x) = Append(a \o b, x)
<1>1. Append(b, x) = b \o <<x>> /\ <<x>> \in Seq(Nat) /\ a \o b \in Seq(Nat)
  BY AppendIsConcat
<1>2. Append(a \o b, x) = (a \o b) \o <<x>>
  BY <1>1, AppendIsConcat
<1>3. (a \o b) \o <<x>> = a \o (b \o <<x>>)
  BY <1>1, ConcatAssociative
<1> QED
  BY <1>1, <1>2, <1>3

-----------------------------------------------------------------------------
(* The relay.                                                               *)

(* What the invariant says of the relay, one fact at a time. *)
ReadTyped ==
  monitorRead \in [state : {"none", "pending", "done", "broken pipe"}, data : Seq(Nat)]

RelayTyped ==
  /\ toHelper \in Seq(Nat) /\ thread.left \in Seq(Nat) /\ monitorRead.data \in Seq(Nat)
  /\ passedNo \in Nat /\ sentNo \in Nat
  /\ thread.at \in HelperPlace /\ thread = [at |-> thread.at, left |-> thread.left]
  /\ monitorRead.state \in {"none", "pending", "done", "broken pipe"}

RelayGoes ==
  Alive =>
    /\ Numbered(OnTheWay, passedNo, sentNo)
    /\ guestSleeps => Overfull(toHelper)
    /\ monitorRead.state = "none" <=> thread.at \in {"relay", "writing"}
    /\ thread.at \notin {"relay", "writing"} => thread.left = <<>>
    /\ monitorRead.state = "pending" => toHelper = <<>>
    /\ monitorRead.state # "done" => monitorRead.data = <<>>

RelayFacts == RelayTyped /\ RelayGoes

LEMMA WayTyped ==
  ASSUME RelayTyped
  PROVE  thread.left \o monitorRead.data \in Seq(Nat) /\ OnTheWay \in Seq(Nat)
<1>1. thread.left \in Seq(Nat) /\ monitorRead.data \in Seq(Nat) /\ toHelper \in Seq(Nat)
  BY DEF RelayTyped
<1>2. thread.left \o monitorRead.data \in Seq(Nat)
  BY <1>1, ConcatProperties
<1> QED
  BY <1>1, <1>2, ConcatProperties DEF OnTheWay

LEMMA RelayIs ==
  ASSUME HelperInv
  PROVE  RelayFacts
<1>1. /\ toHelper \in Seq(Nat) /\ thread.left \in Seq(Nat) /\ monitorRead.data \in Seq(Nat)
      /\ thread.at \in HelperPlace /\ monitorRead.state \in {"none", "pending", "done", "broken pipe"}
      /\ thread = [at |-> thread.at, left |-> thread.left]
  BY DEF HelperInv, SequencesOK
<1>2. passedNo \in Nat /\ sentNo \in Nat
  <2>1. passedNo \in 0..(Numbers - 1) /\ sentNo \in 0..(Numbers - 1)
    BY DEF HelperInv, HelperTypeOK
  <2> QED
    BY <2>1, HelperAssumption
<1>3. RelayTyped
  BY <1>1, <1>2 DEF RelayTyped
<1>4. Alive => /\ Numbered(OnTheWay, passedNo, sentNo)
               /\ guestSleeps => Overfull(toHelper)
               /\ monitorRead.state = "none" <=> thread.at \in {"relay", "writing"}
  BY DEF HelperInv, RelayExact, Numbered
<1>5. Alive => /\ thread.at \notin {"relay", "writing"} => thread.left = <<>>
               /\ monitorRead.state = "pending" => toHelper = <<>>
               /\ monitorRead.state # "done" => monitorRead.data = <<>>
  BY DEF HelperInv, ReadsExact
<1> QED
  BY <1>3, <1>4, <1>5 DEF RelayFacts, RelayGoes

LEMMA RelayWhen ==
  ASSUME RelayFacts'
  PROVE  RelayExact' /\ ReadsExact'
BY DEF RelayFacts, RelayGoes, RelayExact, ReadsExact, Numbered

LEMMA RelaySame ==
  ASSUME RelayFacts, thread' \in [at : HelperPlace, left : Seq(Nat)], thread'.left = thread.left,
         Alive' => Alive /\ (thread'.at \in {"relay", "writing"} <=> thread.at \in {"relay", "writing"}),
         UNCHANGED <<toHelper, guestSleeps, sentNo, passedNo, monitorRead>>
  PROVE  RelayFacts'
<1>1. OnTheWay' = OnTheWay
  BY DEF OnTheWay
<1>2. thread'.at \in HelperPlace /\ thread' = [at |-> thread'.at, left |-> thread'.left]
  OBVIOUS
<1>3. RelayTyped'
  BY <1>2 DEF RelayFacts, RelayTyped
<1>4. RelayGoes'
  BY <1>1 DEF RelayFacts, RelayGoes, Numbered
<1> QED
  BY <1>3, <1>4 DEF RelayFacts

LEMMA ReadHas ==
  ASSUME NEW s \in {"none", "pending", "done", "broken pipe"}, NEW d \in Seq(Nat)
  PROVE  /\ Read(s, d).state = s /\ Read(s, d).data = d
         /\ Read(s, d) \in [state : {"none", "pending", "done", "broken pipe"}, data : Seq(Nat)]
BY DEF Read

LEMMA NothingRead == <<>> \in Seq(Nat)
OBVIOUS

LEMMA AfterNat == ASSUME NEW x \in Nat PROVE After(x) \in Nat
<1>1. After(x) \in 0..(Numbers - 1)
  BY NumbersFact
<1> QED
  BY <1>1, HelperAssumption

LEMMA RelayEnds ==
  ASSUME RelayFacts, thread' = [thread EXCEPT !.at = "ended"], toHelper' \in Seq(Nat),
         passedNo' \in Nat, sentNo' \in Nat,
         ReadTyped'
  PROVE  RelayFacts'
<1>1. /\ thread'.at = "ended" /\ thread'.left = thread.left
      /\ thread' = [at |-> thread'.at, left |-> thread'.left]
  BY DEF RelayFacts, RelayTyped
<1>2. RelayTyped'
  BY <1>1 DEF RelayFacts, RelayTyped, HelperPlace, ReadTyped
<1>3. ~Alive'
  BY <1>1 DEF Alive
<1> QED
  BY <1>2, <1>3 DEF RelayFacts, RelayGoes

LEMMA GuestSendsRelay ==
  ASSUME RelayFacts, GuestSends,
         ReadTyped
  PROVE  RelayFacts' /\ ReadTyped'
<1>0. sentNo \in Nat /\ sentNo \in Int /\ passedNo \in Nat /\ OnTheWay \in Seq(Nat)
  <2>1. RelayTyped
    BY DEF RelayFacts
  <2>2. sentNo \in Nat /\ passedNo \in Nat
    BY <2>1 DEF RelayTyped
  <2> QED
    BY <2>1, <2>2, WayTyped
<1>1. /\ Alive /\ thread' = thread /\ passedNo' = passedNo /\ sentNo' = After(sentNo)
      /\ sentNo' \in Nat
  <2>1. Alive /\ thread' = thread /\ passedNo' = passedNo /\ sentNo' = After(sentNo)
    BY DEF GuestSends
  <2>2. After(sentNo) \in Nat
    BY <1>0, NumbersFact
  <2> QED
    BY <2>1, <2>2
<1>2. CASE monitorRead.state = "pending"
  <2>1. /\ monitorRead' = Read("done", <<sentNo>>) /\ toHelper' = toHelper /\ guestSleeps' = guestSleeps
        /\ toHelper = <<>> /\ monitorRead.data = <<>> /\ thread.left = <<>>
        /\ thread.at \notin {"relay", "writing"}
    BY <1>1, <1>2 DEF GuestSends, RelayFacts, RelayGoes
  <2>2. /\ monitorRead'.state = "done" /\ monitorRead'.data = <<sentNo>>
        /\ ReadTyped'
    <3>1. <<sentNo>> \in Seq(Nat)
      BY <1>0
    <3> QED
      BY <2>1, <3>1 DEF Read, ReadTyped
  <2>3. OnTheWay = <<>> /\ OnTheWay' = <<sentNo>> /\ Append(OnTheWay, sentNo) = <<sentNo>>
    <3>1. OnTheWay = (<<>> \o <<>>) \o <<>> /\ OnTheWay' = (<<>> \o <<sentNo>>) \o <<>>
      BY <1>1, <2>1, <2>2 DEF OnTheWay
    <3>2. <<>> \in Seq(Nat) /\ <<sentNo>> \in Seq(Nat)
      BY <1>0
    <3>3. OnTheWay = <<>> /\ OnTheWay' = <<sentNo>>
      BY <3>1, <3>2, ConcatEmptySeq
    <3> QED
      BY <3>3
  <2>4. Numbered(OnTheWay, passedNo, sentNo)'
    <3>1. Numbered(Append(OnTheWay, sentNo), passedNo, After(sentNo))
      BY <1>0, <1>1, NumberedAppend DEF RelayFacts, RelayGoes
    <3> QED
      BY <1>1, <2>3, <3>1 DEF Numbered
  <2>5. RelayTyped'
    <3>1. RelayTyped
      BY DEF RelayFacts
    <3>2. monitorRead'.data \in Seq(Nat)
      BY <2>2 DEF ReadTyped
    <3> QED
      BY <1>1, <2>1, <2>2, <3>1, <3>2 DEF RelayTyped
  <2>6. RelayGoes'
    <3>1. guestSleeps => Overfull(toHelper)
      BY <1>1 DEF RelayFacts, RelayGoes
    <3>2. Overfull(toHelper') <=> Overfull(toHelper)
      BY <2>1
    <3> QED
      BY <1>1, <2>1, <2>2, <2>4, <3>1, <3>2 DEF RelayGoes
  <2> QED
    BY <2>2, <2>5, <2>6 DEF RelayFacts
<1>3. CASE monitorRead.state # "pending"
  <2>1. /\ toHelper' = Append(toHelper, sentNo) /\ guestSleeps' = Overfull(toHelper')
        /\ monitorRead' = monitorRead
    BY <1>3 DEF GuestSends
  <2>2. OnTheWay' = Append(OnTheWay, sentNo) /\ toHelper' \in Seq(Nat) /\ OnTheWay' \in Seq(Nat)
    <3>1. toHelper \in Seq(Nat) /\ thread.left \o monitorRead.data \in Seq(Nat)
      BY WayTyped DEF RelayFacts, RelayTyped
    <3>2. (thread.left \o monitorRead.data) \o Append(toHelper, sentNo)
            = Append((thread.left \o monitorRead.data) \o toHelper, sentNo)
      BY <1>0, <3>1, JoinedAppend
    <3>3. OnTheWay' = Append(OnTheWay, sentNo)
      BY <1>1, <2>1, <3>2 DEF OnTheWay
    <3> QED
      BY <1>0, <2>1, <3>1, <3>3, AppendProperties
  <2>4. Numbered(OnTheWay, passedNo, sentNo)'
    <3>1. Numbered(Append(OnTheWay, sentNo), passedNo, After(sentNo))
      BY <1>0, <1>1, NumberedAppend DEF RelayFacts, RelayGoes
    <3> QED
      BY <1>1, <2>2, <3>1 DEF Numbered
  <2>5. RelayTyped'
    BY <1>1, <2>1, <2>2 DEF RelayFacts, RelayTyped
  <2>6. RelayGoes'
    BY <1>1, <1>3, <2>1, <2>4 DEF RelayFacts, RelayGoes
  <2>7. ReadTyped'
    BY <2>1 DEF ReadTyped
  <2> QED
    BY <2>5, <2>6, <2>7 DEF RelayFacts
<1> QED
  BY <1>2, <1>3

LEMMA SelectMonitorRelay ==
  ASSUME RelayFacts, ReadTyped, SelectMonitor
  PROVE  RelayFacts' /\ ReadTyped'
<1>1. /\ thread.at = "select" /\ monitorRead' = Read("none", <<>>)
      /\ thread' = (IF monitorRead.state = "done" THEN [at |-> "relay", left |-> monitorRead.data]
                    ELSE [thread EXCEPT !.at = "ended"])
      /\ UNCHANGED <<toHelper, guestSleeps, sentNo, passedNo>>
  BY DEF SelectMonitor, driverSide
<1>2. /\ monitorRead'.state = "none" /\ monitorRead'.data = <<>> /\ ReadTyped'
  BY <1>1, ReadHas, NothingRead DEF ReadTyped
<1>3. RelayTyped
  BY DEF RelayFacts
<1>4. CASE monitorRead.state = "done"
  <2>1. /\ thread'.at = "relay" /\ thread'.left = monitorRead.data
        /\ thread' = [at |-> thread'.at, left |-> thread'.left]
    BY <1>1, <1>4
  <2>2. Alive /\ Alive'
    BY <1>1, <2>1 DEF Alive
  <2>3. thread.left = <<>>
    BY <1>1, <2>2 DEF RelayFacts, RelayGoes
  <2>4. OnTheWay' = OnTheWay
    <3>1. monitorRead.data \in Seq(Nat)
      BY <1>3 DEF RelayTyped
    <3>2. monitorRead.data \o <<>> = monitorRead.data /\ <<>> \o monitorRead.data = monitorRead.data
      BY <3>1, ConcatEmptySeq
    <3> QED
      BY <1>1, <1>2, <2>1, <2>3, <3>2 DEF OnTheWay
  <2>5. RelayTyped'
    BY <1>1, <1>2, <1>3, <2>1, NothingRead DEF RelayTyped, HelperPlace
  <2>6. RelayGoes'
    BY <1>1, <1>2, <2>1, <2>2, <2>4 DEF RelayFacts, RelayGoes, Numbered, Overfull
  <2> QED
    BY <1>2, <2>5, <2>6 DEF RelayFacts
<1>5. CASE monitorRead.state # "done"
  <2>1. /\ thread' = [thread EXCEPT !.at = "ended"] /\ toHelper' \in Seq(Nat)
        /\ passedNo' \in Nat /\ sentNo' \in Nat
    BY <1>1, <1>3, <1>5 DEF RelayTyped
  <2> QED
    BY <1>2, <2>1, RelayEnds
<1> QED
  BY <1>4, <1>5

LEMMA RelayRelay ==
  ASSUME RelayFacts, ReadTyped, Relay
  PROVE  RelayFacts' /\ ReadTyped'
<1>1. /\ thread.at = "relay" /\ thread.left # <<>>
      /\ passedNo' = (IF Whole(thread.left) THEN After(passedNo) ELSE passedNo)
      /\ thread'.at \in {"relay", "writing"} /\ thread'.left = Tail(thread.left)
      /\ thread' = [at |-> thread'.at, left |-> thread'.left]
      /\ UNCHANGED <<toHelper, guestSleeps, sentNo, monitorRead>>
  BY DEF Relay, driverSide
<1>2. RelayTyped
  BY DEF RelayFacts
<1>3. thread.left \in Seq(Nat) /\ monitorRead.data \in Seq(Nat) /\ toHelper \in Seq(Nat) /\ passedNo \in Nat
      /\ sentNo \in Nat
  BY <1>2 DEF RelayTyped
<1>4. Whole(thread.left) /\ Tail(thread.left) \in Seq(Nat)
  BY <1>1, <1>3 DEF Whole
<1>5. passedNo' = After(passedNo) /\ passedNo' \in Nat
  <2>1. After(passedNo) \in Nat
    BY <1>3, AfterNat
  <2> QED
    BY <1>1, <1>4, <2>1
<1>6. Alive /\ Alive'
  BY <1>1 DEF Alive
<1>7. OnTheWay' = Tail(OnTheWay) /\ OnTheWay # <<>>
  <2>1. /\ Tail(thread.left) \o monitorRead.data = Tail(thread.left \o monitorRead.data)
        /\ thread.left \o monitorRead.data # <<>>
    BY <1>1, <1>3, JoinedTail
  <2>2. thread.left \o monitorRead.data \in Seq(Nat)
    BY <1>2, WayTyped
  <2>3. /\ Tail(thread.left \o monitorRead.data) \o toHelper
             = Tail((thread.left \o monitorRead.data) \o toHelper)
        /\ (thread.left \o monitorRead.data) \o toHelper # <<>>
    BY <1>3, <2>1, <2>2, JoinedTail
  <2> QED
    BY <1>1, <2>1, <2>3 DEF OnTheWay
<1>8. Numbered(OnTheWay, passedNo, sentNo)'
  <2>1. Numbered(OnTheWay, passedNo, sentNo)
    BY <1>6 DEF RelayFacts, RelayGoes
  <2>2. OnTheWay \in Seq(Nat)
    BY <1>2, WayTyped
  <2>3. Numbered(Tail(OnTheWay), After(passedNo), sentNo)
    BY <1>3, <1>7, <2>1, <2>2, NumberedTail
  <2> QED
    BY <1>1, <1>5, <1>7, <2>3 DEF Numbered
<1>9. RelayTyped'
  BY <1>1, <1>2, <1>4, <1>5 DEF RelayTyped, HelperPlace
<1>10. RelayGoes'
  BY <1>1, <1>6, <1>8 DEF RelayFacts, RelayGoes, Overfull
<1> QED
  BY <1>1, <1>9, <1>10 DEF RelayFacts, ReadTyped

LEMMA ReadAgainRelay ==
  ASSUME RelayFacts, ReadTyped, ReadAgain
  PROVE  RelayFacts' /\ ReadTyped'
<1>1. thread.at = "relay" /\ thread.left = <<>> /\ UNCHANGED <<sentNo, passedNo>>
  BY DEF ReadAgain
<1>2. RelayTyped
  BY DEF RelayFacts
<1>3. toHelper \in Seq(Nat) /\ passedNo \in Nat /\ sentNo \in Nat
  BY <1>2 DEF RelayTyped
<1>4. CASE thread' = [thread EXCEPT !.at = "ended"] /\ UNCHANGED <<toHelper, guestSleeps, monitorRead>>
  BY <1>1, <1>3, <1>4, RelayEnds DEF ReadTyped
<1>5. CASE /\ monitorRead' = Read(IF toHelper = <<>> THEN "pending" ELSE "done", toHelper)
           /\ toHelper' = <<>> /\ guestSleeps' = StillSleeps(guestSleeps, toHelper')
           /\ thread' = [thread EXCEPT !.at = IF kind = "bridge" THEN "check" ELSE "select"]
  <2>1. /\ monitorRead'.state = (IF toHelper = <<>> THEN "pending" ELSE "done")
        /\ monitorRead'.data = toHelper /\ ReadTyped'
    BY <1>3, <1>5 DEF Read, ReadTyped
  <2>2. /\ thread'.at \in {"check", "select"} /\ thread'.left = thread.left
        /\ thread' = [at |-> thread'.at, left |-> thread'.left]
    BY <1>2, <1>5 DEF RelayTyped
  <2>3. Alive /\ Alive'
    BY <1>1, <2>2 DEF Alive
  <2>4. monitorRead.data = <<>>
    <3>1. monitorRead.state = "none"
      BY <1>1, <2>3 DEF RelayFacts, RelayGoes
    <3> QED
      BY <2>3, <3>1 DEF RelayFacts, RelayGoes
  <2>5. OnTheWay' = OnTheWay
    <3>1. /\ OnTheWay = (<<>> \o <<>>) \o toHelper /\ OnTheWay' = (<<>> \o toHelper) \o <<>>
      BY <1>1, <1>5, <2>1, <2>2, <2>4 DEF OnTheWay
    <3>2. <<>> \o <<>> = <<>>
      OBVIOUS
    <3>3. toHelper \o <<>> = toHelper /\ <<>> \o toHelper = toHelper
      BY <1>3, ConcatEmptySeq
    <3> QED
      BY <3>1, <3>2, <3>3
  <2>6. RelayTyped'
    BY <1>1, <1>2, <1>3, <1>5, <2>1, <2>2 DEF RelayTyped, HelperPlace
  <2>7. guestSleeps' => Overfull(toHelper')
    BY <1>5 DEF StillSleeps
  <2>8. Numbered(OnTheWay, passedNo, sentNo)'
    BY <1>1, <2>3, <2>5 DEF RelayFacts, RelayGoes, Numbered
  <2>9. RelayGoes'
    BY <1>1, <1>5, <2>1, <2>2, <2>3, <2>7, <2>8 DEF RelayGoes
  <2> QED
    BY <2>1, <2>6, <2>9 DEF RelayFacts
<1> QED
  BY <1>4, <1>5 DEF ReadAgain, At

LEMMA MonitorEndsRelay ==
  ASSUME RelayFacts, ReadTyped, MonitorEnds
  PROVE  RelayFacts' /\ ReadTyped'
<1>1. /\ monitorRead' = IF monitorRead.state = "pending" THEN Read("broken pipe", <<>>) ELSE monitorRead
      /\ UNCHANGED <<toHelper, guestSleeps, sentNo, passedNo, thread>>
  BY DEF MonitorEnds
<1>2. CASE monitorRead.state # "pending"
  <2>1. UNCHANGED monitorRead
    BY <1>1, <1>2
  <2>2. thread \in [at : HelperPlace, left : Seq(Nat)]
    BY DEF RelayFacts, RelayTyped
  <2> QED
    BY <1>1, <2>1, <2>2, RelaySame DEF ReadTyped, Alive
<1>3. CASE monitorRead.state = "pending"
  <2>1. /\ monitorRead'.state = "broken pipe" /\ monitorRead'.data = <<>> /\ ReadTyped'
    BY <1>1, <1>3, ReadHas, NothingRead DEF ReadTyped
  <2>2. RelayTyped'
    BY <1>1, <2>1, NothingRead DEF RelayFacts, RelayTyped
  <2>3. SUFFICES ASSUME Alive PROVE RelayGoes'
    BY <1>1, <2>1, <2>2 DEF RelayFacts, RelayGoes, Alive
  <2>4. monitorRead.data = <<>>
    BY <1>3, <2>3 DEF RelayFacts, RelayGoes
  <2>5. OnTheWay' = OnTheWay
    BY <1>1, <2>1, <2>4 DEF OnTheWay
  <2> QED
    BY <1>1, <1>3, <2>1, <2>3, <2>5 DEF RelayFacts, RelayGoes, Numbered, Overfull
<1> QED
  BY <1>2, <1>3

LEMMA ThreadStays ==
  ASSUME RelayTyped, NEW place, thread' = [thread EXCEPT !.at = place]
  PROVE  /\ thread'.at = place /\ thread'.left = thread.left
         /\ place \in HelperPlace => thread' \in [at : HelperPlace, left : Seq(Nat)]
BY DEF RelayTyped

LEMMA DeviceSideRelay ==
  ASSUME RelayFacts, ReadTyped, DeviceReads \/ DeviceWritten \/ SelectDevice
  PROVE  RelayFacts' /\ ReadTyped'
<1>1. UNCHANGED <<toHelper, guestSleeps, sentNo, passedNo, monitorRead>>
  BY DEF DeviceReads, DeviceWritten, SelectDevice, driverSide
<1>2. RelayTyped
  BY DEF RelayFacts
<1>3. \/ thread' = thread
      \/ thread.at = "writing" /\ thread' = [thread EXCEPT !.at = "relay"]
      \/ thread.at = "select" /\ thread' = [thread EXCEPT !.at = "ended"]
  BY DEF DeviceReads, DeviceWritten, SelectDevice, At
<1>4. /\ thread' \in [at : HelperPlace, left : Seq(Nat)] /\ thread'.left = thread.left
      /\ Alive' => Alive /\ (thread'.at \in {"relay", "writing"} <=> thread.at \in {"relay", "writing"})
  <2>1. CASE thread' = thread
    BY <1>2, <2>1 DEF RelayTyped, Alive
  <2>2. CASE thread.at = "writing" /\ thread' = [thread EXCEPT !.at = "relay"]
    BY <1>2, <2>2, ThreadStays DEF HelperPlace, Alive
  <2>3. CASE thread.at = "select" /\ thread' = [thread EXCEPT !.at = "ended"]
    BY <1>2, <2>3, ThreadStays DEF HelperPlace, Alive
  <2> QED
    BY <1>3, <2>1, <2>2, <2>3
<1> QED
  BY <1>1, <1>4, RelaySame DEF ReadTyped

-----------------------------------------------------------------------------
(* The card, and the whole.                                                 *)

(* Everything that is neither a sequence nor has one in it. *)
ScalarsOK ==
  /\ kind \in HelperKind
  /\ guestSleeps \in BOOLEAN /\ monitorOver \in BOOLEAN
  /\ sentNo \in 0..(Numbers - 1) /\ passedNo \in 0..(Numbers - 1)
  /\ deviceRead \in {"none", "pending", "done", "broken pipe", "failed"}
  /\ receiver \in {"none", "loop", "receiving", "offline", "suspended", "resumed"}
  /\ suspended \in BOOLEAN /\ card \in BOOLEAN /\ tries \in 0..MaxTries
  /\ adapter \in {"open", "broken", "closed"} /\ misled \in {"no", "late", "crashed"}

LEMMA HelperParts ==
  HelperInv => /\ ScalarsOK /\ RelayFacts /\ ReadTyped /\ BridgeExact /\ CardExact
               /\ thread.at \in HelperPlace
<1>1. HelperInv => ScalarsOK /\ ReadTyped /\ thread.at \in HelperPlace
  BY DEF HelperInv, HelperTypeOK, ScalarsOK, SequencesOK, ReadTyped
<1> QED
  BY <1>1, RelayIs DEF HelperInv

LEMMA HelperBuilt ==
  ASSUME ScalarsOK', RelayFacts', ReadTyped', BridgeExact', CardExact'
  PROVE  HelperInv'
<1>1. /\ toHelper' \in Seq(Nat) /\ thread'.left \in Seq(Nat) /\ thread'.at \in HelperPlace
      /\ thread' = [at |-> thread'.at, left |-> thread'.left]
      /\ monitorRead'.state \in {"none", "pending", "done", "broken pipe"}
  BY DEF RelayFacts, RelayTyped
<1>2. HelperTypeOK'
  BY <1>1 DEF HelperTypeOK, ScalarsOK, HelperPlace
<1>3. thread' \in [at : HelperPlace, left : Seq(Nat)]
  BY <1>1
<1>4. SequencesOK'
  BY <1>1, <1>3 DEF SequencesOK, ReadTyped
<1> QED
  BY <1>2, <1>4, RelayWhen DEF HelperInv

LEMMA CardSame ==
  ASSUME BridgeExact, CardExact, UNCHANGED <<kind, receiver, suspended, misled, tries>>,
         adapter' = adapter \/ adapter' # "closed",
         \/ thread'.at = thread.at \/ thread'.at = "ended"
         \/ /\ thread.at \in {"select", "relay", "writing", "check"}
            /\ thread'.at \in {"select", "relay", "writing", "check"}
  PROVE  BridgeExact' /\ CardExact'
BY DEF BridgeExact, CardExact

(* A step of the relay, or of the devices, leaves the card to the receiver. *)
LEMMA RelaySideStep ==
  ASSUME HelperInv, \/ GuestSends \/ MonitorEnds \/ DeviceReads \/ DeviceWritten
                    \/ SelectMonitor \/ SelectDevice \/ Relay \/ ReadAgain
  PROVE  HelperInv'
<1>1. RelayFacts' /\ ReadTyped'
  BY HelperParts, GuestSendsRelay, MonitorEndsRelay, DeviceSideRelay, SelectMonitorRelay,
     RelayRelay, ReadAgainRelay
<1>2. UNCHANGED <<kind, receiver, suspended, misled, card, adapter, tries>>
  BY DEF GuestSends, MonitorEnds, DeviceReads, DeviceWritten, SelectMonitor, SelectDevice,
         Relay, ReadAgain, bridgeSide
<1>3. RelayTyped
  BY HelperParts DEF RelayFacts
<1>4. \/ thread'.at = thread.at \/ thread'.at = "ended"
      \/ /\ thread.at \in {"select", "relay", "writing", "check"}
         /\ thread'.at \in {"select", "relay", "writing", "check"}
  <2>1. CASE GuestSends \/ MonitorEnds \/ DeviceReads
    BY <2>1 DEF GuestSends, MonitorEnds, DeviceReads
  <2>2. CASE DeviceWritten \/ SelectMonitor \/ SelectDevice
    <3>1. CASE DeviceWritten
      BY <1>3, <3>1, ThreadStays DEF DeviceWritten, At
    <3>2. CASE SelectMonitor
      BY <1>3, <3>2, ThreadStays DEF SelectMonitor
    <3>3. CASE SelectDevice
      BY <1>3, <3>3, ThreadStays DEF SelectDevice, At
    <3> QED
      BY <2>2, <3>1, <3>2, <3>3
  <2>3. CASE Relay
    BY <2>3 DEF Relay
  <2>4. CASE ReadAgain
    <3>1. thread.at = "relay" /\ \E place \in {"ended", "check", "select"} :
             thread' = [thread EXCEPT !.at = place]
      BY <2>4 DEF ReadAgain, At
    <3> QED
      BY <1>3, <3>1, ThreadStays
  <2> QED
    BY <2>1, <2>2, <2>3, <2>4
<1>5. BridgeExact' /\ CardExact'
  BY <1>2, <1>4, HelperParts, CardSame
<1>6. ScalarsOK'
  <2>1. ScalarsOK
    BY HelperParts
  <2>2. sentNo' \in 0..(Numbers - 1) /\ passedNo' \in 0..(Numbers - 1)
    <3>0. sentNo \in 0..(Numbers - 1) /\ passedNo \in 0..(Numbers - 1)
      BY <2>1 DEF ScalarsOK
    <3>1. sentNo \in 0..(Numbers - 1) /\ passedNo \in 0..(Numbers - 1) /\ sentNo \in Int /\ passedNo \in Int
      BY <3>0, HelperAssumption
    <3>2. After(sentNo) \in 0..(Numbers - 1) /\ After(passedNo) \in 0..(Numbers - 1)
      BY <3>1, NumbersFact
    <3>3. sentNo' \in {sentNo, After(sentNo)} /\ passedNo' \in {passedNo, After(passedNo)}
      BY DEF GuestSends, MonitorEnds, DeviceReads, DeviceWritten, SelectMonitor, SelectDevice,
             Relay, ReadAgain, driverSide
    <3> QED
      BY <3>1, <3>2, <3>3
  <2>3. guestSleeps' \in BOOLEAN /\ monitorOver' \in BOOLEAN
    <3>1. guestSleeps \in BOOLEAN /\ monitorOver \in BOOLEAN
      BY <2>1 DEF ScalarsOK
    <3>2. \/ guestSleeps' = guestSleeps \/ guestSleeps' = Overfull(toHelper')
          \/ guestSleeps' = (guestSleeps /\ Overfull(toHelper'))
      BY DEF GuestSends, MonitorEnds, DeviceReads, DeviceWritten, SelectMonitor, SelectDevice,
             Relay, ReadAgain, driverSide, StillSleeps
    <3>3. monitorOver' \in {monitorOver, TRUE}
      BY DEF GuestSends, MonitorEnds, DeviceReads, DeviceWritten, SelectMonitor, SelectDevice,
             Relay, ReadAgain, driverSide
    <3> QED
      <4>1. Overfull(toHelper') \in BOOLEAN
        BY DEF Overfull
      <4> QED
        BY <3>1, <3>2, <3>3, <4>1
  <2>4. deviceRead' \in {"none", "pending", "done", "broken pipe", "failed"}
    <3>1. deviceRead \in {"none", "pending", "done", "broken pipe", "failed"}
      BY <2>1 DEF ScalarsOK
    <3> QED
      BY <3>1 DEF GuestSends, MonitorEnds, DeviceReads, DeviceWritten, SelectMonitor, SelectDevice,
             Relay, ReadAgain
  <2> QED
    BY <1>2, <2>1, <2>2, <2>3, <2>4 DEF ScalarsOK
<1> QED
  BY <1>1, <1>5, <1>6, HelperBuilt

(* A step that has to do with the card leaves the relay alone, or ends the process. *)
LEMMA CardSideStep ==
  ASSUME HelperInv,
         UNCHANGED <<kind, toHelper, guestSleeps, sentNo, monitorOver, passedNo, monitorRead, deviceRead>>,
         NEW place \in HelperPlace, thread' = thread \/ thread' = [thread EXCEPT !.at = place],
         thread.at \in {"relay", "writing"} => thread' = thread \/ place = "ended",
         place \notin {"relay", "writing"}, thread.at = "ended" => thread' = thread,
         receiver' \in {"none", "loop", "receiving", "offline", "suspended", "resumed"},
         suspended' \in BOOLEAN, card' \in BOOLEAN, tries' \in 0..MaxTries,
         adapter' \in {"open", "broken", "closed"}, misled' \in {"no", "late", "crashed"},
         BridgeExact', CardExact'
  PROVE  HelperInv'
<1>1. ScalarsOK /\ RelayFacts /\ ReadTyped
  BY HelperParts
<1>2. ScalarsOK'
  BY <1>1 DEF ScalarsOK
<1>3. thread \in [at : HelperPlace, left : Seq(Nat)]
  BY <1>1 DEF RelayFacts, RelayTyped
<1>4. thread' \in [at : HelperPlace, left : Seq(Nat)] /\ thread'.left = thread.left
  BY <1>3
<1>5. Alive' => Alive /\ (thread'.at \in {"relay", "writing"} <=> thread.at \in {"relay", "writing"})
  BY <1>3 DEF Alive
<1>6. RelayFacts'
  BY <1>1, <1>4, <1>5, RelaySame
<1> QED
  BY <1>1, <1>2, <1>6, HelperBuilt DEF ReadTyped

LEMMA ScalarFacts ==
  ASSUME HelperInv
  PROVE  /\ receiver \in {"none", "loop", "receiving", "offline", "suspended", "resumed"}
         /\ suspended \in BOOLEAN /\ card \in BOOLEAN /\ tries \in 0..MaxTries
         /\ adapter \in {"open", "broken", "closed"} /\ misled \in {"no", "late", "crashed"}
         /\ thread.at \in HelperPlace /\ misled # "crashed"
         /\ \A place : thread' = [thread EXCEPT !.at = place] => thread'.at = place
<1>1. ScalarsOK /\ thread.at \in HelperPlace /\ BridgeExact /\ RelayTyped
  BY HelperParts DEF RelayFacts
<1>2. \A place : thread' = [thread EXCEPT !.at = place] => thread'.at = place
  BY <1>1, ThreadStays
<1> QED
  BY <1>1, <1>2 DEF ScalarsOK, BridgeExact

LEMMA CardMovesStep ==
  ASSUME HelperInv, CardGoes \/ CardComes
  PROVE  HelperInv'
<1>1. /\ UNCHANGED <<kind, toHelper, guestSleeps, sentNo, monitorOver, passedNo, monitorRead, deviceRead>>
      /\ UNCHANGED <<thread, receiver, suspended, tries, misled>>
      /\ card' \in BOOLEAN /\ (adapter' = adapter \/ adapter' = "broken")
  BY DEF CardGoes, CardComes, driverSide
<1>2. BridgeExact' /\ CardExact'
  BY <1>1, HelperParts, CardSame
<1>3. "select" \in HelperPlace
  BY DEF HelperPlace
<1> QED
  BY <1>1, <1>2, <1>3, ScalarFacts, CardSideStep

LEMMA ReceiverStep ==
  ASSUME HelperInv, Receive \/ Received \/ ReceiveFails \/ SuspendThread \/ Continued
  PROVE  HelperInv'
<1>1. PICK from, to \in {"none", "loop", "receiving", "offline", "suspended", "resumed"} :
        ReceiverGoes(from, to)
  BY DEF Receive, Received, ReceiveFails, SuspendThread, Continued
<1>2. /\ UNCHANGED <<kind, toHelper, guestSleeps, sentNo, monitorOver, passedNo, monitorRead, deviceRead>>
      /\ UNCHANGED <<card, adapter, tries>> /\ Alive
      /\ receiver' \in {"none", "loop", "receiving", "offline", "suspended", "resumed"}
  BY <1>1 DEF ReceiverGoes, driverSide
<1>3. BridgeExact /\ CardExact
  BY HelperParts
<1>4. thread' = thread \/ thread' = [thread EXCEPT !.at = "ended"]
  BY DEF Receive, Received, ReceiveFails, SuspendThread, Continued, At
<1>5. suspended' \in BOOLEAN
  BY ScalarFacts DEF Receive, Received, ReceiveFails, SuspendThread, Continued
<1>6. "ended" \in HelperPlace
  BY DEF HelperPlace
<1>7. ASSUME misled' \in {"no", "late", "crashed"}, BridgeExact', CardExact'
      PROVE  HelperInv'
  BY <1>2, <1>4, <1>5, <1>6, <1>7, ScalarFacts, CardSideStep DEF Alive
<1>8. CASE Receive
  <2>1. receiver = "loop" /\ receiver' = "receiving" /\ suspended' = suspended
    BY <1>8 DEF Receive, ReceiverGoes
  <2>2. kind = "bridge" /\ ~suspended
    BY <1>3, <2>1 DEF CardExact
  <2>3. CASE adapter = "closed"
    <3>1. Misused /\ thread' = [thread EXCEPT !.at = "ended"]
      BY <1>8, <2>3 DEF Receive, At
    <3>2. misled # "no"
      BY <1>2, <1>3, <2>2, <2>3, ScalarFacts DEF BridgeExact, CardExact, Alive, HelperPlace
    <3>3. misled' = misled /\ thread'.at = "ended"
      BY <3>1, <3>2, ScalarFacts DEF Misused
    <3>4. BridgeExact' /\ CardExact'
      BY <1>2, <1>3, <2>1, <2>2, <3>2, <3>3 DEF BridgeExact, CardExact
    <3> QED
      BY <1>7, <3>3, <3>4, ScalarFacts
  <2>4. CASE adapter # "closed"
    <3>1. misled' = misled /\ thread' = thread
      BY <1>8, <2>4 DEF Receive
    <3>2. BridgeExact' /\ CardExact'
      BY <1>2, <1>3, <2>1, <2>2, <3>1 DEF BridgeExact, CardExact
    <3> QED
      BY <1>7, <3>1, <3>2, ScalarFacts
  <2> QED
    BY <2>3, <2>4
<1>9. CASE Received \/ ReceiveFails \/ SuspendThread \/ Continued
  <2>1. misled' = misled /\ thread' = thread
    BY <1>9 DEF Received, ReceiveFails, SuspendThread, Continued
  <2>2. /\ \/ receiver = "receiving" /\ receiver' = "loop" /\ suspended' = suspended
           \/ receiver = "receiving" /\ receiver' = "offline" /\ suspended' = TRUE
           \/ receiver = "offline" /\ receiver' = "suspended" /\ suspended' = suspended
           \/ receiver = "resumed" /\ receiver' = "loop" /\ suspended' = FALSE
    BY <1>9 DEF Received, ReceiveFails, SuspendThread, Continued, ReceiverGoes
  <2>3. CardExact'
    BY <1>2, <1>3, <2>1, <2>2 DEF CardExact
  <2>4. BridgeExact'
    BY <1>2, <1>3, <2>1, <2>2 DEF CardExact, BridgeExact
  <2> QED
    BY <1>7, <2>1, <2>3, <2>4, ScalarFacts
<1> QED
  BY <1>8, <1>9

LEMMA MainOnCardStep ==
  ASSUME HelperInv, CheckReceiver \/ CloseAdapter \/ OpenAdapter \/ ResumeReceiver
  PROVE  HelperInv'
<1>1. BridgeExact /\ CardExact /\ MaxTries \in Nat
  BY HelperParts, HelperAssumption
<1>2. ASSUME NEW from \in {"check", "close", "open", "resume"},
             NEW to \in {"select", "close", "open", "resume", "ended"}, MainGoes(from, to),
             receiver' \in {"none", "loop", "receiving", "offline", "suspended", "resumed"},
             suspended' = suspended, tries' \in 0..MaxTries, adapter' \in {"open", "broken", "closed"},
             misled' \in {"no", "late", "crashed"}, BridgeExact', CardExact'
      PROVE  HelperInv'
  <2>1. /\ UNCHANGED <<kind, toHelper, guestSleeps, sentNo, monitorOver, passedNo, monitorRead, deviceRead>>
        /\ UNCHANGED card /\ thread.at = from /\ thread' = [thread EXCEPT !.at = to]
    BY <1>2 DEF MainGoes, At, driverSide
  <2>2. to \in HelperPlace
    BY DEF HelperPlace
  <2> QED
    BY <1>2, <2>1, <2>2, ScalarFacts, CardSideStep
<1>3. ASSUME NEW from, NEW to, MainGoes(from, to)
      PROVE  thread.at = from /\ thread'.at = to /\ kind' = kind
  BY <1>3, ScalarFacts DEF MainGoes, At
<1>4. CASE CheckReceiver
  <2>1. /\ thread.at = "check" /\ MainGoes("check", IF suspended THEN "close" ELSE "select")
        /\ thread'.at = (IF suspended THEN "close" ELSE "select") /\ kind' = kind
        /\ misled' = (IF suspended /\ receiver = "resumed" THEN "late" ELSE misled)
        /\ UNCHANGED <<receiver, suspended, adapter, tries>>
    BY <1>3, <1>4 DEF CheckReceiver, Offline
  <2>2. BridgeExact' /\ CardExact'
    BY <1>1, <2>1 DEF BridgeExact, CardExact
  <2>3. (IF suspended THEN "close" ELSE "select") \in {"select", "close", "open", "resume", "ended"}
    OBVIOUS
  <2> QED
    BY <1>2, <2>1, <2>2, <2>3, ScalarFacts
<1>5. CASE CloseAdapter
  <2>1. /\ adapter' = "closed" /\ tries' = 0 /\ UNCHANGED <<receiver, suspended>>
        /\ tries' \in 0..MaxTries /\ tries' < MaxTries
    BY <1>1, <1>5, HelperAssumption DEF CloseAdapter
  <2>2. PICK to \in {"open", "ended"} : MainGoes("close", to)
    BY <1>5 DEF CloseAdapter
  <2>3. thread.at = "close" /\ thread'.at = to /\ kind' = kind
    BY <1>3, <2>2
  <2>4. misled' = misled
    <3>1. \/ misled' = misled
          \/ receiver = "receiving" /\ misled' = IF misled = "no" THEN "crashed" ELSE misled
      BY <1>5 DEF CloseAdapter, Misused
    <3>2. receiver = "receiving" => misled # "no"
      BY <1>1, <2>3 DEF BridgeExact
    <3> QED
      BY <3>1, <3>2
  <2>5. BridgeExact' /\ CardExact'
    BY <1>1, <2>1, <2>3, <2>4 DEF BridgeExact, CardExact
  <2> QED
    BY <1>2, <2>1, <2>2, <2>4, <2>5, ScalarFacts
<1>6. CASE OpenAdapter
  <2>1. UNCHANGED <<receiver, suspended, misled>>
    BY <1>6 DEF OpenAdapter
  <2>2. CASE card /\ MainGoes("open", "resume") /\ adapter' = "open" /\ tries' = 0
    <3>1. thread.at = "open" /\ thread'.at = "resume" /\ kind' = kind /\ tries' \in 0..MaxTries
      BY <1>1, <1>3, <2>2
    <3>2. BridgeExact' /\ CardExact'
      BY <1>1, <2>1, <2>2, <3>1 DEF BridgeExact, CardExact
    <3> QED
      BY <1>2, <2>1, <2>2, <3>1, <3>2, ScalarFacts
  <2>3. CASE /\ MainGoes("open", IF tries + 1 = MaxTries THEN "ended" ELSE "open")
             /\ tries' = tries + 1
             /\ adapter' \in {adapter} \union (IF card THEN {"open"} ELSE {})
    <3> DEFINE to == IF tries + 1 = MaxTries THEN "ended" ELSE "open"
    <3>1. thread.at = "open" /\ thread'.at = to /\ kind' = kind /\ MainGoes("open", to)
          /\ to \in {"open", "ended"}
      BY <1>3, <2>3
    <3>2. adapter' \in {"open", "broken", "closed"}
      BY <2>3, ScalarFacts
    <3>3. tries' \in 0..MaxTries
      <4>1. tries < MaxTries /\ tries \in 0..MaxTries
        BY <1>1, <3>1, ScalarFacts DEF CardExact
      <4> QED
        BY <1>1, <2>3, <4>1
    <3> HIDE DEF to
    <3>4. to = "open" => tries' < MaxTries
      <4>1. tries < MaxTries /\ tries \in 0..MaxTries
        BY <1>1, <3>1, ScalarFacts DEF CardExact
      <4> QED
        BY <1>1, <2>3, <4>1 DEF to
    <3>5. BridgeExact' /\ CardExact'
      BY <1>1, <2>1, <3>1, <3>4 DEF BridgeExact, CardExact
    <3> QED
      BY <1>2, <2>1, <3>1, <3>2, <3>5, <3>3, <3>4, ScalarFacts
  <2> QED
    BY <1>6, <2>2, <2>3 DEF OpenAdapter
<1>7. CASE ResumeReceiver
  <2>1. /\ MainGoes("resume", "select") /\ thread.at = "resume" /\ thread'.at = "select" /\ kind' = kind
        /\ UNCHANGED <<suspended, adapter, tries, misled>>
        /\ receiver' = (IF receiver = "suspended" THEN "resumed" ELSE receiver)
    BY <1>3, <1>7 DEF ResumeReceiver, Resumed
  <2>2. BridgeExact' /\ CardExact'
    BY <1>1, <2>1 DEF BridgeExact, CardExact
  <2>3. receiver' \in {"none", "loop", "receiving", "offline", "suspended", "resumed"}
    BY <2>1, ScalarFacts
  <2> QED
    BY <1>2, <2>1, <2>2, <2>3, ScalarFacts
<1> QED
  BY <1>4, <1>5, <1>6, <1>7

LEMMA HelperStep == HelperInv /\ [HelperNext]_helperVars => HelperInv'
<1> SUFFICES ASSUME HelperInv, [HelperNext]_helperVars PROVE HelperInv'
  OBVIOUS
<1>1. CASE UNCHANGED helperVars
  <2>1. /\ UNCHANGED <<kind, toHelper, guestSleeps, sentNo, monitorOver, passedNo, monitorRead, deviceRead>>
        /\ UNCHANGED <<thread, receiver, suspended, card, adapter, tries, misled>>
    BY <1>1 DEF helperVars, driverSide, bridgeSide
  <2>2. BridgeExact' /\ CardExact'
    BY <2>1, HelperParts, CardSame
  <2>3. "select" \in HelperPlace
    BY DEF HelperPlace
  <2> QED
    BY <2>1, <2>2, <2>3, ScalarFacts, CardSideStep
<1>2. CASE \/ GuestSends \/ MonitorEnds \/ DeviceReads \/ DeviceWritten
           \/ SelectMonitor \/ SelectDevice \/ Relay \/ ReadAgain
  BY <1>2, RelaySideStep
<1>3. CASE CardGoes \/ CardComes
  BY <1>3, CardMovesStep
<1>4. CASE Receive \/ Received \/ ReceiveFails \/ SuspendThread \/ Continued
  BY <1>4, ReceiverStep
<1>5. CASE CheckReceiver \/ CloseAdapter \/ OpenAdapter \/ ResumeReceiver
  BY <1>5, MainOnCardStep
<1> QED
  BY <1>1, <1>2, <1>3, <1>4, <1>5 DEF HelperNext, MainThread, ReceiverThread

LEMMA HelperStart == HelperInit => HelperInv
<1> SUFFICES ASSUME HelperInit PROVE HelperInv
  OBVIOUS
<1>1. /\ toHelper = <<>> /\ guestSleeps = FALSE /\ sentNo = 0 /\ passedNo = 0
      /\ monitorOver = FALSE /\ monitorRead.state = "pending" /\ monitorRead.data = <<>>
      /\ thread.at = "select" /\ thread.left = <<>> /\ suspended = FALSE /\ card = TRUE
      /\ tries = 0 /\ misled = "no" /\ kind \in HelperKind
      /\ receiver = (IF kind = "bridge" THEN "loop" ELSE "none")
      /\ adapter = (IF kind = "bridge" THEN "open" ELSE "closed")
      /\ deviceRead = (IF kind = "bridge" THEN "none" ELSE "pending")
  BY DEF HelperInit, Read
<1>2. SequencesOK
  BY NothingRead DEF HelperInit, Read, SequencesOK, HelperPlace
<1>3. 0 \in 0..(Numbers - 1) /\ 0 \in 0..MaxTries /\ 0 < MaxTries /\ 0 = 0 % Numbers
  <2>1. Numbers \in Nat /\ Numbers > 0 /\ MaxTries \in Nat /\ MaxTries > 0
    BY NumbersFact
  <2> QED
    BY <2>1
<1>4. HelperTypeOK
  BY <1>1, <1>3 DEF HelperTypeOK
<1>5. OnTheWay = <<>>
  BY <1>1 DEF OnTheWay
<1>6. RelayExact
  <2>1. Len(OnTheWay) = 0
    BY <1>5
  <2> QED
    BY <1>1, <1>3, <2>1 DEF RelayExact
<1>7. BridgeExact /\ CardExact /\ ReadsExact
  BY <1>1, <1>3 DEF BridgeExact, CardExact, ReadsExact
<1> QED
  BY <1>2, <1>4, <1>6, <1>7 DEF HelperInv

-----------------------------------------------------------------------------
(* All of it together.                                                      *)

LEMMA ProcessHosts == ProcessSpec => []HostInv
<1>1. ProcessInit => HostInv
  <2> SUFFICES ASSUME ProcessInit PROVE HostInv
    OBVIOUS
  <2>1. LifecycleInit /\ {} \in SUBSET Monitor
    BY DEF ProcessInit
  <2>2. \E present \in SUBSET Monitor : DaemonsStart(present)
    BY <2>1 DEF ProcessInit, DaemonInit
  <2> QED
    BY <2>1, <2>2, HostStart
<1>2. HostInv /\ [ProcessNext]_processVars => HostInv'
  <2>1. [ProcessNext]_processVars => [HostNext]_<<lifecycleVars, daemonVars>>
    BY DEF ProcessNext, processVars
  <2> QED
    BY <2>1, HostStep
<1> QED
  BY <1>1, <1>2, PTL DEF ProcessSpec

LEMMA ProcessHelpers == ProcessSpec => []HelperInv
<1>1. ProcessInit => HelperInv
  BY HelperStart DEF ProcessInit
<1>2. HelperInv /\ [ProcessNext]_processVars => HelperInv'
  BY HelperStep DEF ProcessNext, processVars
<1> QED
  BY <1>1, <1>2, PTL DEF ProcessSpec

(* Monitors, their books and references, the daemons' places and resources, and the helpers'
   reads, threads and numbers have their types in every reachable state (ProcessTypeOK). *)
THEOREM ProcessTyping == ProcessSpec => []ProcessTypeOK
<1>1. ProcessInit => watched \in {"daemons", "helpers"}
  BY DEF ProcessInit
<1>2. watched \in {"daemons", "helpers"} /\ [ProcessNext]_processVars => (watched \in {"daemons", "helpers"})'
  BY DEF ProcessNext, processVars
<1>3. HostInv /\ HelperInv /\ watched \in {"daemons", "helpers"} => ProcessTypeOK
  BY DEF HostInv, HelperInv, ProcessTypeOK
<1> QED
  BY <1>1, <1>2, <1>3, ProcessHosts, ProcessHelpers, PTL DEF ProcessSpec

(* Whatever fails at whatever step of creation, and whenever a guest reboots, what the driver
   leaves behind when it frees a monitor, or frees without having made, is one of the few
   objects whose clean-up co_monitor_create and co_monitor_destroy omit (LeaksAreKnown). *)
THEOREM LeaksKnown == ProcessSpec => []LeaksAreKnown
<1> QED
  BY LeaksSeen, ProcessHosts, PTL

(* However a daemon's start, its run and its end went, and however long the processes it launched
   stay: its monitor lives exactly as long as someone has a descriptor of it, unless an unlocked
   update of its reference count was lost, and the timer and the list forget it (ExitLeavesNothing). *)
THEOREM DaemonsLeaveNothing == ProcessSpec => []ExitLeavesNothing
<1> QED
  BY NothingLeft, ProcessHosts, PTL

(* The memory that the driver accounts to its monitors is the sum over those that are on its
   books, until two ioctls race on that unlocked counter (HostmemAccounted). *)
THEOREM HostmemSafe == ProcessSpec => []HostmemAccounted
<1>1. ProcessInit => MemoryInv
  BY MemoryStart, SumsAdd DEF ProcessInit
<1>2. HostInv /\ MemoryInv /\ [ProcessNext]_processVars => MemoryInv'
  <2>1. [ProcessNext]_processVars => [HostNext]_<<lifecycleVars, daemonVars>>
    BY DEF ProcessNext, processVars
  <2> QED
    BY <2>1, MemoryStep, SumsAdd
<1> QED
  BY <1>1, <1>2, ProcessHosts, BooksAccounted, PTL DEF ProcessSpec

(* Reads, threads, the receiver and the numbers of the messages have their types in every
   reachable state (HelperTypeOK). *)
THEOREM HelpersTyped == ProcessSpec => []HelperTypeOK
<1>1. HelperInv => HelperTypeOK
  BY DEF HelperInv
<1> QED
  BY <1>1, ProcessHelpers, PTL

(* What the guest sends reaches the device of a helper once and in order, whatever lies in the
   driver's queue, in a finished read or half passed on, and its sender sleeps only beside too
   long a queue (RelayExact); and the bridged daemon opens its adapter again only while the
   receiver sleeps or is about to, but for a main thread that comes round early (BridgeExact). *)
THEOREM HelpersSafe == ProcessSpec => []HelpersExact
<1>1. HelperInv => HelpersExact
  BY DEF HelperInv, HelpersExact
<1> QED
  BY <1>1, ProcessHelpers, PTL
=============================================================================
