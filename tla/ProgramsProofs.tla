--------------------------- MODULE ProgramsProofs ---------------------------
(***************************************************************************)
(* Proofs about the programs around the driver and what its TAP card       *)
(* answers itself: a daemon that is a service, the driver from its         *)
(* installation to its removal, and point-to-point mode and DHCP, for any  *)
(* number of programs, any requests and any frames.                        *)
(***************************************************************************)
EXTENDS GuestDevices, FiniteSetTheorems, NaturalSets, TLAPS

-----------------------------------------------------------------------------
(* A daemon that is a service *)

(* What the service manager should have been told while the daemon runs. *)
Normal == IF "stop" \in history THEN "stop pending" ELSE "running"

(* StatusTrue at every step of both threads: unless their reports overlapped, what is written is
   what is told next, and the handler is idle while service_main reports. *)
StatusInv ==
  process.as = "service" /\ "overlap" \notin history =>
    /\ process.main \in {"register", "running", "tell running"} =>
         entry.told = "start pending" /\ process.handler = "idle" /\ "stop" \notin history
    /\ process.main = "tell running" => process.status = "running"
    /\ process.main = "tell stopped" => process.status = "stopped"
    /\ process.main \in {"daemon", "stopped", "tell stopped"} => entry.told = Normal
    /\ process.main \in {"daemon", "stopped"} =>
         /\ process.handler \in {"idle", "write", "stop"} => process.status = Normal
         /\ process.handler = "tell" => process.status = process.asks
         /\ process.handler \in {"write", "tell"} =>
              process.asks = IF process.control = "interrogate" THEN Normal ELSE "stop pending"
    /\ process.main \in {"tell stopped", "returned"} => process.handler \in {"idle", "stop"}
    /\ process.main = "returned" => entry.told \in {"stopped", "start pending"}
    /\ process.handler = "stop" => "stop" \in history

(* A stop that was reported and handled found no daemon, reached the guest, or killed the
   process. *)
StopInv ==
  /\ "stop" \in history /\ process.handler # "stop" /\ process.main # "dead" =>
       /\ process.daemon \in {"null", "made"} => "lost" \in history
       /\ process.daemon = "reachable" => process.power \/ "lost" \in history
  /\ process.main = "dead" => process.daemon \in {"made", "over"}

(* What is told was written before, by one of the threads of a service. *)
WrittenInv ==
  /\ process.as # "service" =>
       process.main \in {"none", "daemon", "returned", "dead"} /\ process.handler = "idle"
  /\ process.as = "service" =>
       /\ entry.told \in {"running", "stop pending"} => process.status \in Told
       /\ process.main \in {"tell running", "tell stopped"} => process.status \in Told
       /\ process.handler = "tell" => process.status \in Told
       /\ process.handler = "write" => process.asks \in Told

ServiceInv == ServiceTypeOK /\ WrittenInv /\ StatusInv /\ StopInv

LEMMA ServiceInvExact == ServiceInv => ServiceExact
  BY DEF ServiceInv, StatusInv, StopInv, ServiceExact, StatusTrue, StopReaches, ServiceTypeOK,
         Processes, Normal

LEMMA ServiceInvInit == ServiceInit => ServiceInv
  BY ServiceAssumption DEF ServiceInit, ServiceInv, WrittenInv, StatusInv, StopInv, ServiceTypeOK, Entries,
     Processes, Told, NoProcess

LEMMA ServiceInvStays == ASSUME ServiceInv, UNCHANGED serviceVars PROVE ServiceInv'
<1>1. entry' = entry /\ process' = process /\ controls' = controls /\ history' = history
  BY DEF serviceVars
<1>2. ServiceTypeOK' BY <1>1 DEF ServiceInv, ServiceTypeOK
<1>3. StatusInv' BY <1>1 DEF ServiceInv, StatusInv, Normal
<1>4. StopInv' BY <1>1 DEF ServiceInv, StopInv
<1>5. WrittenInv' BY <1>1 DEF ServiceInv, WrittenInv
<1>6. QED BY <1>2, <1>3, <1>4, <1>5 DEF ServiceInv

(* The fields of a process, and what becomes of them when one is written. *)
LEMMA ProcessFields ==
  ASSUME NEW p \in Processes
  PROVE  /\ p.as \in {"nothing", "plain", "service"}
         /\ p.main \in {"none", "register", "running", "tell running", "daemon", "stopped",
                        "tell stopped", "returned", "dead"}
         /\ p.handler \in {"idle", "write", "tell", "stop"}
         /\ p.control \in {"none", "stop", "shutdown", "interrogate"}
         /\ p.asks \in Told \union {"none"} /\ p.status \in Told \union {"none"}
         /\ p.daemon \in {"null", "made", "reachable", "over"} /\ p.power \in BOOLEAN
  BY DEF Processes

Mains == {"none", "register", "running", "tell running", "daemon", "stopped", "tell stopped",
          "returned", "dead"}
Rest(p, q) ==
  /\ q.as = p.as /\ q.control = p.control /\ q.asks = p.asks /\ q.power = p.power

LEMMA MainUpdated ==
  ASSUME NEW p \in Processes, NEW m \in Mains, NEW q, q = [p EXCEPT !.main = m]
  PROVE  /\ q \in Processes /\ Rest(p, q) /\ q.main = m
         /\ q.handler = p.handler /\ q.status = p.status /\ q.daemon = p.daemon
  BY DEF Processes, Mains, Rest

LEMMA MainWritten ==
  ASSUME NEW p \in Processes, NEW m \in Mains, NEW s \in Told,
         NEW q, q = [p EXCEPT !.status = s, !.main = m]
  PROVE  /\ q \in Processes /\ Rest(p, q) /\ q.main = m
         /\ q.handler = p.handler /\ q.status = s /\ q.daemon = p.daemon
  BY DEF Processes, Mains, Rest

LEMMA DaemonUpdated ==
  ASSUME NEW p \in Processes, NEW d \in {"null", "made", "reachable", "over"},
         NEW q, q = [p EXCEPT !.daemon = d]
  PROVE  /\ q \in Processes /\ Rest(p, q) /\ q.daemon = d
         /\ q.handler = p.handler /\ q.status = p.status /\ q.main = p.main
  BY ZenonT(60) DEF Processes, Rest

LEMMA HandlerUpdated ==
  ASSUME NEW p \in Processes, NEW h \in {"idle", "write", "tell", "stop"},
         NEW q, q = [p EXCEPT !.handler = h]
  PROVE  /\ q \in Processes /\ Rest(p, q) /\ q.handler = h
         /\ q.daemon = p.daemon /\ q.status = p.status /\ q.main = p.main
  BY DEF Processes, Rest

LEMMA Begun ==
  ASSUME NEW as \in {"plain", "service"}
  PROVE  /\ Begins(as) \in Processes /\ Begins(as).as = as /\ Begins(as).handler = "idle"
         /\ Begins(as).main = IF as = "service" THEN "register" ELSE "daemon"
         /\ Begins(as).daemon = "null"
  BY DEF Begins, NoProcess, Processes

LEMMA ZeroControls == 0 \in 0..MaxControls BY ServiceAssumption

LEMMA NoProcessTyped == NoProcess \in Processes
  BY DEF NoProcess, Processes

LEMMA NoProcessFields == NoProcess.as = "nothing" /\ NoProcess.main = "none" /\ NoProcess.handler = "idle"
  BY DEF NoProcess

LEMMA Heard ==
  ASSUME NEW e \in Entries, entry = e, NEW told \in Told
  PROVE  Hears(told) \in Entries /\ Hears(told).told = told
  BY DEF Hears, Entries

-----------------------------------------------------------------------------
(* One lemma for each kind of step. *)

LEMMA RecordStepsKeep ==
  ASSUME ServiceInv, InstallService \/ SetRestartOptions \/ RemoveService PROVE ServiceInv'
<1>1. process' = process /\ controls' = controls /\ history' = history
  BY DEF InstallService, SetRestartOptions, RemoveService
<1>2. entry' \in Entries /\ entry'.told = entry.told
  BY DEF InstallService, SetRestartOptions, RemoveService, ServiceInv, ServiceTypeOK, Entries
<1>3. ServiceTypeOK' BY <1>1, <1>2 DEF ServiceInv, ServiceTypeOK
<1>4. StatusInv' BY <1>1, <1>2 DEF ServiceInv, StatusInv, Normal
<1>5. StopInv' BY <1>1 DEF ServiceInv, StopInv
<1>6. WrittenInv' BY <1>1, <1>2 DEF ServiceInv, WrittenInv
<1>7. QED BY <1>3, <1>4, <1>5, <1>6 DEF ServiceInv

LEMMA StartsKeep == ASSUME ServiceInv, ServiceStarts \/ PlainStarts PROVE ServiceInv'
<1>1. controls' = 0 /\ history' = {} BY DEF ServiceStarts, PlainStarts
<1>2. CASE ServiceStarts
  <2>1. process' = Begins("service") BY <1>2 DEF ServiceStarts
  <2>2. entry' \in Entries /\ entry'.told = "start pending"
    BY <1>2 DEF ServiceStarts, ServiceInv, ServiceTypeOK, Entries, Told
  <2>3. ServiceTypeOK' BY <1>1, <2>1, <2>2, Begun, ZeroControls DEF ServiceTypeOK
  <2>4. StatusInv' BY <1>1, <2>1, <2>2, Begun DEF StatusInv
  <2>5. StopInv' BY <1>1, <2>1, Begun DEF StopInv
  <2>6. WrittenInv' BY <2>1, <2>2, Begun DEF WrittenInv
  <2>7. QED BY <2>3, <2>4, <2>5, <2>6 DEF ServiceInv
<1>3. CASE PlainStarts
  <2>1. process' = Begins("plain") /\ entry' = entry BY <1>3 DEF PlainStarts
  <2>2. ServiceTypeOK'
    BY <1>1, <2>1, Begun, ZeroControls DEF ServiceInv, ServiceTypeOK
  <2>3. StatusInv' BY <1>1, <2>1, Begun DEF StatusInv
  <2>4. StopInv' BY <1>1, <2>1, Begun DEF StopInv
  <2>5. WrittenInv' BY <2>1, Begun DEF WrittenInv
  <2>6. QED BY <2>2, <2>3, <2>4, <2>5 DEF ServiceInv
<1>4. QED BY <1>2, <1>3

LEMMA RegisterKeeps == ASSUME ServiceInv, RegisterServiceCtrlHandler PROVE ServiceInv'
<1>1. entry' = entry /\ controls' = controls /\ history' = history /\ process.main = "register"
  BY DEF RegisterServiceCtrlHandler
<1>2. PICK m \in {"running", "returned"} : process' = [process EXCEPT !.main = m]
  BY DEF RegisterServiceCtrlHandler, MainGoes
<1>3. /\ process' \in Processes /\ Rest(process, process') /\ process'.main = m
      /\ process'.handler = process.handler /\ process'.status = process.status
      /\ process'.daemon = process.daemon
  <2>1. process \in Processes /\ m \in Mains BY <1>2 DEF ServiceInv, ServiceTypeOK, Mains
  <2>2. process' = [process EXCEPT !.main = m] BY <1>2
  <2>3. QED BY <2>1, <2>2, MainUpdated
<1>4. ServiceTypeOK' BY <1>1, <1>3 DEF ServiceInv, ServiceTypeOK
<1>5. StatusInv' BY <1>1, <1>2, <1>3 DEF ServiceInv, StatusInv, Rest
<1>6. StopInv' BY <1>1, <1>3 DEF ServiceInv, StopInv, Rest
<1>7. WrittenInv' BY <1>1, <1>2, <1>3 DEF ServiceInv, WrittenInv, Rest
<1>8. QED BY <1>4, <1>5, <1>6, <1>7 DEF ServiceInv

LEMMA MainWritesKeeps == ASSUME ServiceInv, MainWrites PROVE ServiceInv'
<1>1. /\ entry' = entry /\ controls' = controls
      /\ process.main \in {"running", "stopped"} /\ history' \subseteq {"stop", "lost", "overlap"}
      /\ process.handler \in {"write", "tell"} => "overlap" \in history'
      /\ "overlap" \in history => "overlap" \in history'
      /\ "stop" \in history' <=> "stop" \in history
      /\ "lost" \in history' <=> "lost" \in history
  BY DEF MainWrites, MainReports, Overlaps, ServiceInv, ServiceTypeOK
<1>2. PICK m \in {"tell running", "tell stopped"} :
        /\ m = "tell running" <=> process.main = "running"
        /\ process' = [process EXCEPT !.status = process.main, !.main = m]
  BY DEF MainWrites
<1>3. process.main \in Told BY <1>1 DEF Told
<1>4. process.handler \in {"idle", "write", "tell", "stop"}
  BY ProcessFields DEF ServiceInv, ServiceTypeOK
<1>5. /\ process' \in Processes /\ Rest(process, process') /\ process'.main = m
      /\ process'.handler = process.handler /\ process'.status = process.main
      /\ process'.daemon = process.daemon
  <2>1. process \in Processes /\ m \in Mains BY <1>2 DEF ServiceInv, ServiceTypeOK, Mains
  <2>2. process' = [process EXCEPT !.status = process.main, !.main = m] BY <1>2
  <2>3. PICK s \in Told : s = process.main BY <1>3
  <2>4. process' = [process EXCEPT !.status = s, !.main = m] BY <2>2, <2>3
  <2>5. /\ process' \in Processes /\ Rest(process, process') /\ process'.main = m
        /\ process'.handler = process.handler /\ process'.status = s
        /\ process'.daemon = process.daemon
    BY <2>1, <2>4, MainWritten DEF Processes
  <2>6. QED BY <2>3, <2>5
<1>6. ServiceTypeOK' BY <1>1, <1>5 DEF ServiceInv, ServiceTypeOK
<1>7. StatusInv' BY <1>1, <1>2, <1>4, <1>5 DEF ServiceInv, StatusInv, Normal, Rest
<1>8. StopInv' BY <1>1, <1>2, <1>5 DEF ServiceInv, StopInv, Rest
<1>9. WrittenInv' BY <1>1, <1>2, <1>3, <1>5 DEF ServiceInv, WrittenInv, Rest
<1>10. QED BY <1>6, <1>7, <1>8, <1>9 DEF ServiceInv

LEMMA MainTellsKeeps == ASSUME ServiceInv, MainTells PROVE ServiceInv'
<1>1. /\ entry' = Hears(process.status) /\ controls' = controls
      /\ process.main \in {"tell running", "tell stopped"}
      /\ history' \subseteq {"stop", "lost", "overlap"}
      /\ process.handler \in {"write", "tell"} => "overlap" \in history'
      /\ "overlap" \in history => "overlap" \in history'
      /\ "stop" \in history' <=> "stop" \in history
      /\ "lost" \in history' <=> "lost" \in history
  BY DEF MainTells, Overlaps, ServiceInv, ServiceTypeOK
<1>2. PICK m \in {"daemon", "returned"} :
        /\ m = "daemon" <=> process.main = "tell running"
        /\ process' = [process EXCEPT !.main = m]
  BY DEF MainTells, MainGoes
<1>3. /\ process' \in Processes /\ Rest(process, process') /\ process'.main = m
      /\ process'.handler = process.handler /\ process'.status = process.status
      /\ process'.daemon = process.daemon
  <2>1. process \in Processes /\ m \in Mains BY <1>2 DEF ServiceInv, ServiceTypeOK, Mains
  <2>2. process' = [process EXCEPT !.main = m] BY <1>2
  <2>3. QED BY <2>1, <2>2, MainUpdated
<1>4. process.status \in Told
  BY <1>1 DEF ServiceInv, WrittenInv
<1>5. entry' \in Entries /\ entry'.told = process.status
  BY <1>1, <1>4, Heard DEF ServiceInv, ServiceTypeOK
<1>6. process.handler \in {"idle", "write", "tell", "stop"}
  BY ProcessFields DEF ServiceInv, ServiceTypeOK
<1>7. ServiceTypeOK' BY <1>1, <1>3, <1>5 DEF ServiceInv, ServiceTypeOK
<1>8. StatusInv' BY <1>1, <1>2, <1>3, <1>5, <1>6 DEF ServiceInv, StatusInv, Normal, Rest
<1>9. StopInv' BY <1>1, <1>2, <1>3 DEF ServiceInv, StopInv, Rest
<1>10. WrittenInv' BY <1>1, <1>2, <1>3, <1>4, <1>5 DEF ServiceInv, WrittenInv, Rest
<1>11. QED BY <1>7, <1>8, <1>9, <1>10 DEF ServiceInv

LEMMA DaemonStepsKeep ==
  ASSUME ServiceInv, DaemonCreated \/ DaemonOpens \/ DaemonOver \/ MainReturns
  PROVE  ServiceInv'
<1>1. /\ entry' = entry /\ controls' = controls /\ history' = history /\ process.main = "daemon"
      /\ process \in Processes
  BY DEF DaemonCreated, DaemonOpens, DaemonOver, MainReturns, ServiceInv, ServiceTypeOK
<1>2. process.as \in {"nothing", "plain", "service"} BY <1>1, ProcessFields
<1>3. CASE \E d \in {"made", "reachable", "over"} :
             /\ d = "made" => process.daemon = "null"
             /\ d = "reachable" => process.daemon = "made"
             /\ process' = [process EXCEPT !.daemon = d]
  <2>1. PICK d \in {"made", "reachable", "over"} :
             /\ d = "made" => process.daemon = "null"
             /\ d = "reachable" => process.daemon = "made"
             /\ process' = [process EXCEPT !.daemon = d]
    BY <1>3
  <2>2. process' = [process EXCEPT !.daemon = d] BY <2>1
  <2>3. /\ process' \in Processes /\ Rest(process, process') /\ process'.daemon = d
        /\ process'.handler = process.handler /\ process'.status = process.status
        /\ process'.main = process.main
    BY <1>1, <2>2, DaemonUpdated
  <2>4. ServiceTypeOK' BY <1>1, <2>3 DEF ServiceInv, ServiceTypeOK
  <2>5. StatusInv' BY <1>1, <2>3 DEF ServiceInv, StatusInv, Normal, Rest
  <2>6. StopInv' BY <1>1, <2>1, <2>3 DEF ServiceInv, StopInv, Rest
  <2>7. WrittenInv' BY <1>1, <2>3 DEF ServiceInv, WrittenInv, Rest
  <2>8. QED BY <2>4, <2>5, <2>6, <2>7 DEF ServiceInv
<1>4. CASE process' = MainGoes(AfterDaemon)
  <2>1. PICK m \in {"stopped", "returned"} :
          /\ m = "stopped" <=> process.as = "service"
          /\ process' = [process EXCEPT !.main = m]
    BY <1>4 DEF MainGoes, AfterDaemon
  <2>2. process' = [process EXCEPT !.main = m] /\ m \in Mains BY <2>1 DEF Mains
  <2>3. /\ process' \in Processes /\ Rest(process, process') /\ process'.main = m
        /\ process'.handler = process.handler /\ process'.status = process.status
        /\ process'.daemon = process.daemon
    BY <1>1, <2>2, MainUpdated
  <2>4. ServiceTypeOK' BY <1>1, <2>3 DEF ServiceInv, ServiceTypeOK
  <2>5. StatusInv' BY <1>1, <2>1, <2>3, ZenonT(60) DEF ServiceInv, StatusInv, Normal, Rest
  <2>6. StopInv' BY <1>1, <2>1, <2>3 DEF ServiceInv, StopInv, Rest
  <2>7. WrittenInv' BY <1>1, <2>1, <2>3 DEF ServiceInv, WrittenInv, Rest
  <2>8. QED BY <2>4, <2>5, <2>6, <2>7 DEF ServiceInv
<1>5. QED BY <1>3, <1>4 DEF DaemonCreated, DaemonOpens, DaemonOver, MainReturns

LEMMA ControlSentKeeps ==
  ASSUME ServiceInv, NEW control \in {"stop", "shutdown", "interrogate"}, ControlSent(control)
  PROVE  ServiceInv'
<1>1. /\ entry' = entry /\ controls' = controls + 1 /\ controls < MaxControls
      /\ process.as = "service" /\ process.main \notin {"dead", "register"}
      /\ process.handler = "idle" /\ process \in Processes
      /\ history' \subseteq {"stop", "lost", "overlap"}
      /\ process.main \in {"tell running", "tell stopped"} => "overlap" \in history'
      /\ "overlap" \in history => "overlap" \in history'
      /\ "stop" \in history' <=> "stop" \in history
      /\ "lost" \in history' <=> "lost" \in history
  BY DEF ControlSent, Overlaps, ServiceInv, ServiceTypeOK
<1>2. /\ control = "interrogate" => entry.told \in {"running", "stop pending"}
      /\ control # "interrogate" => entry.told = "running"
  BY DEF ControlSent
<1>3. PICK s \in Told :
        /\ s = IF control = "interrogate" THEN process.status ELSE "stop pending"
        /\ process' = [process EXCEPT !.handler = "write", !.control = control, !.asks = s]
  <2>1. (IF control = "interrogate" THEN process.status ELSE "stop pending") \in Told
    BY <1>1, <1>2 DEF ServiceInv, WrittenInv, Told
  <2>2. QED BY <2>1 DEF ControlSent
<1>4. process' = [process EXCEPT !.handler = "write", !.control = control, !.asks = s] BY <1>3
<1>5. /\ process' \in Processes /\ process'.handler = "write" /\ process'.control = control
      /\ process'.asks = s /\ process'.as = process.as /\ process'.main = process.main
      /\ process'.status = process.status /\ process'.daemon = process.daemon
      /\ process'.power = process.power
  BY <1>1, <1>4 DEF Processes
<1>6. process.main \in {"none", "register", "running", "tell running", "daemon", "stopped",
                        "tell stopped", "returned", "dead"}
  BY <1>1, ProcessFields
<1>7. ServiceTypeOK'
  <2>1. controls \in 0..MaxControls BY DEF ServiceInv, ServiceTypeOK
  <2>2. controls' = controls + 1 /\ controls < MaxControls BY <1>1
  <2>3. controls' \in 0..MaxControls BY <2>1, <2>2, ServiceAssumption
  <2>4. QED BY <1>1, <1>5, <2>3 DEF ServiceInv, ServiceTypeOK
<1>8. StatusInv' BY <1>1, <1>2, <1>3, <1>5, <1>6, ZenonT(60) DEF ServiceInv, StatusInv, Normal
<1>9. StopInv' BY <1>1, <1>5 DEF ServiceInv, StopInv
<1>10. WrittenInv' BY <1>1, <1>3, <1>5 DEF ServiceInv, WrittenInv
<1>11. QED BY <1>7, <1>8, <1>9, <1>10 DEF ServiceInv

LEMMA HandlerWritesKeeps == ASSUME ServiceInv, HandlerWrites PROVE ServiceInv'
<1>1. /\ entry' = entry /\ controls' = controls /\ process.handler = "write"
      /\ process \in Processes /\ history' \subseteq {"stop", "lost", "overlap"}
      /\ process.main \in {"tell running", "tell stopped"} => "overlap" \in history'
      /\ "overlap" \in history => "overlap" \in history'
      /\ "stop" \in history' <=> "stop" \in history
      /\ "lost" \in history' <=> "lost" \in history
  BY DEF HandlerWrites, Overlaps, ServiceInv, ServiceTypeOK
<1>2. process.as = "service" /\ process.asks \in Told
  BY <1>1, ProcessFields DEF ServiceInv, WrittenInv
<1>3. PICK s \in Told : s = process.asks BY <1>2
<1>4. process' = [process EXCEPT !.status = s, !.handler = "tell"] BY <1>3 DEF HandlerWrites
<1>5. /\ process' \in Processes /\ process'.handler = "tell" /\ process'.control = process.control
      /\ process'.asks = process.asks /\ process'.as = process.as /\ process'.main = process.main
      /\ process'.status = s /\ process'.daemon = process.daemon /\ process'.power = process.power
  BY <1>1, <1>4 DEF Processes
<1>6. ServiceTypeOK' BY <1>1, <1>5 DEF ServiceInv, ServiceTypeOK
<1>7. StatusInv' BY <1>1, <1>3, <1>5 DEF ServiceInv, StatusInv, Normal
<1>8. StopInv' BY <1>1, <1>5 DEF ServiceInv, StopInv
<1>9. WrittenInv' BY <1>1, <1>2, <1>3, <1>5 DEF ServiceInv, WrittenInv
<1>10. QED BY <1>6, <1>7, <1>8, <1>9 DEF ServiceInv

LEMMA HandlerTellsKeeps == ASSUME ServiceInv, HandlerTells PROVE ServiceInv'
<1>1. /\ entry' = Hears(process.status) /\ controls' = controls /\ process.handler = "tell"
      /\ process \in Processes /\ history' \subseteq {"stop", "lost", "overlap"}
      /\ process.main \in {"tell running", "tell stopped"} => "overlap" \in history'
      /\ "overlap" \in history => "overlap" \in history'
      /\ "stop" \in history' <=> "stop" \in history \/ process.control # "interrogate"
      /\ "lost" \in history' <=> "lost" \in history
  BY DEF HandlerTells, Overlaps, ServiceInv, ServiceTypeOK
<1>2. process.as = "service" /\ process.status \in Told
  BY <1>1, ProcessFields DEF ServiceInv, WrittenInv
<1>3. entry' \in Entries /\ entry'.told = process.status
  BY <1>1, <1>2, Heard DEF ServiceInv, ServiceTypeOK
<1>4. PICK h \in {"idle", "stop"} :
        /\ h = "idle" <=> process.control = "interrogate"
        /\ process' = [process EXCEPT !.handler = h]
  BY DEF HandlerTells
<1>5. process' = [process EXCEPT !.handler = h] BY <1>4
<1>6. /\ process' \in Processes /\ Rest(process, process') /\ process'.handler = h
      /\ process'.daemon = process.daemon /\ process'.status = process.status
      /\ process'.main = process.main
  <2>1. h \in {"idle", "write", "tell", "stop"} /\ process \in Processes BY <1>1
  <2>2. QED BY <1>5, <2>1, HandlerUpdated
<1>7. process.main \in {"none", "register", "running", "tell running", "daemon", "stopped",
                        "tell stopped", "returned", "dead"}
  BY <1>1, ProcessFields
<1>8. ServiceTypeOK' BY <1>1, <1>3, <1>6 DEF ServiceInv, ServiceTypeOK
<1>9. StatusInv' BY <1>1, <1>3, <1>4, <1>6, <1>7 DEF ServiceInv, StatusInv, Normal, Rest
<1>10. StopInv' BY <1>1, <1>4, <1>6 DEF ServiceInv, StopInv, Rest
<1>11. WrittenInv' BY <1>1, <1>2, <1>3, <1>6 DEF ServiceInv, WrittenInv, Rest
<1>12. QED BY <1>8, <1>9, <1>10, <1>11 DEF ServiceInv

(* co_winnt_daemon_stop, by the handler or for a console event. *)
LEMMA StopKeeps ==
  ASSUME ServiceInv, NEW h \in {"idle", process.handler}, UNCHANGED entry,
         controls' \in 0..MaxControls, DaemonStop([process EXCEPT !.handler = h]),
         process.main = "dead" => process.handler = "stop",
         process.handler # h => process.handler = "stop"
  PROVE  ServiceInv'
<1>1. process \in Processes BY DEF ServiceInv, ServiceTypeOK
<1>2. /\ process.daemon \in {"null", "made", "reachable", "over"}
      /\ process.handler \in {"idle", "write", "tell", "stop"}
      /\ process.as \in {"nothing", "plain", "service"}
  BY <1>1, ProcessFields
<1>3. PICK r : r = [process EXCEPT !.handler = h] OBVIOUS
<1>4. /\ r \in Processes /\ Rest(process, r) /\ r.handler = h
      /\ r.daemon = process.daemon /\ r.status = process.status /\ r.main = process.main
  BY <1>1, <1>2, <1>3, HandlerUpdated
<1>5. CASE process' = Died /\ process.daemon \in {"made", "over"} /\ history' = history
  <2>1. process' = [process EXCEPT !.main = "dead", !.handler = "idle"] BY <1>5 DEF Died
  <2>2. /\ process' \in Processes /\ process'.main = "dead" /\ process'.handler = "idle"
        /\ process'.as = process.as /\ process'.daemon = process.daemon
        /\ process'.status = process.status
    BY <1>1, <2>1 DEF Processes
  <2>3. ServiceTypeOK' BY <1>5, <2>2 DEF ServiceInv, ServiceTypeOK
  <2>4. StatusInv' BY <1>5, <2>2 DEF ServiceInv, StatusInv
  <2>5. StopInv' BY <1>5, <2>2 DEF ServiceInv, StopInv
  <2>6. WrittenInv' BY <1>5, <2>2 DEF ServiceInv, WrittenInv
  <2>7. QED BY <2>3, <2>4, <2>5, <2>6 DEF ServiceInv
<1>6. CASE /\ process' \in Processes /\ process'.as = process.as /\ process'.handler = h
           /\ process'.control = process.control /\ process'.asks = process.asks
           /\ process'.daemon = process.daemon /\ process'.status = process.status
           /\ process'.main = process.main
           /\ history' \in {history, history \union {"lost"}}
           /\ process.daemon = "null" => "lost" \in history'
           /\ process.daemon = "reachable" => process'.power
           /\ process.daemon # "made"
  <2>1. /\ history' \subseteq {"stop", "lost", "overlap"}
        /\ "stop" \in history' <=> "stop" \in history
        /\ "overlap" \in history' <=> "overlap" \in history
        /\ "lost" \in history => "lost" \in history'
    BY <1>6 DEF ServiceInv, ServiceTypeOK
  <2>2. ServiceTypeOK' BY <1>6, <2>1 DEF ServiceInv, ServiceTypeOK
  <2>3. StatusInv' BY <1>2, <1>6, <2>1, ZenonT(60) DEF ServiceInv, StatusInv, Normal
  <2>4. StopInv' BY <1>2, <1>6, <2>1 DEF ServiceInv, StopInv
  <2>5. WrittenInv' BY <1>2, <1>6, <2>1 DEF ServiceInv, WrittenInv
  <2>6. QED BY <2>2, <2>3, <2>4, <2>5 DEF ServiceInv
<1>7. QED
  <2>1. DaemonStop(r) BY <1>3
  <2>2. CASE process.daemon = "null" /\ process' = r /\ history' = history \union {"lost"}
    BY <1>4, <1>6, <2>2 DEF Rest
  <2>3. CASE process.daemon = "over" /\ process' = r /\ history' = history
    BY <1>4, <1>6, <2>3 DEF Rest
  <2>4. CASE /\ process.daemon = "reachable" /\ history' = history
             /\ process' = [r EXCEPT !.power = TRUE]
    <3>1. /\ process' \in Processes /\ process'.as = r.as /\ process'.handler = r.handler
          /\ process'.control = r.control /\ process'.asks = r.asks /\ process'.power
          /\ process'.daemon = r.daemon /\ process'.status = r.status /\ process'.main = r.main
      BY <1>4, <2>4 DEF Processes
    <3>2. QED BY <1>4, <1>6, <2>4, <3>1 DEF Rest
  <2>5. QED BY <1>5, <2>1, <2>2, <2>3, <2>4 DEF DaemonStop

LEMMA HandlerStopsKeeps == ASSUME ServiceInv, HandlerStops PROVE ServiceInv'
<1>1. /\ process.handler = "stop" /\ DaemonStop([process EXCEPT !.handler = "idle"])
      /\ UNCHANGED <<entry, controls>>
  BY DEF HandlerStops
<1>2. controls' \in 0..MaxControls BY <1>1 DEF ServiceInv, ServiceTypeOK
<1>3. QED BY <1>1, <1>2, StopKeeps

LEMMA ConsoleEventKeeps ==
  ASSUME ServiceInv, NEW event \in {"break", "logoff", "close", "shutdown"}, ConsoleEvent(event)
  PROVE  ServiceInv'
<1>1. /\ process.main = "daemon" /\ UNCHANGED entry /\ controls < MaxControls
      /\ controls' = controls + 1
  BY DEF ConsoleEvent
<1>2. controls' \in 0..MaxControls
  <2>1. controls \in 0..MaxControls BY DEF ServiceInv, ServiceTypeOK
  <2>2. QED BY <1>1, <2>1, ServiceAssumption
<1>3. CASE UNCHANGED <<process, history>>
  <2>1. entry' = entry /\ process' = process /\ history' = history BY <1>1, <1>3
  <2>2. ServiceTypeOK' BY <1>2, <2>1 DEF ServiceInv, ServiceTypeOK
  <2>3. StatusInv' BY <2>1 DEF ServiceInv, StatusInv, Normal
  <2>4. StopInv' BY <2>1 DEF ServiceInv, StopInv
  <2>5. WrittenInv' BY <2>1 DEF ServiceInv, WrittenInv
  <2>6. QED BY <2>2, <2>3, <2>4, <2>5 DEF ServiceInv
<1>4. CASE DaemonStop(process)
  <2>1. [process EXCEPT !.handler = process.handler] = process
    BY DEF ServiceInv, ServiceTypeOK, Processes
  <2>2. DaemonStop([process EXCEPT !.handler = process.handler]) BY <1>4, <2>1
  <2>3. QED BY <1>1, <1>2, <2>2, StopKeeps
<1>5. QED BY <1>3, <1>4 DEF ConsoleEvent

LEMMA EndsKeep == ASSUME ServiceInv, ProcessEnds \/ ProcessDied PROVE ServiceInv'
<1>1. process' = NoProcess /\ history' = {} /\ controls' = controls
  BY DEF ProcessEnds, ProcessDied
<1>2. entry' \in Entries
  <2>1. entry \in Entries BY DEF ServiceInv, ServiceTypeOK
  <2>2. Hears("stopped") \in Entries BY <2>1, Heard DEF Told
  <2>3. PICK e \in Entries : e = Hears("stopped") BY <2>2
  <2>4. \A n \in 0..3, b \in BOOLEAN : [e EXCEPT !.failures = n, !.due = b] \in Entries
    BY DEF Entries
  <2>5. entry.restarts \in BOOLEAN /\ e.failures \in 0..3 /\ entry.failures \in 0..3
    BY <2>1 DEF Entries
  <2>6. (IF e.failures < 3 THEN e.failures + 1 ELSE e.failures) \in 0..3 BY <2>5
  <2>7. (entry.restarts /\ entry.failures < 2) \in BOOLEAN OBVIOUS
  <2>8. CASE ProcessEnds BY <2>1, <2>8 DEF ProcessEnds
  <2>9. CASE ProcessDied
    <3>1. CASE process.as = "service" /\ entry.told # "stopped"
      <4>1. entry' = [e EXCEPT !.failures = IF e.failures < 3 THEN e.failures + 1 ELSE e.failures,
                               !.due = entry.restarts /\ entry.failures < 2]
        BY <2>3, <2>9, <3>1 DEF ProcessDied
      <4>2. QED BY <2>4, <2>6, <2>7, <4>1
    <3>2. CASE ~(process.as = "service" /\ entry.told # "stopped")
      BY <2>1, <2>9, <3>2 DEF ProcessDied
    <3>3. QED BY <3>1, <3>2
  <2>10. QED BY <2>8, <2>9
<1>3. ServiceTypeOK' BY <1>1, <1>2, NoProcessTyped DEF ServiceInv, ServiceTypeOK
<1>4. StatusInv' BY <1>1, NoProcessFields DEF StatusInv
<1>5. StopInv' BY <1>1, NoProcessFields DEF StopInv
<1>6. WrittenInv' BY <1>1, NoProcessFields DEF WrittenInv
<1>7. QED BY <1>3, <1>4, <1>5, <1>6 DEF ServiceInv

LEMMA ServiceInvStep == ASSUME ServiceInv, [ServiceNext]_serviceVars PROVE ServiceInv'
  BY ServiceInvStays, RecordStepsKeep, StartsKeep, RegisterKeeps, MainWritesKeeps, MainTellsKeeps,
     DaemonStepsKeep, ControlSentKeeps, HandlerWritesKeeps, HandlerTellsKeeps, HandlerStopsKeeps,
     ConsoleEventKeeps, EndsKeep
  DEF ServiceNext

-----------------------------------------------------------------------------
(* The driver and the programs around it *)

(* The stations of a program: who comes there, with a handle or not, and what it knows by then. *)
Station(p, does, r) ==
  /\ r.at \in {"create", "launch", "undo"} => does = "install"
  /\ r.at \in {"stop", "delete"} => does = "remove"
  /\ r.at \in {"macs", "store", "monitor", "runs"} => does = "daemon"
  /\ r.at = "ask" => does # "install"
  /\ r.at \in {"ask", "macs", "store", "monitor", "runs"} => r.handle
  /\ r.at \in {"start", "create", "launch", "undo", "open", "stop", "delete"} => ~r.handle
  /\ r.at \in {"start", "create"} => ~r.made
  /\ r.at \in {"store", "monitor", "runs"} => r.mac # 0
  /\ r.at = "store" => r.mac = p
  /\ r.at \notin {"store", "monitor", "runs", "ended"} => r.mac = 0
  /\ does = "remove" /\ r.rc = "ok" => r.knows = {}
  /\ p \notin r.knows /\ r.index = Cardinality(r.knows)

StationInv == \A p \in Program : Station(p, Does(p), program[p])

(* The driver and its record: what DriverInUse and NothingForgotten say, and that a driver that
   is not loaded holds nothing. *)
UseInv ==
  /\ driver.loaded <=> scm.state # "stopped"
  /\ driver.loaded => Present /\ driver.version # "none" /\ driver.state # "none"
  /\ ~driver.loaded => driver.state = "none"
  /\ Present => scm.version # "none"
  /\ scm.state = "stopping" => Open # {}
  /\ Open # {} => driver.loaded /\ driver.state = "initialized"
  /\ driver.monitors = Cardinality(Monitors)
  /\ driver.lost \subseteq {"osdep", "pfns", "pgds"}
  /\ driver.held = (IF driver.state = "initialized" THEN Allocated ELSE {})
  /\ "load" \notin Playing.faults =>
       driver.lost = {} /\ driver.wild = {} /\ driver.state # "not initialized"

(* Who was counted has run, and of two daemons of which one counted the other the later counted
   also all that the earlier had counted and that had not ended. *)
KnowsInv ==
  \A q \in Program :
    /\ \A p \in program[q].knows : program[p].at \in {"runs", "ended"}
    /\ \A p \in program[q].knows : \A r \in program[p].knows :
         r \in program[q].knows \/ program[r].at = "ended"

(* An address is stored under the number its maker was told, and used by who was told the same. *)
MacInv ==
  /\ \A q \in Program : program[q].mac # 0 =>
       /\ program[program[q].mac].mac = program[q].mac
       /\ program[program[q].mac].index = program[q].index
  /\ \A i \in 0..Cardinality(Program) : registry[i] # 0 =>
       program[registry[i]].mac = registry[i] /\ program[registry[i]].index = i

(* A record that somebody deleted is there no more, or marked; one that is marked or gone was
   deleted by somebody. *)
RecordInv ==
  /\ scm.marked => scm.state # "stopped"
  /\ \A q \in Program :
       /\ program[q].gone \subseteq {p \in Program : program[p].made} \union {Given}
       /\ Present /\ scm.record \in program[q].gone => scm.marked
       /\ program[q].made /\ (scm.record # q \/ scm.marked) =>
            \E p \in Program : q \in program[p].gone

ControlInv ==
  /\ scene \in DOMAIN Scene /\ ControlTypeOK
  /\ StationInv /\ UseInv /\ KnowsInv /\ MacInv /\ RecordInv

(* What a scene's definition gives. *)
LEMMA SceneHas ==
  ASSUME scene \in DOMAIN Scene
  PROVE  /\ Len(Playing.commands) \in Nat /\ Program = 1..Len(Playing.commands)
         /\ Given = Len(Playing.commands) + 1
         /\ \A p \in Program : Does(p) \in Command /\ Version(p) \in Versions \ {"none"}
         /\ Playing.driver \in Versions /\ "none" \in Versions
  BY SceneAssumption DEF Playing, Program, Given, Does, Version, Versions

LEMMA ProgramsFinite ==
  ASSUME scene \in DOMAIN Scene
  PROVE  /\ IsFiniteSet(Program) /\ Cardinality(Program) = Len(Playing.commands)
         /\ 0 \notin Program /\ Given \notin Program /\ Given # 0 /\ Program \subseteq Nat
         /\ Cardinality(Program) \in Nat
         /\ \A S \in SUBSET Program : IsFiniteSet(S) /\ Cardinality(S) \in 0..Cardinality(Program)
<1>1. Len(Playing.commands) \in Nat /\ Program = 1..Len(Playing.commands)
      /\ Given = Len(Playing.commands) + 1
  BY SceneHas
<1>2. PICK n \in Nat : n = Len(Playing.commands) BY <1>1
<1>3. IsFiniteSet(1..n) /\ Cardinality(1..n) = n BY <1>2, FS_Interval
<1>4. \A S \in SUBSET (1..n) : IsFiniteSet(S) /\ Cardinality(S) <= n
  BY <1>3, FS_Subset
<1>5. \A S \in SUBSET (1..n) : Cardinality(S) \in 0..n
  BY <1>2, <1>4, FS_CardinalityType
<1>6. QED BY <1>1, <1>2, <1>3, <1>4, <1>5

(* A scene does not change. *)
LEMMA SceneStays ==
  ASSUME scene' = scene
  PROVE  /\ Playing' = Playing /\ Program' = Program /\ Given' = Given
         /\ Programs' = Programs /\ Drivers' = Drivers /\ ServiceRecords' = ServiceRecords
         /\ \A p : Does(p)' = Does(p)
<1>1. Playing' = Playing BY DEF Playing
<1>2. Program' = Program /\ Given' = Given /\ (\A p : Does(p)' = Does(p))
  BY <1>1 DEF Program, Given, Does
<1>3. Versions' = Versions BY <1>1, <1>2 DEF Versions, Version
<1>4. QED BY <1>1, <1>2, <1>3 DEF Programs, Drivers, ServiceRecords

(* The fields of a program, and what becomes of them. *)
Alike(r, q) ==
  q.made = r.made /\ q.knows = r.knows /\ q.index = r.index /\ q.mac = r.mac /\ q.gone = r.gone

Ats == {"start", "create", "launch", "undo", "open", "ask", "stop", "delete", "macs", "store",
        "monitor", "runs", "ended"}
Codes == {"none", "ok", "version", "no access", "error"}

LEMMA ProgramHas ==
  ASSUME NEW r \in Programs
  PROVE  /\ r.at \in Ats /\ r.rc \in Codes /\ r.handle \in BOOLEAN /\ r.made \in BOOLEAN
         /\ r.knows \in SUBSET Program /\ r.index \in 0..Cardinality(Program)
         /\ r.mac \in Program \union {0} /\ r.gone \in SUBSET (Program \union {Given})
  BY DEF Programs, Ats, Codes

LEMMA AtSet ==
  ASSUME NEW r \in Programs, NEW at \in Ats, NEW q, q = [r EXCEPT !.at = at]
  PROVE  q \in Programs /\ q.at = at /\ q.rc = r.rc /\ q.handle = r.handle /\ Alike(r, q)
  BY DEF Programs, Ats, Alike

LEMMA CodeSet ==
  ASSUME NEW r \in Programs, NEW rc \in Codes, NEW q, q = [r EXCEPT !.rc = rc]
  PROVE  q \in Programs /\ q.at = r.at /\ q.rc = rc /\ q.handle = r.handle /\ Alike(r, q)
  BY DEF Programs, Codes, Alike

LEMMA HandleSet ==
  ASSUME NEW r \in Programs, NEW h \in BOOLEAN, NEW q, q = [r EXCEPT !.handle = h]
  PROVE  q \in Programs /\ q.at = r.at /\ q.rc = r.rc /\ q.handle = h /\ Alike(r, q)
  BY DEF Programs, Alike

LEMMA MacSet ==
  ASSUME NEW r \in Programs, NEW m \in Program \union {0}, NEW q, q = [r EXCEPT !.mac = m]
  PROVE  /\ q \in Programs /\ q.at = r.at /\ q.rc = r.rc /\ q.handle = r.handle /\ q.mac = m
         /\ q.made = r.made /\ q.knows = r.knows /\ q.index = r.index /\ q.gone = r.gone
  BY DEF Programs

LEMMA MadeSet ==
  ASSUME NEW r \in Programs, NEW q, q = [r EXCEPT !.made = TRUE]
  PROVE  /\ q \in Programs /\ q.at = r.at /\ q.rc = r.rc /\ q.handle = r.handle /\ q.mac = r.mac
         /\ q.made = TRUE /\ q.knows = r.knows /\ q.index = r.index /\ q.gone = r.gone
  BY DEF Programs

LEMMA GoneSet ==
  ASSUME NEW r \in Programs, NEW G \in SUBSET (Program \union {Given}),
         NEW q, q = [r EXCEPT !.gone = G]
  PROVE  /\ q \in Programs /\ q.at = r.at /\ q.rc = r.rc /\ q.handle = r.handle /\ q.mac = r.mac
         /\ q.made = r.made /\ q.knows = r.knows /\ q.index = r.index /\ q.gone = G
  BY DEF Programs

LEMMA Exited ==
  ASSUME NEW r \in Programs, NEW rc
  PROVE  /\ Exits(r, rc) \in Programs /\ Exits(r, rc).at = "ended"
         /\ Exits(r, rc).rc = ExitCode(rc) /\ ExitCode(rc) \in Codes
         /\ (ExitCode(rc) = "ok" <=> rc = "ok")
         /\ Exits(r, rc).handle = r.handle /\ Alike(r, Exits(r, rc))
<1>1. ExitCode(rc) \in {"ok", "version", "no access", "error"} /\ (ExitCode(rc) = "ok" <=> rc = "ok")
  BY DEF ExitCode
<1>2. PICK c \in {"ok", "version", "no access", "error"} : c = ExitCode(rc) BY <1>1
<1>3. Exits(r, rc) = [r EXCEPT !.at = "ended", !.rc = c] BY <1>2 DEF Exits
<1>4. PICK q : q = [r EXCEPT !.at = "ended", !.rc = c] OBVIOUS
<1>5. q \in Programs /\ q.at = "ended" /\ q.rc = c /\ q.handle = r.handle /\ Alike(r, q)
  BY <1>4 DEF Programs, Alike
<1>6. QED BY <1>1, <1>2, <1>3, <1>4, <1>5 DEF Codes

LEMMA HandleGone ==
  ASSUME NEW r \in Programs
  PROVE  /\ HandleClosed(r) \in Programs /\ HandleClosed(r).at = r.at /\ HandleClosed(r).rc = r.rc
         /\ HandleClosed(r).handle = FALSE /\ Alike(r, HandleClosed(r))
  BY HandleSet DEF HandleClosed

(* One program changes at a time. *)
LEMMA Became ==
  ASSUME scene' = scene, program \in [Program -> Programs], NEW p \in Program,
         NEW r \in Programs, Becomes(p, r)
  PROVE  /\ program' \in [Program' -> Programs'] /\ program'[p] = r /\ program[p] \in Programs
         /\ \A q \in Program : q # p => program'[q] = program[q]
  BY SceneStays DEF Becomes

(* What one program does as p, the others staying as they are. *)
OneMoves(p) ==
  /\ scene' = scene /\ program \in [Program -> Programs] /\ program[p] \in Programs
  /\ program' \in [Program -> Programs] /\ program'[p] \in Programs
  /\ \A q \in Program : q # p => program'[q] = program[q]

(* It leaves a station, and stays at the last one. *)
GoesOn(r, q) ==
  /\ r.at = "runs" => q.at \in {"runs", "ended"}
  /\ r.at = "ended" => q.at = "ended"

LEMMA StationsStay ==
  ASSUME NEW p \in Program, OneMoves(p), StationInv, Station(p, Does(p), program'[p])
  PROVE  StationInv'
<1>1. Program' = Program /\ \A q : Does(q)' = Does(q) BY SceneStays DEF OneMoves
<1>2. SUFFICES ASSUME NEW q \in Program PROVE Station(q, Does(q), program'[q])
  <2>1. \A q \in Program' : Station(q, Does(q)', program'[q]) BY <1>1, <1>2
  <2>2. QED BY <2>1 DEF StationInv
<1>3. CASE q = p BY <1>3
<1>4. CASE q # p BY <1>4 DEF OneMoves, StationInv
<1>5. QED BY <1>3, <1>4

LEMMA KnowsStay ==
  ASSUME NEW p \in Program, OneMoves(p), KnowsInv,
         GoesOn(program[p], program'[p]), program'[p].knows = program[p].knows
  PROVE  KnowsInv'
<1>1. Program' = Program BY SceneStays DEF OneMoves
<1>2. \A q \in Program : /\ program'[q].knows = program[q].knows /\ program[q].knows \subseteq Program
                         /\ program[q].at \in {"runs", "ended"} => program'[q].at \in {"runs", "ended"}
                         /\ program[q].at = "ended" => program'[q].at = "ended"
  <2>1. \A q \in Program : program[q] \in Programs BY DEF OneMoves
  <2>2. QED BY <2>1, ProgramHas DEF OneMoves, GoesOn
<1>3. \A q \in Program' :
        /\ \A o \in program'[q].knows : program'[o].at \in {"runs", "ended"}
        /\ \A o \in program'[q].knows : \A r \in program'[o].knows :
             r \in program'[q].knows \/ program'[r].at = "ended"
  <2>1. TAKE q \in Program'
  <2>2. q \in Program BY <1>1
  <2>3. ASSUME NEW o \in program'[q].knows PROVE program'[o].at \in {"runs", "ended"}
    BY <1>2, <2>2, <2>3 DEF KnowsInv
  <2>4. ASSUME NEW o \in program'[q].knows, NEW r \in program'[o].knows
        PROVE r \in program'[q].knows \/ program'[r].at = "ended"
    <3>1. o \in program[q].knows /\ o \in Program BY <1>2, <2>2
    <3>2. r \in program[o].knows /\ r \in Program BY <1>2, <3>1
    <3>3. r \in program[q].knows \/ program[r].at = "ended" BY <2>2, <3>1, <3>2 DEF KnowsInv
    <3>4. QED BY <1>2, <2>2, <3>2, <3>3
  <2>5. QED BY <2>3, <2>4
<1>4. QED BY <1>3 DEF KnowsInv

LEMMA MacStay ==
  ASSUME NEW p \in Program, OneMoves(p), MacInv, scene \in DOMAIN Scene,
         registry \in [0..Cardinality(Program) -> Program \union {0}], registry' = registry,
         program'[p].mac = program[p].mac, program'[p].index = program[p].index
  PROVE  MacInv'
<1>1. Program' = Program BY SceneStays DEF OneMoves
<1>2. \A q \in Program : program'[q].mac = program[q].mac /\ program'[q].index = program[q].index
                         /\ program[q].mac \in Program \union {0}
  <2>1. \A q \in Program : program[q] \in Programs BY DEF OneMoves
  <2>2. QED BY <2>1, ProgramHas DEF OneMoves
<1>3. \A q \in Program : program'[q].mac # 0 =>
        /\ program'[program'[q].mac].mac = program'[q].mac
        /\ program'[program'[q].mac].index = program'[q].index
  <2>1. SUFFICES ASSUME NEW q \in Program, program'[q].mac # 0
        PROVE  /\ program'[program'[q].mac].mac = program'[q].mac
               /\ program'[program'[q].mac].index = program'[q].index
    OBVIOUS
  <2>2. PICK m \in Program : m = program[q].mac /\ m = program'[q].mac BY <1>2, <2>1
  <2>3. program[m].mac = m /\ program[m].index = program[q].index
    BY <1>2, <2>1, <2>2 DEF MacInv
  <2>4. QED BY <1>2, <2>2, <2>3
<1>4. \A i \in 0..Cardinality(Program) : registry'[i] # 0 =>
        program'[registry'[i]].mac = registry'[i] /\ program'[registry'[i]].index = i
  <2>1. \A i \in 0..Cardinality(Program) : registry[i] # 0 =>
          registry[i] \in Program /\ program[registry[i]].mac = registry[i]
            /\ program[registry[i]].index = i
    BY DEF MacInv
  <2>2. QED BY <1>2, <2>1
<1>5. QED BY <1>1, <1>3, <1>4 DEF MacInv

(* A record and who made or deleted one stay as they are. *)
LEMMA RecordStay ==
  ASSUME NEW p \in Program, OneMoves(p), RecordInv, scm'.record = scm.record,
         scm'.marked = scm.marked, scm'.marked => scm'.state # "stopped",
         program'[p].made = program[p].made, program'[p].gone = program[p].gone
  PROVE  RecordInv'
<1>1. Program' = Program /\ Given' = Given BY SceneStays DEF OneMoves
<1>2. \A q \in Program : program'[q].made = program[q].made /\ program'[q].gone = program[q].gone
  BY DEF OneMoves
<1>3. {q \in Program : program'[q].made} = {q \in Program : program[q].made} BY <1>2
<1>4. \A q \in Program :
        /\ program'[q].gone \subseteq {o \in Program : program'[o].made} \union {Given}
        /\ scm'.record # 0 /\ scm'.record \in program'[q].gone => scm'.marked
  BY <1>2, <1>3 DEF RecordInv, Present
<1>5. ASSUME NEW q \in Program, program'[q].made /\ (scm'.record # q \/ scm'.marked)
      PROVE  \E o \in Program : q \in program'[o].gone
  <2>1. PICK o \in Program : q \in program[o].gone BY <1>2, <1>5 DEF RecordInv
  <2>2. QED BY <1>2, <2>1
<1>6. QED BY <1>1, <1>4, <1>5 DEF RecordInv, Present

(* A driver that is told to stop, or whose last handle went, takes a marked record along. *)
LEMMA RecordStops ==
  ASSUME NEW p \in Program, OneMoves(p), RecordInv, scene \in DOMAIN Scene,
         scm'.record = (IF scm.marked THEN 0 ELSE scm.record), scm'.marked = FALSE,
         program'[p].made = program[p].made, program'[p].gone = program[p].gone
  PROVE  RecordInv'
<1>1. Program' = Program /\ Given' = Given BY SceneStays DEF OneMoves
<1>2. \A q \in Program : program'[q].made = program[q].made /\ program'[q].gone = program[q].gone
  BY DEF OneMoves
<1>3. {q \in Program : program'[q].made} = {q \in Program : program[q].made} BY <1>2
<1>4. \A q \in Program :
        /\ program'[q].gone \subseteq {o \in Program : program'[o].made} \union {Given}
        /\ scm'.record # 0 /\ scm'.record \in program'[q].gone => scm'.marked
  BY <1>2, <1>3 DEF RecordInv, Present
<1>5. ASSUME NEW q \in Program, program'[q].made /\ (scm'.record # q \/ scm'.marked)
      PROVE  \E o \in Program : q \in program'[o].gone
  <2>1. PICK o \in Program : q \in program[o].gone BY <1>2, <1>5 DEF RecordInv
  <2>2. QED BY <1>2, <2>1
<1>6. QED BY <1>1, <1>4, <1>5 DEF RecordInv, Present

(* Who has a handle and whose guests run, after a step. *)
LEMMA OpenAfter ==
  ASSUME NEW p \in Program, OneMoves(p)
  PROVE  /\ Open' = IF program'[p].handle THEN Open \union {p} ELSE Open \ {p}
         /\ Monitors' = IF program'[p].at = "runs" THEN Monitors \union {p} ELSE Monitors \ {p}
         /\ Open \subseteq Program /\ Monitors \subseteq Program
<1>1. Program' = Program BY SceneStays DEF OneMoves
<1>2. \A q \in Program : q # p => program'[q] = program[q] BY DEF OneMoves
<1>3. Open' = {q \in Program : program'[q].handle} /\ Monitors' = {q \in Program : program'[q].at = "runs"}
  BY <1>1 DEF Open, Monitors
<1>4. Open = {q \in Program : program[q].handle} /\ Monitors = {q \in Program : program[q].at = "runs"}
  BY DEF Open, Monitors
<1>5. QED BY <1>2, <1>3, <1>4

(* The fields of the record and of the driver. *)
LEMMA RecordHas ==
  ASSUME NEW s \in ServiceRecords
  PROVE  /\ s.record \in Program \union {0, Given} /\ s.version \in Versions
         /\ s.state \in {"stopped", "running", "stopping"} /\ s.marked \in BOOLEAN
         /\ \A st \in {"stopped", "running", "stopping"} :
              LET t == [s EXCEPT !.state = st] IN
                /\ t \in ServiceRecords /\ t.record = s.record /\ t.version = s.version
                /\ t.state = st /\ t.marked = s.marked
         /\ \A o \in Program, v \in Versions :
              LET t == [s EXCEPT !.record = o, !.version = v] IN
                /\ t \in ServiceRecords /\ t.record = o /\ t.version = v
                /\ t.state = s.state /\ t.marked = s.marked
  BY DEF ServiceRecords

LEMMA StoppedHas ==
  ASSUME NEW s \in ServiceRecords
  PROVE  /\ Stopped(s) \in ServiceRecords /\ Stopped(s).state = "stopped"
         /\ Stopped(s).marked = FALSE /\ Stopped(s).version = s.version
         /\ Stopped(s).record = (IF s.marked THEN 0 ELSE s.record)
<1>1. PICK o \in Program \union {0, Given} : o = IF s.marked THEN 0 ELSE s.record
  BY RecordHas
<1>2. Stopped(s) = [s EXCEPT !.state = "stopped", !.marked = FALSE, !.record = o]
  BY <1>1 DEF Stopped, ServiceRecords
<1>3. PICK t : t = [s EXCEPT !.state = "stopped", !.marked = FALSE, !.record = o] OBVIOUS
<1>4. /\ t \in ServiceRecords /\ t.state = "stopped" /\ t.marked = FALSE
      /\ t.version = s.version /\ t.record = o
  BY <1>3 DEF ServiceRecords
<1>5. QED BY <1>1, <1>2, <1>3, <1>4

LEMMA DeletedHas ==
  ASSUME NEW s \in ServiceRecords
  PROVE  /\ Deleted(s) \in ServiceRecords /\ Deleted(s).state = s.state
         /\ Deleted(s).version = s.version
         /\ s.state = "stopped" => Deleted(s).record = 0 /\ Deleted(s).marked = s.marked
         /\ s.state # "stopped" => Deleted(s).record = s.record /\ Deleted(s).marked = TRUE
  BY DEF Deleted, ServiceRecords

States == {"none", "initialized", "not initialized"}

LEMMA DriverHas ==
  ASSUME NEW d \in Drivers
  PROVE  /\ d.loaded \in BOOLEAN /\ d.state \in States
         /\ d.monitors \in 0..Cardinality(Program) /\ d.version \in Versions
         /\ d.held \in {{}, Allocated} /\ d.lost \in SUBSET Allocated
         /\ d.wild \in SUBSET {"lock", "pgds"}
  BY DEF Drivers, States

(* d as e, but for the number of monitors and what was used although it is not there. *)
SameDriver(d, e) ==
  e.loaded = d.loaded /\ e.state = d.state /\ e.version = d.version /\ e.held = d.held /\ e.lost = d.lost

LEMMA MonitorsSet ==
  ASSUME NEW d \in Drivers, NEW n \in 0..Cardinality(Program), NEW e, e = [d EXCEPT !.monitors = n]
  PROVE  e \in Drivers /\ SameDriver(d, e) /\ e.monitors = n /\ e.wild = d.wild
  BY DEF Drivers, SameDriver

LEMMA WildSet ==
  ASSUME NEW d \in Drivers, NEW W \in SUBSET {"lock", "pgds"}, NEW e, e = [d EXCEPT !.wild = W]
  PROVE  e \in Drivers /\ SameDriver(d, e) /\ e.monitors = d.monitors /\ e.wild = W
  BY DEF Drivers, SameDriver

LEMMA UnloadHas ==
  ASSUME NEW d \in Drivers, d.held = (IF d.state = "initialized" THEN Allocated ELSE {}),
         scene \in DOMAIN Scene
  PROVE  LET u == co_manager_unload(d) IN
           /\ u \in Drivers /\ u.loaded = FALSE /\ u.state = "none" /\ u.monitors = 0
           /\ u.held = {} /\ u.lost = d.lost /\ u.wild = d.wild
<1>1. d.lost \in SUBSET Allocated /\ d.wild \in SUBSET {"lock", "pgds"} BY DriverHas
<1>2. d.lost \union (IF d.state = "initialized" THEN {} ELSE d.held) = d.lost OBVIOUS
<1>3. PICK L \in SUBSET Allocated, W \in SUBSET {"lock", "pgds"}, M \in 0..Cardinality(Program) :
        L = d.lost /\ W = d.wild /\ M = 0
  BY <1>1, ProgramsFinite
<1>4. co_manager_unload(d) = [Unloaded EXCEPT !.wild = W, !.lost = L]
  BY <1>2, <1>3 DEF co_manager_unload
<1>5. PICK u : u = [Unloaded EXCEPT !.wild = W, !.lost = L] OBVIOUS
<1>6. u = [loaded |-> FALSE, state |-> "none", monitors |-> 0, version |-> "none",
           held |-> {}, lost |-> L, wild |-> W]
  BY <1>5 DEF Unloaded
<1>7. /\ u.loaded = FALSE /\ u.state = "none" /\ u.monitors = 0
      /\ u.held = {} /\ u.lost = L /\ u.wild = W
  BY <1>6
<1>8. u \in Drivers
  <2>1. PICK H \in {{}, Allocated} : H = {} OBVIOUS
  <2>2. PICK V \in Versions : V = "none" BY SceneHas
  <2>3. u = [loaded |-> FALSE, state |-> "none", monitors |-> M, version |-> V,
             held |-> H, lost |-> L, wild |-> W]
    BY <1>3, <1>6, <2>1, <2>2
  <2>4. QED BY <2>3 DEF Drivers
<1>9. QED BY <1>3, <1>4, <1>5, <1>7, <1>8

(* A driver that is started: initialized, or left by a load that failed with what its last step
   kept; DriverEntry frees everything else (NothingForgotten). *)
LEMMA EntryHas ==
  ASSUME NEW version \in Versions, NEW e \in DriverEntry(version), driver \in Drivers,
         driver.held = {}, driver.lost \subseteq {"osdep", "pfns", "pgds"}, scene \in DOMAIN Scene
  PROVE  /\ e \in Drivers /\ e.loaded = TRUE /\ e.version = version /\ e.monitors = 0
         /\ e.state \in {"initialized", "not initialized"}
         /\ e.held = (IF e.state = "initialized" THEN Allocated ELSE {})
         /\ e.lost \subseteq {"osdep", "pfns", "pgds"}
         /\ "load" \notin Playing.faults =>
              e.state = "initialized" /\ e.lost = driver.lost /\ e.wild = driver.wild
<1>0. 0 \in 0..Cardinality(Program) BY ProgramsFinite
<1> DEFINE Start == [driver EXCEPT !.loaded = TRUE, !.version = version, !.monitors = 0]
<1>1. PICK d : d = Start OBVIOUS
<1>2. /\ d \in Drivers /\ d.loaded = TRUE /\ d.version = version /\ d.monitors = 0
      /\ d.held = {} /\ d.lost = driver.lost /\ d.wild = driver.wild
  BY <1>0, <1>1 DEF Drivers
<1>3. PICK l : l = Loads(d) OBVIOUS
<1>4. /\ l \in Drivers /\ l.loaded = TRUE /\ l.version = version /\ l.monitors = 0
      /\ l.state = "initialized" /\ l.held = Allocated /\ l.lost = driver.lost
      /\ l.wild = driver.wild
  BY <1>2, <1>3 DEF Loads, Drivers
<1>5. \/ e = l
      \/ "load" \in Playing.faults /\ e = [l EXCEPT !.wild = l.wild \union {"pgds"}]
      \/ "load" \in Playing.faults /\ \E k \in DOMAIN LoadStep : \E kept \in Keeps(k) :
           e = LoadFails(d, k, kept)
  <2>1. e \in {Loads(d)} \union
          (IF "load" \notin Playing.faults THEN {}
           ELSE {[Loads(d) EXCEPT !.wild = Loads(d).wild \union {"pgds"}]}
                  \union UNION {{LoadFails(d, k, kept) : kept \in Keeps(k)} : k \in DOMAIN LoadStep})
    BY <1>1 DEF DriverEntry
  <2>2. QED BY <1>3, <2>1
<1>6. CASE e = l
  <2>1. driver.lost \in SUBSET Allocated BY DriverHas
  <2>2. QED BY <1>4, <1>6, <2>1
<1>7. CASE "load" \in Playing.faults /\ e = [l EXCEPT !.wild = l.wild \union {"pgds"}]
  <2>1. l.wild \union {"pgds"} \in SUBSET {"lock", "pgds"} BY <1>4, DriverHas
  <2>2. PICK W \in SUBSET {"lock", "pgds"} : W = l.wild \union {"pgds"} BY <2>1
  <2>3. e = [l EXCEPT !.wild = W] BY <1>7, <2>2
  <2>4. e \in Drivers /\ SameDriver(l, e) /\ e.monitors = l.monitors BY <1>4, <2>3, WildSet
  <2>5. QED BY <1>4, <1>7, <2>4 DEF SameDriver
<1>8. CASE "load" \in Playing.faults /\ \E k \in DOMAIN LoadStep : \E kept \in Keeps(k) :
             e = LoadFails(d, k, kept)
  <2>1. PICK k \in DOMAIN LoadStep : \E kept \in Keeps(k) : e = LoadFails(d, k, kept) BY <1>8
  <2>2. PICK kept \in Keeps(k) : e = LoadFails(d, k, kept) BY <2>1
  <2>3. kept \subseteq {"osdep", "pfns", "pgds"}
    BY DEF Keeps, co_manager_arch_init, co_os_manager_init, co_manager_alloc_reversed_pfns
  <2>4. DoneBefore(k) \ ErrorPath(k) = {} BY DEF ErrorPath
  <2>5. PICK L \in SUBSET {"osdep", "pfns", "pgds"} : L = d.lost \union (DoneBefore(k) \ ErrorPath(k)) \union kept
    BY <1>2, <2>3, <2>4
  <2>6. e = [d EXCEPT !.state = "not initialized", !.lost = L] BY <2>2, <2>5 DEF LoadFails
  <2>7. L \in SUBSET Allocated BY DEF Allocated
  <2>8. /\ e \in Drivers /\ e.loaded = TRUE /\ e.version = version /\ e.monitors = 0
        /\ e.state = "not initialized" /\ e.held = {} /\ e.lost = L
    BY <1>2, <2>6, <2>7 DEF Drivers
  <2>9. QED BY <1>8, <2>8
<1>9. QED BY <1>5, <1>6, <1>7, <1>8

LEMMA MonitorsOpen ==
  ASSUME StationInv
  PROVE  Monitors \subseteq Open
  BY DEF StationInv, Station, Monitors, Open

LEMMA OneBecomes ==
  ASSUME ControlInv, scene' = scene, NEW p \in Program, NEW r \in Programs, Becomes(p, r)
  PROVE  OneMoves(p) /\ program'[p] = r
  BY Became, SceneStays DEF ControlInv, ControlTypeOK, OneMoves

(* The driver is used as before. *)
LEMMA UseStays ==
  ASSUME UseInv, scene' = scene, scm'.state = scm.state, driver.loaded => scm'.record # 0,
         scm'.record # 0 => scm'.version # "none", driver' = driver, Open' = Open,
         Monitors' = Monitors
  PROVE  UseInv'
<1>1. Playing' = Playing BY SceneStays
<1>2. Present' <=> scm'.record # 0 BY DEF Present
<1>3. QED BY <1>1, <1>2 DEF UseInv

(* A handle is closed, and maybe a monitor is not counted any more. *)
LEMMA UseSettles ==
  ASSUME ControlInv, NEW p \in Program, OneMoves(p), NEW d \in Drivers, SameDriver(driver, d),
         d.wild = driver.wild, program[p].handle, ~program'[p].handle,
         program'[p].at # "runs", d.monitors = Cardinality(Monitors'), Settles(Open \ {p}, d),
         program'[p].made = program[p].made, program'[p].gone = program[p].gone
  PROVE  UseInv' /\ RecordInv' /\ driver' \in Drivers /\ scm' \in ServiceRecords
<1>1. /\ scene \in DOMAIN Scene /\ scm \in ServiceRecords /\ driver \in Drivers /\ StationInv
      /\ UseInv /\ RecordInv /\ scene' = scene
  BY DEF ControlInv, ControlTypeOK, OneMoves
<1>2. Open' = Open \ {p} /\ Monitors' = Monitors \ {p} /\ p \in Open
  BY OpenAfter DEF Open
<1>3. /\ Playing' = Playing /\ (Present' <=> scm'.record # 0)
  BY <1>1, SceneStays DEF Present
<1>4. Monitors \subseteq Open /\ Monitors' \subseteq Open' BY <1>1, <1>2, MonitorsOpen
<1>5. CASE scm.state = "stopping" /\ Open \ {p} = {}
  <2>1. scm' = Stopped(scm) /\ driver' = co_manager_unload(d) BY <1>5 DEF Settles
  <2>2. /\ Stopped(scm) \in ServiceRecords /\ Stopped(scm).state = "stopped"
        /\ Stopped(scm).marked = FALSE /\ Stopped(scm).version = scm.version
        /\ Stopped(scm).record = (IF scm.marked THEN 0 ELSE scm.record)
    BY <1>1, StoppedHas
  <2>3. d.held = (IF d.state = "initialized" THEN Allocated ELSE {})
    BY <1>1 DEF UseInv, SameDriver
  <2>4. /\ driver' \in Drivers /\ driver'.loaded = FALSE /\ driver'.state = "none"
        /\ driver'.monitors = 0 /\ driver'.held = {} /\ driver'.lost = d.lost
        /\ driver'.wild = d.wild
    BY <1>1, <2>1, <2>3, UnloadHas
  <2>5. Open' = {} /\ Monitors' = {} BY <1>2, <1>4, <1>5
  <2>6. Cardinality(Monitors') = 0 BY <2>5, FS_EmptySet
  <2>7. /\ driver'.lost \subseteq {"osdep", "pfns", "pgds"}
        /\ "load" \notin Playing.faults => driver'.lost = {} /\ driver'.wild = {}
    BY <1>1, <2>4 DEF UseInv, SameDriver
  <2>8. Present' => scm'.version # "none" BY <1>1, <1>3, <2>1, <2>2 DEF UseInv, Present
  <2>9. UseInv' BY <1>3, <2>1, <2>2, <2>4, <2>5, <2>6, <2>7, <2>8 DEF UseInv
  <2>10. RecordInv' BY <1>1, <2>1, <2>2, RecordStops
  <2>11. QED BY <2>1, <2>2, <2>4, <2>9, <2>10
<1>6. CASE ~(scm.state = "stopping" /\ Open \ {p} = {})
  <2>1. scm' = scm /\ driver' = d BY <1>6 DEF Settles
  <2>2. UseInv' BY <1>1, <1>2, <1>3, <1>6, <2>1 DEF UseInv, SameDriver, Present
  <2>3. RecordInv' BY <1>1, <2>1, RecordStay DEF RecordInv
  <2>4. QED BY <1>1, <2>1, <2>2, <2>3
<1>7. QED BY <1>5, <1>6

(* A program goes on with what it has and knows. *)
LEMMA OneGoesOn ==
  ASSUME ControlInv, NEW p \in Program, OneMoves(p), GoesOn(program[p], program'[p]),
         Alike(program[p], program'[p]), Station(p, Does(p), program'[p]), registry' = registry,
         scm' \in ServiceRecords, driver' \in Drivers, UseInv', RecordInv'
  PROVE  ControlInv'
<1>1. scene' = scene /\ program' \in [Program -> Programs] BY Zenon DEF OneMoves
<1>2. scene' \in DOMAIN Scene BY <1>1 DEF ControlInv
<1>3. ControlTypeOK' BY <1>1, SceneStays DEF ControlInv, ControlTypeOK
<1>4. StationInv' BY StationsStay DEF ControlInv
<1>5. KnowsInv' BY KnowsStay DEF ControlInv, Alike
<1>6. MacInv' BY MacStay DEF ControlInv, ControlTypeOK, Alike
<1>7. QED BY <1>2, <1>3, <1>4, <1>5, <1>6 DEF ControlInv

(* The same, where the driver and its record stay and no handle is opened or closed. *)
LEMMA OneGoesOnAlone ==
  ASSUME ControlInv, NEW p \in Program, OneMoves(p), GoesOn(program[p], program'[p]),
         Alike(program[p], program'[p]), Station(p, Does(p), program'[p]), registry' = registry,
         UNCHANGED <<scm, driver>>, program'[p].handle = program[p].handle,
         program'[p].at = "runs" <=> program[p].at = "runs"
  PROVE  ControlInv'
<1>1. scm' = scm /\ driver' = driver /\ scene' = scene BY DEF OneMoves
<1>2. Open' = Open /\ Monitors' = Monitors BY OpenAfter DEF Open, Monitors
<1>3. scm \in ServiceRecords /\ driver \in Drivers /\ UseInv /\ RecordInv
  BY DEF ControlInv, ControlTypeOK
<1>4. UseInv' BY <1>1, <1>2, <1>3, UseStays DEF UseInv, Present
<1>5. RecordInv' BY <1>1, <1>3, RecordStay DEF RecordInv, Alike
<1>6. scm' \in ServiceRecords /\ driver' \in Drivers BY <1>1, <1>3
<1>7. QED BY <1>4, <1>5, <1>6, OneGoesOn, Zenon

LEMMA ControlInvHas ==
  ASSUME ControlInv, NEW p \in Program
  PROVE  /\ scene \in DOMAIN Scene /\ program[p] \in Programs /\ Station(p, Does(p), program[p])
         /\ scm \in ServiceRecords /\ driver \in Drivers /\ UseInv /\ RecordInv
         /\ registry \in [0..Cardinality(Program) -> Program \union {0}] /\ Does(p) \in Command
         /\ program \in [Program -> Programs]
  BY SceneHas DEF ControlInv, ControlTypeOK, StationInv

(* The programs' steps, one lemma for each.  A step that only takes the program to another
   station: *)
LEMMA ToStation ==
  ASSUME ControlInv, NEW p \in Program, NEW at \in Ats \ {"runs", "start", "ended"}, scene' = scene,
         Becomes(p, ProgramAt(p, at)), UNCHANGED <<scm, driver, registry>>,
         program[p].at \notin {"runs", "ended"}, Station(p, Does(p), ProgramAt(p, at))
  PROVE  ControlInv'
<1>1. program[p] \in Programs BY ControlInvHas
<1>2. PICK r : r = ProgramAt(p, at) OBVIOUS
<1>3. r \in Programs /\ r.at = at /\ r.handle = program[p].handle /\ Alike(program[p], r)
  BY <1>1, <1>2, AtSet DEF ProgramAt
<1>4. OneMoves(p) /\ program'[p] = r BY <1>2, <1>3, OneBecomes
<1>5. GoesOn(program[p], r) /\ (r.at = "runs" <=> program[p].at = "runs") BY <1>3 DEF GoesOn
<1>6. QED BY <1>2, <1>3, <1>4, <1>5, OneGoesOnAlone

(* A step that ends the program, which keeps its handle: *)
LEMMA ToEnd ==
  ASSUME ControlInv, NEW p \in Program, NEW rc, scene' = scene,
         Becomes(p, Exits(program[p], rc)), UNCHANGED <<scm, driver, registry>>,
         program[p].at \notin {"runs", "ended"},
         Does(p) = "remove" /\ rc = "ok" => program[p].knows = {}
  PROVE  ControlInv'
<1>1. program[p] \in Programs /\ Station(p, Does(p), program[p]) BY ControlInvHas
<1>2. PICK r : r = Exits(program[p], rc) OBVIOUS
<1>3. /\ r \in Programs /\ r.at = "ended" /\ r.handle = program[p].handle /\ Alike(program[p], r)
      /\ (r.rc = "ok" <=> rc = "ok")
  BY <1>1, <1>2, Exited
<1>4. OneMoves(p) /\ program'[p] = r BY <1>2, <1>3, OneBecomes
<1>5. GoesOn(program[p], r) /\ (r.at = "runs" <=> program[p].at = "runs") BY <1>3 DEF GoesOn
<1>6. Station(p, Does(p), r) BY <1>1, <1>3 DEF Station, Alike
<1>7. QED BY <1>3, <1>4, <1>5, <1>6, OneGoesOnAlone

LEMMA IsInstalledKeeps == ASSUME ControlInv, NEW p \in Program, IsInstalled(p) PROVE ControlInv'
<1>1. program[p] \in Programs /\ Station(p, Does(p), program[p]) /\ Does(p) \in Command
  BY ControlInvHas
<1>2. program[p].at = "start" /\ scene' = scene /\ UNCHANGED <<scm, driver, registry>>
      /\ Does(p) # "daemon"
  BY DEF IsInstalled, IsAt
<1>3. ASSUME NEW rc, Becomes(p, Exits(program[p], rc)), rc = "ok" => Does(p) = "install"
      PROVE  ControlInv'
  BY <1>2, <1>3, ToEnd
<1>4. ASSUME NEW at \in {"create", "open"}, Becomes(p, ProgramAt(p, at)),
             at = "create" => Does(p) = "install"
      PROVE  ControlInv'
  <2>1. at \in Ats \ {"runs", "start", "ended"} BY DEF Ats
  <2>2. /\ ProgramAt(p, at).at = at /\ ProgramAt(p, at).rc = program[p].rc
        /\ ProgramAt(p, at).handle = program[p].handle /\ Alike(program[p], ProgramAt(p, at))
    BY <1>1, <2>1, AtSet DEF ProgramAt
  <2>3. Station(p, Does(p), ProgramAt(p, at)) BY <1>1, <1>2, <1>4, <2>2 DEF Station, Alike
  <2>4. QED BY <1>2, <1>4, <2>1, <2>3, ToStation
<1>5. \/ \E rc \in {"access denied", "no access"} : Becomes(p, Exits(program[p], rc))
      \/ Does(p) = "install" /\ Becomes(p, Exits(program[p], "ok"))
      \/ Does(p) = "install" /\ Becomes(p, ProgramAt(p, "create"))
      \/ Becomes(p, ProgramAt(p, "open"))
      \/ Becomes(p, Exits(program[p], "no access"))
  BY DEF IsInstalled
<1>6. QED BY <1>3, <1>4, <1>5

LEMMA StartDriverKeeps == ASSUME ControlInv, NEW p \in Program, StartDriver(p) PROVE ControlInv'
<1>1. /\ program[p] \in Programs /\ Station(p, Does(p), program[p]) /\ scm \in ServiceRecords
      /\ driver \in Drivers /\ UseInv /\ RecordInv /\ scene \in DOMAIN Scene
  BY ControlInvHas
<1>2. program[p].at = "launch" /\ scene' = scene /\ registry' = registry
  BY DEF StartDriver, IsAt
<1>3. \A at \in {"undo", "open"} :
        /\ at \in Ats \ {"runs", "start", "ended"} /\ ProgramAt(p, at) \in Programs
        /\ ProgramAt(p, at).at = at /\ ProgramAt(p, at).rc = program[p].rc
        /\ ProgramAt(p, at).handle = program[p].handle /\ Alike(program[p], ProgramAt(p, at))
  <2>1. {"undo", "open"} \subseteq Ats \ {"runs", "start", "ended"} BY DEF Ats
  <2>2. QED BY <1>1, <2>1, AtSet DEF ProgramAt
<1>4. \A at \in {"undo", "open"} : Station(p, Does(p), ProgramAt(p, at))
  BY <1>1, <1>2, <1>3 DEF Station, Alike
<1>5. CASE Becomes(p, ProgramAt(p, "undo")) /\ UNCHANGED <<scm, driver>>
  BY <1>2, <1>3, <1>4, <1>5, ToStation
<1>6. CASE /\ Present /\ ~scm.marked /\ scm.state = "stopped"
           /\ driver' \in DriverEntry(scm.version)
           /\ scm' = [scm EXCEPT !.state = "running"] /\ Becomes(p, ProgramAt(p, "open"))
  <2>1. PICK r : r = ProgramAt(p, "open") OBVIOUS
  <2>2. r \in Programs /\ r.at = "open" /\ r.handle = program[p].handle /\ Alike(program[p], r)
    BY <1>3, <2>1
  <2>3. OneMoves(p) /\ program'[p] = r BY <1>2, <1>6, <2>1, <2>2, OneBecomes
  <2>4. ~program[p].handle /\ program[p].at = "launch" BY <1>1, <1>2 DEF Station
  <2>5. Open' = Open /\ Monitors' = Monitors
    BY <2>2, <2>3, <2>4, OpenAfter DEF Open, Monitors
  <2>6. ~driver.loaded /\ driver.state = "none" /\ driver.held = {} /\ Open = {}
        /\ driver.lost \subseteq {"osdep", "pfns", "pgds"}
    BY <1>1, <1>6 DEF UseInv
  <2>7. Monitors = {} BY <2>6, MonitorsOpen DEF ControlInv
  <2>8. /\ scm' \in ServiceRecords /\ scm'.record = scm.record /\ scm'.version = scm.version
        /\ scm'.state = "running" /\ scm'.marked = scm.marked
    <3>1. scm' = [scm EXCEPT !.state = "running"] BY <1>6
    <3>2. QED BY <1>1, <3>1 DEF ServiceRecords
  <2>9. scm.version \in Versions /\ scm.version # "none"
    BY <1>1, <1>6, RecordHas DEF UseInv
  <2>10. PICK v \in Versions : v = scm.version BY <2>9
  <2>11. driver' \in DriverEntry(v) BY <1>6, <2>10
  <2>12. /\ driver' \in Drivers /\ driver'.loaded = TRUE /\ driver'.version = v
         /\ driver'.monitors = 0 /\ driver'.state \in {"initialized", "not initialized"}
         /\ driver'.held = (IF driver'.state = "initialized" THEN Allocated ELSE {})
         /\ driver'.lost \subseteq {"osdep", "pfns", "pgds"}
         /\ "load" \notin Playing.faults =>
              driver'.state = "initialized" /\ driver'.lost = driver.lost /\ driver'.wild = driver.wild
    <3>1. PICK e \in DriverEntry(v) : e = driver' BY <2>11
    <3>2. /\ e \in Drivers /\ e.loaded = TRUE /\ e.version = v /\ e.monitors = 0
          /\ e.state \in {"initialized", "not initialized"}
          /\ e.held = (IF e.state = "initialized" THEN Allocated ELSE {})
          /\ e.lost \subseteq {"osdep", "pfns", "pgds"}
          /\ "load" \notin Playing.faults =>
               e.state = "initialized" /\ e.lost = driver.lost /\ e.wild = driver.wild
      <4>1. driver \in Drivers /\ driver.held = {} /\ scene \in DOMAIN Scene
            /\ driver.lost \subseteq {"osdep", "pfns", "pgds"}
        BY <1>1, <2>6
      <4>2. QED BY <4>1, EntryHas
    <3>3. QED BY <3>1, <3>2
  <2>13. Cardinality(Monitors') = 0 BY <2>5, <2>7, FS_EmptySet
  <2>14. Playing' = Playing /\ (Present' <=> scm'.record # 0) BY <1>2, SceneStays DEF Present
  <2>15. "load" \notin Playing.faults => driver.lost = {} /\ driver.wild = {} BY <1>1 DEF UseInv
  <2>16. scm.record # 0 BY <1>6 DEF Present
  <2>17. UseInv'
    BY <2>5, <2>6, <2>8, <2>9, <2>10, <2>12, <2>13, <2>14, <2>15, <2>16 DEF UseInv
  <2>18. RecordInv' BY <1>1, <1>6, <2>2, <2>3, <2>8, RecordStay DEF Alike
  <2>19. GoesOn(program[p], r) BY <1>2, <2>2 DEF GoesOn
  <2>20. Station(p, Does(p), r) BY <1>4, <2>1
  <2>21. QED BY <1>2, <2>2, <2>3, <2>8, <2>12, <2>17, <2>18, <2>19, <2>20, OneGoesOn
<1>7. QED BY <1>5, <1>6 DEF StartDriver

LEMMA StopDriverKeeps == ASSUME ControlInv, NEW p \in Program, StopDriver(p) PROVE ControlInv'
<1>1. /\ program[p] \in Programs /\ Station(p, Does(p), program[p]) /\ scm \in ServiceRecords
      /\ driver \in Drivers /\ UseInv /\ RecordInv /\ scene \in DOMAIN Scene
  BY ControlInvHas
<1>2. program[p].at = "stop" /\ scene' = scene /\ registry' = registry BY DEF StopDriver, IsAt
<1>3. PICK r : r = ProgramAt(p, "delete") OBVIOUS
<1>4. /\ r \in Programs /\ r.at = "delete" /\ r.rc = program[p].rc
      /\ r.handle = program[p].handle /\ Alike(program[p], r)
  <2>1. "delete" \in Ats BY DEF Ats
  <2>2. QED BY <1>1, <1>3, <2>1, AtSet DEF ProgramAt
<1>5. Station(p, Does(p), r) BY <1>1, <1>2, <1>4 DEF Station, Alike
<1>6. CASE Becomes(p, Exits(program[p], program[p].rc)) /\ UNCHANGED <<scm, driver>>
  <2>1. Does(p) = "remove" /\ program[p].rc = "ok" => program[p].knows = {} BY <1>1 DEF Station
  <2>2. QED BY <1>2, <1>6, <2>1, ToEnd
<1>7. CASE Becomes(p, r) /\ UNCHANGED <<scm, driver>>
  <2>1. "delete" \in Ats \ {"runs", "start", "ended"} BY DEF Ats
  <2>2. QED BY <1>2, <1>3, <1>5, <1>7, <2>1, ToStation
<1>8. CASE /\ DriverRuns /\ Becomes(p, r)
           /\ IF Open = {} THEN scm' = Stopped(scm) /\ driver' = co_manager_unload(driver)
              ELSE scm' = [scm EXCEPT !.state = "stopping"] /\ UNCHANGED driver
  <2>1. OneMoves(p) /\ program'[p] = r BY <1>2, <1>4, <1>8, OneBecomes
  <2>2. ~program[p].handle BY <1>1, <1>2 DEF Station
  <2>3. Open' = Open /\ Monitors' = Monitors
    BY <1>2, <1>4, <2>1, <2>2, OpenAfter DEF Open, Monitors
  <2>4. Playing' = Playing /\ (Present' <=> scm'.record # 0) BY <1>2, SceneStays DEF Present
  <2>5. /\ scm' \in ServiceRecords /\ driver' \in Drivers /\ UseInv' /\ RecordInv'
    <3>1. CASE Open = {}
      <4>1. scm' = Stopped(scm) /\ driver' = co_manager_unload(driver) BY <1>8, <3>1
      <4>2. /\ Stopped(scm) \in ServiceRecords /\ Stopped(scm).state = "stopped"
            /\ Stopped(scm).marked = FALSE /\ Stopped(scm).version = scm.version
            /\ Stopped(scm).record = (IF scm.marked THEN 0 ELSE scm.record)
        BY <1>1, StoppedHas
      <4>3. driver.held = (IF driver.state = "initialized" THEN Allocated ELSE {})
        BY <1>1 DEF UseInv
      <4>4. /\ driver' \in Drivers /\ driver'.loaded = FALSE /\ driver'.state = "none"
            /\ driver'.monitors = 0 /\ driver'.held = {} /\ driver'.lost = driver.lost
            /\ driver'.wild = driver.wild
        BY <1>1, <4>1, <4>3, UnloadHas
      <4>5. Monitors' = {} BY <2>3, <3>1, MonitorsOpen DEF ControlInv
      <4>6. Cardinality(Monitors') = 0 BY <4>5, FS_EmptySet
      <4>7. /\ driver'.lost \subseteq {"osdep", "pfns", "pgds"}
            /\ "load" \notin Playing.faults => driver'.lost = {} /\ driver'.wild = {}
        BY <1>1, <4>4 DEF UseInv
      <4>8. Present' => scm'.version # "none" BY <1>1, <2>4, <4>1, <4>2 DEF UseInv, Present
      <4>9. UseInv' BY <2>3, <2>4, <3>1, <4>1, <4>2, <4>4, <4>6, <4>7, <4>8 DEF UseInv
      <4>10. RecordInv' BY <1>1, <1>4, <2>1, <4>1, <4>2, RecordStops DEF Alike
      <4>11. QED BY <4>1, <4>2, <4>4, <4>9, <4>10
    <3>2. CASE Open # {}
      <4>1. scm' = [scm EXCEPT !.state = "stopping"] /\ driver' = driver BY <1>8, <3>2
      <4>2. /\ scm' \in ServiceRecords /\ scm'.record = scm.record /\ scm'.version = scm.version
            /\ scm'.state = "stopping" /\ scm'.marked = scm.marked
        <5>1. scm' = [scm EXCEPT !.state = "stopping"] BY <4>1
        <5>2. QED BY <1>1, <5>1 DEF ServiceRecords
      <4>3. UseInv' BY <1>1, <2>3, <2>4, <3>2, <4>1, <4>2 DEF UseInv, Present
      <4>4. RecordInv' BY <1>1, <1>4, <2>1, <4>2, RecordStay DEF Alike
      <4>5. QED BY <1>1, <4>1, <4>2, <4>3, <4>4
    <3>3. QED BY <3>1, <3>2
  <2>6. GoesOn(program[p], r) BY <1>2 DEF GoesOn
  <2>7. QED BY <1>2, <1>4, <1>5, <2>1, <2>5, <2>6, OneGoesOn
<1>9. QED BY <1>3, <1>6, <1>7, <1>8 DEF StopDriver

LEMMA OpenDriverKeeps == ASSUME ControlInv, NEW p \in Program, OpenDriver(p) PROVE ControlInv'
<1>1. /\ program[p] \in Programs /\ Station(p, Does(p), program[p]) /\ scm \in ServiceRecords
      /\ driver \in Drivers /\ UseInv /\ RecordInv /\ scene \in DOMAIN Scene /\ Does(p) \in Command
  BY ControlInvHas
<1>2. /\ program[p].at \in {"open", "start"} /\ scene' = scene /\ registry' = registry /\ scm' = scm
      /\ program[p].at = "start" => Does(p) = "daemon"
  BY DEF OpenDriver, IsAt
<1>3. ~program[p].handle BY <1>1, <1>2 DEF Station
<1>4. CASE Becomes(p, NotOpened(p)) /\ UNCHANGED driver
  <2>1. CASE Does(p) = "remove"
    <3>1. PICK a : a = ProgramAt(p, "stop") OBVIOUS
    <3>2. a \in Programs /\ a.at = "stop" /\ a.handle = program[p].handle /\ Alike(program[p], a)
      <4>1. "stop" \in Ats BY DEF Ats
      <4>2. QED BY <1>1, <3>1, <4>1, AtSet DEF ProgramAt
    <3>3. PICK r : r = [a EXCEPT !.rc = "no access"] OBVIOUS
    <3>4. /\ r \in Programs /\ r.at = "stop" /\ r.rc = "no access"
          /\ r.handle = program[p].handle /\ Alike(program[p], r)
      <4>1. PICK c \in Codes : c = "no access" BY DEF Codes
      <4>2. r \in Programs /\ r.at = a.at /\ r.rc = "no access" /\ r.handle = a.handle /\ Alike(a, r)
        <5>1. a \in Programs /\ r = [a EXCEPT !.rc = c] BY <3>2, <3>3, <4>1
        <5>2. r \in Programs /\ r.at = a.at /\ r.rc = c /\ r.handle = a.handle /\ Alike(a, r)
          BY <5>1, CodeSet
        <5>3. QED BY <4>1, <5>2
      <4>3. QED BY <3>2, <4>2 DEF Alike
    <3>5. Becomes(p, r) BY <1>4, <2>1, <3>1, <3>3 DEF NotOpened
    <3>6. OneMoves(p) /\ program'[p] = r BY <1>2, <3>4, <3>5, OneBecomes
    <3>7. Station(p, Does(p), r) BY <1>1, <1>2, <2>1, <3>4 DEF Station, Alike
    <3>8. GoesOn(program[p], r) BY <1>2 DEF GoesOn
    <3>9. program[p].at # "runs" /\ UNCHANGED <<scm, driver>> BY <1>2, <1>4
    <3>10. QED BY <1>2, <3>4, <3>6, <3>7, <3>8, <3>9, OneGoesOnAlone
  <2>2. CASE Does(p) # "remove"
    <3>1. PICK rc \in {"error", "no access"} : Becomes(p, Exits(program[p], rc))
      BY <1>4, <2>2 DEF NotOpened
    <3>2. QED BY <1>2, <1>4, <2>2, <3>1, ToEnd
  <2>3. QED BY <2>1, <2>2
<1>5. CASE /\ DriverRuns /\ driver.state # "initialized"
           /\ driver' = [driver EXCEPT !.wild = @ \union {"lock"}] /\ UNCHANGED program
  <2>1. PICK W \in SUBSET {"lock", "pgds"} : W = driver.wild \union {"lock"}
    BY <1>1, DriverHas
  <2>2. driver' = [driver EXCEPT !.wild = W] BY <1>5, <2>1
  <2>3. driver' \in Drivers /\ SameDriver(driver, driver') /\ driver'.monitors = driver.monitors
    BY <1>1, <2>2, WildSet
  <2>4. driver.loaded /\ driver.state = "not initialized"
    BY <1>1, <1>5, DriverHas DEF UseInv, DriverRuns, States
  <2>5. /\ Program' = Program /\ Playing' = Playing /\ Given' = Given
        /\ Drivers' = Drivers /\ ServiceRecords' = ServiceRecords /\ Programs' = Programs
        /\ program' = program /\ \A q : Does(q)' = Does(q)
    BY <1>2, <1>5, SceneStays
  <2>6. Open' = Open /\ Monitors' = Monitors /\ (Present' <=> Present)
    BY <1>2, <2>5 DEF Open, Monitors, Present
  <2>7. UseInv' BY <1>1, <1>2, <2>3, <2>4, <2>5, <2>6 DEF UseInv, SameDriver
  <2>8. RecordInv' BY <1>1, <1>2, <2>5, <2>6 DEF RecordInv
  <2>9. StationInv' BY <2>5 DEF ControlInv, StationInv
  <2>10. KnowsInv' BY <2>5 DEF ControlInv, KnowsInv
  <2>11. MacInv' BY <1>2, <2>5 DEF ControlInv, MacInv
  <2>12. ControlTypeOK' BY <1>2, <2>3, <2>5 DEF ControlInv, ControlTypeOK
  <2>13. scene' \in DOMAIN Scene BY <1>1, <1>2
  <2>14. QED BY <2>7, <2>8, <2>9, <2>10, <2>11, <2>12, <2>13 DEF ControlInv
<1>6. CASE /\ DriverRuns /\ driver.state = "initialized" /\ UNCHANGED driver
           /\ LET r == IF Does(p) = "install" THEN Exits(program[p], "ok") ELSE ProgramAt(p, "ask")
              IN Becomes(p, [r EXCEPT !.handle = TRUE])
  <2>1. PICK e : e = IF Does(p) = "install" THEN Exits(program[p], "ok") ELSE ProgramAt(p, "ask")
    OBVIOUS
  <2>2. /\ e \in Programs /\ Alike(program[p], e)
        /\ e.at = (IF Does(p) = "install" THEN "ended" ELSE "ask")
        /\ e.rc = (IF Does(p) = "install" THEN "ok" ELSE program[p].rc)
    <3>1. "ask" \in Ats BY DEF Ats
    <3>2. /\ ProgramAt(p, "ask") \in Programs /\ Alike(program[p], ProgramAt(p, "ask"))
          /\ ProgramAt(p, "ask").at = "ask" /\ ProgramAt(p, "ask").rc = program[p].rc
      BY <1>1, <3>1, AtSet DEF ProgramAt
    <3>3. /\ Exits(program[p], "ok") \in Programs /\ Alike(program[p], Exits(program[p], "ok"))
          /\ Exits(program[p], "ok").at = "ended" /\ Exits(program[p], "ok").rc = "ok"
      BY <1>1, Exited DEF ExitCode
    <3>4. QED BY <2>1, <3>2, <3>3
  <2>3. PICK r : r = [e EXCEPT !.handle = TRUE] OBVIOUS
  <2>4. r \in Programs /\ Alike(e, r) /\ r.at = e.at /\ r.rc = e.rc /\ r.handle = TRUE
    BY <2>2, <2>3, HandleSet
  <2>5. Becomes(p, r) BY <1>6, <2>1, <2>3
  <2>6. OneMoves(p) /\ program'[p] = r BY <1>2, <2>4, <2>5, OneBecomes
  <2>7. Open' = Open \union {p} /\ Monitors' = Monitors
    BY <1>2, <2>2, <2>4, <2>6, OpenAfter DEF Monitors
  <2>8. driver' = driver BY <1>6
  <2>9. Playing' = Playing /\ (Present' <=> Present) BY <1>2, SceneStays DEF Present
  <2>10. UseInv' BY <1>1, <1>2, <1>6, <2>7, <2>8, <2>9 DEF UseInv, DriverRuns
  <2>11. Alike(program[p], r) BY <2>2, <2>4 DEF Alike
  <2>12. RecordInv' BY <1>1, <1>2, <2>6, <2>11, RecordStay DEF RecordInv, Alike
  <2>13. Station(p, Does(p), r) BY <1>1, <1>2, <2>2, <2>4, <2>11 DEF Station, Alike
  <2>14. GoesOn(program[p], r) BY <1>2 DEF GoesOn
  <2>15. QED BY <1>1, <1>2, <2>6, <2>8, <2>10, <2>11, <2>12, <2>13, <2>14, OneGoesOn
<1>7. QED BY <1>4, <1>5, <1>6 DEF OpenDriver

(* A handle that is closed at a program's end, or before. *)
LEMMA ClosingKeeps ==
  ASSUME ControlInv, NEW p \in Program, scene' = scene, registry' = registry,
         NEW r \in Programs, Becomes(p, r), r.at \notin {"runs", "ask", "macs", "store", "monitor"},
         r.handle = FALSE, program[p].handle, GoesOn(program[p], r), Alike(program[p], r),
         Station(p, Does(p), r), NEW d \in Drivers, SameDriver(driver, d), d.wild = driver.wild,
         d.monitors = (IF program[p].at = "runs" THEN driver.monitors - 1 ELSE driver.monitors),
         Settles(Open \ {p}, d)
  PROVE  ControlInv'
<1>1. OneMoves(p) /\ program'[p] = r BY OneBecomes
<1>2. scene \in DOMAIN Scene /\ UseInv /\ driver \in Drivers BY ControlInvHas
<1>3. Monitors' = Monitors \ {p} /\ Monitors \subseteq Program BY <1>1, OpenAfter
<1>4. d.monitors = Cardinality(Monitors')
  <2>1. IsFiniteSet(Monitors) /\ driver.monitors = Cardinality(Monitors)
        /\ Cardinality(Monitors) \in Nat
    <3>1. IsFiniteSet(Monitors) BY <1>2, <1>3, ProgramsFinite
    <3>2. QED BY <1>2, <3>1, FS_CardinalityType DEF UseInv
  <2>2. CASE program[p].at = "runs"
    <3>1. p \in Monitors BY <2>2 DEF Monitors
    <3>2. Cardinality(Monitors \ {p}) = Cardinality(Monitors) - 1 BY <2>1, <3>1, FS_RemoveElement
    <3>3. QED BY <1>3, <2>1, <2>2, <3>2
  <2>3. CASE program[p].at # "runs"
    <3>1. Monitors \ {p} = Monitors BY <2>3 DEF Monitors
    <3>2. QED BY <1>3, <2>1, <2>3, <3>1
  <2>4. QED BY <2>2, <2>3
<1>5. UseInv' /\ RecordInv' /\ driver' \in Drivers /\ scm' \in ServiceRecords
  BY <1>1, <1>4, UseSettles DEF Alike
<1>6. QED BY <1>1, <1>5, OneGoesOn

LEMMA ProgramExitsKeeps == ASSUME ControlInv, NEW p \in Program, ProgramExits(p) PROVE ControlInv'
<1>1. program[p] \in Programs /\ Station(p, Does(p), program[p]) /\ driver \in Drivers
  BY ControlInvHas
<1>2. /\ program[p].at = "ended" /\ program[p].handle /\ scene' = scene /\ registry' = registry
      /\ Becomes(p, HandleClosed(program[p])) /\ Settles(Open \ {p}, driver)
  BY DEF ProgramExits, IsAt
<1>3. PICK r : r = HandleClosed(program[p]) OBVIOUS
<1>4. /\ r \in Programs /\ r.at = "ended" /\ r.rc = program[p].rc /\ r.handle = FALSE
      /\ Alike(program[p], r)
  BY <1>1, <1>2, <1>3, HandleGone
<1>5. Station(p, Does(p), r) BY <1>1, <1>2, <1>4 DEF Station, Alike
<1>6. GoesOn(program[p], r) /\ SameDriver(driver, driver) BY <1>4 DEF GoesOn, SameDriver
<1>7. Becomes(p, r) BY <1>2, <1>3
<1>8. QED BY <1>1, <1>2, <1>4, <1>5, <1>6, <1>7, ClosingKeeps

(* What ends a program with its handle closed. *)
LEMMA EndedClosed ==
  ASSUME NEW q \in Programs, NEW rc, NEW r, r = HandleClosed(Exits(q, rc))
  PROVE  /\ r \in Programs /\ r.at = "ended" /\ r.handle = FALSE /\ Alike(q, r)
         /\ (r.rc = "ok" <=> rc = "ok")
<1>1. PICK e : e = Exits(q, rc) OBVIOUS
<1>2. e \in Programs /\ e.at = "ended" /\ Alike(q, e) /\ (e.rc = "ok" <=> rc = "ok")
  BY <1>1, Exited
<1>3. r = HandleClosed(e) BY <1>1
<1>4. r \in Programs /\ r.at = e.at /\ r.rc = e.rc /\ r.handle = FALSE /\ Alike(e, r)
  BY <1>2, <1>3, HandleGone
<1>5. QED BY <1>1, <1>2, <1>3, <1>4 DEF Alike

LEMMA DaemonEndsKeeps == ASSUME ControlInv, NEW p \in Program, DaemonEnds(p) PROVE ControlInv'
<1>1. /\ program[p] \in Programs /\ Station(p, Does(p), program[p]) /\ driver \in Drivers
      /\ UseInv /\ scene \in DOMAIN Scene
  BY ControlInvHas
<1>2. /\ program[p].at = "runs" /\ scene' = scene /\ registry' = registry
      /\ Becomes(p, HandleClosed(Exits(program[p], "ok")))
      /\ Settles(Open \ {p}, [driver EXCEPT !.monitors = driver.monitors - 1])
  BY DEF DaemonEnds, IsAt
<1>3. PICK r : r = HandleClosed(Exits(program[p], "ok")) OBVIOUS
<1>4. r \in Programs /\ r.at = "ended" /\ r.handle = FALSE /\ Alike(program[p], r)
  BY <1>1, <1>3, EndedClosed, ZenonT(60)
<1>5. program[p].handle /\ Does(p) = "daemon" BY <1>1, <1>2 DEF Station
<1>6. Station(p, Does(p), r) BY <1>1, <1>4, <1>5 DEF Station, Alike
<1>7. driver.monitors - 1 \in 0..Cardinality(Program)
  <2>1. Monitors \subseteq Program /\ p \in Monitors BY <1>2 DEF Monitors
  <2>2. IsFiniteSet(Monitors) BY <1>1, <2>1, ProgramsFinite
  <2>3. Cardinality(Monitors) \in Nat /\ Cardinality(Monitors) # 0
    BY <2>1, <2>2, FS_CardinalityType, FS_EmptySet
  <2>4. driver.monitors = Cardinality(Monitors) /\ driver.monitors \in 0..Cardinality(Program)
    BY <1>1, DriverHas DEF UseInv
  <2>5. Cardinality(Program) \in Nat BY <1>1, ProgramsFinite
  <2>6. QED BY <2>3, <2>4, <2>5
<1>8. PICK n \in 0..Cardinality(Program) : n = driver.monitors - 1 BY <1>7
<1>9. PICK d : d = [driver EXCEPT !.monitors = n] OBVIOUS
<1>10. d \in Drivers /\ SameDriver(driver, d) /\ d.monitors = n /\ d.wild = driver.wild
  BY <1>1, <1>9, MonitorsSet
<1>11. GoesOn(program[p], r) /\ Becomes(p, r) BY <1>2, <1>3, <1>4 DEF GoesOn
<1>12. Settles(Open \ {p}, d) BY <1>2, <1>8, <1>9
<1>13. QED BY <1>2, <1>4, <1>5, <1>6, <1>8, <1>10, <1>11, <1>12, ClosingKeeps

LEMMA CreateMonitorKeeps == ASSUME ControlInv, NEW p \in Program, CreateMonitor(p) PROVE ControlInv'
<1>1. /\ program[p] \in Programs /\ Station(p, Does(p), program[p]) /\ driver \in Drivers
      /\ scm \in ServiceRecords /\ UseInv /\ RecordInv /\ scene \in DOMAIN Scene
  BY ControlInvHas
<1>2. program[p].at = "monitor" /\ scene' = scene /\ registry' = registry
  BY DEF CreateMonitor, IsAt
<1>3. program[p].handle /\ Does(p) = "daemon" /\ p \in Open BY <1>1, <1>2 DEF Station, Open
<1>4. CASE /\ Becomes(p, ProgramAt(p, "runs")) /\ UNCHANGED scm
           /\ driver' = [driver EXCEPT !.monitors = driver.monitors + 1]
  <2>1. PICK r : r = ProgramAt(p, "runs") OBVIOUS
  <2>2. /\ r \in Programs /\ r.at = "runs" /\ r.rc = program[p].rc
        /\ r.handle = program[p].handle /\ Alike(program[p], r)
    <3>1. "runs" \in Ats BY DEF Ats
    <3>2. QED BY <1>1, <2>1, <3>1, AtSet DEF ProgramAt
  <2>3. OneMoves(p) /\ program'[p] = r BY <1>2, <1>4, <2>1, <2>2, OneBecomes
  <2>4. Open' = Open /\ Monitors' = Monitors \union {p} /\ Monitors' \subseteq Program
        /\ p \notin Monitors
    <3>1. Open' = Open \union {p} /\ Monitors' = Monitors \union {p} /\ Monitors \subseteq Program
      BY <1>3, <2>2, <2>3, OpenAfter
    <3>2. p \notin Monitors BY <1>2 DEF Monitors
    <3>3. QED BY <1>3, <3>1, <3>2
  <2>5. IsFiniteSet(Monitors) /\ Cardinality(Monitors') \in 0..Cardinality(Program)
    BY <1>1, <2>4, ProgramsFinite
  <2>6. Cardinality(Monitors') = Cardinality(Monitors) + 1 BY <2>4, <2>5, FS_AddElement
  <2>7. PICK n \in 0..Cardinality(Program) : n = driver.monitors + 1 /\ n = Cardinality(Monitors')
    BY <1>1, <2>5, <2>6 DEF UseInv
  <2>8. driver' = [driver EXCEPT !.monitors = n] BY <1>4, <2>7
  <2>9. /\ driver' \in Drivers /\ SameDriver(driver, driver') /\ driver'.monitors = n
        /\ driver'.wild = driver.wild
    BY <1>1, <2>8, MonitorsSet
  <2>10. Playing' = Playing /\ (Present' <=> Present) /\ scm' = scm
    BY <1>2, <1>4, SceneStays DEF Present
  <2>11. UseInv' BY <1>1, <2>4, <2>7, <2>9, <2>10 DEF UseInv, SameDriver
  <2>12. RecordInv' BY <1>1, <2>2, <2>3, <2>10, RecordStay DEF RecordInv, Alike
  <2>13. Station(p, Does(p), r) BY <1>1, <1>2, <1>3, <2>2 DEF Station, Alike
  <2>14. GoesOn(program[p], r) BY <1>2 DEF GoesOn
  <2>15. QED BY <1>1, <1>2, <2>2, <2>3, <2>9, <2>10, <2>11, <2>12, <2>13, <2>14, OneGoesOn
<1>5. CASE Becomes(p, HandleClosed(Exits(program[p], "error"))) /\ Settles(Open \ {p}, driver)
  <2>1. PICK r : r = HandleClosed(Exits(program[p], "error")) OBVIOUS
  <2>2. r \in Programs /\ r.at = "ended" /\ r.handle = FALSE /\ Alike(program[p], r)
    <3>1. PICK e : e = Exits(program[p], "error") OBVIOUS
    <3>2. e \in Programs /\ e.at = "ended" /\ Alike(program[p], e) BY <1>1, <3>1, Exited
    <3>3. r = HandleClosed(e) BY <2>1, <3>1
    <3>4. r \in Programs /\ r.at = e.at /\ r.handle = FALSE /\ Alike(e, r) BY <3>2, <3>3, HandleGone
    <3>5. QED BY <3>2, <3>4 DEF Alike
  <2>3. Station(p, Does(p), r) BY <1>1, <1>3, <2>2 DEF Station, Alike
  <2>4. GoesOn(program[p], r) /\ SameDriver(driver, driver) /\ Becomes(p, r)
    BY <1>5, <2>1, <2>2 DEF GoesOn, SameDriver
  <2>5. QED BY <1>1, <1>2, <1>3, <1>5, <2>2, <2>3, <2>4, ClosingKeeps
<1>6. QED BY <1>4, <1>5 DEF CreateMonitor

(* The address of the card: made up where none is stored, and stored under the number of monitors
   there were when its daemon asked. *)
LEMMA ReadMacKeeps == ASSUME ControlInv, NEW p \in Program, ReadMac(p) PROVE ControlInv'
<1>1. /\ program[p] \in Programs /\ Station(p, Does(p), program[p]) /\ driver \in Drivers
      /\ scm \in ServiceRecords /\ UseInv /\ RecordInv /\ scene \in DOMAIN Scene
      /\ registry \in [0..Cardinality(Program) -> Program \union {0}] /\ MacInv
      /\ program \in [Program -> Programs]
  BY ControlInvHas DEF ControlInv
<1>2. /\ program[p].at = "macs" /\ scene' = scene /\ registry' = registry /\ scm' = scm
      /\ driver' = driver
  BY DEF ReadMac, IsAt
<1>3. program[p].mac = 0 /\ program[p].index \in 0..Cardinality(Program)
  BY <1>1, <1>2, ProgramHas DEF Station
<1>4. PICK m \in Program, at \in {"store", "monitor"} :
        /\ at = "store" => m = p
        /\ at = "monitor" => m = registry[program[p].index]
        /\ Becomes(p, [ProgramAt(p, at) EXCEPT !.mac = m])
  <2>1. \/ Becomes(p, [ProgramAt(p, "store") EXCEPT !.mac = p])
        \/ StoredMac(p) # 0 /\ Becomes(p, [ProgramAt(p, "monitor") EXCEPT !.mac = StoredMac(p)])
    BY DEF ReadMac
  <2>2. StoredMac(p) # 0 => StoredMac(p) \in Program BY <1>1, <1>3 DEF StoredMac
  <2>3. QED BY <2>1, <2>2 DEF StoredMac
<1>5. PICK a : a = ProgramAt(p, at) OBVIOUS
<1>6. a \in Programs /\ a.at = at /\ a.handle = program[p].handle /\ Alike(program[p], a)
      /\ a.rc = program[p].rc
  <2>1. at \in Ats BY DEF Ats
  <2>2. QED BY <1>1, <1>5, <2>1, AtSet DEF ProgramAt
<1>7. PICK r : r = [a EXCEPT !.mac = m] OBVIOUS
<1>8. /\ r \in Programs /\ r.at = a.at /\ r.rc = a.rc /\ r.handle = a.handle /\ r.mac = m
      /\ r.made = a.made /\ r.knows = a.knows /\ r.index = a.index /\ r.gone = a.gone
  BY <1>6, <1>7, MacSet
<1>9. /\ r.at = at /\ r.rc = program[p].rc /\ r.handle = program[p].handle
      /\ r.made = program[p].made /\ r.knows = program[p].knows /\ r.index = program[p].index
      /\ r.gone = program[p].gone
  BY <1>6, <1>8 DEF Alike
<1>10. OneMoves(p) /\ program'[p] = r BY <1>2, <1>4, <1>5, <1>7, <1>8, OneBecomes
<1>11. Open' = Open /\ Monitors' = Monitors BY <1>2, <1>9, <1>10, OpenAfter DEF Open, Monitors
<1>12. UseInv' BY <1>1, <1>2, <1>11, UseStays DEF UseInv, Present
<1>13. RecordInv' BY <1>1, <1>2, <1>9, <1>10, RecordStay DEF RecordInv
<1>14. m # 0 BY <1>1, ProgramsFinite
<1>15. Station(p, Does(p), r)
  <2>1. at = "store" => m = p BY <1>4
  <2>2. QED BY <1>1, <1>2, <1>8, <1>9, <1>14, <2>1 DEF Station
<1>16. StationInv' BY <1>10, <1>15, StationsStay DEF ControlInv
<1>17. GoesOn(program[p], r) BY <1>2 DEF GoesOn
<1>18. KnowsInv' BY <1>9, <1>10, <1>17, KnowsStay DEF ControlInv
<1>19. MacInv'
  <2>1. Program' = Program BY <1>2, SceneStays
  <2>2. \A q \in Program : program[q].mac # p
    <3>1. ASSUME NEW q \in Program, program[q].mac = p PROVE FALSE
      <4>1. program[q].mac # 0 BY <1>1, <3>1, ProgramsFinite
      <4>2. program[program[q].mac].mac = program[q].mac BY <1>1, <4>1 DEF MacInv
      <4>3. QED BY <1>3, <3>1, <4>1, <4>2
    <3>2. QED BY <3>1
  <2>3. \A i \in 0..Cardinality(Program) : registry[i] # p
    <3>1. ASSUME NEW i \in 0..Cardinality(Program), registry[i] = p PROVE FALSE
      <4>1. registry[i] # 0 BY <1>1, <3>1, ProgramsFinite
      <4>2. program[registry[i]].mac = registry[i] BY <1>1, <4>1 DEF MacInv
      <4>3. QED BY <1>3, <3>1, <4>1, <4>2
    <3>2. QED BY <3>1
  <2>4. program'[m].mac = m /\ program'[m].index = program[p].index
    <3>1. CASE m = p BY <1>8, <1>9, <1>10, <3>1
    <3>2. CASE m # p
      <4>1. m = registry[program[p].index] BY <1>4, <3>2
      <4>2. program[m].mac = m /\ program[m].index = program[p].index
        BY <1>1, <1>3, <1>14, <4>1 DEF MacInv
      <4>3. program'[m] = program[m] BY <1>10, <3>2 DEF OneMoves
      <4>4. QED BY <4>2, <4>3
    <3>3. QED BY <3>1, <3>2
  <2>5. \A q \in Program : program'[q].mac # 0 =>
          /\ program'[program'[q].mac].mac = program'[q].mac
          /\ program'[program'[q].mac].index = program'[q].index
    <3>1. TAKE q \in Program
    <3>2. CASE q = p BY <1>8, <1>9, <1>10, <2>4, <3>2
    <3>3. CASE q # p
      <4>1. program'[q] = program[q] BY <1>10, <3>3 DEF OneMoves
      <4>2. program[q].mac \in Program \union {0} BY <1>1, ProgramHas
      <4>3. program[q].mac # 0 => program'[program[q].mac] = program[program[q].mac]
        BY <1>10, <2>2, <4>2 DEF OneMoves
      <4>4. program[q].mac # 0 => /\ program[program[q].mac].mac = program[q].mac
                                  /\ program[program[q].mac].index = program[q].index
        BY <1>1 DEF MacInv
      <4>5. QED BY <4>1, <4>3, <4>4
    <3>4. QED BY <3>2, <3>3
  <2>6. \A i \in 0..Cardinality(Program) : registry'[i] # 0 =>
          program'[registry'[i]].mac = registry'[i] /\ program'[registry'[i]].index = i
    <3>1. TAKE i \in 0..Cardinality(Program)
    <3>2. registry[i] \in Program \union {0} BY <1>1
    <3>3. registry[i] # 0 => program'[registry[i]] = program[registry[i]]
      BY <1>10, <2>3, <3>2 DEF OneMoves
    <3>4. registry[i] # 0 => program[registry[i]].mac = registry[i] /\ program[registry[i]].index = i
      BY <1>1 DEF MacInv
    <3>5. QED BY <1>2, <3>3, <3>4
  <2>7. QED BY <2>1, <2>5, <2>6 DEF MacInv
<1>20. ControlTypeOK'
  BY <1>1, <1>2, <1>10, SceneStays DEF ControlTypeOK, OneMoves
<1>21. QED BY <1>1, <1>2, <1>12, <1>13, <1>16, <1>18, <1>19, <1>20 DEF ControlInv

LEMMA WriteMacKeeps == ASSUME ControlInv, NEW p \in Program, WriteMac(p) PROVE ControlInv'
<1>1. /\ program[p] \in Programs /\ Station(p, Does(p), program[p]) /\ driver \in Drivers
      /\ scm \in ServiceRecords /\ UseInv /\ RecordInv /\ scene \in DOMAIN Scene
      /\ registry \in [0..Cardinality(Program) -> Program \union {0}] /\ MacInv
      /\ program \in [Program -> Programs]
  BY ControlInvHas DEF ControlInv
<1>2. /\ program[p].at = "store" /\ scene' = scene /\ scm' = scm /\ driver' = driver
      /\ Becomes(p, ProgramAt(p, "monitor")) /\ (registry' = registry \/ registry' = WithMac(p))
  BY DEF WriteMac, IsAt
<1>3. PICK r : r = ProgramAt(p, "monitor") OBVIOUS
<1>4. /\ r \in Programs /\ r.at = "monitor" /\ r.rc = program[p].rc
      /\ r.handle = program[p].handle /\ Alike(program[p], r)
  <2>1. "monitor" \in Ats BY DEF Ats
  <2>2. QED BY <1>1, <1>3, <2>1, AtSet DEF ProgramAt
<1>5. Station(p, Does(p), r) BY <1>1, <1>2, <1>4 DEF Station, Alike
<1>6. OneMoves(p) /\ program'[p] = r BY <1>2, <1>3, <1>4, OneBecomes
<1>7. CASE registry' = registry
  <2>1. GoesOn(program[p], r) BY <1>2 DEF GoesOn
  <2>2. r.at # "runs" /\ program[p].at # "runs" /\ UNCHANGED <<scm, driver>> BY <1>2, <1>4
  <2>3. QED BY <1>4, <1>5, <1>6, <1>7, <2>1, <2>2, OneGoesOnAlone
<1>8. CASE registry' = WithMac(p)
  <2>1. program[p].index \in 0..Cardinality(Program) /\ program[p].mac \in Program \ {0}
    BY <1>1, <1>2, ProgramHas DEF Station
  <2>2. PICK k \in 0..Cardinality(Program) : k = program[p].index BY <2>1
  <2>3. registry' = [registry EXCEPT ![k] = p] BY <1>8, <2>2 DEF WithMac
  <2>4. registry' \in [0..Cardinality(Program) -> Program \union {0}] BY <1>1, <2>3
  <2>5. \A i \in 0..Cardinality(Program) : registry'[i] = IF i = k THEN p ELSE registry[i]
    BY <1>1, <2>3
  <2>6. program[p].mac = p BY <1>1, <1>2 DEF Station
  <2>7. r.mac = p /\ r.index = k BY <1>4, <2>2, <2>6 DEF Alike
  <2>8. Program' = Program BY <1>2, SceneStays
  <2>9. \A q \in Program : program'[q].mac = program[q].mac /\ program'[q].index = program[q].index
    BY <1>4, <1>6 DEF OneMoves, Alike
  <2>10. MacInv'
    <3>1. \A q \in Program : program'[q].mac # 0 =>
            /\ program'[program'[q].mac].mac = program'[q].mac
            /\ program'[program'[q].mac].index = program'[q].index
      <4>1. TAKE q \in Program
      <4>2. program[q].mac \in Program \union {0} BY <1>1, ProgramHas
      <4>3. program[q].mac # 0 => /\ program[program[q].mac].mac = program[q].mac
                                  /\ program[program[q].mac].index = program[q].index
        BY <1>1 DEF MacInv
      <4>4. program'[q].mac = program[q].mac /\ program'[q].index = program[q].index BY <2>9
      <4>5. program[q].mac # 0 =>
              /\ program'[program[q].mac].mac = program[program[q].mac].mac
              /\ program'[program[q].mac].index = program[program[q].mac].index
        BY <2>9, <4>2
      <4>6. QED BY <4>3, <4>4, <4>5
    <3>2. \A i \in 0..Cardinality(Program) : registry'[i] # 0 =>
            program'[registry'[i]].mac = registry'[i] /\ program'[registry'[i]].index = i
      <4>1. TAKE i \in 0..Cardinality(Program)
      <4>2. CASE i = k BY <1>6, <2>5, <2>7, <4>2
      <4>3. CASE i # k
        <5>1. registry'[i] = registry[i] /\ registry[i] \in Program \union {0} BY <1>1, <2>5, <4>3
        <5>2. registry[i] # 0 => program[registry[i]].mac = registry[i] /\ program[registry[i]].index = i
          BY <1>1 DEF MacInv
        <5>3. QED BY <2>9, <5>1, <5>2
      <4>4. QED BY <4>2, <4>3
    <3>3. QED BY <2>8, <3>1, <3>2 DEF MacInv
  <2>11. ControlTypeOK' BY <1>1, <1>2, <1>6, <2>4, SceneStays DEF ControlTypeOK, OneMoves
  <2>12. StationInv' BY <1>5, <1>6, StationsStay DEF ControlInv
  <2>13. GoesOn(program[p], r) BY <1>2 DEF GoesOn
  <2>14. KnowsInv' BY <1>4, <1>6, <2>13, KnowsStay DEF ControlInv, Alike
  <2>15. Open' = Open /\ Monitors' = Monitors BY <1>2, <1>4, <1>6, OpenAfter DEF Open, Monitors
  <2>16. UseInv' BY <1>1, <1>2, <2>15, UseStays DEF UseInv, Present
  <2>17. RecordInv' BY <1>1, <1>2, <1>4, <1>6, RecordStay DEF RecordInv, Alike
  <2>18. QED BY <1>1, <1>2, <2>10, <2>11, <2>12, <2>14, <2>16, <2>17 DEF ControlInv
<1>9. QED BY <1>2, <1>7, <1>8

(* co_manager_status.  What each program makes of the answer. *)
LEMMA AskedIs ==
  ASSUME NEW p \in Program, program[p] \in Programs, NEW t,
         t = [program[p] EXCEPT !.knows = Monitors, !.index = driver.monitors],
         Does(p) \in {"remove", "status", "daemon"}
  PROVE  \/ Does(p) = "daemon" /\ Asked(p) = [t EXCEPT !.at = "macs"]
         \/ Does(p) = "status" /\ Asked(p) = HandleClosed(Exits(t, "ok"))
         \/ Does(p) # "remove" /\ Asked(p) = HandleClosed(Exits(program[p], "version"))
         \/ Does(p) = "remove" /\ Asked(p) = HandleClosed([ProgramAt(p, "stop") EXCEPT !.rc = "no access"])
         \/ Does(p) = "remove" /\ driver.monitors # 0 /\ Asked(p) = HandleClosed(Exits(t, "busy"))
         \/ Does(p) = "remove" /\ driver.monitors = 0
            /\ Asked(p) = HandleClosed([t EXCEPT !.at = "stop", !.rc = "ok"])
<1> DEFINE same == driver.version = Version(p)
<1>1. Asked(p) = CASE Does(p) = "daemon" /\ same            -> [t EXCEPT !.at = "macs"]
       [] Does(p) = "status" /\ same            -> HandleClosed(Exits(t, "ok"))
       [] Does(p) # "remove" /\ ~same           -> HandleClosed(Exits(program[p], "version"))
       [] Does(p) = "remove" /\ ~same           ->
            HandleClosed([ProgramAt(p, "stop") EXCEPT !.rc = "no access"])
       [] Does(p) = "remove" /\ same /\ driver.monitors # 0 -> HandleClosed(Exits(t, "busy"))
       [] Does(p) = "remove" /\ same /\ driver.monitors = 0 ->
            HandleClosed([t EXCEPT !.at = "stop", !.rc = "ok"])
       [] OTHER -> program[p]
  BY DEF Asked
<1>2. CASE same
  <2>1. CASE Does(p) = "daemon" BY <1>1, <1>2, <2>1
  <2>2. CASE Does(p) = "status" BY <1>1, <1>2, <2>2
  <2>3. CASE Does(p) = "remove" /\ driver.monitors = 0 BY <1>1, <1>2, <2>3
  <2>4. CASE Does(p) = "remove" /\ driver.monitors # 0 BY <1>1, <1>2, <2>4
  <2>5. QED BY <2>1, <2>2, <2>3, <2>4
<1>3. CASE ~same
  <2>1. CASE Does(p) = "remove" BY <1>1, <1>3, <2>1
  <2>2. CASE Does(p) # "remove" BY <1>1, <1>3, <2>2
  <2>3. QED BY <2>1, <2>2
<1>4. QED BY <1>2, <1>3

LEMMA AskedHas ==
  ASSUME ControlInv, NEW p \in Program, program[p].at = "ask", NEW r, r = Asked(p)
  PROVE  /\ r \in Programs /\ r.at \in {"macs", "ended", "stop"} /\ Station(p, Does(p), r)
         /\ r.made = program[p].made /\ r.gone = program[p].gone /\ r.mac = program[p].mac
         /\ r.knows \in {program[p].knows, Monitors} /\ (r.at = "macs" <=> r.handle)
<1>1. /\ program[p] \in Programs /\ Station(p, Does(p), program[p]) /\ driver \in Drivers
      /\ UseInv /\ scene \in DOMAIN Scene /\ Does(p) \in Command
  BY ControlInvHas
<1>2. /\ Does(p) \in {"remove", "status", "daemon"} /\ program[p].handle /\ program[p].mac = 0
      /\ p \notin Monitors /\ Monitors \in SUBSET Program
  BY <1>1 DEF Station, Command, Monitors
<1>3. PICK K \in SUBSET Program, n \in 0..Cardinality(Program) :
        K = Monitors /\ n = driver.monitors /\ n = Cardinality(K) /\ (n = 0 => K = {})
  <2>1. driver.monitors \in 0..Cardinality(Program) /\ driver.monitors = Cardinality(Monitors)
    BY <1>1, DriverHas DEF UseInv
  <2>2. IsFiniteSet(Monitors) BY <1>1, <1>2, ProgramsFinite
  <2>3. driver.monitors = 0 => Monitors = {} BY <2>1, <2>2, FS_EmptySet
  <2>4. QED BY <1>2, <2>1, <2>3
<1>4. PICK t : t = [program[p] EXCEPT !.knows = K, !.index = n] OBVIOUS
<1>5. /\ t \in Programs /\ t.at = "ask" /\ t.rc = program[p].rc /\ t.handle /\ t.mac = 0
      /\ t.made = program[p].made /\ t.knows = K /\ t.index = n /\ t.gone = program[p].gone
  <2>1. program[p] \in Programs /\ program[p].at = "ask" /\ program[p].handle /\ program[p].mac = 0
    BY <1>1, <1>2
  <2>2. PICK o \in Programs : o = program[p] BY <2>1
  <2>3. t = [o EXCEPT !.knows = K, !.index = n] BY <1>4, <2>2
  <2>4. /\ t \in Programs /\ t.at = o.at /\ t.rc = o.rc /\ t.handle = o.handle /\ t.mac = o.mac
        /\ t.made = o.made /\ t.knows = K /\ t.index = n /\ t.gone = o.gone
    BY <2>3 DEF Programs
  <2>5. QED BY <2>1, <2>2, <2>4
<1>6. "macs" \in Ats /\ "stop" \in Ats /\ "ok" \in Codes /\ "no access" \in Codes
  BY DEF Ats, Codes
<1>7. CASE Does(p) = "daemon" /\ r = [t EXCEPT !.at = "macs"]
  <2>1. r \in Programs /\ r.at = "macs" /\ r.rc = t.rc /\ r.handle = t.handle /\ Alike(t, r)
    BY <1>5, <1>6, <1>7, AtSet
  <2>2. Station(p, Does(p), r) BY <1>1, <1>2, <1>3, <1>5, <1>7, <2>1 DEF Station, Alike
  <2>3. QED BY <1>2, <1>3, <1>5, <2>1, <2>2 DEF Alike
<1>8. ASSUME NEW rc, r = HandleClosed(Exits(t, rc)), Does(p) = "remove" => rc # "ok"
      PROVE  /\ r \in Programs /\ r.at \in {"macs", "ended", "stop"} /\ Station(p, Does(p), r)
             /\ r.made = program[p].made /\ r.gone = program[p].gone /\ r.mac = program[p].mac
             /\ r.knows \in {program[p].knows, Monitors} /\ (r.at = "macs" <=> r.handle)
  <2>1. /\ r \in Programs /\ r.at = "ended" /\ r.handle = FALSE /\ Alike(t, r)
        /\ (r.rc = "ok" <=> rc = "ok")
    <3>1. PICK e : e = Exits(t, rc) OBVIOUS
    <3>2. e \in Programs /\ e.at = "ended" /\ Alike(t, e) /\ (e.rc = "ok" <=> rc = "ok")
      BY <1>5, <3>1, Exited
    <3>3. r = HandleClosed(e) BY <1>8, <3>1
    <3>4. r \in Programs /\ r.at = e.at /\ r.rc = e.rc /\ r.handle = FALSE /\ Alike(e, r)
      BY <3>2, <3>3, HandleGone
    <3>5. QED BY <3>2, <3>4 DEF Alike
  <2>2. Station(p, Does(p), r) BY <1>1, <1>2, <1>3, <1>5, <1>8, <2>1 DEF Station, Alike
  <2>3. QED BY <1>2, <1>3, <1>5, <2>1, <2>2 DEF Alike
<1>9. CASE Does(p) # "remove" /\ r = HandleClosed(Exits(program[p], "version"))
  <2>1. PICK e : e = Exits(program[p], "version") OBVIOUS
  <2>2. e \in Programs /\ e.at = "ended" /\ Alike(program[p], e) BY <1>1, <2>1, Exited
  <2>3. r = HandleClosed(e) BY <1>9, <2>1
  <2>4. r \in Programs /\ r.at = e.at /\ r.handle = FALSE /\ Alike(e, r)
    BY <2>2, <2>3, HandleGone
  <2>5. Station(p, Does(p), r) BY <1>1, <1>9, <2>2, <2>4 DEF Station, Alike
  <2>6. QED BY <2>2, <2>4, <2>5 DEF Alike
<1>10. CASE Does(p) = "remove" /\ r = HandleClosed([ProgramAt(p, "stop") EXCEPT !.rc = "no access"])
  <2>1. PICK a : a = ProgramAt(p, "stop") OBVIOUS
  <2>2. a \in Programs /\ a.at = "stop" /\ Alike(program[p], a)
    BY <1>1, <1>6, <2>1, AtSet DEF ProgramAt
  <2>3. PICK c \in Codes : c = "no access" BY <1>6
  <2>4. PICK b : b = [a EXCEPT !.rc = c] OBVIOUS
  <2>5. b \in Programs /\ b.at = a.at /\ b.rc = c /\ Alike(a, b) BY <2>2, <2>4, CodeSet
  <2>6. r = HandleClosed(b) BY <1>10, <2>1, <2>3, <2>4
  <2>7. r \in Programs /\ r.at = b.at /\ r.rc = b.rc /\ r.handle = FALSE /\ Alike(b, r)
    BY <2>5, <2>6, HandleGone
  <2>8. Station(p, Does(p), r)
    BY <1>1, <1>2, <1>10, <2>2, <2>3, <2>5, <2>7, ZenonT(60) DEF Station, Alike
  <2>9. QED BY <2>2, <2>5, <2>7, <2>8 DEF Alike
<1>11. CASE /\ Does(p) = "remove" /\ n = 0
            /\ r = HandleClosed([t EXCEPT !.at = "stop", !.rc = "ok"])
  <2>1. PICK c \in Codes : c = "ok" BY <1>6
  <2>2. PICK b : b = [t EXCEPT !.at = "stop", !.rc = c] OBVIOUS
  <2>3. b \in Programs /\ b.at = "stop" /\ b.rc = c /\ Alike(t, b)
    BY <1>5, <2>2 DEF Programs, Codes, Alike
  <2>4. r = HandleClosed(b) BY <1>11, <2>1, <2>2
  <2>5. r \in Programs /\ r.at = b.at /\ r.rc = b.rc /\ r.handle = FALSE /\ Alike(b, r)
    BY <2>3, <2>4, HandleGone
  <2>6. Station(p, Does(p), r)
    BY <1>1, <1>2, <1>3, <1>5, <1>11, <2>1, <2>3, <2>5 DEF Station, Alike
  <2>7. QED BY <1>2, <1>3, <1>5, <2>3, <2>5, <2>6 DEF Alike
<1>12. \/ Does(p) = "daemon" /\ r = [t EXCEPT !.at = "macs"]
       \/ Does(p) = "status" /\ r = HandleClosed(Exits(t, "ok"))
       \/ Does(p) # "remove" /\ r = HandleClosed(Exits(program[p], "version"))
       \/ Does(p) = "remove" /\ r = HandleClosed([ProgramAt(p, "stop") EXCEPT !.rc = "no access"])
       \/ r = HandleClosed(Exits(t, "busy"))
       \/ Does(p) = "remove" /\ n = 0 /\ r = HandleClosed([t EXCEPT !.at = "stop", !.rc = "ok"])
  BY <1>1, <1>2, <1>3, <1>4, AskedIs
<1>13. QED BY <1>7, <1>8, <1>9, <1>10, <1>11, <1>12

(* A number that is told for the first time: nobody has an address from this program yet. *)
LEMMA NoMacOf ==
  ASSUME ControlInv, NEW p \in Program, program[p].mac = 0
  PROVE  /\ \A q \in Program : program[q].mac # p
         /\ \A i \in 0..Cardinality(Program) : registry[i] # p
<1>1. MacInv /\ p # 0 BY ProgramsFinite DEF ControlInv
<1>2. ASSUME NEW q \in Program, program[q].mac = p PROVE FALSE
  <2>1. program[program[q].mac].mac = program[q].mac BY <1>1, <1>2 DEF MacInv
  <2>2. QED BY <1>1, <1>2, <2>1
<1>3. ASSUME NEW i \in 0..Cardinality(Program), registry[i] = p PROVE FALSE
  <2>1. program[registry[i]].mac = registry[i] BY <1>1, <1>3 DEF MacInv
  <2>2. QED BY <1>1, <1>3, <2>1
<1>4. QED BY <1>2, <1>3

(* Who asks learns of all that run, and whoever it learns of had learnt of no one who still runs
   and is not among them. *)
LEMMA KnowsAsks ==
  ASSUME ControlInv, NEW p \in Program, OneMoves(p), program[p].at = "ask",
         program'[p].knows \in {program[p].knows, Monitors}
  PROVE  KnowsInv'
<1>1. Program' = Program BY SceneStays DEF OneMoves
<1>2. KnowsInv /\ program \in [Program -> Programs] /\ Monitors \subseteq Program
      /\ \A q \in Monitors : program[q].at = "runs"
  BY DEF ControlInv, ControlTypeOK, Monitors
<1>3. \A q \in Program : program[q].knows \subseteq Program /\ p \notin program[q].knows
  <2>1. TAKE q \in Program
  <2>2. program[q] \in Programs BY <1>2
  <2>3. program[q].knows \in SUBSET Program BY <2>2, ProgramHas
  <2>4. QED BY <1>2, <2>3 DEF KnowsInv
<1>4. p \notin Monitors BY <1>2
<1>5. \A q \in Program : q # p => program'[q] = program[q] BY DEF OneMoves
<1>6. ASSUME NEW q \in Program
      PROVE  /\ \A o \in program'[q].knows : program'[o].at \in {"runs", "ended"}
             /\ \A o \in program'[q].knows : \A r \in program'[o].knows :
                  r \in program'[q].knows \/ program'[r].at = "ended"
  <2>1. CASE program'[q].knows = program[q].knows
    <3>1. \A o \in program[q].knows : o \in Program /\ o # p /\ program'[o] = program[o]
      BY <1>3, <1>5
    <3>2. \A o \in program[q].knows : \A r \in program[o].knows :
            r \in Program /\ r # p /\ program'[r] = program[r]
      BY <1>3, <1>5
    <3>3. QED BY <1>2, <2>1, <3>1, <3>2 DEF KnowsInv
  <2>2. CASE program'[q].knows = Monitors
    <3>1. \A o \in Monitors : o \in Program /\ o # p /\ program'[o] = program[o]
      BY <1>2, <1>4, <1>5
    <3>2. \A o \in Monitors : \A r \in program[o].knows :
            /\ r \in Program /\ r # p /\ program'[r] = program[r]
            /\ program[r].at \in {"runs", "ended"}
      BY <1>2, <1>3, <1>5 DEF KnowsInv
    <3>3. \A r \in Program : program[r].at = "runs" => r \in Monitors BY DEF Monitors
    <3>4. QED BY <1>2, <2>2, <3>1, <3>2, <3>3
  <2>3. QED BY <1>5, <2>1, <2>2
<1>7. QED BY <1>1, <1>6 DEF KnowsInv

LEMMA AskStatusKeeps == ASSUME ControlInv, NEW p \in Program, AskStatus(p) PROVE ControlInv'
<1>1. /\ program[p] \in Programs /\ Station(p, Does(p), program[p]) /\ driver \in Drivers
      /\ scm \in ServiceRecords /\ UseInv /\ RecordInv /\ scene \in DOMAIN Scene
      /\ registry \in [0..Cardinality(Program) -> Program \union {0}] /\ MacInv
      /\ program \in [Program -> Programs]
  BY ControlInvHas DEF ControlInv
<1>2. /\ program[p].at = "ask" /\ scene' = scene /\ registry' = registry
      /\ Becomes(p, Asked(p)) /\ Settles(IF Asked(p).handle THEN Open ELSE Open \ {p}, driver)
  BY DEF AskStatus, IsAt
<1>3. PICK r : r = Asked(p) OBVIOUS
<1>4. /\ r \in Programs /\ r.at \in {"macs", "ended", "stop"} /\ Station(p, Does(p), r)
      /\ r.made = program[p].made /\ r.gone = program[p].gone /\ r.mac = program[p].mac
      /\ r.knows \in {program[p].knows, Monitors} /\ (r.at = "macs" <=> r.handle)
  BY <1>2, <1>3, AskedHas
<1>5. OneMoves(p) /\ program'[p] = r BY <1>2, <1>3, <1>4, OneBecomes
<1>6. program[p].handle /\ p \in Open /\ program[p].mac = 0 BY <1>1, <1>2 DEF Station, Open
<1>7. Monitors' = Monitors BY <1>2, <1>4, <1>5, OpenAfter DEF Monitors
<1>8. UseInv' /\ RecordInv' /\ driver' \in Drivers /\ scm' \in ServiceRecords
  <2>1. CASE r.at = "macs"
    <3>1. driver' = driver /\ scm' = scm BY <1>2, <1>3, <1>4, <1>6, <2>1 DEF Settles
    <3>2. Open' = Open BY <1>4, <1>5, <1>6, <2>1, OpenAfter
    <3>3. UseInv' BY <1>1, <1>2, <1>7, <3>1, <3>2, UseStays DEF UseInv, Present
    <3>4. RecordInv' BY <1>1, <1>4, <1>5, <3>1, RecordStay DEF RecordInv
    <3>5. QED BY <1>1, <3>1, <3>3, <3>4
  <2>2. CASE r.at # "macs"
    <3>1. Settles(Open \ {p}, driver) /\ ~r.handle BY <1>2, <1>3, <1>4, <2>2
    <3>2. SameDriver(driver, driver) /\ driver.monitors = Cardinality(Monitors')
      BY <1>1, <1>7 DEF SameDriver, UseInv
    <3>3. program'[p].at # "runs" /\ ~program'[p].handle BY <1>4, <1>5, <3>1
    <3>4. QED BY <1>1, <1>4, <1>5, <1>6, <3>1, <3>2, <3>3, UseSettles
  <2>3. QED BY <2>1, <2>2
<1>9. StationInv' BY <1>4, <1>5, StationsStay DEF ControlInv
<1>10. KnowsInv' BY <1>2, <1>4, <1>5, KnowsAsks
<1>11. MacInv'
  <2>1. Program' = Program BY <1>2, SceneStays
  <2>2. /\ \A q \in Program : program[q].mac # p
        /\ \A i \in 0..Cardinality(Program) : registry[i] # p
    BY <1>6, NoMacOf
  <2>3. \A q \in Program : q # p => program'[q] = program[q] BY <1>5 DEF OneMoves
  <2>4. \A q \in Program : program'[q].mac # 0 =>
          /\ program'[program'[q].mac].mac = program'[q].mac
          /\ program'[program'[q].mac].index = program'[q].index
    <3>1. TAKE q \in Program
    <3>2. CASE q = p BY <1>4, <1>5, <1>6, <3>2
    <3>3. CASE q # p
      <4>1. program[q].mac \in Program \union {0} BY <1>1, ProgramHas
      <4>2. program[q].mac # 0 => program'[program[q].mac] = program[program[q].mac]
        BY <2>2, <2>3, <4>1
      <4>3. program[q].mac # 0 => /\ program[program[q].mac].mac = program[q].mac
                                  /\ program[program[q].mac].index = program[q].index
        BY <1>1 DEF MacInv
      <4>4. QED BY <2>3, <3>3, <4>2, <4>3
    <3>4. QED BY <3>2, <3>3
  <2>5. \A i \in 0..Cardinality(Program) : registry'[i] # 0 =>
          program'[registry'[i]].mac = registry'[i] /\ program'[registry'[i]].index = i
    <3>1. TAKE i \in 0..Cardinality(Program)
    <3>2. registry[i] \in Program \union {0} BY <1>1
    <3>3. registry[i] # 0 => program'[registry[i]] = program[registry[i]]
      BY <2>2, <2>3, <3>2
    <3>4. registry[i] # 0 => program[registry[i]].mac = registry[i] /\ program[registry[i]].index = i
      BY <1>1 DEF MacInv
    <3>5. QED BY <1>2, <3>3, <3>4
  <2>6. QED BY <2>1, <2>4, <2>5 DEF MacInv
<1>12. ControlTypeOK'
  BY <1>1, <1>2, <1>5, <1>8, SceneStays DEF ControlTypeOK, OneMoves
<1>13. QED BY <1>1, <1>2, <1>8, <1>9, <1>10, <1>11, <1>12 DEF ControlInv

(* The record of a driver is made by one program, and deleted by whoever deletes one. *)
LEMMA CreateRecordKeeps == ASSUME ControlInv, NEW p \in Program, CreateRecord(p) PROVE ControlInv'
<1>1. /\ program[p] \in Programs /\ Station(p, Does(p), program[p]) /\ driver \in Drivers
      /\ scm \in ServiceRecords /\ UseInv /\ RecordInv /\ scene \in DOMAIN Scene
      /\ registry \in [0..Cardinality(Program) -> Program \union {0}] /\ MacInv
      /\ program \in [Program -> Programs]
  BY ControlInvHas DEF ControlInv
<1>2. /\ program[p].at = "create" /\ scene' = scene /\ registry' = registry /\ driver' = driver
  BY DEF CreateRecord, IsAt
<1>3. CASE Becomes(p, Exits(program[p], "error")) /\ UNCHANGED scm
  <2>1. UNCHANGED <<scm, driver, registry>> BY <1>2, <1>3
  <2>2. QED BY <1>2, <1>3, <2>1, ToEnd
<1>4. CASE /\ ~Present /\ scm' = [scm EXCEPT !.record = p, !.version = Version(p)]
           /\ Becomes(p, [ProgramAt(p, "launch") EXCEPT !.made = TRUE])
  <2>1. PICK a : a = ProgramAt(p, "launch") OBVIOUS
  <2>2. a \in Programs /\ a.at = "launch" /\ a.rc = program[p].rc /\ a.handle = program[p].handle
        /\ Alike(program[p], a)
    <3>1. "launch" \in Ats BY DEF Ats
    <3>2. QED BY <1>1, <2>1, <3>1, AtSet DEF ProgramAt
  <2>3. PICK r : r = [a EXCEPT !.made = TRUE] OBVIOUS
  <2>4. /\ r \in Programs /\ r.at = a.at /\ r.rc = a.rc /\ r.handle = a.handle /\ r.mac = a.mac
        /\ r.made = TRUE /\ r.knows = a.knows /\ r.index = a.index /\ r.gone = a.gone
    BY <2>2, <2>3, MadeSet
  <2>5. /\ r.at = "launch" /\ r.handle = program[p].handle /\ r.mac = program[p].mac
        /\ r.rc = program[p].rc /\ r.knows = program[p].knows /\ r.index = program[p].index
        /\ r.gone = program[p].gone
    BY <2>2, <2>4 DEF Alike
  <2>6. OneMoves(p) /\ program'[p] = r BY <1>2, <1>4, <2>1, <2>3, <2>4, OneBecomes
  <2>7. PICK v \in Versions : v = Version(p) /\ v # "none" BY <1>1, SceneHas
  <2>8. /\ scm' \in ServiceRecords /\ scm'.record = p /\ scm'.version = v
        /\ scm'.state = scm.state /\ scm'.marked = scm.marked
    <3>1. scm' = [scm EXCEPT !.record = p, !.version = v] BY <1>4, <2>7
    <3>2. QED BY <1>1, <3>1 DEF ServiceRecords
  <2>9. ~driver.loaded /\ ~scm.marked /\ scm.record = 0 BY <1>1, <1>4 DEF UseInv, RecordInv, Present
  <2>10. Open' = Open /\ Monitors' = Monitors
    BY <1>2, <2>5, <2>6, OpenAfter DEF Open, Monitors
  <2>11. UseInv' BY <1>1, <1>2, <2>7, <2>8, <2>9, <2>10, UseStays
  <2>12. Station(p, Does(p), r) BY <1>1, <1>2, <2>5 DEF Station
  <2>13. StationInv' BY <2>6, <2>12, StationsStay DEF ControlInv
  <2>14. GoesOn(program[p], r) BY <1>2 DEF GoesOn
  <2>15. KnowsInv' BY <2>5, <2>6, <2>14, KnowsStay DEF ControlInv
  <2>16. MacInv' BY <1>1, <1>2, <2>5, <2>6, MacStay
  <2>17. RecordInv'
    <3>1. Program' = Program /\ Given' = Given BY <1>2, SceneStays
    <3>2. p # 0 /\ p # Given /\ 0 \notin Program BY <1>1, ProgramsFinite
    <3>3. \A q \in Program : /\ program'[q].gone = program[q].gone
                             /\ program[q].made => program'[q].made
                             /\ q # p => program'[q].made = program[q].made
      BY <2>4, <2>5, <2>6 DEF OneMoves
    <3>4. ~program[p].made BY <1>1, <1>2 DEF Station
    <3>5. \A q \in Program : program[q].gone \subseteq {o \in Program : program[o].made} \union {Given}
      BY <1>1 DEF RecordInv
    <3>6. \A q \in Program : p \notin program[q].gone BY <3>2, <3>4, <3>5
    <3>7. \A q \in Program :
            program'[q].gone \subseteq {o \in Program : program'[o].made} \union {Given}
      BY <3>3, <3>5
    <3>8. ASSUME NEW q \in Program, program'[q].made /\ (scm'.record # q \/ scm'.marked)
          PROVE  \E o \in Program : q \in program'[o].gone
      <4>1. q # p /\ q # 0 BY <2>8, <2>9, <3>2, <3>8
      <4>2. program[q].made BY <3>3, <3>8, <4>1
      <4>3. PICK o \in Program : q \in program[o].gone BY <1>1, <2>9, <4>1, <4>2 DEF RecordInv
      <4>4. QED BY <3>3, <4>3
    <3>9. QED BY <2>8, <2>9, <3>1, <3>3, <3>6, <3>7, <3>8 DEF RecordInv, Present
  <2>18. ControlTypeOK'
    BY <1>1, <1>2, <2>6, <2>8, SceneStays DEF ControlTypeOK, OneMoves
  <2>19. QED BY <1>1, <1>2, <2>11, <2>13, <2>15, <2>16, <2>17, <2>18 DEF ControlInv
<1>5. QED BY <1>3, <1>4 DEF CreateRecord

LEMMA DeleteRecordKeeps ==
  ASSUME ControlInv, NEW p \in Program, NEW rc, DeleteRecord(p, rc),
         program[p].at \in {"undo", "delete"},
         Does(p) = "remove" /\ rc = "ok" => program[p].knows = {}
  PROVE  ControlInv'
<1>1. /\ program[p] \in Programs /\ Station(p, Does(p), program[p]) /\ driver \in Drivers
      /\ scm \in ServiceRecords /\ UseInv /\ RecordInv /\ scene \in DOMAIN Scene
      /\ registry \in [0..Cardinality(Program) -> Program \union {0}] /\ MacInv
      /\ program \in [Program -> Programs]
  BY ControlInvHas DEF ControlInv
<1>2. /\ scene' = scene /\ registry' = registry /\ driver' = driver
      /\ scm' = IF Present /\ ~scm.marked THEN Deleted(scm) ELSE scm
  BY DEF DeleteRecord
<1>3. PICK G : G = {q \in Program : program[q].made} \union {Given} OBVIOUS
<1>4. G \in SUBSET (Program \union {Given}) BY <1>3
<1>5. PICK e : e = Exits(program[p], rc) OBVIOUS
<1>6. /\ e \in Programs /\ e.at = "ended" /\ e.handle = program[p].handle /\ Alike(program[p], e)
      /\ (e.rc = "ok" <=> rc = "ok")
  BY <1>1, <1>5, Exited
<1>7. PICK r : r = [e EXCEPT !.gone = G] OBVIOUS
<1>8. /\ r \in Programs /\ r.at = e.at /\ r.rc = e.rc /\ r.handle = e.handle /\ r.mac = e.mac
      /\ r.made = e.made /\ r.knows = e.knows /\ r.index = e.index /\ r.gone = G
  BY <1>4, <1>6, <1>7, GoneSet
<1>9. /\ r.at = "ended" /\ r.handle = program[p].handle /\ r.mac = program[p].mac
      /\ r.made = program[p].made /\ r.knows = program[p].knows /\ r.index = program[p].index
  BY <1>6, <1>8 DEF Alike
<1>10. Becomes(p, r) BY <1>3, <1>5, <1>7 DEF DeleteRecord
<1>11. OneMoves(p) /\ program'[p] = r BY <1>2, <1>8, <1>10, OneBecomes
<1>12. Open' = Open /\ Monitors' = Monitors BY <1>9, <1>11, OpenAfter DEF Open, Monitors
<1>13. /\ Deleted(scm) \in ServiceRecords /\ Deleted(scm).state = scm.state
       /\ Deleted(scm).version = scm.version
       /\ scm.state = "stopped" => Deleted(scm).record = 0 /\ Deleted(scm).marked = scm.marked
       /\ scm.state # "stopped" => Deleted(scm).record = scm.record /\ Deleted(scm).marked = TRUE
  BY <1>1, DeletedHas
<1>14. scm' \in ServiceRecords /\ scm'.state = scm.state /\ scm'.version = scm.version
       /\ scm'.record \in {0, scm.record} /\ (scm.state # "stopped" => scm'.record = scm.record)
       /\ (scm'.marked => scm'.state # "stopped") /\ (scm'.record # 0 => scm'.marked)
  BY <1>1, <1>2, <1>13 DEF RecordInv, Present
<1>15. UseInv' BY <1>1, <1>2, <1>12, <1>14, UseStays DEF UseInv, Present
<1>16. RecordInv'
  <2>1. Program' = Program /\ Given' = Given BY <1>2, SceneStays
  <2>2. \A q \in Program : program'[q].made = program[q].made BY <1>9, <1>11 DEF OneMoves
  <2>3. \A q \in Program : program'[q].gone = IF q = p THEN G ELSE program[q].gone
    BY <1>8, <1>11 DEF OneMoves
  <2>4. {o \in Program : program'[o].made} = {o \in Program : program[o].made} BY <2>2
  <2>5. \A q \in Program :
          program'[q].gone \subseteq {o \in Program : program'[o].made} \union {Given}
    BY <1>1, <1>3, <2>3, <2>4 DEF RecordInv
  <2>6. ASSUME NEW q \in Program, program'[q].made PROVE \E o \in Program : q \in program'[o].gone
    BY <1>3, <2>2, <2>3, <2>6
  <2>7. QED BY <1>14, <2>1, <2>5, <2>6 DEF RecordInv, Present
<1>17. Station(p, Does(p), r) BY <1>1, <1>6, <1>8, <1>9 DEF Station
<1>18. StationInv' BY <1>11, <1>17, StationsStay DEF ControlInv
<1>19. GoesOn(program[p], r) BY <1>9 DEF GoesOn
<1>20. KnowsInv' BY <1>9, <1>11, <1>19, KnowsStay DEF ControlInv
<1>21. MacInv' BY <1>1, <1>2, <1>9, <1>11, MacStay
<1>22. ControlTypeOK' BY <1>1, <1>2, <1>11, <1>14, SceneStays DEF ControlTypeOK, OneMoves
<1>23. QED BY <1>1, <1>2, <1>15, <1>16, <1>18, <1>20, <1>21, <1>22 DEF ControlInv

LEMMA DeletersKeep ==
  ASSUME ControlInv, NEW p \in Program, UndoInstall(p) \/ RemoveRecord(p)
  PROVE  ControlInv'
<1>1. Station(p, Does(p), program[p]) BY ControlInvHas
<1>2. CASE UndoInstall(p) BY <1>1, <1>2, DeleteRecordKeeps DEF UndoInstall, IsAt, Station
<1>3. CASE RemoveRecord(p) BY <1>1, <1>3, DeleteRecordKeeps DEF RemoveRecord, IsAt, Station
<1>4. QED BY <1>2, <1>3

LEMMA ControlInvStays == ASSUME ControlInv, UNCHANGED controlVars PROVE ControlInv'
<1>1. scene' = scene /\ scm' = scm /\ driver' = driver /\ program' = program /\ registry' = registry
  BY DEF controlVars
<1>2. /\ Program' = Program /\ Playing' = Playing /\ Given' = Given
      /\ Drivers' = Drivers /\ ServiceRecords' = ServiceRecords /\ Programs' = Programs
      /\ \A q : Does(q)' = Does(q)
  BY <1>1, SceneStays
<1>3. Open' = Open /\ Monitors' = Monitors /\ (Present' <=> Present)
  BY <1>1, <1>2 DEF Open, Monitors, Present
<1>4. UseInv' BY <1>1, <1>2, <1>3 DEF ControlInv, UseInv
<1>5. RecordInv' BY <1>1, <1>2, <1>3 DEF ControlInv, RecordInv
<1>6. StationInv' BY <1>1, <1>2 DEF ControlInv, StationInv
<1>7. KnowsInv' BY <1>1, <1>2 DEF ControlInv, KnowsInv
<1>8. MacInv' BY <1>1, <1>2 DEF ControlInv, MacInv
<1>9. ControlTypeOK' BY <1>1, <1>2 DEF ControlInv, ControlTypeOK
<1>10. scene' \in DOMAIN Scene BY <1>1 DEF ControlInv
<1>11. QED BY <1>4, <1>5, <1>6, <1>7, <1>8, <1>9, <1>10 DEF ControlInv

LEMMA ControlInvStep == ASSUME ControlInv, [ControlNext]_controlVars PROVE ControlInv'
<1>1. CASE UNCHANGED controlVars BY <1>1, ControlInvStays
<1>2. CASE ControlNext
  <2>1. PICK p \in Program :
          \/ IsInstalled(p) \/ CreateRecord(p) \/ StartDriver(p) \/ UndoInstall(p) \/ RemoveRecord(p)
          \/ OpenDriver(p) \/ AskStatus(p) \/ StopDriver(p) \/ ReadMac(p) \/ WriteMac(p)
          \/ CreateMonitor(p) \/ DaemonEnds(p) \/ ProgramExits(p)
    BY <1>2 DEF ControlNext
  <2>2. QED
    BY <2>1, IsInstalledKeeps, CreateRecordKeeps, StartDriverKeeps, DeletersKeep, OpenDriverKeeps,
       AskStatusKeeps, StopDriverKeeps, ReadMacKeeps, WriteMacKeeps, CreateMonitorKeeps,
       DaemonEndsKeeps, ProgramExitsKeeps
<1>3. QED BY <1>1, <1>2

LEMMA ControlInvInit == ASSUME NEW n \in DOMAIN Scene, PlaysAt(n) PROVE ControlInv
<1>1. /\ scene = n /\ scene \in DOMAIN Scene /\ program = [p \in Program |-> NewProgram]
      /\ scm = (IF Playing.driver = "none"
                THEN [record |-> 0, version |-> "none", state |-> "stopped", marked |-> FALSE]
                ELSE [record |-> Given, version |-> Playing.driver, state |-> "running",
                      marked |-> FALSE])
      /\ driver = (IF Playing.driver = "none" THEN Unloaded
                   ELSE Loads([Unloaded EXCEPT !.loaded = TRUE, !.version = Playing.driver]))
      /\ registry = [index \in 0..Len(Playing.commands) |-> 0]
  BY DEF PlaysAt
<1>2. /\ Cardinality(Program) \in Nat /\ Cardinality(Program) = Len(Playing.commands)
      /\ Given # 0 /\ 0 \in 0..Cardinality(Program)
  BY <1>1, ProgramsFinite
<1>3. Playing.driver \in Versions /\ "none" \in Versions BY <1>1, SceneHas
<1>4. PICK N : N = NewProgram OBVIOUS
<1>5. N \in Programs
  <2>1. PICK i \in 0..Cardinality(Program) : i = 0 BY <1>2
  <2>2. N = [at |-> "start", rc |-> "none", handle |-> FALSE, made |-> FALSE,
             knows |-> {}, index |-> i, mac |-> 0, gone |-> {}]
    BY <1>4, <2>1 DEF NewProgram
  <2>3. QED BY <2>2 DEF Programs
<1>6. /\ N.at = "start" /\ N.rc = "none" /\ N.handle = FALSE /\ N.made = FALSE
      /\ N.knows = {} /\ N.index = 0 /\ N.mac = 0 /\ N.gone = {}
  BY <1>4 DEF NewProgram
<1>7. \A p \in Program : program[p] = N BY <1>1, <1>4
<1>8. program \in [Program -> Programs] BY <1>1, <1>4, <1>5
<1>9. registry \in [0..Cardinality(Program) -> Program \union {0}]
      /\ \A i \in 0..Cardinality(Program) : registry[i] = 0
  BY <1>1, <1>2
<1>10. Open = {} /\ Monitors = {} BY <1>6, <1>7 DEF Open, Monitors
<1>11. /\ scm \in ServiceRecords /\ scm.marked = FALSE /\ scm.state \in {"stopped", "running"}
       /\ (scm.state = "running" <=> Playing.driver # "none")
       /\ scm.record = (IF Playing.driver = "none" THEN 0 ELSE Given)
       /\ scm.version = Playing.driver
  <2>1. PICK V \in Versions, R \in Program \union {0, Given}, S \in {"stopped", "running"} :
          /\ V = Playing.driver /\ R = (IF Playing.driver = "none" THEN 0 ELSE Given)
          /\ S = IF Playing.driver = "none" THEN "stopped" ELSE "running"
    BY <1>3
  <2>2. scm = [record |-> R, version |-> V, state |-> S, marked |-> FALSE] BY <1>1, <2>1
  <2>3. scm \in ServiceRecords BY <2>2 DEF ServiceRecords
  <2>4. scm.record = R /\ scm.version = V /\ scm.state = S /\ scm.marked = FALSE BY <2>2
  <2>5. QED BY <2>1, <2>3, <2>4
<1>12. /\ driver \in Drivers /\ driver.monitors = 0 /\ driver.lost = {} /\ driver.wild = {}
       /\ driver.version = Playing.driver
       /\ driver.state = (IF Playing.driver = "none" THEN "none" ELSE "initialized")
       /\ driver.loaded = (Playing.driver # "none")
       /\ driver.held = (IF Playing.driver = "none" THEN {} ELSE Allocated)
  <2>1. PICK V \in Versions, M \in 0..Cardinality(Program), L \in SUBSET Allocated,
             W \in SUBSET {"lock", "pgds"}, H \in {{}, Allocated} :
          /\ V = Playing.driver /\ M = 0 /\ L = {} /\ W = {}
          /\ H = (IF Playing.driver = "none" THEN {} ELSE Allocated)
    BY <1>2, <1>3
  <2>2. CASE Playing.driver = "none"
    <3>1. driver = [loaded |-> FALSE, state |-> "none", monitors |-> M, version |-> V,
                    held |-> H, lost |-> L, wild |-> W]
      BY <1>1, <2>1, <2>2 DEF Unloaded
    <3>2. driver \in Drivers BY <3>1 DEF Drivers
    <3>3. /\ driver.monitors = M /\ driver.lost = L /\ driver.wild = W /\ driver.version = V
          /\ driver.state = "none" /\ driver.loaded = FALSE /\ driver.held = H
      BY <3>1
    <3>4. QED BY <2>1, <2>2, <3>2, <3>3
  <2>3. CASE Playing.driver # "none"
    <3>1. driver = [loaded |-> TRUE, state |-> "initialized", monitors |-> M, version |-> V,
                    held |-> H, lost |-> L, wild |-> W]
      BY <1>1, <2>1, <2>3 DEF Unloaded, Loads
    <3>2. driver \in Drivers BY <3>1 DEF Drivers
    <3>3. /\ driver.monitors = M /\ driver.lost = L /\ driver.wild = W /\ driver.version = V
          /\ driver.state = "initialized" /\ driver.loaded = TRUE /\ driver.held = H
      BY <3>1
    <3>4. QED BY <2>1, <2>3, <3>2, <3>3
  <2>4. QED BY <2>2, <2>3
<1>13. ControlTypeOK BY <1>8, <1>9, <1>11, <1>12 DEF ControlTypeOK
<1>14. Cardinality(Monitors) = 0 /\ Cardinality({}) = 0 BY <1>10, FS_EmptySet
<1>15. UseInv BY <1>2, <1>10, <1>11, <1>12, <1>14 DEF UseInv, Present
<1>16. StationInv BY <1>6, <1>7, <1>14 DEF StationInv, Station
<1>17. KnowsInv BY <1>6, <1>7 DEF KnowsInv
<1>18. MacInv BY <1>6, <1>7, <1>9 DEF MacInv
<1>19. RecordInv BY <1>6, <1>7, <1>11 DEF RecordInv, Present
<1>20. QED BY <1>1, <1>13, <1>15, <1>16, <1>17, <1>18, <1>19 DEF ControlInv

LEMMA ControlInvAddresses == ASSUME ControlInv PROVE AddressesKnown
<1>1. /\ scene \in DOMAIN Scene /\ program \in [Program -> Programs] /\ StationInv /\ KnowsInv
      /\ MacInv
  BY DEF ControlInv, ControlTypeOK
<1>2. SUFFICES ASSUME NEW p \in Monitors, NEW q \in Monitors, p # q, program[p].mac = program[q].mac
      PROVE  /\ program[p].index = program[q].index
             /\ \/ p \notin program[q].knows /\ q \notin program[p].knows
                \/ p \in program[q].knows /\ \E r \in program[p].knows \ program[q].knows : ~IsAt(r, "runs")
                \/ q \in program[p].knows /\ \E r \in program[q].knows \ program[p].knows : ~IsAt(r, "runs")
  BY DEF AddressesKnown
<1>3. p \in Program /\ q \in Program /\ program[p].at = "runs" /\ program[q].at = "runs"
  BY DEF Monitors
<1>4. /\ program[p].mac # 0 /\ program[q].mac # 0
      /\ p \notin program[p].knows /\ q \notin program[q].knows
      /\ program[p].index = Cardinality(program[p].knows)
      /\ program[q].index = Cardinality(program[q].knows)
  BY <1>1, <1>3 DEF StationInv, Station
<1>5. program[p].index = program[q].index
  <2>1. program[program[p].mac].index = program[p].index BY <1>1, <1>3, <1>4 DEF MacInv
  <2>2. program[program[q].mac].index = program[q].index BY <1>1, <1>3, <1>4 DEF MacInv
  <2>3. QED BY <1>2, <2>1, <2>2
<1>6. program[p].knows \subseteq Program /\ program[q].knows \subseteq Program
  <2>1. program[p] \in Programs /\ program[q] \in Programs BY <1>1, <1>3
  <2>2. program[p].knows \in SUBSET Program /\ program[q].knows \in SUBSET Program BY <2>1, ProgramHas
  <2>3. QED BY <2>2
<1>7. IsFiniteSet(program[p].knows) /\ IsFiniteSet(program[q].knows)
  BY <1>1, <1>6, ProgramsFinite
<1>8. ASSUME NEW a \in Program, NEW b \in Program, IsFiniteSet(program[a].knows),
             IsFiniteSet(program[b].knows), a \notin program[a].knows, a \in program[b].knows,
             Cardinality(program[a].knows) = Cardinality(program[b].knows)
      PROVE  \E r \in program[a].knows \ program[b].knows : ~IsAt(r, "runs")
  <2>1. PICK A, B : A = program[a].knows /\ B = program[b].knows OBVIOUS
  <2>2. ~(A \subseteq B)
    <3>1. ASSUME A \subseteq B PROVE FALSE
      <4>1. A \in SUBSET B /\ IsFiniteSet(B) /\ Cardinality(B) = Cardinality(A)
        BY <1>8, <2>1, <3>1
      <4>2. B = A BY <4>1, FS_Subset
      <4>3. QED BY <1>8, <2>1, <4>2
    <3>2. QED BY <3>1
  <2>3. PICK r \in A : r \notin B BY <2>2
  <2>4. program[r].at = "ended" BY <1>1, <1>8, <2>1, <2>3 DEF KnowsInv
  <2>5. QED BY <2>1, <2>3, <2>4 DEF IsAt
<1>9. QED BY <1>3, <1>4, <1>5, <1>7, <1>8

LEMMA ControlInvExact == ASSUME ControlInv PROVE ControlAgrees
<1>1. DriverInUse
  <2>1. Monitors \subseteq Open BY MonitorsOpen DEF ControlInv
  <2>2. QED BY <2>1 DEF ControlInv, UseInv, DriverInUse
<1>2. NothingForgotten BY DEF ControlInv, UseInv, NothingForgotten
<1>3. AddressesKnown BY ControlInvAddresses
<1>4. AnswersTrue
  <2>1. \A p \in Program : Does(p) = "remove" /\ program[p].rc = "ok" => program[p].knows = {}
    BY DEF ControlInv, StationInv, Station
  <2>2. \A p \in Program : DriverRuns /\ ~scm.marked => scm.record \notin program[p].gone
    <3>1. DriverRuns => Present BY DEF ControlInv, UseInv, DriverRuns
    <3>2. QED BY <3>1 DEF ControlInv, RecordInv
  <2>3. \A p \in Program : program[p].made =>
          scm.record = p \/ \E q \in Program : p \in program[q].gone
    BY DEF ControlInv, RecordInv
  <2>4. QED BY <2>1, <2>2, <2>3 DEF AnswersTrue
<1>5. QED BY <1>1, <1>2, <1>3, <1>4 DEF ControlAgrees

-----------------------------------------------------------------------------
(* Both, where they are exercised. *)
ProgramsInv ==
  /\ exercised = "control" => ControlInv
  /\ exercised = "service" => ServiceInv

(* However the programs that install, ask for and remove the driver, the daemons and the
   faults of their steps interleave, the driver is in memory while it is used and counts the
   monitors, a failed load leaves what its last step kept, no two guests have one address but
   for what AddressesKnown excepts, and the answers of driver.c are true; and however the two
   threads of a service interleave, the service manager knows how the daemon stands unless
   their reports overlapped, and a stop that was taken reaches the guest (service.c). *)
THEOREM ProgramsAgree == GuestDevicesSpec => []ControlExact
<1>1. GuestDevicesInit => ProgramsInv
  <2> SUFFICES ASSUME GuestDevicesInit PROVE ProgramsInv
    OBVIOUS
  <2>1. exercised = "control" => ControlInit BY DEF GuestDevicesInit
  <2>2. exercised = "control" => ControlInv BY <2>1, ControlInvInit DEF ControlInit
  <2>3. ServiceInit BY DEF GuestDevicesInit
  <2>4. QED BY <2>2, <2>3, ServiceInvInit DEF ProgramsInv
<1>2. ProgramsInv /\ [GuestDevicesNext]_guestDevicesVars => ProgramsInv'
  <2> SUFFICES ASSUME ProgramsInv, [GuestDevicesNext]_guestDevicesVars PROVE ProgramsInv'
    OBVIOUS
  <2>1. exercised' = exercised BY DEF GuestDevicesNext, guestDevicesVars
  <2>2. exercised = "control" => [ControlNext]_controlVars
    BY Zenon DEF GuestDevicesNext, guestDevicesVars
  <2>3. exercised = "service" => [ServiceNext]_serviceVars
    BY Zenon DEF GuestDevicesNext, guestDevicesVars
  <2>4. exercised = "control" => ControlInv' BY <2>2, ControlInvStep DEF ProgramsInv
  <2>5. exercised = "service" => ServiceInv' BY <2>3, ServiceInvStep DEF ProgramsInv
  <2>6. QED BY <2>1, <2>4, <2>5 DEF ProgramsInv
<1>3. ProgramsInv => ControlExact
  BY ControlInvExact, ServiceInvExact DEF ProgramsInv, ControlExact
<1>4. QED BY <1>1, <1>2, <1>3, PTL DEF GuestDevicesSpec

-----------------------------------------------------------------------------
(* What the TAP driver answers itself *)

(* What the server remembers of the frame it decides about, and what its verdict rests on. *)
SessionKnown ==
  ~lived.straddled =>
    /\ ~Deciding => dhcp.discover = lived.asked /\ dhcp.bad = lived.blind
    /\ Deciding =>
         /\ dhcp.addr # "zero"
         /\ lived.asked = (dhcp.discover \/ transmit.type = "offer")
         /\ lived.blind = IF transmit.type # "offer" /\ Passing.ciaddr # dhcp.addr
                          THEN Counted(dhcp.bad) ELSE dhcp.bad
VerdictKnown ==
  /\ Deciding => transmit.type # "none"
  /\ Deciding /\ transmit.type # "offer" /\ ~lived.straddled =>
       (transmit.type = "nak" <=>
          \/ Passing.ciaddr \notin {"zero", dhcp.addr} \/ ~dhcp.discover
          \/ dhcp.bad >= BAD_DHCPREQUEST_NAK_THRESHOLD)

(* The options that are about to be sent, and what was. *)
AnswerKnown ==
  /\ transmit.length <= DHCP_OPTIONS_BUFFER_SIZE
  /\ transmit.at = "send" =>
       /\ ~transmit.overflow /\ transmit.type # "nak" =>
            transmit.user <= DHCP_OPTIONS_BUFFER_SIZE - 22
       /\ ~lived.mixed => transmit.server = dhcp.server /\ transmit.user = dhcp.options
  /\ handed.kind \in {"offer", "ack", "nak"} => transmit.at = "note"
  /\ handed.kind \in {"offer", "ack"} =>
       /\ handed.user <= DHCP_OPTIONS_BUFFER_SIZE - 22
       /\ ~lived.mixed =>
            /\ handed.mac = dhcp.mac /\ handed.addr = dhcp.addr
            /\ handed.server = dhcp.server /\ handed.user = dhcp.options

(* The two modes between the steps of the ioctls that switch them. *)
ModeKnown ==
  /\ ptp.header \in {"none", "gateway"} /\ (ptp.tun => ptp.header = "gateway")
  /\ ioctl \in {"addresses", "headers"} => ~ptp.tun
  /\ ioctl \in {"fields", "enable"} => ~dhcp.on
  /\ dhcp.on \/ ioctl = "enable" => dhcp.addr # "zero"
  /\ dhcp.on /\ ~dhcp.arp =>
       dhcp.mac = "gateway" /\ (lived.moved \/ (ptp.tun /\ dhcp.server \in ptp.net))

(* What has passed the server on its way to the process, and what the process wrote. *)
PassedKnown ==
  /\ transmit.at \in {"tun", "ptp", "queue", "queue as tun"} /\ dhcp.on /\ ~lived.mixed =>
       ~(Passing.kind = "boot" /\ Passing.ours /\ Passing.dest \in {"broadcast", dhcp.mac})
  /\ transmit.at = "queue as tun" => Passing.dest = "gateway"
WriteKnown == written \in Mac => written = "gateway"

MasqueradeInv ==
  /\ MasqueradeTypeOK
  /\ SessionKnown /\ VerdictKnown /\ AnswerKnown /\ ModeKnown /\ PassedKnown /\ WriteKnown

LEMMA MasqueradeInvExact == ASSUME MasqueradeInv PROVE MasqueradeExact
<1>1. /\ dhcp.bad \in 0..4 /\ transmit.type \in {"none", "offer", "ack", "nak"}
  <2>1. dhcp \in DhcpRecords /\ transmit \in TransmitRecords
    BY DEF MasqueradeInv, MasqueradeTypeOK
  <2>2. dhcp.bad \in BadCounts BY <2>1 DEF DhcpRecords
  <2>3. transmit.type \in {"none", "offer", "ack", "nak"} BY <2>1 DEF TransmitRecords
  <2>4. QED BY <2>2, <2>3 DEF BadCounts, BAD_DHCPREQUEST_NAK_THRESHOLD
<1>2. SessionRemembered BY DEF MasqueradeInv, SessionKnown, SessionRemembered
<1>3. VerdictJust
  <2> SUFFICES ASSUME Deciding, transmit.type # "offer", ~lived.straddled
      PROVE  transmit.type = "nak" <=>
               \/ Passing.ciaddr \notin {"zero", dhcp.addr} \/ ~lived.asked
               \/ lived.blind >= BAD_DHCPREQUEST_NAK_THRESHOLD
                                   + (IF Passing.ciaddr = "zero" THEN 1 ELSE 0)
    BY DEF VerdictJust
  <2>1. /\ dhcp.addr # "zero" /\ lived.asked = dhcp.discover
        /\ lived.blind = IF Passing.ciaddr # dhcp.addr THEN Counted(dhcp.bad) ELSE dhcp.bad
    <3>1. /\ dhcp.addr # "zero" /\ lived.asked = (dhcp.discover \/ transmit.type = "offer")
          /\ lived.blind = IF transmit.type # "offer" /\ Passing.ciaddr # dhcp.addr
                           THEN Counted(dhcp.bad) ELSE dhcp.bad
      BY Zenon DEF MasqueradeInv, SessionKnown
    <3>2. dhcp.discover \in BOOLEAN
      <4>1. dhcp \in DhcpRecords BY DEF MasqueradeInv, MasqueradeTypeOK
      <4>2. QED BY <4>1 DEF DhcpRecords
    <3>3. lived.asked = dhcp.discover BY <3>1, <3>2
    <3>4. lived.blind = IF Passing.ciaddr # dhcp.addr THEN Counted(dhcp.bad) ELSE dhcp.bad
      BY <3>1
    <3>5. QED BY <3>1, <3>3, <3>4
  <2>2. transmit.type = "nak" <=>
          \/ Passing.ciaddr \notin {"zero", dhcp.addr} \/ ~dhcp.discover \/ dhcp.bad >= 3
    BY DEF MasqueradeInv, VerdictKnown, BAD_DHCPREQUEST_NAK_THRESHOLD
  <2>3. PICK n \in 0..4 : n = dhcp.bad BY <1>1
  <2>4. Counted(n) >= 4 <=> n >= 3 BY <2>3 DEF Counted, BAD_DHCPREQUEST_NAK_THRESHOLD
  <2>5. CASE Passing.ciaddr = "zero"
    <3>1. lived.blind = Counted(n) BY <2>1, <2>3, <2>5
    <3>2. Passing.ciaddr \in {"zero", dhcp.addr} BY <2>5
    <3>3. (lived.blind >= BAD_DHCPREQUEST_NAK_THRESHOLD
                                   + (IF Passing.ciaddr = "zero" THEN 1 ELSE 0)) <=> n >= 3
      BY <2>4, <2>5, <3>1 DEF BAD_DHCPREQUEST_NAK_THRESHOLD
    <3>4. QED BY <2>1, <2>2, <2>3, <3>2, <3>3
  <2>6. CASE Passing.ciaddr # "zero"
    <3>1. CASE Passing.ciaddr = dhcp.addr
      <4>1. lived.blind = n BY <2>1, <2>3, <3>1
      <4>2. (lived.blind >= BAD_DHCPREQUEST_NAK_THRESHOLD
                                   + (IF Passing.ciaddr = "zero" THEN 1 ELSE 0)) <=> n >= 3
        BY <2>3, <2>6, <4>1 DEF BAD_DHCPREQUEST_NAK_THRESHOLD
      <4>3. QED BY <2>1, <2>2, <2>3, <3>1, <4>2
    <3>2. CASE Passing.ciaddr # dhcp.addr BY <2>2, <2>6, <3>2
    <3>3. QED BY <3>1, <3>2
  <2>7. QED BY <2>5, <2>6
<1>4. AnswerWhole BY DEF MasqueradeInv, AnswerKnown, AnswerWhole
<1>5. ServerFound
  <2> SUFFICES ASSUME dhcp.on
      PROVE  ServerAnswers = dhcp.mac
               \/ (ServerAnswers = "nobody" /\ (lived.moved \/ ptp.local # dhcp.addr))
    BY DEF ServerFound
  <2>1. ptp.tun => ptp.header = "gateway" BY DEF MasqueradeInv, ModeKnown
  <2>2. CASE dhcp.arp BY <2>2 DEF ServerAnswers
  <2>3. CASE ~dhcp.arp
    <3>1. dhcp.mac = "gateway" /\ (lived.moved \/ (ptp.tun /\ dhcp.server \in ptp.net))
      BY <2>3 DEF MasqueradeInv, ModeKnown
    <3>2. CASE ptp.tun /\ ptp.local = dhcp.addr /\ dhcp.server \in ptp.net
      BY <2>1, <2>3, <3>1, <3>2 DEF ServerAnswers
    <3>3. CASE ~(ptp.tun /\ ptp.local = dhcp.addr /\ dhcp.server \in ptp.net)
      <4>1. ServerAnswers = "nobody" BY <2>3, <3>3 DEF ServerAnswers
      <4>2. QED BY <3>1, <3>3, <4>1
    <3>4. QED BY <3>2, <3>3
  <2>4. QED BY <2>2, <2>3
<1>6. NotPassedOn
  BY DEF MasqueradeInv, PassedKnown, WriteKnown, NotPassedOn
<1>7. QED BY <1>2, <1>3, <1>4, <1>5, <1>6 DEF MasqueradeExact

(* What the fields of these records are, and what becomes of them. *)
LEMMA DhcpHas ==
  ASSUME NEW r \in DhcpRecords
  PROVE  /\ r.on \in BOOLEAN /\ r.arp \in BOOLEAN /\ r.mac \in Mac /\ r.addr \in Everywhere
         /\ r.server \in Everywhere /\ r.options \in Nat /\ r.discover \in BOOLEAN
         /\ r.bad \in BadCounts
  BY DEF DhcpRecords

LEMMA DhcpSupplied ==
  ASSUME NEW r \in DhcpRecords, NEW n \in Nat, NEW q, q = [r EXCEPT !.options = n]
  PROVE  /\ q \in DhcpRecords /\ q.on = r.on /\ q.arp = r.arp /\ q.mac = r.mac /\ q.addr = r.addr
         /\ q.server = r.server /\ q.options = n /\ q.discover = r.discover /\ q.bad = r.bad
  BY DEF DhcpRecords

LEMMA PtpHas ==
  ASSUME NEW r \in PtpRecords
  PROVE  /\ r.open \in BOOLEAN /\ r.tun \in BOOLEAN /\ r.local \in Everywhere
         /\ r.net \in SUBSET Everywhere /\ r.header \in Mac
  BY DEF PtpRecords

LEMMA PtpClosed ==
  ASSUME NEW r \in PtpRecords, NEW b \in BOOLEAN, NEW q, q = [r EXCEPT !.open = b]
  PROVE  /\ q \in PtpRecords /\ q.open = b /\ q.tun = r.tun /\ q.local = r.local /\ q.net = r.net
         /\ q.header = r.header
  BY DEF PtpRecords

LEMMA PtpOff ==
  ASSUME NEW r \in PtpRecords, NEW b \in BOOLEAN, NEW q, q = [r EXCEPT !.tun = b]
  PROVE  /\ q \in PtpRecords /\ q.open = r.open /\ q.tun = b /\ q.local = r.local /\ q.net = r.net
         /\ q.header = r.header
  BY DEF PtpRecords

LEMMA LivedHas ==
  ASSUME NEW r \in LivedRecords
  PROVE  /\ r.asked \in BOOLEAN /\ r.blind \in BadCounts /\ r.moved \in BOOLEAN
         /\ r.mixed \in BOOLEAN /\ r.straddled \in BOOLEAN
  BY DEF LivedRecords

LEMMA LivedMixed ==
  ASSUME NEW r \in LivedRecords, NEW b \in BOOLEAN, NEW q, q = [r EXCEPT !.mixed = b]
  PROVE  /\ q \in LivedRecords /\ q.asked = r.asked /\ q.blind = r.blind /\ q.moved = r.moved
         /\ q.mixed = b /\ q.straddled = r.straddled
  BY DEF LivedRecords

LEMMA LivedMoved ==
  ASSUME NEW r \in LivedRecords, NEW b \in BOOLEAN, NEW q, q = [r EXCEPT !.moved = b]
  PROVE  /\ q \in LivedRecords /\ q.asked = r.asked /\ q.blind = r.blind /\ q.moved = b
         /\ q.mixed = r.mixed /\ q.straddled = r.straddled
  BY DEF LivedRecords

LEMMA LivedStraddled ==
  ASSUME NEW r \in LivedRecords, NEW b \in BOOLEAN, NEW q, q = [r EXCEPT !.straddled = b]
  PROVE  /\ q \in LivedRecords /\ q.asked = r.asked /\ q.blind = r.blind /\ q.moved = r.moved
         /\ q.mixed = r.mixed /\ q.straddled = b
  BY DEF LivedRecords

LEMMA TransmitHas ==
  ASSUME NEW r \in TransmitRecords
  PROVE  /\ r.at \in {"idle", "dhcp", "options", "send", "note", "tun", "ptp", "queue",
                      "queue as tun"}
         /\ r.frame \in Frame \union {NoFrame} /\ r.type \in {"none", "offer", "ack", "nak"}
         /\ r.server \in Everywhere /\ r.user \in Nat /\ r.overflow \in BOOLEAN /\ r.length \in Nat
  BY DEF TransmitRecords

Stages == {"dhcp", "options", "send", "note", "tun", "ptp", "queue", "queue as tun"}

LEMMA ZeroEverywhere ==
  /\ "zero" \in Everywhere /\ Host \subseteq Everywhere /\ Host \in SUBSET Everywhere
  /\ Everywhere \in SUBSET Everywhere /\ "zero" \notin Host
  BY MasqueradeAssumption DEF Everywhere

LEMMA CountedHas ==
  ASSUME NEW n \in BadCounts PROVE Counted(n) \in BadCounts
  BY DEF Counted, BadCounts, BAD_DHCPREQUEST_NAK_THRESHOLD

LEMMA RequestHas ==
  ASSUME course \in Seq(Requested), course # <<>>
  PROVE  /\ Request \in Requested /\ Tail(course) \in Seq(Requested)
         /\ Request.does = "tun" =>
              Request.local \in Host /\ Request.net \in SUBSET Host /\ Request.sound \in BOOLEAN
         /\ Request.does = "masq" => Request.addr \in Host /\ Request.server \in Host
         /\ Request.does \in {"options", "write"} => Request.length \in Nat
<1>1. Request \in Requested /\ Tail(course) \in Seq(Requested) BY DEF Request
<1>2. PICK r : r = Request OBVIOUS
<1>3. r \in Requested BY <1>1, <1>2
<1>4. /\ r.does = "tun" => r.local \in Host /\ r.net \in SUBSET Host /\ r.sound \in BOOLEAN
      /\ r.does = "masq" => r.addr \in Host /\ r.server \in Host
      /\ r.does \in {"options", "write"} => r.length \in Nat
  BY <1>3 DEF Requested
<1>5. QED BY <1>1, <1>2, <1>4

IoctlSteps == {"start", "reset", "addresses", "headers", "check", "fields", "enable", "copy"}

(* A step of an ioctl or a write while a frame may be on its way: it is mixed up with it, and what
   the server remembers is either kept or, if no frame is on its way, as new. *)
Remembers ==
  ~lived'.straddled =>
    \/ /\ transmit.at = "idle" /\ dhcp'.discover = lived'.asked /\ dhcp'.bad = lived'.blind
    \/ /\ ~lived.straddled /\ lived'.asked = lived.asked /\ lived'.blind = lived.blind
       /\ dhcp'.discover = dhcp.discover /\ dhcp'.bad = dhcp.bad
       /\ dhcp'.addr = dhcp.addr \/ transmit.at = "idle"

LEMMA AsideKeeps ==
  ASSUME MasqueradeInv, transmit' = transmit, handed' = handed,
         lived'.mixed = (transmit.at # "idle"), Remembers
  PROVE  SessionKnown' /\ VerdictKnown' /\ AnswerKnown' /\ PassedKnown'
<1>1. Deciding' = Deciding /\ Passing' = Passing BY DEF Deciding, Passing
<1>2. Deciding => transmit.at # "idle" BY DEF Deciding
<1>3. ASSUME ~lived'.straddled, Deciding
      PROVE  /\ ~lived.straddled /\ lived'.asked = lived.asked /\ lived'.blind = lived.blind
             /\ dhcp'.discover = dhcp.discover /\ dhcp'.bad = dhcp.bad /\ dhcp'.addr = dhcp.addr
  BY <1>2, <1>3 DEF Remembers
<1>4. SessionKnown'
  <2>1. ASSUME ~lived'.straddled, ~Deciding
        PROVE  dhcp'.discover = lived'.asked /\ dhcp'.bad = lived'.blind
    <3>1. CASE transmit.at = "idle" /\ dhcp'.discover = lived'.asked /\ dhcp'.bad = lived'.blind
      BY <3>1
    <3>2. CASE /\ ~lived.straddled /\ lived'.asked = lived.asked /\ lived'.blind = lived.blind
               /\ dhcp'.discover = dhcp.discover /\ dhcp'.bad = dhcp.bad
      <4>1. dhcp.discover = lived.asked /\ dhcp.bad = lived.blind
        BY <2>1, <3>2 DEF MasqueradeInv, SessionKnown
      <4>2. QED BY <3>2, <4>1
    <3>3. QED BY <2>1, <3>1, <3>2 DEF Remembers
  <2>2. ASSUME ~lived'.straddled, Deciding
        PROVE  /\ dhcp'.addr # "zero"
               /\ lived'.asked = (dhcp'.discover \/ transmit.type = "offer")
               /\ lived'.blind = IF transmit.type # "offer" /\ Passing.ciaddr # dhcp'.addr
                                 THEN Counted(dhcp'.bad) ELSE dhcp'.bad
    <3>1. /\ dhcp.addr # "zero"
          /\ lived.asked = (dhcp.discover \/ transmit.type = "offer")
          /\ lived.blind = IF transmit.type # "offer" /\ Passing.ciaddr # dhcp.addr
                           THEN Counted(dhcp.bad) ELSE dhcp.bad
      BY <1>3, <2>2, Zenon DEF MasqueradeInv, SessionKnown
    <3>2. QED BY <1>3, <2>2, <3>1
  <2>3. QED BY <1>1, <2>1, <2>2 DEF SessionKnown
<1>5. VerdictKnown'
  <2>1. ASSUME Deciding, transmit.type # "offer", ~lived'.straddled
        PROVE  transmit.type = "nak" <=>
                 \/ Passing.ciaddr \notin {"zero", dhcp'.addr} \/ ~dhcp'.discover
                 \/ dhcp'.bad >= BAD_DHCPREQUEST_NAK_THRESHOLD
    <3>1. transmit.type = "nak" <=>
            \/ Passing.ciaddr \notin {"zero", dhcp.addr} \/ ~dhcp.discover
            \/ dhcp.bad >= BAD_DHCPREQUEST_NAK_THRESHOLD
      BY <1>3, <2>1 DEF MasqueradeInv, VerdictKnown
    <3>2. QED BY <1>3, <2>1, <3>1
  <2>2. Deciding => transmit.type # "none" BY DEF MasqueradeInv, VerdictKnown
  <2>3. QED BY <1>1, <2>1, <2>2 DEF VerdictKnown
<1>6. AnswerKnown' BY DEF MasqueradeInv, AnswerKnown
<1>7. PassedKnown' BY DEF MasqueradeInv, PassedKnown, Passing
<1>8. QED BY <1>4, <1>5, <1>6, <1>7

LEMMA AsideStep ==
  ASSUME MasqueradeInv, course # <<>>, course' \in {course, Tail(course)}, ioctl' \in IoctlSteps,
         transmit' = transmit, handed' = handed, ptp' \in PtpRecords, dhcp' \in DhcpRecords,
         lived' \in LivedRecords, lived'.mixed = (transmit.at # "idle"), Remembers, ModeKnown',
         written' \in {"nothing", "refused", "frame"} \union Mac, WriteKnown'
  PROVE  MasqueradeInv'
<1>1. MasqueradeTypeOK'
  <2>1. course \in Seq(Requested) /\ transmit \in TransmitRecords /\ handed \in HandedRecords
        /\ (transmit.at # "idle" => transmit.frame \in Frame)
    BY DEF MasqueradeInv, MasqueradeTypeOK
  <2>2. course' \in Seq(Requested) BY <2>1, RequestHas
  <2>3. transmit' \in TransmitRecords /\ handed' \in HandedRecords
        /\ (transmit'.at # "idle" => transmit'.frame \in Frame)
    BY <2>1
  <2>4. QED BY <2>2, <2>3 DEF MasqueradeTypeOK, IoctlSteps
<1>2. QED BY <1>1, AsideKeeps DEF MasqueradeInv

LEMMA MasqueradeHere ==
  ASSUME MasqueradeInv
  PROVE  /\ course \in Seq(Requested) /\ ioctl \in IoctlSteps /\ ptp \in PtpRecords
         /\ dhcp \in DhcpRecords /\ transmit \in TransmitRecords /\ handed \in HandedRecords
         /\ lived \in LivedRecords /\ (transmit.at # "idle" => transmit.frame \in Frame)
         /\ written \in {"nothing", "refused", "frame"} \union Mac
         /\ ModeKnown /\ WriteKnown
  BY DEF MasqueradeInv, MasqueradeTypeOK, IoctlSteps

LEMMA MeanwhileHas ==
  ASSUME MasqueradeInv
  PROVE  /\ Meanwhile \in LivedRecords /\ Meanwhile.asked = lived.asked
         /\ Meanwhile.blind = lived.blind /\ Meanwhile.moved = lived.moved
         /\ Meanwhile.mixed = (transmit.at # "idle") /\ Meanwhile.straddled = lived.straddled
<1>1. PICK b \in BOOLEAN : b = (transmit.at # "idle") OBVIOUS
<1>2. Meanwhile = [lived EXCEPT !.mixed = b] BY <1>1 DEF Meanwhile
<1>3. lived \in LivedRecords BY MasqueradeHere
<1>4. PICK q : q = Meanwhile OBVIOUS
<1>5. q = [lived EXCEPT !.mixed = b] BY <1>2, <1>4
<1>6. /\ q \in LivedRecords /\ q.asked = lived.asked /\ q.blind = lived.blind
      /\ q.moved = lived.moved /\ q.mixed = b /\ q.straddled = lived.straddled
  BY <1>3, <1>5, LivedMixed
<1>7. QED BY <1>1, <1>4, <1>6

LEMMA AfreshHas ==
  /\ Afresh \in LivedRecords /\ Afresh.asked = FALSE /\ Afresh.blind = 0 /\ Afresh.moved = FALSE
  /\ Afresh.mixed = (transmit.at # "idle") /\ Afresh.straddled = (transmit.at # "idle")
<1>1. PICK b \in BOOLEAN : b = (transmit.at # "idle") OBVIOUS
<1>2. 0 \in BadCounts BY DEF BadCounts, BAD_DHCPREQUEST_NAK_THRESHOLD
<1>3. PICK n \in BadCounts : n = 0 BY <1>2
<1>4. Afresh = [asked |-> FALSE, blind |-> n, moved |-> FALSE, mixed |-> b, straddled |-> b]
  BY <1>1, <1>3 DEF Afresh
<1>5. Afresh \in LivedRecords BY <1>4 DEF LivedRecords
<1>6. QED BY <1>1, <1>3, <1>4, <1>5

LEMMA NoDhcpHas ==
  /\ NoDhcp \in DhcpRecords /\ NoDhcp.on = FALSE /\ NoDhcp.discover = FALSE /\ NoDhcp.bad = 0
<1>1. 0 \in BadCounts /\ 0 \in Nat BY DEF BadCounts, BAD_DHCPREQUEST_NAK_THRESHOLD
<1>2. PICK n \in BadCounts : n = 0 BY <1>1
<1>3. PICK z \in Everywhere : z = "zero" BY ZeroEverywhere
<1>4. PICK m \in Mac : m = "none" BY DEF Mac
<1>5. NoDhcp = [on |-> FALSE, arp |-> FALSE, mac |-> m, addr |-> z, server |-> z, options |-> n,
                discover |-> FALSE, bad |-> n]
  BY <1>2, <1>3, <1>4 DEF NoDhcp
<1>6. n \in Nat BY <1>1, <1>2
<1>7. NoDhcp \in DhcpRecords BY <1>5, <1>6 DEF DhcpRecords
<1>8. QED BY <1>2, <1>5, <1>7

LEMMA NoPtpHas ==
  /\ NoPtp \in PtpRecords /\ NoPtp.tun = FALSE /\ NoPtp.header = "none"
<1>1. PICK z \in Everywhere : z = "zero" BY ZeroEverywhere
<1>2. PICK N \in SUBSET Everywhere : N = Everywhere OBVIOUS
<1>3. PICK m \in Mac : m = "none" BY DEF Mac
<1>4. NoPtp = [open |-> FALSE, tun |-> FALSE, local |-> z, net |-> N, header |-> m]
  BY <1>1, <1>2, <1>3 DEF NoPtp
<1>5. NoPtp \in PtpRecords BY <1>4 DEF PtpRecords
<1>6. QED BY <1>3, <1>4, <1>5

LEMMA ResetKeeps ==
  ASSUME MasqueradeInv, course # <<>>, NEW b \in BOOLEAN, ResetTapAdapterState(b), Done,
         UNCHANGED written
  PROVE  MasqueradeInv'
<1>1. /\ ptp' = [NoPtp EXCEPT !.open = b] /\ dhcp' = NoDhcp /\ lived' = Afresh
      /\ ioctl' = "start" /\ course' = Tail(course) /\ transmit' = transmit /\ handed' = handed
      /\ written' = written
  BY DEF ResetTapAdapterState, Done
<1>2. ptp' \in PtpRecords /\ ptp'.tun = FALSE /\ ptp'.header = "none"
  BY <1>1, NoPtpHas, PtpClosed
<1>3. dhcp' \in DhcpRecords /\ dhcp'.on = FALSE /\ dhcp'.discover = FALSE /\ dhcp'.bad = 0
  BY <1>1, NoDhcpHas
<1>4. /\ lived' \in LivedRecords /\ lived'.asked = FALSE /\ lived'.blind = 0
      /\ lived'.mixed = (transmit.at # "idle") /\ lived'.straddled = (transmit.at # "idle")
  BY <1>1, AfreshHas
<1>5. Remembers BY <1>3, <1>4 DEF Remembers
<1>6. ModeKnown' BY <1>1, <1>2, <1>3 DEF ModeKnown
<1>7. written' \in {"nothing", "refused", "frame"} \union Mac /\ WriteKnown'
  BY <1>1, MasqueradeHere DEF WriteKnown
<1>8. ioctl' \in IoctlSteps BY <1>1 DEF IoctlSteps
<1>9. QED BY <1>1, <1>2, <1>3, <1>4, <1>5, <1>6, <1>7, <1>8, AsideStep

LEMMA OpenDeviceKeeps ==
  ASSUME MasqueradeInv, OpenDevice, UNCHANGED written PROVE MasqueradeInv'
  BY ResetKeeps DEF OpenDevice, InRequest

LEMMA WrittenKept ==
  ASSUME MasqueradeInv, UNCHANGED written
  PROVE  written' \in {"nothing", "refused", "frame"} \union Mac /\ WriteKnown'
  BY MasqueradeHere DEF WriteKnown

(* A step that leaves the server and the frame alone. *)
LEMMA BystanderStep ==
  ASSUME MasqueradeInv, course' \in Seq(Requested), ioctl' \in IoctlSteps, ptp' \in PtpRecords,
         transmit' = transmit, handed' = handed, dhcp' = dhcp, lived' = lived, ModeKnown',
         written' \in {"nothing", "refused", "frame"} \union Mac, WriteKnown'
  PROVE  MasqueradeInv'
<1>1. Deciding' = Deciding /\ Passing' = Passing BY DEF Deciding, Passing
<1>2. SessionKnown' BY <1>1, Zenon DEF MasqueradeInv, SessionKnown
<1>3. VerdictKnown' BY <1>1, Zenon DEF MasqueradeInv, VerdictKnown
<1>4. AnswerKnown' BY DEF MasqueradeInv, AnswerKnown
<1>5. PassedKnown' BY <1>1, Zenon DEF MasqueradeInv, PassedKnown
<1>6. MasqueradeTypeOK' BY MasqueradeHere DEF MasqueradeTypeOK, IoctlSteps
<1>7. QED BY <1>2, <1>3, <1>4, <1>5, <1>6 DEF MasqueradeInv

LEMMA CloseDeviceKeeps ==
  ASSUME MasqueradeInv, CloseDevice, UNCHANGED written PROVE MasqueradeInv'
<1>1. CASE InRequest("reset", "close") /\ ResetTapAdapterState(FALSE) /\ Done
  BY <1>1, ResetKeeps DEF InRequest
<1>2. CASE /\ InRequest("start", "close") /\ Onward("reset")
           /\ ptp' = [ptp EXCEPT !.open = FALSE] /\ UNCHANGED <<dhcp, lived>>
  <2>1. course' = course /\ ioctl' = "reset" /\ transmit' = transmit /\ handed' = handed
        /\ dhcp' = dhcp /\ lived' = lived
    BY <1>2 DEF Onward
  <2>2. /\ ptp' \in PtpRecords /\ ptp'.tun = ptp.tun /\ ptp'.net = ptp.net
        /\ ptp'.header = ptp.header
    BY <1>2, MasqueradeHere, PtpClosed
  <2>3. ModeKnown' BY <2>1, <2>2, MasqueradeHere DEF ModeKnown
  <2>4. course' \in Seq(Requested) BY <2>1, MasqueradeHere
  <2>5. QED BY <2>1, <2>2, <2>3, <2>4, WrittenKept, BystanderStep DEF IoctlSteps
<1>3. QED BY <1>1, <1>2 DEF CloseDevice

(* A step of an ioctl that leaves the address and what the server remembers. *)
LEMMA MeanwhileStep ==
  ASSUME MasqueradeInv, course # <<>>, course' \in {course, Tail(course)}, ioctl' \in IoctlSteps,
         transmit' = transmit, handed' = handed, ptp' \in PtpRecords, dhcp' \in DhcpRecords,
         dhcp'.discover = dhcp.discover, dhcp'.bad = dhcp.bad, dhcp'.addr = dhcp.addr,
         lived' \in LivedRecords, lived'.asked = lived.asked, lived'.blind = lived.blind,
         lived'.mixed = (transmit.at # "idle"), lived'.straddled = lived.straddled,
         ModeKnown', written' \in {"nothing", "refused", "frame"} \union Mac, WriteKnown'
  PROVE  MasqueradeInv'
<1>1. Remembers BY DEF Remembers
<1>2. QED BY <1>1, AsideStep

LEMMA CheckKeeps ==
  ASSUME MasqueradeInv, NEW what, Check(what), UNCHANGED written PROVE MasqueradeInv'
<1>1. /\ course # <<>> /\ ioctl = "check" /\ CheckIfDhcpAndTunMode /\ ptp' = ptp
      /\ ioctl' = "start" /\ course' = Tail(course) /\ transmit' = transmit /\ handed' = handed
  BY DEF Check, InRequest, Done
<1>2. ioctl' \in IoctlSteps BY <1>1 DEF IoctlSteps
<1>3. ptp' \in PtpRecords BY <1>1, MasqueradeHere
<1>4. CASE ptp.tun /\ dhcp.on /\ dhcp.server \in ptp.net
  <2>1. dhcp' = [dhcp EXCEPT !.mac = ptp.header, !.arp = FALSE]
    BY <1>1, <1>4 DEF CheckIfDhcpAndTunMode
  <2>2. lived' = [Meanwhile EXCEPT !.moved = FALSE]
    BY <1>1, <1>4 DEF CheckIfDhcpAndTunMode
  <2>3. ptp.header = "gateway" BY <1>4, MasqueradeHere DEF ModeKnown
  <2>4. PICK m \in Mac : m = ptp.header BY <2>3 DEF Mac
  <2>5. dhcp' = [dhcp EXCEPT !.mac = m, !.arp = FALSE] BY <2>1, <2>4
  <2>6. dhcp \in DhcpRecords BY MasqueradeHere
  <2>7. /\ dhcp' \in DhcpRecords /\ dhcp'.on = dhcp.on /\ dhcp'.arp = FALSE /\ dhcp'.mac = m
        /\ dhcp'.addr = dhcp.addr /\ dhcp'.server = dhcp.server /\ dhcp'.discover = dhcp.discover
        /\ dhcp'.bad = dhcp.bad
    <3>1. PICK r, q : r = dhcp /\ q = dhcp' OBVIOUS
    <3>2. r \in DhcpRecords BY <2>6, <3>1
    <3>3. q = [r EXCEPT !.mac = m, !.arp = FALSE] BY <2>5, <3>1
    <3>4. FALSE \in BOOLEAN OBVIOUS
    <3>5. /\ q \in DhcpRecords /\ q.on = r.on /\ q.arp = FALSE /\ q.mac = m
          /\ q.addr = r.addr /\ q.server = r.server /\ q.discover = r.discover /\ q.bad = r.bad
      BY <3>2, <3>3, <3>4 DEF DhcpRecords
    <3>6. QED BY <3>1, <3>5
  <2>8. PICK M : M = Meanwhile OBVIOUS
  <2>9. lived' = [M EXCEPT !.moved = FALSE] BY <2>2, <2>8
  <2>10. M \in LivedRecords BY <2>8, MeanwhileHas
  <2>11. /\ lived' \in LivedRecords /\ lived'.asked = M.asked /\ lived'.blind = M.blind
         /\ lived'.mixed = M.mixed /\ lived'.straddled = M.straddled
    BY <2>9, <2>10, LivedMoved
  <2>12. /\ lived'.asked = lived.asked /\ lived'.blind = lived.blind
         /\ lived'.mixed = (transmit.at # "idle") /\ lived'.straddled = lived.straddled
    BY <2>8, <2>11, MeanwhileHas
  <2>13. ModeKnown
    BY MasqueradeHere
  <2>14. ModeKnown' BY <1>1, <1>4, <2>3, <2>4, <2>7, <2>13 DEF ModeKnown
  <2>15. QED BY <1>1, <1>2, <1>3, <2>7, <2>11, <2>12, <2>14, WrittenKept, MeanwhileStep
<1>5. CASE ~(ptp.tun /\ dhcp.on /\ dhcp.server \in ptp.net)
  <2>1. dhcp' = dhcp /\ lived' = Meanwhile BY <1>1, <1>5 DEF CheckIfDhcpAndTunMode
  <2>2. /\ dhcp' \in DhcpRecords /\ dhcp'.discover = dhcp.discover /\ dhcp'.bad = dhcp.bad
        /\ dhcp'.addr = dhcp.addr
    BY <2>1, MasqueradeHere
  <2>3. /\ lived' \in LivedRecords /\ lived'.asked = lived.asked /\ lived'.blind = lived.blind
        /\ lived'.mixed = (transmit.at # "idle") /\ lived'.straddled = lived.straddled
        /\ lived'.moved = lived.moved
    BY <2>1, MeanwhileHas
  <2>4. ModeKnown BY MasqueradeHere
  <2>5. ModeKnown' BY <1>1, <2>1, <2>3, <2>4 DEF ModeKnown
  <2>6. QED BY <1>1, <1>2, <1>3, <2>2, <2>3, <2>5, WrittenKept, MeanwhileStep
<1>6. QED BY <1>4, <1>5

LEMMA ConfigTunKeeps ==
  ASSUME MasqueradeInv, ConfigTun, UNCHANGED written PROVE MasqueradeInv'
<1>0. ptp \in PtpRecords /\ dhcp \in DhcpRecords /\ ModeKnown BY MasqueradeHere
<1>1. CASE /\ InRequest("start", "tun") /\ Onward("addresses")
           /\ ptp' = [ptp EXCEPT !.tun = FALSE]
           /\ lived' = [Meanwhile EXCEPT !.moved = @ \/ (dhcp.on /\ ~dhcp.arp)]
           /\ UNCHANGED dhcp
  <2>1. /\ course # <<>> /\ course' = course /\ ioctl' = "addresses" /\ transmit' = transmit
        /\ handed' = handed /\ dhcp' = dhcp
    BY <1>1 DEF InRequest, Onward
  <2>2. /\ ptp' \in PtpRecords /\ ptp'.tun = FALSE /\ ptp'.header = ptp.header
    BY <1>0, <1>1, PtpOff
  <2>3. PICK M : M = Meanwhile OBVIOUS
  <2>4. M \in LivedRecords /\ M.moved = lived.moved BY <2>3, MeanwhileHas
  <2>5. lived.moved \in BOOLEAN /\ dhcp.on \in BOOLEAN /\ dhcp.arp \in BOOLEAN
    BY MasqueradeHere, DhcpHas, LivedHas
  <2>6. PICK b \in BOOLEAN : b = (M.moved \/ (dhcp.on /\ ~dhcp.arp)) BY <2>4, <2>5
  <2>7. lived' = [M EXCEPT !.moved = M.moved \/ (dhcp.on /\ ~dhcp.arp)] BY <1>1, <2>3
  <2>8. lived' = [M EXCEPT !.moved = b] BY <2>6, <2>7
  <2>9. /\ lived' \in LivedRecords /\ lived'.asked = M.asked /\ lived'.blind = M.blind
        /\ lived'.mixed = M.mixed /\ lived'.straddled = M.straddled /\ lived'.moved = b
    BY <2>4, <2>8, LivedMoved
  <2>10. /\ lived'.asked = lived.asked /\ lived'.blind = lived.blind
         /\ lived'.mixed = (transmit.at # "idle") /\ lived'.straddled = lived.straddled
    BY <2>3, <2>9, MeanwhileHas
  <2>11. dhcp.on /\ ~dhcp.arp => lived'.moved BY <2>5, <2>6, <2>9
  <2>12. ModeKnown' BY <1>0, <2>1, <2>2, <2>11 DEF ModeKnown
  <2>13. /\ dhcp' \in DhcpRecords /\ dhcp'.discover = dhcp.discover /\ dhcp'.bad = dhcp.bad
         /\ dhcp'.addr = dhcp.addr
    BY <1>0, <2>1
  <2>14. ioctl' \in IoctlSteps BY <2>1 DEF IoctlSteps
  <2>15. QED BY <2>1, <2>2, <2>9, <2>10, <2>12, <2>13, <2>14, WrittenKept, MeanwhileStep
<1>2. CASE /\ InRequest("addresses", "tun")
           /\ ptp' = [ptp EXCEPT !.local = Request.local, !.net = Request.net]
           /\ IF Request.sound THEN Onward("headers") ELSE Done
           /\ lived' = Meanwhile /\ UNCHANGED dhcp
  <2>1. /\ course # <<>> /\ ioctl = "addresses" /\ Request.does = "tun" /\ dhcp' = dhcp
        /\ course' \in {course, Tail(course)} /\ ioctl' \in {"headers", "start"}
        /\ transmit' = transmit /\ handed' = handed
    BY <1>2 DEF InRequest, Onward, Done
  <2>2. Request.local \in Host /\ Request.net \in SUBSET Host BY <2>1, MasqueradeHere, RequestHas
  <2>3. PICK l \in Everywhere, n \in SUBSET Everywhere : l = Request.local /\ n = Request.net
    BY <2>2, ZeroEverywhere
  <2>4. ptp' = [ptp EXCEPT !.local = l, !.net = n] BY <1>2, <2>3
  <2>5. /\ ptp' \in PtpRecords /\ ptp'.tun = ptp.tun /\ ptp'.header = ptp.header
    <3>1. PICK r, q : r = ptp /\ q = ptp' OBVIOUS
    <3>2. r \in PtpRecords BY <1>0, <3>1
    <3>3. q = [r EXCEPT !.local = l, !.net = n] BY <2>4, <3>1
    <3>4. q \in PtpRecords /\ q.tun = r.tun /\ q.header = r.header
      BY <3>2, <3>3 DEF PtpRecords
    <3>5. QED BY <3>1, <3>4
  <2>6. /\ lived' \in LivedRecords /\ lived'.asked = lived.asked /\ lived'.blind = lived.blind
        /\ lived'.mixed = (transmit.at # "idle") /\ lived'.straddled = lived.straddled
        /\ lived'.moved = lived.moved
    BY <1>2, MeanwhileHas
  <2>7. ~ptp.tun BY <1>0, <2>1 DEF ModeKnown
  <2>8. ModeKnown' BY <1>0, <2>1, <2>5, <2>6, <2>7 DEF ModeKnown
  <2>9. /\ dhcp' \in DhcpRecords /\ dhcp'.discover = dhcp.discover /\ dhcp'.bad = dhcp.bad
        /\ dhcp'.addr = dhcp.addr
    BY <1>0, <2>1
  <2>10. ioctl' \in IoctlSteps BY <2>1 DEF IoctlSteps
  <2>11. QED BY <2>1, <2>5, <2>6, <2>8, <2>9, <2>10, WrittenKept, MeanwhileStep
<1>3. CASE /\ InRequest("headers", "tun") /\ Onward("check")
           /\ ptp' = [ptp EXCEPT !.header = "gateway", !.tun = TRUE]
           /\ lived' = Meanwhile /\ UNCHANGED dhcp
  <2>1. /\ course # <<>> /\ ioctl = "headers" /\ dhcp' = dhcp /\ course' = course
        /\ ioctl' = "check" /\ transmit' = transmit /\ handed' = handed
    BY <1>3 DEF InRequest, Onward
  <2>2. PICK m \in Mac : m = "gateway" BY DEF Mac
  <2>3. ptp' = [ptp EXCEPT !.header = m, !.tun = TRUE] BY <1>3, <2>2
  <2>4. /\ ptp' \in PtpRecords /\ ptp'.tun = TRUE /\ ptp'.header = m
    <3>1. PICK r, q : r = ptp /\ q = ptp' OBVIOUS
    <3>2. r \in PtpRecords BY <1>0, <3>1
    <3>3. q = [r EXCEPT !.header = m, !.tun = TRUE] BY <2>3, <3>1
    <3>4. TRUE \in BOOLEAN OBVIOUS
    <3>5. q \in PtpRecords /\ q.tun = TRUE /\ q.header = m
      BY <3>2, <3>3, <3>4 DEF PtpRecords
    <3>6. QED BY <3>1, <3>5
  <2>5. /\ lived' \in LivedRecords /\ lived'.asked = lived.asked /\ lived'.blind = lived.blind
        /\ lived'.mixed = (transmit.at # "idle") /\ lived'.straddled = lived.straddled
        /\ lived'.moved = lived.moved
    BY <1>3, MeanwhileHas
  <2>6. ~ptp.tun BY <1>0, <2>1 DEF ModeKnown
  <2>7. ModeKnown' BY <1>0, <2>1, <2>2, <2>4, <2>5, <2>6 DEF ModeKnown
  <2>8. /\ dhcp' \in DhcpRecords /\ dhcp'.discover = dhcp.discover /\ dhcp'.bad = dhcp.bad
        /\ dhcp'.addr = dhcp.addr
    BY <1>0, <2>1
  <2>9. ioctl' \in IoctlSteps BY <2>1 DEF IoctlSteps
  <2>10. QED BY <2>1, <2>4, <2>5, <2>7, <2>8, <2>9, WrittenKept, MeanwhileStep
<1>4. CASE Check("tun") BY <1>4, CheckKeeps
<1>5. QED BY <1>1, <1>2, <1>3, <1>4 DEF ConfigTun

LEMMA ConfigDhcpMasqKeeps ==
  ASSUME MasqueradeInv, ConfigDhcpMasq, UNCHANGED written PROVE MasqueradeInv'
<1>0. ptp \in PtpRecords /\ dhcp \in DhcpRecords /\ ModeKnown BY MasqueradeHere
<1>1. CASE /\ InRequest("start", "masq") /\ Onward("fields")
           /\ dhcp' = [dhcp EXCEPT !.on = FALSE, !.arp = FALSE, !.options = 0]
           /\ lived' = Meanwhile /\ UNCHANGED ptp
  <2>1. /\ course # <<>> /\ course' = course /\ ioctl' = "fields" /\ transmit' = transmit
        /\ handed' = handed /\ ptp' = ptp
    BY <1>1 DEF InRequest, Onward
  <2>2. PICK r, q : r = dhcp /\ q = dhcp' OBVIOUS
  <2>3. r \in DhcpRecords /\ q = [r EXCEPT !.on = FALSE, !.arp = FALSE, !.options = 0]
    BY <1>0, <1>1, <2>2
  <2>4. /\ q \in DhcpRecords /\ q.on = FALSE /\ q.addr = r.addr /\ q.discover = r.discover
        /\ q.bad = r.bad
    BY <2>3 DEF DhcpRecords
  <2>5. /\ dhcp' \in DhcpRecords /\ dhcp'.on = FALSE /\ dhcp'.discover = dhcp.discover
        /\ dhcp'.bad = dhcp.bad /\ dhcp'.addr = dhcp.addr
    BY <2>2, <2>4
  <2>6. /\ lived' \in LivedRecords /\ lived'.asked = lived.asked /\ lived'.blind = lived.blind
        /\ lived'.mixed = (transmit.at # "idle") /\ lived'.straddled = lived.straddled
    BY <1>1, MeanwhileHas
  <2>7. ModeKnown' BY <1>0, <2>1, <2>5 DEF ModeKnown
  <2>8. ioctl' \in IoctlSteps /\ ptp' \in PtpRecords BY <1>0, <2>1 DEF IoctlSteps
  <2>9. QED BY <2>1, <2>5, <2>6, <2>7, <2>8, WrittenKept, MeanwhileStep
<1>2. CASE /\ InRequest("fields", "masq") /\ Onward("enable")
           /\ dhcp' = [dhcp EXCEPT !.addr = Request.addr, !.server = Request.server,
                                   !.mac = "server"]
           /\ lived' = [Meanwhile EXCEPT !.straddled = @ \/ transmit.at # "idle"]
           /\ UNCHANGED ptp
  <2>1. /\ course # <<>> /\ course' = course /\ ioctl = "fields" /\ ioctl' = "enable"
        /\ transmit' = transmit /\ handed' = handed /\ ptp' = ptp /\ Request.does = "masq"
    BY <1>2 DEF InRequest, Onward
  <2>2. Request.addr \in Host /\ Request.server \in Host BY <2>1, MasqueradeHere, RequestHas
  <2>3. PICK a \in Everywhere, s \in Everywhere :
          a = Request.addr /\ s = Request.server /\ a # "zero"
    BY <2>2, ZeroEverywhere
  <2>4. PICK m \in Mac : m = "server" BY DEF Mac
  <2>5. PICK r, q : r = dhcp /\ q = dhcp' OBVIOUS
  <2>6. r \in DhcpRecords /\ q = [r EXCEPT !.addr = a, !.server = s, !.mac = m]
    BY <1>0, <1>2, <2>3, <2>4, <2>5
  <2>7. /\ q \in DhcpRecords /\ q.on = r.on /\ q.addr = a /\ q.discover = r.discover
        /\ q.bad = r.bad
    BY <2>6 DEF DhcpRecords
  <2>8. /\ dhcp' \in DhcpRecords /\ dhcp'.on = dhcp.on /\ dhcp'.discover = dhcp.discover
        /\ dhcp'.bad = dhcp.bad /\ dhcp'.addr # "zero"
    BY <2>3, <2>5, <2>7
  <2>9. PICK M : M = Meanwhile OBVIOUS
  <2>10. M \in LivedRecords /\ M.straddled = lived.straddled BY <2>9, MeanwhileHas
  <2>11. lived.straddled \in BOOLEAN BY MasqueradeHere, LivedHas
  <2>12. PICK b \in BOOLEAN : b = (M.straddled \/ transmit.at # "idle") BY <2>10, <2>11
  <2>13. lived' = [M EXCEPT !.straddled = M.straddled \/ transmit.at # "idle"] BY <1>2, <2>9
  <2>14. lived' = [M EXCEPT !.straddled = b] BY <2>12, <2>13
  <2>15. /\ lived' \in LivedRecords /\ lived'.asked = M.asked /\ lived'.blind = M.blind
         /\ lived'.mixed = M.mixed /\ lived'.straddled = b
    BY <2>10, <2>14, LivedStraddled
  <2>16. /\ lived'.asked = lived.asked /\ lived'.blind = lived.blind
         /\ lived'.mixed = (transmit.at # "idle")
    BY <2>9, <2>15, MeanwhileHas
  <2>17. ~lived'.straddled => ~lived.straddled /\ transmit.at = "idle"
    BY <2>10, <2>11, <2>12, <2>15
  <2>18. Remembers BY <2>8, <2>16, <2>17 DEF Remembers
  <2>19. ~dhcp.on BY <1>0, <2>1 DEF ModeKnown
  <2>20. ModeKnown' BY <1>0, <2>1, <2>8, <2>19 DEF ModeKnown
  <2>21. ioctl' \in IoctlSteps /\ ptp' \in PtpRecords BY <1>0, <2>1 DEF IoctlSteps
  <2>22. QED
    BY <2>1, <2>8, <2>15, <2>16, <2>18, <2>20, <2>21, WrittenKept, AsideStep
<1>3. CASE /\ InRequest("enable", "masq") /\ Onward("check")
           /\ dhcp' = [dhcp EXCEPT !.on = TRUE, !.arp = TRUE]
           /\ lived' = [Meanwhile EXCEPT !.moved = FALSE] /\ UNCHANGED ptp
  <2>1. /\ course # <<>> /\ course' = course /\ ioctl = "enable" /\ ioctl' = "check"
        /\ transmit' = transmit /\ handed' = handed /\ ptp' = ptp
    BY <1>3 DEF InRequest, Onward
  <2>2. PICK r, q : r = dhcp /\ q = dhcp' OBVIOUS
  <2>3. r \in DhcpRecords /\ q = [r EXCEPT !.on = TRUE, !.arp = TRUE]
    BY <1>0, <1>3, <2>2
  <2>4. /\ q \in DhcpRecords /\ q.arp = TRUE /\ q.addr = r.addr /\ q.discover = r.discover
        /\ q.bad = r.bad
    BY <2>3 DEF DhcpRecords
  <2>5. /\ dhcp' \in DhcpRecords /\ dhcp'.arp = TRUE /\ dhcp'.discover = dhcp.discover
        /\ dhcp'.bad = dhcp.bad /\ dhcp'.addr = dhcp.addr
    BY <2>2, <2>4
  <2>6. PICK M : M = Meanwhile OBVIOUS
  <2>7. lived' = [M EXCEPT !.moved = FALSE] BY <1>3, <2>6
  <2>8. M \in LivedRecords BY <2>6, MeanwhileHas
  <2>9. /\ lived' \in LivedRecords /\ lived'.asked = M.asked /\ lived'.blind = M.blind
        /\ lived'.mixed = M.mixed /\ lived'.straddled = M.straddled
    BY <2>7, <2>8, LivedMoved
  <2>10. /\ lived'.asked = lived.asked /\ lived'.blind = lived.blind
         /\ lived'.mixed = (transmit.at # "idle") /\ lived'.straddled = lived.straddled
    BY <2>6, <2>9, MeanwhileHas
  <2>11. dhcp.addr # "zero" BY <1>0, <2>1 DEF ModeKnown
  <2>12. ModeKnown' BY <1>0, <2>1, <2>5, <2>11 DEF ModeKnown
  <2>13. ioctl' \in IoctlSteps /\ ptp' \in PtpRecords BY <1>0, <2>1 DEF IoctlSteps
  <2>14. QED BY <2>1, <2>5, <2>9, <2>10, <2>12, <2>13, WrittenKept, MeanwhileStep
<1>4. CASE Check("masq") BY <1>4, CheckKeeps
<1>5. QED BY <1>1, <1>2, <1>3, <1>4 DEF ConfigDhcpMasq

(* The ioctl with options and those that change nothing. *)
LEMMA SuppliedKeeps ==
  ASSUME MasqueradeInv, course # <<>>, course' \in {course, Tail(course)}, ioctl' \in IoctlSteps,
         ioctl' \notin {"addresses", "headers", "fields", "enable"}, transmit' = transmit,
         handed' = handed, ptp' = ptp, NEW n \in Nat, dhcp' \in {dhcp, [dhcp EXCEPT !.options = n]},
         lived' = Meanwhile, written' \in {"nothing", "refused", "frame"} \union Mac, WriteKnown'
  PROVE  MasqueradeInv'
<1>0. ptp \in PtpRecords /\ dhcp \in DhcpRecords /\ ModeKnown BY MasqueradeHere
<1>1. /\ dhcp' \in DhcpRecords /\ dhcp'.on = dhcp.on /\ dhcp'.arp = dhcp.arp
      /\ dhcp'.mac = dhcp.mac /\ dhcp'.addr = dhcp.addr /\ dhcp'.server = dhcp.server
      /\ dhcp'.discover = dhcp.discover /\ dhcp'.bad = dhcp.bad
  <2>1. CASE dhcp' = dhcp BY <1>0, <2>1
  <2>2. CASE dhcp' = [dhcp EXCEPT !.options = n] BY <1>0, <2>2, DhcpSupplied
  <2>3. QED BY <2>1, <2>2
<1>2. /\ lived' \in LivedRecords /\ lived'.asked = lived.asked /\ lived'.blind = lived.blind
      /\ lived'.mixed = (transmit.at # "idle") /\ lived'.straddled = lived.straddled
      /\ lived'.moved = lived.moved
  BY MeanwhileHas
<1>3. ModeKnown' BY <1>0, <1>1, <1>2 DEF ModeKnown
<1>4. QED BY <1>0, <1>1, <1>2, <1>3, MeanwhileStep

LEMMA SetOptionsKeeps ==
  ASSUME MasqueradeInv, SetOptions, UNCHANGED written PROVE MasqueradeInv'
<1>1. /\ course # <<>> /\ Request.does = "options" /\ course' \in {course, Tail(course)}
      /\ ioctl' \in {"start", "copy"} /\ transmit' = transmit /\ handed' = handed /\ ptp' = ptp
      /\ lived' = Meanwhile
      /\ dhcp' \in {dhcp, [dhcp EXCEPT !.options = 0], [dhcp EXCEPT !.options = Request.length]}
  BY DEF SetOptions, InRequest, Onward, Done
<1>2. Request.length \in Nat BY <1>1, MasqueradeHere, RequestHas
<1>3. PICK n \in Nat : dhcp' \in {dhcp, [dhcp EXCEPT !.options = n]} BY <1>1, <1>2
<1>4. ioctl' \in IoctlSteps /\ ioctl' \notin {"addresses", "headers", "fields", "enable"}
  BY <1>1 DEF IoctlSteps
<1>5. QED BY <1>1, <1>3, <1>4, WrittenKept, SuppliedKeeps

LEMMA RefuseShortKeeps ==
  ASSUME MasqueradeInv, RefuseShort, UNCHANGED written PROVE MasqueradeInv'
<1>1. /\ course # <<>> /\ course' = Tail(course) /\ ioctl' = "start" /\ transmit' = transmit
      /\ handed' = handed /\ ptp' = ptp /\ dhcp' = dhcp /\ lived' = Meanwhile
  BY DEF RefuseShort, InRequest, Done, Unaltered
<1>2. ioctl' \in IoctlSteps /\ ioctl' \notin {"addresses", "headers", "fields", "enable"}
  BY <1>1 DEF IoctlSteps
<1>3. 0 \in Nat OBVIOUS
<1>4. QED BY <1>1, <1>2, <1>3, WrittenKept, SuppliedKeeps

LEMMA WriteDeviceKeeps == ASSUME MasqueradeInv, WriteDevice PROVE MasqueradeInv'
<1>1. /\ course # <<>> /\ course' = Tail(course) /\ ioctl' = "start" /\ transmit' = transmit
      /\ handed' = handed /\ ptp' = ptp /\ dhcp' = dhcp /\ lived' = Meanwhile
      /\ written' \in {"refused", "frame", ptp.header} /\ (written' \in {"refused", "frame"} \/ ptp.tun)
  BY DEF WriteDevice, InRequest, Done, Unaltered
<1>2. ptp.tun => ptp.header = "gateway" BY MasqueradeHere DEF ModeKnown
<1>3. written' \in {"nothing", "refused", "frame"} \union Mac /\ WriteKnown'
  BY <1>1, <1>2 DEF WriteKnown, Mac
<1>4. ioctl' \in IoctlSteps /\ ioctl' \notin {"addresses", "headers", "fields", "enable"}
  BY <1>1 DEF IoctlSteps
<1>5. 0 \in Nat OBVIOUS
<1>6. QED BY <1>1, <1>3, <1>4, <1>5, SuppliedKeeps

(* The frame. *)
LEMMA NothingSentHas ==
  /\ NothingSent \in TransmitRecords /\ NothingSent.at = "idle" /\ NothingSent.length = 0
<1>1. PICK z \in Everywhere : z = "zero" BY ZeroEverywhere
<1>2. PICK n \in Nat : n = 0 OBVIOUS
<1>3. PICK F \in Frame \union {NoFrame} : F = NoFrame OBVIOUS
<1>4. NothingSent = [at |-> "idle", frame |-> F, type |-> "none", server |-> z, user |-> n,
                     overflow |-> FALSE, length |-> n]
  BY <1>1, <1>2, <1>3 DEF NothingSent
<1>5. NothingSent \in TransmitRecords BY <1>4 DEF TransmitRecords
<1>6. QED BY <1>2, <1>4, <1>5

LEMMA SilenceHas == Silence \in HandedRecords /\ Silence.kind = "nothing"
<1>1. PICK z \in Everywhere : z = "zero" BY ZeroEverywhere
<1>2. PICK n \in Nat : n = 0 OBVIOUS
<1>3. PICK m \in Mac : m = "none" BY DEF Mac
<1>4. Silence = [kind |-> "nothing", mac |-> m, dest |-> m, addr |-> z, server |-> z, user |-> n]
  BY <1>1, <1>2, <1>3 DEF Silence
<1>5. Silence \in HandedRecords BY <1>4 DEF HandedRecords
<1>6. QED BY <1>4, <1>5

LEMMA FrameHas ==
  ASSUME NEW f \in Frame
  PROVE  /\ f.kind \in {"arp", "boot", "ip", "other"} /\ f.dest \in Mac
         /\ f.to \in Everywhere /\ f.ciaddr \in Everywhere
  BY MasqueradeAssumption DEF Everywhere

LEMMA ReplyHas ==
  ASSUME NEW f \in Frame, NEW m \in Mac
  PROVE  Reply(f, m) \in HandedRecords /\ Reply(f, m).kind = "arp"
<1>1. PICK S : S = Silence OBVIOUS
<1>2. S \in HandedRecords BY <1>1, SilenceHas
<1>3. PICK t \in Everywhere : t = f.to BY FrameHas
<1>4. PICK o \in Mac : o = "own" BY DEF Mac
<1>5. Reply(f, m) = [S EXCEPT !.kind = "arp", !.mac = m, !.dest = o, !.addr = t]
  BY <1>1, <1>3, <1>4 DEF Reply
<1>6. QED BY <1>2, <1>5 DEF HandedRecords

LEMMA BuiltHas ==
  ASSUME MasqueradeInv, NEW f, NEW t \in {"offer", "ack", "nak"}
  PROVE  /\ BuildDHCPPre(f, t) \in HandedRecords /\ BuildDHCPPre(f, t).kind = t
         /\ BuildDHCPPre(f, t).mac = dhcp.mac /\ BuildDHCPPre(f, t).server = transmit.server
         /\ BuildDHCPPre(f, t).user = transmit.user
         /\ t # "nak" => BuildDHCPPre(f, t).addr = dhcp.addr
<1>1. dhcp \in DhcpRecords /\ transmit \in TransmitRecords BY MasqueradeHere
<1>2. /\ dhcp.mac \in Mac /\ dhcp.addr \in Everywhere /\ transmit.server \in Everywhere
      /\ transmit.user \in Nat
  BY <1>1, DhcpHas, TransmitHas
<1>3. PICK m \in Mac, d \in Mac, a \in Everywhere, s \in Everywhere, u \in Nat :
        /\ m = dhcp.mac /\ d = (IF t = "nak" \/ f.dest = "broadcast" THEN "broadcast" ELSE "own")
        /\ a = (IF t = "nak" THEN "zero" ELSE dhcp.addr) /\ s = transmit.server /\ u = transmit.user
  BY <1>2, ZeroEverywhere DEF Mac
<1>4. BuildDHCPPre(f, t) = [kind |-> t, mac |-> m, dest |-> d, addr |-> a, server |-> s, user |-> u]
  BY <1>3 DEF BuildDHCPPre
<1>5. BuildDHCPPre(f, t) \in HandedRecords BY <1>4 DEF HandedRecords
<1>6. QED BY <1>3, <1>4, <1>5

(* The options of an answer fit their buffer, and with those of the process if all did. *)
OptionRecords == [length : Nat, overflow : BOOLEAN]

LEMMA OptionHas ==
  ASSUME NEW m \in OptionRecords, NEW len \in Nat, NEW q, q = SetDHCPOpt(m, len)
  PROVE  /\ q \in OptionRecords /\ (m.length <= 256 => q.length <= 256)
         /\ ~q.overflow => ~m.overflow /\ q.length = m.length + len /\ q.length <= 256
<1>0. DHCP_OPTIONS_BUFFER_SIZE = 256 BY DEF DHCP_OPTIONS_BUFFER_SIZE
<1>1. m.length \in Nat /\ m.overflow \in BOOLEAN BY DEF OptionRecords
<1>2. CASE m.overflow
  <2>1. q = m BY <1>2 DEF SetDHCPOpt
  <2>2. QED BY <1>2, <2>1
<1>3. CASE ~m.overflow /\ m.length + len <= 256
  <2>1. q = [m EXCEPT !.length = m.length + len] BY <1>0, <1>3 DEF SetDHCPOpt
  <2>2. PICK k \in Nat : k = m.length + len BY <1>1
  <2>3. q = [m EXCEPT !.length = k] BY <2>1, <2>2
  <2>4. q \in OptionRecords /\ q.length = k /\ q.overflow = m.overflow
    BY <2>3 DEF OptionRecords
  <2>5. QED BY <1>3, <2>2, <2>4
<1>4. CASE ~m.overflow /\ ~(m.length + len <= 256)
  <2>1. q = [m EXCEPT !.overflow = TRUE] BY <1>0, <1>4 DEF SetDHCPOpt
  <2>2. q \in OptionRecords /\ q.length = m.length /\ q.overflow = TRUE
    BY <2>1 DEF OptionRecords
  <2>3. QED BY <1>4, <2>2
<1>5. QED BY <1>2, <1>3, <1>4

LEMMA OptionsHave ==
  ASSUME NEW type, NEW user \in Nat
  PROVE  /\ Options(type, user).length \in Nat /\ Options(type, user).overflow \in BOOLEAN
         /\ Options(type, user).length <= DHCP_OPTIONS_BUFFER_SIZE
         /\ ~Options(type, user).overflow /\ type # "nak" => user <= DHCP_OPTIONS_BUFFER_SIZE - 22
<1>0. DHCP_OPTIONS_BUFFER_SIZE = 256 BY DEF DHCP_OPTIONS_BUFFER_SIZE
<1>1. PICK m0, m1, m2, m3, m4, m5, m6 :
        /\ m0 = [length |-> 0, overflow |-> FALSE]
        /\ m1 = SetDHCPOpt(m0, 3) /\ m2 = SetDHCPOpt(m1, 6) /\ m3 = SetDHCPOpt(m2, 6)
        /\ m4 = SetDHCPOpt(m3, 6) /\ m5 = SetDHCPOpt(m4, user)
        /\ m6 = SetDHCPOpt(IF type = "nak" THEN m2 ELSE m5, 1)
  OBVIOUS
<1>2. Options(type, user) = m6
  BY <1>1 DEF Options, SetDHCPOpt0, SetDHCPOpt8, SetDHCPOpt32
<1>3. m0 \in OptionRecords /\ m0.length = 0 BY <1>1 DEF OptionRecords
<1>4. m1 \in OptionRecords /\ m1.length <= 256 /\ (~m1.overflow => m1.length = 3)
  <2>1. m0 \in OptionRecords /\ 3 \in Nat /\ m1 = SetDHCPOpt(m0, 3) BY <1>1, <1>3
  <2>2. /\ m1 \in OptionRecords /\ (m0.length <= 256 => m1.length <= 256)
        /\ ~m1.overflow => ~m0.overflow /\ m1.length = m0.length + 3
    BY <2>1, OptionHas
  <2>3. QED BY <1>3, <2>2
<1>5. m2 \in OptionRecords /\ m2.length <= 256 /\ (~m2.overflow => m2.length = 9)
  <2>1. m1 \in OptionRecords /\ 6 \in Nat /\ m2 = SetDHCPOpt(m1, 6) BY <1>1, <1>4
  <2>2. /\ m2 \in OptionRecords /\ (m1.length <= 256 => m2.length <= 256)
        /\ ~m2.overflow => ~m1.overflow /\ m2.length = m1.length + 6
    BY <2>1, OptionHas
  <2>3. QED BY <1>4, <2>2
<1>6. m3 \in OptionRecords /\ m3.length <= 256 /\ (~m3.overflow => m3.length = 15)
  <2>1. m2 \in OptionRecords /\ 6 \in Nat /\ m3 = SetDHCPOpt(m2, 6) BY <1>1, <1>5
  <2>2. /\ m3 \in OptionRecords /\ (m2.length <= 256 => m3.length <= 256)
        /\ ~m3.overflow => ~m2.overflow /\ m3.length = m2.length + 6
    BY <2>1, OptionHas
  <2>3. QED BY <1>5, <2>2
<1>7. m4 \in OptionRecords /\ m4.length <= 256 /\ (~m4.overflow => m4.length = 21)
  <2>1. m3 \in OptionRecords /\ 6 \in Nat /\ m4 = SetDHCPOpt(m3, 6) BY <1>1, <1>6
  <2>2. /\ m4 \in OptionRecords /\ (m3.length <= 256 => m4.length <= 256)
        /\ ~m4.overflow => ~m3.overflow /\ m4.length = m3.length + 6
    BY <2>1, OptionHas
  <2>3. QED BY <1>6, <2>2
<1>8. m5 \in OptionRecords /\ m5.length <= 256 /\ (~m5.overflow => m5.length = 21 + user)
  <2>1. m4 \in OptionRecords /\ user \in Nat /\ m5 = SetDHCPOpt(m4, user) BY <1>1, <1>7
  <2>2. /\ m5 \in OptionRecords /\ (m4.length <= 256 => m5.length <= 256)
        /\ ~m5.overflow => ~m4.overflow /\ m5.length = m4.length + user
    BY <2>1, OptionHas
  <2>3. QED BY <1>7, <2>2
<1>9. CASE type = "nak"
  <2>1. m2 \in OptionRecords /\ 1 \in Nat /\ m6 = SetDHCPOpt(m2, 1) BY <1>1, <1>5, <1>9
  <2>2. m6 \in OptionRecords /\ (m2.length <= 256 => m6.length <= 256) BY <2>1, OptionHas
  <2>3. m6.length \in Nat /\ m6.overflow \in BOOLEAN BY <2>2 DEF OptionRecords
  <2>4. QED BY <1>0, <1>2, <1>5, <1>9, <2>2, <2>3
<1>10. CASE type # "nak"
  <2>1. m5 \in OptionRecords /\ 1 \in Nat /\ m6 = SetDHCPOpt(m5, 1) BY <1>1, <1>8, <1>10
  <2>2. /\ m6 \in OptionRecords /\ (m5.length <= 256 => m6.length <= 256)
        /\ ~m6.overflow => ~m5.overflow /\ m6.length = m5.length + 1 /\ m6.length <= 256
    BY <2>1, OptionHas
  <2>3. m6.length \in Nat /\ m6.overflow \in BOOLEAN BY <2>2 DEF OptionRecords
  <2>4. ~m6.overflow => user <= 234 BY <1>8, <2>2
  <2>5. QED BY <1>0, <1>2, <1>8, <2>2, <2>3, <2>4
<1>11. QED BY <1>9, <1>10

LEMMA ModeKept ==
  ASSUME ModeKnown, ioctl' = ioctl, ptp' = ptp, dhcp'.on = dhcp.on, dhcp'.arp = dhcp.arp,
         dhcp'.mac = dhcp.mac, dhcp'.addr = dhcp.addr, dhcp'.server = dhcp.server,
         lived'.moved = lived.moved
  PROVE  ModeKnown'
  BY DEF ModeKnown

LEMMA SilentUnlessNoted ==
  ASSUME MasqueradeInv, transmit.at # "note" PROVE handed.kind \notin {"offer", "ack", "nak"}
  BY DEF MasqueradeInv, AnswerKnown

(* A step of the frame outside of the server's decision. *)
LEMMA PassStep ==
  ASSUME MasqueradeInv, Configured, UNCHANGED written, ~Deciding, transmit' \in TransmitRecords,
         transmit'.at \notin {"options", "send", "note"}, transmit'.length <= DHCP_OPTIONS_BUFFER_SIZE,
         transmit'.at # "idle" => transmit'.frame \in Frame,
         handed' \in HandedRecords, handed'.kind \notin {"offer", "ack", "nak"},
         lived' \in LivedRecords, lived'.asked = lived.asked, lived'.blind = lived.blind,
         lived'.moved = lived.moved, lived'.straddled = lived.straddled, PassedKnown'
  PROVE  MasqueradeInv'
<1>1. course' = course /\ ioctl' = ioctl /\ ptp' = ptp /\ dhcp' = dhcp BY DEF Configured
<1>2. ~Deciding' BY DEF Deciding
<1>3. SessionKnown'
  <2>1. ~lived.straddled => dhcp.discover = lived.asked /\ dhcp.bad = lived.blind
    BY DEF MasqueradeInv, SessionKnown
  <2>2. QED BY <1>1, <1>2, <2>1 DEF SessionKnown
<1>4. VerdictKnown' BY <1>2 DEF VerdictKnown
<1>5. AnswerKnown' BY DEF AnswerKnown
<1>6. ModeKnown' BY <1>1, MasqueradeHere, ModeKept
<1>7. MasqueradeTypeOK' BY <1>1, MasqueradeHere, WrittenKept DEF MasqueradeTypeOK, IoctlSteps
<1>8. QED BY <1>3, <1>4, <1>5, <1>6, <1>7, WrittenKept DEF MasqueradeInv

LEMMA ConsumedKeeps ==
  ASSUME MasqueradeInv, Configured, UNCHANGED written, UNCHANGED lived, ~Deciding, Consumed,
         handed' \in HandedRecords, handed'.kind \notin {"offer", "ack", "nak"}
  PROVE  MasqueradeInv'
<1>1. transmit' = NothingSent /\ lived' = lived BY DEF Consumed
<1>2. transmit' \in TransmitRecords /\ transmit'.at = "idle" /\ transmit'.length = 0
  BY <1>1, NothingSentHas
<1>3. transmit'.length <= DHCP_OPTIONS_BUFFER_SIZE BY <1>2 DEF DHCP_OPTIONS_BUFFER_SIZE
<1>4. PassedKnown' BY <1>2 DEF PassedKnown
<1>5. lived' \in LivedRecords BY <1>1, MasqueradeHere
<1>6. QED BY <1>1, <1>2, <1>3, <1>4, <1>5, PassStep

LEMMA SameHanded ==
  ASSUME MasqueradeInv, transmit.at # "note", handed' = handed
  PROVE  handed' \in HandedRecords /\ handed'.kind \notin {"offer", "ack", "nak"}
  BY MasqueradeHere, SilentUnlessNoted

LEMMA ArpHanded ==
  ASSUME MasqueradeInv, NEW f \in Frame, NEW m \in Mac, InjectPacket(Reply(f, m))
  PROVE  handed' \in HandedRecords /\ handed'.kind \notin {"offer", "ack", "nak"}
<1>1. handed' \in {Reply(f, m), Silence} BY DEF InjectPacket
<1>2. CASE handed' = Reply(f, m) BY <1>2, ReplyHas
<1>3. CASE handed' = Silence BY <1>3, SilenceHas
<1>4. QED BY <1>1, <1>2, <1>3

(* The frame goes on to the process. *)
LEMMA TakesKeeps ==
  ASSUME MasqueradeInv, Configured, UNCHANGED <<handed, lived, written>>, ~Deciding,
         transmit.at # "idle", NEW a \in {"tun", "ptp", "queue", "queue as tun"},
         transmit' = Takes(a),
         transmit.at \in {"tun", "ptp"} \/ ~dhcp.on \/ Passing.kind # "boot"
           \/ ~Passing.ours \/ Passing.dest \notin {"broadcast", dhcp.mac},
         a = "queue as tun" => Passing.dest = "gateway"
  PROVE  MasqueradeInv'
<1>1. dhcp' = dhcp /\ lived' = lived /\ handed' = handed BY DEF Configured
<1>2. PICK r, q : r = transmit /\ q = transmit' OBVIOUS
<1>3. r \in TransmitRecords /\ a \in Stages /\ q = [r EXCEPT !.at = a]
  BY <1>2, MasqueradeHere DEF Takes, Stages
<1>4. q \in TransmitRecords /\ q.at = a /\ q.frame = r.frame /\ q.length = r.length
  BY <1>3 DEF TransmitRecords, Stages
<1>5. /\ transmit' \in TransmitRecords /\ transmit'.at = a /\ transmit'.frame = transmit.frame
      /\ transmit'.length = transmit.length
  BY <1>2, <1>4
<1>6. transmit.length <= DHCP_OPTIONS_BUFFER_SIZE BY DEF MasqueradeInv, AnswerKnown
<1>7. transmit.frame \in Frame BY MasqueradeHere
<1>8. transmit.at # "note" BY DEF Deciding
<1>9. handed' \in HandedRecords /\ handed'.kind \notin {"offer", "ack", "nak"}
  BY <1>1, <1>8, SameHanded
<1>10. PassedKnown'
  <2>1. Passing' = Passing BY <1>5 DEF Passing
  <2>2. ASSUME dhcp.on, ~lived.mixed
        PROVE  ~(Passing.kind = "boot" /\ Passing.ours /\ Passing.dest \in {"broadcast", dhcp.mac})
    BY <2>2 DEF MasqueradeInv, PassedKnown
  <2>3. QED BY <1>1, <1>5, <2>1, <2>2 DEF PassedKnown
<1>11. lived' \in LivedRecords BY <1>1, MasqueradeHere
<1>12. transmit'.at \notin {"options", "send", "note"} BY <1>5
<1>13. QED BY <1>1, <1>5, <1>6, <1>7, <1>9, <1>10, <1>11, <1>12, PassStep

LEMMA TransmitKeeps ==
  ASSUME MasqueradeInv, NEW f \in Frame, Transmit(f), UNCHANGED written PROVE MasqueradeInv'
<1>1. /\ transmit.at = "idle" /\ transmit' = [NothingSent EXCEPT !.at = "dhcp", !.frame = f]
      /\ handed' = Silence /\ lived' = [lived EXCEPT !.mixed = FALSE] /\ Configured
  BY DEF Transmit
<1>2. PICK N : N = NothingSent OBVIOUS
<1>3. N \in TransmitRecords /\ N.length = 0 BY <1>2, NothingSentHas
<1>4. transmit' = [N EXCEPT !.at = "dhcp", !.frame = f] BY <1>1, <1>2
<1>5. /\ transmit' \in TransmitRecords /\ transmit'.at = "dhcp" /\ transmit'.frame = f
      /\ transmit'.length = 0
  BY <1>3, <1>4 DEF TransmitRecords
<1>6. transmit'.length <= DHCP_OPTIONS_BUFFER_SIZE BY <1>5 DEF DHCP_OPTIONS_BUFFER_SIZE
<1>7. handed' \in HandedRecords /\ handed'.kind = "nothing" BY <1>1, SilenceHas
<1>8. PICK r, q : r = lived /\ q = lived' OBVIOUS
<1>9. r \in LivedRecords /\ q = [r EXCEPT !.mixed = FALSE] BY <1>1, <1>8, MasqueradeHere
<1>10. /\ q \in LivedRecords /\ q.asked = r.asked /\ q.blind = r.blind /\ q.moved = r.moved
       /\ q.straddled = r.straddled
  BY <1>9, LivedMixed
<1>11. ~Deciding BY <1>1 DEF Deciding
<1>12. PassedKnown' BY <1>5 DEF PassedKnown
<1>13. /\ lived' \in LivedRecords /\ lived'.asked = lived.asked /\ lived'.blind = lived.blind
       /\ lived'.moved = lived.moved /\ lived'.straddled = lived.straddled
  BY <1>8, <1>10
<1>14. transmit'.at \notin {"options", "send", "note"}
       /\ handed'.kind \notin {"offer", "ack", "nak"}
  BY <1>5, <1>7
<1>15. QED BY <1>1, <1>5, <1>6, <1>7, <1>11, <1>12, <1>13, <1>14, PassStep

(* The server decides: the verdict follows what it remembers. *)
LEMMA JudgedKeeps ==
  ASSUME MasqueradeInv, Configured, UNCHANGED <<handed, written>>, transmit.at = "dhcp", dhcp.on,
         NEW type \in {"discover", "request"},
         transmit' = [Takes("options") EXCEPT !.type = Verdict(Passing, type)],
         lived' = [lived EXCEPT
            !.asked = @ \/ type = "discover",
            !.blind = IF type = "request" /\ Passing.ciaddr # dhcp.addr THEN Counted(@) ELSE @]
  PROVE  MasqueradeInv'
<1>1. course' = course /\ ioctl' = ioctl /\ ptp' = ptp /\ dhcp' = dhcp /\ handed' = handed
  BY DEF Configured
<1>2. PICK v \in {"offer", "ack", "nak"} : v = Verdict(Passing, type) BY DEF Verdict
<1>3. v = "offer" <=> type = "discover" BY <1>2 DEF Verdict
<1>4. v # "offer" => (v = "nak" <=>
         \/ Passing.ciaddr \notin {"zero", dhcp.addr} \/ ~dhcp.discover
         \/ dhcp.bad >= BAD_DHCPREQUEST_NAK_THRESHOLD)
  BY <1>2, <1>3 DEF Verdict
<1>5. PICK r, q : r = transmit /\ q = transmit' OBVIOUS
<1>6. r \in TransmitRecords BY <1>5, MasqueradeHere
<1>7. q = [[r EXCEPT !.at = "options"] EXCEPT !.type = v] BY <1>2, <1>5 DEF Takes
<1>8. /\ q \in TransmitRecords /\ q.at = "options" /\ q.frame = r.frame /\ q.type = v
      /\ q.length = r.length
  BY <1>6, <1>7 DEF TransmitRecords
<1>9. /\ transmit' \in TransmitRecords /\ transmit'.at = "options"
      /\ transmit'.frame = transmit.frame /\ transmit'.type = v
      /\ transmit'.length = transmit.length
  BY <1>5, <1>8
<1>10. lived \in LivedRecords /\ dhcp \in DhcpRecords BY MasqueradeHere
<1>11. lived.asked \in BOOLEAN /\ lived.blind \in BadCounts BY <1>10, LivedHas
<1>12. PICK b \in BOOLEAN : b = (lived.asked \/ type = "discover") BY <1>11
<1>13. PICK n \in BadCounts : n = IF type = "request" /\ Passing.ciaddr # dhcp.addr
                                  THEN Counted(lived.blind) ELSE lived.blind
  BY <1>11, CountedHas
<1>14. lived' = [lived EXCEPT !.asked = b, !.blind = n] BY <1>12, <1>13
<1>15. PICK x, y : x = lived /\ y = lived' OBVIOUS
<1>16. x \in LivedRecords /\ y = [x EXCEPT !.asked = b, !.blind = n] BY <1>10, <1>14, <1>15
<1>17. /\ y \in LivedRecords /\ y.asked = b /\ y.blind = n /\ y.moved = x.moved
       /\ y.mixed = x.mixed /\ y.straddled = x.straddled
  BY <1>16 DEF LivedRecords
<1>18. /\ lived' \in LivedRecords /\ lived'.asked = b /\ lived'.blind = n
       /\ lived'.moved = lived.moved /\ lived'.straddled = lived.straddled
  BY <1>15, <1>17
<1>19. Deciding' /\ Passing' = Passing /\ ~Deciding BY <1>9 DEF Deciding, Passing
<1>20. dhcp.addr # "zero" BY MasqueradeHere DEF ModeKnown
<1>21. dhcp.discover \in BOOLEAN BY <1>10, DhcpHas
<1>22. SessionKnown'
  <2> SUFFICES ASSUME ~lived.straddled
      PROVE  /\ dhcp.addr # "zero"
             /\ b = (dhcp.discover \/ v = "offer")
             /\ n = IF v # "offer" /\ Passing.ciaddr # dhcp.addr
                    THEN Counted(dhcp.bad) ELSE dhcp.bad
    BY <1>1, <1>9, <1>18, <1>19 DEF SessionKnown
  <2>1. dhcp.discover = lived.asked /\ dhcp.bad = lived.blind
    BY <1>19 DEF MasqueradeInv, SessionKnown
  <2>2. b = (dhcp.discover \/ v = "offer") BY <1>3, <1>11, <1>12, <1>21, <2>1
  <2>3. n = IF v # "offer" /\ Passing.ciaddr # dhcp.addr THEN Counted(dhcp.bad) ELSE dhcp.bad
    BY <1>3, <1>13, <2>1
  <2>4. QED BY <1>20, <2>2, <2>3
<1>23. VerdictKnown' BY <1>1, <1>4, <1>9, <1>19 DEF VerdictKnown
<1>24. handed.kind \notin {"offer", "ack", "nak"} BY SilentUnlessNoted
<1>25. transmit.length <= DHCP_OPTIONS_BUFFER_SIZE BY DEF MasqueradeInv, AnswerKnown
<1>26. AnswerKnown' BY <1>1, <1>9, <1>24, <1>25 DEF AnswerKnown
<1>27. PassedKnown' BY <1>9 DEF PassedKnown
<1>28. ModeKnown' BY <1>1, <1>18, MasqueradeHere, ModeKept
<1>29. transmit.frame \in Frame /\ handed \in HandedRecords BY MasqueradeHere
<1>30. MasqueradeTypeOK'
  BY <1>1, <1>9, <1>18, <1>29, MasqueradeHere, WrittenKept DEF MasqueradeTypeOK, IoctlSteps
<1>31. QED BY <1>22, <1>23, <1>26, <1>27, <1>28, <1>30, WrittenKept DEF MasqueradeInv

LEMMA MasqueradesKeeps ==
  ASSUME MasqueradeInv, Masquerades, UNCHANGED written PROVE MasqueradeInv'
<1>1. transmit.at = "dhcp" /\ Configured BY DEF Masquerades
<1>2. ~Deciding /\ transmit.at # "note" BY <1>1 DEF Deciding
<1>3. Passing \in Frame BY <1>1, MasqueradeHere DEF Passing
<1>4. CASE /\ dhcp.on /\ Passing.kind = "arp" /\ dhcp.arp
           /\ ProcessARP(Passing, dhcp.addr, {dhcp.server})
           /\ InjectPacket(Reply(Passing, dhcp.mac)) /\ Consumed /\ UNCHANGED lived
  <2>1. dhcp.mac \in Mac BY MasqueradeHere, DhcpHas
  <2>2. handed' \in HandedRecords /\ handed'.kind \notin {"offer", "ack", "nak"}
    BY <1>3, <1>4, <2>1, ArpHanded
  <2>3. QED BY <1>1, <1>2, <1>4, <2>2, ConsumedKeeps
<1>5. CASE dhcp.on /\ Passing.kind = "boot" /\ ProcessDHCP(Passing) /\ UNCHANGED handed
  <2>1. CASE Consumed /\ UNCHANGED lived
    <3>1. handed' \in HandedRecords /\ handed'.kind \notin {"offer", "ack", "nak"}
      BY <1>2, <1>5, SameHanded
    <3>2. QED BY <1>1, <1>2, <2>1, <3>1, ConsumedKeeps
  <2>2. CASE ~DHCPMessageOurs(Passing) /\ transmit' = Takes("tun") /\ UNCHANGED lived
    <3>1. ~Passing.ours \/ Passing.dest \notin {"broadcast", dhcp.mac}
      BY <2>2 DEF DHCPMessageOurs
    <3>2. "tun" \in {"tun", "ptp", "queue", "queue as tun"} /\ "tun" # "queue as tun" OBVIOUS
    <3>3. QED BY <1>1, <1>2, <1>5, <2>2, <3>1, <3>2, TakesKeeps
  <2>3. ASSUME NEW type \in {"discover", "request"},
               transmit' = [Takes("options") EXCEPT !.type = Verdict(Passing, type)],
               lived' = [lived EXCEPT
                 !.asked = @ \/ type = "discover",
                 !.blind = IF type = "request" /\ Passing.ciaddr # dhcp.addr
                           THEN Counted(@) ELSE @]
        PROVE  MasqueradeInv'
    BY <1>1, <1>5, <2>3, JudgedKeeps
  <2>4. PICK type : type = GetDHCPMessageType(Passing.options) OBVIOUS
  <2>5. \/ Consumed /\ UNCHANGED lived
        \/ ~DHCPMessageOurs(Passing) /\ transmit' = Takes("tun") /\ UNCHANGED lived
        \/ /\ type \in {"discover", "request"}
           /\ transmit' = [Takes("options") EXCEPT !.type = Verdict(Passing, type)]
           /\ lived' = [lived EXCEPT
                 !.asked = @ \/ type = "discover",
                 !.blind = IF type = "request" /\ Passing.ciaddr # dhcp.addr
                           THEN Counted(@) ELSE @]
    BY <1>5, <2>4 DEF ProcessDHCP
  <2>6. QED BY <2>1, <2>2, <2>3, <2>5
<1>6. CASE /\ \/ ~dhcp.on
              \/ Passing.kind = "arp" /\ ~(dhcp.arp /\ ProcessARP(Passing, dhcp.addr, {dhcp.server}))
              \/ Passing.kind \in {"ip", "other"}
           /\ transmit' = Takes("tun") /\ UNCHANGED <<handed, lived>>
  <2>1. ~dhcp.on \/ Passing.kind # "boot" BY <1>6
  <2>2. "tun" \in {"tun", "ptp", "queue", "queue as tun"} /\ "tun" # "queue as tun" OBVIOUS
  <2>3. QED BY <1>1, <1>2, <1>6, <2>1, <2>2, TakesKeeps
<1>7. QED BY <1>4, <1>5, <1>6 DEF Masquerades

LEMMA PointToPointKeeps ==
  ASSUME MasqueradeInv, PointToPoint, UNCHANGED written PROVE MasqueradeInv'
<1>1. CASE /\ transmit.at = "tun" /\ transmit' = Takes(IF ptp.tun THEN "ptp" ELSE "queue")
           /\ Configured /\ UNCHANGED <<handed, lived>>
  <2>1. PICK a \in {"ptp", "queue"} : a = IF ptp.tun THEN "ptp" ELSE "queue" OBVIOUS
  <2>2. transmit' = Takes(a) BY <1>1, <2>1
  <2>3. ~Deciding BY <1>1 DEF Deciding
  <2>4. a \in {"tun", "ptp", "queue", "queue as tun"} /\ a # "queue as tun" BY <2>1
  <2>5. QED BY <1>1, <2>2, <2>3, <2>4, TakesKeeps
<1>2. CASE /\ transmit.at = "ptp" /\ Configured /\ UNCHANGED lived
           /\ \/ /\ Passing.kind = "arp" /\ Consumed
                 /\ IF ProcessARP(Passing, ptp.local, ptp.net)
                    THEN InjectPacket(Reply(Passing, ptp.header)) ELSE UNCHANGED handed
              \/ Passing.kind = "other" /\ Consumed /\ UNCHANGED handed
              \/ /\ Passing.kind \in {"ip", "boot"} /\ UNCHANGED handed
                 /\ transmit' = IF ptp.header # "none" /\ Passing.dest = ptp.header
                                THEN Takes("queue as tun") ELSE NothingSent
  <2>1. ~Deciding /\ transmit.at # "note" BY <1>2 DEF Deciding
  <2>2. Passing \in Frame BY <1>2, MasqueradeHere DEF Passing
  <2>3. ptp.header \in Mac BY MasqueradeHere, PtpHas
  <2>4. CASE Consumed /\ handed' = handed
    <3>1. handed' \in HandedRecords /\ handed'.kind \notin {"offer", "ack", "nak"}
      BY <2>1, <2>4, SameHanded
    <3>2. QED BY <1>2, <2>1, <2>4, <3>1, ConsumedKeeps
  <2>5. CASE Consumed /\ InjectPacket(Reply(Passing, ptp.header))
    <3>1. handed' \in HandedRecords /\ handed'.kind \notin {"offer", "ack", "nak"}
      BY <2>2, <2>3, <2>5, ArpHanded
    <3>2. QED BY <1>2, <2>1, <2>5, <3>1, ConsumedKeeps
  <2>6. CASE /\ ptp.header # "none" /\ Passing.dest = ptp.header /\ handed' = handed
             /\ transmit' = Takes("queue as tun")
    <3>1. Passing.dest = "gateway" BY <2>6, MasqueradeHere DEF ModeKnown
    <3>2. "queue as tun" \in {"tun", "ptp", "queue", "queue as tun"} OBVIOUS
    <3>3. QED BY <1>2, <2>1, <2>6, <3>1, <3>2, TakesKeeps
  <2>7. QED BY <1>2, <2>4, <2>5, <2>6 DEF Consumed
<1>3. QED BY <1>1, <1>2 DEF PointToPoint

LEMMA PassOnKeeps ==
  ASSUME MasqueradeInv, PassOn, UNCHANGED written PROVE MasqueradeInv'
<1>1. ~Deciding /\ transmit.at # "note" BY DEF PassOn, Deciding
<1>2. Configured /\ Consumed /\ lived' = lived /\ handed' = handed BY DEF PassOn
<1>3. handed' \in HandedRecords /\ handed'.kind \notin {"offer", "ack", "nak"}
  BY <1>1, <1>2, SameHanded
<1>4. QED BY <1>1, <1>2, <1>3, ConsumedKeeps

(* A step between the verdict and the note of it. *)
LEMMA DecideStep ==
  ASSUME MasqueradeInv, Configured, UNCHANGED <<lived, written>>, Deciding,
         transmit' \in TransmitRecords, transmit'.at \in {"send", "note"},
         transmit'.frame = transmit.frame, transmit'.type = transmit.type,
         handed' \in HandedRecords, AnswerKnown'
  PROVE  MasqueradeInv'
<1>1. /\ course' = course /\ ioctl' = ioctl /\ ptp' = ptp /\ dhcp' = dhcp /\ lived' = lived
      /\ written' = written
  BY DEF Configured
<1>2. Deciding' /\ Passing' = Passing BY DEF Deciding, Passing
<1>3. SessionKnown'
  <2>1. ~lived.straddled =>
          /\ dhcp.addr # "zero"
          /\ lived.asked = (dhcp.discover \/ transmit.type = "offer")
          /\ lived.blind = IF transmit.type # "offer" /\ Passing.ciaddr # dhcp.addr
                           THEN Counted(dhcp.bad) ELSE dhcp.bad
    BY Zenon DEF MasqueradeInv, SessionKnown
  <2>2. QED BY <1>1, <1>2, <2>1, Zenon DEF SessionKnown
<1>4. VerdictKnown' BY <1>1, <1>2, Zenon DEF MasqueradeInv, VerdictKnown
<1>5. PassedKnown' BY DEF PassedKnown
<1>6. ModeKnown' BY <1>1, MasqueradeHere, ModeKept
<1>7. transmit.frame \in Frame BY MasqueradeHere DEF Deciding
<1>8. MasqueradeTypeOK'
  BY <1>1, <1>7, MasqueradeHere, WrittenKept DEF MasqueradeTypeOK, IoctlSteps
<1>9. QED BY <1>1, <1>3, <1>4, <1>5, <1>6, <1>8, WrittenKept DEF MasqueradeInv

LEMMA NoteTaken ==
  ASSUME MasqueradeInv, transmit' = Takes("note")
  PROVE  /\ transmit' \in TransmitRecords /\ transmit'.at = "note"
         /\ transmit'.frame = transmit.frame /\ transmit'.type = transmit.type
         /\ transmit'.length = transmit.length
<1>1. PICK r, q : r = transmit /\ q = transmit' OBVIOUS
<1>2. r \in TransmitRecords /\ q = [r EXCEPT !.at = "note"]
  BY <1>1, MasqueradeHere DEF Takes
<1>3. /\ q \in TransmitRecords /\ q.at = "note" /\ q.frame = r.frame /\ q.type = r.type
      /\ q.length = r.length
  BY <1>2 DEF TransmitRecords
<1>4. QED BY <1>1, <1>3

LEMMA SetOptionsOfKeeps ==
  ASSUME MasqueradeInv, SetOptionsOf, UNCHANGED written PROVE MasqueradeInv'
<1>1. /\ transmit.at = "options" /\ Configured /\ handed' = handed /\ lived' = lived
      /\ dhcp' = dhcp
  BY DEF SetOptionsOf, Configured
<1>2. Deciding /\ transmit.at # "note" BY <1>1 DEF Deciding
<1>3. handed' \in HandedRecords /\ handed'.kind \notin {"offer", "ack", "nak"}
  BY <1>1, <1>2, SameHanded
<1>4. transmit.length <= DHCP_OPTIONS_BUFFER_SIZE BY DEF MasqueradeInv, AnswerKnown
<1>5. CASE transmit' = Takes("note")
  <2>1. /\ transmit' \in TransmitRecords /\ transmit'.at = "note"
        /\ transmit'.frame = transmit.frame /\ transmit'.type = transmit.type
        /\ transmit'.length = transmit.length
    BY <1>5, NoteTaken
  <2>2. AnswerKnown' BY <1>3, <1>4, <2>1 DEF AnswerKnown
  <2>3. QED BY <1>1, <1>2, <1>3, <2>1, <2>2, DecideStep
<1>6. CASE LET m == Options(transmit.type, dhcp.options) IN
           transmit' = [Takes("send") EXCEPT !.server = dhcp.server, !.user = dhcp.options,
                                             !.overflow = m.overflow, !.length = m.length]
  <2>1. dhcp \in DhcpRecords /\ transmit \in TransmitRecords BY MasqueradeHere
  <2>2. PICK s \in Everywhere, u \in Nat : s = dhcp.server /\ u = dhcp.options
    BY <2>1, DhcpHas
  <2>3. PICK t : t = transmit.type OBVIOUS
  <2>4. PICK o \in BOOLEAN, n \in Nat :
          /\ o = Options(t, u).overflow /\ n = Options(t, u).length
          /\ n <= DHCP_OPTIONS_BUFFER_SIZE
          /\ ~o /\ t # "nak" => u <= DHCP_OPTIONS_BUFFER_SIZE - 22
    BY OptionsHave
  <2>5. PICK r, q : r = transmit /\ q = transmit' OBVIOUS
  <2>6. r \in TransmitRecords BY <2>1, <2>5
  <2>7. q = [[r EXCEPT !.at = "send"] EXCEPT !.server = s, !.user = u, !.overflow = o, !.length = n]
    BY <1>6, <2>2, <2>3, <2>4, <2>5 DEF Takes
  <2>8. /\ q \in TransmitRecords /\ q.at = "send" /\ q.frame = r.frame /\ q.type = r.type
        /\ q.server = s /\ q.user = u /\ q.overflow = o /\ q.length = n
    BY <2>6, <2>7 DEF TransmitRecords
  <2>9. /\ transmit' \in TransmitRecords /\ transmit'.at = "send"
        /\ transmit'.frame = transmit.frame /\ transmit'.type = transmit.type
        /\ transmit'.server = dhcp.server /\ transmit'.user = dhcp.options
        /\ transmit'.length <= DHCP_OPTIONS_BUFFER_SIZE
        /\ (~transmit'.overflow /\ transmit'.type # "nak" =>
              transmit'.user <= DHCP_OPTIONS_BUFFER_SIZE - 22)
    BY <2>2, <2>3, <2>4, <2>5, <2>8
  <2>10. AnswerKnown' BY <1>1, <1>3, <2>9 DEF AnswerKnown
  <2>11. QED BY <1>1, <1>2, <1>3, <2>9, <2>10, DecideStep
<1>7. QED BY <1>5, <1>6 DEF SetOptionsOf

LEMMA SendDHCPMsgKeeps ==
  ASSUME MasqueradeInv, SendDHCPMsg, UNCHANGED written PROVE MasqueradeInv'
<1>1. /\ transmit.at = "send" /\ transmit' = Takes("note") /\ Configured /\ lived' = lived
      /\ dhcp' = dhcp
  BY DEF SendDHCPMsg, Configured
<1>2. Deciding /\ transmit.at # "note" BY <1>1 DEF Deciding
<1>3. /\ transmit' \in TransmitRecords /\ transmit'.at = "note"
      /\ transmit'.frame = transmit.frame /\ transmit'.type = transmit.type
      /\ transmit'.length = transmit.length
  BY <1>1, NoteTaken
<1>4. /\ transmit.length <= DHCP_OPTIONS_BUFFER_SIZE
      /\ ~transmit.overflow /\ transmit.type # "nak" =>
           transmit.user <= DHCP_OPTIONS_BUFFER_SIZE - 22
      /\ ~lived.mixed => transmit.server = dhcp.server /\ transmit.user = dhcp.options
  BY <1>1 DEF MasqueradeInv, AnswerKnown
<1>5. CASE handed' \in HandedRecords /\ handed'.kind \notin {"offer", "ack", "nak"}
  <2>1. AnswerKnown' BY <1>3, <1>4, <1>5 DEF AnswerKnown
  <2>2. QED BY <1>1, <1>2, <1>3, <1>5, <2>1, DecideStep
<1>6. CASE ~transmit.overflow /\ handed' = BuildDHCPPre(Passing, transmit.type)
           /\ transmit.type # "none"
  <2>1. transmit.type \in {"offer", "ack", "nak"} BY <1>6, MasqueradeHere, TransmitHas
  <2>2. PICK t \in {"offer", "ack", "nak"} : t = transmit.type BY <2>1
  <2>3. PICK h : h = BuildDHCPPre(Passing, t) OBVIOUS
  <2>4. /\ h \in HandedRecords /\ h.kind = t /\ h.mac = dhcp.mac /\ h.server = transmit.server
        /\ h.user = transmit.user /\ (t # "nak" => h.addr = dhcp.addr)
    BY <2>3, BuiltHas
  <2>5. handed' = h BY <1>6, <2>2, <2>3
  <2>6. handed' \in HandedRecords BY <2>4, <2>5
  <2>7. handed'.kind \in {"offer", "ack"} =>
          /\ handed'.user <= DHCP_OPTIONS_BUFFER_SIZE - 22
          /\ ~lived.mixed =>
               /\ handed'.mac = dhcp.mac /\ handed'.addr = dhcp.addr
               /\ handed'.server = dhcp.server /\ handed'.user = dhcp.options
    BY <1>4, <1>6, <2>2, <2>4, <2>5
  <2>8. AnswerKnown' BY <1>1, <1>3, <1>4, <2>7 DEF AnswerKnown
  <2>9. QED BY <1>1, <1>2, <1>3, <2>6, <2>8, DecideStep
<1>7. CASE transmit.overflow
  <2>1. handed' = handed BY <1>7 DEF SendDHCPMsg
  <2>2. QED BY <1>2, <1>5, <2>1, SameHanded
<1>8. CASE ~transmit.overflow
  <2>1. handed' \in {BuildDHCPPre(Passing, transmit.type), Silence}
    BY <1>8 DEF SendDHCPMsg, InjectPacket
  <2>2. CASE handed' = Silence BY <1>5, <2>2, SilenceHas
  <2>3. transmit.type # "none" BY <1>2 DEF MasqueradeInv, VerdictKnown
  <2>4. QED BY <1>6, <1>8, <2>1, <2>2, <2>3
<1>9. QED BY <1>7, <1>8

LEMMA NoteRequestKeeps ==
  ASSUME MasqueradeInv, NoteRequest, UNCHANGED written PROVE MasqueradeInv'
<1>1. /\ transmit.at = "note" /\ transmit' = NothingSent /\ handed' = Silence
      /\ course' = course /\ ioctl' = ioctl /\ ptp' = ptp /\ lived' = lived
      /\ dhcp' = [dhcp EXCEPT
           !.discover = dhcp.discover \/ transmit.type = "offer",
           !.bad = IF transmit.type # "offer" /\ Passing.ciaddr # dhcp.addr
                   THEN Counted(dhcp.bad) ELSE dhcp.bad]
  BY DEF NoteRequest, Consumed
<1>2. /\ transmit' \in TransmitRecords /\ transmit'.at = "idle" /\ transmit'.length = 0
      /\ handed' \in HandedRecords /\ handed'.kind = "nothing"
  BY <1>1, NothingSentHas, SilenceHas
<1>3. dhcp \in DhcpRecords BY MasqueradeHere
<1>4. dhcp.discover \in BOOLEAN /\ dhcp.bad \in BadCounts BY <1>3, DhcpHas
<1>5. PICK d \in BOOLEAN : d = (dhcp.discover \/ transmit.type = "offer") BY <1>4
<1>6. PICK n \in BadCounts : n = IF transmit.type # "offer" /\ Passing.ciaddr # dhcp.addr
                                 THEN Counted(dhcp.bad) ELSE dhcp.bad
  BY <1>4, CountedHas
<1>7. PICK r, q : r = dhcp /\ q = dhcp' OBVIOUS
<1>8. r \in DhcpRecords /\ q = [r EXCEPT !.discover = d, !.bad = n]
  BY <1>1, <1>3, <1>5, <1>6, <1>7
<1>9. /\ q \in DhcpRecords /\ q.on = r.on /\ q.arp = r.arp /\ q.mac = r.mac /\ q.addr = r.addr
      /\ q.server = r.server /\ q.discover = d /\ q.bad = n
  BY <1>8 DEF DhcpRecords
<1>10. /\ dhcp' \in DhcpRecords /\ dhcp'.on = dhcp.on /\ dhcp'.arp = dhcp.arp
       /\ dhcp'.mac = dhcp.mac /\ dhcp'.addr = dhcp.addr /\ dhcp'.server = dhcp.server
       /\ dhcp'.discover = d /\ dhcp'.bad = n
  BY <1>7, <1>9
<1>11. Deciding /\ ~Deciding' BY <1>1, <1>2 DEF Deciding
<1>12. SessionKnown'
  <2>1. ASSUME ~lived.straddled PROVE d = lived.asked /\ n = lived.blind
    <3>1. /\ lived.asked = (dhcp.discover \/ transmit.type = "offer")
          /\ lived.blind = IF transmit.type # "offer" /\ Passing.ciaddr # dhcp.addr
                           THEN Counted(dhcp.bad) ELSE dhcp.bad
      BY <1>11, <2>1, Zenon DEF MasqueradeInv, SessionKnown
    <3>2. QED BY <1>5, <1>6, <3>1
  <2>2. QED BY <1>1, <1>10, <1>11, <2>1 DEF SessionKnown
<1>13. VerdictKnown' BY <1>11 DEF VerdictKnown
<1>14. AnswerKnown' BY <1>2 DEF AnswerKnown, DHCP_OPTIONS_BUFFER_SIZE
<1>15. PassedKnown' BY <1>2 DEF PassedKnown
<1>16. ModeKnown' BY <1>1, <1>10, MasqueradeHere, ModeKept
<1>17. MasqueradeTypeOK'
  BY <1>1, <1>2, <1>10, MasqueradeHere, WrittenKept DEF MasqueradeTypeOK, IoctlSteps
<1>18. QED
  BY <1>12, <1>13, <1>14, <1>15, <1>16, <1>17, WrittenKept DEF MasqueradeInv

LEMMA MasqueradeInvStep ==
  ASSUME MasqueradeInv, [MasqueradeNext]_masqueradeVars PROVE MasqueradeInv'
<1>1. CASE UNCHANGED masqueradeVars
  <2>1. /\ course' = course /\ ioctl' = ioctl /\ ptp' = ptp /\ dhcp' = dhcp
        /\ transmit' = transmit /\ handed' = handed /\ lived' = lived /\ written' = written
    BY <1>1 DEF masqueradeVars
  <2>2. ModeKnown' BY <2>1, MasqueradeHere, ModeKept
  <2>3. /\ course' \in Seq(Requested) /\ ioctl' \in IoctlSteps /\ ptp' \in PtpRecords
    BY <2>1, MasqueradeHere
  <2>4. QED BY <2>1, <2>2, <2>3, WrittenKept, BystanderStep
<1>2. CASE WriteDevice BY <1>2, WriteDeviceKeeps
<1>3. CASE Handle /\ UNCHANGED written
  <2>1. CASE OpenDevice BY <1>3, <2>1, OpenDeviceKeeps
  <2>2. CASE CloseDevice BY <1>3, <2>2, CloseDeviceKeeps
  <2>3. CASE ConfigTun BY <1>3, <2>3, ConfigTunKeeps
  <2>4. CASE ConfigDhcpMasq BY <1>3, <2>4, ConfigDhcpMasqKeeps
  <2>5. CASE SetOptions BY <1>3, <2>5, SetOptionsKeeps
  <2>6. CASE RefuseShort BY <1>3, <2>6, RefuseShortKeeps
  <2>7. QED BY <1>3, <2>1, <2>2, <2>3, <2>4, <2>5, <2>6 DEF Handle
<1>4. CASE (\E f \in Frame : Transmit(f)) /\ UNCHANGED written BY <1>4, TransmitKeeps
<1>5. CASE /\ Masquerades \/ SetOptionsOf \/ SendDHCPMsg \/ NoteRequest \/ PointToPoint \/ PassOn
           /\ UNCHANGED written
  BY <1>5, MasqueradesKeeps, SetOptionsOfKeeps, SendDHCPMsgKeeps, NoteRequestKeeps,
     PointToPointKeeps, PassOnKeeps
<1>6. QED BY <1>1, <1>2, <1>3, <1>4, <1>5 DEF MasqueradeNext

LEMMA MasqueradeInvInit ==
  ASSUME NEW c \in Seq(Requested), TakesCourse(c) PROVE MasqueradeInv
<1>1. /\ course = c /\ ioctl = "start" /\ ptp = NoPtp /\ dhcp = NoDhcp /\ transmit = NothingSent
      /\ handed = Silence /\ written = "nothing"
      /\ lived = [asked |-> FALSE, blind |-> 0, moved |-> FALSE, mixed |-> FALSE,
                  straddled |-> FALSE]
  BY DEF TakesCourse
<1>2. ptp \in PtpRecords /\ ptp.tun = FALSE /\ ptp.header = "none" BY <1>1, NoPtpHas
<1>3. dhcp \in DhcpRecords /\ dhcp.on = FALSE /\ dhcp.discover = FALSE /\ dhcp.bad = 0
  BY <1>1, NoDhcpHas
<1>4. transmit \in TransmitRecords /\ transmit.at = "idle" /\ transmit.length = 0
  BY <1>1, NothingSentHas
<1>5. handed \in HandedRecords /\ handed.kind = "nothing" BY <1>1, SilenceHas
<1>6. lived \in LivedRecords /\ lived.asked = FALSE /\ lived.blind = 0
  <2>1. PICK n \in BadCounts : n = 0 BY DEF BadCounts, BAD_DHCPREQUEST_NAK_THRESHOLD
  <2>2. lived = [asked |-> FALSE, blind |-> n, moved |-> FALSE, mixed |-> FALSE,
                 straddled |-> FALSE]
    BY <1>1, <2>1
  <2>3. lived \in LivedRecords BY <2>2 DEF LivedRecords
  <2>4. QED BY <1>1, <2>3
<1>7. ~Deciding BY <1>4 DEF Deciding
<1>8. MasqueradeTypeOK BY <1>1, <1>2, <1>3, <1>4, <1>5, <1>6 DEF MasqueradeTypeOK
<1>9. SessionKnown BY <1>3, <1>6, <1>7 DEF SessionKnown
<1>10. VerdictKnown BY <1>7 DEF VerdictKnown
<1>11. AnswerKnown BY <1>4, <1>5 DEF AnswerKnown, DHCP_OPTIONS_BUFFER_SIZE
<1>12. ModeKnown BY <1>1, <1>2, <1>3 DEF ModeKnown
<1>13. PassedKnown BY <1>4 DEF PassedKnown
<1>14. WriteKnown BY <1>1 DEF WriteKnown, Mac
<1>15. QED BY <1>8, <1>9, <1>10, <1>11, <1>12, <1>13, <1>14 DEF MasqueradeInv

(* Whatever the process asks of the TAP driver and the host transmits, and however a frame and an
   ioctl overlap, the server of dhcp.c remembers what it was asked since the device was opened,
   says no exactly when it has to, answers whole and with what is configured, is found where it
   said it is, and what it takes is not passed on (AdapterTransmit, ProcessDHCP, ProcessARP). *)
THEOREM MasqueradeAgrees == GuestDevicesSpec => []MasqueradeExact
<1>1. GuestDevicesInit => MasqueradeInv
  <2> SUFFICES ASSUME GuestDevicesInit PROVE MasqueradeInv
    OBVIOUS
  <2>1. CASE exercised = "masquerade"
    <3>1. PICK c \in DOMAIN Course : TakesCourse(Course[c])
      BY <2>1 DEF GuestDevicesInit, MasqueradeInit
    <3>2. Course[c] \in Seq(Requested) BY MasqueradeAssumption
    <3>3. QED BY <3>1, <3>2, MasqueradeInvInit
  <2>2. CASE exercised # "masquerade"
    <3>1. TakesCourse(<<>>) BY <2>2 DEF GuestDevicesInit
    <3>2. <<>> \in Seq(Requested) OBVIOUS
    <3>3. QED BY <3>1, <3>2, MasqueradeInvInit
  <2>3. QED BY <2>1, <2>2
<1>2. MasqueradeInv /\ [GuestDevicesNext]_guestDevicesVars => MasqueradeInv'
  <2> SUFFICES ASSUME MasqueradeInv, [GuestDevicesNext]_guestDevicesVars PROVE MasqueradeInv'
    OBVIOUS
  <2>1. [MasqueradeNext]_masqueradeVars
    <3>1. CASE GuestDevicesNext
      <4>1. exercised = "masquerade" => MasqueradeNext BY <3>1, Zenon DEF GuestDevicesNext
      <4>2. exercised # "masquerade" => UNCHANGED masqueradeVars
        BY <3>1, Zenon DEF GuestDevicesNext, OthersStay
      <4>3. QED BY <4>1, <4>2
    <3>2. CASE UNCHANGED guestDevicesVars BY <3>2, Zenon DEF guestDevicesVars
    <3>3. QED BY <3>1, <3>2
  <2>2. QED BY <2>1, MasqueradeInvStep
<1>3. QED BY <1>1, <1>2, MasqueradeInvExact, PTL DEF GuestDevicesSpec
=============================================================================
