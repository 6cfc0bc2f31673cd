--------------------------- MODULE OpenDescProofs ---------------------------
(***************************************************************************)
(* Proofs about OpenDesc, for every number of descriptors, monitors and    *)
(* modules: its types, the exact accounting of references, reads that      *)
(* never wait beside a message, and the refinement of MessageChannel;      *)
(* then the references of the monitors, the slots of closed descriptors,   *)
(* the bound of the queues, and who may take a read from whom.             *)
(***************************************************************************)
EXTENDS OpenDesc, FiniteSetTheorems, TLAPS

(* The program counters of a thread whose handle is open, of one that holds a
   descriptor reference of its own, of one inside co_monitor_refdown, and of one
   that holds its monitor's connected_modules_write_lock. *)
HandlePCs == {"idle", "attach", "attach_slots", "read", "cleanup",
              "cleanup_slots", "cleanup_close", "detached"}
RefPCs    == {"send", "direct", "throttle", "drop", "eof_drop"}
EofPCs    == {"eof_take", "eof_drop", "end_slot"}
EndPCs    == EofPCs \cup {"end_slots"}
DownPCs   == EndPCs \cup {"unlist", "end", "refdown", "refdown_store"}
SlotPCs   == {"attach_slots", "cleanup_slots"}

(* What a thread's program counter says about its locals and its descriptor. *)
ControlOf(t) ==
  /\ pc[t] = "new" => alloc[t] = "none"
  /\ pc[t] \in HandlePCs => handle[t]
  /\ pc[t] \in RefPCs <=> ref[t] # None
  /\ pc[t] \in {"close", "free"} => victim[t] # None
  /\ pc[t] \in SlotPCs \cup {"attach", "cleanup"} => monitor[t] # None
  /\ pc[t] \in DownPCs => down[t] # None /\ (handle[t] \/ victim[t] # None)
  /\ pc[t] \in {"direct", "eof_take"} => saw[t] # 0

(* connected_modules_write_lock: who is in a critical section holds it, and a slot that
   the end messages are working on is not empty. *)
LockOf(t) ==
  /\ pc[t] \in SlotPCs => write_lock[monitor[t]] = t
  /\ pc[t] \in EndPCs => write_lock[down[t]] = t
  /\ pc[t] \in EofPCs => \A k \in todo[t] : connected_modules[down[t]][k] # None

ControlInv == \A t \in Desc : ControlOf(t)
LockInv == \A t \in Desc : LockOf(t)

(* A descriptor is closed by one thread. *)
VictimInv == \A t, u \in Desc : victim[t] = victim[u] /\ victim[t] # None => t = u

IInv == TypeOK /\ RefExact /\ ControlInv /\ LockInv /\ VictimInv

-----------------------------------------------------------------------------
(* Counting references.                                                    *)

SlotSet(cm, d) == {s \in Mon \X Module : cm[s[1]][s[2]] = d}
HolderSet(r, d) == {t \in Desc : r[t] = d}
SetRef(t, x) == ref' = [ref EXCEPT ![t] = x]

(* The slots of a descriptor are finitely many. *)
LEMMA SlotsFinite ==
  ASSUME NEW cm, NEW d
  PROVE  /\ IsFiniteSet(SlotSet(cm, d))
         /\ Cardinality(SlotSet(cm, d)) \in Nat
<1>1. IsFiniteSet(Mon \X Module)
  BY FS_Product, ConstantsAssumption
<1>2. SlotSet(cm, d) \in SUBSET (Mon \X Module)
  BY DEF SlotSet
<1> QED
  BY <1>1, <1>2, FS_Subset, FS_CardinalityType

LEMMA HoldersFinite ==
  ASSUME NEW r, NEW d
  PROVE  /\ IsFiniteSet(HolderSet(r, d))
         /\ Cardinality(HolderSet(r, d)) \in Nat
<1>1. HolderSet(r, d) \in SUBSET Desc
  BY DEF HolderSet
<1> QED
  BY <1>1, ConstantsAssumption, FS_Subset, FS_CardinalityType

(* Storing x in a slot moves at most that slot between two counts. *)
LEMMA SlotChange ==
  ASSUME TypeOK, NEW m \in Mon, NEW k \in Module, NEW x, SetSlot(m, k, x), NEW d
  PROVE  Cardinality(SlotSet(connected_modules', d))
           = Cardinality(SlotSet(connected_modules, d))
             + One(x = d) - One(connected_modules[m][k] = d)
<1> DEFINE cm == connected_modules
           new == connected_modules'
           S == SlotSet(cm, d)
           s0 == <<m, k>>
<1>1. \A n \in Mon, j \in Module :
        new[n][j] = IF n = m /\ j = k THEN x ELSE cm[n][j]
  BY DEF TypeOK, SetSlot
<1>2. s0 \in Mon \X Module /\ (s0 \in S <=> cm[m][k] = d)
  BY DEF SlotSet
<1>3. SlotSet(new, d) = IF x = d THEN S \cup {s0} ELSE S \ {s0}
  BY <1>1, <1>2 DEF SlotSet
<1>4. IsFiniteSet(S) /\ Cardinality(S) \in Nat
  BY SlotsFinite
<1> HIDE DEF S, s0
<1>5. /\ Cardinality(S \cup {s0}) = IF s0 \in S THEN Cardinality(S) ELSE Cardinality(S) + 1
      /\ Cardinality(S \ {s0}) = IF s0 \in S THEN Cardinality(S) - 1 ELSE Cardinality(S)
  BY <1>4, FS_AddElement, FS_RemoveElement
<1>6. Cardinality(SlotSet(new, d)) = Cardinality(S) + One(x = d) - One(cm[m][k] = d)
  BY <1>2, <1>3, <1>4, <1>5 DEF One
<1> QED
  BY <1>6 DEF S

(* The same for the descriptor whose reference thread t holds. *)
LEMMA HolderChange ==
  ASSUME TypeOK, NEW t \in Desc, NEW x, SetRef(t, x), NEW d
  PROVE  Cardinality(HolderSet(ref', d))
           = Cardinality(HolderSet(ref, d)) + One(x = d) - One(ref[t] = d)
<1> DEFINE S == HolderSet(ref, d)
<1>1. \A u \in Desc : ref'[u] = IF u = t THEN x ELSE ref[u]
  BY DEF TypeOK, SetRef
<1>2. HolderSet(ref', d) = IF x = d THEN S \cup {t} ELSE S \ {t}
  BY <1>1 DEF HolderSet
<1>3. t \in S <=> ref[t] = d
  BY DEF HolderSet
<1>4. IsFiniteSet(S) /\ Cardinality(S) \in Nat
  BY HoldersFinite
<1> HIDE DEF S
<1>5. /\ Cardinality(S \cup {t}) = IF t \in S THEN Cardinality(S) ELSE Cardinality(S) + 1
      /\ Cardinality(S \ {t}) = IF t \in S THEN Cardinality(S) - 1 ELSE Cardinality(S)
  BY <1>4, FS_AddElement, FS_RemoveElement
<1>6. Cardinality(HolderSet(ref', d)) = Cardinality(S) + One(x = d) - One(ref[t] = d)
  BY <1>2, <1>3, <1>4, <1>5 DEF One
<1> QED
  BY <1>6 DEF S

(* ref_count as RefExact counts it. *)
Total(d) == One(handle[d]) + One(irp[d] # 0) + Cardinality(SlotSet(connected_modules, d))
              + Cardinality(HolderSet(ref, d))

LEMMA RefExactTotal ==
  RefExact <=> \A d \in Desc :
    /\ ref_count[d] = Total(d)
    /\ alloc[d] # "open" => ref_count[d] = 0
    /\ \A t \in Desc : victim[t] = d => ref_count[d] = 0 /\ alloc[d] = "open"
BY DEF RefExact, Total, SlotsOf, SlotSet, HoldersOf, HolderSet

(* Whoever has a handle on a descriptor, a read parked on it, a slot that points to it or a
   reference to it keeps its count above zero. *)
LEMMA Counted ==
  ASSUME TypeOK, RefExact, NEW d \in Desc,
         \/ handle[d]
         \/ irp[d] # 0
         \/ \E m \in Mon, k \in Module : connected_modules[m][k] = d
         \/ \E t \in Desc : ref[t] = d
  PROVE  ref_count[d] >= 1
<1> DEFINE S == SlotSet(connected_modules, d)
           H == HolderSet(ref, d)
<1>1. IsFiniteSet(S) /\ Cardinality(S) \in Nat /\ (Cardinality(S) = 0 <=> S = {})
  BY SlotsFinite, FS_EmptySet
<1>2. IsFiniteSet(H) /\ Cardinality(H) \in Nat /\ (Cardinality(H) = 0 <=> H = {})
  BY HoldersFinite, FS_EmptySet
<1>3. ASSUME NEW m \in Mon, NEW k \in Module, connected_modules[m][k] = d PROVE S # {}
  <2>1. <<m, k>> \in S
    BY <1>3 DEF SlotSet
  <2> QED
    BY <2>1
<1>4. ASSUME NEW t \in Desc, ref[t] = d PROVE H # {}
  BY <1>4 DEF HolderSet
<1>5. ref_count[d] = One(handle[d]) + One(irp[d] # 0) + Cardinality(S) + Cardinality(H)
  BY RefExactTotal DEF Total
<1> HIDE DEF S, H
<1>6. One(handle[d]) \in {0, 1} /\ One(irp[d] # 0) \in {0, 1}
  BY DEF One
<1>7. CASE handle[d]
  BY <1>1, <1>2, <1>5, <1>6, <1>7 DEF One
<1>8. CASE irp[d] # 0
  BY <1>1, <1>2, <1>5, <1>6, <1>8 DEF One
<1>9. CASE S # {}
  BY <1>1, <1>2, <1>5, <1>6, <1>9
<1>10. CASE H # {}
  BY <1>1, <1>2, <1>5, <1>6, <1>10
<1> QED
  BY <1>3, <1>4, <1>7, <1>8, <1>9, <1>10

-----------------------------------------------------------------------------
(* Types.                                                                  *)

(* What the invariant says of the descriptors and the monitor thread t works on. *)
LEMMA ThreadFacts ==
  ASSUME IInv, NEW t \in Desc
  PROVE  /\ pc[t] \in RefPCs => ref[t] \in Desc /\ ref_count[ref[t]] >= 1
         /\ pc[t] \notin RefPCs => ref[t] = None
         /\ pc[t] \in DownPCs => down[t] \in Mon /\ (handle[t] \/ victim[t] # None)
         /\ pc[t] \in {"close", "free"} => victim[t] \in Desc
         /\ pc[t] \in SlotPCs \cup {"attach", "cleanup"} => monitor[t] \in Mon
         /\ pc[t] \in HandlePCs => handle[t] /\ ref_count[t] >= 1 /\ alloc[t] = "open"
         /\ pc[t] \in {"direct", "eof_take"} => saw[t] \in Nat \ {0}
         /\ pc[t] \in EofPCs => \A k \in todo[t] : connected_modules[down[t]][k] \in Desc
<1>1. /\ ref[t] \in Desc \cup {None} /\ down[t] \in Mon \cup {None}
      /\ victim[t] \in Desc \cup {None} /\ monitor[t] \in Mon \cup {None}
      /\ saw[t] \in Nat /\ ref_count[t] \in Nat /\ todo[t] \subseteq Module
      /\ connected_modules \in [Mon -> [Module -> Desc \cup {None}]]
  BY DEF IInv, TypeOK
<1>2. ref[t] \in Desc => ref_count[ref[t]] >= 1
  BY Counted DEF IInv
<1>3. handle[t] => ref_count[t] >= 1
  BY Counted DEF IInv
<1>4. ref_count[t] >= 1 => alloc[t] = "open"
  BY <1>1 DEF IInv, RefExact
<1>5. EofPCs \subseteq DownPCs
  BY DEF EofPCs, DownPCs, EndPCs
<1>6. /\ pc[t] \in HandlePCs => handle[t]
      /\ pc[t] \in RefPCs <=> ref[t] # None
      /\ pc[t] \in {"close", "free"} => victim[t] # None
      /\ pc[t] \in SlotPCs \cup {"attach", "cleanup"} => monitor[t] # None
      /\ pc[t] \in DownPCs => down[t] # None /\ (handle[t] \/ victim[t] # None)
      /\ pc[t] \in {"direct", "eof_take"} => saw[t] # 0
      /\ pc[t] \in EofPCs => \A k \in todo[t] : connected_modules[down[t]][k] # None
  BY DEF IInv, ControlInv, ControlOf, LockInv, LockOf
<1> QED
  BY <1>1, <1>2, <1>3, <1>4, <1>5, <1>6

(* A parked read and a slot keep the count of their descriptor above zero. *)
LEMMA SharedFacts ==
  ASSUME IInv
  PROVE  /\ \A d \in Desc : irp[d] # 0 => ref_count[d] >= 1
         /\ \A m \in Mon, k \in Module :
              connected_modules[m][k] \in Desc => ref_count[connected_modules[m][k]] >= 1
BY Counted DEF IInv

(* Counting up, counting down a reference that exists, and storing in a slot. *)
LEMMA CountTypes ==
  ASSUME TypeOK, NEW d \in Desc
  PROVE  /\ Ref(d) \in [Desc -> Nat]
         /\ ref_count[d] >= 1 => Unref(d) \in [Desc -> Nat]
BY DEF TypeOK, Ref, Unref

LEMMA SetSlotTypes ==
  ASSUME TypeOK, NEW m \in Mon, NEW k \in Module, NEW x \in Desc \cup {None}, SetSlot(m, k, x)
  PROVE  connected_modules' \in [Mon -> [Module -> Desc \cup {None}]]
BY DEF TypeOK, SetSlot

LEMMA CloseTypes ==
  ASSUME TypeOK, NEW t \in Desc, NEW d \in Desc, ref_count[d] >= 1,
         NEW next \in PCs, Close(t, d, next)
  PROVE  /\ ref_count' \in [Desc -> Nat]
         /\ victim' \in [Desc -> Desc \cup {None}]
         /\ pc' \in [Desc -> PCs]
<1>1. ref_count' \in [Desc -> Nat]
  BY CountTypes DEF Close
<1>2. victim' \in [Desc -> Desc \cup {None}] /\ pc' \in [Desc -> PCs]
  <2>1. "close" \in PCs /\ pc \in [Desc -> PCs] /\ victim \in [Desc -> Desc \cup {None}]
    BY DEF TypeOK, PCs
  <2> QED
    BY <2>1 DEF Close, IsLastRef, Goto
<1> QED
  BY <1>1, <1>2

LEMMA CloseSlotTypes ==
  ASSUME TypeOK, NEW t \in Desc, NEW d \in Desc, ref_count[d] >= 1, CloseSlotRef(t, d)
  PROVE  /\ ref_count' \in [Desc -> Nat]
         /\ alloc' \in [Desc -> {"none", "open", "freed"}]
<1>1. ref_count' \in [Desc -> Nat]
  BY CountTypes DEF CloseSlotRef
<1>2. alloc' \in [Desc -> {"none", "open", "freed"}]
  BY DEF TypeOK, CloseSlotRef
<1> QED
  BY <1>1, <1>2

LEMMA TypeStep == ASSUME IInv, NEW t \in Desc, Step(t) PROVE TypeOK'
<1> USE DEF At, Outside, Goto, descVars, monVars, threadVars, histVars, PCs
<1>1. TypeOK /\ ConstantsAssumption
  BY ConstantsAssumption DEF IInv
<1>2. /\ pc[t] \in RefPCs => ref[t] \in Desc /\ ref_count[ref[t]] >= 1
      /\ pc[t] \in DownPCs => down[t] \in Mon
      /\ pc[t] \in {"close", "free"} => victim[t] \in Desc
      /\ pc[t] \in SlotPCs \cup {"attach", "cleanup"} => monitor[t] \in Mon
      /\ pc[t] \in HandlePCs => ref_count[t] >= 1
      /\ pc[t] \in EofPCs => \A k \in todo[t] : connected_modules[down[t]][k] \in Desc
      /\ \A m \in Mon, k \in Module :
           connected_modules[m][k] \in Desc => ref_count[connected_modules[m][k]] >= 1
  BY ThreadFacts, SharedFacts
<1>3. CASE Open(t)
  BY <1>1, <1>3 DEF TypeOK, Open
<1>4. ASSUME NEW m \in Mon, Create(t, m) PROVE TypeOK'
  BY <1>1, <1>4, SMTT(90) DEF TypeOK, Create
<1>5. ASSUME NEW m \in Mon, NEW ks \in SUBSET Module, AttachFind(t, m, ks) PROVE TypeOK'
  BY <1>1, <1>5, SMTT(30) DEF TypeOK, AttachFind, Attached
<1>6. CASE AttachLock(t)
  BY <1>1, <1>2, <1>6
     DEF TypeOK, AttachLock, HandlePCs, RefPCs, DownPCs, EndPCs, EofPCs, SlotPCs
<1>7. ASSUME NEW k \in Module, AttachEvict(t, k) PROVE TypeOK'
  <2>1. /\ monitor[t] \in Mon /\ connected_modules[monitor[t]][k] \in Desc
        /\ ref_count[connected_modules[monitor[t]][k]] >= 1
    BY <1>1, <1>2, <1>7 DEF TypeOK, AttachEvict, SlotPCs
  <2>2. ref_count' \in [Desc -> Nat] /\ alloc' \in [Desc -> {"none", "open", "freed"}]
    BY <1>1, <1>7, <2>1, CloseSlotTypes DEF AttachEvict
  <2>3. connected_modules' \in [Mon -> [Module -> Desc \cup {None}]]
    BY <1>1, <1>7, <2>1, SetSlotTypes DEF AttachEvict
  <2> QED
    BY <1>1, <1>7, <2>2, <2>3 DEF TypeOK, AttachEvict
<1>8. ASSUME NEW k \in Module, AttachSlot(t, k) PROVE TypeOK'
  <2>1. connected_modules' \in [Mon -> [Module -> Desc \cup {None}]]
    BY <1>1, <1>2, <1>8, SetSlotTypes DEF AttachSlot, SlotPCs
  <2>2. ref_count' \in [Desc -> Nat]
    BY <1>1, <1>8, CountTypes DEF AttachSlot
  <2> QED
    BY <1>1, <1>8, <2>1, <2>2 DEF TypeOK, AttachSlot
<1>9. CASE AttachUnlock(t)
  BY <1>1, <1>2, <1>9
     DEF TypeOK, AttachUnlock, HandlePCs, RefPCs, DownPCs, EndPCs, EofPCs, SlotPCs
<1>10. CASE ReadCheck(t)
  BY <1>1, <1>10 DEF TypeOK, ReadCheck
<1>11. CASE ReadBusy(t)
  BY <1>1, <1>11 DEF TypeOK, ReadBusy
<1>12. CASE ReadPark(t)
  <2>1. ref_count' \in [Desc -> Nat]
    BY <1>1, <1>12, CountTypes DEF ReadPark
  <2>2. stale' \in [Desc -> BOOLEAN] /\ irp' \in [Desc -> Nat] /\ reads' \in [Desc -> Nat]
    BY <1>1, <1>12 DEF TypeOK, ReadPark
  <2> QED
    BY <1>1, <1>12, <2>1, <2>2 DEF TypeOK, ReadPark
<1>13. ASSUME NEW n \in 0..MaxSend, ReadDrain(t, n) PROVE TypeOK'
  <2>1. n \in Nat /\ out_queue[t] \in Seq(Nat) /\ n <= Len(out_queue[t])
    BY <1>1, <1>13 DEF TypeOK, ConstantsAssumption, ReadDrain
  <2>2. Popped(t, n) \in Seq(Nat) /\ (n # 0 => out_queue[t][n] \in Nat)
    BY <2>1 DEF Popped
  <2> QED
    BY <1>1, <1>13, <2>2 DEF TypeOK, ReadDrain
<1>14. CASE Cancel(t)
  BY <1>1, <1>14 DEF TypeOK, Cancel
<1>15. ASSUME NEW k \in Module, NEW filtered \in BOOLEAN, Message(t, k, filtered) PROVE TypeOK'
  <2>1. connected_modules[monitor[t]][k] \in Desc
    BY <1>1, <1>15 DEF TypeOK, Message
  <2>2. ref_count' \in [Desc -> Nat]
    BY <1>1, <1>15, <2>1, CountTypes DEF Message
  <2> QED
    BY <1>1, <1>15, <2>1, <2>2 DEF TypeOK, Message
<1>16. CASE SendQueue(t)
  <2>1. ref[t] \in Desc
    BY <1>2, <1>16 DEF SendQueue, RefPCs
  <2>2. out_queue' \in [Desc -> Seq(Nat)] /\ sent' \in [Desc -> Nat] /\ pc' \in [Desc -> PCs]
    <3>1. CASE active[ref[t]]
      <4>1. sent[ref[t]] + 1 \in Nat /\ out_queue[ref[t]] \in Seq(Nat)
        BY <1>1, <2>1, SMTT(30) DEF TypeOK
      <4>2. Append(out_queue[ref[t]], sent[ref[t]] + 1) \in Seq(Nat)
        BY <4>1
      <4>3. AfterQueueing(ref[t]) \in PCs
        BY DEF AfterQueueing
      <4>4. /\ out_queue' = [out_queue EXCEPT ![ref[t]] = Append(@, sent[ref[t]] + 1)]
            /\ sent' = [sent EXCEPT ![ref[t]] = @ + 1]
            /\ pc' = [pc EXCEPT ![t] = AfterQueueing(ref[t])]
        BY <1>16, <3>1 DEF SendQueue
      <4> QED
        BY <1>1, <2>1, <4>1, <4>2, <4>3, <4>4 DEF TypeOK
    <3>2. CASE ~active[ref[t]]
      BY <1>1, <1>16, <3>2, ZenonT(60) DEF TypeOK, SendQueue
    <3> QED
      BY <3>1, <3>2
  <2> QED
    BY <1>1, <1>16, <2>2 DEF TypeOK, SendQueue
<1>17. CASE SendSeeIrp(t)
  BY <1>1, <1>2, <1>17
     DEF TypeOK, SendSeeIrp, HandlePCs, RefPCs, DownPCs, EndPCs, EofPCs, SlotPCs
<1>18. ASSUME NEW fits \in BOOLEAN, SendTake(t, fits) PROVE TypeOK'
  <2>1. ref[t] \in Desc /\ ref_count[ref[t]] >= 1
    BY <1>2, <1>18 DEF SendTake, RefPCs
  <2>2. ref_count' \in [Desc -> Nat]
    BY <1>1, <1>18, <2>1, CountTypes DEF SendTake
  <2>3. /\ sent' \in [Desc -> Nat] /\ got' \in [Desc -> Nat]
        /\ lock' \in [Desc -> Desc \cup {None}] /\ pc' \in [Desc -> PCs]
    <3>1. CASE fits
      <4>1. pc' = [pc EXCEPT ![t] = "drop"]
        BY <1>18, <3>1 DEF SendTake
      <4>2. /\ sent' = [sent EXCEPT ![ref[t]] = @ + 1]
            /\ got' = [got EXCEPT ![ref[t]] = sent[ref[t]] + 1]
            /\ lock' = [lock EXCEPT ![ref[t]] = None]
        BY <1>18, <3>1 DEF SendTake
      <4>3. sent[ref[t]] + 1 \in Nat
        BY <1>1, <2>1, SMTT(30) DEF TypeOK
      <4>4. pc' \in [Desc -> PCs]
        BY <1>1, <4>1 DEF TypeOK
      <4> QED
        BY <1>1, <2>1, <4>2, <4>3, <4>4 DEF TypeOK
    <3>2. CASE ~fits
      BY <1>1, <1>18, <2>1, <3>2, ZenonT(60) DEF TypeOK, SendTake
    <3> QED
      BY <3>1, <3>2
  <2> QED
    BY <1>1, <1>18, <2>2, <2>3 DEF TypeOK, SendTake
<1>19. CASE SendStale(t)
  BY <1>1, <1>19 DEF TypeOK, SendStale
<1>20. CASE SendResume(t)
  BY <1>1, <1>20 DEF TypeOK, SendResume
<1>21. CASE DropRef(t)
  <2>1. ref[t] \in Desc /\ ref_count[ref[t]] >= 1 /\ Rest(t) \in PCs
    BY <1>2, <1>21 DEF DropRef, RefPCs, Rest
  <2>2. /\ ref_count' \in [Desc -> Nat] /\ victim' \in [Desc -> Desc \cup {None}]
        /\ pc' \in [Desc -> PCs]
    BY <1>1, <1>21, <2>1, CloseTypes DEF DropRef
  <2> QED
    BY <1>1, <1>21, <2>2 DEF TypeOK, DropRef
<1>22. CASE Cleanup(t)
  BY <1>1, <1>22 DEF TypeOK, Cleanup, CleanupStart
<1>23. CASE CleanupLock(t)
  BY <1>1, <1>2, <1>23
     DEF TypeOK, CleanupLock, HandlePCs, RefPCs, DownPCs, EndPCs, EofPCs, SlotPCs
<1>24. CASE CleanupUnlock(t)
  BY <1>1, <1>2, <1>24
     DEF TypeOK, CleanupUnlock, HandlePCs, RefPCs, DownPCs, EndPCs, EofPCs, SlotPCs
<1>25. CASE CleanupClose(t)
  <2>1. ref_count[t] >= 1
    BY <1>2, <1>25 DEF CleanupClose, HandlePCs
  <2>2. /\ ref_count' \in [Desc -> Nat] /\ victim' \in [Desc -> Desc \cup {None}]
        /\ pc' \in [Desc -> PCs]
    BY <1>1, <1>25, <2>1, CloseTypes DEF CleanupClose
  <2> QED
    BY <1>1, <1>25, <2>2 DEF TypeOK, CleanupClose
<1>26. ASSUME NEW k \in Module, CleanupSlot(t, k) PROVE TypeOK'
  <2>1. monitor[t] \in Mon /\ ref_count[t] >= 1
    BY <1>2, <1>26 DEF CleanupSlot, SlotPCs, HandlePCs
  <2>2. ref_count' \in [Desc -> Nat] /\ alloc' \in [Desc -> {"none", "open", "freed"}]
    BY <1>1, <1>26, <2>1, CloseSlotTypes DEF CleanupSlot
  <2>3. connected_modules' \in [Mon -> [Module -> Desc \cup {None}]]
    BY <1>1, <1>26, <2>1, SetSlotTypes DEF CleanupSlot
  <2> QED
    BY <1>1, <1>26, <2>2, <2>3 DEF TypeOK, CleanupSlot
<1>27. CASE CloseDesc(t)
  <2>1. victim[t] \in Desc
    BY <1>2, <1>27 DEF CloseDesc
  <2>2. /\ down' \in [Desc -> Mon \cup {None}] /\ monitor' \in [Desc -> Mon \cup {None}]
        /\ pc' \in [Desc -> PCs]
    <3>1. CASE monitor[victim[t]] # None
      <4>1. pc' = [pc EXCEPT ![t] = "unlist"]
        BY <1>27, <3>1 DEF CloseDesc
      <4>2. /\ down' = [down EXCEPT ![t] = monitor[victim[t]]]
            /\ monitor' = [monitor EXCEPT ![victim[t]] = None]
        BY <1>27, <3>1 DEF CloseDesc
      <4> QED
        BY <1>1, <2>1, <4>1, <4>2 DEF TypeOK
    <3>2. CASE monitor[victim[t]] = None
      BY <1>1, <1>27, <2>1, <3>2, ZenonT(60) DEF TypeOK, CloseDesc
    <3> QED
      BY <3>1, <3>2
  <2> QED
    BY <1>1, <1>27, <2>2 DEF TypeOK, CloseDesc
<1>28. CASE FreeDesc(t)
  BY <1>1, <1>2, <1>28
     DEF TypeOK, FreeDesc, Rest, HandlePCs, RefPCs, DownPCs, EndPCs, EofPCs, SlotPCs
<1>29. CASE IoctlClose(t)
  BY <1>1, <1>29 DEF TypeOK, IoctlClose
<1>30. CASE Unlist(t)
  BY <1>1, <1>2, <1>30
     DEF TypeOK, Unlist, IsOwner, HandlePCs, RefPCs, DownPCs, EndPCs, EofPCs, SlotPCs
<1>31. CASE EndLock(t)
  BY <1>1, <1>2, <1>31
     DEF TypeOK, EndLock, HandlePCs, RefPCs, DownPCs, EndPCs, EofPCs, SlotPCs
<1>32. CASE EofDrop(t)
  <2>1. ref[t] \in Desc /\ ref_count[ref[t]] >= 1
    BY <1>2, <1>32 DEF EofDrop, RefPCs
  <2>2. ref_count' \in [Desc -> Nat]
    BY <1>1, <1>32, <2>1, CountTypes DEF EofDrop
  <2> QED
    BY <1>1, <1>32, <2>2 DEF TypeOK, EofDrop
<1>33. CASE EndUnlock(t)
  BY <1>1, <1>2, <1>33
     DEF TypeOK, EndUnlock, HandlePCs, RefPCs, DownPCs, EndPCs, EofPCs, SlotPCs
<1>34. ASSUME NEW k \in Module, EofMark(t, k) PROVE TypeOK'
  <2>1. connected_modules[down[t]][k] \in Desc
    BY <1>1, <1>2, <1>34 DEF TypeOK, EofMark, DownPCs, EndPCs
  <2>2. AfterEofMark(connected_modules[down[t]][k]) \in PCs
    BY DEF AfterEofMark
  <2> QED
    BY <1>1, <1>34, <2>1, <2>2 DEF TypeOK, EofMark
<1>35. ASSUME NEW k \in Module, EofTake(t, k) PROVE TypeOK'
  BY <1>1, <1>2, <1>35
     DEF TypeOK, EofTake, HandlePCs, RefPCs, DownPCs, EndPCs, EofPCs, SlotPCs
<1>36. ASSUME NEW k \in Module, EofStale(t, k) PROVE TypeOK'
  BY <1>1, <1>36 DEF TypeOK, EofStale
<1>37. ASSUME NEW k \in Module, EndSlot(t, k) PROVE TypeOK'
  <2>1. /\ down[t] \in Mon /\ connected_modules[down[t]][k] \in Desc
        /\ ref_count[connected_modules[down[t]][k]] >= 1
    BY <1>2, <1>37 DEF EndSlot, DownPCs, EndPCs, EofPCs
  <2>2. ref_count' \in [Desc -> Nat] /\ alloc' \in [Desc -> {"none", "open", "freed"}]
    BY <1>1, <1>37, <2>1, CloseSlotTypes DEF EndSlot
  <2>3. connected_modules' \in [Mon -> [Module -> Desc \cup {None}]]
    BY <1>1, <1>37, <2>1, SetSlotTypes DEF EndSlot
  <2> QED
    BY <1>1, <1>37, <2>2, <2>3 DEF TypeOK, EndSlot
<1>38. CASE RefdownLoad(t)
  BY <1>1, <1>2, <1>38
     DEF TypeOK, RefdownLoad, HandlePCs, RefPCs, DownPCs, EndPCs, EofPCs, SlotPCs
<1>39. CASE RefdownStore(t)
  <2>1. down[t] \in Mon
    BY <1>2, <1>39 DEF RefdownStore, DownPCs
  <2>2. /\ refcount' \in [Mon -> Int] /\ mstate' \in [Mon -> {"none", "live", "destroyed"}]
        /\ down' \in [Desc -> Mon \cup {None}] /\ loaded' \in [Desc -> Int]
        /\ halted' \in {"no", "sender", "eof", "refcount"}
    BY <1>1, <1>39, <2>1 DEF TypeOK, RefdownStore, SetRefcount
  <2>3. /\ monitor' \in [Desc -> Mon \cup {None}] /\ monitor_owner' \in [Desc -> BOOLEAN]
        /\ pc' \in [Desc -> PCs]
    BY <1>1, <1>39, ZenonT(60) DEF TypeOK, RefdownStore, SetRefcount
  <2> QED
    BY <1>1, <1>39, <2>2, <2>3 DEF TypeOK, RefdownStore, SetRefcount
<1> QED
  BY <1>3, <1>4, <1>5, <1>6, <1>7, <1>8, <1>9, <1>10, <1>11, <1>12, <1>13, <1>14, <1>15,
     <1>16, <1>17, <1>18, <1>19, <1>20, <1>21, <1>22, <1>23, <1>24, <1>25, <1>26, <1>27,
     <1>28, <1>29, <1>30, <1>31, <1>32, <1>33, <1>34, <1>35, <1>36, <1>37, <1>38, <1>39
     DEF Step

-----------------------------------------------------------------------------
(* Control and locking.                                                    *)

(* What a step of t leaves alone of another thread u, and of a monitor u has locked. *)
Kept(u) ==
  /\ pc'[u] = pc[u] /\ ref'[u] = ref[u] /\ victim'[u] = victim[u]
  /\ down'[u] = down[u] /\ saw'[u] = saw[u] /\ todo'[u] = todo[u]
  /\ handle'[u] = handle[u]
  /\ alloc[u] = "none" => alloc'[u] = "none"
  /\ handle[u] => monitor'[u] = monitor[u]
  /\ \A m \in Mon : write_lock[m] = u =>
       write_lock'[m] = u /\ connected_modules'[m] = connected_modules[m]

LEMMA OthersKept ==
  ASSUME IInv, NEW t \in Desc, Step(t), NEW u \in Desc \ {t}
  PROVE  Kept(u)
<1> USE DEF Kept, At, Outside, Goto, descVars, monVars, threadVars, histVars
<1>1. /\ pc \in [Desc -> PCs] /\ alloc \in [Desc -> {"none", "open", "freed"}]
      /\ ref \in [Desc -> Desc \cup {None}] /\ victim \in [Desc -> Desc \cup {None}]
      /\ down \in [Desc -> Mon \cup {None}] /\ saw \in [Desc -> Nat]
      /\ todo \in [Desc -> SUBSET Module] /\ handle \in [Desc -> BOOLEAN]
      /\ monitor \in [Desc -> Mon \cup {None}]
      /\ write_lock \in [Mon -> Desc \cup {None}]
      /\ connected_modules \in [Mon -> [Module -> Desc \cup {None}]]
      /\ None \notin Desc
  BY ConstantsAssumption DEF IInv, TypeOK
<1>2. /\ pc[t] \in SlotPCs => monitor[t] \in Mon /\ write_lock[monitor[t]] = t
      /\ pc[t] \in EndPCs => down[t] \in Mon /\ write_lock[down[t]] = t
      /\ pc[t] \in {"close", "free"} => /\ victim[t] \in Desc
                                        /\ alloc[victim[t]] = "open"
                                        /\ ~handle[victim[t]]
  <2>1. LockOf(t)
    BY DEF IInv, LockInv
  <2>2. /\ pc[t] \in SlotPCs => monitor[t] \in Mon
        /\ pc[t] \in EndPCs => down[t] \in Mon
        /\ pc[t] \in {"close", "free"} => victim[t] \in Desc
    BY ThreadFacts DEF DownPCs
  <2>3. victim[t] \in Desc => ref_count[victim[t]] = 0 /\ alloc[victim[t]] = "open"
    BY DEF IInv, RefExact
  <2>4. \A d \in Desc : handle[d] => ref_count[d] >= 1
    BY Counted DEF IInv
  <2>5. victim[t] \in Desc => ~handle[victim[t]]
    BY <2>3, <2>4
  <2> QED
    BY <2>1, <2>2, <2>3, <2>5 DEF LockOf
<1>3. \A d \in Desc : ref_count[d] # 0 => alloc[d] = "open"
  BY DEF IInv, RefExact
<1>4. \A m \in Mon, k \in Module :
         connected_modules[m][k] \in Desc => ref_count[connected_modules[m][k]] >= 1
  BY SharedFacts
<1>5. CASE Open(t)
  BY <1>1, <1>5 DEF Open
<1>6. ASSUME NEW m \in Mon, Create(t, m) PROVE Kept(u)
  BY <1>1, <1>6 DEF Create
<1>7. ASSUME NEW m \in Mon, NEW ks \in SUBSET Module, AttachFind(t, m, ks) PROVE Kept(u)
  BY <1>1, <1>7 DEF AttachFind
<1>8. CASE AttachLock(t)
  BY <1>1, <1>8 DEF AttachLock
<1>9. ASSUME NEW k \in Module, AttachEvict(t, k) PROVE Kept(u)
  <2>1. monitor[t] \in Mon /\ write_lock[monitor[t]] = t
    BY <1>2, <1>9 DEF AttachEvict, SlotPCs
  <2>2. connected_modules[monitor[t]][k] = u => alloc[u] = "open"
    BY <1>1, <1>3, <1>4, <2>1
  <2> QED
    BY <1>1, <1>9, <2>1, <2>2 DEF AttachEvict, CloseSlotRef, SetSlot
<1>10. ASSUME NEW k \in Module, AttachSlot(t, k) PROVE Kept(u)
  BY <1>1, <1>2, <1>10 DEF AttachSlot, SetSlot, SlotPCs, EndPCs, EofPCs
<1>11. CASE AttachUnlock(t)
  BY <1>1, <1>2, <1>11 DEF AttachUnlock, SlotPCs, EndPCs, EofPCs
<1>12. CASE ReadCheck(t)
  BY <1>1, <1>12 DEF ReadCheck
<1>13. CASE ReadBusy(t)
  BY <1>1, <1>13 DEF ReadBusy
<1>14. CASE ReadPark(t)
  BY <1>1, <1>14 DEF ReadPark
<1>15. ASSUME NEW n \in 0..MaxSend, ReadDrain(t, n) PROVE Kept(u)
  BY <1>1, <1>15 DEF ReadDrain
<1>16. CASE Cancel(t)
  BY <1>1, <1>16 DEF Cancel
<1>17. ASSUME NEW k \in Module, NEW filtered \in BOOLEAN, Message(t, k, filtered) PROVE Kept(u)
  BY <1>1, <1>17 DEF Message
<1>18. CASE SendQueue(t)
  BY <1>1, <1>18 DEF SendQueue
<1>19. CASE SendSeeIrp(t)
  BY <1>1, <1>19 DEF SendSeeIrp
<1>20. ASSUME NEW fits \in BOOLEAN, SendTake(t, fits) PROVE Kept(u)
  BY <1>1, <1>20 DEF SendTake
<1>21. CASE SendStale(t)
  BY <1>1, <1>21 DEF SendStale
<1>22. CASE SendResume(t)
  BY <1>1, <1>22 DEF SendResume
<1>23. CASE DropRef(t)
  BY <1>1, <1>23 DEF DropRef, Close
<1>24. CASE Cleanup(t)
  BY <1>1, <1>24 DEF Cleanup
<1>25. CASE CleanupLock(t)
  BY <1>1, <1>25 DEF CleanupLock
<1>26. CASE CleanupUnlock(t)
  BY <1>1, <1>2, <1>26 DEF CleanupUnlock, SlotPCs, EndPCs, EofPCs
<1>27. CASE CleanupClose(t)
  BY <1>1, <1>27 DEF CleanupClose, Close
<1>28. ASSUME NEW k \in Module, CleanupSlot(t, k) PROVE Kept(u)
  BY <1>1, <1>2, <1>3, <1>4, <1>28
     DEF CleanupSlot, CloseSlotRef, Unref, IsLastRef, SetSlot, SlotPCs, EndPCs, EofPCs
<1>29. CASE CloseDesc(t)
  BY <1>1, <1>2, <1>29 DEF CloseDesc, SlotPCs, EndPCs, EofPCs
<1>30. CASE FreeDesc(t)
  BY <1>1, <1>2, <1>30 DEF FreeDesc, SlotPCs, EndPCs, EofPCs
<1>31. CASE IoctlClose(t)
  BY <1>1, <1>31 DEF IoctlClose
<1>32. CASE Unlist(t)
  BY <1>1, <1>32 DEF Unlist
<1>33. CASE EndLock(t)
  BY <1>1, <1>33 DEF EndLock
<1>34. CASE EofDrop(t)
  BY <1>1, <1>34 DEF EofDrop
<1>35. CASE EndUnlock(t)
  BY <1>1, <1>2, <1>35 DEF EndUnlock, SlotPCs, EndPCs, EofPCs
<1>36. ASSUME NEW k \in Module, EofMark(t, k) PROVE Kept(u)
  BY <1>1, <1>36 DEF EofMark
<1>37. ASSUME NEW k \in Module, EofTake(t, k) PROVE Kept(u)
  BY <1>1, <1>37 DEF EofTake
<1>38. ASSUME NEW k \in Module, EofStale(t, k) PROVE Kept(u)
  BY <1>1, <1>38 DEF EofStale
<1>39. ASSUME NEW k \in Module, EndSlot(t, k) PROVE Kept(u)
  <2>1. down[t] \in Mon /\ write_lock[down[t]] = t
    BY <1>2, <1>39 DEF EndSlot, EndPCs, EofPCs
  <2>2. connected_modules[down[t]][k] = u => alloc[u] = "open"
    BY <1>1, <1>3, <1>4, <2>1
  <2> QED
    BY <1>1, <1>39, <2>1, <2>2 DEF EndSlot, CloseSlotRef, SetSlot
<1>40. CASE RefdownLoad(t)
  BY <1>1, <1>40 DEF RefdownLoad
<1>41. CASE RefdownStore(t)
  BY <1>1, <1>41 DEF RefdownStore, SetRefcount
<1> QED
  BY <1>5, <1>6, <1>7, <1>8, <1>9, <1>10, <1>11, <1>12, <1>13, <1>14, <1>15, <1>16, <1>17,
     <1>18, <1>19, <1>20, <1>21, <1>22, <1>23, <1>24, <1>25, <1>26, <1>27, <1>28, <1>29,
     <1>30, <1>31, <1>32, <1>33, <1>34, <1>35, <1>36, <1>37, <1>38, <1>39, <1>40, <1>41
     DEF Step

LEMMA OthersControl ==
  ASSUME IInv, NEW t \in Desc, Step(t), NEW u \in Desc \ {t}
  PROVE  ControlOf(u)' /\ LockOf(u)'
<1>1. Kept(u)
  BY OthersKept
<1>2. ControlOf(u) /\ LockOf(u)
  BY DEF IInv, ControlInv, LockInv
<1>3. /\ pc[u] \in SlotPCs \cup {"attach", "cleanup"} => monitor[u] \in Mon /\ handle[u]
      /\ pc[u] \in EndPCs => down[u] \in Mon
  BY ThreadFacts DEF HandlePCs, SlotPCs, DownPCs
<1>4. ControlOf(u)'
  BY <1>1, <1>2, <1>3 DEF Kept, ControlOf
<1>5. LockOf(u)'
  BY <1>1, <1>2, <1>3 DEF Kept, LockOf, EndPCs
<1> QED
  BY <1>4, <1>5

LEMMA ControlStep == ASSUME IInv, NEW t \in Desc, Step(t) PROVE ControlOf(t)'
<1> USE DEF ControlOf, At, Outside, Goto, descVars, monVars, threadVars, histVars,
            HandlePCs, RefPCs, EofPCs, EndPCs, DownPCs, SlotPCs
<1>1. /\ pc \in [Desc -> PCs] /\ alloc \in [Desc -> {"none", "open", "freed"}]
      /\ ref \in [Desc -> Desc \cup {None}] /\ victim \in [Desc -> Desc \cup {None}]
      /\ down \in [Desc -> Mon \cup {None}] /\ saw \in [Desc -> Nat]
      /\ handle \in [Desc -> BOOLEAN] /\ monitor \in [Desc -> Mon \cup {None}]
      /\ connected_modules \in [Mon -> [Module -> Desc \cup {None}]]
      /\ None \notin Desc /\ None \notin Mon
  BY ConstantsAssumption DEF IInv, TypeOK
<1>2. ControlOf(t)
  BY DEF IInv, ControlInv
<1>3. /\ pc[t] \in RefPCs => ref[t] \in Desc
      /\ pc[t] \in DownPCs => down[t] \in Mon
      /\ pc[t] \in {"close", "free"} => victim[t] \in Desc
      /\ pc[t] \in EofPCs => \A k \in todo[t] : connected_modules[down[t]][k] \in Desc
  BY ThreadFacts
<1>4. CASE Open(t)
  BY <1>1, <1>2, <1>3, <1>4 DEF Open
<1>5. ASSUME NEW m \in Mon, Create(t, m) PROVE ControlOf(t)'
  BY <1>1, <1>2, <1>3, <1>5 DEF Create
<1>6. ASSUME NEW m \in Mon, NEW ks \in SUBSET Module, AttachFind(t, m, ks) PROVE ControlOf(t)'
  BY <1>1, <1>2, <1>3, <1>6 DEF AttachFind
<1>7. CASE AttachLock(t)
  BY <1>1, <1>2, <1>3, <1>7 DEF AttachLock
<1>8. ASSUME NEW k \in Module, AttachEvict(t, k) PROVE ControlOf(t)'
  BY <1>1, <1>2, <1>3, <1>8 DEF AttachEvict, CloseSlotRef
<1>9. ASSUME NEW k \in Module, AttachSlot(t, k) PROVE ControlOf(t)'
  BY <1>1, <1>2, <1>3, <1>9 DEF AttachSlot
<1>10. CASE AttachUnlock(t)
  BY <1>1, <1>2, <1>3, <1>10 DEF AttachUnlock
<1>11. CASE ReadCheck(t)
  BY <1>1, <1>2, <1>3, <1>11 DEF ReadCheck
<1>12. CASE ReadBusy(t)
  BY <1>1, <1>2, <1>3, <1>12 DEF ReadBusy
<1>13. CASE ReadPark(t)
  BY <1>1, <1>2, <1>3, <1>13 DEF ReadPark
<1>14. ASSUME NEW n \in 0..MaxSend, ReadDrain(t, n) PROVE ControlOf(t)'
  BY <1>1, <1>2, <1>3, <1>14 DEF ReadDrain
<1>15. CASE Cancel(t)
  BY <1>1, <1>2, <1>3, <1>15 DEF Cancel
<1>16. ASSUME NEW k \in Module, NEW filtered \in BOOLEAN, Message(t, k, filtered)
       PROVE  ControlOf(t)'
  BY <1>1, <1>2, <1>3, <1>16 DEF Message
<1>17. CASE SendQueue(t)
  BY <1>1, <1>2, <1>3, <1>17 DEF SendQueue, AfterQueueing
<1>18. CASE SendSeeIrp(t)
  BY <1>1, <1>2, <1>3, <1>18 DEF SendSeeIrp
<1>19. ASSUME NEW fits \in BOOLEAN, SendTake(t, fits) PROVE ControlOf(t)'
  BY <1>1, <1>2, <1>3, <1>19 DEF SendTake
<1>20. CASE SendStale(t)
  BY <1>1, <1>2, <1>3, <1>20 DEF SendStale
<1>21. CASE SendResume(t)
  BY <1>1, <1>2, <1>3, <1>21 DEF SendResume
<1>22. CASE DropRef(t)
  BY <1>1, <1>2, <1>3, <1>22 DEF DropRef, Close, Rest
<1>23. CASE Cleanup(t)
  BY <1>1, <1>2, <1>3, <1>23 DEF Cleanup, CleanupStart
<1>24. CASE CleanupLock(t)
  BY <1>1, <1>2, <1>3, <1>24 DEF CleanupLock
<1>25. CASE CleanupUnlock(t)
  BY <1>1, <1>2, <1>3, <1>25 DEF CleanupUnlock
<1>26. CASE CleanupClose(t)
  BY <1>1, <1>2, <1>3, <1>26 DEF CleanupClose, Close
<1>27. ASSUME NEW k \in Module, CleanupSlot(t, k) PROVE ControlOf(t)'
  BY <1>1, <1>2, <1>3, <1>27 DEF CleanupSlot, CloseSlotRef
<1>28. CASE CloseDesc(t)
  BY <1>1, <1>2, <1>3, <1>28 DEF CloseDesc
<1>29. CASE FreeDesc(t)
  BY <1>1, <1>2, <1>3, <1>29 DEF FreeDesc, Rest
<1>30. CASE IoctlClose(t)
  BY <1>1, <1>2, <1>3, <1>30 DEF IoctlClose
<1>31. CASE Unlist(t)
  BY <1>1, <1>2, <1>3, <1>31 DEF Unlist, IsOwner
<1>32. CASE EndLock(t)
  BY <1>1, <1>2, <1>3, <1>32 DEF EndLock
<1>33. CASE EofDrop(t)
  BY <1>1, <1>2, <1>3, <1>33 DEF EofDrop
<1>34. CASE EndUnlock(t)
  BY <1>1, <1>2, <1>3, <1>34 DEF EndUnlock
<1>35. ASSUME NEW k \in Module, EofMark(t, k) PROVE ControlOf(t)'
  BY <1>1, <1>2, <1>3, <1>35 DEF EofMark, AfterEofMark
<1>36. ASSUME NEW k \in Module, EofTake(t, k) PROVE ControlOf(t)'
  BY <1>1, <1>2, <1>3, <1>36 DEF EofTake
<1>37. ASSUME NEW k \in Module, EofStale(t, k) PROVE ControlOf(t)'
  BY <1>1, <1>2, <1>3, <1>37 DEF EofStale
<1>38. ASSUME NEW k \in Module, EndSlot(t, k) PROVE ControlOf(t)'
  BY <1>1, <1>2, <1>3, <1>38 DEF EndSlot, CloseSlotRef
<1>39. CASE RefdownLoad(t)
  BY <1>1, <1>2, <1>3, <1>39 DEF RefdownLoad
<1>40. CASE RefdownStore(t)
  BY <1>1, <1>2, <1>3, <1>40 DEF RefdownStore, SetRefcount
<1> QED
  BY <1>4, <1>5, <1>6, <1>7, <1>8, <1>9, <1>10, <1>11, <1>12, <1>13, <1>14, <1>15, <1>16,
     <1>17, <1>18, <1>19, <1>20, <1>21, <1>22, <1>23, <1>24, <1>25, <1>26, <1>27, <1>28,
     <1>29, <1>30, <1>31, <1>32, <1>33, <1>34, <1>35, <1>36, <1>37, <1>38, <1>39, <1>40
     DEF Step

LEMMA LockStep == ASSUME IInv, NEW t \in Desc, Step(t) PROVE LockOf(t)'
<1> USE DEF LockOf, At, Outside, Goto, descVars, monVars, threadVars, histVars,
            EofPCs, EndPCs, SlotPCs
<1>1. /\ pc \in [Desc -> PCs] /\ todo \in [Desc -> SUBSET Module]
      /\ down \in [Desc -> Mon \cup {None}] /\ monitor \in [Desc -> Mon \cup {None}]
      /\ write_lock \in [Mon -> Desc \cup {None}]
      /\ connected_modules \in [Mon -> [Module -> Desc \cup {None}]]
      /\ None \notin Desc /\ None \notin Mon
  BY ConstantsAssumption DEF IInv, TypeOK
<1>2. LockOf(t)
  BY DEF IInv, LockInv
<1>3. /\ pc[t] \in SlotPCs \cup {"attach", "cleanup"} => monitor[t] \in Mon
      /\ pc[t] \in EndPCs \cup {"end"} => down[t] \in Mon
  BY ThreadFacts DEF DownPCs
<1>4. CASE Open(t)
  BY <1>1, <1>2, <1>3, <1>4 DEF Open
<1>5. ASSUME NEW m \in Mon, Create(t, m) PROVE LockOf(t)'
  BY <1>1, <1>2, <1>3, <1>5 DEF Create
<1>6. ASSUME NEW m \in Mon, NEW ks \in SUBSET Module, AttachFind(t, m, ks) PROVE LockOf(t)'
  BY <1>1, <1>2, <1>3, <1>6 DEF AttachFind
<1>7. CASE AttachLock(t)
  BY <1>1, <1>2, <1>3, <1>7 DEF AttachLock
<1>8. ASSUME NEW k \in Module, AttachEvict(t, k) PROVE LockOf(t)'
  BY <1>1, <1>2, <1>3, <1>8 DEF AttachEvict, CloseSlotRef, SetSlot
<1>9. ASSUME NEW k \in Module, AttachSlot(t, k) PROVE LockOf(t)'
  BY <1>1, <1>2, <1>3, <1>9 DEF AttachSlot, SetSlot
<1>10. CASE AttachUnlock(t)
  BY <1>1, <1>2, <1>3, <1>10 DEF AttachUnlock
<1>11. CASE ReadCheck(t)
  BY <1>1, <1>2, <1>3, <1>11 DEF ReadCheck
<1>12. CASE ReadBusy(t)
  BY <1>1, <1>2, <1>3, <1>12 DEF ReadBusy
<1>13. CASE ReadPark(t)
  BY <1>1, <1>2, <1>3, <1>13 DEF ReadPark
<1>14. ASSUME NEW n \in 0..MaxSend, ReadDrain(t, n) PROVE LockOf(t)'
  BY <1>1, <1>2, <1>3, <1>14 DEF ReadDrain
<1>15. CASE Cancel(t)
  BY <1>1, <1>2, <1>3, <1>15 DEF Cancel
<1>16. ASSUME NEW k \in Module, NEW filtered \in BOOLEAN, Message(t, k, filtered) PROVE LockOf(t)'
  BY <1>1, <1>2, <1>3, <1>16 DEF Message
<1>17. CASE SendQueue(t)
  BY <1>1, <1>2, <1>3, <1>17 DEF SendQueue, AfterQueueing
<1>18. CASE SendSeeIrp(t)
  BY <1>1, <1>2, <1>3, <1>18 DEF SendSeeIrp
<1>19. ASSUME NEW fits \in BOOLEAN, SendTake(t, fits) PROVE LockOf(t)'
  BY <1>1, <1>2, <1>3, <1>19 DEF SendTake
<1>20. CASE SendStale(t)
  BY <1>1, <1>2, <1>3, <1>20 DEF SendStale
<1>21. CASE SendResume(t)
  BY <1>1, <1>2, <1>3, <1>21 DEF SendResume
<1>22. CASE DropRef(t)
  BY <1>1, <1>2, <1>3, <1>22 DEF DropRef, Close, Rest
<1>23. CASE Cleanup(t)
  BY <1>1, <1>2, <1>3, <1>23 DEF Cleanup, CleanupStart
<1>24. CASE CleanupLock(t)
  BY <1>1, <1>2, <1>3, <1>24 DEF CleanupLock
<1>25. CASE CleanupUnlock(t)
  BY <1>1, <1>2, <1>3, <1>25 DEF CleanupUnlock
<1>26. CASE CleanupClose(t)
  BY <1>1, <1>2, <1>3, <1>26 DEF CleanupClose, Close
<1>27. ASSUME NEW k \in Module, CleanupSlot(t, k) PROVE LockOf(t)'
  BY <1>1, <1>2, <1>3, <1>27 DEF CleanupSlot, CloseSlotRef, SetSlot
<1>28. CASE CloseDesc(t)
  BY <1>1, <1>2, <1>3, <1>28 DEF CloseDesc
<1>29. CASE FreeDesc(t)
  BY <1>1, <1>2, <1>3, <1>29 DEF FreeDesc, Rest
<1>30. CASE IoctlClose(t)
  BY <1>1, <1>2, <1>3, <1>30 DEF IoctlClose
<1>31. CASE Unlist(t)
  BY <1>1, <1>2, <1>3, <1>31 DEF Unlist, IsOwner
<1>32. CASE EndLock(t)
  BY <1>1, <1>2, <1>3, <1>32 DEF EndLock
<1>33. CASE EofDrop(t)
  BY <1>1, <1>2, <1>3, <1>33 DEF EofDrop
<1>34. CASE EndUnlock(t)
  BY <1>1, <1>2, <1>3, <1>34 DEF EndUnlock
<1>35. ASSUME NEW k \in Module, EofMark(t, k) PROVE LockOf(t)'
  BY <1>1, <1>2, <1>3, <1>35 DEF EofMark, AfterEofMark
<1>36. ASSUME NEW k \in Module, EofTake(t, k) PROVE LockOf(t)'
  BY <1>1, <1>2, <1>3, <1>36 DEF EofTake
<1>37. ASSUME NEW k \in Module, EofStale(t, k) PROVE LockOf(t)'
  BY <1>1, <1>2, <1>3, <1>37 DEF EofStale
<1>38. ASSUME NEW k \in Module, EndSlot(t, k) PROVE LockOf(t)'
  BY <1>1, <1>2, <1>3, <1>38 DEF EndSlot, CloseSlotRef, SetSlot
<1>39. CASE RefdownLoad(t)
  BY <1>1, <1>2, <1>3, <1>39 DEF RefdownLoad
<1>40. CASE RefdownStore(t)
  BY <1>1, <1>2, <1>3, <1>40 DEF RefdownStore, SetRefcount
<1> QED
  BY <1>4, <1>5, <1>6, <1>7, <1>8, <1>9, <1>10, <1>11, <1>12, <1>13, <1>14, <1>15, <1>16,
     <1>17, <1>18, <1>19, <1>20, <1>21, <1>22, <1>23, <1>24, <1>25, <1>26, <1>27, <1>28,
     <1>29, <1>30, <1>31, <1>32, <1>33, <1>34, <1>35, <1>36, <1>37, <1>38, <1>39, <1>40
     DEF Step

-----------------------------------------------------------------------------
(* Reference counts.                                                       *)

refVars == <<alloc, handle, ref_count, irp, connected_modules, ref, victim>>

(* The steps that neither take, move nor drop a reference. *)
NoRefStep(t) ==
  \/ \E m \in Mon : Create(t, m)
  \/ \E m \in Mon, ks \in SUBSET Module : AttachFind(t, m, ks)
  \/ AttachLock(t) \/ AttachUnlock(t) \/ ReadCheck(t) \/ ReadBusy(t)
  \/ \E n \in 0..MaxSend : ReadDrain(t, n)
  \/ SendQueue(t) \/ SendSeeIrp(t) \/ SendStale(t) \/ SendResume(t)
  \/ Cleanup(t) \/ CleanupLock(t) \/ CleanupUnlock(t)
  \/ IoctlClose(t) \/ Unlist(t) \/ EndLock(t) \/ EndUnlock(t)
  \/ \E k \in Module : EofMark(t, k) \/ EofStale(t, k)
  \/ RefdownLoad(t) \/ RefdownStore(t)

LEMMA NoRefStepKeeps == ASSUME NEW t \in Desc, NoRefStep(t) PROVE UNCHANGED refVars
BY DEF NoRefStep, refVars, descVars, monVars, threadVars, histVars, Goto,
       Create, AttachFind, AttachLock, AttachUnlock, ReadCheck, ReadBusy, ReadDrain,
       SendQueue, SendSeeIrp, SendStale, SendResume, Cleanup, CleanupLock,
       CleanupUnlock, IoctlClose, Unlist, EndLock, EndUnlock, EofMark, EofStale,
       RefdownLoad, RefdownStore, SetRefcount

(* RefExact for one descriptor. *)
RefOf(d) ==
  /\ ref_count[d] = Total(d)
  /\ alloc[d] # "open" => ref_count[d] = 0
  /\ \A t \in Desc : victim[t] = d => ref_count[d] = 0 /\ alloc[d] = "open"

(* How the count of d changes with each of its parts. *)
LEMMA OneType == \A b : One(b) \in {0, 1} /\ (b => One(b) = 1) /\ (~b => One(b) = 0)
BY DEF One

LEMMA TotalType ==
  ASSUME IInv, NEW d \in Desc
  PROVE  /\ RefOf(d)
         /\ ref_count \in [Desc -> Nat]
         /\ Total(d) \in Nat
         /\ handle[d] \/ irp[d] # 0 => Total(d) >= 1
<1>1. RefOf(d)
  BY RefExactTotal DEF IInv, RefOf
<1>2. ref_count \in [Desc -> Nat]
  BY DEF IInv, TypeOK
<1>3. handle[d] \/ irp[d] # 0 => ref_count[d] >= 1
  BY Counted DEF IInv
<1> QED
  BY <1>1, <1>2, <1>3 DEF RefOf

LEMMA SlotTotal ==
  ASSUME IInv, NEW m \in Mon, NEW k \in Module, NEW x, SetSlot(m, k, x),
         UNCHANGED <<handle, irp, ref>>, NEW d \in Desc
  PROVE  Total(d)' = Total(d) + One(x = d) - One(connected_modules[m][k] = d)
<1>1. TypeOK
  BY DEF IInv
<1>2. Cardinality(SlotSet(connected_modules', d))
        = Cardinality(SlotSet(connected_modules, d))
          + One(x = d) - One(connected_modules[m][k] = d)
  BY <1>1, SlotChange
<1>3. /\ Cardinality(SlotSet(connected_modules, d)) \in Nat
      /\ Cardinality(HolderSet(ref, d)) \in Nat
  BY SlotsFinite, HoldersFinite
<1>4. Total(d)' = One(handle[d]) + One(irp[d] # 0)
                    + Cardinality(SlotSet(connected_modules', d)) + Cardinality(HolderSet(ref, d))
  BY DEF Total
<1> QED
  BY <1>2, <1>3, <1>4, OneType DEF Total

LEMMA HolderTotal ==
  ASSUME IInv, NEW t \in Desc, NEW x, SetRef(t, x),
         UNCHANGED <<handle, connected_modules>>, NEW d \in Desc
  PROVE  Total(d)' = Total(d) + One(x = d) - One(ref[t] = d)
                       + One(irp'[d] # 0) - One(irp[d] # 0)
<1>1. TypeOK
  BY DEF IInv
<1>2. Cardinality(HolderSet(ref', d))
        = Cardinality(HolderSet(ref, d)) + One(x = d) - One(ref[t] = d)
  BY <1>1, HolderChange
<1>3. /\ Cardinality(SlotSet(connected_modules, d)) \in Nat
      /\ Cardinality(HolderSet(ref, d)) \in Nat
  BY SlotsFinite, HoldersFinite
<1>4. Total(d)' = One(handle[d]) + One(irp'[d] # 0)
                    + Cardinality(SlotSet(connected_modules, d)) + Cardinality(HolderSet(ref', d))
  BY DEF Total
<1> QED
  BY <1>2, <1>3, <1>4, OneType DEF Total

LEMMA OwnTotal ==
  ASSUME IInv, UNCHANGED <<connected_modules, ref>>, NEW d \in Desc
  PROVE  Total(d)' = Total(d) + One(handle'[d]) - One(handle[d])
                       + One(irp'[d] # 0) - One(irp[d] # 0)
<1>1. /\ Cardinality(SlotSet(connected_modules, d)) \in Nat
      /\ Cardinality(HolderSet(ref, d)) \in Nat
  BY SlotsFinite, HoldersFinite
<1>2. Total(d)' = One(handle'[d]) + One(irp'[d] # 0)
                    + Cardinality(SlotSet(connected_modules, d)) + Cardinality(HolderSet(ref, d))
  BY DEF Total
<1> QED
  BY <1>1, <1>2, OneType DEF Total

(* A reference of x is taken by whoever is allowed to: x is in use already. *)
LEMMA Taken ==
  ASSUME IInv, NEW x \in Desc, ref_count[x] >= 1, ref_count' = Ref(x),
         UNCHANGED <<alloc, victim>>, NEW d \in Desc, Total(d)' = Total(d) + One(x = d)
  PROVE  RefOf(d)'
<1>1. RefOf(d) /\ ref_count \in [Desc -> Nat]
  BY TotalType
<1>2. ref_count'[d] = ref_count[d] + One(x = d)
  BY <1>1 DEF Ref, One
<1>3. ref_count'[d] = Total(d)'
  BY <1>1, <1>2 DEF RefOf
<1>4. ref_count'[d] # ref_count[d] => ref_count[d] >= 1
  BY <1>2, <1>1 DEF One
<1> QED
  BY <1>1, <1>3, <1>4 DEF RefOf

(* One is given up: nothing more happens, or the last one frees x, or it makes x the
   descriptor that thread t closes. *)
LEMMA Given ==
  ASSUME IInv, NEW x \in Desc, ref_count[x] >= 1, ref_count' = Unref(x),
         NEW d \in Desc, Total(d)' = Total(d) - One(x = d),
         \/ UNCHANGED <<alloc, victim>>
         \/ /\ alloc' = IF IsLastRef(x) THEN [alloc EXCEPT ![x] = "freed"] ELSE alloc
            /\ UNCHANGED victim
         \/ /\ IsLastRef(x) /\ UNCHANGED alloc
            /\ \E t \in Desc : victim' = [victim EXCEPT ![t] = x]
  PROVE  RefOf(d)'
<1>1. RefOf(d) /\ ref_count \in [Desc -> Nat]
  BY TotalType
<1>2. alloc \in [Desc -> {"none", "open", "freed"}] /\ victim \in [Desc -> Desc \cup {None}]
  BY DEF IInv, TypeOK
<1>3. ref_count'[d] = ref_count[d] - One(x = d)
  BY <1>1 DEF Unref, One
<1>4. ref_count'[d] = Total(d)'
  BY <1>1, <1>3 DEF RefOf
<1>5. CASE d # x
  <2>1. ref_count'[d] = ref_count[d]
    BY <1>3, <1>5, <1>1 DEF One
  <2>2. alloc'[d] = alloc[d]
    BY <1>2, <1>5 DEF IsLastRef
  <2>3. \A u \in Desc : victim'[u] = d => victim[u] = d
    BY <1>2, <1>5
  <2> QED
    BY <1>1, <1>4, <2>1, <2>2, <2>3 DEF RefOf
<1>6. CASE d = x
  <2>1. ref_count'[d] = ref_count[d] - 1 /\ alloc[d] = "open"
    BY <1>1, <1>3, <1>6 DEF One, RefOf
  <2>2. \A u \in Desc : victim[u] # d
    BY <1>1, <1>6 DEF RefOf
  <2>3. alloc'[d] # "open" => ref_count'[d] = 0
    BY <1>1, <1>2, <1>6, <2>1 DEF IsLastRef
  <2>4. \A u \in Desc : victim'[u] = d => ref_count'[d] = 0 /\ alloc'[d] = "open"
    BY <1>1, <1>2, <1>6, <2>1, <2>2 DEF IsLastRef
  <2> QED
    BY <1>4, <2>3, <2>4 DEF RefOf
<1> QED
  BY <1>5, <1>6

LEMMA RefStep ==
  ASSUME IInv, NEW t \in Desc, Step(t), NEW d \in Desc
  PROVE  RefOf(d)'
<1> USE DEF At, Outside, descVars, monVars, threadVars, histVars
<1>1. /\ alloc \in [Desc -> {"none", "open", "freed"}] /\ handle \in [Desc -> BOOLEAN]
      /\ ref_count \in [Desc -> Nat] /\ irp \in [Desc -> Nat]
      /\ victim \in [Desc -> Desc \cup {None}]
      /\ connected_modules \in [Mon -> [Module -> Desc \cup {None}]]
      /\ None \notin Desc
  BY ConstantsAssumption DEF IInv, TypeOK
<1>2. /\ RefOf(d) /\ Total(d) \in Nat
      /\ handle[d] \/ irp[d] # 0 => Total(d) >= 1
  BY TotalType
<1>3. /\ pc[t] \in RefPCs => ref[t] \in Desc /\ ref_count[ref[t]] >= 1
      /\ pc[t] \notin RefPCs => ref[t] = None
      /\ pc[t] \in DownPCs => down[t] \in Mon
      /\ pc[t] \in {"close", "free"} => victim[t] \in Desc
      /\ pc[t] \in SlotPCs => monitor[t] \in Mon
      /\ pc[t] \in HandlePCs => handle[t] /\ ref_count[t] >= 1
      /\ pc[t] \in {"direct", "eof_take"} => saw[t] # 0
      /\ pc[t] \in EofPCs => \A k \in todo[t] : connected_modules[down[t]][k] \in Desc
  BY ThreadFacts
<1>4. \A m \in Mon, k \in Module :
        connected_modules[m][k] \in Desc => ref_count[connected_modules[m][k]] >= 1
  BY SharedFacts
<1>5. One(None = d) = 0
  BY <1>1 DEF One
<1>6. CASE Open(t)
  <2>1. CASE d = t
    <3>1. alloc[t] = "none"
      BY <1>6 DEF IInv, ControlInv, ControlOf, Open
    <3>2. Total(d) = 0 /\ ref_count[d] = 0 /\ ~handle[d] /\ \A u \in Desc : victim[u] # d
      BY <1>1, <1>2, <2>1, <3>1 DEF RefOf
    <3>3. Total(d)' = 1
      <4>1. Total(d)' = Total(d) + One(handle'[d]) - One(handle[d])
                          + One(irp'[d] # 0) - One(irp[d] # 0)
        BY <1>6, OwnTotal DEF Open
      <4>2. handle'[d] /\ irp' = irp
        BY <1>1, <1>6, <2>1 DEF Open
      <4> QED
        BY <3>2, <4>1, <4>2 DEF One
    <3>4. ref_count'[d] = 1 /\ alloc'[d] = "open" /\ victim' = victim
      BY <1>1, <1>6, <2>1 DEF Open
    <3> QED
      BY <3>2, <3>3, <3>4 DEF RefOf
  <2>2. CASE d # t
    <3>1. Total(d)' = Total(d) + One(handle'[d]) - One(handle[d])
                        + One(irp'[d] # 0) - One(irp[d] # 0)
      BY <1>6, OwnTotal DEF Open
    <3>2. /\ handle'[d] = handle[d] /\ irp' = irp /\ alloc'[d] = alloc[d]
          /\ ref_count'[d] = ref_count[d] /\ victim' = victim
      BY <1>1, <1>6, <2>2 DEF Open
    <3>3. Total(d)' = Total(d)
      BY <1>2, <3>1, <3>2, OneType
    <3> QED
      BY <1>2, <3>2, <3>3 DEF RefOf
  <2> QED
    BY <2>1, <2>2
<1>7. ASSUME NEW k \in Module, AttachEvict(t, k) PROVE RefOf(d)'
  <2> DEFINE x == connected_modules[monitor[t]][k]
  <2>1. monitor[t] \in Mon /\ x \in Desc /\ ref_count[x] >= 1
    BY <1>1, <1>3, <1>4, <1>7 DEF AttachEvict, SlotPCs
  <2>2. /\ CloseSlotRef(t, x) /\ SetSlot(monitor[t], k, None)
        /\ UNCHANGED <<handle, irp, ref, victim>>
    BY <1>7 DEF AttachEvict
  <2>3. Total(d)' = Total(d) + One(None = d) - One(x = d)
    BY <2>1, <2>2, SlotTotal
  <2> HIDE DEF x
  <2>4. Total(d)' = Total(d) - One(x = d)
    BY <1>2, <1>5, <2>3, OneType
  <2> QED
    BY <2>1, <2>2, <2>4, Given DEF CloseSlotRef
<1>8. ASSUME NEW k \in Module, AttachSlot(t, k) PROVE RefOf(d)'
  <2>1. monitor[t] \in Mon /\ ref_count[t] >= 1
    BY <1>3, <1>8 DEF AttachSlot, SlotPCs, HandlePCs
  <2>2. /\ SetSlot(monitor[t], k, t) /\ connected_modules[monitor[t]][k] = None
        /\ ref_count' = Ref(t) /\ UNCHANGED <<alloc, handle, irp, ref, victim>>
    BY <1>8 DEF AttachSlot
  <2>3. Total(d)' = Total(d) + One(t = d) - One(connected_modules[monitor[t]][k] = d)
    BY <2>1, <2>2, SlotTotal
  <2>4. Total(d)' = Total(d) + One(t = d)
    BY <1>2, <1>5, <2>2, <2>3, OneType
  <2> QED
    BY <2>1, <2>2, <2>4, Taken
<1>9. CASE ReadPark(t)
  <2>1. /\ ref_count[t] >= 1 /\ ref_count' = Ref(t) /\ irp[t] = 0
        /\ UNCHANGED <<alloc, handle, connected_modules, ref, victim>>
    BY <1>3, <1>9 DEF ReadPark, MayPark, HandlePCs
  <2>2. irp' = [irp EXCEPT ![t] = reads[t] + 1] /\ reads[t] \in Nat
    BY <1>9 DEF ReadPark, IInv, TypeOK
  <2>3. Total(d)' = Total(d) + One(handle'[d]) - One(handle[d])
                      + One(irp'[d] # 0) - One(irp[d] # 0)
    BY <2>1, OwnTotal
  <2>4. One(irp'[d] # 0) = One(irp[d] # 0) + One(t = d)
    BY <1>1, <2>1, <2>2 DEF One
  <2>5. Total(d)' = Total(d) + One(t = d)
    BY <1>2, <2>1, <2>3, <2>4, OneType
  <2> QED
    BY <2>1, <2>5, Taken
<1>10. CASE Cancel(t)
  <2>1. /\ SetRef(t, t) /\ irp' = [irp EXCEPT ![t] = 0] /\ irp[t] # 0 /\ ref[t] = None
        /\ UNCHANGED <<alloc, handle, ref_count, connected_modules, victim>>
    BY <1>3, <1>10 DEF Cancel, SetRef, RefPCs
  <2>2. Total(d)' = Total(d) + One(t = d) - One(ref[t] = d)
                      + One(irp'[d] # 0) - One(irp[d] # 0)
    BY <2>1, HolderTotal
  <2>3. One(irp'[d] # 0) = One(irp[d] # 0) - One(t = d)
    BY <1>1, <2>1 DEF One
  <2>4. Total(d)' = Total(d)
    BY <1>2, <1>5, <2>1, <2>2, <2>3, OneType
  <2> QED
    BY <1>2, <2>1, <2>4 DEF RefOf
<1>11. ASSUME NEW k \in Module, NEW filtered \in BOOLEAN, Message(t, k, filtered)
       PROVE  RefOf(d)'
  <2> DEFINE x == connected_modules[monitor[t]][k]
  <2>1. x \in Desc /\ ref_count[x] >= 1
    <3>1. monitor[t] \in Mon
      BY <1>11 DEF Message, IInv, TypeOK
    <3>2. x # None /\ ref_count[x] # 0
      BY <1>11 DEF Message
    <3> QED
      BY <1>1, <3>1, <3>2
  <2>2. /\ SetRef(t, x) /\ ref_count' = Ref(x) /\ ref[t] = None
        /\ UNCHANGED <<alloc, handle, irp, connected_modules, victim>>
    BY <1>3, <1>11 DEF Message, SetRef, RefPCs
  <2> HIDE DEF x
  <2>3. Total(d)' = Total(d) + One(x = d) - One(ref[t] = d)
                      + One(irp'[d] # 0) - One(irp[d] # 0)
    BY <2>2, HolderTotal
  <2>4. Total(d)' = Total(d) + One(x = d)
    BY <1>2, <1>5, <2>2, <2>3, OneType
  <2> QED
    BY <2>1, <2>2, <2>4, Taken
<1>12. ASSUME NEW fits \in BOOLEAN, SendTake(t, fits) PROVE RefOf(d)'
  <2>1. /\ ref[t] \in Desc /\ ref_count[ref[t]] >= 1 /\ irp[ref[t]] # 0
        /\ ref_count' = Unref(ref[t]) /\ irp' = [irp EXCEPT ![ref[t]] = 0]
        /\ UNCHANGED <<alloc, handle, connected_modules, ref, victim>>
    BY <1>3, <1>12 DEF SendTake, RefPCs
  <2>2. Total(d)' = Total(d) + One(handle'[d]) - One(handle[d])
                      + One(irp'[d] # 0) - One(irp[d] # 0)
    BY <2>1, OwnTotal
  <2>3. One(irp'[d] # 0) = One(irp[d] # 0) - One(ref[t] = d)
    BY <1>1, <2>1 DEF One
  <2>4. Total(d)' = Total(d) - One(ref[t] = d)
    BY <1>2, <2>1, <2>2, <2>3, OneType
  <2> QED
    BY <2>1, <2>4, Given
<1>13. CASE DropRef(t)
  <2>1. /\ ref[t] \in Desc /\ ref_count[ref[t]] >= 1
        /\ Close(t, ref[t], Rest(t)) /\ SetRef(t, None)
        /\ UNCHANGED <<alloc, handle, irp, connected_modules>>
    BY <1>3, <1>13 DEF DropRef, SetRef, RefPCs
  <2>2. Total(d)' = Total(d) + One(None = d) - One(ref[t] = d)
                      + One(irp'[d] # 0) - One(irp[d] # 0)
    BY <2>1, HolderTotal
  <2>3. Total(d)' = Total(d) - One(ref[t] = d)
    BY <1>2, <1>5, <2>1, <2>2, OneType
  <2> QED
    BY <2>1, <2>3, Given DEF Close
<1>14. ASSUME NEW k \in Module, CleanupSlot(t, k) PROVE RefOf(d)'
  <2>1. /\ monitor[t] \in Mon /\ ref_count[t] >= 1
        /\ CloseSlotRef(t, t) /\ SetSlot(monitor[t], k, None)
        /\ connected_modules[monitor[t]][k] = t
        /\ UNCHANGED <<handle, irp, ref, victim>>
    BY <1>3, <1>14 DEF CleanupSlot, SlotPCs, HandlePCs
  <2>2. Total(d)' = Total(d) + One(None = d) - One(t = d)
    BY <2>1, SlotTotal
  <2>3. Total(d)' = Total(d) - One(t = d)
    BY <1>2, <1>5, <2>2, OneType
  <2> QED
    BY <2>1, <2>3, Given DEF CloseSlotRef
<1>15. CASE CleanupClose(t)
  <2>1. /\ handle[t] /\ ref_count[t] >= 1 /\ handle' = [handle EXCEPT ![t] = FALSE]
        /\ Close(t, t, "gone") /\ UNCHANGED <<alloc, irp, connected_modules, ref>>
    BY <1>3, <1>15 DEF CleanupClose, HandlePCs
  <2>2. Total(d)' = Total(d) + One(handle'[d]) - One(handle[d])
                      + One(irp'[d] # 0) - One(irp[d] # 0)
    BY <2>1, OwnTotal
  <2>3. One(handle'[d]) = One(handle[d]) - One(t = d)
    BY <1>1, <2>1 DEF One
  <2>4. One(irp'[d] # 0) = One(irp[d] # 0)
    BY <2>1
  <2>5. Total(d)' = Total(d) - One(t = d)
    BY <1>2, <2>2, <2>3, <2>4, OneType
  <2> QED
    BY <2>1, <2>5, Given DEF Close
<1>16. CASE CloseDesc(t)
  <2>1. /\ victim[t] \in Desc /\ irp' = [irp EXCEPT ![victim[t]] = 0]
        /\ UNCHANGED <<alloc, handle, ref_count, connected_modules, ref, victim>>
    BY <1>3, <1>16 DEF CloseDesc
  <2>2. victim[t] = d => irp[d] = 0
    BY <1>1, <1>2 DEF RefOf
  <2>3. irp' = irp \/ irp'[d] = irp[d]
    BY <1>1, <2>1, <2>2
  <2>4. Total(d)' = Total(d) + One(handle'[d]) - One(handle[d])
                      + One(irp'[d] # 0) - One(irp[d] # 0)
    BY <2>1, OwnTotal
  <2>5. Total(d)' = Total(d)
    BY <1>2, <2>1, <2>3, <2>4, OneType
  <2> QED
    BY <1>2, <2>1, <2>5 DEF RefOf
<1>17. CASE FreeDesc(t)
  <2>1. /\ victim[t] \in Desc /\ alloc' = [alloc EXCEPT ![victim[t]] = "freed"]
        /\ victim' = [victim EXCEPT ![t] = None]
        /\ UNCHANGED <<handle, ref_count, irp, connected_modules, ref>>
    BY <1>3, <1>17 DEF FreeDesc
  <2>2. Total(d)' = Total(d)
    BY <2>1 DEF Total
  <2>3. alloc'[d] # "open" => ref_count[d] = 0
    BY <1>1, <1>2, <2>1 DEF RefOf
  <2>4. \A u \in Desc : victim'[u] = d => u # t /\ victim[u] = d
    BY <1>1, <2>1
  <2>5. \A u \in Desc : u # t /\ victim[u] = d => victim[t] # d
    BY <1>1 DEF IInv, VictimInv
  <2>6. \A u \in Desc : victim'[u] = d => ref_count[d] = 0 /\ alloc'[d] = "open"
    BY <1>1, <1>2, <2>1, <2>4, <2>5 DEF RefOf
  <2> QED
    BY <1>2, <2>1, <2>2, <2>3, <2>6 DEF RefOf
<1>18. ASSUME NEW k \in Module, EofTake(t, k) PROVE RefOf(d)'
  <2> DEFINE x == connected_modules[down[t]][k]
  <2>1. /\ x \in Desc /\ SetRef(t, x) /\ irp' = [irp EXCEPT ![x] = 0]
        /\ irp[x] # 0 /\ ref[t] = None
        /\ UNCHANGED <<alloc, handle, ref_count, connected_modules, victim>>
    BY <1>3, <1>18 DEF EofTake, SetRef, RefPCs, EofPCs
  <2> HIDE DEF x
  <2>2. Total(d)' = Total(d) + One(x = d) - One(ref[t] = d)
                      + One(irp'[d] # 0) - One(irp[d] # 0)
    BY <2>1, HolderTotal
  <2>3. One(irp'[d] # 0) = One(irp[d] # 0) - One(x = d)
    BY <1>1, <2>1 DEF One
  <2>4. Total(d)' = Total(d)
    BY <1>2, <1>5, <2>1, <2>2, <2>3, OneType
  <2> QED
    BY <1>2, <2>1, <2>4 DEF RefOf
<1>19. CASE EofDrop(t)
  <2>1. /\ ref[t] \in Desc /\ ref_count[ref[t]] >= 1
        /\ ref_count' = Unref(ref[t]) /\ SetRef(t, None)
        /\ UNCHANGED <<alloc, handle, irp, connected_modules, victim>>
    BY <1>3, <1>19 DEF EofDrop, SetRef, RefPCs
  <2>2. Total(d)' = Total(d) + One(None = d) - One(ref[t] = d)
                      + One(irp'[d] # 0) - One(irp[d] # 0)
    BY <2>1, HolderTotal
  <2>3. Total(d)' = Total(d) - One(ref[t] = d)
    BY <1>2, <1>5, <2>1, <2>2, OneType
  <2> QED
    BY <2>1, <2>3, Given
<1>20. ASSUME NEW k \in Module, EndSlot(t, k) PROVE RefOf(d)'
  <2> DEFINE x == connected_modules[down[t]][k]
  <2>1. down[t] \in Mon /\ x \in Desc /\ ref_count[x] >= 1
    BY <1>3, <1>4, <1>20 DEF EndSlot, DownPCs, EndPCs, EofPCs
  <2>2. /\ CloseSlotRef(t, x) /\ SetSlot(down[t], k, None)
        /\ UNCHANGED <<handle, irp, ref, victim>>
    BY <1>20 DEF EndSlot
  <2>3. Total(d)' = Total(d) + One(None = d) - One(x = d)
    BY <2>1, <2>2, SlotTotal
  <2> HIDE DEF x
  <2>4. Total(d)' = Total(d) - One(x = d)
    BY <1>2, <1>5, <2>3, OneType
  <2> QED
    BY <2>1, <2>2, <2>4, Given DEF CloseSlotRef
<1>21. CASE NoRefStep(t)
  <2>1. UNCHANGED refVars
    BY <1>21, NoRefStepKeeps
  <2>2. Total(d)' = Total(d)
    BY <2>1 DEF refVars, Total
  <2> QED
    BY <1>2, <2>1, <2>2 DEF refVars, RefOf
<1> QED
  BY <1>6, <1>7, <1>8, <1>9, <1>10, <1>11, <1>12, <1>13, <1>14, <1>15, <1>16, <1>17,
     <1>18, <1>19, <1>20, <1>21 DEF Step, NoRefStep

LEMMA VictimStep == ASSUME IInv, NEW t \in Desc, Step(t) PROVE VictimInv'
<1> USE DEF At, Outside, descVars, monVars, threadVars, histVars
<1>1. VictimInv /\ victim \in [Desc -> Desc \cup {None}] /\ ref_count \in [Desc -> Nat]
  BY DEF IInv, TypeOK
<1>2. \A d \in Desc : ref_count[d] >= 1 => \A u \in Desc : victim[u] # d
  BY <1>1 DEF IInv, RefExact
<1>3. /\ pc[t] \in RefPCs => ref[t] \in Desc /\ ref_count[ref[t]] >= 1
      /\ pc[t] \in HandlePCs => ref_count[t] >= 1
  BY ThreadFacts
<1>4. ASSUME NEW x \in Desc, ref_count[x] >= 1, NEW next, Close(t, x, next)
      PROVE  VictimInv'
  <2>1. victim' = victim \/ victim' = [victim EXCEPT ![t] = x]
    BY <1>4 DEF Close
  <2> QED
    BY <1>1, <1>2, <1>4, <2>1 DEF VictimInv
<1>5. CASE DropRef(t)
  BY <1>3, <1>4, <1>5 DEF DropRef, RefPCs
<1>6. CASE CleanupClose(t)
  BY <1>3, <1>4, <1>6 DEF CleanupClose, HandlePCs
<1>7. CASE FreeDesc(t)
  BY <1>1, <1>7, ConstantsAssumption DEF FreeDesc, VictimInv
<1>8. CASE NoRefStep(t)
  BY <1>1, <1>8, NoRefStepKeeps DEF refVars, VictimInv
<1>9. CASE \/ Open(t) \/ ReadPark(t) \/ Cancel(t) \/ CloseDesc(t) \/ EofDrop(t)
           \/ \E k \in Module : AttachEvict(t, k) \/ AttachSlot(t, k) \/ CleanupSlot(t, k)
                                  \/ EofTake(t, k) \/ EndSlot(t, k)
           \/ \E k \in Module, filtered \in BOOLEAN : Message(t, k, filtered)
           \/ \E fits \in BOOLEAN : SendTake(t, fits)
  <2>1. victim' = victim
    BY <1>9 DEF Open, ReadPark, Cancel, CloseDesc, EofDrop, AttachEvict, AttachSlot,
                CleanupSlot, EofTake, EndSlot, Message, SendTake
  <2> QED
    BY <1>1, <2>1 DEF VictimInv
<1> QED
  BY <1>5, <1>6, <1>7, <1>8, <1>9 DEF Step, NoRefStep

-----------------------------------------------------------------------------
(* The invariant.                                                          *)

LEMMA InitIInv == Init => IInv
<1> SUFFICES ASSUME Init PROVE IInv
  OBVIOUS
<1> USE ConstantsAssumption DEF Init
<1>1. TypeOK
  BY DEF TypeOK, PCs
<1>2. RefExact
  <2> SUFFICES ASSUME NEW d \in Desc PROVE RefOf(d)
    BY RefExactTotal DEF RefOf
  <2>1. SlotSet(connected_modules, d) = {} /\ HolderSet(ref, d) = {}
    BY DEF SlotSet, HolderSet
  <2>2. Cardinality({}) = 0
    BY FS_EmptySet
  <2>3. One(handle[d]) = 0 /\ One(irp[d] # 0) = 0 /\ ref_count[d] = 0 /\ alloc[d] = "none"
    BY DEF One
  <2>4. \A t \in Desc : victim[t] # d
    OBVIOUS
  <2> HIDE DEF Init
  <2>5. Total(d) = 0
    BY <2>1, <2>2, <2>3 DEF Total
  <2> QED
    BY <2>3, <2>4, <2>5 DEF RefOf
<1>3. ControlInv
  BY DEF ControlInv, ControlOf, HandlePCs, RefPCs, SlotPCs, DownPCs, EndPCs, EofPCs
<1>4. LockInv
  BY DEF LockInv, LockOf, SlotPCs, EndPCs, EofPCs
<1>5. VictimInv
  BY DEF VictimInv
<1> QED
  BY <1>1, <1>2, <1>3, <1>4, <1>5 DEF IInv

LEMMA StepIInv == ASSUME IInv, NEW t \in Desc, Step(t) PROVE IInv'
<1>1. TypeOK'
  BY TypeStep
<1>2. RefExact'
  <2>1. \A d \in Desc : RefOf(d)'
    BY RefStep
  <2> QED
    BY <2>1 DEF RefOf, Total, RefExact, SlotsOf, SlotSet, HoldersOf, HolderSet
<1>3. \A u \in Desc : ControlOf(u)' /\ LockOf(u)'
  BY ControlStep, LockStep, OthersControl
<1>4. ControlInv' /\ LockInv'
  BY <1>3 DEF ControlInv, LockInv
<1>5. VictimInv'
  BY VictimStep
<1> QED
  BY <1>1, <1>2, <1>4, <1>5 DEF IInv

LEMMA NextIInv == IInv /\ [Next]_vars => IInv'
<1> SUFFICES ASSUME IInv, [Next]_vars PROVE IInv'
  OBVIOUS
<1>1. ASSUME NEW t \in Desc, Step(t) PROVE IInv'
  BY <1>1, StepIInv
<1>2. CASE UNCHANGED vars
  <2> USE <1>2 DEF vars, descVars, monVars, threadVars, histVars
  <2>1. TypeOK'
    BY DEF IInv, TypeOK
  <2>2. RefExact'
    BY DEF IInv, RefExact, SlotsOf, HoldersOf
  <2>3. ControlInv' /\ VictimInv'
    BY DEF IInv, ControlInv, ControlOf, VictimInv
  <2>4. LockInv'
    BY DEF IInv, LockInv, LockOf
  <2> QED
    BY <2>1, <2>2, <2>3, <2>4 DEF IInv
<1> QED
  BY <1>1, <1>2 DEF Next

(* Every variable keeps its type: no reference count of an open descriptor goes below zero. *)
THEOREM TypeCorrect == Spec => []TypeOK
<1>1. IInv => TypeOK
  BY DEF IInv
<1> QED
  BY <1>1, InitIInv, NextIInv, PTL DEF Spec

(* ref_count is exactly the references that exist: co_manager_close_ runs when, and only
   when, the handle, the slots, the parked read and every thread have let go. *)
THEOREM ReferencesExact == Spec => []RefExact
<1>1. IInv => RefExact
  BY DEF IInv
<1> QED
  BY <1>1, InitIInv, NextIInv, PTL DEF Spec

-----------------------------------------------------------------------------
(* A read never waits beside a message, and the refinement of MessageChannel. *)

(* Only a step that parks or queues can break NoLostWakeup, and each tests the other. *)
LEMMA NoLostWakeupStep == ASSUME IInv, NoLostWakeup, NEW t \in Desc, Step(t)
                          PROVE  NoLostWakeup'
<1> USE DEF At, Outside, descVars, monVars, threadVars, histVars
<1>1. irp \in [Desc -> Nat] /\ out_queue \in [Desc -> Seq(Nat)]
  BY DEF IInv, TypeOK
<1>2. CASE SendQueue(t)
  BY <1>1, <1>2 DEF SendQueue, NoLostWakeup
<1>3. CASE ReadPark(t)
  BY <1>1, <1>3 DEF ReadPark, MayPark, NoLostWakeup
<1>4. ASSUME NEW n \in 0..MaxSend, ReadDrain(t, n) PROVE NoLostWakeup'
  <2>1. irp[t] = 0 /\ irp' = irp
    BY <1>1, <1>4 DEF ReadDrain, NoLostWakeup
  <2> QED
    BY <1>1, <1>4, <2>1 DEF ReadDrain, NoLostWakeup
<1>5. CASE \/ Cancel(t) \/ CloseDesc(t)
           \/ \E fits \in BOOLEAN : SendTake(t, fits)
           \/ \E k \in Module : EofTake(t, k)
  <2>1. out_queue' = out_queue /\ \A d \in Desc : irp'[d] # 0 => irp'[d] = irp[d]
    BY <1>1, <1>5 DEF Cancel, CloseDesc, SendTake, EofTake
  <2> QED
    BY <2>1 DEF NoLostWakeup
<1>6. CASE UNCHANGED <<irp, out_queue>>
  BY <1>6 DEF NoLostWakeup
<1>7. CASE \/ Open(t) \/ AttachLock(t) \/ AttachUnlock(t) \/ ReadCheck(t) \/ ReadBusy(t)
           \/ SendSeeIrp(t) \/ SendStale(t) \/ SendResume(t) \/ DropRef(t)
           \/ Cleanup(t) \/ CleanupLock(t) \/ CleanupUnlock(t) \/ CleanupClose(t)
           \/ FreeDesc(t) \/ IoctlClose(t) \/ Unlist(t) \/ EndLock(t) \/ EofDrop(t)
           \/ EndUnlock(t) \/ RefdownLoad(t) \/ RefdownStore(t)
           \/ \E m \in Mon : Create(t, m)
           \/ \E m \in Mon, ks \in SUBSET Module : AttachFind(t, m, ks)
           \/ \E k \in Module, filtered \in BOOLEAN : Message(t, k, filtered)
           \/ \E k \in Module : AttachEvict(t, k) \/ AttachSlot(t, k) \/ CleanupSlot(t, k)
                                  \/ EofMark(t, k) \/ EofStale(t, k) \/ EndSlot(t, k)
  BY <1>6, <1>7 DEF Open, AttachLock, AttachUnlock, ReadCheck, ReadBusy, SendSeeIrp,
       SendStale, SendResume, DropRef, Cleanup, CleanupLock, CleanupUnlock, CleanupClose,
       FreeDesc, IoctlClose, Unlist, EndLock, EofDrop, EndUnlock, RefdownLoad,
       RefdownStore, SetRefcount, Create, AttachFind, Message, AttachEvict, AttachSlot,
       CleanupSlot, EofMark, EofStale, EndSlot
<1> QED
  BY <1>2, <1>3, <1>4, <1>5, <1>7 DEF Step

(* A read is parked only on an empty queue, and stays parked only while it is empty. *)
THEOREM NeverWaitsBesideMessage == Spec => []NoLostWakeup
<1>1. Init => NoLostWakeup
  BY DEF Init, NoLostWakeup
<1>2. IInv /\ NoLostWakeup /\ [Next]_vars => NoLostWakeup'
  <2> SUFFICES ASSUME IInv, NoLostWakeup, [Next]_vars PROVE NoLostWakeup'
    OBVIOUS
  <2>1. ASSUME NEW t \in Desc, Step(t) PROVE NoLostWakeup'
    BY <2>1, NoLostWakeupStep
  <2>2. CASE UNCHANGED vars
    BY <2>2 DEF vars, descVars, NoLostWakeup
  <2> QED
    BY <2>1, <2>2 DEF Next
<1> QED
  BY <1>1, <1>2, InitIInv, NextIInv, PTL DEF Spec

waiting == [d \in Desc |-> irp[d] # 0]
SameChannels == UNCHANGED <<sent, got, out_queue, irp>>

LEMMA StepRefines ==
  ASSUME IInv, NoLostWakeup, NEW t \in Desc, Step(t)
  PROVE  Channels!Next \/ SameChannels
<1> USE DEF At, Outside, descVars, monVars, threadVars, histVars
<1>1. /\ irp \in [Desc -> Nat] /\ out_queue \in [Desc -> Seq(Nat)]
      /\ sent \in [Desc -> Nat] /\ got \in [Desc -> Nat]
      /\ reads \in [Desc -> Nat] /\ active \in [Desc -> BOOLEAN]
  BY DEF IInv, TypeOK
<1>2. /\ pc[t] \in RefPCs => ref[t] \in Desc
      /\ pc[t] \in {"direct", "eof_take"} => saw[t] # 0
      /\ pc[t] \in {"close", "free"} => victim[t] \in Desc
      /\ pc[t] \in EofPCs => \A k \in todo[t] : connected_modules[down[t]][k] \in Desc
  BY ThreadFacts
<1>3. ASSUME NEW c \in Desc, irp' = [irp EXCEPT ![c] = 0], UNCHANGED <<sent, got, out_queue>>
      PROVE  Channels!Next \/ SameChannels
  <2>1. CASE irp[c] = 0
    <3>1. irp' = irp
      BY <1>1, <1>3, <2>1
    <3> QED
      BY <1>3, <3>1 DEF SameChannels
  <2>2. CASE irp[c] # 0
    <3>1. waiting[c] /\ waiting' = [waiting EXCEPT ![c] = FALSE]
      BY <1>1, <1>3, <2>2 DEF waiting
    <3>2. Channels!GiveUp(c)
      BY <1>3, <3>1 DEF Channels!GiveUp, waiting
    <3> QED
      BY <3>2 DEF Channels!Next
  <2> QED
    BY <2>1, <2>2
<1>4. CASE Cancel(t)
  BY <1>3, <1>4 DEF Cancel
<1>5. CASE CloseDesc(t)
  BY <1>2, <1>3, <1>5 DEF CloseDesc
<1>6. ASSUME NEW k \in Module, EofTake(t, k) PROVE Channels!Next \/ SameChannels
  BY <1>2, <1>3, <1>6 DEF EofTake, EofPCs
<1>7. CASE SendQueue(t)
  <2>1. ref[t] \in Desc /\ irp[ref[t]] = 0 /\ irp' = irp /\ got' = got
    BY <1>2, <1>7 DEF SendQueue, RefPCs
  <2>2. CASE active[ref[t]]
    <3>1. /\ out_queue' = [out_queue EXCEPT ![ref[t]] = Append(@, sent[ref[t]] + 1)]
          /\ sent' = [sent EXCEPT ![ref[t]] = @ + 1]
      BY <1>7, <2>2 DEF SendQueue
    <3>2. ~waiting[ref[t]] /\ waiting' = waiting
      BY <2>1 DEF waiting
    <3>3. Channels!Accept(ref[t])
      BY <2>1, <3>1, <3>2 DEF Channels!Accept, waiting
    <3> QED
      BY <2>1, <3>3 DEF Channels!Next
  <2>3. CASE ~active[ref[t]]
    BY <1>7, <2>1, <2>3 DEF SendQueue, SameChannels
  <2> QED
    BY <2>2, <2>3
<1>8. ASSUME NEW fits \in BOOLEAN, SendTake(t, fits) PROVE Channels!Next \/ SameChannels
  <2>1. /\ ref[t] \in Desc /\ irp[ref[t]] # 0 /\ irp' = [irp EXCEPT ![ref[t]] = 0]
        /\ out_queue' = out_queue
    BY <1>2, <1>8 DEF SendTake, RefPCs
  <2>2. CASE fits
    <3>1. /\ sent' = [sent EXCEPT ![ref[t]] = @ + 1]
          /\ got' = [got EXCEPT ![ref[t]] = sent[ref[t]] + 1]
      BY <1>8, <2>2 DEF SendTake
    <3>2. \A c \in Desc : c = ref[t] => Channels!HandOver(c)
      <4> SUFFICES ASSUME NEW c \in Desc, c = ref[t] PROVE Channels!HandOver(c)
        OBVIOUS
      <4>1. waiting[c] /\ waiting' = [waiting EXCEPT ![c] = FALSE]
        BY <1>1, <2>1 DEF waiting
      <4>2. out_queue[c] = <<>>
        BY <2>1 DEF NoLostWakeup
      <4> QED
        BY <2>1, <3>1, <4>1, <4>2 DEF Channels!HandOver, waiting
    <3> QED
      BY <2>1, <3>2 DEF Channels!Next
  <2>3. CASE ~fits
    BY <1>3, <1>8, <2>1, <2>3 DEF SendTake
  <2> QED
    BY <2>2, <2>3
<1>9. CASE ReadPark(t)
  <2>1. /\ irp[t] = 0 /\ irp' = [irp EXCEPT ![t] = reads[t] + 1] /\ out_queue[t] = <<>>
        /\ UNCHANGED <<sent, got, out_queue>>
    BY <1>9 DEF ReadPark, MayPark
  <2>2. ~waiting[t] /\ waiting' = [waiting EXCEPT ![t] = TRUE]
    <3>1. reads[t] + 1 # 0 /\ reads[t] + 1 \in Nat
      BY <1>1
    <3>2. \A d \in Desc : irp'[d] # 0 <=> d = t \/ irp[d] # 0
      BY <1>1, <2>1, <3>1
    <3> QED
      BY <2>1, <3>2 DEF waiting
  <2>3. Channels!Wait(t)
    BY <2>1, <2>2 DEF Channels!Wait, waiting
  <2> QED
    BY <2>3 DEF Channels!Next
<1>10. ASSUME NEW n \in 0..MaxSend, ReadDrain(t, n) PROVE Channels!Next \/ SameChannels
  <2> DEFINE q == out_queue[t]
  <2>1. /\ n \in Nat /\ n <= Len(q) /\ q \in Seq(Nat)
        /\ out_queue' = [out_queue EXCEPT ![t] = SubSeq(q, n + 1, Len(q))]
        /\ got' = [got EXCEPT ![t] = IF n = 0 THEN @ ELSE q[n]]
        /\ irp' = irp /\ sent' = sent
    BY <1>1, <1>10, ConstantsAssumption DEF ReadDrain, Popped
  <2>2. CASE n = 0
    <3>1. SubSeq(q, 1, Len(q)) = q
      BY <2>1
    <3>2. out_queue' = out_queue /\ got' = got
      BY <1>1, <2>1, <2>2, <3>1
    <3> QED
      BY <2>1, <3>2 DEF SameChannels
  <2>3. CASE n # 0
    <3>1. n \in 1..Len(q) /\ got' = [got EXCEPT ![t] = q[n]]
      BY <2>1, <2>3
    <3>2. waiting' = waiting
      BY <2>1 DEF waiting
    <3>3. Channels!Take(t, n)
      BY <2>1, <3>1, <3>2 DEF Channels!Take, waiting
    <3> QED
      BY <3>1, <3>3 DEF Channels!Next
  <2> QED
    BY <2>2, <2>3
<1>11. CASE Open(t) \/ AttachLock(t) \/ AttachUnlock(t) \/ ReadCheck(t) \/ ReadBusy(t)
            \/ SendSeeIrp(t) \/ SendStale(t) \/ SendResume(t) \/ DropRef(t)
  BY <1>11, SMTT(30)
     DEF SameChannels, Open, AttachLock, AttachUnlock, ReadCheck, ReadBusy, SendSeeIrp,
       SendStale, SendResume, DropRef
<1>12. CASE Cleanup(t) \/ CleanupLock(t) \/ CleanupUnlock(t) \/ CleanupClose(t)
            \/ FreeDesc(t) \/ IoctlClose(t) \/ Unlist(t) \/ EndLock(t)
  BY <1>12, SMTT(30)
     DEF SameChannels, Cleanup, CleanupLock, CleanupUnlock, CleanupClose, FreeDesc,
       IoctlClose, Unlist, EndLock
<1>13. CASE EofDrop(t) \/ EndUnlock(t) \/ RefdownLoad(t) \/ RefdownStore(t)
  BY <1>13, SMTT(30)
     DEF SameChannels, EofDrop, EndUnlock, RefdownLoad, RefdownStore, SetRefcount
<1>14. CASE \/ \E m \in Mon : Create(t, m)
            \/ \E m \in Mon, ks \in SUBSET Module : AttachFind(t, m, ks)
            \/ \E k \in Module, filtered \in BOOLEAN : Message(t, k, filtered)
  BY <1>14, SMTT(30) DEF SameChannels, Create, AttachFind, Message
<1>15. CASE \E k \in Module : AttachEvict(t, k) \/ AttachSlot(t, k) \/ CleanupSlot(t, k)
  BY <1>15, SMTT(30) DEF SameChannels, AttachEvict, AttachSlot, CleanupSlot
<1>16. CASE \E k \in Module : EofMark(t, k) \/ EofStale(t, k) \/ EndSlot(t, k)
  BY <1>16, SMTT(30) DEF SameChannels, EofMark, EofStale, EndSlot
<1> QED
  BY <1>4, <1>5, <1>6, <1>7, <1>8, <1>9, <1>10, <1>11,
     <1>12, <1>13, <1>14, <1>15, <1>16 DEF Step

(* The descriptors of the driver are first-in first-out channels: nothing is lost,
   duplicated or reordered between the queue, the parked read and direct delivery. *)
THEOREM RefinesChannels == Spec => ImplementsChannels
<1>1. Init => Channels!Init
  BY ZenonT(60) DEF Init, Channels!Init
<1>2. IInv /\ NoLostWakeup /\ [Next]_vars => [Channels!Next]_(Channels!chanVars)
  <2> SUFFICES ASSUME IInv, NoLostWakeup, [Next]_vars
               PROVE  Channels!Next \/ UNCHANGED Channels!chanVars
    OBVIOUS
  <2>1. SameChannels => UNCHANGED Channels!chanVars
    BY DEF SameChannels, Channels!chanVars
  <2>2. ASSUME NEW t \in Desc, Step(t) PROVE Channels!Next \/ SameChannels
    BY <2>2, StepRefines
  <2>3. UNCHANGED vars => SameChannels
    BY DEF vars, descVars, histVars, SameChannels
  <2> QED
    BY <2>1, <2>2, <2>3 DEF Next
<1> QED
  BY <1>1, <1>2, InitIInv, NextIInv, NeverWaitsBesideMessage, PTL
     DEF Spec, ImplementsChannels, Channels!Spec

-----------------------------------------------------------------------------
(* The references of the monitors, the slots, the queues and who takes a read. *)

(* What a thread's program counter says about its locals, beyond ControlOf: when it works on
   a monitor that its own descriptor is attached to, and that a sender about to complete a
   read holds the lock of the descriptor. *)
LocalsOf(t) ==
  /\ down[t] # None <=> pc[t] \in DownPCs
  /\ victim[t] # None => pc[t] \in DownPCs \cup {"close", "free"}
  /\ down[t] # None /\ victim[t] = None => monitor[t] = down[t]
  /\ pc[t] \in EofPCs => \E k \in Module : todo[t] = {k}
  /\ pc[t] = "direct" => lock[ref[t]] = t
LocalsInv == \A t \in Desc : LocalsOf(t)

-----------------------------------------------------------------------------
(* Slots *)

SlotAt(d, m) == \E k \in Module : connected_modules[m][k] = d

(* The slots of a descriptor are slots of one monitor, the one it is attached to while it is;
   they are gone before the handle is closed, and before an attach. *)
SlotsOfOne(d) ==
  /\ \A m, n \in Mon : SlotAt(d, m) /\ SlotAt(d, n) => m = n
  /\ \A m \in Mon : SlotAt(d, m) /\ monitor[d] # None => monitor[d] = m
  /\ \A m \in Mon : SlotAt(d, m) /\ ~handle[d] => monitor[d] = None
  /\ \A m \in Mon : SlotAt(d, m) /\ pc[d] = "cleanup_close" => monitor[d] = None
  /\ \A m \in Mon : SlotAt(d, m) /\ handle[d] /\ monitor[d] = None
       => pc[d] \in {"detached", "cleanup_close"}
SlotInv == \A d \in Desc : SlotsOfOne(d)

-----------------------------------------------------------------------------
(* Monitors *)

(* A listed monitor is still attached to its owner, or its owner's last reference is just being
   given up. *)
OwnerOf(m, d) ==
  /\ monitor_owner[d]
  /\ \/ monitor[d] = m
     \/ \E t \in Desc : pc[t] = "unlist" /\ down[t] = m /\ victim[t] = d
ListedInv ==
  /\ \A m \in Mon : listed[m] => \E d \in Desc : OwnerOf(m, d)
  /\ \A t \in Desc : pc[t] \in DownPCs \ {"unlist"} /\ IsOwner(t) => ~listed[down[t]]
MonInv == halted # "refcount" => RefcountIsConnections /\ ListedInv

-----------------------------------------------------------------------------
(* Reads *)

(* A thread that is about to tell d of the end of file. *)
Ends(t, d) ==
  /\ pc[t] = "eof_take"
  /\ \E k \in todo[t] : connected_modules[down[t]][k] = d
ClosingPCs == {"cleanup", "cleanup_slots", "cleanup_close", "gone"}

EofInv ==
  \A d \in Desc : irp[d] # 0 /\ ~active[d] /\ ~stale[d] =>
    \/ pc[d] \in ClosingPCs
    \/ \E t \in Desc : Ends(t, d) /\ saw[t] = irp[d]
TakerInv ==
  /\ \A t \in Desc : pc[t] = "direct" /\ irp[ref[t]] # saw[t] => taker[ref[t]] \in {"cancel", "eof"}
  /\ \A t, d \in Desc : Ends(t, d) /\ irp[d] # saw[t] => taker[d] \in {"cancel", "sender"}

QueueInv == QueueBound /\ \A d \in Desc : alloc[d] = "none" => out_queue[d] = <<>>

SInv == IInv /\ LocalsInv /\ SlotInv /\ MonInv /\ EofInv /\ TakerInv /\ QueueInv /\ RacesAreLockless

-----------------------------------------------------------------------------
(* Locals and opened->lock.                                                *)

(* Who holds the lock of a descriptor keeps it: others take only a free one, and give up only
   their own. *)
LEMMA LockKept ==
  ASSUME IInv, LocalsInv, NEW t \in Desc, Step(t), NEW d \in Desc, lock[d] \notin {None, t}
  PROVE  lock'[d] = lock[d]
<1> USE DEF At, Outside, descVars, monVars, threadVars, histVars
<1>1. lock \in [Desc -> Desc \cup {None}]
  BY DEF IInv, TypeOK
<1>2. pc[t] \in RefPCs => ref[t] \in Desc
  BY ThreadFacts
<1>3. pc[t] = "direct" => lock[ref[t]] = t
  BY DEF LocalsInv, LocalsOf
<1>4. CASE SendQueue(t)
  BY <1>1, <1>2, <1>4 DEF SendQueue, CanLock, RefPCs
<1>5. CASE SendSeeIrp(t)
  BY <1>1, <1>2, <1>5 DEF SendSeeIrp, CanLock, RefPCs
<1>6. ASSUME NEW fits \in BOOLEAN, SendTake(t, fits) PROVE lock'[d] = lock[d]
  <2>1. ref[t] \in Desc /\ d # ref[t]
    BY <1>2, <1>3, <1>6 DEF SendTake, RefPCs
  <2> QED
    BY <1>1, <1>6, <2>1 DEF SendTake
<1>7. CASE \/ Open(t) \/ AttachLock(t) \/ AttachUnlock(t) \/ ReadCheck(t)
           \/ ReadBusy(t) \/ ReadPark(t) \/ Cancel(t) \/ SendStale(t)
           \/ SendResume(t) \/ DropRef(t) \/ Cleanup(t) \/ CleanupLock(t)
           \/ CleanupUnlock(t) \/ CleanupClose(t) \/ CloseDesc(t) \/ FreeDesc(t)
           \/ IoctlClose(t) \/ Unlist(t) \/ EndLock(t) \/ EofDrop(t) \/ EndUnlock(t)
           \/ RefdownLoad(t) \/ RefdownStore(t)
           \/ \E m \in Mon : Create(t, m)
           \/ \E m \in Mon, ks \in SUBSET Module : AttachFind(t, m, ks)
           \/ \E k \in Module : AttachEvict(t, k) \/ AttachSlot(t, k)
                    \/ CleanupSlot(t, k) \/ EofMark(t, k)
                    \/ EofTake(t, k) \/ EofStale(t, k) \/ EndSlot(t, k)
           \/ \E n \in 0..MaxSend : ReadDrain(t, n)
           \/ \E k \in Module, filtered \in BOOLEAN : Message(t, k, filtered)
  BY <1>7 DEF Open, Create, AttachFind, AttachLock, AttachEvict, CloseSlotRef, SetSlot,
       AttachSlot, AttachUnlock, ReadCheck, ReadBusy, ReadPark, ReadDrain, Cancel, Message,
       SendStale, SendResume, DropRef, Close, Rest, Cleanup, CleanupStart, CleanupLock,
       CleanupUnlock, CleanupClose, CleanupSlot, CloseDesc, FreeDesc, IoctlClose, Unlist,
       EndLock, EofDrop, EndUnlock, EofMark, AfterEofMark, EofTake, EofStale, EndSlot,
       RefdownLoad, RefdownStore, SetRefcount
<1> QED
  BY <1>4, <1>5, <1>6, <1>7 DEF Step

LEMMA OthersLocals ==
  ASSUME IInv, LocalsInv, NEW t \in Desc, Step(t), NEW u \in Desc \ {t}
  PROVE  LocalsOf(u)'
<1>1. Kept(u)
  BY OthersKept
<1>2. LocalsOf(u) /\ ControlOf(u)
  BY DEF IInv, ControlInv, LocalsInv
<1>3. pc[u] = "direct" => ref[u] \in Desc
  BY ThreadFacts DEF RefPCs
<1>4. pc[u] = "direct" => lock'[ref[u]] = u
  BY <1>2, <1>3, LockKept, ConstantsAssumption DEF LocalsOf
<1>5. down[u] # None /\ victim[u] = None => handle[u]
  BY <1>2 DEF LocalsOf, ControlOf
<1> QED
  BY <1>1, <1>2, <1>4, <1>5 DEF Kept, LocalsOf

LEMMA LocalsStep ==
  ASSUME IInv, LocalsInv, NEW t \in Desc, Step(t)
  PROVE  LocalsOf(t)'
<1> USE DEF LocalsOf, At, Outside, Goto, descVars, monVars, threadVars, histVars,
            EofPCs, EndPCs, DownPCs
<1>1. /\ pc \in [Desc -> PCs] /\ todo \in [Desc -> SUBSET Module]
      /\ ref \in [Desc -> Desc \cup {None}] /\ victim \in [Desc -> Desc \cup {None}]
      /\ down \in [Desc -> Mon \cup {None}] /\ monitor \in [Desc -> Mon \cup {None}]
      /\ lock \in [Desc -> Desc \cup {None}]
      /\ None \notin Desc /\ None \notin Mon
  BY ConstantsAssumption DEF IInv, TypeOK
<1>2. LocalsOf(t)
  BY DEF LocalsInv
<1>3. /\ pc[t] \in RefPCs => ref[t] \in Desc
      /\ pc[t] \in DownPCs => down[t] \in Mon
      /\ pc[t] \in {"close", "free"} => victim[t] \in Desc
  BY ThreadFacts
<1>4. CASE Open(t)
  BY <1>1, <1>2, <1>3, <1>4 DEF Open
<1>5. ASSUME NEW m \in Mon, Create(t, m)
       PROVE  LocalsOf(t)'
  BY <1>1, <1>2, <1>3, <1>5 DEF Create
<1>6. ASSUME NEW m \in Mon, NEW ks \in SUBSET Module, AttachFind(t, m, ks)
       PROVE  LocalsOf(t)'
  BY <1>1, <1>2, <1>3, <1>6 DEF AttachFind
<1>7. CASE AttachLock(t)
  BY <1>1, <1>2, <1>3, <1>7 DEF AttachLock
<1>8. ASSUME NEW k \in Module, AttachEvict(t, k)
       PROVE  LocalsOf(t)'
  BY <1>1, <1>2, <1>3, <1>8 DEF AttachEvict, CloseSlotRef, SetSlot
<1>9. ASSUME NEW k \in Module, AttachSlot(t, k)
       PROVE  LocalsOf(t)'
  BY <1>1, <1>2, <1>3, <1>9 DEF AttachSlot, SetSlot
<1>10. CASE AttachUnlock(t)
  BY <1>1, <1>2, <1>3, <1>10 DEF AttachUnlock
<1>11. CASE ReadCheck(t)
  BY <1>1, <1>2, <1>3, <1>11 DEF ReadCheck
<1>12. CASE ReadBusy(t)
  BY <1>1, <1>2, <1>3, <1>12 DEF ReadBusy
<1>13. CASE ReadPark(t)
  BY <1>1, <1>2, <1>3, <1>13 DEF ReadPark
<1>14. ASSUME NEW n \in 0..MaxSend, ReadDrain(t, n)
       PROVE  LocalsOf(t)'
  BY <1>1, <1>2, <1>3, <1>14 DEF ReadDrain
<1>15. CASE Cancel(t)
  BY <1>1, <1>2, <1>3, <1>15 DEF Cancel
<1>16. ASSUME NEW k \in Module, NEW filtered \in BOOLEAN, Message(t, k, filtered)
       PROVE  LocalsOf(t)'
  BY <1>1, <1>2, <1>3, <1>16 DEF Message, RefPCs
<1>17. CASE SendQueue(t)
  BY <1>1, <1>2, <1>3, <1>17 DEF SendQueue, AfterQueueing, RefPCs
<1>18. CASE SendSeeIrp(t)
  BY <1>1, <1>2, <1>3, <1>18 DEF SendSeeIrp, RefPCs
<1>19. ASSUME NEW fits \in BOOLEAN, SendTake(t, fits)
       PROVE  LocalsOf(t)'
  BY <1>1, <1>2, <1>3, <1>19 DEF SendTake, RefPCs
<1>20. CASE SendStale(t)
  BY <1>1, <1>2, <1>3, <1>20 DEF SendStale
<1>21. CASE SendResume(t)
  BY <1>1, <1>2, <1>3, <1>21 DEF SendResume, RefPCs
<1>22. CASE DropRef(t)
  BY <1>1, <1>2, <1>3, <1>22 DEF DropRef, Close, Rest
<1>23. CASE Cleanup(t)
  BY <1>1, <1>2, <1>3, <1>23 DEF Cleanup, CleanupStart
<1>24. CASE CleanupLock(t)
  BY <1>1, <1>2, <1>3, <1>24 DEF CleanupLock
<1>25. CASE CleanupUnlock(t)
  BY <1>1, <1>2, <1>3, <1>25 DEF CleanupUnlock
<1>26. CASE CleanupClose(t)
  BY <1>1, <1>2, <1>3, <1>26 DEF CleanupClose, Close
<1>27. ASSUME NEW k \in Module, CleanupSlot(t, k)
       PROVE  LocalsOf(t)'
  BY <1>1, <1>2, <1>3, <1>27 DEF CleanupSlot, CloseSlotRef, SetSlot
<1>28. CASE CloseDesc(t)
  BY <1>1, <1>2, <1>3, <1>28 DEF CloseDesc
<1>29. CASE FreeDesc(t)
  BY <1>1, <1>2, <1>3, <1>29 DEF FreeDesc, Rest
<1>30. CASE IoctlClose(t)
  BY <1>1, <1>2, <1>3, <1>30 DEF IoctlClose
<1>31. CASE Unlist(t)
  BY <1>1, <1>2, <1>3, <1>31 DEF Unlist
<1>32. CASE EndLock(t)
  BY <1>1, <1>2, <1>3, <1>32 DEF EndLock
<1>33. CASE EofDrop(t)
  BY <1>1, <1>2, <1>3, <1>33 DEF EofDrop
<1>34. CASE EndUnlock(t)
  BY <1>1, <1>2, <1>3, <1>34 DEF EndUnlock
<1>35. ASSUME NEW k \in Module, EofMark(t, k)
       PROVE  LocalsOf(t)'
  BY <1>1, <1>2, <1>3, <1>35 DEF EofMark, AfterEofMark
<1>36. ASSUME NEW k \in Module, EofTake(t, k)
       PROVE  LocalsOf(t)'
  BY <1>1, <1>2, <1>3, <1>36 DEF EofTake
<1>37. ASSUME NEW k \in Module, EofStale(t, k)
       PROVE  LocalsOf(t)'
  BY <1>1, <1>2, <1>3, <1>37 DEF EofStale
<1>38. ASSUME NEW k \in Module, EndSlot(t, k)
       PROVE  LocalsOf(t)'
  BY <1>1, <1>2, <1>3, <1>38 DEF EndSlot, CloseSlotRef, SetSlot
<1>39. CASE RefdownLoad(t)
  BY <1>1, <1>2, <1>3, <1>39 DEF RefdownLoad
<1>40. CASE RefdownStore(t)
  BY <1>1, <1>2, <1>3, <1>40 DEF RefdownStore, SetRefcount
<1> QED
  BY <1>4, <1>5, <1>6, <1>7, <1>8, <1>9, <1>10, <1>11, <1>12, <1>13, <1>14, <1>15, <1>16,
     <1>17, <1>18, <1>19, <1>20, <1>21, <1>22, <1>23, <1>24, <1>25, <1>26, <1>27, <1>28, <1>29,
     <1>30, <1>31, <1>32, <1>33, <1>34, <1>35, <1>36, <1>37, <1>38, <1>39, <1>40
     DEF Step

-----------------------------------------------------------------------------
(* Slots.                                                                  *)

(* What a step of t does to the slots, handles and attachments.  Only t fills a slot, its own,
   of the monitor it is attached to; only an idle t is attached; a descriptor loses its monitor
   when its last reference is gone, or in CO_MONITOR_IOCTL_CLOSE. *)
SlotMoves(t) ==
  /\ \A d \in Desc, m \in Mon : SlotAt(d, m)' /\ ~SlotAt(d, m) =>
       /\ d = t /\ m = monitor[t] /\ handle'[t] /\ handle[t]
       /\ pc'[t] = "attach_slots" /\ monitor'[t] = monitor[t]
  /\ \A d \in Desc :
       \/ monitor'[d] = monitor[d]
       \/ monitor'[d] = None /\ ~handle[d] /\ ~handle'[d]
       \/ monitor'[d] = None /\ d = t /\ pc'[d] = "detached" /\ handle[d] /\ handle'[d]
       \/ /\ monitor[d] = None /\ d = t /\ handle[d] /\ handle'[d]
          /\ pc[d] = "idle" /\ pc'[d] \in {"idle", "attach"}
  /\ handle[t] # handle'[t] =>
       \/ pc[t] = "new" /\ alloc[t] = "none" /\ handle'[t] /\ pc'[t] = "idle"
       \/ pc[t] = "cleanup_close" /\ ~handle'[t] /\ pc'[t] # "cleanup_close"
  /\ pc'[t] = "cleanup_close" => \/ monitor'[t] = None
                                 \/ \A m \in Mon : monitor[t] = m => ~SlotAt(t, m)'
  /\ pc[t] \in {"detached", "cleanup_close"} /\ handle'[t] /\ monitor[t] = None
       => pc'[t] = "cleanup_close"

LEMMA StepSlotMoves == ASSUME IInv, NEW t \in Desc, Step(t) PROVE SlotMoves(t)
<1> USE DEF SlotMoves, SlotAt, At, Outside, Goto, descVars, monVars, threadVars, histVars
<1>1. /\ pc \in [Desc -> PCs] /\ handle \in [Desc -> BOOLEAN]
      /\ victim \in [Desc -> Desc \cup {None}]
      /\ monitor \in [Desc -> Mon \cup {None}] /\ down \in [Desc -> Mon \cup {None}]
      /\ connected_modules \in [Mon -> [Module -> Desc \cup {None}]]
      /\ None \notin Desc /\ None \notin Mon
  BY ConstantsAssumption DEF IInv, TypeOK
<1>2. /\ pc[t] \in SlotPCs \cup {"attach", "cleanup"} => monitor[t] \in Mon
      /\ pc[t] \in HandlePCs => handle[t]
      /\ pc[t] \in DownPCs => down[t] \in Mon /\ (handle[t] \/ victim[t] # None)
      /\ pc[t] = "new" => alloc[t] = "none"
      /\ pc[t] \in {"close", "free"} => victim[t] \in Desc /\ ~handle[victim[t]]
  <2>1. victim[t] \in Desc => ~handle[victim[t]]
    <3>1. victim[t] \in Desc => ref_count[victim[t]] = 0
      BY DEF IInv, RefExact
    <3> QED
      BY <3>1, Counted DEF IInv
  <2> QED
    BY <2>1, ThreadFacts DEF IInv, ControlInv, ControlOf
<1>3. CASE Open(t)
  BY <1>1, <1>2, <1>3 DEF Open, HandlePCs, DownPCs, EndPCs, EofPCs, SlotPCs
<1>4. ASSUME NEW m \in Mon, Create(t, m)
       PROVE  SlotMoves(t)
  BY <1>1, <1>2, <1>4 DEF Create, HandlePCs, DownPCs, EndPCs, EofPCs, SlotPCs
<1>5. ASSUME NEW m \in Mon, NEW ks \in SUBSET Module, AttachFind(t, m, ks)
       PROVE  SlotMoves(t)
  BY <1>1, <1>2, <1>5 DEF AttachFind, HandlePCs, DownPCs, EndPCs, EofPCs, SlotPCs
<1>6. CASE AttachLock(t)
  BY <1>1, <1>2, <1>6 DEF AttachLock, HandlePCs, DownPCs, EndPCs, EofPCs, SlotPCs
<1>7. ASSUME NEW k \in Module, AttachEvict(t, k)
       PROVE  SlotMoves(t)
  BY <1>1, <1>2, <1>7 DEF AttachEvict, CloseSlotRef, SetSlot, HandlePCs, DownPCs, EndPCs, EofPCs, SlotPCs
<1>8. ASSUME NEW k \in Module, AttachSlot(t, k)
       PROVE  SlotMoves(t)
  BY <1>1, <1>2, <1>8 DEF AttachSlot, SetSlot, HandlePCs, DownPCs, EndPCs, EofPCs, SlotPCs
<1>9. CASE AttachUnlock(t)
  BY <1>1, <1>2, <1>9 DEF AttachUnlock, HandlePCs, DownPCs, EndPCs, EofPCs, SlotPCs
<1>10. CASE ReadCheck(t)
  BY <1>1, <1>2, <1>10 DEF ReadCheck, HandlePCs, DownPCs, EndPCs, EofPCs, SlotPCs
<1>11. CASE ReadBusy(t)
  BY <1>1, <1>2, <1>11 DEF ReadBusy, HandlePCs, DownPCs, EndPCs, EofPCs, SlotPCs
<1>12. CASE ReadPark(t)
  BY <1>1, <1>2, <1>12 DEF ReadPark, HandlePCs, DownPCs, EndPCs, EofPCs, SlotPCs
<1>13. ASSUME NEW n \in 0..MaxSend, ReadDrain(t, n)
       PROVE  SlotMoves(t)
  BY <1>1, <1>2, <1>13 DEF ReadDrain, HandlePCs, DownPCs, EndPCs, EofPCs, SlotPCs
<1>14. CASE Cancel(t)
  BY <1>1, <1>2, <1>14 DEF Cancel, HandlePCs, DownPCs, EndPCs, EofPCs, SlotPCs
<1>15. ASSUME NEW k \in Module, NEW filtered \in BOOLEAN, Message(t, k, filtered)
       PROVE  SlotMoves(t)
  BY <1>1, <1>2, <1>15 DEF Message, HandlePCs, DownPCs, EndPCs, EofPCs, SlotPCs
<1>16. CASE SendQueue(t)
  BY <1>1, <1>2, <1>16 DEF SendQueue, AfterQueueing, HandlePCs, DownPCs, EndPCs, EofPCs, SlotPCs
<1>17. CASE SendSeeIrp(t)
  BY <1>1, <1>2, <1>17 DEF SendSeeIrp, HandlePCs, DownPCs, EndPCs, EofPCs, SlotPCs
<1>18. ASSUME NEW fits \in BOOLEAN, SendTake(t, fits)
       PROVE  SlotMoves(t)
  BY <1>1, <1>2, <1>18 DEF SendTake, HandlePCs, DownPCs, EndPCs, EofPCs, SlotPCs
<1>19. CASE SendStale(t)
  BY <1>1, <1>2, <1>19 DEF SendStale, HandlePCs, DownPCs, EndPCs, EofPCs, SlotPCs
<1>20. CASE SendResume(t)
  BY <1>1, <1>2, <1>20 DEF SendResume, HandlePCs, DownPCs, EndPCs, EofPCs, SlotPCs
<1>21. CASE DropRef(t)
  BY <1>1, <1>2, <1>21 DEF DropRef, Close, Rest, HandlePCs, DownPCs, EndPCs, EofPCs, SlotPCs
<1>22. CASE Cleanup(t)
  BY <1>1, <1>2, <1>22 DEF Cleanup, CleanupStart, HandlePCs, DownPCs, EndPCs, EofPCs, SlotPCs
<1>23. CASE CleanupLock(t)
  BY <1>1, <1>2, <1>23 DEF CleanupLock, HandlePCs, DownPCs, EndPCs, EofPCs, SlotPCs
<1>24. CASE CleanupUnlock(t)
  BY <1>1, <1>2, <1>24 DEF CleanupUnlock, HandlePCs, DownPCs, EndPCs, EofPCs, SlotPCs
<1>25. CASE CleanupClose(t)
  BY <1>1, <1>2, <1>25 DEF CleanupClose, Close, HandlePCs, DownPCs, EndPCs, EofPCs, SlotPCs
<1>26. ASSUME NEW k \in Module, CleanupSlot(t, k)
       PROVE  SlotMoves(t)
  BY <1>1, <1>2, <1>26 DEF CleanupSlot, CloseSlotRef, SetSlot, HandlePCs, DownPCs, EndPCs, EofPCs, SlotPCs
<1>27. CASE CloseDesc(t)
  BY <1>1, <1>2, <1>27 DEF CloseDesc, HandlePCs, DownPCs, EndPCs, EofPCs, SlotPCs
<1>28. CASE FreeDesc(t)
  BY <1>1, <1>2, <1>28 DEF FreeDesc, Rest, HandlePCs, DownPCs, EndPCs, EofPCs, SlotPCs
<1>29. CASE IoctlClose(t)
  BY <1>1, <1>2, <1>29 DEF IoctlClose, HandlePCs, DownPCs, EndPCs, EofPCs, SlotPCs
<1>30. CASE Unlist(t)
  BY <1>1, <1>2, <1>30 DEF Unlist, HandlePCs, DownPCs, EndPCs, EofPCs, SlotPCs
<1>31. CASE EndLock(t)
  BY <1>1, <1>2, <1>31 DEF EndLock, HandlePCs, DownPCs, EndPCs, EofPCs, SlotPCs
<1>32. CASE EofDrop(t)
  BY <1>1, <1>2, <1>32 DEF EofDrop, HandlePCs, DownPCs, EndPCs, EofPCs, SlotPCs
<1>33. CASE EndUnlock(t)
  BY <1>1, <1>2, <1>33 DEF EndUnlock, HandlePCs, DownPCs, EndPCs, EofPCs, SlotPCs
<1>34. ASSUME NEW k \in Module, EofMark(t, k)
       PROVE  SlotMoves(t)
  BY <1>1, <1>2, <1>34 DEF EofMark, AfterEofMark, HandlePCs, DownPCs, EndPCs, EofPCs, SlotPCs
<1>35. ASSUME NEW k \in Module, EofTake(t, k)
       PROVE  SlotMoves(t)
  BY <1>1, <1>2, <1>35 DEF EofTake, HandlePCs, DownPCs, EndPCs, EofPCs, SlotPCs
<1>36. ASSUME NEW k \in Module, EofStale(t, k)
       PROVE  SlotMoves(t)
  BY <1>1, <1>2, <1>36 DEF EofStale, HandlePCs, DownPCs, EndPCs, EofPCs, SlotPCs
<1>37. ASSUME NEW k \in Module, EndSlot(t, k)
       PROVE  SlotMoves(t)
  BY <1>1, <1>2, <1>37 DEF EndSlot, CloseSlotRef, SetSlot, HandlePCs, DownPCs, EndPCs, EofPCs, SlotPCs
<1>38. CASE RefdownLoad(t)
  BY <1>1, <1>2, <1>38 DEF RefdownLoad, HandlePCs, DownPCs, EndPCs, EofPCs, SlotPCs
<1>39. CASE RefdownStore(t)
  BY <1>1, <1>2, <1>39 DEF RefdownStore, SetRefcount, HandlePCs, DownPCs, EndPCs, EofPCs, SlotPCs
<1> QED
  BY <1>3, <1>4, <1>5, <1>6, <1>7, <1>8, <1>9, <1>10, <1>11, <1>12, <1>13, <1>14, <1>15, <1>16,
     <1>17, <1>18, <1>19, <1>20, <1>21, <1>22, <1>23, <1>24, <1>25, <1>26, <1>27, <1>28, <1>29,
     <1>30, <1>31, <1>32, <1>33, <1>34, <1>35, <1>36, <1>37, <1>38, <1>39
     DEF Step

LEMMA SlotStep ==
  ASSUME IInv, SlotInv, NEW t \in Desc, Step(t), NEW d \in Desc
  PROVE  SlotsOfOne(d)'
<1> USE DEF SlotMoves
<1>1. SlotMoves(t) /\ SlotsOfOne(d) /\ IInv'
  BY StepSlotMoves, StepIInv DEF SlotInv
<1>2. /\ handle \in [Desc -> BOOLEAN] /\ handle' \in [Desc -> BOOLEAN]
      /\ monitor \in [Desc -> Mon \cup {None}] /\ None \notin Mon
  BY <1>1, ConstantsAssumption DEF IInv, TypeOK
<1>3. d # t => pc'[d] = pc[d] /\ handle'[d] = handle[d]
  BY OthersKept DEF Kept
<1>4. ASSUME NEW m \in Mon, SlotAt(d, m) PROVE alloc[d] # "none"
  <2>1. ref_count[d] >= 1
    BY <1>4, Counted DEF IInv, SlotAt
  <2> QED
    BY <2>1 DEF IInv, RefExact
<1>5. pc'[d] = "attach_slots" => monitor'[d] # None
  BY <1>1 DEF IInv, ControlInv, ControlOf, SlotPCs
<1> USE DEF SlotsOfOne
<1>6. \A m \in Mon : SlotAt(d, m)' /\ ~SlotAt(d, m) => monitor[d] = m /\ monitor'[d] = m
  BY <1>1
<1>7. (\A m, n \in Mon : SlotAt(d, m) /\ SlotAt(d, n) => m = n)'
  BY <1>1, <1>2, <1>6
<1>8. ASSUME NEW m \in Mon, SlotAt(d, m)', monitor'[d] # None PROVE monitor'[d] = m
  BY <1>1, <1>2, <1>6, <1>8
<1>9. ASSUME NEW m \in Mon, SlotAt(d, m)', ~handle'[d] PROVE monitor'[d] = None
  <2>1. SlotAt(d, m)
    BY <1>1, <1>9
  <2> QED
    BY <1>1, <1>2, <1>3, <1>9, <2>1
<1>10. ASSUME NEW m \in Mon, SlotAt(d, m)', pc'[d] = "cleanup_close" PROVE monitor'[d] = None
  <2>1. SlotAt(d, m)
    BY <1>1, <1>10
  <2> QED
    BY <1>1, <1>2, <1>3, <1>10, <2>1
<1>11. ASSUME NEW m \in Mon, SlotAt(d, m)', handle'[d], monitor'[d] = None
       PROVE  pc'[d] \in {"detached", "cleanup_close"}
  <2>1. SlotAt(d, m) /\ alloc[d] # "none"
    BY <1>4, <1>6, <1>11, <1>2
  <2>2. handle[d]
    BY <1>1, <1>2, <1>3, <1>11, <2>1
  <2>3. CASE monitor[d] = None
    BY <1>1, <1>3, <1>11, <2>1, <2>2, <2>3
  <2>4. CASE monitor[d] # None
    BY <1>1, <1>11, <2>2, <2>4
  <2> QED
    BY <2>3, <2>4
<1> QED
  BY <1>7, <1>8, <1>9, <1>10, <1>11

-----------------------------------------------------------------------------
(* Monitors.                                                               *)

(* The descriptors that a thread is giving the monitor of a closed descriptor up for. *)
closing == [t \in Desc |-> IF victim[t] # None THEN down[t] ELSE None]

LEMMA ConnectionsSum ==
  \A m \in Mon : Connections(m) = Cardinality(HolderSet(monitor, m))
                                    + Cardinality(HolderSet(closing, m))
<1> TAKE m \in Mon
<1>1. {t \in Desc : down[t] = m /\ victim[t] # None} = HolderSet(closing, m)
  BY ConstantsAssumption DEF closing, HolderSet
<1> QED
  BY <1>1 DEF Connections, HolderSet

(* g is f but for x at t; g is f. *)
Moves(f, g, t, x) == \A u \in Desc : g[u] = IF u = t THEN x ELSE f[u]
Same(f, g) == \A u \in Desc : g[u] = f[u]

(* Changing a function at t moves t from one of the sets HolderSet counts to another. *)
LEMMA FunctionChange ==
  ASSUME NEW f, NEW g, NEW t \in Desc, NEW x, Moves(f, g, t, x), NEW m
  PROVE  Cardinality(HolderSet(g, m))
           = Cardinality(HolderSet(f, m)) + One(x = m) - One(f[t] = m)
<1> DEFINE S == HolderSet(f, m)
<1>1. HolderSet(g, m) = IF x = m THEN S \cup {t} ELSE S \ {t}
  BY DEF HolderSet, Moves
<1>2. t \in S <=> f[t] = m
  BY DEF HolderSet
<1>3. IsFiniteSet(S) /\ Cardinality(S) \in Nat
  BY HoldersFinite
<1> HIDE DEF S
<1>4. /\ Cardinality(S \cup {t}) = IF t \in S THEN Cardinality(S) ELSE Cardinality(S) + 1
      /\ Cardinality(S \ {t}) = IF t \in S THEN Cardinality(S) - 1 ELSE Cardinality(S)
  BY <1>3, FS_AddElement, FS_RemoveElement
<1>5. Cardinality(HolderSet(g, m)) = Cardinality(S) + One(x = m) - One(f[t] = m)
  BY <1>1, <1>2, <1>3, <1>4 DEF One
<1> QED
  BY <1>5 DEF S

LEMMA SameHolders ==
  ASSUME NEW f, NEW g, Same(f, g), NEW m
  PROVE  HolderSet(g, m) = HolderSet(f, m)
BY DEF HolderSet, Same

(* A monitor that some descriptor is attached to, or some thread is giving up, is counted. *)
LEMMA Connected ==
  ASSUME NEW m \in Mon, NEW t \in Desc, monitor[t] = m \/ closing[t] = m
  PROVE  Connections(m) \in Nat /\ Connections(m) >= 1
<1> DEFINE A == HolderSet(monitor, m)
           B == HolderSet(closing, m)
<1>1. /\ IsFiniteSet(A) /\ Cardinality(A) \in Nat /\ (Cardinality(A) = 0 <=> A = {})
      /\ IsFiniteSet(B) /\ Cardinality(B) \in Nat /\ (Cardinality(B) = 0 <=> B = {})
  <2>1. A \in SUBSET Desc /\ B \in SUBSET Desc
    BY DEF HolderSet
  <2> QED
    BY <2>1, HoldersFinite, FS_EmptySet, FS_Subset, ConstantsAssumption
<1>2. A # {} \/ B # {}
  BY DEF HolderSet
<1>3. Connections(m) = Cardinality(A) + Cardinality(B)
  BY ConnectionsSum
<1> HIDE DEF A, B
<1> QED
  BY <1>1, <1>2, <1>3

(* Nothing steps once the model has halted. *)
LEMMA StepRuns == ASSUME NEW t \in Desc, Step(t) PROVE halted = "no"
BY ConstantsAssumption DEF Step, Open, Create, AttachFind, AttachLock, AttachEvict,
     AttachSlot, AttachUnlock, ReadCheck, ReadBusy, ReadPark, ReadDrain, Cancel, Message,
     SendQueue, SendSeeIrp, SendTake, SendStale, SendResume, DropRef, Cleanup, CleanupLock,
     CleanupUnlock, CleanupClose, CleanupSlot, CloseDesc, FreeDesc, IoctlClose, Unlist,
     EndLock, EofDrop, EndUnlock, EofMark, EofTake, EofStale, EndSlot, RefdownLoad,
     RefdownStore, At, Outside

(* The reference count of a monitor changes with its connections. *)
LEMMA RefcountStep ==
  ASSUME IInv, LocalsInv, MonInv, NEW t \in Desc, Step(t), halted' # "refcount"
  PROVE  RefcountIsConnections'
<1> USE DEF At, Outside, Goto, descVars, monVars, threadVars, histVars, DownPCs, EndPCs, EofPCs
<1>1. /\ monitor \in [Desc -> Mon \cup {None}] /\ down \in [Desc -> Mon \cup {None}]
      /\ victim \in [Desc -> Desc \cup {None}] /\ loaded \in [Desc -> Int]
      /\ refcount \in [Mon -> Int] /\ mstate \in [Mon -> {"none", "live", "destroyed"}]
      /\ None \notin Desc /\ None \notin Mon
  BY ConstantsAssumption DEF IInv, TypeOK
<1>2. halted = "no"
  BY StepRuns
<1>3. \A m \in Mon : /\ refcount[m] = Connections(m)
                     /\ mstate[m] = "live" <=> refcount[m] > 0
  BY <1>2 DEF MonInv, RefcountIsConnections
<1>4. LocalsOf(t)
  BY DEF LocalsInv
<1>5. /\ pc[t] \in DownPCs => down[t] \in Mon
      /\ pc[t] \in {"close", "free"} => victim[t] \in Desc
  BY ThreadFacts
<1>6. \A m \in Mon : /\ Connections(m) \in Nat
                     /\ Cardinality(HolderSet(monitor, m)) \in Nat
                     /\ Cardinality(HolderSet(closing, m)) \in Nat
                     /\ Connections(m) = Cardinality(HolderSet(monitor, m))
                                           + Cardinality(HolderSet(closing, m))
                     /\ Connections(m)' = Cardinality(HolderSet(monitor', m))
                                            + Cardinality(HolderSet(closing', m))
  <2>1. \A m \in Mon : Connections(m)' = Cardinality(HolderSet(monitor', m))
                                           + Cardinality(HolderSet(closing', m))
    <3> TAKE m \in Mon
    <3>1. {u \in Desc : down'[u] = m /\ victim'[u] # None} = HolderSet(closing', m)
      BY ConstantsAssumption DEF closing, HolderSet
    <3> QED
      BY <3>1 DEF Connections, HolderSet
  <2> QED
    BY <2>1, ConnectionsSum, HoldersFinite
<1>7. CASE /\ Same(monitor, monitor') /\ Same(closing, closing')
           /\ UNCHANGED <<refcount, mstate>>
  <2>1. \A m \in Mon : /\ HolderSet(monitor', m) = HolderSet(monitor, m)
                       /\ HolderSet(closing', m) = HolderSet(closing, m)
    BY <1>7, SameHolders
  <2> QED
    BY <1>3, <1>6, <1>7, <2>1 DEF RefcountIsConnections
<1>8. ASSUME NEW m \in Mon, Create(t, m) PROVE RefcountIsConnections'
  <2>1. Moves(monitor, monitor', t, m) /\ Same(closing, closing')
    BY <1>1, <1>8 DEF Create, closing, Moves, Same
  <2>2. \A n \in Mon : /\ Cardinality(HolderSet(monitor', n))
                            = Cardinality(HolderSet(monitor, n)) + One(m = n) - One(monitor[t] = n)
                       /\ HolderSet(closing', n) = HolderSet(closing, n)
    BY <2>1, FunctionChange, SameHolders
  <2>3. /\ monitor[t] = None /\ refcount[m] = 0
        /\ refcount' = [refcount EXCEPT ![m] = 1] /\ mstate' = [mstate EXCEPT ![m] = "live"]
    BY <1>1, <1>3, <1>6, <1>8 DEF Create
  <2> QED
    BY <1>1, <1>3, <1>6, <2>2, <2>3 DEF RefcountIsConnections, One
<1>9. ASSUME NEW m \in Mon, NEW ks \in SUBSET Module, AttachFind(t, m, ks)
      PROVE  RefcountIsConnections'
  <2>1. Moves(monitor, monitor', t, m) /\ Same(closing, closing')
    BY <1>1, <1>9 DEF AttachFind, closing, Moves, Same
  <2>2. \A n \in Mon : /\ Cardinality(HolderSet(monitor', n))
                            = Cardinality(HolderSet(monitor, n)) + One(m = n) - One(monitor[t] = n)
                       /\ HolderSet(closing', n) = HolderSet(closing, n)
    BY <2>1, FunctionChange, SameHolders
  <2>3. mstate[m] = "live"
    <3>1. PICK d \in Desc : OwnerOf(m, d)
      BY <1>2, <1>9 DEF MonInv, ListedInv, AttachFind
    <3>2. \E u \in Desc : monitor[u] = m \/ closing[u] = m
      BY <3>1, <1>1 DEF OwnerOf, closing
    <3> QED
      BY <1>3, <3>2, Connected
  <2>4. monitor[t] = None /\ refcount' = [refcount EXCEPT ![m] = @ + 1] /\ mstate' = mstate
    BY <1>9 DEF AttachFind, Attached
  <2> QED
    BY <1>1, <1>3, <1>6, <2>2, <2>3, <2>4 DEF RefcountIsConnections, One
<1>10. CASE CloseDesc(t)
  <2> DEFINE d == victim[t]
             m == monitor[d]
  <2>1. d \in Desc /\ down[t] = None
    BY <1>4, <1>5, <1>10 DEF CloseDesc, LocalsOf
  <2>2. CASE m = None
    <3>1. Same(monitor, monitor') /\ Same(closing, closing')
      BY <1>1, <1>10, <2>1, <2>2 DEF CloseDesc, closing, Same
    <3> QED
      BY <1>7, <1>10, <3>1 DEF CloseDesc
  <2>3. CASE m # None
    <3>1. m \in Mon /\ m # None /\ closing[t] = None
      BY <1>1, <2>1, <2>3 DEF closing
    <3>2. Moves(monitor, monitor', d, None) /\ Moves(closing, closing', t, m)
      <4>1. /\ monitor' = [monitor EXCEPT ![d] = None] /\ victim' = victim
            /\ down' = [down EXCEPT ![t] = m]
        BY <1>10, <2>3 DEF CloseDesc
      <4> QED
        BY <1>1, <2>1, <3>1, <4>1 DEF closing, Moves
    <3> HIDE DEF m, d
    <3>3. \A n \in Mon : Cardinality(HolderSet(monitor', n))
                           = Cardinality(HolderSet(monitor, n)) + One(None = n) - One(monitor[d] = n)
      BY <2>1, <3>2, FunctionChange
    <3>4. \A n \in Mon : Cardinality(HolderSet(closing', n))
                           = Cardinality(HolderSet(closing, n)) + One(m = n) - One(closing[t] = n)
      BY <3>2, FunctionChange
    <3>5. monitor[d] = m /\ UNCHANGED <<refcount, mstate>>
      BY <1>10 DEF CloseDesc, d, m
    <3>6. \A n \in Mon : Connections(n)' = Connections(n)
      BY <1>1, <1>6, <3>1, <3>3, <3>4, <3>5 DEF One
    <3> QED
      BY <1>3, <3>5, <3>6 DEF RefcountIsConnections
  <2> QED
    BY <2>2, <2>3
<1>11. CASE RefdownStore(t)
  <2> DEFINE m == down[t]
  <2>1. m \in Mon
    BY <1>5, <1>11 DEF RefdownStore
  <2>2. /\ refcount' = [refcount EXCEPT ![m] = refcount[m] - 1]
        /\ mstate' = IF refcount[m] - 1 = 0 THEN [mstate EXCEPT ![m] = "destroyed"] ELSE mstate
    BY <1>2, <1>11 DEF RefdownStore, SetRefcount
  <2>3. monitor[t] = m \/ closing[t] = m
    BY <1>1, <1>4, <1>11, <2>1 DEF LocalsOf, closing
  <2>4. \A n \in Mon : Connections(n)' = Connections(n) - One(m = n)
    <3>1. CASE victim[t] # None
      <4>1. Same(monitor, monitor') /\ Moves(closing, closing', t, None)
        BY <1>1, <1>11, <3>1 DEF RefdownStore, SetRefcount, closing, Moves, Same
      <4>2. \A n \in Mon : /\ Cardinality(HolderSet(closing', n))
                                = Cardinality(HolderSet(closing, n)) + One(None = n) - One(closing[t] = n)
                           /\ HolderSet(monitor', n) = HolderSet(monitor, n)
        BY <4>1, FunctionChange, SameHolders
      <4>3. closing[t] = m
        BY <3>1 DEF closing
      <4> QED
        BY <1>1, <1>6, <4>2, <4>3 DEF One
    <3>2. CASE victim[t] = None
      <4>1. Moves(monitor, monitor', t, None) /\ Same(closing, closing')
        BY <1>1, <1>11, <3>2 DEF RefdownStore, SetRefcount, closing, Moves, Same
      <4>2. \A n \in Mon : /\ Cardinality(HolderSet(monitor', n))
                                = Cardinality(HolderSet(monitor, n)) + One(None = n) - One(monitor[t] = n)
                           /\ HolderSet(closing', n) = HolderSet(closing, n)
        BY <4>1, FunctionChange, SameHolders
      <4>3. monitor[t] = m
        BY <1>4, <2>1, <1>1, <3>2 DEF LocalsOf
      <4> HIDE DEF m
      <4>4. \A n \in Mon : n # None /\ One(None = n) = 0
        BY <1>1 DEF One
      <4> QED
        BY <1>6, <4>2, <4>3, <4>4 DEF One
    <3> QED
      BY <3>1, <3>2
  <2>5. Connections(m) >= 1
    BY <2>1, <2>3, Connected
  <2> HIDE DEF m
  <2> QED
    BY <1>1, <1>3, <1>6, <2>1, <2>2, <2>4, <2>5 DEF RefcountIsConnections, One
<1>12. CASE DropRef(t) \/ CleanupClose(t) \/ FreeDesc(t) \/ IoctlClose(t)
  <2>1. UNCHANGED <<monitor, refcount, mstate>>
    BY <1>12 DEF DropRef, CleanupClose, FreeDesc, IoctlClose
  <2>2. /\ \A u \in Desc \ {t} : victim'[u] = victim[u] /\ down'[u] = down[u]
        /\ closing[t] = None /\ closing'[t] = None
    BY <1>1, <1>4, <1>12
       DEF DropRef, CleanupClose, FreeDesc, IoctlClose, Close, LocalsOf, closing
  <2>3. Same(monitor, monitor') /\ Same(closing, closing')
    BY <2>1, <2>2 DEF closing, Same
  <2> QED
    BY <1>7, <2>1, <2>3
<1>13. CASE \/ Open(t) \/ AttachLock(t) \/ AttachUnlock(t) \/ ReadCheck(t)
            \/ ReadBusy(t) \/ ReadPark(t) \/ Cancel(t) \/ SendQueue(t)
            \/ SendSeeIrp(t) \/ SendStale(t) \/ SendResume(t) \/ Cleanup(t)
            \/ CleanupLock(t) \/ CleanupUnlock(t) \/ Unlist(t) \/ EndLock(t)
            \/ EofDrop(t) \/ EndUnlock(t) \/ RefdownLoad(t)
            \/ \E k \in Module : AttachEvict(t, k) \/ AttachSlot(t, k)
                    \/ CleanupSlot(t, k) \/ EofMark(t, k)
                    \/ EofTake(t, k) \/ EofStale(t, k) \/ EndSlot(t, k)
            \/ \E n \in 0..MaxSend : ReadDrain(t, n)
            \/ \E k \in Module, filtered \in BOOLEAN : Message(t, k, filtered)
            \/ \E fits \in BOOLEAN : SendTake(t, fits)
  <2>1. UNCHANGED <<monitor, down, victim, refcount, mstate>>
    BY <1>13 DEF Open, AttachLock, AttachEvict, CloseSlotRef, SetSlot, AttachSlot,
         AttachUnlock, ReadCheck, ReadBusy, ReadPark, ReadDrain, Cancel, Message, SendQueue,
         AfterQueueing, SendSeeIrp, SendTake, SendStale, SendResume, Cleanup, CleanupStart,
         CleanupLock, CleanupUnlock, CleanupSlot, Unlist, EndLock, EofDrop, EndUnlock, EofMark,
         AfterEofMark, EofTake, EofStale, EndSlot, RefdownLoad
  <2> QED
    BY <1>7, <2>1 DEF closing, Same
<1> QED
  BY <1>8, <1>9, <1>10, <1>11, <1>12, <1>13 DEF Step


(* A descriptor that is being closed has no handle. *)
LEMMA VictimClosed ==
  ASSUME IInv, NEW t \in Desc, NEW d \in Desc, victim[t] = d
  PROVE  ~handle[d]
<1>1. ref_count[d] = 0
  BY DEF IInv, RefExact
<1> QED
  BY <1>1, Counted DEF IInv

(* A step that changes neither the list nor the attachments, and that enters the part of
   co_monitor_refdown behind the removal from the list only from there. *)
Quiet(t) ==
  /\ UNCHANGED <<listed, monitor, monitor_owner>>
  /\ pc[t] # "unlist"
  /\ pc'[t] \in DownPCs \ {"unlist"} =>
       pc[t] \in DownPCs /\ down'[t] = down[t] /\ victim'[t] = victim[t]

LEMMA ListedStep ==
  ASSUME IInv, LocalsInv, RefcountIsConnections, ListedInv, NEW t \in Desc, Step(t)
  PROVE  ListedInv'
<1> USE DEF At, Outside, Goto, descVars, monVars, threadVars, histVars, DownPCs, EndPCs, EofPCs
<1>1. /\ monitor \in [Desc -> Mon \cup {None}] /\ down \in [Desc -> Mon \cup {None}]
      /\ monitor_owner \in [Desc -> BOOLEAN] /\ listed \in [Mon -> BOOLEAN]
      /\ victim \in [Desc -> Desc \cup {None}] /\ pc \in [Desc -> PCs]
      /\ None \notin Desc /\ None \notin Mon
  BY ConstantsAssumption DEF IInv, TypeOK
<1>2. LocalsOf(t)
  BY DEF LocalsInv
<1>3. /\ pc[t] \in DownPCs => down[t] \in Mon /\ (handle[t] \/ victim[t] # None)
      /\ pc[t] \in {"close", "free"} => victim[t] \in Desc
      /\ pc[t] \in HandlePCs => handle[t]
  BY ThreadFacts
<1>4. \A u \in Desc \ {t} : /\ pc'[u] = pc[u] /\ down'[u] = down[u] /\ victim'[u] = victim[u]
                            /\ pc[u] \in DownPCs => down[u] \in Mon
  BY OthersKept, ThreadFacts DEF Kept
<1>5. \A m \in Mon : listed[m] => \E d \in Desc : OwnerOf(m, d)
  BY DEF ListedInv
<1>6. \A u \in Desc : pc[u] \in DownPCs \ {"unlist"} /\ IsOwner(u) => ~listed[down[u]]
  BY DEF ListedInv
<1>7. CASE Quiet(t)
  <2>1. \A m \in Mon, d \in Desc : OwnerOf(m, d) => OwnerOf(m, d)'
    BY <1>4, <1>7 DEF OwnerOf, Quiet
  <2>2. \A u \in Desc : pc'[u] \in DownPCs \ {"unlist"} /\ IsOwner(u)' => ~listed'[down'[u]]
    BY <1>4, <1>6, <1>7 DEF Quiet, IsOwner
  <2> QED
    BY <1>5, <1>7, <2>1, <2>2 DEF ListedInv, Quiet
<1>8. ASSUME NEW m \in Mon, Create(t, m) PROVE ListedInv'
  <2>1. /\ listed' = [listed EXCEPT ![m] = TRUE] /\ monitor' = [monitor EXCEPT ![t] = m]
        /\ monitor_owner' = [monitor_owner EXCEPT ![t] = TRUE]
        /\ pc[t] = "idle" /\ pc' = pc /\ down' = down /\ victim' = victim
        /\ monitor[t] = None /\ mstate[m] = "none"
    BY <1>8 DEF Create
  <2>2. \A n \in Mon, d \in Desc : OwnerOf(n, d) => OwnerOf(n, d)'
    BY <1>1, <2>1 DEF OwnerOf
  <2>3. OwnerOf(m, t)'
    BY <1>1, <2>1 DEF OwnerOf
  <2>4. \A n \in Mon : listed'[n] => \E d \in Desc : OwnerOf(n, d)'
    BY <1>1, <1>5, <2>1, <2>2, <2>3
  <2>5. ASSUME NEW u \in Desc, pc'[u] \in DownPCs \ {"unlist"}, IsOwner(u)'
        PROVE  ~listed'[down'[u]]
    <3>1. u # t /\ down[u] \in Mon /\ LocalsOf(u)
      BY <1>4, <2>1, <2>5 DEF LocalsInv
    <3>2. victim[u] # t
      BY <1>3, <2>1, VictimClosed DEF HandlePCs
    <3>3. IsOwner(u)
      BY <1>1, <2>1, <2>5, <3>1, <3>2 DEF IsOwner
    <3>4. monitor[u] = down[u] \/ closing[u] = down[u]
      BY <1>1, <3>1 DEF LocalsOf, closing
    <3>5. down[u] # m
      <4>1. ~(refcount[m] > 0) /\ refcount[m] = Connections(m)
        BY <2>1 DEF RefcountIsConnections
      <4> QED
        BY <3>4, <4>1, Connected
    <3> QED
      BY <1>1, <1>6, <2>1, <2>5, <3>1, <3>3, <3>5
  <2> QED
    BY <2>4, <2>5 DEF ListedInv
<1>9. ASSUME NEW m \in Mon, NEW ks \in SUBSET Module, AttachFind(t, m, ks)
      PROVE  ListedInv'
  <2>1. /\ UNCHANGED <<listed, monitor_owner, down, victim>>
        /\ monitor' = [monitor EXCEPT ![t] = m] /\ monitor[t] = None
        /\ pc[t] = "idle" /\ pc'[t] = "attach"
    BY <1>1, <1>9 DEF AttachFind
  <2>2. \A n \in Mon, d \in Desc : OwnerOf(n, d) => OwnerOf(n, d)'
    BY <1>1, <1>4, <2>1 DEF OwnerOf
  <2>3. \A u \in Desc : pc'[u] \in DownPCs \ {"unlist"} /\ IsOwner(u)' => ~listed'[down'[u]]
    BY <1>4, <1>6, <2>1 DEF IsOwner
  <2> QED
    BY <1>5, <2>1, <2>2, <2>3 DEF ListedInv
<1>10. CASE CloseDesc(t)
  <2>1. CASE monitor[victim[t]] = None
    <3>1. Quiet(t)
      BY <1>1, <1>10, <2>1 DEF CloseDesc, Quiet
    <3> QED
      BY <1>7, <3>1
  <2>2. CASE monitor[victim[t]] # None
    <3> DEFINE d == victim[t]
    <3>1. /\ d \in Desc /\ pc[t] = "close" /\ pc'[t] = "unlist"
          /\ UNCHANGED <<listed, monitor_owner, victim>>
          /\ down'[t] = monitor[d] /\ monitor' = [monitor EXCEPT ![d] = None]
      BY <1>1, <1>3, <1>10, <2>2 DEF CloseDesc
    <3> HIDE DEF d
    <3>2. \A n \in Mon, e \in Desc : OwnerOf(n, e) => OwnerOf(n, e)'
      <4> SUFFICES ASSUME NEW n \in Mon, NEW e \in Desc, OwnerOf(n, e) PROVE OwnerOf(n, e)'
        OBVIOUS
      <4>1. CASE e = d /\ monitor[e] = n
        BY <3>1, <4>1 DEF OwnerOf, d
      <4>2. CASE e # d /\ monitor[e] = n
        BY <1>1, <3>1, <4>2 DEF OwnerOf
      <4>3. CASE \E u \in Desc : pc[u] = "unlist" /\ down[u] = n /\ victim[u] = e
        BY <1>4, <3>1, <4>3 DEF OwnerOf
      <4> QED
        BY <4>1, <4>2, <4>3 DEF OwnerOf
    <3>3. \A u \in Desc : pc'[u] \in DownPCs \ {"unlist"} /\ IsOwner(u)' => ~listed'[down'[u]]
      BY <1>4, <1>6, <3>1 DEF IsOwner
    <3> QED
      BY <1>5, <3>1, <3>2, <3>3 DEF ListedInv
  <2> QED
    BY <2>1, <2>2
<1>11. CASE Unlist(t)
  <2>1. /\ UNCHANGED <<monitor, monitor_owner, down, victim>>
        /\ pc[t] = "unlist" /\ down[t] \in Mon
        /\ pc'[t] = IF IsOwner(t) THEN "end" ELSE "refdown"
        /\ listed' = IF IsOwner(t) THEN [listed EXCEPT ![down[t]] = FALSE] ELSE listed
    BY <1>1, <1>3, <1>11 DEF Unlist
  <2>2. IsOwner(t)' = IsOwner(t)
    BY <2>1 DEF IsOwner
  <2>3. ASSUME NEW m \in Mon, listed'[m] PROVE \E d \in Desc : OwnerOf(m, d)'
    <3>1. PICK d \in Desc : OwnerOf(m, d)
      BY <1>1, <1>5, <2>1, <2>3
    <3>2. CASE monitor[d] = m
      BY <2>1, <3>1, <3>2 DEF OwnerOf
    <3>3. ASSUME NEW u \in Desc, pc[u] = "unlist", down[u] = m, victim[u] = d
          PROVE  OwnerOf(m, d)'
      <4>1. u # t
        BY <1>1, <2>1, <2>3, <3>1, <3>3 DEF OwnerOf, IsOwner
      <4> QED
        BY <1>4, <2>1, <3>1, <3>3, <4>1 DEF OwnerOf
    <3> QED
      BY <3>1, <3>2, <3>3 DEF OwnerOf
  <2>4. \A u \in Desc : pc'[u] \in DownPCs \ {"unlist"} /\ IsOwner(u)' => ~listed'[down'[u]]
    <3>1. \A u \in Desc \ {t} : IsOwner(u)' = IsOwner(u)
      BY <2>1 DEF IsOwner
    <3> QED
      BY <1>1, <1>4, <1>6, <2>1, <2>2, <3>1
  <2> QED
    BY <2>3, <2>4 DEF ListedInv
<1>12. CASE RefdownStore(t)
  <2>1. CASE victim[t] # None
    <3>1. Quiet(t)
      BY <1>1, <1>12, <2>1 DEF RefdownStore, SetRefcount, Quiet
    <3> QED
      BY <1>7, <3>1
  <2>2. CASE victim[t] = None
    <3>1. /\ UNCHANGED <<listed, victim>>
          /\ monitor' = [monitor EXCEPT ![t] = None]
          /\ monitor_owner' = [monitor_owner EXCEPT ![t] = FALSE]
          /\ pc[t] = "refdown_store" /\ pc'[t] = "detached"
          /\ handle[t] /\ monitor[t] = down[t] /\ down[t] \in Mon
      BY <1>1, <1>2, <1>3, <1>12, <2>2 DEF RefdownStore, SetRefcount, LocalsOf
    <3>2. \A n \in Mon, e \in Desc : listed[n] /\ OwnerOf(n, e) => OwnerOf(n, e)'
      <4> SUFFICES ASSUME NEW n \in Mon, NEW e \in Desc, listed[n], OwnerOf(n, e)
                   PROVE  OwnerOf(n, e)'
        OBVIOUS
      <4>1. e # t
        <5>1. \A u \in Desc : victim[u] # t
          BY <3>1, VictimClosed
        <5> QED
          BY <1>1, <1>6, <2>2, <3>1, <5>1 DEF OwnerOf, IsOwner
      <4> QED
        BY <1>1, <1>4, <3>1, <4>1 DEF OwnerOf
    <3>3. \A u \in Desc : pc'[u] \in DownPCs \ {"unlist"} /\ IsOwner(u)' => ~listed'[down'[u]]
      <4>1. \A u \in Desc : IsOwner(u)' => IsOwner(u)
        <5> TAKE u \in Desc
        <5> DEFINE x == IF victim[u] # None THEN victim[u] ELSE u
        <5>1. x \in Desc
          BY <1>1
        <5>2. IsOwner(u) = monitor_owner[x] /\ IsOwner(u)' = monitor_owner'[x]
          BY <3>1 DEF IsOwner
        <5> HIDE DEF x
        <5> QED
          BY <1>1, <3>1, <5>1, <5>2
      <4> QED
        BY <1>4, <1>6, <3>1, <4>1
    <3> QED
      BY <1>5, <3>1, <3>2, <3>3 DEF ListedInv
  <2> QED
    BY <2>1, <2>2
<1>13. CASE \/ Open(t) \/ AttachLock(t) \/ AttachUnlock(t) \/ ReadCheck(t)
            \/ ReadBusy(t) \/ ReadPark(t) \/ Cancel(t) \/ SendQueue(t)
            \/ SendSeeIrp(t) \/ SendStale(t) \/ SendResume(t) \/ Cleanup(t)
            \/ CleanupLock(t) \/ CleanupUnlock(t) \/ IoctlClose(t)
            \/ \E k \in Module : AttachEvict(t, k) \/ AttachSlot(t, k)
                    \/ CleanupSlot(t, k)
            \/ \E n \in 0..MaxSend : ReadDrain(t, n)
            \/ \E k \in Module, filtered \in BOOLEAN : Message(t, k, filtered)
            \/ \E fits \in BOOLEAN : SendTake(t, fits)
  <2>1. CASE \/ Open(t) \/ AttachLock(t) \/ AttachUnlock(t) \/ IoctlClose(t)
             \/ \E k \in Module : AttachEvict(t, k) \/ AttachSlot(t, k)
    <3>1. Quiet(t)
      BY <1>1, <2>1, SMTT(30) DEF Quiet, Open, AttachLock, AttachEvict, CloseSlotRef, SetSlot,
           AttachSlot, AttachUnlock, IoctlClose
    <3> QED
      BY <3>1, <1>7
  <2>2. CASE \/ ReadCheck(t) \/ ReadBusy(t) \/ ReadPark(t) \/ Cancel(t)
             \/ \E n \in 0..MaxSend : ReadDrain(t, n)
    <3>1. Quiet(t)
      BY <1>1, <2>2, SMTT(30) DEF Quiet, ReadCheck, ReadBusy, ReadPark, ReadDrain, Cancel
    <3> QED
      BY <3>1, <1>7
  <2>3. CASE \/ SendQueue(t) \/ SendSeeIrp(t) \/ SendStale(t) \/ SendResume(t)
             \/ \E k \in Module, filtered \in BOOLEAN : Message(t, k, filtered)
             \/ \E fits \in BOOLEAN : SendTake(t, fits)
    <3>1. Quiet(t)
      BY <1>1, <2>3, SMTT(30) DEF Quiet, Message, SendQueue, AfterQueueing, SendSeeIrp, SendTake,
           SendStale, SendResume
    <3> QED
      BY <3>1, <1>7
  <2>4. CASE \/ Cleanup(t) \/ CleanupLock(t) \/ CleanupUnlock(t)
             \/ \E k \in Module : CleanupSlot(t, k)
    <3>1. Quiet(t)
      BY <1>1, <2>4, SMTT(30) DEF Quiet, CloseSlotRef, SetSlot, Cleanup, CleanupStart, CleanupLock,
           CleanupUnlock, CleanupSlot
    <3> QED
      BY <3>1, <1>7
  <2> QED
    BY <1>13, <2>1, <2>2, <2>3, <2>4
<1>14. CASE \/ DropRef(t) \/ CleanupClose(t) \/ FreeDesc(t) \/ EndLock(t)
  <2>1. Quiet(t)
    BY <1>1, <1>14 DEF Quiet, DropRef, Close, Rest, CleanupClose, FreeDesc, EndLock
  <2> QED
    BY <1>7, <2>1
<1>15. CASE \/ EofDrop(t) \/ EndUnlock(t) \/ RefdownLoad(t)
            \/ \E k \in Module : EofMark(t, k) \/ EofTake(t, k) \/ EofStale(t, k)
                    \/ EndSlot(t, k)
  <2>1. Quiet(t)
    BY <1>1, <1>15 DEF Quiet, EofDrop, EndUnlock, EofMark, AfterEofMark, EofTake, EofStale,
         EndSlot, CloseSlotRef, SetSlot, RefdownLoad
  <2> QED
    BY <1>7, <2>1
<1> QED
  BY <1>8, <1>9, <1>10, <1>11, <1>12, <1>13, <1>14, <1>15 DEF Step

LEMMA MonStep ==
  ASSUME IInv, LocalsInv, MonInv, NEW t \in Desc, Step(t)
  PROVE  MonInv'
<1>1. halted = "no"
  BY StepRuns
<1> QED
  BY <1>1, RefcountStep, ListedStep DEF MonInv


-----------------------------------------------------------------------------
(* Reads.                                                                  *)

(* A parked read of a descriptor whose handle is open keeps the handle's reference from being
   the last one. *)
LEMMA ReadIsNotLast ==
  ASSUME IInv, NEW d \in Desc, handle[d], irp[d] # 0
  PROVE  ~IsLastRef(d)
<1>1. /\ Cardinality(SlotSet(connected_modules, d)) \in Nat
      /\ Cardinality(HolderSet(ref, d)) \in Nat
  BY SlotsFinite, HoldersFinite
<1>2. ref_count[d] = Total(d)
  BY RefExactTotal DEF IInv
<1>3. One(handle[d]) = 1 /\ One(irp[d] # 0) = 1
  BY DEF One
<1>4. ref_count[d] = 1 + 1 + Cardinality(SlotSet(connected_modules, d))
                       + Cardinality(HolderSet(ref, d))
  BY <1>2, <1>3 DEF Total
<1> QED
  BY <1>1, <1>4 DEF IsLastRef

(* Where a read that waits on a deactivated descriptor comes from: it waited there before, and
   t goes on closing the descriptor or ending its reads; or t has just deactivated it. *)
WaitedBefore(t, d) ==
  /\ irp'[d] = irp[d] /\ ~active[d] /\ ~stale[d]
  /\ d = t /\ pc[t] \in ClosingPCs => pc'[t] \in ClosingPCs
  /\ Ends(t, d) => Ends(t, d)' /\ saw'[t] = saw[t]
ReadMoves(t) ==
  \A d \in Desc : irp'[d] # 0 /\ ~active'[d] /\ ~stale'[d] =>
    \/ WaitedBefore(t, d)
    \/ d = t /\ pc'[d] \in ClosingPCs
    \/ Ends(t, d)' /\ saw'[t] = irp'[d]

LEMMA StepReadMoves == ASSUME IInv, LocalsInv, NEW t \in Desc, Step(t) PROVE ReadMoves(t)
<1> USE DEF ReadMoves, WaitedBefore, Ends, At, Outside, Goto, descVars, monVars, threadVars,
            histVars, ClosingPCs
<1>1. /\ pc \in [Desc -> PCs] /\ handle \in [Desc -> BOOLEAN] /\ active \in [Desc -> BOOLEAN]
      /\ irp \in [Desc -> Nat] /\ stale \in [Desc -> BOOLEAN] /\ saw \in [Desc -> Nat]
      /\ reads \in [Desc -> Nat] /\ todo \in [Desc -> SUBSET Module]
  BY DEF IInv, TypeOK
<1>2. /\ pc[t] \in {"close", "free"} => victim[t] \in Desc
      /\ pc[t] \in {"send", "direct"} => ref[t] \in Desc
      /\ pc[t] = "eof_take" => \E k \in Module : todo[t] = {k}
      /\ pc[t] = "eof_take" => \A k \in todo[t] : connected_modules[down[t]][k] \in Desc
      /\ pc[t] = "cleanup_close" /\ irp[t] # 0 => ~IsLastRef(t)
  BY ThreadFacts, ReadIsNotLast DEF LocalsInv, LocalsOf, RefPCs, EofPCs, HandlePCs
<1>3. CASE Open(t)
  BY <1>1, <1>2, <1>3 DEF Open
<1>4. ASSUME NEW m \in Mon, Create(t, m)
       PROVE  ReadMoves(t)
  BY <1>1, <1>2, <1>4 DEF Create
<1>5. ASSUME NEW m \in Mon, NEW ks \in SUBSET Module, AttachFind(t, m, ks)
       PROVE  ReadMoves(t)
  BY <1>1, <1>2, <1>5 DEF AttachFind
<1>6. CASE AttachLock(t)
  BY <1>1, <1>2, <1>6 DEF AttachLock
<1>7. ASSUME NEW k \in Module, AttachEvict(t, k)
       PROVE  ReadMoves(t)
  BY <1>1, <1>2, <1>7 DEF AttachEvict, CloseSlotRef, SetSlot
<1>8. ASSUME NEW k \in Module, AttachSlot(t, k)
       PROVE  ReadMoves(t)
  BY <1>1, <1>2, <1>8 DEF AttachSlot, SetSlot
<1>9. CASE AttachUnlock(t)
  BY <1>1, <1>2, <1>9 DEF AttachUnlock
<1>10. CASE ReadCheck(t)
  BY <1>1, <1>2, <1>10 DEF ReadCheck
<1>11. CASE ReadBusy(t)
  BY <1>1, <1>2, <1>11 DEF ReadBusy
<1>12. CASE ReadPark(t)
  BY <1>1, <1>2, <1>12 DEF ReadPark
<1>13. ASSUME NEW n \in 0..MaxSend, ReadDrain(t, n)
       PROVE  ReadMoves(t)
  BY <1>1, <1>2, <1>13 DEF ReadDrain
<1>14. CASE Cancel(t)
  BY <1>1, <1>2, <1>14 DEF Cancel
<1>15. ASSUME NEW k \in Module, NEW filtered \in BOOLEAN, Message(t, k, filtered)
       PROVE  ReadMoves(t)
  BY <1>1, <1>2, <1>15 DEF Message
<1>16. CASE SendQueue(t)
  BY <1>1, <1>2, <1>16 DEF SendQueue, AfterQueueing
<1>17. CASE SendSeeIrp(t)
  BY <1>1, <1>2, <1>17 DEF SendSeeIrp
<1>18. ASSUME NEW fits \in BOOLEAN, SendTake(t, fits)
       PROVE  ReadMoves(t)
  BY <1>1, <1>2, <1>18 DEF SendTake
<1>19. CASE SendStale(t)
  BY <1>1, <1>2, <1>19 DEF SendStale
<1>20. CASE SendResume(t)
  BY <1>1, <1>2, <1>20 DEF SendResume
<1>21. CASE DropRef(t)
  BY <1>1, <1>2, <1>21 DEF DropRef, Close, Rest
<1>22. CASE Cleanup(t)
  BY <1>1, <1>2, <1>22 DEF Cleanup, CleanupStart
<1>23. CASE CleanupLock(t)
  BY <1>1, <1>2, <1>23 DEF CleanupLock
<1>24. CASE CleanupUnlock(t)
  BY <1>1, <1>2, <1>24 DEF CleanupUnlock
<1>25. CASE CleanupClose(t)
  BY <1>1, <1>2, <1>25 DEF CleanupClose, Close
<1>26. ASSUME NEW k \in Module, CleanupSlot(t, k)
       PROVE  ReadMoves(t)
  BY <1>1, <1>2, <1>26 DEF CleanupSlot, CloseSlotRef, SetSlot
<1>27. CASE CloseDesc(t)
  BY <1>1, <1>2, <1>27 DEF CloseDesc
<1>28. CASE FreeDesc(t)
  BY <1>1, <1>2, <1>28 DEF FreeDesc, Rest
<1>29. CASE IoctlClose(t)
  BY <1>1, <1>2, <1>29 DEF IoctlClose
<1>30. CASE Unlist(t)
  BY <1>1, <1>2, <1>30 DEF Unlist
<1>31. CASE EndLock(t)
  BY <1>1, <1>2, <1>31 DEF EndLock
<1>32. CASE EofDrop(t)
  BY <1>1, <1>2, <1>32 DEF EofDrop
<1>33. CASE EndUnlock(t)
  BY <1>1, <1>2, <1>33 DEF EndUnlock
<1>34. ASSUME NEW k \in Module, EofMark(t, k)
       PROVE  ReadMoves(t)
  BY <1>1, <1>2, <1>34 DEF EofMark, AfterEofMark
<1>35. ASSUME NEW k \in Module, EofTake(t, k)
       PROVE  ReadMoves(t)
  BY <1>1, <1>2, <1>35 DEF EofTake
<1>36. ASSUME NEW k \in Module, EofStale(t, k)
       PROVE  ReadMoves(t)
  BY <1>1, <1>2, <1>36 DEF EofStale
<1>37. ASSUME NEW k \in Module, EndSlot(t, k)
       PROVE  ReadMoves(t)
  BY <1>1, <1>2, <1>37 DEF EndSlot, CloseSlotRef, SetSlot
<1>38. CASE RefdownLoad(t)
  BY <1>1, <1>2, <1>38 DEF RefdownLoad
<1>39. CASE RefdownStore(t)
  BY <1>1, <1>2, <1>39 DEF RefdownStore, SetRefcount
<1> QED
  BY <1>3, <1>4, <1>5, <1>6, <1>7, <1>8, <1>9, <1>10, <1>11, <1>12, <1>13, <1>14, <1>15, <1>16,
     <1>17, <1>18, <1>19, <1>20, <1>21, <1>22, <1>23, <1>24, <1>25, <1>26, <1>27, <1>28, <1>29,
     <1>30, <1>31, <1>32, <1>33, <1>34, <1>35, <1>36, <1>37, <1>38, <1>39
     DEF Step

LEMMA EofStep ==
  ASSUME IInv, LocalsInv, EofInv, NEW t \in Desc, Step(t)
  PROVE  EofInv'
<1> SUFFICES ASSUME NEW d \in Desc, irp'[d] # 0, ~active'[d], ~stale'[d]
             PROVE  \/ pc'[d] \in ClosingPCs
                    \/ \E u \in Desc : Ends(u, d)' /\ saw'[u] = irp'[d]
  BY DEF EofInv
<1>1. ReadMoves(t)
  BY StepReadMoves
<1>2. CASE WaitedBefore(t, d)
  <2>1. CASE pc[d] \in ClosingPCs
    <3>1. d # t => pc'[d] = pc[d]
      BY OthersKept DEF Kept
    <3> QED
      BY <1>2, <2>1, <3>1 DEF WaitedBefore
  <2>2. ASSUME NEW u \in Desc, Ends(u, d), saw[u] = irp[d]
        PROVE  Ends(u, d)' /\ saw'[u] = irp'[d]
    <3>1. CASE u = t
      BY <1>2, <2>2, <3>1 DEF WaitedBefore
    <3>2. CASE u # t
      <4>1. Kept(u)
        BY <3>2, OthersKept
      <4>2. down[u] \in Mon /\ write_lock[down[u]] = u
        BY <2>2, ThreadFacts DEF Ends, IInv, LockInv, LockOf, EndPCs, EofPCs, DownPCs
      <4> QED
        BY <1>2, <2>2, <4>1, <4>2 DEF Kept, Ends, WaitedBefore
    <3> QED
      BY <3>1, <3>2
  <2>3. irp[d] # 0 /\ ~active[d] /\ ~stale[d]
    BY <1>2 DEF WaitedBefore
  <2> QED
    BY <2>1, <2>2, <2>3 DEF EofInv
<1> QED
  BY <1>1, <1>2 DEF ReadMoves

(* How a step of t takes a read away or parks one. *)
TakeMoves(t) ==
  /\ \A d \in Desc :
       \/ irp'[d] = irp[d] /\ taker'[d] = taker[d]
       \/ taker'[d] = "cancel"
       \/ taker'[d] = "sender" /\ pc[t] = "direct" /\ ref[t] = d
       \/ taker'[d] = "eof" /\ Ends(t, d)
       \/ taker'[d] = taker[d] /\ ref_count[d] = 0
       \/ taker'[d] = taker[d] /\ irp[d] = 0
  /\ pc'[t] = "direct" => \/ irp'[ref'[t]] = saw'[t]
                          \/ /\ pc[t] = "direct"
                             /\ UNCHANGED <<irp, taker>> /\ ref'[t] = ref[t] /\ saw'[t] = saw[t]
  /\ \A d \in Desc : Ends(t, d)' =>
       \/ irp'[d] = saw'[t]
       \/ Ends(t, d) /\ UNCHANGED <<irp, taker>> /\ saw'[t] = saw[t]
  /\ halted' \in {"sender", "eof"} => UNCHANGED threadVars /\ UNCHANGED taker
  /\ halted' = "sender" => pc[t] = "direct" /\ irp[ref[t]] # saw[t]
  /\ halted' = "eof" => \E k \in todo[t] : /\ pc[t] = "eof_take" /\ k \in Module
                                           /\ irp[connected_modules[down[t]][k]] # saw[t]
                                           /\ UNCHANGED connected_modules

LEMMA StepTakeMoves == ASSUME IInv, LocalsInv, NEW t \in Desc, Step(t) PROVE TakeMoves(t)
<1> USE DEF TakeMoves, Ends, At, Outside, Goto, descVars, monVars, threadVars, histVars
<1>1. /\ pc \in [Desc -> PCs] /\ irp \in [Desc -> Nat] /\ saw \in [Desc -> Nat]
      /\ ref \in [Desc -> Desc \cup {None}] /\ todo \in [Desc -> SUBSET Module]
      /\ taker \in [Desc -> {"none", "sender", "eof", "cancel"}]
  BY DEF IInv, TypeOK
<1>2. /\ pc[t] \in {"close", "free"} => victim[t] \in Desc /\ ref_count[victim[t]] = 0
      /\ pc[t] \in {"send", "direct", "throttle"} => ref[t] \in Desc
      /\ pc[t] = "eof_take" => \A k \in todo[t] : connected_modules[down[t]][k] \in Desc
      /\ pc[t] = "eof_take" => \E k \in Module : todo[t] = {k}
  BY ThreadFacts DEF RefPCs, EofPCs, IInv, RefExact, LocalsInv, LocalsOf
<1>3. CASE Open(t)
  BY <1>1, <1>2, <1>3 DEF Open
<1>4. ASSUME NEW m \in Mon, Create(t, m)
       PROVE  TakeMoves(t)
  BY <1>1, <1>2, <1>4 DEF Create
<1>5. ASSUME NEW m \in Mon, NEW ks \in SUBSET Module, AttachFind(t, m, ks)
       PROVE  TakeMoves(t)
  BY <1>1, <1>2, <1>5 DEF AttachFind
<1>6. CASE AttachLock(t)
  BY <1>1, <1>2, <1>6 DEF AttachLock
<1>7. ASSUME NEW k \in Module, AttachEvict(t, k)
       PROVE  TakeMoves(t)
  BY <1>1, <1>2, <1>7 DEF AttachEvict, CloseSlotRef, SetSlot
<1>8. ASSUME NEW k \in Module, AttachSlot(t, k)
       PROVE  TakeMoves(t)
  BY <1>1, <1>2, <1>8 DEF AttachSlot, SetSlot
<1>9. CASE AttachUnlock(t)
  BY <1>1, <1>2, <1>9 DEF AttachUnlock
<1>10. CASE ReadCheck(t)
  BY <1>1, <1>2, <1>10 DEF ReadCheck
<1>11. CASE ReadBusy(t)
  BY <1>1, <1>2, <1>11 DEF ReadBusy
<1>12. CASE ReadPark(t)
  BY <1>1, <1>2, <1>12 DEF ReadPark, MayPark
<1>13. ASSUME NEW n \in 0..MaxSend, ReadDrain(t, n)
       PROVE  TakeMoves(t)
  BY <1>1, <1>2, <1>13 DEF ReadDrain
<1>14. CASE Cancel(t)
  BY <1>1, <1>2, <1>14 DEF Cancel
<1>15. ASSUME NEW k \in Module, NEW filtered \in BOOLEAN, Message(t, k, filtered)
       PROVE  TakeMoves(t)
  BY <1>1, <1>2, <1>15 DEF Message
<1>16. CASE SendQueue(t)
  BY <1>1, <1>2, <1>16 DEF SendQueue, AfterQueueing
<1>17. CASE SendSeeIrp(t)
  BY <1>1, <1>2, <1>17 DEF SendSeeIrp
<1>18. ASSUME NEW fits \in BOOLEAN, SendTake(t, fits)
       PROVE  TakeMoves(t)
  BY <1>1, <1>2, <1>18 DEF SendTake
<1>19. CASE SendStale(t)
  BY <1>1, <1>2, <1>19 DEF SendStale
<1>20. CASE SendResume(t)
  BY <1>1, <1>2, <1>20 DEF SendResume
<1>21. CASE DropRef(t)
  BY <1>1, <1>2, <1>21 DEF DropRef, Close, Rest
<1>22. CASE Cleanup(t)
  BY <1>1, <1>2, <1>22 DEF Cleanup, CleanupStart
<1>23. CASE CleanupLock(t)
  BY <1>1, <1>2, <1>23 DEF CleanupLock
<1>24. CASE CleanupUnlock(t)
  BY <1>1, <1>2, <1>24 DEF CleanupUnlock
<1>25. CASE CleanupClose(t)
  BY <1>1, <1>2, <1>25 DEF CleanupClose, Close
<1>26. ASSUME NEW k \in Module, CleanupSlot(t, k)
       PROVE  TakeMoves(t)
  BY <1>1, <1>2, <1>26 DEF CleanupSlot, CloseSlotRef, SetSlot
<1>27. CASE CloseDesc(t)
  BY <1>1, <1>2, <1>27 DEF CloseDesc
<1>28. CASE FreeDesc(t)
  BY <1>1, <1>2, <1>28 DEF FreeDesc, Rest
<1>29. CASE IoctlClose(t)
  BY <1>1, <1>2, <1>29 DEF IoctlClose
<1>30. CASE Unlist(t)
  BY <1>1, <1>2, <1>30 DEF Unlist
<1>31. CASE EndLock(t)
  BY <1>1, <1>2, <1>31 DEF EndLock
<1>32. CASE EofDrop(t)
  BY <1>1, <1>2, <1>32 DEF EofDrop
<1>33. CASE EndUnlock(t)
  BY <1>1, <1>2, <1>33 DEF EndUnlock
<1>34. ASSUME NEW k \in Module, EofMark(t, k)
       PROVE  TakeMoves(t)
  BY <1>1, <1>2, <1>34 DEF EofMark, AfterEofMark
<1>35. ASSUME NEW k \in Module, EofTake(t, k)
       PROVE  TakeMoves(t)
  BY <1>1, <1>2, <1>35 DEF EofTake
<1>36. ASSUME NEW k \in Module, EofStale(t, k)
       PROVE  TakeMoves(t)
  BY <1>1, <1>2, <1>36 DEF EofStale
<1>37. ASSUME NEW k \in Module, EndSlot(t, k)
       PROVE  TakeMoves(t)
  BY <1>1, <1>2, <1>37 DEF EndSlot, CloseSlotRef, SetSlot
<1>38. CASE RefdownLoad(t)
  BY <1>1, <1>2, <1>38 DEF RefdownLoad
<1>39. CASE RefdownStore(t)
  BY <1>1, <1>2, <1>39 DEF RefdownStore, SetRefcount
<1> QED
  BY <1>3, <1>4, <1>5, <1>6, <1>7, <1>8, <1>9, <1>10, <1>11, <1>12, <1>13, <1>14, <1>15, <1>16,
     <1>17, <1>18, <1>19, <1>20, <1>21, <1>22, <1>23, <1>24, <1>25, <1>26, <1>27, <1>28, <1>29,
     <1>30, <1>31, <1>32, <1>33, <1>34, <1>35, <1>36, <1>37, <1>38, <1>39
     DEF Step

(* Two threads do not end the reads of one descriptor: its slots are slots of one monitor. *)
LEMMA OneEnds ==
  ASSUME IInv, SlotInv, NEW t \in Desc, NEW u \in Desc, NEW d \in Desc, Ends(t, d), Ends(u, d)
  PROVE  t = u
<1>1. /\ down[t] \in Mon /\ down[u] \in Mon
      /\ write_lock[down[t]] = t /\ write_lock[down[u]] = u
  BY ThreadFacts DEF Ends, IInv, LockInv, LockOf, EndPCs, EofPCs, DownPCs
<1>2. SlotAt(d, down[t]) /\ SlotAt(d, down[u])
  BY DEF Ends, SlotAt, IInv, TypeOK
<1>3. down[t] = down[u]
  BY <1>1, <1>2 DEF SlotInv, SlotsOfOne
<1> QED
  BY <1>1, <1>3

LEMMA TakerStep ==
  ASSUME IInv, LocalsInv, SlotInv, TakerInv, NEW t \in Desc, Step(t)
  PROVE  TakerInv'
<1>1. TakeMoves(t) /\ IInv'
  BY StepTakeMoves, StepIInv
<1>2. ASSUME NEW u \in Desc, pc'[u] = "direct", irp'[ref'[u]] # saw'[u]
      PROVE  taker'[ref'[u]] \in {"cancel", "eof"}
  <2>1. CASE u = t
    BY <1>1, <1>2, <2>1 DEF TakeMoves, TakerInv
  <2>2. CASE u # t
    <3> DEFINE d == ref[u]
    <3>1. pc[u] = "direct" /\ ref'[u] = d /\ saw'[u] = saw[u]
      BY <1>2, <2>2, OthersKept DEF Kept
    <3>2. d \in Desc /\ ref_count[d] >= 1 /\ saw[u] # 0 /\ lock[d] = u
      BY <3>1, ThreadFacts DEF LocalsInv, LocalsOf, RefPCs
    <3>3. ~(pc[t] = "direct" /\ ref[t] = d)
      BY <2>2, <3>2 DEF LocalsInv, LocalsOf
    <3>4. irp[d] # saw[u] => taker[d] \in {"cancel", "eof"}
      BY <3>1 DEF TakerInv
    <3> HIDE DEF d
    <3> QED
      BY <1>1, <1>2, <3>1, <3>2, <3>3, <3>4 DEF TakeMoves
  <2> QED
    BY <2>1, <2>2
<1>3. ASSUME NEW u \in Desc, NEW d \in Desc, Ends(u, d)', irp'[d] # saw'[u]
      PROVE  taker'[d] \in {"cancel", "sender"}
  <2>1. CASE u = t
    BY <1>1, <1>3, <2>1 DEF TakeMoves, TakerInv
  <2>2. CASE u # t
    <3>1. Kept(u)
      BY <2>2, OthersKept
    <3>2. pc[u] = "eof_take"
      BY <1>3, <3>1 DEF Kept, Ends
    <3>3. down[u] \in Mon /\ write_lock[down[u]] = u /\ saw[u] # 0 /\ todo[u] \subseteq Module
      BY <3>2, ThreadFacts DEF IInv, TypeOK, LockInv, LockOf, EndPCs, EofPCs, DownPCs
    <3>4. Ends(u, d)
      BY <1>3, <3>1, <3>2, <3>3 DEF Kept, Ends
    <3>5. ref_count[d] >= 1
      BY <3>3, <3>4, Counted DEF IInv, Ends
    <3>6. ~Ends(t, d)
      BY <2>2, <3>4, OneEnds
    <3>7. irp[d] # saw[u] => taker[d] \in {"cancel", "sender"}
      BY <3>4 DEF TakerInv
    <3>8. saw'[u] = saw[u]
      BY <3>1 DEF Kept
    <3> QED
      BY <1>1, <1>3, <3>3, <3>5, <3>6, <3>7, <3>8 DEF TakeMoves
  <2> QED
    BY <2>1, <2>2
<1> QED
  BY <1>2, <1>3 DEF TakerInv

LEMMA RacesStep ==
  ASSUME IInv, LocalsInv, TakerInv, NEW t \in Desc, Step(t)
  PROVE  RacesAreLockless'
<1>1. TakeMoves(t)
  BY StepTakeMoves
<1>2. CASE halted' = "sender"
  BY <1>1, <1>2 DEF TakeMoves, TakerInv, RacesAreLockless, threadVars
<1>3. CASE halted' = "eof"
  <2>1. PICK k \in todo[t] : /\ pc[t] = "eof_take" /\ k \in Module
                             /\ irp[connected_modules[down[t]][k]] # saw[t]
                             /\ UNCHANGED connected_modules
    BY <1>1, <1>3 DEF TakeMoves
  <2> DEFINE d == connected_modules[down[t]][k]
  <2>2. d \in Desc /\ Ends(t, d)
    BY <2>1, ThreadFacts DEF Ends, EofPCs
  <2>3. taker[d] \in {"cancel", "sender"}
    BY <2>1, <2>2 DEF TakerInv
  <2>4. UNCHANGED <<pc, todo, down, taker>>
    BY <1>1, <1>3 DEF TakeMoves, threadVars
  <2> QED
    BY <1>3, <2>1, <2>3, <2>4 DEF RacesAreLockless
<1> QED
  BY <1>2, <1>3 DEF RacesAreLockless


-----------------------------------------------------------------------------
(* Queues.                                                                 *)

(* The descriptor a thread sleeps on in co_manager_send. *)
sleeping == [t \in Desc |-> IF pc[t] = "throttle" THEN ref[t] ELSE None]

(* Open, the appends, the reads and the wakeups apart, a step leaves the queues alone. *)
QueueQuiet(t) ==
  /\ out_queue' = out_queue
  /\ \A d \in Desc : active'[d] => active[d]
  /\ \A d \in Desc : alloc'[d] = "none" => alloc[d] = "none"
  /\ Same(sleeping, sleeping')

LEMMA QueueStep == ASSUME IInv, QueueInv, NEW t \in Desc, Step(t) PROVE QueueInv'
<1> USE DEF At, Outside, Goto, descVars, monVars, threadVars, histVars
<1>1. /\ pc \in [Desc -> PCs] /\ active \in [Desc -> BOOLEAN]
      /\ out_queue \in [Desc -> Seq(Nat)] /\ sent \in [Desc -> Nat]
      /\ ref \in [Desc -> Desc \cup {None}] /\ Limit \in Nat /\ MaxSend \in Nat
      /\ alloc \in [Desc -> {"none", "open", "freed"}]
      /\ None \notin Desc
  BY ConstantsAssumption DEF IInv, TypeOK
<1>2. /\ pc[t] \in {"close", "free"} =>
           victim[t] \in Desc /\ ref_count[victim[t]] = 0 /\ alloc[victim[t]] = "open"
      /\ pc[t] \in {"send", "direct", "throttle"} => ref[t] \in Desc /\ alloc[ref[t]] = "open"
      /\ pc[t] \in HandlePCs => alloc[t] = "open"
  BY ThreadFacts DEF RefPCs, IInv, RefExact
<1>3. \A d \in Desc : /\ Cardinality(HolderSet(sleeping, d)) \in Nat
                      /\ Cardinality(HolderSet(sleeping', d)) \in Nat
                      /\ Len(out_queue[d]) \in Nat
                      /\ {u \in Desc : pc[u] = "throttle" /\ ref[u] = d} = HolderSet(sleeping, d)
                      /\ {u \in Desc : pc'[u] = "throttle" /\ ref'[u] = d}
                           = HolderSet(sleeping', d)
  <2> TAKE d \in Desc
  <2>1. /\ Cardinality(HolderSet(sleeping, d)) \in Nat
        /\ Cardinality(HolderSet(sleeping', d)) \in Nat
    BY HoldersFinite
  <2>2. Len(out_queue[d]) \in Nat
    BY <1>1
  <2>3. /\ {u \in Desc : pc[u] = "throttle" /\ ref[u] = d} = HolderSet(sleeping, d)
        /\ {u \in Desc : pc'[u] = "throttle" /\ ref'[u] = d} = HolderSet(sleeping', d)
    BY <1>1 DEF sleeping, HolderSet
  <2> QED
    BY <2>1, <2>2, <2>3
<1>4. \A d \in Desc :
        /\ active[d] => Len(out_queue[d]) <= Limit + Cardinality(HolderSet(sleeping, d))
        /\ alloc[d] = "none" => out_queue[d] = <<>>
  BY <1>3 DEF QueueInv, QueueBound
<1> DEFINE Short(d) == /\ active'[d] => Len(out_queue'[d])
                                           <= Limit + Cardinality(HolderSet(sleeping', d))
                       /\ alloc'[d] = "none" => out_queue'[d] = <<>>
<1>5. SUFFICES ASSUME NEW d \in Desc PROVE Short(d)
  BY <1>3 DEF QueueInv, QueueBound
<1>6. CASE QueueQuiet(t)
  <2>1. HolderSet(sleeping', d) = HolderSet(sleeping, d)
    BY <1>6, SameHolders DEF QueueQuiet
  <2> QED
    BY <1>4, <1>6, <2>1 DEF QueueQuiet
<1>7. CASE Open(t)
  <2>1. Same(sleeping, sleeping')
    BY <1>1, <1>7 DEF Open, sleeping, Same
  <2>2. HolderSet(sleeping', d) = HolderSet(sleeping, d)
    BY <2>1, SameHolders
  <2>3. /\ out_queue' = out_queue /\ alloc' = [alloc EXCEPT ![t] = "open"]
        /\ active' = [active EXCEPT ![t] = TRUE] /\ alloc[t] = "none"
    BY <1>7 DEF Open, IInv, ControlInv, ControlOf
  <2>4. CASE d = t
    <3>1. out_queue'[d] = <<>> /\ Len(<<>>) = 0
      BY <1>4, <2>3, <2>4
    <3>2. alloc'[d] = "open"
      BY <1>1, <2>3, <2>4
    <3> QED
      BY <1>1, <1>3, <3>1, <3>2
  <2> QED
    BY <1>1, <1>4, <2>2, <2>3, <2>4
<1>8. ASSUME NEW n \in 0..MaxSend, ReadDrain(t, n) PROVE Short(d)
  <2>1. Same(sleeping, sleeping')
    BY <1>1, <1>8 DEF ReadDrain, sleeping, Same
  <2>2. HolderSet(sleeping', d) = HolderSet(sleeping, d)
    BY <2>1, SameHolders
  <2>3. /\ UNCHANGED <<active, alloc>> /\ alloc[t] = "open" /\ n <= Len(out_queue[t])
        /\ out_queue' = [out_queue EXCEPT ![t] = Popped(t, n)]
    BY <1>2, <1>8 DEF ReadDrain, HandlePCs
  <2>4. Len(Popped(t, n)) <= Len(out_queue[t])
    <3>1. out_queue[t] \in Seq(Nat) /\ n \in Nat
      BY <1>1
    <3> QED
      BY <1>3, <2>3, <3>1 DEF Popped
  <2>5. CASE d = t
    <3>1. out_queue'[d] = Popped(t, n) /\ Len(Popped(t, n)) \in Nat
      BY <1>1, <2>3, <2>5 DEF Popped
    <3> QED
      BY <1>1, <1>3, <1>4, <2>2, <2>3, <2>4, <2>5, <3>1
  <2>6. CASE d # t
    <3>1. out_queue'[d] = out_queue[d]
      BY <1>1, <2>3, <2>6
    <3> QED
      BY <1>4, <2>2, <2>3, <3>1
  <2> QED
    BY <2>5, <2>6
<1>9. CASE SendQueue(t)
  <2> DEFINE c == ref[t]
  <2>1. /\ c \in Desc /\ alloc[c] = "open" /\ pc[t] = "send"
        /\ UNCHANGED <<active, alloc, ref>>
    BY <1>2, <1>9 DEF SendQueue
  <2>2. sleeping[t] = None
    BY <2>1 DEF sleeping
  <2>3. CASE active[c] /\ Len(out_queue[c]) + 1 > Limit
    <3>1. /\ out_queue' = [out_queue EXCEPT ![c] = Append(@, sent[c] + 1)]
          /\ pc' = [pc EXCEPT ![t] = "throttle"]
      BY <1>9, <2>3 DEF SendQueue, AfterQueueing
    <3>2. Moves(sleeping, sleeping', t, c)
      BY <1>1, <2>1, <3>1 DEF Moves, sleeping
    <3>3. Cardinality(HolderSet(sleeping', d))
            = Cardinality(HolderSet(sleeping, d)) + One(c = d) - One(sleeping[t] = d)
      BY <3>2, FunctionChange
    <3>4. One(sleeping[t] = d) = 0
      BY <1>1, <2>2 DEF One
    <3> HIDE DEF c
    <3>5. CASE d = c
      <4>1. out_queue'[d] = Append(out_queue[d], sent[d] + 1)
        BY <1>1, <3>1, <3>5
      <4>2. Len(out_queue'[d]) = Len(out_queue[d]) + 1
        BY <1>1, <4>1
      <4>3. One(c = d) = 1
        BY <3>5 DEF One
      <4> QED
        BY <1>1, <1>3, <1>4, <2>1, <3>3, <3>4, <3>5, <4>2, <4>3
    <3>6. CASE d # c
      <4>1. out_queue'[d] = out_queue[d] /\ One(c = d) = 0
        BY <1>1, <3>1, <3>6 DEF One
      <4> QED
        BY <1>3, <1>4, <2>1, <3>3, <3>4, <4>1
    <3> QED
      BY <3>5, <3>6
  <2>4. CASE ~(active[c] /\ Len(out_queue[c]) + 1 > Limit)
    <3>1. /\ pc' = [pc EXCEPT ![t] = "drop"]
          /\ IF active[c] THEN out_queue' = [out_queue EXCEPT ![c] = Append(@, sent[c] + 1)]
                          ELSE out_queue' = out_queue
      BY <1>9, <2>4 DEF SendQueue, AfterQueueing
    <3>2. Same(sleeping, sleeping')
      BY <1>1, <2>1, <3>1 DEF Same, sleeping
    <3>3. HolderSet(sleeping', d) = HolderSet(sleeping, d)
      BY <3>2, SameHolders
    <3> HIDE DEF c
    <3>4. CASE d = c /\ active[c]
      <4>1. out_queue'[d] = Append(out_queue[d], sent[d] + 1)
        BY <1>1, <3>1, <3>4
      <4>2. Len(out_queue'[d]) = Len(out_queue[d]) + 1
        BY <1>1, <4>1
      <4> QED
        BY <1>1, <1>3, <2>1, <2>4, <3>4, <4>2
    <3>5. CASE ~(d = c /\ active[c])
      <4>1. out_queue'[d] = out_queue[d]
        BY <1>1, <3>1, <3>5
      <4> QED
        BY <1>4, <2>1, <3>3, <4>1
    <3> QED
      BY <3>4, <3>5
  <2> QED
    BY <2>3, <2>4
<1>10. CASE SendResume(t)
  <2>1. /\ UNCHANGED <<active, alloc, out_queue, ref>> /\ pc[t] = "throttle"
        /\ ref[t] \in Desc /\ (Len(out_queue[ref[t]]) <= Limit \/ ~active[ref[t]])
        /\ pc' = [pc EXCEPT ![t] = "drop"]
    BY <1>2, <1>10 DEF SendResume, Relieved
  <2>2. Moves(sleeping, sleeping', t, None)
    BY <1>1, <2>1 DEF Moves, sleeping
  <2>3. Cardinality(HolderSet(sleeping', d))
          = Cardinality(HolderSet(sleeping, d)) + One(None = d) - One(sleeping[t] = d)
    BY <2>2, FunctionChange
  <2>4. One(None = d) = 0 /\ sleeping[t] = ref[t]
    BY <1>1, <2>1 DEF One, sleeping
  <2>5. CASE d = ref[t]
    BY <1>1, <1>3, <1>4, <2>1, <2>5
  <2>6. CASE d # ref[t]
    <3>1. One(sleeping[t] = d) = 0
      BY <2>4, <2>6 DEF One
    <3> QED
      BY <1>3, <1>4, <2>1, <2>3, <2>4, <3>1
  <2> QED
    BY <2>5, <2>6
<1>11. CASE \/ AttachLock(t) \/ AttachUnlock(t)
            \/ \E m \in Mon : Create(t, m)
            \/ \E m \in Mon, ks \in SUBSET Module : AttachFind(t, m, ks)
            \/ \E k \in Module : AttachEvict(t, k) \/ AttachSlot(t, k)
  <2>1. QueueQuiet(t)
    BY <1>1, <1>2, <1>11, ZenonT(60) DEF QueueQuiet, Same, sleeping, Create, AttachFind, AttachLock,
         AttachEvict, CloseSlotRef, SetSlot, AttachSlot, AttachUnlock
  <2> QED
    BY <1>6, <2>1
<1>12. CASE \/ ReadCheck(t) \/ ReadBusy(t) \/ ReadPark(t) \/ Cancel(t)
            \/ SendSeeIrp(t)
            \/ \E k \in Module, filtered \in BOOLEAN : Message(t, k, filtered)
  <2>1. QueueQuiet(t)
    BY <1>1, <1>2, <1>12 DEF QueueQuiet, Same, sleeping, ReadCheck, ReadBusy, ReadPark, Cancel,
         Message, SendSeeIrp
  <2> QED
    BY <1>6, <2>1
<1>13. CASE \/ SendStale(t) \/ DropRef(t) \/ Cleanup(t) \/ CleanupLock(t)
            \/ CleanupUnlock(t)
            \/ \E fits \in BOOLEAN : SendTake(t, fits)
  <2>1. QueueQuiet(t)
    BY <1>1, <1>2, <1>13, ZenonT(60) DEF QueueQuiet, Same, sleeping, SendTake, SendStale, DropRef, Close,
         Rest, Cleanup, CleanupStart, CleanupLock, CleanupUnlock
  <2> QED
    BY <1>6, <2>1
<1>14. CASE \/ CleanupClose(t) \/ CloseDesc(t) \/ FreeDesc(t) \/ IoctlClose(t)
            \/ Unlist(t)
            \/ \E k \in Module : CleanupSlot(t, k)
  <2>1. QueueQuiet(t)
    BY <1>1, <1>2, <1>14, ZenonT(60) DEF QueueQuiet, Same, sleeping, CleanupClose, Close, CleanupSlot,
         CloseSlotRef, SetSlot, CloseDesc, FreeDesc, Rest, IoctlClose, Unlist
  <2> QED
    BY <1>6, <2>1
<1>15. CASE \/ EndLock(t) \/ EofDrop(t) \/ EndUnlock(t)
            \/ \E k \in Module : EofMark(t, k) \/ EofTake(t, k) \/ EofStale(t, k)
  <2>1. QueueQuiet(t)
    BY <1>1, <1>2, <1>15, ZenonT(60) DEF QueueQuiet, Same, sleeping, EndLock, EofDrop, EndUnlock, EofMark,
         AfterEofMark, EofTake, EofStale
  <2> QED
    BY <1>6, <2>1
<1>16. CASE \/ RefdownLoad(t) \/ RefdownStore(t)
            \/ \E k \in Module : EndSlot(t, k)
  <2>1. QueueQuiet(t)
    BY <1>1, <1>2, <1>16, ZenonT(60) DEF QueueQuiet, Same, sleeping, EndSlot, CloseSlotRef, SetSlot,
         RefdownLoad, RefdownStore, SetRefcount
  <2> QED
    BY <1>6, <2>1
<1> QED
  BY <1>7, <1>8, <1>9, <1>10, <1>11, <1>12, <1>13, <1>14, <1>15, <1>16
     DEF Step

-----------------------------------------------------------------------------
(* The invariant and what follows from it.                                 *)

LEMMA InitSInv == Init => SInv
<1> SUFFICES ASSUME Init PROVE SInv
  OBVIOUS
<1>1. IInv
  BY InitIInv
<1> USE ConstantsAssumption DEF Init
<1>2. LocalsInv
  BY DEF LocalsInv, LocalsOf, DownPCs, EndPCs, EofPCs
<1>3. SlotInv
  BY DEF SlotInv, SlotsOfOne, SlotAt
<1>4. MonInv
  <2>1. ListedInv
    BY DEF ListedInv, DownPCs, EndPCs, EofPCs
  <2>2. ASSUME NEW m \in Mon
        PROVE  /\ refcount[m] = Connections(m)
               /\ mstate[m] = "live" <=> refcount[m] > 0
    <3>1. /\ {d \in Desc : monitor[d] = m} = {}
          /\ {t \in Desc : down[t] = m /\ victim[t] # None} = {}
      OBVIOUS
    <3>2. Cardinality({}) = 0
      BY FS_EmptySet
    <3>3. Connections(m) = Cardinality({}) + Cardinality({})
      BY ONLY <3>1 DEF Connections
    <3> QED
      BY <3>2, <3>3
  <2> QED
    BY <2>1, <2>2 DEF MonInv, RefcountIsConnections
<1>5. EofInv /\ TakerInv
  BY DEF EofInv, TakerInv, Ends
<1>6. QueueInv
  BY DEF QueueInv, QueueBound
<1>7. RacesAreLockless
  BY DEF RacesAreLockless
<1> QED
  BY <1>1, <1>2, <1>3, <1>4, <1>5, <1>6, <1>7 DEF SInv

LEMMA NextSInv == SInv /\ [Next]_vars => SInv'
<1> SUFFICES ASSUME SInv, [Next]_vars PROVE SInv'
  OBVIOUS
<1>1. ASSUME NEW t \in Desc, Step(t) PROVE SInv'
  <2>1. IInv' /\ MonInv' /\ EofInv' /\ TakerInv' /\ QueueInv' /\ RacesAreLockless'
    BY <1>1, StepIInv, MonStep, EofStep, TakerStep, QueueStep, RacesStep DEF SInv
  <2>2. LocalsInv'
    BY <1>1, OthersLocals, LocalsStep DEF SInv, LocalsInv
  <2>3. SlotInv'
    BY <1>1, SlotStep DEF SInv, SlotInv
  <2> QED
    BY <2>1, <2>2, <2>3 DEF SInv
<1>2. CASE UNCHANGED vars
  <2> USE <1>2 DEF vars, descVars, monVars, threadVars, histVars
  <2>1. IInv'
    BY NextIInv DEF SInv
  <2>2. LocalsInv'
    BY DEF SInv, LocalsInv, LocalsOf
  <2>3. SlotInv'
    BY DEF SInv, SlotInv, SlotsOfOne, SlotAt
  <2>4. MonInv'
    BY DEF SInv, MonInv, RefcountIsConnections, Connections, ListedInv, OwnerOf, IsOwner
  <2>5. EofInv' /\ TakerInv'
    BY DEF SInv, EofInv, TakerInv, Ends
  <2>6. QueueInv' /\ RacesAreLockless'
    BY DEF SInv, QueueInv, QueueBound, RacesAreLockless
  <2> QED
    BY <2>1, <2>2, <2>3, <2>4, <2>5, <2>6 DEF SInv
<1> QED
  BY <1>1, <1>2 DEF Next

LEMMA SafetyInv == Spec => []SInv
BY InitSInv, NextSInv, PTL DEF Spec

(* As long as no unlocked decrement has lost an update, monitor->refcount is the number of
   descriptors attached to the monitor, and co_monitor_destroy runs exactly when it is zero. *)
THEOREM MonitorReferencesExact == Spec => []MonRefExact
<1>1. SInv => MonRefExact
  BY DEF SInv, MonInv, MonRefExact
<1> QED
  BY <1>1, SafetyInv, PTL

(* The slots that still point to a descriptor after its handle was closed are those of a
   descriptor CO_MONITOR_IOCTL_CLOSE had detached: releasing one never runs co_monitor_refdown
   under connected_modules_write_lock. *)
THEOREM ClosedLeavesSlots == Spec => []ClosedKeepsNoSlot
<1>1. SInv => ClosedKeepsNoSlot
  BY DEF SInv, SlotInv, SlotsOfOne, SlotAt, ClosedKeepsNoSlot, SlotsOf
<1> QED
  BY <1>1, SafetyInv, PTL

(* Together: descriptors and monitors agree on who is attached to whom, through every order of
   ATTACH, CO_MONITOR_IOCTL_CLOSE and cleanup. *)
THEOREM AttachmentsAgree == Spec => []AttachmentsExact
BY MonitorReferencesExact, ClosedLeavesSlots, PTL DEF AttachmentsExact

(* The queue of an active descriptor is longer than CO_QUEUE_COUNT_LIMIT_BEFORE_SLEEP only by
   the messages of senders that sleep on it now, however many threads send. *)
THEOREM QueueBounded == Spec => []QueueBound
<1>1. SInv => QueueBound
  BY DEF SInv, QueueInv
<1> QED
  BY <1>1, SafetyInv, PTL

(* After the end messages the only reads still parked on an open handle are those that tested
   "active" before it was cleared: userspace_eof is on its way to all others. *)
THEOREM EofReachesReads == Spec => []EofMissesOnlyStaleReads
<1>1. SInv => EofMissesOnlyStaleReads
  BY DEF SInv, EofInv, Ends, ClosingPCs, EofMissesOnlyStaleReads
<1> QED
  BY <1>1, SafetyInv, PTL

(* opened->lock does its work: two senders never take one read, and a sender that finds its
   read gone has lost it to a cancel or an end-of-file, which take none of the locks. *)
THEOREM OnlyUnlockedRaces == Spec => []RacesAreLockless
<1>1. SInv => RacesAreLockless
  BY DEF SInv
<1> QED
  BY <1>1, SafetyInv, PTL
=============================================================================
