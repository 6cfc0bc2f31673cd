------------------------- MODULE GuestDevicesProofs -------------------------
(***************************************************************************)
(* Proofs about three of the devices of module GuestDevices, for any       *)
(* number of monitors, threads, adapters, opens and requests in flight:    *)
(* the conet adapter of ConetAdapter, the block devices of BlockDevices    *)
(* and the SCSI units of ScsiDevices; and about how the devices were asked *)
(* for: the command line of Configuration, for any set of command lines.   *)
(***************************************************************************)
EXTENDS ConetAdapter, BlockDevices, ScsiDevices, Configuration, FiniteSetTheorems, NaturalSets, TLAPS

-----------------------------------------------------------------------------
(* The conet adapter.                                                      *)

Life(a) == conetAdapter[a].life
At(u)   == conetUser[u].at
Has(u)  == conetUser[u].adapter

(* Who holds which adapter: a thread that binds has made it, one that unbinds has taken it off
   the list, and nobody else is at it. *)
HoldersExact ==
  /\ \A u \in ConetUser :
       /\ At(u) = "idle" <=> Has(u) = "none"
       /\ At(u) \in {"bind", "bound"} => Life(Has(u)) = "made"
       /\ At(u) = "close" => Life(Has(u)) = "removed"
  /\ \A u, v \in ConetUser : Has(u) = Has(v) /\ Has(u) # "none" => u = v
  /\ injector.at = "idle" <=> injector.adapter = "none"
LifeExact ==
  \A a \in Adapter :
    /\ Life(a) = "free" =>
         /\ conetAdapter[a].ndis = "closed" /\ ~conetAdapter[a].handle
         /\ Outstanding(conetAdapter[a]) = 0
    /\ Life(a) = "made" \/ (Life(a) = "removed" /\ conetMonitor = "up") =>
         \E u \in ConetUser : Has(u) = a
MonitorExact ==
  /\ conetMonitor # "up" => injector.at = "idle" /\ \A u \in ConetUser : At(u) = "idle"
  /\ conetMonitor = "freed" => \A a \in Adapter : Life(a) = "free"
BoundExact ==
  "card lost" \notin conetMishaps => \A a \in Adapter :
    Life(a) = "listed" \/ (\E u \in ConetUser : At(u) = "bound" /\ Has(u) = a) =>
      conetAdapter[a].ndis = "open" /\ conetAdapter[a].handle
PoolKept == \A a \in Adapter : InPool(a) >= 0
OneAdapter ==
  "overlap" \notin conetMishaps =>
    \A a, b \in Adapter : Life(a) \in {"made", "listed"} /\ Life(b) \in {"made", "listed"} => a = b
ToldRight ==
  conetTold /\ conetMonitor = "up" =>
    (\E a \in Adapter : Life(a) = "listed") \/ \E u \in ConetUser : At(u) = "close"

AdapterInv == ConetTypeOK /\ HoldersExact /\ LifeExact /\ MonitorExact /\ BoundExact /\ PoolKept /\ OneAdapter /\ ToldRight

(* What the pointers of the injecting thread are worth, and which packets are on a list that NDIS
   does not have. *)
InjectorExact ==
  injector.at # "idle" =>
    /\ injector.sees = "bound" => Life(injector.adapter) = "listed"
    /\ injector.sees = "closed" => /\ Life(injector.adapter) \in {"listed", "removed"}
                                   /\ conetAdapter[injector.adapter].ndis = "closed"
    /\ injector.sees = "reused" => Life(injector.adapter) # "free"
LateExact == \A a \in Adapter : conetAdapter[a].late >= Linked(a)
WildExact ==
  "freed in use" \notin conetMishaps =>
    /\ injector.at # "idle" => injector.sees \in {"bound", "closed"}
    /\ \A a \in Adapter :
         /\ conetAdapter[a].list = "own"
         /\ conetAdapter[a].late > Linked(a) => conetAdapter[a].ndis = "closed"
         /\ Life(a) = "made" => conetAdapter[a].late = 0
PointersRight == InjectorExact /\ LateExact /\ WildExact

AdapterRecord == [life : {"free", "made", "listed", "removed"}, ndis : {"open", "closed"},
                  handle : BOOLEAN, sends : 0..PoolSize, late : 0..PoolSize,
                  transfers : 0..PoolSize, list : {"own", "strayed"}]
InjectorRecord == [at : {"idle", "adapter", "packet", "linked"}, adapter : Adapter \union {"none"},
                   sees : {"bound", "closed", "freed", "reused"}]
UserRecord == [at : {"idle", "bind", "bound", "close"}, adapter : Adapter \union {"none"}]

(* One adapter becomes r, one user v, and the others stay. *)
Becomes(a, r) ==
  /\ r \in AdapterRecord /\ conetAdapter' \in [Adapter -> AdapterRecord]
  /\ conetAdapter'[a] = r
  /\ \A b \in Adapter : b # a => conetAdapter'[b] = conetAdapter[b]
AdapterGoes(u, r) ==
  /\ r \in UserRecord /\ conetUser' \in [ConetUser -> UserRecord]
  /\ conetUser'[u] = r
  /\ \A v \in ConetUser : v # u => conetUser'[v] = conetUser[v]

LEMMA BecomesWhen ==
  ASSUME conetAdapter \in [Adapter -> AdapterRecord], NEW a \in Adapter, NEW r \in AdapterRecord,
         conetAdapter' = [conetAdapter EXCEPT ![a] = r]
  PROVE  Becomes(a, r)
BY DEF Becomes

LEMMA GoesWhen ==
  ASSUME conetUser \in [ConetUser -> UserRecord], NEW u \in ConetUser, NEW r \in UserRecord,
         conetUser' = [conetUser EXCEPT ![u] = r]
  PROVE  AdapterGoes(u, r)
BY DEF AdapterGoes

LEMMA ConetRecords ==
  /\ Free \in AdapterRecord /\ ConetIdle \in UserRecord
  /\ \A r \in UserRecord : r = ConetIdle <=> r.at = "idle" /\ r.adapter = "none"
  /\ \A r \in AdapterRecord : r = Free <=> /\ r.life = "free" /\ r.ndis = "closed" /\ ~r.handle
                                           /\ r.sends = 0 /\ r.late = 0 /\ r.transfers = 0
                                           /\ r.list = "own"
  /\ \A r \in AdapterRecord : Outstanding(r) \in Nat
  /\ Outstanding(Free) = 0
<1>1. Free \in AdapterRecord /\ ConetIdle \in UserRecord
  BY ConetAssumption DEF Free, ConetIdle, AdapterRecord, UserRecord
<1>2. \A r \in UserRecord : r = [at |-> r.at, adapter |-> r.adapter]
  BY DEF UserRecord
<1>3. \A r \in AdapterRecord : r = [life |-> r.life, ndis |-> r.ndis, handle |-> r.handle, sends |-> r.sends,
                                    late |-> r.late, transfers |-> r.transfers, list |-> r.list]
  BY DEF AdapterRecord
<1>4. \A r \in AdapterRecord : r.handle \in BOOLEAN
  BY DEF AdapterRecord
<1>5. \A r \in AdapterRecord : r = Free <=> /\ r.life = "free" /\ r.ndis = "closed" /\ ~r.handle
                                            /\ r.sends = 0 /\ r.late = 0 /\ r.transfers = 0
                                            /\ r.list = "own"
  BY <1>3, <1>4 DEF Free
<1>6. (\A r \in AdapterRecord : Outstanding(r) \in Nat) /\ Outstanding(Free) = 0
  BY ConetAssumption DEF AdapterRecord, Outstanding, Free
<1> QED
  BY <1>1, <1>2, <1>5, <1>6 DEF ConetIdle

LEMMA ConetTyped ==
  ConetTypeOK =>
    /\ conetAdapter \in [Adapter -> AdapterRecord] /\ conetUser \in [ConetUser -> UserRecord]
    /\ injector \in InjectorRecord
    /\ workItems \in 0..MaxWork
BY DEF ConetTypeOK, AdapterRecord, UserRecord, InjectorRecord

LEMMA ConetUserFacts ==
  ASSUME AdapterInv, NEW u \in ConetUser
  PROVE  /\ conetUser[u] = ConetIdle <=> At(u) = "idle"
         /\ At(u) \in {"idle", "bind", "bound", "close"}
         /\ Has(u) \in Adapter \union {"none"}
         /\ At(u) # "idle" => Has(u) \in Adapter
<1>1. conetUser[u] \in UserRecord
  BY ConetTyped DEF AdapterInv
<1> QED
  BY <1>1, ConetRecords DEF At, Has, UserRecord, AdapterInv, HoldersExact

(* What NDIS, the card and the injecting thread do leaves every adapter where it is. *)
LEMMA LifeKept ==
  ASSUME AdapterInv, conetUser' = conetUser, conetMonitor' = conetMonitor, conetTold' = conetTold,
         injector'.at = "idle" <=> injector'.adapter = "none",
         conetMonitor # "up" => injector'.at = "idle",
         "overlap" \notin conetMishaps' => "overlap" \notin conetMishaps,
         \A a \in Adapter :
           /\ Life(a)' = Life(a)
           /\ \/ Life(a) # "free"
              \/ /\ conetAdapter'[a].ndis = conetAdapter[a].ndis
                 /\ conetAdapter'[a].handle = conetAdapter[a].handle
                 /\ Outstanding(conetAdapter'[a]) = Outstanding(conetAdapter[a]),
         "card lost" \notin conetMishaps' =>
           /\ "card lost" \notin conetMishaps
           /\ \A a \in Adapter : /\ conetAdapter'[a].ndis = conetAdapter[a].ndis
                                 /\ conetAdapter'[a].handle = conetAdapter[a].handle
  PROVE  HoldersExact' /\ LifeExact' /\ MonitorExact' /\ BoundExact' /\ OneAdapter' /\ ToldRight'
<1>1. \A u \in ConetUser : At(u)' = At(u) /\ Has(u)' = Has(u)
  BY DEF At, Has
<1>2. \A u \in ConetUser : At(u) # "idle" => Has(u) \in Adapter
  BY ConetUserFacts
<1>3. HoldersExact'
  <2>1. \A a \in Adapter : conetAdapter'[a].life = conetAdapter[a].life
    BY DEF Life
  <2>2. \A u \in ConetUser :
         /\ At(u) = "idle" <=> Has(u) = "none"
         /\ At(u) \in {"bind", "bound"} => conetAdapter'[Has(u)].life = "made"
         /\ At(u) = "close" => conetAdapter'[Has(u)].life = "removed"
    BY <1>2, <2>1 DEF AdapterInv, HoldersExact, Life
  <2>3. \A u, v \in ConetUser : Has(u) = Has(v) /\ Has(u) # "none" => u = v
    BY DEF AdapterInv, HoldersExact
  <2>4. \A u \in ConetUser :
         /\ At(u)' = "idle" <=> Has(u)' = "none"
         /\ At(u)' \in {"bind", "bound"} => conetAdapter'[Has(u)'].life = "made"
         /\ At(u)' = "close" => conetAdapter'[Has(u)'].life = "removed"
    BY <2>2, <1>1
  <2>5. \A u, v \in ConetUser : Has(u)' = Has(v)' /\ Has(u)' # "none" => u = v
    BY <2>3, <1>1
  <2> QED
    BY <2>4, <2>5 DEF HoldersExact, Life
<1>4. LifeExact'
  BY <1>1 DEF AdapterInv, LifeExact, Life
<1>5. MonitorExact'
  BY <1>1 DEF AdapterInv, MonitorExact
<1>6. BoundExact'
  BY <1>1 DEF AdapterInv, BoundExact
<1>7. OneAdapter' /\ ToldRight'
  BY <1>1 DEF AdapterInv, OneAdapter, ToldRight
<1> QED
  BY <1>3, <1>4, <1>5, <1>6, <1>7

LEMMA PoolFacts ==
  ASSUME AdapterInv, NEW a \in Adapter
  PROVE  /\ Outstanding(conetAdapter[a]) \in Nat /\ PoolSize \in Nat
         /\ conetAdapter[a].sends \in Nat /\ conetAdapter[a].late \in Nat
         /\ conetAdapter[a].transfers \in Nat
         /\ Outstanding(conetAdapter[a]) + Loose(a) <= PoolSize
         /\ Loose(a) \in {0, 1}
         /\ Life(a) = "free" => conetAdapter[a].ndis = "closed" /\ Outstanding(conetAdapter[a]) = 0
         /\ InPool(a) = PoolSize - Outstanding(conetAdapter[a]) - Loose(a)
<1>1. conetAdapter[a] \in AdapterRecord
  BY ConetTyped DEF AdapterInv
<1>2. /\ Outstanding(conetAdapter[a]) \in Nat /\ PoolSize \in Nat
      /\ conetAdapter[a].sends \in Nat /\ conetAdapter[a].late \in Nat
      /\ conetAdapter[a].transfers \in Nat
  BY <1>1, ConetAssumption, ConetRecords DEF AdapterRecord
<1>3. Loose(a) \in {0, 1}
  BY DEF Loose
<1>4. InPool(a) >= 0
  BY DEF AdapterInv, PoolKept
<1> HIDE DEF Loose
<1> QED
  BY <1>2, <1>3, <1>4 DEF InPool, AdapterInv, LifeExact

LEMMA PoolStep ==
  ASSUME AdapterInv, NEW a \in Adapter,
         \A b \in Adapter : b # a => conetAdapter'[b] = conetAdapter[b] /\ (Loose(b)' = 0 \/ Loose(b)' = Loose(b)),
         Outstanding(conetAdapter'[a]) \in Nat, Loose(a)' \in {0, 1},
         Outstanding(conetAdapter'[a]) + Loose(a)' <= PoolSize
  PROVE  PoolKept'
<1>1. ASSUME NEW b \in Adapter, b # a PROVE InPool(b)' >= 0
  <2>1. conetAdapter'[b] = conetAdapter[b] /\ (Loose(b)' = 0 \/ Loose(b)' = Loose(b))
    BY <1>1
  <2> QED
    BY <2>1, PoolFacts DEF InPool
<1>2. InPool(a)' >= 0
  BY PoolFacts DEF InPool
<1> QED
  BY <1>1, <1>2 DEF PoolKept

(* A step that leaves the adapters as they are, and gives no packet that is not in the pool. *)
LEMMA AdaptersStay ==
  ASSUME AdapterInv, conetAdapter' = conetAdapter, conetUser' = conetUser, conetMonitor' = conetMonitor,
         conetTold' = conetTold, conetMishaps' = conetMishaps, workItems' \in 0..MaxWork,
         injector' \in InjectorRecord,
         injector'.at = "idle" <=> injector'.adapter = "none",
         conetMonitor # "up" => injector'.at = "idle",
         \A a \in Adapter : Loose(a)' = 0 \/ Loose(a)' = Loose(a) \/ (InPool(a) > 0 /\ injector.at # "packet")
  PROVE  AdapterInv'
<1>1. HoldersExact' /\ LifeExact' /\ MonitorExact' /\ BoundExact' /\ OneAdapter' /\ ToldRight'
  BY LifeKept DEF Life
<1>2. ConetTypeOK'
  BY DEF AdapterInv, ConetTypeOK, InjectorRecord
<1>3. ASSUME NEW a \in Adapter PROVE InPool(a)' >= 0
  <2>1. CASE Loose(a)' = 0 \/ Loose(a)' = Loose(a)
    BY <2>1, PoolFacts DEF InPool
  <2>2. CASE Loose(a)' = 1 /\ InPool(a) > 0 /\ injector.at # "packet"
    <3>1. Loose(a) = 0
      BY <2>2 DEF Loose, Injecting
    <3> QED
      BY <3>1, <2>2, PoolFacts DEF InPool
  <2> QED
    BY <2>1, <2>2 DEF Loose
<1> QED
  BY <1>1, <1>2, <1>3 DEF AdapterInv, PoolKept

(* What becomes of an adapter under the injecting thread changes neither where that thread is
   nor which adapter it found; a packet in its hands may leave the pool's count. *)
InjectorStays ==
  /\ injector' \in InjectorRecord /\ injector'.at = injector.at /\ injector'.adapter = injector.adapter
  /\ \A b \in Adapter : Loose(b)' = Loose(b) \/ Loose(b)' = 0

LEMMA PointersStay ==
  ASSUME AdapterInv,
         \/ injector' = injector
         \/ \E a \in Adapter, worth \in {"closed", "freed", "reused"} : PointersTo(a, worth)
  PROVE  InjectorStays
<1>1. injector \in InjectorRecord
  BY ConetTyped DEF AdapterInv
<1>2. CASE injector' = injector
  BY <1>1, <1>2 DEF InjectorStays, Loose, Injecting
<1>3. ASSUME NEW a \in Adapter, NEW worth \in {"closed", "freed", "reused"}, PointersTo(a, worth)
      PROVE  InjectorStays
  <2>1. injector' = injector \/ injector' = [injector EXCEPT !.sees = worth]
    BY <1>3 DEF PointersTo
  <2>2. injector' \in InjectorRecord /\ injector'.at = injector.at /\ injector'.adapter = injector.adapter
    BY <1>1, <2>1 DEF InjectorRecord
  <2>3. CASE injector' = injector
    BY <2>2, <2>3 DEF InjectorStays, Loose, Injecting
  <2>4. CASE injector' # injector
    <3>1. injector'.sees = worth
      BY <1>1, <2>1, <2>4 DEF InjectorRecord
    <3>2. (worth = "reused" => injector.at = "adapter") /\ (worth = "closed" => injector.sees = "bound")
      BY <1>3, <2>4 DEF PointersTo
    <3> QED
      BY <2>2, <3>1, <3>2 DEF InjectorStays, Loose, Injecting
  <2> QED
    BY <2>3, <2>4
<1> QED
  BY <1>2, <1>3

LEMMA WorkBounded ==
  ASSUME AdapterInv, TransferMessage
  PROVE  workItems' \in 0..MaxWork
<1>1. workItems \in Nat /\ MaxWork \in Nat /\ workItems <= MaxWork
  BY ConetAssumption, ConetTyped DEF AdapterInv
<1> QED
  BY <1>1 DEF TransferMessage

LEMMA PacketStep ==
  ASSUME AdapterInv, PointersRight,
         \/ \E a \in Adapter : \/ HostUnbinds(a) \/ SendComplete(a) \/ Receive(a)
                               \/ ReceivePart(a) \/ TransferComplete(a)
         \/ InjectFinds \/ InjectAllocates \/ InjectLinks \/ InjectSends \/ WorkItemRuns
  PROVE  AdapterInv'
<1>1. ASSUME NEW a \in Adapter, HostUnbinds(a) PROVE AdapterInv'
  <2> DEFINE r == [conetAdapter[a] EXCEPT !.ndis = "closed", !.handle = FALSE]
  <2>1. conetAdapter[a].ndis = "open"
    BY <1>1 DEF HostUnbinds
  <2>2. r \in AdapterRecord /\ r.life = Life(a) /\ Life(a) # "free"
    BY <2>1, ConetTyped, PoolFacts, ZenonT(60) DEF AdapterInv, AdapterRecord, Life, Outstanding
  <2>3. conetAdapter' = [conetAdapter EXCEPT ![a] = r]
    BY <1>1 DEF HostUnbinds
  <2>4. Becomes(a, r)
    BY <2>2, <2>3, BecomesWhen, ConetTyped DEF AdapterInv
  <2>11. InjectorStays
    BY <1>1, PointersStay DEF HostUnbinds
  <2>5. /\ conetUser' = conetUser /\ conetMonitor' = conetMonitor
        /\ conetTold' = conetTold
        /\ conetMishaps' \in {conetMishaps, conetMishaps \union {"card lost"}}
    BY <1>1 DEF HostUnbinds
  <2>10. "card lost" \notin conetMishaps' => r.ndis = conetAdapter[a].ndis /\ r.handle = conetAdapter[a].handle
    BY <1>1, ConetTyped DEF HostUnbinds, AdapterInv, AdapterRecord
  <2>9. workItems' \in 0..MaxWork
    BY <1>1, ConetAssumption DEF HostUnbinds, AdapterInv, ConetTypeOK
  <2>6. HoldersExact' /\ LifeExact' /\ MonitorExact' /\ BoundExact' /\ OneAdapter' /\ ToldRight'
    <3> HIDE DEF r
    <3> QED
      BY <2>2, <2>4, <2>5, <2>10, <2>11, LifeKept DEF Becomes, Life, AdapterInv, MonitorExact, HoldersExact, InjectorStays
  <2>7. ConetTypeOK'
    BY <2>4, <2>5, <2>9, <2>11 DEF Becomes, AdapterRecord, AdapterInv, ConetTypeOK, InjectorStays, InjectorRecord
  <2>8. PoolKept'
    <3>1. \A b \in Adapter : Loose(b)' = Loose(b) \/ Loose(b)' = 0
      BY <2>11 DEF InjectorStays
    <3>2. \A b \in Adapter : b # a => conetAdapter'[b] = conetAdapter[b]
      BY <2>4 DEF Becomes
    <3>3. Outstanding(conetAdapter'[a]) \in Nat /\ Outstanding(conetAdapter'[a]) + Loose(a) <= PoolSize
      BY <2>1, <2>4, PoolFacts DEF Becomes, Outstanding
    <3> QED
      BY <3>1, <3>2, <3>3, PoolStep, PoolFacts
  <2> QED
    BY <2>6, <2>7, <2>8 DEF AdapterInv
<1>2. ASSUME NEW a \in Adapter, SendComplete(a) PROVE AdapterInv'
  <2> DEFINE r == [conetAdapter[a] EXCEPT !.sends = @ - 1]
  <2>1. conetAdapter[a].sends > 0
    BY <1>2 DEF SendComplete
  <2>2. r \in AdapterRecord /\ r.life = Life(a) /\ Life(a) # "free"
    BY <2>1, ConetTyped, PoolFacts DEF AdapterInv, AdapterRecord, Life, Outstanding
  <2>3. conetAdapter' = [conetAdapter EXCEPT ![a] = r]
    BY <1>2 DEF SendComplete
  <2>4. Becomes(a, r)
    BY <2>2, <2>3, BecomesWhen, ConetTyped DEF AdapterInv
  <2>5. /\ conetUser' = conetUser /\ injector' = injector /\ conetMonitor' = conetMonitor
        /\ conetTold' = conetTold
        /\ conetMishaps' \in {conetMishaps, conetMishaps \union {"card lost"}}
    BY <1>2 DEF SendComplete
  <2>10. "card lost" \notin conetMishaps' => r.ndis = conetAdapter[a].ndis /\ r.handle = conetAdapter[a].handle
    BY <1>2, ConetTyped DEF SendComplete, AdapterInv, AdapterRecord
  <2>9. workItems' \in 0..MaxWork
    BY <1>2, ConetAssumption DEF SendComplete, AdapterInv, ConetTypeOK
  <2>6. HoldersExact' /\ LifeExact' /\ MonitorExact' /\ BoundExact' /\ OneAdapter' /\ ToldRight'
    <3> HIDE DEF r
    <3> QED
      BY <2>2, <2>4, <2>5, <2>10, LifeKept DEF Becomes, Life, AdapterInv, MonitorExact, HoldersExact
  <2>7. ConetTypeOK'
    BY <2>4, <2>5, <2>9 DEF Becomes, AdapterRecord, AdapterInv, ConetTypeOK
  <2>8. PoolKept'
    <3>1. \A b \in Adapter : Loose(b)' = Loose(b)
      BY <2>5 DEF Loose, Injecting
    <3>2. \A b \in Adapter : b # a => conetAdapter'[b] = conetAdapter[b]
      BY <2>4 DEF Becomes
    <3>3. Outstanding(conetAdapter'[a]) \in Nat /\ Outstanding(conetAdapter'[a]) + Loose(a) <= PoolSize
      BY <2>1, <2>4, PoolFacts DEF Becomes, Outstanding
    <3> QED
      BY <3>1, <3>2, <3>3, PoolStep, PoolFacts
  <2> QED
    BY <2>6, <2>7, <2>8 DEF AdapterInv
<1>3. ASSUME NEW a \in Adapter, ReceivePart(a) PROVE AdapterInv'
  <2> DEFINE r == [conetAdapter[a] EXCEPT !.transfers = @ + 1]
  <2>1. conetAdapter[a].ndis = "open" /\ InPool(a) > 0
    BY <1>3 DEF ReceivePart
  <2>2. r \in AdapterRecord /\ r.life = Life(a) /\ Life(a) # "free"
    BY <2>1, ConetTyped, PoolFacts DEF AdapterInv, AdapterRecord, Life, Outstanding
  <2>3. conetAdapter' = [conetAdapter EXCEPT ![a] = r]
    BY <1>3 DEF ReceivePart
  <2>4. Becomes(a, r)
    BY <2>2, <2>3, BecomesWhen, ConetTyped DEF AdapterInv
  <2>5. /\ conetUser' = conetUser /\ injector' = injector /\ conetMonitor' = conetMonitor
        /\ conetTold' = conetTold
        /\ conetMishaps' \in {conetMishaps, conetMishaps \union {"card lost"}}
    BY <1>3 DEF ReceivePart
  <2>10. "card lost" \notin conetMishaps' => r.ndis = conetAdapter[a].ndis /\ r.handle = conetAdapter[a].handle
    BY <1>3, ConetTyped DEF ReceivePart, AdapterInv, AdapterRecord
  <2>9. workItems' \in 0..MaxWork
    BY <1>3, ConetAssumption DEF ReceivePart, AdapterInv, ConetTypeOK
  <2>6. HoldersExact' /\ LifeExact' /\ MonitorExact' /\ BoundExact' /\ OneAdapter' /\ ToldRight'
    <3> HIDE DEF r
    <3> QED
      BY <2>2, <2>4, <2>5, <2>10, LifeKept DEF Becomes, Life, AdapterInv, MonitorExact, HoldersExact
  <2>7. ConetTypeOK'
    BY <2>4, <2>5, <2>9 DEF Becomes, AdapterRecord, AdapterInv, ConetTypeOK
  <2>8. PoolKept'
    <3>1. \A b \in Adapter : Loose(b)' = Loose(b)
      BY <2>5 DEF Loose, Injecting
    <3>2. \A b \in Adapter : b # a => conetAdapter'[b] = conetAdapter[b]
      BY <2>4 DEF Becomes
    <3>3. Outstanding(conetAdapter'[a]) \in Nat /\ Outstanding(conetAdapter'[a]) + Loose(a) <= PoolSize
      BY <2>1, <2>4, PoolFacts DEF Becomes, Outstanding
    <3> QED
      BY <3>1, <3>2, <3>3, PoolStep, PoolFacts
  <2> QED
    BY <2>6, <2>7, <2>8 DEF AdapterInv
<1>4. ASSUME NEW a \in Adapter, TransferComplete(a) PROVE AdapterInv'
  <2> DEFINE r == [conetAdapter[a] EXCEPT !.transfers = @ - 1]
  <2>1. conetAdapter[a].transfers > 0
    BY <1>4 DEF TransferComplete, TransferMessage
  <2>2. r \in AdapterRecord /\ r.life = Life(a) /\ Life(a) # "free"
    BY <2>1, ConetTyped, PoolFacts DEF AdapterInv, AdapterRecord, Life, Outstanding
  <2>3. conetAdapter' = [conetAdapter EXCEPT ![a] = r]
    BY <1>4 DEF TransferComplete, TransferMessage
  <2>4. Becomes(a, r)
    BY <2>2, <2>3, BecomesWhen, ConetTyped DEF AdapterInv
  <2>5. /\ conetUser' = conetUser /\ injector' = injector /\ conetMonitor' = conetMonitor
        /\ conetTold' = conetTold
        /\ conetMishaps' \in {conetMishaps, conetMishaps \union {"card lost"}}
    BY <1>4 DEF TransferComplete, TransferMessage
  <2>10. "card lost" \notin conetMishaps' => r.ndis = conetAdapter[a].ndis /\ r.handle = conetAdapter[a].handle
    BY <1>4, ConetTyped DEF TransferComplete, TransferMessage, AdapterInv, AdapterRecord
  <2>9. workItems' \in 0..MaxWork
    BY <1>4, WorkBounded DEF TransferComplete
  <2>6. HoldersExact' /\ LifeExact' /\ MonitorExact' /\ BoundExact' /\ OneAdapter' /\ ToldRight'
    <3> HIDE DEF r
    <3> QED
      BY <2>2, <2>4, <2>5, <2>10, LifeKept DEF Becomes, Life, AdapterInv, MonitorExact, HoldersExact
  <2>7. ConetTypeOK'
    BY <2>4, <2>5, <2>9 DEF Becomes, AdapterRecord, AdapterInv, ConetTypeOK
  <2>8. PoolKept'
    <3>1. \A b \in Adapter : Loose(b)' = Loose(b)
      BY <2>5 DEF Loose, Injecting
    <3>2. \A b \in Adapter : b # a => conetAdapter'[b] = conetAdapter[b]
      BY <2>4 DEF Becomes
    <3>3. Outstanding(conetAdapter'[a]) \in Nat /\ Outstanding(conetAdapter'[a]) + Loose(a) <= PoolSize
      BY <2>1, <2>4, PoolFacts DEF Becomes, Outstanding
    <3> QED
      BY <3>1, <3>2, <3>3, PoolStep, PoolFacts
  <2> QED
    BY <2>6, <2>7, <2>8 DEF AdapterInv
<1>5. /\ injector \in InjectorRecord
      /\ injector.at = "idle" <=> injector.adapter = "none"
      /\ conetMonitor # "up" => injector.at = "idle"
  BY ConetTyped DEF AdapterInv, HoldersExact, MonitorExact
<1>6. ASSUME NEW a \in Adapter, Receive(a) PROVE AdapterInv'
  <2>1. workItems' \in 0..MaxWork
    BY <1>6, WorkBounded DEF Receive
  <2>2. UNCHANGED <<conetMonitor, conetAdapter, conetUser, injector, conetTold, conetMishaps>>
    BY <1>6 DEF Receive
  <2>3. /\ injector' \in InjectorRecord
        /\ injector'.at = "idle" <=> injector'.adapter = "none"
        /\ conetMonitor # "up" => injector'.at = "idle"
    BY <2>2, <1>5
  <2>4. \A b \in Adapter : Loose(b)' = Loose(b)
    BY <2>2 DEF Loose, Injecting
  <2> HIDE DEF AdapterInv
  <2> QED
    BY <2>1, <2>2, <2>3, <2>4, AdaptersStay
<1>7. CASE InjectFinds
  <2>1. PICK a \in Listed : injector' = [at |-> "adapter", adapter |-> a, sees |-> "bound"]
    BY <1>7 DEF InjectFinds
  <2>2. a \in Adapter /\ a # "none"
    BY ConetAssumption DEF Listed
  <2>3. conetMonitor = "up" /\ UNCHANGED <<conetMonitor, conetAdapter, conetUser, conetTold, workItems, conetMishaps>>
    BY <1>7 DEF InjectFinds
  <2>4. workItems' \in 0..MaxWork
    BY <2>3, ConetTyped DEF AdapterInv
  <2>5. injector' \in InjectorRecord /\ injector'.at = "adapter" /\ injector'.adapter = a
    BY <2>1, <2>2 DEF InjectorRecord
  <2>6. \A b \in Adapter : Loose(b)' = 0
    BY <2>5 DEF Loose, Injecting
  <2> HIDE DEF AdapterInv
  <2> QED
    BY <2>2, <2>3, <2>4, <2>5, <2>6, AdaptersStay
<1>8. CASE InjectAllocates
  <2>1. /\ UNCHANGED <<conetMonitor, conetAdapter, conetUser, conetTold, workItems, conetMishaps>>
        /\ injector.at = "adapter"
    BY <1>8 DEF InjectAllocates
  <2>2. workItems' \in 0..MaxWork
    BY <2>1, ConetTyped DEF AdapterInv
  <2>3. CASE injector' = Outside
    <3>1. injector' \in InjectorRecord /\ injector'.at = "idle" /\ injector'.adapter = "none"
      BY <2>3 DEF Outside, InjectorRecord
    <3>2. \A b \in Adapter : Loose(b)' = 0
      BY <3>1 DEF Loose, Injecting
    <3> HIDE DEF AdapterInv
    <3> QED
      BY <2>1, <2>2, <3>1, <3>2, AdaptersStay
  <2>4. CASE /\ injector.sees = "freed" \/ InPool(injector.adapter) > 0
             /\ injector' = [injector EXCEPT !.at = "packet"]
    <3>1. /\ injector' \in InjectorRecord /\ injector'.at = "packet"
          /\ injector'.adapter = injector.adapter /\ injector'.sees = injector.sees
      BY <2>4, <1>5 DEF InjectorRecord
    <3>2. injector.adapter # "none" /\ conetMonitor = "up"
      BY <2>1, <1>5 DEF AdapterInv, HoldersExact, MonitorExact
    <3>3. \A b \in Adapter : Loose(b)' = 0 \/ (b = injector.adapter /\ injector.sees # "freed")
      BY <3>1 DEF Loose, Injecting
    <3>4. \A b \in Adapter : Loose(b)' = 0 \/ (InPool(b) > 0 /\ injector.at # "packet")
      BY <3>3, <2>1, <2>4
    <3> HIDE DEF AdapterInv
    <3> QED
      BY <3>1, <3>2, <3>4, <2>1, <2>2, AdaptersStay
  <2> QED
    BY <1>8, <2>3, <2>4 DEF InjectAllocates
<1>9. ASSUME InjectLinks \/ InjectSends PROVE AdapterInv'
  <2> DEFINE a == injector.adapter
             old == conetAdapter[a]
  <2>1. /\ injector.at \in {"packet", "linked"} /\ a \in Adapter
        /\ UNCHANGED <<conetMonitor, conetUser, conetTold, workItems, conetMishaps>>
    BY <1>9, <1>5 DEF InjectLinks, InjectSends, InjectorRecord
  <2>2. /\ injector' \in InjectorRecord
        /\ injector'.at = "idle" <=> injector'.adapter = "none"
        /\ \A b \in Adapter : Loose(b)' = 0
    <3>1. CASE InjectLinks
      <4>1. /\ injector' \in InjectorRecord /\ injector'.at = "linked" /\ injector'.adapter = a
        BY <3>1, <1>5 DEF InjectLinks, InjectorRecord
      <4> QED
        BY <4>1, <2>1, ConetAssumption DEF Loose, Injecting
    <3>2. CASE InjectSends
      <4>1. injector' \in InjectorRecord /\ injector'.at = "idle" /\ injector'.adapter = "none"
        BY <3>2 DEF InjectSends, InjectorRecord, Outside
      <4> QED
        BY <4>1 DEF Loose, Injecting
    <3> QED
      BY <1>9, <3>1, <3>2
  <2>3. conetMonitor = "up"
    BY <2>1 DEF AdapterInv, MonitorExact
  <2>4. workItems' \in 0..MaxWork
    BY <2>1, ConetTyped DEF AdapterInv
  <2>5. old \in AdapterRecord
    BY <2>1, ConetTyped DEF AdapterInv
  <2>6. CASE conetAdapter' = conetAdapter
    <3> HIDE DEF AdapterInv
    <3> QED
      BY <2>1, <2>2, <2>3, <2>4, <2>6, AdaptersStay
  <2>7. ASSUME NEW r, conetAdapter' = [conetAdapter EXCEPT ![a] = r], r \in AdapterRecord,
               r.life = old.life, r.ndis = old.ndis, r.handle = old.handle,
               \/ Outstanding(r) = Outstanding(old)
               \/ Life(a) # "free" /\ Outstanding(r) <= Outstanding(old) + Loose(a)
        PROVE  AdapterInv'
    <3>1. Becomes(a, r)
      BY <2>1, <2>7, BecomesWhen, ConetTyped DEF AdapterInv
    <3>2. HoldersExact' /\ LifeExact' /\ MonitorExact' /\ BoundExact' /\ OneAdapter' /\ ToldRight'
      <4>1. \A b \in Adapter :
              /\ Life(b)' = Life(b)
              /\ conetAdapter'[b].ndis = conetAdapter[b].ndis
              /\ conetAdapter'[b].handle = conetAdapter[b].handle
              /\ Life(b) # "free" \/ Outstanding(conetAdapter'[b]) = Outstanding(conetAdapter[b])
        BY <2>7, <3>1 DEF Becomes, Life
      <4> HIDE DEF AdapterInv, a, old
      <4> QED
        BY <2>1, <2>2, <2>3, <4>1, LifeKept
    <3>3. ConetTypeOK'
      BY <2>1, <2>2, <2>4, <3>1 DEF Becomes, AdapterRecord, AdapterInv, ConetTypeOK, InjectorRecord
    <3>4. PoolKept'
      <4>1. \A b \in Adapter : b # a => conetAdapter'[b] = conetAdapter[b]
        BY <3>1 DEF Becomes
      <4>2. Outstanding(r) \in Nat /\ conetAdapter'[a] = r
        BY <2>7, <3>1, ConetRecords DEF Becomes
      <4>3. Outstanding(r) + 0 <= PoolSize
        BY <2>1, <2>7, <4>2, PoolFacts
      <4> HIDE DEF AdapterInv, a, old
      <4> QED
        BY <2>1, <2>2, <4>1, <4>2, <4>3, PoolStep
    <3> QED
      BY <3>2, <3>3, <3>4 DEF AdapterInv
  <2>8. CASE InjectLinks /\ injector.sees # "freed"
    <3> DEFINE r == [old EXCEPT !.late = @ + 1]
    <3>1. conetAdapter' = [conetAdapter EXCEPT ![a] = r]
      BY <2>8 DEF InjectLinks
    <3>2. Loose(a) = 1 /\ Life(a) # "free"
      BY <2>8, <2>1 DEF InjectLinks, Loose, Injecting, PointersRight, InjectorExact, InjectorRecord, AdapterInv, ConetTypeOK
    <3>3. Outstanding(old) \in Nat /\ Outstanding(old) + 1 <= PoolSize /\ old.sends \in Nat /\ old.late \in Nat /\ old.transfers \in Nat /\ PoolSize \in Nat
      BY <2>1, <3>2, PoolFacts
    <3>4. r \in AdapterRecord /\ r.life = old.life /\ r.ndis = old.ndis /\ r.handle = old.handle
      BY <2>5, <3>3 DEF AdapterRecord, Outstanding
    <3>5. Outstanding(r) = Outstanding(old) + 1
      BY <2>5, <3>3 DEF AdapterRecord, Outstanding
    <3>6. Outstanding(r) <= Outstanding(old) + Loose(a)
      BY <3>2, <3>3, <3>5
    <3> HIDE DEF r, old, a
    <3> QED
      BY <2>7, <3>1, <3>2, <3>4, <3>6
  <2>9. CASE conetAdapter' = [conetAdapter EXCEPT ![a].list = "strayed"]
    <3> DEFINE r == [old EXCEPT !.list = "strayed"]
    <3>1. r \in AdapterRecord /\ r.life = old.life /\ r.ndis = old.ndis /\ r.handle = old.handle
      BY <2>5 DEF AdapterRecord
    <3>2. Outstanding(r) = Outstanding(old)
      BY <2>5 DEF AdapterRecord, Outstanding
    <3>3. conetAdapter' = [conetAdapter EXCEPT ![a] = r]
      BY <2>9
    <3> HIDE DEF r
    <3> QED
      BY <2>7, <3>1, <3>2, <3>3
  <2>10. CASE InjectSends /\ injector.sees # "freed"
              /\ conetAdapter' = [conetAdapter EXCEPT ![a].late = @ - 1]
    <3> DEFINE r == [old EXCEPT !.late = @ - 1]
    <3>1. Linked(a) = 1 /\ Life(a) # "free"
      BY <2>10, <2>1 DEF InjectSends, Linked, Injecting, PointersRight, InjectorExact, InjectorRecord, AdapterInv, ConetTypeOK
    <3>2. old.late >= 1 /\ old.late \in Nat /\ old.sends \in Nat /\ old.transfers \in Nat /\ PoolSize \in Nat
          /\ Loose(a) \in {0, 1}
      BY <2>1, <3>1, PoolFacts DEF PointersRight, LateExact
    <3>3. r \in AdapterRecord /\ r.life = old.life /\ r.ndis = old.ndis /\ r.handle = old.handle
      BY <2>5, <3>2 DEF AdapterRecord
    <3>4. Outstanding(r) <= Outstanding(old) + Loose(a)
      BY <2>1, <2>5, <3>2 DEF AdapterRecord, Outstanding
    <3>5. conetAdapter' = [conetAdapter EXCEPT ![a] = r]
      BY <2>10
    <3> HIDE DEF r, old, a
    <3> QED
      BY <2>7, <3>1, <3>3, <3>4, <3>5
  <2>11. CASE InjectSends /\ injector.sees # "freed"
              /\ conetAdapter' = [conetAdapter EXCEPT ![a].late = @ - 1, ![a].sends = @ + 1]
    <3> DEFINE r == [old EXCEPT !.late = @ - 1, !.sends = @ + 1]
    <3>1. Linked(a) = 1 /\ Life(a) # "free"
      BY <2>11, <2>1 DEF InjectSends, Linked, Injecting, PointersRight, InjectorExact, InjectorRecord, AdapterInv, ConetTypeOK
    <3>2. old.late >= 1 /\ old.late \in Nat /\ old.sends \in Nat /\ old.transfers \in Nat /\ PoolSize \in Nat
          /\ Loose(a) \in {0, 1} /\ Outstanding(old) + Loose(a) <= PoolSize
      BY <2>1, <3>1, PoolFacts DEF PointersRight, LateExact
    <3>6. old.sends + 1 \in 0..PoolSize /\ old.late - 1 \in 0..PoolSize
      BY <3>2 DEF Outstanding
    <3>3. r \in AdapterRecord /\ r.life = old.life /\ r.ndis = old.ndis /\ r.handle = old.handle
      BY <2>5, <3>6 DEF AdapterRecord
    <3>4. Outstanding(r) = Outstanding(old)
      BY <2>1, <2>5, <3>2 DEF AdapterRecord, Outstanding
    <3>5. conetAdapter' = [conetAdapter EXCEPT ![a] = r]
      BY <2>11
    <3> HIDE DEF r, old, a
    <3> QED
      BY <2>7, <3>1, <3>3, <3>4, <3>5
  <2> QED
    BY <1>9, <2>6, <2>8, <2>9, <2>10, <2>11 DEF InjectLinks, InjectSends
<1>10. CASE WorkItemRuns
  <2>1. workItems' \in 0..MaxWork
    <3>1. workItems \in 0..MaxWork /\ MaxWork \in Nat
      BY ConetAssumption, ConetTyped DEF AdapterInv
    <3> QED
      BY <3>1, <1>10 DEF WorkItemRuns
  <2>2. UNCHANGED <<conetMonitor, conetAdapter, conetUser, injector, conetTold, conetMishaps>>
    BY <1>10 DEF WorkItemRuns
  <2>3. /\ injector' \in InjectorRecord
        /\ injector'.at = "idle" <=> injector'.adapter = "none"
        /\ conetMonitor # "up" => injector'.at = "idle"
    BY <2>2, <1>5
  <2>4. \A b \in Adapter : Loose(b)' = Loose(b)
    BY <2>2 DEF Loose, Injecting
  <2> HIDE DEF AdapterInv
  <2> QED
    BY <2>1, <2>2, <2>3, <2>4, AdaptersStay
<1> QED
  BY <1>1, <1>2, <1>3, <1>4, <1>6, <1>7, <1>8, <1>9, <1>10
(* What bind and unbind do to one adapter and its user. *)
UserMoves(u, a, v, r) ==
  /\ AdapterGoes(u, v) /\ Becomes(a, r)
  /\ conetMonitor = "up" /\ conetMonitor' = "up" /\ InjectorStays /\ workItems' = workItems
  /\ conetTold' \in BOOLEAN
  /\ conetMishaps' \subseteq {"overlap", "closed twice", "freed in use", "late work", "card lost"}
  /\ conetMishaps \subseteq conetMishaps'
  /\ Has(u) \in {"none", a} /\ \A w \in ConetUser : w # u => Has(w) # a
  /\ \/ v.at = "idle" /\ v.adapter = "none"
     \/ v.at \in {"bind", "bound"} /\ v.adapter = a /\ r.life = "made"
     \/ v.at = "close" /\ v.adapter = a /\ r.life = "removed"
  /\ v.at = "idle" => r.life \in {"free", "listed"}
  /\ r.life = "free" => r = Free
  /\ Outstanding(r) = Outstanding(conetAdapter[a]) \/ r = Free
  /\ r.life = "listed" \/ v.at = "bound" =>
       "card lost" \in conetMishaps' \/ (r.ndis = "open" /\ r.handle)
  /\ r.life \in {"made", "listed"} =>
       \/ Life(a) \in {"made", "listed"}
       \/ "overlap" \in conetMishaps'
       \/ \A b \in Adapter : Life(b) \notin {"made", "listed"}

LEMMA PoolBecomes ==
  ASSUME AdapterInv, NEW a \in Adapter, NEW r, Becomes(a, r), InjectorStays,
         Outstanding(r) = Outstanding(conetAdapter[a]) \/ r = Free
  PROVE  PoolKept'
<1>1. \A b \in Adapter : (Loose(b)' = 0 \/ Loose(b)' = Loose(b)) /\ Loose(b) \in {0, 1}
  BY DEF Loose, InjectorStays
<1>2. /\ conetAdapter'[a] = r /\ r \in AdapterRecord
      /\ \A b \in Adapter : b # a => conetAdapter'[b] = conetAdapter[b]
  BY DEF Becomes
<1>3. Outstanding(r) \in Nat
  BY <1>2, ConetRecords
<1>4. Outstanding(r) + Loose(a)' <= PoolSize
  <2>1. CASE r = Free
    BY <2>1, <1>1, <1>3, ConetRecords, ConetAssumption
  <2>2. CASE Outstanding(r) = Outstanding(conetAdapter[a])
    BY <2>2, <1>1, <1>3, PoolFacts
  <2> QED
    BY <2>1, <2>2
<1>5. Loose(a)' \in {0, 1}
  BY <1>1
<1> HIDE DEF AdapterInv
<1> QED
  BY <1>1, <1>2, <1>3, <1>4, <1>5, PoolStep

LEMMA UserStep ==
  ASSUME AdapterInv, NEW u \in ConetUser, NEW a \in Adapter, NEW v, NEW r, UserMoves(u, a, v, r), ToldRight'
  PROVE  AdapterInv'
<1>a. AdapterGoes(u, v) /\ Becomes(a, r)
  BY DEF UserMoves
<1>b. /\ conetMonitor' = "up" /\ InjectorStays /\ workItems' = workItems /\ conetTold' \in BOOLEAN
      /\ conetMishaps' \subseteq {"overlap", "closed twice", "freed in use", "late work", "card lost"}
  BY DEF UserMoves
<1>c. Has(u) \in {"none", a} /\ \A w \in ConetUser : w # u => Has(w) # a
  BY DEF UserMoves
<1>d. /\ \/ v.at = "idle" /\ v.adapter = "none"
         \/ v.at \in {"bind", "bound"} /\ v.adapter = a /\ r.life = "made"
         \/ v.at = "close" /\ v.adapter = a /\ r.life = "removed"
      /\ v.at = "idle" => r.life \in {"free", "listed"}
      /\ r.life = "free" => r = Free
  BY DEF UserMoves
<1>1. /\ At(u)' = v.at /\ Has(u)' = v.adapter
      /\ \A w \in ConetUser : w # u => At(w)' = At(w) /\ Has(w)' = Has(w)
  BY <1>a DEF AdapterGoes, At, Has
<1>2. /\ conetAdapter'[a] = r /\ r \in AdapterRecord /\ v \in UserRecord
      /\ \A b \in Adapter : b # a => conetAdapter'[b] = conetAdapter[b]
  BY <1>a DEF Becomes, AdapterGoes
<1>3. Life(a)' = r.life /\ \A b \in Adapter : b # a => Life(b)' = Life(b)
  BY <1>2 DEF Life
<1>4. ConetTypeOK'
  <2>1. conetUser' \in [ConetUser -> UserRecord] /\ conetAdapter' \in [Adapter -> AdapterRecord]
    BY <1>a DEF AdapterGoes, Becomes
  <2> QED
    BY <2>1, <1>b DEF ConetTypeOK, UserRecord, AdapterRecord, AdapterInv, InjectorStays, InjectorRecord
<1>5. HoldersExact'
  <2>1. ASSUME NEW w \in ConetUser
        PROVE  /\ At(w)' = "idle" <=> Has(w)' = "none"
               /\ At(w)' \in {"bind", "bound"} => conetAdapter'[Has(w)'].life = "made"
               /\ At(w)' = "close" => conetAdapter'[Has(w)'].life = "removed"
    <3>1. CASE w = u
      BY <3>1, <1>1, <1>2, <1>d, ConetAssumption
    <3>2. CASE w # u
      <4>1. At(w)' = At(w) /\ Has(w)' = Has(w) /\ Has(w) # a
        BY <3>2, <1>1, <1>c
      <4>2. At(w) # "idle" => conetAdapter'[Has(w)] = conetAdapter[Has(w)]
        BY <4>1, <1>2, ConetUserFacts
      <4>3. /\ At(w) = "idle" <=> Has(w) = "none"
            /\ At(w) \in {"bind", "bound"} => conetAdapter[Has(w)].life = "made"
            /\ At(w) = "close" => conetAdapter[Has(w)].life = "removed"
        BY DEF AdapterInv, HoldersExact, Life
      <4> QED
        BY <4>1, <4>2, <4>3
    <3> QED
      BY <3>1, <3>2
  <2>2. ASSUME NEW w \in ConetUser, NEW x \in ConetUser, Has(w)' = Has(x)', Has(w)' # "none"
        PROVE  w = x
    <3>1. \A y \in ConetUser : y # u => Has(y)' = Has(y) /\ Has(y) # a
      BY <1>1, <1>c
    <3>2. Has(u)' \in {"none", a}
      BY <1>1, <1>d
    <3>3. Has(w) = Has(x) /\ Has(w) # "none" => w = x
      BY DEF AdapterInv, HoldersExact
    <3> QED
      BY <2>2, <3>1, <3>2, <3>3
  <2>3. (injector.at = "idle" <=> injector.adapter = "none")'
    BY <1>b DEF AdapterInv, HoldersExact, InjectorStays
  <2> QED
    BY <2>1, <2>2, <2>3 DEF HoldersExact, Life
<1>6. LifeExact'
  <2>1. ASSUME NEW b \in Adapter, Life(b)' = "free"
        PROVE  /\ conetAdapter'[b].ndis = "closed" /\ ~conetAdapter'[b].handle
               /\ Outstanding(conetAdapter'[b]) = 0
    <3>1. CASE b = a
      BY <3>1, <2>1, <1>2, <1>3, <1>d, ConetRecords DEF Free
    <3>2. CASE b # a
      BY <3>2, <2>1, <1>2, <1>3 DEF AdapterInv, LifeExact
    <3> QED
      BY <3>1, <3>2
  <2>2. ASSUME NEW b \in Adapter, Life(b)' \in {"made", "removed"}
        PROVE  \E w \in ConetUser : Has(w)' = b
    <3>1. CASE b = a
      BY <3>1, <2>2, <1>1, <1>3, <1>d
    <3>2. CASE b # a
      <4>1. PICK w \in ConetUser : Has(w) = b
        BY <3>2, <2>2, <1>3 DEF AdapterInv, LifeExact, UserMoves
      <4>2. w # u
        BY <4>1, <3>2, <1>c, ConetAssumption
      <4> QED
        BY <4>1, <4>2, <1>1
    <3> QED
      BY <3>1, <3>2
  <2> QED
    BY <2>1, <2>2 DEF LifeExact
<1>7. MonitorExact'
  BY <1>b DEF MonitorExact
<1>8. BoundExact'
  <2>1. SUFFICES ASSUME "card lost" \notin conetMishaps', NEW b \in Adapter,
                        Life(b)' = "listed" \/ (\E w \in ConetUser : At(w)' = "bound" /\ Has(w)' = b)
                 PROVE  conetAdapter'[b].ndis = "open" /\ conetAdapter'[b].handle
    BY DEF BoundExact
  <2>2. CASE b = a
    <3>1. Life(a)' = "listed" \/ At(u)' = "bound"
      BY <2>1, <2>2, <1>1, <1>c
    <3> QED
      BY <3>1, <2>1, <2>2, <1>1, <1>2, <1>3 DEF UserMoves
  <2>3. CASE b # a
    <3>1. Life(b) = "listed" \/ (\E w \in ConetUser : At(w) = "bound" /\ Has(w) = b)
      BY <2>1, <2>3, <1>1, <1>3, <1>d, ConetAssumption
    <3> QED
      BY <3>1, <2>1, <2>3, <1>2 DEF AdapterInv, BoundExact, UserMoves
  <2> QED
    BY <2>2, <2>3
<1>9. PoolKept'
  BY <1>a, <1>b, PoolBecomes DEF UserMoves
<1>10. OneAdapter'
  BY <1>3, ZenonT(60) DEF AdapterInv, OneAdapter, UserMoves
<1> QED
  BY <1>4, <1>5, <1>6, <1>7, <1>8, <1>9, <1>10 DEF AdapterInv


LEMMA BindChecksStep ==
  ASSUME AdapterInv, NEW u \in ConetUser, BindChecks(u)
  PROVE  AdapterInv'
<1>1. /\ conetMonitor = "up" /\ At(u) = "idle" /\ Has(u) = "none"
      /\ UNCHANGED <<conetMonitor, workItems>>
  BY DEF BindChecks, At, Has, ConetIdle
<1>2. CASE conetAdapter' = conetAdapter /\ conetUser' = conetUser
  <2>0. ASSUME NEW a \in Adapter, conetAdapter[a].life = "free",
               conetAdapter' = [conetAdapter EXCEPT ![a] = [Free EXCEPT !.life = "made"]]
        PROVE  FALSE
    <3>1. conetAdapter'[a].life = "made"
      BY <2>0, ConetTyped DEF AdapterInv, Free
    <3> QED
      BY <2>0, <3>1, <1>2
  <2>1. /\ conetMishaps' = conetMishaps /\ conetTold' \in BOOLEAN
        /\ conetTold' = conetTold \/ Listed # {}
        /\ injector' = injector
    BY <2>0, <1>2 DEF BindChecks, AdapterInv, ConetTypeOK
  <2>2. ConetTypeOK' /\ PoolKept'
    BY <1>1, <1>2, <2>1 DEF AdapterInv, ConetTypeOK, PoolKept, InPool, Loose, Injecting
  <2>5. HoldersExact' /\ LifeExact' /\ MonitorExact' /\ BoundExact'
    BY <1>1, <1>2, <2>1 DEF AdapterInv, HoldersExact, LifeExact, MonitorExact, BoundExact, Life, At, Has
  <2>6. OneAdapter'
    BY <1>1, <1>2, <2>1 DEF AdapterInv, OneAdapter, Life
  <2>4. ToldRight'
    BY <1>1, <1>2, <2>1 DEF AdapterInv, ToldRight, Listed, Life, At
  <2> QED
    BY <2>2, <2>4, <2>5, <2>6 DEF AdapterInv
<1>3. CASE ~(conetAdapter' = conetAdapter /\ conetUser' = conetUser)
  <2>1. PICK a \in Adapter :
             /\ conetAdapter[a].life = "free" /\ PointersTo(a, "reused")
             /\ conetAdapter' = [conetAdapter EXCEPT ![a] = [Free EXCEPT !.life = "made"]]
             /\ conetUser' = [conetUser EXCEPT ![u] = [at |-> "bind", adapter |-> a]]
             /\ conetMishaps' = IF \E v \in ConetUser : conetUser[v].at \in {"bind", "bound"}
                                THEN conetMishaps \union {"overlap"} ELSE conetMishaps
             /\ UNCHANGED conetTold
    BY <1>3 DEF BindChecks
  <2> DEFINE r == [Free EXCEPT !.life = "made"]
             v == [at |-> "bind", adapter |-> a]
  <2>2. r \in AdapterRecord /\ r.life = "made" /\ Outstanding(r) = Outstanding(conetAdapter[a])
    <3>1. r \in AdapterRecord /\ r.life = "made" /\ Outstanding(r) = 0
      BY ConetRecords, ConetAssumption DEF AdapterRecord, Free, Outstanding
    <3> QED
      BY <3>1, <2>1 DEF AdapterInv, LifeExact, Life
  <2>10. InjectorStays
    BY <2>1, PointersStay
  <2>3. Becomes(a, r)
    BY <2>1, <2>2, ConetTyped, BecomesWhen DEF AdapterInv
  <2>4. AdapterGoes(u, v)
    <3>1. v \in UserRecord
      BY DEF UserRecord
    <3> QED
      BY <2>1, <3>1, ConetTyped, GoesWhen DEF AdapterInv
  <2>5. \A w \in ConetUser : Has(w) # a
    BY <2>1, ConetUserFacts, ConetAssumption DEF AdapterInv, HoldersExact, Life
  <2>6. conetTold' \in BOOLEAN /\ conetMishaps \subseteq conetMishaps'
        /\ conetMishaps' \subseteq {"overlap", "closed twice", "freed in use", "late work", "card lost"}
    BY <2>1 DEF AdapterInv, ConetTypeOK
  <2>7. "overlap" \in conetMishaps' \/ \A b \in Adapter : Life(b) \notin {"made", "listed"}
    <3>1. ASSUME NEW b \in Adapter, Life(b) = "made" PROVE "overlap" \in conetMishaps'
      <4>1. PICK w \in ConetUser : Has(w) = b
        BY <3>1 DEF AdapterInv, LifeExact
      <4>2. At(w) \in {"bind", "bound"}
        BY <3>1, <4>1, ConetUserFacts, ConetAssumption DEF AdapterInv, HoldersExact
      <4> QED
        BY <4>2, <2>1 DEF At
    <3>2. Listed = {}
      BY <1>3 DEF BindChecks
    <3> QED
      BY <3>1, <3>2 DEF Listed, Life
  <2>8. ToldRight'
    <3>1. \A w \in ConetUser : At(w) = "close" => At(w)' = "close"
      BY <2>4, <1>1 DEF AdapterGoes, At
    <3>2. \A b \in Adapter : Life(b) # "listed"
      BY <1>3 DEF BindChecks, Listed, Life
    <3> QED
      BY <3>1, <3>2, <2>1, <1>1 DEF AdapterInv, ToldRight
  <2>9. v.at = "bind" /\ v.adapter = a
    OBVIOUS
  <2> HIDE DEF r, v
  <2> QED
    <3>1. UserMoves(u, a, v, r)
      BY <1>1, <2>2, <2>3, <2>4, <2>5, <2>6, <2>7, <2>9, <2>10 DEF UserMoves
    <3> QED
      BY <2>8, <3>1, UserStep
<1> QED
  BY <1>2, <1>3

(* The adapter a thread has in hand is no other's. *)
LEMMA InHand ==
  ASSUME AdapterInv, NEW u \in ConetUser, At(u) # "idle"
  PROVE  /\ Has(u) \in Adapter /\ conetMonitor = "up"
         /\ \A w \in ConetUser : w # u => Has(w) # Has(u)
         /\ At(u) \in {"bind", "bound"} => Life(Has(u)) = "made"
         /\ At(u) = "close" => Life(Has(u)) = "removed"
<1>1. Has(u) \in Adapter /\ Has(u) # "none"
  BY ConetUserFacts, ConetAssumption
<1>2. conetMonitor = "up"
  BY DEF AdapterInv, MonitorExact
<1>3. \A w \in ConetUser : w # u => Has(w) # Has(u)
  BY <1>1 DEF AdapterInv, HoldersExact
<1> QED
  BY <1>1, <1>2, <1>3 DEF AdapterInv, HoldersExact

LEMMA MishapsTyped ==
  AdapterInv => conetMishaps \subseteq {"overlap", "closed twice", "freed in use", "late work", "card lost"} /\ conetTold \in BOOLEAN
BY DEF AdapterInv, ConetTypeOK

LEMMA BindOpensStep ==
  ASSUME AdapterInv, NEW u \in ConetUser, BindOpens(u)
  PROVE  AdapterInv'
<1> DEFINE a == conetUser[u].adapter
<1>0. a \in Adapter
  BY InHand DEF BindOpens, At, Has
<1>1. /\ At(u) = "bind" /\ Has(u) = a
      /\ UNCHANGED <<conetMonitor, conetTold, workItems, conetMishaps>> /\ InjectorStays
  BY <1>0, PointersStay DEF BindOpens, At, Has
<1>2. /\ a \in Adapter /\ conetMonitor = "up" /\ Life(a) = "made"
      /\ \A w \in ConetUser : w # u => Has(w) # a
  BY <1>1, InHand
<1>3. ToldRight'
  <2>1. \A w \in ConetUser : At(w) = "close" => At(w)' = "close"
    BY <1>1, ConetTyped DEF BindOpens, At, AdapterInv, ConetIdle
  <2>2. \A b \in Adapter : Life(b) = "listed" => Life(b)' = "listed"
    BY <1>2, ConetTyped DEF BindOpens, AdapterInv, Life, AdapterRecord
  <2> QED
    BY <1>1, <1>2, <2>1, <2>2 DEF AdapterInv, ToldRight
<1>4. CASE /\ conetAdapter' = [conetAdapter EXCEPT ![a].ndis = "open", ![a].handle = TRUE]
           /\ conetUser' = [conetUser EXCEPT ![u].at = "bound"]
  <2> DEFINE r == [conetAdapter[a] EXCEPT !.ndis = "open", !.handle = TRUE]
             v == [at |-> "bound", adapter |-> a]
  <2>7. conetAdapter[a] \in AdapterRecord
    BY <1>2, ConetTyped DEF AdapterInv
  <2>8. r \in AdapterRecord /\ r.life = "made" /\ r.ndis = "open" /\ r.handle
    BY <1>2, <2>7, ZenonT(60) DEF AdapterRecord, Life
  <2>9. Outstanding(r) = Outstanding(conetAdapter[a])
    BY <2>7 DEF AdapterRecord, Outstanding
  <2>1. /\ r \in AdapterRecord /\ r.life = "made" /\ r.ndis = "open" /\ r.handle
        /\ Outstanding(r) = Outstanding(conetAdapter[a])
    BY <2>8, <2>9
  <2>2. conetAdapter' = [conetAdapter EXCEPT ![a] = r]
    BY <1>4
  <2>3. Becomes(a, r)
    BY <1>2, <2>1, <2>2, ConetTyped, BecomesWhen DEF AdapterInv
  <2>4. v \in UserRecord /\ v.at = "bound" /\ v.adapter = a /\ conetUser' = [conetUser EXCEPT ![u] = v]
    <3>1. v \in UserRecord
      BY <1>2 DEF UserRecord
    <3>2. [conetUser[u] EXCEPT !.at = "bound"] = v
      BY ConetTyped DEF UserRecord, AdapterInv
    <3> QED
      BY <1>4, <3>1, <3>2
  <2>5. AdapterGoes(u, v)
    BY <2>4, ConetTyped, GoesWhen DEF AdapterInv
  <2> HIDE DEF a, r, v
  <2>6. UserMoves(u, a, v, r)
    BY <1>1, <1>2, <2>1, <2>3, <2>4, <2>5, MishapsTyped DEF UserMoves
  <2> QED
    BY <1>2, <1>3, <2>6, UserStep
<1>5. CASE /\ conetAdapter' = [conetAdapter EXCEPT ![a] = Free]
           /\ conetUser' = [conetUser EXCEPT ![u] = ConetIdle]
  <2>1. Becomes(a, Free) /\ AdapterGoes(u, ConetIdle)
    BY <1>2, <1>5, ConetTyped, BecomesWhen, GoesWhen, ConetRecords DEF AdapterInv
  <2>2. ConetIdle.at = "idle" /\ ConetIdle.adapter = "none" /\ Free.life = "free"
    BY DEF ConetIdle, Free
  <2> HIDE DEF a
  <2>3. UserMoves(u, a, ConetIdle, Free)
    BY <1>1, <1>2, <2>1, <2>2, MishapsTyped DEF UserMoves
  <2> QED
    BY <1>2, <1>3, <2>3, UserStep
<1> QED
  BY <1>4, <1>5 DEF BindOpens

LEMMA BindListsStep ==
  ASSUME AdapterInv, NEW u \in ConetUser, BindLists(u)
  PROVE  AdapterInv'
<1> DEFINE a == conetUser[u].adapter
           r == [conetAdapter[a] EXCEPT !.life = "listed"]
<1>1. /\ At(u) = "bound" /\ Has(u) = a /\ conetTold' = TRUE
      /\ UNCHANGED <<conetMonitor, workItems, conetMishaps>> /\ InjectorStays
      /\ conetAdapter' = [conetAdapter EXCEPT ![a] = r]
      /\ conetUser' = [conetUser EXCEPT ![u] = ConetIdle]
  BY PointersStay DEF BindLists, At, Has
<1>2. /\ a \in Adapter /\ conetMonitor = "up" /\ Life(a) = "made"
      /\ \A w \in ConetUser : w # u => Has(w) # a
  BY <1>1, InHand
<1>3. /\ r \in AdapterRecord /\ r.life = "listed"
      /\ r.ndis = conetAdapter[a].ndis /\ r.handle = conetAdapter[a].handle
      /\ Outstanding(r) = Outstanding(conetAdapter[a])
  BY <1>2, ConetTyped DEF AdapterInv, AdapterRecord, Life, Outstanding
<1>4. Becomes(a, r) /\ AdapterGoes(u, ConetIdle)
  BY <1>1, <1>2, <1>3, ConetTyped, BecomesWhen, GoesWhen, ConetRecords DEF AdapterInv
<1>5. ConetIdle.at = "idle" /\ ConetIdle.adapter = "none"
  BY DEF ConetIdle
<1>6. "card lost" \in conetMishaps' \/ (r.ndis = "open" /\ r.handle)
  BY <1>1, <1>2, <1>3 DEF AdapterInv, BoundExact
<1>7. ToldRight'
  <2>1. conetAdapter'[a].life = "listed"
    BY <1>3, <1>4 DEF Becomes
  <2>2. \E b \in Adapter : Life(b)' = "listed"
    BY <1>2, <2>1 DEF Life
  <2> QED
    BY <2>2 DEF ToldRight
<1> HIDE DEF a, r
<1>8. UserMoves(u, a, ConetIdle, r)
  BY <1>1, <1>2, <1>3, <1>4, <1>5, <1>6, MishapsTyped DEF UserMoves
<1> QED
  BY <1>2, <1>7, <1>8, UserStep

LEMMA UnbindStep ==
  ASSUME AdapterInv, NEW u \in ConetUser, Unbind(u)
  PROVE  AdapterInv'
<1>1. PICK a \in Listed :
       /\ conetAdapter' = [conetAdapter EXCEPT ![a].life = "removed", ![a].ndis = "closed"]
       /\ conetUser' = [conetUser EXCEPT ![u] = [at |-> "close", adapter |-> a]]
       /\ PointersTo(a, "closed") /\ ClosedTwice(a)
  BY DEF Unbind
<1> DEFINE r == [conetAdapter[a] EXCEPT !.life = "removed", !.ndis = "closed"]
           v == [at |-> "close", adapter |-> a]
<1>2. /\ conetMonitor = "up" /\ At(u) = "idle" /\ Has(u) = "none" /\ a \in Adapter /\ Life(a) = "listed"
      /\ UNCHANGED <<conetMonitor, conetTold, workItems>>
  BY DEF Unbind, At, Has, ConetIdle, Listed, Life
<1>12. InjectorStays
  BY <1>1, <1>2, PointersStay
<1>3. \A w \in ConetUser : Has(w) # a
  <2>1. ASSUME NEW w \in ConetUser, Has(w) = a PROVE FALSE
    <3>1. At(w) # "idle"
      BY <1>2, <2>1, ConetAssumption DEF AdapterInv, HoldersExact
    <3> QED
      BY <1>2, <2>1, <3>1, InHand, ConetUserFacts
  <2> QED
    BY <2>1
<1>4. /\ r \in AdapterRecord /\ r.life = "removed"
      /\ Outstanding(r) = Outstanding(conetAdapter[a])
  BY <1>2, ConetTyped, ZenonT(60) DEF AdapterInv, AdapterRecord, Outstanding
<1>5. Becomes(a, r)
  BY <1>1, <1>2, <1>4, ConetTyped, BecomesWhen DEF AdapterInv
<1>6. v \in UserRecord /\ v.at = "close" /\ v.adapter = a
  BY <1>2 DEF UserRecord
<1>7. AdapterGoes(u, v)
  BY <1>1, <1>6, ConetTyped, GoesWhen DEF AdapterInv
<1>8. ToldRight'
  <2>1. At(u)' = "close"
    BY <1>6, <1>7 DEF AdapterGoes, At
  <2> QED
    BY <2>1 DEF ToldRight
<1>9. /\ conetMishaps \subseteq conetMishaps' /\ conetTold' \in BOOLEAN
      /\ conetMishaps' \subseteq {"overlap", "closed twice", "freed in use", "late work", "card lost"}
  BY <1>1, <1>2, MishapsTyped DEF ClosedTwice
<1> HIDE DEF r, v
<1>10. UserMoves(u, a, v, r)
  BY <1>2, <1>3, <1>4, <1>5, <1>6, <1>7, <1>9, <1>12 DEF UserMoves
<1> QED
  BY <1>2, <1>8, <1>10, UserStep

LEMMA UnbindFreesStep ==
  ASSUME AdapterInv, NEW u \in ConetUser, UnbindFrees(u)
  PROVE  AdapterInv'
<1> DEFINE a == conetUser[u].adapter
<1>1. /\ At(u) = "close" /\ Has(u) = a /\ conetTold' = FALSE
      /\ UNCHANGED <<conetMonitor, workItems>> /\ PointersTo(a, "freed")
      /\ conetAdapter' = [conetAdapter EXCEPT ![a] = Free]
      /\ conetUser' = [conetUser EXCEPT ![u] = ConetIdle]
  BY DEF UnbindFrees, co_conet_free_adapter, At, Has
<1>2. /\ a \in Adapter /\ conetMonitor = "up" /\ Life(a) = "removed"
      /\ \A w \in ConetUser : w # u => Has(w) # a
  BY <1>1, InHand
<1>3. Becomes(a, Free) /\ AdapterGoes(u, ConetIdle)
  BY <1>1, <1>2, ConetTyped, BecomesWhen, GoesWhen, ConetRecords DEF AdapterInv
<1>4. ConetIdle.at = "idle" /\ ConetIdle.adapter = "none" /\ Free.life = "free"
  BY DEF ConetIdle, Free
<1>5. /\ conetMishaps \subseteq conetMishaps'
      /\ conetMishaps' \subseteq {"overlap", "closed twice", "freed in use", "late work", "card lost"}
  BY MishapsTyped DEF UnbindFrees
<1>7. InjectorStays
  BY <1>1, <1>2, PointersStay
<1> HIDE DEF a
<1>6. UserMoves(u, a, ConetIdle, Free)
  BY <1>1, <1>2, <1>3, <1>4, <1>5, <1>7 DEF UserMoves
<1> QED
  BY <1>1, <1>2, <1>6, UserStep DEF ToldRight

(* A monitor that is destroyed: no thread is at work on its adapters. *)
LEMMA DestroyStep ==
  ASSUME AdapterInv,
         \/ \E a \in Adapter : UnregisterCloses(a) \/ UnregisterFrees(a)
         \/ DestroyStarts \/ MonitorFreed
  PROVE  AdapterInv'
<1>1. ASSUME NEW a \in Adapter, NEW r, Becomes(a, r), conetMonitor = "destroying",
             UNCHANGED <<conetMonitor, conetUser, injector, conetTold, workItems>>,
             conetMishaps \subseteq conetMishaps',
             conetMishaps' \subseteq {"overlap", "closed twice", "freed in use", "late work", "card lost"},
             Outstanding(r) = Outstanding(conetAdapter[a]) \/ r = Free,
             Life(a) \in {"listed", "removed"}, r.life = "removed" \/ r = Free
      PROVE  AdapterInv'
  <2>1. /\ conetAdapter'[a] = r /\ \A b \in Adapter : b # a => conetAdapter'[b] = conetAdapter[b]
        /\ conetAdapter' \in [Adapter -> AdapterRecord]
    BY <1>1 DEF Becomes
  <2>2. injector.at = "idle" /\ \A w \in ConetUser : At(w) = "idle" /\ Has(w) = "none"
    BY <1>1 DEF AdapterInv, MonitorExact, HoldersExact
  <2>3. \A w \in ConetUser : At(w)' = "idle" /\ Has(w)' = "none"
    BY <1>1, <2>2 DEF At, Has
  <2>4. r.life \in {"free", "removed"} /\ (r.life = "free" => r = Free)
    <3>1. Free.life = "free"
      BY DEF Free
    <3> QED
      BY <1>1, <3>1
  <2>5. ConetTypeOK'
    BY <1>1, <2>1 DEF AdapterInv, ConetTypeOK, AdapterRecord
  <2>6. HoldersExact' /\ MonitorExact' /\ ToldRight'
    BY <1>1, <2>2, <2>3 DEF AdapterInv, HoldersExact, MonitorExact, ToldRight
  <2>7. LifeExact'
    <3>1. conetMonitor' # "up" /\ Life(a)' # "made"
      BY <1>1, <2>1, <2>4 DEF Life
    <3>2. \A b \in Adapter : Life(b) # "made"
      BY <2>2, ConetAssumption DEF AdapterInv, LifeExact
    <3>3. \A b \in Adapter : Life(b)' # "made"
      BY <2>1, <3>1, <3>2 DEF Life
    <3>4. ASSUME NEW b \in Adapter, Life(b)' = "free"
          PROVE  /\ conetAdapter'[b].ndis = "closed" /\ ~conetAdapter'[b].handle
                 /\ Outstanding(conetAdapter'[b]) = 0
      <4>1. CASE b = a
        BY <2>1, <2>4, <3>4, <4>1, ConetRecords DEF Life, Free
      <4>2. CASE b # a
        BY <2>1, <3>4, <4>2 DEF Life, AdapterInv, LifeExact
      <4> QED
        BY <4>1, <4>2
    <3> QED
      BY <3>1, <3>3, <3>4 DEF LifeExact
  <2>8. BoundExact'
    BY <1>1, <2>1, <2>3, <2>4 DEF AdapterInv, BoundExact, Life
  <2>9. PoolKept'
    BY <1>1, PoolBecomes, PointersStay
  <2>10. OneAdapter'
    BY <1>1, <2>1, <2>4 DEF AdapterInv, OneAdapter, Life
  <2> QED
    BY <2>5, <2>6, <2>7, <2>8, <2>9, <2>10 DEF AdapterInv
<1>2. ASSUME NEW a \in Adapter, UnregisterCloses(a) PROVE AdapterInv'
  <2> DEFINE r == [conetAdapter[a] EXCEPT !.life = "removed", !.ndis = "closed"]
  <2>1. /\ r \in AdapterRecord /\ r.life = "removed"
        /\ Outstanding(r) = Outstanding(conetAdapter[a])
    BY ConetTyped DEF AdapterInv, AdapterRecord, Outstanding
  <2>2. Becomes(a, r)
    BY <1>2, <2>1, ConetTyped, BecomesWhen DEF AdapterInv, UnregisterCloses
  <2>3. /\ conetMishaps \subseteq conetMishaps'
        /\ conetMishaps' \subseteq {"overlap", "closed twice", "freed in use", "late work", "card lost"}
    BY <1>2, MishapsTyped DEF UnregisterCloses, ClosedTwice
  <2>4. /\ conetMonitor = "destroying" /\ Life(a) = "listed"
        /\ UNCHANGED <<conetMonitor, conetUser, injector, conetTold, workItems>>
    BY <1>2 DEF UnregisterCloses, Listed, Life
  <2> HIDE DEF r
  <2> QED
    BY <1>1, <2>1, <2>2, <2>3, <2>4
<1>3. ASSUME NEW a \in Adapter, UnregisterFrees(a) PROVE AdapterInv'
  <2>1. Becomes(a, Free)
    BY <1>3, ConetTyped, BecomesWhen, ConetRecords DEF AdapterInv, UnregisterFrees, co_conet_free_adapter
  <2>2. /\ conetMonitor = "destroying" /\ Life(a) = "removed"
        /\ UNCHANGED <<conetMonitor, conetUser, injector, conetTold, workItems, conetMishaps>>
    BY <1>3 DEF UnregisterFrees, Life
  <2> QED
    BY <1>1, <2>1, <2>2, MishapsTyped
<1>4. CASE DestroyStarts
  <2>1. /\ conetMonitor' = "destroying" /\ injector.at = "idle" /\ \A u \in ConetUser : At(u) = "idle"
        /\ UNCHANGED <<conetAdapter, conetUser, injector, conetTold, workItems, conetMishaps>>
    BY <1>4 DEF DestroyStarts, ConetIdle, Outside, At
  <2>2. ConetTypeOK' /\ PoolKept'
    BY <2>1 DEF AdapterInv, ConetTypeOK, PoolKept, InPool, Loose, Injecting
  <2>3. HoldersExact' /\ LifeExact' /\ BoundExact'
    BY <2>1 DEF AdapterInv, HoldersExact, LifeExact, BoundExact, Life, At, Has
  <2>4. MonitorExact' /\ OneAdapter' /\ ToldRight'
    BY <2>1 DEF AdapterInv, MonitorExact, OneAdapter, ToldRight, Life, At
  <2> QED
    BY <2>2, <2>3, <2>4 DEF AdapterInv
<1>5. CASE MonitorFreed
  <2>1. /\ conetMonitor = "destroying" /\ conetMonitor' = "freed" /\ conetTold' = FALSE
        /\ conetMishaps \subseteq conetMishaps'
        /\ conetMishaps' \subseteq {"overlap", "closed twice", "freed in use", "late work", "card lost"}
        /\ UNCHANGED <<conetAdapter, conetUser, injector, workItems>>
    BY <1>5, MishapsTyped DEF MonitorFreed
  <2>2. injector.at = "idle" /\ \A w \in ConetUser : At(w) = "idle" /\ Has(w) = "none"
    BY <2>1 DEF AdapterInv, MonitorExact, HoldersExact
  <2>3. ASSUME NEW a \in Adapter PROVE Life(a) = "free"
    <3>1. Life(a) \in {"free", "made", "listed", "removed"}
      BY ConetTyped DEF AdapterInv, AdapterRecord, Life
    <3>2. Life(a) # "made"
      BY <2>2, ConetAssumption DEF AdapterInv, LifeExact
    <3>3. Life(a) \notin {"listed", "removed"}
      BY <1>5 DEF MonitorFreed, Listed, Life
    <3> QED
      BY <3>1, <3>2, <3>3
  <2>4. ConetTypeOK' /\ PoolKept'
    BY <2>1 DEF AdapterInv, ConetTypeOK, PoolKept, InPool, Loose, Injecting
  <2>7. HoldersExact' /\ BoundExact'
    BY <2>1 DEF AdapterInv, HoldersExact, BoundExact, Life, At, Has
  <2>5. LifeExact'
    BY <2>1, <2>3 DEF AdapterInv, LifeExact, Life
  <2>6. MonitorExact' /\ OneAdapter' /\ ToldRight'
    BY <2>1, <2>2, <2>3 DEF AdapterInv, MonitorExact, OneAdapter, ToldRight, Life, At
  <2> QED
    BY <2>4, <2>5, <2>6, <2>7 DEF AdapterInv
<1> QED
  BY <1>2, <1>3, <1>4, <1>5

-----------------------------------------------------------------------------
(* The pointers of the injecting thread. *)

LEMMA PointerFacts ==
  ASSUME AdapterInv
  PROVE  /\ injector \in InjectorRecord /\ (injector.at # "idle" => injector.adapter \in Adapter)
         /\ conetAdapter \in [Adapter -> AdapterRecord]
         /\ \A a \in Adapter : /\ conetAdapter[a].late \in Nat
                               /\ Life(a) = "free" => conetAdapter[a].late = 0
                               /\ Linked(a) \in {0, 1}
<1>1. injector \in InjectorRecord /\ conetAdapter \in [Adapter -> AdapterRecord]
  BY ConetTyped DEF AdapterInv
<1>2. injector.at # "idle" => injector.adapter \in Adapter
  BY <1>1 DEF AdapterInv, HoldersExact, InjectorRecord
<1>3. ASSUME NEW a \in Adapter
      PROVE conetAdapter[a].late \in Nat /\ (Life(a) = "free" => conetAdapter[a].late = 0)
  <2>1. /\ conetAdapter[a].sends \in Nat /\ conetAdapter[a].late \in Nat /\ conetAdapter[a].transfers \in Nat
        /\ Life(a) = "free" => Outstanding(conetAdapter[a]) = 0
    BY PoolFacts
  <2> QED
    BY <2>1 DEF Outstanding
<1> QED
  BY <1>1, <1>2, <1>3 DEF Linked

LEMMA NoLate ==
  ASSUME NEW n, NEW m, n = 0, m \in {0, 1}
  PROVE  ~(n > m) /\ (m = 0 => n >= m)
OBVIOUS

(* A packet is taken, bound, listed, closed or moved, and keeps its list; the pointers follow a
   close. *)
LEMMA PointersKept ==
  ASSUME AdapterInv, PointersRight, NEW a \in Adapter, NEW r, Becomes(a, r),
         r.late = conetAdapter[a].late, r.list = conetAdapter[a].list,
         \/ r.ndis = conetAdapter[a].ndis \/ r.ndis = "closed" \/ Life(a) = "made",
         \/ r.life = Life(a)
         \/ Life(a) = "made" /\ r.life = "listed"
         \/ r.life = "removed" /\ (PointersTo(a, "closed") \/ injector.at = "idle"),
         injector' = injector \/ (PointersTo(a, "closed") /\ r.ndis = "closed"),
         Life(a) # "free", r.life = "made" => Life(a) = "made",
         "freed in use" \notin conetMishaps' => "freed in use" \notin conetMishaps
  PROVE  PointersRight'
<1>1. /\ conetAdapter'[a] = r
      /\ \A b \in Adapter : b # a => conetAdapter'[b] = conetAdapter[b]
  BY DEF Becomes
<1>2. /\ Life(a)' = r.life
      /\ \A b \in Adapter : b # a => Life(b)' = Life(b)
  BY <1>1 DEF Life
<1>3. /\ injector'.at = injector.at /\ injector'.adapter = injector.adapter
      /\ injector'.sees # injector.sees =>
           injector.sees = "bound" /\ injector'.sees = "closed" /\ injector.adapter = a /\ r.ndis = "closed"
      /\ PointersTo(a, "closed") /\ injector.adapter = a => injector'.sees # "bound"
  BY PointerFacts DEF PointersTo, InjectorRecord
<1>4. \A b \in Adapter : Linked(b)' = Linked(b) /\ Linked(b) \in {0, 1}
  BY <1>3 DEF Linked, Injecting
<1>5. InjectorExact'
  <2>1. SUFFICES ASSUME injector.at # "idle"
                 PROVE  /\ injector'.sees = "bound" => Life(injector.adapter)' = "listed"
                        /\ injector'.sees = "closed" =>
                             /\ Life(injector.adapter)' \in {"listed", "removed"}
                             /\ conetAdapter'[injector.adapter].ndis = "closed"
                        /\ injector'.sees = "reused" => Life(injector.adapter)' # "free"
    BY <1>3 DEF InjectorExact, Life
  <2>2. injector.adapter \in Adapter
    BY <2>1, PointerFacts
  <2>3. CASE injector.adapter # a
    BY <2>1, <2>2, <2>3, <1>1, <1>2, <1>3 DEF PointersRight, InjectorExact
  <2>4. CASE injector.adapter = a
    BY <2>1, <2>4, <1>1, <1>2, <1>3 DEF PointersRight, InjectorExact
  <2> QED
    BY <2>3, <2>4
<1>6. LateExact'
  <2>1. \A b \in Adapter : conetAdapter'[b].late = conetAdapter[b].late
    BY <1>1
  <2> QED
    BY <2>1, <1>4 DEF PointersRight, LateExact
<1>7. WildExact'
  <2>1. SUFFICES ASSUME "freed in use" \notin conetMishaps'
                 PROVE  /\ injector'.at # "idle" => injector'.sees \in {"bound", "closed"}
                        /\ \A b \in Adapter :
                             /\ conetAdapter'[b].list = "own"
                             /\ conetAdapter'[b].late > Linked(b)' => conetAdapter'[b].ndis = "closed"
                             /\ Life(b)' = "made" => conetAdapter'[b].late = 0
    BY DEF WildExact
  <2>2. /\ injector.at # "idle" => injector.sees \in {"bound", "closed"}
        /\ \A b \in Adapter :
             /\ conetAdapter[b].list = "own"
             /\ conetAdapter[b].late > Linked(b) => conetAdapter[b].ndis = "closed"
             /\ Life(b) = "made" => conetAdapter[b].late = 0
    BY <2>1 DEF PointersRight, WildExact
  <2>3. injector'.at # "idle" => injector'.sees \in {"bound", "closed"}
    BY <2>2, <1>3
  <2>4. ASSUME NEW b \in Adapter
        PROVE  /\ conetAdapter'[b].list = "own"
               /\ conetAdapter'[b].late > Linked(b)' => conetAdapter'[b].ndis = "closed"
               /\ Life(b)' = "made" => conetAdapter'[b].late = 0
    <3>1. CASE b # a
      BY <3>1, <2>2, <1>1, <1>2, <1>4
    <3>2. CASE b = a
      <4>1. /\ Life(a) = "made" => r.late = 0
            /\ r.late > Linked(a) => conetAdapter[a].ndis = "closed"
            /\ r.list = "own"
        BY <2>2
      <4>4. Linked(a) \in {0, 1} /\ Linked(a)' = Linked(a)
        BY <1>4
      <4>2. Life(a) = "made" => ~(r.late > Linked(a))
        <5>1. r.late = 0 => ~(r.late > Linked(a))
          BY <4>4, NoLate
        <5> QED
          BY <4>1, <5>1
      <4>3. /\ r.late > Linked(a)' => r.ndis = "closed"
            /\ r.life = "made" => r.late = 0
        BY <4>1, <4>2, <4>4
      <4> QED
        BY <3>2, <4>1, <4>3, <1>1, <1>2
    <3> QED
      BY <3>1, <3>2
  <2> QED
    BY <2>3, <2>4
<1> QED
  BY <1>5, <1>6, <1>7 DEF PointersRight

(* The memory of an adapter is given back, or given out again: without a packet on its lists. *)
LEMMA PointersFreed ==
  ASSUME AdapterInv, PointersRight, NEW a \in Adapter, NEW r, Becomes(a, r),
         r.late = 0, r.list = "own",
         \/ PointersTo(a, "freed")
         \/ r.life # "free" /\ PointersTo(a, "reused") /\ Life(a) = "free"
         \/ injector' = injector /\ injector.at = "idle",
         injector.at # "idle" /\ injector.adapter = a => "freed in use" \in conetMishaps',
         "freed in use" \notin conetMishaps' => "freed in use" \notin conetMishaps
  PROVE  PointersRight'
<1>1. /\ conetAdapter'[a] = r
      /\ \A b \in Adapter : b # a => conetAdapter'[b] = conetAdapter[b]
  BY DEF Becomes
<1>2. /\ Life(a)' = r.life
      /\ \A b \in Adapter : b # a => Life(b)' = Life(b)
  BY <1>1 DEF Life
<1>3. /\ injector'.at = injector.at /\ injector'.adapter = injector.adapter
      /\ injector.adapter # a => injector' = injector
  BY PointerFacts DEF PointersTo, InjectorRecord
<1>4. injector.at # "idle" /\ injector.adapter = a =>
        \/ injector'.sees = "freed"
        \/ /\ Life(a) = "free" /\ r.life # "free" /\ injector.sees \in {"freed", "reused"}
           /\ injector'.sees \in {"freed", "reused"}
           /\ injector.at # "adapter" => injector'.sees = injector.sees
  <2>1. SUFFICES ASSUME injector.at # "idle", injector.adapter = a
                 PROVE  \/ injector'.sees = "freed"
                        \/ /\ Life(a) = "free" /\ r.life # "free" /\ injector.sees \in {"freed", "reused"}
                           /\ injector'.sees \in {"freed", "reused"}
                           /\ injector.at # "adapter" => injector'.sees = injector.sees
    OBVIOUS
  <2>2. injector \in InjectorRecord
    BY PointerFacts
  <2>3. CASE PointersTo(a, "freed")
    BY <2>1, <2>2, <2>3 DEF PointersTo, InjectorRecord
  <2>4. CASE r.life # "free" /\ PointersTo(a, "reused") /\ Life(a) = "free"
    <3>1. injector.sees \in {"freed", "reused"}
      BY <2>1, <2>2, <2>4 DEF PointersRight, InjectorExact, InjectorRecord
    <3> QED
      BY <2>1, <2>2, <2>4, <3>1 DEF PointersTo, InjectorRecord
  <2> QED
    BY <2>1, <2>3, <2>4
<1>5. InjectorExact'
  <2>1. SUFFICES ASSUME injector.at # "idle"
                 PROVE  /\ injector'.sees = "bound" => Life(injector.adapter)' = "listed"
                        /\ injector'.sees = "closed" =>
                             /\ Life(injector.adapter)' \in {"listed", "removed"}
                             /\ conetAdapter'[injector.adapter].ndis = "closed"
                        /\ injector'.sees = "reused" => Life(injector.adapter)' # "free"
    BY <1>3 DEF InjectorExact, Life
  <2>2. injector.adapter \in Adapter
    BY <2>1, PointerFacts
  <2>3. CASE injector.adapter # a
    BY <2>1, <2>2, <2>3, <1>1, <1>2, <1>3 DEF PointersRight, InjectorExact
  <2>4. CASE injector.adapter = a
    BY <2>1, <2>4, <1>2, <1>3, <1>4
  <2> QED
    BY <2>3, <2>4
<1>6. \A b \in Adapter : Linked(b)' \in {0, 1} /\ (b # a => Linked(b)' = Linked(b))
  BY <1>3 DEF Linked, Injecting
<1>7. Linked(a)' = 0
  <2>1. SUFFICES ASSUME injector.at = "linked", injector.adapter = a PROVE injector'.sees = "freed"
    BY <1>3 DEF Linked, Injecting
  <2>2. CASE injector'.sees # "freed"
    <3>1. Life(a) = "free" /\ injector.sees = "reused"
      BY <2>1, <2>2, <1>4
    <3> QED
      BY <2>1, <3>1 DEF PointersRight, InjectorExact
  <2> QED
    BY <2>2
<1>8. LateExact'
  <2>1. \A b \in Adapter : b # a => conetAdapter'[b].late >= Linked(b)'
    BY <1>1, <1>6 DEF PointersRight, LateExact
  <2>3. conetAdapter'[a].late = 0
    BY <1>1
  <2>2. conetAdapter'[a].late >= Linked(a)'
    BY <2>3, <1>6, <1>7, NoLate
  <2> QED
    BY <2>1, <2>2 DEF LateExact
<1>9. WildExact'
  <2>1. SUFFICES ASSUME "freed in use" \notin conetMishaps'
                 PROVE  /\ injector'.at # "idle" => injector'.sees \in {"bound", "closed"}
                        /\ \A b \in Adapter :
                             /\ conetAdapter'[b].list = "own"
                             /\ conetAdapter'[b].late > Linked(b)' => conetAdapter'[b].ndis = "closed"
                             /\ Life(b)' = "made" => conetAdapter'[b].late = 0
    BY DEF WildExact
  <2>2. /\ injector.at # "idle" => injector.sees \in {"bound", "closed"}
        /\ \A b \in Adapter :
             /\ conetAdapter[b].list = "own"
             /\ conetAdapter[b].late > Linked(b) => conetAdapter[b].ndis = "closed"
             /\ Life(b) = "made" => conetAdapter[b].late = 0
    BY <2>1 DEF PointersRight, WildExact
  <2>3. injector'.at # "idle" => injector'.sees \in {"bound", "closed"}
    BY <2>1, <2>2, <1>3
  <2>4. ASSUME NEW b \in Adapter
        PROVE  /\ conetAdapter'[b].list = "own"
               /\ conetAdapter'[b].late > Linked(b)' => conetAdapter'[b].ndis = "closed"
               /\ Life(b)' = "made" => conetAdapter'[b].late = 0
    <3>1. CASE b # a
      BY <3>1, <2>2, <1>1, <1>2, <1>6
    <3>2. CASE b = a
      <4>1. conetAdapter'[a].late = 0 /\ conetAdapter'[a].list = "own"
        BY <1>1
      <4>2. ~(conetAdapter'[a].late > Linked(a)')
        <5>1. conetAdapter'[a].late = 0
          BY <4>1
        <5> QED
          BY <5>1, <1>6, <1>7, NoLate
      <4> QED
        BY <3>2, <4>1, <4>2
    <3> QED
      BY <3>1, <3>2
  <2> QED
    BY <2>3, <2>4
<1> QED
  BY <1>5, <1>8, <1>9 DEF PointersRight

(* Nothing of what the pointers are about changes. *)
LEMMA PointersSame ==
  ASSUME PointersRight, conetAdapter' = conetAdapter,
         \/ injector' = injector
         \/ injector'.at = "idle" /\ injector.at # "linked",
         "freed in use" \notin conetMishaps' => "freed in use" \notin conetMishaps
  PROVE  PointersRight'
<1>1. \A a \in Adapter : Linked(a)' = Linked(a)
  BY DEF Linked, Injecting
<1>2. InjectorExact'
  BY DEF PointersRight, InjectorExact, Life
<1>3. LateExact'
  BY <1>1 DEF PointersRight, LateExact
<1>4. WildExact'
  BY <1>1 DEF PointersRight, WildExact, Life
<1> QED
  BY <1>2, <1>3, <1>4 DEF PointersRight

LEMMA InjectPointers ==
  ASSUME AdapterInv, PointersRight, InjectFinds \/ InjectAllocates \/ InjectLinks \/ InjectSends
  PROVE  PointersRight'
<1>0. injector \in InjectorRecord /\ conetAdapter \in [Adapter -> AdapterRecord]
  BY PointerFacts
<1>1. CASE InjectFinds
  <2>1. PICK a \in Listed : injector' = [at |-> "adapter", adapter |-> a, sees |-> "bound"]
    BY <1>1 DEF InjectFinds
  <2>2. conetAdapter' = conetAdapter /\ conetMishaps' = conetMishaps /\ injector.at = "idle"
    BY <1>1 DEF InjectFinds, Outside
  <2>3. Life(a)' = "listed"
    BY <2>1, <2>2 DEF Listed, Life
  <2>4. InjectorExact'
    BY <2>1, <2>3 DEF InjectorExact
  <2>5. \A b \in Adapter : Linked(b)' = 0 /\ Linked(b) = 0
    BY <2>1, <2>2 DEF Linked, Injecting
  <2> QED
    BY <2>1, <2>2, <2>4, <2>5 DEF PointersRight, LateExact, WildExact, Life
<1>2. CASE InjectAllocates
  <2>1. conetAdapter' = conetAdapter /\ conetMishaps' = conetMishaps /\ injector.at = "adapter"
    BY <1>2 DEF InjectAllocates
  <2>2. CASE injector' = Outside
    BY <2>1, <2>2, PointersSame DEF Outside
  <2>3. CASE injector' = [injector EXCEPT !.at = "packet"]
    <3>1. injector'.at = "packet" /\ injector'.adapter = injector.adapter /\ injector'.sees = injector.sees
      BY <1>0, <2>3 DEF InjectorRecord
    <3>2. InjectorExact'
      BY <3>1, <2>1 DEF PointersRight, InjectorExact, Life
    <3>3. \A b \in Adapter : Linked(b)' = 0 /\ Linked(b) = 0
      BY <3>1, <2>1 DEF Linked, Injecting
    <3> QED
      BY <2>1, <3>1, <3>2, <3>3 DEF PointersRight, LateExact, WildExact, Life
  <2> QED
    BY <1>2, <2>2, <2>3 DEF InjectAllocates
<1>3. ASSUME InjectLinks \/ InjectSends PROVE PointersRight'
  <2>0. injector.at \in {"packet", "linked"} /\ conetMishaps' = conetMishaps
    BY <1>3 DEF InjectLinks, InjectSends
  <2>1. PICK a \in Adapter : /\ a = injector.adapter
                            /\ conetMishaps' = conetMishaps /\ injector.at \in {"packet", "linked"}
    BY <2>0, PointerFacts
  <2> DEFINE lateBefore == conetAdapter[a].late
  <2>2. ASSUME NEW r, conetAdapter' = [conetAdapter EXCEPT ![a] = r],
               r.life = Life(a), r.ndis = conetAdapter[a].ndis
        PROVE  /\ conetAdapter'[a] = r
               /\ conetAdapter'[a].ndis = conetAdapter[a].ndis
               /\ \A b \in Adapter : /\ b # a => conetAdapter'[b] = conetAdapter[b]
                                     /\ Life(b)' = Life(b)
                                     /\ conetAdapter'[b].ndis = conetAdapter[b].ndis
    <3>1. conetAdapter'[a] = r /\ \A b \in Adapter : b # a => conetAdapter'[b] = conetAdapter[b]
      BY <2>1, <2>2, <1>0
    <3>2. conetAdapter'[a].life = conetAdapter[a].life /\ conetAdapter'[a].ndis = conetAdapter[a].ndis
      BY <2>2, <3>1 DEF Life
    <3>3. \A b \in Adapter : /\ conetAdapter'[b].life = conetAdapter[b].life
                            /\ conetAdapter'[b].ndis = conetAdapter[b].ndis
      BY <3>1, <3>2
    <3> QED
      BY <2>1, <3>1, <3>2, <3>3 DEF Life
  <2> HIDE DEF lateBefore
  <2>3. ASSUME NEW r, conetAdapter' = [conetAdapter EXCEPT ![a] = r],
               r.life = Life(a), r.ndis = conetAdapter[a].ndis, r.late \in Nat,
               InjectorExact', \A b \in Adapter : b # a => Linked(b)' = 0,
               Linked(a)' \in {0, 1}, r.late >= Linked(a)',
               injector'.at # "idle" => injector'.sees = injector.sees,
               r.list # "own" => conetAdapter[a].list # "own" \/ injector.sees = "freed",
               \/ r.late - Linked(a)' = lateBefore - Linked(a)
               \/ injector.sees = "freed"
               \/ injector.sees # "bound" /\ r.late = lateBefore
        PROVE  PointersRight'
    <3>1. LateExact'
      <4>1. \A b \in Adapter : b # a => conetAdapter'[b].late >= Linked(b)'
        BY <2>2, <2>3, PointerFacts
      <4>2. conetAdapter'[a] = r
        BY <2>2, <2>3
      <4>3. conetAdapter'[a].late >= Linked(a)'
        BY <4>2, <2>3
      <4>4. \A b \in Adapter : b = a \/ b # a
        OBVIOUS
      <4> QED
        BY <4>1, <4>3, <4>4 DEF LateExact
    <3>2. WildExact'
      <4>1. SUFFICES ASSUME "freed in use" \notin conetMishaps
                     PROVE  /\ injector'.at # "idle" => injector'.sees \in {"bound", "closed"}
                            /\ \A b \in Adapter :
                                 /\ conetAdapter'[b].list = "own"
                                 /\ conetAdapter'[b].late > Linked(b)' => conetAdapter'[b].ndis = "closed"
                                 /\ Life(b)' = "made" => conetAdapter'[b].late = 0
        BY <2>1 DEF WildExact
      <4>2. /\ injector.sees \in {"bound", "closed"}
            /\ \A b \in Adapter :
                 /\ conetAdapter[b].list = "own"
                 /\ conetAdapter[b].late > Linked(b) => conetAdapter[b].ndis = "closed"
                 /\ Life(b) = "made" => conetAdapter[b].late = 0
        BY <2>1, <4>1 DEF PointersRight, WildExact
      <4>3. Life(a) \in {"listed", "removed"} /\ (injector.sees = "closed" => conetAdapter[a].ndis = "closed")
        BY <2>1, <4>2 DEF PointersRight, InjectorExact
      <4>4. \A b \in Adapter : b # a => Linked(b) = 0
        BY <2>1 DEF Linked, Injecting
      <4>5. ASSUME NEW b \in Adapter
            PROVE  /\ conetAdapter'[b].list = "own"
                   /\ conetAdapter'[b].late > Linked(b)' => conetAdapter'[b].ndis = "closed"
                   /\ Life(b)' = "made" => conetAdapter'[b].late = 0
        <5>1. CASE b # a
          <6>1. /\ conetAdapter'[b] = conetAdapter[b] /\ Life(b)' = Life(b)
                /\ Linked(b)' = 0 /\ Linked(b) = 0
            BY <5>1, <4>4, <2>2, <2>3
          <6> QED
            BY <6>1, <4>2
        <5>2. CASE b = a
          <6>1. r.late > Linked(a)' => conetAdapter[a].ndis = "closed"
            <7>1. CASE injector.sees = "closed"
              BY <7>1, <4>3
            <7>2. CASE injector.sees = "bound"
              <8>1. r.late - Linked(a)' = lateBefore - Linked(a)
                BY <7>2, <2>3
              <8>2. lateBefore \in Nat /\ Linked(a) \in {0, 1}
                BY <2>1, PointerFacts DEF lateBefore
              <8>3. lateBefore > Linked(a) => conetAdapter[a].ndis = "closed"
                BY <2>1, <4>2 DEF lateBefore
              <8> QED
                BY <8>1, <8>2, <8>3, <2>3
            <7> QED
              BY <7>1, <7>2, <4>2
          <6>2. r.list = "own"
            BY <2>1, <2>3, <4>2
          <6>7. conetAdapter'[a] = r /\ Life(a)' = Life(a)
            BY <2>2, <2>3
          <6>3. conetAdapter'[b] = r /\ Life(b)' # "made"
            BY <5>2, <4>3, <6>7
          <6>4. conetAdapter'[b].ndis = conetAdapter[a].ndis
            BY <5>2, <2>1, <2>2, <2>3
          <6>5. conetAdapter'[b].list = "own"
            BY <6>2, <6>3
          <6>6. conetAdapter'[b].late > Linked(b)' => conetAdapter'[b].ndis = "closed"
            BY <5>2, <6>1, <6>3, <6>4
          <6> QED
            BY <6>3, <6>5, <6>6
        <5> QED
          BY <5>1, <5>2
      <4> QED
        BY <4>2, <4>5, <2>3
    <3> QED
      BY <2>3, <3>1, <3>2 DEF PointersRight
  <2>4. lateBefore \in Nat /\ Linked(a) \in {0, 1} /\ lateBefore >= Linked(a)
    BY <2>1, PointerFacts DEF PointersRight, LateExact, lateBefore
  <2> USE DEF lateBefore
  <2>5. conetAdapter[a] \in AdapterRecord
    BY <2>1, <1>0
  <2>6. CASE InjectLinks
    <3>1. injector'.at = "linked" /\ injector'.adapter = a /\ injector'.sees = injector.sees /\ injector.at = "packet"
      BY <2>1, <2>6, <1>0 DEF InjectLinks, InjectorRecord
    <3>2. /\ \A b \in Adapter : b # a => Linked(b)' = 0
          /\ Linked(a) = 0 /\ Linked(a)' = IF injector.sees = "freed" THEN 0 ELSE 1
      BY <2>1, <3>1 DEF Linked, Injecting
    <3>3. ASSUME NEW r, conetAdapter' = [conetAdapter EXCEPT ![a] = r],
                 r.life = Life(a), r.ndis = conetAdapter[a].ndis
          PROVE  InjectorExact'
      BY <3>1, <2>2, <3>3, <2>1 DEF PointersRight, InjectorExact, Life
    <3>4. CASE injector.sees = "freed"
      <4> DEFINE r == [conetAdapter[a] EXCEPT !.list = "strayed"]
      <4>1. r.life = Life(a) /\ r.ndis = conetAdapter[a].ndis /\ r.late = lateBefore
        BY <2>5 DEF AdapterRecord, Life
      <4>2. conetAdapter' = [conetAdapter EXCEPT ![a] = r]
        BY <2>1, <2>6, <3>4 DEF InjectLinks
      <4> HIDE DEF r, lateBefore
      <4> QED
        BY <2>3, <2>4, <3>1, <3>2, <3>3, <3>4, <4>1, <4>2
    <3>5. CASE injector.sees # "freed"
      <4> DEFINE r == [conetAdapter[a] EXCEPT !.late = @ + 1]
      <4>1. r.life = Life(a) /\ r.ndis = conetAdapter[a].ndis /\ r.late = lateBefore + 1 /\ r.list = conetAdapter[a].list
        BY <2>5 DEF AdapterRecord, Life
      <4>2. conetAdapter' = [conetAdapter EXCEPT ![a] = r]
        BY <2>1, <2>6, <3>5 DEF InjectLinks
      <4> HIDE DEF r, lateBefore
      <4> QED
        <5>1. /\ r.late \in Nat /\ Linked(a)' = 1 /\ r.late >= Linked(a)'
              /\ r.late - Linked(a)' = lateBefore - Linked(a)
          BY <2>4, <3>2, <3>5, <4>1
        <5>2. r.list # "own" => conetAdapter[a].list # "own"
          BY <4>1
        <5> QED
          BY <2>3, <3>1, <3>2, <3>3, <4>1, <4>2, <5>1, <5>2
    <3> QED
      BY <3>4, <3>5
  <2>7. CASE InjectSends
    <3>1. injector' = Outside /\ injector'.at = "idle" /\ injector.at = "linked"
      BY <2>7 DEF InjectSends, Outside
    <3>2. InjectorExact' /\ \A b \in Adapter : Linked(b)' = 0
      BY <3>1 DEF InjectorExact, Linked, Injecting
    <3>3. Linked(a) = IF injector.sees = "freed" THEN 0 ELSE 1
      BY <2>1, <3>1 DEF Linked, Injecting
    <3>4. ASSUME NEW n \in {0, 1}, injector.sees # "freed",
                 conetAdapter' = [conetAdapter EXCEPT ![a].late = @ - 1, ![a].sends = @ + n]
          PROVE  PointersRight'
      <4> DEFINE r == [conetAdapter[a] EXCEPT !.late = @ - 1, !.sends = @ + n]
      <4>1. r.life = Life(a) /\ r.ndis = conetAdapter[a].ndis /\ r.late = lateBefore - 1 /\ r.list = conetAdapter[a].list
        BY <2>5 DEF AdapterRecord, Life
      <4>2. conetAdapter' = [conetAdapter EXCEPT ![a] = r]
        BY <3>4
      <4> HIDE DEF r, lateBefore
      <4> QED
        <5>1. /\ r.late \in Nat /\ Linked(a)' = 0 /\ r.late >= Linked(a)'
              /\ r.late - Linked(a)' = lateBefore - Linked(a)
          <6>1. Linked(a)' = 0
            BY <2>1, <3>2
          <6>2. Linked(a) = 1
            BY <3>3, <3>4
          <6> QED
            BY <6>1, <6>2, <2>4, <4>1
        <5>2. r.list # "own" => conetAdapter[a].list # "own"
          BY <4>1
        <5> QED
          BY <2>3, <3>1, <3>2, <4>1, <4>2, <5>1, <5>2
    <3>5. CASE injector.sees # "freed" /\ conetAdapter' = [conetAdapter EXCEPT ![a].late = @ - 1]
      <4> DEFINE r == [conetAdapter[a] EXCEPT !.late = @ - 1]
      <4>1. r.life = Life(a) /\ r.ndis = conetAdapter[a].ndis /\ r.late = lateBefore - 1 /\ r.list = conetAdapter[a].list
        BY <2>5 DEF AdapterRecord, Life
      <4>2. conetAdapter' = [conetAdapter EXCEPT ![a] = r]
        BY <3>5
      <4> HIDE DEF r, lateBefore
      <4> QED
        <5>1. /\ r.late \in Nat /\ Linked(a)' = 0 /\ r.late >= Linked(a)'
              /\ r.late - Linked(a)' = lateBefore - Linked(a)
          <6>1. Linked(a)' = 0
            BY <2>1, <3>2
          <6>2. Linked(a) = 1
            BY <3>3, <3>5
          <6> QED
            BY <6>1, <6>2, <2>4, <4>1
        <5>2. r.list # "own" => conetAdapter[a].list # "own"
          BY <4>1
        <5> QED
          BY <2>3, <3>1, <3>2, <4>1, <4>2, <5>1, <5>2
    <3>6. CASE injector.sees = "freed" /\ conetAdapter' = [conetAdapter EXCEPT ![a].list = "strayed"]
      <4> DEFINE r == [conetAdapter[a] EXCEPT !.list = "strayed"]
      <4>1. r.life = Life(a) /\ r.ndis = conetAdapter[a].ndis /\ r.late = lateBefore
        BY <2>5 DEF AdapterRecord, Life
      <4>2. conetAdapter' = [conetAdapter EXCEPT ![a] = r]
        BY <3>6
      <4> HIDE DEF r, lateBefore
      <4> QED
        <5>1. Linked(a)' = 0
          BY <2>1, <3>2
        <5>2. r.late \in Nat /\ r.late >= Linked(a)'
          BY <5>1, <2>4, <4>1
        <5>3. \A b \in Adapter : b # a => Linked(b)' = 0
          BY <3>2
        <5> QED
          BY <2>3, <3>1, <3>2, <3>6, <4>1, <4>2, <5>1, <5>2, <5>3
    <3>7. CASE injector.sees # "bound" /\ conetAdapter' = conetAdapter
      <4> DEFINE r == conetAdapter[a]
      <4>1. r.life = Life(a) /\ r.ndis = conetAdapter[a].ndis /\ r.late = lateBefore
        BY DEF Life
      <4>2. conetAdapter' = [conetAdapter EXCEPT ![a] = r]
        BY <3>7, <1>0
      <4> HIDE DEF lateBefore
      <4> QED
        <5>1. Linked(a)' = 0
          BY <2>1, <3>2
        <5>2. r.late \in Nat /\ r.late >= Linked(a)'
          BY <5>1, <2>4, <4>1
        <5>3. \A b \in Adapter : b # a => Linked(b)' = 0
          BY <3>2
        <5> QED
          BY <2>3, <3>1, <3>2, <3>7, <4>1, <4>2, <5>1, <5>2, <5>3
    <3> QED
      BY <2>1, <2>7, <3>4, <3>5, <3>6, <3>7 DEF InjectSends
  <2> QED
    BY <1>3, <2>6, <2>7
<1> QED
  BY <1>1, <1>2, <1>3

LEMMA PointersStep ==
  ASSUME AdapterInv, PointersRight, [ConetNext]_conetVars
  PROVE  PointersRight'
<1>0. /\ injector \in InjectorRecord /\ conetAdapter \in [Adapter -> AdapterRecord]
      /\ conetMonitor # "up" => injector.at = "idle"
      /\ "freed in use" \notin conetMishaps' => "freed in use" \notin conetMishaps
  <2>1. conetMishaps' = conetMishaps \/ conetMishaps \subseteq conetMishaps'
    BY DEF ConetNext, conetVars, BindChecks, BindOpens, BindLists, Unbind, UnbindFrees, ClosedTwice,
           UnregisterCloses, UnregisterFrees, HostUnbinds, SendComplete, Receive, ReceivePart,
           TransferComplete, DestroyStarts, MonitorFreed, InjectFinds, InjectAllocates, InjectLinks,
           InjectSends, WorkItemRuns
  <2> QED
    BY <2>1, PointerFacts DEF AdapterInv, MonitorExact
<1>1. ASSUME conetAdapter' = conetAdapter, injector' = injector PROVE PointersRight'
  BY <1>0, <1>1, PointersSame
<1>2. ASSUME NEW u \in ConetUser, BindChecks(u) PROVE PointersRight'
  <2>1. CASE injector' = injector /\ conetAdapter' = conetAdapter
    BY <2>1, <1>1
  <2>2. ASSUME NEW a \in Adapter, conetAdapter[a].life = "free", PointersTo(a, "reused"),
               conetAdapter' = [conetAdapter EXCEPT ![a] = [Free EXCEPT !.life = "made"]]
        PROVE  PointersRight'
    <3> DEFINE r == [Free EXCEPT !.life = "made"]
    <3>1. r \in AdapterRecord /\ r.life = "made" /\ r.late = 0 /\ r.list = "own"
      BY ConetRecords DEF AdapterRecord, Free
    <3>2. Becomes(a, r)
      BY <2>2, <3>1, <1>0, BecomesWhen
    <3>3. injector.at # "idle" /\ injector.adapter = a => "freed in use" \in conetMishaps
      BY <2>2 DEF PointersRight, InjectorExact, WildExact, Life
    <3>4. conetMishaps \subseteq conetMishaps'
      BY <1>2 DEF BindChecks
    <3> HIDE DEF r
    <3> QED
      BY <2>2, <3>1, <3>2, <3>3, <3>4, PointersFreed DEF Life
  <2> QED
    BY <1>2, <2>1, <2>2 DEF BindChecks
<1>3. ASSUME NEW u \in ConetUser, BindOpens(u) PROVE PointersRight'
  <2> DEFINE a == conetUser[u].adapter
  <2>1. At(u) = "bind" /\ a \in Adapter /\ Life(a) = "made"
    BY <1>3, InHand DEF BindOpens, At, Has
  <2>2. CASE /\ conetAdapter' = [conetAdapter EXCEPT ![a].ndis = "open", ![a].handle = TRUE]
             /\ injector' = injector
    <3> DEFINE r == [conetAdapter[a] EXCEPT !.ndis = "open", !.handle = TRUE]
    <3>1. r \in AdapterRecord /\ r.life = Life(a) /\ r.late = conetAdapter[a].late /\ r.list = conetAdapter[a].list
      BY <2>1, <1>0, ZenonT(60) DEF AdapterRecord, Life
    <3>2. Becomes(a, r)
      BY <2>1, <2>2, <3>1, <1>0, BecomesWhen
    <3> HIDE DEF r, a
    <3> QED
      BY <2>1, <2>2, <3>1, <3>2, <1>0, PointersKept
  <2>3. CASE conetAdapter' = [conetAdapter EXCEPT ![a] = Free] /\ PointersTo(a, "freed")
    <3>1. Becomes(a, Free) /\ Free.late = 0 /\ Free.list = "own"
      BY <2>1, <2>3, <1>0, BecomesWhen, ConetRecords DEF Free
    <3>2. injector.at # "idle" /\ injector.adapter = a => "freed in use" \in conetMishaps
      BY <2>1 DEF PointersRight, InjectorExact, WildExact
    <3>3. conetMishaps' = conetMishaps
      BY <1>3 DEF BindOpens
    <3> HIDE DEF a
    <3> QED
      BY <2>1, <2>3, <3>1, <3>2, <3>3, PointersFreed
  <2> QED
    BY <1>3, <2>2, <2>3 DEF BindOpens
<1>4. ASSUME NEW u \in ConetUser, BindLists(u) PROVE PointersRight'
  <2> DEFINE a == conetUser[u].adapter
             r == [conetAdapter[a] EXCEPT !.life = "listed"]
  <2>1. At(u) = "bound" /\ a \in Adapter /\ Life(a) = "made" /\ injector' = injector
    BY <1>4, InHand DEF BindLists, At, Has
  <2>2. /\ r \in AdapterRecord /\ r.life = "listed" /\ r.late = conetAdapter[a].late
        /\ r.list = conetAdapter[a].list /\ r.ndis = conetAdapter[a].ndis
    BY <2>1, <1>0, ZenonT(60) DEF AdapterRecord, Life
  <2>3. Becomes(a, r)
    BY <1>4, <2>1, <2>2, <1>0, BecomesWhen DEF BindLists
  <2> HIDE DEF r, a
  <2> QED
    BY <2>1, <2>2, <2>3, <1>0, PointersKept
<1>5. ASSUME NEW a \in Adapter, Life(a) = "listed",
             conetAdapter' = [conetAdapter EXCEPT ![a].life = "removed", ![a].ndis = "closed"],
             PointersTo(a, "closed") \/ (injector' = injector /\ injector.at = "idle")
      PROVE  PointersRight'
  <2> DEFINE r == [conetAdapter[a] EXCEPT !.life = "removed", !.ndis = "closed"]
  <2>1. /\ r \in AdapterRecord /\ r.life = "removed" /\ r.late = conetAdapter[a].late
        /\ r.list = conetAdapter[a].list /\ r.ndis = "closed"
    BY <1>5, <1>0 DEF AdapterRecord, Life
  <2>2. Becomes(a, r)
    BY <1>5, <2>1, <1>0, BecomesWhen
  <2> HIDE DEF r
  <2> QED
    BY <1>5, <2>1, <2>2, <1>0, PointersKept
<1>6. ASSUME NEW u \in ConetUser, UnbindFrees(u) PROVE PointersRight'
  <2> DEFINE a == conetUser[u].adapter
  <2>1. /\ At(u) = "close" /\ a \in Adapter
        /\ conetAdapter' = [conetAdapter EXCEPT ![a] = Free] /\ PointersTo(a, "freed")
    BY <1>6, InHand DEF UnbindFrees, co_conet_free_adapter, At, Has
  <2>2. Becomes(a, Free) /\ Free.late = 0 /\ Free.list = "own"
    BY <2>1, <1>0, BecomesWhen, ConetRecords DEF Free
  <2>3. injector.adapter = a => "freed in use" \in conetMishaps'
    BY <1>6 DEF UnbindFrees
  <2> HIDE DEF a
  <2> QED
    BY <2>1, <2>2, <2>3, <1>0, PointersFreed
<1>7. ASSUME NEW a \in Adapter, UnregisterFrees(a) PROVE PointersRight'
  <2>1. /\ conetAdapter' = [conetAdapter EXCEPT ![a] = Free] /\ injector' = injector
        /\ injector.at = "idle"
    BY <1>7, <1>0 DEF UnregisterFrees, co_conet_free_adapter
  <2>2. Becomes(a, Free) /\ Free.late = 0 /\ Free.list = "own"
    BY <2>1, <1>0, BecomesWhen, ConetRecords DEF Free
  <2> QED
    BY <2>1, <2>2, <1>0, PointersFreed
<1>8. ASSUME NEW a \in Adapter, HostUnbinds(a) PROVE PointersRight'
  <2> DEFINE r == [conetAdapter[a] EXCEPT !.ndis = "closed", !.handle = FALSE]
  <2>1. /\ r \in AdapterRecord /\ r.life = Life(a) /\ r.late = conetAdapter[a].late
        /\ r.list = conetAdapter[a].list /\ r.ndis = "closed"
    BY <1>8, <1>0 DEF AdapterRecord, Life
  <2>2. Becomes(a, r) /\ PointersTo(a, "closed")
    BY <1>8, <2>1, <1>0, BecomesWhen DEF HostUnbinds
  <2>3. Life(a) # "free"
    BY <1>8, PoolFacts DEF HostUnbinds
  <2> HIDE DEF r
  <2> QED
    BY <2>1, <2>2, <2>3, <1>0, PointersKept
<1>9. ASSUME NEW a \in Adapter, SendComplete(a) \/ ReceivePart(a) \/ TransferComplete(a)
      PROVE  PointersRight'
  <2>1. /\ injector' = injector /\ Life(a) # "free"
        /\ conetMishaps' = conetMishaps
    BY <1>9, PoolFacts DEF SendComplete, ReceivePart, TransferComplete, Outstanding
  <2>2. conetAdapter[a] \in AdapterRecord /\ conetAdapter' \in [Adapter -> AdapterRecord]
    <3>1. AdapterInv'
      BY <1>9, PacketStep
    <3> QED
      BY <3>1, <1>0 DEF AdapterInv, ConetTypeOK, AdapterRecord
  <2>3. ASSUME NEW r, conetAdapter' = [conetAdapter EXCEPT ![a] = r],
               r.life = conetAdapter[a].life, r.late = conetAdapter[a].late,
               r.list = conetAdapter[a].list, r.ndis = conetAdapter[a].ndis
        PROVE  PointersRight'
    <3>1. conetAdapter'[a] = r /\ \A b \in Adapter : b # a => conetAdapter'[b] = conetAdapter[b]
      BY <2>3, <1>0
    <3>2. Becomes(a, r)
      BY <2>2, <3>1 DEF Becomes
    <3>3. r.life = Life(a)
      BY <2>3 DEF Life
    <3> QED
      BY <2>1, <2>3, <3>2, <3>3, <1>0, PointersKept
  <2>4. CASE SendComplete(a)
    <3> DEFINE r == [conetAdapter[a] EXCEPT !.sends = @ - 1]
    <3>1. conetAdapter' = [conetAdapter EXCEPT ![a] = r]
      BY <2>4 DEF SendComplete
    <3>2. /\ r.life = conetAdapter[a].life /\ r.late = conetAdapter[a].late
          /\ r.list = conetAdapter[a].list /\ r.ndis = conetAdapter[a].ndis
      BY <2>2 DEF AdapterRecord
    <3> HIDE DEF r
    <3> QED
      BY <2>3, <3>1, <3>2
  <2>6. CASE ReceivePart(a)
    <3> DEFINE r == [conetAdapter[a] EXCEPT !.transfers = @ + 1]
    <3>1. conetAdapter' = [conetAdapter EXCEPT ![a] = r]
      BY <2>6 DEF ReceivePart
    <3>2. /\ r.life = conetAdapter[a].life /\ r.late = conetAdapter[a].late
          /\ r.list = conetAdapter[a].list /\ r.ndis = conetAdapter[a].ndis
      BY <2>2 DEF AdapterRecord
    <3> HIDE DEF r
    <3> QED
      BY <2>3, <3>1, <3>2
  <2>7. CASE TransferComplete(a)
    <3> DEFINE r == [conetAdapter[a] EXCEPT !.transfers = @ - 1]
    <3>1. conetAdapter' = [conetAdapter EXCEPT ![a] = r]
      BY <2>7 DEF TransferComplete
    <3>2. /\ r.life = conetAdapter[a].life /\ r.late = conetAdapter[a].late
          /\ r.list = conetAdapter[a].list /\ r.ndis = conetAdapter[a].ndis
      BY <2>2 DEF AdapterRecord
    <3> HIDE DEF r
    <3> QED
      BY <2>3, <3>1, <3>2
  <2> QED
    BY <1>9, <2>4, <2>6, <2>7
<1>10. CASE InjectFinds \/ InjectAllocates \/ InjectLinks \/ InjectSends
  BY <1>10, InjectPointers
<1>11. CASE UNCHANGED conetVars
  BY <1>11, <1>1 DEF conetVars
<1>12. CASE DestroyStarts \/ MonitorFreed \/ WorkItemRuns \/ \E a \in Adapter : Receive(a)
  BY <1>12, <1>1 DEF DestroyStarts, MonitorFreed, WorkItemRuns, Receive
<1>13. ASSUME NEW u \in ConetUser, Unbind(u) PROVE PointersRight'
  BY <1>5, <1>13 DEF Unbind, Listed, Life
<1>14. ASSUME NEW a \in Adapter, UnregisterCloses(a) PROVE PointersRight'
  BY <1>0, <1>5, <1>14 DEF UnregisterCloses, Listed, Life
<1> QED
  BY <1>2, <1>3, <1>4, <1>6, <1>7, <1>8, <1>9, <1>10, <1>11, <1>12, <1>13, <1>14 DEF ConetNext

LEMMA ConetNextInv == AdapterInv /\ PointersRight /\ [ConetNext]_conetVars => AdapterInv' /\ PointersRight'
<1> SUFFICES ASSUME AdapterInv, PointersRight, [ConetNext]_conetVars PROVE AdapterInv'
  BY PointersStep
<1>1. CASE UNCHANGED conetVars
  <2>1. ConetTypeOK' /\ PoolKept'
    BY <1>1 DEF conetVars, AdapterInv, ConetTypeOK, PoolKept, InPool, Loose, Injecting
  <2>2. HoldersExact' /\ LifeExact' /\ BoundExact'
    BY <1>1 DEF conetVars, AdapterInv, HoldersExact, LifeExact, BoundExact, Life, At, Has
  <2>3. MonitorExact' /\ OneAdapter' /\ ToldRight'
    BY <1>1 DEF conetVars, AdapterInv, MonitorExact, OneAdapter, ToldRight, Life, At
  <2> QED
    BY <2>1, <2>2, <2>3 DEF AdapterInv
<1>2. CASE \E u \in ConetUser : BindChecks(u) \/ BindOpens(u) \/ BindLists(u) \/ Unbind(u) \/ UnbindFrees(u)
  BY <1>2, BindChecksStep, BindOpensStep, BindListsStep, UnbindStep, UnbindFreesStep
<1>3. CASE \/ \E a \in Adapter : UnregisterCloses(a) \/ UnregisterFrees(a)
           \/ DestroyStarts \/ MonitorFreed
  BY <1>3, DestroyStep
<1>4. CASE \/ \E a \in Adapter : \/ HostUnbinds(a) \/ SendComplete(a) \/ Receive(a)
                                 \/ ReceivePart(a) \/ TransferComplete(a)
           \/ InjectFinds \/ InjectAllocates \/ InjectLinks \/ InjectSends \/ WorkItemRuns
  BY <1>4, PacketStep
<1> QED
  BY <1>1, <1>2, <1>3, <1>4 DEF ConetNext

LEMMA ConetInitInv == ConetInit => AdapterInv /\ PointersRight
<1> SUFFICES ASSUME ConetInit PROVE AdapterInv /\ PointersRight
  OBVIOUS
<1>1. /\ conetMonitor = "up" /\ injector.at = "idle" /\ injector.adapter = "none"
      /\ \A u \in ConetUser : At(u) = "idle" /\ Has(u) = "none"
      /\ \A a \in Adapter : conetAdapter[a] = Free /\ Life(a) = "free"
      /\ conetTold = FALSE
  BY DEF ConetInit, ConetIdle, Outside, At, Has, Life, Free
<1>2. ConetTypeOK
  <2>1. conetAdapter \in [Adapter -> AdapterRecord] /\ conetUser \in [ConetUser -> UserRecord]
    BY ConetRecords DEF ConetInit
  <2>2. 0 \in 0..MaxWork
    BY ConetAssumption
  <2> QED
    BY <2>1, <2>2 DEF ConetInit, ConetTypeOK, AdapterRecord, UserRecord, ConetIdle, Outside
<1>3. HoldersExact /\ MonitorExact /\ ToldRight
  BY <1>1 DEF HoldersExact, MonitorExact, ToldRight
<1>4. LifeExact /\ BoundExact /\ OneAdapter
  <2>1. LifeExact
    BY <1>1, ConetRecords DEF LifeExact, Free
  <2>2. BoundExact /\ OneAdapter
    BY <1>1 DEF BoundExact, OneAdapter
  <2> QED
    BY <2>1, <2>2
<1>5. PoolKept
  <2>1. PoolSize \in Nat
    BY ConetAssumption
  <2>2. \A a \in Adapter : Loose(a) = 0 /\ Outstanding(conetAdapter[a]) = 0
    BY <1>1, ConetRecords DEF Loose, Injecting
  <2> QED
    BY <2>1, <2>2 DEF PoolKept, InPool
<1>6. PointersRight
  <2>1. \A a \in Adapter : Linked(a) = 0 /\ conetAdapter[a].late = 0 /\ conetAdapter[a].list = "own"
    BY <1>1 DEF Linked, Injecting, Free
  <2>2. InjectorExact
    BY <1>1 DEF InjectorExact
  <2>3. LateExact
    BY <2>1 DEF LateExact
  <2>4. \A a \in Adapter : ~(conetAdapter[a].late > Linked(a))
    BY <2>1
  <2>5. WildExact
    BY <1>1, <2>1, <2>4 DEF WildExact
  <2> QED
    BY <2>2, <2>3, <2>5 DEF PointersRight
<1> QED
  BY <1>2, <1>3, <1>4, <1>5, <1>6 DEF AdapterInv

LEMMA ConetAlways == ConetSpec => [](AdapterInv /\ PointersRight)
BY ConetInitInv, ConetNextInv, PTL DEF ConetSpec

(* Adapters, users, the injecting thread and the counts of packets have their types in every
   reachable state of the conet adapter (ConetTypeOK): the pool of packets is never overdrawn. *)
THEOREM ConetTyping == ConetSpec => []ConetTypeOK
<1>1. AdapterInv => ConetTypeOK
  BY DEF AdapterInv
<1> QED
  BY <1>1, ConetAlways, PTL

LEMMA ConetExactWhen == AdapterInv /\ PointersRight => ConetExact
<1> SUFFICES ASSUME AdapterInv, PointersRight PROVE ConetExact
  OBVIOUS
<1>1. ASSUME NEW a \in Adapter
      PROVE  LET holders == {u \in ConetUser : conetUser[u].adapter = a}
             IN  /\ Life(a) = "made" => Cardinality(holders) = 1
                 /\ Life(a) \in {"free", "listed"} => holders = {}
                 /\ Life(a) = "removed" /\ conetMonitor = "up" => Cardinality(holders) = 1
  <2> DEFINE holders == {u \in ConetUser : Has(u) = a}
  <2>1. a # "none"
    BY ConetAssumption
  <2>2. \A u, v \in holders : u = v
    BY <2>1 DEF AdapterInv, HoldersExact
  <2>3. Life(a) \in {"free", "listed"} => holders = {}
    <3>1. ASSUME NEW u \in holders PROVE Life(a) \in {"made", "removed"}
      BY <2>1, <3>1, ConetUserFacts DEF AdapterInv, HoldersExact
    <3> QED
      BY <3>1
  <2>4. (Life(a) = "made" \/ (Life(a) = "removed" /\ conetMonitor = "up")) => \E u \in ConetUser : holders = {u}
    BY <2>2 DEF AdapterInv, LifeExact
  <2>5. \A u \in ConetUser : Cardinality({u}) = 1
    BY FS_Singleton
  <2>6. (Life(a) = "made" \/ (Life(a) = "removed" /\ conetMonitor = "up")) => Cardinality(holders) = 1
    BY <2>4, <2>5
  <2> QED
    BY <2>3, <2>6 DEF Has
<1>2. ASSUME NEW a \in Adapter
      PROVE  /\ Life(a) = "free" => conetAdapter[a].ndis = "closed" /\ Outstanding(conetAdapter[a]) = 0
             /\ Life(a) = "listed" /\ "card lost" \notin conetMishaps =>
                  conetAdapter[a].ndis = "open" /\ conetAdapter[a].handle
             /\ InPool(a) >= 0 /\ conetAdapter[a].late >= Linked(a)
             /\ "freed in use" \notin conetMishaps =>
                  /\ conetAdapter[a].list = "own"
                  /\ conetAdapter[a].late > Linked(a) => conetAdapter[a].ndis = "closed"
  BY DEF AdapterInv, LifeExact, BoundExact, PoolKept, PointersRight, LateExact, WildExact
<1>3. conetMonitor = "freed" => \A a \in Adapter : conetAdapter[a].life = "free"
  BY DEF AdapterInv, MonitorExact, Life
<1>4. "overlap" \notin conetMishaps =>
        Cardinality({a \in Adapter : conetAdapter[a].life \in {"made", "listed"}}) <= 1
  <2> DEFINE S == {a \in Adapter : conetAdapter[a].life \in {"made", "listed"}}
  <2>1. SUFFICES ASSUME "overlap" \notin conetMishaps PROVE Cardinality(S) <= 1
    OBVIOUS
  <2>2. S = {} \/ \E a \in S : S = {a}
    BY <2>1 DEF AdapterInv, OneAdapter, Life
  <2>3. Cardinality({}) = 0 /\ \A a \in S : Cardinality({a}) = 1
    BY FS_EmptySet, FS_Singleton
  <2> HIDE DEF S
  <2> QED
    BY <2>2, <2>3
<1>5. conetTold /\ "card lost" \notin conetMishaps /\ conetMonitor = "up"
      /\ (\A u \in ConetUser : conetUser[u] = ConetIdle) =>
        \E a \in Listed : conetAdapter[a].handle
  BY ConetUserFacts DEF AdapterInv, ToldRight, BoundExact, Listed, Life
<1> QED
  BY <1>1, <1>2, <1>3, <1>4, <1>5 DEF ConetExact, Life

(* Every adapter is on the list of its monitor, in one thread's hands or free, bound to NDIS
   exactly while the card is there, and the packets of its pool are accounted for (ConetExact):
   conet_bind_adapter, conet_unbind_adapter, the NDIS callbacks and an injection that goes on
   with an adapter that was closed, freed or made anew under it, in any order. *)
THEOREM AdaptersAccounted == ConetSpec => []ConetExact
BY ConetAlways, ConetExactWhen, PTL

-----------------------------------------------------------------------------
(* The block devices.                                                      *)

DeviceRecord == [use_count : 0..MaxUse, state : {"CLOSED", "OPENED"}, sysdep : BOOLEAN]
AskedRecord  == [type : {"none", "STAT", "OPEN", "CLOSE", "IO"}, rc : {"none", "OK", "ERROR"},
                 async : BOOLEAN, tag : Tag \union {0}]
GuestRecord  == [refcount : 0..MaxUse, stat : BOOLEAN, waits : SUBSET (Tag \union {0})]
Flight       == [tag : Tag, guest : 0..MaxResets]

(* What the guest of m is asking, and the count it had when it asked. *)
AskedRight(m) ==
  /\ asked[m].type # "none" => m \in alive
  /\ asked[m].type = "none" => asked[m].rc = "none"
  /\ asked[m].type = "CLOSE" => guest[m].refcount > 0
  /\ asked[m].type = "OPEN" => guest[m].refcount < MaxUse
  /\ asked[m].type = "OPEN" /\ asked[m].rc = "none" => device[m].use_count < MaxUse

(* The guest's count runs behind by the answer that is on its way. *)
CountsRight(m) ==
  m \in alive /\ m \notin wrongRc =>
    /\ device[m].use_count =
         CASE asked[m].type = "OPEN" /\ asked[m].rc = "OK"      -> guest[m].refcount + 1
           [] asked[m].type = "CLOSE" /\ asked[m].rc # "none" -> guest[m].refcount - 1
           [] OTHER                                           -> guest[m].refcount
    /\ device[m].state = "OPENED" <=> device[m].use_count > 0
    /\ device[m].sysdep <=> device[m].state = "OPENED"

(* ... and so do the requests it waits for. *)
Current(m) == {io \in flight[m] : io.guest = resets[m]}
WaitsRight(m) ==
  m \in alive /\ m \notin wrongRc =>
    {io.tag : io \in Current(m)} =
      guest[m].waits \union (IF asked[m].type = "IO" /\ asked[m].rc = "OK" /\ asked[m].async
                             THEN {asked[m].tag} ELSE {})

FlightRight(m) ==
  /\ \A io, x \in flight[m] : io.tag = x.tag => io = x
  /\ \A io \in flight[m] : io.guest <= resets[m]
  /\ flight[m] # {} => m \in AsyncEnabled

BlockInv ==
  /\ BlockTypeOK /\ flight \in [BlkMonitor -> SUBSET Flight]
  /\ \A m \in BlkMonitor : AskedRight(m) /\ CountsRight(m) /\ WaitsRight(m) /\ FlightRight(m)
  /\ AsyncEnabled = {} => late = {}

LEMMA BlockTyped ==
  BlockInv => /\ device \in [BlkMonitor -> DeviceRecord] /\ asked \in [BlkMonitor -> AskedRecord]
          /\ guest \in [BlkMonitor -> GuestRecord] /\ flight \in [BlkMonitor -> SUBSET Flight]
          /\ resets \in [BlkMonitor -> 0..MaxResets]
          /\ blockRc \in {"OK", "ERROR"} /\ alive \subseteq BlkMonitor /\ wrongRc \subseteq BlkMonitor
BY DEF BlockInv, BlockTypeOK, DeviceRecord, AskedRecord, GuestRecord, Flight

(* A step is of one monitor: its device, its request, its guest and its I/O become d, r, g and f. *)
BlockMoves(m, d, r, g, f) ==
  /\ d \in DeviceRecord /\ r \in AskedRecord /\ g \in GuestRecord /\ f \in SUBSET Flight
  /\ device' = [device EXCEPT ![m] = d] /\ asked' = [asked EXCEPT ![m] = r]
  /\ guest' = [guest EXCEPT ![m] = g] /\ flight' = [flight EXCEPT ![m] = f]
  /\ resets' \in [BlkMonitor -> 0..MaxResets] /\ blockRc' \in {"OK", "ERROR"}
  /\ alive' \subseteq BlkMonitor /\ wrongRc' \subseteq BlkMonitor
  /\ \A n \in BlkMonitor : n # m =>
       /\ resets'[n] = resets[n] /\ (n \in alive' <=> n \in alive)
       /\ (n \in wrongRc' <=> n \in wrongRc)
  /\ AsyncEnabled = {} => late' = {}

LEMMA MovedTo ==
  ASSUME BlockInv, NEW m \in BlkMonitor, NEW d, NEW r, NEW g, NEW f, BlockMoves(m, d, r, g, f)
  PROVE  device'[m] = d /\ asked'[m] = r /\ guest'[m] = g /\ flight'[m] = f
BY BlockTyped DEF BlockMoves

LEMMA MoveStep ==
  ASSUME BlockInv, NEW m \in BlkMonitor, NEW d, NEW r, NEW g, NEW f, BlockMoves(m, d, r, g, f),
         AskedRight(m)', CountsRight(m)', WaitsRight(m)', FlightRight(m)'
  PROVE  BlockInv'
<1>1. /\ device' \in [BlkMonitor -> DeviceRecord] /\ asked' \in [BlkMonitor -> AskedRecord]
      /\ guest' \in [BlkMonitor -> GuestRecord] /\ flight' \in [BlkMonitor -> SUBSET Flight]
  BY BlockTyped DEF BlockMoves
<1>2. BlockTypeOK'
  BY <1>1 DEF BlockMoves, BlockTypeOK, DeviceRecord, AskedRecord, GuestRecord, Flight
<1>3. ASSUME NEW n \in BlkMonitor, n # m
      PROVE  AskedRight(n)' /\ CountsRight(n)' /\ WaitsRight(n)' /\ FlightRight(n)'
  <2>1. /\ device'[n] = device[n] /\ asked'[n] = asked[n] /\ guest'[n] = guest[n]
        /\ flight'[n] = flight[n] /\ resets'[n] = resets[n]
        /\ (n \in alive' <=> n \in alive) /\ (n \in wrongRc' <=> n \in wrongRc)
    BY <1>3, BlockTyped DEF BlockMoves
  <2>2. AskedRight(n) /\ CountsRight(n) /\ WaitsRight(n) /\ FlightRight(n)
    BY DEF BlockInv
  <2>3. AskedRight(n)' /\ FlightRight(n)'
    BY <2>1, <2>2 DEF AskedRight, FlightRight
  <2>4. CountsRight(n)'
    BY <2>1, <2>2 DEF CountsRight
  <2>5. WaitsRight(n)'
    BY <2>1, <2>2 DEF WaitsRight, Current
  <2> QED
    BY <2>3, <2>4, <2>5
<1> QED
  BY <1>1, <1>2, <1>3 DEF BlockInv, BlockMoves

LEMMA BlockFacts ==
  ASSUME BlockInv, NEW m \in BlkMonitor
  PROVE  /\ device[m] \in DeviceRecord /\ asked[m] \in AskedRecord /\ guest[m] \in GuestRecord
         /\ flight[m] \in SUBSET Flight /\ resets[m] \in 0..MaxResets
         /\ AskedRight(m) /\ CountsRight(m) /\ WaitsRight(m) /\ FlightRight(m)
         /\ device[m].use_count \in Nat /\ guest[m].refcount \in Nat /\ MaxUse \in Nat
<1>1. /\ device[m] \in DeviceRecord /\ asked[m] \in AskedRecord /\ guest[m] \in GuestRecord
      /\ flight[m] \in SUBSET Flight /\ resets[m] \in 0..MaxResets
  BY BlockTyped
<1>2. device[m].use_count \in 0..MaxUse /\ guest[m].refcount \in 0..MaxUse /\ MaxUse \in Nat
  BY <1>1, BlockAssumption DEF DeviceRecord, GuestRecord
<1> QED
  BY <1>1, <1>2 DEF BlockInv

LEMMA AsksStep ==
  ASSUME BlockInv, NEW m \in BlkMonitor, NEW type \in {"STAT", "OPEN", "CLOSE", "IO"}, Asks(m, type),
         type = "CLOSE" => guest[m].refcount > 0,
         type = "OPEN" => guest[m].refcount < MaxUse /\ device[m].use_count < MaxUse
  PROVE  BlockInv'
<1> DEFINE r == [NoRequest EXCEPT !.type = type]
<1>1. /\ m \in alive /\ asked[m].type = "none" /\ asked' = [asked EXCEPT ![m] = r]
      /\ UNCHANGED <<device, blockRc, guest, flight, resets, alive, wrongRc, late>>
  BY DEF Asks
<1>2. r.type = type /\ r.rc = "none" /\ r.async = FALSE /\ r \in AskedRecord
  BY DEF NoRequest, AskedRecord
<1> HIDE DEF r
<1>3. BlockMoves(m, device[m], r, guest[m], flight[m])
  BY <1>1, <1>2, BlockTyped, BlockFacts DEF BlockMoves, BlockInv
<1>4. device'[m] = device[m] /\ asked'[m] = r /\ guest'[m] = guest[m] /\ flight'[m] = flight[m]
  BY <1>3, MovedTo
<1>5. AskedRight(m)' /\ FlightRight(m)'
  BY <1>1, <1>2, <1>4, BlockFacts DEF AskedRight, FlightRight
<1>6. asked[m].rc = "none"
  BY <1>1, BlockFacts DEF AskedRight
<1>7. CountsRight(m)'
  BY <1>1, <1>2, <1>4, <1>6, BlockFacts DEF CountsRight
<1>8. WaitsRight(m)'
  BY <1>1, <1>2, <1>4, <1>6, BlockFacts DEF WaitsRight, Current
<1> QED
  BY <1>3, <1>5, <1>7, <1>8, MoveStep

(* Serving a request leaves the I/O alone and makes d of the device: an open counts up and a
   close down, unless it is refused, and the file is open as long as it is used. *)
ServesCount(m, d, rc) ==
  /\ (asked[m].type = "OPEN" /\ rc = "OK") => d.use_count = device[m].use_count + 1
  /\ (asked[m].type = "CLOSE" /\ rc = "OK") => d.use_count = device[m].use_count - 1
  /\ (asked[m].type \notin {"OPEN", "CLOSE"} \/ rc = "ERROR") => d = device[m]
  /\ (asked[m].type = "CLOSE" /\ device[m].use_count > 0 /\ rc = "ERROR") =>
       (device[m].use_count = 1 /\ device[m].state # "OPENED")

ServesFile(m, d) ==
  /\ (device[m].state = "OPENED" <=> device[m].use_count > 0) =>
       (d.state = "OPENED" <=> d.use_count > 0)
  /\ (device[m].sysdep <=> device[m].state = "OPENED") => (d.sysdep <=> d.state = "OPENED")

Serves(m, d, rc) ==
  /\ asked[m].type # "none" /\ asked[m].rc = "none"
  /\ device' = [device EXCEPT ![m] = d]
  /\ UNCHANGED <<guest, flight, resets, alive, wrongRc, late>>
  /\ ServesCount(m, d, rc) /\ ServesFile(m, d)

LEMMA ServedStep ==
  ASSUME BlockInv, NEW m \in BlkMonitor, NEW d \in DeviceRecord, NEW rc \in {"OK", "ERROR"},
         Answered(m, rc), Serves(m, d, rc)
  PROVE  BlockInv'
<1> DEFINE r == [asked[m] EXCEPT !.rc = rc, !.async = FALSE, !.tag = 0]
<1>1. asked' = [asked EXCEPT ![m] = r] /\ blockRc' = rc
  BY DEF Answered, AnsweredIO
<1>a. /\ asked[m].type # "none" /\ asked[m].rc = "none" /\ device' = [device EXCEPT ![m] = d]
      /\ UNCHANGED <<guest, flight, resets, alive, wrongRc, late>>
  BY DEF Serves
<1>2. r.type = asked[m].type /\ r.rc = rc /\ r.async = FALSE /\ r \in AskedRecord
  BY BlockFacts DEF AskedRecord
<1> HIDE DEF r
<1>3. BlockMoves(m, d, r, guest[m], flight[m])
  BY <1>a, <1>1, <1>2, BlockTyped, BlockFacts DEF BlockMoves, BlockInv
<1>4. device'[m] = d /\ asked'[m] = r /\ guest'[m] = guest[m] /\ flight'[m] = flight[m]
  BY <1>3, MovedTo
<1>5. AskedRight(m)' /\ FlightRight(m)'
  BY <1>a, <1>2, <1>4, BlockFacts DEF AskedRight, FlightRight
<1>7. CountsRight(m)'
  <2>1. SUFFICES ASSUME m \in alive, m \notin wrongRc PROVE CountsRight(m)'
    BY <1>a DEF CountsRight
  <2>2. /\ device[m].use_count = guest[m].refcount
        /\ (device[m].state = "OPENED" <=> device[m].use_count > 0)
        /\ (device[m].sysdep <=> device[m].state = "OPENED")
    BY <1>a, <2>1, BlockFacts DEF CountsRight
  <2>3. asked[m].type = "CLOSE" => device[m].use_count > 0 /\ rc = "OK"
    BY <2>2, BlockFacts DEF AskedRight, Serves, ServesCount
  <2>4. d.use_count = CASE r.type = "OPEN" /\ r.rc = "OK"      -> guest[m].refcount + 1
                        [] r.type = "CLOSE" /\ r.rc # "none" -> guest[m].refcount - 1
                        [] OTHER                             -> guest[m].refcount
    BY <1>2, <2>2, <2>3 DEF Serves, ServesCount
  <2> QED
    BY <1>4, <2>2, <2>4 DEF CountsRight, Serves, ServesFile
<1>8. WaitsRight(m)'
  BY <1>a, <1>2, <1>4, BlockFacts DEF WaitsRight, Current
<1> QED
  BY <1>3, <1>5, <1>7, <1>8, MoveStep

LEMMA ServeStep ==
  ASSUME BlockInv, NEW m \in BlkMonitor, ServeStat(m) \/ ServeOpen(m) \/ ServeClose(m)
  PROVE  BlockInv'
<1>1. CASE ServeStat(m)
  <2>1. PICK rc \in {"OK", "ERROR"} : Answered(m, rc)
    BY <1>1 DEF ServeStat
  <2>2. /\ asked[m].type = "STAT" /\ asked[m].rc = "none" /\ device' = device
        /\ UNCHANGED <<guest, flight, resets, alive, wrongRc, late>>
    BY <1>1 DEF ServeStat, Unserved
  <2>3. device' = [device EXCEPT ![m] = device[m]]
    BY <2>2, BlockTyped
  <2>6. ServesCount(m, device[m], rc)
    BY <2>1, <2>2, <2>3, BlockFacts DEF ServesCount
  <2>7. ServesFile(m, device[m])
    BY <2>1, <2>2, <2>3, BlockFacts DEF ServesFile
  <2>8. Serves(m, device[m], rc)
    BY <2>1, <2>2, <2>3, <2>6, <2>7 DEF Serves
  <2> QED
    BY <2>1, <2>2, <2>3, BlockFacts, <2>8, ServedStep
<1>2. CASE ServeOpen(m)
  <2>1. /\ asked[m].type = "OPEN" /\ asked[m].rc = "none"
        /\ UNCHANGED <<guest, flight, resets, alive, wrongRc, late>>
    BY <1>2 DEF ServeOpen, Unserved
  <2>2. device[m].use_count < MaxUse
    BY <2>1, BlockFacts DEF AskedRight
  <2>3. CASE /\ device[m].use_count >= 1 /\ device' = [device EXCEPT ![m].use_count = @ + 1]
             /\ Answered(m, "OK")
    <3> DEFINE d == [device[m] EXCEPT !.use_count = @ + 1]
    <3>1. /\ d \in DeviceRecord /\ d.use_count = device[m].use_count + 1
          /\ d.state = device[m].state /\ d.sysdep = device[m].sysdep
      BY <2>2, BlockFacts DEF DeviceRecord
    <3>2. device' = [device EXCEPT ![m] = d]
      BY <2>3
    <3> HIDE DEF d
    <3>6. ServesCount(m, d, "OK")
      BY <2>1, <2>3, <3>1, <3>2, BlockFacts DEF ServesCount
    <3>7. ServesFile(m, d)
      BY <2>1, <2>3, <3>1, <3>2, BlockFacts DEF ServesFile
    <3>8. Serves(m, d, "OK")
      BY <2>1, <2>3, <3>1, <3>2, <3>6, <3>7 DEF Serves
    <3> QED
      BY <2>1, <2>3, <3>1, <3>2, BlockFacts, <3>8, ServedStep
  <2>4. CASE /\ device[m].use_count = 0 /\ device[m].state = "CLOSED"
             /\ device' = [device EXCEPT ![m] = [use_count |-> 1, state |-> "OPENED", sysdep |-> TRUE]]
             /\ Answered(m, "OK")
    <3> DEFINE d == [use_count |-> 1, state |-> "OPENED", sysdep |-> TRUE]
    <3>1. 1 \in 0..MaxUse
      BY <2>2, <2>4, BlockFacts
    <3>2. d \in DeviceRecord /\ d.use_count = 1 /\ d.state = "OPENED" /\ d.sysdep = TRUE
      BY <3>1 DEF DeviceRecord
    <3>3. device' = [device EXCEPT ![m] = d]
      BY <2>4
    <3> HIDE DEF d
    <3>6. ServesCount(m, d, "OK")
      BY <2>1, <2>4, <3>2, <3>3, BlockFacts DEF ServesCount
    <3>7. ServesFile(m, d)
      BY <2>1, <2>4, <3>2, <3>3, BlockFacts DEF ServesFile
    <3>8. Serves(m, d, "OK")
      BY <2>1, <2>4, <3>2, <3>3, <3>6, <3>7 DEF Serves
    <3> QED
      BY <2>1, <2>4, <3>2, <3>3, <3>8, BlockFacts, ServedStep
  <2>5. CASE device[m].use_count = 0 /\ UNCHANGED device /\ Answered(m, "ERROR")
    <3>1. device' = [device EXCEPT ![m] = device[m]]
      BY <2>5, BlockTyped
    <3>6. ServesCount(m, device[m], "ERROR")
      BY <2>1, <2>5, <3>1, BlockFacts DEF ServesCount
    <3>7. ServesFile(m, device[m])
      BY <2>1, <2>5, <3>1, BlockFacts DEF ServesFile
    <3>8. Serves(m, device[m], "ERROR")
      BY <2>1, <2>5, <3>1, <3>6, <3>7 DEF Serves
    <3> QED
      BY <2>1, <2>5, <3>1, BlockFacts, <3>8, ServedStep
  <2> QED
    BY <1>2, <2>3, <2>4, <2>5 DEF ServeOpen
<1>3. CASE ServeClose(m)
  <2>1. /\ asked[m].type = "CLOSE" /\ asked[m].rc = "none"
        /\ UNCHANGED <<guest, flight, resets, alive, wrongRc, late>>
    BY <1>3 DEF ServeClose, Unserved
  <2>2. CASE /\ device[m].use_count = 0 \/ (device[m].use_count = 1 /\ device[m].state # "OPENED")
             /\ UNCHANGED device /\ Answered(m, "ERROR")
    <3>1. device' = [device EXCEPT ![m] = device[m]]
      BY <2>2, BlockTyped
    <3>6. ServesCount(m, device[m], "ERROR")
      BY <2>1, <2>2, <3>1, BlockFacts DEF ServesCount
    <3>7. ServesFile(m, device[m])
      BY <2>1, <2>2, <3>1, BlockFacts DEF ServesFile
    <3>8. Serves(m, device[m], "ERROR")
      BY <2>1, <2>2, <3>1, <3>6, <3>7 DEF Serves
    <3> QED
      BY <2>1, <2>2, <3>1, BlockFacts, <3>8, ServedStep
  <2>3. CASE /\ device[m].use_count > 1 /\ device' = [device EXCEPT ![m].use_count = @ - 1]
             /\ Answered(m, "OK")
    <3> DEFINE d == [device[m] EXCEPT !.use_count = @ - 1]
    <3>1. /\ d \in DeviceRecord /\ d.use_count = device[m].use_count - 1
          /\ d.state = device[m].state /\ d.sysdep = device[m].sysdep
      BY <2>3, BlockFacts DEF DeviceRecord
    <3>2. device' = [device EXCEPT ![m] = d]
      BY <2>3
    <3> HIDE DEF d
    <3>6. ServesCount(m, d, "OK")
      BY <2>1, <2>3, <3>1, <3>2, BlockFacts DEF ServesCount
    <3>7. ServesFile(m, d)
      BY <2>1, <2>3, <3>1, <3>2, BlockFacts DEF ServesFile
    <3>8. Serves(m, d, "OK")
      BY <2>1, <2>3, <3>1, <3>2, <3>6, <3>7 DEF Serves
    <3> QED
      BY <2>1, <2>3, <3>1, <3>2, BlockFacts, <3>8, ServedStep
  <2>4. CASE /\ device[m].use_count = 1 /\ device[m].state = "OPENED"
             /\ device' = [device EXCEPT ![m] = NewDevice] /\ Answered(m, "OK")
    <3>1. /\ NewDevice \in DeviceRecord /\ NewDevice.use_count = 0
          /\ NewDevice.state = "CLOSED" /\ NewDevice.sysdep = FALSE
      BY BlockFacts DEF NewDevice, DeviceRecord
    <3>6. ServesCount(m, NewDevice, "OK")
      BY <2>1, <2>4, <3>1, BlockFacts DEF ServesCount
    <3>7. ServesFile(m, NewDevice)
      BY <2>1, <2>4, <3>1, BlockFacts DEF ServesFile
    <3>8. Serves(m, NewDevice, "OK")
      BY <2>1, <2>4, <3>1, <3>6, <3>7 DEF Serves
    <3> QED
      BY <2>1, <2>4, <3>1, <3>8, BlockFacts, ServedStep
  <2>5. device[m].use_count = 0 \/ device[m].use_count = 1 \/ device[m].use_count > 1
    BY BlockFacts
  <2> QED
    BY <1>3, <2>2, <2>3, <2>4, <2>5 DEF ServeClose, OnlyCounts
<1> QED
  BY <1>1, <1>2, <1>3

LEMMA ServeIOStep ==
  ASSUME BlockInv, NEW m \in BlkMonitor, ServeIO(m)
  PROVE  BlockInv'
<1>1. /\ asked[m].type = "IO" /\ asked[m].rc = "none"
      /\ UNCHANGED <<device, guest, resets, alive, wrongRc, late>>
  BY DEF ServeIO, Unserved
<1>2. ASSUME NEW rc \in {"OK", "ERROR"}, NEW async \in BOOLEAN, NEW tag \in Tag \union {0}, NEW f \in SUBSET Flight,
             AnsweredIO(m, rc, async, tag), flight' = [flight EXCEPT ![m] = f],
             \A io, x \in f : io.tag = x.tag => io = x,
             \A io \in f : io.guest <= resets[m],
             f # {} => m \in AsyncEnabled,
             {io.tag : io \in {x \in f : x.guest = resets[m]}} =
               {io.tag : io \in Current(m)} \union (IF rc = "OK" /\ async THEN {tag} ELSE {})
      PROVE  BlockInv'
  <2> DEFINE r == [asked[m] EXCEPT !.rc = rc, !.async = async, !.tag = tag]
  <2>1. asked' = [asked EXCEPT ![m] = r] /\ blockRc' = rc
    BY <1>2 DEF AnsweredIO
  <2>2. r.type = "IO" /\ r.rc = rc /\ r.async = async /\ r.tag = tag /\ r \in AskedRecord
    BY <1>1, BlockFacts DEF AskedRecord
  <2> HIDE DEF r
  <2>3. BlockMoves(m, device[m], r, guest[m], f)
    <3>1. /\ device' = [device EXCEPT ![m] = device[m]] /\ guest' = [guest EXCEPT ![m] = guest[m]]
          /\ resets' \in [BlkMonitor -> 0..MaxResets]
          /\ alive' \subseteq BlkMonitor /\ wrongRc' \subseteq BlkMonitor
      BY <1>1, BlockTyped
    <3>2. AsyncEnabled = {} => late' = {}
      BY <1>1 DEF BlockInv
    <3> QED
      BY <1>1, <1>2, <2>1, <2>2, <3>1, <3>2, BlockFacts DEF BlockMoves
  <2>4. /\ device'[m] = device[m] /\ asked'[m] = r /\ guest'[m] = guest[m] /\ flight'[m] = f
        /\ resets'[m] = resets[m]
    BY <1>1, <2>3, MovedTo
  <2>5. AskedRight(m)'
    BY <1>1, <2>2, <2>4, BlockFacts DEF AskedRight
  <2>6. FlightRight(m)'
    BY <1>2, <2>4 DEF FlightRight
  <2>7. CountsRight(m)'
    BY <1>1, <2>2, <2>4, BlockFacts DEF CountsRight
  <2>8. WaitsRight(m)'
    <3>1. SUFFICES ASSUME m \in alive, m \notin wrongRc PROVE WaitsRight(m)'
      BY <1>1 DEF WaitsRight
    <3>2. {io.tag : io \in Current(m)} = guest[m].waits
      BY <1>1, <3>1, BlockFacts DEF WaitsRight
    <3>3. Current(m)' = {x \in f : x.guest = resets[m]}
      BY <2>4 DEF Current
    <3> QED
      BY <1>2, <2>2, <2>4, <3>2, <3>3 DEF WaitsRight
  <2> QED
    BY <2>3, <2>5, <2>6, <2>7, <2>8, MoveStep
<1>3. ASSUME NEW rc \in {"OK", "ERROR"}, NEW async \in BOOLEAN, AnsweredIO(m, rc, async, 0), UNCHANGED flight,
             rc = "OK" => ~async
      PROVE  BlockInv'
  <2>1. flight' = [flight EXCEPT ![m] = flight[m]] /\ 0 \in Tag \union {0} /\ flight[m] \in SUBSET Flight
    BY <1>3, BlockTyped
  <2>2. FlightRight(m)
    BY BlockFacts
  <2>3. {io.tag : io \in {x \in flight[m] : x.guest = resets[m]}} = {io.tag : io \in Current(m)}
    BY DEF Current
  <2>4. (IF rc = "OK" /\ async THEN {0} ELSE {}) = {}
    BY <1>3
  <2>5. {io.tag : io \in {x \in flight[m] : x.guest = resets[m]}} =
          {io.tag : io \in Current(m)} \union (IF rc = "OK" /\ async THEN {0} ELSE {})
    BY <2>3, <2>4
  <2>6. /\ \A io, x \in flight[m] : io.tag = x.tag => io = x
        /\ \A io \in flight[m] : io.guest <= resets[m]
        /\ flight[m] # {} => m \in AsyncEnabled
    BY <2>2 DEF FlightRight
  <2> QED
    BY <1>2, <1>3, <2>1, <2>5, <2>6
<1>4. CASE device[m].state # "OPENED" /\ Answered(m, "ERROR") /\ UNCHANGED flight
  BY <1>3, <1>4 DEF Answered
<1>5. CASE (\E rc \in {"OK", "ERROR"} : Answered(m, rc)) /\ UNCHANGED flight
  BY <1>3, <1>5 DEF Answered
<1>6. CASE AnsweredIO(m, "ERROR", TRUE, 0) /\ UNCHANGED flight
  BY <1>3, <1>6
<1>7. CASE m \in AsyncEnabled /\
           \E status \in {"SUCCESS", "PENDING"}, tag \in Tag :
               /\ \A io \in flight[m] : io.tag # tag
               /\ flight' = [flight EXCEPT ![m] = @ \union {[tag |-> tag, guest |-> resets[m]]}]
               /\ AnsweredIO(m, IF status \in Accepted THEN "OK" ELSE "ERROR", TRUE, tag)
  <2>1. PICK tag \in Tag :
               /\ \A io \in flight[m] : io.tag # tag
               /\ flight' = [flight EXCEPT ![m] = @ \union {[tag |-> tag, guest |-> resets[m]]}]
               /\ AnsweredIO(m, "OK", TRUE, tag)
    BY <1>7 DEF Accepted
  <2> DEFINE new == [tag |-> tag, guest |-> resets[m]]
             f == flight[m] \union {new}
  <2>2. new.tag = tag /\ new.guest = resets[m] /\ new \in Flight
    BY BlockFacts DEF Flight
  <2>3. f \in SUBSET Flight /\ flight' = [flight EXCEPT ![m] = f]
    BY <2>1, <2>2, BlockFacts
  <2>4. resets[m] \in Nat
    BY BlockFacts, BlockAssumption
  <2>5. /\ \A io, x \in f : io.tag = x.tag => io = x
        /\ \A io \in f : io.guest <= resets[m]
    BY <2>1, <2>2, <2>4, BlockFacts DEF FlightRight
  <2>6. {x \in f : x.guest = resets[m]} = Current(m) \union {new}
    BY <2>2 DEF Current
  <2>7. {io.tag : io \in {x \in f : x.guest = resets[m]}} = {io.tag : io \in Current(m)} \union {tag}
    BY <2>2, <2>6
  <2> HIDE DEF new, f
  <2> QED
    BY <1>2, <1>7, <2>1, <2>3, <2>5, <2>7
<1> QED
  BY <1>4, <1>5, <1>6, <1>7 DEF ServeIO

(* The guest is told blockRc, which is its own answer unless it joins wrongRc. *)
LEMMA ReportStep ==
  ASSUME BlockInv, NEW m \in BlkMonitor, Report(m)
  PROVE  BlockInv'
<1>1. /\ asked[m].rc # "none" /\ asked' = [asked EXCEPT ![m] = NoRequest]
      /\ wrongRc' = (IF blockRc # asked[m].rc THEN wrongRc \union {m} ELSE wrongRc)
      /\ UNCHANGED <<device, blockRc, flight, resets, alive, late>>
  BY DEF Report
<1>2. /\ NoRequest \in AskedRecord /\ NoRequest.type = "none" /\ NoRequest.rc = "none"
      /\ NoRequest.async = FALSE
  BY DEF NoRequest, AskedRecord
<1>3. ASSUME NEW g \in GuestRecord, guest' = [guest EXCEPT ![m] = g],
             blockRc = asked[m].rc =>
               /\ g.refcount =
                    CASE asked[m].type = "OPEN" /\ asked[m].rc = "OK"    -> guest[m].refcount + 1
                      [] asked[m].type = "CLOSE" /\ asked[m].rc # "none" -> guest[m].refcount - 1
                      [] OTHER                                           -> guest[m].refcount
               /\ g.waits = guest[m].waits \union
                    (IF asked[m].type = "IO" /\ asked[m].rc = "OK" /\ asked[m].async
                     THEN {asked[m].tag} ELSE {})
      PROVE  BlockInv'
  <2>1. /\ device' = [device EXCEPT ![m] = device[m]] /\ flight' = [flight EXCEPT ![m] = flight[m]]
        /\ resets' \in [BlkMonitor -> 0..MaxResets] /\ blockRc' \in {"OK", "ERROR"}
        /\ alive' \subseteq BlkMonitor /\ wrongRc' \subseteq BlkMonitor
    BY <1>1, BlockTyped
  <2>2. AsyncEnabled = {} => late' = {}
    BY <1>1 DEF BlockInv
  <2>3. BlockMoves(m, device[m], NoRequest, g, flight[m])
    BY <1>1, <1>2, <1>3, <2>1, <2>2, BlockFacts DEF BlockMoves
  <2>4. /\ device'[m] = device[m] /\ asked'[m] = NoRequest /\ guest'[m] = g
        /\ flight'[m] = flight[m] /\ resets'[m] = resets[m]
    BY <1>1, <2>3, MovedTo
  <2>5. AskedRight(m)' /\ FlightRight(m)'
    BY <1>1, <1>2, <2>4, BlockFacts DEF AskedRight, FlightRight
  <2>6. m \notin wrongRc' => blockRc = asked[m].rc /\ m \notin wrongRc
    BY <1>1
  <2>7. CountsRight(m)'
    BY <1>1, <1>2, <1>3, <2>4, <2>6, BlockFacts DEF CountsRight
  <2>8. WaitsRight(m)'
    BY <1>1, <1>2, <1>3, <2>4, <2>6, BlockFacts DEF WaitsRight, Current
  <2> QED
    BY <2>3, <2>5, <2>7, <2>8, MoveStep
<1>4. /\ asked[m].type \in {"STAT", "OPEN", "CLOSE", "IO"} /\ asked[m].tag \in Tag \union {0}
      /\ asked[m].async \in BOOLEAN /\ blockRc \in {"OK", "ERROR"}
  BY <1>1, BlockFacts, BlockTyped DEF AskedRight, AskedRecord
<1>5. /\ guest[m].refcount \in 0..MaxUse /\ guest[m].stat \in BOOLEAN
      /\ guest[m].waits \in SUBSET (Tag \union {0}) /\ MaxUse \in Nat
  BY BlockFacts DEF GuestRecord
<1> DEFINE told ==
      CASE asked[m].type = "STAT"                       -> [guest[m] EXCEPT !.stat = (blockRc = "OK")]
        [] asked[m].type = "OPEN" /\ (blockRc = "OK")   ->
             [guest[m] EXCEPT !.refcount = guest[m].refcount + 1, !.stat = FALSE]
        [] asked[m].type = "OPEN" /\ ~(blockRc = "OK")  -> [guest[m] EXCEPT !.stat = FALSE]
        [] asked[m].type = "CLOSE"                      ->
             [guest[m] EXCEPT !.refcount = guest[m].refcount - 1]
        [] asked[m].type = "IO"                         ->
             IF (blockRc = "OK") /\ asked[m].async
             THEN [guest[m] EXCEPT !.waits = guest[m].waits \union {asked[m].tag}] ELSE guest[m]
<1>5a. guest' = [guest EXCEPT ![m] = told]
  BY DEF Report
<1>6. CASE asked[m].type = "STAT"
  <2> DEFINE g == [guest[m] EXCEPT !.stat = (blockRc = "OK")]
  <2>1. guest' = [guest EXCEPT ![m] = g]
    BY <1>6 DEF Report
  <2>2. g \in GuestRecord /\ g.refcount = guest[m].refcount /\ g.waits = guest[m].waits
    BY <1>5, BlockFacts DEF GuestRecord
  <2> HIDE DEF g
  <2> QED
    BY <1>3, <1>6, <2>1, <2>2
<1>7. CASE asked[m].type = "OPEN" /\ blockRc = "OK"
  <2> DEFINE g == [guest[m] EXCEPT !.refcount = guest[m].refcount + 1, !.stat = FALSE]
  <2>0. told = g
    BY <1>7
  <2>1. guest' = [guest EXCEPT ![m] = g]
    BY <1>5a, <2>0
  <2>2. guest[m].refcount < MaxUse
    BY <1>7, BlockFacts DEF AskedRight
  <2>3. guest[m].refcount + 1 \in 0..MaxUse
    BY <1>5, <2>2
  <2>4. g \in GuestRecord /\ g.refcount = guest[m].refcount + 1 /\ g.waits = guest[m].waits
    BY <1>5, <2>3, BlockFacts DEF GuestRecord
  <2> HIDE DEF g
  <2> QED
    BY <1>3, <1>7, <2>1, <2>4
<1>8. CASE asked[m].type = "OPEN" /\ blockRc # "OK"
  <2> DEFINE g == [guest[m] EXCEPT !.stat = FALSE]
  <2>1. guest' = [guest EXCEPT ![m] = g]
    BY <1>8 DEF Report
  <2>2. g \in GuestRecord /\ g.refcount = guest[m].refcount /\ g.waits = guest[m].waits
    BY <1>5, BlockFacts DEF GuestRecord
  <2> HIDE DEF g
  <2> QED
    BY <1>3, <1>8, <2>1, <2>2
<1>9. CASE asked[m].type = "CLOSE"
  <2> DEFINE g == [guest[m] EXCEPT !.refcount = guest[m].refcount - 1]
  <2>0. told = g
    BY <1>9
  <2>1. guest' = [guest EXCEPT ![m] = g]
    BY <1>5a, <2>0
  <2>2. guest[m].refcount > 0
    BY <1>9, BlockFacts DEF AskedRight
  <2>3. g \in GuestRecord /\ g.refcount = guest[m].refcount - 1 /\ g.waits = guest[m].waits
    BY <1>5, <2>2, BlockFacts DEF GuestRecord
  <2> HIDE DEF g
  <2> QED
    BY <1>1, <1>3, <1>9, <2>1, <2>3
<1>10. CASE asked[m].type = "IO" /\ blockRc = "OK" /\ asked[m].async
  <2> DEFINE g == [guest[m] EXCEPT !.waits = guest[m].waits \union {asked[m].tag}]
  <2>0. told = g
    BY <1>10
  <2>1. guest' = [guest EXCEPT ![m] = g]
    BY <1>5a, <2>0
  <2>2. g \in GuestRecord /\ g.refcount = guest[m].refcount
        /\ g.waits = guest[m].waits \union {asked[m].tag}
    BY <1>4, <1>5, BlockFacts DEF GuestRecord
  <2> HIDE DEF g
  <2> QED
    BY <1>3, <1>10, <2>1, <2>2
<1>11. CASE asked[m].type = "IO" /\ ~(blockRc = "OK" /\ asked[m].async)
  <2>1. guest' = [guest EXCEPT ![m] = guest[m]]
    BY <1>11 DEF Report
  <2>2. guest[m] \in GuestRecord
    BY BlockFacts
  <2> QED
    BY <1>3, <1>11, <2>1, <2>2
<1> QED
  BY <1>4, <1>6, <1>7, <1>8, <1>9, <1>10, <1>11

LEMMA CompletesStep ==
  ASSUME BlockInv, NEW m \in BlkMonitor, NEW io \in flight[m], Completes(m, io)
  PROVE  BlockInv'
<1> DEFINE f == flight[m] \ {io}
           g == [guest[m] EXCEPT !.waits = IF io.guest = resets[m] THEN @ \ {io.tag} ELSE @]
<1>1. /\ asked[m].type = "none" /\ flight' = [flight EXCEPT ![m] = f]
      /\ guest' = [guest EXCEPT ![m] = g]
      /\ UNCHANGED <<device, blockRc, asked, resets, alive, wrongRc>>
  BY DEF Completes
<1>2. /\ g \in GuestRecord /\ g.refcount = guest[m].refcount
      /\ g.waits = (IF io.guest = resets[m] THEN guest[m].waits \ {io.tag} ELSE guest[m].waits)
  BY BlockFacts DEF GuestRecord
<1>3. /\ f \in SUBSET Flight /\ io \in flight[m]
      /\ (\A x \in f : x \in flight[m] /\ x # io) /\ (\A x \in flight[m] : x # io => x \in f)
  BY BlockFacts
<1> HIDE DEF f, g
<1>4. AsyncEnabled = {} => late' = {}
  BY BlockFacts DEF FlightRight
<1>5. BlockMoves(m, device[m], asked[m], g, f)
  <2>1. /\ device' = [device EXCEPT ![m] = device[m]] /\ asked' = [asked EXCEPT ![m] = asked[m]]
        /\ resets' \in [BlkMonitor -> 0..MaxResets] /\ blockRc' \in {"OK", "ERROR"}
        /\ alive' \subseteq BlkMonitor /\ wrongRc' \subseteq BlkMonitor
    BY <1>1, BlockTyped
  <2> QED
    BY <1>1, <1>2, <1>3, <1>4, <2>1, BlockFacts DEF BlockMoves
<1>6. /\ device'[m] = device[m] /\ asked'[m] = asked[m] /\ guest'[m] = g /\ flight'[m] = f
      /\ resets'[m] = resets[m]
  BY <1>1, <1>5, MovedTo
<1>7. AskedRight(m)'
  BY <1>1, <1>2, <1>6, BlockFacts DEF AskedRight
<1>8. FlightRight(m)'
  BY <1>1, <1>3, <1>6, BlockFacts DEF FlightRight
<1>9. CountsRight(m)'
  BY <1>1, <1>2, <1>6, BlockFacts DEF CountsRight
<1>10. WaitsRight(m)'
  <2>1. SUFFICES ASSUME m \in alive, m \notin wrongRc PROVE {x.tag : x \in Current(m)'} = g.waits
    BY <1>1, <1>6 DEF WaitsRight, Current
  <2>2. {x.tag : x \in Current(m)} = guest[m].waits
    BY <1>1, <2>1, BlockFacts DEF WaitsRight
  <2>3. Current(m)' = {x \in f : x.guest = resets[m]}
    BY <1>6 DEF Current
  <2>4. CASE io.guest # resets[m]
    <3>1. Current(m)' = Current(m)
      BY <1>3, <2>3, <2>4 DEF Current
    <3> QED
      BY <1>2, <2>2, <2>4, <3>1
  <2>5. CASE io.guest = resets[m]
    <3>1. Current(m)' = Current(m) \ {io} /\ io \in Current(m)
      BY <1>3, <2>3, <2>5 DEF Current
    <3>2. \A x \in Current(m) : x.tag = io.tag => x = io
      BY BlockFacts DEF FlightRight, Current
    <3>3. {x.tag : x \in Current(m)'} = {x.tag : x \in Current(m)} \ {io.tag}
      BY <3>1, <3>2
    <3> QED
      BY <1>2, <2>2, <2>5, <3>3
  <2> QED
    BY <2>4, <2>5
<1> QED
  BY <1>5, <1>7, <1>8, <1>9, <1>10, MoveStep

LEMMA BlockRecords ==
  /\ NewDevice \in DeviceRecord /\ NewDevice.use_count = 0
  /\ NewDevice.state = "CLOSED" /\ NewDevice.sysdep = FALSE
  /\ NewGuest \in GuestRecord /\ NewGuest.refcount = 0 /\ NewGuest.waits = {}
  /\ NoRequest \in AskedRecord /\ NoRequest.type = "none" /\ NoRequest.rc = "none"
<1>1. 0 \in 0..MaxUse
  BY BlockAssumption
<1> QED
  BY <1>1 DEF NewDevice, NewGuest, NoRequest, DeviceRecord, GuestRecord, AskedRecord

(* The I/O of the guest that goes is not the next one's. *)
LEMMA BlockResetStep ==
  ASSUME BlockInv, NEW m \in BlkMonitor, BlockReset(m)
  PROVE  BlockInv'
<1>1. /\ m \in alive /\ asked[m].type = "none" /\ resets[m] < MaxResets
      /\ device' = [device EXCEPT ![m] = NewDevice] /\ guest' = [guest EXCEPT ![m] = NewGuest]
      /\ resets' = [resets EXCEPT ![m] = @ + 1] /\ wrongRc' = wrongRc \ {m}
      /\ UNCHANGED <<blockRc, asked, flight, alive, late>>
  BY DEF BlockReset
<1>2. resets[m] \in Nat /\ resets'[m] = resets[m] + 1 /\ resets'[m] \in 0..MaxResets
  BY <1>1, BlockFacts, BlockTyped, BlockAssumption
<1>3. BlockMoves(m, NewDevice, asked[m], NewGuest, flight[m])
  <2>1. /\ flight' = [flight EXCEPT ![m] = flight[m]] /\ asked' = [asked EXCEPT ![m] = asked[m]]
        /\ blockRc' \in {"OK", "ERROR"}
        /\ alive' \subseteq BlkMonitor /\ wrongRc' \subseteq BlkMonitor
    BY <1>1, BlockTyped
  <2>2. resets' \in [BlkMonitor -> 0..MaxResets]
    BY <1>1, <1>2, BlockTyped
  <2>3. \A n \in BlkMonitor : n # m => resets'[n] = resets[n]
    BY <1>1, BlockTyped
  <2>4. AsyncEnabled = {} => late' = {}
    BY <1>1 DEF BlockInv
  <2> QED
    BY <1>1, <2>1, <2>2, <2>3, <2>4, BlockFacts, BlockRecords DEF BlockMoves
<1>4. /\ device'[m] = NewDevice /\ asked'[m] = asked[m] /\ guest'[m] = NewGuest
      /\ flight'[m] = flight[m]
  BY <1>3, MovedTo
<1>5. AskedRight(m)'
  BY <1>1, <1>4, BlockFacts DEF AskedRight
<1>6. \A io \in flight[m] : io.guest \in Nat /\ io.guest <= resets[m]
  BY BlockFacts, BlockAssumption DEF FlightRight, Flight
<1>7. FlightRight(m)'
  <2>1. \A io \in flight[m] : io.guest <= resets[m] + 1
    BY <1>2, <1>6
  <2> QED
    BY <1>2, <1>4, <2>1, BlockFacts DEF FlightRight
<1>8. CountsRight(m)'
  BY <1>1, <1>4, BlockRecords DEF CountsRight
<1>9. WaitsRight(m)'
  <2>1. \A io \in flight[m] : io.guest # resets[m] + 1
    BY <1>2, <1>6
  <2>2. Current(m)' = {}
    BY <1>2, <1>4, <2>1 DEF Current
  <2> QED
    BY <1>1, <1>4, <2>2, BlockRecords DEF WaitsRight
<1> QED
  BY <1>3, <1>5, <1>7, <1>8, <1>9, MoveStep

LEMMA BlockDestroyStep ==
  ASSUME BlockInv, NEW m \in BlkMonitor, BlockDestroy(m)
  PROVE  BlockInv'
<1>1. /\ asked[m].type = "none"
      /\ device' = [device EXCEPT ![m] = NewDevice] /\ guest' = [guest EXCEPT ![m] = NewGuest]
      /\ alive' = alive \ {m}
      /\ UNCHANGED <<blockRc, asked, flight, resets, wrongRc, late>>
  BY DEF BlockDestroy
<1>2. BlockMoves(m, NewDevice, asked[m], NewGuest, flight[m])
  <2>1. /\ flight' = [flight EXCEPT ![m] = flight[m]] /\ asked' = [asked EXCEPT ![m] = asked[m]]
        /\ blockRc' \in {"OK", "ERROR"} /\ resets' \in [BlkMonitor -> 0..MaxResets]
        /\ alive' \subseteq BlkMonitor /\ wrongRc' \subseteq BlkMonitor
    BY <1>1, BlockTyped
  <2>2. AsyncEnabled = {} => late' = {}
    BY <1>1 DEF BlockInv
  <2> QED
    BY <1>1, <2>1, <2>2, BlockFacts, BlockRecords DEF BlockMoves
<1>3. /\ device'[m] = NewDevice /\ asked'[m] = asked[m] /\ guest'[m] = NewGuest
      /\ flight'[m] = flight[m] /\ m \notin alive' /\ resets'[m] = resets[m]
  BY <1>1, <1>2, MovedTo
<1>4. AskedRight(m)' /\ FlightRight(m)'
  BY <1>1, <1>3, BlockFacts DEF AskedRight, FlightRight
<1>5. CountsRight(m)' /\ WaitsRight(m)'
  BY <1>3 DEF CountsRight, WaitsRight
<1> QED
  BY <1>2, <1>4, <1>5, MoveStep

LEMMA BlockStep == BlockInv /\ [BlockNext]_blockVars => BlockInv'
<1> SUFFICES ASSUME BlockInv, [BlockNext]_blockVars PROVE BlockInv'
  OBVIOUS
<1>1. CASE UNCHANGED blockVars
  <2>1. /\ device' = device /\ blockRc' = blockRc /\ asked' = asked /\ guest' = guest
        /\ flight' = flight /\ resets' = resets /\ alive' = alive /\ wrongRc' = wrongRc /\ late' = late
    BY <1>1 DEF blockVars
  <2>2. \A m \in BlkMonitor : AskedRight(m)' /\ FlightRight(m)'
    BY <2>1, BlockFacts DEF AskedRight, FlightRight
  <2>3. \A m \in BlkMonitor : CountsRight(m)'
    BY <2>1, BlockFacts DEF CountsRight
  <2>4. \A m \in BlkMonitor : WaitsRight(m)'
    BY <2>1, BlockFacts DEF WaitsRight, Current
  <2> QED
    BY <2>1, <2>2, <2>3, <2>4 DEF BlockInv, BlockTypeOK
<1>2. CASE BlockNext
  <2>1. PICK m \in BlkMonitor :
          \/ AsksStat(m) \/ AsksOpen(m) \/ AsksClose(m) \/ AsksIO(m)
          \/ ServeStat(m) \/ ServeOpen(m) \/ ServeClose(m) \/ ServeIO(m) \/ Report(m)
          \/ (\E io \in flight[m] : Completes(m, io))
          \/ BlockReset(m) \/ BlockDestroy(m)
    BY <1>2 DEF BlockNext
  <2>2. CASE AsksStat(m) \/ AsksOpen(m) \/ AsksClose(m) \/ AsksIO(m)
    BY <2>2, AsksStep DEF AsksStat, AsksOpen, AsksClose, AsksIO
  <2>3. CASE ServeStat(m) \/ ServeOpen(m) \/ ServeClose(m)
    BY <2>3, ServeStep
  <2>4. CASE ServeIO(m) \/ Report(m) \/ \E io \in flight[m] : Completes(m, io)
    BY <2>4, ServeIOStep, ReportStep, CompletesStep
  <2> QED
    BY <2>1, <2>2, <2>3, <2>4, BlockResetStep, BlockDestroyStep
<1> QED
  BY <1>1, <1>2

LEMMA BlockStart == BlockInit => BlockInv
<1> SUFFICES ASSUME BlockInit PROVE BlockInv
  OBVIOUS
<1>1. /\ device = [m \in BlkMonitor |-> NewDevice] /\ guest = [m \in BlkMonitor |-> NewGuest]
      /\ asked = [m \in BlkMonitor |-> NoRequest] /\ flight = [m \in BlkMonitor |-> {}]
      /\ resets = [m \in BlkMonitor |-> 0] /\ alive = BlkMonitor /\ wrongRc = {} /\ late = {}
      /\ blockRc = "OK"
  BY DEF BlockInit
<1>2. 0 \in 0..MaxResets
  BY BlockAssumption
<1>3. /\ device \in [BlkMonitor -> DeviceRecord] /\ asked \in [BlkMonitor -> AskedRecord]
      /\ guest \in [BlkMonitor -> GuestRecord]
  BY <1>1, BlockRecords
<1>4. BlockTypeOK /\ flight \in [BlkMonitor -> SUBSET Flight]
  BY <1>1, <1>2, <1>3 DEF BlockTypeOK, DeviceRecord, AskedRecord, GuestRecord
<1>5. ASSUME NEW m \in BlkMonitor
      PROVE  AskedRight(m) /\ CountsRight(m) /\ WaitsRight(m) /\ FlightRight(m)
  <2>1. /\ device[m] = NewDevice /\ guest[m] = NewGuest /\ asked[m] = NoRequest /\ flight[m] = {}
    BY <1>1
  <2>2. Current(m) = {}
    BY <2>1 DEF Current
  <2>3. WaitsRight(m)
    BY <2>1, <2>2, BlockRecords DEF WaitsRight
  <2> QED
    BY <2>1, <2>3, BlockRecords DEF AskedRight, CountsRight, FlightRight
<1> QED
  BY <1>1, <1>4, <1>5 DEF BlockInv

LEMMA BlockInvariant == BlockSpec => []BlockInv
BY BlockStart, BlockStep, PTL DEF BlockSpec

(* Devices, requests, guests and the I/O in flight have their types in every reachable state
   (BlockTypeOK): no use count passes its bound or falls below zero. *)
THEOREM BlockTyping == BlockSpec => []BlockTypeOK
<1>1. BlockInv => BlockTypeOK
  BY DEF BlockInv
<1> QED
  BY <1>1, BlockInvariant, PTL

(* Between two requests the driver's use count is the guest's, and the file is open exactly
   while it is used, over every reset and beside the requests of other monitors, unless the
   static rc told the guest another one's answer (BlockCountsAgree); and a guest waits for
   exactly its own requests in flight (BlockWaits). *)
THEOREM BlocksAgree == BlockSpec => [](BlockCountsAgree /\ BlockWaits)
<1>1. BlockInv => BlockCountsAgree
  <2> SUFFICES ASSUME BlockInv, NEW m \in BlkMonitor, Settled(m)
      PROVE /\ device[m].use_count = guest[m].refcount
            /\ (device[m].state = "OPENED") <=> (device[m].use_count > 0)
            /\ device[m].sysdep <=> (device[m].state = "OPENED")
    BY DEF BlockCountsAgree
  <2> QED
    BY BlockFacts DEF CountsRight, Settled
<1>2. BlockInv => BlockWaits
  <2> SUFFICES ASSUME BlockInv PROVE BlockWaits
    OBVIOUS
  <2>1. ASSUME NEW m \in BlkMonitor, Settled(m)
        PROVE  guest[m].waits = {io.tag : io \in {x \in flight[m] : x.guest = resets[m]}}
    BY <2>1, BlockFacts DEF WaitsRight, Current, Settled
  <2> QED
    BY <2>1 DEF BlockWaits, BlockInv
<1> QED
  BY <1>1, <1>2, BlockInvariant, PTL

-----------------------------------------------------------------------------
(* Probing the size of a device: induction over its bits.                  *)

(* scan_bit doubles. *)
BitStep(f, i) == IF i = 0 THEN 1 ELSE 2 * f[i - 1]

LEMMA ScanBits ==
  /\ scan_bit \in [0..MaxBit -> Nat \ {0}]
  /\ \A i \in 0..MaxBit : scan_bit[i] = BitStep(scan_bit, i)
<1> DEFINE Upto(n) == \E f \in [0..MaxBit -> Nat \ {0}] :
             \A i \in 0..MaxBit : i <= n => f[i] = BitStep(f, i)
           T == {n \in Nat : Upto(n)}
<1>0. MaxBit \in Nat
  BY BlockAssumption
<1>1. Upto(0)
  <2> DEFINE ones == [i \in 0..MaxBit |-> 1]
  <2>1. ones \in [0..MaxBit -> Nat \ {0}]
    OBVIOUS
  <2>2. \A i \in 0..MaxBit : i <= 0 => ones[i] = BitStep(ones, i)
    BY <1>0 DEF BitStep
  <2> QED
    BY <2>1, <2>2
<1>2. ASSUME NEW n \in Nat, Upto(n) PROVE Upto(n + 1)
  <2>1. PICK f \in [0..MaxBit -> Nat \ {0}] : \A i \in 0..MaxBit : i <= n => f[i] = BitStep(f, i)
    BY <1>2
  <2> DEFINE g == [i \in 0..MaxBit |-> IF i <= n THEN f[i] ELSE BitStep(f, i)]
  <2>2. ASSUME NEW i \in 0..MaxBit PROVE BitStep(f, i) \in Nat \ {0}
    BY <1>0, <2>1 DEF BitStep
  <2>3. g \in [0..MaxBit -> Nat \ {0}]
    BY <2>1, <2>2
  <2>4. ASSUME NEW i \in 0..MaxBit, i <= n + 1 PROVE g[i] = BitStep(g, i)
    <3>1. i # 0 => i - 1 \in 0..MaxBit /\ i - 1 <= n
      BY <1>0, <2>4
    <3>2. i # 0 => g[i - 1] = f[i - 1]
      BY <3>1
    <3>3. BitStep(g, i) = BitStep(f, i)
      BY <3>2 DEF BitStep
    <3> QED
      BY <2>1, <3>3
  <2> QED
    BY <2>3, <2>4
<1>3. Nat \subseteq T
  <2> HIDE DEF Upto
  <2>1. 0 \in T /\ \A n \in Nat : n \in T => n + 1 \in T
    BY <1>1, <1>2
  <2> HIDE DEF T
  <2> QED
    BY <2>1, ByInduction
<1>4. PICK f \in [0..MaxBit -> Nat \ {0}] : \A i \in 0..MaxBit : f[i] = BitStep(f, i)
  BY <1>0, <1>3
<1>5. scan_bit = CHOOSE g : g = [i \in 0..MaxBit |-> BitStep(g, i)]
  BY DEF scan_bit, BitStep
<1>6. f = [i \in 0..MaxBit |-> BitStep(f, i)]
  BY <1>4
<1>7. scan_bit = [i \in 0..MaxBit |-> BitStep(scan_bit, i)]
  BY <1>5, <1>6
<1>8. \A i \in 0..MaxBit : scan_bit[i] = BitStep(scan_bit, i)
  BY <1>7
<1> DEFINE P == {n \in Nat : n <= MaxBit => scan_bit[n] \in Nat \ {0}}
<1>9. Nat \subseteq P
  <2>1. 0 \in P
    BY <1>0, <1>8 DEF BitStep
  <2>2. ASSUME NEW n \in Nat, n \in P PROVE n + 1 \in P
    <3>1. CASE n + 1 <= MaxBit
      <4>1. n + 1 \in 0..MaxBit /\ n <= MaxBit /\ (n + 1) - 1 = n /\ n + 1 # 0
        BY <1>0, <3>1
      <4>2. scan_bit[n + 1] = 2 * scan_bit[n]
        BY <1>8, <4>1 DEF BitStep
      <4>3. scan_bit[n] \in Nat \ {0}
        BY <2>2, <4>1
      <4> QED
        BY <4>2, <4>3
    <3> QED
      BY <3>1
  <2> HIDE DEF P
  <2> QED
    BY <2>1, <2>2, ByInduction
<1>10. \A i \in 0..MaxBit : scan_bit[i] \in Nat \ {0}
  BY <1>0, <1>9
<1> QED
  BY <1>7, <1>8, <1>10

(* The bits of the size are found from the top one down. *)
BuildStep(disk, length, top, f, i) ==
  IF i = top THEN 0
  ELSE LET with_bit == f[i + 1] + scan_bit[i]
       IN IF probe_area(disk, with_bit, length) THEN with_bit ELSE f[i + 1]
Built(disk, length, top) ==
  CHOOSE f : f = [i \in 0..top |-> BuildStep(disk, length, top, f, i)]

LEMMA BuiltExists ==
  ASSUME NEW disk, NEW length, NEW top \in 0..MaxBit
  PROVE  Built(disk, length, top) = [i \in 0..top |-> BuildStep(disk, length, top, Built(disk, length, top), i)]
<1> DEFINE Step(f, i) == BuildStep(disk, length, top, f, i)
           Down(n) == \E f \in [0..top -> Nat] : \A i \in 0..top : i >= top - n => f[i] = Step(f, i)
           T == {n \in Nat : Down(n)}
<1>0. MaxBit \in Nat /\ top \in Nat /\ \A i \in 0..top : i \in 0..MaxBit /\ scan_bit[i] \in Nat
  <2>1. MaxBit \in Nat
    BY BlockAssumption
  <2>2. top \in Nat /\ \A i \in 0..top : i \in 0..MaxBit
    BY <2>1
  <2> QED
    BY <2>1, <2>2, ScanBits
<1>1. Down(0)
  <2> DEFINE none == [i \in 0..top |-> 0]
  <2>1. none \in [0..top -> Nat]
    OBVIOUS
  <2>2. \A i \in 0..top : i >= top - 0 => none[i] = Step(none, i)
    BY <1>0 DEF BuildStep
  <2> QED
    BY <2>1, <2>2
<1>2. ASSUME NEW n \in Nat, Down(n) PROVE Down(n + 1)
  <2>1. PICK f \in [0..top -> Nat] : \A i \in 0..top : i >= top - n => f[i] = Step(f, i)
    BY <1>2
  <2> DEFINE g == [i \in 0..top |-> IF i >= top - n THEN f[i] ELSE Step(f, i)]
  <2>2. ASSUME NEW i \in 0..top PROVE Step(f, i) \in Nat
    <3>1. i # top => i + 1 \in 0..top
      BY <1>0
    <3>2. i # top => f[i + 1] \in Nat /\ scan_bit[i] \in Nat
      BY <1>0, <2>1, <3>1
    <3> QED
      BY <3>2 DEF BuildStep
  <2>3. g \in [0..top -> Nat]
    BY <2>1, <2>2
  <2>4. ASSUME NEW i \in 0..top, i >= top - (n + 1) PROVE g[i] = Step(g, i)
    <3>1. i # top => i + 1 \in 0..top /\ i + 1 >= top - n
      BY <1>0, <2>4
    <3>2. i # top => g[i + 1] = f[i + 1]
      BY <3>1
    <3>3. Step(g, i) = Step(f, i)
      BY <3>2 DEF BuildStep
    <3> HIDE DEF Step
    <3> QED
      BY <2>1, <3>3
  <2> HIDE DEF Step
  <2> QED
    BY <2>3, <2>4
<1>3. Nat \subseteq T
  <2> HIDE DEF Down
  <2>1. 0 \in T /\ \A n \in Nat : n \in T => n + 1 \in T
    BY <1>1, <1>2
  <2> HIDE DEF T
  <2> QED
    BY <2>1, ByInduction
<1>4. PICK f \in [0..top -> Nat] : \A i \in 0..top : f[i] = Step(f, i)
  <2> HIDE DEF Step
  <2>1. Down(top)
    BY <1>0, <1>3
  <2>2. \A i \in 0..top : i >= top - top
    BY <1>0
  <2> QED
    BY <2>1, <2>2
<1>5. f = [i \in 0..top |-> Step(f, i)]
  BY <1>4
<1> HIDE DEF Step
<1>6. \E h : h = [i \in 0..top |-> Step(h, i)]
  BY <1>5
<1>7. Built(disk, length, top) = CHOOSE h : h = [i \in 0..top |-> Step(h, i)]
  BY DEF Built, Step
<1>8. Built(disk, length, top) = [i \in 0..top |-> Step(Built(disk, length, top), i)]
  BY <1>6, <1>7
<1> QED
  BY <1>8 DEF Step

(* A device that can be read at any offset: each bit found leaves less than its value. *)
LEMMA BuiltFinds ==
  ASSUME NEW disk, disk.sector = 1, disk.size \in Nat,
         NEW length \in Nat, length <= disk.size, NEW top \in 0..MaxBit,
         ~probe_area(disk, scan_bit[top], length)
  PROVE  Built(disk, length, top)[0] = disk.size - length
<1> DEFINE rest == disk.size - length
           built == Built(disk, length, top)
           Near(n) == n <= top =>
             /\ built[top - n] \in Nat /\ built[top - n] <= rest
             /\ rest < built[top - n] + scan_bit[top - n]
           T == {n \in Nat : Near(n)}
<1>0. /\ MaxBit \in Nat /\ top \in Nat
      /\ \A i \in 0..top : i \in 0..MaxBit /\ scan_bit[i] \in Nat \ {0}
      /\ rest \in Nat
  <2>1. MaxBit \in Nat
    BY BlockAssumption
  <2>2. top \in Nat /\ \A i \in 0..top : i \in 0..MaxBit
    BY <2>1
  <2> QED
    BY <2>1, <2>2, ScanBits
<1>1. ASSUME NEW x \in Nat PROVE probe_area(disk, x, length) <=> x <= rest
  <2>1. x % 1 = 0 /\ length % 1 = 0
    BY Z3
  <2>2. x + length <= disk.size <=> x <= disk.size - length
    OBVIOUS
  <2> QED
    BY <2>1, <2>2 DEF probe_area
<1>2. \A i \in 0..top : built[i] = BuildStep(disk, length, top, built, i)
  <2> HIDE DEF built
  <2>1. built = [i \in 0..top |-> BuildStep(disk, length, top, built, i)]
    BY BuiltExists DEF built
  <2> QED
    BY <2>1
<1> HIDE DEF built, rest
<1>3. Near(0)
  <2>1. top - 0 = top /\ top \in 0..top
    BY <1>0
  <2>2. built[top] = 0
    BY <1>2, <2>1 DEF BuildStep
  <2>3. ~(scan_bit[top] <= rest) /\ scan_bit[top] \in Nat
    BY <1>0, <1>1, <2>1
  <2> QED
    BY <1>0, <2>1, <2>2, <2>3
<1>4. ASSUME NEW n \in Nat, Near(n) PROVE Near(n + 1)
  <2> SUFFICES ASSUME n + 1 <= top
      PROVE  /\ built[top - (n + 1)] \in Nat /\ built[top - (n + 1)] <= rest
             /\ rest < built[top - (n + 1)] + scan_bit[top - (n + 1)]
    OBVIOUS
  <2> DEFINE i == top - (n + 1)
             bit == scan_bit[i]
             old == built[i + 1]
  <2>1. i \in 0..top /\ i # top /\ i + 1 = top - n /\ i + 1 \in 0..top /\ n <= top
    BY <1>0
  <2>2. bit \in Nat /\ scan_bit[i + 1] = 2 * bit
    <3>1. i + 1 \in 0..MaxBit /\ i + 1 # 0 /\ (i + 1) - 1 = i
      BY <1>0, <2>1
    <3> QED
      BY <1>0, <2>1, <3>1, ScanBits DEF BitStep
  <2>3. old \in Nat /\ old <= rest /\ rest < old + 2 * bit
    <3>1. built[i + 1] \in Nat /\ built[i + 1] <= rest /\ rest < built[i + 1] + scan_bit[i + 1]
      BY <1>4, <2>1
    <3> QED
      BY <3>1, <2>2
  <2>4. built[i] = IF probe_area(disk, old + bit, length) THEN old + bit ELSE old
    BY <1>2, <2>1 DEF BuildStep
  <2> HIDE DEF bit, old, i
  <2>5. built[i] = IF old + bit <= rest THEN old + bit ELSE old
    BY <1>1, <2>2, <2>3, <2>4
  <2>6. built[i] \in Nat /\ built[i] <= rest /\ rest < built[i] + bit
    BY <1>0, <2>2, <2>3, <2>5
  <2> QED
    BY <2>6 DEF bit, i
<1>5. Nat \subseteq T
  <2> HIDE DEF Near
  <2>1. 0 \in T /\ \A n \in Nat : n \in T => n + 1 \in T
    BY <1>3, <1>4
  <2> HIDE DEF T
  <2> QED
    BY <2>1, ByInduction
<1>6. Near(top) /\ top - top = 0 /\ 0 \in 0..MaxBit
  <2> HIDE DEF Near
  <2> QED
    BY <1>0, <1>5
<1>7. scan_bit[0] = 1
  BY <1>6, ScanBits DEF BitStep
<1>8. built[0] \in Nat /\ built[0] <= rest /\ rest < built[0] + 1
  BY <1>0, <1>6, <1>7
<1>9. built[0] = rest
  BY <1>0, <1>8
<1> QED
  BY <1>9 DEF built, rest

LEMMA MinIs ==
  ASSUME NEW S, S \subseteq Nat, S # {}
  PROVE  Min(S) \in S /\ \A n \in S : Min(S) <= n
BY LeastOf DEF Min

(* What detect_size_binary_search finds: the lengths it tries are those of the reference. *)
Lengths(disk) == {n \in test_buffer_sizes : probe_area(disk, 0, n)}
Tops(disk, length) == {i \in 0..MaxBit : ~probe_area(disk, scan_bit[i], length)}

LEMMA SearchIs ==
  ASSUME NEW disk
  PROVE  detect_size_binary_search(disk) =
           IF Lengths(disk) = {} \/ Min(Lengths(disk)) >= ProbeMax THEN "ERROR"
           ELSE Built(disk, Min(Lengths(disk)), Min(Tops(disk, Min(Lengths(disk)))))[0]
                  + Min(Lengths(disk))
BY DEF detect_size_binary_search, Lengths, Tops, Built, BuildStep

LEMMA LengthsFact ==
  /\ test_buffer_sizes \subseteq Nat \ {0} /\ ProbeMin \in test_buffer_sizes
  /\ \A n \in test_buffer_sizes : n >= ProbeMin
<1>1. MaxBit \in Nat /\ ProbeMin \in Nat \ {0} /\ ProbeMax \in Nat /\ ProbeMin < ProbeMax
  BY BlockAssumption
<1>2. ASSUME NEW i \in 0..MaxBit PROVE ProbeMin * scan_bit[i] \in Nat \ {0} /\ ProbeMin * scan_bit[i] >= ProbeMin
  <2>1. scan_bit[i] \in Nat \ {0}
    BY ScanBits
  <2> DEFINE b == scan_bit[i]
  <2> HIDE DEF b
  <2>2. \A a, c \in Nat \ {0} : a * c \in Nat \ {0} /\ a * c >= a
    BY Z3
  <2> QED
    BY <1>1, <2>1, <2>2
<1>3. scan_bit[0] = 1 /\ 0 \in 0..MaxBit
  BY <1>1, ScanBits DEF BitStep
<1>4. ProbeMin * scan_bit[0] = ProbeMin
  BY <1>1, <1>3
<1> QED
  BY <1>1, <1>2, <1>3, <1>4 DEF test_buffer_sizes

(* What the search makes of every device: its size when it is read at any offset, and else the
   first length that suits its sector, unless that is the last one or there is none. *)
LEMMA SizesSearched ==
  ASSUME NEW size \in ProbeMin..scan_bit[MaxBit], NEW sector \in 1..ProbeMax, size % sector = 0
  PROVE  co_os_file_get_size([answers |-> "none", size |-> size, sector |-> sector])
           = IF sector = 1 THEN size
             ELSE IF \E n \in {x \in test_buffer_sizes : x <= size /\ x % sector = 0} : n < ProbeMax
                  THEN Min({x \in test_buffer_sizes : x <= size /\ x % sector = 0}) ELSE "ERROR"
<1> DEFINE disk == [answers |-> "none", size |-> size, sector |-> sector]
           suits == {n \in test_buffer_sizes : n <= size /\ n % sector = 0}
           length == Min(suits)
           top == Min(Tops(disk, length))
<1>1. /\ MaxBit \in Nat /\ ProbeMin \in Nat \ {0} /\ ProbeMax \in Nat /\ ProbeMin < ProbeMax
      /\ MaxBit \in 0..MaxBit /\ 0 \in 0..MaxBit /\ scan_bit[MaxBit] \in Nat \ {0}
      /\ scan_bit[0] = 1
  <2>1. /\ MaxBit \in Nat /\ ProbeMin \in Nat \ {0} /\ ProbeMax \in Nat /\ ProbeMin < ProbeMax
        /\ MaxBit \in 0..MaxBit /\ 0 \in 0..MaxBit
    BY BlockAssumption
  <2> QED
    BY <2>1, ScanBits DEF BitStep
<1>2. size \in Nat /\ size >= ProbeMin /\ size <= scan_bit[MaxBit] /\ sector \in Nat /\ sector >= 1
  BY <1>1
<1>3. disk.answers = "none" /\ disk.size = size /\ disk.sector = sector
  OBVIOUS
<1> HIDE DEF disk
<1>4. 0 % sector = 0
  BY <1>2, Z3
<1>5. Lengths(disk) = suits
  <2>1. ASSUME NEW n \in test_buffer_sizes
        PROVE  probe_area(disk, 0, n) <=> n <= size /\ n % sector = 0
    <3>1. n \in Nat /\ 0 + n = n
      BY LengthsFact
    <3> QED
      BY <1>3, <1>4, <3>1 DEF probe_area
  <2> QED
    BY <2>1 DEF Lengths
<1>6. suits \subseteq Nat
  BY LengthsFact
<1>7. suits # {} => length \in suits /\ length \in Nat \ {0} /\ length <= size
                     /\ \A n \in suits : length <= n
  BY <1>6, MinIs, LengthsFact
<1>8. co_os_file_get_size(disk) =
        IF suits = {} \/ length >= ProbeMax THEN "ERROR" ELSE Built(disk, length, top)[0] + length
  BY <1>3, <1>5, SearchIs DEF co_os_file_get_size
<1>9. suits # {} => top \in Tops(disk, length) /\ \A i \in Tops(disk, length) : top <= i
  <2> SUFFICES ASSUME suits # {} PROVE top \in Tops(disk, length) /\ \A i \in Tops(disk, length) : top <= i
    OBVIOUS
  <2> HIDE DEF length, suits
  <2>1. ~(scan_bit[MaxBit] + length <= size)
    BY <1>1, <1>2, <1>7
  <2>2. MaxBit \in Tops(disk, length)
    BY <1>1, <1>3, <2>1 DEF Tops, probe_area
  <2>3. Tops(disk, length) \subseteq Nat
    BY <1>1 DEF Tops
  <2> QED
    BY <2>2, <2>3, MinIs
<1>10. CASE sector = 1
  <2>1. \A n \in Nat : n % 1 = 0
    BY Z3
  <2>2. ProbeMin \in suits
    BY <1>2, <1>10, <2>1, <1>1, LengthsFact
  <2> HIDE DEF length, suits
  <2>3. suits # {} /\ length \in Nat \ {0} /\ length <= size /\ length < ProbeMax
    BY <1>1, <1>7, <2>2
  <2>4. top \in 0..MaxBit /\ ~probe_area(disk, scan_bit[top], length)
    BY <1>9, <2>3 DEF Tops
  <2> HIDE DEF top
  <2>5. Built(disk, length, top)[0] = size - length
    BY <1>2, <1>3, <1>10, <2>3, <2>4, BuiltFinds
  <2>6. co_os_file_get_size(disk) = (size - length) + length
    BY <1>1, <1>8, <2>3, <2>5
  <2>7. co_os_file_get_size(disk) = size
    BY <1>2, <2>3, <2>6
  <2> QED
    BY <1>10, <2>7 DEF disk
<1>11. CASE sector # 1
  <2>1. (\E n \in suits : n < ProbeMax) <=> ~(suits = {} \/ length >= ProbeMax)
    <3> HIDE DEF length
    <3>1. ASSUME NEW n \in suits, n < ProbeMax PROVE suits # {} /\ ~(length >= ProbeMax)
      BY <1>1, <1>6, <1>7, <3>1
    <3>2. ASSUME suits # {}, ~(length >= ProbeMax) PROVE \E n \in suits : n < ProbeMax
      BY <1>1, <1>7, <3>2
    <3> QED
      BY <3>1, <3>2
  <2>2. ASSUME suits # {} PROVE Built(disk, length, top)[0] + length = length
    <3> HIDE DEF length, suits
    <3>1. 1 % sector = 1
      BY <1>2, <1>11, Z3
    <3>2. 0 \in Tops(disk, length)
      BY <1>1, <1>3, <3>1 DEF Tops, probe_area
    <3>3. top \in 0..MaxBit /\ top <= 0
      BY <1>9, <2>2, <3>2 DEF Tops
    <3>4. top = 0
      BY <1>1, <3>3
    <3> HIDE DEF top
    <3>5. Built(disk, length, top) = [i \in 0..top |-> BuildStep(disk, length, top, Built(disk, length, top), i)]
      BY <3>3, BuiltExists
    <3>6. 0 \in 0..top
      BY <3>4
    <3>7. Built(disk, length, top)[0] = 0
      BY <3>4, <3>5, <3>6 DEF BuildStep
    <3>8. length \in Nat
      BY <1>7, <2>2
    <3> QED
      BY <3>7, <3>8
  <2> QED
    BY <1>8, <1>11, <2>1, <2>2 DEF disk
<1> QED
  BY <1>10, <1>11

LEMMA SizesProbed == ProbedSizes
<1> SUFFICES ASSUME NEW size \in ProbeMin..scan_bit[MaxBit]
             PROVE  co_os_file_get_size([answers |-> "none", size |-> size, sector |-> 1]) = size
  BY DEF ProbedSizes
<1>1. size \in Nat /\ 1 \in 1..ProbeMax
  <2>1. MaxBit \in 0..MaxBit /\ ProbeMin \in Nat \ {0} /\ ProbeMax \in Nat /\ ProbeMin < ProbeMax
    BY BlockAssumption
  <2> QED
    BY <2>1, ScanBits DEF BitStep
<1>2. size % 1 = 0
  BY <1>1, Z3
<1> QED
  BY <1>1, <1>2, SizesSearched

(* BlocksExact as a whole: what guest and driver believe of a device agrees, no answer is lost
   or given twice but to a guest that was reset or freed, and the size that STAT answers for a
   device without a length is right if it is read at any offset. *)
THEOREM BlocksAnswered == BlockSpec => []BlocksExact
<1>1. BlockCountsAgree /\ BlockWaits => BlocksExact
  BY SizesProbed DEF BlocksExact, BlockAnswers
<1> QED
  BY <1>1, BlocksAgree, PTL

-----------------------------------------------------------------------------
(* The SCSI units.                                                         *)

ScsiGuestRecord == [handle : BOOLEAN, waits : SUBSET ScsiTag]
ScsiFileRecord  == [handle : BOOLEAN, open : 0..MaxOpen, resize : BOOLEAN]
ScsiThreadRecord ==
  [at : {"idle", "increment", "wrap", "scan", "claim"}, slot : Entry, tag : ScsiTag \union {"none"}]
EntryRecord ==
  [in_use : BOOLEAN, mp : ScsiMonitor \union {"none"}, guest : 0..MaxScsiResets,
   tag : ScsiTag \union {"none"}]
ScsiTyped ==
  /\ scsiFile \in [ScsiMonitor -> ScsiFileRecord] /\ scsiGuest \in [ScsiMonitor -> ScsiGuestRecord]
  /\ scsiThread \in [ScsiMonitor -> ScsiThreadRecord] /\ ioQueue \in [Entry -> EntryRecord]
  /\ nextEntry \in 0..(QueueSize + 1) /\ scsiWork \subseteq Entry
  /\ scsiResets \in [ScsiMonitor -> 0..MaxScsiResets] /\ scsiAlive \subseteq ScsiMonitor

(* A thread in the middle of a command is of a monitor that lives, and the command is none the
   guest waits for yet. *)
ThreadRight(m) ==
  scsiThread[m].at # "idle" => m \in scsiAlive /\ scsiThread[m].tag \in ScsiTag \ scsiGuest[m].waits

(* An entry is in use exactly while a work item is queued for it, for a guest that came. *)
QueueRight ==
  /\ \A s \in Entry : ioQueue[s].in_use <=> s \in scsiWork
  /\ \A s \in scsiWork : ioQueue[s].mp \in ScsiMonitor /\ ioQueue[s].guest <= scsiResets[ioQueue[s].mp]

Holds(s, m, tag) ==
  s \in scsiWork /\ ioQueue[s].mp = m /\ ioQueue[s].tag = tag /\ ioQueue[s].guest = scsiResets[m]
Spared(m) == Unhurt(m, {"same entry", "beyond the queue"}) /\ m \in scsiAlive
CommandsRight(m) ==
  Spared(m) => \A tag \in ScsiTag :
    /\ tag \in scsiGuest[m].waits <=> \E s \in Entry : Holds(s, m, tag)
    /\ \A s, t \in Entry : Holds(s, m, tag) /\ Holds(t, m, tag) => s = t

FileRight(m) ==
  Unhurt(m, {"not resized", "not reopened"}) =>
    /\ scsiFile[m].handle <=> scsiGuest[m].handle
    /\ scsiFile[m].open = IF scsiFile[m].handle THEN 1 ELSE 0

ScsiInv ==
  /\ ScsiTyped /\ QueueRight
  /\ \A m \in ScsiMonitor : ThreadRight(m) /\ CommandsRight(m) /\ FileRight(m)

LEMMA QueueSizes ==
  /\ QueueSize \in Nat /\ QueueSize > 0 /\ Entry = 0..QueueSize /\ 0 \in Entry
  /\ 0 \in 0..(QueueSize + 1) /\ MaxScsiResets \in Nat /\ 0 \in 0..MaxScsiResets
BY ScsiAssumption DEF Entry

LEMMA ScsiStart == ScsiInit => ScsiInv
<1> SUFFICES ASSUME ScsiInit PROVE ScsiInv
  OBVIOUS
<1>1. ScsiTyped
  <2>1. NewScsiGuest \in ScsiGuestRecord
    BY DEF NewScsiGuest, ScsiGuestRecord
  <2>2. \A m \in ScsiMonitor : NewFile(m) \in ScsiFileRecord
    BY DEF NewFile, ScsiFileRecord, MaxOpen
  <2>3. ScsiIdle \in ScsiThreadRecord
    BY QueueSizes DEF ScsiIdle, ScsiThreadRecord
  <2>4. FreeEntry \in EntryRecord
    BY QueueSizes DEF FreeEntry, EntryRecord
  <2> QED
    BY <2>1, <2>2, <2>3, <2>4, QueueSizes DEF ScsiInit, ScsiTyped
<1>2. QueueRight
  BY DEF ScsiInit, QueueRight, FreeEntry
<1>3. ASSUME NEW m \in ScsiMonitor PROVE ThreadRight(m) /\ CommandsRight(m) /\ FileRight(m)
  <2>1. ThreadRight(m)
    BY DEF ScsiInit, ThreadRight, ScsiIdle
  <2>2. CommandsRight(m)
    BY DEF ScsiInit, CommandsRight, Holds, NewScsiGuest
  <2>3. FileRight(m)
    BY DEF ScsiInit, FileRight, NewFile, NewScsiGuest
  <2> QED
    BY <2>1, <2>2, <2>3
<1> QED
  BY <1>1, <1>2, <1>3 DEF ScsiInv

(* What went wrong with a monitor is not forgotten. *)
LEMMA HurtStays ==
  ASSUME scsiMishaps \subseteq scsiMishaps', NEW m, NEW what, Unhurt(m, what)'
  PROVE  Unhurt(m, what)
BY DEF Unhurt

(* The file and the guest's handle. *)
LEMMA FileStep ==
  ASSUME ScsiInv, NEW m \in ScsiMonitor,
         ScsiOpen(m) \/ ScsiClose(m)
  PROVE  ScsiInv'
<1>1. /\ UNCHANGED <<scsiThread, nextEntry, ioQueue, scsiWork, scsiResets, scsiAlive>>
      /\ scsiMishaps \subseteq scsiMishaps'
      /\ \A n \in ScsiMonitor : \A w \in {"same entry", "beyond the queue"} :
           <<n, w>> \in scsiMishaps' => <<n, w>> \in scsiMishaps
  BY DEF ScsiOpen, ScsiClose
<1>2. scsiFile \in [ScsiMonitor -> ScsiFileRecord] /\ scsiGuest \in [ScsiMonitor -> ScsiGuestRecord]
  BY DEF ScsiInv, ScsiTyped
<1>3. /\ scsiFile[m].open \in 0..2 /\ scsiFile[m].handle \in BOOLEAN /\ scsiFile[m].resize \in BOOLEAN
      /\ scsiGuest[m].waits \subseteq ScsiTag /\ scsiGuest[m].handle \in BOOLEAN
      /\ scsiFile[m] = [handle |-> scsiFile[m].handle, open |-> scsiFile[m].open, resize |-> scsiFile[m].resize]
  BY <1>2 DEF ScsiFileRecord, ScsiGuestRecord, MaxOpen
<1>4. /\ scsiFile' = [scsiFile EXCEPT ![m] = scsiFile'[m]] /\ scsiFile'[m] \in ScsiFileRecord
      /\ scsiGuest' = [scsiGuest EXCEPT ![m] = scsiGuest'[m]] /\ scsiGuest'[m] \in ScsiGuestRecord
      /\ scsiGuest'[m].waits = scsiGuest[m].waits
      /\ FileRight(m)'
  <2>1. CASE ScsiOpen(m)
    <3>1. CASE UNCHANGED <<scsiFile, scsiGuest, scsiMishaps>>
      <4>1. FileRight(m)'
        BY <3>1 DEF ScsiInv, FileRight, Unhurt
      <4> QED
        BY <1>2, <3>1, <4>1
    <3>2. CASE /\ scsiFile[m].open = 0 \/ m \in Shared
               /\ scsiFile[m].open < MaxOpen
               /\ scsiFile' = [scsiFile EXCEPT ![m] = [handle |-> TRUE, open |-> @.open + 1, resize |-> FALSE]]
               /\ scsiGuest' = [scsiGuest EXCEPT ![m].handle = TRUE]
               /\ UNCHANGED scsiMishaps
      <4>1. /\ scsiFile'[m] = [handle |-> TRUE, open |-> scsiFile[m].open + 1, resize |-> FALSE]
            /\ scsiGuest'[m] = [scsiGuest[m] EXCEPT !.handle = TRUE]
        BY <1>2, <3>2
      <4>2. scsiFile[m].open + 1 \in 0..MaxOpen
        BY <1>3, <3>2 DEF MaxOpen
      <4>3. ~scsiGuest[m].handle
        BY <2>1 DEF ScsiOpen
      <4>4. FileRight(m)'
        <5>1. SUFFICES ASSUME Unhurt(m, {"not resized", "not reopened"})'
              PROVE scsiFile'[m].open = 1 /\ scsiFile'[m].handle /\ scsiGuest'[m].handle
          BY DEF FileRight
        <5>2. FileRight(m) /\ Unhurt(m, {"not resized", "not reopened"})
          BY <1>1, <5>1 DEF ScsiInv, Unhurt
        <5>3. scsiFile[m].open = 0
          BY <1>3, <4>3, <5>2 DEF FileRight
        <5> QED
          BY <1>2, <4>1, <5>3 DEF ScsiGuestRecord
      <4> QED
        BY <1>2, <1>3, <3>2, <4>1, <4>2, <4>4 DEF ScsiFileRecord, ScsiGuestRecord
    <3>3. CASE /\ scsiFile[m].open < MaxOpen
               /\ scsiFile' = [scsiFile EXCEPT ![m].handle = TRUE, ![m].open = @ + 1]
               /\ scsiMishaps' = scsiMishaps \union {<<m, "not resized">>}
               /\ UNCHANGED scsiGuest
      <4>1. scsiFile'[m] = [scsiFile[m] EXCEPT !.handle = TRUE, !.open = @ + 1]
        BY <1>2, <3>3
      <4>0. scsiFile[m].open < 2
        BY <3>3 DEF MaxOpen
      <4>2. scsiFile[m].open + 1 \in 0..MaxOpen
        BY <1>3, <4>0 DEF MaxOpen
      <4>3. FileRight(m)'
        BY <3>3 DEF FileRight, Unhurt
      <4> QED
        BY <1>2, <1>3, <3>3, <4>1, <4>2, <4>3 DEF ScsiFileRecord
    <3>4. CASE /\ scsiFile' = [scsiFile EXCEPT ![m].handle = TRUE, ![m].resize = FALSE]
               /\ scsiMishaps' = scsiMishaps \union {<<m, "not reopened">>}
               /\ UNCHANGED scsiGuest
      <4>1. scsiFile'[m] = [scsiFile[m] EXCEPT !.handle = TRUE, !.resize = FALSE]
        BY <1>2, <3>4
      <4>3. FileRight(m)'
        BY <3>4 DEF FileRight, Unhurt
      <4> QED
        BY <1>2, <1>3, <3>4, <4>1, <4>3 DEF ScsiFileRecord
    <3> QED
      BY <2>1, <3>1, <3>2, <3>3, <3>4 DEF ScsiOpen
  <2>2. CASE ScsiClose(m)
    <3>1. /\ scsiGuest[m].handle /\ scsiMishaps' = scsiMishaps
          /\ scsiFile' = [scsiFile EXCEPT ![m] = scsi_file_close(scsiFile[m])]
          /\ scsiGuest' = [scsiGuest EXCEPT ![m].handle = FALSE]
      BY <2>2 DEF ScsiClose
    <3>2. /\ scsiFile'[m] = scsi_file_close(scsiFile[m])
          /\ scsiGuest'[m] = [scsiGuest[m] EXCEPT !.handle = FALSE]
      BY <1>2, <3>1
    <3>3. scsi_file_close(scsiFile[m]) \in ScsiFileRecord
      <4> DEFINE f == scsiFile[m]
      <4>1. f \in ScsiFileRecord
        BY <1>2
      <4>2. f.open > 0 => f.open - 1 \in 0..MaxOpen
        BY <1>3 DEF MaxOpen
      <4> HIDE DEF f
      <4>3. ASSUME NEW o \in 0..MaxOpen PROVE [f EXCEPT !.handle = FALSE, !.open = o] \in ScsiFileRecord
        BY <4>1 DEF ScsiFileRecord
      <4>5. CASE f.handle /\ f.open > 0
        <5>1. scsi_file_close(f) = [f EXCEPT !.handle = FALSE, !.open = f.open - 1]
          BY <4>5 DEF scsi_file_close
        <5> QED
          BY <4>2, <4>3, <4>5, <5>1 DEF f
      <4>6. CASE ~(f.handle /\ f.open > 0)
        BY <4>1, <4>6 DEF scsi_file_close, f
      <4> QED
        BY <4>5, <4>6
    <3>4. FileRight(m)'
      <4>1. SUFFICES ASSUME Unhurt(m, {"not resized", "not reopened"})'
            PROVE scsiFile'[m].open = 0 /\ ~scsiFile'[m].handle /\ ~scsiGuest'[m].handle
        BY DEF FileRight
      <4>2. FileRight(m) /\ Unhurt(m, {"not resized", "not reopened"})
        BY <3>1, <4>1 DEF ScsiInv, Unhurt
      <4>3. scsiFile[m].open = 1 /\ scsiFile[m].handle
        BY <3>1, <4>2 DEF FileRight
      <4> QED
        BY <1>2, <1>3, <3>2, <4>3 DEF scsi_file_close, ScsiGuestRecord, ScsiFileRecord
    <3> QED
      BY <1>2, <1>3, <3>1, <3>2, <3>3, <3>4 DEF ScsiGuestRecord
  <2> QED
    BY <2>1, <2>2
<1>5. ScsiTyped'
  <2>1. scsiFile' \in [ScsiMonitor -> ScsiFileRecord] /\ scsiGuest' \in [ScsiMonitor -> ScsiGuestRecord]
    BY <1>2, <1>4
  <2> QED
    BY <1>1, <2>1 DEF ScsiInv, ScsiTyped
<1>6. QueueRight'
  BY <1>1 DEF ScsiInv, QueueRight
<1>7. ASSUME NEW n \in ScsiMonitor PROVE ThreadRight(n)' /\ CommandsRight(n)' /\ FileRight(n)'
  <2>1. scsiGuest'[n].waits = scsiGuest[n].waits
    BY <1>2, <1>4
  <2>2. ThreadRight(n) /\ CommandsRight(n) /\ FileRight(n)
    BY DEF ScsiInv
  <2>3. ThreadRight(n)'
    BY <1>1, <2>1, <2>2 DEF ThreadRight
  <2>4. CommandsRight(n)'
    <3>1. Spared(n)' => Spared(n)
      BY <1>1 DEF Spared, Unhurt
    <3>2. \A s, tag : Holds(s, n, tag)' <=> Holds(s, n, tag)
      BY <1>1 DEF Holds
    <3> QED
      BY <2>1, <2>2, <3>1, <3>2 DEF CommandsRight
  <2>5. FileRight(n)'
    <3>1. CASE n = m
      BY <1>4, <3>1
    <3>2. CASE n # m
      <4>1. scsiFile'[n] = scsiFile[n] /\ scsiGuest'[n] = scsiGuest[n]
        BY <1>2, <1>4, <3>2
      <4> QED
        BY <1>1, <2>2, <4>1 DEF FileRight, Unhurt
    <3> QED
      BY <3>1, <3>2
  <2> QED
    BY <2>3, <2>4, <2>5
<1> QED
  BY <1>5, <1>6, <1>7 DEF ScsiInv

(* The thread's own steps on the way to its entry. *)
LEMMA ThreadStep ==
  ASSUME ScsiInv, NEW m \in ScsiMonitor,
         (\E tag \in ScsiTag : ScsiIO(m, tag)) \/ Increment(m) \/ Wrap(m) \/ Scan(m)
  PROVE  ScsiInv'
<1>0. ScsiTyped
  BY DEF ScsiInv
<1>1. /\ UNCHANGED <<scsiFile, scsiGuest, ioQueue, scsiWork, scsiResets, scsiAlive>>
      /\ scsiMishaps \subseteq scsiMishaps'
      /\ \A n \in ScsiMonitor : \A w \in {"not resized", "not reopened"} :
           <<n, w>> \in scsiMishaps' => <<n, w>> \in scsiMishaps
  BY DEF ScsiIO, Increment, Wrap, Scan
<1>2. /\ scsiThread \in [ScsiMonitor -> ScsiThreadRecord] /\ scsiThread[m] \in ScsiThreadRecord
      /\ nextEntry \in 0..(QueueSize + 1)
  BY <1>0 DEF ScsiTyped
<1>3. /\ scsiThread' = [scsiThread EXCEPT ![m] = scsiThread'[m]]
      /\ scsiThread'[m] \in ScsiThreadRecord /\ nextEntry' \in 0..(QueueSize + 1)
      /\ ThreadRight(m)'
  <2>0. ThreadRight(m)
    BY DEF ScsiInv
  <2>1. ASSUME NEW tag \in ScsiTag, ScsiIO(m, tag)
        PROVE  /\ scsiThread' = [scsiThread EXCEPT ![m] = scsiThread'[m]]
               /\ scsiThread'[m] \in ScsiThreadRecord /\ nextEntry' \in 0..(QueueSize + 1)
               /\ ThreadRight(m)'
    <3>1. /\ scsiThread'[m] = [at |-> "increment", slot |-> nextEntry, tag |-> tag]
          /\ nextEntry \in Entry /\ nextEntry' = nextEntry
          /\ scsiThread' = [scsiThread EXCEPT ![m] = scsiThread'[m]]
      BY <1>2, <2>1 DEF ScsiIO
    <3>2. m \in scsiAlive /\ tag \notin scsiGuest[m].waits
      BY <2>1 DEF ScsiIO, Running
    <3>3. scsiThread'[m] \in ScsiThreadRecord
      BY <3>1 DEF ScsiThreadRecord
    <3>4. scsiThread'[m].tag = tag /\ scsiGuest' = scsiGuest /\ scsiAlive' = scsiAlive
      <4>1. scsiThread'[m] = [at |-> "increment", slot |-> nextEntry, tag |-> tag]
        BY <3>1
      <4>2. scsiGuest' = scsiGuest /\ scsiAlive' = scsiAlive
        BY <1>1
      <4> QED
        BY <4>1, <4>2
    <3>5. ThreadRight(m)'
      BY <3>2, <3>4 DEF ThreadRight
    <3> QED
      BY <1>2, <3>1, <3>3, <3>5
  <2>2. CASE Increment(m)
    <3>1. /\ scsiThread'[m] = [scsiThread[m] EXCEPT !.at = "wrap"] /\ scsiThread[m].at = "increment"
          /\ nextEntry' = scsiThread[m].slot + 1
          /\ scsiThread' = [scsiThread EXCEPT ![m] = scsiThread'[m]]
      BY <1>2, <2>2 DEF Increment
    <3>2. scsiThread[m].slot \in 0..QueueSize
      BY <1>2, QueueSizes DEF ScsiThreadRecord
    <3>3. scsiThread[m].slot + 1 \in 0..(QueueSize + 1)
      BY <3>2, QueueSizes
    <3>4. scsiThread'[m] \in ScsiThreadRecord /\ ThreadRight(m)'
      BY <1>1, <1>2, <2>0, <3>1 DEF ScsiThreadRecord, ThreadRight
    <3> QED
      BY <3>1, <3>3, <3>4
  <2>3. CASE Wrap(m)
    <3>1. PICK there \in {"scan", "claim"} :
            /\ scsiThread'[m] = [scsiThread[m] EXCEPT !.at = there] /\ scsiThread[m].at = "wrap"
            /\ scsiThread' = [scsiThread EXCEPT ![m] = scsiThread'[m]]
      BY <1>2, <2>3 DEF Wrap
    <3>2. nextEntry' = nextEntry \/ nextEntry' = 0
      BY <2>3 DEF Wrap
    <3>3. scsiThread'[m] \in ScsiThreadRecord /\ ThreadRight(m)'
      BY <1>1, <1>2, <2>0, <3>1 DEF ScsiThreadRecord, ThreadRight
    <3> QED
      BY <1>2, <3>1, <3>2, <3>3, QueueSizes
  <2>4. CASE Scan(m)
    <3>1. /\ scsiThread'[m] = [scsiThread[m] EXCEPT !.at = "claim", !.slot = Min(Scannable)]
          /\ scsiThread[m].at = "scan" /\ nextEntry' = nextEntry /\ Scannable # {}
          /\ scsiThread' = [scsiThread EXCEPT ![m] = scsiThread'[m]]
      BY <1>2, <2>4 DEF Scan
    <3>2. Scannable \subseteq Nat /\ Scannable \subseteq Entry
      BY QueueSizes DEF Scannable
    <3>3. Min(Scannable) \in Entry
      BY <3>1, <3>2, MinIs
    <3>4. scsiThread'[m] \in ScsiThreadRecord /\ ThreadRight(m)'
      BY <1>1, <1>2, <2>0, <3>1, <3>3 DEF ScsiThreadRecord, ThreadRight
    <3> QED
      BY <1>2, <3>1, <3>4
  <2> QED
    BY <2>1, <2>2, <2>3, <2>4
<1>4. ScsiTyped'
  <2>1. scsiThread' \in [ScsiMonitor -> ScsiThreadRecord]
    BY <1>2, <1>3
  <2> QED
    BY <1>0, <1>1, <1>3, <2>1 DEF ScsiTyped
<1>5. QueueRight'
  BY <1>1 DEF ScsiInv, QueueRight
<1>6. ASSUME NEW n \in ScsiMonitor PROVE ThreadRight(n)' /\ CommandsRight(n)' /\ FileRight(n)'
  <2>1. ThreadRight(n) /\ CommandsRight(n) /\ FileRight(n)
    BY DEF ScsiInv
  <2>2. ThreadRight(n)'
    <3>1. CASE n = m
      BY <1>3, <3>1
    <3>2. CASE n # m
      <4>1. scsiThread'[n] = scsiThread[n]
        BY <1>2, <1>3, <3>2
      <4> QED
        BY <1>1, <2>1, <4>1 DEF ThreadRight
    <3> QED
      BY <3>1, <3>2
  <2>3. CommandsRight(n)'
    <3>1. Spared(n)' => Spared(n)
      BY <1>1 DEF Spared, Unhurt
    <3>2. \A s, tag : Holds(s, n, tag)' <=> Holds(s, n, tag)
      BY <1>1 DEF Holds
    <3> QED
      BY <1>1, <2>1, <3>1, <3>2 DEF CommandsRight
  <2>4. FileRight(n)'
    BY <1>1, <2>1 DEF FileRight, Unhurt
  <2> QED
    BY <2>2, <2>3, <2>4
<1> QED
  BY <1>4, <1>5, <1>6 DEF ScsiInv

(* An accepted command takes its entry: another command's only if both are hurt. *)
LEMMA ClaimStep ==
  ASSUME ScsiInv, NEW m \in ScsiMonitor, ClaimAndQueue(m) PROVE ScsiInv'
<1>a. PICK s, tag : s = scsiThread[m].slot /\ tag = scsiThread[m].tag
  OBVIOUS
<1> DEFINE entry == [in_use |-> TRUE, mp |-> m, guest |-> scsiResets[m], tag |-> tag]
<1>0. ScsiTyped /\ QueueRight /\ ThreadRight(m)
  BY DEF ScsiInv
<1>1. /\ scsiThread[m].at = "claim"
      /\ ioQueue' = [ioQueue EXCEPT ![s] = entry] /\ scsiWork' = scsiWork \union {s}
      /\ scsiGuest' = [scsiGuest EXCEPT ![m].waits = @ \union {tag}]
      /\ scsiThread' = [scsiThread EXCEPT ![m] = ScsiIdle]
      /\ UNCHANGED <<scsiFile, nextEntry, scsiResets, scsiAlive>>
  BY <1>a DEF ClaimAndQueue
<1>2. /\ s \in Entry /\ tag \in ScsiTag /\ tag \notin scsiGuest[m].waits /\ m \in scsiAlive
      /\ scsiResets[m] \in 0..MaxScsiResets
  BY <1>0, <1>1, <1>a DEF ScsiTyped, ScsiThreadRecord, ThreadRight
<1>3. /\ scsiMishaps \subseteq scsiMishaps'
      /\ ioQueue[s].in_use => <<m, "same entry">> \in scsiMishaps' /\ <<ioQueue[s].mp, "same entry">> \in scsiMishaps'
      /\ \A n \in ScsiMonitor : \A w \in {"not resized", "not reopened"} :
           <<n, w>> \in scsiMishaps' => <<n, w>> \in scsiMishaps
  BY <1>a DEF ClaimAndQueue
<1> HIDE DEF entry
<1>4. /\ ioQueue'[s] = entry /\ \A t \in Entry : t # s => ioQueue'[t] = ioQueue[t]
      /\ scsiGuest'[m] = [scsiGuest[m] EXCEPT !.waits = @ \union {tag}]
      /\ \A n \in ScsiMonitor : n # m => scsiGuest'[n] = scsiGuest[n] /\ scsiThread'[n] = scsiThread[n]
      /\ scsiThread'[m] = ScsiIdle
  BY <1>0, <1>1, <1>2 DEF ScsiTyped
<1>5. /\ scsiGuest[m] \in ScsiGuestRecord /\ scsiGuest'[m] \in ScsiGuestRecord
      /\ scsiGuest'[m].waits = scsiGuest[m].waits \union {tag}
      /\ scsiGuest'[m].handle = scsiGuest[m].handle
  <2>1. scsiGuest[m] \in ScsiGuestRecord
    BY <1>0 DEF ScsiTyped
  <2> QED
    BY <2>1, <1>2, <1>4 DEF ScsiGuestRecord
<1>6. entry \in EntryRecord /\ entry.in_use /\ entry.mp = m /\ entry.tag = tag /\ entry.guest = scsiResets[m]
  BY <1>2 DEF entry, EntryRecord
<1>7. ScsiTyped'
  <2>1. ioQueue' \in [Entry -> EntryRecord]
    BY <1>0, <1>1, <1>2, <1>6 DEF ScsiTyped
  <2>2. scsiGuest' \in [ScsiMonitor -> ScsiGuestRecord]
    <3>1. scsiGuest' = [scsiGuest EXCEPT ![m] = [scsiGuest[m] EXCEPT !.waits = @ \union {tag}]]
      BY <1>1
    <3>2. [scsiGuest[m] EXCEPT !.waits = @ \union {tag}] \in ScsiGuestRecord
      BY <1>4, <1>5
    <3> QED
      BY <1>0, <3>1, <3>2 DEF ScsiTyped
  <2>3. scsiThread' \in [ScsiMonitor -> ScsiThreadRecord]
    <3>1. ScsiIdle \in ScsiThreadRecord
      BY QueueSizes DEF ScsiIdle, ScsiThreadRecord
    <3> QED
      BY <1>0, <1>1, <3>1 DEF ScsiTyped
  <2>4. scsiWork' \subseteq Entry
    BY <1>0, <1>1, <1>2 DEF ScsiTyped
  <2> QED
    BY <1>0, <1>1, <2>1, <2>2, <2>3, <2>4 DEF ScsiTyped
<1>8. QueueRight'
  <2>1. ASSUME NEW t \in Entry PROVE (ioQueue[t].in_use)' <=> t \in scsiWork'
    BY <1>0, <1>1, <1>4, <1>6 DEF QueueRight
  <2>2. ASSUME NEW t \in scsiWork' PROVE ioQueue'[t].mp \in ScsiMonitor /\ ioQueue'[t].guest <= scsiResets'[ioQueue'[t].mp]
    <3>1. CASE t = s
      BY <1>1, <1>2, <1>4, <1>6, <3>1, QueueSizes
    <3>2. CASE t # s
      <4>1. t \in scsiWork /\ t \in Entry
        BY <1>0, <1>1, <2>2, <3>2 DEF ScsiTyped
      <4> QED
        BY <1>0, <1>1, <1>4, <3>2, <4>1 DEF QueueRight
    <3> QED
      BY <3>1, <3>2
  <2> QED
    BY <2>1, <2>2 DEF QueueRight
<1>9. ASSUME NEW n \in ScsiMonitor PROVE ThreadRight(n)' /\ CommandsRight(n)' /\ FileRight(n)'
  <2>0. ThreadRight(n) /\ CommandsRight(n) /\ FileRight(n)
    BY DEF ScsiInv
  <2>1. ThreadRight(n)'
    <3>1. CASE n = m
      BY <1>4, <3>1 DEF ThreadRight, ScsiIdle
    <3>2. CASE n # m
      BY <1>1, <1>4, <2>0, <3>2 DEF ThreadRight
    <3> QED
      BY <3>1, <3>2
  <2>2. FileRight(n)'
    <3>1. scsiGuest'[n].handle = scsiGuest[n].handle
      BY <1>4, <1>5
    <3> QED
      BY <1>1, <1>3, <2>0, <3>1 DEF FileRight, Unhurt
  <2>3. CommandsRight(n)'
    <3> SUFFICES ASSUME Spared(n)', NEW a \in ScsiTag
        PROVE  /\ a \in scsiGuest'[n].waits <=> \E t \in Entry : Holds(t, n, a)'
               /\ \A t, u \in Entry : Holds(t, n, a)' /\ Holds(u, n, a)' => t = u
      BY DEF CommandsRight
    <3>1. Spared(n) /\ <<n, "same entry">> \notin scsiMishaps'
      BY <1>1, <1>3 DEF Spared, Unhurt
    <3>2. /\ a \in scsiGuest[n].waits <=> \E t \in Entry : Holds(t, n, a)
          /\ \A t, u \in Entry : Holds(t, n, a) /\ Holds(u, n, a) => t = u
      BY <2>0, <3>1 DEF CommandsRight
    <3>3. ~Holds(s, n, a)
      BY <1>0, <1>2, <1>3, <3>1 DEF Holds, QueueRight
    <3>4. ASSUME NEW t \in Entry PROVE Holds(t, n, a)' <=> Holds(t, n, a) \/ (t = s /\ n = m /\ a = tag)
      <4>1. CASE t = s
        <5>1. s \in scsiWork' /\ ioQueue'[s].mp = m /\ ioQueue'[s].tag = tag /\ ioQueue'[s].guest = scsiResets'[m]
          BY <1>1, <1>4, <1>6
        <5>2. Holds(s, n, a)' <=> n = m /\ a = tag
          BY <5>1 DEF Holds
        <5> QED
          BY <3>3, <4>1, <5>2
      <4>2. CASE t # s
        BY <1>1, <1>4, <4>2 DEF Holds
      <4> QED
        BY <4>1, <4>2
    <3>5. CASE n = m /\ a = tag
      <4>1. \A t \in Entry : ~Holds(t, n, a)
        BY <1>2, <3>2, <3>5
      <4>2. a \in scsiGuest'[n].waits
        BY <1>5, <3>5
      <4> QED
        BY <1>2, <3>4, <3>5, <4>1, <4>2
    <3>6. CASE ~(n = m /\ a = tag)
      <4>1. a \in scsiGuest'[n].waits <=> a \in scsiGuest[n].waits
        BY <1>4, <1>5, <3>6
      <4> QED
        BY <3>2, <3>4, <3>6, <4>1
    <3> QED
      BY <3>5, <3>6
  <2> QED
    BY <2>1, <2>2, <2>3
<1> QED
  BY <1>7, <1>8, <1>9 DEF ScsiInv

(* The worker thread answers the one command its entry is for. *)
LEMMA WorkStep ==
  ASSUME ScsiInv, NEW s \in Entry, WorkDone(s) PROVE ScsiInv'
<1> DEFINE m == ioQueue[s].mp
           tag == ioQueue[s].tag
           answered == ioQueue[s].guest = scsiResets[m]
<1>0. ScsiTyped /\ QueueRight
  BY DEF ScsiInv
<1>1. /\ s \in scsiWork /\ scsiWork' = scsiWork \ {s}
      /\ ioQueue' = [ioQueue EXCEPT ![s] = FreeEntry]
      /\ scsiGuest' = IF m \in ScsiMonitor /\ answered
                      THEN [scsiGuest EXCEPT ![m].waits = @ \ {tag}] ELSE scsiGuest
      /\ UNCHANGED <<scsiFile, scsiThread, nextEntry, scsiResets, scsiAlive>>
  BY DEF WorkDone
<1>2. m \in ScsiMonitor
  BY <1>0, <1>1 DEF QueueRight
<1>3. /\ scsiMishaps \subseteq scsiMishaps'
      /\ \A n \in ScsiMonitor : \A w \in {"not resized", "not reopened"} :
           <<n, w>> \in scsiMishaps' => <<n, w>> \in scsiMishaps
  BY DEF WorkDone
<1> HIDE DEF m, tag, answered
<1>4. /\ ioQueue'[s] = FreeEntry /\ \A t \in Entry : t # s => ioQueue'[t] = ioQueue[t]
      /\ scsiGuest' = [scsiGuest EXCEPT ![m] = scsiGuest'[m]]
      /\ scsiGuest'[m] = IF answered THEN [scsiGuest[m] EXCEPT !.waits = @ \ {tag}] ELSE scsiGuest[m]
  BY <1>0, <1>1, <1>2 DEF ScsiTyped
<1>5. /\ scsiGuest[m] \in ScsiGuestRecord /\ scsiGuest'[m] \in ScsiGuestRecord
      /\ scsiGuest'[m].waits = (IF answered THEN scsiGuest[m].waits \ {tag} ELSE scsiGuest[m].waits)
      /\ scsiGuest'[m].handle = scsiGuest[m].handle
  <2>1. scsiGuest[m] \in ScsiGuestRecord
    BY <1>0, <1>2 DEF ScsiTyped
  <2>2. scsiGuest'[m] = IF answered THEN [scsiGuest[m] EXCEPT !.waits = @ \ {tag}] ELSE scsiGuest[m]
    BY <1>4
  <2> QED
    BY <2>1, <2>2 DEF ScsiGuestRecord
<1>6. scsiGuest' \in [ScsiMonitor -> ScsiGuestRecord] /\ \A n \in ScsiMonitor : n # m => scsiGuest'[n] = scsiGuest[n]
  BY <1>0, <1>2, <1>4, <1>5 DEF ScsiTyped
<1>7. ScsiTyped'
  <2>1. FreeEntry \in EntryRecord
    BY QueueSizes DEF FreeEntry, EntryRecord
  <2>2. ioQueue' \in [Entry -> EntryRecord] /\ scsiWork' \subseteq Entry
    BY <1>0, <1>1, <2>1 DEF ScsiTyped
  <2> QED
    BY <1>0, <1>1, <1>6, <2>2 DEF ScsiTyped
<1>8. QueueRight'
  <2>1. ASSUME NEW t \in Entry PROVE (ioQueue[t].in_use)' <=> t \in scsiWork'
    BY <1>0, <1>1, <1>4 DEF QueueRight, FreeEntry
  <2>2. ASSUME NEW t \in scsiWork' PROVE ioQueue'[t].mp \in ScsiMonitor /\ ioQueue'[t].guest <= scsiResets'[ioQueue'[t].mp]
    <3>1. t # s /\ t \in scsiWork /\ t \in Entry
      BY <1>0, <1>1, <2>2 DEF ScsiTyped
    <3> QED
      BY <1>0, <1>1, <1>4, <3>1 DEF QueueRight
  <2> QED
    BY <2>1, <2>2 DEF QueueRight
<1>9. ASSUME NEW n \in ScsiMonitor PROVE ThreadRight(n)' /\ CommandsRight(n)' /\ FileRight(n)'
  <2>0. ThreadRight(n) /\ CommandsRight(n) /\ FileRight(n)
    BY DEF ScsiInv
  <2>1. ThreadRight(n)'
    <3>1. scsiGuest'[n].waits \subseteq scsiGuest[n].waits
      BY <1>5, <1>6
    <3> QED
      BY <1>1, <2>0, <3>1 DEF ThreadRight
  <2>2. FileRight(n)'
    <3>1. scsiGuest'[n].handle = scsiGuest[n].handle
      BY <1>5, <1>6
    <3> QED
      BY <1>1, <1>3, <2>0, <3>1 DEF FileRight, Unhurt
  <2>3. CommandsRight(n)'
    <3> SUFFICES ASSUME Spared(n)', NEW a \in ScsiTag
        PROVE  /\ a \in scsiGuest'[n].waits <=> \E t \in Entry : Holds(t, n, a)'
               /\ \A t, u \in Entry : Holds(t, n, a)' /\ Holds(u, n, a)' => t = u
      BY DEF CommandsRight
    <3>1. Spared(n)
      BY <1>1, <1>3 DEF Spared, Unhurt
    <3>2. /\ a \in scsiGuest[n].waits <=> \E t \in Entry : Holds(t, n, a)
          /\ \A t, u \in Entry : Holds(t, n, a) /\ Holds(u, n, a) => t = u
      BY <2>0, <3>1 DEF CommandsRight
    <3>3. Holds(s, n, a) <=> n = m /\ a = tag /\ answered
      BY <1>1 DEF Holds, m, tag, answered
    <3>4. ASSUME NEW t \in Entry PROVE Holds(t, n, a)' <=> Holds(t, n, a) /\ t # s
      <4>1. CASE t = s
        BY <1>1, <4>1 DEF Holds
      <4>2. CASE t # s
        BY <1>1, <1>4, <4>2 DEF Holds
      <4> QED
        BY <4>1, <4>2
    <3>5. CASE Holds(s, n, a)
      <4>1. a \notin scsiGuest'[n].waits
        BY <1>5, <3>3, <3>5
      <4> QED
        BY <3>2, <3>4, <3>5, <4>1
    <3>6. CASE ~Holds(s, n, a)
      <4>1. a \in scsiGuest'[n].waits <=> a \in scsiGuest[n].waits
        BY <1>5, <1>6, <3>3, <3>6
      <4>2. \A t \in Entry : Holds(t, n, a)' <=> Holds(t, n, a)
        BY <3>4, <3>6
      <4> QED
        BY <3>2, <4>1, <4>2
    <3> QED
      BY <3>5, <3>6
  <2> QED
    BY <2>1, <2>2, <2>3
<1> QED
  BY <1>7, <1>8, <1>9 DEF ScsiInv

\* Closing the one open handle of a unit leaves none open.
LEMMA LastClosed == \A o : o = 1 => (o > 0 /\ o - 1 = 0)
  OBVIOUS

(* The next guest, or none: what is still in the queue is not its own. *)
LEMMA AnewStep ==
  ASSUME ScsiInv, NEW m \in ScsiMonitor, ScsiReset(m) \/ ScsiDestroy(m) PROVE ScsiInv'
<1>0. ScsiTyped /\ QueueRight
  BY DEF ScsiInv
<1>1. /\ m \in scsiAlive /\ scsiThread[m].at = "idle"
      /\ scsiFile' = [scsiFile EXCEPT ![m] = Unregistered(m)]
      /\ scsiGuest' = [scsiGuest EXCEPT ![m] = NewScsiGuest]
      /\ UNCHANGED <<scsiThread, nextEntry, ioQueue, scsiWork, scsiMishaps>>
  BY DEF ScsiReset, ScsiDestroy, Running
<1>2. \/ /\ scsiResets[m] < MaxScsiResets /\ scsiAlive' = scsiAlive
         /\ scsiResets' = [scsiResets EXCEPT ![m] = @ + 1]
      \/ scsiAlive' = scsiAlive \ {m} /\ scsiResets' = scsiResets
  BY DEF ScsiReset, ScsiDestroy
<1>3. /\ scsiGuest'[m] = NewScsiGuest /\ scsiFile'[m] = Unregistered(m)
      /\ \A n \in ScsiMonitor : n # m => scsiGuest'[n] = scsiGuest[n] /\ scsiFile'[n] = scsiFile[n]
  BY <1>0, <1>1 DEF ScsiTyped
<1>4. /\ scsiResets' \in [ScsiMonitor -> 0..MaxScsiResets]
      /\ \A n \in ScsiMonitor : n # m => scsiResets'[n] = scsiResets[n]
      /\ scsiResets'[m] = scsiResets[m] \/ scsiResets'[m] = scsiResets[m] + 1
      /\ m \in scsiAlive' => scsiResets'[m] = scsiResets[m] + 1
      /\ scsiAlive' \subseteq scsiAlive /\ \A n \in scsiAlive : n # m => n \in scsiAlive'
  <2>1. scsiResets \in [ScsiMonitor -> 0..MaxScsiResets]
    BY <1>0 DEF ScsiTyped
  <2>2. scsiResets[m] < MaxScsiResets => scsiResets[m] + 1 \in 0..MaxScsiResets
    BY <2>1, QueueSizes
  <2>3. CASE /\ scsiResets[m] < MaxScsiResets /\ scsiAlive' = scsiAlive
             /\ scsiResets' = [scsiResets EXCEPT ![m] = @ + 1]
    BY <2>1, <2>2, <2>3
  <2>4. CASE scsiAlive' = scsiAlive \ {m} /\ scsiResets' = scsiResets
    BY <2>1, <2>4
  <2> QED
    BY <1>2, <2>3, <2>4
<1>5. /\ Unregistered(m) \in ScsiFileRecord /\ ~Unregistered(m).handle
      /\ Unregistered(m).open =
           IF scsiFile[m].handle /\ scsiFile[m].open > 0 THEN scsiFile[m].open - 1 ELSE scsiFile[m].open
  <2>1. scsiFile[m] \in ScsiFileRecord
    BY <1>0 DEF ScsiTyped
  <2>2. /\ scsiFile[m].open \in 0..2 /\ scsiFile[m].resize \in BOOLEAN
        /\ scsiFile[m].open > 0 => scsiFile[m].open - 1 \in 0..2
    BY <2>1 DEF ScsiFileRecord, MaxOpen
  <2>3. scsi_file_close(scsiFile[m]).open =
          IF scsiFile[m].handle /\ scsiFile[m].open > 0 THEN scsiFile[m].open - 1 ELSE scsiFile[m].open
    BY <2>1 DEF scsi_file_close, ScsiFileRecord
  <2> DEFINE open == scsi_file_close(scsiFile[m]).open
  <2>4. open \in 0..2
    BY <2>2, <2>3
  <2> HIDE DEF open
  <2>5. Unregistered(m) = [handle |-> FALSE, open |-> open, resize |-> scsiFile[m].resize]
    <3>1. Unregistered(m) = [NewFile(m) EXCEPT !.open = open, !.resize = scsiFile[m].resize]
      BY DEF Unregistered, open
    <3> QED
      BY <3>1 DEF NewFile
  <2> QED
    BY <2>2, <2>3, <2>4, <2>5 DEF ScsiFileRecord, MaxOpen, open
<1>6. ScsiTyped'
  <2>1. NewScsiGuest \in ScsiGuestRecord
    BY DEF NewScsiGuest, ScsiGuestRecord
  <2>2. scsiFile' \in [ScsiMonitor -> ScsiFileRecord] /\ scsiGuest' \in [ScsiMonitor -> ScsiGuestRecord]
    BY <1>0, <1>1, <1>5, <2>1 DEF ScsiTyped
  <2> QED
    BY <1>0, <1>1, <1>4, <2>2 DEF ScsiTyped
<1>7. \A n \in ScsiMonitor : scsiResets[n] \in Nat /\ scsiResets'[n] \in Nat /\ scsiResets[n] <= scsiResets'[n]
  <2>1. \A n \in ScsiMonitor : scsiResets[n] \in Nat
    BY <1>0 DEF ScsiTyped
  <2> QED
    BY <2>1, <1>4
<1>8. QueueRight'
  <2>1. ASSUME NEW t \in scsiWork' PROVE ioQueue'[t].mp \in ScsiMonitor /\ ioQueue'[t].guest <= scsiResets'[ioQueue'[t].mp]
    <3>1. t \in scsiWork /\ t \in Entry /\ ioQueue'[t] = ioQueue[t]
      BY <1>0, <1>1, <2>1 DEF ScsiTyped
    <3>2. ioQueue[t].mp \in ScsiMonitor /\ ioQueue[t].guest <= scsiResets[ioQueue[t].mp] /\ ioQueue[t].guest \in Nat
      BY <1>0, <3>1 DEF QueueRight, ScsiTyped, EntryRecord
    <3> QED
      BY <1>7, <3>1, <3>2
  <2>2. \A t \in Entry : (ioQueue[t].in_use)' <=> t \in scsiWork'
    BY <1>0, <1>1 DEF QueueRight
  <2> QED
    BY <2>1, <2>2 DEF QueueRight
<1>9. ASSUME NEW n \in ScsiMonitor PROVE ThreadRight(n)' /\ CommandsRight(n)' /\ FileRight(n)'
  <2>0. ThreadRight(n) /\ CommandsRight(n) /\ FileRight(n)
    BY DEF ScsiInv
  <2>1. CASE n = m
    <3>0. /\ ~scsiFile'[m].handle /\ ~scsiGuest'[m].handle /\ scsiGuest'[m].waits = {}
          /\ scsiFile'[m].open =
               IF scsiFile[m].handle /\ scsiFile[m].open > 0 THEN scsiFile[m].open - 1 ELSE scsiFile[m].open
      <4>1. scsiFile'[m] = Unregistered(m) /\ scsiGuest'[m] = NewScsiGuest
        BY <1>3
      <4> QED
        BY <1>5, <4>1 DEF NewScsiGuest
    <3>1. ThreadRight(n)'
      BY <1>1, <2>1 DEF ThreadRight
    <3>2. FileRight(n)'
      <4>0. ~scsiFile'[m].handle /\ ~scsiGuest'[m].handle
        BY <3>0
      <4> SUFFICES ASSUME Unhurt(m, {"not resized", "not reopened"})' PROVE scsiFile'[m].open = 0
        BY <2>1, <4>0 DEF FileRight
      <4>1. Unhurt(m, {"not resized", "not reopened"})
        BY <1>1 DEF Unhurt
      <4>2. scsiFile[m].open = IF scsiFile[m].handle THEN 1 ELSE 0
        BY <2>0, <2>1, <4>1 DEF FileRight
      <4>3. scsiFile'[m].open = IF scsiFile[m].handle /\ scsiFile[m].open > 0 THEN scsiFile[m].open - 1 ELSE scsiFile[m].open
        BY <3>0
      <4>4. CASE scsiFile[m].handle
        <5>1. scsiFile[m].open = 1
          BY <4>2, <4>4
        <5>2. \A o : o = 1 => (o > 0 /\ o - 1 = 0)
          BY LastClosed
        <5>3. scsiFile'[m].open = scsiFile[m].open - 1
          BY <4>3, <4>4, <5>1, <5>2
        <5> QED
          BY <5>1, <5>2, <5>3
      <4>5. CASE ~scsiFile[m].handle
        BY <4>2, <4>3, <4>5
      <4> QED
        BY <4>4, <4>5
    <3>3. CommandsRight(n)'
      <4>0. scsiGuest'[m].waits = {}
        BY <3>0
      <4> SUFFICES ASSUME m \in scsiAlive', NEW a \in ScsiTag, NEW t \in Entry, Holds(t, m, a)' PROVE FALSE
        BY <2>1, <4>0 DEF CommandsRight, Spared
      <4>1. t \in scsiWork /\ ioQueue[t].mp = m /\ ioQueue[t].guest = scsiResets[m] + 1
        BY <1>1, <1>4 DEF Holds
      <4>2. ioQueue[t].guest <= scsiResets[m]
        BY <1>0, <4>1 DEF QueueRight
      <4>3. scsiResets[m] \in Nat
        BY <1>7
      <4> QED
        BY <4>1, <4>2, <4>3
    <3> QED
      BY <3>1, <3>2, <3>3
  <2>2. CASE n # m
    <3>1. scsiGuest'[n] = scsiGuest[n] /\ scsiFile'[n] = scsiFile[n] /\ scsiResets'[n] = scsiResets[n]
      BY <1>3, <1>4, <2>2
    <3>2. ThreadRight(n)'
      BY <1>1, <1>4, <2>0, <2>2, <3>1 DEF ThreadRight
    <3>3. FileRight(n)'
      BY <1>1, <2>0, <3>1 DEF FileRight, Unhurt
    <3>4. Spared(n)' => Spared(n)
      BY <1>1, <1>4 DEF Spared, Unhurt
    <3>5. \A t, a : Holds(t, n, a)' <=> Holds(t, n, a)
      BY <1>1, <3>1 DEF Holds
    <3>6. CommandsRight(n)'
      BY <2>0, <3>1, <3>4, <3>5 DEF CommandsRight
    <3> QED
      BY <3>2, <3>3, <3>6
  <2> QED
    BY <2>1, <2>2
<1> QED
  BY <1>6, <1>8, <1>9 DEF ScsiInv

LEMMA ScsiInvariant == ScsiSpec => []ScsiInv
<1>1. ScsiInv /\ [ScsiNext]_scsiVars => ScsiInv'
  <2> SUFFICES ASSUME ScsiInv, [ScsiNext]_scsiVars PROVE ScsiInv'
    OBVIOUS
  <2>1. CASE UNCHANGED scsiVars
    <3>1. ScsiTyped' /\ QueueRight'
      BY <2>1 DEF ScsiInv, ScsiTyped, QueueRight, scsiVars
    <3>2. ASSUME NEW n \in ScsiMonitor PROVE ThreadRight(n)' /\ CommandsRight(n)' /\ FileRight(n)'
      <4>1. ThreadRight(n)' /\ FileRight(n)'
        BY <2>1 DEF ScsiInv, ThreadRight, FileRight, Unhurt, scsiVars
      <4>2. CommandsRight(n)'
        <5>1. CommandsRight(n)
          BY DEF ScsiInv
        <5>2. /\ Spared(n)' <=> Spared(n) /\ scsiGuest' = scsiGuest
              /\ \A s, a : Holds(s, n, a)' <=> Holds(s, n, a)
          BY <2>1 DEF Spared, Unhurt, Holds, scsiVars
        <5> QED
          BY <5>1, <5>2 DEF CommandsRight
      <4> QED
        BY <4>1, <4>2
    <3> QED
      BY <3>1, <3>2 DEF ScsiInv
  <2> QED
    BY <2>1, FileStep, ThreadStep, ClaimStep, WorkStep, AnewStep DEF ScsiNext
<1> QED
  BY <1>1, ScsiStart, PTL DEF ScsiSpec

(* Files, guests, threads, the queue and its index have their types in every reachable state
   (ScsiTypeOK): the index is never more than one past the end of io_queue (get_next_entry). *)
THEOREM ScsiTyping == ScsiSpec => []ScsiTypeOK
<1>1. ScsiInv => ScsiTypeOK
  <2> SUFFICES ASSUME ScsiInv PROVE ScsiTypeOK
    OBVIOUS
  <2>1. ScsiTyped /\ QueueRight
    BY DEF ScsiInv
  <2>2. ASSUME NEW m \in ScsiMonitor
        PROVE  /\ scsiGuest[m].handle \in BOOLEAN /\ scsiGuest[m].waits \subseteq ScsiTag
               /\ scsiThread[m].at \in {"idle", "increment", "wrap", "scan", "claim"}
               /\ scsiThread[m].slot \in Entry
    BY <2>1 DEF ScsiTyped, ScsiGuestRecord, ScsiThreadRecord
  <2>3. \A s \in scsiWork : ioQueue[s].in_use
    BY <2>1 DEF ScsiTyped, QueueRight
  <2> QED
    BY <2>1, <2>2, <2>3 DEF ScsiTyped, ScsiTypeOK, ScsiFileRecord
<1> QED
  BY <1>1, ScsiInvariant, PTL

(* A command that a guest was told is accepted has one entry of the queue and one answer to
   come, and a guest that knows of no failed open has the file's one handle, through every
   interleaving of the threads that share the unlocked queue and every reset (ScsiExact). *)
THEOREM ScsiAgrees == ScsiSpec => []ScsiExact
<1>1. ScsiInv => ScsiExact
  <2> SUFFICES ASSUME ScsiInv, NEW m \in ScsiMonitor
      PROVE  /\ Spared(m) => \A tag \in ScsiTag :
                  Cardinality({s \in scsiWork : ioQueue[s].mp = m /\ ioQueue[s].tag = tag
                                                  /\ ioQueue[s].guest = scsiResets[m]})
                    = IF tag \in scsiGuest[m].waits THEN 1 ELSE 0
             /\ FileRight(m)
    BY DEF ScsiExact, Spared, FileRight
  <2>1. FileRight(m) /\ CommandsRight(m) /\ scsiWork \subseteq Entry
    BY DEF ScsiInv, ScsiTyped
  <2>2. ASSUME Spared(m), NEW tag \in ScsiTag
        PROVE  Cardinality({s \in scsiWork : ioQueue[s].mp = m /\ ioQueue[s].tag = tag
                                               /\ ioQueue[s].guest = scsiResets[m]})
                 = IF tag \in scsiGuest[m].waits THEN 1 ELSE 0
    <3> DEFINE mine == {s \in scsiWork : ioQueue[s].mp = m /\ ioQueue[s].tag = tag
                                           /\ ioQueue[s].guest = scsiResets[m]}
    <3>1. \A s : s \in mine <=> s \in Entry /\ Holds(s, m, tag)
      BY <2>1 DEF Holds
    <3>2. /\ tag \in scsiGuest[m].waits <=> \E s \in Entry : Holds(s, m, tag)
          /\ \A s, t \in Entry : Holds(s, m, tag) /\ Holds(t, m, tag) => s = t
      BY <2>1, <2>2 DEF CommandsRight
    <3> HIDE DEF mine
    <3>3. CASE tag \in scsiGuest[m].waits
      <4>1. PICK s : mine = {s}
        BY <3>1, <3>2, <3>3
      <4> QED
        BY <3>3, <4>1, FS_Singleton DEF mine
    <3>4. CASE tag \notin scsiGuest[m].waits
      <4>1. mine = {}
        BY <3>1, <3>2, <3>4
      <4> QED
        BY <3>4, <4>1, FS_EmptySet DEF mine
    <3> QED
      BY <3>3, <3>4
  <2> QED
    BY <2>1, <2>2
<1> QED
  BY <1>1, ScsiInvariant, PTL
-----------------------------------------------------------------------------
(* The command line *)

Unread == {"files", "scan", "scanned"}      \* before there are parameters
Turns == {Order[i] : i \in 1..30}          \* while they are taken
Decided  == {"command", "launch", "running", "over"}

Fates ==
  {"unread", "no memory", "switch", "option", "ignored", "refused", "unit", "alias", "slot",
   "boot", "lost"}

Configs(Fields) ==
  [unit   : [Kind -> [Unit -> [from : Nat, fields : Fields]]], alias : [Unit -> Nat],
   pci    : [PciSlot -> [from : Nat, fields : Fields]], option : [Option -> Nat], boot : Seq(Nat)]

LineTyped ==
  /\ line \in Seq(Parameter) /\ argv \in Seq(Nat) /\ fate \in [DOMAIN line -> Fates]
  /\ \A i \in DOMAIN argv : argv[i] # 0 => argv[i] \in DOMAIN line
  /\ parsed \in BOOLEAN
  /\ stage \in Turns \union Unread \union Decided \union {"check", "error"}
  /\ stage \in Unread => line = <<>>

ConfTyped == \E Fields : conf \in Configs(Fields)

(* What is left in argv stands in the order of the line and was not read; so a PCI parameter
   that is left comes after those that were taken. *)
ArgvInv ==
  /\ \A i, j \in DOMAIN argv : i < j /\ argv[i] # 0 /\ argv[j] # 0 => argv[i] < argv[j]
  /\ \A i \in DOMAIN argv : argv[i] # 0 => fate[argv[i]] = "unread"
  /\ \A p \in DOMAIN line : fate[p] = "unread" => \E i \in DOMAIN argv : argv[i] = p
  /\ \A p \in DOMAIN line, i \in DOMAIN argv :
       fate[p] = "slot" /\ argv[i] # 0 /\ line[argv[i]].word = "pci" => p < argv[i]

(* Each setting came from a parameter that was taken for it. *)
OptionFrom(o, p) == fate[p] = "option" /\ line[p].word = o
UnitFrom(k, n, p) ==
  \/ fate[p] = "unit" /\ line[p].word = k /\ (line[p].key = "index" => n = line[p].n)
  \/ fate[p] = "alias" /\ k = "cobd" /\ conf.alias[n] = p /\ line[p].value[1] # ":cobd"
  \/ fate[p] = "option" /\ k = "cofs" /\ n = LastUnit /\ line[p].word = "initrd"
AliasFrom(n, p) ==
  /\ fate[p] = "alias" /\ conf.unit["cobd"][n].from # 0
  /\ line[p].value[1] = ":cobd" => n = line[p].n
SlotFrom(s, p) ==
  fate[p] = "slot" /\ line[p].word = "pci" /\ (line[p].key = "index" => s[1] = line[p].n)

OptionsOwned == \A o \in Option : LET p == conf.option[o] IN
                  p # 0 => p \in DOMAIN line /\ OptionFrom(o, p)
UnitsOwned   == \A k \in Kind, n \in Unit : LET p == conf.unit[k][n].from IN
                  p # 0 => p \in DOMAIN line /\ UnitFrom(k, n, p)
AliasesOwned == \A n \in Unit : LET p == conf.alias[n] IN
                  p # 0 => p \in DOMAIN line /\ AliasFrom(n, p)
SlotsOwned   == \A s \in PciSlot : LET p == conf.pci[s].from IN
                  p # 0 => p \in DOMAIN line /\ SlotFrom(s, p)
BootOwned    == \A i \in DOMAIN conf.boot : LET p == conf.boot[i] IN
                  p \in DOMAIN line /\ fate[p] = "boot"

(* No parameter is behind two settings of a sort, and the boot line keeps the order. *)
UnitsOnce   == \A k \in Kind : \A n, m \in Unit :
                 conf.unit[k][n].from = conf.unit[k][m].from /\ conf.unit[k][n].from # 0 => n = m
AliasesOnce == \A n, m \in Unit : conf.alias[n] = conf.alias[m] /\ conf.alias[n] # 0 => n = m
SlotsOnce   == \A s, t \in PciSlot :
                 conf.pci[s].from = conf.pci[t].from /\ conf.pci[s].from # 0 => s = t
BootRises   == \A i, j \in DOMAIN conf.boot : i < j => conf.boot[i] < conf.boot[j]

(* What was taken for a setting is behind it, unless a later PCI parameter is. *)
OptionsSet == \A p \in DOMAIN line : fate[p] = "option" =>
                line[p].word \in Option /\ conf.option[line[p].word] = p
UnitsSet   == \A p \in DOMAIN line : fate[p] = "unit" =>
                line[p].word \in Kind /\ \E n \in Unit : conf.unit[line[p].word][n].from = p
AliasesSet == \A p \in DOMAIN line : fate[p] = "alias" => \E n \in Unit : conf.alias[n] = p
SlotsSet   == \A p \in DOMAIN line : fate[p] = "slot" =>
                \/ \E s \in PciSlot : conf.pci[s].from = p
                \/ \E q \in DOMAIN line : q > p /\ fate[q] = "slot"
BootSet    == \A p \in DOMAIN line : fate[p] = "boot" =>
                \E i \in DOMAIN conf.boot : conf.boot[i] = p

(* An option is not set before its turn, and nothing goes to the boot line before the end. *)
StageInv ==
  /\ \A i \in 1..30 : stage = Order[i] =>
       \A j \in i..30 : Order[j] \in Option => conf.option[Order[j]] = 0
  /\ stage \in Turns => \A p \in DOMAIN line : fate[p] \notin {"boot", "lost"}

(* A refusal is not forgotten, and nothing but what NothingUnheeded allows goes unheeded. *)
HeededInv ==
  /\ \A p \in DOMAIN line :
       /\ fate[p] = "refused" => stage = "error" \/ (stage = "boot" /\ ~parsed)
       /\ fate[p] = "no memory" => line[p].file
       /\ fate[p] = "ignored" => line[p].word = "color"
       /\ fate[p] = "lost" => Len(conf.boot) = BootRoom
  /\ stage \in Decided => \A p \in DOMAIN line : fate[p] # "unread"

SettingsInv ==
  /\ OptionsOwned /\ UnitsOwned /\ AliasesOwned /\ SlotsOwned /\ BootOwned
  /\ UnitsOnce /\ AliasesOnce /\ SlotsOnce /\ BootRises
  /\ OptionsSet /\ UnitsSet /\ AliasesSet /\ SlotsSet /\ BootSet

(* A parameter that is being scanned began with a letter, and did not end; what was found was
   found right. *)
FoundRight(a, b) ==
  /\ a \in 1..b /\ b < Len(scan.text) /\ scan.text[a] = "letter" /\ ~Commented(a)
  /\ \A k \in a..b : ~Stops(a, k)
  /\ Stops(a, b + 1)

ScanInv ==
  /\ scan.text \in Seq(Char \union {"end"}) /\ scan.found \in Seq(Nat \X Nat)
  /\ scan.state \in InParameter \union {"INIT", "WHITESPACE", "COMMENT"}
  /\ scan.state = "COMMENT" <=> Commented(Len(scan.text) + 1)
  /\ scan.state \in InParameter =>
       /\ scan.start \in 1..Len(scan.text)
       /\ scan.text[scan.start] = "letter" /\ ~Commented(scan.start)
       /\ \A k \in scan.start..Len(scan.text) : ~Stops(scan.start, k)
       /\ scan.state = "EQUAL_STR" <=> Quotes(scan.start, Len(scan.text)) % 2 = 1
       /\ \A i \in DOMAIN scan.found : scan.found[i][2] < scan.start
  /\ \A i \in DOMAIN scan.found :
       /\ FoundRight(scan.found[i][1], scan.found[i][2])
       /\ i > 1 => scan.found[i - 1][2] < scan.found[i][1]
  /\ \A k \in DOMAIN scan.text :
       scan.text[k] = "letter" /\ ~Commented(k) =>
         \/ \E i \in DOMAIN scan.found : k \in scan.found[i][1]..scan.found[i][2]
         \/ scan.state \in InParameter /\ scan.start <= k
  /\ stage = "scanned" => scan.state \notin InParameter

ConfigInv ==
  /\ LineTyped /\ ConfTyped /\ ArgvInv /\ SettingsInv /\ StageInv /\ HeededInv
  /\ DevicesExist /\ ScanInv

LEMMA OrderIs ==
  /\ Order[1] = "--install-service" /\ Order[2] = "--remove-service" /\ Order[3] = "--run-service"
  /\ Order[4] = "--install-driver" /\ Order[5] = "--remove-driver" /\ Order[6] = "--status-driver"
  /\ Order[7] = "-c" /\ Order[8] = "-p" /\ Order[9] = "-t" /\ Order[10] = "-d" /\ Order[11] = "-k"
  /\ Order[12] = "-v" /\ Order[13] = "-h" /\ Order[14] = "kernel" /\ Order[15] = "mem"
  /\ Order[16] = "scsi" /\ Order[17] = "setcobd" /\ Order[18] = "cobd" /\ Order[19] = "sd"
  /\ Order[20] = "hd" /\ Order[21] = "eth" /\ Order[22] = "cofs" /\ Order[23] = "pci"
  /\ Order[24] = "initrd" /\ Order[25] = "ttys" /\ Order[26] = "exec" /\ Order[27] = "color"
  /\ Order[28] = "cocon" /\ Order[29] = "cursor" /\ Order[30] = "boot" /\ Len(Order) = 30
  BY DEF Order, ParserOrder, ConfigOrder

(* The place of a parser in the order. *)
Turn(s) ==
  CASE s = "--install-service" -> 1 [] s = "--remove-service" -> 2 [] s = "--run-service" -> 3
    [] s = "--install-driver" -> 4 [] s = "--remove-driver" -> 5 [] s = "--status-driver" -> 6
    [] s = "-c" -> 7 [] s = "-p" -> 8 [] s = "-t" -> 9 [] s = "-d" -> 10 [] s = "-k" -> 11
    [] s = "-v" -> 12 [] s = "-h" -> 13 [] s = "kernel" -> 14 [] s = "mem" -> 15
    [] s = "scsi" -> 16 [] s = "setcobd" -> 17 [] s = "cobd" -> 18 [] s = "sd" -> 19
    [] s = "hd" -> 20 [] s = "eth" -> 21 [] s = "cofs" -> 22 [] s = "pci" -> 23
    [] s = "initrd" -> 24 [] s = "ttys" -> 25 [] s = "exec" -> 26 [] s = "color" -> 27
    [] s = "cocon" -> 28 [] s = "cursor" -> 29 [] OTHER -> 30

LEMMA OneTurnEach == \A i \in 1..30 : Turn(Order[i]) = i
<1>1. \A i \in 1..30 :
        \/ i = 1 \/ i = 2 \/ i = 3 \/ i = 4 \/ i = 5 \/ i = 6 \/ i = 7 \/ i = 8 \/ i = 9 \/ i = 10
        \/ i = 11 \/ i = 12 \/ i = 13 \/ i = 14 \/ i = 15 \/ i = 16 \/ i = 17 \/ i = 18 \/ i = 19
        \/ i = 20 \/ i = 21 \/ i = 22 \/ i = 23 \/ i = 24 \/ i = 25 \/ i = 26 \/ i = 27 \/ i = 28
        \/ i = 29 \/ i = 30
  OBVIOUS
<1> QED
  BY <1>1, OrderIs DEF Turn

LEMMA TurnsDiffer ==
  ASSUME NEW i \in 1..30, NEW j \in 1..30, Order[i] = Order[j] PROVE i = j
<1>1. Turn(Order[i]) = i /\ Turn(Order[j]) = j
  BY OneTurnEach
<1> QED
  BY <1>1

Parser == Plain \union Optional \union Mandatory \union Option \union Kind \union Prefix \union {"pci"}

LEMMA TurnsPass ==
  ASSUME NEW s \in Parser
  PROVE  /\ \E i \in 1..29 : s = Order[i] /\ After(s) = Order[i + 1]
         /\ s # "boot" /\ s # "error"
<1>1. \E i \in 1..29 : s = Order[i]
  BY OrderIs DEF Parser, Plain, Optional, Mandatory, Option, Kind, Prefix
<1>2. PICK i \in 1..29 : s = Order[i]
  BY <1>1
<1>3. After(s) = Order[i + 1]
  <2>1. \A j \in 2..30 : Order[j - 1] = s <=> j = i + 1
    <3>1. ASSUME NEW j \in 2..30 PROVE Order[j - 1] = s <=> j = i + 1
      <4>1. j - 1 \in 1..30 /\ i \in 1..30
        OBVIOUS
      <4>2. Turn(Order[j - 1]) = j - 1 /\ Turn(Order[i]) = i
        BY <4>1, OneTurnEach
      <4> QED
        BY <1>2, <4>2
    <3> QED
      BY <3>1
  <2>2. i + 1 \in 2..30
    OBVIOUS
  <2>3. (CHOOSE j \in 2..Len(Order) : Order[j - 1] = s) = i + 1
    BY <2>1, <2>2, OrderIs
  <2> QED
    BY <2>3 DEF After
<1> QED
  BY <1>2, <1>3 DEF Parser, Plain, Optional, Mandatory, Option, Kind, Prefix

LEMMA TurnsAre ==
  /\ Turns \intersect (Unread \union Decided \union {"check", "error"}) = {}
  /\ "boot" \in Turns /\ Order[1] \in Turns /\ Order[1] # "boot"
  /\ \A s \in Parser : s \in Turns /\ After(s) \in Turns
<1>1. \A i \in 1..30 : Order[i] \in Parser \union {"boot"}
  <2>1. \A i \in 1..30 :
        \/ i = 1 \/ i = 2 \/ i = 3 \/ i = 4 \/ i = 5 \/ i = 6 \/ i = 7 \/ i = 8 \/ i = 9 \/ i = 10
        \/ i = 11 \/ i = 12 \/ i = 13 \/ i = 14 \/ i = 15 \/ i = 16 \/ i = 17 \/ i = 18 \/ i = 19
        \/ i = 20 \/ i = 21 \/ i = 22 \/ i = 23 \/ i = 24 \/ i = 25 \/ i = 26 \/ i = 27 \/ i = 28
        \/ i = 29 \/ i = 30
    OBVIOUS
  <2> QED
    BY <2>1, OrderIs DEF Parser, Plain, Optional, Mandatory, Option, Kind, Prefix
<1>2. \A s \in Parser \union {"boot"} : s \notin Unread \union Decided \union {"check", "error"}
  BY DEF Parser, Plain, Optional, Mandatory, Option, Kind, Prefix, Unread, Decided
<1>3. \A s \in Turns : s \in Parser \union {"boot"}
  BY <1>1 DEF Turns
<1>4. \A s \in Parser : s \in Turns /\ After(s) \in Turns
  <2>1. \A i \in 1..29 : i \in 1..30 /\ i + 1 \in 1..30
    OBVIOUS
  <2> QED
    BY <2>1, TurnsPass DEF Turns
<1>5. "boot" \in Turns /\ Order[1] \in Turns /\ Order[1] # "boot"
  BY OrderIs DEF Turns
<1> QED
  BY <1>2, <1>3, <1>4, <1>5

LEMMA FirstFound ==
  ASSUME NEW word, Found(word) # {}, argv \in Seq(Nat)
  PROVE  /\ First(word) \in Found(word) /\ First(word) \in DOMAIN argv /\ argv[First(word)] # 0
         /\ line[argv[First(word)]].word = word
         /\ \A i \in Found(word) : First(word) <= i
<1>1. Found(word) \subseteq Nat
  BY DEF Found
<1>2. \E x \in Found(word) : \A y \in Found(word) : x <= y
  BY <1>1, LeastOf
<1>3. First(word) \in Found(word) /\ \A i \in Found(word) : First(word) <= i
  BY <1>2 DEF First, Min
<1> QED
  BY <1>3 DEF Found, Arg

(* What is left of args, entry by entry. *)
LeftStep(args, gone, f, i) ==
  IF i = 0 THEN <<>> ELSE IF args[i] \in gone THEN f[i - 1] ELSE Append(f[i - 1], args[i])
Leaves(args, gone, n) == CHOOSE f : f = [i \in 0..n |-> LeftStep(args, gone, f, i)]

LEMMA LeavesExist ==
  ASSUME NEW args, NEW gone, NEW n \in Nat
  PROVE  Leaves(args, gone, n) = [i \in 0..n |-> LeftStep(args, gone, Leaves(args, gone, n), i)]
<1> DEFINE Solved(k) == \E f : f = [i \in 0..k |-> LeftStep(args, gone, f, i)]
           T == {k \in Nat : Solved(k)}
<1>1. Solved(0)
  <2> DEFINE g == [i \in 0..0 |-> <<>>]
  <2>1. \A f : [i \in 0..0 |-> LeftStep(args, gone, f, i)] = g
    BY DEF LeftStep
  <2> QED
    BY <2>1
<1>2. ASSUME NEW k \in Nat, Solved(k) PROVE Solved(k + 1)
  <2>1. PICK f : f = [i \in 0..k |-> LeftStep(args, gone, f, i)]
    BY <1>2
  <2> DEFINE g == [i \in 0..(k + 1) |-> IF i <= k THEN f[i] ELSE LeftStep(args, gone, f, i)]
  <2>2. ASSUME NEW i \in 0..(k + 1) PROVE g[i] = LeftStep(args, gone, g, i)
    <3>1. CASE i = 0
      <4>1. 0 \in 0..k /\ 0 \in 0..(k + 1)
        OBVIOUS
      <4>2. f[0] = <<>>
        BY <2>1, <4>1 DEF LeftStep
      <4> QED
        BY <3>1, <4>1, <4>2 DEF LeftStep
    <3>2. CASE i # 0
      <4>1. i - 1 \in 0..(k + 1) /\ i - 1 \in 0..k /\ i - 1 <= k
        BY <3>2
      <4>2. g[i - 1] = f[i - 1]
        BY <4>1
      <4>3. LeftStep(args, gone, g, i) = LeftStep(args, gone, f, i)
        <5> HIDE DEF g
        <5> QED
          BY <3>2, <4>2 DEF LeftStep
      <4>4. CASE i <= k
        <5>1. i \in 0..k
          BY <4>4
        <5>2. f[i] = LeftStep(args, gone, f, i)
          BY <2>1, <5>1
        <5> QED
          BY <4>3, <4>4, <5>2
      <4>5. CASE ~(i <= k)
        BY <4>3, <4>5
      <4> QED
        BY <4>4, <4>5
    <3> QED
      BY <3>1, <3>2
  <2>3. g = [i \in 0..(k + 1) |-> g[i]]
    OBVIOUS
  <2> HIDE DEF g
  <2>4. g = [i \in 0..(k + 1) |-> LeftStep(args, gone, g, i)]
    BY <2>2, <2>3
  <2> QED
    BY <2>4
<1> HIDE DEF Solved
<1>3. 0 \in T /\ \A k \in Nat : k \in T => k + 1 \in T
  <2>1. \A k \in Nat : k + 1 \in Nat
    OBVIOUS
  <2> QED
    BY <1>1, <1>2, <2>1, Zenon
<1>4. Nat \subseteq T
  <2> HIDE DEF T
  <2> QED
    BY <1>3, ByInduction
<1>5. Solved(n)
  BY <1>4
<1> QED
  BY <1>5 DEF Solved, Leaves

Rising(s) == \A i, j \in DOMAIN s : i < j => s[i] < s[j]

(* A number greater than all of a rising sequence goes at its end. *)
LEMMA RisingLast ==
  ASSUME NEW s \in Seq(Nat), Rising(s), NEW x \in Nat, \A i \in DOMAIN s : s[i] < x
  PROVE  /\ Append(s, x) \in Seq(Nat) /\ Rising(Append(s, x))
         /\ \A y : (\E i \in DOMAIN Append(s, x) : Append(s, x)[i] = y)
                     <=> y = x \/ \E i \in DOMAIN s : s[i] = y
<1>1. PICK n \in Nat : n = Len(s)
  OBVIOUS
<1>2. PICK t : t = Append(s, x)
  OBVIOUS
<1>3. /\ t \in Seq(Nat) /\ DOMAIN t = 1..(n + 1) /\ t[n + 1] = x /\ DOMAIN s = 1..n
      /\ \A i \in 1..n : t[i] = s[i]
  BY <1>1, <1>2
<1>4. Rising(t)
  <2> SUFFICES ASSUME NEW i \in 1..(n + 1), NEW j \in 1..(n + 1), i < j PROVE t[i] < t[j]
    BY <1>3 DEF Rising
  <2>1. i \in 1..n
    OBVIOUS
  <2>2. CASE j = n + 1
    BY <1>3, <2>1, <2>2
  <2>3. CASE j # n + 1
    <3>1. j \in 1..n
      BY <2>3
    <3> QED
      BY <1>3, <2>1, <3>1 DEF Rising
  <2> QED
    BY <2>2, <2>3
<1>5. ASSUME NEW y PROVE (\E i \in DOMAIN t : t[i] = y) <=> y = x \/ \E i \in DOMAIN s : s[i] = y
  <2>1. \A i \in 1..(n + 1) : i \in 1..n \/ i = n + 1
    OBVIOUS
  <2>2. n + 1 \in 1..(n + 1) /\ \A i \in 1..n : i \in 1..(n + 1)
    OBVIOUS
  <2> QED
    BY <1>3, <2>1, <2>2
<1> QED
  BY <1>2, <1>3, <1>4, <1>5

(* What is left rises if it did, and is all that is not gone. *)
RisesBut(args, gone) ==
  \A i, j \in DOMAIN args : i < j /\ args[i] \notin gone /\ args[j] \notin gone => args[i] < args[j]

IsLeft(s, args, gone) ==
  /\ s \in Seq(Nat) /\ Rising(s)
  /\ \A x : (\E i \in DOMAIN s : s[i] = x) <=> x \notin gone /\ \E i \in DOMAIN args : args[i] = x

LEMMA WithoutIs ==
  ASSUME NEW args \in Seq(Nat), NEW gone, RisesBut(args, gone)
  PROVE  IsLeft(Without(args, gone), args, gone)
<1>r. \A i, j \in DOMAIN args :
        i < j /\ args[i] \notin gone /\ args[j] \notin gone => args[i] < args[j]
  BY DEF RisesBut
<1>0. PICK n : n = Len(args)
  OBVIOUS
<1>1. n \in Nat /\ DOMAIN args = 1..n /\ \A i \in 1..n : args[i] \in Nat
  BY <1>0
<1>2. PICK f : f = Leaves(args, gone, n)
  OBVIOUS
<1>3. Without(args, gone) = f[n]
  BY <1>0, <1>2 DEF Without, Leaves, LeftStep
<1>4. f = [i \in 0..n |-> LeftStep(args, gone, f, i)]
  BY <1>1, <1>2, LeavesExist
<1>5. \A i \in 0..n : f[i] = LeftStep(args, gone, f, i)
  <2> SUFFICES ASSUME NEW i \in 0..n PROVE f[i] = LeftStep(args, gone, f, i)
    OBVIOUS
  <2>1. [j \in 0..n |-> LeftStep(args, gone, f, j)][i] = LeftStep(args, gone, f, i)
    OBVIOUS
  <2> QED
    BY <1>4, <2>1, Zenon
<1> DEFINE LeftHas(s, x) == \E i \in DOMAIN s : s[i] = x
           LeftAt(k) == k <= n =>
             /\ f[k] \in Seq(Nat) /\ Rising(f[k])
             /\ \A x : LeftHas(f[k], x) <=> x \notin gone /\ \E i \in 1..k : args[i] = x
           T == {k \in Nat : LeftAt(k)}
<1>6. LeftAt(0)
  <2>1. 0 \in 0..n
    BY <1>1
  <2>2. f[0] = <<>>
    BY <1>5, <2>1 DEF LeftStep
  <2>3. <<>> \in Seq(Nat) /\ Rising(<<>>) /\ \A x : ~LeftHas(<<>>, x)
    BY DEF Rising
  <2> QED
    BY <2>2, <2>3
<1>7. ASSUME NEW k \in Nat, LeftAt(k) PROVE LeftAt(k + 1)
  <2> HIDE DEF LeftHas
  <2> SUFFICES ASSUME k + 1 <= n
               PROVE  /\ f[k + 1] \in Seq(Nat) /\ Rising(f[k + 1])
                      /\ \A x : LeftHas(f[k + 1], x) <=> x \notin gone /\ \E i \in 1..(k + 1) : args[i] = x
    OBVIOUS
  <2>1. /\ f[k] \in Seq(Nat) /\ Rising(f[k])
        /\ \A x : LeftHas(f[k], x) <=> x \notin gone /\ \E i \in 1..k : args[i] = x
    BY <1>1, <1>7
  <2>2. k + 1 \in 0..n /\ k + 1 \in 1..n /\ k + 1 # 0 /\ (k + 1) - 1 = k
    BY <1>1
  <2>3. f[k + 1] = IF args[k + 1] \in gone THEN f[k] ELSE Append(f[k], args[k + 1])
    <3>1. f[k + 1] = LeftStep(args, gone, f, k + 1)
      BY <1>5, <2>2
    <3> QED
      BY <2>2, <3>1 DEF LeftStep
  <2>4. \A x : (\E i \in 1..(k + 1) : args[i] = x) <=> (\E i \in 1..k : args[i] = x) \/ args[k + 1] = x
    OBVIOUS
  <2> HIDE DEF LeftAt
  <2>5. CASE args[k + 1] \in gone
    BY <2>1, <2>3, <2>4, <2>5
  <2>6. CASE args[k + 1] \notin gone
    <3>1. args[k + 1] \in Nat
      BY <1>1, <2>2
    <3>2. ASSUME NEW i \in DOMAIN f[k] PROVE f[k][i] < args[k + 1]
      <4>1. LeftHas(f[k], f[k][i])
        BY DEF LeftHas
      <4>2. PICK j \in 1..k : args[j] = f[k][i]
        BY <2>1, <4>1
      <4>3. j \in DOMAIN args /\ k + 1 \in DOMAIN args /\ j < k + 1 /\ args[j] \notin gone
        BY <1>1, <2>1, <2>2, <4>1, <4>2
      <4> QED
        BY <1>r, <2>6, <4>2, <4>3
    <3>3. f[k + 1] = Append(f[k], args[k + 1])
      BY <2>3, <2>6
    <3>4. /\ f[k + 1] \in Seq(Nat) /\ Rising(f[k + 1])
          /\ \A y : LeftHas(f[k + 1], y) <=> y = args[k + 1] \/ LeftHas(f[k], y)
      <4>1. PICK s, x : s = f[k] /\ x = args[k + 1]
        OBVIOUS
      <4>2. s \in Seq(Nat) /\ Rising(s) /\ x \in Nat /\ \A i \in DOMAIN s : s[i] < x
        BY <2>1, <3>1, <3>2, <4>1
      <4>3. /\ Append(s, x) \in Seq(Nat) /\ Rising(Append(s, x))
            /\ \A y : LeftHas(Append(s, x), y) <=> y = x \/ LeftHas(s, y)
        BY <4>2, RisingLast DEF LeftHas
      <4> QED
        BY <3>3, <4>1, <4>3
    <3>5. \A x : LeftHas(f[k + 1], x) <=> x \notin gone /\ \E i \in 1..(k + 1) : args[i] = x
      BY <2>1, <2>4, <2>6, <3>4
    <3> QED
      BY <3>4, <3>5
  <2> QED
    BY <2>5, <2>6
<1> HIDE DEF LeftAt
<1>8. 0 \in T /\ \A k \in Nat : k \in T => k + 1 \in T
  <2>1. \A k \in Nat : k + 1 \in Nat
    OBVIOUS
  <2> QED
    BY <1>6, <1>7, <2>1, Zenon
<1>9. Nat \subseteq T
  <2> HIDE DEF T
  <2> QED
    BY <1>8, ByInduction
<1>10. n \in T
  BY <1>1, <1>9
<1>11. LeftAt(n)
  BY <1>10
<1> HIDE DEF LeftHas
<1>12. /\ f[n] \in Seq(Nat) /\ Rising(f[n])
       /\ \A x : LeftHas(f[n], x) <=> x \notin gone /\ \E i \in 1..n : args[i] = x
  <2>1. n <= n
    BY <1>1
  <2> QED
    BY <1>11, <2>1, Zenon DEF LeftAt
<1> USE DEF LeftHas
<1> QED
  BY <1>1, <1>3, <1>12 DEF IsLeft

(* Entries of a rising sequence are not found twice. *)
LEMMA RisingOnce ==
  ASSUME NEW s \in Seq(Nat), Rising(s), NEW i \in DOMAIN s, NEW j \in DOMAIN s, s[i] = s[j]
  PROVE  i = j
<1>1. i \in Nat /\ j \in Nat /\ s[i] \in Nat
  OBVIOUS
<1>2. ~(i < j) /\ ~(j < i)
  BY <1>1 DEF Rising
<1> QED
  BY <1>1, <1>2

(* What a change of one setting leaves of the others. *)
UnitTo(c, k, n, p, x) == [c EXCEPT !.unit[k][n] = [from |-> p, fields |-> x]]
SlotTo(c, s, p, x)    == [c EXCEPT !.pci[s] = [from |-> p, fields |-> x]]
OptionTo(c, o, p)     == [c EXCEPT !.option[o] = p]
AliasTo(c, n, p)      == [c EXCEPT !.alias[n] = p]

(* The configurations d that differ from c in the parameter behind one unit. *)
UnitIs(c, k, n, p, d) ==
  /\ \E Fields : d \in Configs(Fields)
  /\ d.alias = c.alias /\ d.pci = c.pci /\ d.option = c.option /\ d.boot = c.boot
  /\ \A j \in Kind, m \in Unit :
       d.unit[j][m].from = IF j = k /\ m = n THEN p ELSE c.unit[j][m].from

LEMMA UnitChanged ==
  ASSUME NEW Fields, NEW c \in Configs(Fields), NEW k \in Kind, NEW n \in Unit, NEW p \in Nat, NEW x
  PROVE  UnitIs(c, k, n, p, UnitTo(c, k, n, p, x))
<1> SUFFICES ASSUME NEW d, d = UnitTo(c, k, n, p, x) PROVE UnitIs(c, k, n, p, d)
  OBVIOUS
<1> DEFINE More == Fields \union {x}
<1>1. PICK u : u = c.unit
  OBVIOUS
<1>2. u \in [Kind -> [Unit -> [from : Nat, fields : Fields]]]
  BY <1>1 DEF Configs
<1>3. PICK r : r = [from |-> p, fields |-> x]
  OBVIOUS
<1>4. r \in [from : Nat, fields : More] /\ r.from = p
  BY <1>3
<1>5. [from : Nat, fields : Fields] \subseteq [from : Nat, fields : More]
  OBVIOUS
<1>6. PICK v : v = [u EXCEPT ![k] = [u[k] EXCEPT ![n] = r]]
  OBVIOUS
<1>7. v \in [Kind -> [Unit -> [from : Nat, fields : More]]]
  BY <1>2, <1>4, <1>5, <1>6
<1>8. \A j \in Kind, m \in Unit : v[j][m] = IF j = k /\ m = n THEN r ELSE u[j][m]
  BY <1>2, <1>6
<1>9. d = [c EXCEPT !.unit = v]
  BY <1>1, <1>3, <1>6 DEF UnitTo
<1>10. /\ d.unit = v /\ d.alias = c.alias /\ d.pci = c.pci /\ d.option = c.option /\ d.boot = c.boot
       /\ d \in [unit : [Kind -> [Unit -> [from : Nat, fields : More]]], alias : [Unit -> Nat],
                 pci : [PciSlot -> [from : Nat, fields : Fields]], option : [Option -> Nat],
                 boot : Seq(Nat)]
  BY <1>7, <1>9 DEF Configs
<1>11. [PciSlot -> [from : Nat, fields : Fields]] \subseteq [PciSlot -> [from : Nat, fields : More]]
  OBVIOUS
<1>12. d \in Configs(More)
  BY <1>10, <1>11 DEF Configs
<1>13. \A j \in Kind, m \in Unit :
         d.unit[j][m].from = IF j = k /\ m = n THEN p ELSE c.unit[j][m].from
  BY <1>1, <1>4, <1>8, <1>10
<1> QED
  BY <1>10, <1>12, <1>13 DEF UnitIs

LEMMA SlotChanged ==
  ASSUME NEW Fields, NEW c \in Configs(Fields), NEW s \in PciSlot, NEW p \in Nat, NEW x,
         NEW d, d = SlotTo(c, s, p, x)
  PROVE  /\ d \in Configs(Fields \union {x})
         /\ d.alias = c.alias /\ d.unit = c.unit /\ d.option = c.option /\ d.boot = c.boot
         /\ \A t \in PciSlot : d.pci[t] = IF t = s THEN [from |-> p, fields |-> x] ELSE c.pci[t]
<1> DEFINE More == Fields \union {x}
<1>1. PICK u : u = c.pci
  OBVIOUS
<1>2. u \in [PciSlot -> [from : Nat, fields : Fields]]
  BY <1>1 DEF Configs
<1>3. PICK r : r = [from |-> p, fields |-> x]
  OBVIOUS
<1>4. r \in [from : Nat, fields : More]
  BY <1>3
<1>5. [from : Nat, fields : Fields] \subseteq [from : Nat, fields : More]
  OBVIOUS
<1>6. PICK v : v = [u EXCEPT ![s] = r]
  OBVIOUS
<1>7. v \in [PciSlot -> [from : Nat, fields : More]]
  BY <1>2, <1>4, <1>5, <1>6
<1>8. \A t \in PciSlot : v[t] = IF t = s THEN r ELSE u[t]
  BY <1>2, <1>6
<1>9. d = [c EXCEPT !.pci = v]
  BY <1>1, <1>3, <1>6 DEF SlotTo
<1>10. /\ d.pci = v /\ d.alias = c.alias /\ d.unit = c.unit /\ d.option = c.option /\ d.boot = c.boot
       /\ d \in [unit : [Kind -> [Unit -> [from : Nat, fields : Fields]]], alias : [Unit -> Nat],
                 pci : [PciSlot -> [from : Nat, fields : More]], option : [Option -> Nat],
                 boot : Seq(Nat)]
  BY <1>7, <1>9 DEF Configs
<1>11. [Unit -> [from : Nat, fields : Fields]] \subseteq [Unit -> [from : Nat, fields : More]]
  OBVIOUS
<1>12. [Kind -> [Unit -> [from : Nat, fields : Fields]]]
         \subseteq [Kind -> [Unit -> [from : Nat, fields : More]]]
  BY <1>11
<1>13. d \in Configs(More)
  BY <1>10, <1>12 DEF Configs
<1> QED
  BY <1>1, <1>3, <1>8, <1>10, <1>13

LEMMA OptionChanged ==
  ASSUME NEW Fields, NEW c \in Configs(Fields), NEW o \in Option, NEW p \in Nat,
         NEW d, d = OptionTo(c, o, p)
  PROVE  /\ d \in Configs(Fields)
         /\ d.alias = c.alias /\ d.unit = c.unit /\ d.pci = c.pci /\ d.boot = c.boot
         /\ \A q \in Option : d.option[q] = IF q = o THEN p ELSE c.option[q]
<1>1. PICK u : u = c.option
  OBVIOUS
<1>2. u \in [Option -> Nat]
  BY <1>1 DEF Configs
<1>3. PICK v : v = [u EXCEPT ![o] = p]
  OBVIOUS
<1>4. v \in [Option -> Nat] /\ \A q \in Option : v[q] = IF q = o THEN p ELSE u[q]
  BY <1>2, <1>3
<1>5. d = [c EXCEPT !.option = v]
  BY <1>1, <1>3 DEF OptionTo
<1>6. /\ d.option = v /\ d.alias = c.alias /\ d.unit = c.unit /\ d.pci = c.pci /\ d.boot = c.boot
      /\ d \in Configs(Fields)
  BY <1>4, <1>5 DEF Configs
<1> QED
  BY <1>1, <1>4, <1>6

LEMMA AliasChanged ==
  ASSUME NEW Fields, NEW c \in Configs(Fields), NEW n \in Unit, NEW p \in Nat,
         NEW d, d = AliasTo(c, n, p)
  PROVE  /\ d \in Configs(Fields)
         /\ d.option = c.option /\ d.unit = c.unit /\ d.pci = c.pci /\ d.boot = c.boot
         /\ \A m \in Unit : d.alias[m] = IF m = n THEN p ELSE c.alias[m]
<1>1. PICK u : u = c.alias
  OBVIOUS
<1>2. u \in [Unit -> Nat]
  BY <1>1 DEF Configs
<1>3. PICK v : v = [u EXCEPT ![n] = p]
  OBVIOUS
<1>4. v \in [Unit -> Nat] /\ \A m \in Unit : v[m] = IF m = n THEN p ELSE u[m]
  BY <1>2, <1>3
<1>5. d = [c EXCEPT !.alias = v]
  BY <1>1, <1>3 DEF AliasTo
<1>6. /\ d.alias = v /\ d.option = c.option /\ d.unit = c.unit /\ d.pci = c.pci /\ d.boot = c.boot
      /\ d \in Configs(Fields)
  BY <1>4, <1>5 DEF Configs
<1> QED
  BY <1>1, <1>4, <1>6

LEMMA BootChanged ==
  ASSUME NEW Fields, NEW c \in Configs(Fields), NEW s \in Seq(Nat), NEW d, d = [c EXCEPT !.boot = s]
  PROVE  /\ d \in Configs(Fields) /\ d.boot = s
         /\ d.option = c.option /\ d.unit = c.unit /\ d.pci = c.pci /\ d.alias = c.alias
BY DEF Configs

(* Where a parameter ended up, one setting at a time. *)
UsesOption(p, u) == \E o \in Option : u = <<"option", o>> /\ conf.option[o] = p
UsesUnit(p, u)   == \E k \in Kind, n \in Unit : u = <<k, n>> /\ conf.unit[k][n].from = p
UsesAlias(p, u)  == \E n \in Unit : u = <<"alias", n>> /\ conf.alias[n] = p
UsesSlot(p, u)   == \E s \in PciSlot : u = <<"pci", s>> /\ conf.pci[s].from = p
UsesBoot(p, u)   == \E i \in DOMAIN conf.boot : u = <<"boot", i>> /\ conf.boot[i] = p

LEMMA UsesAre ==
  ASSUME NEW p, NEW u
  PROVE  u \in Uses(p) <=>
           UsesOption(p, u) \/ UsesUnit(p, u) \/ UsesAlias(p, u) \/ UsesSlot(p, u) \/ UsesBoot(p, u)
<1>1. u \in {v \in Kind \X Unit : conf.unit[v[1]][v[2]].from = p} <=> UsesUnit(p, u)
  BY DEF UsesUnit
<1>2. u \in {<<"option", o>> : o \in {o \in Option : conf.option[o] = p}} <=> UsesOption(p, u)
  BY DEF UsesOption
<1>3. u \in {<<"alias", n>> : n \in {n \in Unit : conf.alias[n] = p}} <=> UsesAlias(p, u)
  BY DEF UsesAlias
<1>4. u \in {<<"pci", s>> : s \in {s \in PciSlot : conf.pci[s].from = p}} <=> UsesSlot(p, u)
  BY DEF UsesSlot
<1>5. u \in {<<"boot", i>> : i \in {i \in DOMAIN conf.boot : conf.boot[i] = p}} <=> UsesBoot(p, u)
  BY DEF UsesBoot
<1> QED
  BY <1>1, <1>2, <1>3, <1>4, <1>5, Zenon DEF Uses

LEMMA OneUse == \A S, u : u \in S /\ (\A v \in S : v = u) => S = {u}
  OBVIOUS

LEMMA Settings ==
  ASSUME SettingsInv, NEW p \in DOMAIN line, line \in Seq(Parameter)
  PROVE  /\ p \in Nat /\ p # 0
         /\ \A u : /\ UsesOption(p, u) => fate[p] = "option" /\ u = <<"option", line[p].word>>
                   /\ UsesUnit(p, u) => \E k \in Kind, n \in Unit :
                        u = <<k, n>> /\ conf.unit[k][n].from = p /\ UnitFrom(k, n, p)
                   /\ UsesAlias(p, u) => \E n \in Unit :
                        u = <<"alias", n>> /\ conf.alias[n] = p /\ AliasFrom(n, p)
                   /\ UsesSlot(p, u) => fate[p] = "slot"
                   /\ UsesBoot(p, u) => fate[p] = "boot"
<1>1. p \in Nat /\ p # 0
  OBVIOUS
<1> SUFFICES ASSUME NEW u
             PROVE  /\ UsesOption(p, u) => fate[p] = "option" /\ u = <<"option", line[p].word>>
                    /\ UsesUnit(p, u) => \E k \in Kind, n \in Unit :
                         u = <<k, n>> /\ conf.unit[k][n].from = p /\ UnitFrom(k, n, p)
                    /\ UsesAlias(p, u) => \E n \in Unit :
                         u = <<"alias", n>> /\ conf.alias[n] = p /\ AliasFrom(n, p)
                    /\ UsesSlot(p, u) => fate[p] = "slot"
                    /\ UsesBoot(p, u) => fate[p] = "boot"
  BY <1>1
<1>2. UsesOption(p, u) => fate[p] = "option" /\ u = <<"option", line[p].word>>
  BY <1>1 DEF UsesOption, SettingsInv, OptionsOwned, OptionFrom
<1>3. UsesUnit(p, u) => \E k \in Kind, n \in Unit :
        u = <<k, n>> /\ conf.unit[k][n].from = p /\ UnitFrom(k, n, p)
  BY <1>1 DEF UsesUnit, SettingsInv, UnitsOwned
<1>4. UsesAlias(p, u) => \E n \in Unit :
        u = <<"alias", n>> /\ conf.alias[n] = p /\ AliasFrom(n, p)
  BY <1>1 DEF UsesAlias, SettingsInv, AliasesOwned
<1>5. UsesSlot(p, u) => fate[p] = "slot"
  BY <1>1 DEF UsesSlot, SettingsInv, SlotsOwned, SlotFrom
<1>6. UsesBoot(p, u) => fate[p] = "boot"
  BY <1>1 DEF UsesBoot, SettingsInv, BootOwned
<1> QED
  BY <1>2, <1>3, <1>4, <1>5, <1>6

LEMMA OptionSets ==
  ASSUME SettingsInv, NEW p \in DOMAIN line, line \in Seq(Parameter), fate[p] = "option"
  PROVE  /\ Uses(p) \ {<<"cofs", LastUnit>>} = {<<"option", line[p].word>>}
         /\ line[p].word # "initrd" => <<"cofs", LastUnit>> \notin Uses(p)
<1>1. line[p].word \in Option /\ conf.option[line[p].word] = p
  BY DEF SettingsInv, OptionsSet
<1>2. <<"option", line[p].word>> \in Uses(p)
  BY <1>1, UsesAre DEF UsesOption
<1>3. ASSUME NEW u \in Uses(p)
      PROVE  u = <<"option", line[p].word>> \/ (u = <<"cofs", LastUnit>> /\ line[p].word = "initrd")
  <2>1. CASE UsesUnit(p, u)
    BY <2>1, Settings DEF UnitFrom
  <2>2. CASE UsesAlias(p, u)
    BY <2>2, Settings DEF AliasFrom
  <2> QED
    BY <2>1, <2>2, Settings, UsesAre
<1>4. <<"option", line[p].word>> # <<"cofs", LastUnit>>
  OBVIOUS
<1> QED
  BY <1>2, <1>3, <1>4

LEMMA UnitSets ==
  ASSUME SettingsInv, NEW p \in DOMAIN line, line \in Seq(Parameter), fate[p] = "unit"
  PROVE  \E n \in Unit : Uses(p) = {<<line[p].word, n>>} /\ (line[p].key = "index" => n = line[p].n)
<1>0. p # 0
  BY Settings
<1>1. line[p].word \in Kind /\ \E n \in Unit : conf.unit[line[p].word][n].from = p
  BY DEF SettingsInv, UnitsSet
<1>2. PICK n \in Unit : conf.unit[line[p].word][n].from = p
  BY <1>1
<1>3. <<line[p].word, n>> \in Uses(p)
  BY <1>1, <1>2, UsesAre DEF UsesUnit
<1>4. line[p].key = "index" => n = line[p].n
  BY <1>0, <1>1, <1>2, SMTT(30) DEF SettingsInv, UnitsOwned, UnitFrom
<1>5. ASSUME NEW u \in Uses(p) PROVE u = <<line[p].word, n>>
  <2>1. CASE UsesUnit(p, u)
    <3>1. PICK k \in Kind, m \in Unit : u = <<k, m>> /\ conf.unit[k][m].from = p /\ UnitFrom(k, m, p)
      BY <2>1, Settings
    <3>2. k = line[p].word
      BY <3>1 DEF UnitFrom
    <3>3. m = n
      BY <1>0, <1>1, <1>2, <3>1, <3>2 DEF SettingsInv, UnitsOnce, AliasesOnce, SlotsOnce, BootRises
    <3> QED
      BY <3>1, <3>2, <3>3
  <2>2. CASE UsesAlias(p, u)
    BY <2>2, Settings DEF AliasFrom
  <2> QED
    BY <2>1, <2>2, Settings, UsesAre
<1>6. Uses(p) = {<<line[p].word, n>>}
  BY <1>3, <1>5
<1> QED
  BY <1>4, <1>6

LEMMA AliasSets ==
  ASSUME SettingsInv, NEW p \in DOMAIN line, line \in Seq(Parameter), fate[p] = "alias"
  PROVE  \E n \in Unit : /\ Uses(p) \ {<<"cobd", n>>} = {<<"alias", n>>}
                         /\ conf.unit["cobd"][n].from # 0
                         /\ line[p].value[1] = ":cobd" =>
                              n = line[p].n /\ Cardinality(Uses(p)) = 1
<1>0. p # 0
  BY Settings
<1>1. PICK n \in Unit : conf.alias[n] = p
  BY DEF SettingsInv, AliasesSet
<1>2. AliasFrom(n, p)
  BY <1>0, <1>1 DEF SettingsInv, AliasesOwned
<1>3. <<"alias", n>> \in Uses(p)
  BY <1>1, UsesAre DEF UsesAlias
<1>4. ASSUME NEW u \in Uses(p)
      PROVE  u = <<"alias", n>> \/ (u = <<"cobd", n>> /\ line[p].value[1] # ":cobd")
  <2>1. CASE UsesUnit(p, u)
    <3>1. PICK k \in Kind, m \in Unit : u = <<k, m>> /\ conf.unit[k][m].from = p /\ UnitFrom(k, m, p)
      BY <2>1, Settings
    <3>2. k = "cobd" /\ conf.alias[m] = p /\ line[p].value[1] # ":cobd"
      BY <3>1 DEF UnitFrom
    <3>3. m = n
      BY <1>0, <1>1, <3>2 DEF SettingsInv, UnitsOnce, AliasesOnce, SlotsOnce, BootRises
    <3> QED
      BY <3>1, <3>2, <3>3
  <2>2. CASE UsesAlias(p, u)
    <3>1. PICK m \in Unit : u = <<"alias", m>> /\ conf.alias[m] = p
      BY <2>2 DEF UsesAlias
    <3>2. m = n
      BY <1>0, <1>1, <3>1 DEF SettingsInv, UnitsOnce, AliasesOnce, SlotsOnce, BootRises
    <3> QED
      BY <3>1, <3>2
  <2> QED
    BY <2>1, <2>2, Settings, UsesAre
<1>5. <<"alias", n>> # <<"cobd", n>>
  OBVIOUS
<1>6. Uses(p) \ {<<"cobd", n>>} = {<<"alias", n>>}
  BY <1>3, <1>4, <1>5
<1>7. ASSUME line[p].value[1] = ":cobd" PROVE n = line[p].n /\ Cardinality(Uses(p)) = 1
  <2>1. Uses(p) = {<<"alias", n>>}
    BY <1>3, <1>4, <1>7
  <2>2. Cardinality({<<"alias", n>>}) = 1
    BY FS_Singleton
  <2> QED
    BY <1>2, <1>7, <2>1, <2>2 DEF AliasFrom
<1> QED
  BY <1>2, <1>6, <1>7 DEF AliasFrom

LEMMA SlotSets ==
  ASSUME SettingsInv, NEW p \in DOMAIN line, line \in Seq(Parameter), fate[p] = "slot"
  PROVE  \/ \E s \in PciSlot : Uses(p) = {<<"pci", s>>} /\ (line[p].key = "index" => s[1] = line[p].n)
         \/ Uses(p) = {} /\ \E q \in DOMAIN line : q > p /\ fate[q] = "slot"
<1>0. p # 0
  BY Settings
<1>1. ASSUME NEW u \in Uses(p) PROVE UsesSlot(p, u)
  <2>1. CASE UsesUnit(p, u)
    BY <2>1, Settings DEF UnitFrom
  <2>2. CASE UsesAlias(p, u)
    BY <2>2, Settings DEF AliasFrom
  <2> QED
    BY <2>1, <2>2, Settings, UsesAre
<1>2. CASE \E s \in PciSlot : conf.pci[s].from = p
  <2>1. PICK s \in PciSlot : conf.pci[s].from = p
    BY <1>2
  <2>2. <<"pci", s>> \in Uses(p)
    BY <2>1, UsesAre DEF UsesSlot
  <2>3. ASSUME NEW u \in Uses(p) PROVE u = <<"pci", s>>
    <3>1. PICK t \in PciSlot : u = <<"pci", t>> /\ conf.pci[t].from = p
      BY <1>1 DEF UsesSlot
    <3>2. t = s
      BY <1>0, <2>1, <3>1 DEF SettingsInv, UnitsOnce, AliasesOnce, SlotsOnce, BootRises
    <3> QED
      BY <3>1, <3>2
  <2>4. Uses(p) = {<<"pci", s>>}
    BY <2>2, <2>3
  <2>5. line[p].key = "index" => s[1] = line[p].n
    BY <1>0, <2>1 DEF SettingsInv, SlotsOwned, SlotFrom
  <2> QED
    BY <2>4, <2>5
<1>3. CASE ~\E s \in PciSlot : conf.pci[s].from = p
  <2>1. Uses(p) = {}
    BY <1>1, <1>3 DEF UsesSlot
  <2>2. \E q \in DOMAIN line : q > p /\ fate[q] = "slot"
    BY <1>3 DEF SettingsInv, SlotsSet
  <2> QED
    BY <2>1, <2>2
<1> QED
  BY <1>2, <1>3

LEMMA BootSets ==
  ASSUME SettingsInv, NEW p \in DOMAIN line, line \in Seq(Parameter), fate[p] = "boot",
         conf.boot \in Seq(Nat)
  PROVE  \E i \in DOMAIN conf.boot : Uses(p) = {<<"boot", i>>}
<1>1. PICK i \in DOMAIN conf.boot : conf.boot[i] = p
  BY DEF SettingsInv, BootSet
<1>2. <<"boot", i>> \in Uses(p)
  BY <1>1, UsesAre DEF UsesBoot
<1>3. ASSUME NEW u \in Uses(p) PROVE u = <<"boot", i>>
  <2>1. CASE UsesUnit(p, u)
    BY <2>1, Settings DEF UnitFrom
  <2>2. CASE UsesAlias(p, u)
    BY <2>2, Settings DEF AliasFrom
  <2>3. CASE UsesBoot(p, u)
    <3>1. PICK j \in DOMAIN conf.boot : u = <<"boot", j>> /\ conf.boot[j] = p
      BY <2>3 DEF UsesBoot
    <3>2. j = i
      BY <1>1, <3>1, RisingOnce DEF SettingsInv, UnitsOnce, AliasesOnce, SlotsOnce, BootRises, Rising
    <3> QED
      BY <3>1, <3>2
  <2> QED
    BY <2>1, <2>2, <2>3, Settings, UsesAre
<1> QED
  BY <1>2, <1>3

LEMMA NothingSets ==
  ASSUME SettingsInv, NEW p \in DOMAIN line, line \in Seq(Parameter),
         fate[p] \notin {"option", "unit", "alias", "slot", "boot"}
  PROVE  Uses(p) = {}
<1>1. ASSUME NEW u \in Uses(p) PROVE FALSE
  <2>1. CASE UsesUnit(p, u)
    BY <2>1, Settings DEF UnitFrom
  <2>2. CASE UsesAlias(p, u)
    BY <2>2, Settings DEF AliasFrom
  <2> QED
    BY <2>1, <2>2, Settings, UsesAre
<1> QED
  BY <1>1

LEMMA ParametersSet ==
  ASSUME SettingsInv, NEW p \in DOMAIN line, line \in Seq(Parameter), conf.boot \in Seq(Nat)
  PROVE  SetsWhatItNames(p)
<1>1. CASE fate[p] = "option"
  BY <1>1, OptionSets DEF SetsWhatItNames
<1>2. CASE fate[p] = "unit"
  BY <1>2, UnitSets DEF SetsWhatItNames
<1>3. CASE fate[p] = "alias"
  BY <1>3, AliasSets DEF SetsWhatItNames
<1>4. CASE fate[p] = "slot"
  BY <1>4, SlotSets DEF SetsWhatItNames
<1>5. CASE fate[p] = "boot"
  BY <1>5, BootSets DEF SetsWhatItNames
<1>6. CASE fate[p] \notin {"option", "unit", "alias", "slot", "boot"}
  BY <1>6, NothingSets DEF SetsWhatItNames
<1> QED
  BY <1>1, <1>2, <1>3, <1>4, <1>5, <1>6

LEMMA NothingMissed ==
  ASSUME LineTyped, SettingsInv, HeededInv PROVE NothingUnheeded
<1> SUFFICES ASSUME stage \in Decided
             PROVE  /\ \A p \in DOMAIN line :
                         /\ fate[p] \notin {"unread", "refused"}
                         /\ fate[p] = "no memory" => line[p].file
                         /\ fate[p] = "ignored" => line[p].word = "color"
                         /\ fate[p] = "lost" => Len(conf.boot) = BootRoom
                    /\ \A i, j \in DOMAIN conf.boot : i < j => conf.boot[i] < conf.boot[j]
  BY DEF NothingUnheeded, Decided
<1>1. stage # "error" /\ stage # "boot"
  BY DEF Decided
<1> QED
  BY <1>1 DEF HeededInv, SettingsInv, UnitsOnce, AliasesOnce, SlotsOnce, BootRises

LEMMA AllFound == ScanInv => ParametersFound
<1> SUFFICES ASSUME ScanInv, stage = "scanned" PROVE ParametersFound
  BY DEF ParametersFound
<1>1. scan.state \notin InParameter
  BY DEF ScanInv
<1>2. ASSUME NEW i \in DOMAIN scan.found
      PROVE  LET a == scan.found[i][1]
                 b == scan.found[i][2]
             IN /\ scan.text[a] = "letter" /\ ~Commented(a)
                /\ \A k \in a..b : ~Stops(a, k)
                /\ Stops(a, b + 1)
                /\ i > 1 => scan.found[i - 1][2] < a
  BY <1>2 DEF ScanInv, FoundRight
<1>3. ASSUME NEW k \in DOMAIN scan.text, scan.text[k] = "letter", ~Commented(k)
      PROVE  \E i \in DOMAIN scan.found : k \in scan.found[i][1]..scan.found[i][2]
  BY <1>1, <1>3 DEF ScanInv
<1> QED
  BY <1>2, <1>3, Zenon DEF ParametersFound

LEMMA ConfigInvExact == ConfigInv => ConfigExact
<1> SUFFICES ASSUME ConfigInv PROVE ConfigExact
  OBVIOUS
<1>1. conf.boot \in Seq(Nat) /\ line \in Seq(Parameter) /\ SettingsInv
  BY DEF ConfigInv, ConfTyped, Configs, LineTyped
<1>2. \A p \in DOMAIN line : SetsWhatItNames(p)
  BY <1>1, ParametersSet
<1> QED
  BY <1>2, NothingMissed, AllFound DEF ConfigInv, ConfigExact

(* Fates are not changed again, and those that change all become one. *)
FateKept     == \A p \in DOMAIN line : fate[p] # "unread" => fate'[p] = fate[p]
TurnsTo(how) == \A p \in DOMAIN line : fate'[p] # fate[p] => fate'[p] = how

(* What is left after something was taken out of argv. *)
ArgvNext ==
  /\ argv' \in Seq(Nat) /\ fate' \in [DOMAIN line' -> Fates]
  /\ \A i \in DOMAIN argv' : argv'[i] # 0 =>
       i \in DOMAIN argv /\ argv'[i] = argv[i] /\ argv'[i] \in DOMAIN line'
  /\ \A i, j \in DOMAIN argv' : i < j /\ argv'[i] # 0 /\ argv'[j] # 0 => argv'[i] < argv'[j]
  /\ \A i \in DOMAIN argv' : argv'[i] # 0 => fate'[argv'[i]] = "unread"
  /\ \A p \in DOMAIN line' : fate'[p] = "unread" => \E i \in DOMAIN argv' : argv'[i] = p

LEMMA FatesHas == {"switch", "option", "ignored", "refused", "unit", "alias", "slot"} \subseteq Fates
  BY DEF Fates

LEMMA TakeLeaves ==
  ASSUME LineTyped, ArgvInv, NEW places \in SUBSET DOMAIN argv, \A i \in places : argv[i] # 0,
         NEW how \in Fates, how # "unread", Take(places, how), line' = line
  PROVE  /\ ArgvNext /\ FateKept /\ TurnsTo(how)
         /\ \A p \in DOMAIN line : fate'[p] = IF \E i \in places : argv[i] = p THEN how ELSE fate[p]
<1>1. /\ argv' = [i \in DOMAIN argv |-> IF i \in places THEN 0 ELSE argv[i]]
      /\ fate' = [p \in DOMAIN fate |-> IF \E i \in places : argv[i] = p THEN how ELSE fate[p]]
  BY DEF Take
<1>2. /\ argv \in Seq(Nat) /\ fate \in [DOMAIN line -> Fates]
      /\ \A i \in DOMAIN argv : argv[i] # 0 => argv[i] \in DOMAIN line
  BY DEF LineTyped
<1>3. PICK n \in Nat : n = Len(argv)
  BY <1>2
<1>4. DOMAIN argv = 1..n
  BY <1>2, <1>3
<1>5. argv' \in [1..n -> Nat]
  BY <1>1, <1>2, <1>4
<1>6. argv' \in Seq(Nat) /\ DOMAIN argv' = DOMAIN argv
  BY <1>4, <1>5
<1>7. \A p \in DOMAIN line : fate'[p] = IF \E i \in places : argv[i] = p THEN how ELSE fate[p]
  BY <1>1, <1>2
<1>8. fate' \in [DOMAIN line -> Fates]
  BY <1>1, <1>2
<1>9. \A i \in DOMAIN argv : argv'[i] = IF i \in places THEN 0 ELSE argv[i]
  BY <1>1
<1>10. \A i, j \in DOMAIN argv : argv[i] = argv[j] /\ argv[i] # 0 => i = j
  <2> SUFFICES ASSUME NEW i \in 1..n, NEW j \in 1..n, argv[i] = argv[j], argv[i] # 0 PROVE i = j
    BY <1>4
  <2>1. argv[i] \in Nat /\ ~(i < j) /\ ~(j < i)
    BY <1>2, <1>4, SMTT(30) DEF ArgvInv
  <2> QED
    BY <2>1
<1>11. \A p \in DOMAIN line : fate[p] # "unread" => ~\E i \in places : argv[i] = p
  BY DEF ArgvInv
<1>12. ASSUME NEW i \in DOMAIN argv', argv'[i] # 0
       PROVE  /\ i \in DOMAIN argv /\ i \notin places /\ argv'[i] = argv[i] /\ argv'[i] \in DOMAIN line'
              /\ fate'[argv'[i]] = "unread"
  <2>1. i \in DOMAIN argv /\ i \notin places /\ argv'[i] = argv[i] /\ argv[i] \in DOMAIN line
    BY <1>2, <1>6, <1>9, <1>12
  <2>2. ~\E j \in places : argv[j] = argv[i]
    BY <1>10, <1>12, <2>1
  <2>3. fate[argv[i]] = "unread"
    BY <1>12, <2>1 DEF ArgvInv
  <2> QED
    BY <1>7, <2>1, <2>2, <2>3
<1>13. ASSUME NEW i \in DOMAIN argv', NEW j \in DOMAIN argv', i < j, argv'[i] # 0, argv'[j] # 0
       PROVE  argv'[i] < argv'[j]
  BY <1>12, <1>13 DEF ArgvInv
<1>14. ASSUME NEW p \in DOMAIN line, fate'[p] = "unread" PROVE \E i \in DOMAIN argv' : argv'[i] = p
  <2>1. fate[p] = "unread" /\ ~\E i \in places : argv[i] = p
    BY <1>7, <1>14
  <2>2. PICK i \in DOMAIN argv : argv[i] = p
    BY <2>1 DEF ArgvInv
  <2> QED
    BY <1>6, <1>9, <2>1, <2>2
<1>15. ArgvNext
  BY <1>6, <1>8, <1>12, <1>13, <1>14 DEF ArgvNext
<1>16. FateKept
  BY <1>7, <1>11 DEF FateKept
<1>17. TurnsTo(how)
  BY <1>7 DEF TurnsTo
<1> QED
  BY <1>7, <1>15, <1>16, <1>17

(* The first parameter with a word is taken. *)
TakesFor(word, p, how) ==
  /\ ArgvNext /\ FateKept /\ TurnsTo(how)
  /\ p \in DOMAIN line /\ p \in Nat /\ p # 0 /\ line[p].word = word /\ fate[p] = "unread"
  /\ \A q \in DOMAIN line : fate'[q] = IF q = p THEN how ELSE fate[q]
  /\ \A i \in DOMAIN argv' : argv'[i] # 0 /\ line[argv'[i]].word = word => p < argv'[i]

LEMMA TakeFirst ==
  ASSUME LineTyped, ArgvInv, NEW word, Found(word) # {}, NEW how \in Fates, how # "unread",
         Take({First(word)}, how), line' = line
  PROVE  TakesFor(word, argv[First(word)], how)
<1> DEFINE p == argv[First(word)]
<1>1. /\ First(word) \in DOMAIN argv /\ argv[First(word)] # 0 /\ line[p].word = word
      /\ \A i \in Found(word) : First(word) <= i
  BY FirstFound DEF LineTyped
<1>2. p \in DOMAIN line /\ fate[p] = "unread" /\ p \in Nat /\ p # 0
  BY <1>1 DEF LineTyped, ArgvInv
<1>3. /\ ArgvNext /\ FateKept /\ TurnsTo(how)
      /\ \A q \in DOMAIN line : fate'[q] = IF \E i \in {First(word)} : argv[i] = q THEN how ELSE fate[q]
  <2>1. {First(word)} \in SUBSET DOMAIN argv /\ \A i \in {First(word)} : argv[i] # 0
    BY <1>1
  <2> QED
    BY <2>1, TakeLeaves
<1>4. \A q \in DOMAIN line : fate'[q] = IF q = p THEN how ELSE fate[q]
  BY <1>3
<1>5. ASSUME NEW i \in DOMAIN argv', argv'[i] # 0, line[argv'[i]].word = word PROVE p < argv'[i]
  <2>1. i \in DOMAIN argv /\ argv'[i] = argv[i] /\ fate'[argv[i]] = "unread"
        /\ argv[i] \in DOMAIN line
    BY <1>3, <1>5 DEF ArgvNext, LineTyped
  <2>2. i \in Found(word)
    BY <1>5, <2>1 DEF Found, Arg
  <2>3. First(word) <= i /\ i # First(word)
    BY <1>1, <1>4, <1>2, <2>1, <2>2
  <2>4. First(word) \in Nat /\ i \in Nat
    BY <1>1, <2>1 DEF LineTyped
  <2>5. First(word) < i
    BY <2>3, <2>4
  <2> QED
    BY <1>1, <1>5, <2>1, <2>5 DEF ArgvInv
<1> HIDE DEF p
<1>6. TakesFor(word, p, how)
  BY <1>1, <1>2, <1>3, <1>4, <1>5 DEF TakesFor
<1> QED
  BY <1>6 DEF p

(* A PCI parameter that is left still comes after those that were taken. *)
LEMMA ArgvKept ==
  ASSUME ArgvInv, ArgvNext, FateKept, NEW how, TurnsTo(how), line' = line,
         how = "slot" =>
           \A p \in DOMAIN line, i \in DOMAIN argv' :
             fate'[p] # fate[p] /\ fate'[p] = "slot" /\ argv'[i] # 0
               /\ line[argv'[i]].word = "pci" => p < argv'[i]
  PROVE  ArgvInv'
<1>1. ASSUME NEW p \in DOMAIN line, NEW i \in DOMAIN argv',
             fate'[p] = "slot", argv'[i] # 0, line[argv'[i]].word = "pci"
      PROVE  p < argv'[i]
  <2>1. CASE fate'[p] # fate[p]
    BY <1>1, <2>1 DEF TurnsTo
  <2>2. CASE fate'[p] = fate[p]
    BY <1>1, <2>2 DEF ArgvNext, ArgvInv
  <2> QED
    BY <2>1, <2>2
<1> QED
  BY <1>1 DEF ArgvNext, ArgvInv

(* A change that leaves the settings of a sort as they are leaves what is known of them. *)
LEMMA OptionsSame ==
  ASSUME OptionsOwned, OptionsSet, line' = line, line \in Seq(Parameter), FateKept,
         NEW how, how # "option", TurnsTo(how), conf'.option = conf.option
  PROVE  OptionsOwned' /\ OptionsSet'
<1>1. OptionsOwned'
  BY DEF OptionsOwned, OptionFrom, FateKept
<1>2. OptionsSet'
  BY DEF OptionsSet, TurnsTo
<1> QED
  BY <1>1, <1>2

AliasesGrow == \A n \in Unit : conf.alias[n] # 0 => conf'.alias[n] = conf.alias[n]
UnitsGrow   == \A k \in Kind, n \in Unit :
                 conf.unit[k][n].from # 0 => conf'.unit[k][n].from = conf.unit[k][n].from

LEMMA UnitsSame ==
  ASSUME UnitsOwned, UnitsSet, UnitsOnce, line' = line, line \in Seq(Parameter), FateKept,
         NEW how, how # "unit", TurnsTo(how), AliasesGrow,
         \A k \in Kind, n \in Unit : conf'.unit[k][n].from = conf.unit[k][n].from
  PROVE  UnitsOwned' /\ UnitsSet' /\ UnitsOnce'
<1>1. UnitsOwned'
  <2> SUFFICES ASSUME NEW k \in Kind, NEW n \in Unit, NEW p, p = conf'.unit[k][n].from, p # 0
               PROVE  p \in DOMAIN line' /\ UnitFrom(k, n, p)'
    BY SMTT(30) DEF UnitsOwned, UnitFrom
  <2>1. p = conf.unit[k][n].from
    OBVIOUS
  <2>2. p # 0 /\ p \in DOMAIN line /\ UnitFrom(k, n, p)
    BY <2>1 DEF UnitsOwned
  <2>3. fate'[p] = fate[p] /\ p # 0
    BY <2>2 DEF UnitFrom, FateKept
  <2>4. conf.alias[n] = p => conf'.alias[n] = p
    BY <2>2 DEF AliasesGrow
  <2> QED
    BY <2>2, <2>3, <2>4 DEF UnitFrom
<1>2. UnitsSet'
  BY DEF UnitsSet, TurnsTo
<1>3. UnitsOnce'
  BY DEF UnitsOnce
<1> QED
  BY <1>1, <1>2, <1>3

LEMMA AliasesSame ==
  ASSUME AliasesOwned, AliasesSet, AliasesOnce, line' = line, line \in Seq(Parameter), FateKept,
         NEW how, how # "alias", TurnsTo(how), UnitsGrow, conf'.alias = conf.alias
  PROVE  AliasesOwned' /\ AliasesSet' /\ AliasesOnce'
<1>1. AliasesOwned'
  <2>1. "cobd" \in Kind
    BY DEF Kind
  <2> QED
    BY <2>1 DEF AliasesOwned, AliasFrom, FateKept, UnitsGrow
<1>2. AliasesSet'
  BY DEF AliasesSet, TurnsTo
<1>3. AliasesOnce'
  BY DEF AliasesOnce
<1> QED
  BY <1>1, <1>2, <1>3

LEMMA SlotsSame ==
  ASSUME SlotsOwned, SlotsSet, SlotsOnce, line' = line, line \in Seq(Parameter), FateKept,
         NEW how, how # "slot", TurnsTo(how), conf'.pci = conf.pci
  PROVE  SlotsOwned' /\ SlotsSet' /\ SlotsOnce'
<1>1. SlotsOwned'
  BY DEF SlotsOwned, SlotFrom, FateKept
<1>2. SlotsSet'
  <2> SUFFICES ASSUME NEW p \in DOMAIN line, fate'[p] = "slot"
               PROVE  \/ \E s \in PciSlot : conf'.pci[s].from = p
                      \/ \E q \in DOMAIN line : q > p /\ fate'[q] = "slot"
    BY DEF SlotsSet
  <2>1. fate[p] = "slot"
    BY DEF TurnsTo
  <2>2. \A q \in DOMAIN line : fate[q] = "slot" => fate'[q] = "slot"
    BY DEF FateKept
  <2> QED
    BY <2>1, <2>2 DEF SlotsSet
<1>3. SlotsOnce'
  BY DEF SlotsOnce
<1> QED
  BY <1>1, <1>2, <1>3

LEMMA BootSame ==
  ASSUME BootOwned, BootSet, BootRises, line' = line, line \in Seq(Parameter), FateKept,
         NEW how, how # "boot", TurnsTo(how), conf'.boot = conf.boot
  PROVE  BootOwned' /\ BootSet' /\ BootRises'
<1>1. BootOwned'
  BY DEF BootOwned, FateKept
<1>2. BootSet'
  BY DEF BootSet, TurnsTo
<1>3. BootRises'
  BY DEF BootRises
<1> QED
  BY <1>1, <1>2, <1>3

(* Nor does a parameter that sets nothing. *)
LEMMA SettingsSame ==
  ASSUME SettingsInv, line' = line, line \in Seq(Parameter), FateKept, conf' = conf,
         NEW how, how \notin {"option", "unit", "alias", "slot", "boot"}, TurnsTo(how)
  PROVE  SettingsInv'
<1>1. OptionsOwned' /\ OptionsSet'
  BY OptionsSame DEF SettingsInv
<1>2. AliasesGrow /\ UnitsGrow
  BY DEF AliasesGrow, UnitsGrow
<1>3. UnitsOwned' /\ UnitsSet' /\ UnitsOnce'
  BY <1>2, UnitsSame DEF SettingsInv
<1>4. AliasesOwned' /\ AliasesSet' /\ AliasesOnce'
  BY <1>2, AliasesSame DEF SettingsInv
<1>5. SlotsOwned' /\ SlotsSet' /\ SlotsOnce'
  BY SlotsSame DEF SettingsInv
<1>6. BootOwned' /\ BootSet' /\ BootRises'
  BY BootSame DEF SettingsInv
<1> QED
  BY <1>1, <1>3, <1>4, <1>5, <1>6 DEF SettingsInv

(* What a parameter that was not read gives is new. *)
LEMMA NotBehind ==
  ASSUME SettingsInv, NEW p \in DOMAIN line, line \in Seq(Parameter), fate[p] = "unread"
  PROVE  /\ p # 0
         /\ \A k \in Kind, n \in Unit : conf.unit[k][n].from # p
         /\ \A n \in Unit : conf.alias[n] # p
         /\ \A s \in PciSlot : conf.pci[s].from # p
<1>1. p # 0
  OBVIOUS
<1>2. \A k \in Kind, n \in Unit : conf.unit[k][n].from # p
  BY <1>1 DEF SettingsInv, UnitsOwned, UnitFrom
<1>3. \A n \in Unit : conf.alias[n] # p
  BY <1>1 DEF SettingsInv, AliasesOwned, AliasFrom
<1>4. \A s \in PciSlot : conf.pci[s].from # p
  BY <1>1 DEF SettingsInv, SlotsOwned, SlotFrom
<1> QED
  BY <1>1, <1>2, <1>3, <1>4

Gives(p, how) ==
  /\ p \in DOMAIN line /\ fate[p] = "unread" /\ line' = line /\ FateKept /\ TurnsTo(how)
  /\ \A q \in DOMAIN line : fate'[q] = IF q = p THEN how ELSE fate[q]

LEMMA OptionGained ==
  ASSUME SettingsInv, line \in Seq(Parameter), NEW p, Gives(p, "option"),
         line[p].word \in Option, conf.option[line[p].word] = 0,
         \A o \in Option : conf'.option[o] = IF o = line[p].word THEN p ELSE conf.option[o]
  PROVE  OptionsOwned' /\ OptionsSet'
<1>1. /\ p \in DOMAIN line /\ fate'[p] = "option" /\ p # 0 /\ line' = line
      /\ \A q \in DOMAIN line : q # p => fate'[q] = fate[q]
  BY DEF Gives
<1>2. OptionsOwned'
  <2> SUFFICES ASSUME NEW o \in Option, conf'.option[o] # 0
               PROVE  /\ conf'.option[o] \in DOMAIN line /\ fate'[conf'.option[o]] = "option"
                      /\ line[conf'.option[o]].word = o
    BY <1>1 DEF OptionsOwned, OptionFrom
  <2>1. CASE o = line[p].word
    BY <1>1, <2>1
  <2>2. CASE o # line[p].word
    BY <1>1, <2>2 DEF Gives, SettingsInv, OptionsOwned, OptionFrom
  <2> QED
    BY <2>1, <2>2
<1>3. OptionsSet'
  <2> SUFFICES ASSUME NEW q \in DOMAIN line, fate'[q] = "option"
               PROVE  line[q].word \in Option /\ conf'.option[line[q].word] = q
    BY <1>1 DEF OptionsSet
  <2>1. CASE q = p
    BY <2>1
  <2>2. CASE q # p
    <3>1. line[q].word \in Option /\ conf.option[line[q].word] = q /\ q # 0
      BY <1>1, <2>2 DEF SettingsInv, OptionsSet
    <3> QED
      BY <3>1
  <2> QED
    BY <2>1, <2>2
<1> QED
  BY <1>2, <1>3

LEMMA UnitGained ==
  ASSUME SettingsInv, line \in Seq(Parameter), NEW p, NEW how, Gives(p, how), AliasesGrow,
         NEW k \in Kind, NEW n \in Unit, conf.unit[k][n].from = 0,
         \A j \in Kind, m \in Unit :
           conf'.unit[j][m].from = IF j = k /\ m = n THEN p ELSE conf.unit[j][m].from,
         \/ how = "unit" /\ line[p].word = k /\ (line[p].key = "index" => n = line[p].n)
         \/ how = "alias" /\ k = "cobd" /\ conf'.alias[n] = p /\ line[p].value[1] # ":cobd"
         \/ how = "option" /\ k = "cofs" /\ n = LastUnit /\ line[p].word = "initrd"
  PROVE  UnitsOwned' /\ UnitsSet' /\ UnitsOnce' /\ UnitsGrow
<1>1. /\ p \in DOMAIN line /\ fate'[p] = how /\ p # 0 /\ line' = line /\ fate[p] = "unread"
      /\ \A q \in DOMAIN line : q # p => fate'[q] = fate[q]
  BY DEF Gives
<1>2. UnitsOwned'
  <2> SUFFICES ASSUME NEW j \in Kind, NEW m \in Unit, NEW q, q = conf'.unit[j][m].from, q # 0
               PROVE  q \in DOMAIN line' /\ UnitFrom(j, m, q)'
    BY SMTT(30) DEF UnitsOwned, UnitFrom
  <2>1. CASE j = k /\ m = n
    <3>1. q = p
      BY <2>1
    <3>2. UnitFrom(j, m, p)'
      BY <1>1, <2>1 DEF UnitFrom
    <3> QED
      BY <1>1, <3>1, <3>2 DEF UnitFrom
  <2>2. CASE ~(j = k /\ m = n)
    <3>1. q = conf.unit[j][m].from
      BY <2>2
    <3>2. q # 0 /\ q \in DOMAIN line /\ UnitFrom(j, m, q)
      BY <2>2, <3>1 DEF SettingsInv, UnitsOwned
    <3>3. fate'[q] = fate[q]
      BY <3>2 DEF UnitFrom, FateKept, Gives
    <3>4. conf.alias[m] = q => conf'.alias[m] = q
      BY <3>2 DEF AliasesGrow
    <3> QED
      BY <1>1, <3>2, <3>3, <3>4 DEF UnitFrom
  <2> QED
    BY <2>1, <2>2
<1>3. UnitsSet'
  <2> SUFFICES ASSUME NEW q \in DOMAIN line, fate'[q] = "unit"
               PROVE  line[q].word \in Kind /\ \E m \in Unit : conf'.unit[line[q].word][m].from = q
    BY <1>1 DEF UnitsSet
  <2>1. CASE q = p
    <3>1. how = "unit" /\ line[p].word = k
      BY <1>1, <2>1
    <3> QED
      BY <2>1, <3>1
  <2>2. CASE q # p
    <3>1. PICK m \in Unit : line[q].word \in Kind /\ conf.unit[line[q].word][m].from = q
      BY <1>1, <2>2 DEF SettingsInv, UnitsSet
    <3>2. q # 0
      OBVIOUS
    <3> QED
      BY <3>1, <3>2
  <2> QED
    BY <2>1, <2>2
<1>4. UnitsOnce'
  <2>1. \A j \in Kind, m \in Unit : conf.unit[j][m].from # p
    BY <1>1, NotBehind
  <2> QED
    BY <2>1 DEF SettingsInv, UnitsOnce
<1>5. UnitsGrow
  BY DEF UnitsGrow
<1> QED
  BY <1>2, <1>3, <1>4, <1>5

LEMMA AliasGained ==
  ASSUME SettingsInv, line \in Seq(Parameter), NEW p, Gives(p, "alias"), UnitsGrow,
         NEW n \in Unit, conf.alias[n] = 0, conf'.unit["cobd"][n].from # 0,
         \A m \in Unit : conf'.alias[m] = IF m = n THEN p ELSE conf.alias[m],
         line[p].value[1] = ":cobd" => n = line[p].n
  PROVE  AliasesOwned' /\ AliasesSet' /\ AliasesOnce' /\ AliasesGrow
<1>1. /\ p \in DOMAIN line /\ fate'[p] = "alias" /\ p # 0 /\ line' = line /\ fate[p] = "unread"
      /\ \A q \in DOMAIN line : q # p => fate'[q] = fate[q]
  BY DEF Gives
<1>2. AliasesOwned'
  <2> SUFFICES ASSUME NEW m \in Unit, NEW q, q = conf'.alias[m], q # 0
               PROVE  q \in DOMAIN line' /\ AliasFrom(m, q)'
    BY DEF AliasesOwned, AliasFrom
  <2>1. CASE m = n
    BY <1>1, <2>1 DEF AliasFrom
  <2>2. CASE m # n
    <3>1. q = conf.alias[m]
      BY <2>2
    <3>2. q # 0 /\ q \in DOMAIN line /\ AliasFrom(m, q)
      BY <2>2, <3>1 DEF SettingsInv, AliasesOwned
    <3>3. fate'[q] = fate[q]
      BY <3>2 DEF AliasFrom, FateKept, Gives
    <3>4. conf'.unit["cobd"][m].from # 0
      BY <3>2 DEF AliasFrom, UnitsGrow, Kind
    <3> QED
      BY <1>1, <3>2, <3>3, <3>4 DEF AliasFrom
  <2> QED
    BY <2>1, <2>2
<1>3. AliasesSet'
  <2> SUFFICES ASSUME NEW q \in DOMAIN line, fate'[q] = "alias"
               PROVE  \E m \in Unit : conf'.alias[m] = q
    BY <1>1 DEF AliasesSet
  <2>1. CASE q = p
    BY <2>1
  <2>2. CASE q # p
    <3>1. PICK m \in Unit : conf.alias[m] = q
      BY <1>1, <2>2 DEF SettingsInv, AliasesSet
    <3>2. q # 0
      OBVIOUS
    <3> QED
      BY <3>1, <3>2
  <2> QED
    BY <2>1, <2>2
<1>4. AliasesOnce'
  <2>1. \A m \in Unit : conf.alias[m] # p
    BY <1>1, NotBehind
  <2> QED
    BY <2>1 DEF SettingsInv, AliasesOnce
<1>5. AliasesGrow
  BY DEF AliasesGrow
<1> QED
  BY <1>2, <1>3, <1>4, <1>5

LEMMA SlotGained ==
  ASSUME SettingsInv, line \in Seq(Parameter), NEW p, Gives(p, "slot"), line[p].word = "pci",
         \A q \in DOMAIN line : fate[q] = "slot" => q < p,
         NEW s \in PciSlot, line[p].key = "index" => s[1] = line[p].n,
         \A t \in PciSlot : conf'.pci[t].from = IF t = s THEN p ELSE conf.pci[t].from
  PROVE  SlotsOwned' /\ SlotsSet' /\ SlotsOnce'
<1>1. /\ p \in DOMAIN line /\ fate'[p] = "slot" /\ p # 0 /\ line' = line /\ fate[p] = "unread"
      /\ \A q \in DOMAIN line : q # p => fate'[q] = fate[q]
  BY DEF Gives
<1>2. SlotsOwned'
  <2> SUFFICES ASSUME NEW t \in PciSlot, NEW q, q = conf'.pci[t].from, q # 0
               PROVE  q \in DOMAIN line' /\ SlotFrom(t, q)'
    BY DEF SlotsOwned, SlotFrom
  <2>1. CASE t = s
    BY <1>1, <2>1 DEF SlotFrom
  <2>2. CASE t # s
    BY <1>1, <2>2 DEF SettingsInv, SlotsOwned, SlotFrom, FateKept, Gives
  <2> QED
    BY <2>1, <2>2
<1>3. SlotsSet'
  <2> SUFFICES ASSUME NEW q \in DOMAIN line, fate'[q] = "slot"
               PROVE  \/ \E t \in PciSlot : conf'.pci[t].from = q
                      \/ \E r \in DOMAIN line : r > q /\ fate'[r] = "slot"
    BY <1>1 DEF SlotsSet
  <2>1. CASE q = p
    BY <2>1
  <2>2. CASE q # p
    <3>1. fate[q] = "slot" /\ q < p
      BY <1>1, <2>2
    <3>2. p > q
      BY <3>1
    <3> QED
      BY <1>1, <3>2
  <2> QED
    BY <2>1, <2>2
<1>4. SlotsOnce'
  <2>1. \A t \in PciSlot : conf.pci[t].from # p
    BY <1>1, NotBehind
  <2> QED
    BY <2>1 DEF SettingsInv, SlotsOnce
<1> QED
  BY <1>2, <1>3, <1>4

(* What a step that does not scan leaves of the scan. *)
LEMMA ScanStays ==
  ASSUME ScanInv, scan' = scan, stage' = "scanned" => stage = "scanned" PROVE ScanInv'
<1>1. \A k : Commented(k)' = Commented(k)
  BY DEF Commented
<1>2. \A a, b : Quotes(a, b)' = Quotes(a, b)
  <2> SUFFICES ASSUME NEW a, NEW b PROVE Quotes(a, b)' = Quotes(a, b)
    OBVIOUS
  <2>1. {k \in a..b : scan'.text[k] = "quote"} = {k \in a..b : scan.text[k] = "quote"}
    OBVIOUS
  <2> QED
    BY <2>1 DEF Quotes
<1>3. \A a, k : Stops(a, k)' = Stops(a, k)
  BY <1>2 DEF Stops
<1>4. \A a, b : FoundRight(a, b)' = FoundRight(a, b)
  BY <1>1, <1>3 DEF FoundRight
<1>5. PICK t : t = scan
  OBVIOUS
<1>6. /\ scan'.text = scan.text /\ scan'.found = scan.found /\ scan'.state = scan.state
      /\ scan'.start = scan.start
  OBVIOUS
<1>7. /\ scan'.text \in Seq(Char \union {"end"}) /\ scan'.found \in Seq(Nat \X Nat)
      /\ scan'.state \in InParameter \union {"INIT", "WHITESPACE", "COMMENT"}
      /\ scan'.state = "COMMENT" <=> Commented(Len(scan'.text) + 1)
  BY <1>6 DEF ScanInv
<1>8. scan'.state \in InParameter =>
       /\ scan'.start \in 1..Len(scan'.text)
       /\ scan'.text[scan'.start] = "letter" /\ ~Commented(scan'.start)
       /\ \A k \in scan'.start..Len(scan'.text) : ~Stops(scan'.start, k)
       /\ scan'.state = "EQUAL_STR" <=> Quotes(scan'.start, Len(scan'.text)) % 2 = 1
       /\ \A i \in DOMAIN scan'.found : scan'.found[i][2] < scan'.start
  BY <1>6 DEF ScanInv
<1>9. /\ \A i \in DOMAIN scan'.found :
           /\ FoundRight(scan'.found[i][1], scan'.found[i][2])
           /\ i > 1 => scan'.found[i - 1][2] < scan'.found[i][1]
      /\ \A k \in DOMAIN scan'.text :
           scan'.text[k] = "letter" /\ ~Commented(k) =>
             \/ \E i \in DOMAIN scan'.found : k \in scan'.found[i][1]..scan'.found[i][2]
             \/ scan'.state \in InParameter /\ scan'.start <= k
      /\ stage' = "scanned" => scan'.state \notin InParameter
  BY <1>6 DEF ScanInv
<1> QED
  BY <1>1, <1>2, <1>3, <1>4, <1>7, <1>8, <1>9 DEF ScanInv

LEMMA DevicesStay ==
  ASSUME DevicesExist, UnitsGrow, \A s \in PciSlot : conf'.pci[s] = conf.pci[s],
         stage' \notin {"running", "over"}
  PROVE  DevicesExist'
<1>1. \A k \in Kind : Enabled(k) \subseteq Enabled(k)'
  BY DEF Enabled, UnitsGrow
<1>2. "scsi" \in Kind /\ "eth" \in Kind
  BY DEF Kind
<1>3. ASSUME NEW s \in PciSlot, conf'.pci[s].from # 0
      PROVE  LET f == conf'.pci[s].fields IN
               IF f[2] = "scsi" THEN Enabled("scsi")' # {} ELSE Number(f[3]) \in Enabled("eth")'
  <2>1. PICK f : f = conf.pci[s].fields
    OBVIOUS
  <2>2. f = conf'.pci[s].fields
    BY <2>1
  <2>3. IF f[2] = "scsi" THEN Enabled("scsi") # {} ELSE Number(f[3]) \in Enabled("eth")
    BY <1>3, <2>1 DEF DevicesExist
  <2> QED
    BY <1>1, <1>2, <2>2, <2>3
<1> QED
  BY <1>3 DEF DevicesExist, Number

LEMMA HeededStays ==
  ASSUME HeededInv, line' = line, line \in Seq(Parameter), FateKept, NEW how, TurnsTo(how),
         how \notin {"no memory", "lost"}, conf'.boot = conf.boot,
         stage \notin {"boot", "error"}, stage' \notin Decided,
         how = "ignored" =>
           \A p \in DOMAIN line : fate'[p] # fate[p] => line[p].word = "color",
         how = "refused" => stage' = "error" \/ (stage' = "boot" /\ ~parsed')
  PROVE  HeededInv'
<1>1. ASSUME NEW p \in DOMAIN line
      PROVE  /\ fate'[p] = "refused" => stage' = "error" \/ (stage' = "boot" /\ ~parsed')
             /\ fate'[p] = "no memory" => line[p].file
             /\ fate'[p] = "ignored" => line[p].word = "color"
             /\ fate'[p] = "lost" => Len(conf'.boot) = BootRoom
  <2>1. CASE fate'[p] = fate[p]
    BY <2>1 DEF HeededInv
  <2>2. CASE fate'[p] # fate[p]
    BY <2>2 DEF TurnsTo
  <2> QED
    BY <2>1, <2>2
<1> QED
  BY <1>1 DEF HeededInv

LEMMA StageStays ==
  ASSUME StageInv, line' = line, NEW how, TurnsTo(how), how \notin {"boot", "lost"},
         NEW s \in Parser, stage = s, stage' \in {s, After(s), "boot", "check", "error"},
         \A o \in Option \ {s} : conf'.option[o] = conf.option[o],
         stage' = s => conf'.option = conf.option
  PROVE  StageInv'
<1>1. PICK i \in 1..29 : s = Order[i] /\ After(s) = Order[i + 1]
  BY TurnsPass
<1>2. i \in 1..30 /\ i + 1 \in 1..30 /\ 30 \in 1..30 /\ Order[30] = "boot" /\ "boot" \notin Option
  BY OrderIs DEF Option
<1>3. "boot" \in Turns /\ s \in Turns /\ "check" \notin Turns /\ "error" \notin Turns
  BY TurnsAre
<1>4. ASSUME NEW k \in 1..30, stage' = Order[k], NEW j \in k..30, Order[j] \in Option
      PROVE  conf'.option[Order[j]] = 0
  <2>0. j \in 1..30
    OBVIOUS
  <2>1. CASE stage' = s
    <3>1. stage = Order[k] /\ conf'.option = conf.option
      BY <1>4, <2>1
    <3> QED
      BY <1>4, <3>1 DEF StageInv
  <2>2. CASE stage' = After(s)
    <3>1. k = i + 1
      <4>1. Order[k] = Order[i + 1]
        BY <1>1, <1>4, <2>2
      <4> QED
        BY <1>2, <4>1, TurnsDiffer
    <3>2. j \in i..30 /\ j # i
      BY <3>1
    <3>3. Order[j] # s
      BY <1>1, <1>2, <2>0, <3>2, OneTurnEach
    <3>4. conf.option[Order[j]] = 0
      BY <1>1, <1>2, <1>4, <3>2 DEF StageInv
    <3> QED
      BY <1>4, <3>3, <3>4
  <2>3. CASE stage' = "boot"
    <3>1. k = 30
      <4>1. Order[k] = Order[30]
        BY <1>2, <1>4, <2>3
      <4> QED
        BY <1>2, <4>1, TurnsDiffer
    <3>2. j = 30
      BY <3>1
    <3> QED
      BY <1>2, <1>4, <3>2
  <2>4. CASE stage' \in {"check", "error"}
    BY <1>3, <1>4, <2>4 DEF Turns
  <2> QED
    BY <2>1, <2>2, <2>3, <2>4
<1>5. ASSUME stage' \in Turns, NEW p \in DOMAIN line PROVE fate'[p] \notin {"boot", "lost"}
  BY <1>3 DEF StageInv, TurnsTo
<1> QED
  BY <1>4, <1>5 DEF StageInv

(* A parser leaves everything in order when it leaves the parameters and settings in order. *)
LEMMA ParserKeeps ==
  ASSUME ConfigInv, NEW s \in Parser, stage = s, line' = line, scan' = scan, parsed' \in BOOLEAN,
         ArgvNext, FateKept, NEW how, TurnsTo(how), how \notin {"no memory", "lost", "boot"},
         ArgvInv', SettingsInv', ConfTyped', DevicesExist', conf'.boot = conf.boot,
         stage' \in {s, After(s), "boot", "check", "error"},
         \A o \in Option \ {s} : conf'.option[o] = conf.option[o],
         stage' = s => conf'.option = conf.option,
         how = "ignored" =>
           \A p \in DOMAIN line : fate'[p] # fate[p] => line[p].word = "color",
         how = "refused" => stage' = "error" \/ (stage' = "boot" /\ ~parsed')
  PROVE  ConfigInv'
<1>1. /\ stage' \in Turns \union {"check", "error"} /\ stage' \notin Decided /\ stage' \notin Unread
      /\ s \notin {"boot", "error"}
  <2>1. /\ Turns \intersect (Unread \union Decided \union {"check", "error"}) = {}
        /\ "boot" \in Turns /\ s \in Turns /\ After(s) \in Turns
    BY TurnsAre
  <2>2. {"check", "error"} \intersect (Unread \union Decided) = {}
    BY DEF Unread, Decided
  <2>3. s # "boot" /\ s # "error"
    BY TurnsPass
  <2> QED
    BY <2>1, <2>2, <2>3
<1>2. LineTyped'
  BY <1>1 DEF ArgvNext, LineTyped, ConfigInv
<1>3. StageInv'
  BY StageStays DEF ConfigInv
<1>4. HeededInv'
  BY <1>1, HeededStays DEF ConfigInv, LineTyped
<1>5. ScanInv'
  <2>1. stage' # "scanned"
    BY <1>1 DEF Unread
  <2> QED
    BY <2>1, ScanStays DEF ConfigInv
<1> QED
  BY <1>2, <1>3, <1>4, <1>5 DEF ConfigInv

LEMMA NothingTaken ==
  ASSUME LineTyped, ArgvInv, line' = line, argv' = argv, fate' = fate
  PROVE  ArgvNext /\ FateKept /\ TurnsTo("switch") /\ ArgvInv'
<1>1. ArgvNext
  BY DEF LineTyped, ArgvInv, ArgvNext
<1>2. FateKept /\ TurnsTo("switch")
  BY DEF FateKept, TurnsTo
<1>3. ArgvInv'
  BY DEF ArgvInv
<1> QED
  BY <1>1, <1>2, <1>3

(* A parser that sets nothing. *)
LEMMA ParserSetsNothing ==
  ASSUME ConfigInv, NEW s \in Parser, stage = s, line' = line, scan' = scan, parsed' \in BOOLEAN,
         conf' = conf, ArgvNext, FateKept, ArgvInv',
         NEW how \in {"switch", "ignored", "refused"}, TurnsTo(how),
         stage' \in {s, After(s), "boot", "check", "error"},
         how = "ignored" =>
           \A p \in DOMAIN line : fate'[p] # fate[p] => line[p].word = "color",
         how = "refused" => stage' = "error" \/ (stage' = "boot" /\ ~parsed')
  PROVE  ConfigInv'
<1>1. SettingsInv'
  BY SettingsSame DEF ConfigInv, LineTyped
<1>2. ConfTyped'
  <2>1. PICK F0 : conf \in Configs(F0)
    BY DEF ConfigInv, ConfTyped
  <2> QED
    BY <2>1 DEF ConfTyped
<1>3. DevicesExist'
  <2>1. UnitsGrow /\ \A t \in PciSlot : conf'.pci[t] = conf.pci[t]
    BY DEF UnitsGrow
  <2>2. stage' \notin {"running", "over"}
    <3>1. After(s) \in Turns /\ s \in Turns /\ Turns \intersect Decided = {} /\ "boot" \in Turns
      BY TurnsAre
    <3> QED
      BY <3>1 DEF Decided
  <2> QED
    BY <2>1, <2>2, DevicesStay DEF ConfigInv
<1> QED
  BY <1>1, <1>2, <1>3, ParserKeeps

LEMMA SwitchStep ==
  ASSUME ConfigInv, NEW s \in Plain, Switch(s) PROVE ConfigInv'
<1>1. /\ stage = s /\ s \in Parser /\ stage' = After(s)
      /\ line' = line /\ scan' = scan /\ parsed' = parsed /\ conf' = conf
  BY DEF Switch, Goto, Parser
<1>2. LineTyped /\ ArgvInv /\ parsed' \in BOOLEAN
  BY <1>1 DEF ConfigInv, LineTyped
<1>3. ArgvNext /\ FateKept /\ TurnsTo("switch") /\ ArgvInv'
  <2>1. CASE Found(s) = {}
    <3>1. argv' = argv /\ fate' = fate
      BY <2>1 DEF Switch
    <3> QED
      BY <1>1, <1>2, <3>1, NothingTaken
  <2>2. CASE Found(s) # {}
    <3>1. Take({First(s)}, "switch")
      BY <2>2 DEF Switch
    <3>2. ArgvNext /\ FateKept /\ TurnsTo("switch")
      BY <1>1, <1>2, <2>2, <3>1, TakeFirst, FatesHas DEF TakesFor
    <3> QED
      BY <1>1, <1>2, <3>2, ArgvKept
  <2> QED
    BY <2>1, <2>2
<1> QED
  BY <1>1, <1>2, <1>3, ParserSetsNothing

LEMMA SwitchWithArgumentStep ==
  ASSUME ConfigInv, NEW s \in Optional \union Mandatory, SwitchWithArgument(s) PROVE ConfigInv'
<1>1. /\ stage = s /\ s \in Parser /\ stage' \in {After(s), "error"}
      /\ line' = line /\ scan' = scan /\ parsed' = parsed /\ conf' = conf
  BY DEF SwitchWithArgument, Goto, Parser
<1>2. LineTyped /\ ArgvInv /\ parsed' \in BOOLEAN
  BY <1>1 DEF ConfigInv, LineTyped
<1>3. ArgvNext /\ FateKept /\ TurnsTo("switch") /\ ArgvInv'
  <2>1. CASE argv' = argv /\ fate' = fate
    BY <1>1, <1>2, <2>1, NothingTaken
  <2>2. CASE /\ Found(s) # {}
             /\ Take({First(s)} \union ArgumentOf(s), "switch")
    <3>1. First(s) \in DOMAIN argv /\ argv[First(s)] # 0
      BY <1>2, <2>2, FirstFound DEF LineTyped
    <3>2. /\ {First(s)} \union ArgumentOf(s) \in SUBSET DOMAIN argv
          /\ \A i \in {First(s)} \union ArgumentOf(s) : argv[i] # 0
      BY <3>1 DEF ArgumentOf
    <3>3. ArgvNext /\ FateKept /\ TurnsTo("switch")
      BY <1>1, <1>2, <2>2, <3>2, TakeLeaves, FatesHas
    <3> QED
      BY <1>1, <1>2, <3>3, ArgvKept
  <2> QED
    BY <2>1, <2>2 DEF SwitchWithArgument
<1> QED
  BY <1>1, <1>2, <1>3, ParserSetsNothing

(* The initrd's own unit takes nothing away. *)
LEMMA AutoCofsIs ==
  ASSUME NEW Fields, NEW c \in Configs(Fields), NEW p \in Nat, NEW d, d = AutoCofs(p, c)
  PROVE  /\ \E More : d \in Configs(More)
         /\ d.alias = c.alias /\ d.pci = c.pci /\ d.option = c.option /\ d.boot = c.boot
         /\ \/ \A k \in Kind, n \in Unit : d.unit[k][n].from = c.unit[k][n].from
            \/ /\ c.unit["cofs"][LastUnit].from = 0
               /\ \A k \in Kind, n \in Unit : d.unit[k][n].from =
                    IF k = "cofs" /\ n = LastUnit THEN p ELSE c.unit[k][n].from
<1>1. CASE c.unit["cofs"][LastUnit].from # 0
  <2>1. d = c
    BY <1>1 DEF AutoCofs
  <2> QED
    BY <2>1
<1>2. CASE c.unit["cofs"][LastUnit].from = 0
  <2>1. d = [c EXCEPT !.unit["cofs"][LastUnit] = [from |-> p, fields |-> <<"directory">>]]
    BY <1>2 DEF AutoCofs
  <2>2. "cofs" \in Kind /\ LastUnit \in Unit
    BY ConfigAssumption DEF Kind, Unit
  <2>3. PICK k, x : k = "cofs" /\ x = <<"directory">>
    OBVIOUS
  <2>4. d = UnitTo(c, k, LastUnit, p, x)
    BY <2>1, <2>3 DEF UnitTo
  <2>5. UnitIs(c, k, LastUnit, p, UnitTo(c, k, LastUnit, p, x))
    BY <2>2, <2>3, UnitChanged
  <2>6. UnitIs(c, k, LastUnit, p, d)
    BY <2>4, <2>5
  <2> QED
    BY <1>2, <2>3, <2>6 DEF UnitIs
<1> QED
  BY <1>1, <1>2

LEMMA OneOptionTakes ==
  ASSUME ConfigInv, NEW o \in Option, stage = o, o \in Parser, line' = line, scan' = scan,
         parsed' = parsed, NEW p, TakesFor(o, p, "option"), stage' = After(o),
         NEW set, set = OptionTo(conf, o, p),
         conf' = IF o = "initrd" THEN AutoCofs(p, set) ELSE set
  PROVE  ConfigInv'
<1>1. LineTyped /\ ArgvInv /\ SettingsInv /\ line \in Seq(Parameter) /\ parsed' \in BOOLEAN
  BY DEF ConfigInv, LineTyped
<1>2. /\ ArgvNext /\ FateKept /\ TurnsTo("option")
      /\ p \in DOMAIN line /\ p \in Nat /\ p # 0 /\ line[p].word = o /\ fate[p] = "unread"
      /\ \A q \in DOMAIN line : fate'[q] = IF q = p THEN "option" ELSE fate[q]
  BY DEF TakesFor
<1>3. ArgvInv'
  BY <1>1, <1>2, ArgvKept
<1>4. Gives(p, "option")
  BY <1>2 DEF Gives
<1>5. conf.option[o] = 0
  <2>1. PICK i \in 1..29 : o = Order[i]
    BY TurnsPass
  <2>2. i \in 1..30 /\ i \in i..30
    OBVIOUS
  <2> QED
    BY <2>1, <2>2 DEF ConfigInv, StageInv
<1>6. PICK F0 : conf \in Configs(F0)
  BY DEF ConfigInv, ConfTyped
<1>7. /\ set \in Configs(F0) /\ set.alias = conf.alias /\ set.unit = conf.unit /\ set.pci = conf.pci
      /\ set.boot = conf.boot
      /\ \A q \in Option : set.option[q] = IF q = o THEN p ELSE conf.option[q]
  BY <1>2, <1>6, OptionChanged
<1>8. /\ \E More : conf' \in Configs(More)
      /\ conf'.alias = conf.alias /\ conf'.pci = conf.pci /\ conf'.option = set.option
      /\ conf'.boot = conf.boot
      /\ \/ \A k \in Kind, n \in Unit : conf'.unit[k][n].from = conf.unit[k][n].from
         \/ /\ conf.unit["cofs"][LastUnit].from = 0 /\ o = "initrd"
            /\ \A k \in Kind, n \in Unit : conf'.unit[k][n].from =
                 IF k = "cofs" /\ n = LastUnit THEN p ELSE conf.unit[k][n].from
  <2>1. CASE o # "initrd"
    <3>1. conf' = set
      BY <2>1
    <3> QED
      BY <1>7, <3>1
  <2>2. CASE o = "initrd"
    <3>1. PICK d : d = AutoCofs(p, set)
      OBVIOUS
    <3>2. /\ \E More : d \in Configs(More)
          /\ d.alias = set.alias /\ d.pci = set.pci /\ d.option = set.option /\ d.boot = set.boot
          /\ \/ \A k \in Kind, n \in Unit : d.unit[k][n].from = set.unit[k][n].from
             \/ /\ set.unit["cofs"][LastUnit].from = 0
                /\ \A k \in Kind, n \in Unit : d.unit[k][n].from =
                     IF k = "cofs" /\ n = LastUnit THEN p ELSE set.unit[k][n].from
      BY <1>2, <1>7, <3>1, AutoCofsIs, SMTT(30)
    <3>3. conf' = d
      BY <2>2, <3>1
    <3> QED
      BY <1>7, <2>2, <3>2, <3>3
  <2> QED
    BY <2>1, <2>2
<1>9. ConfTyped'
  BY <1>8 DEF ConfTyped
<1>10. OptionsOwned' /\ OptionsSet'
  <2>1. \A q \in Option : conf'.option[q] = IF q = line[p].word THEN p ELSE conf.option[q]
    BY <1>2, <1>7, <1>8
  <2> QED
    BY <1>1, <1>2, <1>4, <1>5, <2>1, OptionGained
<1>11. AliasesGrow
  BY <1>8 DEF AliasesGrow
<1>12. UnitsOwned' /\ UnitsSet' /\ UnitsOnce' /\ UnitsGrow
  <2>1. CASE \A k \in Kind, n \in Unit : conf'.unit[k][n].from = conf.unit[k][n].from
    <3>1. UnitsGrow
      BY <2>1 DEF UnitsGrow
    <3> QED
      BY <1>1, <1>2, <1>11, <2>1, <3>1, UnitsSame DEF SettingsInv
  <2>2. CASE /\ conf.unit["cofs"][LastUnit].from = 0 /\ o = "initrd"
             /\ \A k \in Kind, n \in Unit : conf'.unit[k][n].from =
                  IF k = "cofs" /\ n = LastUnit THEN p ELSE conf.unit[k][n].from
    <3>1. "cofs" \in Kind /\ LastUnit \in Unit
      BY ConfigAssumption DEF Kind, Unit
    <3> QED
      BY <1>1, <1>2, <1>4, <1>11, <2>2, <3>1, UnitGained
  <2> QED
    BY <1>8, <2>1, <2>2
<1>13. AliasesOwned' /\ AliasesSet' /\ AliasesOnce'
  BY <1>1, <1>2, <1>8, <1>12, AliasesSame DEF SettingsInv
<1>14. SlotsOwned' /\ SlotsSet' /\ SlotsOnce'
  BY <1>1, <1>2, <1>8, SlotsSame DEF SettingsInv
<1>15. BootOwned' /\ BootSet' /\ BootRises'
  BY <1>1, <1>2, <1>8, BootSame DEF SettingsInv
<1>16. SettingsInv'
  BY <1>10, <1>12, <1>13, <1>14, <1>15 DEF SettingsInv
<1>17. stage' \notin {"running", "over"}
  BY TurnsAre DEF Decided
<1>18. DevicesExist'
  <2>1. \A t \in PciSlot : conf'.pci[t] = conf.pci[t]
    BY <1>8
  <2> QED
    BY <1>12, <1>17, <2>1, DevicesStay DEF ConfigInv
<1>19. /\ stage' \in {o, After(o), "boot", "check", "error"} /\ stage' # o
       /\ \A q \in Option \ {o} : conf'.option[q] = conf.option[q]
  <2>1. PICK i \in 1..29 : o = Order[i] /\ After(o) = Order[i + 1]
    BY TurnsPass
  <2>2. i \in 1..30 /\ i + 1 \in 1..30 /\ i + 1 # i
    OBVIOUS
  <2>3. After(o) # o
    BY <2>1, <2>2, TurnsDiffer
  <2> QED
    BY <1>7, <1>8, <2>3
<1> QED
  BY <1>1, <1>2, <1>3, <1>8, <1>9, <1>16, <1>18, <1>19, ParserKeeps

LEMMA OneOptionStep ==
  ASSUME ConfigInv, NEW o \in Option, OneOption(o) PROVE ConfigInv'
<1>1. /\ stage = o /\ o \in Parser /\ line' = line /\ scan' = scan
  BY DEF OneOption, Parser
<1>2. LineTyped /\ ArgvInv /\ parsed \in BOOLEAN
  BY DEF ConfigInv, LineTyped
<1>3. CASE Found(o) = {}
  <2>1. /\ argv' = argv /\ fate' = fate /\ conf' = conf /\ parsed' = parsed
        /\ stage' \in {"check", After(o)}
    BY <1>3 DEF OneOption, Goto
  <2>2. ArgvNext /\ FateKept /\ TurnsTo("switch") /\ ArgvInv'
    BY <1>1, <1>2, <2>1, NothingTaken
  <2> QED
    BY <1>1, <1>2, <2>1, <2>2, ParserSetsNothing
<1>4. CASE Found(o) # {}
  <2>1. PICK p : p = argv[First(o)]
    OBVIOUS
  <2>2. PICK set : set = OptionTo(conf, o, p)
    OBVIOUS
  <2>3. \/ /\ Take({First(o)}, "option") /\ conf' = IF o = "initrd" THEN AutoCofs(p, set) ELSE set
           /\ stage' = After(o) /\ parsed' = parsed
        \/ /\ conf' = conf /\ o = "color" /\ Take({First(o)}, "ignored") /\ stage' = After(o)
           /\ parsed' = parsed
        \/ conf' = conf /\ Take({First(o)}, "refused") /\ Refuse(o)
    BY <1>4, <2>1, <2>2 DEF OneOption, Goto, OptionTo
  <2>4. CASE /\ Take({First(o)}, "option")
             /\ conf' = IF o = "initrd" THEN AutoCofs(p, set) ELSE set
             /\ stage' = After(o) /\ parsed' = parsed
    <3>1. TakesFor(o, p, "option")
      BY <1>1, <1>2, <1>4, <2>1, <2>4, TakeFirst, FatesHas
    <3> QED
      BY <1>1, <2>2, <2>4, <3>1, OneOptionTakes
  <2>5. CASE /\ conf' = conf /\ o = "color" /\ Take({First(o)}, "ignored") /\ stage' = After(o)
             /\ parsed' = parsed
    <3>0. TakesFor(o, p, "ignored")
      BY <1>1, <1>2, <1>4, <2>1, <2>5, TakeFirst, FatesHas
    <3>1. /\ ArgvNext /\ FateKept /\ TurnsTo("ignored")
          /\ line[p].word = o
          /\ \A q \in DOMAIN line : fate'[q] = IF q = p THEN "ignored" ELSE fate[q]
      BY <3>0 DEF TakesFor
    <3>2. ArgvInv'
      BY <1>1, <1>2, <3>1, ArgvKept
    <3>3. \A q \in DOMAIN line : fate'[q] # fate[q] => line[q].word = "color"
      BY <2>5, <3>1
    <3> QED
      BY <1>1, <1>2, <2>5, <3>1, <3>2, <3>3, ParserSetsNothing
  <2>6. CASE conf' = conf /\ Take({First(o)}, "refused") /\ Refuse(o)
    <3>1. /\ ArgvNext /\ FateKept /\ TurnsTo("refused")
      BY <1>1, <1>2, <1>4, <2>6, TakeFirst, FatesHas DEF TakesFor
    <3>2. ArgvInv'
      BY <1>1, <1>2, <3>1, ArgvKept
    <3>3. (stage' = "error" /\ parsed' = parsed) \/ (stage' = "boot" /\ parsed' = FALSE)
      BY <2>6 DEF Refuse, Goto
    <3>4. parsed' \in BOOLEAN /\ (stage' = "error" \/ (stage' = "boot" /\ ~parsed'))
      BY <1>2, <3>3
    <3> QED
      BY <1>1, <2>6, <3>1, <3>2, <3>4, ParserSetsNothing
  <2> QED
    BY <2>3, <2>4, <2>5, <2>6
<1> QED
  BY <1>3, <1>4

LEMMA NoneOrRefused ==
  ASSUME ConfigInv, NEW s \in Parser, stage = s, NoMore(s) \/ RefusesDevice(s) PROVE ConfigInv'
<1>1. line' = line /\ scan' = scan /\ conf' = conf
  BY DEF NoMore, RefusesDevice
<1>2. LineTyped /\ ArgvInv /\ parsed \in BOOLEAN
  BY DEF ConfigInv, LineTyped
<1>3. CASE NoMore(s)
  <2>1. argv' = argv /\ fate' = fate /\ parsed' = parsed /\ stage' = After(s)
    BY <1>3 DEF NoMore, Goto
  <2>2. ArgvNext /\ FateKept /\ TurnsTo("switch") /\ ArgvInv'
    BY <1>1, <1>2, <2>1, NothingTaken
  <2> QED
    BY <1>1, <1>2, <2>1, <2>2, ParserSetsNothing
<1>4. CASE RefusesDevice(s)
  <2>1. /\ Found(s) # {} /\ Take({First(s)}, "refused")
        /\ stage' = "boot" /\ parsed' = FALSE
    BY <1>4 DEF RefusesDevice, Goto
  <2>2. TakesFor(s, argv[First(s)], "refused")
    BY <1>1, <1>2, <2>1, TakeFirst, FatesHas
  <2>3. ArgvNext /\ FateKept /\ TurnsTo("refused")
    BY <2>2 DEF TakesFor
  <2>4. ArgvInv'
    BY <1>1, <1>2, <2>3, ArgvKept
  <2> QED
    BY <1>1, <2>1, <2>3, <2>4, ParserSetsNothing
<1> QED
  BY <1>3, <1>4

(* What the parameter that a device or an alias took leaves as it was. *)
LEMMA TookOne ==
  ASSUME ConfigInv, NEW s, NEW p, NEW how \in {"unit", "alias"}, TakesFor(s, p, how),
         line' = line
  PROVE  /\ LineTyped /\ SettingsInv /\ line \in Seq(Parameter) /\ parsed \in BOOLEAN
         /\ ArgvNext /\ FateKept /\ TurnsTo(how) /\ ArgvInv'
         /\ p \in DOMAIN line /\ p \in Nat /\ p # 0 /\ line[p].word = s /\ Gives(p, how)
<1>1. LineTyped /\ ArgvInv /\ SettingsInv /\ line \in Seq(Parameter) /\ parsed \in BOOLEAN
  BY DEF ConfigInv, LineTyped
<1>2. /\ ArgvNext /\ FateKept /\ TurnsTo(how)
      /\ p \in DOMAIN line /\ p \in Nat /\ p # 0 /\ line[p].word = s /\ fate[p] = "unread"
      /\ \A q \in DOMAIN line : fate'[q] = IF q = p THEN how ELSE fate[q]
  BY DEF TakesFor
<1>3. Gives(p, how)
  BY <1>2 DEF Gives
<1>4. how # "slot"
  OBVIOUS
<1>5. ArgvInv'
  BY <1>1, <1>2, <1>4, ArgvKept
<1> QED
  BY <1>1, <1>2, <1>3, <1>5

LEMMA DeviceTakes ==
  ASSUME ConfigInv, NEW k \in Kind, stage = k, k \in Parser, line' = line, scan' = scan,
         parsed' = parsed, stage' = stage, NEW p, TakesFor(k, p, "unit"),
         NEW n \in Unit, conf.unit[k][n].from = 0, line[p].key = "index" => n = line[p].n,
         UnitIs(conf, k, n, p, conf')
  PROVE  ConfigInv'
<1>1. /\ LineTyped /\ SettingsInv /\ line \in Seq(Parameter) /\ parsed \in BOOLEAN
      /\ ArgvNext /\ FateKept /\ TurnsTo("unit") /\ ArgvInv'
      /\ p \in DOMAIN line /\ p \in Nat /\ p # 0 /\ line[p].word = k /\ Gives(p, "unit")
  BY TookOne
<1>2. /\ \E Fields : conf' \in Configs(Fields)
      /\ conf'.alias = conf.alias /\ conf'.pci = conf.pci /\ conf'.option = conf.option
      /\ conf'.boot = conf.boot
      /\ \A j \in Kind, m \in Unit :
           conf'.unit[j][m].from = IF j = k /\ m = n THEN p ELSE conf.unit[j][m].from
  BY DEF UnitIs
<1>3. ConfTyped'
  BY <1>2 DEF ConfTyped
<1>4. AliasesGrow
  BY <1>2 DEF AliasesGrow
<1>5. UnitsOwned' /\ UnitsSet' /\ UnitsOnce' /\ UnitsGrow
  BY <1>1, <1>2, <1>4, UnitGained
<1>6. AliasesOwned' /\ AliasesSet' /\ AliasesOnce'
  BY <1>1, <1>2, <1>5, AliasesSame DEF SettingsInv
<1>7. SlotsOwned' /\ SlotsSet' /\ SlotsOnce'
  BY <1>1, <1>2, SlotsSame DEF SettingsInv
<1>8. BootOwned' /\ BootSet' /\ BootRises'
  BY <1>1, <1>2, BootSame DEF SettingsInv
<1>9. OptionsOwned' /\ OptionsSet'
  BY <1>1, <1>2, OptionsSame DEF SettingsInv
<1>10. SettingsInv'
  BY <1>5, <1>6, <1>7, <1>8, <1>9 DEF SettingsInv
<1>11. DevicesExist'
  <2>1. stage' \notin {"running", "over"}
    BY TurnsAre DEF Decided
  <2>2. \A s \in PciSlot : conf'.pci[s] = conf.pci[s]
    BY <1>2
  <2> QED
    BY <1>5, <2>1, <2>2, DevicesStay DEF ConfigInv
<1>12. /\ \A o \in Option \ {k} : conf'.option[o] = conf.option[o]
       /\ stage' = k
  BY <1>2
<1> QED
  BY <1>1, <1>2, <1>3, <1>10, <1>11, <1>12, ParserKeeps

LEMMA DeviceStep ==
  ASSUME ConfigInv, NEW kind \in Kind, Device(kind) PROVE ConfigInv'
<1>1. stage = kind /\ kind \in Parser
  BY DEF Device, Parser
<1>2. CASE NoMore(kind) \/ RefusesDevice(kind)
  BY <1>1, <1>2, NoneOrRefused
<1>3. CASE ~(NoMore(kind) \/ RefusesDevice(kind))
  <2>1. PICK p : p = argv[First(kind)]
    OBVIOUS
  <2>2. PICK x : x = Parsed(kind, line[p].value)
    OBVIOUS
  <2>3. /\ Found(kind) # {} /\ Take({First(kind)}, "unit")
        /\ line' = line /\ stage' = stage /\ parsed' = parsed /\ scan' = scan
    BY <1>3 DEF Device
  <2>4. PICK n \in IndexOf(line[p]) :
          /\ conf.unit[kind][n].from = 0
          /\ conf' = [conf EXCEPT !.unit[kind][n] = [from |-> p, fields |-> x]]
    BY <1>3, <2>1, <2>2 DEF Device
  <2>5. n \in Unit /\ (line[p].key = "index" => n = line[p].n)
    BY <2>4 DEF IndexOf
  <2>6. LineTyped /\ ArgvInv
    BY DEF ConfigInv
  <2>7. TakesFor(kind, p, "unit")
    BY <2>1, <2>3, <2>6, TakeFirst, FatesHas
  <2>8. PICK F0 : conf \in Configs(F0)
    BY DEF ConfigInv, ConfTyped
  <2>9. p \in Nat
    BY <2>7 DEF TakesFor
  <2>10. conf' = UnitTo(conf, kind, n, p, x)
    BY <2>4 DEF UnitTo
  <2>11. UnitIs(conf, kind, n, p, UnitTo(conf, kind, n, p, x))
    BY <2>5, <2>8, <2>9, UnitChanged
  <2>12. UnitIs(conf, kind, n, p, conf')
    BY <2>10, <2>11
  <2> QED
    BY <1>1, <2>3, <2>4, <2>5, <2>7, <2>12, DeviceTakes
<1> QED
  BY <1>2, <1>3

(* An alias is set, and maybe the unit it is for. *)
LEMMA AliasTakes ==
  ASSUME ConfigInv, NEW s \in Prefix, stage = s, s \in Parser, line' = line, scan' = scan,
         parsed' = parsed, stage' = stage, NEW p, TakesFor(s, p, "alias"),
         NEW n \in Unit, conf.alias[n] = 0, \E Fields : conf' \in Configs(Fields),
         conf'.pci = conf.pci, conf'.option = conf.option, conf'.boot = conf.boot,
         \A m \in Unit : conf'.alias[m] = IF m = n THEN p ELSE conf.alias[m],
         \/ /\ line[p].value[1] = ":cobd" /\ n = line[p].n /\ conf.unit["cobd"][n].from # 0
            /\ conf'.unit = conf.unit
         \/ /\ line[p].value[1] # ":cobd" /\ conf.unit["cobd"][n].from = 0
            /\ \A j \in Kind, m \in Unit :
                 conf'.unit[j][m].from = IF j = "cobd" /\ m = n THEN p ELSE conf.unit[j][m].from
  PROVE  ConfigInv'
<1>1. /\ LineTyped /\ SettingsInv /\ line \in Seq(Parameter) /\ parsed \in BOOLEAN
      /\ ArgvNext /\ FateKept /\ TurnsTo("alias") /\ ArgvInv'
      /\ p \in DOMAIN line /\ p \in Nat /\ p # 0 /\ line[p].word = s /\ Gives(p, "alias")
  BY TookOne
<1>2. ConfTyped'
  BY DEF ConfTyped
<1>3. AliasesGrow
  BY DEF AliasesGrow
<1>4. "cobd" \in Kind
  BY DEF Kind
<1>5. UnitsOwned' /\ UnitsSet' /\ UnitsOnce' /\ UnitsGrow /\ conf'.unit["cobd"][n].from # 0
  <2>1. CASE line[p].value[1] = ":cobd"
    <3>1. /\ \A j \in Kind, m \in Unit : conf'.unit[j][m].from = conf.unit[j][m].from
          /\ conf'.unit["cobd"][n].from # 0
      BY <2>1
    <3>2. UnitsGrow
      BY <3>1 DEF UnitsGrow
    <3> QED
      BY <1>1, <1>3, <3>1, <3>2, UnitsSame DEF SettingsInv
  <2>2. CASE line[p].value[1] # ":cobd"
    <3>1. /\ conf.unit["cobd"][n].from = 0
          /\ \A j \in Kind, m \in Unit :
               conf'.unit[j][m].from = IF j = "cobd" /\ m = n THEN p ELSE conf.unit[j][m].from
      BY <2>2
    <3>2. conf'.alias[n] = p
      OBVIOUS
    <3>3. UnitsOwned' /\ UnitsSet' /\ UnitsOnce' /\ UnitsGrow
      BY <1>1, <1>3, <1>4, <2>2, <3>1, <3>2, UnitGained
    <3> QED
      BY <1>1, <1>4, <3>1, <3>3
  <2> QED
    BY <2>1, <2>2
<1>6. AliasesOwned' /\ AliasesSet' /\ AliasesOnce'
  BY <1>1, <1>5, AliasGained
<1>7. SlotsOwned' /\ SlotsSet' /\ SlotsOnce'
  BY <1>1, SlotsSame DEF SettingsInv
<1>8. BootOwned' /\ BootSet' /\ BootRises'
  BY <1>1, BootSame DEF SettingsInv
<1>9. OptionsOwned' /\ OptionsSet'
  BY <1>1, OptionsSame DEF SettingsInv
<1>10. SettingsInv'
  BY <1>5, <1>6, <1>7, <1>8, <1>9 DEF SettingsInv
<1>11. DevicesExist'
  <2>1. stage' \notin {"running", "over"}
    BY TurnsAre DEF Decided
  <2>2. \A t \in PciSlot : conf'.pci[t] = conf.pci[t]
    OBVIOUS
  <2> QED
    BY <1>5, <2>1, <2>2, DevicesStay DEF ConfigInv
<1>12. /\ \A o \in Option \ {s} : conf'.option[o] = conf.option[o]
       /\ stage' = s
  OBVIOUS
<1> QED
  BY <1>1, <1>2, <1>10, <1>11, <1>12, ParserKeeps

LEMMA AliasStep ==
  ASSUME ConfigInv, NEW prefix \in Prefix, Alias(prefix) PROVE ConfigInv'
<1>1. stage = prefix /\ prefix \in Parser
  BY DEF Alias, Parser
<1>2. CASE NoMore(prefix) \/ RefusesDevice(prefix)
  BY <1>1, <1>2, NoneOrRefused
<1>3. CASE ~(NoMore(prefix) \/ RefusesDevice(prefix))
  <2>1. PICK p : p = argv[First(prefix)]
    OBVIOUS
  <2>2. PICK arg : arg = line[p]
    OBVIOUS
  <2>3. /\ Found(prefix) # {} /\ Take({First(prefix)}, "alias")
        /\ line' = line /\ stage' = stage /\ parsed' = parsed /\ scan' = scan
    BY <1>3 DEF Alias
  <2>4. IF arg.value[1] = ":cobd"
        THEN /\ arg.n \in Unit
             /\ conf.unit["cobd"][arg.n].from # 0 /\ conf.alias[arg.n] = 0
             /\ conf' = AliasTo(conf, arg.n, p)
        ELSE \E n \in AllocateByAlias(conf) :
               conf' = [conf EXCEPT !.alias[n] = p,
                          !.unit["cobd"][n] = [from |-> p, fields |-> arg.value]]
    BY <1>3, <2>1, <2>2 DEF Alias, AliasTo
  <2>5. LineTyped /\ ArgvInv
    BY DEF ConfigInv
  <2>6. TakesFor(prefix, p, "alias")
    BY <2>1, <2>3, <2>5, TakeFirst, FatesHas
  <2>7. PICK F0 : conf \in Configs(F0)
    BY DEF ConfigInv, ConfTyped
  <2>8. p \in Nat
    BY <2>6 DEF TakesFor
  <2>9. CASE arg.value[1] = ":cobd"
    <3>1. PICK n : n = arg.n
      OBVIOUS
    <3>2. /\ n \in Unit /\ conf.unit["cobd"][n].from # 0 /\ conf.alias[n] = 0
          /\ conf' = AliasTo(conf, n, p)
      BY <2>4, <2>9, <3>1
    <3>3. PICK d : d = AliasTo(conf, n, p)
      OBVIOUS
    <3>4. /\ d \in Configs(F0)
          /\ d.option = conf.option /\ d.unit = conf.unit /\ d.pci = conf.pci /\ d.boot = conf.boot
          /\ \A m \in Unit : d.alias[m] = IF m = n THEN p ELSE conf.alias[m]
      BY <2>7, <2>8, <3>2, <3>3, AliasChanged
    <3>5. conf' = d
      BY <3>2, <3>3
    <3> QED
      BY <1>1, <2>2, <2>3, <2>6, <2>9, <3>1, <3>2, <3>4, <3>5, AliasTakes
  <2>10. CASE arg.value[1] # ":cobd"
    <3>1. PICK n \in AllocateByAlias(conf) :
            conf' = [conf EXCEPT !.alias[n] = p,
                       !.unit["cobd"][n] = [from |-> p, fields |-> arg.value]]
      BY <2>4, <2>10
    <3>2. n \in Unit /\ conf.unit["cobd"][n].from = 0
      BY DEF AllocateByAlias, Lowest
    <3>3. conf.alias[n] = 0
      BY <3>2 DEF ConfigInv, SettingsInv, AliasesOwned, AliasFrom
    <3>4. PICK x : x = arg.value
      OBVIOUS
    <3>5. PICK c : c = AliasTo(conf, n, p)
      OBVIOUS
    <3>6. PICK k : k = "cobd" /\ k \in Kind
      BY DEF Kind
    <3>7. conf' = UnitTo(c, k, n, p, x)
      BY <2>7, <3>1, <3>2, <3>4, <3>5, <3>6 DEF UnitTo, AliasTo, Configs
    <3>8. /\ c \in Configs(F0)
          /\ c.option = conf.option /\ c.unit = conf.unit /\ c.pci = conf.pci /\ c.boot = conf.boot
          /\ \A m \in Unit : c.alias[m] = IF m = n THEN p ELSE conf.alias[m]
      BY <2>7, <2>8, <3>2, <3>5, AliasChanged
    <3>9. UnitIs(c, k, n, p, UnitTo(c, k, n, p, x))
      BY <2>8, <3>2, <3>6, <3>8, UnitChanged
    <3>10. PICK d : d = conf'
      OBVIOUS
    <3>11. UnitIs(c, k, n, p, d)
      BY <3>7, <3>9, <3>10
    <3>12. /\ \E Fields : d \in Configs(Fields)
           /\ d.alias = c.alias /\ d.pci = c.pci /\ d.option = c.option /\ d.boot = c.boot
           /\ \A j \in Kind, m \in Unit :
                d.unit[j][m].from = IF j = k /\ m = n THEN p ELSE c.unit[j][m].from
      BY <3>11 DEF UnitIs
    <3>13. /\ \E Fields : d \in Configs(Fields)
           /\ d.pci = conf.pci /\ d.option = conf.option /\ d.boot = conf.boot
           /\ \A m \in Unit : d.alias[m] = IF m = n THEN p ELSE conf.alias[m]
           /\ \A j \in Kind, m \in Unit :
                d.unit[j][m].from = IF j = "cobd" /\ m = n THEN p ELSE conf.unit[j][m].from
      BY <3>6, <3>8, <3>12
    <3> QED
      BY <1>1, <2>2, <2>3, <2>6, <2>10, <3>2, <3>3, <3>10, <3>13, AliasTakes
  <2> QED
    BY <2>9, <2>10
<1> QED
  BY <1>2, <1>3

(* A parameter gives its slot a device that exists. *)
LEMMA PciTakes ==
  ASSUME ConfigInv, stage = "pci", line' = line, scan' = scan, parsed' = parsed, stage' = stage,
         NEW p, TakesFor("pci", p, "slot"), NEW s \in PciSlot,
         line[p].key = "index" => s[1] = line[p].n, NEW f,
         IF f[2] = "scsi" THEN Enabled("scsi") # {} ELSE Number(f[3]) \in Enabled("eth"),
         \E Fields : conf' \in Configs(Fields), conf'.alias = conf.alias, conf'.unit = conf.unit,
         conf'.option = conf.option, conf'.boot = conf.boot,
         \A t \in PciSlot : conf'.pci[t] = IF t = s THEN [from |-> p, fields |-> f] ELSE conf.pci[t]
  PROVE  ConfigInv'
<1>1. LineTyped /\ ArgvInv /\ SettingsInv /\ line \in Seq(Parameter) /\ parsed \in BOOLEAN
  BY DEF ConfigInv, LineTyped
<1>2. /\ ArgvNext /\ FateKept /\ TurnsTo("slot")
      /\ p \in DOMAIN line /\ p \in Nat /\ p # 0 /\ line[p].word = "pci" /\ fate[p] = "unread"
      /\ \A q \in DOMAIN line : fate'[q] = IF q = p THEN "slot" ELSE fate[q]
      /\ \A i \in DOMAIN argv' : argv'[i] # 0 /\ line[argv'[i]].word = "pci" => p < argv'[i]
  BY DEF TakesFor
<1>3. Gives(p, "slot")
  BY <1>2 DEF Gives
<1>4. ArgvInv'
  <2>1. \A q \in DOMAIN line, i \in DOMAIN argv' :
          fate'[q] # fate[q] /\ fate'[q] = "slot" /\ argv'[i] # 0
            /\ line[argv'[i]].word = "pci" => q < argv'[i]
    BY <1>2
  <2> QED
    BY <1>1, <1>2, <2>1, ArgvKept
<1>5. \A q \in DOMAIN line : fate[q] = "slot" => q < p
  <2>1. PICK i \in DOMAIN argv : argv[i] = p
    BY <1>1, <1>2 DEF ArgvInv
  <2> QED
    BY <1>1, <1>2, <2>1 DEF ArgvInv
<1>6. \A t \in PciSlot : conf'.pci[t].from = IF t = s THEN p ELSE conf.pci[t].from
  OBVIOUS
<1>7. SlotsOwned' /\ SlotsSet' /\ SlotsOnce'
  BY <1>1, <1>2, <1>3, <1>5, <1>6, SlotGained
<1>8. AliasesGrow /\ UnitsGrow
  BY DEF AliasesGrow, UnitsGrow
<1>9. UnitsOwned' /\ UnitsSet' /\ UnitsOnce'
  BY <1>1, <1>2, <1>8, UnitsSame DEF SettingsInv
<1>10. AliasesOwned' /\ AliasesSet' /\ AliasesOnce'
  BY <1>1, <1>2, <1>8, AliasesSame DEF SettingsInv
<1>11. BootOwned' /\ BootSet' /\ BootRises'
  BY <1>1, <1>2, BootSame DEF SettingsInv
<1>12. OptionsOwned' /\ OptionsSet'
  BY <1>1, <1>2, OptionsSame DEF SettingsInv
<1>13. SettingsInv'
  BY <1>7, <1>9, <1>10, <1>11, <1>12 DEF SettingsInv
<1>14. DevicesExist'
  <2>1. stage' \notin {"running", "over"}
    OBVIOUS
  <2>2. \A k : Enabled(k)' = Enabled(k)
    BY DEF Enabled
  <2>3. ASSUME NEW t \in PciSlot, conf'.pci[t].from # 0
        PROVE  IF conf'.pci[t].fields[2] = "scsi" THEN Enabled("scsi")' # {}
               ELSE Number(conf'.pci[t].fields[3]) \in Enabled("eth")'
    <3>1. CASE t = s
      <4>1. conf'.pci[t].fields = f
        BY <3>1
      <4> QED
        BY <2>2, <4>1
    <3>2. CASE t # s
      <4>1. conf'.pci[t] = conf.pci[t]
        BY <3>2
      <4>2. IF conf.pci[t].fields[2] = "scsi" THEN Enabled("scsi") # {}
            ELSE Number(conf.pci[t].fields[3]) \in Enabled("eth")
        BY <2>3, <4>1 DEF ConfigInv, DevicesExist
      <4> QED
        BY <2>2, <4>1, <4>2
    <3> QED
      BY <3>1, <3>2
  <2> QED
    BY <2>1, <2>3 DEF DevicesExist
<1>15. ConfTyped'
  BY DEF ConfTyped
<1>16. "pci" \in Parser
  BY DEF Parser
<1>17. \A o \in Option \ {"pci"} : conf'.option[o] = conf.option[o]
  OBVIOUS
<1> QED
  BY <1>1, <1>2, <1>4, <1>13, <1>14, <1>15, <1>16, <1>17, ParserKeeps

LEMMA PciDeviceStep ==
  ASSUME ConfigInv, PciDevice PROVE ConfigInv'
<1>1. stage = "pci" /\ "pci" \in Parser
  BY DEF PciDevice, Parser
<1>2. CASE NoMore("pci") \/ RefusesDevice("pci")
  BY <1>1, <1>2, NoneOrRefused
<1>3. CASE ~(NoMore("pci") \/ RefusesDevice("pci"))
  <2>1. PICK p : p = argv[First("pci")]
    OBVIOUS
  <2>2. PICK f : f = Split(line[p].value, 3)
    OBVIOUS
  <2>3. /\ Found("pci") # {} /\ Take({First("pci")}, "slot")
        /\ line' = line /\ stage' = stage /\ parsed' = parsed /\ scan' = scan
    BY <1>3 DEF PciDevice
  <2>4. PICK d \in IndexOf(line[p]) :
          /\ \/ f[2] = "scsi" /\ Enabled("scsi") # {}
             \/ f[2] = "network" /\ Number(f[3]) \in Enabled("eth")
          /\ conf' = [conf EXCEPT !.pci[<<d, IF f[1] = "1" THEN "1" ELSE "0">>] =
                        [from |-> p, fields |-> f]]
    BY <1>3, <2>1, <2>2 DEF PciDevice
  <2>5. d \in Unit /\ (line[p].key = "index" => d = line[p].n)
    BY <2>4 DEF IndexOf
  <2>6. PICK s : s = <<d, IF f[1] = "1" THEN "1" ELSE "0">>
    OBVIOUS
  <2>7. s \in PciSlot /\ s[1] = d
    BY <2>5, <2>6 DEF PciSlot
  <2>8. LineTyped /\ ArgvInv
    BY DEF ConfigInv
  <2>9. TakesFor("pci", p, "slot")
    BY <2>1, <2>3, <2>8, TakeFirst, FatesHas
  <2>10. PICK F0 : conf \in Configs(F0)
    BY DEF ConfigInv, ConfTyped
  <2>11. p \in Nat
    BY <2>9 DEF TakesFor
  <2>12. PICK c : c = SlotTo(conf, s, p, f)
    OBVIOUS
  <2>13. conf' = c
    BY <2>4, <2>6, <2>12 DEF SlotTo
  <2>14. /\ c \in Configs(F0 \union {f})
         /\ c.alias = conf.alias /\ c.unit = conf.unit /\ c.option = conf.option /\ c.boot = conf.boot
         /\ \A t \in PciSlot :
              c.pci[t] = IF t = s THEN [from |-> p, fields |-> f] ELSE conf.pci[t]
    BY <2>7, <2>10, <2>11, <2>12, SlotChanged
  <2>15. IF f[2] = "scsi" THEN Enabled("scsi") # {} ELSE Number(f[3]) \in Enabled("eth")
    BY <2>4
  <2>16. line[p].key = "index" => s[1] = line[p].n
    BY <2>5, <2>7
  <2> QED
    BY <1>1, <2>3, <2>7, <2>9, <2>13, <2>14, <2>15, <2>16, PciTakes
<1> QED
  BY <1>2, <1>3

(* A step that only changes the stage, from the check on. *)
LEMMA OnlyStage ==
  ASSUME ConfigInv, line' = line, argv' = argv, fate' = fate, parsed' = parsed, conf' = conf,
         scan' = scan, stage' \in Decided \union {"error"}, HeededInv', DevicesExist'
  PROVE  ConfigInv'
<1>1. LineTyped /\ ArgvInv /\ SettingsInv /\ line \in Seq(Parameter)
  BY DEF ConfigInv, LineTyped
<1>2. ArgvNext /\ FateKept /\ TurnsTo("switch") /\ ArgvInv'
  BY <1>1, NothingTaken
<1>3. SettingsInv'
  BY <1>1, <1>2, SettingsSame
<1>4. LineTyped'
  <2>1. stage' \notin Unread
    BY DEF Decided, Unread
  <2> QED
    BY <1>1, <2>1 DEF LineTyped
<1>5. ConfTyped'
  BY DEF ConfigInv, ConfTyped
<1>6. StageInv'
  <2>1. stage' \notin Turns
    BY TurnsAre
  <2> QED
    BY <2>1 DEF StageInv, Turns
<1>7. ScanInv'
  <2>1. stage' # "scanned"
    BY DEF Decided
  <2> QED
    BY <2>1, ScanStays DEF ConfigInv
<1> QED
  BY <1>2, <1>3, <1>4, <1>5, <1>6, <1>7 DEF ConfigInv

LEMMA CheckUnparsedStep ==
  ASSUME ConfigInv, CheckUnparsed PROVE ConfigInv'
<1>1. /\ stage = "check" /\ line' = line /\ argv' = argv /\ fate' = fate /\ parsed' = parsed
      /\ conf' = conf /\ scan' = scan /\ stage' \in {"error", "launch", "command"}
      /\ stage' # "error" => Unparsed = {}
  BY DEF CheckUnparsed, Goto
<1>2. HeededInv'
  <2>1. \A p \in DOMAIN line : /\ fate[p] # "refused"
                               /\ fate[p] = "no memory" => line[p].file
                               /\ fate[p] = "ignored" => line[p].word = "color"
                               /\ fate[p] = "lost" => Len(conf.boot) = BootRoom
    BY <1>1 DEF ConfigInv, HeededInv
  <2>2. ASSUME stage' \in Decided, NEW p \in DOMAIN line PROVE fate[p] # "unread"
    <3>1. \A i \in DOMAIN argv : argv[i] = 0
      BY <1>1, <2>2 DEF Unparsed, Decided
    <3>2. p # 0
      BY DEF ConfigInv, LineTyped
    <3> QED
      BY <3>1, <3>2 DEF ConfigInv, ArgvInv
  <2> QED
    BY <1>1, <2>1, <2>2 DEF HeededInv
<1>3. DevicesExist'
  <2>1. UnitsGrow
    BY <1>1 DEF UnitsGrow
  <2> QED
    BY <1>1, <2>1, DevicesStay DEF ConfigInv
<1>4. stage' \in Decided \union {"error"}
  BY <1>1 DEF Decided
<1> QED
  BY <1>1, <1>2, <1>3, <1>4, OnlyStage

(* While the daemon works, nothing changes but the processes it launched. *)
LEMMA DaemonWorks ==
  ASSUME ConfigInv, stage \in {"launch", "running"}, stage' \in {"running", "over"},
         line' = line, argv' = argv, fate' = fate, parsed' = parsed, conf' = conf, scan' = scan,
         DOMAIN child' = {d \in Launched \X Unit : d[2] \in Enabled(d[1])}
  PROVE  ConfigInv'
<1>1. stage \in Decided /\ stage' \in Decided /\ stage \notin {"error", "boot"}
  BY DEF Decided
<1>2. HeededInv'
  BY <1>1 DEF ConfigInv, HeededInv
<1>3. DevicesExist'
  <2>1. \A k : Enabled(k)' = Enabled(k)
    BY DEF Enabled
  <2>2. \A s \in PciSlot : conf.pci[s].from # 0 =>
          IF conf.pci[s].fields[2] = "scsi" THEN Enabled("scsi") # {}
          ELSE Number(conf.pci[s].fields[3]) \in Enabled("eth")
    BY DEF ConfigInv, DevicesExist
  <2>3. DOMAIN child' = {d \in Launched \X Unit : d[2] \in Enabled(d[1])'}
    BY <2>1
  <2>4. \A s \in PciSlot : conf'.pci[s].from # 0 =>
          IF conf'.pci[s].fields[2] = "scsi" THEN Enabled("scsi")' # {}
          ELSE Number(conf'.pci[s].fields[3]) \in Enabled("eth")'
    BY <2>1, <2>2
  <2> QED
    BY <2>3, <2>4 DEF DevicesExist
<1> QED
  BY <1>1, <1>2, <1>3, OnlyStage

LEMMA LaunchDaemonsStep ==
  ASSUME ConfigInv, LaunchDaemons PROVE ConfigInv'
<1>1. /\ stage = "launch" /\ stage' = "running" /\ line' = line /\ argv' = argv /\ fate' = fate
      /\ parsed' = parsed /\ conf' = conf /\ scan' = scan
  BY DEF LaunchDaemons, Goto
<1>2. DOMAIN child' = {d \in Launched \X Unit : d[2] \in Enabled(d[1])}
  BY DEF LaunchDaemons
<1> QED
  BY <1>1, <1>2, DaemonWorks

LEMMA KillExecutesStep ==
  ASSUME ConfigInv, KillExecutes PROVE ConfigInv'
<1>1. /\ stage = "running" /\ stage' = "over" /\ line' = line /\ argv' = argv /\ fate' = fate
      /\ parsed' = parsed /\ conf' = conf /\ scan' = scan /\ DOMAIN child' = DOMAIN child
  BY DEF KillExecutes, Goto
<1>2. DOMAIN child' = {d \in Launched \X Unit : d[2] \in Enabled(d[1])}
  BY <1>1 DEF ConfigInv, DevicesExist
<1> QED
  BY <1>1, <1>2, DaemonWorks

LEMMA LesserOf ==
  ASSUME NEW a \in Nat, NEW b \in Nat
  PROVE  Min({a, b}) = IF a <= b THEN a ELSE b
<1>1. PICK m : m = IF a <= b THEN a ELSE b
  OBVIOUS
<1>2. m \in {a, b} /\ \A y \in {a, b} : m <= y
  BY <1>1
<1>3. \A x \in {a, b} : (\A y \in {a, b} : x <= y) => x = m
  BY <1>2
<1>4. Min({a, b}) = m
  BY <1>2, <1>3 DEF Min
<1> QED
  BY <1>1, <1>4

(* The line's end: of what is left, the first goes to the boot line and the rest is lost. *)
LEMMA FormatRemainingStep ==
  ASSUME ConfigInv, FormatRemaining PROVE ConfigInv'
<1>1. /\ LineTyped /\ ArgvInv /\ SettingsInv /\ line \in Seq(Parameter) /\ argv \in Seq(Nat)
      /\ fate \in [DOMAIN line -> Fates] /\ stage = "boot" /\ BootRoom \in Nat
  BY ConfigAssumption DEF ConfigInv, LineTyped, FormatRemaining
<1>2. PICK rest : rest = Without(argv, {0})
  OBVIOUS
<1>3. /\ rest \in Seq(Nat) /\ Rising(rest)
      /\ \A x : (\E i \in DOMAIN rest : rest[i] = x) <=> x # 0 /\ \E i \in DOMAIN argv : argv[i] = x
  <2>1. PICK gone : gone = {0}
    OBVIOUS
  <2>2. RisesBut(argv, gone)
    BY <1>1, <2>1 DEF ArgvInv, RisesBut
  <2>3. IsLeft(rest, argv, gone)
    BY <1>1, <1>2, <2>1, <2>2, WithoutIs
  <2> QED
    BY <2>1, <2>3 DEF IsLeft
<1>4. PICK k : k = Min({BootRoom, Len(rest)})
  OBVIOUS
<1>5. k \in Nat /\ k <= Len(rest) /\ k <= BootRoom /\ (k = BootRoom \/ k = Len(rest))
  <2>1. Len(rest) \in Nat
    BY <1>3
  <2>2. k = IF BootRoom <= Len(rest) THEN BootRoom ELSE Len(rest)
    BY <1>1, <1>4, <2>1, LesserOf
  <2> QED
    BY <1>1, <2>1, <2>2
<1>5a. \A j \in 1..Len(rest) : (j <= BootRoom => j \in 1..k) /\ (~(j <= BootRoom) => k = BootRoom)
  <2>1. PICK l \in Nat : l = Len(rest)
    BY <1>3
  <2>2. PICK b \in Nat : b = BootRoom
    BY ConfigAssumption
  <2>3. k \in Nat /\ k <= l /\ k <= b /\ (k = b \/ k = l)
    BY <1>5, <2>1, <2>2
  <2>4. \A j \in 1..l : (j <= b => j \in 1..k) /\ (~(j <= b) => k = b)
    BY <2>3
  <2> QED
    BY <2>1, <2>2, <2>4
<1>6. PICK boot : boot = SubSeq(rest, 1, k)
  OBVIOUS
<1>7. boot \in Seq(Nat) /\ Len(boot) = k /\ DOMAIN boot = 1..k /\ \A i \in 1..k : boot[i] = rest[i]
  BY <1>3, <1>5, <1>6
<1>8. /\ conf' = [conf EXCEPT !.boot = boot] /\ argv' = [i \in DOMAIN argv |-> 0]
      /\ stage' = IF parsed THEN "check" ELSE "error"
      /\ line' = line /\ parsed' = parsed /\ scan' = scan
      /\ fate' = [p \in DOMAIN fate |->
                    IF \E i \in DOMAIN rest : rest[i] = p
                    THEN IF \E i \in 1..Len(rest) : i <= BootRoom /\ rest[i] = p
                         THEN "boot" ELSE "lost"
                    ELSE fate[p]]
  BY <1>2, <1>4, <1>6 DEF FormatRemaining, Goto
<1>9. PICK F0 : conf \in Configs(F0)
  BY DEF ConfigInv, ConfTyped
<1>10. /\ conf' \in Configs(F0) /\ conf'.boot = boot /\ conf'.option = conf.option
       /\ conf'.unit = conf.unit /\ conf'.pci = conf.pci /\ conf'.alias = conf.alias
  <2>1. PICK d : d = [conf EXCEPT !.boot = boot]
    OBVIOUS
  <2>2. /\ d \in Configs(F0) /\ d.boot = boot
        /\ d.option = conf.option /\ d.unit = conf.unit /\ d.pci = conf.pci /\ d.alias = conf.alias
    BY <1>7, <1>9, <2>1, BootChanged
  <2> QED
    BY <1>8, <2>1, <2>2
<1>11. \A p \in DOMAIN line : (\E i \in DOMAIN rest : rest[i] = p) <=> fate[p] = "unread"
  <2>1. ASSUME NEW p \in DOMAIN line, fate[p] = "unread" PROVE \E i \in DOMAIN rest : rest[i] = p
    <3>1. p # 0
      BY <1>1
    <3> QED
      BY <1>1, <1>3, <2>1, <3>1 DEF ArgvInv
  <2>2. ASSUME NEW p \in DOMAIN line, \E i \in DOMAIN rest : rest[i] = p PROVE fate[p] = "unread"
    BY <1>1, <1>3, <2>2 DEF ArgvInv
  <2> QED
    BY <2>1, <2>2
<1>12. \A p \in DOMAIN line : fate[p] \notin {"boot", "lost"}
  BY <1>1, TurnsAre DEF ConfigInv, StageInv
<1>13. /\ fate' \in [DOMAIN line -> Fates]
       /\ \A p \in DOMAIN line :
            /\ fate'[p] # "unread"
            /\ fate'[p] \notin {"boot", "lost"} => fate'[p] = fate[p]
            /\ fate[p] # "unread" => fate'[p] = fate[p]
            /\ fate'[p] = "boot" => \E i \in 1..k : boot[i] = p
            /\ fate'[p] = "lost" => k = BootRoom
  <2>1. DOMAIN fate = DOMAIN line /\ {"boot", "lost"} \subseteq Fates
    BY <1>1 DEF Fates
  <2>2. ASSUME NEW p \in DOMAIN line, fate[p] = "unread"
        PROVE  /\ fate'[p] = "boot" => \E i \in 1..k : boot[i] = p
               /\ fate'[p] = "lost" => k = BootRoom
               /\ fate'[p] \in {"boot", "lost"}
    <3>1. PICK i \in DOMAIN rest : rest[i] = p
      BY <1>11, <2>2
    <3>2. i \in 1..Len(rest) /\ DOMAIN rest = 1..Len(rest) /\ Len(rest) \in Nat
      BY <1>3
    <3>3. fate'[p] = IF \E j \in 1..Len(rest) : j <= BootRoom /\ rest[j] = p
                     THEN "boot" ELSE "lost"
      BY <1>8, <2>1, <3>1
    <3>4. CASE \E j \in 1..Len(rest) : j <= BootRoom /\ rest[j] = p
      <4>1. PICK j \in 1..Len(rest) : j <= BootRoom /\ rest[j] = p
        BY <3>4
      <4>2. j \in 1..k
        BY <1>5a, <4>1
      <4>3. fate'[p] = "boot"
        BY <3>3, <3>4
      <4> QED
        BY <1>7, <4>1, <4>2, <4>3
    <3>5. CASE ~\E j \in 1..Len(rest) : j <= BootRoom /\ rest[j] = p
      <4>1. ~(i <= BootRoom)
        BY <3>1, <3>2, <3>5
      <4>3. k = BootRoom
        BY <1>5a, <3>2, <4>1
      <4>4. fate'[p] = "lost"
        BY <3>3, <3>5
      <4> QED
        BY <4>3, <4>4
    <3> QED
      BY <3>4, <3>5
  <2>3. ASSUME NEW p \in DOMAIN line, fate[p] # "unread" PROVE fate'[p] = fate[p]
    BY <1>8, <1>11, <2>1, <2>3
  <2>4. fate' \in [DOMAIN line -> Fates]
    <3>1. \A p \in DOMAIN line : fate'[p] \in Fates
      BY <1>1, <2>1, <2>2, <2>3
    <3>2. fate' = [p \in DOMAIN line |-> fate'[p]]
      BY <1>8, <2>1
    <3> QED
      BY <3>1, <3>2
  <2> QED
    BY <1>12, <2>2, <2>3, <2>4
<1>14. argv' \in Seq(Nat) /\ \A i \in DOMAIN argv' : argv'[i] = 0
  BY <1>1, <1>8
<1>15. stage' \notin Turns \union Unread \union Decided /\ stage' \in {"check", "error"}
  <2>1. stage' = "check" \/ stage' = "error"
    BY <1>8
  <2>2. \A x \in {"check", "error"} : x \notin Turns \union Unread \union Decided
    BY TurnsAre DEF Unread, Decided
  <2> QED
    BY <2>1, <2>2
<1>16. LineTyped'
  BY <1>1, <1>8, <1>13, <1>14, <1>15 DEF LineTyped
<1>17. ConfTyped'
  BY <1>10 DEF ConfTyped
<1>18. ArgvInv'
  BY <1>8, <1>13, <1>14 DEF ArgvInv
<1>19. SettingsInv'
  <2>1. OptionsOwned' /\ UnitsOwned' /\ AliasesOwned' /\ SlotsOwned'
    <3>1. ASSUME NEW p \in DOMAIN line, fate[p] \in {"option", "unit", "alias", "slot"}
          PROVE  fate'[p] = fate[p]
      BY <1>13, <3>1
    <3>2. OptionsOwned'
      BY <1>1, <1>8, <1>10, <3>1, ZenonT(60) DEF SettingsInv, OptionsOwned, OptionFrom
    <3>3. UnitsOwned'
      <4>1. ASSUME NEW j \in Kind, NEW n \in Unit, NEW p, p = conf.unit[j][n].from, p # 0
            PROVE  p \in DOMAIN line' /\ UnitFrom(j, n, p)'
        <5>1. p \in DOMAIN line /\ UnitFrom(j, n, p)
          BY <1>1, <4>1 DEF SettingsInv, UnitsOwned
        <5>2. fate'[p] = fate[p]
          BY <3>1, <5>1 DEF UnitFrom
        <5> QED
          BY <1>8, <1>10, <5>1, <5>2 DEF UnitFrom
      <4> QED
        BY <1>10, <4>1 DEF UnitsOwned
    <3>4. AliasesOwned'
      BY <1>1, <1>8, <1>10, <3>1, ZenonT(60) DEF SettingsInv, AliasesOwned, AliasFrom
    <3>5. SlotsOwned'
      BY <1>1, <1>8, <1>10, <3>1, ZenonT(60) DEF SettingsInv, SlotsOwned, SlotFrom
    <3> QED
      BY <3>2, <3>3, <3>4, <3>5
  <2>2. UnitsOnce' /\ AliasesOnce' /\ SlotsOnce'
    BY <1>1, <1>10 DEF SettingsInv, UnitsOnce, AliasesOnce, SlotsOnce
  <2>3. OptionsSet' /\ UnitsSet' /\ AliasesSet' /\ SlotsSet'
    <3>1. ASSUME NEW p \in DOMAIN line, fate'[p] \in {"option", "unit", "alias", "slot"}
          PROVE  fate'[p] = fate[p]
      BY <1>13, <3>1
    <3>2. OptionsSet'
      BY <1>1, <1>8, <1>10, <3>1 DEF SettingsInv, OptionsSet
    <3>3. UnitsSet'
      BY <1>1, <1>8, <1>10, <3>1 DEF SettingsInv, UnitsSet
    <3>4. AliasesSet'
      BY <1>1, <1>8, <1>10, <3>1 DEF SettingsInv, AliasesSet
    <3>5. SlotsSet'
      <4>1. \A q \in DOMAIN line : fate[q] = "slot" => fate'[q] = "slot"
        BY <1>13
      <4>2. ASSUME NEW p \in DOMAIN line, fate'[p] = "slot"
            PROVE  \/ \E t \in PciSlot : conf.pci[t].from = p
                   \/ \E q \in DOMAIN line : q > p /\ fate'[q] = "slot"
        <5>1. fate[p] = "slot"
          BY <3>1, <4>2
        <5>2. \/ \E t \in PciSlot : conf.pci[t].from = p
              \/ \E q \in DOMAIN line : q > p /\ fate[q] = "slot"
          BY <1>1, <5>1 DEF SettingsInv, SlotsSet
        <5> QED
          BY <4>1, <5>2
      <4>3. \A p \in DOMAIN line' : fate'[p] = "slot" =>
              \/ \E t \in PciSlot : conf'.pci[t].from = p
              \/ \E q \in DOMAIN line' : q > p /\ fate'[q] = "slot"
        <5>1. line' = line /\ conf'.pci = conf.pci
          BY <1>8, <1>10
        <5>2. \A p \in DOMAIN line : fate'[p] = "slot" =>
                \/ \E t \in PciSlot : conf.pci[t].from = p
                \/ \E q \in DOMAIN line : q > p /\ fate'[q] = "slot"
          BY <4>2
        <5> QED
          BY <5>1, <5>2
      <4> QED
        BY <4>3 DEF SlotsSet
    <3> QED
      BY <3>2, <3>3, <3>4, <3>5
  <2>4. BootOwned'
    <3>1. ASSUME NEW i \in 1..k PROVE boot[i] \in DOMAIN line /\ fate'[boot[i]] = "boot"
      <4>1. i \in 1..Len(rest) /\ i <= BootRoom /\ i \in DOMAIN rest
        BY <1>1, <1>3, <1>5
      <4>2. PICK p : p = rest[i]
        OBVIOUS
      <4>3. p # 0 /\ \E j \in DOMAIN argv : argv[j] = p
        BY <1>3, <4>1, <4>2
      <4>4. p \in DOMAIN line
        BY <1>1, <4>3 DEF LineTyped
      <4>5. p \in DOMAIN fate
        BY <1>1, <4>4
      <4>6. fate'[p] = "boot"
        BY <1>8, <4>1, <4>2, <4>5
      <4> QED
        BY <1>7, <4>2, <4>4, <4>6
    <3> QED
      BY <1>7, <1>8, <1>10, <3>1, ZenonT(60) DEF BootOwned
  <2>5. BootSet'
    BY <1>7, <1>8, <1>10, <1>13 DEF BootSet
  <2>6. BootRises'
    <3>1. \A i, j \in 1..k : i \in DOMAIN rest /\ j \in DOMAIN rest
      BY <1>3, <1>5
    <3> QED
      BY <1>3, <1>7, <1>10, <3>1 DEF BootRises, Rising
  <2> QED
    BY <2>1, <2>2, <2>3, <2>4, <2>5, <2>6 DEF SettingsInv
<1>20. StageInv'
  BY <1>15 DEF StageInv, Turns
<1>21. HeededInv'
  <2>1. ASSUME NEW p \in DOMAIN line
        PROVE  /\ fate'[p] = "refused" => stage' = "error"
               /\ fate'[p] = "no memory" => line[p].file
               /\ fate'[p] = "ignored" => line[p].word = "color"
               /\ fate'[p] = "lost" => Len(boot) = BootRoom
    BY <1>1, <1>7, <1>8, <1>13 DEF ConfigInv, HeededInv
  <2> QED
    BY <1>8, <1>10, <1>15, <2>1 DEF HeededInv
<1>22. DevicesExist'
  <2>1. UnitsGrow /\ \A s \in PciSlot : conf'.pci[s] = conf.pci[s]
    BY <1>10 DEF UnitsGrow
  <2>2. stage' \notin {"running", "over"}
    BY <1>15
  <2> QED
    BY <2>1, <2>2, DevicesStay DEF ConfigInv
<1>23. ScanInv'
  <2>1. stage' # "scanned"
    BY <1>15
  <2> QED
    BY <1>8, <2>1, ScanStays DEF ConfigInv
<1> QED
  BY <1>16, <1>17, <1>18, <1>19, <1>20, <1>21, <1>22, <1>23 DEF ConfigInv

(* Before there are parameters, nothing is set. *)
NothingSet ==
  /\ \A k \in Kind, n \in Unit : conf.unit[k][n].from = 0
  /\ \A n \in Unit : conf.alias[n] = 0
  /\ \A o \in Option : conf.option[o] = 0
  /\ \A s \in PciSlot : conf.pci[s].from = 0
  /\ DOMAIN conf.boot = {}

LEMMA UnreadSetsNothing ==
  ASSUME ConfigInv, stage \in Unread PROVE NothingSet
<1>1. DOMAIN line = {}
  BY DEF ConfigInv, LineTyped
<1>2. /\ \A k \in Kind, n \in Unit : conf.unit[k][n].from = 0
      /\ \A n \in Unit : conf.alias[n] = 0
      /\ \A o \in Option : conf.option[o] = 0
      /\ \A s \in PciSlot : conf.pci[s].from = 0
  BY <1>1 DEF ConfigInv, SettingsInv, UnitsOwned, AliasesOwned, OptionsOwned, SlotsOwned
<1>3. \A i \in DOMAIN conf.boot : conf.boot[i] \in {}
  BY <1>1 DEF ConfigInv, SettingsInv, BootOwned
<1> QED
  BY <1>2, <1>3 DEF NothingSet

(* As long as nothing is set, nothing of the settings is wrong. *)
LEMMA NothingSetInv ==
  ASSUME NothingSet, \A p \in DOMAIN line : fate[p] \in {"unread", "no memory"}
  PROVE  SettingsInv
<1>1. OptionsOwned /\ UnitsOwned /\ AliasesOwned /\ SlotsOwned /\ BootOwned
  BY DEF NothingSet, OptionsOwned, UnitsOwned, AliasesOwned, SlotsOwned, BootOwned
<1>2. UnitsOnce /\ AliasesOnce /\ SlotsOnce /\ BootRises
  BY DEF NothingSet, UnitsOnce, AliasesOnce, SlotsOnce, BootRises
<1>3. OptionsSet /\ UnitsSet /\ AliasesSet /\ SlotsSet /\ BootSet
  BY DEF OptionsSet, UnitsSet, AliasesSet, SlotsSet, BootSet
<1> QED
  BY <1>1, <1>2, <1>3 DEF SettingsInv

(* The positions of a line. *)
LEMMA PlacesOf ==
  ASSUME NEW S, NEW given \in Seq(S), NEW args, args = [p \in DOMAIN given |-> p]
  PROVE  args \in Seq(Nat) /\ DOMAIN args = DOMAIN given
         /\ \A p \in DOMAIN given : p \in Nat /\ args[p] = p
<1>1. Len(given) \in Nat /\ DOMAIN given = 1..Len(given)
  OBVIOUS
<1>2. PICK n \in Nat : DOMAIN given = 1..n
  BY <1>1
<1>3. args = [p \in 1..n |-> p]
  BY <1>2
<1>4. DOMAIN args = 1..n
  BY <1>3
<1>5. \A p \in 1..n : args[p] = p /\ p \in Nat
  BY <1>3
<1>6. args \in Seq(Nat)
  <2>1. \A p \in 1..n : p \in Nat
    OBVIOUS
  <2>2. args \in [1..n -> Nat]
    BY <1>3, <2>1
  <2> QED
    BY <1>2, <2>2
<1> QED
  BY <1>2, <1>4, <1>5, <1>6

(* The line as it is given, but for a parameter of an @file there was no memory for. *)
LEMMA LineGiven ==
  ASSUME ConfigInv, stage = "files", NEW given \in CommandLine,
         NEW failed \in SUBSET DOMAIN given, \A p \in failed : given[p].file, line' = given,
         argv' = Without([p \in DOMAIN given |-> p], failed),
         fate' = [p \in DOMAIN given |-> IF p \in failed THEN "no memory" ELSE "unread"],
         stage' = Order[1], parsed' = parsed, conf' = conf, scan' = scan
  PROVE  ConfigInv'
<1>1. given \in Seq(Parameter)
  BY ConfigAssumption
<1>2. PICK args : args = [p \in DOMAIN given |-> p]
  OBVIOUS
<1>3. args \in Seq(Nat) /\ DOMAIN args = DOMAIN given /\ \A p \in DOMAIN given : p \in Nat /\ args[p] = p
  BY <1>1, <1>2, PlacesOf
<1>4. RisesBut(args, failed)
  BY <1>3 DEF RisesBut
<1>5. IsLeft(argv', args, failed)
  BY <1>2, <1>3, <1>4, WithoutIs
<1>6. /\ argv' \in Seq(Nat) /\ Rising(argv')
      /\ \A x : (\E i \in DOMAIN argv' : argv'[i] = x) <=> x \in DOMAIN given /\ x \notin failed
  <2>1. /\ argv' \in Seq(Nat) /\ Rising(argv')
        /\ \A x : (\E i \in DOMAIN argv' : argv'[i] = x)
                    <=> x \notin failed /\ \E i \in DOMAIN args : args[i] = x
    BY <1>5 DEF IsLeft
  <2>2. \A x : (\E i \in DOMAIN args : args[i] = x) <=> x \in DOMAIN given
    BY <1>3
  <2> QED
    BY <2>1, <2>2
<1>7. \A i \in DOMAIN argv' : argv'[i] \in DOMAIN given /\ argv'[i] \notin failed
  BY <1>6
<1>8. /\ \A p \in DOMAIN given : fate'[p] = IF p \in failed THEN "no memory" ELSE "unread"
      /\ fate' \in [DOMAIN given -> Fates]
  BY DEF Fates
<1>9. stage' \in Turns /\ stage' # "boot" /\ stage' \notin Unread \union Decided
  BY TurnsAre
<1>10. LineTyped'
  <2>1. parsed \in BOOLEAN
    BY DEF ConfigInv, LineTyped
  <2> QED
    BY <1>1, <1>6, <1>7, <1>8, <1>9, <2>1 DEF LineTyped
<1>11. ConfTyped'
  BY DEF ConfigInv, ConfTyped
<1>12. ArgvInv'
  <2>1. \A i, j \in DOMAIN argv' : i < j => argv'[i] < argv'[j]
    BY <1>6 DEF Rising
  <2>2. \A i \in DOMAIN argv' : fate'[argv'[i]] = "unread"
    BY <1>7, <1>8
  <2>3. \A p \in DOMAIN given : fate'[p] = "unread" => \E i \in DOMAIN argv' : argv'[i] = p
    BY <1>6, <1>8
  <2>4. \A p \in DOMAIN given : fate'[p] # "slot"
    BY <1>8
  <2> QED
    BY <2>1, <2>2, <2>3, <2>4 DEF ArgvInv
<1>13. NothingSet'
  <2>1. NothingSet
    BY UnreadSetsNothing DEF Unread
  <2> QED
    BY <2>1 DEF NothingSet
<1>14. SettingsInv'
  <2>1. \A p \in DOMAIN line' : fate'[p] \in {"unread", "no memory"}
    BY <1>8
  <2>2. (NothingSet /\ (\A p \in DOMAIN line : fate[p] \in {"unread", "no memory"}) => SettingsInv)'
    BY NothingSetInv, PTL
  <2> QED
    BY <1>13, <2>1, <2>2
<1>15. StageInv'
  <2>1. \A o \in Option : conf'.option[o] = 0
    BY <1>13 DEF NothingSet
  <2>2. \A p \in DOMAIN line' : fate'[p] \notin {"boot", "lost"}
    BY <1>8
  <2> QED
    BY <2>1, <2>2 DEF StageInv
<1>16. HeededInv'
  <2>1. \A p \in DOMAIN line' : /\ fate'[p] \notin {"refused", "ignored", "lost"}
                                /\ fate'[p] = "no memory" => line'[p].file
    BY <1>8
  <2> QED
    BY <1>9, <2>1 DEF HeededInv
<1>17. DevicesExist'
  BY <1>13, <1>9 DEF DevicesExist, NothingSet, Decided
<1>18. ScanInv'
  <2>1. stage' # "scanned"
    BY <1>9 DEF Unread
  <2> QED
    BY <2>1, ScanStays DEF ConfigInv
<1> QED
  BY <1>10, <1>11, <1>12, <1>14, <1>15, <1>16, <1>17, <1>18 DEF ConfigInv

LEMMA ParamsAllocStep ==
  ASSUME ConfigInv, ParamsAlloc PROVE ConfigInv'
<1>1. stage = "files" /\ parsed' = parsed /\ conf' = conf /\ scan' = scan
  BY DEF ParamsAlloc
<1>2. CASE Goto("error") /\ UNCHANGED <<line, argv, fate>>
  <2>1. stage' = "error" /\ line' = line /\ argv' = argv /\ fate' = fate
    BY <1>2 DEF Goto
  <2>2. HeededInv'
    BY <1>1, <2>1 DEF ConfigInv, HeededInv, Decided
  <2>3. DevicesExist'
    <3>1. UnitsGrow
      BY <1>1 DEF UnitsGrow
    <3> QED
      BY <1>1, <2>1, <3>1, DevicesStay DEF ConfigInv
  <2> QED
    BY <1>1, <2>1, <2>2, <2>3, OnlyStage
<1>3. CASE ~(Goto("error") /\ UNCHANGED <<line, argv, fate>>)
  <2>0. PICK given \in CommandLine :
          \E failed \in {{}} \union {{p} : p \in {q \in DOMAIN given : given[q].file}} :
            /\ line' = given
            /\ argv' = Without([p \in DOMAIN given |-> p], failed)
            /\ fate' = [p \in DOMAIN given |-> IF p \in failed THEN "no memory" ELSE "unread"]
            /\ stage' = Order[1]
    BY <1>3 DEF ParamsAlloc, Goto
  <2>1. PICK failed \in {{}} \union {{p} : p \in {q \in DOMAIN given : given[q].file}} :
          /\ line' = given
          /\ argv' = Without([p \in DOMAIN given |-> p], failed)
          /\ fate' = [p \in DOMAIN given |-> IF p \in failed THEN "no memory" ELSE "unread"]
          /\ stage' = Order[1]
    BY <2>0
  <2>2. failed \in SUBSET DOMAIN given /\ \A p \in failed : given[p].file
    OBVIOUS
  <2> QED
    BY <1>1, <2>1, <2>2, LineGiven
<1> QED
  BY <1>2, <1>3

(* What one more character changes of a text. *)
TextGrows(c, n) ==
  /\ n \in Nat /\ Len(scan.text) = n /\ DOMAIN scan.text = 1..n
  /\ Len(scan'.text) = n + 1 /\ DOMAIN scan'.text = 1..(n + 1)
  /\ scan'.text \in Seq(Char \union {"end"}) /\ c \in Char \union {"end"}
  /\ scan'.text[n + 1] = c /\ \A k \in 1..n : scan'.text[k] = scan.text[k]

LEMMA Appended ==
  ASSUME scan.text \in Seq(Char \union {"end"}), NEW c \in Char \union {"end"},
         scan'.text = Append(scan.text, c)
  PROVE  TextGrows(c, Len(scan.text))
<1>1. PICK S : S = Char \union {"end"}
  OBVIOUS
<1>2. PICK s : s = scan.text
  OBVIOUS
<1>3. PICK t : t = scan'.text
  OBVIOUS
<1>4. s \in Seq(S) /\ c \in S /\ t = Append(s, c)
  BY <1>1, <1>2, <1>3
<1>5. /\ Len(s) \in Nat /\ DOMAIN s = 1..Len(s) /\ t \in Seq(S) /\ Len(t) = Len(s) + 1
      /\ t[Len(s) + 1] = c /\ \A k \in 1..Len(s) : t[k] = s[k]
  BY <1>4
<1>6. DOMAIN t = 1..(Len(s) + 1)
  BY <1>5
<1> QED
  BY <1>1, <1>2, <1>3, <1>5, <1>6 DEF TextGrows

LEMMA CommentGrows ==
  ASSUME NEW c, NEW n, TextGrows(c, n)
  PROVE  /\ \A k \in 1..(n + 1) : Commented(k)' <=> Commented(k)
         /\ Commented(n + 2)' <=> c = "#" \/ (Commented(n + 1) /\ c # "newline")
<1>1. /\ n \in Nat /\ scan'.text[n + 1] = c /\ \A k \in 1..n : scan'.text[k] = scan.text[k]
  BY DEF TextGrows
<1>2. ASSUME NEW k \in 1..(n + 1) PROVE Commented(k)' <=> Commented(k)
  <2>1. \A j \in 1..(k - 1) : scan'.text[j] = scan.text[j]
    BY <1>1
  <2>2. \A j \in 1..(k - 1) : \A i \in (j + 1)..(k - 1) : scan'.text[i] = scan.text[i]
    BY <1>1
  <2> QED
    BY <2>1, <2>2 DEF Commented
<1>3. (n + 2) - 1 = n + 1 /\ (n + 1) - 1 = n
  BY <1>1
<1>4. ASSUME c = "#" PROVE Commented(n + 2)'
  <2>1. n + 1 \in 1..(n + 1) /\ ((n + 1) + 1)..(n + 1) = {}
    BY <1>1
  <2> QED
    BY <1>1, <1>3, <1>4, <2>1 DEF Commented
<1>5. ASSUME Commented(n + 1), c # "newline" PROVE Commented(n + 2)'
  <2>1. PICK j \in 1..n : scan.text[j] = "#" /\ \A i \in (j + 1)..n : scan.text[i] # "newline"
    BY <1>3, <1>5 DEF Commented
  <2>2. j \in 1..(n + 1) /\ scan'.text[j] = "#"
    BY <1>1, <2>1
  <2>3. ASSUME NEW i \in (j + 1)..(n + 1) PROVE scan'.text[i] # "newline"
    <3>1. CASE i = n + 1
      BY <1>1, <1>5, <3>1
    <3>2. CASE i # n + 1
      <4>1. i \in (j + 1)..n /\ i \in 1..n
        BY <1>1, <3>2
      <4> QED
        BY <1>1, <2>1, <4>1
    <3> QED
      BY <3>1, <3>2
  <2> QED
    BY <1>3, <2>2, <2>3 DEF Commented
<1>6. ASSUME Commented(n + 2)', c # "#" PROVE Commented(n + 1) /\ c # "newline"
  <2>1. PICK j \in 1..(n + 1) :
          scan'.text[j] = "#" /\ \A i \in (j + 1)..(n + 1) : scan'.text[i] # "newline"
    BY <1>3, <1>6 DEF Commented
  <2>2. j \in 1..n
    BY <1>1, <1>6, <2>1
  <2>3. n + 1 \in (j + 1)..(n + 1) /\ \A i \in (j + 1)..n : i \in (j + 1)..(n + 1) /\ i \in 1..n
    BY <1>1, <2>2
  <2>4. scan.text[j] = "#" /\ \A i \in (j + 1)..n : scan.text[i] # "newline"
    BY <1>1, <2>1, <2>2, <2>3
  <2> QED
    BY <1>1, <1>3, <2>1, <2>2, <2>3, <2>4 DEF Commented
<1> QED
  BY <1>2, <1>4, <1>5, <1>6

LEMMA QuotesGrow ==
  ASSUME NEW c, NEW n, TextGrows(c, n)
  PROVE  /\ \A a \in Nat \ {0}, b \in 0..n : Quotes(a, b)' = Quotes(a, b)
         /\ \A a \in 1..(n + 1) : /\ Quotes(a, n) \in Nat
                                  /\ Quotes(a, n + 1)' = Quotes(a, n) + IF c = "quote" THEN 1 ELSE 0
         /\ Quotes(n + 1, n) = 0
<1>1. /\ n \in Nat /\ scan'.text[n + 1] = c /\ \A k \in 1..n : scan'.text[k] = scan.text[k]
  BY DEF TextGrows
<1>2. ASSUME NEW a \in Nat \ {0}, NEW b \in 0..n PROVE Quotes(a, b)' = Quotes(a, b)
  <2>1. \A k \in a..b : k \in 1..n
    BY <1>1
  <2>2. {k \in a..b : scan'.text[k] = "quote"} = {k \in a..b : scan.text[k] = "quote"}
    BY <1>1, <2>1
  <2> QED
    BY <2>2 DEF Quotes
<1>3. ASSUME NEW a \in 1..(n + 1)
      PROVE  /\ Quotes(a, n) \in Nat
             /\ Quotes(a, n + 1)' = Quotes(a, n) + IF c = "quote" THEN 1 ELSE 0
  <2>1. PICK old : old = {k \in a..n : scan.text[k] = "quote"}
    OBVIOUS
  <2>2. PICK new : new = {k \in a..(n + 1) : scan'.text[k] = "quote"}
    OBVIOUS
  <2>3. IsFiniteSet(old)
    <3>1. a \in Int /\ n \in Int
      BY <1>1
    <3>2. IsFiniteSet(a..n)
      BY <3>1, FS_Interval
    <3> QED
      BY <2>1, <3>2, FS_Subset
  <2>4. Cardinality(old) \in Nat /\ n + 1 \notin old
    BY <1>1, <2>1, <2>3, FS_CardinalityType
  <2>5. \A k : k \in a..(n + 1) <=> k \in a..n \/ k = n + 1
    BY <1>1
  <2>6. \A k \in a..n : k \in 1..n
    BY <1>1
  <2>7. new = IF c = "quote" THEN old \union {n + 1} ELSE old
    BY <1>1, <2>1, <2>2, <2>5, <2>6
  <2>8. Cardinality(old \union {n + 1}) = Cardinality(old) + 1
    BY <2>3, <2>4, FS_AddElement
  <2>9. Quotes(a, n) = Cardinality(old) /\ Quotes(a, n + 1)' = Cardinality(new)
    BY <2>1, <2>2 DEF Quotes
  <2> QED
    BY <2>4, <2>7, <2>8, <2>9
<1>4. Quotes(n + 1, n) = 0
  <2>1. {k \in (n + 1)..n : scan.text[k] = "quote"} = {}
    BY <1>1
  <2> QED
    BY <2>1, FS_EmptySet DEF Quotes
<1> QED
  BY <1>2, <1>3, <1>4

LEMMA StopsGrow ==
  ASSUME NEW c, NEW n, TextGrows(c, n)
  PROVE  /\ \A a \in Nat \ {0}, k \in 1..n : Stops(a, k)' <=> Stops(a, k)
         /\ \A a \in 1..(n + 1) : Stops(a, n + 1)' <=>
              c \in {"#", "newline", "end"} \/ (c = " " /\ Quotes(a, n) % 2 = 0)
<1>1. /\ n \in Nat /\ scan'.text[n + 1] = c /\ \A k \in 1..n : scan'.text[k] = scan.text[k]
  BY DEF TextGrows
<1>2. ASSUME NEW a \in Nat \ {0}, NEW k \in 1..n PROVE Stops(a, k)' <=> Stops(a, k)
  <2>1. k - 1 \in 0..n
    BY <1>1
  <2>2. Quotes(a, k - 1)' = Quotes(a, k - 1)
    BY <2>1, QuotesGrow
  <2> QED
    BY <1>1, <2>2 DEF Stops
<1>3. ASSUME NEW a \in 1..(n + 1)
      PROVE  Stops(a, n + 1)' <=> c \in {"#", "newline", "end"} \/ (c = " " /\ Quotes(a, n) % 2 = 0)
  <2>1. (n + 1) - 1 = n /\ n \in 0..n /\ a \in Nat \ {0}
    BY <1>1
  <2>2. Quotes(a, n)' = Quotes(a, n)
    BY <2>1, QuotesGrow
  <2> QED
    BY <1>1, <2>1, <2>2 DEF Stops
<1> QED
  BY <1>2, <1>3

LEMMA FoundStays ==
  ASSUME NEW c, NEW n, TextGrows(c, n), NEW a \in Nat, NEW b \in Nat, FoundRight(a, b)
  PROVE  FoundRight(a, b)' /\ a \in 1..b /\ b < n
<1>1. /\ n \in Nat /\ scan'.text[n + 1] = c /\ \A k \in 1..n : scan'.text[k] = scan.text[k]
      /\ Len(scan.text) = n /\ Len(scan'.text) = n + 1
  BY DEF TextGrows
<1>2. /\ a \in 1..b /\ b < n /\ scan.text[a] = "letter" /\ ~Commented(a)
      /\ \A k \in a..b : ~Stops(a, k)
      /\ Stops(a, b + 1)
  BY <1>1 DEF FoundRight
<1>3. /\ a \in Nat \ {0} /\ a \in 1..n /\ a \in 1..(n + 1) /\ b + 1 \in 1..n /\ b < n + 1
      /\ \A k \in a..b : k \in 1..n
  BY <1>1, <1>2
<1>4. scan'.text[a] = "letter" /\ ~Commented(a)'
  BY <1>1, <1>2, <1>3, CommentGrows
<1>5. (\A k \in a..b : ~Stops(a, k)') /\ Stops(a, b + 1)'
  BY <1>2, <1>3, StopsGrow
<1> QED
  BY <1>1, <1>2, <1>3, <1>4, <1>5 DEF FoundRight

ScanState == InParameter \union {"INIT", "WHITESPACE", "COMMENT"}

(* What the table of states comes to: g is the state after s when c is read. *)
GoesRight(s, c, g) ==
  /\ g \in ScanState
  /\ g = "COMMENT" <=> c = "#" \/ (s = "COMMENT" /\ c # "newline")
  /\ s \notin InParameter /\ g \in InParameter => g = "PARAM" /\ c = "letter" /\ s # "COMMENT"
  /\ s \notin InParameter /\ s # "COMMENT" /\ c = "letter" => g = "PARAM"
  /\ s \in InParameter =>
       (g \notin InParameter <=> c \in {"#", "newline", "end"} \/ (c = " " /\ s # "EQUAL_STR"))
  /\ s \in InParameter /\ g \in InParameter =>
       (g = "EQUAL_STR" <=> (c = "quote" <=> s # "EQUAL_STR"))
  /\ c = "end" => g \notin InParameter

LEMMA GoesIs ==
  ASSUME NEW s \in ScanState, NEW c \in Char \union {"end"}
  PROVE  GoesRight(s, c, Goes(s, c))
<1>1. /\ s \in {"PARAM", "EQUAL", "EQUAL_STR", "INIT", "WHITESPACE", "COMMENT"}
      /\ c \in {"letter", "=", "quote", " ", "newline", "#", "other", "end"}
  BY DEF ScanState, InParameter, Char
<1> USE DEF InParameter, ScanState, GoesRight
<1>2. CASE s = "COMMENT"
  <2>1. Goes(s, c) = IF c = "newline" THEN "INIT" ELSE "COMMENT"
    BY <1>2 DEF Goes
  <2> QED
    BY <1>1, <1>2, <2>1
<1>3. CASE s # "COMMENT" /\ c = "#"
  <2>1. Goes(s, c) = "COMMENT"
    BY <1>3 DEF Goes
  <2> QED
    BY <1>1, <1>3, <2>1
<1>4. CASE s \in {"INIT", "WHITESPACE"} /\ c # "#"
  <2>1. Goes(s, c) = IF c = "letter" THEN "PARAM"
                     ELSE IF c \in {" ", "newline"} THEN "WHITESPACE" ELSE "INIT"
    BY <1>4 DEF Goes
  <2> QED
    BY <1>1, <1>4, <2>1
<1>5. CASE s \in {"PARAM", "EQUAL", "EQUAL_STR"} /\ c \in {"newline", "end"}
  <2>1. Goes(s, c) = "INIT"
    BY <1>5 DEF Goes
  <2> QED
    BY <1>1, <1>5, <2>1
<1>6. CASE s = "EQUAL_STR" /\ c \notin {"#", "newline", "end"}
  <2>1. Goes(s, c) = IF c = "quote" THEN "PARAM" ELSE "EQUAL_STR"
    BY <1>6 DEF Goes
  <2> QED
    BY <1>1, <1>6, <2>1
<1>7. CASE s \in {"PARAM", "EQUAL"} /\ c \notin {"#", "newline", "end"}
  <2>1. Goes(s, c) = IF c = " " THEN "INIT" ELSE IF c = "quote" THEN "EQUAL_STR"
                     ELSE IF c = "=" THEN "EQUAL" ELSE s
    BY <1>7 DEF Goes
  <2> QED
    BY <1>1, <1>7, <2>1
<1> QED
  BY <1>1, <1>2, <1>3, <1>4, <1>5, <1>6, <1>7

(* ScanInv, part by part. *)
ScanRuns ==
  scan.state \in InParameter =>
    /\ scan.start \in 1..Len(scan.text)
    /\ scan.text[scan.start] = "letter" /\ ~Commented(scan.start)
    /\ \A k \in scan.start..Len(scan.text) : ~Stops(scan.start, k)
    /\ scan.state = "EQUAL_STR" <=> Quotes(scan.start, Len(scan.text)) % 2 = 1
    /\ \A i \in DOMAIN scan.found : scan.found[i][2] < scan.start

ScanFound ==
  \A i \in DOMAIN scan.found :
    /\ FoundRight(scan.found[i][1], scan.found[i][2])
    /\ i > 1 => scan.found[i - 1][2] < scan.found[i][1]

ScanLeaves ==
  \A k \in DOMAIN scan.text :
    scan.text[k] = "letter" /\ ~Commented(k) =>
      \/ \E i \in DOMAIN scan.found : k \in scan.found[i][1]..scan.found[i][2]
      \/ scan.state \in InParameter /\ scan.start <= k

ScanTyped ==
  /\ scan.text \in Seq(Char \union {"end"}) /\ scan.found \in Seq(Nat \X Nat)
  /\ scan.state \in ScanState
  /\ scan.state = "COMMENT" <=> Commented(Len(scan.text) + 1)

LEMMA ScanParts ==
  ScanInv <=> /\ ScanTyped /\ ScanRuns /\ ScanFound /\ ScanLeaves
              /\ stage = "scanned" => scan.state \notin InParameter
  BY DEF ScanInv, ScanTyped, ScanRuns, ScanFound, ScanLeaves, ScanState

(* What ScanChar does, part by part. *)
Scans(c, n) ==
  /\ TextGrows(c, n) /\ scan'.state = Goes(scan.state, c)
  /\ scan.state \notin InParameter /\ scan'.state = "PARAM" => scan'.start = n + 1
  /\ scan.state \in InParameter /\ scan'.state \in InParameter => scan'.start = scan.start
  /\ scan'.found = IF scan.state \in InParameter /\ scan'.state \notin InParameter
                   THEN Append(scan.found, <<scan.start, n>>) ELSE scan.found

LEMMA ScanCharIs ==
  ASSUME ScanTyped, NEW c \in Char \union {"end"}, ScanChar(c)
  PROVE  Scans(c, Len(scan.text)) /\ (stage' = IF c = "end" THEN "scanned" ELSE "scan")
<1>1. PICK n : n = Len(scan.text)
  OBVIOUS
<1>2. n \in Nat
  BY <1>1 DEF ScanTyped
<1>3. PICK next : next = Goes(scan.state, c)
  OBVIOUS
<1>4. PICK starts : starts = (scan.state \notin InParameter /\ next = "PARAM")
  OBVIOUS
<1>5. PICK ends : ends = (scan.state \in InParameter /\ next \notin InParameter)
  OBVIOUS
<1>6. /\ scan' = [text |-> Append(scan.text, c), state |-> next,
                  start |-> IF starts THEN n + 1 ELSE IF ends THEN 0 ELSE scan.start,
                  found |-> IF ends THEN Append(scan.found, <<scan.start, (n + 1) - 1>>)
                                    ELSE scan.found]
      /\ stage' = IF c = "end" THEN "scanned" ELSE "scan"
  BY <1>1, <1>3, <1>4, <1>5 DEF ScanChar, Goto
<1>7. /\ scan'.text = Append(scan.text, c) /\ scan'.state = next
      /\ scan'.start = IF starts THEN n + 1 ELSE IF ends THEN 0 ELSE scan.start
      /\ scan'.found = IF ends THEN Append(scan.found, <<scan.start, (n + 1) - 1>>) ELSE scan.found
  BY <1>6
<1>8. TextGrows(c, n)
  BY <1>1, <1>7, Appended DEF ScanTyped
<1>9. (n + 1) - 1 = n
  BY <1>2
<1> QED
  BY <1>1, <1>3, <1>4, <1>5, <1>6, <1>7, <1>8, <1>9 DEF Scans, InParameter

LEMMA ScanTypedStep ==
  ASSUME ScanTyped, ScanRuns, NEW c \in Char \union {"end"}, NEW n, Scans(c, n) PROVE ScanTyped'
<1>1. /\ n \in Nat /\ Len(scan.text) = n /\ Len(scan'.text) = n + 1
      /\ scan'.text \in Seq(Char \union {"end"}) /\ TextGrows(c, n)
  BY DEF Scans, TextGrows
<1>2. scan'.state \in ScanState /\ (scan'.state = "COMMENT" <=> Commented(n + 2)')
  <2>1. Commented(n + 2)' <=> c = "#" \/ (Commented(n + 1) /\ c # "newline")
    BY <1>1, CommentGrows
  <2>2. scan.state \in ScanState /\ (scan.state = "COMMENT" <=> Commented(n + 1))
    BY <1>1 DEF ScanTyped
  <2>3. GoesRight(scan.state, c, Goes(scan.state, c))
    BY <2>2, GoesIs
  <2>4. GoesRight(scan.state, c, scan'.state)
    BY <2>3 DEF Scans
  <2> QED
    BY <2>1, <2>2, <2>4 DEF GoesRight
<1>3. scan'.found \in Seq(Nat \X Nat)
  <2>1. scan.state \in InParameter => scan.start \in 1..n
    BY <1>1 DEF ScanRuns
  <2>2. scan.state \in InParameter => <<scan.start, n>> \in Nat \X Nat
    BY <1>1, <2>1
  <2>3. PICK S : S = Nat \X Nat
    OBVIOUS
  <2>4. scan.found \in Seq(S)
    BY <2>3 DEF ScanTyped
  <2>5. \A x \in S : Append(scan.found, x) \in Seq(S)
    BY <2>4
  <2> QED
    BY <2>2, <2>3, <2>4, <2>5 DEF Scans
<1>4. Len(scan'.text) + 1 = n + 2
  BY <1>1
<1> QED
  BY <1>1, <1>2, <1>3, <1>4 DEF ScanTyped

(* A parameter that began goes on. *)
LEMMA ScanRunsStep ==
  ASSUME ScanTyped, ScanRuns, ScanFound, NEW c \in Char \union {"end"}, NEW n, Scans(c, n),
         scan'.state \in InParameter
  PROVE  ScanRuns' /\ scan'.found = scan.found
<1>1. /\ n \in Nat /\ Len(scan.text) = n /\ Len(scan'.text) = n + 1 /\ TextGrows(c, n)
      /\ scan'.text[n + 1] = c /\ \A k \in 1..n : scan'.text[k] = scan.text[k]
  BY DEF Scans, TextGrows
<1>2. GoesRight(scan.state, c, scan'.state)
  <2>1. scan.state \in ScanState /\ scan'.state = Goes(scan.state, c)
    BY DEF Scans, ScanTyped
  <2>2. GoesRight(scan.state, c, Goes(scan.state, c))
    BY <2>1, GoesIs
  <2> QED
    BY <2>1, <2>2
<1>3. scan'.found = scan.found
  BY DEF Scans
<1>4. CASE scan.state \notin InParameter
  <2>1. scan'.state = "PARAM" /\ c = "letter" /\ scan.state # "COMMENT"
    BY <1>2, <1>4 DEF GoesRight
  <2>2. scan'.start = n + 1 /\ n + 1 \in 1..(n + 1)
    BY <1>1, <1>4, <2>1 DEF Scans
  <2>3. ~Commented(n + 1)'
    <3>1. ~Commented(n + 1)
      BY <1>1, <2>1 DEF ScanTyped
    <3> QED
      BY <1>1, <2>2, <3>1, CommentGrows
  <2>4. \A k \in (n + 1)..(n + 1) : ~Stops(n + 1, k)'
    <3>1. ~Stops(n + 1, n + 1)'
      BY <1>1, <2>1, <2>2, StopsGrow
    <3>2. \A k \in (n + 1)..(n + 1) : k = n + 1
      BY <1>1
    <3> QED
      BY <3>1, <3>2
  <2>5. Quotes(n + 1, n + 1)' % 2 # 1
    <3>1. Quotes(n + 1, n + 1)' = 0
      BY <1>1, <2>1, <2>2, QuotesGrow
    <3> QED
      BY <3>1
  <2>6. \A i \in DOMAIN scan.found : scan.found[i][2] < n + 1
    <3>1. ASSUME NEW i \in DOMAIN scan.found PROVE scan.found[i][2] < n + 1
      <4>1. scan.found[i] \in Nat \X Nat
        BY <3>1 DEF ScanTyped
      <4>2. scan.found[i][2] \in Nat /\ scan.found[i][2] < n
        BY <1>1, <3>1, <4>1 DEF ScanFound, FoundRight
      <4> QED
        BY <1>1, <4>2
    <3> QED
      BY <3>1
  <2> QED
    BY <1>1, <1>3, <2>1, <2>2, <2>3, <2>4, <2>5, <2>6 DEF ScanRuns
<1>5. CASE scan.state \in InParameter
  <2>1. PICK a : a = scan.start
    OBVIOUS
  <2>2. /\ a \in 1..n /\ scan.text[a] = "letter" /\ ~Commented(a)
        /\ \A k \in a..n : ~Stops(a, k)
        /\ scan.state = "EQUAL_STR" <=> Quotes(a, n) % 2 = 1
        /\ \A i \in DOMAIN scan.found : scan.found[i][2] < a
    BY <1>1, <1>5, <2>1 DEF ScanRuns
  <2>3. scan'.start = a /\ a \in 1..(n + 1) /\ a \in Nat \ {0} /\ scan'.text[a] = "letter"
    BY <1>1, <1>5, <2>1, <2>2 DEF Scans
  <2>4. ~Commented(a)'
    BY <1>1, <2>2, <2>3, CommentGrows
  <2>5. /\ c \notin {"#", "newline", "end"} /\ (c # " " \/ scan.state = "EQUAL_STR")
        /\ (scan'.state = "EQUAL_STR" <=> (c = "quote" <=> scan.state # "EQUAL_STR"))
    BY <1>2, <1>5 DEF GoesRight
  <2>6. PICK q : q = Quotes(a, n)
    OBVIOUS
  <2>6a. q \in Nat /\ Quotes(a, n + 1)' = q + IF c = "quote" THEN 1 ELSE 0
    BY <1>1, <2>3, <2>6, QuotesGrow
  <2>6b. PICK r : r = q % 2
    OBVIOUS
  <2>7. \A k \in a..(n + 1) : ~Stops(a, k)'
    <3>1. ~Stops(a, n + 1)'
      <4>1. c = " " => r = 1
        BY <2>2, <2>5, <2>6, <2>6b
      <4>2. c = " " => r # 0
        <5>1. 1 # 0
          OBVIOUS
        <5> QED
          BY <4>1, <5>1, Zenon
      <4>3. Stops(a, n + 1)' =>
              c \in {"#", "newline", "end"} \/ (c = " " /\ Quotes(a, n) % 2 = 0)
        BY <1>1, <2>3, StopsGrow
      <4>4. Quotes(a, n) % 2 = r
        BY <2>6, <2>6b
      <4>5. ASSUME Stops(a, n + 1)' PROVE FALSE
        <5>1. c = " " /\ Quotes(a, n) % 2 = 0
          BY <2>5, <4>3, <4>5
        <5> QED
          BY <4>2, <4>4, <5>1
      <4> QED
        BY <4>5
    <3>2. ASSUME NEW k \in a..n PROVE ~Stops(a, k)'
      <4>1. k \in 1..n
        BY <1>1, <2>2
      <4> QED
        BY <1>1, <2>2, <2>3, <4>1, StopsGrow
    <3>3. \A k \in a..(n + 1) : k = n + 1 \/ k \in a..n
      BY <1>1, <2>2
    <3> QED
      BY <3>1, <3>2, <3>3
  <2>8. scan'.state = "EQUAL_STR" <=> Quotes(a, n + 1)' % 2 = 1
    <3>1. (q + 1) % 2 = 1 <=> ~(q % 2 = 1)
      BY <2>6a
    <3>2. q + 0 = q
      BY <2>6a
    <3>3. scan.state = "EQUAL_STR" <=> q % 2 = 1
      BY <2>2, <2>6
    <3>4. CASE c = "quote"
      <4>1. Quotes(a, n + 1)' = q + 1
        BY <2>6a, <3>4
      <4> QED
        BY <2>5, <3>1, <3>3, <3>4, <4>1
    <3>5. CASE c # "quote"
      <4>1. Quotes(a, n + 1)' = q
        BY <2>6a, <3>2, <3>5
      <4> QED
        BY <2>5, <3>3, <3>5, <4>1
    <3> QED
      BY <3>4, <3>5
  <2> QED
    BY <1>1, <1>3, <2>2, <2>3, <2>4, <2>7, <2>8 DEF ScanRuns
<1> QED
  BY <1>3, <1>4, <1>5

(* What was found stays right, and a parameter that ends is found. *)
LEMMA ScanFoundStep ==
  ASSUME ScanTyped, ScanRuns, ScanFound, NEW c \in Char \union {"end"}, NEW n, Scans(c, n)
  PROVE  ScanFound'
<1>1. /\ n \in Nat /\ Len(scan.text) = n /\ Len(scan'.text) = n + 1 /\ TextGrows(c, n)
      /\ \A k \in 1..n : scan'.text[k] = scan.text[k]
  BY DEF Scans, TextGrows
<1>2. PICK f : f = scan.found
  OBVIOUS
<1>3. f \in Seq(Nat \X Nat) /\ Len(f) \in Nat /\ DOMAIN f = 1..Len(f)
  BY <1>2 DEF ScanTyped
<1>4. \A i \in DOMAIN f : f[i][1] \in Nat /\ f[i][2] \in Nat
  <2> SUFFICES ASSUME NEW i \in DOMAIN f PROVE f[i][1] \in Nat /\ f[i][2] \in Nat
    OBVIOUS
  <2>1. f[i] \in Nat \X Nat
    BY <1>3
  <2> QED
    BY <2>1
<1>5. ASSUME NEW i \in DOMAIN f
      PROVE  FoundRight(f[i][1], f[i][2])' /\ (i > 1 => f[i - 1][2] < f[i][1])
  <2>1. FoundRight(f[i][1], f[i][2]) /\ (i > 1 => f[i - 1][2] < f[i][1])
    BY <1>2 DEF ScanFound
  <2>2. f[i][1] \in Nat /\ f[i][2] \in Nat
    BY <1>4
  <2>3. PICK a \in Nat : a = f[i][1]
    BY <2>2
  <2>4. PICK b \in Nat : b = f[i][2]
    BY <2>2
  <2>5. FoundRight(a, b)'
    BY <1>1, <2>1, <2>3, <2>4, FoundStays
  <2>6. f[i][1] = a /\ f[i][2] = b
    BY <2>3, <2>4
  <2> QED
    BY <2>1, <2>5, <2>6
<1>6. CASE scan.state \in InParameter /\ scan'.state \notin InParameter
  <2>1. PICK a : a = scan.start
    OBVIOUS
  <2>2. /\ a \in 1..n /\ scan.text[a] = "letter" /\ ~Commented(a)
        /\ \A k \in a..n : ~Stops(a, k)
        /\ scan.state = "EQUAL_STR" <=> Quotes(a, n) % 2 = 1
        /\ \A i \in DOMAIN f : f[i][2] < a
    BY <1>1, <1>2, <1>6, <2>1 DEF ScanRuns
  <2>3. PICK x : x = <<a, n>>
    OBVIOUS
  <2>4. x[1] = a /\ x[2] = n /\ x \in Nat \X Nat
    BY <1>1, <2>2, <2>3
  <2>5. PICK g : g = Append(f, x)
    OBVIOUS
  <2>6. scan'.found = g
    BY <1>2, <1>6, <2>1, <2>3, <2>5 DEF Scans
  <2>7. /\ DOMAIN g = 1..(Len(f) + 1) /\ g[Len(f) + 1] = x
        /\ \A i \in 1..Len(f) : g[i] = f[i]
    BY <1>3, <2>4, <2>5
  <2>8. FoundRight(a, n)'
    <3>1. /\ a \in 1..(n + 1) /\ a \in Nat \ {0} /\ n < n + 1 /\ scan'.text[a] = "letter"
      BY <1>1, <2>2
    <3>2. ~Commented(a)'
      BY <1>1, <2>2, <3>1, CommentGrows
    <3>3. \A k \in a..n : ~Stops(a, k)'
      <4>1. \A k \in a..n : k \in 1..n
        BY <1>1, <2>2
      <4> QED
        BY <1>1, <2>2, <3>1, <4>1, StopsGrow
    <3>4. Stops(a, n + 1)'
      <4>1. GoesRight(scan.state, c, scan'.state)
        <5>1. scan.state \in ScanState /\ scan'.state = Goes(scan.state, c)
          BY DEF Scans, ScanTyped
        <5>2. GoesRight(scan.state, c, Goes(scan.state, c))
          BY <5>1, GoesIs
        <5> QED
          BY <5>1, <5>2
      <4>2. c \in {"#", "newline", "end"} \/ (c = " " /\ scan.state # "EQUAL_STR")
        BY <1>6, <4>1 DEF GoesRight
      <4>3. Quotes(a, n) \in Nat
        BY <1>1, <3>1, QuotesGrow
      <4>4. Quotes(a, n) % 2 = 0 \/ Quotes(a, n) % 2 = 1
        BY <4>3
      <4>5. c \in {"#", "newline", "end"} \/ (c = " " /\ Quotes(a, n) % 2 = 0)
        BY <2>2, <4>2, <4>4
      <4>6. Stops(a, n + 1)' <=>
              c \in {"#", "newline", "end"} \/ (c = " " /\ Quotes(a, n) % 2 = 0)
        BY <1>1, <3>1, StopsGrow
      <4> QED
        BY <4>5, <4>6
    <3> QED
      BY <1>1, <2>2, <3>1, <3>2, <3>3, <3>4 DEF FoundRight
  <2>9. ASSUME NEW i \in DOMAIN g
        PROVE  FoundRight(g[i][1], g[i][2])' /\ (i > 1 => g[i - 1][2] < g[i][1])
    <3>1. CASE i = Len(f) + 1
      <4>1. g[i] = x
        BY <2>7, <3>1
      <4>2. i > 1 => i - 1 \in DOMAIN f /\ g[i - 1] = f[i - 1]
        BY <1>3, <2>7, <3>1
      <4> QED
        BY <2>2, <2>4, <2>8, <4>1, <4>2
    <3>2. CASE i # Len(f) + 1
      <4>1. i \in DOMAIN f /\ g[i] = f[i]
        BY <1>3, <2>7, <3>2
      <4>2. i > 1 => i - 1 \in DOMAIN f /\ g[i - 1] = f[i - 1]
        BY <1>3, <2>7, <4>1
      <4>3. FoundRight(f[i][1], f[i][2])' /\ (i > 1 => f[i - 1][2] < f[i][1])
        BY <1>5, <4>1
      <4> QED
        BY <4>1, <4>2, <4>3
    <3> QED
      BY <3>1, <3>2
  <2> QED
    BY <2>6, <2>9 DEF ScanFound
<1>7. CASE ~(scan.state \in InParameter /\ scan'.state \notin InParameter)
  <2>1. scan'.found = f
    BY <1>2, <1>7 DEF Scans
  <2> QED
    BY <1>5, <2>1 DEF ScanFound
<1> QED
  BY <1>6, <1>7

(* No letter outside the comments is left out. *)
LEMMA ScanLeavesStep ==
  ASSUME ScanTyped, ScanRuns, ScanLeaves, NEW c \in Char \union {"end"}, NEW n, Scans(c, n)
  PROVE  ScanLeaves'
<1>1. /\ n \in Nat /\ Len(scan.text) = n /\ Len(scan'.text) = n + 1 /\ TextGrows(c, n)
      /\ DOMAIN scan.text = 1..n /\ DOMAIN scan'.text = 1..(n + 1)
      /\ scan'.text[n + 1] = c /\ \A k \in 1..n : scan'.text[k] = scan.text[k]
  BY DEF Scans, TextGrows
<1>2. PICK f : f = scan.found
  OBVIOUS
<1>3. f \in Seq(Nat \X Nat) /\ Len(f) \in Nat /\ DOMAIN f = 1..Len(f)
  BY <1>2 DEF ScanTyped
<1>4. PICK g : g = scan'.found
  OBVIOUS
<1>5. PICK a : a = scan.start
  OBVIOUS
<1>6. scan.state \in InParameter => a \in 1..n
  BY <1>1, <1>5 DEF ScanRuns
<1>7. /\ scan.state \in InParameter /\ scan'.state \notin InParameter =>
           \E i \in DOMAIN g : g[i] = <<a, n>>
      /\ \A i \in DOMAIN f : i \in DOMAIN g /\ g[i] = f[i]
  <2>1. CASE scan.state \in InParameter /\ scan'.state \notin InParameter
    <3>1. PICK x : x = <<a, n>>
      OBVIOUS
    <3>2. x \in Nat \X Nat
      BY <1>1, <1>6, <2>1, <3>1
    <3>3. g = Append(f, x)
      BY <1>2, <1>4, <1>5, <2>1, <3>1 DEF Scans
    <3>4. DOMAIN g = 1..(Len(f) + 1) /\ g[Len(f) + 1] = x /\ \A i \in 1..Len(f) : g[i] = f[i]
      BY <1>3, <3>2, <3>3
    <3>5. Len(f) + 1 \in DOMAIN g /\ \A i \in DOMAIN f : i \in DOMAIN g
      BY <1>3, <3>4
    <3> QED
      BY <1>3, <3>1, <3>4, <3>5
  <2>2. CASE ~(scan.state \in InParameter /\ scan'.state \notin InParameter)
    <3>1. g = f
      BY <1>2, <1>4, <2>2 DEF Scans
    <3> QED
      BY <2>2, <3>1
  <2> QED
    BY <2>1, <2>2
<1>8. GoesRight(scan.state, c, scan'.state)
  <2>1. scan.state \in ScanState /\ scan'.state = Goes(scan.state, c)
    BY DEF Scans, ScanTyped
  <2>2. GoesRight(scan.state, c, Goes(scan.state, c))
    BY <2>1, GoesIs
  <2> QED
    BY <2>1, <2>2
<1>9. ASSUME NEW k \in 1..(n + 1), scan'.text[k] = "letter", ~Commented(k)'
      PROVE  \/ \E i \in DOMAIN g : k \in g[i][1]..g[i][2]
             \/ scan'.state \in InParameter /\ scan'.start <= k
  <2>1. ~Commented(k)
    BY <1>1, <1>9, CommentGrows
  <2>2. CASE scan.state \in InParameter /\ a <= k
    <3>1. CASE scan'.state \in InParameter
      <4>1. scan'.start = a
        BY <1>5, <2>2, <3>1 DEF Scans
      <4> QED
        BY <2>2, <3>1, <4>1
    <3>2. CASE scan'.state \notin InParameter
      <4>1. k # n + 1
        <5>1. c # "letter"
          BY <1>8, <2>2, <3>2 DEF GoesRight
        <5> QED
          BY <1>1, <1>9, <5>1
      <4>2. k \in a..n
        BY <1>1, <1>6, <2>2, <4>1
      <4>3. PICK i \in DOMAIN g : g[i] = <<a, n>>
        BY <1>7, <2>2, <3>2
      <4>4. g[i][1] = a /\ g[i][2] = n
        BY <4>3
      <4> QED
        BY <4>2, <4>4
    <3> QED
      BY <3>1, <3>2
  <2>3. CASE ~(scan.state \in InParameter /\ a <= k) /\ k \in 1..n
    <3>1. scan.text[k] = "letter"
      BY <1>1, <1>9, <2>3
    <3>2. PICK i \in DOMAIN f : k \in f[i][1]..f[i][2]
      BY <1>1, <1>2, <1>5, <2>1, <2>3, <3>1 DEF ScanLeaves
    <3> QED
      BY <1>7, <3>2
  <2>4. CASE ~(scan.state \in InParameter /\ a <= k) /\ k = n + 1
    <3>1. scan.state \notin InParameter
      BY <1>1, <1>6, <2>4
    <3>2. c = "letter" /\ scan.state # "COMMENT"
      BY <1>1, <1>9, <2>1, <2>4 DEF ScanTyped
    <3>3. scan'.state = "PARAM"
      BY <1>8, <3>1, <3>2 DEF GoesRight
    <3>4. scan'.start = n + 1
      BY <3>1, <3>3 DEF Scans
    <3> QED
      BY <1>1, <2>4, <3>3, <3>4 DEF InParameter
  <2> QED
    BY <1>1, <2>2, <2>3, <2>4
<1> QED
  BY <1>1, <1>4, <1>9 DEF ScanLeaves

LEMMA ScanCharScans ==
  ASSUME ScanInv, NEW c \in Char \union {"end"}, ScanChar(c) PROVE ScanInv'
<1>1. ScanTyped /\ ScanRuns /\ ScanFound /\ ScanLeaves
  BY ScanParts
<1>2. PICK n : n = Len(scan.text)
  OBVIOUS
<1>3. Scans(c, n) /\ (stage' = IF c = "end" THEN "scanned" ELSE "scan")
  BY <1>1, <1>2, ScanCharIs
<1>4. ScanTyped' /\ ScanFound' /\ ScanLeaves'
  BY <1>1, <1>3, ScanTypedStep, ScanFoundStep, ScanLeavesStep
<1>5. ScanRuns'
  <2>1. CASE scan'.state \in InParameter
    BY <1>1, <1>3, <2>1, ScanRunsStep
  <2>2. CASE scan'.state \notin InParameter
    BY <2>2 DEF ScanRuns
  <2> QED
    BY <2>1, <2>2
<1>6. stage' = "scanned" => scan'.state \notin InParameter
  <2>1. scan.state \in ScanState /\ scan'.state = Goes(scan.state, c)
    BY <1>1, <1>3 DEF Scans, ScanTyped
  <2>2. GoesRight(scan.state, c, scan'.state)
    BY <2>1, GoesIs
  <2> QED
    BY <1>3, <2>2 DEF GoesRight
<1>7. (ScanInv <=> /\ ScanTyped /\ ScanRuns /\ ScanFound /\ ScanLeaves
                   /\ stage = "scanned" => scan.state \notin InParameter)'
  BY ScanParts, PTL
<1> QED
  BY <1>4, <1>5, <1>6, <1>7

LEMMA ScanCharStep ==
  ASSUME ConfigInv, NEW c \in Char \union {"end"}, ScanChar(c) PROVE ConfigInv'
<1>1. /\ stage \in Unread /\ stage' \in Unread /\ line' = line /\ argv' = argv /\ fate' = fate
      /\ parsed' = parsed /\ conf' = conf /\ child' = child
  BY DEF ScanChar, Goto, Unread
<1>2. LineTyped /\ ArgvInv /\ SettingsInv /\ line \in Seq(Parameter)
  BY DEF ConfigInv, LineTyped
<1>3. ArgvNext /\ FateKept /\ TurnsTo("switch") /\ ArgvInv'
  BY <1>1, <1>2, NothingTaken
<1>4. SettingsInv'
  BY <1>1, <1>2, <1>3, SettingsSame
<1>5. LineTyped'
  BY <1>1, <1>2 DEF LineTyped
<1>6. ConfTyped'
  BY <1>1 DEF ConfigInv, ConfTyped
<1>7. stage' \notin Turns \union Decided \union {"error", "boot"}
  BY <1>1, TurnsAre DEF Unread, Decided
<1>8. DOMAIN line' = {}
  BY <1>1, <1>2 DEF LineTyped
<1>9. StageInv' /\ HeededInv'
  BY <1>7, <1>8 DEF StageInv, HeededInv, Turns
<1>10. DevicesExist'
  <2>1. UnitsGrow /\ stage' \notin {"running", "over"}
    BY <1>1, <1>7 DEF UnitsGrow, Decided
  <2> QED
    BY <1>1, <2>1, DevicesStay DEF ConfigInv
<1>11. ScanInv'
  BY ScanCharScans DEF ConfigInv
<1> QED
  BY <1>3, <1>4, <1>5, <1>6, <1>9, <1>10, <1>11 DEF ConfigInv

LEMMA ConfigInvInit ==
  ASSUME ConfigInit PROVE ConfigInv
<1>1. /\ line = <<>> /\ stage = "files" /\ argv = <<>> /\ parsed = TRUE /\ fate = <<>>
      /\ scan = [text |-> <<>>, state |-> "INIT", start |-> 0, found |-> <<>>]
      /\ conf = [unit |-> [k \in Kind |-> [n \in Unit |-> NoUnit]],
                 alias |-> [n \in Unit |-> 0], pci |-> [s \in PciSlot |-> NoUnit],
                 option |-> [o \in Option |-> 0], boot |-> <<>>]
  BY DEF ConfigInit
<1>2. stage \in Unread /\ stage \notin Turns \union Decided /\ stage # "boot" /\ stage # "error"
  BY <1>1, TurnsAre DEF Unread, Decided
<1>3. LineTyped
  <2>1. line \in Seq(Parameter) /\ argv \in Seq(Nat) /\ DOMAIN line = {} /\ DOMAIN argv = {}
    <3>1. <<>> \in Seq(Parameter) /\ <<>> \in Seq(Nat)
      OBVIOUS
    <3> QED
      BY <1>1, <3>1
  <2>2. fate \in [DOMAIN line -> Fates]
    BY <1>1
  <2> QED
    BY <1>1, <1>2, <2>1, <2>2 DEF LineTyped
<1>4. NothingSet
  BY <1>1 DEF NothingSet, NoUnit
<1>5. ConfTyped
  <2>1. PICK x : x = <<>>
    OBVIOUS
  <2>2. PICK r : r = [from |-> 0, fields |-> x]
    OBVIOUS
  <2>3. r \in [from : Nat, fields : {x}] /\ r = NoUnit
    BY <2>1, <2>2 DEF NoUnit
  <2>4. PICK b : b = <<>> /\ b \in Seq(Nat)
    <3>1. <<>> \in Seq(Nat)
      OBVIOUS
    <3> QED
      BY <3>1
  <2>5. conf = [unit |-> [k \in Kind |-> [n \in Unit |-> r]],
                alias |-> [n \in Unit |-> 0], pci |-> [s \in PciSlot |-> r],
                option |-> [o \in Option |-> 0], boot |-> b]
    BY <1>1, <2>3, <2>4
  <2>6. conf \in Configs({x})
    BY <2>3, <2>4, <2>5 DEF Configs
  <2> QED
    BY <2>6 DEF ConfTyped
<1>6. ArgvInv
  BY <1>1 DEF ArgvInv
<1>7. SettingsInv
  BY <1>1, <1>4, NothingSetInv
<1>8. StageInv /\ HeededInv
  BY <1>1, <1>2, SMTT(30) DEF StageInv, HeededInv, Turns
<1>9. DevicesExist
  BY <1>2, <1>4 DEF DevicesExist, NothingSet, Decided
<1>10. ScanInv
  <2>1. /\ scan.text = <<>> /\ scan.found = <<>> /\ scan.state = "INIT" /\ stage # "scanned"
    BY <1>1
  <2>2. scan.text \in Seq(Char \union {"end"}) /\ scan.found \in Seq(Nat \X Nat)
    <3>1. PICK S : S = Char \union {"end"}
      OBVIOUS
    <3>2. PICK R : R = Nat \X Nat
      OBVIOUS
    <3>3. <<>> \in Seq(S) /\ <<>> \in Seq(R)
      OBVIOUS
    <3> QED
      BY <2>1, <3>1, <3>2, <3>3
  <2>3. Len(scan.text) + 1 = 1 /\ ~Commented(1)
    BY <2>1 DEF Commented
  <2>4. ScanTyped
    BY <2>1, <2>2, <2>3 DEF ScanTyped, ScanState
  <2>5. scan.state \notin InParameter
    BY <2>1 DEF InParameter
  <2>6. ScanRuns /\ ScanFound /\ ScanLeaves
    BY <2>1, <2>5 DEF ScanRuns, ScanFound, ScanLeaves
  <2> QED
    BY <2>1, <2>4, <2>6, ScanParts
<1> QED
  BY <1>3, <1>5, <1>6, <1>7, <1>8, <1>9, <1>10 DEF ConfigInv

LEMMA ConfigInvStep ==
  ASSUME ConfigInv, [ConfigNext]_configVars PROVE ConfigInv'
<1>1. CASE ConfigNext
  <2>1. \/ \E c \in Char \union {"end"} : ScanChar(c)
        \/ ParamsAlloc
        \/ \E s \in Plain : Switch(s)
        \/ \E s \in Optional \union Mandatory : SwitchWithArgument(s)
        \/ \E o \in Option : OneOption(o)
        \/ \E k \in Kind : Device(k)
        \/ \E x \in Prefix : Alias(x)
        \/ PciDevice
        \/ FormatRemaining \/ CheckUnparsed \/ LaunchDaemons \/ KillExecutes
    BY <1>1 DEF ConfigNext
  <2>2. CASE \E c \in Char \union {"end"} : ScanChar(c)
    BY <2>2, ScanCharStep
  <2>3. CASE ParamsAlloc
    BY <2>3, ParamsAllocStep
  <2>4. CASE \E s \in Plain : Switch(s)
    BY <2>4, SwitchStep
  <2>5. CASE \E s \in Optional \union Mandatory : SwitchWithArgument(s)
    BY <2>5, SwitchWithArgumentStep
  <2>6. CASE \E o \in Option : OneOption(o)
    BY <2>6, OneOptionStep
  <2>7. CASE \E k \in Kind : Device(k)
    BY <2>7, DeviceStep
  <2>8. CASE \E x \in Prefix : Alias(x)
    BY <2>8, AliasStep
  <2>9. CASE PciDevice
    BY <2>9, PciDeviceStep
  <2>10. CASE FormatRemaining
    BY <2>10, FormatRemainingStep
  <2>11. CASE CheckUnparsed
    BY <2>11, CheckUnparsedStep
  <2>12. CASE LaunchDaemons
    BY <2>12, LaunchDaemonsStep
  <2>13. CASE KillExecutes
    BY <2>13, KillExecutesStep
  <2> QED
    BY <2>1, <2>2, <2>3, <2>4, <2>5, <2>6, <2>7, <2>8, <2>9, <2>10, <2>11, <2>12, <2>13
<1>2. CASE UNCHANGED configVars
  <2>1. /\ line' = line /\ argv' = argv /\ stage' = stage /\ parsed' = parsed /\ conf' = conf
        /\ child' = child /\ fate' = fate /\ scan' = scan
    BY <1>2 DEF configVars
  <2>2. LineTyped /\ ArgvInv /\ SettingsInv /\ line \in Seq(Parameter)
    BY DEF ConfigInv, LineTyped
  <2>3. ArgvNext /\ FateKept /\ TurnsTo("switch") /\ ArgvInv'
    BY <2>1, <2>2, NothingTaken
  <2>4. SettingsInv'
    BY <2>1, <2>2, <2>3, SettingsSame
  <2>5. LineTyped' /\ ConfTyped'
    BY <2>1 DEF ConfigInv, LineTyped, ConfTyped
  <2>6. StageInv' /\ HeededInv'
    BY <2>1 DEF ConfigInv, StageInv, HeededInv
  <2>7. DevicesExist'
    <3>1. \A k : Enabled(k)' = Enabled(k)
      BY <2>1 DEF Enabled
    <3>2. DevicesExist
      BY DEF ConfigInv
    <3> QED
      BY <2>1, <3>1, <3>2 DEF DevicesExist
  <2>8. ScanInv'
    BY <2>1, ScanStays DEF ConfigInv
  <2> QED
    BY <2>3, <2>4, <2>5, <2>6, <2>7, <2>8 DEF ConfigInv
<1> QED
  BY <1>1, <1>2

(* Whatever the command line and the @files hold, a parameter that is taken sets what it names
   and nothing else, none is passed over when the daemon knows what to do but for the exceptions
   that NothingUnheeded names, what is referred to exists, and the scanner of @files finds the
   parameters that are there (the handlers of cmdline.c and config.c). *)
THEOREM ConfigAgrees == ConfigSpec => []ConfigExact
<1>1. ConfigInit => ConfigInv
  BY ConfigInvInit
<1>2. ConfigInv /\ [ConfigNext]_configVars => ConfigInv'
  BY ConfigInvStep
<1> QED
  BY <1>1, <1>2, ConfigInvExact, PTL DEF ConfigSpec

(* The switches that were found are switches, and a child process has one of three states. *)
FoundTyped ==
  /\ chosen \subseteq Dashed
  /\ \A d \in DOMAIN child : child[d] \in {"running", "failed", "killed"}

LEMMA FoundTypedStep ==
  ASSUME FoundTyped, [ConfigNext]_configVars PROVE FoundTyped'
<1>1. CASE UNCHANGED configVars
  BY <1>1 DEF configVars, FoundTyped
<1>3. CASE \E s \in Plain : Switch(s)
  <2>1. PICK s \in Plain : Switch(s)
    BY <1>3
  <2>2. s \in Dashed /\ chosen' \subseteq chosen \union {s} /\ child' = child
    BY <2>1 DEF Switch, Dashed
  <2> QED
    BY <2>2 DEF FoundTyped
<1>4. CASE \E s \in Optional \union Mandatory : SwitchWithArgument(s)
  <2>1. PICK s \in Optional \union Mandatory : SwitchWithArgument(s)
    BY <1>4
  <2>2. s \in Dashed /\ chosen' \subseteq chosen \union {s} /\ child' = child
    BY <2>1 DEF SwitchWithArgument, Dashed
  <2> QED
    BY <2>2 DEF FoundTyped
<1>5. CASE LaunchDaemons
  <2>1. chosen' = chosen /\ \A d \in DOMAIN child' : child'[d] \in {"running", "failed"}
    BY <1>5 DEF LaunchDaemons
  <2> QED
    BY <2>1 DEF FoundTyped
<1>6. CASE KillExecutes
  <2>1. /\ chosen' = chosen /\ DOMAIN child' = DOMAIN child
        /\ \A d \in DOMAIN child : child'[d] \in {"killed", child[d]}
    BY <1>6 DEF KillExecutes
  <2> QED
    BY <2>1 DEF FoundTyped
<1>7. CASE \/ \E c \in Char \union {"end"} : ScanChar(c)
           \/ ParamsAlloc
           \/ \E o \in Option : OneOption(o)
           \/ \E k \in Kind : Device(k)
           \/ \E x \in Prefix : Alias(x)
           \/ PciDevice
           \/ FormatRemaining \/ CheckUnparsed
  <2>1. chosen' = chosen /\ child' = child
    BY <1>7 DEF ScanChar, ParamsAlloc, OneOption, Device, Alias, PciDevice, NoMore, RefusesDevice,
                FormatRemaining, CheckUnparsed
  <2> QED
    BY <2>1 DEF FoundTyped
<1> QED
  BY <1>1, <1>3, <1>4, <1>5, <1>6, <1>7 DEF ConfigNext

LEMMA ConfigInvTyped ==
  ASSUME ConfigInv, FoundTyped PROVE ConfigTypeOK
<1>1. LineTyped /\ SettingsInv /\ \E Fields : conf \in Configs(Fields)
  BY DEF ConfigInv, ConfTyped
<1>2. stage \in {Order[i] : i \in DOMAIN Order} \union
        {"files", "scan", "scanned", "check", "command", "launch", "running", "over", "error"}
  <2>1. DOMAIN Order = 1..30
    BY DEF Order, ParserOrder, ConfigOrder
  <2>2. Turns = {Order[i] : i \in DOMAIN Order}
    BY <2>1 DEF Turns
  <2> QED
    BY <1>1, <2>2 DEF LineTyped, Unread, Decided
<1>3. \A k \in Kind, n \in Unit : conf.unit[k][n].from \in {0} \union DOMAIN line
  BY <1>1 DEF SettingsInv, UnitsOwned
<1>4. conf.alias \in [Unit -> {0} \union DOMAIN line]
  <2>1. \A n \in Unit : conf.alias[n] \in {0} \union DOMAIN line
    BY <1>1 DEF SettingsInv, AliasesOwned
  <2>2. conf.alias \in [Unit -> Nat]
    BY <1>1 DEF Configs
  <2> QED
    BY <2>1, <2>2
<1>5. conf.option \in [Option -> {0} \union DOMAIN line]
  <2>1. \A o \in Option : conf.option[o] \in {0} \union DOMAIN line
    BY <1>1 DEF SettingsInv, OptionsOwned
  <2>2. conf.option \in [Option -> Nat]
    BY <1>1 DEF Configs
  <2> QED
    BY <2>1, <2>2
<1>6. /\ parsed \in BOOLEAN /\ DOMAIN fate = DOMAIN line
      /\ \A i \in DOMAIN argv : argv[i] \in {0} \union DOMAIN line
  BY <1>1 DEF LineTyped
<1> QED
  BY <1>2, <1>3, <1>4, <1>5, <1>6 DEF ConfigTypeOK, FoundTyped

(* Every variable of the command line's parsers has its type, whatever the line (cmdline.c,
   config.c, daemon.c). *)
THEOREM ConfigTyping == ConfigSpec => []ConfigTypeOK
<1>1. ConfigInit => ConfigInv /\ FoundTyped
  <2>1. ConfigInit => FoundTyped
    BY DEF ConfigInit, FoundTyped
  <2> QED
    BY <2>1, ConfigInvInit
<1>2. ConfigInv /\ FoundTyped /\ [ConfigNext]_configVars => ConfigInv' /\ FoundTyped'
  BY ConfigInvStep, FoundTypedStep
<1> QED
  BY <1>1, <1>2, ConfigInvTyped, PTL DEF ConfigSpec
=============================================================================
