---------------------------- MODULE ConetAdapter ----------------------------
(***************************************************************************)
(* Kernel mode bridging of one conet unit of a monitor: the adapters that  *)
(* are bound to a network card of the host, the packets handed to NDIS,    *)
(* and the work items that carry received packets to the guest's queue.    *)
(*                                                                         *)
(* Source: os/winnt/kernel/conet.c, called by the monitor's ioctls and by  *)
(* the guest's messages (kernel/monitor.c).  The callers of bind and       *)
(* unbind hold a handle of the monitor; NDIS and the card are external:    *)
(* NDIS ends a close when what it was given is complete, and it may unbind *)
(* an adapter itself when the card goes.  Filtering by address and the     *)
(* packet filter request are left out.                                     *)
(***************************************************************************)
EXTENDS Integers, FiniteSets

CONSTANTS
  ConetUser,   (* threads inside an ioctl of the monitor                     *)
  Adapter,     (* bound: memory for this many adapters                       *)
  PoolSize,    (* packets in an adapter's pool                               *)
  MaxWork      (* bound: work items queued                                   *)

ASSUME ConetAssumption ==
  /\ PoolSize \in Nat \ {0} /\ MaxWork \in Nat \ {0}
  /\ IsFiniteSet(Adapter) /\ "none" \notin Adapter

VARIABLES
  conetMonitor,   (* "up", "destroying", "freed"                             *)
  conetAdapter,   (* the memory of each: life, NDIS's side of the binding,
                     binding_handle set; of pending_send_list what NDIS has
                     (sends) and has not (late), pending_transfer_list, and
                     whether a packet of a freed pool was linked on it       *)
  conetUser,      (* what each user is doing, and with which adapter         *)
  injector,       (* the same of the thread that runs the guest, and what its
                     pointers are worth: "bound", "closed", "freed", "reused" *)
  conetTold,      (* history: the last answer was that the unit is bound     *)
  workItems,      (* queued work items, each with one message                *)
  conetMishaps    (* history                                                 *)

conetVars == <<conetMonitor, conetAdapter, conetUser, injector, conetTold, workItems, conetMishaps>>

Free      == [life |-> "free", ndis |-> "closed", handle |-> FALSE,
              sends |-> 0, late |-> 0, transfers |-> 0, list |-> "own"]
ConetIdle == [at |-> "idle", adapter |-> "none"]
Outside   == [at |-> "idle", adapter |-> "none", sees |-> "bound"]

ConetInit ==
  /\ conetMonitor = "up" /\ conetAdapter = [a \in Adapter |-> Free]
  /\ conetUser = [u \in ConetUser |-> ConetIdle] /\ injector = Outside
  /\ conetTold = FALSE /\ workItems = 0 /\ conetMishaps = {}

Listed_Bound == {a \in Adapter : conetAdapter[a].life = "listed" /\ conetAdapter[a].handle}
Listed == {a \in Adapter : conetAdapter[a].life = "listed"}
(* The injecting thread has a packet of the pool: in hand, or on the list before NDIS has it. *)
Injecting(at, a) == injector.at = at /\ injector.adapter = a /\ injector.sees # "freed"
Loose(a)   == IF Injecting("packet", a) THEN 1 ELSE 0
Linked(a)  == IF Injecting("linked", a) THEN 1 ELSE 0
(* What is left of the packet pool, which sends and receives share. *)
Outstanding_SendsOnly(r) == r.sends + r.late
Outstanding(r)  == r.sends + r.late + r.transfers
InPool(a) == PoolSize - Outstanding(conetAdapter[a]) - Loose(a)

(* What becomes of the pointers the injecting thread has, when that adapter is closed or freed
   under it; whoever is given the memory next is whose pool it then takes its packet from. *)
PointersTo(a, worth) ==
  injector' = IF injector.adapter # a \/ (worth = "closed" /\ injector.sees # "bound")
                 \/ (worth = "reused" /\ injector.at # "adapter")
              THEN injector ELSE [injector EXCEPT !.sees = worth]

-----------------------------------------------------------------------------
(* co_conet_bind_adapter *)

(* An adapter of the unit on the list ends it well, whether or not it is still bound to
   its card; creating one may fail. *)
BindChecks(u) ==
  /\ conetMonitor = "up" /\ conetUser[u] = ConetIdle
  /\ IF Listed # {} THEN conetTold' = TRUE /\ UNCHANGED <<conetAdapter, conetUser, injector, conetMishaps>>
     ELSE \/ UNCHANGED <<conetAdapter, conetUser, injector, conetMishaps, conetTold>>
          \/ \E a \in Adapter :
               /\ conetAdapter[a].life = "free" /\ PointersTo(a, "reused")
               /\ conetAdapter' = [conetAdapter EXCEPT ![a] = [Free EXCEPT !.life = "made"]]
               /\ conetUser' = [conetUser EXCEPT ![u] = [at |-> "bind", adapter |-> a]]
               /\ conetMishaps' = IF \E v \in ConetUser : conetUser[v].at \in {"bind", "bound"}
                                  THEN conetMishaps \union {"overlap"} ELSE conetMishaps
               /\ UNCHANGED conetTold
  /\ UNCHANGED <<conetMonitor, workItems>>

(* NdisOpenAdapter, and the wait for its completion. *)
BindOpens(u) ==
  /\ conetUser[u].at = "bind"
  /\ LET a == conetUser[u].adapter IN
     \/ /\ conetAdapter' = [conetAdapter EXCEPT ![a].ndis = "open", ![a].handle = TRUE]
        /\ conetUser' = [conetUser EXCEPT ![u].at = "bound"] /\ UNCHANGED injector
     \/ /\ conetAdapter' = [conetAdapter EXCEPT ![a] = Free]
        /\ conetUser' = [conetUser EXCEPT ![u] = ConetIdle] /\ PointersTo(a, "freed")
  /\ UNCHANGED <<conetMonitor, conetTold, workItems, conetMishaps>>

BindLists(u) ==
  /\ conetUser[u].at = "bound"
  /\ conetAdapter' = [conetAdapter EXCEPT ![conetUser[u].adapter].life = "listed"]
  /\ conetUser' = [conetUser EXCEPT ![u] = ConetIdle] /\ conetTold' = TRUE
  /\ UNCHANGED <<conetMonitor, injector, workItems, conetMishaps>>

-----------------------------------------------------------------------------
(* co_conet_unbind_adapter, and co_conet_unregister_protocol of a monitor without handles *)

(* An adapter that NDIS has unbound is closed once more. *)
ClosedTwice(a) ==
  conetMishaps' = IF conetAdapter[a].handle THEN conetMishaps
                  ELSE conetMishaps \union {"closed twice"}

Unbind(u) ==
  /\ conetMonitor = "up" /\ conetUser[u] = ConetIdle
  /\ \E a \in Listed :
       /\ conetAdapter' = [conetAdapter EXCEPT ![a].life = "removed", ![a].ndis = "closed"]
       /\ conetUser' = [conetUser EXCEPT ![u] = [at |-> "close", adapter |-> a]]
       /\ PointersTo(a, "closed") /\ ClosedTwice(a)
  /\ UNCHANGED <<conetMonitor, conetTold, workItems>>

(* What NDIS was given before is complete: the close ends, and the adapter is freed, with the
   packets that are still on its lists and its pool. *)
Complete(a) == conetAdapter[a].sends = 0 /\ conetAdapter[a].transfers = 0

co_conet_free_adapter(a) ==
  /\ Complete(a)
  /\ conetAdapter' = [conetAdapter EXCEPT ![a] = Free]

UnbindFrees(u) ==
  /\ conetUser[u].at = "close"
  /\ co_conet_free_adapter(conetUser[u].adapter) /\ PointersTo(conetUser[u].adapter, "freed")
  /\ conetMishaps' = IF injector.adapter = conetUser[u].adapter
                     THEN conetMishaps \union {"freed in use"} ELSE conetMishaps
  /\ conetUser' = [conetUser EXCEPT ![u] = ConetIdle] /\ conetTold' = FALSE
  /\ UNCHANGED <<conetMonitor, workItems>>

DestroyStarts ==
  /\ conetMonitor = "up" /\ injector = Outside
  /\ \A u \in ConetUser : conetUser[u] = ConetIdle
  /\ conetMonitor' = "destroying"
  /\ UNCHANGED <<conetAdapter, conetUser, injector, conetTold, workItems, conetMishaps>>

(* The adapters one after the other, each closed before it leaves the list. *)
UnregisterCloses(a) ==
  /\ conetMonitor = "destroying" /\ a \in Listed
  /\ \A b \in Adapter : conetAdapter[b].life # "removed"
  /\ conetAdapter' = [conetAdapter EXCEPT ![a].life = "removed", ![a].ndis = "closed"]
  /\ ClosedTwice(a)
  /\ UNCHANGED <<conetMonitor, conetUser, injector, conetTold, workItems>>

UnregisterFrees(a) ==
  /\ conetMonitor = "destroying" /\ conetAdapter[a].life = "removed"
  /\ co_conet_free_adapter(a)
  /\ UNCHANGED <<conetMonitor, conetUser, injector, conetTold, workItems, conetMishaps>>

(* Work items that are still queued keep a pointer to the monitor. *)
MonitorFreed ==
  /\ conetMonitor = "destroying"
  /\ Listed = {} /\ \A a \in Adapter : conetAdapter[a].life # "removed"
  /\ conetMonitor' = "freed" /\ conetTold' = FALSE
  /\ conetMishaps' = IF workItems > 0 THEN conetMishaps \union {"late work"} ELSE conetMishaps
  /\ UNCHANGED <<conetAdapter, conetUser, injector, workItems>>

(* The card goes: NDIS calls the unbind handler, and the adapter stays on the list. *)
HostUnbinds(a) ==
  /\ conetAdapter[a].ndis = "open" /\ Complete(a)
  /\ conetAdapter' = [conetAdapter EXCEPT ![a].ndis = "closed", ![a].handle = FALSE]
  /\ conetMishaps' = conetMishaps \union {"card lost"} /\ PointersTo(a, "closed")
  /\ UNCHANGED <<conetMonitor, conetUser, conetTold, workItems>>

-----------------------------------------------------------------------------
(* co_conet_inject_packet_to_adapter: nothing protects the adapter while it is used. *)

InjectFinds ==
  /\ conetMonitor = "up" /\ injector = Outside
  /\ \E a \in Listed :
       /\ conetAdapter[a].handle
       /\ injector' = [at |-> "adapter", adapter |-> a, sees |-> "bound"]
  /\ UNCHANGED <<conetMonitor, conetAdapter, conetUser, conetTold, workItems, conetMishaps>>

(* Without a packet the guest's frame is passed to the daemon, which ignores it.  A pool that was
   freed may still give one. *)
InjectAllocates ==
  /\ injector.at = "adapter"
  /\ \/ /\ injector.sees = "freed" \/ InPool(injector.adapter) > 0
        /\ injector' = [injector EXCEPT !.at = "packet"]
     \/ injector' = Outside
  /\ UNCHANGED <<conetMonitor, conetAdapter, conetUser, conetTold, workItems, conetMishaps>>

(* The packet is listed before NDIS has it.  A packet of a freed pool goes on the list that was
   in that memory, or on that of the adapter that has the memory now. *)
InjectLinks ==
  /\ injector.at = "packet" /\ injector' = [injector EXCEPT !.at = "linked"]
  /\ LET a == injector.adapter IN
     conetAdapter' = IF injector.sees = "freed" THEN [conetAdapter EXCEPT ![a].list = "strayed"]
                     ELSE [conetAdapter EXCEPT ![a].late = @ + 1]
  /\ UNCHANGED <<conetMonitor, conetUser, conetTold, workItems, conetMishaps>>

(* NdisSend with the handle read at first.  A send that is not pending is completed here, which
   takes the packet off the list; one on a handle that was closed is, as the best that can
   happen, completed too, or never.  A packet that was freed with its adapter is taken off a
   list that is not its own. *)
InjectSends ==
  /\ injector.at = "linked" /\ injector' = Outside
  /\ LET a == injector.adapter IN
     \/ injector.sees # "freed" /\ conetAdapter' = [conetAdapter EXCEPT ![a].late = @ - 1]
     \/ /\ injector.sees = "bound"
        /\ conetAdapter' = [conetAdapter EXCEPT ![a].late = @ - 1, ![a].sends = @ + 1]
     \/ injector.sees = "freed" /\ conetAdapter' = [conetAdapter EXCEPT ![a].list = "strayed"]
     \/ injector.sees # "bound" /\ UNCHANGED conetAdapter
  /\ UNCHANGED <<conetMonitor, conetUser, conetTold, workItems, conetMishaps>>

SendComplete(a) ==
  /\ conetAdapter[a].sends > 0
  /\ conetAdapter' = [conetAdapter EXCEPT ![a].sends = @ - 1]
  /\ UNCHANGED <<conetMonitor, conetUser, injector, conetTold, workItems, conetMishaps>>

-----------------------------------------------------------------------------
(* Received packets *)

(* co_conet_transfer_message: a work item, or a message that is lost and never freed. *)
TransferMessage == (workItems < MaxWork /\ workItems' = workItems + 1) \/ UNCHANGED workItems

(* receive with all of the packet, receive_packet, status_complete. *)
Receive(a) ==
  /\ conetAdapter[a].ndis = "open" /\ TransferMessage
  /\ UNCHANGED <<conetMonitor, conetAdapter, conetUser, injector, conetTold, conetMishaps>>

(* The rest of the packet is fetched first. *)
ReceivePart(a) ==
  /\ conetAdapter[a].ndis = "open" /\ InPool(a) > 0
  /\ conetAdapter' = [conetAdapter EXCEPT ![a].transfers = @ + 1]
  /\ UNCHANGED <<conetMonitor, conetUser, injector, conetTold, workItems, conetMishaps>>

(* transfer_complete does not look at the status of the transfer.  A packet for another
   address is only freed. *)
TransferComplete(a) ==
  /\ conetAdapter[a].transfers > 0
  /\ conetAdapter' = [conetAdapter EXCEPT ![a].transfers = @ - 1]
  /\ TransferMessage
  /\ UNCHANGED <<conetMonitor, conetUser, injector, conetTold, conetMishaps>>

(* transfer_message_routine puts the message on the queue of the monitor. *)
WorkItemRuns ==
  /\ workItems > 0 /\ workItems' = workItems - 1
  /\ UNCHANGED <<conetMonitor, conetAdapter, conetUser, injector, conetTold, conetMishaps>>

ConetNext ==
  \/ \E u \in ConetUser : BindChecks(u) \/ BindOpens(u) \/ BindLists(u) \/ Unbind(u) \/ UnbindFrees(u)
  \/ \E a \in Adapter : \/ UnregisterCloses(a) \/ UnregisterFrees(a) \/ HostUnbinds(a)
                        \/ SendComplete(a) \/ Receive(a) \/ ReceivePart(a) \/ TransferComplete(a)
  \/ DestroyStarts \/ MonitorFreed
  \/ InjectFinds \/ InjectAllocates \/ InjectLinks \/ InjectSends \/ WorkItemRuns

ConetSpec == ConetInit /\ [][ConetNext]_conetVars

-----------------------------------------------------------------------------
ConetTypeOK ==
  /\ conetMonitor \in {"up", "destroying", "freed"}
  /\ conetAdapter \in [Adapter -> [life : {"free", "made", "listed", "removed"},
                                   ndis : {"open", "closed"}, handle : BOOLEAN,
                                   sends : 0..PoolSize, late : 0..PoolSize,
                                   transfers : 0..PoolSize, list : {"own", "strayed"}]]
  /\ conetUser \in [ConetUser -> [at : {"idle", "bind", "bound", "close"},
                                  adapter : Adapter \union {"none"}]]
  /\ injector \in [at : {"idle", "adapter", "packet", "linked"}, adapter : Adapter \union {"none"},
                    sees : {"bound", "closed", "freed", "reused"}]
  /\ conetTold \in BOOLEAN /\ workItems \in 0..MaxWork
  /\ conetMishaps \subseteq {"overlap", "closed twice", "freed in use", "late work", "card lost"}

(* Every adapter in memory is on the list or belongs to one bind or unbind that is not done,
   so that the monitor leaves none behind, whatever failed and whoever raced; an open
   binding belongs to an adapter that exists; packets of its pool are on the lists of an adapter
   that exists, never more than the pool has.  A packet that NDIS does not have, other than
   the one that is being sent, is only on the list of a binding that is closed; and a packet
   of a freed pool is only linked when an adapter was freed in the hands of the thread that runs
   the guest, which happens: without "freed in use" every list has the adapter's own packets.
   The unit has one adapter unless two binds overlapped; and unless the card went, the list
   only has adapters that are bound, and a unit that was answered to be bound, and not unbound
   since, has one. *)
ConetExact ==
  /\ \A a \in Adapter :
       LET r       == conetAdapter[a]
           holders == {u \in ConetUser : conetUser[u].adapter = a}
       IN /\ r.life = "made" => Cardinality(holders) = 1
          /\ r.life \in {"free", "listed"} => holders = {}
          /\ r.life = "removed" /\ conetMonitor = "up" => Cardinality(holders) = 1
          /\ r.life = "free" => r.ndis = "closed" /\ Outstanding(r) = 0
          /\ r.life = "listed" /\ "card lost" \notin conetMishaps => r.ndis = "open" /\ r.handle
          /\ InPool(a) >= 0 /\ r.late >= Linked(a)
          /\ "freed in use" \notin conetMishaps =>
               r.list = "own" /\ (r.late > Linked(a) => r.ndis = "closed")
  /\ conetMonitor = "freed" => \A a \in Adapter : conetAdapter[a].life = "free"
  /\ "overlap" \notin conetMishaps =>
       Cardinality({a \in Adapter : conetAdapter[a].life \in {"made", "listed"}}) <= 1
  /\ conetTold /\ "card lost" \notin conetMishaps /\ conetMonitor = "up"
     /\ (\A u \in ConetUser : conetUser[u] = ConetIdle) =>
       \E a \in Listed : conetAdapter[a].handle
=============================================================================
