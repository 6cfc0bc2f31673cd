----------------------------- MODULE GuestPages -----------------------------
(***************************************************************************)
(* The host's page frames and the guests that own them: the pool of MDL    *)
(* buckets and single pages, the frames behind a guest's pages (pp_pfns),  *)
(* the entries of its page tables, and the map from frames back to pages.  *)
(*                                                                         *)
(* Sources: os/winnt/kernel/alloc.c, kernel/pages.c, kernel/reversedpfns.c *)
(* and kernel/monitor.c (alloc_pp_ram_mapping, free_pseudo_physical_memory,*)
(* co_alloc_pages, co_free_pages, and their callers).                      *)
(*                                                                         *)
(* Each monitor is used by one thread, its owner's.  co_os_get_page and    *)
(* co_os_put_page hold osdep->mutex, so each is part of one step; between  *)
(* two of them the threads interleave.  A bucket is the set of its frames: *)
(* which of the unused ones is taken next matters to nobody.  Frame 0, the *)
(* code's "no frame", is None.  The page tables of a guest are pages       *)
(* too (Table), allocated with the guest; it asks for pages of Ram only.   *)
(* Nobody clears a table: its entries begin as whatever its frame held,    *)
(* data of the guest that had it before or an old table, so that each may  *)
(* name any frame at all.  Nor is the reversed map cleared.  pp_pfns, pte  *)
(* and the operation's locals belong to the one thread, which is why a     *)
(* frame goes back to the pool and out of pp_pfns in one step.             *)
(***************************************************************************)
EXTENDS Integers, FiniteSets

CONSTANTS
  Mon,               (* monitors                                            *)
  RamPages,          (* pages of a guest, numbered from 1                   *)
  TablePages,        (* pages that hold its page tables, numbered on        *)
  Frame,             (* page frames the host can spare                      *)
  High,              (* those whose number is not below hostmem_pages       *)
  BucketSize,        (* PFN_ALLOCATION_COUNT                                *)
  None,
  Uncleared          (* bound: what the frame of a new table may hold       *)

LastPage == RamPages + TablePages
Ram   == 1..RamPages
Table == (RamPages + 1)..LastPage
Page  == 1..LastPage

ASSUME ConstantsAssumption ==
  /\ RamPages \in Nat \ {0} /\ TablePages \in Nat \ {0}
  /\ IsFiniteSet(Frame) /\ High \subseteq Frame
  /\ None \notin Frame
  /\ BucketSize \in Nat \ {0}
  /\ Uncleared \subseteq [Ram -> Frame \cup {None}]

VARIABLES
  mdl_list,          (* the buckets                                         *)
  use_count,         (* of each bucket                                      *)
  pages_unused,
  mapped_allocated_list,
  pp_pfns, pte,      (* of each monitor, for each of its pages              *)
  reversed,          (* the page behind a frame                             *)
  written,           (* history: the pages whose entry the driver has       *)
                     (* written since the monitor's tables were allocated   *)
  pc,                (* what the monitor's thread does                      *)
  at, first, last,   (* the page it is at, of the range it works on         *)
  unmapped,          (* the page it is at is unmapped, but not yet put back *)
  restart            (* the memory is freed for RESET, not for destruction  *)

poolVars == <<mdl_list, use_count, pages_unused, mapped_allocated_list>>
mapVars  == <<pp_pfns, pte, reversed, written>>
opVars   == <<at, first, last, unmapped, restart>>
vars     == <<poolVars, mapVars, pc, opVars>>

PCs == {"none", "tables", "idle", "load", "alloc", "rollback", "free", "release"}

TypeOK ==
  /\ mdl_list \subseteq SUBSET Frame
  /\ use_count \in [mdl_list -> Nat]
  /\ pages_unused \subseteq Frame
  /\ mapped_allocated_list \subseteq Frame
  /\ pp_pfns \in [Mon -> [Page -> Frame \cup {None}]]
  /\ pte \in [Mon -> [Ram -> Frame \cup {None}]]
  /\ reversed \in [Frame -> Ram \cup {None}]
  /\ written \in [Mon -> SUBSET Ram]
  /\ pc \in [Mon -> PCs]
  /\ at \in [Mon -> Nat] /\ first \in [Mon -> Nat] /\ last \in [Mon -> Nat]
  /\ unmapped \in [Mon -> BOOLEAN] /\ restart \in [Mon -> BOOLEAN]

Init ==
  /\ mdl_list = {} /\ use_count = [b \in {} |-> 0]
  /\ pages_unused = {} /\ mapped_allocated_list = {}
  /\ pp_pfns = [m \in Mon |-> [p \in Page |-> None]]
  /\ pte = [m \in Mon |-> [p \in Ram |-> None]]
  /\ reversed = [f \in Frame |-> None]
  /\ written = [m \in Mon |-> {}]
  /\ pc = [m \in Mon |-> "none"]
  /\ at = [m \in Mon |-> 0] /\ first = [m \in Mon |-> 0] /\ last = [m \in Mon |-> 0]
  /\ unmapped = [m \in Mon |-> FALSE] /\ restart = [m \in Mon |-> FALSE]

Goto(m, next) == pc' = [pc EXCEPT ![m] = next]
Return(m) ==
  /\ Goto(m, "idle")
  /\ at' = [at EXCEPT ![m] = 0]
  /\ first' = [first EXCEPT ![m] = 0]
  /\ last' = [last EXCEPT ![m] = 0]

-----------------------------------------------------------------------------
(* The pool.                                                               *)

Allocated == (UNION mdl_list) \cup mapped_allocated_list

Counted_Not(n) == n
Counted(n) == n + 1

(* co_os_get_unused_mdl_page. *)
TakeUnused(f) ==
  /\ f \in pages_unused
  /\ \E b \in mdl_list : f \in b /\ use_count' = [use_count EXCEPT ![b] = Counted(@)]
  /\ pages_unused' = pages_unused \ {f}
  /\ UNCHANGED <<mdl_list, mapped_allocated_list>>

(* co_winnt_new_mdl_bucket, and the first frame taken from it. *)
NewBucket(f) ==
  /\ pages_unused = {}
  /\ \E b \in SUBSET (Frame \ (Allocated \cup High)) :
       /\ Cardinality(b) = BucketSize /\ f \in b
       /\ mdl_list' = mdl_list \cup {b}
       /\ use_count' = [c \in mdl_list \cup {b} |-> IF c = b THEN Counted(0) ELSE use_count[c]]
       /\ pages_unused' = b \ {f}
  /\ UNCHANGED mapped_allocated_list

(* co_winnt_new_mapped_allocated_page, when there is no memory for a bucket.  This one is
   not limited to the frames below hostmem_pages. *)
NewMappedPage(f) ==
  /\ pages_unused = {}
  /\ f \in Frame \ Allocated
  /\ mapped_allocated_list' = mapped_allocated_list \cup {f}
  /\ UNCHANGED <<mdl_list, use_count, pages_unused>>

(* co_os_get_page: f is the frame, or None. *)
GetPage(f) ==
  \/ TakeUnused(f) \/ NewBucket(f) \/ NewMappedPage(f)
  \/ f = None /\ pages_unused = {} /\ UNCHANGED poolVars

(* co_manager_get_page keeps a frame that is too high, but does not hand it out. *)
HandedOut(f) == f # None /\ f \notin High

Unused_Never(n) == FALSE
Unused(n) == n = 0

(* co_os_put_page. *)
PutPage(f) ==
  /\ \/ \E b \in mdl_list :
          LET n == use_count[b] - 1  rest == mdl_list \ {b} IN
          /\ f \in b
          /\ IF Unused(n)
               THEN /\ mdl_list' = rest
                    /\ use_count' = [c \in rest |-> use_count[c]]
                    /\ pages_unused' = pages_unused \ b
               ELSE /\ use_count' = [use_count EXCEPT ![b] = n]
                    /\ pages_unused' = pages_unused \cup {f}
                    /\ UNCHANGED mdl_list
          /\ UNCHANGED mapped_allocated_list
     \/ /\ f \notin UNION mdl_list
        /\ mapped_allocated_list' = mapped_allocated_list \ {f}
        /\ UNCHANGED <<mdl_list, use_count, pages_unused>>

-----------------------------------------------------------------------------
(* The guest's memory begins with its page tables.                         *)

Create(m) ==
  /\ pc[m] = "none"
  /\ at' = [at EXCEPT ![m] = RamPages + 1]
  /\ Goto(m, "tables")
  /\ UNCHANGED <<poolVars, mapVars, first, last, unmapped, restart>>

(* alloc_pp_ram_mapping: the tables, one frame after the other.  A failure frees what there
   is; RESET fails then too, and the daemon closes the monitor. *)
TablePage(m, f) ==
  LET p == at[m] IN
  /\ pc[m] = "tables"
  /\ GetPage(f)
  /\ IF HandedOut(f)
       THEN /\ pp_pfns' = [pp_pfns EXCEPT ![m][p] = f]
            /\ \E entries \in Uncleared : pte' = [pte EXCEPT ![m] = entries]
            /\ IF p = LastPage
                 THEN Return(m)
                 ELSE at' = [at EXCEPT ![m] = p + 1] /\ UNCHANGED <<pc, first, last>>
       ELSE /\ at' = [at EXCEPT ![m] = 1]
            /\ Goto(m, "release")
            /\ UNCHANGED <<pp_pfns, pte, first, last>>
  /\ UNCHANGED <<reversed, written, unmapped, restart>>

-----------------------------------------------------------------------------
(* co_monitor_copy_region ("load") and CO_OPERATION_ALLOC_PAGES ("alloc") go through a range *)
(* with co_monitor_alloc_and_map_page, CO_OPERATION_FREE_PAGES ("free") and the rollback of  *)
(* ALLOC_PAGES with co_monitor_free_and_unmap_page.                                          *)

BeginRange(m, op, a, b) ==
  /\ pc[m] = "idle"
  /\ at' = [at EXCEPT ![m] = a]
  /\ first' = [first EXCEPT ![m] = a]
  /\ last' = [last EXCEPT ![m] = b]
  /\ Goto(m, op)
  /\ UNCHANGED <<poolVars, mapVars, unmapped, restart>>

(* The next page of the range, or its end. *)
Advance(m) ==
  IF at[m] = last[m]
    THEN Return(m)
    ELSE at' = [at EXCEPT ![m] = @ + 1] /\ UNCHANGED <<pc, first, last>>

AlreadyThere(m) ==
  /\ pc[m] \in {"load", "alloc"}
  /\ pp_pfns[m][at[m]] # None
  /\ Advance(m)
  /\ UNCHANGED <<poolVars, mapVars, unmapped, restart>>

(* co_manager_set_reversed_pfn. *)
Reversed_IfFree(f, p) == IF reversed[f] \in Ram THEN reversed ELSE [reversed EXCEPT ![f] = p]
Reversed(f, p) == [reversed EXCEPT ![f] = p]

Written(m, p) == written' = [written EXCEPT ![m] = @ \cup {p}]

AllocAndMap(m, f) ==
  LET p == at[m] IN
  /\ pc[m] \in {"load", "alloc"}
  /\ pp_pfns[m][p] = None
  /\ GetPage(f) /\ HandedOut(f)
  /\ pp_pfns' = [pp_pfns EXCEPT ![m][p] = f]
  /\ reversed' = Reversed(f, p)
  /\ pte' = [pte EXCEPT ![m][p] = f]
  /\ Written(m, p)
  /\ Advance(m)
  /\ UNCHANGED <<unmapped, restart>>

(* ALLOC_PAGES frees the pages of the range before this one, whoever allocated them. *)
AllocFails(m, f) ==
  LET p == at[m] IN
  /\ pc[m] \in {"load", "alloc"}
  /\ pp_pfns[m][p] = None
  /\ GetPage(f) /\ ~HandedOut(f)
  /\ IF pc[m] = "alloc" /\ p > first[m]
       THEN /\ at' = [at EXCEPT ![m] = first[m]]
            /\ last' = [last EXCEPT ![m] = p - 1]
            /\ Goto(m, "rollback")
            /\ UNCHANGED first
       ELSE Return(m)
  /\ UNCHANGED <<mapVars, unmapped, restart>>

Erased(m) == None

Unmap(m) ==
  LET p == at[m]  f == pp_pfns[m][p] IN
  /\ pc[m] \in {"free", "rollback"} /\ ~unmapped[m]
  /\ pte' = [pte EXCEPT ![m][p] = Erased(m)]
  /\ Written(m, p)
  /\ reversed' = IF f = None THEN reversed ELSE Reversed(f, None)
  /\ unmapped' = [unmapped EXCEPT ![m] = TRUE]
  /\ UNCHANGED <<poolVars, pp_pfns, pc, at, first, last, restart>>

Forgotten_Kept(m) == pp_pfns
Forgotten(m) == [pp_pfns EXCEPT ![m][at[m]] = None]

PutBack(m) ==
  LET f == pp_pfns[m][at[m]] IN
  /\ unmapped[m]
  /\ IF f = None THEN UNCHANGED poolVars ELSE PutPage(f)
  /\ pp_pfns' = Forgotten(m)
  /\ unmapped' = [unmapped EXCEPT ![m] = FALSE]
  /\ Advance(m)
  /\ UNCHANGED <<pte, reversed, written, restart>>

-----------------------------------------------------------------------------
(* free_pseudo_physical_memory, for RESET or with the monitor.             *)

BeginRelease(m, again) ==
  /\ pc[m] = "idle"
  /\ at' = [at EXCEPT ![m] = 1]
  /\ restart' = [restart EXCEPT ![m] = again]
  /\ Goto(m, "release")
  /\ UNCHANGED <<poolVars, mapVars, first, last, unmapped>>

ReleaseEnd == LastPage

(* pp_pfns goes at the end, the entries with the tables they are in. *)
Release(m) ==
  LET p == at[m]  f == pp_pfns[m][p] IN
  /\ pc[m] = "release"
  /\ IF f = None THEN UNCHANGED poolVars ELSE PutPage(f)
  /\ IF p = ReleaseEnd
       THEN /\ pp_pfns' = [pp_pfns EXCEPT ![m] = [q \in Page |-> None]]
            /\ pte' = [pte EXCEPT ![m] = [q \in Ram |-> None]]
            /\ written' = [written EXCEPT ![m] = {}]
            /\ Goto(m, IF restart[m] THEN "tables" ELSE "none")
            /\ at' = [at EXCEPT ![m] = IF restart[m] THEN RamPages + 1 ELSE 0]
       ELSE /\ pp_pfns' = Forgotten(m)
            /\ at' = [at EXCEPT ![m] = p + 1]
            /\ UNCHANGED <<pte, written, pc>>
  /\ restart' = [restart EXCEPT ![m] = @ /\ p # ReleaseEnd]
  /\ UNCHANGED <<reversed, first, last, unmapped>>

-----------------------------------------------------------------------------

Step(m) ==
  \/ Create(m)
  \/ \E f \in Frame \cup {None} : TablePage(m, f) \/ AllocAndMap(m, f) \/ AllocFails(m, f)
  \/ \E op \in {"load", "alloc", "free"}, a \in Ram, b \in Ram :
       a <= b /\ BeginRange(m, op, a, b)
  \/ AlreadyThere(m) \/ Unmap(m) \/ PutBack(m)
  \/ \E again \in BOOLEAN : BeginRelease(m, again)
  \/ Release(m)

Next == \E m \in Mon : Step(m)
Spec == Init /\ [][Next]_vars

-----------------------------------------------------------------------------
(* Properties.                                                             *)

Recorded(m) == {pp_pfns[m][p] : p \in Page} \ {None}

(* A bucket counts exactly its frames that are in use, and is kept as long as there are
   any; the buckets and the single pages share no frame. *)
PoolExact ==
  /\ pages_unused \subseteq UNION mdl_list
  /\ \A b \in mdl_list :
       /\ use_count[b] = Cardinality(b \ pages_unused) /\ use_count[b] > 0
       /\ b \cap mapped_allocated_list = {}
       /\ \A c \in mdl_list : b = c \/ b \cap c = {}

(* A frame is behind one page of one guest, and no such frame is in the pool or with NT. *)
OneOwner ==
  /\ \A m, n \in Mon, p, q \in Page :
       pp_pfns[m][p] = pp_pfns[n][q] /\ pp_pfns[m][p] # None => m = n /\ p = q
  /\ \A m \in Mon : Recorded(m) \subseteq Allocated \ pages_unused

(* Every frame taken from the pool is behind a page, so that it goes back with its guest,
   unless its number was too high to be handed out. *)
NothingLost ==
  Allocated \ pages_unused \subseteq (UNION {Recorded(m) : m \in Mon}) \cup High

(* The pool's account of its frames is right, and it loses none. *)
PoolAccounted == PoolExact /\ NothingLost

(* A page that has a frame is mapped to that frame, and the frame leads back to the page,
   although both are written without a lock: what the guest and the driver read through
   the page tables is the same. *)
MappedExact ==
  \A m \in Mon, p \in Ram :
    pp_pfns[m][p] # None /\ ~(unmapped[m] /\ at[m] = p) =>
      pte[m][p] = pp_pfns[m][p] /\ reversed[pp_pfns[m][p]] = p

(* While the guest has its memory, no entry the driver has written outlives the frame it
   was made for, which another guest may have by now: the entry of a page that has lost
   its frame is empty.  Entries the driver has not written yet are what the table's frame
   held before, and those may name the frame of another guest; they are the entries of
   pages that never had a frame (alloc_pp_ram_mapping clears no table). *)
OthersUnmapped ==
  \A m \in Mon, p \in Ram : pc[m] # "release" =>
    /\ p \in written[m] /\ pp_pfns[m][p] = None => pte[m][p] = None
    /\ p \notin written[m] => pp_pfns[m][p] = None

(* Every entry of a guest's page table that the driver has written is right: the two above. *)
MappingsExact == MappedExact /\ OthersUnmapped

=============================================================================
