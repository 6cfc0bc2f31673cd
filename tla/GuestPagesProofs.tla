-------------------------- MODULE GuestPagesProofs --------------------------
(***************************************************************************)
(* Proofs about GuestPages: the account of the host's frames, who owns     *)
(* each, and the agreement of page tables, pp_pfns and the reversed map,   *)
(* for any number of monitors, pages and frames and any bucket size.       *)
(***************************************************************************)
EXTENDS GuestPages, FiniteSetTheorems, TLAPS

(* The frames that were handed out, or kept because their number is too high. *)
InUse == Allocated \ pages_unused

(* Where a thread is in the pages it works on. *)
RangeOf(m) ==
  /\ pc[m] \in {"load", "alloc", "free", "rollback"} =>
       first[m] \in Ram /\ last[m] \in Ram /\ first[m] <= at[m] /\ at[m] <= last[m]
  /\ pc[m] = "tables" => at[m] \in Table
  /\ pc[m] = "release" => at[m] \in Page
  /\ unmapped[m] => /\ pc[m] \in {"free", "rollback"} /\ pte[m][at[m]] = None
                    /\ at[m] \in written[m]

(* The pages of a guest that have no frame yet, or any more; tables nobody wrote to. *)
EmptyOf(m) ==
  /\ pc[m] = "none" => \A p \in Page : pp_pfns[m][p] = None
  /\ pc[m] = "tables" => \A p \in Page : p \in Ram \/ p >= at[m] => pp_pfns[m][p] = None
  /\ pc[m] = "release" => \A p \in Page : p < at[m] => pp_pfns[m][p] = None
  /\ pc[m] \in {"none", "tables"} => written[m] = {}

OpInv == \A m \in Mon : RangeOf(m) /\ EmptyOf(m)

GInv == TypeOK /\ PoolAccounted /\ OneOwner /\ MappingsExact /\ OpInv

-----------------------------------------------------------------------------
(* The pool.                                                               *)

LEMMA PageFacts ==
  /\ Ram \subseteq Page /\ Table \subseteq Page /\ Ram \cap Table = {}
  /\ Page \subseteq Nat /\ Page = Ram \cup Table
  /\ LastPage \in Table /\ LastPage \in Nat /\ RamPages \in Nat
BY ConstantsAssumption DEF Ram, Table, Page, LastPage

LEMMA BucketFinite ==
  ASSUME NEW S \in SUBSET Frame
  PROVE  /\ IsFiniteSet(S) /\ Cardinality(S) \in Nat
         /\ Cardinality(S) = 0 <=> S = {}
BY ConstantsAssumption, FS_Subset, FS_CardinalityType, FS_EmptySet

(* The types of the pool, and the frames it has. *)
PoolType ==
  /\ mdl_list \subseteq SUBSET Frame
  /\ use_count \in [mdl_list -> Nat]
  /\ pages_unused \subseteq Frame
  /\ mapped_allocated_list \subseteq Frame

LEMMA TakeUnusedExact ==
  ASSUME PoolType, PoolExact, NEW f, TakeUnused(f)
  PROVE  PoolType' /\ PoolExact' /\ InUse' = InUse \cup {f} /\ f \in Frame \ InUse
<1> USE DEF PoolType
<1>1. /\ f \in pages_unused /\ f \in Frame /\ pages_unused' = pages_unused \ {f}
      /\ UNCHANGED <<mdl_list, mapped_allocated_list>>
  BY DEF TakeUnused
<1>2. PICK b \in mdl_list : f \in b /\ use_count' = [use_count EXCEPT ![b] = @ + 1]
  BY DEF TakeUnused, Counted
<1>3. PoolType'
  BY <1>1, <1>2
<1>4. InUse' = InUse \cup {f} /\ f \notin InUse
  BY <1>1, <1>2 DEF InUse, Allocated
<1>5. ASSUME NEW c \in mdl_list
      PROVE  use_count'[c] = Cardinality(c \ pages_unused') /\ use_count'[c] > 0
  <2> DEFINE S == c \ pages_unused
  <2>1. S \in SUBSET Frame /\ use_count[c] = Cardinality(S) /\ use_count[c] > 0
    BY DEF PoolExact
  <2>2. IsFiniteSet(S) /\ Cardinality(S) \in Nat
    BY <2>1, BucketFinite
  <2>3. CASE c = b
    <3>1. c \ pages_unused' = S \cup {f} /\ f \notin S
      BY <1>1, <1>2, <2>3
    <3>2. use_count'[c] = use_count[c] + 1
      BY <1>2, <2>3
    <3> HIDE DEF S
    <3>3. Cardinality(S \cup {f}) = Cardinality(S) + 1
      BY <2>2, <3>1, FS_AddElement
    <3>4. Cardinality(c \ pages_unused') = Cardinality(S) + 1
      BY <3>1, <3>3
    <3>5. use_count'[c] = Cardinality(S) + 1
      BY <2>1, <3>2
    <3> QED
      BY <2>2, <3>4, <3>5
  <2>4. CASE c # b
    <3>1. f \notin c
      BY <1>2, <2>4 DEF PoolExact
    <3>2. c \ pages_unused' = S
      BY <1>1, <3>1
    <3>3. use_count'[c] = use_count[c]
      BY <1>2, <2>4
    <3> QED
      BY <2>1, <3>2, <3>3
  <2> QED
    BY <2>3, <2>4
<1>6. PoolExact'
  BY <1>1, <1>5 DEF PoolExact
<1> QED
  BY <1>1, <1>3, <1>4, <1>6

LEMMA NewBucketExact ==
  ASSUME PoolType, PoolExact, NEW f, NewBucket(f)
  PROVE  PoolType' /\ PoolExact' /\ InUse' = InUse \cup {f} /\ f \in Frame \ InUse
<1> USE DEF PoolType
<1>1. PICK b \in SUBSET (Frame \ (Allocated \cup High)) :
        /\ f \in b
        /\ mdl_list' = mdl_list \cup {b}
        /\ use_count' = [c \in mdl_list \cup {b} |-> IF c = b THEN 1 ELSE use_count[c]]
        /\ pages_unused' = b \ {f}
  BY DEF NewBucket, Counted
<1>2. pages_unused = {} /\ UNCHANGED mapped_allocated_list
  BY DEF NewBucket
<1>3. /\ b \notin mdl_list /\ b \subseteq Frame /\ b \cap mapped_allocated_list = {}
      /\ \A c \in mdl_list : b \cap c = {}
  <2>1. b \cap (UNION mdl_list) = {} /\ b \cap mapped_allocated_list = {} /\ b \subseteq Frame
    BY <1>1 DEF Allocated
  <2>2. ASSUME NEW c \in mdl_list, NEW x \in b, x \in c PROVE FALSE
    <3>1. x \in UNION mdl_list
      BY <2>2
    <3> QED
      BY <2>1, <2>2, <3>1
  <2> QED
    BY <1>1, <2>1, <2>2
<1>4. PoolType'
  BY <1>1, <1>2, <1>3
<1>5. InUse' = InUse \cup {f} /\ f \in Frame \ InUse
  BY <1>1, <1>2, <1>3 DEF InUse, Allocated
<1>6. use_count'[b] = Cardinality(b \ pages_unused') /\ use_count'[b] > 0
  <2>1. b \ pages_unused' = {f}
    BY <1>1
  <2>2. Cardinality({f}) = 1
    BY FS_Singleton
  <2> QED
    <3>1. use_count'[b] = 1 /\ Cardinality(b \ pages_unused') = 1
      BY <1>1, <2>1, <2>2
    <3> QED
      BY <3>1
<1>7. ASSUME NEW c \in mdl_list
      PROVE  use_count'[c] = Cardinality(c \ pages_unused') /\ use_count'[c] > 0
  <2>1. c \ pages_unused' = c \ pages_unused
    BY <1>1, <1>2, <1>3
  <2>2. use_count'[c] = use_count[c]
    BY <1>1, <1>3
  <2> QED
    BY <2>1, <2>2 DEF PoolExact
<1>8. PoolExact'
  <2>1. pages_unused' \subseteq UNION mdl_list'
    <3>1. b \in mdl_list' /\ pages_unused' \subseteq b
      BY <1>1
    <3> QED
      BY <3>1
  <2>2. \A c \in mdl_list' : c \cap mapped_allocated_list' = {}
    BY <1>1, <1>2, <1>3 DEF PoolExact
  <2>3. \A c, e \in mdl_list' : c = e \/ c \cap e = {}
    <3>1. \A c \in mdl_list : b \cap c = {} /\ c \cap b = {}
      BY <1>3
    <3>2. \A c, e \in mdl_list : c = e \/ c \cap e = {}
      BY DEF PoolExact
    <3>3. mdl_list' = mdl_list \cup {b}
      BY <1>1
    <3> QED
      BY ONLY <3>1, <3>2, <3>3
  <2> QED
    BY <1>1, <1>6, <1>7, <2>1, <2>2, <2>3 DEF PoolExact
<1> QED
  BY <1>4, <1>5, <1>8

LEMMA NewMappedPageExact ==
  ASSUME PoolType, PoolExact, NEW f, NewMappedPage(f)
  PROVE  PoolType' /\ PoolExact' /\ InUse' = InUse \cup {f} /\ f \in Frame \ InUse
<1> USE DEF PoolType
<1>1. /\ pages_unused = {} /\ f \in Frame \ Allocated
      /\ mapped_allocated_list' = mapped_allocated_list \cup {f}
      /\ UNCHANGED <<mdl_list, use_count, pages_unused>>
  BY DEF NewMappedPage
<1>2. PoolType' /\ PoolExact'
  BY <1>1 DEF PoolExact, Allocated
<1>3. InUse' = InUse \cup {f} /\ f \in Frame \ InUse
  <2>1. Allocated' = Allocated \cup {f}
    BY <1>1 DEF Allocated
  <2> QED
    BY <1>1, <2>1 DEF InUse
<1> QED
  BY <1>2, <1>3

(* co_os_get_page returns a frame nobody has, or none and changes nothing. *)
LEMMA GetPageExact ==
  ASSUME PoolType, PoolExact, NEW f, GetPage(f)
  PROVE  /\ PoolType' /\ PoolExact'
         /\ \/ f \in Frame \ InUse /\ InUse' = InUse \cup {f}
            \/ f = None /\ InUse' = InUse
<1>1. CASE f = None /\ UNCHANGED poolVars
  BY <1>1 DEF poolVars, PoolType, PoolExact, InUse, Allocated
<1> QED
  BY <1>1, TakeUnusedExact, NewBucketExact, NewMappedPageExact DEF GetPage

(* co_os_put_page gives back the frame it was called for, and no other. *)
LEMMA PutPageExact ==
  ASSUME PoolType, PoolExact, NEW f \in InUse, PutPage(f)
  PROVE  PoolType' /\ PoolExact' /\ InUse' = InUse \ {f}
<1> USE DEF PoolType
<1>1. f \in Frame /\ f \notin pages_unused
  <2>1. f \in Allocated /\ f \notin pages_unused
    BY DEF InUse
  <2>2. \A x \in UNION mdl_list : x \in Frame
    OBVIOUS
  <2> QED
    BY <2>1, <2>2 DEF Allocated
<1>2. ASSUME NEW b \in mdl_list, f \in b, UNCHANGED mapped_allocated_list,
             use_count[b] - 1 = 0,
             mdl_list' = mdl_list \ {b},
             use_count' = [c \in mdl_list \ {b} |-> use_count[c]],
             pages_unused' = pages_unused \ b
      PROVE  PoolType' /\ PoolExact' /\ InUse' = InUse \ {f}
  <2>1. b \ pages_unused = {f}
    <3> DEFINE S == b \ pages_unused
    <3>1. Cardinality(S) = 1 /\ f \in S /\ S \in SUBSET Frame
      BY <1>1, <1>2 DEF PoolExact
    <3>2. IsFiniteSet(S)
      BY <3>1, BucketFinite
    <3> HIDE DEF S
    <3>3. PICK x : S = {x}
      BY <3>1, <3>2, FS_Singleton
    <3> QED
      BY <3>1, <3>3 DEF S
  <2>2. \A c \in mdl_list \ {b} : c \cap b = {}
    BY DEF PoolExact
  <2>3. b \cap mapped_allocated_list = {}
    BY DEF PoolExact
  <2>4. PoolType'
    BY <1>2
  <2>5. InUse' = InUse \ {f}
    <3>1. (UNION mdl_list)' = (UNION mdl_list) \ b
      BY <1>2, <2>2
    <3>2. Allocated' = Allocated \ b
      BY <1>2, <2>3, <3>1 DEF Allocated
    <3> QED
      BY <1>2, <2>1, <3>2 DEF InUse
  <2>6. ASSUME NEW c \in mdl_list \ {b}
        PROVE  use_count'[c] = Cardinality(c \ pages_unused') /\ use_count'[c] > 0
    <3>1. c \ pages_unused' = c \ pages_unused
      BY <1>2, <2>2
    <3> QED
      BY <1>2, <3>1 DEF PoolExact
  <2>7. PoolExact'
    <3>1. pages_unused' \subseteq UNION mdl_list'
      BY <1>2 DEF PoolExact
    <3> QED
      BY <1>2, <2>6, <3>1 DEF PoolExact
  <2> QED
    BY <2>4, <2>5, <2>7
<1>3. ASSUME NEW b \in mdl_list, f \in b, UNCHANGED <<mdl_list, mapped_allocated_list>>,
             use_count[b] - 1 # 0,
             use_count' = [use_count EXCEPT ![b] = use_count[b] - 1],
             pages_unused' = pages_unused \cup {f}
      PROVE  PoolType' /\ PoolExact' /\ InUse' = InUse \ {f}
  <2>1. use_count[b] \in Nat /\ use_count[b] > 0
    BY DEF PoolExact
  <2>2. PoolType'
    BY <1>1, <1>3, <2>1
  <2>3. InUse' = InUse \ {f}
    BY <1>3 DEF InUse, Allocated
  <2>4. ASSUME NEW c \in mdl_list
        PROVE  use_count'[c] = Cardinality(c \ pages_unused') /\ use_count'[c] > 0
    <3> DEFINE S == c \ pages_unused
    <3>1. S \in SUBSET Frame /\ use_count[c] = Cardinality(S) /\ use_count[c] > 0
      BY DEF PoolExact
    <3>2. IsFiniteSet(S) /\ Cardinality(S) \in Nat
      BY <3>1, BucketFinite
    <3>3. CASE c = b
      <4>1. c \ pages_unused' = S \ {f} /\ f \in S
        BY <1>1, <1>3, <3>3
      <4>2. use_count'[c] = use_count[c] - 1 /\ use_count[c] - 1 # 0
        BY <1>3, <3>3
      <4> HIDE DEF S
      <4>3. Cardinality(S \ {f}) = Cardinality(S) - 1
        BY <3>2, <4>1, FS_RemoveElement
      <4>4. Cardinality(c \ pages_unused') = Cardinality(S) - 1
        BY <4>1, <4>3
      <4>5. use_count'[c] = Cardinality(S) - 1 /\ Cardinality(S) # 0 /\ Cardinality(S) # 1
        BY <3>1, <3>2, <4>2
      <4> QED
        BY <3>2, <4>4, <4>5
    <3>4. CASE c # b
      <4>1. f \notin c
        BY <1>3, <3>4 DEF PoolExact
      <4>2. c \ pages_unused' = S /\ use_count'[c] = use_count[c]
        BY <1>3, <3>4, <4>1
      <4> QED
        BY <3>1, <4>2
    <3> QED
      BY <3>3, <3>4
  <2>5. PoolExact'
    <3>1. pages_unused' \subseteq UNION mdl_list'
      BY <1>3 DEF PoolExact
    <3> QED
      BY <1>3, <2>4, <3>1 DEF PoolExact
  <2> QED
    BY <2>2, <2>3, <2>5
<1>4. CASE f \notin UNION mdl_list
  <2>1. /\ mapped_allocated_list' = mapped_allocated_list \ {f}
        /\ UNCHANGED <<mdl_list, use_count, pages_unused>>
    BY <1>4 DEF PutPage
  <2>2. InUse' = InUse \ {f}
    <3>1. Allocated' = Allocated \ {f}
      BY <1>4, <2>1 DEF Allocated
    <3> QED
      BY <2>1, <3>1 DEF InUse
  <2>3. PoolType' /\ PoolExact'
    BY <2>1 DEF PoolExact
  <2> QED
    BY <2>2, <2>3
<1> QED
  BY <1>2, <1>3, <1>4 DEF PutPage, Unused

-----------------------------------------------------------------------------
(* The frames and their owners.                                            *)

LEMMA GInvPool == GInv => PoolType /\ PoolExact
BY DEF GInv, TypeOK, PoolType, PoolAccounted

(* Every frame in use has a page, but those that are too high, and a frame has one page. *)
Owned == /\ NothingLost
         /\ OneOwner

LEMMA RecordedKept ==
  ASSUME pp_pfns' = pp_pfns
  PROVE  \A m \in Mon : Recorded(m)' = Recorded(m)
BY DEF Recorded

(* A fresh frame is put behind a page that has none. *)
LEMMA OwnMore ==
  ASSUME TypeOK, Owned, NEW m \in Mon, NEW p \in Page, pp_pfns[m][p] = None,
         NEW f \in Frame \ InUse, InUse' = InUse \cup {f},
         pp_pfns' = [pp_pfns EXCEPT ![m][p] = f]
  PROVE  Owned'
<1>1. \A n \in Mon, q \in Page :
        pp_pfns'[n][q] = IF n = m /\ q = p THEN f ELSE pp_pfns[n][q]
  BY DEF TypeOK
<1>2. None \notin Frame
  BY ConstantsAssumption
<1>3. \A n \in Mon : Recorded(n) \subseteq InUse
  BY DEF Owned, OneOwner, InUse
<1>4. \A n \in Mon, q \in Page : pp_pfns[n][q] # f
  BY <1>2, <1>3 DEF Recorded
<1>5. \A n \in Mon : Recorded(n)' = IF n = m THEN Recorded(n) \cup {f} ELSE Recorded(n)
  BY <1>1, <1>2 DEF Recorded
<1>6. OneOwner'
  <2>1. \A n, o \in Mon, q, r \in Page :
          pp_pfns'[n][q] = pp_pfns'[o][r] /\ pp_pfns'[n][q] # None => n = o /\ q = r
    BY <1>1, <1>4 DEF Owned, OneOwner
  <2>2. \A n \in Mon : Recorded(n)' \subseteq InUse'
    BY <1>3, <1>5
  <2> QED
    BY <2>1, <2>2 DEF OneOwner, InUse
<1>7. NothingLost'
  <2>1. InUse \subseteq (UNION {Recorded(n) : n \in Mon}) \cup High
    BY DEF Owned, NothingLost, InUse
  <2>2. ASSUME NEW x \in InUse', x \notin High PROVE \E n \in Mon : x \in Recorded(n)'
    BY <1>5, <2>1, <2>2
  <2>3. InUse' \subseteq (UNION {Recorded(n)' : n \in Mon}) \cup High
    BY <2>2
  <2> QED
    BY <2>3 DEF NothingLost, InUse
<1> QED
  BY <1>6, <1>7 DEF Owned

(* A page gives its frame up. *)
LEMMA OwnLess ==
  ASSUME TypeOK, Owned, NEW m \in Mon, NEW p \in Page, pp_pfns[m][p] # None,
         InUse' = InUse \ {pp_pfns[m][p]},
         pp_pfns' = [pp_pfns EXCEPT ![m][p] = None]
  PROVE  Owned'
<1> DEFINE f == pp_pfns[m][p]
<1>1. \A n \in Mon, q \in Page :
        pp_pfns'[n][q] = IF n = m /\ q = p THEN None ELSE pp_pfns[n][q]
  BY DEF TypeOK
<1>2. \A n \in Mon : Recorded(n) \subseteq InUse
  BY DEF Owned, OneOwner, InUse
<1>3. \A n \in Mon, q \in Page : pp_pfns[n][q] = f => n = m /\ q = p
  BY DEF Owned, OneOwner
<1>4. \A n \in Mon : Recorded(n)' = Recorded(n) \ {f}
  BY <1>1, <1>3 DEF Recorded
<1>5. OneOwner'
  <2>1. \A n, o \in Mon, q, r \in Page :
          pp_pfns'[n][q] = pp_pfns'[o][r] /\ pp_pfns'[n][q] # None => n = o /\ q = r
    BY <1>1 DEF Owned, OneOwner
  <2>2. \A n \in Mon : Recorded(n)' \subseteq InUse'
    BY <1>2, <1>4
  <2> QED
    BY <2>1, <2>2 DEF OneOwner, InUse
<1>6. NothingLost'
  <2>1. InUse \subseteq (UNION {Recorded(n) : n \in Mon}) \cup High
    BY DEF Owned, NothingLost, InUse
  <2>2. ASSUME NEW x \in InUse', x \notin High PROVE \E n \in Mon : x \in Recorded(n)'
    BY <1>4, <2>1, <2>2
  <2>3. InUse' \subseteq (UNION {Recorded(n)' : n \in Mon}) \cup High
    BY <2>2
  <2> QED
    BY <2>3 DEF NothingLost, InUse
<1> QED
  BY <1>5, <1>6 DEF Owned

(* The pages keep their frames; the pool may keep one that is too high for itself. *)
LEMMA OwnSame ==
  ASSUME Owned, UNCHANGED pp_pfns, NEW H \in SUBSET High, InUse' = InUse \cup H
  PROVE  Owned'
<1>1. \A n \in Mon : Recorded(n)' = Recorded(n)
  BY RecordedKept
<1>2. OneOwner'
  BY <1>1 DEF Owned, OneOwner, InUse
<1>3. NothingLost'
  <2>1. InUse \subseteq (UNION {Recorded(n) : n \in Mon}) \cup High
    BY DEF Owned, NothingLost, InUse
  <2>2. InUse' \subseteq (UNION {Recorded(n)' : n \in Mon}) \cup High
    BY <1>1, <2>1
  <2> QED
    BY <2>2 DEF NothingLost, InUse
<1> QED
  BY <1>2, <1>3 DEF Owned

-----------------------------------------------------------------------------
(* Types.                                                                  *)

LEMMA PutType ==
  ASSUME TypeOK, NEW m \in Mon, NEW p \in Page, NEW x \in Frame \cup {None}
  PROVE  [pp_pfns EXCEPT ![m][p] = x] \in [Mon -> [Page -> Frame \cup {None}]]
BY DEF TypeOK

LEMMA ReturnType ==
  ASSUME TypeOK, NEW m \in Mon, Return(m)
  PROVE  /\ pc' \in [Mon -> PCs] /\ at' \in [Mon -> Nat]
         /\ first' \in [Mon -> Nat] /\ last' \in [Mon -> Nat]
BY DEF TypeOK, Return, Goto, PCs

LEMMA AdvanceType ==
  ASSUME TypeOK, NEW m \in Mon, Advance(m)
  PROVE  /\ pc' \in [Mon -> PCs] /\ at' \in [Mon -> Nat]
         /\ first' \in [Mon -> Nat] /\ last' \in [Mon -> Nat]
<1>1. CASE Return(m)
  BY <1>1, ReturnType
<1>2. CASE at' = [at EXCEPT ![m] = @ + 1] /\ UNCHANGED <<pc, first, last>>
  BY <1>2 DEF TypeOK
<1> QED
  BY <1>1, <1>2 DEF Advance

(* A page of a guest whose frame a thread gives back is in use. *)
LEMMA RecordedInUse ==
  ASSUME GInv, NEW m \in Mon, NEW p \in Page, pp_pfns[m][p] # None
  PROVE  pp_pfns[m][p] \in InUse
BY DEF GInv, OneOwner, Recorded, InUse

(* What the invariant says of the page that thread m is at. *)
LEMMA AtFacts ==
  ASSUME GInv, NEW m \in Mon
  PROVE  /\ pc[m] \in {"load", "alloc", "free", "rollback"} =>
              /\ at[m] \in Ram /\ first[m] \in Ram /\ last[m] \in Ram
              /\ first[m] <= at[m] /\ at[m] <= last[m]
         /\ pc[m] = "tables" => at[m] \in Table
         /\ pc[m] = "release" => at[m] \in Page
         /\ unmapped[m] => /\ pc[m] \in {"free", "rollback"} /\ pte[m][at[m]] = None
                           /\ at[m] \in written[m]
         /\ at[m] \in Nat
<1>1. RangeOf(m) /\ at[m] \in Nat
  BY DEF GInv, OpInv, TypeOK
<1> QED
  BY <1>1, PageFacts DEF RangeOf, Ram

LEMMA TypeStep == ASSUME GInv, NEW m \in Mon, Step(m) PROVE TypeOK'
<1> USE DEF Goto, PCs
<1>1. TypeOK /\ PoolType /\ PoolExact
  BY GInvPool DEF GInv
<1>2. /\ pp_pfns \in [Mon -> [Page -> Frame \cup {None}]]
      /\ pte \in [Mon -> [Ram -> Frame \cup {None}]]
      /\ reversed \in [Frame -> Ram \cup {None}] /\ written \in [Mon -> SUBSET Ram]
      /\ pc \in [Mon -> PCs]
      /\ at \in [Mon -> Nat] /\ first \in [Mon -> Nat] /\ last \in [Mon -> Nat]
      /\ unmapped \in [Mon -> BOOLEAN] /\ restart \in [Mon -> BOOLEAN]
  BY <1>1 DEF TypeOK
<1>3. UNCHANGED poolVars => PoolType'
  BY <1>1 DEF PoolType, poolVars
<1>4. /\ Ram \subseteq Page /\ Ram \subseteq Nat /\ Page \subseteq Nat
      /\ RamPages + 1 \in Nat /\ 1 \in Nat
  BY PageFacts
<1>5. CASE Create(m)
  BY <1>2, <1>3, <1>4, <1>5 DEF Create, TypeOK, PoolType, mapVars
<1>6. ASSUME NEW f \in Frame \cup {None}, TablePage(m, f) PROVE TypeOK'
  <2>1. at[m] \in Page /\ at[m] + 1 \in Nat
    BY <1>2, <1>6, AtFacts, PageFacts DEF TablePage
  <2>2. PoolType'
    BY <1>1, <1>6, GetPageExact DEF TablePage
  <2>3. CASE HandedOut(f)
    <3>1. pp_pfns' \in [Mon -> [Page -> Frame \cup {None}]]
      <4>1. pp_pfns' = [pp_pfns EXCEPT ![m][at[m]] = f]
        BY <1>6, <2>3 DEF TablePage
      <4> QED
        BY <1>1, <1>6, <2>1, <4>1, PutType
    <3>2. pte' \in [Mon -> [Ram -> Frame \cup {None}]]
      <4>1. PICK entries \in Uncleared : pte' = [pte EXCEPT ![m] = entries]
        BY <1>6, <2>3 DEF TablePage
      <4>2. entries \in [Ram -> Frame \cup {None}]
        BY <4>1, ConstantsAssumption
      <4> QED
        BY <1>2, <4>1, <4>2
    <3>3. \/ Return(m)
          \/ at' = [at EXCEPT ![m] = at[m] + 1] /\ UNCHANGED <<pc, first, last>>
      BY <1>6, <2>3 DEF TablePage
    <3>4. /\ pc' \in [Mon -> PCs] /\ at' \in [Mon -> Nat]
          /\ first' \in [Mon -> Nat] /\ last' \in [Mon -> Nat]
      BY <1>1, <1>2, <2>1, <3>3, ReturnType
    <3> QED
      BY <1>2, <1>6, <2>2, <3>1, <3>2, <3>4 DEF TablePage, TypeOK, PoolType
  <2>4. CASE ~HandedOut(f)
    BY <1>2, <1>4, <1>6, <2>2, <2>4 DEF TablePage, TypeOK, PoolType
  <2> QED
    BY <2>3, <2>4
<1>7. ASSUME NEW op \in {"load", "alloc", "free"}, NEW a \in Ram, NEW b \in Ram,
             BeginRange(m, op, a, b)
      PROVE  TypeOK'
  BY <1>2, <1>3, <1>4, <1>7 DEF BeginRange, TypeOK, PoolType, mapVars
<1>8. CASE AlreadyThere(m)
  <2>1. /\ pc' \in [Mon -> PCs] /\ at' \in [Mon -> Nat]
        /\ first' \in [Mon -> Nat] /\ last' \in [Mon -> Nat]
    BY <1>1, <1>8, AdvanceType DEF AlreadyThere
  <2> QED
    BY <1>2, <1>3, <1>8, <2>1 DEF AlreadyThere, TypeOK, PoolType, mapVars
<1>9. ASSUME NEW f \in Frame \cup {None}, AllocAndMap(m, f) PROVE TypeOK'
  <2>1. at[m] \in Ram /\ at[m] \in Page /\ f \in Frame
    BY <1>4, <1>9, AtFacts DEF AllocAndMap, HandedOut
  <2>2. PoolType'
    BY <1>1, <1>9, GetPageExact DEF AllocAndMap
  <2>3. pp_pfns' \in [Mon -> [Page -> Frame \cup {None}]]
    BY <1>1, <1>9, <2>1, PutType DEF AllocAndMap
  <2>4. /\ pc' \in [Mon -> PCs] /\ at' \in [Mon -> Nat]
        /\ first' \in [Mon -> Nat] /\ last' \in [Mon -> Nat]
    BY <1>1, <1>9, AdvanceType DEF AllocAndMap
  <2>5. /\ reversed' \in [Frame -> Ram \cup {None}]
        /\ pte' \in [Mon -> [Ram -> Frame \cup {None}]]
        /\ written' \in [Mon -> SUBSET Ram]
        /\ UNCHANGED <<unmapped, restart>>
    BY <1>2, <1>9, <2>1 DEF AllocAndMap, Reversed, Written
  <2> QED
    BY <1>2, <2>2, <2>3, <2>4, <2>5 DEF TypeOK, PoolType
<1>10. ASSUME NEW f \in Frame \cup {None}, AllocFails(m, f) PROVE TypeOK'
  <2>1. at[m] \in Ram /\ first[m] \in Nat /\ at[m] - 1 \in Nat
    BY <1>2, <1>10, AtFacts DEF AllocFails, Ram
  <2>2. PoolType'
    BY <1>1, <1>10, GetPageExact DEF AllocFails
  <2>3. /\ pc' \in [Mon -> PCs] /\ at' \in [Mon -> Nat]
        /\ first' \in [Mon -> Nat] /\ last' \in [Mon -> Nat]
    BY <1>1, <1>2, <1>10, <2>1, ReturnType, ZenonT(60) DEF AllocFails
  <2> QED
    BY <1>2, <1>10, <2>2, <2>3 DEF AllocFails, TypeOK, PoolType, mapVars
<1>11. CASE Unmap(m)
  <2>1. at[m] \in Ram /\ at[m] \in Page
    BY <1>4, <1>11, AtFacts DEF Unmap
  <2>2. reversed' \in [Frame -> Ram \cup {None}]
    BY <1>2, <1>11, <2>1 DEF Unmap, Reversed
  <2>3. pte' \in [Mon -> [Ram -> Frame \cup {None}]] /\ written' \in [Mon -> SUBSET Ram]
    BY <1>2, <1>11, <2>1 DEF Unmap, Erased, Written
  <2> QED
    BY <1>2, <1>3, <1>11, <2>2, <2>3 DEF Unmap, TypeOK, PoolType
<1>12. CASE PutBack(m)
  <2>1. at[m] \in Page
    BY <1>4, <1>12, AtFacts DEF PutBack
  <2>2. PoolType'
    BY <1>1, <1>3, <1>12, <2>1, RecordedInUse, PutPageExact DEF PutBack
  <2>3. pp_pfns' \in [Mon -> [Page -> Frame \cup {None}]]
    BY <1>1, <1>12, <2>1, PutType DEF PutBack, Forgotten
  <2>4. /\ pc' \in [Mon -> PCs] /\ at' \in [Mon -> Nat]
        /\ first' \in [Mon -> Nat] /\ last' \in [Mon -> Nat]
    BY <1>1, <1>12, AdvanceType DEF PutBack
  <2> QED
    BY <1>2, <1>12, <2>2, <2>3, <2>4 DEF PutBack, TypeOK, PoolType
<1>13. ASSUME NEW again \in BOOLEAN, BeginRelease(m, again) PROVE TypeOK'
  BY <1>2, <1>3, <1>4, <1>13 DEF BeginRelease, TypeOK, PoolType, mapVars
<1>14. CASE Release(m)
  <2>1. at[m] \in Page /\ at[m] + 1 \in Nat
    BY <1>2, <1>14, AtFacts DEF Release
  <2>2. PoolType'
    BY <1>1, <1>3, <1>14, <2>1, RecordedInUse, PutPageExact DEF Release
  <2>3. pp_pfns' \in [Mon -> [Page -> Frame \cup {None}]]
    <3>1. [pp_pfns EXCEPT ![m] = [q \in Page |-> None]] \in [Mon -> [Page -> Frame \cup {None}]]
      BY <1>2
    <3>2. CASE at[m] = ReleaseEnd
      <4>1. pp_pfns' = [pp_pfns EXCEPT ![m] = [q \in Page |-> None]]
        BY <1>14, <3>2 DEF Release
      <4> QED
        BY <3>1, <4>1
    <3>3. CASE at[m] # ReleaseEnd
      <4>1. pp_pfns' = [pp_pfns EXCEPT ![m][at[m]] = None]
        BY <1>14, <3>3 DEF Release, Forgotten
      <4> QED
        BY <1>1, <2>1, <4>1, PutType
    <3> QED
      BY <3>2, <3>3
  <2>4. CASE at[m] = ReleaseEnd
    <3>1. pte' = [pte EXCEPT ![m] = [q \in Ram |-> None]]
      BY <1>14, <2>4 DEF Release
    <3>2. pte' \in [Mon -> [Ram -> Frame \cup {None}]] /\ written' \in [Mon -> SUBSET Ram]
      BY <1>2, <1>14, <2>4, <3>1 DEF Release
    <3>3. /\ pc' = [pc EXCEPT ![m] = IF restart[m] THEN "tables" ELSE "none"]
          /\ at' = [at EXCEPT ![m] = IF restart[m] THEN RamPages + 1 ELSE 0]
      BY <1>14, <2>4 DEF Release
    <3>4. pc' \in [Mon -> PCs] /\ at' \in [Mon -> Nat]
      BY <1>2, <1>4, <3>3
    <3> QED
      BY <1>2, <1>14, <2>2, <2>3, <3>2, <3>4 DEF Release, TypeOK, PoolType
  <2>5. CASE at[m] # ReleaseEnd
    <3>1. UNCHANGED <<pte, written, pc>> /\ at' = [at EXCEPT ![m] = at[m] + 1]
      BY <1>14, <2>5 DEF Release
    <3>2. at' \in [Mon -> Nat]
      BY <1>2, <2>1, <3>1
    <3> QED
      BY <1>2, <1>14, <2>2, <2>3, <3>1, <3>2 DEF Release, TypeOK, PoolType
  <2> QED
    BY <2>4, <2>5
<1> QED
  BY <1>5, <1>6, <1>7, <1>8, <1>9, <1>10, <1>11, <1>12, <1>13, <1>14 DEF Step

-----------------------------------------------------------------------------
(* The account of the frames, step by step.                                *)

LEMMA OwnStep ==
  ASSUME GInv, NEW m \in Mon, Step(m)
  PROVE  PoolExact' /\ Owned'
<1>1. TypeOK /\ PoolType /\ PoolExact /\ Owned
  BY GInvPool DEF GInv, PoolAccounted, Owned
<1>2. CASE UNCHANGED poolVars /\ UNCHANGED pp_pfns
  <2>1. PoolExact' /\ InUse' = InUse \cup {}
    BY <1>1, <1>2 DEF poolVars, PoolExact, InUse, Allocated
  <2>2. {} \in SUBSET High
    OBVIOUS
  <2> QED
    BY <1>1, <1>2, <2>1, <2>2, OwnSame
<1>3. ASSUME NEW f \in Frame \cup {None}, GetPage(f), ~HandedOut(f), UNCHANGED pp_pfns
      PROVE  PoolExact' /\ Owned'
  <2>1. \E H \in SUBSET High : InUse' = InUse \cup H
    <3>1. (InUse' = InUse \cup {f} /\ f \in High) \/ InUse' = InUse \cup {}
      BY <1>1, <1>3, GetPageExact, ConstantsAssumption DEF HandedOut
    <3> QED
      BY <3>1
  <2> QED
    BY <1>1, <1>3, <2>1, GetPageExact, OwnSame
<1>4. ASSUME NEW f \in Frame \cup {None}, GetPage(f), HandedOut(f),
             NEW p \in Page, pp_pfns[m][p] = None,
             pp_pfns' = [pp_pfns EXCEPT ![m][p] = f]
      PROVE  PoolExact' /\ Owned'
  <2>1. f \in Frame \ InUse /\ InUse' = InUse \cup {f} /\ PoolExact'
    BY <1>1, <1>4, GetPageExact DEF HandedOut
  <2> QED
    BY <1>1, <1>4, <2>1, OwnMore
<1>5. ASSUME NEW p \in Page, pp_pfns' = [pp_pfns EXCEPT ![m][p] = None],
             IF pp_pfns[m][p] = None THEN UNCHANGED poolVars ELSE PutPage(pp_pfns[m][p])
      PROVE  PoolExact' /\ Owned'
  <2>1. CASE pp_pfns[m][p] = None
    <3>1. pp_pfns' = pp_pfns
      BY <1>1, <1>5, <2>1 DEF TypeOK
    <3> QED
      BY <1>2, <1>5, <2>1, <3>1
  <2>2. CASE pp_pfns[m][p] # None
    <3>1. PoolExact' /\ InUse' = InUse \ {pp_pfns[m][p]}
      BY <1>1, <1>5, <2>2, RecordedInUse, PutPageExact
    <3> QED
      BY <1>1, <1>5, <2>2, <3>1, OwnLess
  <2> QED
    BY <2>1, <2>2
<1>6. ASSUME NEW f \in Frame \cup {None}, TablePage(m, f) PROVE PoolExact' /\ Owned'
  <2>1. at[m] \in Page /\ pp_pfns[m][at[m]] = None
    <3>1. at[m] \in Table /\ at[m] \in Page
      BY <1>6, AtFacts, PageFacts DEF TablePage
    <3>2. at[m] >= at[m]
      BY AtFacts
    <3> QED
      BY <1>6, <3>1, <3>2 DEF TablePage, GInv, OpInv, EmptyOf
  <2> QED
    BY <1>3, <1>4, <1>6, <2>1 DEF TablePage
<1>7. ASSUME NEW f \in Frame \cup {None}, AllocAndMap(m, f) PROVE PoolExact' /\ Owned'
  <2>1. at[m] \in Page
    BY <1>7, AtFacts, PageFacts DEF AllocAndMap
  <2> QED
    BY <1>4, <1>7, <2>1 DEF AllocAndMap
<1>8. ASSUME NEW f \in Frame \cup {None}, AllocFails(m, f) PROVE PoolExact' /\ Owned'
  BY <1>3, <1>8 DEF AllocFails, mapVars
<1>9. CASE PutBack(m)
  <2>1. at[m] \in Page
    BY <1>9, AtFacts, PageFacts DEF PutBack
  <2> QED
    BY <1>5, <1>9, <2>1 DEF PutBack, Forgotten
<1>10. CASE Release(m)
  <2>1. at[m] \in Page
    BY <1>10, AtFacts DEF Release
  <2>2. at[m] = LastPage =>
          [pp_pfns EXCEPT ![m] = [q \in Page |-> None]] = [pp_pfns EXCEPT ![m][at[m]] = None]
    <3> SUFFICES ASSUME at[m] = LastPage
                 PROVE  [q \in Page |-> None] = [pp_pfns[m] EXCEPT ![at[m]] = None]
      BY <1>1 DEF TypeOK
    <3>1. \A q \in Page : q = at[m] \/ q < at[m]
      BY ConstantsAssumption DEF Page, LastPage
    <3>2. \A q \in Page : q < at[m] => pp_pfns[m][q] = None
      BY <1>10 DEF Release, GInv, OpInv, EmptyOf
    <3>3. pp_pfns[m] \in [Page -> Frame \cup {None}]
      BY <1>1 DEF TypeOK
    <3> QED
      BY <2>1, <3>1, <3>2, <3>3
  <2>3. pp_pfns' = [pp_pfns EXCEPT ![m][at[m]] = None]
    BY <1>10, <2>2 DEF Release, ReleaseEnd, Forgotten
  <2> QED
    BY <1>5, <1>10, <2>1, <2>3 DEF Release
<1>11. CASE \/ Create(m) \/ AlreadyThere(m) \/ Unmap(m)
            \/ \E op \in {"load", "alloc", "free"}, a \in Ram, b \in Ram : BeginRange(m, op, a, b)
            \/ \E again \in BOOLEAN : BeginRelease(m, again)
  BY <1>2, <1>11 DEF Create, AlreadyThere, Unmap, BeginRange, BeginRelease, mapVars
<1> QED
  BY <1>6, <1>7, <1>8, <1>9, <1>10, <1>11 DEF Step

-----------------------------------------------------------------------------
(* Page tables and the reversed map.                                       *)

(* What MappingsExact says of page p of monitor m. *)
MapAt(m, p) ==
  /\ pp_pfns[m][p] # None /\ ~(unmapped[m] /\ at[m] = p) =>
       pte[m][p] = pp_pfns[m][p] /\ reversed[pp_pfns[m][p]] = p
  /\ pc[m] # "release" => /\ p \in written[m] /\ pp_pfns[m][p] = None => pte[m][p] = None
                          /\ p \notin written[m] => pp_pfns[m][p] = None

LEMMA MapAtExact == MappingsExact <=> \A m \in Mon, p \in Ram : MapAt(m, p)
BY DEF MappingsExact, MappedExact, OthersUnmapped, MapAt

(* A thread works on its own monitor only. *)
OthersKept(m) ==
  \A n \in Mon \ {m} :
    /\ pc'[n] = pc[n] /\ at'[n] = at[n] /\ first'[n] = first[n] /\ last'[n] = last[n]
    /\ unmapped'[n] = unmapped[n] /\ pp_pfns'[n] = pp_pfns[n] /\ pte'[n] = pte[n]
    /\ written'[n] = written[n]

LEMMA StepOthers == ASSUME GInv, NEW m \in Mon, Step(m) PROVE OthersKept(m)
<1> USE DEF OthersKept, Goto, Return, Advance, mapVars, opVars
<1>1. /\ pp_pfns \in [Mon -> [Page -> Frame \cup {None}]]
      /\ pte \in [Mon -> [Ram -> Frame \cup {None}]] /\ written \in [Mon -> SUBSET Ram]
      /\ pc \in [Mon -> PCs]
      /\ at \in [Mon -> Nat] /\ first \in [Mon -> Nat] /\ last \in [Mon -> Nat]
      /\ unmapped \in [Mon -> BOOLEAN]
  BY DEF GInv, TypeOK
<1>2. CASE Create(m)
  BY <1>1, <1>2 DEF Create
<1>3. ASSUME NEW f \in Frame \cup {None}, TablePage(m, f) PROVE OthersKept(m)
  BY <1>1, <1>3 DEF TablePage
<1>4. ASSUME NEW f \in Frame \cup {None}, AllocAndMap(m, f) PROVE OthersKept(m)
  BY <1>1, <1>4 DEF AllocAndMap, Written
<1>5. ASSUME NEW f \in Frame \cup {None}, AllocFails(m, f) PROVE OthersKept(m)
  BY <1>1, <1>5 DEF AllocFails
<1>6. ASSUME NEW op \in {"load", "alloc", "free"}, NEW a \in Ram, NEW b \in Ram,
             BeginRange(m, op, a, b)
      PROVE  OthersKept(m)
  BY <1>1, <1>6 DEF BeginRange
<1>7. CASE AlreadyThere(m)
  BY <1>1, <1>7 DEF AlreadyThere
<1>8. CASE Unmap(m)
  BY <1>1, <1>8 DEF Unmap, Written
<1>9. CASE PutBack(m)
  BY <1>1, <1>9 DEF PutBack, Forgotten
<1>10. ASSUME NEW again \in BOOLEAN, BeginRelease(m, again) PROVE OthersKept(m)
  BY <1>1, <1>10 DEF BeginRelease
<1>11. CASE Release(m)
  BY <1>1, <1>11 DEF Release, Forgotten
<1> QED
  BY <1>2, <1>3, <1>4, <1>5, <1>6, <1>7, <1>8, <1>9, <1>10, <1>11 DEF Step

(* What a step does to the reversed map: the frame it writes is behind the page its thread is
   at, before the step or after it. *)
LEMMA ReversedStep ==
  ASSUME GInv, NEW m \in Mon, Step(m), NEW n \in Mon \ {m}, NEW p \in Ram, pp_pfns[n][p] # None
  PROVE  reversed'[pp_pfns[n][p]] = reversed[pp_pfns[n][p]]
<1> DEFINE g == pp_pfns[n][p]
<1>1. p \in Page /\ g \in InUse /\ g \in Frame
  <2>1. p \in Page
    BY PageFacts
  <2>2. g \in InUse
    BY <2>1, RecordedInUse
  <2>3. pp_pfns \in [Mon -> [Page -> Frame \cup {None}]]
    BY DEF GInv, TypeOK
  <2> QED
    BY <2>1, <2>2, <2>3
<1>2. reversed \in [Frame -> Ram \cup {None}]
  BY DEF GInv, TypeOK
<1>3. ASSUME NEW f \in Frame \cup {None}, AllocAndMap(m, f) PROVE reversed'[g] = reversed[g]
  <2>1. f \in Frame \ InUse
    BY <1>3, GInvPool, GetPageExact DEF AllocAndMap, HandedOut
  <2>2. f # g /\ reversed' = [reversed EXCEPT ![f] = at[m]]
    BY <1>1, <1>3, <2>1 DEF AllocAndMap, Reversed
  <2> QED
    BY <1>1, <1>2, <2>2
<1>4. CASE Unmap(m)
  <2>1. at[m] \in Page
    BY <1>4, AtFacts, PageFacts DEF Unmap
  <2>2. pp_pfns[m][at[m]] # g
    BY <1>1, <2>1 DEF GInv, OneOwner
  <2> QED
    BY <1>1, <1>2, <1>4, <2>2 DEF Unmap, Reversed
<1>5. CASE UNCHANGED reversed
  BY <1>5
<1>6. CASE \/ Create(m) \/ AlreadyThere(m) \/ PutBack(m) \/ Release(m)
           \/ \E f \in Frame \cup {None} : TablePage(m, f) \/ AllocFails(m, f)
           \/ \E op \in {"load", "alloc", "free"}, a \in Ram, b \in Ram : BeginRange(m, op, a, b)
           \/ \E again \in BOOLEAN : BeginRelease(m, again)
  BY <1>5, <1>6
     DEF Create, AlreadyThere, PutBack, Release, TablePage, AllocFails, BeginRange, BeginRelease,
         mapVars
<1> QED
  BY <1>3, <1>4, <1>6 DEF Step

LEMMA MapStep == ASSUME GInv, NEW m \in Mon, Step(m) PROVE MappingsExact'
<1>1. /\ pp_pfns \in [Mon -> [Page -> Frame \cup {None}]]
      /\ pte \in [Mon -> [Ram -> Frame \cup {None}]]
      /\ reversed \in [Frame -> Ram \cup {None}] /\ written \in [Mon -> SUBSET Ram]
      /\ pc \in [Mon -> PCs] /\ at \in [Mon -> Nat]
      /\ unmapped \in [Mon -> BOOLEAN]
      /\ None \notin Frame
      /\ Ram \subseteq Page /\ Ram \cap Table = {} /\ Ram \subseteq Nat
  BY ConstantsAssumption, PageFacts DEF GInv, TypeOK
<1>2. SUFFICES \A n \in Mon, p \in Ram : MapAt(n, p)'
  BY DEF MappingsExact, MappedExact, OthersUnmapped, MapAt
<1>3. \A n \in Mon, p \in Ram : MapAt(n, p)
  BY MapAtExact DEF GInv
<1>4. ASSUME NEW n \in Mon \ {m}, NEW p \in Ram PROVE MapAt(n, p)'
  BY <1>3, StepOthers, ReversedStep DEF OthersKept, MapAt
<1>5. ASSUME NEW p \in Ram PROVE MapAt(m, p)'
  <2>1. /\ RangeOf(m) /\ EmptyOf(m) /\ MapAt(m, p) /\ p \in Page
        /\ unmapped[m] => /\ pc[m] \in {"free", "rollback"} /\ pte[m][at[m]] = None
                          /\ at[m] \in written[m]
    BY <1>1, <1>3, AtFacts DEF GInv, OpInv
  <2>2. CASE /\ UNCHANGED mapVars /\ ~unmapped[m] /\ ~unmapped'[m]
             /\ pc[m] # "release"
    BY <2>1, <2>2 DEF MapAt, mapVars
  <2>3. CASE Create(m) \/ AlreadyThere(m)
    BY <2>1, <2>2, <2>3 DEF Create, AlreadyThere
  <2>4. ASSUME NEW f \in Frame \cup {None}, TablePage(m, f) PROVE MapAt(m, p)'
    <3>1. at[m] \in Table /\ pp_pfns[m][p] = None /\ at[m] # p
      BY <1>1, <2>1, <2>4, AtFacts DEF TablePage, EmptyOf
    <3>2. pp_pfns'[m][p] = None
      BY <1>1, <2>4, <3>1 DEF TablePage
    <3>3. CASE HandedOut(f)
      <4>1. p \notin written'[m]
        BY <2>1, <2>4 DEF TablePage, EmptyOf
      <4> QED
        BY <1>1, <3>2, <4>1 DEF MapAt
    <3>4. CASE ~HandedOut(f)
      <4>1. pc'[m] = "release"
        BY <1>1, <2>4, <3>4 DEF TablePage, Goto
      <4> QED
        BY <3>2, <4>1 DEF MapAt
    <3> QED
      BY <3>3, <3>4
  <2>5. ASSUME NEW f \in Frame \cup {None}, AllocAndMap(m, f) PROVE MapAt(m, p)'
    <3>1. at[m] \in Ram /\ ~unmapped[m] /\ unmapped' = unmapped /\ pc[m] # "release"
      BY <2>1, <2>5, AtFacts DEF AllocAndMap
    <3>2. f \in Frame \ InUse
      BY <2>5, GInvPool, GetPageExact DEF AllocAndMap, HandedOut
    <3>3. /\ pp_pfns' = [pp_pfns EXCEPT ![m][at[m]] = f]
          /\ pte' = [pte EXCEPT ![m][at[m]] = f]
          /\ reversed' = [reversed EXCEPT ![f] = at[m]]
          /\ written'[m] = written[m] \cup {at[m]}
      BY <1>1, <2>5 DEF AllocAndMap, Reversed, Written
    <3>4. CASE p = at[m]
      <4>1. pp_pfns'[m][p] = f /\ pte'[m][p] = f /\ reversed'[f] = p
        BY <1>1, <3>1, <3>2, <3>3, <3>4
      <4>2. p \in written'[m] /\ f # None
        BY <1>1, <3>2, <3>3, <3>4
      <4> QED
        BY <4>1, <4>2 DEF MapAt
    <3>5. CASE p # at[m]
      <4>1. pp_pfns[m][p] # None => pp_pfns[m][p] # f
        BY <2>1, <3>2, RecordedInUse
      <4>2. pp_pfns'[m][p] = pp_pfns[m][p] /\ pte'[m][p] = pte[m][p]
        BY <1>1, <2>1, <3>1, <3>3, <3>5
      <4>3. pp_pfns[m][p] # None => reversed'[pp_pfns[m][p]] = reversed[pp_pfns[m][p]]
        BY <1>1, <2>1, <3>2, <3>3, <4>1
      <4>4. p \in written'[m] <=> p \in written[m]
        BY <3>3, <3>5
      <4>5. /\ pp_pfns[m][p] # None /\ ~(unmapped[m] /\ at[m] = p) =>
                 pte[m][p] = pp_pfns[m][p] /\ reversed[pp_pfns[m][p]] = p
            /\ p \in written[m] /\ pp_pfns[m][p] = None => pte[m][p] = None
            /\ p \notin written[m] => pp_pfns[m][p] = None
        BY <2>1, <3>1 DEF MapAt
      <4>6. /\ pp_pfns'[m][p] # None => pte'[m][p] = pp_pfns'[m][p] /\ reversed'[pp_pfns'[m][p]] = p
            /\ p \in written'[m] /\ pp_pfns'[m][p] = None => pte'[m][p] = None
            /\ p \notin written'[m] => pp_pfns'[m][p] = None
        BY <3>1, <4>2, <4>3, <4>4, <4>5
      <4> QED
        BY <4>6 DEF MapAt
    <3> QED
      BY <3>4, <3>5
  <2>6. ASSUME NEW f \in Frame \cup {None}, AllocFails(m, f) PROVE MapAt(m, p)'
    BY <2>1, <2>2, <2>6 DEF AllocFails
  <2>7. ASSUME NEW op \in {"load", "alloc", "free"}, NEW a \in Ram, NEW b \in Ram,
               BeginRange(m, op, a, b)
        PROVE  MapAt(m, p)'
    BY <2>1, <2>2, <2>7 DEF BeginRange
  <2>8. ASSUME NEW again \in BOOLEAN, BeginRelease(m, again) PROVE MapAt(m, p)'
    BY <2>1, <2>2, <2>8 DEF BeginRelease
  <2>9. CASE Unmap(m)
    <3>1. /\ at[m] \in Ram /\ at[m] \in Page /\ unmapped'[m] /\ ~unmapped[m]
          /\ pc' = pc /\ at' = at /\ pp_pfns' = pp_pfns /\ pc[m] # "release"
          /\ pte' = [pte EXCEPT ![m][at[m]] = None]
          /\ written'[m] = written[m] \cup {at[m]}
      BY <1>1, <2>9, AtFacts DEF Unmap, Erased, Written
    <3>2. CASE p = at[m]
      BY <1>1, <3>1, <3>2 DEF MapAt
    <3>3. CASE p # at[m]
      <4>1. pp_pfns[m][p] # None => /\ pp_pfns[m][at[m]] # pp_pfns[m][p]
                                    /\ pp_pfns[m][p] \in Frame
        <5>1. OneOwner /\ at[m] \in Page /\ p \in Page /\ at[m] # p
          BY <2>1, <3>1, <3>3 DEF GInv
        <5>2. pp_pfns[m][p] # None => pp_pfns[m][at[m]] # pp_pfns[m][p]
          BY <5>1 DEF OneOwner
        <5> QED
          BY <1>1, <5>1, <5>2
      <4>2. pp_pfns[m][p] # None => reversed'[pp_pfns[m][p]] = reversed[pp_pfns[m][p]]
        BY <1>1, <2>9, <4>1 DEF Unmap, Reversed
      <4> QED
        BY <1>1, <2>1, <3>1, <3>3, <4>2 DEF MapAt
    <3> QED
      BY <3>2, <3>3
  <2>10. CASE PutBack(m)
    <3>1. /\ at[m] \in Ram /\ at[m] \in Page /\ unmapped[m] /\ ~unmapped'[m]
          /\ pte' = pte /\ reversed' = reversed /\ pte[m][at[m]] = None
          /\ written' = written /\ at[m] \in written[m]
          /\ pp_pfns' = [pp_pfns EXCEPT ![m][at[m]] = None] /\ pc[m] # "release"
      BY <1>1, <2>1, <2>10, AtFacts DEF PutBack, Forgotten
    <3>2. CASE p = at[m]
      BY <1>1, <3>1, <3>2 DEF MapAt
    <3>3. CASE p # at[m]
      <4>1. pp_pfns'[m][p] = pp_pfns[m][p]
        BY <1>1, <2>1, <3>1, <3>3
      <4> QED
        BY <2>1, <3>1, <3>3, <4>1 DEF MapAt
    <3> QED
      BY <3>2, <3>3
  <2>11. CASE Release(m)
    <3>1. /\ at[m] \in Page /\ ~unmapped[m] /\ UNCHANGED <<reversed, unmapped>>
          /\ pc[m] = "release"
      BY <2>1, <2>11, AtFacts DEF Release
    <3>2. CASE at[m] = ReleaseEnd
      <4>1. pp_pfns'[m][p] = None /\ pte'[m][p] = None /\ written'[m] = {}
        BY <1>1, <2>1, <2>11, <3>2 DEF Release
      <4> QED
        BY <1>1, <4>1 DEF MapAt
    <3>3. CASE at[m] # ReleaseEnd
      <4>1. /\ pp_pfns' = [pp_pfns EXCEPT ![m][at[m]] = None]
            /\ pte' = pte /\ pc' = pc /\ written' = written
        BY <2>11, <3>3 DEF Release, Forgotten
      <4>2. pp_pfns'[m][p] \in {pp_pfns[m][p], None}
        BY <1>1, <2>1, <3>1, <4>1
      <4> QED
        BY <2>1, <3>1, <4>1, <4>2 DEF MapAt
    <3> QED
      BY <3>2, <3>3
  <2> QED
    BY <2>3, <2>4, <2>5, <2>6, <2>7, <2>8, <2>9, <2>10, <2>11 DEF Step
<1> QED
  BY <1>4, <1>5

-----------------------------------------------------------------------------
(* Where the threads are.                                                  *)

LEMMA OpStep == ASSUME GInv, NEW m \in Mon, Step(m) PROVE OpInv'
<1>1. /\ pp_pfns \in [Mon -> [Page -> Frame \cup {None}]]
      /\ pte \in [Mon -> [Ram -> Frame \cup {None}]] /\ written \in [Mon -> SUBSET Ram]
      /\ pc \in [Mon -> PCs]
      /\ at \in [Mon -> Nat] /\ first \in [Mon -> Nat] /\ last \in [Mon -> Nat]
      /\ unmapped \in [Mon -> BOOLEAN] /\ restart \in [Mon -> BOOLEAN]
      /\ RamPages \in Nat \ {0} /\ TablePages \in Nat \ {0}
  BY ConstantsAssumption DEF GInv, TypeOK
<1>2. \A n \in Mon : RangeOf(n) /\ EmptyOf(n)
  BY DEF GInv, OpInv
<1>3. ASSUME NEW n \in Mon \ {m} PROVE RangeOf(n)' /\ EmptyOf(n)'
  BY <1>2, StepOthers DEF OthersKept, RangeOf, EmptyOf
<1>4. RangeOf(m)'
  <2> USE DEF Goto, Return, Advance, RangeOf
  <2>1. RangeOf(m)
    BY <1>2
  <2>2. CASE Create(m)
    BY <1>1, <2>1, <2>2 DEF Create, Table, LastPage, mapVars
  <2>3. ASSUME NEW f \in Frame \cup {None}, TablePage(m, f) PROVE RangeOf(m)'
    <3>1. ~unmapped'[m]
      BY <2>1, <2>3 DEF TablePage
    <3>2. at[m] \in Table /\ 1 \in Page
      BY <1>1, <2>1, <2>3 DEF TablePage, Page, LastPage
    <3>3. CASE HandedOut(f) /\ at[m] = LastPage
      <4>1. pc'[m] = "idle"
        BY <1>1, <2>3, <3>3 DEF TablePage
      <4> QED
        BY <3>1, <4>1
    <3>4. CASE HandedOut(f) /\ at[m] # LastPage
      <4>1. pc'[m] = "tables" /\ at'[m] = at[m] + 1
        BY <1>1, <2>3, <3>4 DEF TablePage
      <4>2. at[m] + 1 \in Table
        <5>1. /\ at[m] \in Nat /\ RamPages + 1 <= at[m] /\ at[m] <= LastPage
              /\ at[m] # LastPage /\ LastPage \in Nat /\ RamPages \in Nat
          BY <1>1, <3>2, <3>4 DEF Table, LastPage
        <5> QED
          BY <5>1 DEF Table
      <4> QED
        BY <3>1, <4>1, <4>2
    <3>5. CASE ~HandedOut(f)
      <4>1. pc'[m] = "release" /\ at'[m] = 1
        BY <1>1, <2>3, <3>5 DEF TablePage
      <4> QED
        BY <3>1, <3>2, <4>1
    <3> QED
      BY <3>3, <3>4, <3>5
  <2>4. ASSUME NEW f \in Frame \cup {None}, AllocAndMap(m, f) PROVE RangeOf(m)'
    BY <1>1, <2>1, <2>4 DEF AllocAndMap, Ram
  <2>5. ASSUME NEW f \in Frame \cup {None}, AllocFails(m, f) PROVE RangeOf(m)'
    BY <1>1, <2>1, <2>5 DEF AllocFails, Ram
  <2>6. ASSUME NEW op \in {"load", "alloc", "free"}, NEW a \in Ram, NEW b \in Ram, a <= b,
               BeginRange(m, op, a, b)
        PROVE  RangeOf(m)'
    BY <1>1, <2>1, <2>6 DEF BeginRange, Ram
  <2>7. CASE AlreadyThere(m)
    BY <1>1, <2>1, <2>7 DEF AlreadyThere, Ram
  <2>8. CASE Unmap(m)
    BY <1>1, <2>1, <2>8, AtFacts DEF Unmap, Erased, Written
  <2>9. CASE PutBack(m)
    BY <1>1, <2>1, <2>9 DEF PutBack, Ram
  <2>10. ASSUME NEW again \in BOOLEAN, BeginRelease(m, again) PROVE RangeOf(m)'
    BY <1>1, <2>1, <2>10 DEF BeginRelease, Page, LastPage
  <2>11. CASE Release(m)
    BY <1>1, <2>1, <2>11 DEF Release, ReleaseEnd, Table, Page, LastPage
  <2> QED
    BY <2>2, <2>3, <2>4, <2>5, <2>6, <2>7, <2>8, <2>9, <2>10, <2>11 DEF Step
<1>5. EmptyOf(m)'
  <2> USE DEF Goto, Return, Advance, EmptyOf
  <2>1. EmptyOf(m) /\ RangeOf(m)
    BY <1>2
  <2>2. CASE Create(m)
    BY <1>1, <2>1, <2>2 DEF Create, mapVars
  <2>3. ASSUME NEW f \in Frame \cup {None}, TablePage(m, f) PROVE EmptyOf(m)'
    BY <1>1, <2>1, <2>3, AtFacts DEF TablePage, Ram, Table, Page, LastPage
  <2>4. ASSUME NEW f \in Frame \cup {None}, AllocAndMap(m, f) PROVE EmptyOf(m)'
    BY <1>1, <2>1, <2>4 DEF AllocAndMap, Written
  <2>5. ASSUME NEW f \in Frame \cup {None}, AllocFails(m, f) PROVE EmptyOf(m)'
    BY <1>1, <2>1, <2>5 DEF AllocFails
  <2>6. ASSUME NEW op \in {"load", "alloc", "free"}, NEW a \in Ram, NEW b \in Ram,
               BeginRange(m, op, a, b)
        PROVE  EmptyOf(m)'
    BY <1>1, <2>1, <2>6 DEF BeginRange
  <2>7. CASE AlreadyThere(m)
    BY <1>1, <2>1, <2>7 DEF AlreadyThere
  <2>8. CASE Unmap(m)
    BY <1>1, <2>1, <2>8 DEF Unmap, Written
  <2>9. CASE PutBack(m)
    BY <1>1, <2>1, <2>9 DEF PutBack, RangeOf
  <2>10. ASSUME NEW again \in BOOLEAN, BeginRelease(m, again) PROVE EmptyOf(m)'
    BY <1>1, <2>1, <2>10 DEF BeginRelease, Page, LastPage
  <2>11. CASE Release(m)
    <3>1. at[m] \in Page /\ pc[m] = "release"
      BY <2>11, AtFacts DEF Release
    <3>2. CASE at[m] = ReleaseEnd
      <4>1. /\ pp_pfns'[m] = [q \in Page |-> None] /\ pc'[m] \in {"tables", "none"}
            /\ written'[m] = {}
        BY <1>1, <2>11, <3>2 DEF Release
      <4> QED
        BY <4>1
    <3>3. CASE at[m] # ReleaseEnd
      <4>1. /\ pp_pfns' = [pp_pfns EXCEPT ![m][at[m]] = None]
            /\ at'[m] = at[m] + 1 /\ pc'[m] = "release"
        BY <1>1, <2>11, <3>1, <3>3 DEF Release, Forgotten
      <4>2. \A p \in Page : p < at[m] + 1 => p < at[m] \/ p = at[m]
        <5>1. at[m] \in Nat /\ \A p \in Page : p \in Nat
          BY <3>1, PageFacts
        <5> QED
          BY <5>1
      <4>3. \A p \in Page : pp_pfns'[m][p] = IF p = at[m] THEN None ELSE pp_pfns[m][p]
        BY <1>1, <3>1, <4>1
      <4> QED
        BY <2>1, <3>1, <4>1, <4>2, <4>3
    <3> QED
      BY <3>2, <3>3
  <2> QED
    BY <2>2, <2>3, <2>4, <2>5, <2>6, <2>7, <2>8, <2>9, <2>10, <2>11 DEF Step
<1> QED
  BY <1>3, <1>4, <1>5 DEF OpInv

-----------------------------------------------------------------------------
(* The invariant and what follows from it.                                 *)

LEMMA InitGInv == Init => GInv
<1> SUFFICES ASSUME Init PROVE GInv
  OBVIOUS
<1> USE DEF Init
<1>1. TypeOK
  BY PageFacts DEF TypeOK, PCs
<1>2. PoolExact /\ NothingLost
  BY DEF PoolExact, NothingLost, Allocated
<1>3. \A m \in Mon : Recorded(m) = {}
  BY PageFacts DEF Recorded
<1>4. OneOwner
  BY <1>3 DEF OneOwner
<1>5. MappingsExact
  BY ConstantsAssumption, PageFacts DEF MappingsExact, MappedExact, OthersUnmapped
<1>6. OpInv
  BY DEF OpInv, RangeOf, EmptyOf
<1> QED
  BY <1>1, <1>2, <1>4, <1>5, <1>6 DEF GInv, PoolAccounted

LEMMA NextGInv == GInv /\ [Next]_vars => GInv'
<1> SUFFICES ASSUME GInv, [Next]_vars PROVE GInv'
  OBVIOUS
<1>1. ASSUME NEW m \in Mon, Step(m) PROVE GInv'
  BY <1>1, TypeStep, OwnStep, MapStep, OpStep DEF GInv, PoolAccounted, Owned
<1>2. CASE UNCHANGED vars
  <2> USE <1>2 DEF vars, poolVars, mapVars, opVars
  <2>1. TypeOK'
    BY DEF GInv, TypeOK
  <2>2. PoolExact' /\ NothingLost'
    <3>1. /\ mdl_list' = mdl_list /\ use_count' = use_count /\ pages_unused' = pages_unused
          /\ mapped_allocated_list' = mapped_allocated_list /\ pp_pfns' = pp_pfns
      OBVIOUS
    <3>2. PoolExact'
      BY <3>1 DEF GInv, PoolAccounted, PoolExact
    <3>3. NothingLost'
      BY <3>1 DEF GInv, PoolAccounted, NothingLost, Recorded, Allocated
    <3> QED
      BY <3>2, <3>3
  <2>3. OneOwner'
    BY DEF GInv, OneOwner, Recorded, Allocated
  <2>4. MappingsExact'
    BY DEF GInv, MappingsExact, MappedExact, OthersUnmapped
  <2>5. OpInv'
    BY DEF GInv, OpInv, RangeOf, EmptyOf
  <2> QED
    BY <2>1, <2>2, <2>3, <2>4, <2>5 DEF GInv, PoolAccounted
<1> QED
  BY <1>1, <1>2 DEF Next

LEMMA AlwaysGInv == Spec => []GInv
BY InitGInv, NextGInv, PTL DEF Spec

(* Every variable keeps its type: no bucket's use_count goes below zero. *)
THEOREM PagesTyped == Spec => []TypeOK
<1>1. GInv => TypeOK
  BY DEF GInv
<1> QED
  BY <1>1, AlwaysGInv, PTL

(* co_os_get_page never hands a frame to a second page or a second guest, and co_os_put_page
   is never called for a frame that is in the pool or with NT already. *)
THEOREM FramesHaveOneOwner == Spec => []OneOwner
<1>1. GInv => OneOwner
  BY DEF GInv
<1> QED
  BY <1>1, AlwaysGInv, PTL

(* Whatever range a copy, an allocation, its rollback or a free goes through, and whatever the
   other guests do meanwhile, page table and reversed map agree with pp_pfns on every page that
   has a frame, and the driver leaves no entry it has written to lead to a frame given back;
   whatever the frames of the tables held before, for no assumption is made about that. *)
THEOREM PagesMappedExactly == Spec => []MappingsExact
<1>1. GInv => MappingsExact
  BY DEF GInv
<1> QED
  BY <1>1, AlwaysGInv, PTL

(* The use counts of the buckets are exact, so a bucket goes back to NT with its last frame and
   not before; and a frame taken from the pool is lost only if its number was too high. *)
THEOREM PoolNeverLeaks == Spec => []PoolAccounted
<1>1. GInv => PoolAccounted
  BY DEF GInv
<1> QED
  BY <1>1, AlwaysGInv, PTL
=============================================================================
