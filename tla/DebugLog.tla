------------------------------ MODULE DebugLog ------------------------------
(***************************************************************************)
(* The driver's debug log: sections of buffered text, one for the driver   *)
(* itself and one for each descriptor that writes debug lines, collected   *)
(* by the debug daemon's read and folded when their descriptor closes.     *)
(*                                                                         *)
(* Sources: kernel/debug.c, its callers in kernel/manager.c.               *)
(*                                                                         *)
(* A section's reference count is counted up before its mutex is taken,    *)
(* and sections_total_filled is updated under whichever section's mutex    *)
(* the thread holds; both are loads and stores here.  sections_count and   *)
(* sections_total_size are only reported, and left out.  A line is one     *)
(* unit long.                                                              *)
(***************************************************************************)
EXTENDS Integers, Sequences, FiniteSets, FiniteSetsExt, SequencesExt

CONSTANTS
  Writer,          (* threads that write lines                              *)
  LogOwner,        (* LogOwner[w]: the section pointers w writes through: the
                      driver's own, and that of a descriptor it uses        *)
  LogHandle,       (* the pointers that belong to descriptors               *)
  Slot,            (* bound: the sections that exist at one time            *)
  StartSize, MaxSize, MaxFill,      (* the CO_DEBUG_ sizes, in lines        *)
  ReadSize         (* the debug daemon's buffer                             *)

ASSUME DebugAssumption ==
  /\ "reader" \notin Writer /\ "none" \notin Slot
  /\ IsFiniteSet(Writer) /\ IsFiniteSet(Slot)
  /\ StartSize \in Nat \ {0} /\ MaxSize \in Nat /\ MaxFill \in Nat /\ ReadSize \in Nat
  /\ StartSize <= MaxSize

VARIABLES
  section,         (* the sections' filled, size, refcount and folded       *)
  taken,           (* the slots whose section is allocated                  *)
  chain,           (* debug->sections, oldest first                         *)
  pointer,         (* the section pointer of each owner                     *)
  totalFilled,     (* debug->sections_total_filled                          *)
  readWait,        (* the event of read_wait is set                         *)
  freeing,         (* debug->freeing                                        *)
  logger,          (* each thread: where it is, its section, what it loaded *)
  todo,            (* the sections the reader still has to visit            *)
  copied,          (* user_filled, and the lines just taken from a section  *)
  mishaps          (* history: what a stale store overwrote, and the early
                      free of a section that is listed but not counted      *)

debugVars == <<section, taken, chain, pointer, totalFilled, readWait, freeing, logger, todo,
               copied, mishaps>>

Logger   == Writer \union {"reader"}
LogPtr   == UNION {LogOwner[w] : w \in Writer}
At(t)    == logger[t].at
Sec(t)   == section[logger[t].sec]
Idle     == [at |-> "idle", ptr |-> "none", sec |-> "none", old |-> 0, new |-> FALSE]

(* The mutexes: a thread past its lock holds the section's; the reader and a fold hold
   debug->mutex for as long as they run. *)
SectionLocked(s) == \E t \in Logger : logger[t].sec = s /\ At(t) \in {"locked", "total", "put"}
DebugLocked      == At("reader") # "idle"

(* Its creator has not yet taken the owner's reference. *)
BeingMade(s) == \E w \in Writer : logger[w].sec = s /\ logger[w].new

NoSection == [filled |-> 0, size |-> 0, refcount |-> 0, folded |-> FALSE]

DebugInit ==
  /\ section = [s \in Slot |-> NoSection]
  /\ taken = {} /\ chain = <<>>
  /\ pointer = [p \in LogPtr |-> "none"]
  /\ totalFilled = 0 /\ readWait = FALSE /\ freeing = FALSE
  /\ logger = [t \in Logger |-> Idle]
  /\ todo = <<>> /\ copied = [user |-> 0, saved |-> 0]
  /\ mishaps = {}

(* What resize_section makes of a buffer's size; peak_size is still the size at creation. *)
resize_section(s) ==
  LET wanted == IF s.filled >= s.size \div 2
                THEN IF s.size * 2 > MaxSize THEN 0 ELSE s.size * 2
                ELSE IF s.filled < StartSize THEN StartSize \div 2 ELSE 0
  IN IF wanted = 0 \/ s.size # wanted THEN s.size ELSE wanted

-----------------------------------------------------------------------------
(* co_debug_writev up to get_section.  A line is dropped without an error when the log is
   full or being freed. *)

WriteBegin(w, p) ==
  /\ At(w) = "idle" /\ p \in LogOwner[w] /\ totalFilled <= MaxFill /\ ~freeing
  /\ logger' = [logger EXCEPT ![w] =
       [Idle EXCEPT !.at = IF pointer[p] = "none" THEN "create" ELSE "found",
                    !.ptr = p, !.sec = pointer[p]]]
  /\ UNCHANGED <<section, taken, chain, pointer, totalFilled, readWait, freeing, todo, copied,
                 mishaps>>

CreateSection(w) ==
  /\ At(w) = "create"
  /\ \/ logger' = [logger EXCEPT ![w] = Idle] /\ UNCHANGED <<section, taken>>
     \/ /\ taken # Slot
        /\ LET s == CHOOSE s \in Slot : s \notin taken IN
          /\ section' = [section EXCEPT ![s] = [NoSection EXCEPT !.size = StartSize]]
          /\ taken' = taken \union {s}
          /\ logger' = [logger EXCEPT ![w] = [@ EXCEPT !.at = "created", !.sec = s, !.new = TRUE]]
  /\ UNCHANGED <<chain, pointer, totalFilled, readWait, freeing, todo, copied, mishaps>>

LinkSection(w) ==
  /\ At(w) = "created" /\ ~DebugLocked
  /\ chain' = Append(chain, logger[w].sec)
  /\ logger' = [logger EXCEPT ![w].at = "found"]
  /\ UNCHANGED <<section, taken, pointer, totalFilled, readWait, freeing, todo, copied,
                 mishaps>>

(* get_section: refcount++, a load and a store, and then the section's mutex. *)
GetLoads(t) ==
  /\ At(t) = "found"
  /\ logger' = [logger EXCEPT ![t].at = "get", ![t].old = Sec(t).refcount]
  /\ UNCHANGED <<section, taken, chain, pointer, totalFilled, readWait, freeing, todo, copied,
                 mishaps>>

GetStores(t) ==
  /\ At(t) = "get"
  /\ section' = [section EXCEPT ![logger[t].sec].refcount = logger[t].old + 1]
  /\ mishaps' = mishaps
       \union {r \in {"refcount"} : Sec(t).refcount # logger[t].old}
  /\ logger' = [logger EXCEPT ![t].at = "wait", ![t].old = 0]
  /\ UNCHANGED <<taken, chain, pointer, totalFilled, readWait, freeing, todo, copied>>

(* A new section's pointer is set, and its second reference taken, once it is locked; the
   pointer another first writer has set meanwhile is overwritten. *)
GetLocks(t) ==
  /\ At(t) = "wait" /\ ~SectionLocked(logger[t].sec)
  /\ logger' = [logger EXCEPT ![t].at = "locked", ![t].new = FALSE]
  /\ IF logger[t].new
     THEN /\ section' = [section EXCEPT ![logger[t].sec].refcount = @ + 1]
          /\ pointer' = [pointer EXCEPT ![logger[t].ptr] = logger[t].sec]
          /\ mishaps' = mishaps
               \union {r \in {"pointer"} : pointer[logger[t].ptr] # "none"}
     ELSE UNCHANGED <<section, pointer, mishaps>>
  /\ UNCHANGED <<taken, chain, totalFilled, readWait, freeing, todo, copied>>

-----------------------------------------------------------------------------
(* append_to_buffer, then put_section.  old is what was loaded of totalFilled at "total",
   of the reference count at "put". *)

AppendFits(s) == resize_section(s) - s.filled >= 1

AppendLine(w) ==
  /\ w \in Writer /\ At(w) = "locked"
  /\ LET s == logger[w].sec IN
     IF AppendFits(section[s])
     THEN /\ section' = [section EXCEPT ![s].filled = @ + 1,
                                        ![s].size = resize_section(section[s])]
          /\ logger' = [logger EXCEPT ![w].at = "total", ![w].old = totalFilled]
          /\ readWait' = TRUE
     ELSE /\ section' = [section EXCEPT ![s].size = resize_section(section[s])]
          /\ logger' = [logger EXCEPT ![w].at = "put", ![w].old = Sec(w).refcount]
          /\ UNCHANGED readWait
  /\ UNCHANGED <<taken, chain, pointer, totalFilled, freeing, todo, copied, mishaps>>

TotalStores(w) ==
  /\ w \in Writer /\ At(w) = "total"
  /\ totalFilled' = logger[w].old + 1
  /\ mishaps' = mishaps \union {r \in {"total"} : totalFilled # logger[w].old}
  /\ logger' = [logger EXCEPT ![w].at = "put", ![w].old = Sec(w).refcount]
  /\ UNCHANGED <<section, taken, chain, pointer, readWait, freeing, todo, copied>>

(* The last reference frees the section, and a writer's pointer is cleared. *)
PutStores(t) ==
  /\ At(t) = "put"
  /\ LET s == logger[t].sec
         left == logger[t].old - 1
     IN /\ section' = [section EXCEPT ![s] = IF left = 0 THEN NoSection
                                             ELSE [@ EXCEPT !.refcount = left]]
        /\ taken' = IF left = 0 THEN taken \ {s} ELSE taken
        /\ pointer' = IF left = 0 /\ t \in Writer
                      THEN [pointer EXCEPT ![logger[t].ptr] = "none"] ELSE pointer
        /\ mishaps' = mishaps \union {r \in {"refcount"} : Sec(t).refcount # logger[t].old}
                        \union {r \in {"early free"} : left = 0 /\ BeingMade(s)}
  /\ logger' = [logger EXCEPT ![t] = IF t = "reader" THEN [Idle EXCEPT !.at = "next"] ELSE Idle]
  /\ UNCHANGED <<chain, totalFilled, readWait, freeing, todo, copied>>

-----------------------------------------------------------------------------
(* co_debug_read *)

ReadBegins ==
  /\ At("reader") = "idle" /\ readWait
  /\ readWait' = FALSE
  /\ logger' = [logger EXCEPT !["reader"].at = "next"]
  /\ todo' = chain /\ copied' = [user |-> 0, saved |-> 0]
  /\ UNCHANGED <<section, taken, chain, pointer, totalFilled, freeing, mishaps>>

ReadVisits ==
  /\ At("reader") = "next" /\ todo # <<>>
  /\ logger' = [logger EXCEPT !["reader"] = [Idle EXCEPT !.at = "found", !.sec = Head(todo)]]
  /\ todo' = Tail(todo)
  /\ UNCHANGED <<section, taken, chain, pointer, totalFilled, readWait, freeing, copied,
                 mishaps>>

(* A section that fits the rest of the user's buffer is copied out and emptied. *)
ReadCopies ==
  /\ At("reader") = "locked"
  /\ LET s == logger["reader"].sec IN
     \/ /\ ReadSize - copied.user >= section[s].filled
        /\ section' = [section EXCEPT ![s].filled = 0]
        /\ copied' = [user |-> copied.user + section[s].filled, saved |-> section[s].filled]
        /\ logger' = [logger EXCEPT !["reader"].at = "total", !["reader"].old = totalFilled]
     \/ (* it does not fit, or the copy to the user fails *)
        /\ section' = [section EXCEPT ![s].size =
             IF section[s].folded THEN @ ELSE resize_section(section[s])]
        /\ copied' = [copied EXCEPT !.saved = 0]
        /\ logger' = [logger EXCEPT !["reader"].at = "put", !["reader"].old = Sec("reader").refcount]
  /\ UNCHANGED <<taken, chain, pointer, totalFilled, readWait, freeing, todo, mishaps>>

(* The total goes down; a folded section leaves the list and loses its owner's reference. *)
FoldedEnds_KeepsReference(n) == n
FoldedEnds(n) == n - 1

ReadSaves ==
  /\ At("reader") = "total"
  /\ totalFilled' = logger["reader"].old - copied.saved
  /\ mishaps' = mishaps \union {r \in {"total"} : totalFilled # logger["reader"].old}
  /\ LET s    == logger["reader"].sec
         left == IF section[s].folded THEN FoldedEnds(Sec("reader").refcount)
                 ELSE Sec("reader").refcount
     IN /\ chain' = IF section[s].folded
                     THEN RemoveAt(chain, CHOOSE i \in DOMAIN chain : chain[i] = s) ELSE chain
        /\ section' = [section EXCEPT ![s] = [@ EXCEPT !.refcount = left, !.folded = FALSE,
                                                       !.size = resize_section(section[s])]]
        /\ logger' = [logger EXCEPT !["reader"].at = "put", !["reader"].old = left]
  /\ copied' = [copied EXCEPT !.saved = 0]
  /\ UNCHANGED <<taken, pointer, readWait, freeing, todo>>

ReadEnds ==
  /\ At("reader") = "next" /\ todo = <<>>
  /\ logger' = [logger EXCEPT !["reader"] = Idle]
  /\ copied' = [user |-> 0, saved |-> 0]
  /\ UNCHANGED <<section, taken, chain, pointer, totalFilled, readWait, freeing, todo, mishaps>>

-----------------------------------------------------------------------------
(* co_debug_fold when descriptor p is closed: nobody writes through it any more, and the
   reader is kept out, so that the fold has the section to itself.  Without memory for
   the smaller buffer it keeps the old one. *)
FoldSection(p) ==
  /\ p \in LogHandle /\ pointer[p] # "none" /\ ~DebugLocked
  /\ \A w \in Writer : logger[w].ptr # p
  /\ \E size \in {section[pointer[p]].filled, section[pointer[p]].size} :
       section' = [section EXCEPT ![pointer[p]] = [@ EXCEPT !.size = size, !.folded = TRUE]]
  /\ pointer' = [pointer EXCEPT ![p] = "none"]
  /\ UNCHANGED <<taken, chain, totalFilled, readWait, freeing, logger, todo, copied, mishaps>>

(* co_debug_free when the driver is unloaded: no descriptor is left and no thread runs.
   Each section gives back its owner's reference and the one just taken. *)
DebugFree ==
  /\ ~freeing /\ \A t \in Logger : At(t) = "idle"
  /\ \A p \in LogHandle \intersect LogPtr : pointer[p] = "none"
  /\ freeing' = TRUE /\ chain' = <<>>
  /\ taken' = {s \in taken : s \notin ToSet(chain) \/ section[s].refcount # 1}
  /\ UNCHANGED <<section, pointer, totalFilled, readWait, logger, todo, copied, mishaps>>

(* A section is created with no reference and listed before its creator takes one: a read
   in between takes the first and last, and frees it.  After that, or after a lost update
   of a reference count, a section in use may be freed: what follows is undefined, and
   behaviours end there; they also end (a bound) after a lost update of the total. *)
DebugNext ==
  /\ mishaps \subseteq {"pointer"}
  /\ \/ \E w \in Writer : \E p \in LogPtr : WriteBegin(w, p)
     \/ \E w \in Writer : CreateSection(w) \/ LinkSection(w) \/ AppendLine(w) \/ TotalStores(w)
     \/ \E t \in Logger : GetLoads(t) \/ GetStores(t) \/ GetLocks(t) \/ PutStores(t)
     \/ ReadBegins \/ ReadVisits \/ ReadCopies \/ ReadSaves \/ ReadEnds
     \/ (\E p \in LogHandle \intersect LogPtr : FoldSection(p))
     \/ DebugFree

DebugSpec == DebugInit /\ [][DebugNext]_debugVars

-----------------------------------------------------------------------------
DebugTypeOK ==
  /\ section \in [Slot -> [filled : 0..MaxSize, size : 0..MaxSize, refcount : Int,
                           folded : BOOLEAN]]
  /\ \A s \in Slot : section[s].filled <= section[s].size
  /\ taken \subseteq Slot /\ chain \in Seq(Slot)
  /\ pointer \in [LogPtr -> Slot \union {"none"}]
  /\ totalFilled \in Int /\ readWait \in BOOLEAN /\ freeing \in BOOLEAN
  /\ \A t \in Logger :
       /\ At(t) \in {"idle", "create", "created", "found", "get", "wait", "locked", "total",
                     "put", "next"}
       /\ logger[t].sec \in Slot \union {"none"}
  /\ todo \in Seq(Slot) /\ copied \in [user : 0..ReadSize, saved : Nat]
  /\ mishaps \subseteq {"refcount", "pointer", "total", "early free"}

(* The threads that have counted themselves in a section. *)
Users(s) == {t \in Logger : logger[t].sec = s /\ At(t) \in {"wait", "locked", "total", "put"}}

(* Unless two updates of it overlapped, a section's count is its users and the reference
   of its owner or of the fold, and but for the early free none is freed under a user; the
   fill level that stops the log is what the sections hold; and no section is forgotten,
   but for the one whose pointer a second first writer overwrote (get_section, put_section
   and the unlocked pointer of co_debug_writev). *)
SectionsExact ==
  /\ mishaps \intersect {"refcount", "early free"} = {} =>
       /\ \A s \in taken : section[s].refcount =
            Cardinality(Users(s)) + (IF BeingMade(s) \/ s \notin ToSet(chain) THEN 0 ELSE 1)
       /\ \A t \in Logger : logger[t].sec # "none" => logger[t].sec \in taken
       /\ ToSet(chain) \subseteq taken
       /\ freeing => taken = {}
  /\ mishaps \subseteq {"pointer"} /\ ~freeing =>
       totalFilled = MapThenSumSet(LAMBDA s : section[s].filled, taken)
         - Cardinality({w \in Writer : At(w) = "total"}) + copied.saved
  /\ mishaps = {} => \A s \in ToSet(chain) :
       section[s].folded \/ BeingMade(s) \/ \E p \in LogPtr : pointer[p] = s
=============================================================================
