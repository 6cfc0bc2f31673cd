-------------------------------- MODULE Cofs --------------------------------
(***************************************************************************)
(* A cofs volume: the host's table of inodes, which only gives numbers to  *)
(* the paths that a guest has asked for, and the inodes and directory      *)
(* entries the guest keeps for them.  The guest looks names up, creates,   *)
(* renames and removes, and when it drops an inode it sends FORGET.        *)
(*                                                                         *)
(* Sources: kernel/filesystem.c, os/winnt/kernel/filesystem.c; the guest's *)
(* side is that of patch/cofs-core.diff under the VFS of its kernel.       *)
(* The files themselves are the host's; a call on them that fails changes  *)
(* nothing here.  alloc_inode succeeds: inode_lookup and inode_mknod use   *)
(* its result untested.  READ, WRITE, GETATTR and SETATTR only turn an     *)
(* inode into a path, which is what PathsAgree is about.                   *)
(***************************************************************************)
EXTENDS Integers, Sequences, FiniteSets, SequencesExt

CONSTANTS
  FileName, DirName,   (* the names of files, and of directories            *)
  MaxIno,              (* bound: the numbers given out                      *)
  MaxOpens             (* bound: opens of one directory                     *)

ASSUME CofsAssumption ==
  MaxIno \in Nat \ {0} /\ MaxOpens \in Nat /\ FileName \intersect DirName = {}

VARIABLES
  cofsInode,       (* the host's inodes: name, parent, sub_inodes, and the
                      reference count of the names of an open directory     *)
  nextIno,         (* next_inode_num                                        *)
  dentry,          (* the guest's entries: number of a directory and a name *)
  cached, givingUp, (* the guest's inodes, and those it is about to forget   *)
  dirOpens,        (* the guest's opens of each directory                   *)
  waiting,         (* a lookup that was answered with an inode in givingUp   *)
  cofsMishaps      (* history                                               *)

cofsVars == <<cofsInode, nextIno, dentry, cached, givingUp, dirOpens, waiting, cofsMishaps>>

Root     == 1
Ino      == 1..MaxIno
NoInode  == [known |-> FALSE, name |-> "none", parent |-> 0, subs |-> <<>>, opens |-> 0]
NewInode(d, name) == [NoInode EXCEPT !.known = TRUE, !.name = name, !.parent = d]
NotWaiting == [dir |-> 0, name |-> "none", ino |-> 0]

CofsInit ==
  /\ cofsInode = [n \in Ino |-> IF n = Root THEN NewInode(0, "none") ELSE NoInode]
  /\ nextIno = 2
  /\ dentry = [e \in Ino \X (FileName \union DirName) |-> 0]
  /\ cached = {Root} /\ givingUp = {} /\ dirOpens = [n \in Ino |-> 0]
  /\ waiting = NotWaiting /\ cofsMishaps = {}

-----------------------------------------------------------------------------
(* The host's table *)

(* The first entry of that name: older ones of the same name are hidden by it. *)
find_inode(d, name) ==
  LET found == SelectSeq(cofsInode[d].subs, LAMBDA n : cofsInode[n].name = name)
  IN IF found = <<>> THEN 0 ELSE Head(found)

(* A directory the host can search: one it knows, where no inode lost its name, for
   find_inode compares with what is there. *)
Searchable(d) == cofsInode[d].known /\ \A n \in ToSet(cofsInode[d].subs) : cofsInode[n].name # "none"

(* inode_lookup and inode_mknod after the host's file was found or made: the number of the
   path, a new one if it has none. *)
NumberOf(d, name) == IF find_inode(d, name) # 0 THEN find_inode(d, name) ELSE nextIno

Numbered(d, name) ==
  IF find_inode(d, name) # 0 THEN UNCHANGED <<cofsInode, nextIno>>
  ELSE /\ nextIno \in Ino
       /\ cofsInode' = [cofsInode EXCEPT ![nextIno] = NewInode(d, name),
                                         ![d].subs = Append(@, nextIno)]
       /\ nextIno' = nextIno + 1

(* The entry that moves comes first in its new directory. *)
reparent_inode_Last(subs, n) == Append(subs, n)
reparent_inode(subs, n) == <<n>> \o subs

(* The inodes of the tree below n, itself included, which a FORGET frees however deep. *)
Tree(n) ==
  LET level[k \in 0..MaxIno] ==
        IF k = 0 THEN {n}
        ELSE LET above == level[k - 1]
             IN above \union {m \in Ino : cofsInode[m].known /\ cofsInode[m].parent \in above}
  IN level[MaxIno]

free_inode_with_children(n) ==
  LET freed == Tree(n) IN
  [m \in Ino |->
     IF m \in freed THEN NoInode
     ELSE [cofsInode[m] EXCEPT !.subs = SelectSeq(@, LAMBDA k : k # n)]]

-----------------------------------------------------------------------------
(* The guest *)

EntriesOf(n)    == {e \in DOMAIN dentry : dentry[e] = n}
Leaf(n)     == \A e \in DOMAIN dentry : e[1] = n => dentry[e] = 0
IsDir(n)    == n = Root \/ \E e \in EntriesOf(n) : e[2] \in DirName
(* A directory whose entries the guest can walk to; the one of a waiting lookup is locked. *)
Walks(d)    == IsDir(d) /\ waiting.dir # d

(* LOOKUP, MKNOD, or MKDIR and the LOOKUP after it.  fuse_iget waits for an inode of that
   number that is being freed. *)
Names(d, name) ==
  /\ Walks(d) /\ dentry[d, name] = 0 /\ Searchable(d)
  /\ Numbered(d, name)
  /\ LET n == NumberOf(d, name) IN
     IF n \in givingUp
     THEN /\ waiting = NotWaiting                                   \* bound
          /\ waiting' = [dir |-> d, name |-> name, ino |-> n]
          /\ UNCHANGED <<dentry, cached>>
     ELSE /\ dentry' = [dentry EXCEPT ![<<d, name>>] = n] /\ cached' = cached \union {n}
          /\ UNCHANGED waiting
  /\ UNCHANGED <<givingUp, dirOpens, cofsMishaps>>

(* The entry goes: UNLINK or RMDIR, for which the host keeps its inode, a failed
   revalidation, or memory that is reclaimed. *)
DropEntry(d, name) ==
  /\ dentry[d, name] # 0 /\ Leaf(dentry[d, name]) /\ waiting.dir # dentry[d, name]
  /\ dentry' = [dentry EXCEPT ![<<d, name>>] = 0]
  /\ UNCHANGED <<cofsInode, nextIno, cached, givingUp, dirOpens, waiting, cofsMishaps>>

(* RENAME: inode_rename after the host has renamed the file, over another one perhaps.
   Without memory for the new name the inode has moved and has none, and the guest is told
   that nothing happened. *)
Above(d) ==   \* the directories on the guest's way to d
  LET way[k \in 0..MaxIno] ==
        IF k = 0 THEN {d}
        ELSE LET below == way[k - 1]
             IN below \union {e[1] : e \in {x \in DOMAIN dentry : dentry[x] \in below}}
  IN way[MaxIno]

Rename(d, old, e, new) ==
  /\ dentry[d, old] # 0 /\ (old \in DirName <=> new \in DirName)
  /\ Walks(d) /\ Walks(e) /\ Searchable(d) /\ cofsInode[e].known
  /\ old \in DirName => dentry[d, old] \notin Above(e)
  /\ <<d, old>> # <<e, new>>
  /\ dentry[e, new] # 0 => Leaf(dentry[e, new]) /\ waiting.dir # dentry[e, new]
  /\ LET n    == find_inode(d, old)
         left == [cofsInode EXCEPT ![d].subs = SelectSeq(@, LAMBDA k : k # n)]
         Moved(name) == [left EXCEPT ![e].subs = reparent_inode(@, n),
                                     ![n].parent = e, ![n].name = name]
     IN \/ /\ cofsInode' = IF n = 0 THEN cofsInode ELSE Moved(new)
           /\ dentry' = [dentry EXCEPT ![<<e, new>>] = dentry[d, old], ![<<d, old>>] = 0]
           /\ UNCHANGED cofsMishaps
        \/ /\ n # 0 /\ cofsInode' = Moved("none")
           /\ cofsMishaps' = cofsMishaps \union {"nameless"}
           /\ UNCHANGED dentry
  /\ UNCHANGED <<nextIno, cached, givingUp, dirOpens, waiting>>

(* DIR_OPEN and DIR_RELEASE: the list of names is read by the first open and dropped by the
   last release. *)
DirOpen(d) ==
  /\ Walks(d) /\ dirOpens[d] < MaxOpens /\ cofsInode[d].known
  /\ dirOpens' = [dirOpens EXCEPT ![d] = @ + 1]
  /\ cofsInode' = [cofsInode EXCEPT ![d].opens = @ + 1]
  /\ UNCHANGED <<nextIno, dentry, cached, givingUp, waiting, cofsMishaps>>

DirRelease(d) ==
  /\ dirOpens[d] > 0
  /\ dirOpens' = [dirOpens EXCEPT ![d] = @ - 1]
  /\ cofsInode' = IF cofsInode[d].opens = 0 THEN cofsInode
                  ELSE [cofsInode EXCEPT ![d].opens = @ - 1]
  /\ UNCHANGED <<nextIno, dentry, cached, givingUp, waiting, cofsMishaps>>

(* An inode nobody uses is given up, which takes a while; then clear_inode sends FORGET.
   A lookup that waited for this gets a new inode of a number the host no longer knows. *)
GiveUp(n) ==
  /\ n \in cached \ {Root} /\ EntriesOf(n) = {} /\ dirOpens[n] = 0
  /\ cached' = cached \ {n} /\ givingUp' = givingUp \union {n}
  /\ UNCHANGED <<cofsInode, nextIno, dentry, dirOpens, waiting, cofsMishaps>>

Forget(n) ==
  /\ n \in givingUp /\ cofsInode[n].parent \notin Tree(n)
  /\ givingUp' = givingUp \ {n}
  /\ cofsInode' = IF cofsInode[n].known THEN free_inode_with_children(n) ELSE cofsInode
  /\ IF waiting.ino = n
     THEN /\ dentry' = [dentry EXCEPT ![<<waiting.dir, waiting.name>>] = n]
          /\ cached' = cached \union {n} /\ waiting' = NotWaiting
          /\ cofsMishaps' = cofsMishaps \union {"forgotten"}
     ELSE UNCHANGED <<dentry, cached, waiting, cofsMishaps>>
  /\ UNCHANGED <<nextIno, dirOpens>>

(* RESET frees the volume and makes it anew for the next guest. *)
CofsReset ==
  /\ cofsInode' = [n \in Ino |-> IF n = Root THEN NewInode(0, "none") ELSE NoInode]
  /\ nextIno' = 2 /\ dentry' = [e \in DOMAIN dentry |-> 0]
  /\ cached' = {Root} /\ givingUp' = {} /\ dirOpens' = [n \in Ino |-> 0]
  /\ waiting' = NotWaiting /\ cofsMishaps' = {}

CofsNext ==
  \/ \E d \in Ino, name \in FileName \union DirName :
       \/ Names(d, name) \/ DropEntry(d, name)
       \/ \E e \in Ino, new \in FileName \union DirName : Rename(d, name, e, new)
  \/ \E n \in Ino : DirOpen(n) \/ DirRelease(n) \/ GiveUp(n) \/ Forget(n)
  \/ CofsReset

-----------------------------------------------------------------------------
CofsTypeOK ==
  /\ \A n \in Ino : /\ cofsInode[n].name \in FileName \union DirName \union {"none"}
                    /\ cofsInode[n].parent \in Ino \union {0}
                    /\ cofsInode[n].subs \in Seq(Ino) /\ cofsInode[n].opens \in 0..MaxOpens
  /\ nextIno \in 2..(MaxIno + 1)
  /\ dentry \in [Ino \X (FileName \union DirName) -> Ino \union {0}]
  /\ cached \subseteq Ino /\ givingUp \subseteq Ino /\ dirOpens \in [Ino -> 0..MaxOpens]
  /\ waiting.ino \in Ino \union {0} /\ cofsMishaps \subseteq {"nameless", "forgotten"}

(* The host's inodes stay one tree below the root through any renames and FORGETs, unless a
   rename ran out of memory: the guest does not know of that one, and its next may put a
   directory below itself.  (A FORGET within such a loop goes through what it frees; it is
   not followed.)  As long
   as no FORGET overtook a lookup of the same inode and no rename ran out of memory, every
   name the guest has an inode for leads the host to that inode and its path, also after
   a rename over a file that is still in use; the host keeps no inode the guest would
   never forget; and a directory's list of names lives as long as it is open. *)
PathsAgree ==
  /\ "nameless" \notin cofsMishaps => {n \in Ino : cofsInode[n].known} \subseteq Tree(Root)
  /\ \A n \in Ino \ {Root} : cofsInode[n].known =>
       /\ Cardinality({x \in Ino \X (1..MaxIno) :
            x[2] <= Len(cofsInode[x[1]].subs) /\ cofsInode[x[1]].subs[x[2]] = n}) = 1
       /\ n \in ToSet(cofsInode[cofsInode[n].parent].subs)
  /\ cofsMishaps = {} =>
       /\ \A e \in DOMAIN dentry : dentry[e] # 0 =>
            /\ cofsInode[dentry[e]].known
            /\ find_inode(e[1], e[2]) = dentry[e]
            /\ cofsInode[dentry[e]].parent = e[1] /\ cofsInode[dentry[e]].name = e[2]
       /\ \A n \in Ino : cofsInode[n].known => n \in cached \union givingUp
       /\ \A n \in Ino : cofsInode[n].known => cofsInode[n].opens = dirOpens[n]
=============================================================================
