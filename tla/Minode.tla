------------------------------- MODULE Minode -------------------------------
(***************************************************************************)
(* The in-core inode table minode[NMINODE] of src/Final/src: iget() looks  *)
(* an inode up or loads it into an unused slot, iput() drops a reference   *)
(* and writes a dirty INODE back when the last user lets go.  Pure         *)
(* operators over a table mt (slot -> MINODE) and the inode blocks on disk *)
(* itab (inode number -> INODE), shared by the modules that model the      *)
(* callers.                                                                *)
(*                                                                         *)
(* One slot is a record with at least the fields                           *)
(*   ino, refCount, dirty, INODE                                           *)
(* of type.h; (dev, ino) is ino alone, the program opens a single device.  *)
(***************************************************************************)
EXTENDS Integers, FiniteSets

CONSTANT NMINODE        \* number of slots (128 in type.h)

ASSUME NMINODEAssumption == NMINODE \in Nat \ {0}

Slots == 1 .. NMINODE
NULL == 0               \* the null MINODE pointer

\* Both loops of iget() take the first slot that fits.
FirstOf(S) == CHOOSE s \in S : \A t \in S : s <= t
LastOf(S) == CHOOSE s \in S : \A t \in S : t <= s

\* "mip->refCount && mip->ino == ino": any non-zero count is a hit.
InCore(mt, ino) == {s \in Slots : mt[s].refCount # 0 /\ mt[s].ino = ino}
Unused(mt) == {s \in Slots : mt[s].refCount = 0}

\* The pointer iget(dev, ino) returns.
IgetSlot(mt, ino) ==
    IF InCore(mt, ino) # {} THEN FirstOf(InCore(mt, ino))
    ELSE IF Unused(mt) # {} THEN FirstOf(Unused(mt))
    ELSE NULL

\* Mutant: the loop for an unused slot comes first.
IgetTable_UnusedFirst(mt, itab, ino) ==
    LET s == IF Unused(mt) # {} THEN FirstOf(Unused(mt)) ELSE IgetSlot(mt, ino)
    IN  IF s = NULL THEN mt
        ELSE IF mt[s].refCount # 0 THEN [mt EXCEPT ![s].refCount = @ + 1]
        ELSE [mt EXCEPT ![s].refCount = 1, ![s].ino = ino,
                        ![s].INODE = itab[ino]]

\* Mutant: a hit is not counted.
IgetTable_Uncounted(mt, itab, ino) ==
    LET s == IgetSlot(mt, ino)
    IN  IF s = NULL \/ InCore(mt, ino) # {} THEN mt
        ELSE [mt EXCEPT ![s].refCount = 1, ![s].ino = ino,
                        ![s].INODE = itab[ino]]

\* The table iget(dev, ino) leaves: a hit is counted; a miss loads the INODE
\* over whatever the slot held, and leaves its dirty flag as it was.
IgetTable(mt, itab, ino) ==
    LET s == IgetSlot(mt, ino)
    IN  IF s = NULL THEN mt
        ELSE IF InCore(mt, ino) # {} THEN [mt EXCEPT ![s].refCount = @ + 1]
        ELSE [mt EXCEPT ![s].refCount = 1, ![s].ino = ino,
                        ![s].INODE = itab[ino]]

\* iput() reaches put_block(): no user is left and the slot is dirty.
WritesBack(mt, s) == mt[s].refCount <= 1 /\ mt[s].dirty

\* Mutant: midalloc() is not called.
IputTable_NoMidalloc(mt, s) == [mt EXCEPT ![s].refCount = @ - 1]

\* Mutant: midalloc() is called for every dirty slot.
IputTable_Early(mt, s) ==
    [mt EXCEPT ![s].refCount = IF mt[s].dirty THEN 0 ELSE @ - 1]

\* Mutant: the count is looked at before it is decremented.
IputDisk_BeforeDec(mt, itab, s) ==
    IF mt[s].refCount <= 0 /\ mt[s].dirty
    THEN [itab EXCEPT ![mt[s].ino] = mt[s].INODE]
    ELSE itab

\* The table and the inode blocks after iput(&minode[s]); midalloc() stores
\* zero only on the path that writes back, and dirty stays set.
IputTable(mt, s) ==
    [mt EXCEPT ![s].refCount = IF WritesBack(mt, s) THEN 0 ELSE @ - 1]

IputDisk(mt, itab, s) ==
    IF WritesBack(mt, s)
    THEN [itab EXCEPT ![mt[s].ino] = mt[s].INODE]
    ELSE itab

\* quit(): one iput() for each slot in use, in table order, then exit(0).  A
\* slot with two users or more is not written back.
Flushed(mt) == {s \in Slots : mt[s].refCount = 1 /\ mt[s].dirty}

QuitDisk(mt, itab) ==
    [i \in DOMAIN itab |->
        LET S == {s \in Flushed(mt) : mt[s].ino = i}
        IN  IF S = {} THEN itab[i] ELSE mt[LastOf(S)].INODE]
=============================================================================
