-------------------------- MODULE MinodeCacheProofs -------------------------
(***************************************************************************)
(* Theorems about MinodeCache for every number of slots, every set of      *)
(* inodes and every bound on the references.                               *)
(***************************************************************************)
EXTENDS MinodeCache, FiniteSetTheorems, TLAPS

-----------------------------------------------------------------------------
(* The first-fit loops of iget().                                          *)

\* A non-empty set of slots has a first one: StrictSubsetOrdering on the
\* initial segments is well founded.
LEMMA FirstExists ==
    ASSUME NEW N \in Nat, NEW S, S \subseteq 1 .. N, S # {}
    PROVE  FirstOf(S) \in S
<1> DEFINE R == StrictSubsetOrdering(1 .. N)
           Initials == {1 .. x : x \in S}
<1>1. IsFiniteSet(1 .. N)
  BY FS_Interval
<1>2. IsWellFoundedOn(R, SUBSET (1 .. N))
  <2>1. FiniteSubsetsOf(1 .. N) = SUBSET (1 .. N)
    BY <1>1, FS_FiniteSubsetsOfFinite
  <2>2. IsWellFoundedOn(R, FiniteSubsetsOf(1 .. N))
    BY FS_StrictSubsetOrderingWellFounded
  <2> QED BY <2>1, <2>2
<1>3. Initials # {} /\ Initials \subseteq SUBSET (1 .. N)
  <2>1. \A x \in S : 1 .. x \subseteq 1 .. N
    OBVIOUS
  <2>2. Initials \subseteq SUBSET (1 .. N)
    BY <2>1
  <2>3. PICK x \in S : TRUE
    OBVIOUS
  <2>4. 1 .. x \in Initials
    OBVIOUS
  <2> QED BY <2>2, <2>4
<1>4. PICK t \in Initials : \A u \in Initials : ~ (<<u, t>> \in R)
  <2> HIDE DEF R, Initials
  <2> QED BY <1>2, <1>3, WFMin
<1>5. PICK x \in S : t = 1 .. x
  OBVIOUS
<1>6. ASSUME NEW y \in S PROVE x <= y
  <2>1. 1 .. y \in Initials
    OBVIOUS
  <2>2. ~ (<<1 .. y, 1 .. x>> \in R)
    BY <1>4, <1>5, <2>1
  <2>3. ~ (1 .. y \subseteq 1 .. x /\ 1 .. y # 1 .. x)
    BY <2>2 DEF StrictSubsetOrdering
  <2> QED BY <2>3
<1>7. \E z \in S : \A y \in S : z <= y
  BY <1>6
<1> QED BY <1>7 DEF FirstOf

\* What iget() returns: the copy in core, or else an unused slot, or else NULL.
LEMMA IgetSlotCases ==
    ASSUME NEW mt, NEW ino
    PROVE  LET s == IgetSlot(mt, ino)
           IN  \/ s \in InCore(mt, ino)
               \/ InCore(mt, ino) = {} /\ s \in Unused(mt)
               \/ InCore(mt, ino) = {} /\ Unused(mt) = {} /\ s = NULL
<1>1. InCore(mt, ino) \subseteq 1 .. NMINODE /\ Unused(mt) \subseteq 1 .. NMINODE
  BY DEF InCore, Unused, Slots
<1>2. NMINODE \in Nat
  BY NMINODEAssumption
<1>3. InCore(mt, ino) # {} => FirstOf(InCore(mt, ino)) \in InCore(mt, ino)
  BY <1>1, <1>2, FirstExists
<1>4. Unused(mt) # {} => FirstOf(Unused(mt)) \in Unused(mt)
  BY <1>1, <1>2, FirstExists
<1> QED BY <1>3, <1>4 DEF IgetSlot

\* The first of a set with one member is that member.
LEMMA SingleFirstLast ==
    ASSUME NEW S, NEW x \in S, x \in Int, \A y \in S : y = x
    PROVE  FirstOf(S) = x /\ LastOf(S) = x
<1>1. x <= x
  OBVIOUS
<1>2. \E s \in S : \A t \in S : s <= t
  BY <1>1
<1>3. \E s \in S : \A t \in S : t <= s
  BY <1>1
<1>4. FirstOf(S) \in S
  BY <1>2 DEF FirstOf
<1>5. LastOf(S) \in S
  BY <1>3 DEF LastOf
<1> QED BY <1>4, <1>5

-----------------------------------------------------------------------------
(* What iget() and iput() do to a table, field by field.                   *)

\* iget() touches at most the slot it returns, which then names the inode;
\* a hit adds a reference, a miss loads the INODE from disk.
LEMMA IgetEffect ==
    ASSUME NEW mt \in [Slots -> Minodes], NEW itab \in [Inos -> INODEs],
           NEW i \in Inos
    PROVE  LET s == IgetSlot(mt, i)
               t == IgetTable(mt, itab, i)
           IN  /\ t \in [Slots -> Minodes]
               /\ s = NULL => t = mt
               /\ \A r \in Slots : r # s => t[r] = mt[r]
               /\ s # NULL =>
                    /\ s \in Slots
                    /\ t[s].ino = i
                    /\ t[s].dirty = mt[s].dirty
                    /\ \/ /\ s \in InCore(mt, i)
                          /\ t[s].refCount = mt[s].refCount + 1
                          /\ t[s].INODE = mt[s].INODE
                       \/ /\ InCore(mt, i) = {}
                          /\ mt[s].refCount = 0
                          /\ t[s].refCount = 1
                          /\ t[s].INODE = itab[i]
<1> DEFINE s == IgetSlot(mt, i)
           t == IgetTable(mt, itab, i)
<1>1. CASE s \in InCore(mt, i)
  <2>1. s \in Slots /\ s # NULL /\ mt[s].ino = i
    BY <1>1 DEF InCore, Slots, NULL
  <2>2. t = [mt EXCEPT ![s].refCount = @ + 1]
    BY <1>1, <2>1 DEF IgetTable
  <2>3. t \in [Slots -> Minodes]
    <3>1. mt[s] \in Minodes /\ mt[s].refCount + 1 \in Nat
      BY <2>1 DEF Minodes
    <3>2. [mt[s] EXCEPT !.refCount = @ + 1] \in Minodes
      BY <3>1 DEF Minodes
    <3> QED BY <2>1, <2>2, <3>2
  <2> QED BY <1>1, <2>1, <2>2, <2>3 DEF Minodes
<1>2. CASE InCore(mt, i) = {} /\ s \in Unused(mt)
  <2>1. s \in Slots /\ s # NULL /\ mt[s].refCount = 0
    BY <1>2 DEF Unused, Slots, NULL
  <2>2. t = [mt EXCEPT ![s].refCount = 1, ![s].ino = i, ![s].INODE = itab[i]]
    BY <1>2, <2>1 DEF IgetTable
  <2>3. t \in [Slots -> Minodes]
    <3>1. mt[s] \in Minodes /\ itab[i] \in INODEs
      BY <2>1
    <3>2. [mt[s] EXCEPT !.refCount = 1, !.ino = i, !.INODE = itab[i]] \in Minodes
      BY <3>1 DEF Minodes
    <3> QED BY <2>1, <2>2, <3>2
  <2> QED BY <1>2, <2>1, <2>2, <2>3 DEF Minodes
<1>3. CASE InCore(mt, i) = {} /\ s = NULL
  BY <1>3 DEF IgetTable
<1> QED BY <1>1, <1>2, <1>3, IgetSlotCases

\* iput() of a slot in use touches that slot's count alone, and the disk only
\* for the last user of a dirty slot.
LEMMA IputEffect ==
    ASSUME NEW mt \in [Slots -> Minodes], NEW itab \in [Inos -> INODEs],
           NEW s \in Slots, mt[s].refCount > 0, mt[s].ino \in Inos
    PROVE  LET t == IputTable(mt, s)
               d == IputDisk(mt, itab, s)
           IN  /\ t \in [Slots -> Minodes]
               /\ d \in [Inos -> INODEs]
               /\ \A r \in Slots : r # s => t[r] = mt[r]
               /\ t[s].ino = mt[s].ino
               /\ t[s].dirty = mt[s].dirty
               /\ t[s].INODE = mt[s].INODE
               /\ t[s].refCount = mt[s].refCount - 1
               /\ \A i \in Inos :
                    d[i] = IF mt[s].refCount = 1 /\ mt[s].dirty /\ i = mt[s].ino
                           THEN mt[s].INODE ELSE itab[i]
<1> DEFINE t == IputTable(mt, s)
           d == IputDisk(mt, itab, s)
<1>1. mt[s].refCount \in Nat /\ mt[s].INODE \in INODEs /\ mt[s].dirty \in BOOLEAN
  BY DEF Minodes
<1>2. WritesBack(mt, s) <=> mt[s].refCount = 1 /\ mt[s].dirty
  BY <1>1 DEF WritesBack
<1>3. t = [mt EXCEPT ![s].refCount = @ - 1]
  <2>1. (IF WritesBack(mt, s) THEN 0 ELSE mt[s].refCount - 1)
           = mt[s].refCount - 1
    BY <1>1, <1>2
  <2> QED BY <2>1 DEF IputTable
<1>4. t \in [Slots -> Minodes]
  BY <1>1, <1>3 DEF Minodes
<1>5. d \in [Inos -> INODEs]
  BY <1>1 DEF IputDisk
<1>6. \A i \in Inos :
          d[i] = IF mt[s].refCount = 1 /\ mt[s].dirty /\ i = mt[s].ino
                 THEN mt[s].INODE ELSE itab[i]
  BY <1>2 DEF IputDisk
<1>7. /\ \A r \in Slots : r # s => t[r] = mt[r]
      /\ t[s].ino = mt[s].ino
      /\ t[s].dirty = mt[s].dirty
      /\ t[s].INODE = mt[s].INODE
      /\ t[s].refCount = mt[s].refCount - 1
  BY <1>1, <1>3 DEF Minodes
<1> QED BY <1>4, <1>5, <1>6, <1>7

-----------------------------------------------------------------------------
(* The inductive invariant.                                                *)

\* Between exit(0) and the next run no slot is in use.
DownIsEmpty == ~ up => \A s \in Slots : minode[s].refCount = 0

IInv == /\ TypeOK
        /\ UniqueInCore
        /\ RefCountIsUsers
        /\ CleanInSync
        /\ DownIsEmpty

\* What main() leaves after mount_root() and the two iget() of the root.
LEMMA BootedTable ==
    ASSUME NEW itab \in [Inos -> INODEs]
    PROVE  LET t == Booted(itab)
           IN  /\ t \in [Slots -> Minodes]
               /\ 1 \in Slots /\ FirstOf(Slots) = 1
               /\ t[1].ino = ROOT
               /\ t[1].refCount = 2
               /\ t[1].INODE = itab[ROOT]
               /\ \A s \in Slots : s # 1 => t[s].refCount = 0
<1> DEFINE one == IgetTable(Blank, itab, ROOT)
<1>1. 1 \in Slots /\ FirstOf(Slots) = 1
  BY NMINODEAssumption DEF Slots, FirstOf
<1>2. InCore(Blank, ROOT) = {} /\ Unused(Blank) = Slots
  BY DEF InCore, Unused, Blank
<1>3. Blank \in [Slots -> Minodes]
  BY INODEAssumption DEF Blank, Minodes
<1>4. IgetSlot(Blank, ROOT) = 1
  BY <1>1, <1>2 DEF IgetSlot
<1>5. /\ one \in [Slots -> Minodes]
      /\ \A s \in Slots : s # 1 => one[s] = Blank[s]
      /\ one[1].ino = ROOT
      /\ one[1].refCount = 1
      /\ one[1].INODE = itab[ROOT]
  BY <1>2, <1>3, <1>4, IgetEffect, InosAssumption DEF NULL
<1> HIDE DEF one
<1>6. \A s \in Slots : s # 1 => one[s].refCount = 0
  BY <1>5 DEF Blank
<1>7. InCore(one, ROOT) = {1}
  BY <1>1, <1>5, <1>6 DEF InCore
<1>8. IgetSlot(one, ROOT) = 1
  BY <1>7, SingleFirstLast DEF IgetSlot
<1> DEFINE t == IgetTable(one, itab, ROOT)
<1>9. /\ t \in [Slots -> Minodes]
      /\ \A s \in Slots : s # 1 => t[s] = one[s]
      /\ t[1].ino = ROOT
      /\ t[1].refCount = 2
      /\ t[1].INODE = itab[ROOT]
  <2>1. ROOT \in Inos
    BY InosAssumption
  <2>2. one[1].refCount + 1 = 2
    BY <1>5
  <2> QED BY <2>1, <2>2, <1>5, <1>7, <1>8, IgetEffect DEF NULL
<1>10. t = Booted(itab)
  BY DEF one, Booted
<1> HIDE DEF t
<1> QED BY <1>1, <1>6, <1>9, <1>10

\* A freshly booted program satisfies the invariant.
LEMMA BootedInv ==
    ASSUME itable \in [Inos -> INODEs], minode = Booted(itable),
           users = BootUsers, up = TRUE
    PROVE  IInv
<1>1. /\ minode \in [Slots -> Minodes]
      /\ 1 \in Slots /\ FirstOf(Slots) = 1
      /\ minode[1].ino = ROOT
      /\ minode[1].refCount = 2
      /\ minode[1].INODE = itable[ROOT]
      /\ \A s \in Slots : s # 1 => minode[s].refCount = 0
  BY BootedTable
<1>2. users = [s \in Slots |-> IF s = 1 THEN 2 ELSE 0]
  BY <1>1 DEF BootUsers
<1>3. TypeOK
  BY <1>1, <1>2, InosAssumption DEF TypeOK
<1>4. UniqueInCore
  BY <1>1 DEF UniqueInCore, InCore
<1>5. RefCountIsUsers
  BY <1>1, <1>2 DEF RefCountIsUsers
<1>6. CleanInSync
  BY <1>1 DEF CleanInSync
<1> QED BY <1>3, <1>4, <1>5, <1>6 DEF IInv, DownIsEmpty

LEMMA InitInv == Init => IInv
BY BootedInv DEF Init

-----------------------------------------------------------------------------
(* Every step preserves the invariant.                                     *)

LEMMA IgetInv ==
    ASSUME IInv, NEW i \in Inos, Iget(i)
    PROVE  IInv'
<1> DEFINE s == IgetSlot(minode, i)
<1>1. /\ minode \in [Slots -> Minodes]
      /\ itable \in [Inos -> INODEs]
      /\ users \in [Slots -> Nat]
      /\ up
      /\ minode' = IgetTable(minode, itable, i)
      /\ users' = IF s = NULL THEN users ELSE [users EXCEPT ![s] = @ + 1]
      /\ itable' = itable /\ up' = up
  BY DEF IInv, TypeOK, Iget
<1>2. CASE s = NULL
  <2>1. minode' = minode /\ users' = users
    BY <1>1, <1>2, IgetEffect
  <2> QED BY <1>1, <2>1 DEF IInv, TypeOK, UniqueInCore, InCore,
                              RefCountIsUsers, CleanInSync, DownIsEmpty
<1>3. CASE s # NULL
  <2>1. /\ minode' \in [Slots -> Minodes]
        /\ \A r \in Slots : r # s => minode'[r] = minode[r]
        /\ s \in Slots
        /\ minode'[s].ino = i
        /\ minode'[s].dirty = minode[s].dirty
        /\ \/ /\ s \in InCore(minode, i)
              /\ minode'[s].refCount = minode[s].refCount + 1
              /\ minode'[s].INODE = minode[s].INODE
           \/ /\ InCore(minode, i) = {}
              /\ minode[s].refCount = 0
              /\ minode'[s].refCount = 1
              /\ minode'[s].INODE = itable[i]
    BY <1>1, <1>3, IgetEffect
  <2>2. users' = [users EXCEPT ![s] = @ + 1]
    BY <1>1, <1>3
  <2> HIDE DEF s
  <2>3. TypeOK'
    BY <1>1, <2>1, <2>2 DEF IInv, TypeOK
  <2>4. UniqueInCore'
    BY <2>1 DEF IInv, UniqueInCore, InCore
  <2>5. RefCountIsUsers'
    <3>1. minode'[s].refCount = minode[s].refCount + 1
      BY <2>1
    <3> QED BY <1>1, <2>1, <2>2, <3>1 DEF IInv, RefCountIsUsers
  <2>6. CleanInSync'
    BY <1>1, <2>1 DEF IInv, CleanInSync, InCore
  <2> QED BY <1>1, <2>3, <2>4, <2>5, <2>6 DEF IInv, DownIsEmpty
<1> QED BY <1>2, <1>3

LEMMA IputInv ==
    ASSUME IInv, NEW s \in Slots, Iput(s)
    PROVE  IInv'
<1>1. /\ minode \in [Slots -> Minodes]
      /\ itable \in [Inos -> INODEs]
      /\ users \in [Slots -> Nat]
      /\ users[s] > 0
      /\ up /\ up' = up
      /\ minode' = IputTable(minode, s)
      /\ itable' = IputDisk(minode, itable, s)
      /\ users' = [users EXCEPT ![s] = @ - 1]
  BY DEF IInv, TypeOK, Iput
<1>2. minode[s].refCount = users[s] /\ minode[s].refCount > 0
      /\ minode[s].ino \in Inos
  BY <1>1 DEF IInv, RefCountIsUsers, TypeOK
<1>3. /\ minode' \in [Slots -> Minodes]
      /\ itable' \in [Inos -> INODEs]
      /\ \A r \in Slots : r # s => minode'[r] = minode[r]
      /\ minode'[s].ino = minode[s].ino
      /\ minode'[s].dirty = minode[s].dirty
      /\ minode'[s].INODE = minode[s].INODE
      /\ minode'[s].refCount = minode[s].refCount - 1
      /\ \A i \in Inos :
           itable'[i] = IF minode[s].refCount = 1 /\ minode[s].dirty
                           /\ i = minode[s].ino
                        THEN minode[s].INODE ELSE itable[i]
  BY <1>1, <1>2, IputEffect
<1>4. TypeOK'
  <2>1. users' \in [Slots -> Nat]
    BY <1>1
  <2>2. \A r \in Slots : minode'[r].refCount # 0 => minode'[r].ino \in Inos
    BY <1>2, <1>3 DEF IInv, TypeOK
  <2> QED BY <1>1, <1>3, <2>1, <2>2 DEF TypeOK
<1>5. UniqueInCore'
  BY <1>2, <1>3 DEF IInv, UniqueInCore, InCore
<1>6. RefCountIsUsers'
  BY <1>1, <1>2, <1>3 DEF IInv, RefCountIsUsers
<1>7. CleanInSync'
  <2> SUFFICES ASSUME NEW r \in Slots, minode'[r].refCount # 0,
                      ~ minode'[r].dirty
               PROVE  minode'[r].INODE = itable'[minode'[r].ino]
    BY DEF CleanInSync
  <2>1. CASE r = s
    BY <1>2, <1>3, <2>1 DEF IInv, CleanInSync
  <2>2. CASE r # s
    <3>1. minode'[r] = minode[r] /\ minode[r].ino \in Inos
      BY <1>3, <2>2 DEF IInv, TypeOK
    <3>2. minode[r].ino # minode[s].ino
      BY <1>2, <2>2, <3>1 DEF IInv, UniqueInCore, InCore
    <3> QED BY <1>3, <3>1, <3>2 DEF IInv, CleanInSync
  <2> QED BY <2>1, <2>2
<1> QED BY <1>1, <1>4, <1>5, <1>6, <1>7 DEF IInv, DownIsEmpty

LEMMA ModifyInv ==
    ASSUME IInv, NEW s \in Slots, NEW v \in INODEs, Modify(s, v)
    PROVE  IInv'
<1>1. /\ minode \in [Slots -> Minodes]
      /\ minode' = [minode EXCEPT ![s].INODE = v, ![s].dirty = TRUE]
      /\ itable' = itable /\ users' = users /\ up /\ up' = up
  BY DEF IInv, TypeOK, Modify
<1>2. /\ minode' \in [Slots -> Minodes]
      /\ \A r \in Slots : minode'[r].ino = minode[r].ino
                          /\ minode'[r].refCount = minode[r].refCount
      /\ \A r \in Slots : r # s => minode'[r] = minode[r]
      /\ minode'[s].dirty
  <2>1. [minode[s] EXCEPT !.INODE = v, !.dirty = TRUE] \in Minodes
    BY <1>1 DEF Minodes
  <2>2. minode' \in [Slots -> Minodes]
    BY <1>1, <2>1
  <2> QED BY <1>1, <2>2 DEF Minodes
<1>3. TypeOK'
  BY <1>1, <1>2 DEF IInv, TypeOK
<1>4. UniqueInCore'
  BY <1>2 DEF IInv, UniqueInCore, InCore
<1>5. RefCountIsUsers'
  BY <1>1, <1>2 DEF IInv, RefCountIsUsers
<1>6. CleanInSync'
  BY <1>1, <1>2 DEF IInv, CleanInSync
<1> QED BY <1>1, <1>3, <1>4, <1>5, <1>6 DEF IInv, DownIsEmpty

\* kcreat() leaves its new inode on disk and out of core.
LEMMA NewInodeEffect ==
    ASSUME IInv, NEW i \in Inos, NEW v \in INODEs, NewInode(i, v)
    PROVE  LET s == IgetSlot(minode, i)
           IN  /\ minode' \in [Slots -> Minodes]
               /\ s \in Slots
               /\ \A r \in Slots : r # s => minode'[r] = minode[r]
               /\ minode[s].refCount = 0
               /\ minode'[s].refCount = 0
               /\ itable' = [itable EXCEPT ![i] = v]
<1> DEFINE s == IgetSlot(minode, i)
           t == IgetTable(minode, itable, i)
           filled == [t EXCEPT ![s].INODE = v, ![s].refCount = 0,
                               ![s].dirty = TRUE]
<1>1. /\ minode \in [Slots -> Minodes]
      /\ itable \in [Inos -> INODEs]
      /\ InCore(minode, i) = {}
      /\ s # NULL
      /\ minode' = IputTable(filled, s)
      /\ itable' = IputDisk(filled, itable, s)
  BY DEF IInv, TypeOK, NewInode
<1>2. /\ t \in [Slots -> Minodes]
      /\ s \in Slots
      /\ \A r \in Slots : r # s => t[r] = minode[r]
      /\ minode[s].refCount = 0
      /\ t[s].ino = i
  BY <1>1, IgetEffect
<1> HIDE DEF s, t
<1>3. /\ filled \in [Slots -> Minodes]
      /\ \A r \in Slots : r # s => filled[r] = minode[r]
      /\ filled[s].ino = i
      /\ filled[s].refCount = 0
      /\ filled[s].dirty
      /\ filled[s].INODE = v
  <2>1. [t[s] EXCEPT !.INODE = v, !.refCount = 0, !.dirty = TRUE] \in Minodes
    BY <1>2 DEF Minodes
  <2>2. filled \in [Slots -> Minodes]
    BY <1>2, <2>1
  <2> QED BY <1>2, <2>2 DEF Minodes
<1> HIDE DEF filled
<1>4. WritesBack(filled, s)
  BY <1>3 DEF WritesBack
<1>5. minode' = [filled EXCEPT ![s].refCount = 0]
  BY <1>1, <1>4 DEF IputTable
<1>6. itable' = [itable EXCEPT ![i] = v]
  BY <1>1, <1>3, <1>4 DEF IputDisk
<1>7. /\ minode' \in [Slots -> Minodes]
      /\ \A r \in Slots : r # s => minode'[r] = minode[r]
      /\ minode'[s].refCount = 0
  BY <1>2, <1>3, <1>5 DEF Minodes
<1> QED BY <1>2, <1>6, <1>7 DEF s

LEMMA NewInodeInv ==
    ASSUME IInv, NEW i \in Inos, NEW v \in INODEs, NewInode(i, v)
    PROVE  IInv'
<1> DEFINE s == IgetSlot(minode, i)
<1>1. /\ minode' \in [Slots -> Minodes]
      /\ s \in Slots
      /\ \A r \in Slots : r # s => minode'[r] = minode[r]
      /\ minode[s].refCount = 0
      /\ minode'[s].refCount = 0
      /\ itable' = [itable EXCEPT ![i] = v]
  BY NewInodeEffect
<1>2. InCore(minode, i) = {} /\ users' = users /\ up /\ up' = up
  BY DEF NewInode
<1> HIDE DEF s
<1>3. TypeOK'
  BY <1>1, <1>2 DEF IInv, TypeOK
<1>4. UniqueInCore'
  BY <1>1 DEF IInv, UniqueInCore, InCore
<1>5. RefCountIsUsers'
  BY <1>1, <1>2 DEF IInv, RefCountIsUsers
<1>6. CleanInSync'
  BY <1>1, <1>2 DEF IInv, CleanInSync, TypeOK, InCore
<1> QED BY <1>2, <1>3, <1>4, <1>5, <1>6 DEF IInv, DownIsEmpty

\* When the program is left no slot is in use.
LEMMA LeaveInv ==
    ASSUME minode' = Blank, users' = [s \in Slots |-> 0], up' = FALSE,
           itable' \in [Inos -> INODEs]
    PROVE  IInv'
<1>1. \A s \in Slots : minode'[s].refCount = 0
  BY DEF Blank
<1>2. minode' \in [Slots -> Minodes]
  BY INODEAssumption DEF Blank, Minodes
<1> QED BY <1>1, <1>2 DEF IInv, TypeOK, UniqueInCore, InCore,
                           RefCountIsUsers, CleanInSync, DownIsEmpty

-----------------------------------------------------------------------------
(* The value and the count of an inode, as its users see them.             *)

Coherent(mt) == \A i \in Inos : \A s, t \in InCore(mt, i) : s = t

\* If an inode is in core at most once, its copy is the one InodeStore sees.
LEMMA CoreIsCopy ==
    ASSUME NEW mt, NEW itab, Coherent(mt), NEW i \in Inos,
           NEW s \in InCore(mt, i)
    PROVE  /\ CoreCount(mt, i) = mt[s].refCount
           /\ CoreValue(mt, itab, i) = mt[s].INODE
<1>1. s \in Int /\ \A t \in InCore(mt, i) : t = s
  BY DEF Coherent, InCore, Slots
<1>2. FirstOf(InCore(mt, i)) = s
  BY <1>1, SingleFirstLast
<1> QED BY <1>2 DEF CoreCount, CoreValue

\* An inode no slot holds is counted zero and has its value on disk.
LEMMA CoreIsDisk ==
    ASSUME NEW mt, NEW itab, NEW i, InCore(mt, i) = {}
    PROVE  CoreCount(mt, i) = 0 /\ CoreValue(mt, itab, i) = itab[i]
BY DEF CoreCount, CoreValue

\* quit() makes durable exactly the inodes with one user.
LEMMA QuitEffect ==
    ASSUME IInv, NEW i \in Inos
    PROVE  QuitDisk(minode, itable)[i] =
              IF CoreCount(minode, i) = 1 THEN CoreValue(minode, itable, i)
                                          ELSE itable[i]
<1> DEFINE S == {s \in Flushed(minode) : minode[s].ino = i}
<1>1. Coherent(minode) /\ DOMAIN itable = Inos
  BY DEF IInv, UniqueInCore, Coherent, TypeOK
<1>2. QuitDisk(minode, itable)[i] =
         IF S = {} THEN itable[i] ELSE minode[LastOf(S)].INODE
  BY <1>1 DEF QuitDisk
<1>3. S \subseteq InCore(minode, i)
  BY DEF Flushed, InCore
<1>4. CASE InCore(minode, i) = {}
  BY <1>2, <1>3, <1>4, CoreIsDisk
<1>5. CASE InCore(minode, i) # {}
  <2>1. PICK s \in InCore(minode, i) : TRUE
    BY <1>5
  <2>2. /\ CoreCount(minode, i) = minode[s].refCount
        /\ CoreValue(minode, itable, i) = minode[s].INODE
    BY <1>1, CoreIsCopy
  <2>3. s \in Slots /\ s \in Int /\ minode[s].refCount # 0 /\ minode[s].ino = i
    BY DEF InCore, Slots
  <2>4. \A t \in S : t = s
    BY <1>1, <1>3 DEF Coherent
  <2>5. CASE minode[s].refCount = 1 /\ minode[s].dirty
    <3>1. s \in S
      BY <2>3, <2>5 DEF Flushed
    <3>2. LastOf(S) = s
      BY <2>3, <2>4, <3>1, SingleFirstLast
    <3> QED BY <1>2, <2>2, <2>5, <3>1, <3>2
  <2>6. CASE ~ (minode[s].refCount = 1 /\ minode[s].dirty)
    <3>1. s \notin S
      BY <2>6 DEF Flushed
    <3>2. S = {}
      BY <2>4, <3>1
    <3>3. minode[s].refCount = 1 => minode[s].INODE = itable[i]
      BY <2>3, <2>6 DEF IInv, CleanInSync
    <3> QED BY <1>2, <2>2, <3>2, <3>3
  <2> QED BY <2>5, <2>6
<1> QED BY <1>4, <1>5

\* The count and the value InodeStore sees have their types.
LEMMA CoreType ==
    ASSUME IInv, NEW i \in Inos
    PROVE  /\ CoreCount(minode, i) \in Nat
           /\ CoreValue(minode, itable, i) \in INODEs
<1>1. Coherent(minode)
  BY DEF IInv, UniqueInCore, Coherent
<1>2. CASE InCore(minode, i) = {}
  BY <1>2, CoreIsDisk DEF IInv, TypeOK
<1>3. CASE InCore(minode, i) # {}
  <2>1. PICK s \in InCore(minode, i) : TRUE
    BY <1>3
  <2>2. s \in Slots
    BY DEF InCore
  <2> QED BY <1>1, <2>1, <2>2, CoreIsCopy DEF IInv, TypeOK, Minodes
<1> QED BY <1>2, <1>3

LEMMA QuitInv == ASSUME IInv, Quit PROVE IInv'
<1>1. DOMAIN QuitDisk(minode, itable) = Inos
  BY DEF QuitDisk, IInv, TypeOK
<1>2. \A i \in Inos : QuitDisk(minode, itable)[i] \in INODEs
  BY QuitEffect, CoreType DEF IInv, TypeOK
<1>3. QuitDisk(minode, itable) \in [Inos -> INODEs]
  BY <1>1, <1>2 DEF QuitDisk
<1> QED BY <1>3, LeaveInv DEF Quit

LEMMA KillInv == ASSUME IInv, Kill PROVE IInv'
BY LeaveInv DEF Kill, IInv, TypeOK

LEMMA BootInv == ASSUME IInv, Boot PROVE IInv'
<1>1. /\ itable' \in [Inos -> INODEs]
      /\ minode' = Booted(itable') /\ users' = BootUsers /\ up' = TRUE
  BY DEF Boot, IInv, TypeOK
<1>2. /\ minode' \in [Slots -> Minodes]
      /\ 1 \in Slots /\ FirstOf(Slots) = 1
      /\ minode'[1].ino = ROOT
      /\ minode'[1].refCount = 2
      /\ minode'[1].INODE = itable'[ROOT]
      /\ \A s \in Slots : s # 1 => minode'[s].refCount = 0
  BY <1>1, BootedTable
<1>3. users' = [s \in Slots |-> IF s = 1 THEN 2 ELSE 0]
  BY <1>1, <1>2 DEF BootUsers
<1>4. TypeOK'
  BY <1>1, <1>2, <1>3, InosAssumption DEF TypeOK
<1>5. UniqueInCore'
  BY <1>2 DEF UniqueInCore, InCore
<1>6. RefCountIsUsers'
  BY <1>2, <1>3 DEF RefCountIsUsers
<1>7. CleanInSync'
  BY <1>2 DEF CleanInSync
<1> QED BY <1>1, <1>4, <1>5, <1>6, <1>7 DEF IInv, DownIsEmpty

LEMMA StutterInv == ASSUME IInv, UNCHANGED vars PROVE IInv'
BY DEF vars, IInv, TypeOK, UniqueInCore, InCore, RefCountIsUsers, CleanInSync,
       DownIsEmpty

LEMMA NextInv == IInv /\ [Next]_vars => IInv'
<1> SUFFICES ASSUME IInv, [Next]_vars PROVE IInv'
  OBVIOUS
<1>1. ASSUME NEW i \in Inos, Iget(i) PROVE IInv'
  BY <1>1, IgetInv
<1>2. ASSUME NEW i \in Inos, NEW v \in INODEs, NewInode(i, v) PROVE IInv'
  BY <1>2, NewInodeInv
<1>3. ASSUME NEW s \in Slots, Iput(s) PROVE IInv'
  BY <1>3, IputInv
<1>4. ASSUME NEW s \in Slots, NEW v \in INODEs, Modify(s, v) PROVE IInv'
  BY <1>4, ModifyInv
<1>5. CASE Quit
  BY <1>5, QuitInv
<1>6. CASE Kill
  BY <1>6, KillInv
<1>7. CASE Boot
  BY <1>7, BootInv
<1>8. CASE UNCHANGED vars
  BY <1>8, StutterInv
<1> QED BY <1>1, <1>2, <1>3, <1>4, <1>5, <1>6, <1>7, <1>8 DEF Next

\* The four parts of the inductive invariant hold in every reachable state.
THEOREM CacheInvariant == Spec => []IInv
<1>1. Init => IInv
  BY InitInv
<1>2. IInv /\ [Next]_vars => IInv'
  BY NextInv
<1> QED BY <1>1, <1>2, PTL DEF Spec

\* The state has its type; the counts never go negative.
THEOREM TypeCorrect == Spec => []TypeOK
<1>1. IInv => TypeOK
  BY DEF IInv
<1> QED BY <1>1, CacheInvariant, PTL

\* iget() never loads a second copy of an inode.
THEOREM InCoreOnce == Spec => []UniqueInCore
<1>1. IInv => UniqueInCore
  BY DEF IInv
<1> QED BY <1>1, CacheInvariant, PTL

\* A slot counts its users, so a slot with refCount 0 is nobody's.
THEOREM CountsExact == Spec => []RefCountIsUsers
<1>1. IInv => RefCountIsUsers
  BY DEF IInv
<1> QED BY <1>1, CacheInvariant, PTL

\* iput() may drop a clean slot without writing it.
THEOREM CleanMatchesDisk == Spec => []CleanInSync
<1>1. IInv => CleanInSync
  BY DEF IInv
<1> QED BY <1>1, CacheInvariant, PTL

-----------------------------------------------------------------------------
(* A held slot is never recycled.                                          *)

HeldStep == \A s \in Slots : users[s] > 0 /\ users'[s] > 0 /\ up /\ up'
                                => minode'[s].ino = minode[s].ino

LEMMA NextHeld == IInv /\ [Next]_vars => HeldStep
<1> SUFFICES ASSUME IInv, [Next]_vars,
                    NEW s \in Slots, users[s] > 0, up, up'
             PROVE  minode'[s].ino = minode[s].ino
  BY DEF HeldStep
<1>0. minode[s].refCount > 0 /\ minode \in [Slots -> Minodes]
      /\ itable \in [Inos -> INODEs]
  BY DEF IInv, RefCountIsUsers, TypeOK
<1>1. ASSUME NEW i \in Inos, Iget(i) PROVE minode'[s].ino = minode[s].ino
  <2>1. minode' = IgetTable(minode, itable, i)
    BY <1>1 DEF Iget
  <2>2. CASE s # IgetSlot(minode, i)
    BY <1>0, <2>1, <2>2, IgetEffect
  <2>3. CASE s = IgetSlot(minode, i)
    <3>1. s # NULL
      BY DEF Slots, NULL
    <3>2. minode'[s].ino = i /\ s \in InCore(minode, i)
      BY <1>0, <2>1, <2>3, <3>1, IgetEffect
    <3> QED BY <3>2 DEF InCore
  <2> QED BY <2>2, <2>3
<1>2. ASSUME NEW i \in Inos, NEW v \in INODEs, NewInode(i, v)
      PROVE  minode'[s].ino = minode[s].ino
  BY <1>0, <1>2, NewInodeEffect
<1>3. ASSUME NEW r \in Slots, Iput(r) PROVE minode'[s].ino = minode[s].ino
  <2>1. minode[r].refCount > 0 /\ minode[r].ino \in Inos
        /\ minode' = IputTable(minode, r)
    BY <1>3 DEF Iput, IInv, RefCountIsUsers, TypeOK
  <2> QED BY <1>0, <2>1, IputEffect
<1>4. ASSUME NEW r \in Slots, NEW v \in INODEs, Modify(r, v)
      PROVE  minode'[s].ino = minode[s].ino
  BY <1>0, <1>4 DEF Modify, Minodes
<1>5. ~ Quit /\ ~ Kill /\ ~ Boot
  BY DEF Quit, Kill, Boot
<1>6. CASE UNCHANGED vars
  BY <1>6 DEF vars
<1> QED BY <1>1, <1>2, <1>3, <1>4, <1>5, <1>6 DEF Next

\* While a pointer to a slot is held, iget() does not give the slot to
\* another inode.
THEOREM HeldSlotsKept == Spec => HeldSlotKeepsInode
<1>1. IInv /\ [Next]_vars => [HeldStep]_vars
  BY NextHeld
<1> QED BY <1>1, CacheInvariant, PTL DEF Spec, HeldSlotKeepsInode, HeldStep

-----------------------------------------------------------------------------
(* The table implements InodeStore.                                        *)

\* What InodeStore sees after a step that leaves the copy of an inode alone.
LEMMA SameView ==
    ASSUME IInv, IInv', NEW i \in Inos,
           \/ InCore(minode, i) = {} /\ InCore(minode', i) = {}
              /\ itable'[i] = itable[i]
           \/ \E s \in InCore(minode, i) \cap InCore(minode', i) :
                 /\ minode'[s].refCount = minode[s].refCount
                 /\ minode'[s].INODE = minode[s].INODE
    PROVE  /\ CoreCount(minode', i) = CoreCount(minode, i)
           /\ CoreValue(minode', itable', i) = CoreValue(minode, itable, i)
<1>1. Coherent(minode) /\ Coherent(minode')
  BY DEF IInv, UniqueInCore, Coherent
<1>2. CASE InCore(minode, i) = {} /\ InCore(minode', i) = {}
             /\ itable'[i] = itable[i]
  <2>1. CoreCount(minode, i) = 0 /\ CoreValue(minode, itable, i) = itable[i]
    BY <1>2, CoreIsDisk
  <2>2. CoreCount(minode', i) = 0 /\ CoreValue(minode', itable', i) = itable'[i]
    BY <1>2, CoreIsDisk
  <2> QED BY <1>2, <2>1, <2>2
<1>3. ASSUME NEW s \in InCore(minode, i) \cap InCore(minode', i),
             minode'[s].refCount = minode[s].refCount,
             minode'[s].INODE = minode[s].INODE
      PROVE  /\ CoreCount(minode', i) = CoreCount(minode, i)
             /\ CoreValue(minode', itable', i) = CoreValue(minode, itable, i)
  <2>1. /\ CoreCount(minode, i) = minode[s].refCount
        /\ CoreValue(minode, itable, i) = minode[s].INODE
    BY <1>1, CoreIsCopy
  <2>2. /\ CoreCount(minode', i) = minode'[s].refCount
        /\ CoreValue(minode', itable', i) = minode'[s].INODE
    BY <1>1, CoreIsCopy
  <2> QED BY <1>3, <2>1, <2>2
<1> QED BY <1>2, <1>3

Current == [i \in Inos |-> CoreValue(minode, itable, i)]
Users == [i \in Inos |-> CoreCount(minode, i)]

\* iget(): one more user of the inode, nothing else changes.
LEMMA IgetRefines ==
    ASSUME IInv, IInv', NEW i \in Inos, Iget(i)
    PROVE  Store!Open(i) \/ UNCHANGED <<Current, itable, Users, up>>
<1> DEFINE s == IgetSlot(minode, i)
<1>1. /\ minode \in [Slots -> Minodes]
      /\ itable \in [Inos -> INODEs]
      /\ up
      /\ minode' = IgetTable(minode, itable, i)
      /\ itable' = itable /\ up' = up
  BY DEF IInv, TypeOK, Iget
<1>2. Coherent(minode) /\ Coherent(minode')
  BY DEF IInv, UniqueInCore, Coherent
<1>3. CASE s = NULL
  <2>1. minode' = minode
    BY <1>1, <1>3, IgetEffect
  <2> QED BY <1>1, <2>1 DEF Current, Users
<1>4. CASE s # NULL
  <2>1. /\ \A r \in Slots : r # s => minode'[r] = minode[r]
        /\ s \in Slots
        /\ minode'[s].ino = i
        /\ \/ /\ s \in InCore(minode, i)
              /\ minode'[s].refCount = minode[s].refCount + 1
              /\ minode'[s].INODE = minode[s].INODE
           \/ /\ InCore(minode, i) = {}
              /\ minode[s].refCount = 0
              /\ minode'[s].refCount = 1
              /\ minode'[s].INODE = itable[i]
    BY <1>1, <1>4, IgetEffect
  <2> HIDE DEF s
  <2>2. minode[s].refCount \in Nat
    BY <1>1, <2>1 DEF Minodes
  <2>3. s \in InCore(minode', i)
    BY <2>1, <2>2 DEF InCore
  <2>4. /\ CoreCount(minode', i) = CoreCount(minode, i) + 1
        /\ CoreValue(minode', itable', i) = CoreValue(minode, itable, i)
    <3>1. /\ CoreCount(minode', i) = minode'[s].refCount
          /\ CoreValue(minode', itable', i) = minode'[s].INODE
      BY <1>2, <2>3, CoreIsCopy
    <3>2. CASE s \in InCore(minode, i)
      <4>1. /\ CoreCount(minode, i) = minode[s].refCount
            /\ CoreValue(minode, itable, i) = minode[s].INODE
        BY <1>2, <3>2, CoreIsCopy
      <4> QED BY <2>1, <3>1, <3>2, <4>1
    <3>3. CASE InCore(minode, i) = {}
      <4>1. /\ CoreCount(minode, i) = 0
            /\ CoreValue(minode, itable, i) = itable[i]
        BY <3>3, CoreIsDisk
      <4>2. s \notin InCore(minode, i)
        BY <3>3
      <4> QED BY <2>1, <3>1, <4>1, <4>2
    <3> QED BY <2>1, <3>2, <3>3
  <2>5. ASSUME NEW j \in Inos, j # i
        PROVE  /\ CoreCount(minode', j) = CoreCount(minode, j)
               /\ CoreValue(minode', itable', j) = CoreValue(minode, itable, j)
    <3>1. InCore(minode', j) = InCore(minode, j) /\ s \notin InCore(minode, j)
      BY <2>1, <2>5 DEF InCore
    <3>2. \A r \in InCore(minode, j) : minode'[r] = minode[r]
      BY <2>1, <3>1 DEF InCore
    <3> QED BY <1>1, <2>5, <3>1, <3>2, SameView
  <2>6. Users' = [Users EXCEPT ![i] = @ + 1]
    BY <2>4, <2>5 DEF Users
  <2>7. Current' = Current
    BY <2>4, <2>5 DEF Current
  <2> QED BY <1>1, <2>6, <2>7 DEF Store!Open, Users, Current
<1> QED BY <1>3, <1>4

\* iput(): one user fewer, and the last one makes the inode durable.
LEMMA IputRefines ==
    ASSUME IInv, IInv', NEW s \in Slots, Iput(s)
    PROVE  Store!Close(minode[s].ino)
<1> DEFINE i == minode[s].ino
<1>1. /\ minode \in [Slots -> Minodes]
      /\ itable \in [Inos -> INODEs]
      /\ up /\ up' = up
      /\ minode' = IputTable(minode, s)
      /\ itable' = IputDisk(minode, itable, s)
      /\ minode[s].refCount > 0
      /\ i \in Inos
  BY DEF IInv, TypeOK, RefCountIsUsers, Iput
<1>2. Coherent(minode) /\ Coherent(minode')
  BY DEF IInv, UniqueInCore, Coherent
<1>3. /\ itable' \in [Inos -> INODEs]
      /\ \A r \in Slots : r # s => minode'[r] = minode[r]
      /\ minode'[s].ino = i
      /\ minode'[s].INODE = minode[s].INODE
      /\ minode'[s].refCount = minode[s].refCount - 1
      /\ \A j \in Inos :
           itable'[j] = IF minode[s].refCount = 1 /\ minode[s].dirty /\ j = i
                        THEN minode[s].INODE ELSE itable[j]
  BY <1>1, IputEffect
<1>4. minode[s].refCount \in Nat /\ s \in InCore(minode, i)
  BY <1>1 DEF Minodes, InCore
<1>5. /\ CoreCount(minode, i) = minode[s].refCount
      /\ CoreValue(minode, itable, i) = minode[s].INODE
  BY <1>1, <1>2, <1>4, CoreIsCopy
\* The disk, as Store!Close describes it.
<1>6. itable' = IF CoreCount(minode, i) = 1
                THEN [itable EXCEPT ![i] = CoreValue(minode, itable, i)]
                ELSE itable
  <2>1. ~ minode[s].dirty => minode[s].INODE = itable[i]
    BY <1>1 DEF IInv, CleanInSync
  <2>2. \A j \in Inos :
           itable'[j] = IF minode[s].refCount = 1 /\ j = i
                        THEN minode[s].INODE ELSE itable[j]
    BY <1>3, <2>1
  <2> QED BY <1>1, <1>3, <1>5, <2>2
<1>7. /\ CoreCount(minode', i) = CoreCount(minode, i) - 1
      /\ CoreValue(minode', itable', i) = CoreValue(minode, itable, i)
  <2>1. CASE minode[s].refCount = 1
    <3>1. minode'[s].refCount = 0
      BY <1>3, <2>1
    <3>2. InCore(minode', i) = {}
      <4>1. \A r \in InCore(minode, i) : r = s
        BY <1>1, <1>2, <1>4 DEF Coherent
      <4> QED BY <1>3, <3>1, <4>1 DEF InCore
    <3>3. /\ CoreCount(minode', i) = 0
          /\ CoreValue(minode', itable', i) = itable'[i]
      BY <3>2, CoreIsDisk
    <3>4. itable'[i] = CoreValue(minode, itable, i)
      BY <1>1, <1>5, <1>6, <2>1
    <3> QED BY <1>5, <2>1, <3>3, <3>4
  <2>2. CASE minode[s].refCount # 1
    <3>1. s \in InCore(minode', i)
      BY <1>3, <1>4, <2>2 DEF InCore
    <3>2. /\ CoreCount(minode', i) = minode'[s].refCount
          /\ CoreValue(minode', itable', i) = minode'[s].INODE
      BY <1>1, <1>2, <3>1, CoreIsCopy
    <3> QED BY <1>3, <1>5, <3>2
  <2> QED BY <2>1, <2>2
<1>8. ASSUME NEW j \in Inos, j # i
      PROVE  /\ CoreCount(minode', j) = CoreCount(minode, j)
             /\ CoreValue(minode', itable', j) = CoreValue(minode, itable, j)
  <2>1. InCore(minode', j) = InCore(minode, j) /\ s \notin InCore(minode, j)
    BY <1>3, <1>8 DEF InCore
  <2>2. \A r \in InCore(minode, j) : minode'[r] = minode[r]
    BY <1>3, <2>1 DEF InCore
  <2>3. itable'[j] = itable[j]
    BY <1>3, <1>8
  <2> QED BY <1>8, <2>1, <2>2, <2>3, SameView
<1> HIDE DEF i
<1>9. Users' = [Users EXCEPT ![i] = @ - 1]
  BY <1>1, <1>7, <1>8 DEF Users
<1>10. Current' = Current
  BY <1>1, <1>7, <1>8 DEF Current
<1>11. Users[i] > 0 /\ Users[i] = CoreCount(minode, i)
       /\ Current[i] = CoreValue(minode, itable, i)
  BY <1>1, <1>4, <1>5 DEF Users, Current
<1> QED BY <1>1, <1>6, <1>9, <1>10, <1>11 DEF Store!Close, Users, Current, i

\* A store through a held pointer changes the value every user sees.
LEMMA ModifyRefines ==
    ASSUME IInv, IInv', NEW s \in Slots, NEW v \in INODEs, Modify(s, v)
    PROVE  Store!Update(minode[s].ino, v)
<1> DEFINE i == minode[s].ino
<1>1. /\ minode \in [Slots -> Minodes]
      /\ up /\ up' = up /\ itable' = itable
      /\ minode' = [minode EXCEPT ![s].INODE = v, ![s].dirty = TRUE]
      /\ minode[s].refCount > 0
      /\ i \in Inos
  BY DEF IInv, TypeOK, RefCountIsUsers, Modify
<1>2. Coherent(minode) /\ Coherent(minode')
  BY DEF IInv, UniqueInCore, Coherent
<1>3. /\ \A r \in Slots : r # s => minode'[r] = minode[r]
      /\ minode'[s].ino = i
      /\ minode'[s].INODE = v
      /\ minode'[s].refCount = minode[s].refCount
      /\ minode[s].refCount \in Nat
  BY <1>1 DEF Minodes
<1>4. s \in InCore(minode, i) /\ s \in InCore(minode', i)
  BY <1>1, <1>3 DEF InCore
<1>5. CoreCount(minode, i) = minode[s].refCount
  BY <1>1, <1>2, <1>4, CoreIsCopy
<1>6. /\ CoreCount(minode', i) = CoreCount(minode, i)
      /\ CoreValue(minode', itable', i) = v
  <2>0. i \in Inos
    BY <1>1
  <2>1. /\ CoreCount(minode', i) = minode'[s].refCount
        /\ CoreValue(minode', itable', i) = minode'[s].INODE
    <3> HIDE DEF i
    <3> QED BY <2>0, <1>2, <1>4, CoreIsCopy
  <2> QED BY <1>3, <1>5, <2>1
<1>7. ASSUME NEW j \in Inos, j # i
      PROVE  /\ CoreCount(minode', j) = CoreCount(minode, j)
             /\ CoreValue(minode', itable', j) = CoreValue(minode, itable, j)
  <2>1. InCore(minode', j) = InCore(minode, j) /\ s \notin InCore(minode, j)
    BY <1>3, <1>7 DEF InCore
  <2>2. \A r \in InCore(minode, j) : minode'[r] = minode[r]
    BY <1>3, <2>1 DEF InCore
  <2> QED BY <1>1, <1>7, <2>1, <2>2, SameView
<1> HIDE DEF i
<1>8. Users' = Users
  BY <1>1, <1>6, <1>7 DEF Users
<1>9. Current' = [Current EXCEPT ![i] = v]
  BY <1>1, <1>6, <1>7 DEF Current
<1>10. Users[i] > 0
  BY <1>1, <1>3, <1>5 DEF Users
<1> QED BY <1>1, <1>8, <1>9, <1>10 DEF Store!Update, Users, Current, i

\* A new inode is durable at once.
LEMMA NewInodeRefines ==
    ASSUME IInv, IInv', NEW i \in Inos, NEW v \in INODEs, NewInode(i, v)
    PROVE  Store!Create(i, v)
<1> DEFINE s == IgetSlot(minode, i)
<1>1. /\ s \in Slots
      /\ \A r \in Slots : r # s => minode'[r] = minode[r]
      /\ minode[s].refCount = 0
      /\ minode'[s].refCount = 0
      /\ itable' = [itable EXCEPT ![i] = v]
      /\ itable \in [Inos -> INODEs]
  BY NewInodeEffect DEF IInv, TypeOK
<1>2. InCore(minode, i) = {} /\ up /\ up' = up
  BY DEF NewInode
<1> HIDE DEF s
<1>3. \A j \in Inos : InCore(minode', j) = InCore(minode, j)
  BY <1>1 DEF InCore
<1>4. /\ CoreCount(minode, i) = 0
      /\ CoreCount(minode', i) = 0
      /\ CoreValue(minode', itable', i) = v
  <2>1. InCore(minode', i) = {}
    BY <1>2, <1>3
  <2>2. CoreCount(minode', i) = 0 /\ CoreValue(minode', itable', i) = itable'[i]
    BY <2>1, CoreIsDisk
  <2>3. CoreCount(minode, i) = 0
    BY <1>2, CoreIsDisk
  <2> QED BY <1>1, <2>2, <2>3
<1>5. ASSUME NEW j \in Inos, j # i
      PROVE  /\ CoreCount(minode', j) = CoreCount(minode, j)
             /\ CoreValue(minode', itable', j) = CoreValue(minode, itable, j)
  <2>1. \A r \in InCore(minode, j) : minode'[r] = minode[r]
    BY <1>1 DEF InCore
  <2>2. itable'[j] = itable[j]
    BY <1>1, <1>5
  <2> QED BY <1>3, <2>1, <2>2, SameView
<1>6. Users' = Users /\ Users[i] = 0
  BY <1>4, <1>5 DEF Users
<1>7. Current' = [Current EXCEPT ![i] = v]
  BY <1>4, <1>5 DEF Current
<1> QED BY <1>1, <1>2, <1>6, <1>7 DEF Store!Create, Users, Current

\* With an empty table InodeStore has no users and sees the disk.
LEMMA EmptyView ==
    ASSUME NEW itab, NEW i
    PROVE  CoreCount(Blank, i) = 0 /\ CoreValue(Blank, itab, i) = itab[i]
<1>1. InCore(Blank, i) = {}
  BY DEF InCore, Blank
<1> QED BY <1>1, CoreIsDisk

LEMMA QuitRefines == ASSUME IInv, Quit PROVE Store!Quit
<1> DEFINE S == {i \in Inos : Users[i] = 1}
<1>1. /\ up /\ up' = FALSE
      /\ itable' = QuitDisk(minode, itable)
      /\ minode' = Blank
  BY DEF Quit
<1>2. DOMAIN itable = Inos
  BY DEF IInv, TypeOK
<1>3. itable' = [i \in Inos |-> IF i \in S THEN Current[i] ELSE itable[i]]
  <2>1. itable' = [i \in Inos |-> itable'[i]]
    BY <1>1, <1>2 DEF QuitDisk
  <2>2. \A i \in Inos : itable'[i] = IF i \in S THEN Current[i] ELSE itable[i]
    BY <1>1, QuitEffect DEF Users, Current
  <2> QED BY <2>1, <2>2
<1>4. Users' = [i \in Inos |-> 0]
  BY <1>1, EmptyView DEF Users
<1>5. Current' = itable'
  <2>1. Current' = [i \in Inos |-> itable'[i]]
    BY <1>1, EmptyView DEF Current
  <2> QED BY <1>3, <2>1
<1> HIDE DEF S
<1>6. Store!Leave(S)
  BY <1>1, <1>3, <1>4, <1>5 DEF Store!Leave, Users, Current
<1> QED BY <1>6 DEF Store!Quit, Users, S

LEMMA KillRefines == ASSUME IInv, Kill PROVE Store!Kill
<1>1. /\ up /\ up' = FALSE
      /\ itable' = itable
      /\ minode' = Blank
      /\ itable = [i \in Inos |-> itable[i]]
  BY DEF Kill, IInv, TypeOK
<1>2. Users' = [i \in Inos |-> 0]
  BY <1>1, EmptyView DEF Users
<1>3. Current' = itable'
  <2>1. Current' = [i \in Inos |-> itable'[i]]
    BY <1>1, EmptyView DEF Current
  <2> QED BY <1>1, <2>1
<1> QED BY <1>1, <1>2, <1>3 DEF Store!Kill, Store!Leave, Users, Current

\* A booted program has two users of the root and sees the disk.
LEMMA BootedView ==
    ASSUME NEW itab \in [Inos -> INODEs], NEW i \in Inos
    PROVE  /\ CoreCount(Booted(itab), i) = IF i = ROOT THEN 2 ELSE 0
           /\ CoreValue(Booted(itab), itab, i) = itab[i]
<1> DEFINE t == Booted(itab)
<1>1. /\ 1 \in Slots
      /\ t[1].ino = ROOT /\ t[1].refCount = 2 /\ t[1].INODE = itab[ROOT]
      /\ \A s \in Slots : s # 1 => t[s].refCount = 0
  BY BootedTable
<1> HIDE DEF t
<1>2. Coherent(t)
  BY <1>1 DEF Coherent, InCore
<1>3. CASE i = ROOT
  <2>1. 1 \in InCore(t, i)
    BY <1>1, <1>3 DEF InCore
  <2> QED BY <1>1, <1>2, <1>3, <2>1, CoreIsCopy DEF t
<1>4. CASE i # ROOT
  <2>1. InCore(t, i) = {}
    BY <1>1, <1>4 DEF InCore
  <2> QED BY <1>4, <2>1, CoreIsDisk DEF t
<1> QED BY <1>3, <1>4

LEMMA BootRefines == ASSUME IInv, IInv', Boot PROVE Store!Boot
<1>1. /\ ~ up /\ up' = TRUE
      /\ itable' = itable
      /\ minode' = Booted(itable)
      /\ itable \in [Inos -> INODEs]
  BY DEF Boot, IInv, TypeOK
<1>2. Users' = [i \in Inos |-> IF i = ROOT THEN 2 ELSE 0]
  BY <1>1, BootedView DEF Users
<1>3. Current' = itable
  <2>1. Current' = [i \in Inos |-> itable[i]]
    BY <1>1, BootedView DEF Current
  <2> QED BY <1>1, <2>1
<1>4. Current = itable
  <2>1. \A i \in Inos : InCore(minode, i) = {}
    BY <1>1 DEF IInv, DownIsEmpty, InCore
  <2>2. Current = [i \in Inos |-> itable[i]]
    BY <2>1, CoreIsDisk DEF Current
  <2> QED BY <1>1, <2>2
<1> QED BY <1>1, <1>2, <1>3, <1>4 DEF Store!Boot, Users, Current

LEMMA InitRefines == Init => Store!Init
<1> SUFFICES ASSUME Init PROVE Store!Init
  OBVIOUS
<1>1. /\ itable \in [Inos -> INODEs]
      /\ minode = Booted(itable)
      /\ up = TRUE
  BY DEF Init
<1>2. Users = [i \in Inos |-> IF i = ROOT THEN 2 ELSE 0]
  BY <1>1, BootedView DEF Users
<1>3. Current = itable
  <2>1. Current = [i \in Inos |-> itable[i]]
    BY <1>1, BootedView DEF Current
  <2> QED BY <1>1, <2>1
<1> QED BY <1>1, <1>2, <1>3 DEF Store!Init, Users, Current

\* Every step of the table is a step of the store or leaves it as it is.
LEMMA NextRefines ==
    IInv /\ IInv' /\ [Next]_vars => [Store!Next]_(Store!vars)
<1> SUFFICES ASSUME IInv, IInv', [Next]_vars
             PROVE  [Store!Next]_(Store!vars)
  OBVIOUS
<1> USE DEF Store!Next
<1>1. ASSUME NEW i \in Inos, Iget(i) PROVE [Store!Next]_(Store!vars)
  BY <1>1, IgetRefines DEF Store!vars, Users, Current
<1>2. ASSUME NEW i \in Inos, NEW v \in INODEs, NewInode(i, v)
      PROVE  Store!Next
  BY <1>2, NewInodeRefines
<1>3. ASSUME NEW s \in Slots, Iput(s) PROVE Store!Next
  <2>1. minode[s].ino \in Inos
    BY <1>3 DEF Iput, IInv, RefCountIsUsers, TypeOK
  <2> QED BY <1>3, <2>1, IputRefines
<1>4. ASSUME NEW s \in Slots, NEW v \in INODEs, Modify(s, v) PROVE Store!Next
  <2>1. minode[s].ino \in Inos
    BY <1>4 DEF Modify, IInv, RefCountIsUsers, TypeOK
  <2> QED BY <1>4, <2>1, ModifyRefines
<1>5. CASE Quit
  BY <1>5, QuitRefines
<1>6. CASE Kill
  BY <1>6, KillRefines
<1>7. CASE Boot
  BY <1>7, BootRefines
<1>8. CASE UNCHANGED vars
  BY <1>8 DEF vars, Store!vars, CoreCount, CoreValue, InCore
<1> QED BY <1>1, <1>2, <1>3, <1>4, <1>5, <1>6, <1>7, <1>8 DEF Next

\* iget() and iput() implement the inode store: users share one current
\* value, and the last release makes it durable.
THEOREM CacheImplementsStore == Spec => ImplementsStore
<1>1. Init => Store!Init
  BY InitRefines
<1>2. IInv /\ IInv' /\ [Next]_vars => [Store!Next]_(Store!vars)
  BY NextRefines
<1>3. Spec => Store!Spec
  BY <1>1, <1>2, CacheInvariant, PTL DEF Spec, Store!Spec
<1> QED BY <1>3 DEF ImplementsStore
=============================================================================
