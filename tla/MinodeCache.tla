---------------------------- MODULE MinodeCache -----------------------------
(***************************************************************************)
(* The in-core inode table under users that keep its contract: a handler   *)
(* changes an INODE only through a pointer iget() gave it, sets dirty when *)
(* it does, and gives every pointer back with one iput().  Every command   *)
(* of src/Final/src is a sequence of these steps; which commands break the *)
(* contract is the subject of Namespace.                                   *)
(***************************************************************************)
EXTENDS Minode

CONSTANTS Inos,         \* inode numbers of the device
          INODEs,       \* contents of an inode
          ZeroINODE,    \* the contents of a slot of the zeroed static array
          ROOT,         \* the inode number of / (2)
          MaxRef        \* bound: references to one slot

ASSUME InosAssumption == ROOT \in Inos /\ 0 \notin Inos
ASSUME INODEAssumption == ZeroINODE \in INODEs
ASSUME MaxRefAssumption == MaxRef \in Nat /\ MaxRef >= 2

VARIABLES minode,       \* the table: Slots -> [ino, refCount, dirty, INODE]
          itable,       \* the INODE of every inode number on disk
          users,        \* history: pointers to each slot handed out by iget()
                        \* and not yet given back, root and cwd included
          up            \* the process exists

vars == <<minode, itable, users, up>>

-----------------------------------------------------------------------------
\* init(): no slot is in use.
Blank == [s \in Slots |-> [ino |-> 0, refCount |-> 0, dirty |-> FALSE,
                           INODE |-> ZeroINODE]]

\* mount_root() and main(): root = iget(dev, 2), P0's cwd = iget(dev, 2).
Booted(itab) == IgetTable(IgetTable(Blank, itab, ROOT), itab, ROOT)
BootUsers == [s \in Slots |-> IF s = FirstOf(Slots) THEN 2 ELSE 0]

Init == /\ itable \in [Inos -> INODEs]
        /\ minode = Booted(itable)
        /\ users = BootUsers
        /\ up = TRUE

-----------------------------------------------------------------------------
\* iget(): when every slot is in use it prints PANIC and returns NULL.
Iget(i) ==
    LET s == IgetSlot(minode, i)
    IN  /\ up
        /\ s # NULL => minode[s].refCount < MaxRef
        /\ minode' = IgetTable(minode, itable, i)
        /\ users' = IF s = NULL THEN users ELSE [users EXCEPT ![s] = @ + 1]
        /\ UNCHANGED <<itable, up>>

\* iput() by a user that holds a pointer.
Iput(s) ==
    /\ up
    /\ users[s] > 0
    /\ minode' = IputTable(minode, s)
    /\ itable' = IputDisk(minode, itable, s)
    /\ users' = [users EXCEPT ![s] = @ - 1]
    /\ UNCHANGED up

\* Mutant: the handler forgets mip->dirty.
Modify_Clean(s, v) ==
    /\ up
    /\ users[s] > 0
    /\ minode' = [minode EXCEPT ![s].INODE = v]
    /\ UNCHANGED <<itable, users, up>>

\* A handler stores to mip->INODE and sets mip->dirty.
Modify(s, v) ==
    /\ up
    /\ users[s] > 0
    /\ minode' = [minode EXCEPT ![s].INODE = v, ![s].dirty = TRUE]
    /\ UNCHANGED <<itable, users, up>>

\* The new inode of kcreat(): iget(), fill, refCount = 0, dirty = 1, iput().
\* The contract asks for an inode number that is not in core.
NewInode(i, v) ==
    LET s == IgetSlot(minode, i)
        filled == [IgetTable(minode, itable, i) EXCEPT
                      ![s].INODE = v, ![s].refCount = 0, ![s].dirty = TRUE]
    IN  /\ up
        /\ InCore(minode, i) = {}
        /\ s # NULL
        /\ minode' = IputTable(filled, s)
        /\ itable' = IputDisk(filled, itable, s)
        /\ UNCHANGED <<users, up>>

\* The quit command.
Quit ==
    /\ up
    /\ up' = FALSE
    /\ itable' = QuitDisk(minode, itable)
    /\ minode' = Blank
    /\ users' = [s \in Slots |-> 0]

\* The process ends without quit: killed, or a NULL pointer after PANIC.
Kill ==
    /\ up
    /\ up' = FALSE
    /\ minode' = Blank
    /\ users' = [s \in Slots |-> 0]
    /\ UNCHANGED itable

Boot ==
    /\ ~ up
    /\ up' = TRUE
    /\ minode' = Booted(itable)
    /\ users' = BootUsers
    /\ UNCHANGED itable

Next == \/ \E i \in Inos : Iget(i) \/ \E v \in INODEs : NewInode(i, v)
        \/ \E s \in Slots : Iput(s) \/ \E v \in INODEs : Modify(s, v)
        \/ Quit
        \/ Kill
        \/ Boot

Spec == Init /\ [][Next]_vars

-----------------------------------------------------------------------------
Minodes == [ino : Inos \cup {0}, refCount : Nat, dirty : BOOLEAN,
            INODE : INODEs]

\* The state has its type: in particular no reference count is negative,
\* and a slot in use names an inode of the device.
TypeOK == /\ minode \in [Slots -> Minodes]
          /\ itable \in [Inos -> INODEs]
          /\ users \in [Slots -> Nat]
          /\ up \in BOOLEAN
          /\ \A s \in Slots : minode[s].refCount # 0 => minode[s].ino \in Inos

\* An inode is in core at most once, so all its users share one INODE: the
\* first loop of iget() finds the copy a second load would duplicate.
UniqueInCore ==
    \A i \in Inos : \A s, t \in InCore(minode, i) : s = t

\* "int refCount; // in use count" (type.h): a slot counts exactly the
\* pointers handed out, so iget() reuses no slot somebody still points to.
RefCountIsUsers == \A s \in Slots : minode[s].refCount = users[s]

\* "0 for clean" (type.h): a slot in use whose dirty flag is off holds what
\* is on disk, so dropping it without a write loses nothing.
CleanInSync ==
    \A s \in Slots : minode[s].refCount # 0 /\ ~ minode[s].dirty
                        => minode[s].INODE = itable[minode[s].ino]

\* While somebody holds a pointer to a slot, the slot keeps naming the same
\* inode: no iget() recycles it, whatever the other users do.
HeldSlotKeepsInode ==
    [][\A s \in Slots : users[s] > 0 /\ users'[s] > 0 /\ up /\ up'
                            => minode'[s].ino = minode[s].ino]_vars

-----------------------------------------------------------------------------
\* The table implements InodeStore: the current value of an inode is the one
\* in core if it is there, the one on disk otherwise.
CoreCount(mt, i) == IF InCore(mt, i) = {} THEN 0
                    ELSE mt[FirstOf(InCore(mt, i))].refCount
CoreValue(mt, itab, i) == IF InCore(mt, i) = {} THEN itab[i]
                          ELSE mt[FirstOf(InCore(mt, i))].INODE

Store == INSTANCE InodeStore WITH
            current <- [i \in Inos |-> CoreValue(minode, itable, i)],
            durable <- itable,
            users <- [i \in Inos |-> CoreCount(minode, i)]

\* iget() and iput() behave as an inode store: no change is lost between
\* users, and the last iput() makes the inode durable.
ImplementsStore == Store!Spec
=============================================================================
