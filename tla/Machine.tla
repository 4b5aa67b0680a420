------------------------------ MODULE Machine -------------------------------
(***************************************************************************)
(* The routines of src/Final/src/util.c, mkdir_creat.c and rmdir.c that    *)
(* every command is made of, as operators from a machine to a machine.  A  *)
(* machine m is a record                                                   *)
(*   minode   the in-core table: Slots -> [ino, refCount, dirty, INODE]    *)
(*   cwd      running->cwd, a slot                                         *)
(*   st       "up", or how the program stopped: "down" (exited or killed,  *)
(*            by a NULL dereference for one), "hung" (a loop that cannot   *)
(*            end), "undefined" (it reads bytes that are not what it takes *)
(*            them for: an inode number 0, the text of a symbolic link, a  *)
(*            directory block whose chain of entries is broken)            *)
(*   itable   the inode blocks of the disk: number -> INODE                *)
(*   imap     the inode numbers whose bit is set in the inode bitmap       *)
(*   bmap     the block numbers whose bit is set in the block bitmap       *)
(*   dir      the data blocks: number -> sequence of directory entries,    *)
(*            <<>> for a block of zeros                                    *)
(* Every routine leaves a machine that is no longer up as it found it.     *)
(*                                                                         *)
(* Abstractions.  A block holds at most BlockCap entries, whatever their   *)
(* lengths; a directory has NDIRECT block pointers; sizes, owners, modes   *)
(* and times are left out of an INODE.                                     *)
(***************************************************************************)
EXTENDS Minode, SequencesExt

CONSTANTS NINODES,      \* inode numbers, and bits balloc() looks at
          NDIRECT,      \* direct block pointers of an inode (12)
          BlockCap,     \* entries a directory block holds
          FileNames     \* names of entries

ASSUME GeometryAssumption == /\ NINODES \in Nat /\ NINODES >= 2
                             /\ NDIRECT \in Nat \ {0}
                             /\ BlockCap \in Nat /\ BlockCap >= 2
ASSUME NamesAssumption == {".", ".."} \subseteq FileNames

ROOT == 2               \* the inode number of /
Root == 1               \* the slot root points to: the first iget() of a run
Inos == 1 .. NINODES
Blks == 1 .. NINODES    \* balloc() scans ninodes bits of the block bitmap

INODE(type, links, blk) ==
    [type |-> type, links |-> links,
     block |-> [i \in 1 .. NDIRECT |-> IF i = 1 THEN blk ELSE 0]]

\* The types of an INODE, of a slot and of a block of entries.
U16 == 0 .. 65535
INODEs == [type : {"none", "reg", "dir", "lnk"}, links : U16,
           block : [1 .. NDIRECT -> Blks \cup {0}]]
MINODEs == [ino : Inos \cup {0}, refCount : Int, dirty : BOOLEAN, INODE : INODEs]
Chains == Seq([name : FileNames, ino : Inos \cup {0}])

\* init(): the zeroed static table.
Blank == [s \in Slots |-> [ino |-> 0, refCount |-> 0, dirty |-> FALSE,
                           INODE |-> INODE("none", 0, 0)]]

\* The steps of a routine, one after the other: the result of a step, named.
With(result, Rest(_)) == Rest(result)

Entry(name, ino) == [name |-> name, ino |-> ino]

Fail(m, how) == IF m.st = "up" THEN [m EXCEPT !.st = how] ELSE m

\* A store or load through a pointer that may be NULL.
Deref(m, s) == IF s = NULL THEN Fail(m, "down") ELSE m

-----------------------------------------------------------------------------
(* util.c: the in-core table.                                              *)

\* iget(dev, ino) returns IgetPtr and leaves Iget.
IgetPtr(m, ino) == IgetSlot(m.minode, ino)
Iget(m, ino) ==
    IF m.st # "up" THEN m
    ELSE [m EXCEPT !.minode = IgetTable(@, m.itable, ino)]

\* Inode number 0 is written back 128 bytes below the buffer of iput(), over
\* its own variables.
Iput(m, s) ==
    IF m.st # "up" \/ s = NULL THEN m
    ELSE IF WritesBack(m.minode, s) /\ m.minode[s].ino = 0
         THEN Fail(m, "undefined")
    ELSE [m EXCEPT !.minode = IputTable(@, s),
                   !.itable = IputDisk(m.minode, @, s)]

\* Mutant: dirty is forgotten.
Store_Clean(m, s, inode) ==
    IF m.st # "up" THEN m ELSE [m EXCEPT !.minode[s].INODE = inode]

\* The handler writes mip->INODE and sets mip->dirty.
Store(m, s, inode) ==
    IF m.st # "up" THEN m
    ELSE [m EXCEPT !.minode[s].INODE = inode, !.minode[s].dirty = TRUE]

Inode(m, s) == m.minode[s].INODE
IsDir(m, s) == Inode(m, s).type = "dir"

-----------------------------------------------------------------------------
(* util.c: the bitmaps.  A number is the first clear bit, or 0.            *)

FreeIno(m) == IF Inos \subseteq m.imap THEN 0 ELSE FirstOf(Inos \ m.imap)
FreeBlk(m) == IF Blks \subseteq m.bmap THEN 0 ELSE FirstOf(Blks \ m.bmap)

Ialloc(m) == [m EXCEPT !.imap = @ \cup ({FreeIno(m)} \cap Inos)]
Balloc(m) == [m EXCEPT !.bmap = @ \cup ({FreeBlk(m)} \cap Blks)]

\* Mutant: clr_bit(buf, ino) in place of ino - 1.
Idalloc_OffByOne(m, ino) ==
    IF m.st = "up" THEN [m EXCEPT !.imap = @ \ {ino + 1}] ELSE m

\* Bit -1, for inode number 0, is shifted out of the byte.
Idalloc(m, ino) == IF m.st = "up" THEN [m EXCEPT !.imap = @ \ {ino}] ELSE m

\* Mutant: bdalloc() clears the bit in the block bitmap, as its name says.
Bdalloc_InBmap(m, blk) == IF m.st = "up" THEN [m EXCEPT !.bmap = @ \ {blk}] ELSE m

\* bdalloc() clears the bit of a block number in the inode bitmap.
Bdalloc(m, blk) == IF m.st = "up" THEN [m EXCEPT !.imap = @ \ {blk}] ELSE m

-----------------------------------------------------------------------------
(* util.c: search() and getino().                                          *)

\* i_block[] of slot s does not hold block numbers.
Opaque(m, s) == m.minode[s].ino = 0 \/ Inode(m, s).type = "lnk"

Holds(chain, name) == \E k \in DOMAIN chain : chain[k].name = name
InoOf(chain, name) ==
    chain[FirstOf({k \in DOMAIN chain : chain[k].name = name})].ino

\* The block pointers that can end the scan of search(), which skips those that
\* are 0: the block holds the name, or it is zeroed and its first rec_len of 0
\* keeps the scan where it is.
SearchStop(m, s, name) ==
    {k \in 1 .. NDIRECT :
        LET b == Inode(m, s).block[k]
        IN  b # 0 /\ (m.dir[b] = <<>> \/ Holds(m.dir[b], name))}

\* The block the scan ends in, if there is one.
StopChain(m, s, name) == m.dir[Inode(m, s).block[FirstOf(SearchStop(m, s, name))]]

\* What search(mip, name) returns, when it returns, and what it leaves.
SearchIno(m, s, name) ==
    IF SearchStop(m, s, name) = {} THEN 0 ELSE InoOf(StopChain(m, s, name), name)

Search(m, s, name) ==
    IF Opaque(m, s) THEN Fail(m, "undefined")
    ELSE IF SearchStop(m, s, name) # {} /\ StopChain(m, s, name) = <<>>
         THEN Fail(m, "hung")
    ELSE m

\* One round of getino(): search() in mip, iput(mip), iget() what it found.
\* A walk is [m, s (mip), ino, ok].
Walk(w, name) ==
    IF ~ w.ok \/ w.m.st # "up" THEN w
    ELSE IF w.s = NULL THEN [w EXCEPT !.m = Deref(@, NULL)]
    ELSE With(Search(w.m, w.s, name), LAMBDA m1 :
         With(SearchIno(w.m, w.s, name), LAMBDA ino :
         With(Iput(m1, w.s), LAMBDA m2 :
            IF m1.st # "up" THEN [w EXCEPT !.m = m1]
            ELSE IF ino = 0
                 THEN [m |-> m2, s |-> NULL, ino |-> 0, ok |-> FALSE]
            ELSE [m |-> Iget(m2, ino), s |-> IgetPtr(m2, ino), ino |-> ino,
                  ok |-> TRUE])))

WalkAll(w, names) == FoldLeft(Walk, w, names)

\* getino(pathname): the count of root or cwd is raised without iget().
\* The result is a record [m, ino].
Getino(m, path) ==
    LET start == IF path.abs THEN Root ELSE m.cwd
        m1 == [m EXCEPT !.minode[start].refCount = @ + 1]
    IN  IF m.st # "up" THEN [m |-> m, ino |-> 0]
        ELSE IF path.comps = <<>> THEN [m |-> m, ino |-> ROOT]
        ELSE With(WalkAll([m |-> m1, s |-> start, ino |-> 0, ok |-> TRUE], path.comps),
                  LAMBDA w : [m |-> Iput(w.m, w.s), ino |-> w.ino])

\* ino = getino(path); mip = iget(dev, ino): a record [m, ino, s].
Fetch(m, path) ==
    With(Getino(m, path), LAMBDA g :
        [m |-> Iget(g.m, g.ino), ino |-> g.ino, s |-> IgetPtr(g.m, g.ino)])

\* dirname() and basename() of the C library on a path that is not "/".
Dirname(path) ==
    [path EXCEPT !.comps = IF Len(@) = 1 /\ ~ path.abs THEN <<".">>
                           ELSE Front(@)]
Basename(path) == Last(path.comps)

-----------------------------------------------------------------------------
(* mkdir_creat.c: enter_child().                                           *)

\* The block pointers enter_child() stops at: none yet, or room for an
\* entry.  A zeroed block has no last entry to split and counts as full.
HasRoom(m, s, i) ==
    LET b == Inode(m, s).block[i]
    IN  b = 0 \/ Len(m.dir[b]) \in 1 .. BlockCap - 1

\* With every block full the entry is dropped and nobody is told.  The new
\* pointer is stored in the in-core INODE; dirty is left to the caller.
EnterChild(m, s, entry) ==
    LET room == {i \in 1 .. NDIRECT : HasRoom(m, s, i)}
        i == FirstOf(room)
        b == Inode(m, s).block[i]
        grown == Balloc(m)
    IN  IF m.st # "up" THEN m
        ELSE IF Opaque(m, s) THEN Fail(m, "undefined")
        ELSE IF room = {} THEN m
        ELSE IF b = 0
             THEN [grown EXCEPT
                      !.minode[s].INODE.block[i] = FreeBlk(m),
                      !.dir[FreeBlk(m)] = <<entry>>]
        ELSE [m EXCEPT !.dir[b] = Append(@, entry)]

-----------------------------------------------------------------------------
(* rmdir.c: rm_child().                                                    *)

\* One round of rm_child() over block b, unless it is 0: last is the name the
\* round before ended on, cut says that an entry before the last one has been
\* removed (the variables size and removedSize, which no round resets).  In the
\* first round name is not initialised; that block holds "." and ".." at least,
\* so the value does not matter.  Duplicates of a name, and a one-entry block ending
\* on it, move the bounds of the scan or prevDp to another entry's bytes.
RmBlock(r, b, name) ==
    LET chain == r.m.dir[b]
        at == {k \in DOMAIN chain : chain[k].name = name}
        k == FirstOf(at)
    IN  IF r.m.st # "up" \/ b = 0 THEN r
        ELSE IF chain = <<>> THEN [r EXCEPT !.m = Fail(@, "hung")]
        ELSE IF Len(chain) = 1 /\ r.last # name
             \* the block is zeroed and then scanned for its end
             THEN [r EXCEPT !.m = Fail([Bdalloc(@, b) EXCEPT !.dir[b] = <<>>],
                                       "hung")]
        ELSE IF r.cut \/ Cardinality(at) > 1 \/ (at # {} /\ Len(chain) = 1)
             THEN [r EXCEPT !.m = Fail(@, "undefined")]
        ELSE [last |-> Last(chain).name,
              cut |-> at # {} /\ k < Len(chain),
              m |-> IF at = {} THEN r.m
                    ELSE [r.m EXCEPT !.dir[b] = RemoveAt(@, k)]]

RmBlocks(r, blocks, name) ==
    LET Round(q, b) == RmBlock(q, b, name)
    IN  FoldLeft(Round, r, blocks)

RmChild(m, s, name) ==
    IF m.st # "up" THEN m
    ELSE IF Opaque(m, s) THEN Fail(m, "undefined")
    ELSE RmBlocks([m |-> m, last |-> "", cut |-> FALSE], Inode(m, s).block, name).m

-----------------------------------------------------------------------------
(* util.c: checkDir(), kcreat() and kmkdir().                              *)

\* Mutant: the name is not looked up.
MayEnter_Unchecked(m, s, name) == IsDir(m, s)

\* checkDir() returns zero: pmip is a directory without that name.  (Compiled
\* without optimisation, falling off its end returns what search() returned.)
MayEnter(m, s, name) == IsDir(m, s) /\ SearchIno(m, s, name) = 0

CheckDir(m, s, name) ==
    IF s # NULL /\ m.st = "up" /\ IsDir(m, s) THEN Search(m, s, name)
    ELSE Deref(m, s)

\* Mutant: the parent is given back twice.
EnterAndRelease_Twice(m, s, entry) ==
    With(EnterChild(m, s, entry), LAMBDA m1 :
        IF m1.st # "up" THEN m1
        ELSE Iput(Iput(Store(m1, s, Inode(m1, s)), s), s))

\* The last steps of kcreat() and kmkdir(): the entry, then the parent.
EnterAndRelease(m, s, entry) ==
    With(EnterChild(m, s, entry), LAMBDA m1 :
        IF m1.st # "up" THEN m1
        ELSE Iput(Store(m1, s, Inode(m1, s)), s))

\* The first steps of both: an inode number, a block number and a slot that
\* holds the new inode, dirty.  A record [m, s, ino, blk].
NewMinode(m, type, links) ==
    LET ino == FreeIno(m)
        blk == FreeBlk(m)
    IN  With(Balloc(Ialloc(m)), LAMBDA m1 :
        With(IgetPtr(m1, ino), LAMBDA t :
        With(Deref(Iget(m1, ino), t), LAMBDA m2 :
            [m |-> IF m2.st # "up" THEN m2
                   ELSE Store(m2, t, INODE(type, links, blk)),
             s |-> t, ino |-> ino, blk |-> blk])))

\* kcreat(pmip, name): forces refCount to 0, whoever else holds the slot, so
\* that iput() writes the inode out.  i_block[12..14] are not modelled here.
Kcreat(m, s, name) ==
    IF m.st # "up" THEN m
    ELSE With(NewMinode(m, "reg", 1), LAMBDA new :
            IF new.m.st # "up" THEN new.m
            ELSE EnterAndRelease(
                    Iput([new.m EXCEPT !.minode[new.s].refCount = 0], new.s),
                    s, Entry(name, new.ino)))

\* Mutant: ".." is the current directory.
DotEntries_Cwd(m, s, ino) ==
    <<Entry(".", ino), Entry("..", m.minode[m.cwd].ino)>>

\* The first block of a new directory in the directory of slot s.
DotEntries(m, s, ino) == <<Entry(".", ino), Entry("..", m.minode[s].ino)>>

\* kmkdir(pmip, name): with no free block "." and ".." go to block 0.  The number of the
\* parent is read from its slot after the new inode has come and gone.
Kmkdir(m, s, name) ==
    IF m.st # "up" THEN m
    ELSE With(NewMinode(m, "dir", 2), LAMBDA new :
            IF new.m.st # "up" THEN new.m
            ELSE With(Iput(new.m, new.s), LAMBDA w :
                    EnterAndRelease(
                        [w EXCEPT !.dir[new.blk] = DotEntries(w, s, new.ino)],
                        s, Entry(name, new.ino))))
=============================================================================
