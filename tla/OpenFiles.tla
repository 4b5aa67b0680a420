----------------------------- MODULE OpenFiles ------------------------------
(***************************************************************************)
(* open, close, lseek, read, write, cat and cp on existing regular files:  *)
(* src/Final/src/open_close_lseek.c, read_cat.c, write_cp.c and            *)
(* myTruncate() of util.c, for the one process that types commands.        *)
(*                                                                         *)
(* Each file has a MINODE of its own here, with its reference count and    *)
(* lock; that the table of slots gives it one is MinodeCache.  The blocks  *)
(* are real: direct, indirect and double indirect pointers, with small     *)
(* numbers of them.  A machine m is a record of the variables; a routine   *)
(* is an operator from a machine to a machine, as in Machine.              *)
(***************************************************************************)
EXTENDS Integers, FiniteSets, Sequences

CONSTANTS Files,        \* regular files in the current directory
          Reusing,      \* those whose inode number had a file before
          Bytes,        \* what a file is made of
          Texts,        \* the texts typed after write
          Counts,       \* the numbers typed after read
          Seeks,        \* the positions typed after lseek
          Workload,     \* the commands a run types
          NFD,          \* descriptors of a process (2)
          BLKSIZE,      \* bytes in a block (1024)
          NDIRECT,      \* direct pointers of an inode (12)
          NIND,         \* pointers in a block (256)
          NBLOCKS,      \* blocks of the disk for files
          MaxSize,      \* bound: bytes of a file
          MaxRefs       \* bound: references to a file

ASSUME ParametersAssumption ==
    /\ {NFD, BLKSIZE, NDIRECT, NIND, NBLOCKS} \subseteq Nat \ {0}
    /\ MaxSize \in Nat /\ MaxSize <= (NDIRECT + NIND + NIND * NIND) * BLKSIZE

ASSUME InputsAssumption ==
    /\ 0 \notin Bytes /\ Texts \subseteq Seq(Bytes)
    /\ Counts \subseteq Nat /\ Seeks \subseteq Nat

\* At the start a file has a block, and what an earlier file of its number left; a
\* block is left.
ASSUME FilesAssumption ==
    /\ IsFiniteSet(Files) /\ Reusing \subseteq Files /\ "NULL" \notin Files
    /\ Cardinality(Files) < NBLOCKS
    /\ Reusing # {} => Cardinality(Files) * (NIND + 5) < NBLOCKS

VARIABLES core,         \* the MINODEs: Files -> [refCount, lock, dirty, INODE]
          itable,       \* the INODEs on disk
          data,         \* data blocks on disk: number -> bytes
          ptr,          \* pointer blocks on disk: number -> numbers
          bmap,         \* numbers marked in the block bitmap
          fd,           \* running->fd[]: the OFT, a file and an offset
          st            \* "up", or "undefined" when it reads past running->fd[]

vars == <<core, itable, data, ptr, bmap, fd, st>>

-----------------------------------------------------------------------------
Blks == 1 .. NBLOCKS
FDs == 0 .. NFD - 1
RD == 0
WR == 1
RW == 2
AP == 3
Modes == RD .. AP + 1           \* one number that is not a mode

\* i_block[12] and i_block[13].
IND == NDIRECT + 1
DIND == NDIRECT + 2

NoFile == "NULL"
Null == [file |-> NoFile, offset |-> 0]
Empty == [size |-> 0, block |-> [i \in 1 .. DIND |-> 0]]
Idle == [refCount |-> 0, lock |-> FALSE, dirty |-> FALSE, INODE |-> Empty]

ZeroData == [k \in 0 .. BLKSIZE - 1 |-> 0]
ZeroPtr == [k \in 0 .. NIND - 1 |-> 0]

\* The steps of a routine, one after the other: the result of a step, named.
With(result, Rest(_)) == Rest(result)

LeastOf(S) == CHOOSE x \in S : \A y \in S : x <= y
MostOf(S) == CHOOSE x \in S : \A y \in S : y <= x

\* The machine with one of its parts changed: the MINODE of f, a byte of a block,
\* the pointers of a block, an OFT, how it goes.
PutMinode(m, f, mip) == [m EXCEPT !.core[f] = mip]
PutByte(m, b, o, byte) == [m EXCEPT !.data[b] = [m.data[b] EXCEPT ![o] = byte]]
PutRow(m, b, row) == [m EXCEPT !.ptr[b] = row]
PutOFT(m, n, oft) == [m EXCEPT !.fd[n] = oft]
Fail(m, how) == [m EXCEPT !.st = how]

Inode(m, f) == m.core[f].INODE
Size(m, f) == Inode(m, f).size
Pointer(m, f, i) == Inode(m, f).block[i]

-----------------------------------------------------------------------------
(* util.c on a file that is found: getino() gives back what it takes, so   *)
(* that only the iget() after it is left.                                  *)

Iget(m, f) ==
    LET mip == m.core[f]
    IN  PutMinode(m, f, [mip EXCEPT !.refCount = @ + 1,
                                    !.INODE = IF mip.refCount = 0 THEN m.itable[f] ELSE @])

\* The INODE in core is forgotten with the last reference.  A dirty flag that
\* outlives it in the slot only makes iput() write what is on disk already.
Iput(m, f) ==
    LET mip == m.core[f]
    IN  IF mip.refCount > 1 THEN PutMinode(m, f, [mip EXCEPT !.refCount = @ - 1])
        ELSE PutMinode([m EXCEPT !.itable[f] = IF mip.dirty THEN mip.INODE ELSE @],
                       f, [Idle EXCEPT !.lock = mip.lock])

\* balloc(): the first clear bit, or 0, which the instances do not come to.
FreeBlk(m) == IF Blks \subseteq m.bmap THEN 0 ELSE LeastOf(Blks \ m.bmap)
Balloc(m) == [m EXCEPT !.bmap = @ \cup ({FreeBlk(m)} \cap Blks)]

\* myTruncate(): the size is all that changes in the inode.  bdalloc() clears
\* bits of the inode bitmap, which none of these commands reads (Machine has it),
\* so the blocks stay marked and the file goes on using them.
Resized(inode, size) == [inode EXCEPT !.size = size]
MyTruncate(m, f) ==
    PutMinode(m, f, [m.core[f] EXCEPT !.INODE = Resized(@, 0), !.dirty = TRUE])

-----------------------------------------------------------------------------
(* Logical block to physical block, as myRead() and mywrite() both do it.  *)
(* Block 0 is what a null pointer leads to: it is not mapped, and zero.     *)

\* Mutant: the second level is indexed with the first.
Map_Swapped(m, inode, lbk) ==
    LET far == lbk - (NIND + NDIRECT)
    IN  IF lbk < NDIRECT THEN inode.block[lbk + 1]
        ELSE IF far < 0 THEN m.ptr[inode.block[IND]][lbk - NDIRECT]
        ELSE m.ptr[m.ptr[inode.block[DIND]][far % NIND]][far \div NIND]

Map(m, inode, lbk) ==
    LET far == lbk - (NIND + NDIRECT)
    IN  IF lbk < NDIRECT THEN inode.block[lbk + 1]
        ELSE IF far < 0 THEN m.ptr[inode.block[IND]][lbk - NDIRECT]
        ELSE m.ptr[m.ptr[inode.block[DIND]][far \div NIND]][far % NIND]

\* A pointer of the inode, or of a pointer block, made to lead to a block.  A
\* block keeps bytes or pointers from its first use on; its pointers are zeroed,
\* which means nothing if it keeps bytes.
WithBlock(inode, i, b) == [inode EXCEPT !.block[i] = b]
InInode(m, f, i) ==
    LET b == FreeBlk(m)
        linked == [m.core[f] EXCEPT !.INODE = WithBlock(@, i, b)]
    IN  IF Pointer(m, f, i) # 0 THEN m
        ELSE PutMinode(PutRow(Balloc(m), b, ZeroPtr), f, linked)

\* Mutant: the new block is not marked.
InBlock_Unmarked(m, b, k) ==
    IF m.ptr[b][k] # 0 THEN m
    ELSE PutRow(PutRow(m, b, [m.ptr[b] EXCEPT ![k] = FreeBlk(m)]), FreeBlk(m), ZeroPtr)

InBlock(m, b, k) ==
    IF m.ptr[b][k] # 0 THEN m
    ELSE PutRow(PutRow(Balloc(m), b, [m.ptr[b] EXCEPT ![k] = FreeBlk(m)]),
                FreeBlk(m), ZeroPtr)

\* mywrite(): afterwards lbk has a data block.
Allocate(m, f, lbk) ==
    LET far == lbk - (NIND + NDIRECT)
    IN  IF lbk < NDIRECT THEN InInode(m, f, lbk + 1)
        ELSE IF far < 0
             THEN With(InInode(m, f, IND), LAMBDA m1 :
                       InBlock(m1, Pointer(m1, f, IND), lbk - NDIRECT))
        ELSE With(InInode(m, f, DIND), LAMBDA m1 :
             With(InBlock(m1, Pointer(m1, f, DIND), far \div NIND), LAMBDA m2 :
                  InBlock(m2, m2.ptr[Pointer(m2, f, DIND)][far \div NIND], far % NIND)))

-----------------------------------------------------------------------------
(* read_cat.c and write_cp.c.                                              *)

ByteAt(m, inode, i) == m.data[Map(m, inode, i \div BLKSIZE)][i % BLKSIZE]
Contents(m, inode) == [i \in 1 .. inode.size |-> ByteAt(m, inode, i - 1)]

\* Where myRead() begins and ends in block k, when it delivers the bytes from
\* position at up to position end.
Begins(k, at) == IF k * BLKSIZE > at THEN k * BLKSIZE ELSE at
Ends(k, end) == IF (k + 1) * BLKSIZE < end THEN (k + 1) * BLKSIZE ELSE end

\* What it leaves in buf[].  cq is not advanced, so that each block is copied to the
\* beginning of buf[]: a place holds the byte of the last block that got so far.
Covers(i, at, end) ==
    {k \in at \div BLKSIZE .. (end - 1) \div BLKSIZE : Begins(k, at) + i <= Ends(k, end)}

\* Mutant: copied from the beginning of the block.
Buffer_FromStart(m, inode, at, end) ==
    [i \in {i \in 1 .. BLKSIZE : Covers(i, at, end) # {}} |->
        ByteAt(m, inode, MostOf(Covers(i, at, end)) * BLKSIZE + i - 1)]
Buffer(m, inode, at, end) ==
    [i \in {i \in 1 .. BLKSIZE : Covers(i, at, end) # {}} |->
        ByteAt(m, inode, Begins(MostOf(Covers(i, at, end)), at) + i - 1)]

\* myRead(fd, buf, nbytes) of an open descriptor n: a record [m, n, buf].  A
\* block that begins with a byte 0 is taken for an empty file and ends it.
MyRead(m, n, nbytes) ==
    LET f == m.fd[n].file
        at == m.fd[n].offset
        avail == Size(m, f) - at
        count == IF nbytes < avail THEN nbytes ELSE avail
        blocks == IF count = 0 THEN {}
                  ELSE at \div BLKSIZE .. (at + count - 1) \div BLKSIZE
        empty == {k \in blocks : ByteAt(m, Inode(m, f), k * BLKSIZE) = 0}
        end == IF empty = {} THEN at + count ELSE Begins(LeastOf(empty), at)
    IN  [m |-> PutOFT(m, n, [file |-> f, offset |-> end]),
         n |-> IF empty = {} THEN count ELSE -1,
         buf |-> Buffer(m, Inode(m, f), at, end)]

\* Mutant: the size grows one byte late.
Grown_Late(inode, at) == IF at > inode.size THEN Resized(inode, inode.size + 1) ELSE inode
Grown(inode, at) == IF at + 1 > inode.size THEN Resized(inode, inode.size + 1) ELSE inode

\* The inner loop of mywrite() writes a byte; the outer one, at the first byte
\* of each block, has the block allocated.  Asking again finds it.
WriteByte(m, n, byte) ==
    LET f == m.fd[n].file
        at == m.fd[n].offset
    IN  With(Allocate(m, f, at \div BLKSIZE), LAMBDA m1 :
        With(PutByte(m1, Map(m1, Inode(m1, f), at \div BLKSIZE), at % BLKSIZE, byte), LAMBDA m2 :
        With(PutOFT(m2, n, [file |-> f, offset |-> at + 1]), LAMBDA m3 :
             PutMinode(m3, f, [m3.core[f] EXCEPT !.INODE = Grown(@, at)]))))

\* The mode of the descriptor is not looked at.
WriteBytes(m, n, text) ==
    LET after[k \in 0 .. Len(text)] ==
            IF k = 0 THEN m ELSE WriteByte(after[k - 1], n, text[k])
    IN  after
MyWrite(m, n, text) ==
    With(WriteBytes(m, n, text)[Len(text)], LAMBDA w :
         PutMinode(w, m.fd[n].file, [w.core[m.fd[n].file] EXCEPT !.dirty = TRUE]))

-----------------------------------------------------------------------------
(* open_close_lseek.c.                                                     *)

\* Mutant: the lock is not looked at.
MayOpen_Unlocked(m, f, mode) == mode # AP + 1

\* open_file() gets as far as the descriptors; otherwise the reference is
\* taken and never given back.
MayOpen(m, f, mode) == ~ m.core[f].lock /\ mode # AP + 1

\* open_file() on a file that exists: a record [m, n].  The index returned is
\* NFD when no descriptor is free: then the inode is locked, and emptied if
\* the mode is WR, and no descriptor refers to it.
OpenFile(m, f, mode) ==
    LET free == {i \in FDs : m.fd[i] = Null}
        n == IF free = {} THEN NFD ELSE LeastOf(free)
    IN  With(Iget(m, f), LAMBDA m1 :
            IF ~ MayOpen(m1, f, mode) THEN [m |-> m1, n |-> -1]
            ELSE With(IF mode = WR THEN MyTruncate(m1, f) ELSE m1, LAMBDA m2 :
                 With(PutMinode(m2, f, [m2.core[f] EXCEPT !.lock = TRUE, !.dirty = TRUE]),
                      LAMBDA m3 :
                        [n |-> n,
                         m |-> IF n = NFD THEN m3
                               ELSE PutOFT(m3, n, [file |-> f,
                                                   offset |-> IF mode = AP THEN Size(m3, f)
                                                              ELSE 0])])))

\* close_file(fd): the OFT is used before it is compared with NULL.  Its count
\* is always 1, dup() and dup2() having no command.
CloseFile(m, n) ==
    IF m.fd[n] = Null THEN Fail(m, "down")
    ELSE LET f == m.fd[n].file
         IN  Iput(PutMinode(PutOFT(m, n, Null), f, [m.core[f] EXCEPT !.lock = FALSE]), f)

\* Mutant: no upper end.
InFile_Always(m, f, pos) == TRUE

\* pos <= i_size; i_size is unsigned, so a negative pos is beyond it.
InFile(m, f, pos) == pos <= Size(m, f)

\* myLseek(): the reference is not given back; descriptor 0 is refused; for a
\* file that is not open the loop leaves openTable at the last OFT it met, or
\* without a value when it met none.
MyLseek(m, f, pos) ==
    LET used == {i \in FDs : m.fd[i] # Null}
        mine == {i \in used : m.fd[i].file = f}
        n == IF mine # {} THEN LeastOf(mine) ELSE MostOf(used)
    IN  With(Iget(m, f), LAMBDA m1 :
            IF mine # {} /\ n = 0 THEN m1
            ELSE IF used = {} THEN Fail(m1, "undefined")
            ELSE IF ~ InFile(m1, m1.fd[n].file, pos) THEN m1
            ELSE PutOFT(m1, n, [file |-> m1.fd[n].file, offset |-> pos]))

\* Mutant: the first descriptor is closed, not the one that was opened.
MyCat_First(m, f) ==
    With(OpenFile(m, f, RD), LAMBDA o :
        IF o.n < 0 THEN o.m
        ELSE IF o.n = NFD THEN Fail(o.m, "undefined")
        ELSE CloseFile(o.m, 0))

\* myCat(): the reads move an offset that the close drops.
MyCat(m, f) ==
    With(OpenFile(m, f, RD), LAMBDA o :
        IF o.n < 0 THEN o.m
        ELSE IF o.n = NFD THEN Fail(o.m, "undefined")
        ELSE CloseFile(o.m, o.n))

\* Mutant: all of the buffer is written, whatever was read.
CopyBlock_Whole(c, from, to) ==
    With(MyRead(c, from, BLKSIZE), LAMBDA r :
        IF r.n <= 0 THEN r.m
        ELSE MyWrite(r.m, to, [i \in 1 .. BLKSIZE |-> r.buf[IF i <= r.n THEN i ELSE 1]]))

\* One round of the loop of myCp(); what is left of the file ends it.
CopyBlock(c, from, to) ==
    With(MyRead(c, from, BLKSIZE), LAMBDA r :
        IF r.n <= 0 THEN r.m ELSE MyWrite(r.m, to, [i \in 1 .. r.n |-> r.buf[i]]))

CopyBlocks(m, from, to, rounds) ==
    LET after[k \in 0 .. rounds] ==
            IF k = 0 THEN m ELSE CopyBlock(after[k - 1], from, to)
    IN  after

\* myCp(f, g): a second reference to g is taken and kept, and g is opened RD.
\* A failure to open g leaves f open.
MyCp(m, f, g) ==
    With(OpenFile(m, f, RD), LAMBDA o :
            IF o.n < 0 THEN o.m
            ELSE With(OpenFile(Iget(o.m, g), g, RD), LAMBDA p :
                IF p.n < 0 THEN p.m
                ELSE IF NFD \in {o.n, p.n} THEN Fail(p.m, "undefined")
                ELSE LET rounds == 1 + Size(p.m, f) \div BLKSIZE
                     IN  With(CopyBlocks(p.m, o.n, p.n, rounds)[rounds], LAMBDA c :
                              CloseFile(CloseFile(c, o.n), p.n))))

-----------------------------------------------------------------------------
(* main.c: the commands.  Descriptors are typed within the array.          *)

Now == [core |-> core, itable |-> itable, data |-> data, ptr |-> ptr,
        bmap |-> bmap, fd |-> fd, st |-> st]

\* The bounds of the instance.
Bounded(m) == /\ \A f \in Files : /\ Size(m, f) <= MaxSize
                                  /\ m.core[f].refCount <= MaxRefs
              /\ m.bmap # Blks

\* The command leaves machine m.  A program that died is started again.
Leaves(m) ==
    LET dead == m.st = "down"
    IN  /\ Bounded(m)
        /\ core' = IF dead THEN [f \in Files |-> Idle] ELSE m.core
        /\ fd' = IF dead THEN [n \in FDs |-> Null] ELSE m.fd
        /\ st' = IF dead THEN "up" ELSE m.st
        /\ itable' = m.itable
        /\ data' = m.data
        /\ ptr' = m.ptr
        /\ bmap' = m.bmap

Runs(command) == st = "up" /\ command \in Workload

\* Without a number the mode is the one of the command before.
Open(f, mode) == Runs("open") /\ Leaves(OpenFile(Now, f, mode).m)
Close(n) == Runs("close") /\ Leaves(CloseFile(Now, n))
Lseek(f, pos) == Runs("lseek") /\ Leaves(MyLseek(Now, f, pos))

\* read_file() and write_file() do test that the descriptor is open.  The text
\* is what the buffer of main() holds up to a zero byte: the buffer is not
\* terminated, so it may be longer than what was typed.
Read(n, nbytes) == /\ Runs("read")
                   /\ fd[n] # Null
                   /\ Leaves(MyRead(Now, n, nbytes).m)
Write(n, text) == /\ Runs("write")
                  /\ fd[n] # Null
                  /\ fd[n].offset + Len(text) <= MaxSize
                  /\ Leaves(MyWrite(Now, n, text))
Cat(f) == Runs("cat") /\ Leaves(MyCat(Now, f))
Cp(f, g) == Runs("cp") /\ Leaves(MyCp(Now, f, g))

\* quit() gives one reference of each MINODE back.
Quit == /\ Runs("quit")
        /\ Leaves([Now EXCEPT
                     !.itable = [f \in Files |-> IF core[f].refCount = 1 /\ core[f].dirty
                                                 THEN core[f].INODE ELSE @[f]],
                     !.st = "down"])
Kill == Runs("kill") /\ Leaves(Fail(Now, "down"))

Next == \/ \E f \in Files : \/ \E mode \in Modes : Open(f, mode)
                            \/ \E pos \in Seeks : Lseek(f, pos)
                            \/ Cat(f)
                            \/ \E g \in Files : Cp(f, g)
        \/ \E n \in FDs : \/ Close(n)
                          \/ \E nbytes \in Counts : Read(n, nbytes)
                          \/ \E text \in Texts : Write(n, text)
        \/ Quit \/ Kill

\* Files that creat made: size 0 and one block.  kcreat() leaves i_block[12] and
\* i_block[13] as they were, so a file may start with the indirect blocks of an earlier
\* file of its number, whose blocks are still marked.
N == Cardinality(Files)
Nth == CHOOSE nth \in [Files -> 1 .. N] : \A f, g \in Files : nth[f] = nth[g] => f = g
Block(f, k) == N * k + Nth[f]

\* The blocks of f by the levels of pointers left over, 0 to 2.  Block 1 is the indirect
\* one, 2 the double indirect one, which leads to 3 and from there to 4; the indirect one
\* leads to 5, and with two levels, which come after a full first one, to all from 5 on.
LeftOver(level) == {0} \cup (IF level >= 1 THEN {1, 5} ELSE {})
                       \cup (IF level = 2 THEN {2, 3, 4} \cup 5 .. NIND + 4 ELSE {})
LeftRow(left, b, k) ==
    IF \E f \in Files : left[f] >= 1 /\ b = Block(f, 1) /\ 5 + k \in LeftOver(left[f])
    THEN b + N * (4 + k)
    ELSE IF k = 0 /\ \E f \in Files : left[f] = 2 /\ b \in {Block(f, 2), Block(f, 3)}
    THEN b + N
    ELSE 0

Disk(left) ==
    /\ itable = [f \in Files |->
          [Empty EXCEPT !.block[1] = Block(f, 0),
                        !.block[IND] = IF left[f] >= 1 THEN Block(f, 1) ELSE 0,
                        !.block[DIND] = IF left[f] = 2 THEN Block(f, 2) ELSE 0]]
    /\ ptr = [b \in 0 .. NBLOCKS |-> [k \in 0 .. NIND - 1 |-> LeftRow(left, b, k)]]
    /\ bmap = UNION {{Block(f, k) : k \in LeftOver(left[f])} : f \in Files}
    /\ \E old \in Bytes :
          data = [b \in 0 .. NBLOCKS |->
                    IF \E f \in Files : \E k \in LeftOver(left[f]) : k >= 4 /\ b = Block(f, k)
                    THEN [o \in 0 .. BLKSIZE - 1 |-> old] ELSE ZeroData]

Init ==
    /\ \E left \in [Files -> 0 .. 2] : (\A f \in Files \ Reusing : left[f] = 0) /\ Disk(left)
    /\ core = [f \in Files |-> Idle]
    /\ fd = [n \in FDs |-> Null]
    /\ st = "up"

Spec == Init /\ [][Next]_vars

-----------------------------------------------------------------------------
\* The INODE of a file as the program sees it.
Current(f) == IF core[f].refCount > 0 THEN core[f].INODE ELSE itable[f]

INODEs == [size : 0 .. MaxSize, block : [1 .. DIND -> 0 .. NBLOCKS]]
MINODEs == [refCount : Nat, lock : BOOLEAN, dirty : BOOLEAN, INODE : INODEs]

\* The state has its type: sizes, offsets and pointers are in range.
TypeOK ==
    /\ core \in [Files -> MINODEs]
    /\ itable \in [Files -> INODEs]
    /\ data \in [0 .. NBLOCKS -> [0 .. BLKSIZE - 1 -> Bytes \cup {0}]]
    /\ ptr \in [0 .. NBLOCKS -> [0 .. NIND - 1 -> 0 .. NBLOCKS]]
    /\ bmap \subseteq Blks
    /\ fd \in [FDs -> [file : Files, offset : 0 .. MaxSize] \cup {Null}]
    /\ st \in {"up", "undefined"}

\* "open: pathname %s is already open": an open file is locked and held, and
\* no second descriptor refers to it, whatever was opened, refused and closed
\* before; and no slot is given back locked, which iget() would hand on.
LockGuardsOpen ==
    /\ \A n \in FDs : fd[n] # Null =>
          /\ core[fd[n].file].lock
          /\ core[fd[n].file].refCount > 0
          /\ \A k \in FDs \ {n} : fd[k].file # fd[n].file
    /\ \A f \in Files : core[f].lock => core[f].refCount > 0

\* The pointers that are not null of an inode and of its pointer blocks: the
\* place of each, and the block it leads to.
Row(place, to) == {[at |-> <<place, k>>, to |-> to[k]] : k \in {k \in DOMAIN to : to[k] # 0}}
Under(S) == UNION {Row(p.to, ptr[p.to]) : p \in S}
Pointers(f, inode) ==
    LET top == Row(f, inode.block)
        ofInd == Under({p \in top : p.at[2] = IND})
        ofDind == Under({p \in top : p.at[2] = DIND})
    IN  top \cup ofInd \cup ofDind \cup Under(ofDind)

\* No block has two pointers to it, in the inodes as the program sees them and
\* in those a crash would bring back, indirect blocks and the blocks left over
\* by truncation and by crashes included, and every one is marked in use.
BlocksPrivate ==
    LET all == UNION {Pointers(f, Current(f)) \cup Pointers(f, itable[f]) : f \in Files}
    IN  /\ \A p, q \in all : p.to = q.to => p = q
        /\ {p.to : p \in all} \subseteq bmap

\* A file is a sequence of bytes, and open at one place at most.
Opens(f) == {n \in FDs : fd[n].file = f}
Holds == [f \in Files |-> Contents(Now, Current(f))]
Saves == [f \in Files |-> Contents(Now, itable[f])]
At == [f \in Files |-> IF Opens(f) = {} THEN -1 ELSE fd[LeastOf(Opens(f))].offset]

\* A read of an open file: how many bytes it is to deliver, and which.
Due(n, nbytes) ==
    LET left == Size(Now, fd[n].file) - fd[n].offset
    IN  IF nbytes < left THEN nbytes ELSE left
Wanted(n, nbytes) ==
    SubSeq(Holds[fd[n].file], fd[n].offset + 1, fd[n].offset + Due(n, nbytes))

\* A read of an open file delivers what is left of it, up to the number asked
\* for: no block of a text passes for an empty file, and no offset is behind the
\* end, where avail is negative and memcpy() is given a negative number.  If it
\* stays in one block, as those of cat and cp do, the bytes are in buf[].  Of a read
\* of more than one block they are not: each is copied over the one before.
ReadsDeliver ==
    \A n \in FDs : \A nbytes \in Counts : fd[n] # Null =>
        /\ Due(n, nbytes) >= 0
        /\ MyRead(Now, n, nbytes).n = Due(n, nbytes)
        /\ (fd[n].offset % BLKSIZE) + Due(n, nbytes) <= BLKSIZE =>
                MyRead(Now, n, nbytes).buf = Wanted(n, nbytes)

Abstract == INSTANCE ByteFiles WITH
                Closed <- -1, bytes <- Holds, saved <- Saves, offset <- At

\* The files are sequences of bytes, before and after the end of the program,
\* across all levels of block pointers.
ImplementsByteFiles == Abstract!Spec
=============================================================================
