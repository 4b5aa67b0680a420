-------------------------- MODULE OpenFilesProofs ---------------------------
(***************************************************************************)
(* Theorems about OpenFiles, for every number of files, descriptors,       *)
(* blocks and pointers.  First the lemmas: what the routines of util.c do  *)
(* to the references, and what the allocation of a block and the writing   *)
(* of a byte do to the block pointers and the bytes of all files.  Then    *)
(* what the routines and the commands keep.                                *)
(***************************************************************************)
EXTENDS OpenFiles, Numbers, SequenceTheorems

-----------------------------------------------------------------------------
(* Numbers.                                                                *)

\* The parameters are positive numbers.
LEMMA Constants ==
    /\ NFD \in Nat /\ NFD > 0 /\ BLKSIZE \in Nat /\ BLKSIZE > 0
    /\ NDIRECT \in Nat /\ NDIRECT > 0 /\ NIND \in Nat /\ NIND > 0
    /\ NBLOCKS \in Nat /\ NBLOCKS > 0 /\ MaxSize \in Nat
BY ParametersAssumption

\* Division leaves a quotient and a rest.
LEMMA Division ==
    ASSUME NEW a \in Nat, NEW n \in Nat, n > 0
    PROVE  /\ a \div n \in Nat /\ a % n \in 0 .. n - 1
           /\ a = n * (a \div n) + (a % n)
OBVIOUS

\* A quotient is below k if what is divided is below k times the divisor.
LEMMA QuotientBelow ==
    ASSUME NEW a \in Nat, NEW n \in Nat, n > 0, NEW k \in Nat, a < k * n
    PROVE  a \div n \in 0 .. k - 1
<1> DEFINE q == a \div n
<1>1. q \in Nat /\ n * q <= a
  BY Division
<1>2. ASSUME q >= k PROVE FALSE
  <2>0. PICK d \in Nat : q = k + d
    <3>1. q - k \in Nat /\ q = k + (q - k)
      BY <1>1, <1>2
    <3> QED BY <3>1
  <2> HIDE DEF q
  <2>1. n * q = n * k + n * d
    BY <2>0
  <2>2. n * d >= 0
    OBVIOUS
  <2>3. k * n = n * k /\ n * k \in Nat
    OBVIOUS
  <2> QED BY <1>1, <2>1, <2>2, <2>3
<1> QED BY <1>1, <1>2

\* Logical blocks below MaxSize are within the three ranges of pointers.
LEMMA BlockInRange ==
    ASSUME NEW at \in 0 .. MaxSize - 1
    PROVE  /\ at \div BLKSIZE \in Nat
           /\ at \div BLKSIZE < NDIRECT + NIND + NIND * NIND
           /\ at % BLKSIZE \in 0 .. BLKSIZE - 1
<1>1. NIND * NIND \in Nat
  BY Constants
<1> DEFINE all == NDIRECT + NIND + NIND * NIND
<1>2. all \in Nat
  BY <1>1, Constants
<1>3. at \in Nat /\ at < all * BLKSIZE
  <2>1. all * BLKSIZE \in Nat
    BY <1>2, Constants
  <2> QED BY <2>1, Constants, ParametersAssumption
<1> HIDE DEF all
<1>4. at \div BLKSIZE \in 0 .. all - 1
  BY <1>2, <1>3, QuotientBelow, Constants
<1> QED BY <1>2, <1>3, <1>4, Division, Constants DEF all

\* The two indices in the double indirect range.
LEMMA FarInRange ==
    ASSUME NEW lbk \in Nat, lbk < NDIRECT + NIND + NIND * NIND, lbk - (NIND + NDIRECT) >= 0
    PROVE  /\ (lbk - (NIND + NDIRECT)) \div NIND \in 0 .. NIND - 1
           /\ (lbk - (NIND + NDIRECT)) % NIND \in 0 .. NIND - 1
<1> DEFINE far == lbk - (NIND + NDIRECT)
<1>1. NIND * NIND \in Nat
  BY Constants
<1>2. far \in Nat /\ far < NIND * NIND
  BY <1>1, Constants
<1> HIDE DEF far
<1>3. far \div NIND \in 0 .. NIND - 1 /\ far % NIND \in 0 .. NIND - 1
  BY <1>2, QuotientBelow, Division, Constants
<1> QED BY <1>3 DEF far

\* LeastOf is the least one of a set of numbers that is not empty.
LEMMA LeastExists ==
    ASSUME NEW S, S \subseteq Nat, S # {}
    PROVE  LeastOf(S) \in S /\ LeastOf(S) \in Nat /\ \A y \in S : LeastOf(S) <= y
<1>1. \E x \in S : \A y \in S : x <= y
  BY LeastNumber
<1> QED BY <1>1 DEF LeastOf

\* MostOf is the greatest one of a set of numbers up to a bound.
LEMMA MostExists ==
    ASSUME NEW k \in Nat, NEW S, S \subseteq 0 .. k, S # {}
    PROVE  MostOf(S) \in S /\ \A y \in S : y <= MostOf(S)
<1> DEFINE T == {k - x : x \in S}
<1>1. T \subseteq Nat /\ T # {}
  <2>1. \A x \in S : k - x \in Nat
    OBVIOUS
  <2> QED BY <2>1
<1>2. PICK x \in S : \A y \in S : k - x <= k - y
  <2>1. LeastOf(T) \in T /\ \A y \in T : LeastOf(T) <= y
    <3> HIDE DEF T
    <3> QED BY <1>1, LeastExists
  <2>2. PICK x \in S : LeastOf(T) = k - x
    BY <2>1
  <2> QED BY <2>1, <2>2
<1>3. \A y \in S : y <= x
  BY <1>2
<1> QED BY <1>3 DEF MostOf

-----------------------------------------------------------------------------
(* Machines: what the parts of one are, and what the operators that change *)
(* one part leave of the others.                                           *)

\* The parts of a machine, and machines.
OFTs == [file : Files, offset : 0 .. MaxSize]
Rows == [0 .. NIND - 1 -> 0 .. NBLOCKS]
Machines == [core : [Files -> MINODEs], itable : [Files -> INODEs],
             data : [0 .. NBLOCKS -> [0 .. BLKSIZE - 1 -> Bytes \cup {0}]],
             ptr : [0 .. NBLOCKS -> Rows], bmap : SUBSET Blks,
             fd : [FDs -> OFTs \cup {Null}], st : {"up", "down", "undefined"}]

\* The parts of a machine.
LEMMA Parts ==
    ASSUME NEW m \in Machines
    PROVE  /\ m.core \in [Files -> MINODEs] /\ m.itable \in [Files -> INODEs]
           /\ m.data \in [0 .. NBLOCKS -> [0 .. BLKSIZE - 1 -> Bytes \cup {0}]]
           /\ m.ptr \in [0 .. NBLOCKS -> Rows] /\ m.bmap \subseteq Blks
           /\ m.fd \in [FDs -> OFTs \cup {Null}] /\ m.st \in {"up", "down", "undefined"}
BY DEF Machines

\* The parts of a MINODE and of an INODE.
LEMMA MinodeParts ==
    ASSUME NEW m \in Machines, NEW f \in Files
    PROVE  /\ m.core[f] \in MINODEs /\ m.core[f].refCount \in Nat
           /\ m.core[f].lock \in BOOLEAN /\ m.core[f].dirty \in BOOLEAN
           /\ m.core[f].INODE \in INODEs /\ Size(m, f) \in 0 .. MaxSize
           /\ m.core[f].INODE.block \in [1 .. DIND -> 0 .. NBLOCKS]
           /\ m.itable[f] \in INODEs /\ m.itable[f].size \in 0 .. MaxSize
           /\ m.itable[f].block \in [1 .. DIND -> 0 .. NBLOCKS]
BY Parts DEF MINODEs, INODEs, Size, Inode

\* An OFT that is not free is of a file.
LEMMA OpenOFT ==
    ASSUME NEW m \in Machines, NEW n \in FDs
    PROVE  /\ m.fd[n] # Null <=> m.fd[n] \in OFTs
           /\ m.fd[n] # Null <=> m.fd[n].file \in Files
           /\ m.fd[n] # Null => /\ m.fd[n].offset \in 0 .. MaxSize
                                /\ m.fd[n].offset \in Nat
<1>1. m.fd[n] \in OFTs \cup {Null}
  BY Parts
<1>2. Null.file \notin Files
  BY FilesAssumption DEF Null, NoFile
<1> QED BY <1>1, <1>2, Constants DEF OFTs

\* What PutMinode() makes: a machine whose other parts are as they were.
LEMMA PutMinodeMakes ==
    ASSUME NEW m \in Machines, NEW f \in Files, NEW mip \in MINODEs
    PROVE  LET r == PutMinode(m, f, mip)
           IN  /\ r \in Machines /\ r.core = [m.core EXCEPT ![f] = mip]
               /\ r.itable = m.itable /\ r.data = m.data /\ r.ptr = m.ptr
               /\ r.bmap = m.bmap /\ r.fd = m.fd /\ r.st = m.st
BY DEF PutMinode, Machines

\* What PutOFT() makes: a machine that differs in one descriptor.
LEMMA PutOFTMakes ==
    ASSUME NEW m \in Machines, NEW n \in FDs, NEW oft \in OFTs \cup {Null}
    PROVE  LET r == PutOFT(m, n, oft)
           IN  /\ r \in Machines /\ r.fd = [m.fd EXCEPT ![n] = oft]
               /\ r.itable = m.itable /\ r.data = m.data /\ r.ptr = m.ptr
               /\ r.bmap = m.bmap /\ r.core = m.core /\ r.st = m.st
BY DEF PutOFT, Machines

\* What PutRow() makes: a machine that differs in one block of pointers.
LEMMA PutRowMakes ==
    ASSUME NEW m \in Machines, NEW b \in 0 .. NBLOCKS, NEW row \in Rows
    PROVE  LET r == PutRow(m, b, row)
           IN  /\ r \in Machines /\ r.ptr = [m.ptr EXCEPT ![b] = row]
               /\ r.itable = m.itable /\ r.data = m.data /\ r.core = m.core
               /\ r.bmap = m.bmap /\ r.fd = m.fd /\ r.st = m.st
BY DEF PutRow, Machines

\* What PutByte() makes: a machine that differs in one byte of one block.
LEMMA PutByteMakes ==
    ASSUME NEW m \in Machines, NEW b \in 0 .. NBLOCKS, NEW o \in 0 .. BLKSIZE - 1,
           NEW byte \in Bytes \cup {0}
    PROVE  LET r == PutByte(m, b, o, byte)
           IN  /\ r \in Machines
               /\ r.data = [m.data EXCEPT ![b] = [m.data[b] EXCEPT ![o] = byte]]
               /\ r.itable = m.itable /\ r.ptr = m.ptr /\ r.core = m.core
               /\ r.bmap = m.bmap /\ r.fd = m.fd /\ r.st = m.st
<1>1. [m.data[b] EXCEPT ![o] = byte] \in [0 .. BLKSIZE - 1 -> Bytes \cup {0}]
  BY Parts
<1> DEFINE bytes == [m.data[b] EXCEPT ![o] = byte]
<1> HIDE DEF bytes
<1>2. LET r == [m EXCEPT !.data[b] = bytes]
      IN  /\ r \in Machines /\ r.data = [m.data EXCEPT ![b] = bytes]
          /\ r.itable = m.itable /\ r.ptr = m.ptr /\ r.core = m.core
          /\ r.bmap = m.bmap /\ r.fd = m.fd /\ r.st = m.st
  BY <1>1 DEF Machines, bytes
<1> QED BY <1>2 DEF PutByte, bytes

\* A machine in undefined behaviour is a machine still.
LEMMA FailMakes ==
    ASSUME NEW m \in Machines, NEW how \in {"down", "undefined"}
    PROVE  LET r == Fail(m, how)
           IN  /\ r \in Machines /\ r.st = how
               /\ r.itable = m.itable /\ r.data = m.data /\ r.ptr = m.ptr
               /\ r.bmap = m.bmap /\ r.fd = m.fd /\ r.core = m.core
BY DEF Fail, Machines

-----------------------------------------------------------------------------
(* The routines of util.c.                                                 *)

\* The empty INODE is an INODE and the idle MINODE a MINODE.
LEMMA EmptyInode == Empty \in INODEs /\ Idle \in MINODEs
<1>1. DIND \in Nat
  BY Constants DEF DIND
<1>2. [i \in 1 .. DIND |-> 0] \in [1 .. DIND -> 0 .. NBLOCKS]
  BY Constants
<1>3. Empty \in INODEs
  BY <1>2, Constants DEF Empty, INODEs
<1> QED BY <1>3 DEF Idle, MINODEs

\* iget() adds a reference, and the first one loads the INODE.
LEMMA IgetMakes ==
    ASSUME NEW m \in Machines, NEW f \in Files
    PROVE  LET r == Iget(m, f)
           IN  /\ r \in Machines /\ r.itable = m.itable /\ r.data = m.data
               /\ r.ptr = m.ptr /\ r.bmap = m.bmap /\ r.fd = m.fd /\ r.st = m.st
               /\ r.core[f].refCount = m.core[f].refCount + 1
               /\ r.core[f].lock = m.core[f].lock /\ r.core[f].dirty = m.core[f].dirty
               /\ r.core[f].INODE = IF m.core[f].refCount = 0 THEN m.itable[f]
                                    ELSE m.core[f].INODE
               /\ \A g \in Files \ {f} : r.core[g] = m.core[g]
<1> DEFINE old == m.core[f]
           rc == old.refCount + 1
           i == IF old.refCount = 0 THEN m.itable[f] ELSE old.INODE
           mip == [old EXCEPT !.refCount = rc, !.INODE = i]
<1>1. old \in MINODEs /\ rc \in Nat /\ i \in INODEs
  BY MinodeParts
<1>2. Iget(m, f) = PutMinode(m, f, mip)
  BY DEF Iget
<1> HIDE DEF old, rc, i
<1>3. mip \in MINODEs
      /\ mip.refCount = rc /\ mip.lock = old.lock
      /\ mip.dirty = old.dirty /\ mip.INODE = i
  BY <1>1 DEF MINODEs
<1> HIDE DEF mip
<1>4. /\ Iget(m, f) \in Machines /\ Iget(m, f).core = [m.core EXCEPT ![f] = mip]
      /\ Iget(m, f).itable = m.itable /\ Iget(m, f).data = m.data
      /\ Iget(m, f).ptr = m.ptr /\ Iget(m, f).bmap = m.bmap
      /\ Iget(m, f).fd = m.fd /\ Iget(m, f).st = m.st
  BY <1>2, <1>3, PutMinodeMakes
<1>5. Iget(m, f).core[f] = mip /\ \A g \in Files \ {f} : Iget(m, f).core[g] = m.core[g]
  BY <1>4, Parts
<1> QED BY <1>3, <1>4, <1>5 DEF old, rc, i

\* iput() takes one away; the last one saves a dirty INODE.
LEMMA IputMakes ==
    ASSUME NEW m \in Machines, NEW f \in Files
    PROVE  LET r == Iput(m, f)
           IN  /\ r \in Machines /\ r.data = m.data
               /\ r.ptr = m.ptr /\ r.bmap = m.bmap /\ r.fd = m.fd /\ r.st = m.st
               /\ r.core[f].lock = m.core[f].lock
               /\ \A g \in Files \ {f} : r.core[g] = m.core[g] /\ r.itable[g] = m.itable[g]
               /\ IF m.core[f].refCount > 1
                  THEN /\ r.core[f].refCount = m.core[f].refCount - 1
                       /\ r.core[f].INODE = m.core[f].INODE /\ r.itable[f] = m.itable[f]
                       /\ r.core[f].dirty = m.core[f].dirty
                  ELSE /\ r.core[f].refCount = 0
                       /\ r.itable[f] = IF m.core[f].dirty THEN m.core[f].INODE
                                        ELSE m.itable[f]
<1>1. CASE m.core[f].refCount > 1
  <2> DEFINE old == m.core[f]
             rc == old.refCount - 1
             mip == [old EXCEPT !.refCount = rc]
  <2>1. old \in MINODEs /\ rc \in Nat
    BY <1>1, MinodeParts
  <2>2. Iput(m, f) = PutMinode(m, f, mip)
    BY <1>1 DEF Iput
  <2> HIDE DEF old, rc
  <2>3. mip \in MINODEs /\ mip.refCount = rc /\ mip.lock = old.lock
        /\ mip.dirty = old.dirty /\ mip.INODE = old.INODE
    BY <2>1 DEF MINODEs
  <2> HIDE DEF mip
  <2>4. /\ Iput(m, f) \in Machines /\ Iput(m, f).core = [m.core EXCEPT ![f] = mip]
        /\ Iput(m, f).itable = m.itable /\ Iput(m, f).data = m.data
        /\ Iput(m, f).ptr = m.ptr /\ Iput(m, f).bmap = m.bmap
        /\ Iput(m, f).fd = m.fd /\ Iput(m, f).st = m.st
    BY <2>2, <2>3, PutMinodeMakes
  <2>5. Iput(m, f).core[f] = mip /\ \A g \in Files \ {f} : Iput(m, f).core[g] = m.core[g]
    BY <2>4, Parts
  <2> QED BY <1>1, <2>3, <2>4, <2>5 DEF old, rc
<1>2. CASE ~ (m.core[f].refCount > 1)
  <2> DEFINE i == IF m.core[f].dirty THEN m.core[f].INODE ELSE m.itable[f]
             m1 == [m EXCEPT !.itable[f] = i]
             l == m.core[f].lock
             mip == [Idle EXCEPT !.lock = l]
  <2>1. Iput(m, f) = PutMinode(m1, f, mip)
    BY <1>2 DEF Iput
  <2>2. i \in INODEs /\ l \in BOOLEAN
    BY MinodeParts
  <2> HIDE DEF i, l
  <2>3. /\ m1 \in Machines /\ m1.itable = [m.itable EXCEPT ![f] = i]
        /\ m1.core = m.core /\ m1.data = m.data /\ m1.ptr = m.ptr /\ m1.bmap = m.bmap
        /\ m1.fd = m.fd /\ m1.st = m.st
    BY <2>2 DEF Machines
  <2>4. mip \in MINODEs /\ mip.refCount = 0 /\ mip.lock = l
    <3>1. Idle.refCount = 0 /\ Idle \in MINODEs
      BY EmptyInode DEF Idle
    <3> HIDE DEF Idle
    <3> QED BY <2>2, <3>1 DEF MINODEs
  <2> HIDE DEF m1, mip
  <2>5. /\ Iput(m, f) \in Machines /\ Iput(m, f).core = [m.core EXCEPT ![f] = mip]
        /\ Iput(m, f).itable = [m.itable EXCEPT ![f] = i] /\ Iput(m, f).data = m.data
        /\ Iput(m, f).ptr = m.ptr /\ Iput(m, f).bmap = m.bmap
        /\ Iput(m, f).fd = m.fd /\ Iput(m, f).st = m.st
    BY <2>1, <2>3, <2>4, PutMinodeMakes
  <2>6. Iput(m, f).core[f] = mip /\ Iput(m, f).itable[f] = i
        /\ \A g \in Files \ {f} : /\ Iput(m, f).core[g] = m.core[g]
                                  /\ Iput(m, f).itable[g] = m.itable[g]
    BY <2>5, Parts
  <2> QED BY <1>2, <2>4, <2>5, <2>6 DEF i, l
<1> QED BY <1>1, <1>2

\* An INODE with another size, or another pointer.
LEMMA InodeOf ==
    ASSUME NEW inode \in INODEs
    PROVE  /\ \A size \in 0 .. MaxSize :
                /\ Resized(inode, size) \in INODEs /\ Resized(inode, size).size = size
                /\ Resized(inode, size).block = inode.block
           /\ \A i \in 1 .. DIND, b \in 0 .. NBLOCKS :
                /\ WithBlock(inode, i, b) \in INODEs
                /\ WithBlock(inode, i, b).size = inode.size
                /\ WithBlock(inode, i, b).block = [inode.block EXCEPT ![i] = b]
BY DEF Resized, WithBlock, INODEs

\* The truncation leaves the blocks where they are.
LEMMA MyTruncateMakes ==
    ASSUME NEW m \in Machines, NEW f \in Files
    PROVE  LET r == MyTruncate(m, f)
           IN  /\ r \in Machines /\ r.itable = m.itable /\ r.data = m.data
               /\ r.ptr = m.ptr /\ r.bmap = m.bmap /\ r.fd = m.fd /\ r.st = m.st
               /\ r.core[f].refCount = m.core[f].refCount
               /\ r.core[f].lock = m.core[f].lock /\ r.core[f].dirty
               /\ r.core[f].INODE = Resized(m.core[f].INODE, 0)
               /\ \A g \in Files \ {f} : r.core[g] = m.core[g]
<1> DEFINE old == m.core[f]
           i == Resized(old.INODE, 0)
           mip == [old EXCEPT !.INODE = i, !.dirty = TRUE]
<1>1. old \in MINODEs /\ i \in INODEs
  <2>1. old \in MINODEs /\ old.INODE \in INODEs /\ 0 \in 0 .. MaxSize
    BY MinodeParts, Constants
  <2> HIDE DEF old
  <2> QED BY <2>1, InodeOf
<1>2. MyTruncate(m, f) = PutMinode(m, f, mip)
  BY DEF MyTruncate
<1> HIDE DEF old, i
<1>3. /\ mip \in MINODEs /\ mip.refCount = old.refCount
      /\ mip.lock = old.lock /\ mip.dirty /\ mip.INODE = i
  BY <1>1 DEF MINODEs
<1> HIDE DEF mip
<1>4. /\ MyTruncate(m, f) \in Machines
      /\ MyTruncate(m, f).core = [m.core EXCEPT ![f] = mip]
      /\ MyTruncate(m, f).itable = m.itable /\ MyTruncate(m, f).data = m.data
      /\ MyTruncate(m, f).ptr = m.ptr /\ MyTruncate(m, f).bmap = m.bmap
      /\ MyTruncate(m, f).fd = m.fd /\ MyTruncate(m, f).st = m.st
  BY <1>2, <1>3, PutMinodeMakes
<1>5. /\ MyTruncate(m, f).core[f] = mip
      /\ \A g \in Files \ {f} : MyTruncate(m, f).core[g] = m.core[g]
  BY <1>4, Parts
<1> QED BY <1>3, <1>4, <1>5 DEF old, i

-----------------------------------------------------------------------------
(* Blocks that are found and made for a file.                              *)

\* What the allocation of a block for file f leaves as it was.
Kept(m, r, f) ==
    /\ r.itable = m.itable /\ r.data = m.data /\ r.fd = m.fd /\ r.st = m.st
    /\ \A g \in Files \ {f} : r.core[g] = m.core[g]
    /\ r.core[f].refCount = m.core[f].refCount /\ r.core[f].lock = m.core[f].lock
    /\ r.core[f].dirty = m.core[f].dirty /\ Size(r, f) = Size(m, f)
    /\ m.bmap \subseteq r.bmap

\* What two routines keep, one after the other, is kept.
LEMMA KeptTransitive ==
    ASSUME NEW m, NEW r, NEW s, NEW f, Kept(m, r, f), Kept(r, s, f)
    PROVE  Kept(m, s, f)
BY DEF Kept

\* The three kinds of pointers of an INODE: direct, indirect, doubly indirect.
LEMMA Levels ==
    /\ DIND \in Nat /\ IND \in 1 .. DIND /\ DIND \in 1 .. DIND /\ IND # DIND
    /\ \A i \in 0 .. NDIRECT - 1 : i + 1 \in 1 .. DIND /\ i + 1 # IND /\ i + 1 # DIND
BY Constants DEF IND, DIND

\* Blocks of zeros are blocks of pointers and blocks of data.
LEMMA Zeros ==
    /\ ZeroPtr \in Rows /\ \A k \in 0 .. NIND - 1 : ZeroPtr[k] = 0
    /\ ZeroData \in [0 .. BLKSIZE - 1 -> {0}] /\ \A k \in 0 .. BLKSIZE - 1 : ZeroData[k] = 0
BY Constants DEF ZeroPtr, ZeroData, Rows

\* balloc() gives a block that is clear in the bitmap, or 0 if none is.
LEMMA FreeBlkFree ==
    ASSUME NEW m \in Machines
    PROVE  /\ FreeBlk(m) \in 0 .. NBLOCKS
           /\ m.bmap = Blks => FreeBlk(m) = 0
           /\ m.bmap # Blks => FreeBlk(m) \in Blks \ m.bmap /\ FreeBlk(m) # 0
<1>1. m.bmap \subseteq Blks /\ Blks \subseteq Nat /\ 0 \notin Blks
      /\ Blks \subseteq 0 .. NBLOCKS
  BY Parts, Constants DEF Blks
<1>2. CASE m.bmap = Blks
  BY <1>2, <1>1, Constants DEF FreeBlk
<1>3. CASE m.bmap # Blks
  <2>1. Blks \ m.bmap # {} /\ Blks \ m.bmap \subseteq Nat
    BY <1>1, <1>3
  <2>2. LeastOf(Blks \ m.bmap) \in Blks \ m.bmap
    BY <2>1, LeastExists
  <2>3. FreeBlk(m) = LeastOf(Blks \ m.bmap)
    BY <1>1, <1>3 DEF FreeBlk
  <2> QED BY <1>1, <1>3, <2>2, <2>3
<1> QED BY <1>2, <1>3

\* balloc() marks a block and gives its number, and 0 when none is free.
LEMMA BallocMakes ==
    ASSUME NEW m \in Machines
    PROVE  LET r == Balloc(m)
           IN  /\ r \in Machines /\ r.core = m.core /\ r.itable = m.itable
               /\ r.data = m.data /\ r.ptr = m.ptr /\ r.fd = m.fd /\ r.st = m.st
               /\ r.bmap = m.bmap \cup ({FreeBlk(m)} \cap Blks)
<1> DEFINE bmap1 == m.bmap \cup ({FreeBlk(m)} \cap Blks)
<1>1. bmap1 \subseteq Blks
  BY Parts
<1>2. Balloc(m) = [m EXCEPT !.bmap = bmap1]
  BY DEF Balloc
<1> HIDE DEF bmap1
<1>3. LET r == [m EXCEPT !.bmap = bmap1]
      IN  /\ r \in Machines /\ r.core = m.core /\ r.itable = m.itable
          /\ r.data = m.data /\ r.ptr = m.ptr /\ r.fd = m.fd /\ r.st = m.st
          /\ r.bmap = bmap1
  BY <1>1 DEF Machines
<1> QED BY <1>2, <1>3 DEF bmap1

\* A null pointer of the inode is made to lead to a fresh block of zeros.
LEMMA InInodeMakes ==
    ASSUME NEW m \in Machines, NEW f \in Files, NEW i \in 1 .. DIND
    PROVE  LET r == InInode(m, f, i)
               b == FreeBlk(m)
           IN  /\ r \in Machines /\ Kept(m, r, f)
               /\ Pointer(m, f, i) # 0 => r = m
               /\ Pointer(m, f, i) = 0 =>
                    /\ r.core[f].INODE.block = [m.core[f].INODE.block EXCEPT ![i] = b]
                    /\ r.ptr = [m.ptr EXCEPT ![b] = ZeroPtr]
                    /\ r.bmap = m.bmap \cup ({b} \cap Blks)
<1>1. CASE Pointer(m, f, i) # 0
  BY <1>1 DEF InInode, Kept
<1>2. CASE Pointer(m, f, i) = 0
  <2> DEFINE b == FreeBlk(m)
             old == m.core[f]
             inode == WithBlock(old.INODE, i, b)
             mip == [old EXCEPT !.INODE = inode]
             m1 == Balloc(m)
             m2 == PutRow(m1, b, ZeroPtr)
             r == PutMinode(m2, f, mip)
  <2>1. r = InInode(m, f, i)
    BY <1>2 DEF InInode
  <2>2. b \in 0 .. NBLOCKS
    BY FreeBlkFree
  <2> HIDE DEF b
  <2>3. old \in MINODEs /\ old.INODE \in INODEs
    BY MinodeParts
  <2> HIDE DEF old
  <2>4. /\ inode \in INODEs /\ inode.size = old.INODE.size
        /\ inode.block = [old.INODE.block EXCEPT ![i] = b]
    BY <2>2, <2>3, InodeOf
  <2> HIDE DEF inode
  <2>5. /\ mip \in MINODEs /\ mip.refCount = old.refCount /\ mip.lock = old.lock
        /\ mip.dirty = old.dirty /\ mip.INODE = inode
    BY <2>3, <2>4 DEF MINODEs
  <2> HIDE DEF mip
  <2>6. /\ m1 \in Machines /\ m1.core = m.core /\ m1.itable = m.itable
        /\ m1.data = m.data /\ m1.ptr = m.ptr /\ m1.fd = m.fd /\ m1.st = m.st
        /\ m1.bmap = m.bmap \cup ({b} \cap Blks)
    BY BallocMakes DEF b
  <2> HIDE DEF m1
  <2>7. /\ m2 \in Machines /\ m2.core = m.core /\ m2.itable = m.itable
        /\ m2.data = m.data /\ m2.ptr = [m.ptr EXCEPT ![b] = ZeroPtr]
        /\ m2.fd = m.fd /\ m2.st = m.st /\ m2.bmap = m.bmap \cup ({b} \cap Blks)
    BY <2>2, <2>6, Zeros, PutRowMakes
  <2> HIDE DEF m2
  <2>8. /\ r \in Machines /\ r.core = [m.core EXCEPT ![f] = mip] /\ r.itable = m.itable
        /\ r.data = m.data /\ r.ptr = [m.ptr EXCEPT ![b] = ZeroPtr]
        /\ r.fd = m.fd /\ r.st = m.st /\ r.bmap = m.bmap \cup ({b} \cap Blks)
    BY <2>5, <2>7, PutMinodeMakes
  <2> HIDE DEF r
  <2>9. r.core[f] = mip /\ \A g \in Files \ {f} : r.core[g] = m.core[g]
    BY <2>8, Parts
  <2>10. Kept(m, r, f)
    BY <2>4, <2>5, <2>8, <2>9 DEF Kept, old, Size, Inode
  <2> QED BY <1>2, <2>1, <2>4, <2>5, <2>8, <2>9, <2>10 DEF old, b
<1> QED BY <1>1, <1>2

\* The same for a null pointer of a block of pointers.
LEMMA InBlockMakes ==
    ASSUME NEW m \in Machines, NEW f \in Files, NEW p \in 0 .. NBLOCKS,
           NEW k \in 0 .. NIND - 1
    PROVE  LET r == InBlock(m, p, k)
               b == FreeBlk(m)
           IN  /\ r \in Machines /\ Kept(m, r, f) /\ r.core = m.core
               /\ m.ptr[p][k] # 0 => r = m
               /\ m.ptr[p][k] = 0 =>
                    /\ r.ptr = [[m.ptr EXCEPT ![p] = [m.ptr[p] EXCEPT ![k] = b]]
                                 EXCEPT ![b] = ZeroPtr]
                    /\ r.bmap = m.bmap \cup ({b} \cap Blks)
<1>1. CASE m.ptr[p][k] # 0
  BY <1>1 DEF InBlock, Kept
<1>2. CASE m.ptr[p][k] = 0
  <2> DEFINE b == FreeBlk(m)
             row == [m.ptr[p] EXCEPT ![k] = b]
             m1 == Balloc(m)
             m2 == PutRow(m1, p, row)
             r == PutRow(m2, b, ZeroPtr)
  <2>1. r = InBlock(m, p, k)
    BY <1>2 DEF InBlock
  <2>2. b \in 0 .. NBLOCKS
    BY FreeBlkFree
  <2> HIDE DEF b
  <2>3. row \in Rows
    BY <2>2, Parts DEF Rows
  <2> HIDE DEF row
  <2>6. /\ m1 \in Machines /\ m1.core = m.core /\ m1.itable = m.itable
        /\ m1.data = m.data /\ m1.ptr = m.ptr /\ m1.fd = m.fd /\ m1.st = m.st
        /\ m1.bmap = m.bmap \cup ({b} \cap Blks)
    BY BallocMakes DEF b
  <2> HIDE DEF m1
  <2>7. /\ m2 \in Machines /\ m2.core = m.core /\ m2.itable = m.itable
        /\ m2.data = m.data /\ m2.ptr = [m.ptr EXCEPT ![p] = row]
        /\ m2.fd = m.fd /\ m2.st = m.st /\ m2.bmap = m.bmap \cup ({b} \cap Blks)
    BY <2>3, <2>6, PutRowMakes
  <2> HIDE DEF m2
  <2>8. /\ r \in Machines /\ r.core = m.core /\ r.itable = m.itable
        /\ r.data = m.data /\ r.ptr = [[m.ptr EXCEPT ![p] = row] EXCEPT ![b] = ZeroPtr]
        /\ r.fd = m.fd /\ r.st = m.st /\ r.bmap = m.bmap \cup ({b} \cap Blks)
    BY <2>2, <2>7, Zeros, PutRowMakes
  <2> HIDE DEF r
  <2>10. Kept(m, r, f)
    BY <2>8 DEF Kept, Size, Inode
  <2> QED BY <1>2, <2>1, <2>8, <2>10 DEF row, b
<1> QED BY <1>1, <1>2

-----------------------------------------------------------------------------
(* Blocks are private: no two pointers lead to the same one.               *)

\* The pointers of a file: on disk, and in core while it is held.
Tables(m, f) ==
    {m.itable[f].block} \cup
    (IF m.core[f].refCount > 0 THEN {m.core[f].INODE.block} ELSE {})

\* t leads to the block p of pointers.
LeadsTo(m, t, p) == \/ p \in {t[IND], t[DIND]}
                    \/ t[DIND] # 0 /\ \E k \in 0 .. NIND - 1 : p = m.ptr[t[DIND]][k]
PtrBlocks(m) == {p \in Blks : \E f \in Files : \E t \in Tables(m, f) : LeadsTo(m, t, p)}

\* A block has one pointer in the tables, or one in the blocks of pointers, and is marked.
TopsApart(m) ==
    \A f, g \in Files : \A t \in Tables(m, f), u \in Tables(m, g) : \A i, j \in 1 .. DIND :
        t[i] # 0 /\ t[i] = u[j] => f = g /\ i = j
TopsMarked(m) ==
    \A f \in Files : \A t \in Tables(m, f) : \A i \in 1 .. DIND : t[i] \in m.bmap \cup {0}
TopsNotInRows(m) ==
    \A f \in Files : \A t \in Tables(m, f) : \A i \in 1 .. DIND :
        \A p \in PtrBlocks(m), k \in 0 .. NIND - 1 : t[i] # 0 => m.ptr[p][k] # t[i]
RowsApart(m) ==
    \A p, q \in PtrBlocks(m) : \A k, l \in 0 .. NIND - 1 :
        m.ptr[p][k] # 0 /\ m.ptr[p][k] = m.ptr[q][l] => p = q /\ k = l
RowsMarked(m) ==
    \A p \in PtrBlocks(m), k \in 0 .. NIND - 1 : m.ptr[p][k] \in m.bmap \cup {0}
\* The disk has no pointer that the inode in core has not.
Agree(m) ==
    \A f \in Files : m.core[f].refCount > 0 =>
        \A i \in 1 .. DIND : \/ m.itable[f].block[i] = 0
                             \/ m.itable[f].block[i] = m.core[f].INODE.block[i]
Private(m) ==
    /\ TopsApart(m) /\ TopsMarked(m) /\ TopsNotInRows(m) /\ RowsApart(m) /\ RowsMarked(m)
    /\ Agree(m) /\ m.ptr[0] = ZeroPtr

\* A table of pointers of an INODE is one of block numbers.
LEMMA TablesType ==
    ASSUME NEW m \in Machines, NEW f \in Files, NEW t \in Tables(m, f)
    PROVE  t \in [1 .. DIND -> 0 .. NBLOCKS]
BY MinodeParts DEF Tables

\* The blocks of pointers are marked too.
LEMMA PtrBlocksMarked ==
    ASSUME NEW m \in Machines, Private(m)
    PROVE  PtrBlocks(m) \subseteq m.bmap /\ 0 \notin m.bmap
<1>1. 0 \notin m.bmap
  BY Parts DEF Blks
<1>2. ASSUME NEW p \in PtrBlocks(m) PROVE p \in m.bmap
  <2>1. PICK f \in Files : \E t \in Tables(m, f) : LeadsTo(m, t, p)
    BY DEF PtrBlocks
  <2> PICK t \in Tables(m, f) : LeadsTo(m, t, p)
    BY <2>1
  <2>2. p \in Blks /\ p # 0
    BY DEF PtrBlocks, Blks
  <2>3. t[IND] \in m.bmap \cup {0} /\ t[DIND] \in m.bmap \cup {0}
    BY Levels DEF Private, TopsMarked
  <2>4. CASE p \in {t[IND], t[DIND]}
    BY <2>2, <2>3, <2>4
  <2>5. CASE t[DIND] # 0 /\ \E k \in 0 .. NIND - 1 : p = m.ptr[t[DIND]][k]
    <3>1. t[DIND] \in Blks
      BY <2>3, <2>5, Parts
    <3>2. t[DIND] \in PtrBlocks(m)
      BY <3>1 DEF PtrBlocks, LeadsTo
    <3>3. \A k \in 0 .. NIND - 1 : m.ptr[t[DIND]][k] \in m.bmap \cup {0}
      BY <3>2 DEF Private, RowsMarked
    <3> QED BY <2>2, <2>5, <3>3
  <2> QED BY <2>4, <2>5 DEF LeadsTo
<1> QED BY <1>1, <1>2

\* Less pointers to the same blocks are private as well.
LEMMA FewerPrivate ==
    ASSUME NEW m \in Machines, NEW r \in Machines, Private(m), Agree(r),
           r.ptr = m.ptr, r.bmap = m.bmap,
           \A f \in Files : Tables(r, f) \subseteq Tables(m, f)
    PROVE  Private(r)
<1>1. PtrBlocks(r) \subseteq PtrBlocks(m)
  BY DEF PtrBlocks, LeadsTo
<1>2. TopsApart(r)
  BY DEF Private, TopsApart
<1>3. TopsMarked(r)
  BY DEF Private, TopsMarked
<1>4. TopsNotInRows(r)
  BY <1>1 DEF Private, TopsNotInRows
<1>5. RowsApart(r)
  BY <1>1 DEF Private, RowsApart
<1>6. RowsMarked(r)
  BY <1>1 DEF Private, RowsMarked
<1> QED BY <1>2, <1>3, <1>4, <1>5, <1>6 DEF Private

\* A fresh block for a null pointer of the inode.
LEMMA InInodePrivate ==
    ASSUME NEW m \in Machines, NEW f \in Files, NEW i \in 1 .. DIND,
           m.core[f].refCount > 0, Private(m), m.bmap # Blks
    PROVE  Private(InInode(m, f, i))
<1> DEFINE r == InInode(m, f, i)
           b == FreeBlk(m)
<1>0. r \in Machines /\ Kept(m, r, f)
  BY InInodeMakes
<1>1. CASE Pointer(m, f, i) # 0
  BY <1>1, InInodeMakes
<1>2. CASE Pointer(m, f, i) = 0
  <2>1. b \in Blks \ m.bmap /\ b # 0 /\ b \in 0 .. NBLOCKS
    BY FreeBlkFree
  <2>2. /\ r.core[f].INODE.block = [m.core[f].INODE.block EXCEPT ![i] = b]
        /\ r.ptr = [m.ptr EXCEPT ![b] = ZeroPtr]
        /\ r.bmap = m.bmap \cup {b}
    BY <1>2, <2>1, InInodeMakes
  <2> HIDE DEF r, b
  <2>3. /\ m.core[f].INODE.block[i] = 0
        /\ r.itable = m.itable /\ r.core[f].refCount = m.core[f].refCount
        /\ \A g \in Files \ {f} : r.core[g] = m.core[g]
    BY <1>0, <1>2 DEF Kept, Pointer, Inode
  <2>4. m.ptr \in [0 .. NBLOCKS -> Rows]
    BY Parts
  \* A table of r is one of m, but for the fresh block in the i-th place.
  <2>5. ASSUME NEW g \in Files, NEW t \in Tables(r, g)
        PROVE  \E s \in Tables(m, g) :
                   /\ s \in [1 .. DIND -> 0 .. NBLOCKS]
                   /\ \A j \in 1 .. DIND : \/ t[j] = s[j] /\ t[j] # b
                                           \/ g = f /\ j = i /\ t[j] = b /\ s[j] = 0
    <3>1. \A s \in Tables(m, g) : /\ s \in [1 .. DIND -> 0 .. NBLOCKS]
                                  /\ \A j \in 1 .. DIND : s[j] # b
      BY <2>1, TablesType DEF Private, TopsMarked
    <3>2. CASE t \in Tables(m, g)
      BY <3>1, <3>2
    <3>3. CASE g = f /\ t = r.core[f].INODE.block
      <4>1. m.core[f].INODE.block \in Tables(m, g)
        BY <3>3 DEF Tables
      <4> QED BY <2>2, <2>3, <3>1, <3>3, <4>1
    <3> QED BY <2>3, <3>2, <3>3 DEF Tables
  <2>6. PtrBlocks(m) \subseteq m.bmap
    BY PtrBlocksMarked
  <2>7. ASSUME NEW p \in PtrBlocks(r)
        PROVE  \/ p = b
               \/ p \in PtrBlocks(m) /\ p # b /\ r.ptr[p] = m.ptr[p]
    <3>1. p \in Blks /\ p \in 0 .. NBLOCKS /\ p # 0
      BY Constants DEF PtrBlocks, Blks
    <3>0. PICK g \in Files : \E t \in Tables(r, g) : LeadsTo(r, t, p)
      BY DEF PtrBlocks
    <3>2. PICK t \in Tables(r, g) : LeadsTo(r, t, p)
      BY <3>0
    <3>3. PICK s \in Tables(m, g) :
                   /\ s \in [1 .. DIND -> 0 .. NBLOCKS]
                   /\ \A j \in 1 .. DIND : \/ t[j] = s[j] /\ t[j] # b
                                           \/ g = f /\ j = i /\ t[j] = b /\ s[j] = 0
      BY <2>5
    <3>4. SUFFICES ASSUME p # b PROVE p \in PtrBlocks(m)
      BY <2>2, <2>4, <3>1
    <3>5. CASE p \in {t[IND], t[DIND]}
      <4>1. p \in {s[IND], s[DIND]}
        BY <3>3, <3>4, <3>5, Levels
      <4> QED BY <3>1, <4>1 DEF PtrBlocks, LeadsTo
    <3>6. CASE t[DIND] # 0 /\ \E k \in 0 .. NIND - 1 : p = r.ptr[t[DIND]][k]
      <4>1. t[DIND] # b
        BY <2>1, <2>2, <2>4, <3>1, <3>6, Zeros
      <4>2. t[DIND] = s[DIND] /\ s[DIND] \in 0 .. NBLOCKS
        BY <3>3, <4>1, Levels
      <4>3. r.ptr[s[DIND]] = m.ptr[s[DIND]]
        BY <2>2, <2>4, <4>1, <4>2
      <4> QED BY <3>1, <3>6, <4>2, <4>3 DEF PtrBlocks, LeadsTo
    <3> QED BY <3>2, <3>5, <3>6 DEF LeadsTo
  <2>8. r.ptr[b] = ZeroPtr /\ \A k \in 0 .. NIND - 1 : r.ptr[b][k] = 0
    BY <2>1, <2>2, <2>4, Zeros
  <2>9. TopsApart(r)
    <3> SUFFICES ASSUME NEW g \in Files, NEW h \in Files, NEW t \in Tables(r, g),
                        NEW u \in Tables(r, h), NEW j \in 1 .. DIND, NEW l \in 1 .. DIND,
                        t[j] # 0, t[j] = u[l]
                 PROVE  g = h /\ j = l
      BY DEF TopsApart
    <3>1. PICK s \in Tables(m, g) :
             \A jj \in 1 .. DIND : \/ t[jj] = s[jj] /\ t[jj] # b
                                   \/ g = f /\ jj = i /\ t[jj] = b /\ s[jj] = 0
      BY <2>5
    <3>2. PICK v \in Tables(m, h) :
             \A jj \in 1 .. DIND : \/ u[jj] = v[jj] /\ u[jj] # b
                                   \/ h = f /\ jj = i /\ u[jj] = b /\ v[jj] = 0
      BY <2>5
    <3>3. CASE t[j] = b
      BY <3>1, <3>2, <3>3
    <3>4. CASE t[j] # b
      <4>1. s[j] # 0 /\ s[j] = v[l]
        BY <3>1, <3>2, <3>4
      <4> QED BY <4>1 DEF Private, TopsApart
    <3> QED BY <3>3, <3>4
  <2>10. TopsMarked(r)
    BY <2>2, <2>5 DEF Private, TopsMarked
  <2>11. TopsNotInRows(r)
    <3> SUFFICES ASSUME NEW g \in Files, NEW t \in Tables(r, g), NEW j \in 1 .. DIND,
                        NEW p \in PtrBlocks(r), NEW k \in 0 .. NIND - 1, t[j] # 0
                 PROVE  r.ptr[p][k] # t[j]
      BY DEF TopsNotInRows
    <3>1. CASE p = b
      BY <2>8, <3>1
    <3>2. CASE p \in PtrBlocks(m) /\ r.ptr[p] = m.ptr[p]
      <4>1. m.ptr[p][k] \in m.bmap \cup {0}
        BY <3>2 DEF Private, RowsMarked
      <4>2. CASE t[j] = b
        BY <2>1, <3>2, <4>1, <4>2
      <4>3. CASE t[j] # b
        <5>1. PICK s \in Tables(m, g) : t[j] = s[j]
          BY <2>5, <4>3
        <5> QED BY <3>2, <5>1 DEF Private, TopsNotInRows
      <4> QED BY <4>2, <4>3
    <3> QED BY <2>7, <3>1, <3>2
  <2>12. RowsApart(r)
    BY <2>7, <2>8 DEF Private, RowsApart
  <2>13. RowsMarked(r)
    BY <2>2, <2>7, <2>8 DEF Private, RowsMarked
  <2>14. Agree(r)
    <3> SUFFICES ASSUME NEW g \in Files, r.core[g].refCount > 0, NEW j \in 1 .. DIND
                 PROVE  \/ r.itable[g].block[j] = 0
                        \/ r.itable[g].block[j] = r.core[g].INODE.block[j]
      BY DEF Agree
    <3>1. \/ m.itable[g].block[j] = 0
          \/ m.itable[g].block[j] = m.core[g].INODE.block[j]
      BY <2>3 DEF Private, Agree
    <3>2. m.core[f].INODE.block \in [1 .. DIND -> 0 .. NBLOCKS]
      BY MinodeParts
    <3>3. CASE g = f
      BY <2>2, <2>3, <3>1, <3>2, <3>3
    <3> QED BY <2>3, <3>1, <3>3
  <2>15. r.ptr[0] = ZeroPtr
    BY <2>1, <2>2, <2>4, Constants DEF Private
  <2> QED BY <2>9, <2>10, <2>11, <2>12, <2>13, <2>14, <2>15 DEF Private, r
<1> QED BY <1>1, <1>2

\* A fresh block for a null pointer of a block of pointers.
LEMMA InBlockPrivate ==
    ASSUME NEW m \in Machines, NEW f \in Files, NEW p \in PtrBlocks(m),
           NEW k \in 0 .. NIND - 1, Private(m), m.bmap # Blks
    PROVE  Private(InBlock(m, p, k))
<1> DEFINE r == InBlock(m, p, k)
           b == FreeBlk(m)
<1>0. p \in Blks /\ p \in 0 .. NBLOCKS /\ p # 0
  BY Constants DEF PtrBlocks, Blks
<1>1. CASE m.ptr[p][k] # 0
  BY <1>1 DEF InBlock
<1>2. CASE m.ptr[p][k] = 0
  <2>1. b \in Blks \ m.bmap /\ b # 0 /\ b \in 0 .. NBLOCKS
    BY FreeBlkFree
  <2>2. /\ r.core = m.core /\ r.itable = m.itable
        /\ r.ptr = [[m.ptr EXCEPT ![p] = [m.ptr[p] EXCEPT ![k] = b]] EXCEPT ![b] = ZeroPtr]
        /\ r.bmap = m.bmap \cup {b}
    BY <1>0, <1>2, <2>1, InBlockMakes DEF Kept
  <2> HIDE DEF r, b
  <2>3. PtrBlocks(m) \subseteq m.bmap /\ p # b
    BY <2>1, PtrBlocksMarked
  <2>4. m.ptr \in [0 .. NBLOCKS -> [0 .. NIND - 1 -> 0 .. NBLOCKS]]
    BY Parts DEF Rows
  <2>5. ASSUME NEW g \in Files
        PROVE  Tables(r, g) = Tables(m, g)
    BY <2>2 DEF Tables
  <2>6. ASSUME NEW q \in 0 .. NBLOCKS, NEW l \in 0 .. NIND - 1
        PROVE  r.ptr[q][l] = IF q = b THEN 0 ELSE IF q = p /\ l = k THEN b
                             ELSE m.ptr[q][l]
    <3> DEFINE row == [m.ptr[p] EXCEPT ![k] = b]
               ptr1 == [m.ptr EXCEPT ![p] = row]
    <3>1. row[l] = IF l = k THEN b ELSE m.ptr[p][l]
      BY <1>0, <2>4
    <3> HIDE DEF row
    <3>2. ptr1[q] = IF q = p THEN row ELSE m.ptr[q]
      BY <2>4
    <3>3. DOMAIN ptr1 = 0 .. NBLOCKS
      BY <2>4
    <3>4. r.ptr = [ptr1 EXCEPT ![b] = ZeroPtr]
      BY <2>2 DEF row
    <3> HIDE DEF ptr1
    <3>5. r.ptr[q] = IF q = b THEN ZeroPtr ELSE ptr1[q]
      BY <3>3, <3>4
    <3> QED BY <3>1, <3>2, <3>5, Zeros
  <2>7. ASSUME NEW q \in PtrBlocks(r)
        PROVE  q \in 0 .. NBLOCKS /\ (q = b \/ q \in PtrBlocks(m))
    <3>1. q \in Blks /\ q \in 0 .. NBLOCKS /\ q # 0
      BY Constants DEF PtrBlocks, Blks
    <3>2. PICK g \in Files : \E t \in Tables(m, g) : LeadsTo(r, t, q)
      BY <2>5 DEF PtrBlocks
    <3>3. PICK t \in Tables(m, g) : LeadsTo(r, t, q)
      BY <3>2
    <3>4. CASE q \in {t[IND], t[DIND]}
      BY <3>1, <3>4 DEF PtrBlocks, LeadsTo
    <3>5. CASE t[DIND] # 0 /\ \E l \in 0 .. NIND - 1 : q = r.ptr[t[DIND]][l]
      <4>1. t[DIND] \in 0 .. NBLOCKS
        BY TablesType, Levels
      <4>2. PICK l \in 0 .. NIND - 1 : q = r.ptr[t[DIND]][l]
        BY <3>5
      <4>3. q = b \/ q = m.ptr[t[DIND]][l]
        BY <2>6, <3>1, <4>1, <4>2
      <4> QED BY <3>1, <3>5, <4>3 DEF PtrBlocks, LeadsTo
    <3> QED BY <3>1, <3>3, <3>4, <3>5 DEF LeadsTo
  <2>8. ASSUME NEW q \in PtrBlocks(r), NEW l \in 0 .. NIND - 1
        PROVE  \/ r.ptr[q][l] = 0
               \/ r.ptr[q][l] = b /\ q = p /\ l = k
               \/ r.ptr[q][l] = m.ptr[q][l] /\ r.ptr[q][l] # b /\ q \in PtrBlocks(m)
    <3>1. q \in PtrBlocks(m) => m.ptr[q][l] # b
      BY <2>1 DEF Private, RowsMarked
    <3> QED BY <2>6, <2>7, <3>1
  <2>9. ASSUME NEW g \in Files, NEW t \in Tables(r, g), NEW j \in 1 .. DIND
        PROVE  t[j] # b
    BY <2>1, <2>5 DEF Private, TopsMarked
  <2>10. TopsApart(r)
    BY <2>5 DEF Private, TopsApart
  <2>11. TopsMarked(r)
    BY <2>2, <2>5 DEF Private, TopsMarked
  <2>12. TopsNotInRows(r)
    BY <2>5, <2>8, <2>9 DEF Private, TopsNotInRows
  <2>13. RowsApart(r)
    <3> SUFFICES ASSUME NEW q \in PtrBlocks(r), NEW s \in PtrBlocks(r),
                        NEW j \in 0 .. NIND - 1, NEW l \in 0 .. NIND - 1,
                        r.ptr[q][j] # 0, r.ptr[q][j] = r.ptr[s][l]
                 PROVE  q = s /\ j = l
      BY DEF RowsApart
    <3>1. CASE r.ptr[q][j] = b
      BY <2>8, <3>1
    <3>2. CASE r.ptr[q][j] # b
      <4>1. /\ r.ptr[q][j] = m.ptr[q][j] /\ q \in PtrBlocks(m)
            /\ r.ptr[s][l] = m.ptr[s][l] /\ s \in PtrBlocks(m)
        BY <2>8, <3>2
      <4>2. m.ptr[q][j] # 0 /\ m.ptr[q][j] = m.ptr[s][l]
        BY <4>1
      <4> QED BY <4>1, <4>2 DEF Private, RowsApart
    <3> QED BY <3>1, <3>2
  <2>14. RowsMarked(r)
    BY <2>2, <2>8 DEF Private, RowsMarked
  <2>15. Agree(r)
    BY <2>2 DEF Private, Agree
  <2>16. r.ptr[0] = ZeroPtr
    <3>1. 0 # p /\ 0 # b
      BY <1>0, <2>1
    <3> DEFINE ptr1 == [m.ptr EXCEPT ![p] = [m.ptr[p] EXCEPT ![k] = b]]
    <3>2. ptr1[0] = m.ptr[0] /\ DOMAIN ptr1 = 0 .. NBLOCKS
      BY <2>4, <3>1, Constants
    <3>3. r.ptr = [ptr1 EXCEPT ![b] = ZeroPtr]
      BY <2>2
    <3> HIDE DEF ptr1
    <3>4. r.ptr[0] = ptr1[0]
      BY <3>1, <3>2, <3>3, Constants
    <3> QED BY <3>2, <3>4 DEF Private
  <2> QED BY <2>10, <2>11, <2>12, <2>13, <2>14, <2>15, <2>16 DEF Private, r
<1> QED BY <1>1, <1>2

-----------------------------------------------------------------------------
(* The way from a logical block to its physical block.                     *)

Lbks == 0 .. NDIRECT + NIND + NIND * NIND - 1
Copies(m, f) ==
    {m.itable[f]} \cup (IF m.core[f].refCount > 0 THEN {m.core[f].INODE} ELSE {})

\* Every block that an inode maps in m, its successor maps to the same in r.
Follows(m, inode, r, next) ==
    \A lbk \in Lbks : Map(m, inode, lbk) # 0 => Map(r, next, lbk) = Map(m, inode, lbk)

\* So do the inodes on disk and those in core.
AllFollow(m, r) ==
    \A f \in Files : /\ Follows(m, m.itable[f], r, r.itable[f])
                     /\ m.core[f].refCount > 0 =>
                            Follows(m, m.core[f].INODE, r, r.core[f].INODE)

\* A block is in one of the three ranges of pointers.
LEMMA Ranges ==
    ASSUME NEW lbk \in Lbks
    PROVE  LET far == lbk - (NIND + NDIRECT)
           IN  \/ lbk < NDIRECT /\ lbk + 1 \in 1 .. DIND /\ lbk + 1 < IND
               \/ ~ (lbk < NDIRECT) /\ far < 0 /\ lbk - NDIRECT \in 0 .. NIND - 1
               \/ ~ (lbk < NDIRECT) /\ ~ (far < 0) /\ far \in Nat
                     /\ far \div NIND \in 0 .. NIND - 1 /\ far % NIND \in 0 .. NIND - 1
<1>1. NIND * NIND \in Nat
  BY Constants
<1>2. lbk \in Nat /\ lbk < NDIRECT + NIND + NIND * NIND
  BY <1>1, Constants DEF Lbks
<1>3. CASE lbk < NDIRECT
  BY <1>2, <1>3, Constants DEF IND, DIND
<1>4. CASE ~ (lbk < NDIRECT) /\ lbk - (NIND + NDIRECT) < 0
  BY <1>2, <1>4, Constants
<1>5. CASE ~ (lbk < NDIRECT) /\ ~ (lbk - (NIND + NDIRECT) < 0)
  <2>1. lbk - (NIND + NDIRECT) >= 0
    BY <1>2, <1>5, Constants
  <2> QED BY <1>2, <1>5, <2>1, FarInRange, Constants
<1> QED BY <1>3, <1>4, <1>5

\* No pointer of a block of pointers is lost.
RowsKept(m, r) ==
    \A p \in PtrBlocks(m), k \in 0 .. NIND - 1 :
        m.ptr[p][k] # 0 => r.ptr[p][k] = m.ptr[p][k]

\* A block that is mapped stays so if no pointer is lost.
LEMMA FollowsIfKept ==
    ASSUME NEW m \in Machines, NEW r, Private(m), RowsKept(m, r),
           NEW f \in Files, NEW inode \in Copies(m, f), NEW next,
           \A i \in 1 .. DIND : inode.block[i] # 0 => next.block[i] = inode.block[i]
    PROVE  Follows(m, inode, r, next)
<1> SUFFICES ASSUME NEW lbk \in Lbks, Map(m, inode, lbk) # 0
             PROVE  Map(r, next, lbk) = Map(m, inode, lbk)
  BY DEF Follows
<1> DEFINE t == inode.block
           u == next.block
           far == lbk - (NIND + NDIRECT)
<1>1. /\ t \in Tables(m, f)
      /\ \A i \in 1 .. DIND : t[i] # 0 => u[i] = t[i]
  BY DEF Tables, Copies
<1>2. \A k \in 0 .. NIND - 1 : m.ptr[0][k] = 0
  BY Zeros DEF Private
<1>3. \A i \in 1 .. DIND : t[i] # 0 => t[i] \in Blks
  BY <1>1, Parts DEF Private, TopsMarked
<1>4. CASE lbk < NDIRECT
  <2>1. Map(m, inode, lbk) = t[lbk + 1] /\ Map(r, next, lbk) = u[lbk + 1]
    BY <1>4 DEF Map
  <2>2. lbk + 1 \in 1 .. DIND
    BY <1>4, Ranges
  <2> QED BY <1>1, <2>1, <2>2
<1>5. CASE ~ (lbk < NDIRECT) /\ far < 0
  <2> DEFINE k == lbk - NDIRECT
  <2>1. Map(m, inode, lbk) = m.ptr[t[IND]][k] /\ Map(r, next, lbk) = r.ptr[u[IND]][k]
    BY <1>5 DEF Map
  <2>2. k \in 0 .. NIND - 1
    BY <1>5, Ranges
  <2> HIDE DEF t, u, far, k
  <2>3. t[IND] # 0
    BY <1>2, <2>1, <2>2
  <2>4. t[IND] \in PtrBlocks(m) /\ u[IND] = t[IND]
    BY <1>1, <1>3, <2>3, Levels DEF PtrBlocks, LeadsTo
  <2> QED BY <2>1, <2>2, <2>4 DEF RowsKept
<1>6. CASE ~ (lbk < NDIRECT) /\ ~ (far < 0)
  <2> DEFINE k == far \div NIND
             l == far % NIND
  <2>1. /\ Map(m, inode, lbk) = m.ptr[m.ptr[t[DIND]][k]][l]
        /\ Map(r, next, lbk) = r.ptr[r.ptr[u[DIND]][k]][l]
    BY <1>6 DEF Map
  <2>2. k \in 0 .. NIND - 1 /\ l \in 0 .. NIND - 1
    BY <1>6, Ranges
  <2> HIDE DEF t, u, far, k, l
  <2>3. t[DIND] # 0 /\ m.ptr[t[DIND]][k] # 0
    BY <1>2, <2>1, <2>2
  <2>4. t[DIND] \in PtrBlocks(m) /\ u[DIND] = t[DIND]
    BY <1>1, <1>3, <2>3, Levels DEF PtrBlocks, LeadsTo
  <2>5. m.ptr[t[DIND]][k] \in Blks
    BY <2>2, <2>3, <2>4, Parts DEF Private, RowsMarked
  <2>6. m.ptr[t[DIND]][k] \in PtrBlocks(m)
    BY <1>1, <2>2, <2>3, <2>5 DEF PtrBlocks, LeadsTo
  <2>7. r.ptr[u[DIND]][k] = m.ptr[t[DIND]][k]
    BY <2>2, <2>3, <2>4 DEF RowsKept
  <2> QED BY <2>1, <2>2, <2>6, <2>7 DEF RowsKept
<1> QED BY <1>4, <1>5, <1>6

\* What follows from two allocations, one after the other, follows from both.
LEMMA AllFollowTransitive ==
    ASSUME NEW m, NEW r, NEW s, AllFollow(m, r), AllFollow(r, s),
           \A f \in Files : m.core[f].refCount = r.core[f].refCount
    PROVE  AllFollow(m, s)
BY DEF AllFollow, Follows

\* A fresh block is put where no pointer was.
LEMMA InInodeFollows ==
    ASSUME NEW m \in Machines, NEW f \in Files, NEW i \in 1 .. DIND,
           m.core[f].refCount > 0, Private(m), m.bmap # Blks
    PROVE  LET r == InInode(m, f, i)
           IN  /\ AllFollow(m, r) /\ Pointer(r, f, i) # 0
               /\ \A g \in Files : r.core[g].refCount = m.core[g].refCount
<1> DEFINE r == InInode(m, f, i)
           b == FreeBlk(m)
<1>1. r \in Machines /\ Kept(m, r, f)
  BY InInodeMakes
<1>2. Pointer(m, f, i) # 0 => r = m
  BY InInodeMakes
<1>3. Pointer(m, f, i) = 0 =>
        /\ r.core[f].INODE.block = [m.core[f].INODE.block EXCEPT ![i] = b]
        /\ r.ptr = [m.ptr EXCEPT ![b] = ZeroPtr]
  BY InInodeMakes
<1>4. \A g \in Files : r.core[g].refCount = m.core[g].refCount /\ r.itable = m.itable
  BY <1>1 DEF Kept
<1>5. b \in Blks \ m.bmap /\ b # 0 /\ b \in 0 .. NBLOCKS
  BY FreeBlkFree
<1>6. RowsKept(m, r)
  <2>1. CASE Pointer(m, f, i) # 0
    <3>1. r = m
      BY <1>2, <2>1
    <3> HIDE DEF r
    <3> QED BY <3>1 DEF RowsKept
  <2>2. CASE Pointer(m, f, i) = 0
    <3>1. r.ptr = [m.ptr EXCEPT ![b] = ZeroPtr]
      BY <1>3, <2>2
    <3> HIDE DEF r, b
    <3> QED BY <1>5, <3>1, PtrBlocksMarked, Parts DEF RowsKept, PtrBlocks
  <2> QED BY <2>1, <2>2
<1>7. ASSUME NEW g \in Files, NEW j \in 1 .. DIND, m.core[g].INODE.block[j] # 0
      PROVE  r.core[g].INODE.block[j] = m.core[g].INODE.block[j]
  <2>1. CASE g # f
    BY <1>1, <2>1 DEF Kept
  <2>2. CASE g = f /\ Pointer(m, f, i) # 0
    <3>1. r = m
      BY <1>2, <2>2
    <3> HIDE DEF r
    <3> QED BY <3>1
  <2>3. CASE g = f /\ Pointer(m, f, i) = 0
    <3>1. r.core[f].INODE.block = [m.core[f].INODE.block EXCEPT ![i] = b]
      BY <1>3, <2>3
    <3> HIDE DEF r, b
    <3>2. m.core[f].INODE.block \in [1 .. DIND -> 0 .. NBLOCKS]
      BY MinodeParts
    <3> QED BY <1>7, <2>3, <3>1, <3>2 DEF Pointer, Inode
  <2> QED BY <2>1, <2>2, <2>3
<1>8. AllFollow(m, r)
  <2> HIDE DEF r
  <2> SUFFICES ASSUME NEW g \in Files
               PROVE  /\ Follows(m, m.itable[g], r, r.itable[g])
                      /\ m.core[g].refCount > 0 =>
                            Follows(m, m.core[g].INODE, r, r.core[g].INODE)
    BY DEF AllFollow
  <2>1. Follows(m, m.itable[g], r, r.itable[g])
    BY <1>4, <1>6, FollowsIfKept DEF Copies
  <2>2. ASSUME m.core[g].refCount > 0
        PROVE  Follows(m, m.core[g].INODE, r, r.core[g].INODE)
    <3>1. m.core[g].INODE \in Copies(m, g)
      BY <2>2 DEF Copies
    <3> QED BY <1>6, <1>7, <3>1, FollowsIfKept
  <2> QED BY <2>1, <2>2
<1>9. Pointer(r, f, i) # 0
  <2>1. CASE Pointer(m, f, i) # 0
    BY <1>2, <2>1
  <2>2. CASE Pointer(m, f, i) = 0
    <3>1. r.core[f].INODE.block = [m.core[f].INODE.block EXCEPT ![i] = b]
      BY <1>3, <2>2
    <3> HIDE DEF r, b
    <3>2. m.core[f].INODE.block \in [1 .. DIND -> 0 .. NBLOCKS]
      BY MinodeParts
    <3> QED BY <1>5, <3>1, <3>2 DEF Pointer, Inode
  <2> QED BY <2>1, <2>2
<1> QED BY <1>4, <1>8, <1>9

\* The map of every file follows a pointer that is set in a block of pointers.
LEMMA InBlockFollows ==
    ASSUME NEW m \in Machines, NEW p \in PtrBlocks(m),
           NEW k \in 0 .. NIND - 1, Private(m), m.bmap # Blks
    PROVE  LET r == InBlock(m, p, k)
           IN  AllFollow(m, r) /\ RowsKept(m, r) /\ r.ptr[p][k] # 0
<1> DEFINE r == InBlock(m, p, k)
           b == FreeBlk(m)
<1>0. p \in Blks /\ p \in 0 .. NBLOCKS /\ p # 0
  BY Constants DEF PtrBlocks, Blks
<1>1. b \in Blks \ m.bmap /\ b # 0 /\ b \in 0 .. NBLOCKS
  BY FreeBlkFree
<1>2. p # b /\ PtrBlocks(m) \subseteq m.bmap /\ PtrBlocks(m) \subseteq 0 .. NBLOCKS
  BY <1>1, PtrBlocksMarked DEF PtrBlocks, Blks
<1>3. r.core = m.core /\ r.itable = m.itable
  BY <1>0, FilesAssumption DEF InBlock, PutRow, Balloc
<1>4. RowsKept(m, r) /\ r.ptr[p][k] # 0
  <2>1. CASE m.ptr[p][k] # 0
    <3>1. r = m
      BY <2>1 DEF InBlock
    <3> HIDE DEF r
    <3> QED BY <2>1, <3>1 DEF RowsKept
  <2>2. CASE m.ptr[p][k] = 0
    <3> DEFINE row == [m.ptr[p] EXCEPT ![k] = b]
               ptr1 == [m.ptr EXCEPT ![p] = row]
    <3>1. r.ptr = [ptr1 EXCEPT ![b] = ZeroPtr]
      <4>1. r = PutRow(PutRow(Balloc(m), p, row), b, ZeroPtr)
        BY <2>2 DEF InBlock
      <4>2. Balloc(m).ptr = m.ptr /\ Balloc(m) \in Machines
        BY BallocMakes
      <4>3. row \in Rows
        BY <1>0, <1>1, Parts DEF Rows
      <4> HIDE DEF row, r, b
      <4>4. /\ PutRow(Balloc(m), p, row) \in Machines
            /\ PutRow(Balloc(m), p, row).ptr = ptr1
        BY <1>0, <4>2, <4>3, PutRowMakes
      <4> QED BY <1>1, <4>1, <4>4, Zeros, PutRowMakes
    <3>2. m.ptr \in [0 .. NBLOCKS -> [0 .. NIND - 1 -> 0 .. NBLOCKS]]
      BY Parts DEF Rows
    <3>3. \A l \in 0 .. NIND - 1 : row[l] = IF l = k THEN b ELSE m.ptr[p][l]
      BY <1>0, <3>2
    <3> HIDE DEF row
    <3>4. /\ DOMAIN ptr1 = 0 .. NBLOCKS
          /\ \A q \in 0 .. NBLOCKS : ptr1[q] = IF q = p THEN row ELSE m.ptr[q]
      BY <3>2
    <3> HIDE DEF ptr1, r, b
    <3>5. \A q \in PtrBlocks(m) : r.ptr[q] = ptr1[q]
      BY <1>1, <1>2, <3>1, <3>4
    <3>6. \A q \in PtrBlocks(m) : r.ptr[q] = IF q = p THEN row ELSE m.ptr[q]
      BY <1>2, <3>4, <3>5
    <3>7. r.ptr[p][k] # 0
      BY <1>1, <3>3, <3>6
    <3>8. RowsKept(m, r)
      BY <2>2, <3>3, <3>6 DEF RowsKept
    <3> QED BY <3>7, <3>8
  <2> QED BY <2>1, <2>2
<1>5. AllFollow(m, r)
  <2> HIDE DEF r
  <2> SUFFICES ASSUME NEW g \in Files
               PROVE  /\ Follows(m, m.itable[g], r, r.itable[g])
                      /\ m.core[g].refCount > 0 =>
                            Follows(m, m.core[g].INODE, r, r.core[g].INODE)
    BY DEF AllFollow
  <2>1. Follows(m, m.itable[g], r, r.itable[g])
    BY <1>3, <1>4, FollowsIfKept DEF Copies
  <2>2. ASSUME m.core[g].refCount > 0
        PROVE  Follows(m, m.core[g].INODE, r, r.core[g].INODE)
    BY <1>3, <1>4, <2>2, FollowsIfKept DEF Copies
  <2> QED BY <2>1, <2>2
<1> QED BY <1>4, <1>5

\* mywrite() has a block made for lbk, and for the pointers that lead to it.
LEMMA AllocateMakes ==
    ASSUME NEW m \in Machines, NEW f \in Files, NEW lbk \in Lbks
    PROVE  LET r == Allocate(m, f, lbk)
           IN  /\ r \in Machines /\ Kept(m, r, f)
               /\ m.core[f].refCount > 0 /\ Private(m) /\ r.bmap # Blks =>
                    /\ Private(r) /\ AllFollow(m, r)
                    /\ Map(r, r.core[f].INODE, lbk) # 0
<1> DEFINE r == Allocate(m, f, lbk)
           far == lbk - (NIND + NDIRECT)
           all == m.core[f].refCount > 0 /\ Private(m) /\ r.bmap # Blks
<1>1. CASE lbk < NDIRECT
  <2>1. lbk + 1 \in 1 .. DIND
    BY <1>1, Ranges
  <2>2. r = InInode(m, f, lbk + 1)
    BY <1>1 DEF Allocate
  <2>3. r \in Machines /\ Kept(m, r, f)
    BY <2>1, <2>2, InInodeMakes
  <2>4. ASSUME all
        PROVE  Private(r) /\ AllFollow(m, r) /\ Map(r, r.core[f].INODE, lbk) # 0
    <3>1. m.bmap # Blks
      BY <2>3, <2>4, Parts DEF Kept
    <3>2. Private(r) /\ AllFollow(m, r) /\ Pointer(r, f, lbk + 1) # 0
      BY <2>1, <2>2, <2>4, <3>1, InInodePrivate, InInodeFollows
    <3> QED BY <1>1, <3>2 DEF Map, Pointer, Inode
  <2> QED BY <2>3, <2>4
<1>2. CASE ~ (lbk < NDIRECT) /\ far < 0
  <2> DEFINE k == lbk - NDIRECT
             m1 == InInode(m, f, IND)
             p == Pointer(m1, f, IND)
  <2>1. k \in 0 .. NIND - 1
    BY <1>2, Ranges
  <2>2. r = InBlock(m1, p, k)
    BY <1>2 DEF Allocate, With
  <2> HIDE DEF k, r
  <2>3. m1 \in Machines /\ Kept(m, m1, f)
    BY Levels, InInodeMakes
  <2>4. m.core[f].refCount > 0 /\ Private(m) /\ m.bmap # Blks =>
            /\ Private(m1) /\ AllFollow(m, m1) /\ p # 0
            /\ m1.core[f].refCount > 0
            /\ \A g \in Files : m1.core[g].refCount = m.core[g].refCount
    BY Levels, InInodePrivate, InInodeFollows
  <2>5. p \in 0 .. NBLOCKS
    BY <2>3, Levels, MinodeParts DEF Pointer, Inode
  <2>6. p = m1.core[f].INODE.block[IND]
    BY DEF Pointer, Inode
  <2> HIDE DEF m1, p
  <2>7. r \in Machines /\ Kept(m1, r, f) /\ r.core = m1.core
    BY <2>1, <2>2, <2>3, <2>5, InBlockMakes
  <2>8. Kept(m, r, f)
    BY <2>3, <2>7, KeptTransitive
  <2>9. ASSUME all
        PROVE  Private(r) /\ AllFollow(m, r) /\ Map(r, r.core[f].INODE, lbk) # 0
    <3>1. m1.bmap # Blks /\ m.bmap # Blks
      BY <2>3, <2>7, <2>9, Parts DEF Kept
    <3>2. p \in PtrBlocks(m1)
      <4>1. m1.core[f].INODE.block \in Tables(m1, f)
        BY <2>4, <2>9, <3>1 DEF Tables
      <4>2. p \in Blks
        BY <2>4, <2>5, <2>9, <3>1, Constants DEF Blks
      <4> QED BY <2>6, <4>1, <4>2 DEF PtrBlocks, LeadsTo
    <3>3. Private(r) /\ AllFollow(m1, r) /\ r.ptr[p][k] # 0
      BY <2>1, <2>2, <2>3, <2>4, <2>9, <3>1, <3>2, InBlockPrivate, InBlockFollows
    <3>4. AllFollow(m, r)
      BY <2>4, <2>9, <3>1, <3>3, AllFollowTransitive
    <3>5. Map(r, r.core[f].INODE, lbk) = r.ptr[p][k]
      BY <1>2, <2>6, <2>7 DEF Map, k
    <3> QED BY <3>3, <3>4, <3>5
  <2> QED BY <2>7, <2>8, <2>9 DEF r
<1>3. CASE ~ (lbk < NDIRECT) /\ ~ (far < 0)
  <2> DEFINE k == far \div NIND
             l == far % NIND
             m1 == InInode(m, f, DIND)
             p == Pointer(m1, f, DIND)
             m2 == InBlock(m1, p, k)
             q == m2.ptr[Pointer(m2, f, DIND)][k]
  <2>1. k \in 0 .. NIND - 1 /\ l \in 0 .. NIND - 1
    BY <1>3, Ranges
  <2>2. r = InBlock(m2, q, l)
    BY <1>3 DEF Allocate, With
  <2> HIDE DEF k, l, r
  <2>3. m1 \in Machines /\ Kept(m, m1, f)
    BY Levels, InInodeMakes
  <2>4. m.core[f].refCount > 0 /\ Private(m) /\ m.bmap # Blks =>
            /\ Private(m1) /\ AllFollow(m, m1) /\ p # 0
            /\ m1.core[f].refCount > 0
            /\ \A g \in Files : m1.core[g].refCount = m.core[g].refCount
    BY Levels, InInodePrivate, InInodeFollows
  <2>5. p \in 0 .. NBLOCKS
    BY <2>3, Levels, MinodeParts DEF Pointer, Inode
  <2>6. p = m1.core[f].INODE.block[DIND]
    BY DEF Pointer, Inode
  <2> HIDE DEF m1
  <2>7. m2 \in Machines /\ Kept(m1, m2, f) /\ m2.core = m1.core
    <3> HIDE DEF p
    <3> QED BY <2>1, <2>3, <2>5, InBlockMakes
  <2>8. Pointer(m2, f, DIND) = p
    <3> HIDE DEF m2
    <3> QED BY <2>6, <2>7 DEF Pointer, Inode
  <2> HIDE DEF p
  <2>9. q = m2.ptr[p][k] /\ q \in 0 .. NBLOCKS
    <3> HIDE DEF m2
    <3>1. m2.ptr \in [0 .. NBLOCKS -> [0 .. NIND - 1 -> 0 .. NBLOCKS]]
      BY <2>7, Parts DEF Rows
    <3>2. q = m2.ptr[p][k]
      BY <2>8
    <3> HIDE DEF q
    <3> QED BY <2>1, <2>5, <3>1, <3>2
  <2> HIDE DEF q
  <2>10. m1.bmap # Blks /\ Private(m1) /\ p \in PtrBlocks(m1) =>
            Private(m2) /\ AllFollow(m1, m2) /\ q # 0
    BY <2>1, <2>3, <2>9, InBlockPrivate, InBlockFollows
  <2> HIDE DEF m2
  <2>11. r \in Machines /\ Kept(m2, r, f) /\ r.core = m2.core
    <3>1. m2 \in Machines /\ q \in 0 .. NBLOCKS /\ l \in 0 .. NIND - 1
      BY <2>1, <2>7, <2>9
    <3> HIDE DEF far, all
    <3> QED BY <2>2, <3>1, InBlockMakes
  <2>12. Kept(m, r, f)
    BY <2>3, <2>7, <2>11, KeptTransitive
  <2>13. ASSUME all
         PROVE  Private(r) /\ AllFollow(m, r) /\ Map(r, r.core[f].INODE, lbk) # 0
    <3>1. m2.bmap # Blks /\ m1.bmap # Blks /\ m.bmap # Blks
      BY <2>3, <2>7, <2>11, <2>13, Parts DEF Kept
    <3>2. m1.core[f].INODE.block \in Tables(m1, f)
          /\ m1.core[f].INODE.block \in Tables(m2, f)
      BY <2>4, <2>7, <2>13, <3>1 DEF Tables
    <3>3. p \in PtrBlocks(m1) /\ p \in PtrBlocks(m2) /\ p # 0
      <4>1. p \in Blks /\ p # 0
        BY <2>4, <2>5, <2>13, <3>1, Constants DEF Blks
      <4> QED BY <2>6, <3>2, <4>1 DEF PtrBlocks, LeadsTo
    <3>4. Private(m2) /\ AllFollow(m1, m2) /\ q # 0
      BY <2>4, <2>10, <2>13, <3>1, <3>3
    <3>5. q \in PtrBlocks(m2)
      <4>1. q \in Blks
        BY <2>9, <3>4, Constants DEF Blks
      <4> QED BY <2>1, <2>6, <2>9, <3>2, <3>3, <4>1 DEF PtrBlocks, LeadsTo
    <3>6. Private(r) /\ AllFollow(m2, r) /\ RowsKept(m2, r) /\ r.ptr[q][l] # 0
      BY <2>1, <2>2, <2>7, <3>1, <3>4, <3>5, InBlockPrivate, InBlockFollows
    <3>7. AllFollow(m, r)
      <4>1. AllFollow(m, m2)
        BY <2>4, <2>7, <2>13, <3>1, <3>4, AllFollowTransitive
      <4> QED BY <2>4, <2>7, <2>13, <3>1, <3>6, <4>1, AllFollowTransitive
    <3>8. r.ptr[p][k] = q
      BY <2>1, <2>9, <3>3, <3>4, <3>6 DEF RowsKept
    <3>9. Map(r, r.core[f].INODE, lbk) = r.ptr[r.ptr[p][k]][l]
      BY <1>3, <2>6, <2>7, <2>11 DEF Map, k, l
    <3> QED BY <3>6, <3>7, <3>8, <3>9
  <2> QED BY <2>11, <2>12, <2>13 DEF r
<1> QED BY <1>1, <1>2, <1>3

-----------------------------------------------------------------------------
(* What every routine keeps.                                               *)

\* An open file is locked, and no second descriptor is; a locked file is held
\* and will be saved.
Locks(m) ==
    /\ \A n \in FDs : m.fd[n] # Null =>
          /\ m.core[m.fd[n].file].lock
          /\ \A k \in FDs \ {n} : m.fd[k].file # m.fd[n].file
    /\ \A f \in Files : m.core[f].lock => m.core[f].refCount > 0 /\ m.core[f].dirty

\* An INODE in core that will not be saved is as it is on disk.
Clean(m) ==
    \A f \in Files : m.core[f].refCount > 0 /\ ~ m.core[f].dirty =>
                         m.core[f].INODE = m.itable[f]

\* No offset is behind the end of its file.
Offsets(m) ==
    \A n \in FDs : m.fd[n] # Null => m.fd[n].offset <= Size(m, m.fd[n].file)

\* No byte of a file is 0, in core and on disk; block 0 is.
Filled(m) ==
    \A f \in Files : \A x \in Copies(m, f) : \A i \in 0 .. x.size - 1 : ByteAt(m, x, i) # 0
Blocks(m) == Private(m) /\ Filled(m) /\ m.data[0] = ZeroData

\* A disk without a clear block is where the instances end.
Sound(m) == /\ m \in Machines
            /\ Locks(m) /\ Clean(m) /\ Offsets(m)
            /\ m.bmap # Blks => Blocks(m)

\* The bytes of an inode are those of its blocks.
LEMMA BytesOfBlocks ==
    ASSUME NEW m, NEW r, NEW x, NEW y, r.data = m.data, r.ptr = m.ptr, x.block = y.block
    PROVE  /\ \A lbk : Map(r, x, lbk) = Map(m, y, lbk)
           /\ \A i : ByteAt(r, x, i) = ByteAt(m, y, i)
<1>1. \A lbk : Map(r, x, lbk) = Map(m, y, lbk)
  BY DEF Map
<1> QED BY <1>1 DEF ByteAt

\* Nothing but the sizes and the references changes, and no file grows.
LEMMA FewerBlocks ==
    ASSUME NEW m \in Machines, NEW r \in Machines, Blocks(m), Agree(r),
           r.data = m.data, r.ptr = m.ptr, r.bmap = m.bmap,
           \A f \in Files : \A x \in Copies(r, f) :
               \E y \in Copies(m, f) : x.block = y.block /\ x.size <= y.size
    PROVE  Blocks(r)
<1>1. ASSUME NEW f \in Files, NEW t \in Tables(r, f)
      PROVE  t \in Tables(m, f)
  <2>1. PICK x \in Copies(r, f) : t = x.block
    BY DEF Tables, Copies
  <2>2. PICK y \in Copies(m, f) : x.block = y.block
    BY <2>1
  <2> QED BY <2>1, <2>2 DEF Tables, Copies
<1>2. Private(r)
  BY <1>1, FewerPrivate DEF Blocks
<1>3. Filled(r)
  <2> SUFFICES ASSUME NEW f \in Files, NEW x \in Copies(r, f), NEW i \in 0 .. x.size - 1
               PROVE  ByteAt(r, x, i) # 0
    BY DEF Filled
  <2>1. PICK y \in Copies(m, f) : x.block = y.block /\ x.size <= y.size
    OBVIOUS
  <2>2. x.size \in Nat /\ y.size \in Nat
    BY MinodeParts DEF Copies, Size, Inode
  <2>3. i \in 0 .. y.size - 1
    BY <2>1, <2>2
  <2>4. ByteAt(r, x, i) = ByteAt(m, y, i)
    BY <2>1, BytesOfBlocks
  <2> QED BY <2>3, <2>4 DEF Blocks, Filled
<1> QED BY <1>2, <1>3 DEF Blocks

\* iget() keeps a machine sound.
LEMMA IgetSound ==
    ASSUME NEW m, Sound(m), NEW f \in Files
    PROVE  Sound(Iget(m, f))
<1> DEFINE r == Iget(m, f)
<1>1. m \in Machines
  BY DEF Sound
<1>2. /\ r \in Machines /\ r.itable = m.itable /\ r.data = m.data
      /\ r.ptr = m.ptr /\ r.bmap = m.bmap /\ r.fd = m.fd /\ r.st = m.st
      /\ r.core[f].refCount = m.core[f].refCount + 1
      /\ r.core[f].lock = m.core[f].lock /\ r.core[f].dirty = m.core[f].dirty
      /\ r.core[f].INODE = IF m.core[f].refCount = 0 THEN m.itable[f]
                           ELSE m.core[f].INODE
      /\ \A g \in Files \ {f} : r.core[g] = m.core[g]
  BY <1>1, IgetMakes
<1>3. m.core[f].refCount \in Nat
  BY <1>1, MinodeParts
<1> HIDE DEF r
<1>4. Locks(r)
  <2>1. \A g \in Files : /\ r.core[g].lock = m.core[g].lock
                         /\ r.core[g].dirty = m.core[g].dirty
                         /\ m.core[g].refCount > 0 => r.core[g].refCount > 0
    BY <1>2, <1>3
  <2>2. \A n \in FDs : m.fd[n] # Null => m.fd[n].file \in Files
    BY <1>1, OpenOFT
  <2> QED BY <1>2, <2>1, <2>2 DEF Sound, Locks
<1>5. Clean(r)
  BY <1>2, <1>3 DEF Sound, Clean
<1>6. Offsets(r)
  <2> SUFFICES ASSUME NEW n \in FDs, m.fd[n] # Null
               PROVE  m.fd[n].offset <= Size(r, m.fd[n].file)
    BY <1>2 DEF Offsets
  <2>1. /\ m.fd[n].file \in Files /\ m.core[m.fd[n].file].refCount > 0
        /\ m.fd[n].offset <= Size(m, m.fd[n].file)
    BY <1>1, OpenOFT DEF Sound, Locks, Offsets
  <2>2. Size(r, m.fd[n].file) = Size(m, m.fd[n].file)
    BY <1>2, <2>1 DEF Size, Inode
  <2> QED BY <2>1, <2>2
<1>7. ASSUME r.bmap # Blks PROVE Blocks(r)
  <2>1. Blocks(m)
    BY <1>2, <1>7 DEF Sound
  <2>2. \A g \in Files : Copies(r, g) \subseteq Copies(m, g)
    BY <1>2, <1>3 DEF Copies
  <2>3. Agree(r)
    BY <1>2, <1>3, <2>1 DEF Blocks, Private, Agree
  <2>4. \A g \in Files : \A x \in Copies(m, g) : x.size <= x.size
    BY <1>1, MinodeParts DEF Copies, Size, Inode
  <2> QED BY <1>1, <1>2, <2>1, <2>2, <2>3, <2>4, FewerBlocks
<1> QED BY <1>2, <1>4, <1>5, <1>6, <1>7 DEF Sound, r

\* The descriptor of an open file is freed and its lock released.
LEMMA IputSound ==
    ASSUME NEW m, Sound(m), NEW f \in Files, ~ m.core[f].lock, m.core[f].refCount > 0
    PROVE  Sound(Iput(m, f))
<1> DEFINE r == Iput(m, f)
<1>1. m \in Machines
  BY DEF Sound
<1>2. /\ r \in Machines /\ r.data = m.data
      /\ r.ptr = m.ptr /\ r.bmap = m.bmap /\ r.fd = m.fd /\ r.st = m.st
      /\ r.core[f].lock = m.core[f].lock
      /\ \A g \in Files \ {f} : r.core[g] = m.core[g] /\ r.itable[g] = m.itable[g]
      /\ IF m.core[f].refCount > 1
         THEN /\ r.core[f].refCount = m.core[f].refCount - 1
              /\ r.core[f].INODE = m.core[f].INODE /\ r.itable[f] = m.itable[f]
              /\ r.core[f].dirty = m.core[f].dirty
         ELSE /\ r.core[f].refCount = 0
              /\ r.itable[f] = IF m.core[f].dirty THEN m.core[f].INODE
                               ELSE m.itable[f]
  BY <1>1, IputMakes
<1>3. m.core[f].refCount \in Nat
  BY <1>1, MinodeParts
<1> HIDE DEF r
<1>4. \A n \in FDs : m.fd[n] # Null => m.fd[n].file \in Files \ {f}
  BY <1>1, OpenOFT DEF Sound, Locks
<1>5. Locks(r)
  BY <1>2, <1>4 DEF Sound, Locks
<1>6. Clean(r)
  BY <1>2, <1>3 DEF Sound, Clean
<1>7. Offsets(r)
  BY <1>2, <1>4 DEF Sound, Offsets, Size, Inode
<1>8. ASSUME r.bmap # Blks PROVE Blocks(r)
  <2>1. Blocks(m)
    BY <1>2, <1>8 DEF Sound
  <2>2. \A g \in Files : Copies(r, g) \subseteq Copies(m, g)
    BY <1>2, <1>3 DEF Copies
  <2>3. Agree(r)
    <3> SUFFICES ASSUME NEW g \in Files, r.core[g].refCount > 0, NEW j \in 1 .. DIND
                 PROVE  \/ r.itable[g].block[j] = 0
                        \/ r.itable[g].block[j] = r.core[g].INODE.block[j]
      BY DEF Agree
    <3>1. m.core[g].refCount > 0 => \/ m.itable[g].block[j] = 0
                                   \/ m.itable[g].block[j] = m.core[g].INODE.block[j]
      BY <2>1 DEF Blocks, Private, Agree
    <3>2. CASE g = f
      BY <1>2, <1>3, <3>1, <3>2
    <3> QED BY <1>2, <3>1, <3>2
  <2>4. \A g \in Files : \A x \in Copies(m, g) : x.size <= x.size
    BY <1>1, MinodeParts DEF Copies, Size, Inode
  <2> QED BY <1>1, <1>2, <2>1, <2>2, <2>3, <2>4, FewerBlocks
<1> QED BY <1>2, <1>5, <1>6, <1>7, <1>8 DEF Sound, r

\* The three ways to a block, for an inode whose pointers are private.
LEMMA Ways ==
    ASSUME NEW m \in Machines, Private(m), NEW f \in Files, NEW x \in Copies(m, f),
           NEW lbk \in Lbks, Map(m, x, lbk) # 0
    PROVE  LET t == x.block
               far == lbk - (NIND + NDIRECT)
           IN  /\ t \in Tables(m, f)
               /\ \/ /\ lbk < NDIRECT /\ lbk + 1 \in 1 .. DIND
                     /\ Map(m, x, lbk) = t[lbk + 1]
                     /\ t[lbk + 1] \in Blks
                  \/ /\ ~ (lbk < NDIRECT) /\ far < 0
                     /\ t[IND] # 0 /\ t[IND] \in PtrBlocks(m)
                     /\ lbk - NDIRECT \in 0 .. NIND - 1
                     /\ Map(m, x, lbk) = m.ptr[t[IND]][lbk - NDIRECT]
                     /\ m.ptr[t[IND]][lbk - NDIRECT] \in Blks
                  \/ /\ ~ (lbk < NDIRECT) /\ ~ (far < 0) /\ far \in Nat
                     /\ far \div NIND \in 0 .. NIND - 1 /\ far % NIND \in 0 .. NIND - 1
                     /\ t[DIND] # 0 /\ t[DIND] \in PtrBlocks(m)
                     /\ m.ptr[t[DIND]][far \div NIND] # 0
                     /\ m.ptr[t[DIND]][far \div NIND] \in PtrBlocks(m)
                     /\ Map(m, x, lbk)
                          = m.ptr[m.ptr[t[DIND]][far \div NIND]][far % NIND]
                     /\ m.ptr[m.ptr[t[DIND]][far \div NIND]][far % NIND] \in Blks
<1> DEFINE t == x.block
           far == lbk - (NIND + NDIRECT)
<1>1. t \in Tables(m, f)
  BY DEF Tables, Copies
<1>2. \A k \in 0 .. NIND - 1 : m.ptr[0][k] = 0
  BY Zeros DEF Private
<1>3. \A i \in 1 .. DIND : t[i] # 0 => t[i] \in Blks
  BY <1>1, Parts DEF Private, TopsMarked
<1>4. \A p \in PtrBlocks(m), k \in 0 .. NIND - 1 : m.ptr[p][k] # 0 => m.ptr[p][k] \in Blks
  BY Parts DEF Private, RowsMarked
<1>5. CASE lbk < NDIRECT
  <2>1. Map(m, x, lbk) = t[lbk + 1]
    BY <1>5 DEF Map
  <2>2. lbk + 1 \in 1 .. DIND
    BY <1>5, Ranges
  <2> QED BY <1>1, <1>3, <1>5, <2>1, <2>2
<1>6. CASE ~ (lbk < NDIRECT) /\ far < 0
  <2> DEFINE k == lbk - NDIRECT
  <2>1. Map(m, x, lbk) = m.ptr[t[IND]][k]
    BY <1>6 DEF Map
  <2>2. k \in 0 .. NIND - 1
    BY <1>6, Ranges
  <2> HIDE DEF t, far, k
  <2>3. t[IND] # 0
    BY <1>2, <2>1, <2>2
  <2>4. t[IND] \in PtrBlocks(m)
    BY <1>1, <1>3, <2>3, Levels DEF PtrBlocks, LeadsTo
  <2>5. m.ptr[t[IND]][k] \in Blks
    BY <1>4, <2>1, <2>2, <2>4
  <2> QED BY <1>1, <1>6, <2>1, <2>2, <2>3, <2>4, <2>5 DEF t, far, k
<1>7. CASE ~ (lbk < NDIRECT) /\ ~ (far < 0)
  <2> DEFINE k == far \div NIND
             l == far % NIND
  <2>1. Map(m, x, lbk) = m.ptr[m.ptr[t[DIND]][k]][l]
    BY <1>7 DEF Map
  <2>2. k \in 0 .. NIND - 1 /\ l \in 0 .. NIND - 1 /\ far \in Nat
    BY <1>7, Ranges
  <2> HIDE DEF t, far, k, l
  <2>3. t[DIND] # 0 /\ m.ptr[t[DIND]][k] # 0
    BY <1>2, <2>1, <2>2
  <2>4. t[DIND] \in PtrBlocks(m)
    BY <1>1, <1>3, <2>3, Levels DEF PtrBlocks, LeadsTo
  <2>5. m.ptr[t[DIND]][k] \in PtrBlocks(m)
    BY <1>1, <1>4, <2>2, <2>3, <2>4 DEF PtrBlocks, LeadsTo
  <2>6. m.ptr[m.ptr[t[DIND]][k]][l] \in Blks
    BY <1>4, <2>1, <2>2, <2>5
  <2> QED BY <1>1, <1>7, <2>1, <2>2, <2>3, <2>4, <2>5, <2>6 DEF t, far, k, l
<1> QED BY <1>5, <1>6, <1>7

\* No block is mapped twice.
LEMMA MapApart ==
    ASSUME NEW m \in Machines, Private(m), NEW f \in Files, NEW g \in Files,
           NEW x \in Copies(m, f), NEW y \in Copies(m, g), NEW lbk \in Lbks, NEW other \in Lbks,
           Map(m, x, lbk) # 0, Map(m, x, lbk) = Map(m, y, other)
    PROVE  f = g /\ lbk = other /\ Map(m, x, lbk) \in Blks
<1> DEFINE b == Map(m, x, lbk)
           t == x.block
           u == y.block
           far == lbk - (NIND + NDIRECT)
           away == other - (NIND + NDIRECT)
           k == far \div NIND
           l == far % NIND
           i == away \div NIND
           j == away % NIND
           D(n, v) == n < NDIRECT /\ n + 1 \in 1 .. DIND /\ b = v[n + 1]
           S(n, v) == /\ v[IND] # 0 /\ v[IND] \in PtrBlocks(m)
                      /\ n - NDIRECT \in 0 .. NIND - 1 /\ b = m.ptr[v[IND]][n - NDIRECT]
           T(v, n, o) == /\ n \in 0 .. NIND - 1 /\ o \in 0 .. NIND - 1
                         /\ v[DIND] # 0 /\ v[DIND] \in PtrBlocks(m)
                         /\ m.ptr[v[DIND]][n] # 0 /\ m.ptr[v[DIND]][n] \in PtrBlocks(m)
                         /\ b = m.ptr[m.ptr[v[DIND]][n]][o]
<1>1. t \in Tables(m, f) /\ u \in Tables(m, g) /\ lbk \in Int /\ other \in Int
  BY Constants DEF Tables, Copies, Lbks
<1>2. D(lbk, t) \/ S(lbk, t) \/ (far \in Nat /\ T(t, k, l))
  BY Ways
<1>3. D(other, u) \/ S(other, u) \/ (away \in Nat /\ T(u, i, j))
  BY Ways
<1>4. b \in Blks /\ b # 0
  BY Ways
<1> HIDE DEF b, t, u, far, away, k, l, i, j
<1>5. ASSUME NEW v, NEW w, NEW h \in Files, v \in Tables(m, h), NEW n \in 1 .. DIND,
             NEW p \in PtrBlocks(m), NEW o \in 0 .. NIND - 1, v[n] # 0, v[n] = m.ptr[p][o]
      PROVE  FALSE
  BY <1>5 DEF Private, TopsNotInRows
<1>6. CASE D(lbk, t)
  <2>1. D(other, u)
    BY <1>1, <1>3, <1>4, <1>5, <1>6
  <2>2. f = g /\ lbk + 1 = other + 1
    <3>1. /\ lbk + 1 \in 1 .. DIND /\ other + 1 \in 1 .. DIND
          /\ t[lbk + 1] # 0 /\ t[lbk + 1] = u[other + 1]
      BY <1>4, <1>6, <2>1
    <3> QED BY <1>1, <3>1 DEF Private, TopsApart
  <2> QED BY <1>1, <1>4, <2>2 DEF b
<1>7. CASE S(lbk, t)
  <2>1. ~ D(other, u)
    BY <1>1, <1>4, <1>5, <1>7
  <2>2. ASSUME away \in Nat /\ T(u, i, j) PROVE FALSE
    <3>1. t[IND] = m.ptr[u[DIND]][i]
      BY <1>4, <1>7, <2>2 DEF Private, RowsApart
    <3> QED BY <1>1, <1>5, <1>7, <2>2, <3>1, Levels
  <2>3. S(other, u)
    BY <1>3, <2>1, <2>2
  <2>4. t[IND] = u[IND] /\ lbk - NDIRECT = other - NDIRECT
    <3>1. /\ m.ptr[t[IND]][lbk - NDIRECT] # 0
          /\ m.ptr[t[IND]][lbk - NDIRECT] = m.ptr[u[IND]][other - NDIRECT]
      BY <1>4, <1>7, <2>3
    <3> QED BY <1>7, <2>3, <3>1 DEF Private, RowsApart
  <2>5. f = g
    BY <1>1, <1>7, <2>4, Levels DEF Private, TopsApart
  <2> QED BY <1>1, <1>4, <2>4, <2>5, Constants DEF b
<1>8. CASE far \in Nat /\ T(t, k, l)
  <2>1. ~ D(other, u)
    BY <1>1, <1>4, <1>5, <1>8
  <2>2. ASSUME S(other, u) PROVE FALSE
    <3>1. u[IND] = m.ptr[t[DIND]][k]
      BY <1>4, <1>8, <2>2 DEF Private, RowsApart
    <3> QED BY <1>1, <1>5, <1>8, <2>2, <3>1, Levels
  <2>3. away \in Nat /\ T(u, i, j)
    BY <1>3, <2>1, <2>2
  <2>4. m.ptr[t[DIND]][k] = m.ptr[u[DIND]][i] /\ l = j
    <3>1. /\ m.ptr[m.ptr[t[DIND]][k]][l] # 0
          /\ m.ptr[m.ptr[t[DIND]][k]][l] = m.ptr[m.ptr[u[DIND]][i]][j]
      BY <1>4, <1>8, <2>3
    <3> QED BY <1>8, <2>3, <3>1 DEF Private, RowsApart
  <2>5. t[DIND] = u[DIND] /\ k = i
    BY <1>8, <2>3, <2>4 DEF Private, RowsApart
  <2>6. f = g
    BY <1>1, <1>8, <2>5, Levels DEF Private, TopsApart
  <2>7. far = NIND * k + l /\ away = NIND * i + j
    BY <1>8, <2>3, Division, Constants DEF k, l, i, j
  <2>8. far = away
    BY <2>4, <2>5, <2>7
  <2> QED BY <1>1, <1>4, <2>6, <2>8, Constants DEF b, far, away
<1> QED BY <1>2, <1>6, <1>7, <1>8

-----------------------------------------------------------------------------
(* The bytes that a write changes, and those it does not.                  *)

\* A logical block is mapped to the number of a block or to 0.
LEMMA MapType ==
    ASSUME NEW m \in Machines, NEW inode \in INODEs, NEW lbk \in Lbks
    PROVE  Map(m, inode, lbk) \in 0 .. NBLOCKS
<1> DEFINE far == lbk - (NIND + NDIRECT)
           t == inode.block
<1>1. t \in [1 .. DIND -> 0 .. NBLOCKS]
  BY DEF INODEs
<1>2. m.ptr \in [0 .. NBLOCKS -> [0 .. NIND - 1 -> 0 .. NBLOCKS]]
  BY Parts DEF Rows
<1>3. CASE lbk < NDIRECT
  <2>1. lbk + 1 \in 1 .. DIND
    BY <1>3, Ranges
  <2> QED BY <1>1, <1>3, <2>1 DEF Map
<1>4. CASE ~ (lbk < NDIRECT) /\ far < 0
  <2>1. lbk - NDIRECT \in 0 .. NIND - 1 /\ t[IND] \in 0 .. NBLOCKS
    BY <1>1, <1>4, Ranges, Levels
  <2> QED BY <1>2, <1>4, <2>1 DEF Map
<1>5. CASE ~ (lbk < NDIRECT) /\ ~ (far < 0)
  <2>1. far \div NIND \in 0 .. NIND - 1 /\ far % NIND \in 0 .. NIND - 1
    BY <1>5, Ranges
  <2>2. m.ptr[t[DIND]][far \div NIND] \in 0 .. NBLOCKS
    BY <1>1, <1>2, <2>1, Levels
  <2> QED BY <1>2, <1>5, <2>1, <2>2 DEF Map
<1> QED BY <1>3, <1>4, <1>5

\* The place of a byte of a file.
LEMMA Place ==
    ASSUME NEW i \in 0 .. MaxSize - 1
    PROVE  /\ i \div BLKSIZE \in Lbks /\ i % BLKSIZE \in 0 .. BLKSIZE - 1
           /\ i = BLKSIZE * (i \div BLKSIZE) + (i % BLKSIZE)
           /\ i \div BLKSIZE \in Nat
<1>1. NIND * NIND \in Nat
  BY Constants
<1>2. i \in Nat
  BY Constants
<1> QED BY <1>1, <1>2, BlockInRange, Division, Constants DEF Lbks

\* The INODE of a file in core and on disk is an INODE, whose size is bounded.
LEMMA CopyType ==
    ASSUME NEW m \in Machines, NEW f \in Files, NEW x \in Copies(m, f)
    PROVE  /\ x \in INODEs /\ x.size \in 0 .. MaxSize /\ x.size \in Nat
           /\ \A i \in 0 .. x.size - 1 : i \in 0 .. MaxSize - 1 /\ i \in Nat
BY MinodeParts, Constants DEF Copies, Size, Inode

\* The blocks of the bytes of a file are mapped.
LEMMA FilledMapped ==
    ASSUME NEW m \in Machines, Blocks(m), NEW f \in Files, NEW x \in Copies(m, f),
           NEW i \in 0 .. x.size - 1
    PROVE  Map(m, x, i \div BLKSIZE) # 0 /\ i \div BLKSIZE \in Lbks
<1>1. i \in 0 .. MaxSize - 1
  BY CopyType
<1>2. i % BLKSIZE \in 0 .. BLKSIZE - 1 /\ i \div BLKSIZE \in Lbks
  BY <1>1, Place
<1>3. m.data[0][i % BLKSIZE] = 0
  BY <1>2, Zeros DEF Blocks
<1>4. ByteAt(m, x, i) # 0
  BY DEF Blocks, Filled
<1> QED BY <1>2, <1>3, <1>4 DEF ByteAt

\* The bytes of f from at on, as far as to, are replaced, and no others.
WroteBytes(m, r, f, at, to, what) ==
    \A g \in Files :
       /\ \A i \in 0 .. m.itable[g].size - 1 :
             ByteAt(r, r.itable[g], i) = IF g = f /\ i \in at .. to - 1 THEN what[i]
                                         ELSE ByteAt(m, m.itable[g], i)
       /\ m.core[g].refCount > 0 => \A i \in 0 .. Size(r, g) - 1 :
             ByteAt(r, r.core[g].INODE, i) = IF g = f /\ i \in at .. to - 1 THEN what[i]
                                             ELSE ByteAt(m, m.core[g].INODE, i)

\* What a write through descriptor n does.
Wrote(m, r, n, to, what) ==
    LET f == m.fd[n].file
        at == m.fd[n].offset
    IN  /\ r.fd = [m.fd EXCEPT ![n] = [file |-> f, offset |-> to]]
        /\ r.itable = m.itable /\ r.st = m.st /\ m.bmap \subseteq r.bmap
        /\ \A g \in Files \ {f} : r.core[g] = m.core[g]
        /\ r.core[f].refCount = m.core[f].refCount /\ r.core[f].lock = m.core[f].lock
        /\ r.core[f].dirty = m.core[f].dirty
        /\ Size(r, f) = IF to > Size(m, f) THEN to ELSE Size(m, f)
        /\ r.bmap # Blks => WroteBytes(m, r, f, at, to, what)

\* The allocation of blocks changes no byte.
LEMMA AllocateBytes ==
    ASSUME NEW m \in Machines, Blocks(m), NEW f \in Files, m.core[f].refCount > 0,
           NEW lbk \in Lbks, Allocate(m, f, lbk).bmap # Blks
    PROVE  LET r == Allocate(m, f, lbk)
           IN  /\ Blocks(r) /\ Map(r, r.core[f].INODE, lbk) # 0
               /\ \A g \in Files :
                     /\ \A i \in 0 .. m.itable[g].size - 1 :
                           ByteAt(r, r.itable[g], i) = ByteAt(m, m.itable[g], i)
                     /\ m.core[g].refCount > 0 => \A i \in 0 .. Size(m, g) - 1 :
                           ByteAt(r, r.core[g].INODE, i) = ByteAt(m, m.core[g].INODE, i)
<1> DEFINE r == Allocate(m, f, lbk)
<1>1. /\ r \in Machines /\ Kept(m, r, f) /\ Private(r) /\ AllFollow(m, r)
      /\ Map(r, r.core[f].INODE, lbk) # 0
  BY AllocateMakes DEF Blocks
<1> HIDE DEF r
<1>2. ASSUME NEW g \in Files, NEW x \in Copies(m, g), NEW y, Follows(m, x, r, y),
             NEW i \in 0 .. x.size - 1
      PROVE  ByteAt(r, y, i) = ByteAt(m, x, i)
  <2>1. Map(m, x, i \div BLKSIZE) # 0 /\ i \div BLKSIZE \in Lbks
    BY FilledMapped
  <2>2. Map(r, y, i \div BLKSIZE) = Map(m, x, i \div BLKSIZE)
    BY <1>2, <2>1 DEF Follows
  <2> QED BY <1>1, <2>2 DEF ByteAt, Kept
<1>3. ASSUME NEW g \in Files
      PROVE  /\ \A i \in 0 .. m.itable[g].size - 1 :
                   ByteAt(r, r.itable[g], i) = ByteAt(m, m.itable[g], i)
             /\ m.core[g].refCount > 0 => \A i \in 0 .. Size(m, g) - 1 :
                   ByteAt(r, r.core[g].INODE, i) = ByteAt(m, m.core[g].INODE, i)
  <2>1. m.itable[g] \in Copies(m, g) /\ Follows(m, m.itable[g], r, r.itable[g])
    BY <1>1 DEF Copies, AllFollow
  <2>2. m.core[g].refCount > 0 => /\ m.core[g].INODE \in Copies(m, g)
                                  /\ Follows(m, m.core[g].INODE, r, r.core[g].INODE)
    BY <1>1 DEF Copies, AllFollow
  <2> QED BY <1>2, <2>1, <2>2 DEF Size, Inode
<1>4. Filled(r)
  <2> SUFFICES ASSUME NEW g \in Files, NEW y \in Copies(r, g), NEW i \in 0 .. y.size - 1
               PROVE  ByteAt(r, y, i) # 0
    BY DEF Filled
  <2>1. CASE y = r.itable[g]
    <3>1. y = m.itable[g] /\ m.itable[g] \in Copies(m, g)
      BY <1>1, <2>1 DEF Kept, Copies
    <3>2. i \in 0 .. m.itable[g].size - 1
      BY <3>1
    <3>3. ByteAt(m, m.itable[g], i) # 0
      BY <3>1, <3>2 DEF Blocks, Filled
    <3> QED BY <1>3, <2>1, <3>2, <3>3
  <2>2. CASE y = r.core[g].INODE /\ r.core[g].refCount > 0
    <3>1. m.core[g].refCount > 0 /\ m.core[g].INODE \in Copies(m, g)
          /\ y.size = m.core[g].INODE.size
      BY <1>1, <2>2 DEF Kept, Copies, Size, Inode
    <3> QED BY <1>3, <2>2, <3>1 DEF Blocks, Filled, Size, Inode
  <2> QED BY <2>1, <2>2 DEF Copies
<1>5. r.data[0] = ZeroData
  BY <1>1 DEF Kept, Blocks
<1> QED BY <1>1, <1>3, <1>4, <1>5 DEF Blocks, r

\* A byte put in its place is a byte of f, at that place, and of no other file.
LEMMA PutByteBytes ==
    ASSUME NEW m \in Machines, Blocks(m), NEW f \in Files, m.core[f].refCount > 0,
           NEW at \in 0 .. MaxSize - 1, NEW byte \in Bytes,
           Map(m, m.core[f].INODE, at \div BLKSIZE) # 0
    PROVE  LET b == Map(m, m.core[f].INODE, at \div BLKSIZE)
               r == PutByte(m, b, at % BLKSIZE, byte)
           IN  /\ Blocks(r)
               /\ ByteAt(r, r.core[f].INODE, at) = byte
               /\ \A g \in Files : \A x \in Copies(m, g) : \A i \in 0 .. x.size - 1 :
                     ByteAt(r, x, i) = IF g = f /\ i = at THEN byte ELSE ByteAt(m, x, i)
<1> DEFINE lbk == at \div BLKSIZE
           o == at % BLKSIZE
           b == Map(m, m.core[f].INODE, lbk)
           r == PutByte(m, b, o, byte)
<1>1. lbk \in Lbks /\ o \in 0 .. BLKSIZE - 1 /\ at = BLKSIZE * lbk + o
  BY Place
<1>2. b \in 0 .. NBLOCKS /\ b # 0 /\ m.core[f].INODE \in Copies(m, f)
  BY <1>1, MapType, MinodeParts DEF Copies
<1> HIDE DEF b, lbk, o
<1>3. /\ r \in Machines
      /\ r.data = [m.data EXCEPT ![b] = [m.data[b] EXCEPT ![o] = byte]]
      /\ r.itable = m.itable /\ r.ptr = m.ptr /\ r.core = m.core
      /\ r.bmap = m.bmap /\ r.fd = m.fd /\ r.st = m.st
  <2>1. byte \in Bytes \cup {0}
    OBVIOUS
  <2> QED BY <1>1, <1>2, <2>1, PutByteMakes
<1> HIDE DEF r
<1>4. ASSUME NEW c \in 0 .. NBLOCKS, NEW k \in 0 .. BLKSIZE - 1
      PROVE  r.data[c][k] = IF c = b /\ k = o THEN byte ELSE m.data[c][k]
  <2>1. m.data \in [0 .. NBLOCKS -> [0 .. BLKSIZE - 1 -> Bytes \cup {0}]]
    BY Parts
  <2> DEFINE row == [m.data[b] EXCEPT ![o] = byte]
  <2>2. row[k] = IF k = o THEN byte ELSE m.data[b][k]
    BY <1>1, <1>2, <2>1
  <2> HIDE DEF row
  <2>3. r.data[c] = IF c = b THEN row ELSE m.data[c]
    BY <1>2, <1>3, <2>1 DEF row
  <2> QED BY <2>2, <2>3
<1>5. \A inode, k : Map(r, inode, k) = Map(m, inode, k)
  BY <1>3 DEF Map
<1>6. ASSUME NEW g \in Files, NEW x \in Copies(m, g), NEW i \in 0 .. x.size - 1
      PROVE  ByteAt(r, x, i) = IF g = f /\ i = at THEN byte ELSE ByteAt(m, x, i)
  <2> DEFINE j == i \div BLKSIZE
             k == i % BLKSIZE
             c == Map(m, x, j)
  <2>1. i \in 0 .. MaxSize - 1 /\ x \in INODEs
    BY CopyType
  <2>2. j \in Lbks /\ k \in 0 .. BLKSIZE - 1 /\ i = BLKSIZE * j + k
    BY <2>1, Place
  <2>3. c # 0 /\ c \in 0 .. NBLOCKS
    BY <2>1, <2>2, FilledMapped, MapType
  <2>4. ByteAt(m, x, i) = m.data[c][k] /\ ByteAt(r, x, i) = r.data[c][k]
    BY <1>5 DEF ByteAt
  <2> HIDE DEF j, k
  <2>5. c = b => g = f /\ j = lbk
    BY <1>1, <1>2, <2>2, <2>3, MapApart DEF Blocks, b
  <2>6. g = f /\ i = at => c = b /\ k = o
    <3> SUFFICES ASSUME g = f, i = at PROVE c = b /\ k = o
      OBVIOUS
    <3>1. j = lbk /\ k = o
      BY DEF j, k, lbk, o
    <3>2. CASE x = m.core[f].INODE
      BY <3>1, <3>2 DEF b
    <3>3. CASE x = m.itable[f]
      <4>1. \A n \in 1 .. DIND : x.block[n] # 0 => m.core[f].INODE.block[n] = x.block[n]
        BY <3>3 DEF Blocks, Private, Agree
      <4>2. RowsKept(m, m)
        BY DEF RowsKept
      <4>3. Follows(m, x, m, m.core[f].INODE)
        BY <4>1, <4>2, FollowsIfKept DEF Blocks
      <4> QED BY <1>1, <2>3, <3>1, <4>3 DEF Follows, b
    <3> QED BY <3>2, <3>3 DEF Copies
  <2> HIDE DEF c
  <2>7. c = b /\ k = o => i = at
    BY <1>1, <2>2, <2>5
  <2> QED BY <1>4, <2>2, <2>3, <2>4, <2>5, <2>6, <2>7
<1>7. ByteAt(r, r.core[f].INODE, at) = byte
  BY <1>1, <1>2, <1>3, <1>4, <1>5 DEF ByteAt, b, lbk, o
<1>8. \A g \in Files : Copies(r, g) = Copies(m, g)
  BY <1>3 DEF Copies
<1>9. Private(r)
  <2>1. \A g \in Files : Tables(r, g) \subseteq Tables(m, g)
    BY <1>3 DEF Tables
  <2>2. Agree(r)
    BY <1>3 DEF Blocks, Private, Agree
  <2> QED BY <1>3, <2>1, <2>2, FewerPrivate DEF Blocks
<1>10. Filled(r)
  <2>1. byte # 0
    BY InputsAssumption
  <2> QED BY <1>6, <1>8, <2>1 DEF Blocks, Filled
<1>11. r.data[0] = ZeroData
  BY <1>2, <1>3, Parts, Constants DEF Blocks
<1> QED BY <1>6, <1>7, <1>9, <1>10, <1>11 DEF Blocks, r, b, lbk, o

\* The size follows the last byte.
LEMMA GrownMakes ==
    ASSUME NEW inode \in INODEs, NEW at \in 0 .. MaxSize - 1, at <= inode.size
    PROVE  /\ Grown(inode, at) \in INODEs /\ Grown(inode, at).block = inode.block
           /\ Grown(inode, at).size = IF at + 1 > inode.size THEN at + 1 ELSE inode.size
<1>1. inode.size \in 0 .. MaxSize
  BY DEF INODEs
<1>2. CASE at + 1 > inode.size
  <2>1. inode.size = at /\ at + 1 \in 0 .. MaxSize
    BY <1>1, <1>2, Constants
  <2> QED BY <1>2, <2>1, InodeOf DEF Grown
<1>3. CASE ~ (at + 1 > inode.size)
  BY <1>3 DEF Grown
<1> QED BY <1>2, <1>3

\* One round of the inner loop of mywrite() puts a byte and moves the offset by one.
LEMMA WriteByteMakes ==
    ASSUME NEW m, Sound(m), NEW n \in FDs, m.fd[n] # Null, m.fd[n].offset < MaxSize,
           NEW byte \in Bytes \cup {0}, m.bmap # Blks => byte \in Bytes,
           NEW what, what[m.fd[n].offset] = byte
    PROVE  LET r == WriteByte(m, n, byte)
           IN  Sound(r) /\ Wrote(m, r, n, m.fd[n].offset + 1, what)
<1> DEFINE f == m.fd[n].file
           at == m.fd[n].offset
           lbk == at \div BLKSIZE
           o == at % BLKSIZE
           m1 == Allocate(m, f, lbk)
           b == Map(m1, m1.core[f].INODE, lbk)
           m2 == PutByte(m1, b, o, byte)
           oft == [file |-> f, offset |-> at + 1]
           m3 == PutOFT(m2, n, oft)
           old == m3.core[f]
           inode == Grown(old.INODE, at)
           mip == [old EXCEPT !.INODE = inode]
           r == PutMinode(m3, f, mip)
<1>1. WriteByte(m, n, byte) = r
  BY DEF WriteByte, With, Inode
<1>2. /\ m \in Machines /\ f \in Files /\ at \in 0 .. MaxSize - 1 /\ at \in Nat
      /\ at <= Size(m, f) /\ Size(m, f) \in 0 .. MaxSize
      /\ m.core[f].lock /\ m.core[f].refCount > 0 /\ m.core[f].dirty
      /\ \A k \in FDs \ {n} : m.fd[k].file # f
  <2>1. m \in Machines
    BY DEF Sound
  <2>2. f \in Files /\ at \in 0 .. MaxSize /\ at \in Nat
    BY <2>1, OpenOFT
  <2>3. at \in 0 .. MaxSize - 1
    BY <2>2, Constants
  <2>4. Size(m, f) \in 0 .. MaxSize
    BY <2>1, <2>2, MinodeParts
  <2> QED BY <2>1, <2>2, <2>3, <2>4 DEF Sound, Locks, Offsets
<1>3. oft \in OFTs /\ oft # Null
  <2>1. at + 1 \in 0 .. MaxSize
    BY <1>2, Constants
  <2>2. oft \in OFTs
    BY <1>2, <2>1 DEF OFTs
  <2>3. oft.file = f /\ Null.file = NoFile
    BY DEF Null
  <2> QED BY <1>2, <2>2, <2>3, FilesAssumption DEF NoFile
<1>4. lbk \in Lbks /\ o \in 0 .. BLKSIZE - 1
  <2> HIDE DEF f, at
  <2> QED BY <1>2, Place
<1> HIDE DEF f, at, lbk, o, oft
<1>5. m1 \in Machines /\ Kept(m, m1, f)
  BY <1>2, <1>4, AllocateMakes
<1>6. b \in 0 .. NBLOCKS
  <2> HIDE DEF m1
  <2> QED BY <1>2, <1>4, <1>5, MapType, MinodeParts
<1>7. m1.bmap # Blks =>
        /\ Blocks(m1) /\ b # 0
        /\ \A g \in Files :
              /\ \A i \in 0 .. m.itable[g].size - 1 :
                    ByteAt(m1, m1.itable[g], i) = ByteAt(m, m.itable[g], i)
              /\ m.core[g].refCount > 0 => \A i \in 0 .. Size(m, g) - 1 :
                    ByteAt(m1, m1.core[g].INODE, i) = ByteAt(m, m.core[g].INODE, i)
  <2> SUFFICES ASSUME m1.bmap # Blks PROVE Blocks(m)
    BY <1>2, <1>4, AllocateBytes
  <2>1. m.bmap # Blks
    BY <1>5, Parts DEF Kept
  <2> QED BY <2>1 DEF Sound
<1> HIDE DEF m1
<1>0. m1.bmap # Blks => byte \in Bytes
  BY <1>5, Parts DEF Kept
<1>8. m1.core[f].refCount > 0 /\ m1.itable = m.itable
  BY <1>2, <1>5 DEF Kept
<1>9. m1.bmap # Blks =>
        /\ Blocks(m2)
        /\ ByteAt(m2, m2.core[f].INODE, at) = byte
        /\ \A g \in Files : \A x \in Copies(m1, g) : \A i \in 0 .. x.size - 1 :
              ByteAt(m2, x, i) = IF g = f /\ i = at THEN byte ELSE ByteAt(m1, x, i)
  BY <1>0, <1>2, <1>5, <1>7, <1>8, PutByteBytes DEF b, lbk, o
<1>10. /\ m2 \in Machines /\ m2.itable = m.itable /\ m2.ptr = m1.ptr /\ m2.core = m1.core
       /\ m2.bmap = m1.bmap /\ m2.fd = m.fd /\ m2.st = m.st
  <2> HIDE DEF b
  <2>2. /\ m2 \in Machines /\ m2.itable = m1.itable /\ m2.ptr = m1.ptr
        /\ m2.core = m1.core /\ m2.bmap = m1.bmap /\ m2.fd = m1.fd /\ m2.st = m1.st
    <3>1. m1 \in Machines /\ b \in 0 .. NBLOCKS /\ o \in 0 .. BLKSIZE - 1
      BY <1>4, <1>5, <1>6
    <3>2. m2 \in Machines
      BY <3>1, PutByteMakes
    <3> QED BY <3>2 DEF PutByte
  <2>3. m1.itable = m.itable /\ m1.fd = m.fd /\ m1.st = m.st
    BY <1>5 DEF Kept
  <2> QED BY <2>2, <2>3
<1> HIDE DEF m2
<1>11. /\ m3 \in Machines /\ m3.fd = [m.fd EXCEPT ![n] = oft] /\ m3.itable = m.itable
       /\ m3.data = m2.data /\ m3.ptr = m1.ptr /\ m3.core = m1.core
       /\ m3.bmap = m1.bmap /\ m3.st = m.st
  BY <1>3, <1>10, PutOFTMakes
<1> HIDE DEF m3
<1>12. /\ old \in MINODEs /\ old.INODE \in INODEs /\ old = m1.core[f]
       /\ old.INODE.size = Size(m, f)
  BY <1>2, <1>5, <1>11, MinodeParts DEF Kept, Size, Inode
<1> HIDE DEF old
<1>13. /\ inode \in INODEs /\ inode.block = m1.core[f].INODE.block
       /\ inode.size = IF at + 1 > Size(m, f) THEN at + 1 ELSE Size(m, f)
  BY <1>2, <1>12, GrownMakes
<1> HIDE DEF inode
<1>14. /\ mip \in MINODEs /\ mip.refCount = old.refCount /\ mip.lock = old.lock
       /\ mip.dirty = old.dirty /\ mip.INODE = inode
  BY <1>12, <1>13 DEF MINODEs
<1> HIDE DEF mip
<1>15. /\ r \in Machines /\ r.core = [m1.core EXCEPT ![f] = mip] /\ r.itable = m.itable
       /\ r.data = m2.data /\ r.ptr = m1.ptr /\ r.bmap = m1.bmap
       /\ r.fd = [m.fd EXCEPT ![n] = oft] /\ r.st = m.st
  BY <1>2, <1>11, <1>14, PutMinodeMakes
<1> HIDE DEF r
<1>16. /\ r.core[f] = mip /\ \A g \in Files \ {f} : r.core[g] = m.core[g]
       /\ mip.refCount = m.core[f].refCount /\ mip.lock = m.core[f].lock
       /\ mip.dirty = m.core[f].dirty
  BY <1>2, <1>5, <1>12, <1>14, <1>15, Parts DEF Kept
<1>17. /\ r.fd[n] = oft /\ \A k \in FDs \ {n} : r.fd[k] = m.fd[k]
       /\ oft.file = f /\ oft.offset = at + 1
  BY <1>2, <1>15, Parts DEF oft
<1>18. Locks(r)
  <2> SUFFICES ASSUME NEW k \in FDs, r.fd[k] # Null
               PROVE  /\ r.core[r.fd[k].file].lock
                      /\ \A l \in FDs \ {k} : r.fd[l].file # r.fd[k].file
    BY <1>16 DEF Sound, Locks
  <2>1. CASE k = n
    BY <1>2, <1>16, <1>17, <2>1
  <2>2. CASE k # n
    <3>1. m.fd[k] # Null /\ m.fd[k].file \in Files \ {f} /\ r.fd[k] = m.fd[k]
      BY <1>2, <1>17, <2>2, OpenOFT
    <3>2. /\ m.core[m.fd[k].file].lock
          /\ \A l \in FDs \ {k} : m.fd[l].file # m.fd[k].file
      BY <3>1 DEF Sound, Locks
    <3>3. \A l \in FDs \ {k} : r.fd[l].file = m.fd[l].file
      BY <1>17 DEF f
    <3> QED BY <1>16, <3>1, <3>2, <3>3
  <2> QED BY <2>1, <2>2
<1>19. Clean(r)
  BY <1>2, <1>15, <1>16 DEF Sound, Clean
<1>20. Size(r, f) = inode.size /\ \A g \in Files \ {f} : Size(r, g) = Size(m, g)
  BY <1>14, <1>16 DEF Size, Inode
<1>21. Offsets(r)
  <2> SUFFICES ASSUME NEW k \in FDs, r.fd[k] # Null
               PROVE  r.fd[k].offset <= Size(r, r.fd[k].file)
    BY DEF Offsets
  <2>1. CASE k = n
    BY <1>2, <1>13, <1>17, <1>20, <2>1
  <2>2. CASE k # n
    <3>1. m.fd[k] # Null /\ m.fd[k].file \in Files \ {f} /\ r.fd[k] = m.fd[k]
      BY <1>2, <1>17, <2>2, OpenOFT
    <3> QED BY <1>20, <3>1 DEF Sound, Offsets
  <2> QED BY <2>1, <2>2
<1>22. \A x, y : x.block = y.block => \A i : ByteAt(r, x, i) = ByteAt(m2, y, i)
  BY <1>10, <1>15, BytesOfBlocks
<1>23. ASSUME r.bmap # Blks
       PROVE  /\ WroteBytes(m, r, f, at, at + 1, what)
              /\ \A i \in 0 .. inode.size - 1 : ByteAt(r, inode, i) # 0
  <2>1. m1.bmap # Blks
    BY <1>15, <1>23
  <2>2. ASSUME NEW g \in Files, NEW i \in 0 .. m.itable[g].size - 1
        PROVE  ByteAt(r, r.itable[g], i) = IF g = f /\ i = at THEN byte
                                           ELSE ByteAt(m, m.itable[g], i)
    <3>1. ByteAt(r, r.itable[g], i) = ByteAt(m2, m.itable[g], i)
      BY <1>15, <1>22
    <3>2. m.itable[g] \in Copies(m1, g)
      BY <1>8 DEF Copies
    <3>3. ByteAt(m2, m.itable[g], i) = IF g = f /\ i = at THEN byte
                                       ELSE ByteAt(m1, m.itable[g], i)
      BY <1>9, <2>1, <3>2
    <3>4. ByteAt(m1, m.itable[g], i) = ByteAt(m, m.itable[g], i)
      BY <1>7, <1>8, <2>1
    <3> QED BY <3>1, <3>3, <3>4
  <2>3. ASSUME NEW g \in Files, m.core[g].refCount > 0, NEW i \in 0 .. Size(m, g) - 1
        PROVE  ByteAt(r, r.core[g].INODE, i) = IF g = f /\ i = at THEN byte
                                               ELSE ByteAt(m, m.core[g].INODE, i)
    <3>1. r.core[g].INODE.block = m1.core[g].INODE.block
      BY <1>5, <1>13, <1>14, <1>16 DEF Kept
    <3>2. ByteAt(r, r.core[g].INODE, i) = ByteAt(m2, m1.core[g].INODE, i)
      BY <1>22, <3>1
    <3>3. m1.core[g].INODE \in Copies(m1, g) /\ m1.core[g].INODE.size = Size(m, g)
      BY <1>5, <1>8, <2>3 DEF Copies, Kept, Size, Inode
    <3>4. ByteAt(m2, m1.core[g].INODE, i) = IF g = f /\ i = at THEN byte
                                            ELSE ByteAt(m1, m1.core[g].INODE, i)
      BY <1>9, <2>1, <3>3
    <3>5. ByteAt(m1, m1.core[g].INODE, i) = ByteAt(m, m.core[g].INODE, i)
      BY <1>7, <2>1, <2>3
    <3> QED BY <3>2, <3>4, <3>5
  <2>4. ByteAt(r, r.core[f].INODE, at) = byte
    <3>1. ByteAt(r, r.core[f].INODE, at) = ByteAt(m2, m2.core[f].INODE, at)
      BY <1>10, <1>13, <1>14, <1>16, <1>22
    <3> QED BY <1>9, <2>1, <3>1
  <2>5. at \in at .. (at + 1) - 1 /\ \A i \in at .. (at + 1) - 1 : i = at
    BY <1>2
  <2>6. what[at] = byte
    BY DEF at
  <2>7. ASSUME NEW g \in Files, m.core[g].refCount > 0, NEW i \in 0 .. Size(r, g) - 1
        PROVE  ByteAt(r, r.core[g].INODE, i) = IF g = f /\ i = at THEN byte
                                               ELSE ByteAt(m, m.core[g].INODE, i)
    <3>1. CASE g = f /\ i = at
      BY <2>4, <3>1
    <3>2. CASE ~ (g = f /\ i = at)
      <4>1. i \in 0 .. Size(m, g) - 1
        BY <1>2, <1>13, <1>20, <3>2
      <4> QED BY <2>3, <2>7, <3>2, <4>1
    <3> QED BY <3>1, <3>2
  <2>8. WroteBytes(m, r, f, at, at + 1, what)
    BY <2>2, <2>5, <2>6, <2>7 DEF WroteBytes
  <2>9. ASSUME NEW i \in 0 .. inode.size - 1
        PROVE  ByteAt(r, inode, i) # 0
    <3>1. r.core[f].INODE = inode
      BY <1>14, <1>16
    <3>2. CASE i = at
      BY <1>0, <2>1, <2>4, <3>1, <3>2, InputsAssumption
    <3>3. CASE i # at
      <4>1. i \in 0 .. Size(m, f) - 1
        BY <1>2, <1>13, <3>3
      <4>2. m.core[f].INODE \in Copies(m, f) /\ m.core[f].INODE.size = Size(m, f)
        BY <1>2 DEF Copies, Size, Inode
      <4>3. m.bmap # Blks
        BY <1>2, <1>5, <2>1, Parts DEF Kept
      <4>4. ByteAt(m, m.core[f].INODE, i) # 0
        BY <1>2, <4>1, <4>2, <4>3 DEF Sound, Blocks, Filled
      <4> QED BY <1>2, <2>3, <3>1, <3>3, <4>1, <4>4
    <3> QED BY <3>2, <3>3
  <2> QED BY <2>8, <2>9
<1>24. ASSUME r.bmap # Blks PROVE Blocks(r)
  <2>1. Blocks(m2) /\ m2.bmap = r.bmap /\ m2.core = m1.core
    BY <1>9, <1>10, <1>15, <1>24
  <2>2. ASSUME NEW g \in Files
        PROVE  /\ Tables(r, g) \subseteq Tables(m2, g)
               /\ r.core[g].refCount = m2.core[g].refCount
               /\ r.core[g].INODE.block = m2.core[g].INODE.block
    BY <1>5, <1>10, <1>13, <1>14, <1>15, <1>16 DEF Tables, Kept
  <2>3. Agree(r)
    BY <1>10, <1>15, <2>1, <2>2 DEF Blocks, Private, Agree
  <2>4. Private(r)
    BY <1>10, <1>15, <2>1, <2>2, <2>3, FewerPrivate DEF Blocks
  <2>5. Filled(r)
    <3> SUFFICES ASSUME NEW g \in Files, NEW x \in Copies(r, g), NEW i \in 0 .. x.size - 1
                 PROVE  ByteAt(r, x, i) # 0
      BY DEF Filled
    <3>1. CASE g = f /\ x = r.core[f].INODE
      BY <1>14, <1>16, <1>23, <1>24, <3>1
    <3>2. CASE ~ (g = f /\ x = r.core[f].INODE)
      <4>1. x \in Copies(m2, g)
        BY <1>5, <1>10, <1>15, <1>16, <3>2 DEF Copies, Kept
      <4>2. ByteAt(m2, x, i) # 0
        BY <2>1, <4>1 DEF Blocks, Filled
      <4> QED BY <1>22, <4>2
    <3> QED BY <3>1, <3>2
  <2>6. r.data[0] = ZeroData
    BY <1>15, <2>1 DEF Blocks
  <2> QED BY <2>4, <2>5, <2>6 DEF Blocks
<1>25. Sound(r)
  BY <1>15, <1>18, <1>19, <1>21, <1>24 DEF Sound
<1>26. Wrote(m, r, n, at + 1, what)
  BY <1>5, <1>13, <1>15, <1>16, <1>20, <1>23 DEF Wrote, f, at, oft, Kept
<1> QED BY <1>1, <1>25, <1>26 DEF r, at

\* A write of nothing, and one write after another.
LEMMA WroteNothing ==
    ASSUME NEW m \in Machines, NEW n \in FDs, m.fd[n] # Null, NEW what,
           m.fd[n].offset <= Size(m, m.fd[n].file)
    PROVE  Wrote(m, m, n, m.fd[n].offset, what)
<1> DEFINE f == m.fd[n].file
           at == m.fd[n].offset
<1>1. at \in Nat /\ m.fd[n] \in OFTs /\ f \in Files
  BY OpenOFT
<1>2. m.fd[n] = [file |-> f, offset |-> at]
  BY <1>1 DEF OFTs
<1>3. m.fd = [m.fd EXCEPT ![n] = [file |-> f, offset |-> at]]
  BY <1>2, Parts
<1>4. Size(m, f) \in Nat
  BY <1>1, MinodeParts
<1>5. \A i : i \notin at .. at - 1
  BY <1>1
<1>6. WroteBytes(m, m, f, at, at, what)
  BY <1>5 DEF WroteBytes
<1>7. Size(m, f) = IF at > Size(m, f) THEN at ELSE Size(m, f)
  BY <1>1, <1>4
<1> QED BY <1>3, <1>6, <1>7 DEF Wrote

\* A text written in two parts is written.
LEMMA WroteTransitive ==
    ASSUME NEW m \in Machines, NEW r \in Machines, NEW s \in Machines, NEW n \in FDs,
           m.fd[n] # Null, m.fd[n].offset <= Size(m, m.fd[n].file), NEW what,
           NEW b \in Nat, NEW c \in Nat, m.fd[n].offset <= b, b <= c,
           Wrote(m, r, n, b, what), Wrote(r, s, n, c, what)
    PROVE  Wrote(m, s, n, c, what)
<1> DEFINE f == m.fd[n].file
           at == m.fd[n].offset
<1>1. f \in Files /\ at \in Nat
  BY OpenOFT
<1>2. r.fd[n].file = f /\ r.fd[n].offset = b
  BY Parts DEF Wrote
<1> HIDE DEF f, at
<1>3. /\ r.fd = [m.fd EXCEPT ![n] = [file |-> f, offset |-> b]]
      /\ r.itable = m.itable /\ r.st = m.st /\ m.bmap \subseteq r.bmap
      /\ \A g \in Files \ {f} : r.core[g] = m.core[g]
      /\ r.core[f].refCount = m.core[f].refCount /\ r.core[f].lock = m.core[f].lock
      /\ r.core[f].dirty = m.core[f].dirty
      /\ Size(r, f) = IF b > Size(m, f) THEN b ELSE Size(m, f)
      /\ r.bmap # Blks => WroteBytes(m, r, f, at, b, what)
  BY DEF Wrote, f, at
<1>4. /\ s.fd = [r.fd EXCEPT ![n] = [file |-> f, offset |-> c]]
      /\ s.itable = r.itable /\ s.st = r.st /\ r.bmap \subseteq s.bmap
      /\ \A g \in Files \ {f} : s.core[g] = r.core[g]
      /\ s.core[f].refCount = r.core[f].refCount /\ s.core[f].lock = r.core[f].lock
      /\ s.core[f].dirty = r.core[f].dirty
      /\ Size(s, f) = IF c > Size(r, f) THEN c ELSE Size(r, f)
      /\ s.bmap # Blks => WroteBytes(r, s, f, b, c, what)
  BY <1>2 DEF Wrote
<1>5. s.fd = [m.fd EXCEPT ![n] = [file |-> f, offset |-> c]]
  BY <1>3, <1>4, Parts
<1>6. Size(m, f) \in Nat /\ at <= b
  BY <1>1, MinodeParts DEF at
<1>7. Size(s, f) = IF c > Size(m, f) THEN c ELSE Size(m, f)
  BY <1>3, <1>4, <1>6
<1>8. ASSUME s.bmap # Blks PROVE WroteBytes(m, s, f, at, c, what)
  <2>1. r.bmap # Blks
    BY <1>4, <1>8, Parts
  <2>2. WroteBytes(m, r, f, at, b, what) /\ WroteBytes(r, s, f, b, c, what)
    BY <1>3, <1>4, <1>8, <2>1
  <2>3. ASSUME NEW g \in Files, NEW i \in 0 .. m.itable[g].size - 1
        PROVE  ByteAt(s, s.itable[g], i) = IF g = f /\ i \in at .. c - 1 THEN what[i]
                                           ELSE ByteAt(m, m.itable[g], i)
    <3>1. ByteAt(s, s.itable[g], i) = IF g = f /\ i \in b .. c - 1 THEN what[i]
                                      ELSE ByteAt(r, r.itable[g], i)
      BY <1>3, <2>2 DEF WroteBytes
    <3>2. ByteAt(r, r.itable[g], i) = IF g = f /\ i \in at .. b - 1 THEN what[i]
                                      ELSE ByteAt(m, m.itable[g], i)
      BY <2>2 DEF WroteBytes
    <3>3. i \in at .. c - 1 <=> i \in at .. b - 1 \/ i \in b .. c - 1
      BY <1>1, <1>6
    <3> QED BY <3>1, <3>2, <3>3
  <2>4. ASSUME NEW g \in Files, m.core[g].refCount > 0, NEW i \in 0 .. Size(s, g) - 1
        PROVE  ByteAt(s, s.core[g].INODE, i) = IF g = f /\ i \in at .. c - 1 THEN what[i]
                                               ELSE ByteAt(m, m.core[g].INODE, i)
    <3>1. r.core[g].refCount > 0
      BY <1>3, <2>4
    <3>2. ByteAt(s, s.core[g].INODE, i) = IF g = f /\ i \in b .. c - 1 THEN what[i]
                                          ELSE ByteAt(r, r.core[g].INODE, i)
      BY <2>2, <3>1 DEF WroteBytes
    <3>3. i \in 0 .. Size(r, g) - 1 =>
             ByteAt(r, r.core[g].INODE, i) = IF g = f /\ i \in at .. b - 1 THEN what[i]
                                             ELSE ByteAt(m, m.core[g].INODE, i)
      BY <2>2, <2>4 DEF WroteBytes
    <3>4. Size(s, g) \in Nat /\ i \in Int
      BY MinodeParts
    <3>5. i \in 0 .. Size(r, g) - 1 \/ (g = f /\ i \in b .. c - 1)
      <4>1. CASE g = f
        BY <1>3, <1>4, <1>6, <3>4, <4>1
      <4>2. CASE g # f
        BY <1>4, <4>2 DEF Size, Inode
      <4> QED BY <4>1, <4>2
    <3>6. i \in at .. c - 1 <=> i \in at .. b - 1 \/ i \in b .. c - 1
      BY <1>1, <1>6, <3>4
    <3> QED BY <3>2, <3>3, <3>5, <3>6
  <2> QED BY <2>3, <2>4 DEF WroteBytes
<1> QED BY <1>3, <1>4, <1>5, <1>7, <1>8 DEF Wrote, f, at

\* The bytes are written one after the other.
LEMMA WriteBytesSteps ==
    ASSUME NEW m, NEW n, NEW text \in Seq(Bytes \cup {0})
    PROVE  LET after == WriteBytes(m, n, text)
           IN  /\ after[0] = m
               /\ \A k \in 1 .. Len(text) : after[k] = WriteByte(after[k - 1], n, text[k])
<1> DEFINE L == Len(text)
           Is(g, j) == g = [k \in 0 .. j |-> IF k = 0 THEN m
                                              ELSE WriteByte(g[k - 1], n, text[k])]
           S == {j \in Nat : \E g : Is(g, j)}
<1>1. L \in Nat
  OBVIOUS
<1>2. 0 \in S
  <2>1. Is([k \in 0 .. 0 |-> m], 0)
    OBVIOUS
  <2> QED BY <2>1
<1>3. ASSUME NEW j \in Nat, j \in S PROVE j + 1 \in S
  <2>1. PICK g : Is(g, j)
    BY <1>3
  <2> DEFINE h == [k \in 0 .. j + 1 |-> IF k <= j THEN g[k]
                                        ELSE WriteByte(g[j], n, text[j + 1])]
  <2>2. ASSUME NEW k \in 0 .. j + 1
        PROVE  h[k] = IF k = 0 THEN m ELSE WriteByte(h[k - 1], n, text[k])
    <3>1. CASE k = 0
      BY <2>1, <3>1
    <3>2. CASE k # 0 /\ k <= j
      <4>1. k - 1 \in 0 .. j /\ k - 1 <= j /\ k \in 0 .. j
        BY <3>2
      <4>2. h[k] = g[k] /\ h[k - 1] = g[k - 1]
        BY <3>2, <4>1
      <4>3. g[k] = WriteByte(g[k - 1], n, text[k])
        BY <2>1, <3>2, <4>1
      <4> QED BY <3>2, <4>2, <4>3
    <3>3. CASE k # 0 /\ ~ (k <= j)
      <4>1. k = j + 1 /\ k - 1 = j /\ j \in 0 .. j + 1 /\ j <= j
        BY <3>3
      <4>2. h[k] = WriteByte(g[j], n, text[j + 1]) /\ h[j] = g[j]
        BY <3>3, <4>1
      <4> QED BY <3>3, <4>1, <4>2
    <3> QED BY <3>1, <3>2, <3>3
  <2>3. Is(h, j + 1)
    <3>1. h = [k \in 0 .. j + 1 |-> h[k]]
      OBVIOUS
    <3> HIDE DEF h
    <3> QED BY <2>2, <3>1
  <2> HIDE DEF h
  <2>4. \E f : Is(f, j + 1)
    BY <2>3
  <2> QED BY <2>4
<1>4. Nat \subseteq S
  <2> HIDE DEF S
  <2> QED BY <1>2, <1>3, SetInduction
<1>5. \E g : Is(g, L)
  BY <1>1, <1>4
<1>6. Is(WriteBytes(m, n, text), L)
  BY <1>5 DEF WriteBytes
<1> HIDE DEF L
<1> DEFINE after == WriteBytes(m, n, text)
<1>7. after = [k \in 0 .. L |-> IF k = 0 THEN m ELSE WriteByte(after[k - 1], n, text[k])]
  BY <1>6
<1> HIDE DEF after
<1>8. /\ after[0] = m
      /\ \A k \in 1 .. L : after[k] = WriteByte(after[k - 1], n, text[k])
  BY <1>1, <1>7
<1> QED BY <1>8 DEF L, after
-----------------------------------------------------------------------------
(* write_cp.c and read_cat.c.                                              *)

\* mywrite() of an open descriptor puts the text from the offset on.
LEMMA MyWriteMakes ==
    ASSUME NEW m, Sound(m), NEW n \in FDs, m.fd[n] # Null, NEW text \in Seq(Bytes \cup {0}),
           m.bmap # Blks => \A i \in 1 .. Len(text) : text[i] \in Bytes,
           m.fd[n].offset + Len(text) <= MaxSize,
           NEW what, \A i \in 1 .. Len(text) : what[m.fd[n].offset + i - 1] = text[i]
    PROVE  LET r == MyWrite(m, n, text)
           IN  Sound(r) /\ Wrote(m, r, n, m.fd[n].offset + Len(text), what)
<1> DEFINE f == m.fd[n].file
           at == m.fd[n].offset
           L == Len(text)
           after == WriteBytes(m, n, text)
           S == {k \in Nat : k <= L => Sound(after[k]) /\ Wrote(m, after[k], n, at + k, what)}
<1>1. /\ m \in Machines /\ f \in Files /\ at \in Nat /\ L \in Nat
      /\ at <= Size(m, f)
      /\ m.core[f].lock /\ m.core[f].dirty
  <2>1. m \in Machines
    BY DEF Sound
  <2> QED BY <2>1, OpenOFT DEF Sound, Locks, Offsets
<1>2. /\ after[0] = m
      /\ \A k \in 1 .. L : after[k] = WriteByte(after[k - 1], n, text[k])
  BY WriteBytesSteps
<1> HIDE DEF after
<1>3. 0 \in S
  <2>1. Wrote(m, m, n, at, what)
    BY <1>1, WroteNothing
  <2>2. at + 0 = at
    BY <1>1
  <2> QED BY <1>2, <2>1, <2>2
<1>4. ASSUME NEW k \in Nat, k \in S PROVE k + 1 \in S
  <2> SUFFICES ASSUME k + 1 <= L
               PROVE  /\ Sound(after[k + 1])
                      /\ Wrote(m, after[k + 1], n, at + (k + 1), what)
    OBVIOUS
  <2> DEFINE r == after[k]
             s == after[k + 1]
  <2>1. k <= L /\ k + 1 \in 1 .. L /\ (k + 1) - 1 = k
    BY <1>1
  <2>2. Sound(r) /\ Wrote(m, r, n, at + k, what)
    BY <1>4, <2>1
  <2>3. s = WriteByte(r, n, text[k + 1])
    BY <1>2, <2>1
  <2> HIDE DEF r, s
  <2>4. text[k + 1] \in Bytes \cup {0} /\ (r.bmap # Blks => text[k + 1] \in Bytes)
    <3>1. m.bmap \subseteq r.bmap /\ r.bmap \subseteq Blks
      BY <2>2, Parts DEF Wrote, Sound
    <3> QED BY <2>1, <3>1
  <2>5. r.fd[n] = [file |-> f, offset |-> at + k]
    <3>1. m \in Machines
      BY <1>1
    <3> QED BY <2>2, <3>1, Parts DEF Wrote
  <2>6. r.fd[n] # Null /\ r.fd[n].offset = at + k /\ r.fd[n].file = f
    <3>1. r.fd[n].file = f /\ r.fd[n].offset = at + k
      BY <2>5
    <3>2. r \in Machines
      BY <2>2 DEF Sound
    <3> QED BY <1>1, <3>1, <3>2, OpenOFT
  <2>7. at + k < MaxSize
    BY <1>1, <2>1, Constants
  <2>8. what[at + k] = text[k + 1]
    <3>1. what[at + (k + 1) - 1] = text[k + 1]
      BY <2>1
    <3>2. at + (k + 1) - 1 = at + k
      BY <1>1
    <3> QED BY <3>1, <3>2
  <2>9. Sound(s) /\ Wrote(r, s, n, at + k + 1, what)
    <3> HIDE DEF at, f, L, S
    <3> QED BY <2>2, <2>3, <2>4, <2>6, <2>7, <2>8, WriteByteMakes
  <2>10. Wrote(m, s, n, at + k + 1, what)
    <3>1. m \in Machines /\ r \in Machines /\ s \in Machines
      BY <2>2, <2>9 DEF Sound
    <3>2. at + k \in Nat /\ at + k + 1 \in Nat /\ at <= at + k /\ at + k <= at + k + 1
      BY <1>1
    <3> QED BY <1>1, <2>2, <2>9, <3>1, <3>2, WroteTransitive
  <2>11. at + (k + 1) = at + k + 1
    BY <1>1
  <2> QED BY <2>9, <2>10, <2>11 DEF s
<1>5. Nat \subseteq S
  <2> HIDE DEF S
  <2> QED BY <1>3, <1>4, SetInduction
<1> DEFINE w == after[L]
           old == w.core[f]
           mip == [old EXCEPT !.dirty = TRUE]
           r == PutMinode(w, f, mip)
<1>6. Sound(w) /\ Wrote(m, w, n, at + L, what)
  BY <1>1, <1>5
<1>7. MyWrite(m, n, text) = r
  BY DEF MyWrite, With, after
<1> HIDE DEF w, f, at, L, S
<1>8. old \in MINODEs /\ w \in Machines /\ old.dirty
  BY <1>1, <1>6, MinodeParts DEF Sound, Wrote, f
<1> HIDE DEF old
<1>9. mip = old
  BY <1>8 DEF MINODEs
<1> HIDE DEF mip
<1>10. r = w
  <2>1. w.core = [w.core EXCEPT ![f] = old]
    BY <1>8, Parts DEF old
  <2>2. w = [w EXCEPT !.core = [w.core EXCEPT ![f] = old]]
    BY <1>8, <2>1 DEF Machines
  <2> QED BY <1>9, <2>1, <2>2 DEF PutMinode
<1> QED BY <1>6, <1>7, <1>10 DEF r, at, L

\* The byte of a file behind its pointers is a byte or 0.
LEMMA ByteType ==
    ASSUME NEW m \in Machines, NEW inode \in INODEs, NEW i \in 0 .. MaxSize - 1
    PROVE  ByteAt(m, inode, i) \in Bytes \cup {0}
<1>1. i \div BLKSIZE \in Lbks /\ i % BLKSIZE \in 0 .. BLKSIZE - 1
  BY Place
<1>2. Map(m, inode, i \div BLKSIZE) \in 0 .. NBLOCKS
  BY <1>1, MapType
<1>3. \A b \in 0 .. NBLOCKS, o \in 0 .. BLKSIZE - 1 : m.data[b][o] \in Bytes \cup {0}
  <2>1. m.data \in [0 .. NBLOCKS -> [0 .. BLKSIZE - 1 -> Bytes \cup {0}]]
    BY Parts
  <2> QED BY <2>1
<1> QED BY <1>1, <1>2, <1>3 DEF ByteAt

\* The offset of an open descriptor moved within its file.
LEMMA MoveSound ==
    ASSUME NEW m, Sound(m), NEW n \in FDs, m.fd[n] # Null,
           NEW p \in 0 .. Size(m, m.fd[n].file)
    PROVE  LET f == m.fd[n].file
               r == PutOFT(m, n, [file |-> f, offset |-> p])
           IN  /\ Sound(r) /\ r.core = m.core /\ r.itable = m.itable /\ r.data = m.data
               /\ r.ptr = m.ptr /\ r.bmap = m.bmap /\ r.st = m.st
               /\ r.fd = [m.fd EXCEPT ![n] = [file |-> f, offset |-> p]]
<1> DEFINE f == m.fd[n].file
           oft == [file |-> f, offset |-> p]
           r == PutOFT(m, n, oft)
<1>1. m \in Machines /\ f \in Files /\ Size(m, f) \in 0 .. MaxSize
  <2>1. m \in Machines
    BY DEF Sound
  <2> QED BY <2>1, OpenOFT, MinodeParts
<1>2. oft \in OFTs /\ oft # Null /\ oft.file = f /\ oft.offset = p
  <2>1. oft.file = f /\ Null.file = NoFile
    BY DEF Null
  <2> HIDE DEF f
  <2>2. p \in 0 .. MaxSize
    BY <1>1, Constants DEF f
  <2> QED BY <1>1, <2>1, <2>2, FilesAssumption DEF NoFile, OFTs
<1> HIDE DEF oft
<1>3. /\ r \in Machines /\ r.core = m.core /\ r.itable = m.itable /\ r.data = m.data
      /\ r.ptr = m.ptr /\ r.bmap = m.bmap /\ r.st = m.st
      /\ r.fd = [m.fd EXCEPT ![n] = oft]
  BY <1>1, <1>2, PutOFTMakes
<1> HIDE DEF r
<1>4. /\ r.fd[n] = oft /\ \A k \in FDs \ {n} : r.fd[k] = m.fd[k]
  BY <1>1, <1>3, Parts
<1>5. \A k \in FDs : r.fd[k].file = m.fd[k].file /\ (r.fd[k] # Null <=> m.fd[k] # Null)
  BY <1>2, <1>4
<1>6. Locks(r) /\ Clean(r)
  BY <1>3, <1>5 DEF Sound, Locks, Clean
<1>7. Offsets(r)
  <2> SUFFICES ASSUME NEW k \in FDs, r.fd[k] # Null
               PROVE  r.fd[k].offset <= Size(r, r.fd[k].file)
    BY DEF Offsets
  <2>1. CASE k = n
    BY <1>1, <1>2, <1>3, <1>4, <2>1 DEF Size, Inode
  <2>2. CASE k # n
    BY <1>3, <1>4, <2>2 DEF Sound, Offsets, Size, Inode
  <2> QED BY <2>1, <2>2
<1>8. ASSUME r.bmap # Blks PROVE Blocks(r)
  <2>1. Blocks(m)
    BY <1>3, <1>8 DEF Sound
  <2>2. \A g \in Files : Copies(r, g) = Copies(m, g)
    BY <1>3 DEF Copies
  <2>3. Agree(r)
    BY <1>3, <2>1 DEF Blocks, Private, Agree
  <2>4. \A g \in Files : \A x \in Copies(m, g) : x.size <= x.size
    BY <1>1, CopyType
  <2> QED BY <1>1, <1>3, <2>1, <2>2, <2>3, <2>4, FewerBlocks
<1>9. Sound(r)
  BY <1>3, <1>6, <1>7, <1>8 DEF Sound
<1> QED BY <1>3, <1>9 DEF r, oft

\* What lies in block q, and no further, is divided to q.
LEMMA QuotientOf ==
    ASSUME NEW a \in Nat, NEW n \in Nat, n > 0, NEW q \in Nat,
           n * q <= a, a < n * q + n
    PROVE  a \div n = q
<1> DEFINE k == a \div n
           rest == a % n
<1>1. k \in Nat /\ rest \in 0 .. n - 1 /\ a = n * k + rest
  BY Division
<1> HIDE DEF k, rest
<1>2. ASSUME NEW x \in Nat, NEW y \in Nat, n * x < n * y + n PROVE x <= y
  <2>1. ASSUME x > y PROVE FALSE
    <3>1. PICK d \in Nat : x = y + 1 + d
      <4>1. x - (y + 1) \in Nat /\ x = y + 1 + (x - (y + 1))
        BY <2>1
      <4> QED BY <4>1
    <3>2. n * x = n * y + n + n * d /\ n * d \in Nat /\ n * y \in Nat
      BY <3>1
    <3> QED BY <1>2, <3>2
  <2> QED BY <2>1
<1>3. n * k \in Nat /\ n * q \in Nat
  BY <1>1
<1>4. n * k < n * q + n /\ n * q < n * k + n
  BY <1>1, <1>3
<1>5. k <= q /\ q <= k
  BY <1>1, <1>2, <1>4
<1>6. k = q
  BY <1>1, <1>5
<1> QED BY <1>6 DEF k

\* The n bytes of a file from position at on.
Piece(m, inode, at, n) == [i \in 1 .. n |-> ByteAt(m, inode, at + i - 1)]

\* As long as it stays in one block, myRead() leaves in buf[] the bytes it delivers.
LEMMA BufferMakes ==
    ASSUME NEW m, NEW inode, NEW at \in Nat, NEW n \in Nat, (at % BLKSIZE) + n <= BLKSIZE
    PROVE  Buffer(m, inode, at, at + n) = Piece(m, inode, at, n)
<1> DEFINE q == at \div BLKSIZE
           o == at % BLKSIZE
           start == q * BLKSIZE
<1>1. /\ BLKSIZE \in Nat /\ BLKSIZE > 0 /\ q \in Nat /\ o \in Nat /\ at = start + o
      /\ start \in Nat /\ (q + 1) * BLKSIZE = start + BLKSIZE /\ BLKSIZE * q = start
  BY Constants, Division
<1>2. o + n <= BLKSIZE /\ n <= BLKSIZE
  BY <1>1
<1> DEFINE end == at + n
<1> HIDE DEF q, o, start
<1>3. ASSUME NEW k \in Int, NEW i \in 1 .. BLKSIZE, k \in q .. (end - 1) \div BLKSIZE,
             Begins(k, at) + i <= Ends(k, end)
      PROVE  n > 0
  <2> DEFINE a == k * BLKSIZE
             b == (k + 1) * BLKSIZE
  <2>1. a \in Int /\ b \in Int
    BY <1>1
  <2>2. (IF a > at THEN a ELSE at) + i <= IF b < end THEN b ELSE end
    BY <1>3 DEF Begins, Ends
  <2> HIDE DEF a, b
  <2> QED BY <1>1, <2>1, <2>2
<1>4. ASSUME n > 0 PROVE (end - 1) \div BLKSIZE = q
  <2> DEFINE last == end - 1
  <2>1. last \in Nat /\ BLKSIZE * q <= last /\ last < BLKSIZE * q + BLKSIZE
    BY <1>1, <1>2, <1>4
  <2> HIDE DEF last
  <2>2. last \div BLKSIZE = q
    BY <1>1, <2>1, QuotientOf
  <2> QED BY <2>2 DEF last
<1>5. Begins(q, at) = at /\ Ends(q, end) = end
  <2>1. ~ (start > at) /\ ~ (start + BLKSIZE < end)
    BY <1>1, <1>2
  <2>2. Ends(q, end) = IF start + BLKSIZE < end THEN (q + 1) * BLKSIZE ELSE end
    BY <1>1 DEF Ends
  <2> QED BY <2>1, <2>2 DEF Begins, start
<1>6. ASSUME NEW i \in 1 .. BLKSIZE
      PROVE  /\ Covers(i, at, end) # {} <=> i <= n
             /\ i <= n => Begins(MostOf(Covers(i, at, end)), at) = at
  <2>1. Covers(i, at, end) = {k \in q .. (end - 1) \div BLKSIZE : Begins(k, at) + i <= Ends(k, end)}
    BY DEF Covers, q
  <2> HIDE DEF end
  <2>2. CASE n = 0
    <3>1. Covers(i, at, end) = {}
      BY <1>3, <2>1, <2>2
    <3> QED BY <2>2, <3>1
  <2>3. CASE n > 0
    <3>1. Covers(i, at, end) = {k \in q .. q : Begins(k, at) + i <= Ends(k, end)}
      BY <1>4, <2>1, <2>3
    <3>2. \A k \in q .. q : k = q
      BY <1>1
    <3>3. q \in q .. q
      BY <1>1
    <3>4. Covers(i, at, end) = IF at + i <= end THEN {q} ELSE {}
      BY <1>5, <3>1, <3>2, <3>3
    <3>5. at + i <= end <=> i <= n
      BY <1>1 DEF end
    <3>6. MostOf({q}) = q
      <4>1. {q} \subseteq 0 .. q
        BY <1>1
      <4>2. MostOf({q}) \in {q}
        BY <1>1, <4>1, MostExists
      <4> QED BY <4>2
    <3> QED BY <1>5, <3>4, <3>5, <3>6
  <2> QED BY <2>2, <2>3
<1>7. {i \in 1 .. BLKSIZE : Covers(i, at, end) # {}} = 1 .. n
  <2> HIDE DEF end
  <2>1. \A i \in 1 .. BLKSIZE : Covers(i, at, end) # {} <=> i <= n
    BY <1>6
  <2>2. \A i \in 1 .. n : i \in 1 .. BLKSIZE /\ i <= n
    BY <1>1, <1>2
  <2>3. \A i \in 1 .. BLKSIZE : i <= n => i \in 1 .. n
    OBVIOUS
  <2> QED BY <2>1, <2>2, <2>3
<1>8. \A i \in 1 .. n : Begins(MostOf(Covers(i, at, end)), at) = at
  <2> HIDE DEF end
  <2>1. \A i \in 1 .. n : i \in 1 .. BLKSIZE /\ i <= n
    BY <1>1, <1>2
  <2> QED BY <1>6, <2>1
<1>9. Buffer(m, inode, at, end) =
          [i \in 1 .. n |-> ByteAt(m, inode, Begins(MostOf(Covers(i, at, end)), at) + i - 1)]
  BY <1>7 DEF Buffer
<1> HIDE DEF end
<1>10. Buffer(m, inode, at, end) = [i \in 1 .. n |-> ByteAt(m, inode, at + i - 1)]
  BY <1>8, <1>9
<1> QED BY <1>10 DEF end, Piece

\* myRead() delivers what is left of the file, up to nbytes, and moves behind it; what
\* stays in one block is in buf[].
LEMMA MyReadMakes ==
    ASSUME NEW m, Sound(m), NEW n \in FDs, m.fd[n] # Null, NEW nbytes \in Nat
    PROVE  LET f == m.fd[n].file
               at == m.fd[n].offset
               left == Size(m, f) - at
               r == MyRead(m, n, nbytes)
           IN  /\ \E p \in at .. Size(m, f) :
                     /\ r.m = PutOFT(m, n, [file |-> f, offset |-> p])
                     /\ r.n <= 0 => p = at \/ \E k \in Nat : p = k * BLKSIZE
               /\ r.n > 0 =>
                    /\ r.n \in 1 .. left /\ r.n = IF nbytes < left THEN nbytes ELSE left
                    /\ r.m = PutOFT(m, n, [file |-> f, offset |-> at + r.n])
               /\ r.n >= 0 /\ (at % BLKSIZE) + r.n <= BLKSIZE =>
                    r.buf = Piece(m, Inode(m, f), at, r.n)
               /\ m.bmap # Blks => r.n = IF nbytes < left THEN nbytes ELSE left
               /\ r.n \in Int
<1> DEFINE f == m.fd[n].file
           at == m.fd[n].offset
           left == Size(m, f) - at
           count == IF nbytes < left THEN nbytes ELSE left
           blocks == IF count = 0 THEN {} ELSE at \div BLKSIZE .. (at + count - 1) \div BLKSIZE
           empty == {k \in blocks : ByteAt(m, Inode(m, f), k * BLKSIZE) = 0}
           stop == LeastOf(empty) * BLKSIZE
           end == IF empty = {} THEN at + count ELSE Begins(LeastOf(empty), at)
           r == MyRead(m, n, nbytes)
<1>1. /\ m \in Machines /\ f \in Files /\ at \in Nat /\ at <= Size(m, f)
      /\ Size(m, f) \in 0 .. MaxSize /\ Size(m, f) \in Nat /\ m.core[f].refCount > 0
  <2>1. m \in Machines
    BY DEF Sound
  <2>2. f \in Files /\ at \in Nat
    BY <2>1, OpenOFT
  <2> QED BY <2>1, <2>2, MinodeParts, Constants DEF Sound, Locks, Offsets
<1>2. r = [m |-> PutOFT(m, n, [file |-> f, offset |-> end]),
           n |-> IF empty = {} THEN count ELSE -1,
           buf |-> Buffer(m, Inode(m, f), at, end)]
  BY DEF MyRead
<1> HIDE DEF r
<1>3. left \in Nat /\ count \in 0 .. left /\ count <= nbytes /\ at + count <= Size(m, f)
  <2> HIDE DEF f, at
  <2> QED BY <1>1
<1>4. ASSUME NEW k \in blocks
      PROVE  k \in Nat /\ k * BLKSIZE \in 0 .. Size(m, f) - 1
  <2> DEFINE last == at + count - 1
  <2> HIDE DEF f, at, count
  <2>1. last \in Nat /\ last < Size(m, f) /\ count # 0
    BY <1>1, <1>3
  <2>2. k \in at \div BLKSIZE .. last \div BLKSIZE
    BY <2>1
  <2> HIDE DEF last
  <2>3. at \div BLKSIZE \in Nat /\ last \div BLKSIZE \in Nat
        /\ last = BLKSIZE * (last \div BLKSIZE) + (last % BLKSIZE)
        /\ last % BLKSIZE \in Nat
    BY <1>1, <2>1, Division, Constants
  <2>4. k \in Nat /\ k <= last \div BLKSIZE
    BY <2>2, <2>3
  <2>5. PICK d \in Nat : last \div BLKSIZE = k + d
    <3>1. (last \div BLKSIZE) - k \in Nat
          /\ last \div BLKSIZE = k + ((last \div BLKSIZE) - k)
      BY <2>3, <2>4
    <3> QED BY <3>1
  <2>6. BLKSIZE * (last \div BLKSIZE) = k * BLKSIZE + BLKSIZE * d
        /\ BLKSIZE * d \in Nat /\ k * BLKSIZE \in Nat
    BY <2>4, <2>5, Constants
  <2>7. k * BLKSIZE <= last
    <3> DEFINE q == last \div BLKSIZE
               kb == k * BLKSIZE
               db == BLKSIZE * d
               qb == BLKSIZE * q
               rest == last % BLKSIZE
    <3>1. last = qb + rest /\ rest \in Nat /\ qb = kb + db /\ db \in Nat /\ kb \in Nat
      BY <2>3, <2>6
    <3> HIDE DEF q, kb, db, qb, rest
    <3>2. kb <= last
      BY <2>1, <3>1
    <3> QED BY <3>2 DEF kb
  <2> QED BY <1>1, <2>1, <2>4, <2>6, <2>7
<1>5. m.bmap # Blks => empty = {}
  <2> SUFFICES ASSUME m.bmap # Blks, NEW k \in empty PROVE FALSE
    OBVIOUS
  <2>1. Inode(m, f) \in Copies(m, f) /\ Inode(m, f).size = Size(m, f)
    BY <1>1 DEF Copies, Inode, Size
  <2>2. k * BLKSIZE \in 0 .. Inode(m, f).size - 1
    BY <1>4, <2>1
  <2>3. ByteAt(m, Inode(m, f), k * BLKSIZE) # 0
    BY <1>1, <2>1, <2>2 DEF Sound, Blocks, Filled
  <2> QED BY <2>3
<1>6. CASE empty = {}
  <2>1. /\ r.m = PutOFT(m, n, [file |-> f, offset |-> at + count])
        /\ r.n = count
        /\ r.buf = Buffer(m, Inode(m, f), at, at + count)
    BY <1>2, <1>6
  <2>2. at + count \in at .. Size(m, f) /\ count \in Nat /\ at \in Nat
    BY <1>1, <1>3
  <2> DEFINE inode == Inode(m, f)
  <2> HIDE DEF f, at, count, left, empty, inode
  <2>3. (at % BLKSIZE) + count <= BLKSIZE =>
            r.buf = Piece(m, inode, at, count)
    <3>1. (at % BLKSIZE) + count <= BLKSIZE =>
              Buffer(m, inode, at, at + count) = Piece(m, inode, at, count)
      BY <2>2, BufferMakes
    <3>2. r.buf = Buffer(m, inode, at, at + count)
      BY <2>1 DEF inode
    <3> HIDE DEF r
    <3> QED BY <3>1, <3>2
  <2>4. count \in Int /\ (count > 0 => count \in 1 .. left)
    BY <1>3
  <2>5. count <= 0 => at + count = at
    BY <2>2
  <2> QED BY <1>3, <2>1, <2>2, <2>3, <2>4, <2>5 DEF r, f, at, left, count, inode
<1>7. CASE empty # {}
  <2> DEFINE k == LeastOf(empty)
  <2>1. k \in empty
    <3>1. empty \subseteq Nat
      BY <1>4
    <3> HIDE DEF empty
    <3> QED BY <1>7, <3>1, LeastExists
  <2>2. stop \in 0 .. Size(m, f) - 1 /\ k \in Nat /\ stop = k * BLKSIZE
    BY <1>4, <2>1
  <2>3. /\ r.m = PutOFT(m, n, [file |-> f, offset |-> IF stop > at THEN stop ELSE at])
        /\ r.n = -1
    <3>1. end = IF stop > at THEN stop ELSE at
      <4> HIDE DEF empty, at
      <4> QED BY <1>7 DEF Begins
    <3> HIDE DEF end, stop, empty, k, at, f, count
    <3> QED BY <1>2, <1>7, <3>1
  <2> HIDE DEF stop, empty, k
  <2>4. (IF stop > at THEN stop ELSE at) \in at .. Size(m, f)
    <3> HIDE DEF at, f
    <3> QED BY <1>1, <2>2
  <2>5. stop > at \/ at = IF stop > at THEN stop ELSE at
    OBVIOUS
  <2> QED BY <1>5, <1>7, <2>2, <2>3, <2>4, <2>5 DEF r
<1> QED BY <1>6, <1>7

-----------------------------------------------------------------------------
(* open_close_lseek.c.                                                     *)

\* The INODE of a file as the program sees it, in a machine.
Cur(m, f) == IF m.core[f].refCount > 0 THEN m.core[f].INODE ELSE m.itable[f]
NotOpen(m, f) == \A n \in FDs : m.fd[n].file # f

\* An INODE that is not locked is open in no descriptor.
LEMMA UnlockedNotOpen ==
    ASSUME NEW m, Sound(m), NEW f \in Files, ~ m.core[f].lock
    PROVE  NotOpen(m, f)
<1>1. m \in Machines
  BY DEF Sound
<1>2. ASSUME NEW n \in FDs, m.fd[n].file = f PROVE FALSE
  <2>1. m.fd[n] # Null
    BY <1>1, <1>2, OpenOFT
  <2> QED BY <1>2, <2>1 DEF Sound, Locks
<1> QED BY <1>2 DEF NotOpen

\* A file that is held and not open is emptied.
LEMMA TruncateSound ==
    ASSUME NEW m, Sound(m), NEW f \in Files, m.core[f].refCount > 0, NotOpen(m, f)
    PROVE  LET r == MyTruncate(m, f)
           IN  /\ Sound(r) /\ r.itable = m.itable /\ r.data = m.data
               /\ r.ptr = m.ptr /\ r.bmap = m.bmap /\ r.fd = m.fd /\ r.st = m.st
               /\ r.core[f].refCount = m.core[f].refCount
               /\ r.core[f].lock = m.core[f].lock
               /\ r.core[f].INODE.block = m.core[f].INODE.block
               /\ r.core[f].INODE.size = 0
               /\ \A g \in Files \ {f} : r.core[g] = m.core[g]
<1> DEFINE r == MyTruncate(m, f)
<1>1. m \in Machines /\ m.core[f].INODE \in INODEs /\ 0 \in 0 .. MaxSize
  <2>1. m \in Machines
    BY DEF Sound
  <2> QED BY <2>1, MinodeParts, Constants
<1>2. /\ r \in Machines /\ r.itable = m.itable /\ r.data = m.data
      /\ r.ptr = m.ptr /\ r.bmap = m.bmap /\ r.fd = m.fd /\ r.st = m.st
      /\ r.core[f].refCount = m.core[f].refCount
      /\ r.core[f].lock = m.core[f].lock /\ r.core[f].dirty
      /\ r.core[f].INODE = Resized(m.core[f].INODE, 0)
      /\ \A g \in Files \ {f} : r.core[g] = m.core[g]
  BY <1>1, MyTruncateMakes
<1> HIDE DEF r
<1>3. /\ r.core[f].INODE.block = m.core[f].INODE.block
      /\ r.core[f].INODE.size = 0
  BY <1>1, <1>2, InodeOf
<1>4. Locks(r) /\ Clean(r)
  <2>1. ASSUME NEW g \in Files
        PROVE  /\ r.core[g].lock = m.core[g].lock
               /\ r.core[g].refCount = m.core[g].refCount
               /\ m.core[g].dirty => r.core[g].dirty
    BY <1>2
  <2>2. \A n \in FDs : m.fd[n] # Null => m.fd[n].file \in Files
    BY <1>1, OpenOFT
  <2>3. Locks(r)
    BY <1>2, <2>1, <2>2 DEF Sound, Locks
  <2>4. Clean(r)
    BY <1>2 DEF Sound, Clean
  <2> QED BY <2>3, <2>4
<1>5. Offsets(r)
  <2> SUFFICES ASSUME NEW n \in FDs, m.fd[n] # Null
               PROVE  m.fd[n].offset <= Size(r, m.fd[n].file)
    BY <1>2 DEF Offsets
  <2>1. m.fd[n].file \in Files \ {f}
    BY <1>1, OpenOFT DEF NotOpen
  <2> QED BY <1>2, <2>1 DEF Sound, Offsets, Size, Inode
<1>6. ASSUME r.bmap # Blks PROVE Blocks(r)
  <2>1. Blocks(m)
    BY <1>2, <1>6 DEF Sound
  <2>2. ASSUME NEW g \in Files, NEW x \in Copies(r, g)
        PROVE  \E y \in Copies(m, g) : x.block = y.block /\ x.size <= y.size
    <3>1. CASE x \in Copies(m, g)
      <4>1. x.size <= x.size
        BY <1>1, <3>1, CopyType
      <4> QED BY <3>1, <4>1
    <3>2. CASE g = f /\ x = r.core[f].INODE
      <4>1. m.core[f].INODE \in Copies(m, f)
        BY DEF Copies
      <4>2. m.core[f].INODE.size \in Nat
        BY <1>1, <4>1, CopyType
      <4>3. x.size <= m.core[f].INODE.size
        BY <1>3, <3>2, <4>2
      <4> QED BY <1>3, <3>2, <4>1, <4>3
    <3> QED BY <1>2, <3>1, <3>2 DEF Copies
  <2>3. Agree(r)
    <3> SUFFICES ASSUME NEW g \in Files, r.core[g].refCount > 0, NEW j \in 1 .. DIND
                 PROVE  \/ r.itable[g].block[j] = 0
                        \/ r.itable[g].block[j] = r.core[g].INODE.block[j]
      BY DEF Agree
    <3>1. m.core[g].refCount > 0 => \/ m.itable[g].block[j] = 0
                                   \/ m.itable[g].block[j] = m.core[g].INODE.block[j]
      BY <2>1 DEF Blocks, Private, Agree
    <3>2. r.core[g].INODE.block = m.core[g].INODE.block
      BY <1>2, <1>3
    <3> QED BY <1>2, <3>1, <3>2
  <2> QED BY <1>1, <1>2, <2>1, <2>2, <2>3, FewerBlocks
<1> QED BY <1>2, <1>3, <1>4, <1>5, <1>6 DEF Sound, r

\* The lock of a file that is held is set, and taken off when it is not open.
LEMMA LockSound ==
    ASSUME NEW m, Sound(m), NEW f \in Files, NEW mip \in MINODEs,
           m.core[f].refCount > 0, mip.refCount = m.core[f].refCount,
           mip.INODE = m.core[f].INODE,
           mip.lock => mip.dirty, ~ mip.lock => NotOpen(m, f),
           m.core[f].dirty => mip.dirty
    PROVE  LET r == PutMinode(m, f, mip)
           IN  /\ Sound(r) /\ r.itable = m.itable /\ r.data = m.data
               /\ r.ptr = m.ptr /\ r.bmap = m.bmap /\ r.fd = m.fd /\ r.st = m.st
               /\ r.core[f] = mip /\ \A g \in Files \ {f} : r.core[g] = m.core[g]
<1> DEFINE r == PutMinode(m, f, mip)
<1>1. m \in Machines
  BY DEF Sound
<1>2. /\ r \in Machines /\ r.core = [m.core EXCEPT ![f] = mip] /\ r.itable = m.itable
      /\ r.data = m.data /\ r.ptr = m.ptr /\ r.bmap = m.bmap /\ r.fd = m.fd
      /\ r.st = m.st
  BY <1>1, PutMinodeMakes
<1> HIDE DEF r
<1>3. r.core[f] = mip /\ \A g \in Files \ {f} : r.core[g] = m.core[g]
  BY <1>1, <1>2, Parts
<1>4. \A n \in FDs : m.fd[n] # Null => m.fd[n].file \in Files
  BY <1>1, OpenOFT
<1>5. Locks(r)
  BY <1>2, <1>3, <1>4 DEF Sound, Locks, NotOpen
<1>6. Clean(r)
  BY <1>2, <1>3 DEF Sound, Clean
<1>7. Offsets(r)
  BY <1>2, <1>3, <1>4 DEF Sound, Offsets, Size, Inode
<1>8. ASSUME r.bmap # Blks PROVE Blocks(r)
  <2>1. Blocks(m)
    BY <1>2, <1>8 DEF Sound
  <2>2. \A g \in Files : Copies(r, g) = Copies(m, g)
    BY <1>2, <1>3 DEF Copies
  <2>3. Agree(r)
    BY <1>2, <1>3, <2>1 DEF Blocks, Private, Agree
  <2>4. \A g \in Files : \A x \in Copies(m, g) : x.size <= x.size
    BY <1>1, CopyType
  <2> QED BY <1>1, <1>2, <2>1, <2>2, <2>3, <2>4, FewerBlocks
<1> QED BY <1>2, <1>3, <1>5, <1>6, <1>7, <1>8 DEF Sound, r

\* A descriptor of a locked file that has none, or none at all.
LEMMA AssignSound ==
    ASSUME NEW m, Sound(m), NEW n \in FDs, NEW oft \in OFTs \cup {Null},
           oft # Null => /\ m.fd[n] = Null /\ m.core[oft.file].lock /\ NotOpen(m, oft.file)
                         /\ oft.offset <= Size(m, oft.file)
    PROVE  LET r == PutOFT(m, n, oft)
           IN  /\ Sound(r) /\ r.core = m.core /\ r.itable = m.itable /\ r.data = m.data
               /\ r.ptr = m.ptr /\ r.bmap = m.bmap /\ r.st = m.st
               /\ r.fd = [m.fd EXCEPT ![n] = oft]
<1> DEFINE r == PutOFT(m, n, oft)
<1>1. m \in Machines
  BY DEF Sound
<1>2. /\ r \in Machines /\ r.core = m.core /\ r.itable = m.itable /\ r.data = m.data
      /\ r.ptr = m.ptr /\ r.bmap = m.bmap /\ r.st = m.st
      /\ r.fd = [m.fd EXCEPT ![n] = oft]
  BY <1>1, PutOFTMakes
<1> HIDE DEF r
<1>3. r.fd[n] = oft /\ \A k \in FDs \ {n} : r.fd[k] = m.fd[k]
  BY <1>1, <1>2, Parts
<1>4. Null.file \notin Files
  BY FilesAssumption DEF Null, NoFile
<1>5. Locks(r)
  <2> SUFFICES ASSUME NEW k \in FDs, r.fd[k] # Null
               PROVE  /\ r.core[r.fd[k].file].lock
                      /\ \A l \in FDs \ {k} : r.fd[l].file # r.fd[k].file
    BY <1>2 DEF Sound, Locks
  <2>1. CASE k = n
    BY <1>2, <1>3, <2>1 DEF NotOpen
  <2>2. CASE k # n
    <3>1. /\ m.fd[k] # Null /\ r.fd[k] = m.fd[k] /\ m.fd[k].file \in Files
          /\ m.core[m.fd[k].file].lock
          /\ \A l \in FDs \ {k} : m.fd[l].file # m.fd[k].file
      BY <1>1, <1>3, <2>2, OpenOFT DEF Sound, Locks
    <3>2. oft.file # m.fd[k].file
      BY <1>4, <3>1 DEF NotOpen
    <3> QED BY <1>2, <1>3, <3>1, <3>2
  <2> QED BY <2>1, <2>2
<1>6. Clean(r)
  BY <1>2 DEF Sound, Clean
<1>7. Offsets(r)
  BY <1>2, <1>3 DEF Sound, Offsets, Size, Inode
<1>8. ASSUME r.bmap # Blks PROVE Blocks(r)
  <2>1. Blocks(m)
    BY <1>2, <1>8 DEF Sound
  <2>2. \A g \in Files : Copies(r, g) = Copies(m, g)
    BY <1>2 DEF Copies
  <2>3. Agree(r)
    BY <1>2, <2>1 DEF Blocks, Private, Agree
  <2>4. \A g \in Files : \A x \in Copies(m, g) : x.size <= x.size
    BY <1>1, CopyType
  <2> QED BY <1>1, <1>2, <2>1, <2>2, <2>3, <2>4, FewerBlocks
<1> QED BY <1>2, <1>5, <1>6, <1>7, <1>8 DEF Sound, r

\* What open_file() makes of the machine: a reference is taken, and unless it
\* fails the file is locked, emptied if the mode is WR, and has a descriptor if
\* one is free.
Opened(m, f, mode, o) ==
    LET r == o.m
    IN  /\ Sound(r)
        /\ r.itable = m.itable /\ r.data = m.data /\ r.ptr = m.ptr
        /\ r.bmap = m.bmap /\ r.st = m.st
        /\ \A g \in Files \ {f} : r.core[g] = m.core[g]
        /\ r.core[f].refCount = m.core[f].refCount + 1
        /\ r.core[f].INODE.block = Cur(m, f).block
        /\ o.n \in FDs \cup {-1, NFD}
        /\ o.n = -1 => /\ r.fd = m.fd /\ r.core[f].INODE = Cur(m, f)
                       /\ r.core[f].lock = m.core[f].lock
                       /\ r.core[f].dirty = m.core[f].dirty
        /\ o.n # -1 => /\ ~ m.core[f].lock /\ r.core[f].lock /\ r.core[f].dirty
                       /\ Size(r, f) = IF mode = WR THEN 0 ELSE Cur(m, f).size
        /\ o.n = NFD => r.fd = m.fd
        /\ o.n \in FDs =>
             /\ m.fd[o.n] = Null
             /\ \E p \in {0, Size(r, f)} :
                   /\ mode # AP => p = 0
                   /\ r.fd = [m.fd EXCEPT ![o.n] = [file |-> f, offset |-> p]]

\* What open_file() does, with and without a descriptor left, is what Opened says.
LEMMA OpenFileMakes ==
    ASSUME NEW m, Sound(m), NEW f \in Files, NEW mode \in Modes
    PROVE  Opened(m, f, mode, OpenFile(m, f, mode))
<1> DEFINE free == {i \in FDs : m.fd[i] = Null}
           n == IF free = {} THEN NFD ELSE LeastOf(free)
           m1 == Iget(m, f)
           m2 == IF mode = WR THEN MyTruncate(m1, f) ELSE m1
           mip == [m2.core[f] EXCEPT !.lock = TRUE, !.dirty = TRUE]
           m3 == PutMinode(m2, f, mip)
           p == IF mode = AP THEN Size(m3, f) ELSE 0
           m4 == IF n = NFD THEN m3 ELSE PutOFT(m3, n, [file |-> f, offset |-> p])
           o == OpenFile(m, f, mode)
<1> SUFFICES Opened(m, f, mode, o)
  OBVIOUS
<1>1. m \in Machines /\ NFD \in Nat /\ NFD \notin FDs /\ -1 \notin FDs /\ NFD # -1
      /\ m.core[f].refCount \in Nat
  <2>1. m \in Machines
    BY DEF Sound
  <2> QED BY <2>1, MinodeParts, Constants DEF FDs
<1>2. o = IF ~ MayOpen(m1, f, mode) THEN [m |-> m1, n |-> -1] ELSE [n |-> n, m |-> m4]
  BY DEF OpenFile, With
<1>3. /\ Sound(m1) /\ m1.itable = m.itable /\ m1.data = m.data
      /\ m1.ptr = m.ptr /\ m1.bmap = m.bmap /\ m1.fd = m.fd /\ m1.st = m.st
      /\ m1.core[f].refCount = m.core[f].refCount + 1
      /\ m1.core[f].lock = m.core[f].lock /\ m1.core[f].dirty = m.core[f].dirty
      /\ m1.core[f].INODE = Cur(m, f)
      /\ \A g \in Files \ {f} : m1.core[g] = m.core[g]
  BY <1>1, IgetSound, IgetMakes DEF Cur
<1>4. n = NFD \/ (n \in FDs /\ m.fd[n] = Null)
  <2>1. free # {} => LeastOf(free) \in free
    <3>1. free \subseteq Nat
      BY <1>1 DEF FDs
    <3> HIDE DEF free
    <3> QED BY <3>1, LeastExists
  <2> QED BY <2>1
<1> HIDE DEF o, m1, n, free
<1>5. CASE ~ MayOpen(m1, f, mode)
  <2>1. o.m = m1 /\ o.n = -1
    BY <1>2, <1>5
  <2> QED BY <1>1, <1>3, <2>1 DEF Opened
<1>6. CASE MayOpen(m1, f, mode)
  <2>1. ~ m1.core[f].lock /\ m1.core[f].refCount > 0 /\ m1 \in Machines /\ NotOpen(m1, f)
    <3>1. ~ m1.core[f].lock /\ m1 \in Machines
      BY <1>3, <1>6 DEF MayOpen, Sound
    <3> QED BY <1>1, <1>3, <3>1, UnlockedNotOpen
  <2>2. /\ Sound(m2) /\ m2.itable = m.itable /\ m2.data = m.data
        /\ m2.ptr = m.ptr /\ m2.bmap = m.bmap /\ m2.fd = m.fd /\ m2.st = m.st
        /\ m2.core[f].refCount = m1.core[f].refCount
        /\ ~ m2.core[f].lock
        /\ m2.core[f].INODE.block = Cur(m, f).block
        /\ m2.core[f].INODE.size = IF mode = WR THEN 0 ELSE Cur(m, f).size
        /\ \A g \in Files \ {f} : m2.core[g] = m.core[g]
    <3>1. CASE mode = WR
      BY <1>3, <2>1, <3>1, TruncateSound
    <3>2. CASE mode # WR
      BY <1>3, <2>1, <3>2
    <3> QED BY <3>1, <3>2
  <2> HIDE DEF m2
  <2>3. NotOpen(m2, f) /\ m2 \in Machines
    BY <1>3, <2>1, <2>2 DEF NotOpen, Sound
  <2> DEFINE old == m2.core[f]
  <2>4. old \in MINODEs
    BY <2>3, MinodeParts
  <2> HIDE DEF old
  <2>5. /\ mip \in MINODEs /\ mip.refCount = old.refCount /\ mip.INODE = old.INODE
        /\ mip.lock /\ mip.dirty
    <3> DEFINE x == [old EXCEPT !.lock = TRUE, !.dirty = TRUE]
    <3>1. /\ x \in MINODEs /\ x.refCount = old.refCount /\ x.INODE = old.INODE
          /\ x.lock /\ x.dirty
      BY <2>4 DEF MINODEs
    <3> QED BY <3>1 DEF old
  <2> HIDE DEF mip
  <2>6. /\ Sound(m3) /\ m3.itable = m.itable /\ m3.data = m.data
        /\ m3.ptr = m.ptr /\ m3.bmap = m.bmap /\ m3.fd = m.fd /\ m3.st = m.st
        /\ m3.core[f] = mip /\ \A g \in Files \ {f} : m3.core[g] = m2.core[g]
    <3>1. m2.core[f].refCount > 0 /\ mip.refCount = m2.core[f].refCount
          /\ mip.INODE = m2.core[f].INODE
      BY <2>1, <2>2, <2>5 DEF old
    <3> QED BY <2>2, <2>5, <3>1, LockSound
  <2> HIDE DEF m3
  <2>7. /\ m3.core[f].refCount = m.core[f].refCount + 1
        /\ m3.core[f].INODE.block = Cur(m, f).block
        /\ Size(m3, f) = (IF mode = WR THEN 0 ELSE Cur(m, f).size)
        /\ m3.core[f].lock /\ m3.core[f].dirty
        /\ \A g \in Files \ {f} : m3.core[g] = m.core[g]
    BY <1>3, <2>2, <2>5, <2>6 DEF old, Size, Inode
  <2>8. m3 \in Machines /\ Size(m3, f) \in 0 .. MaxSize /\ p \in {0, Size(m3, f)}
        /\ (mode # AP => p = 0)
    <3>1. m3 \in Machines
      BY <2>6 DEF Sound
    <3> QED BY <3>1, MinodeParts
  <2>9. o.n = n /\ o.m = m4
    BY <1>2, <1>6
  <2>10. CASE n = NFD
    <3>1. o.n = NFD /\ o.m = m3
      BY <2>9, <2>10
    <3>2. /\ Sound(m3) /\ m3.itable = m.itable /\ m3.data = m.data
          /\ m3.ptr = m.ptr /\ m3.bmap = m.bmap /\ m3.fd = m.fd /\ m3.st = m.st
      BY <1>3, <2>2, <2>6
    <3>3. ~ m.core[f].lock
      BY <1>3, <2>1
    <3> QED BY <1>1, <2>7, <3>1, <3>2, <3>3 DEF Opened
  <2>11. CASE n # NFD
    <3>1. n \in FDs /\ m.fd[n] = Null
      BY <1>4, <2>11
    <3> DEFINE oft == [file |-> f, offset |-> p]
    <3> HIDE DEF p
    <3>2. p \in 0 .. MaxSize /\ p <= Size(m3, f)
      BY <2>8, Constants
    <3>3. oft \in OFTs /\ oft.file = f /\ oft.offset = p
      BY <3>2 DEF OFTs
    <3> HIDE DEF oft
    <3>4. NotOpen(m3, f)
      BY <2>2, <2>3, <2>6 DEF NotOpen
    <3> DEFINE r == PutOFT(m3, n, oft)
    <3>5. /\ Sound(r) /\ r.core = m3.core /\ r.itable = m3.itable /\ r.data = m3.data
          /\ r.ptr = m3.ptr /\ r.bmap = m3.bmap /\ r.st = m3.st
          /\ r.fd = [m3.fd EXCEPT ![n] = oft]
      <4>1. m3.fd[n] = Null /\ m3.core[oft.file].lock /\ NotOpen(m3, oft.file)
            /\ oft.offset <= Size(m3, oft.file)
        BY <2>6, <2>7, <3>1, <3>2, <3>3, <3>4
      <4> QED BY <2>6, <3>1, <3>3, <4>1, AssignSound
    <3>6. o.n = n /\ o.m = r
      BY <2>9, <2>11 DEF oft
    <3> HIDE DEF r
    <3>7. Size(r, f) = Size(m3, f)
      BY <3>5 DEF Size, Inode
    <3>8. r.fd = [m.fd EXCEPT ![n] = [file |-> f, offset |-> p]]
      BY <2>6, <3>5 DEF oft
    <3>9. /\ Sound(r) /\ r.itable = m.itable /\ r.data = m.data
          /\ r.ptr = m.ptr /\ r.bmap = m.bmap /\ r.st = m.st
      BY <1>3, <2>2, <2>6, <3>5
    <3>10. ~ m.core[f].lock
      BY <1>3, <2>1
    <3>11. o.n # -1 /\ o.n # NFD /\ o.n \in FDs
      BY <1>1, <2>11, <3>1, <3>6
    <3>12. p \in {0, Size(r, f)} /\ (mode # AP => p = 0)
      BY <2>8, <3>7 DEF p
    <3> QED BY <2>7, <3>1, <3>5, <3>6, <3>7, <3>8, <3>9, <3>10, <3>11, <3>12 DEF Opened
  <2> QED BY <2>10, <2>11
<1> QED BY <1>5, <1>6

\* What close_file() makes of an open descriptor: the lock goes with it, and the
\* INODE is saved if no other reference is left.
Shut(m, n, r) ==
    LET f == m.fd[n].file
    IN  /\ Sound(r)
        /\ r.data = m.data /\ r.ptr = m.ptr /\ r.bmap = m.bmap /\ r.st = m.st
        /\ r.fd = [m.fd EXCEPT ![n] = Null]
        /\ \A g \in Files \ {f} : r.core[g] = m.core[g] /\ r.itable[g] = m.itable[g]
        /\ ~ r.core[f].lock /\ r.core[f].refCount = m.core[f].refCount - 1
        /\ Cur(r, f) = m.core[f].INODE
        /\ r.itable[f] = IF m.core[f].refCount > 1 THEN m.itable[f] ELSE m.core[f].INODE

\* What close_file() of an open descriptor does is what Shut says.
LEMMA CloseFileMakes ==
    ASSUME NEW m, Sound(m), NEW n \in FDs, m.fd[n] # Null
    PROVE  Shut(m, n, CloseFile(m, n))
<1> DEFINE f == m.fd[n].file
           old == m.core[f]
           mip == [old EXCEPT !.lock = FALSE]
           m1 == PutOFT(m, n, Null)
           m2 == PutMinode(m1, f, mip)
           r == Iput(m2, f)
<1>1. /\ m \in Machines /\ f \in Files /\ old \in MINODEs /\ old.lock /\ old.dirty
      /\ old.refCount \in Nat /\ old.refCount > 0
      /\ \A k \in FDs \ {n} : m.fd[k].file # f
  <2>1. m \in Machines
    BY DEF Sound
  <2>2. f \in Files
    BY <2>1, OpenOFT
  <2>3. old.lock /\ \A k \in FDs \ {n} : m.fd[k].file # f
    BY DEF Sound, Locks
  <2>4. old \in MINODEs /\ old.refCount \in Nat
    BY <2>1, <2>2, MinodeParts
  <2>5. old.refCount > 0 /\ old.dirty
    BY <2>2, <2>3 DEF Sound, Locks
  <2> QED BY <2>1, <2>2, <2>3, <2>4, <2>5
<1>2. CloseFile(m, n) = r
  BY DEF CloseFile
<1>3. /\ Sound(m1) /\ m1.core = m.core /\ m1.itable = m.itable /\ m1.data = m.data
      /\ m1.ptr = m.ptr /\ m1.bmap = m.bmap /\ m1.st = m.st
      /\ m1.fd = [m.fd EXCEPT ![n] = Null]
  BY AssignSound
<1> HIDE DEF f, old, m1
<1>4. /\ mip \in MINODEs /\ mip.refCount = old.refCount /\ mip.INODE = old.INODE
      /\ ~ mip.lock /\ mip.dirty
  BY <1>1 DEF MINODEs
<1> HIDE DEF mip
<1>5. NotOpen(m1, f)
  <2>1. m1.fd[n] = Null /\ \A k \in FDs \ {n} : m1.fd[k] = m.fd[k]
    BY <1>1, <1>3, Parts
  <2>2. Null.file \notin Files
    BY FilesAssumption DEF Null, NoFile
  <2> QED BY <1>1, <2>1, <2>2 DEF NotOpen
<1>6. /\ Sound(m2) /\ m2.itable = m.itable /\ m2.data = m.data
      /\ m2.ptr = m.ptr /\ m2.bmap = m.bmap /\ m2.fd = m1.fd /\ m2.st = m.st
      /\ m2.core[f] = mip /\ \A g \in Files \ {f} : m2.core[g] = m.core[g]
  <2>1. m1.core[f] = old
    BY <1>3 DEF old
  <2>2. m1.core[f].refCount > 0 /\ mip.refCount = m1.core[f].refCount
        /\ mip.INODE = m1.core[f].INODE /\ mip.dirty /\ ~ mip.lock
    BY <1>1, <1>4, <2>1
  <2> QED BY <1>1, <1>3, <1>4, <1>5, <2>2, LockSound
<1> HIDE DEF m2
<1>7. m2 \in Machines
  BY <1>6 DEF Sound
<1>8. Sound(r)
  BY <1>1, <1>4, <1>6, IputSound
<1>9. /\ r.data = m2.data
      /\ r.ptr = m2.ptr /\ r.bmap = m2.bmap /\ r.fd = m2.fd /\ r.st = m2.st
      /\ r.core[f].lock = m2.core[f].lock
      /\ \A g \in Files \ {f} : r.core[g] = m2.core[g] /\ r.itable[g] = m2.itable[g]
      /\ IF m2.core[f].refCount > 1
         THEN /\ r.core[f].refCount = m2.core[f].refCount - 1
              /\ r.core[f].INODE = m2.core[f].INODE /\ r.itable[f] = m2.itable[f]
              /\ r.core[f].dirty = m2.core[f].dirty
         ELSE /\ r.core[f].refCount = 0
              /\ r.itable[f] = IF m2.core[f].dirty THEN m2.core[f].INODE
                               ELSE m2.itable[f]
  BY <1>1, <1>7, IputMakes
<1> HIDE DEF r
<1>10. /\ ~ r.core[f].lock /\ r.core[f].refCount = old.refCount - 1
       /\ Cur(r, f) = old.INODE
       /\ r.itable[f] = IF old.refCount > 1 THEN m.itable[f] ELSE old.INODE
  BY <1>1, <1>4, <1>6, <1>9 DEF Cur
<1>11. /\ r.data = m.data /\ r.ptr = m.ptr /\ r.bmap = m.bmap /\ r.st = m.st
       /\ r.fd = [m.fd EXCEPT ![n] = Null]
       /\ \A g \in Files \ {f} : r.core[g] = m.core[g] /\ r.itable[g] = m.itable[g]
  BY <1>3, <1>6, <1>9
<1> QED BY <1>2, <1>8, <1>10, <1>11 DEF Shut, f, old

\* myLseek() moves one open descriptor, within its file, or none.
LEMMA MyLseekMakes ==
    ASSUME NEW m, Sound(m), NEW f \in Files, NEW pos \in Nat
    PROVE  LET r == MyLseek(m, f, pos)
               m1 == Iget(m, f)
           IN  \/ r = m1
               \/ r = Fail(m1, "undefined")
               \/ \E n \in FDs : /\ m.fd[n] # Null
                                 /\ pos \in 0 .. Size(m1, m.fd[n].file)
                                 /\ r = PutOFT(m1, n, [file |-> m.fd[n].file, offset |-> pos])
<1> DEFINE used == {i \in FDs : m.fd[i] # Null}
           mine == {i \in used : m.fd[i].file = f}
           n == IF mine # {} THEN LeastOf(mine) ELSE MostOf(used)
           m1 == Iget(m, f)
           r == MyLseek(m, f, pos)
<1>1. r = IF mine # {} /\ n = 0 THEN m1
          ELSE IF used = {} THEN Fail(m1, "undefined")
          ELSE IF ~ InFile(m1, m1.fd[n].file, pos) THEN m1
          ELSE PutOFT(m1, n, [file |-> m1.fd[n].file, offset |-> pos])
  BY DEF MyLseek, With
<1>2. m \in Machines /\ m1 \in Machines /\ m1.fd = m.fd
  <2>1. m \in Machines
    BY DEF Sound
  <2> QED BY <2>1, IgetMakes
<1>3. used # {} => n \in used
  <2>1. used \subseteq 0 .. NFD - 1 /\ used \subseteq Nat /\ NFD - 1 \in Nat /\ mine \subseteq used
    BY Constants DEF FDs
  <2> HIDE DEF used, mine
  <2>2. mine # {} => LeastOf(mine) \in mine
    BY <2>1, LeastExists
  <2>3. used # {} => MostOf(used) \in used
    BY <2>1, MostExists
  <2> QED BY <2>1, <2>2, <2>3
<1>4. used # {} => n \in FDs /\ m.fd[n] # Null
  BY <1>3
<1>5. ASSUME used # {}, InFile(m1, m1.fd[n].file, pos)
      PROVE  pos \in 0 .. Size(m1, m.fd[n].file)
  <2>1. m.fd[n].file \in Files
    BY <1>2, <1>4, <1>5, OpenOFT
  <2>2. Size(m1, m.fd[n].file) \in 0 .. MaxSize
    BY <1>2, <2>1, MinodeParts
  <2> QED BY <1>2, <1>5, <2>2, Constants DEF InFile
<1> HIDE DEF used, mine, n, m1, r
<1> QED BY <1>1, <1>2, <1>4, <1>5 DEF r, m1

\* myCat() of a file that is not open.
LEMMA MyCatMakes ==
    ASSUME NEW m, Sound(m), NEW f \in Files
    PROVE  LET r == MyCat(m, f)
           IN  \E o : /\ Opened(m, f, RD, o)
                      /\ \/ o.n = -1 /\ r = o.m
                         \/ o.n = NFD /\ r = Fail(o.m, "undefined")
                         \/ o.n \in FDs /\ o.m.fd[o.n] # Null /\ Shut(o.m, o.n, r)
<1> DEFINE o == OpenFile(m, f, RD)
           r == MyCat(m, f)
<1>1. Opened(m, f, RD, o)
  <2>1. RD \in Modes
    BY DEF RD, AP, Modes
  <2> QED BY <2>1, OpenFileMakes
<1>2. r = IF o.n < 0 THEN o.m ELSE IF o.n = NFD THEN Fail(o.m, "undefined")
          ELSE CloseFile(o.m, o.n)
  BY DEF MyCat, With
<1> HIDE DEF o, r
<1>3. /\ o.n \in FDs \cup {-1, NFD} /\ Sound(o.m)
      /\ o.n \in FDs => o.n >= 0 /\ o.n # NFD
  BY <1>1, Constants DEF Opened, FDs
<1>4. ASSUME o.n \in FDs PROVE o.m.fd[o.n] # Null /\ Shut(o.m, o.n, CloseFile(o.m, o.n))
  <2>1. m \in Machines /\ o.m \in Machines
    BY <1>3 DEF Sound
  <2>2. PICK p : o.m.fd = [m.fd EXCEPT ![o.n] = [file |-> f, offset |-> p]]
    BY <1>1, <1>4 DEF Opened
  <2>3. o.m.fd[o.n].file = f
    <3> DEFINE oft == [file |-> f, offset |-> p]
    <3>1. oft.file = f
      OBVIOUS
    <3> HIDE DEF oft
    <3>2. o.m.fd[o.n] = oft
      BY <1>4, <2>1, <2>2, Parts DEF oft
    <3> QED BY <3>1, <3>2
  <2>4. o.m.fd[o.n] # Null
    BY <1>4, <2>1, <2>3, OpenOFT
  <2> QED BY <1>3, <1>4, <2>4, CloseFileMakes
<1>5. CASE o.n = -1
  BY <1>1, <1>2, <1>5 DEF r
<1>6. CASE o.n = NFD
  <2>1. ~ (o.n < 0)
    BY <1>6, Constants
  <2> QED BY <1>1, <1>2, <1>6, <2>1 DEF r
<1>7. CASE o.n \in FDs
  <2>1. ~ (o.n < 0)
    BY <1>3, <1>7, Constants DEF FDs
  <2> QED BY <1>1, <1>2, <1>3, <1>4, <1>7, <2>1 DEF r
<1> QED BY <1>3, <1>5, <1>6, <1>7

-----------------------------------------------------------------------------
(* cp.                                                                     *)

\* What a write did it did as well if another descriptor is elsewhere.
LEMMA WroteMoved ==
    ASSUME NEW m \in Machines, NEW r \in Machines, NEW n \in FDs, NEW k \in FDs \ {n},
           NEW to, NEW what, Wrote(m, r, n, to, what), NEW oft \in OFTs
    PROVE  Wrote(PutOFT(m, k, oft), PutOFT(r, k, oft), n, to, what)
<1> DEFINE u == PutOFT(m, k, oft)
           v == PutOFT(r, k, oft)
           f == m.fd[n].file
           x == [file |-> f, offset |-> to]
<1>1. /\ u.fd = [m.fd EXCEPT ![k] = oft]
      /\ u.itable = m.itable /\ u.data = m.data /\ u.ptr = m.ptr
      /\ u.bmap = m.bmap /\ u.core = m.core /\ u.st = m.st
  BY PutOFTMakes
<1>2. /\ v.fd = [r.fd EXCEPT ![k] = oft]
      /\ v.itable = r.itable /\ v.data = r.data /\ v.ptr = r.ptr
      /\ v.bmap = r.bmap /\ v.core = r.core /\ v.st = r.st
  BY PutOFTMakes
<1> HIDE DEF u, v
<1>3. r.fd = [m.fd EXCEPT ![n] = x]
  BY DEF Wrote
<1> HIDE DEF x
<1>4. u.fd[n] = m.fd[n] /\ v.fd = [u.fd EXCEPT ![n] = x]
  BY <1>1, <1>2, <1>3, Parts
<1>5. Size(v, f) = Size(r, f) /\ Size(u, f) = Size(m, f)
  BY <1>1, <1>2 DEF Size, Inode
<1>6. ASSUME WroteBytes(m, r, f, m.fd[n].offset, to, what)
      PROVE  WroteBytes(u, v, f, m.fd[n].offset, to, what)
  <2>1. \A y, i : ByteAt(u, y, i) = ByteAt(m, y, i) /\ ByteAt(v, y, i) = ByteAt(r, y, i)
    BY <1>1, <1>2 DEF ByteAt, Map
  <2>2. \A g : Size(v, g) = Size(r, g)
    BY <1>2 DEF Size, Inode
  <2> QED BY <1>1, <1>2, <1>6, <2>1, <2>2 DEF WroteBytes
<1> QED BY <1>1, <1>2, <1>4, <1>5, <1>6 DEF Wrote, u, v, f, x

\* Two texts that agree on what is written are written alike.
LEMMA WroteBytesSame ==
    ASSUME NEW m, NEW r, NEW f, NEW at, NEW to, NEW what, NEW other,
           WroteBytes(m, r, f, at, to, other), \A i \in at .. to - 1 : other[i] = what[i]
    PROVE  WroteBytes(m, r, f, at, to, what)
<1>1. ASSUME NEW g \in Files, NEW i \in 0 .. m.itable[g].size - 1
      PROVE  ByteAt(r, r.itable[g], i) = IF g = f /\ i \in at .. to - 1 THEN what[i]
                                         ELSE ByteAt(m, m.itable[g], i)
  BY DEF WroteBytes
<1>2. ASSUME NEW g \in Files, m.core[g].refCount > 0, NEW i \in 0 .. Size(r, g) - 1
      PROVE  ByteAt(r, r.core[g].INODE, i) = IF g = f /\ i \in at .. to - 1 THEN what[i]
                                             ELSE ByteAt(m, m.core[g].INODE, i)
  BY <1>2 DEF WroteBytes
<1> QED BY <1>1, <1>2 DEF WroteBytes

\* The copy that has written as far as t and read as far as s.
Copied(m, c, from, to, s, t) ==
    LET f == m.fd[from].file
    IN  Wrote(PutOFT(m, from, [file |-> f, offset |-> s]), c, to, t,
              [i \in 0 .. Size(m, f) - 1 |-> ByteAt(m, Inode(m, f), i)])

\* The machine cp copies in: two files open, each at its beginning.
Copying(m, from, to) ==
    /\ Sound(m) /\ from \in FDs /\ to \in FDs \ {from}
    /\ m.fd[from] # Null /\ m.fd[from].offset = 0
    /\ m.fd[to] # Null /\ m.fd[to].offset = 0

\* The places the reads of cp begin at: those of blocks, and the end.
Starts(size) == {s \in 0 .. size : s = size \/ \E k \in Nat : s = k * BLKSIZE}

\* A read of cp leads from a block to the next, or to the end.
LEMMA NextStarts ==
    ASSUME NEW size \in Nat, NEW s \in Starts(size), s # size
    PROVE  /\ s % BLKSIZE = 0
           /\ s + (IF BLKSIZE < size - s THEN BLKSIZE ELSE size - s) \in Starts(size)
<1>1. PICK k \in Nat : s = k * BLKSIZE
  BY DEF Starts
<1>2. /\ BLKSIZE \in Nat /\ BLKSIZE > 0 /\ s \in 0 .. size /\ BLKSIZE * k = s /\ s \in Nat
      /\ (k + 1) * BLKSIZE = s + BLKSIZE
  BY <1>1, Constants DEF Starts
<1>3. s \div BLKSIZE = k
  BY <1>2, QuotientOf
<1>4. s = BLKSIZE * (s \div BLKSIZE) + (s % BLKSIZE) /\ s % BLKSIZE \in Nat
  BY <1>2, Division
<1>5. s % BLKSIZE = 0
  BY <1>2, <1>3, <1>4
<1>6. CASE BLKSIZE < size - s
  <2>1. s + BLKSIZE \in 0 .. size
    BY <1>2, <1>6
  <2>2. \E j \in Nat : s + BLKSIZE = j * BLKSIZE
    <3>1. k + 1 \in Nat
      OBVIOUS
    <3> QED BY <1>2, <3>1
  <2>3. s + BLKSIZE \in Starts(size)
    BY <2>1, <2>2 DEF Starts
  <2> QED BY <1>5, <1>6, <2>3
<1>7. CASE ~ (BLKSIZE < size - s)
  <2>1. s + (size - s) = size /\ size \in 0 .. size
    BY <1>2
  <2> QED BY <1>5, <1>7, <2>1 DEF Starts
<1> QED BY <1>6, <1>7

\* From copy c, which has come to s and t, to copy r: one block more, or what is left.
CopiedOn(m, c, r, from, to, s, t) ==
    LET size == Size(m, m.fd[from].file)
        left == size - s
    IN  /\ Sound(r) /\ c.bmap \subseteq r.bmap
        /\ \E v \in Starts(size) : \E w \in 0 .. v :
              /\ Copied(m, r, from, to, v, w)
              /\ r.bmap # Blks => v = w /\ w = t + (IF BLKSIZE < left THEN BLKSIZE ELSE left)

\* One round of the loop of myCp() does that, unless the disk fills.
LEMMA CopyBlockMakes ==
    ASSUME NEW m, NEW from, NEW to, Copying(m, from, to), NEW c, Sound(c),
           NEW s \in Starts(Size(m, m.fd[from].file)), NEW t \in 0 .. s,
           Copied(m, c, from, to, s, t), c.bmap # Blks => s = t
    PROVE  CopiedOn(m, c, CopyBlock(c, from, to), from, to, s, t)
<1> DEFINE f == m.fd[from].file
           g == m.fd[to].file
           size == Size(m, f)
           left == size - s
           what == [i \in 0 .. size - 1 |-> ByteAt(m, Inode(m, f), i)]
           u == PutOFT(m, from, [file |-> f, offset |-> s])
           d == MyRead(c, from, BLKSIZE)
           r == CopyBlock(c, from, to)
<1> SUFFICES /\ Sound(r) /\ c.bmap \subseteq r.bmap
             /\ \E v \in Starts(size) : \E w \in 0 .. v :
                   /\ Copied(m, r, from, to, v, w)
                   /\ r.bmap # Blks =>
                        v = w /\ w = t + (IF BLKSIZE < left THEN BLKSIZE ELSE left)
  BY DEF CopiedOn
<1>1. /\ m \in Machines /\ c \in Machines /\ from \in FDs /\ to \in FDs \ {from}
      /\ f \in Files /\ g \in Files /\ f # g /\ size \in 0 .. MaxSize /\ size \in Nat
      /\ m.core[f].refCount > 0 /\ s \in 0 .. size
  <2>1. /\ m \in Machines /\ c \in Machines /\ from \in FDs /\ to \in FDs \ {from}
        /\ m.fd[from] # Null /\ m.fd[to] # Null
    BY DEF Copying, Sound
  <2>2. f \in Files /\ g \in Files
    BY <2>1, OpenOFT
  <2>3. f # g /\ m.core[f].lock
    BY <2>1 DEF Copying, Sound, Locks
  <2>4. m.core[f].refCount > 0
    BY <2>2, <2>3 DEF Copying, Sound, Locks
  <2>5. size \in 0 .. MaxSize /\ size \in Nat
    BY <2>1, <2>2, MinodeParts, Constants
  <2> QED BY <2>1, <2>2, <2>3, <2>4, <2>5 DEF Starts
<1>2. /\ Sound(u) /\ u.core = m.core /\ u.itable = m.itable /\ u.data = m.data
      /\ u.ptr = m.ptr /\ u.bmap = m.bmap /\ u.st = m.st
      /\ u.fd = [m.fd EXCEPT ![from] = [file |-> f, offset |-> s]]
  BY <1>1, MoveSound DEF Copying
<1>3. Wrote(u, c, to, t, what)
  BY DEF Copied
<1>4. u \in Machines /\ u.fd[to] = m.fd[to] /\ u.fd[from] = [file |-> f, offset |-> s]
      /\ u.fd[to].file = g /\ u.fd[to].offset = 0
  BY <1>1, <1>2, Parts DEF Sound, Copying
<1> HIDE DEF u, f, g
<1>5. /\ c.fd[from] = [file |-> f, offset |-> s] /\ c.fd[to].file = g /\ c.fd[to].offset = t
      /\ c.core[f] = m.core[f] /\ u.bmap \subseteq c.bmap
  <2> DEFINE x == [file |-> g, offset |-> t]
  <2>1. x.file = g /\ x.offset = t
    OBVIOUS
  <2>2. c.fd = [u.fd EXCEPT ![to] = x]
    BY <1>3, <1>4 DEF Wrote
  <2> HIDE DEF x
  <2>3. c.fd[to] = x /\ c.fd[from] = u.fd[from]
    BY <1>1, <1>4, <2>2, Parts
  <2>4. c.core[f] = u.core[f] /\ u.bmap \subseteq c.bmap
    BY <1>1, <1>3, <1>4 DEF Wrote
  <2> QED BY <1>2, <1>4, <2>1, <2>3, <2>4
<1>6. /\ c.fd[from].file = f /\ c.fd[from].offset = s /\ c.fd[from] # Null /\ c.fd[to] # Null
      /\ Size(c, f) = size /\ Inode(c, f) = Inode(m, f)
  <2>1. c.fd[from].file = f /\ c.fd[from].offset = s
    BY <1>5
  <2>2. Size(c, f) = size /\ Inode(c, f) = Inode(m, f)
    BY <1>5 DEF Size, Inode
  <2> QED BY <1>1, <1>5, <2>1, <2>2, OpenOFT
<1> HIDE DEF size
<1>7. /\ \E p \in s .. size :
            /\ d.m = PutOFT(c, from, [file |-> f, offset |-> p])
            /\ d.n <= 0 => p = s \/ \E k \in Nat : p = k * BLKSIZE
      /\ d.n > 0 =>
            /\ d.n \in 1 .. left /\ d.n = IF BLKSIZE < left THEN BLKSIZE ELSE left
            /\ d.m = PutOFT(c, from, [file |-> f, offset |-> s + d.n])
            /\ d.buf = Piece(c, Inode(c, f), s, d.n)
      /\ c.bmap # Blks => d.n = IF BLKSIZE < left THEN BLKSIZE ELSE left
      /\ d.n \in Int
  <2>1. BLKSIZE \in Nat /\ from \in FDs
    BY <1>1, Constants
  <2> DEFINE cf == c.fd[from].file
             at == c.fd[from].offset
             rest == Size(c, cf) - at
  <2>2. /\ \E p \in at .. Size(c, cf) :
              /\ d.m = PutOFT(c, from, [file |-> cf, offset |-> p])
              /\ d.n <= 0 => p = at \/ \E k \in Nat : p = k * BLKSIZE
        /\ d.n > 0 =>
              /\ d.n \in 1 .. rest /\ d.n = IF BLKSIZE < rest THEN BLKSIZE ELSE rest
              /\ d.m = PutOFT(c, from, [file |-> cf, offset |-> at + d.n])
        /\ d.n >= 0 /\ (at % BLKSIZE) + d.n <= BLKSIZE => d.buf = Piece(c, Inode(c, cf), at, d.n)
        /\ c.bmap # Blks => d.n = IF BLKSIZE < rest THEN BLKSIZE ELSE rest
        /\ d.n \in Int
    <3> HIDE DEF d
    <3> QED BY <1>6, <2>1, MyReadMakes DEF d
  <2>3. cf = f /\ at = s /\ rest = left
    BY <1>6
  <2> HIDE DEF cf, at, rest, d, left
  <2>5. /\ \E p \in s .. size :
              /\ d.m = PutOFT(c, from, [file |-> f, offset |-> p])
              /\ d.n <= 0 => p = s \/ \E k \in Nat : p = k * BLKSIZE
        /\ c.bmap # Blks => d.n = IF BLKSIZE < left THEN BLKSIZE ELSE left
        /\ d.n \in Int
    BY <1>6, <2>2, <2>3
  <2>6. ASSUME d.n > 0
        PROVE  /\ d.n \in 1 .. left /\ d.n = IF BLKSIZE < left THEN BLKSIZE ELSE left
               /\ d.m = PutOFT(c, from, [file |-> f, offset |-> s + d.n])
               /\ d.buf = Piece(c, Inode(c, f), s, d.n)
    <3>1. /\ d.n \in 1 .. left /\ d.n = IF BLKSIZE < left THEN BLKSIZE ELSE left
          /\ d.m = PutOFT(c, from, [file |-> f, offset |-> s + d.n])
      BY <2>2, <2>3, <2>6
    <3>2. s # size /\ d.n <= BLKSIZE
      BY <1>1, <2>1, <3>1 DEF left
    <3>3. s % BLKSIZE = 0
      BY <1>1, <3>2, NextStarts DEF size, f
    <3>4. d.n >= 0 /\ (at % BLKSIZE) + d.n <= BLKSIZE
      <4>1. at % BLKSIZE = 0
        BY <2>3, <3>3
      <4> QED BY <2>1, <2>5, <2>6, <3>2, <4>1
    <3> QED BY <2>2, <2>3, <3>1, <3>4
  <2> QED BY <2>5, <2>6
<1>8. r = IF d.n <= 0 THEN d.m ELSE MyWrite(d.m, to, [i \in 1 .. d.n |-> d.buf[i]])
  BY DEF CopyBlock, With
<1> HIDE DEF d, r
<1>9. ASSUME NEW v \in s .. size
      PROVE  LET e == PutOFT(c, from, [file |-> f, offset |-> v])
             IN  /\ Sound(e) /\ e.bmap = c.bmap /\ e.fd[to] = c.fd[to]
                 /\ e.data = c.data /\ e.ptr = c.ptr
                 /\ Copied(m, e, from, to, v, t)
  <2> DEFINE oft == [file |-> f, offset |-> v]
             e == PutOFT(c, from, oft)
             w == PutOFT(u, from, oft)
  <2>1. v \in 0 .. size /\ v \in 0 .. MaxSize
    BY <1>1, Constants
  <2>2. oft \in OFTs
    BY <1>1, <2>1 DEF OFTs
  <2>3. /\ Sound(e) /\ e.core = c.core /\ e.itable = c.itable /\ e.data = c.data
        /\ e.ptr = c.ptr /\ e.bmap = c.bmap /\ e.st = c.st
        /\ e.fd = [c.fd EXCEPT ![from] = oft]
    BY <1>1, <1>6, <2>1, MoveSound
  <2> HIDE DEF oft
  <2>4. Wrote(w, e, to, t, what)
    <3> HIDE DEF what
    <3>1. from \in FDs \ {to}
      BY <1>1
    <3> QED BY <1>1, <1>3, <1>4, <2>2, <3>1, WroteMoved
  <2>5. w = PutOFT(m, from, oft)
    BY <1>1, <1>2 DEF PutOFT, u, Machines
  <2>6. e.fd[to] = c.fd[to]
    BY <1>1, <2>3, Parts
  <2> QED BY <2>3, <2>4, <2>5, <2>6 DEF Copied, oft, f, size
<1>10. CASE d.n <= 0
  <2>1. PICK p \in s .. size : /\ d.m = PutOFT(c, from, [file |-> f, offset |-> p])
                               /\ p = s \/ \E k \in Nat : p = k * BLKSIZE
    BY <1>7, <1>10
  <2>2. p \in Starts(size) /\ t \in 0 .. p
    <3>1. p \in 0 .. size /\ t \in 0 .. p
      BY <1>1
    <3> QED BY <2>1, <3>1 DEF Starts, size, f
  <2>3. r.bmap = c.bmap /\ Sound(r) /\ Copied(m, r, from, to, p, t)
    BY <1>8, <1>9, <1>10, <2>1
  <2>4. ASSUME c.bmap # Blks
        PROVE  p = t /\ t = t + (IF BLKSIZE < left THEN BLKSIZE ELSE left)
    <3>1. s = t /\ d.n = IF BLKSIZE < left THEN BLKSIZE ELSE left
      BY <1>7, <2>4
    <3> QED BY <1>1, <1>7, <1>10, <2>1, <3>1, Constants
  <2> QED BY <2>2, <2>3, <2>4 DEF r, f, size
<1>11. CASE d.n > 0
  <2> DEFINE v == s + d.n
             e == PutOFT(c, from, [file |-> f, offset |-> v])
             text == [i \in 1 .. d.n |-> d.buf[i]]
             mine == [i \in Nat |-> text[i - t + 1]]
  <2>1. /\ d.n \in 1 .. left /\ d.m = e /\ d.n \in Nat
        /\ d.n = IF BLKSIZE < left THEN BLKSIZE ELSE left
        /\ text = [i \in 1 .. d.n |-> ByteAt(c, Inode(c, f), s + i - 1)]
    <3>1. /\ d.n \in 1 .. left /\ d.m = e /\ d.n \in Nat
          /\ d.n = IF BLKSIZE < left THEN BLKSIZE ELSE left
      BY <1>7, <1>11
    <3>2. d.buf = [i \in 1 .. d.n |-> ByteAt(c, Inode(c, f), s + i - 1)]
      BY <1>7, <1>11 DEF Piece
    <3>3. \A i \in 1 .. d.n : d.buf[i] = ByteAt(c, Inode(c, f), s + i - 1)
      BY <3>2
    <3> QED BY <3>1, <3>3
  <2>2. v \in s .. size /\ v \in Starts(size) /\ t + d.n \in 0 .. v /\ t + d.n <= MaxSize
        /\ t \in Nat /\ s \in Nat
    <3>1. v \in s .. size /\ s # size /\ t + d.n \in 0 .. v /\ t + d.n <= MaxSize
          /\ t \in Nat /\ s \in Nat
      BY <1>1, <2>1, Constants
    <3>2. s \in Starts(size)
      BY DEF size, f
    <3>3. v \in Starts(size)
      BY <1>1, <2>1, <3>1, <3>2, NextStarts
    <3> QED BY <3>1, <3>3
  <2>3. /\ Sound(e) /\ e.bmap = c.bmap /\ e.fd[to] = c.fd[to]
        /\ e.data = c.data /\ e.ptr = c.ptr
        /\ Copied(m, e, from, to, v, t)
    BY <1>9, <2>2
  <2>4. r = MyWrite(e, to, text)
    BY <1>8, <1>11, <2>1
  <2> HIDE DEF e, text, v
  <2>5. ASSUME NEW i \in 1 .. d.n
        PROVE  /\ s + i - 1 \in 0 .. size - 1
               /\ text[i] = ByteAt(c, Inode(c, f), s + i - 1)
               /\ text[i] \in Bytes \cup {0}
               /\ c.bmap # Blks => text[i] \in Bytes
    <3>1. s + i - 1 \in 0 .. size - 1 /\ s + i - 1 \in 0 .. MaxSize - 1
      BY <1>1, <2>1, <2>2, Constants
    <3>2. text[i] = ByteAt(c, Inode(c, f), s + i - 1)
      BY <2>1
    <3>3. Inode(c, f) \in INODEs
      BY <1>1, MinodeParts DEF Inode
    <3> DEFINE j == s + i - 1
    <3> HIDE DEF j
    <3>4. ByteAt(c, Inode(c, f), j) \in Bytes \cup {0}
      BY <1>1, <3>1, <3>3, ByteType DEF j
    <3>5. ASSUME c.bmap # Blks PROVE ByteAt(c, Inode(c, f), j) # 0
      <4>1. Inode(c, f) \in Copies(c, f) /\ Inode(c, f).size = size
        BY <1>1, <1>5, <1>6 DEF Copies, Inode, Size
      <4>2. j \in 0 .. Inode(c, f).size - 1
        BY <3>1, <4>1 DEF j
      <4> QED BY <1>1, <3>5, <4>1, <4>2 DEF Sound, Blocks, Filled
    <3> QED BY <3>1, <3>2, <3>4, <3>5 DEF j
  <2>6. text \in Seq(Bytes \cup {0}) /\ Len(text) = d.n
    <3>1. text \in [1 .. d.n -> Bytes \cup {0}]
      BY <2>1, <2>5
    <3>2. d.n \in Nat
      BY <2>1
    <3> HIDE DEF text
    <3>3. text \in Seq(Bytes \cup {0})
      BY <3>1, <3>2, SeqDef
    <3> QED BY <3>1, <3>2, <3>3, LenProperties
  <2>7. \A i \in 1 .. Len(text) : mine[e.fd[to].offset + i - 1] = text[i]
    <3> SUFFICES ASSUME NEW i \in 1 .. d.n PROVE mine[t + i - 1] = text[i]
      BY <1>5, <2>3, <2>6
    <3>1. t + i - 1 \in Nat /\ (t + i - 1) - t + 1 = i
      BY <2>1, <2>2
    <3> QED BY <3>1
  <2> HIDE DEF mine
  <2>8. Sound(r) /\ Wrote(e, r, to, t + d.n, mine)
    <3>1. e.fd[to] # Null /\ e.fd[to].offset = t /\ to \in FDs
          /\ e.fd[to].offset + Len(text) = t + d.n
      BY <1>1, <1>5, <1>6, <2>3, <2>6
    <3>2. e.bmap # Blks => \A i \in 1 .. Len(text) : text[i] \in Bytes
      BY <2>3, <2>5, <2>6
    <3>3. e.fd[to].offset + Len(text) <= MaxSize
      BY <2>2, <3>1
    <3> QED BY <2>3, <2>4, <2>6, <2>7, <3>1, <3>2, <3>3, MyWriteMakes
  <2>9. ASSUME r.bmap # Blks PROVE c.bmap # Blks
    <3>1. e.bmap \subseteq r.bmap /\ r.bmap \subseteq Blks
      BY <2>8, Parts DEF Wrote, Sound
    <3> QED BY <2>3, <2>9, <3>1
  <2>10. ASSUME r.bmap # Blks, NEW i \in t .. t + d.n - 1
         PROVE  mine[i] = what[i]
    <3> DEFINE j == i - t + 1
    <3>1. s = t /\ c.bmap # Blks /\ u.bmap # Blks
      <4>1. c.bmap # Blks
        BY <2>9, <2>10
      <4>2. c.bmap \subseteq Blks /\ u.bmap \subseteq c.bmap
        BY <1>1, <1>5, Parts
      <4> QED BY <4>1, <4>2
    <3>2. j \in 1 .. d.n /\ s + j - 1 = i /\ i \in Nat
      BY <2>1, <2>2, <3>1
    <3>3. mine[i] = text[j]
      BY <3>2 DEF mine
    <3>4. i \in 0 .. size - 1
      BY <2>5, <3>2
    <3> HIDE DEF j
    <3>5. text[j] = ByteAt(c, Inode(c, f), i)
      BY <2>5, <3>2
    <3>6. WroteBytes(u, c, g, 0, t, what)
      BY <1>3, <1>4, <3>1 DEF Wrote
    <3>7. ByteAt(c, c.core[f].INODE, i) = ByteAt(u, u.core[f].INODE, i)
      <4>1. u.core[f].refCount > 0 /\ i \in 0 .. Size(c, f) - 1
        BY <1>1, <1>2, <1>6, <3>4
      <4> QED BY <1>1, <3>6, <4>1 DEF WroteBytes
    <3>8. ByteAt(u, u.core[f].INODE, i) = ByteAt(m, Inode(m, f), i)
      BY <1>2 DEF ByteAt, Map, Inode
    <3>9. what[i] = ByteAt(m, Inode(m, f), i)
      BY <3>4
    <3> QED BY <3>3, <3>5, <3>7, <3>8, <3>9 DEF Inode
  <2>11. Wrote(e, r, to, t + d.n, what)
    <3> HIDE DEF what
    <3>1. ASSUME r.bmap # Blks PROVE WroteBytes(e, r, g, t, t + d.n, what)
      <4> DEFINE end == t + d.n
      <4>1. WroteBytes(e, r, g, t, end, mine)
        BY <1>5, <2>3, <2>8, <3>1 DEF Wrote
      <4>2. \A i \in t .. end - 1 : mine[i] = what[i]
        BY <2>1, <2>2, <2>10, <3>1
      <4> HIDE DEF end
      <4>3. WroteBytes(e, r, g, t, end, what)
        BY <4>1, <4>2, WroteBytesSame
      <4> QED BY <4>3 DEF end
    <3> QED BY <1>5, <2>3, <2>8, <3>1 DEF Wrote
  <2> DEFINE w == PutOFT(m, from, [file |-> f, offset |-> v])
  <2>12. Wrote(w, e, to, t, what)
    BY <2>3 DEF Copied, f, size
  <2>13. w \in Machines /\ w.fd[to] = m.fd[to] /\ w.fd[to].file = g /\ w.fd[to].offset = 0
    <3> DEFINE oft == [file |-> f, offset |-> v]
    <3>1. v \in 0 .. MaxSize
      BY <1>1, <2>2, Constants
    <3>2. oft \in OFTs
      BY <1>1, <3>1 DEF OFTs
    <3> HIDE DEF oft
    <3>3. w \in Machines /\ w.fd = [m.fd EXCEPT ![from] = oft]
      BY <1>1, <3>2, PutOFTMakes DEF oft
    <3>4. w.fd[to] = m.fd[to]
      BY <1>1, <3>3, Parts
    <3> QED BY <3>3, <3>4 DEF Copying, g
  <2> HIDE DEF w
  <2>14. Wrote(w, r, to, t + d.n, what)
    <3> HIDE DEF what
    <3>1. e \in Machines /\ r \in Machines
      BY <2>3, <2>8 DEF Sound
    <3>2. 0 \in Nat /\ t \in Nat /\ t + d.n \in Nat /\ 0 <= t /\ t <= t + d.n
      BY <2>1, <2>2
    <3>3. w.fd[to] # Null /\ w.fd[to].offset = 0
          /\ w.fd[to].offset <= Size(w, w.fd[to].file)
      <4>1. w.fd[to] # Null /\ Size(w, g) \in 0 .. MaxSize
        BY <1>1, <2>13, OpenOFT, MinodeParts
      <4> QED BY <2>13, <4>1
    <3> QED BY <1>1, <2>11, <2>12, <2>13, <3>1, <3>2, <3>3, WroteTransitive
  <2>15. Copied(m, r, from, to, v, t + d.n)
    BY <2>14 DEF Copied, w, f, size
  <2>16. c.bmap \subseteq r.bmap
    BY <2>3, <2>8 DEF Wrote
  <2>17. ASSUME r.bmap # Blks
         PROVE  /\ v = t + d.n
                /\ t + d.n = t + (IF BLKSIZE < left THEN BLKSIZE ELSE left)
    <3>1. c.bmap # Blks
      BY <2>9, <2>17
    <3> QED BY <1>7, <3>1 DEF v
  <2> QED BY <2>2, <2>8, <2>15, <2>16, <2>17 DEF r, f, size
<1> QED BY <1>7, <1>10, <1>11

\* The blocks are copied one after the other.
LEMMA CopyBlocksSteps ==
    ASSUME NEW m, NEW from, NEW to, NEW rounds \in Nat
    PROVE  LET after == CopyBlocks(m, from, to, rounds)
           IN  /\ after[0] = m
               /\ \A k \in 1 .. rounds : after[k] = CopyBlock(after[k - 1], from, to)
<1> DEFINE Is(g, j) == g = [k \in 0 .. j |-> IF k = 0 THEN m
                                              ELSE CopyBlock(g[k - 1], from, to)]
           S == {j \in Nat : \E g : Is(g, j)}
<1>1. 0 \in S
  <2>1. Is([k \in 0 .. 0 |-> m], 0)
    OBVIOUS
  <2> QED BY <2>1
<1>2. ASSUME NEW j \in Nat, j \in S PROVE j + 1 \in S
  <2>1. PICK g : Is(g, j)
    BY <1>2
  <2> DEFINE h == [k \in 0 .. j + 1 |-> IF k <= j THEN g[k] ELSE CopyBlock(g[j], from, to)]
  <2>2. ASSUME NEW k \in 0 .. j + 1
        PROVE  h[k] = IF k = 0 THEN m ELSE CopyBlock(h[k - 1], from, to)
    <3>1. CASE k = 0
      BY <2>1, <3>1
    <3>2. CASE k # 0 /\ k <= j
      <4>1. k - 1 \in 0 .. j /\ k - 1 <= j /\ k \in 0 .. j
        BY <3>2
      <4>2. h[k] = g[k] /\ h[k - 1] = g[k - 1]
        BY <3>2, <4>1
      <4>3. g[k] = CopyBlock(g[k - 1], from, to)
        BY <2>1, <3>2, <4>1
      <4> QED BY <3>2, <4>2, <4>3
    <3>3. CASE k # 0 /\ ~ (k <= j)
      <4>1. k = j + 1 /\ k - 1 = j /\ j \in 0 .. j + 1 /\ j <= j
        BY <3>3
      <4>2. h[k] = CopyBlock(g[j], from, to) /\ h[j] = g[j]
        BY <3>3, <4>1
      <4> QED BY <3>3, <4>1, <4>2
    <3> QED BY <3>1, <3>2, <3>3
  <2>3. Is(h, j + 1)
    <3>1. h = [k \in 0 .. j + 1 |-> h[k]]
      OBVIOUS
    <3> HIDE DEF h
    <3> QED BY <2>2, <3>1
  <2> HIDE DEF h
  <2>4. \E f : Is(f, j + 1)
    BY <2>3
  <2> QED BY <2>4
<1>3. Nat \subseteq S
  <2> HIDE DEF S
  <2> QED BY <1>1, <1>2, SetInduction
<1>4. \E g : Is(g, rounds)
  BY <1>3
<1>5. Is(CopyBlocks(m, from, to, rounds), rounds)
  BY <1>4 DEF CopyBlocks
<1> DEFINE after == CopyBlocks(m, from, to, rounds)
<1>6. after = [k \in 0 .. rounds |-> IF k = 0 THEN m ELSE CopyBlock(after[k - 1], from, to)]
  BY <1>5
<1> HIDE DEF after
<1>7. /\ after[0] = m
      /\ \A k \in 1 .. rounds : after[k] = CopyBlock(after[k - 1], from, to)
  BY <1>6
<1> QED BY <1>7 DEF after

\* The loop of myCp() copies all of the file.
LEMMA CopyBlocksMakes ==
    ASSUME NEW m, NEW from, NEW to, Copying(m, from, to)
    PROVE  LET size == Size(m, m.fd[from].file)
               rounds == 1 + (size \div BLKSIZE)
               r == CopyBlocks(m, from, to, rounds)[rounds]
           IN  /\ Sound(r)
               /\ \E s \in 0 .. size : \E t \in 0 .. s :
                     /\ Copied(m, r, from, to, s, t)
                     /\ r.bmap # Blks => s = size /\ t = size
<1> DEFINE f == m.fd[from].file
           size == Size(m, f)
           rounds == 1 + (size \div BLKSIZE)
           after == CopyBlocks(m, from, to, rounds)
           Reached(c, k) ==
               /\ Sound(c)
               /\ \E s \in Starts(size) : \E t \in 0 .. s :
                     /\ Copied(m, c, from, to, s, t)
                     /\ c.bmap # Blks => s = t /\ (t = size \/ t = k * BLKSIZE)
           S == {k \in Nat : k <= rounds => Reached(after[k], k)}
<1>1. /\ m \in Machines /\ Sound(m) /\ from \in FDs /\ to \in FDs \ {from}
      /\ f \in Files /\ size \in 0 .. MaxSize /\ size \in Nat
      /\ m.fd[from] = [file |-> f, offset |-> 0]
  <2>1. /\ m \in Machines /\ Sound(m) /\ from \in FDs /\ to \in FDs \ {from}
        /\ m.fd[from] # Null /\ m.fd[from].offset = 0
    BY DEF Copying, Sound
  <2>2. f \in Files /\ m.fd[from] \in OFTs
    BY <2>1, OpenOFT
  <2>3. m.fd[from] = [file |-> f, offset |-> 0]
    BY <2>1, <2>2 DEF OFTs
  <2>4. size \in 0 .. MaxSize /\ size \in Nat
    BY <2>1, <2>2, MinodeParts, Constants
  <2> QED BY <2>1, <2>2, <2>3, <2>4
<1>2. /\ rounds \in Nat /\ size < rounds * BLKSIZE
      /\ \A k \in Nat : (k + 1) * BLKSIZE = k * BLKSIZE + BLKSIZE /\ k * BLKSIZE \in Nat
  <2> HIDE DEF size
  <2>1. \A k \in Nat : (k + 1) * BLKSIZE = k * BLKSIZE + BLKSIZE /\ k * BLKSIZE \in Nat
    BY Constants
  <2> DEFINE q == size \div BLKSIZE
  <2>2. q \in Nat /\ size % BLKSIZE \in 0 .. BLKSIZE - 1
        /\ size = BLKSIZE * q + (size % BLKSIZE)
    BY <1>1, Constants, Division
  <2>3. rounds = q + 1
    BY <2>2
  <2> HIDE DEF q
  <2>4. BLKSIZE * q = q * BLKSIZE /\ rounds * BLKSIZE = q * BLKSIZE + BLKSIZE
        /\ q * BLKSIZE \in Nat
    BY <2>1, <2>2, <2>3, Constants
  <2> DEFINE a == q * BLKSIZE
             b == size % BLKSIZE
             e == rounds * BLKSIZE
  <2>5. size = a + b /\ b \in 0 .. BLKSIZE - 1 /\ e = a + BLKSIZE /\ a \in Nat
    BY <2>2, <2>4
  <2> HIDE DEF a, b, e
  <2>6. size < e
    BY <2>5, Constants
  <2> QED BY <2>1, <2>2, <2>3, <2>6 DEF e
<1> HIDE DEF rounds
<1>3. /\ after[0] = m
      /\ \A k \in 1 .. rounds : after[k] = CopyBlock(after[k - 1], from, to)
  BY <1>2, CopyBlocksSteps
<1> HIDE DEF after
<1>4. 0 \in S
  <2> DEFINE what == [i \in 0 .. size - 1 |-> ByteAt(m, Inode(m, f), i)]
             u == PutOFT(m, from, [file |-> f, offset |-> 0])
  <2>1. u = m
    <3>1. m.fd = [m.fd EXCEPT ![from] = m.fd[from]]
      BY <1>1, Parts
    <3>2. m = [m EXCEPT !.fd = m.fd]
      BY <1>1 DEF Machines
    <3>3. u = [m EXCEPT !.fd = [m.fd EXCEPT ![from] = m.fd[from]]]
      BY <1>1 DEF PutOFT
    <3> QED BY <3>1, <3>2, <3>3
  <2>2. Wrote(m, m, to, 0, what)
    <3> HIDE DEF what
    <3>1. m.fd[to] # Null /\ m.fd[to].offset = 0
      BY DEF Copying
    <3>2. Size(m, m.fd[to].file) \in 0 .. MaxSize
      BY <1>1, <3>1, OpenOFT, MinodeParts
    <3>3. m.fd[to].offset <= Size(m, m.fd[to].file)
      BY <3>1, <3>2
    <3> QED BY <1>1, <3>1, <3>3, WroteNothing
  <2> HIDE DEF u
  <2>3. Copied(m, m, from, to, 0, 0)
    BY <2>1, <2>2 DEF Copied, u
  <2>4. 0 \in Starts(size) /\ 0 \in 0 .. 0 /\ 0 = 0 * BLKSIZE
    <3>1. 0 \in 0 .. size /\ 0 = 0 * BLKSIZE
      BY <1>1, Constants
    <3> QED BY <3>1 DEF Starts
  <2>5. Reached(m, 0)
    <3> HIDE DEF size
    <3> QED BY <1>1, <2>3, <2>4
  <2> QED BY <1>3, <2>5
<1>5. ASSUME NEW k \in Nat, k \in S PROVE k + 1 \in S
  <2> SUFFICES ASSUME k + 1 <= rounds PROVE Reached(after[k + 1], k + 1)
    OBVIOUS
  <2> DEFINE c == after[k]
             r == after[k + 1]
  <2>1. Sound(c)
    BY <1>2, <1>5
  <2>2. r = CopyBlock(c, from, to)
    <3>1. k + 1 \in 1 .. rounds /\ (k + 1) - 1 = k
      BY <1>2
    <3> QED BY <1>3, <3>1
  <2>3. PICK s \in Starts(size) : \E t \in 0 .. s :
            /\ Copied(m, c, from, to, s, t)
            /\ c.bmap # Blks => s = t /\ (t = size \/ t = k * BLKSIZE)
    BY <1>2, <1>5
  <2>4. PICK t \in 0 .. s :
            /\ Copied(m, c, from, to, s, t)
            /\ c.bmap # Blks => s = t /\ (t = size \/ t = k * BLKSIZE)
    BY <2>3
  <2> HIDE DEF c, r
  <2> DEFINE left == size - s
  <2>5. /\ Sound(r) /\ c.bmap \subseteq r.bmap
        /\ \E v \in Starts(size) : \E w \in 0 .. v :
              /\ Copied(m, r, from, to, v, w)
              /\ r.bmap # Blks =>
                    v = w /\ w = t + (IF BLKSIZE < left THEN BLKSIZE ELSE left)
    <3>1. CopiedOn(m, c, CopyBlock(c, from, to), from, to, s, t)
      BY <2>1, <2>4, CopyBlockMakes
    <3> QED BY <2>2, <3>1 DEF CopiedOn
  <2>6. PICK v \in Starts(size) : \E w \in 0 .. v :
              /\ Copied(m, r, from, to, v, w)
              /\ r.bmap # Blks =>
                    v = w /\ w = t + (IF BLKSIZE < left THEN BLKSIZE ELSE left)
    BY <2>5
  <2>7. PICK w \in 0 .. v :
              /\ Copied(m, r, from, to, v, w)
              /\ r.bmap # Blks =>
                    v = w /\ w = t + (IF BLKSIZE < left THEN BLKSIZE ELSE left)
    BY <2>6
  <2>8. ASSUME r.bmap # Blks
        PROVE  v = w /\ (w = size \/ w = (k + 1) * BLKSIZE)
    <3>1. c.bmap # Blks
      <4>1. r.bmap \subseteq Blks
        BY <2>5, Parts DEF Sound
      <4> QED BY <2>5, <2>8, <4>1
    <3>2. /\ s = t /\ (t = size \/ t = k * BLKSIZE)
          /\ v = w /\ w = t + (IF BLKSIZE < left THEN BLKSIZE ELSE left)
      BY <2>4, <2>7, <2>8, <3>1
    <3>3. (k + 1) * BLKSIZE = k * BLKSIZE + BLKSIZE
      BY <1>2
    <3> DEFINE a == k * BLKSIZE
               b == (k + 1) * BLKSIZE
    <3>4. (t = size \/ t = a) /\ b = a + BLKSIZE /\ a \in Nat
      BY <1>2, <3>2, <3>3
    <3> HIDE DEF a, b, size
    <3>5. w = size \/ w = b
      BY <1>1, <3>2, <3>4, Constants
    <3> QED BY <3>2, <3>5 DEF b
  <2> HIDE DEF size
  <2> QED BY <2>5, <2>7, <2>8 DEF r
<1>6. Reached(after[rounds], rounds)
  <2>1. Nat \subseteq S
    <3> HIDE DEF S
    <3> QED BY <1>4, <1>5, SetInduction
  <2> QED BY <1>2, <2>1
<1>7. PICK s \in Starts(size) : \E t \in 0 .. s :
            /\ Copied(m, after[rounds], from, to, s, t)
            /\ after[rounds].bmap # Blks => s = t /\ (t = size \/ t = rounds * BLKSIZE)
  BY <1>6
<1>8. PICK t \in 0 .. s :
            /\ Copied(m, after[rounds], from, to, s, t)
            /\ after[rounds].bmap # Blks => s = t /\ (t = size \/ t = rounds * BLKSIZE)
  BY <1>7
<1>9. after[rounds].bmap # Blks => s = size /\ t = size
  <2> DEFINE e == rounds * BLKSIZE
  <2>1. size < e
    BY <1>2
  <2> HIDE DEF e
  <2>2. after[rounds].bmap # Blks => s = t /\ (t = size \/ t = e)
    BY <1>8 DEF e
  <2>3. s \in 0 .. size
    BY DEF Starts
  <2> HIDE DEF size
  <2> QED BY <1>1, <2>1, <2>2, <2>3
<1>10. s \in 0 .. size
  BY DEF Starts
<1> HIDE DEF S
<1> QED BY <1>6, <1>8, <1>9, <1>10 DEF after, rounds

\* What the loop of myCp() and the two calls of close_file() make of the machine
\* in which f is open as descriptor o.n and g as q.n.
CpCopies(f, g, o, q, r) ==
    /\ f # g /\ o.n \in FDs /\ q.n \in FDs /\ Copying(q.m, o.n, q.n)
    /\ q.m.fd[o.n].file = f /\ q.m.fd[q.n].file = g
    /\ \E c : /\ Sound(c)
              /\ \E s \in 0 .. Size(q.m, f) : \E t \in 0 .. s :
                    /\ Copied(q.m, c, o.n, q.n, s, t)
                    /\ c.bmap # Blks => s = Size(q.m, f) /\ t = Size(q.m, f)
              /\ \E d : Shut(c, o.n, d) /\ Shut(d, q.n, r)

\* Where myCp() ends: f is not opened; g is not; a descriptor is missing; or the
\* bytes of f are in g, and both are closed.
CpEnds(m, f, g, r) ==
    \E o : /\ Opened(m, f, RD, o)
           /\ \/ o.n = -1 /\ r = o.m
              \/ /\ o.n # -1
                 /\ \E q : /\ Opened(Iget(o.m, g), g, RD, q)
                           /\ \/ q.n = -1 /\ r = q.m
                              \/ q.n # -1 /\ NFD \in {o.n, q.n} /\ r = Fail(q.m, "undefined")
                              \/ CpCopies(f, g, o, q, r)

\* What cp does, whichever of its opens fails, is what CpEnds says.
LEMMA MyCpMakes ==
    ASSUME NEW m, Sound(m), NEW f \in Files, NEW g \in Files
    PROVE  CpEnds(m, f, g, MyCp(m, f, g))
<1> DEFINE o == OpenFile(m, f, RD)
           i == Iget(o.m, g)
           q == OpenFile(i, g, RD)
           p == q.m
           rounds == 1 + Size(p, f) \div BLKSIZE
           c == CopyBlocks(p, o.n, q.n, rounds)[rounds]
           d == CloseFile(c, o.n)
           r == MyCp(m, f, g)
<1> SUFFICES CpEnds(m, f, g, r)
  OBVIOUS
<1>1. r = IF o.n < 0 THEN o.m
          ELSE IF q.n < 0 THEN q.m
          ELSE IF NFD \in {o.n, q.n} THEN Fail(q.m, "undefined")
          ELSE CloseFile(d, q.n)
  BY DEF MyCp, With
<1>2. RD \in Modes /\ RD # AP
  BY DEF RD, AP, Modes
<1>3. Opened(m, f, RD, o)
  BY <1>2, OpenFileMakes
<1>4. Opened(i, g, RD, q)
  <2>1. Sound(i)
    BY <1>3, IgetSound DEF Opened
  <2> HIDE DEF i
  <2> QED BY <1>2, <2>1, OpenFileMakes
<1> HIDE DEF o, q, r
<1>5. \A x : x \in FDs \cup {-1, NFD} => (x < 0 <=> x = -1) /\ (x \in FDs <=> x # -1 /\ x # NFD)
  BY Constants DEF FDs
<1>6. o.n \in FDs \cup {-1, NFD} /\ q.n \in FDs \cup {-1, NFD}
  BY <1>3, <1>4 DEF Opened
<1>7. CASE o.n = -1
  BY <1>1, <1>3, <1>5, <1>6, <1>7 DEF CpEnds
<1>8. CASE o.n # -1 /\ q.n = -1
  BY <1>1, <1>3, <1>4, <1>5, <1>6, <1>8 DEF CpEnds
<1>9. CASE o.n # -1 /\ q.n # -1 /\ NFD \in {o.n, q.n}
  BY <1>1, <1>3, <1>4, <1>5, <1>6, <1>9 DEF CpEnds
<1>10. CASE o.n # -1 /\ q.n # -1 /\ NFD \notin {o.n, q.n}
  <2>1. /\ o.n \in FDs /\ q.n \in FDs /\ r = CloseFile(d, q.n)
    BY <1>1, <1>5, <1>6, <1>10
  <2>2. /\ m \in Machines /\ o.m \in Machines /\ i \in Machines /\ p \in Machines
        /\ Sound(p) /\ Sound(i) /\ i.fd = o.m.fd /\ i.core[g].lock = o.m.core[g].lock
    <3>1. m \in Machines /\ o.m \in Machines /\ p \in Machines /\ Sound(p) /\ Sound(o.m)
      BY <1>3, <1>4 DEF Sound, Opened
    <3>2. i \in Machines /\ i.fd = o.m.fd /\ i.core[g].lock = o.m.core[g].lock
      BY <3>1, IgetMakes
    <3> QED BY <3>1, <3>2, IgetSound
  <2>3. f # g
    <3>1. o.m.core[f].lock
      BY <1>3, <2>1, <1>10 DEF Opened
    <3>2. ~ i.core[g].lock
      BY <1>4, <2>1, <1>10 DEF Opened
    <3> QED BY <2>2, <3>1, <3>2
  <2> DEFINE x == [file |-> f, offset |-> 0]
             y == [file |-> g, offset |-> 0]
  <2>4. o.m.fd = [m.fd EXCEPT ![o.n] = x]
    BY <1>2, <1>3, <2>1 DEF Opened
  <2>5. p.fd = [i.fd EXCEPT ![q.n] = y] /\ i.fd[q.n] = Null
    BY <1>2, <1>4, <2>1 DEF Opened
  <2>6. x.file = f /\ x.offset = 0 /\ y.file = g /\ y.offset = 0
    OBVIOUS
  <2> HIDE DEF x, y, p, i
  <2>7. o.m.fd[o.n] = x /\ p.fd[q.n] = y
    BY <2>1, <2>2, <2>4, <2>5, Parts
  <2>8. o.n # q.n
    <3>1. Null.file \notin Files
      BY FilesAssumption DEF Null, NoFile
    <3> QED BY <2>2, <2>5, <2>6, <2>7, <3>1
  <2>9. p.fd[o.n] = x
    BY <2>1, <2>2, <2>5, <2>7, <2>8, Parts
  <2>10. /\ Copying(p, o.n, q.n)
         /\ p.fd[o.n].file = f /\ p.fd[q.n].file = g
    <3>1. p.fd[o.n] # Null /\ p.fd[q.n] # Null
      BY <2>1, <2>2, <2>6, <2>7, <2>9, OpenOFT
    <3> QED BY <2>1, <2>2, <2>6, <2>7, <2>8, <2>9, <3>1 DEF Copying
  <2>11. /\ Sound(c)
         /\ \E s \in 0 .. Size(p, f) : \E t \in 0 .. s :
               /\ Copied(p, c, o.n, q.n, s, t)
               /\ c.bmap # Blks => s = Size(p, f) /\ t = Size(p, f)
    BY <2>10, CopyBlocksMakes
  <2> HIDE DEF c
  <2>12. PICK s \in 0 .. Size(p, f) : \E t \in 0 .. s :
               /\ Copied(p, c, o.n, q.n, s, t)
               /\ c.bmap # Blks => s = Size(p, f) /\ t = Size(p, f)
    BY <2>11
  <2>13. PICK t \in 0 .. s :
               /\ Copied(p, c, o.n, q.n, s, t)
               /\ c.bmap # Blks => s = Size(p, f) /\ t = Size(p, f)
    BY <2>12
  <2> DEFINE xs == [file |-> f, offset |-> s]
             yt == [file |-> g, offset |-> t]
             u == PutOFT(p, o.n, xs)
  <2>14. c.fd = [u.fd EXCEPT ![q.n] = yt] /\ u.fd = [p.fd EXCEPT ![o.n] = xs]
    <3>1. Size(p, f) \in 0 .. MaxSize
      BY <2>2, MinodeParts
    <3>2. s \in 0 .. MaxSize
      BY <3>1, Constants
    <3>3. xs \in OFTs
      BY <3>2 DEF OFTs
    <3> HIDE DEF xs
    <3>4. u.fd = [p.fd EXCEPT ![o.n] = xs] /\ u \in Machines
      BY <2>1, <2>2, <3>3, PutOFTMakes
    <3>5. u.fd[q.n] = p.fd[q.n]
      BY <2>1, <2>2, <2>8, <3>4, Parts
    <3>6. Copied(p, c, o.n, q.n, s, t)
      BY <2>13
    <3> HIDE DEF u, yt
    <3>7. c.fd = [u.fd EXCEPT ![q.n] = yt]
      BY <2>6, <2>7, <2>10, <3>5, <3>6 DEF Copied, Wrote, u, xs, yt
    <3> QED BY <3>4, <3>7
  <2>15. xs.file = f /\ yt.file = g
    OBVIOUS
  <2> HIDE DEF xs, yt, u
  <2>16. c.fd[q.n] = yt /\ c.fd[o.n] = xs /\ c \in Machines
    <3>1. c \in Machines
      BY <2>11 DEF Sound
    <3> QED BY <2>1, <2>2, <2>8, <2>14, <3>1, Parts
  <2>17. c.fd[o.n] # Null /\ c.fd[q.n] # Null
    BY <2>1, <2>15, <2>16, OpenOFT
  <2>18. Shut(c, o.n, d)
    BY <2>1, <2>11, <2>17, CloseFileMakes
  <2> HIDE DEF d
  <2>19. Sound(d) /\ d.fd[q.n] # Null
    <3>1. d.fd = [c.fd EXCEPT ![o.n] = Null]
      BY <2>18 DEF Shut
    <3>2. d.fd[q.n] = c.fd[q.n]
      BY <2>1, <2>8, <2>16, <3>1, Parts
    <3> QED BY <2>17, <2>18, <3>2 DEF Shut
  <2>20. Shut(d, q.n, r)
    BY <2>1, <2>19, CloseFileMakes
  <2>21. CpCopies(f, g, o, q, r)
    BY <2>1, <2>3, <2>10, <2>11, <2>13, <2>18, <2>20 DEF CpCopies, p
  <2> QED BY <1>3, <1>4, <1>10, <2>21 DEF CpEnds, i
<1> QED BY <1>7, <1>8, <1>9, <1>10

-----------------------------------------------------------------------------
(* The commands.                                                           *)

\* What a program that is started again finds.
Restarted(m) == [core |-> [f \in Files |-> Idle], itable |-> m.itable, data |-> m.data,
                 ptr |-> m.ptr, bmap |-> m.bmap, fd |-> [n \in FDs |-> Null], st |-> "up"]

\* After a command the machine is the one it leaves, started again if it died.
LEMMA LeavesMakes ==
    ASSUME NEW m, m \in Machines, Leaves(m)
    PROVE  /\ Now' = IF m.st = "down" THEN Restarted(m) ELSE m
           /\ m.bmap # Blks
<1>1. m.bmap # Blks
  BY DEF Leaves, Bounded
<1>2. CASE m.st = "down"
  <2> DEFINE c == [f \in Files |-> Idle]
             d == [n \in FDs |-> Null]
  <2>1. /\ core' = c /\ fd' = d /\ st' = "up" /\ itable' = m.itable /\ data' = m.data
        /\ ptr' = m.ptr /\ bmap' = m.bmap
    BY <1>2 DEF Leaves
  <2>2. Restarted(m) = [core |-> c, itable |-> m.itable, data |-> m.data, ptr |-> m.ptr,
                        bmap |-> m.bmap, fd |-> d, st |-> "up"]
    BY DEF Restarted
  <2>3. Now' = [core |-> core', itable |-> itable', data |-> data', ptr |-> ptr',
                bmap |-> bmap', fd |-> fd', st |-> st']
    BY DEF Now
  <2> HIDE DEF c, d
  <2> QED BY <1>1, <1>2, <2>1, <2>2, <2>3
<1>3. CASE m.st # "down"
  <2>1. m = [core |-> m.core, itable |-> m.itable, data |-> m.data, ptr |-> m.ptr,
             bmap |-> m.bmap, fd |-> m.fd, st |-> m.st]
    BY DEF Machines
  <2>2. /\ core' = m.core /\ itable' = m.itable /\ data' = m.data /\ ptr' = m.ptr
        /\ bmap' = m.bmap /\ fd' = m.fd /\ st' = m.st
    BY <1>3 DEF Leaves
  <2>3. Now' = [core |-> core', itable |-> itable', data |-> data', ptr |-> ptr',
                bmap |-> bmap', fd |-> fd', st |-> st']
    BY DEF Now
  <2> QED BY <1>1, <1>3, <2>1, <2>2, <2>3
<1> QED BY <1>1, <1>2, <1>3

\* The machine without references and descriptors is sound.
LEMMA RestartSound ==
    ASSUME NEW m, Sound(m)
    PROVE  Sound(Restarted(m))
<1> DEFINE r == Restarted(m)
<1>1. m \in Machines
  BY DEF Sound
<1>2. /\ r.core = [f \in Files |-> Idle] /\ r.itable = m.itable /\ r.data = m.data
      /\ r.ptr = m.ptr /\ r.bmap = m.bmap /\ r.fd = [n \in FDs |-> Null] /\ r.st = "up"
  BY DEF Restarted
<1>3. r \in Machines
  <2>1. [f \in Files |-> Idle] \in [Files -> MINODEs]
    BY EmptyInode
  <2>2. [n \in FDs |-> Null] \in [FDs -> OFTs \cup {Null}]
    OBVIOUS
  <2> DEFINE c == [f \in Files |-> Idle]
             d == [n \in FDs |-> Null]
  <2> HIDE DEF c, d
  <2>3. c \in [Files -> MINODEs] /\ d \in [FDs -> OFTs \cup {Null}]
    BY <2>1, <2>2 DEF c, d
  <2>4. r = [core |-> c, itable |-> m.itable, data |-> m.data,
             ptr |-> m.ptr, bmap |-> m.bmap, fd |-> d, st |-> "up"]
    BY DEF Restarted, c, d
  <2> HIDE DEF r
  <2> QED BY <1>1, <2>3, <2>4, Parts DEF Machines
<1> HIDE DEF r
<1>4. \A f \in Files : r.core[f].refCount = 0 /\ ~ r.core[f].lock
  BY <1>2 DEF Idle
<1>5. \A n \in FDs : r.fd[n] = Null
  BY <1>2
<1>6. Locks(r) /\ Clean(r) /\ Offsets(r)
  BY <1>4, <1>5 DEF Locks, Clean, Offsets
<1>7. ASSUME r.bmap # Blks PROVE Blocks(r)
  <2>1. Blocks(m)
    BY <1>2, <1>7 DEF Sound
  <2>2. Agree(r)
    BY <1>4 DEF Agree
  <2>3. \A f \in Files : \A x \in Copies(r, f) : x = m.itable[f] /\ x \in Copies(m, f)
    BY <1>2, <1>4 DEF Copies
  <2>4. \A f \in Files : \A x \in Copies(m, f) : x.size <= x.size
    BY <1>1, CopyType
  <2> QED BY <1>1, <1>2, <1>3, <2>1, <2>2, <2>3, <2>4, FewerBlocks
<1> QED BY <1>3, <1>6, <1>7 DEF Sound, r

\* How the program goes on is no part of what keeps a machine sound.
LEMMA FailSound ==
    ASSUME NEW m, Sound(m), NEW how \in {"down", "undefined"}
    PROVE  Sound(Fail(m, how))
<1> DEFINE r == Fail(m, how)
<1>1. m \in Machines
  BY DEF Sound
<1>2. /\ r \in Machines /\ r.itable = m.itable /\ r.data = m.data /\ r.ptr = m.ptr
      /\ r.bmap = m.bmap /\ r.fd = m.fd /\ r.core = m.core
  BY <1>1, FailMakes
<1> HIDE DEF r
<1>3. Locks(r) /\ Clean(r) /\ Offsets(r)
  BY <1>2 DEF Sound, Locks, Clean, Offsets, Size, Inode
<1>4. ASSUME r.bmap # Blks PROVE Blocks(r)
  <2>1. Blocks(m)
    BY <1>2, <1>4 DEF Sound
  <2>2. \A g \in Files : Copies(r, g) = Copies(m, g)
    BY <1>2 DEF Copies
  <2>3. Agree(r)
    BY <1>2, <2>1 DEF Blocks, Private, Agree
  <2>4. \A g \in Files : \A x \in Copies(m, g) : x.size <= x.size
    BY <1>1, CopyType
  <2> QED BY <1>1, <1>2, <2>1, <2>2, <2>3, <2>4, FewerBlocks
<1> QED BY <1>2, <1>3, <1>4 DEF Sound, r

\* quit() saves INODEs that no other reference keeps, and the program ends.
Saved(m) == [f \in Files |-> IF m.core[f].refCount = 1 /\ m.core[f].dirty
                             THEN m.core[f].INODE ELSE m.itable[f]]
QuitTo(m) == [m EXCEPT !.itable = Saved(m), !.st = "down"]

\* quit() saves the INODEs and keeps the machine sound.
LEMMA QuitSound ==
    ASSUME NEW m, Sound(m)
    PROVE  /\ Sound(QuitTo(m)) /\ QuitTo(m).core = m.core /\ QuitTo(m).itable = Saved(m)
           /\ QuitTo(m).data = m.data /\ QuitTo(m).ptr = m.ptr /\ QuitTo(m).bmap = m.bmap
           /\ QuitTo(m).fd = m.fd /\ QuitTo(m).st = "down"
<1> DEFINE r == QuitTo(m)
           to == Saved(m)
<1>1. m \in Machines
  BY DEF Sound
<1>2. to \in [Files -> INODEs]
  BY <1>1, MinodeParts DEF Saved
<1>3. \A f \in Files : \/ to[f] = m.itable[f]
                       \/ to[f] = m.core[f].INODE /\ m.core[f].refCount = 1 /\ m.core[f].dirty
  BY DEF Saved
<1> HIDE DEF to
<1>4. /\ r \in Machines /\ r.core = m.core /\ r.itable = to /\ r.data = m.data
      /\ r.ptr = m.ptr /\ r.bmap = m.bmap /\ r.fd = m.fd /\ r.st = "down"
  BY <1>1, <1>2 DEF QuitTo, Machines, to
<1> HIDE DEF r
<1>5. Locks(r) /\ Clean(r) /\ Offsets(r)
  BY <1>3, <1>4 DEF Sound, Locks, Clean, Offsets, Size, Inode
<1>6. ASSUME r.bmap # Blks PROVE Blocks(r)
  <2>1. Blocks(m)
    BY <1>4, <1>6 DEF Sound
  <2>2. \A f \in Files : Copies(r, f) \subseteq Copies(m, f)
    BY <1>3, <1>4 DEF Copies
  <2>3. Agree(r)
    <3>1. ASSUME NEW f \in Files, m.core[f].refCount > 0, NEW i \in 1 .. DIND
          PROVE  to[f].block[i] = 0 \/ to[f].block[i] = m.core[f].INODE.block[i]
      BY <1>3, <2>1, <3>1 DEF Blocks, Private, Agree
    <3> QED BY <1>4, <3>1 DEF Agree
  <2>4. \A f \in Files : \A x \in Copies(m, f) : x.size <= x.size
    BY <1>1, CopyType
  <2> QED BY <1>1, <1>4, <2>1, <2>2, <2>3, <2>4, FewerBlocks
<1> QED BY <1>4, <1>5, <1>6 DEF Sound, r, to

\* The files are numbered.
LEMMA NthMakes ==
    /\ N \in Nat /\ Nth \in [Files -> 1 .. N]
    /\ \A f, g \in Files : Nth[f] = Nth[g] => f = g
<1>1. N \in Nat
  BY FilesAssumption, FS_CardinalityType DEF N
<1>2. IsFiniteSet(1 .. N) /\ Cardinality(1 .. N) = N
  BY <1>1, FS_Interval
<1>3. ExistsBijection(Files, 1 .. N)
  BY <1>2, FilesAssumption, FS_SameCardinalityBij DEF N
<1>4. \E nth \in [Files -> 1 .. N] : \A f, g \in Files : nth[f] = nth[g] => f = g
  BY <1>3 DEF ExistsBijection, Bijection, Injection, IsInjective
<1> QED BY <1>1, <1>4 DEF Nth

\* The blocks of the files at the start are apart, and numbered from 1 on.
LEMMA BlockMakes ==
    ASSUME NEW f \in Files, NEW k \in Nat
    PROVE  /\ Block(f, k) \in Nat /\ Block(f, k) > 0 /\ N \in Nat /\ N * k \in Nat
           /\ N * k < Block(f, k) /\ Block(f, k) <= N * k + N
           /\ Block(f, k) + N = Block(f, k + 1)
           /\ \A g \in Files : \A l \in Nat : Block(f, k) = Block(g, l) => f = g /\ k = l
<1>1. \A g \in Files : Nth[g] \in 1 .. N /\ Nth[g] \in Nat /\ (Nth[f] = Nth[g] => f = g)
  BY NthMakes
<1>2. N \in Nat /\ N > 0
  BY <1>1, NthMakes
<1>3. \A l \in Nat : N * l \in Nat /\ N * (l + 1) = N * l + N
  BY <1>2
<1>4. ASSUME NEW g \in Files, NEW l \in Nat
      PROVE  /\ Block(g, l) \in Nat /\ N * l < Block(g, l) /\ Block(g, l) <= N * l + N
             /\ Block(g, l) = N * l + Nth[g]
             /\ (Block(g, l) - 1) \div N = l
  <2> DEFINE a == N * l
             b == N * l + Nth[g]
  <2>1. a \in Nat /\ b = a + Nth[g]
    BY <1>3
  <2> HIDE DEF a, b
  <2>2. b \in Nat /\ a < b /\ b <= a + N /\ b - 1 \in Nat /\ a <= b - 1 /\ b - 1 < a + N
    BY <1>1, <1>2, <2>1
  <2>3. (b - 1) \div N = l
    BY <1>2, <2>2, QuotientOf DEF a
  <2> QED BY <2>2, <2>3 DEF Block, a, b
<1>5. Block(f, k) + N = Block(f, k + 1)
  BY <1>1, <1>2, <1>3 DEF Block
<1>6. ASSUME NEW g \in Files, NEW l \in Nat, Block(f, k) = Block(g, l)
      PROVE  f = g /\ k = l
  <2>1. k = l
    BY <1>4, <1>6
  <2>2. N * k + Nth[f] = N * k + Nth[g]
    BY <1>4, <1>6, <2>1
  <2>3. Nth[f] = Nth[g]
    BY <1>1, <1>3, <2>2
  <2> QED BY <1>1, <2>1, <2>3
<1>7. Block(f, k) > 0
  BY <1>3, <1>4
<1> QED BY <1>2, <1>3, <1>4, <1>5, <1>6, <1>7

\* What files are left over from earlier ones of their numbers.
Lefts == {left \in [Files -> 0 .. 2] : \A f \in Files \ Reusing : left[f] = 0}

\* The blocks of the files at the start are on the disk, and do not fill it.
LEMMA LeftMakes ==
    ASSUME NEW left \in Lefts, NEW f \in Files, NEW k \in LeftOver(left[f])
    PROVE  k \in Nat /\ Block(f, k) \in 1 .. NBLOCKS - 1
<1>1. left[f] \in 0 .. 2 /\ (f \notin Reusing => left[f] = 0)
  BY DEF Lefts
<1>2. /\ k \in Nat /\ k <= NIND + 4
      /\ k # 0 => left[f] # 0
  BY <1>1, Constants DEF LeftOver
<1>3. /\ Block(f, k) \in Nat /\ Block(f, k) > 0 /\ Block(f, k) <= N * k + N
      /\ N \in Nat /\ N * k \in Nat
  BY <1>2, BlockMakes
<1>4. CASE k = 0
  <2>1. N * k = 0 /\ N < NBLOCKS
    BY <1>3, <1>4, FilesAssumption DEF N
  <2> QED BY <1>2, <1>3, <2>1, Constants
<1>5. CASE k # 0
  <2>1. N * (NIND + 5) < NBLOCKS
    BY <1>1, <1>2, <1>5, FilesAssumption DEF N
  <2>2. PICK d \in Nat : NIND + 4 = k + d
    <3>1. NIND + 4 - k \in Nat /\ NIND + 4 = k + (NIND + 4 - k)
      BY <1>2, Constants
    <3> QED BY <3>1
  <2>3. N * (NIND + 5) = N * k + N + N * d /\ N * d \in Nat
    <3>1. NIND + 5 = k + 1 + d
      BY <1>2, <2>2, Constants
    <3> QED BY <1>2, <1>3, <3>1
  <2>4. Block(f, k) <= N * (NIND + 5) /\ N * (NIND + 5) \in Nat
    BY <1>3, <2>3
  <2> QED BY <1>2, <1>3, <2>1, <2>4, Constants
<1> QED BY <1>4, <1>5

\* Which block of a file pointer k of its block i leads to at the start.
Child(i, k) == IF i = 1 THEN 5 + k ELSE i + 1

\* The pointers left over lead from blocks of a file to blocks of the file.
LEMMA LeftRowMakes ==
    ASSUME NEW left \in Lefts, NEW b \in 0 .. NBLOCKS, NEW k \in 0 .. NIND - 1,
           LeftRow(left, b, k) # 0
    PROVE  \E f \in Files : \E i \in 1 .. 3 :
              /\ i # 1 => k = 0
              /\ Child(i, k) \in LeftOver(left[f])
              /\ b = Block(f, i) /\ LeftRow(left, b, k) = Block(f, Child(i, k))
<1>1. k \in Nat
  OBVIOUS
<1>2. CASE \E f \in Files : left[f] >= 1 /\ b = Block(f, 1) /\ 5 + k \in LeftOver(left[f])
  <2>1. PICK f \in Files : left[f] >= 1 /\ b = Block(f, 1) /\ 5 + k \in LeftOver(left[f])
    BY <1>2
  <2>2. LeftRow(left, b, k) = b + N * (4 + k)
    BY <1>2 DEF LeftRow
  <2>3. N \in Nat /\ Nth[f] \in Nat
    BY NthMakes
  <2>4. b + N * (4 + k) = Block(f, 5 + k)
    BY <1>1, <2>1, <2>3 DEF Block
  <2>5. Child(1, k) = 5 + k /\ 1 \in 1 .. 3
    BY DEF Child
  <2> QED BY <2>1, <2>2, <2>4, <2>5
<1>3. CASE ~ \E f \in Files : left[f] >= 1 /\ b = Block(f, 1) /\ 5 + k \in LeftOver(left[f])
  <2>1. /\ LeftRow(left, b, k) = b + N
        /\ k = 0 /\ \E f \in Files : left[f] = 2 /\ b \in {Block(f, 2), Block(f, 3)}
    BY <1>3 DEF LeftRow
  <2>2. PICK f \in Files : left[f] = 2 /\ b \in {Block(f, 2), Block(f, 3)}
    BY <2>1
  <2>3. PICK i \in {2, 3} : b = Block(f, i)
    BY <2>2
  <2>4. Block(f, i) + N = Block(f, i + 1)
    BY BlockMakes
  <2>5. Child(i, k) = i + 1 /\ i \in 1 .. 3
    BY DEF Child
  <2>6. i + 1 \in LeftOver(left[f])
    BY <2>2 DEF LeftOver
  <2> QED BY <2>1, <2>3, <2>4, <2>5, <2>6
<1> QED BY <1>2, <1>3

\* What holds in every state: the machine is sound, and has a clear block.
Inv == Sound(Now) /\ bmap # Blks /\ st \in {"up", "undefined"}

\* The parts of the machine of the variables.
LEMMA NowParts ==
    /\ Now.core = core /\ Now.itable = itable /\ Now.data = data /\ Now.ptr = ptr
    /\ Now.bmap = bmap /\ Now.fd = fd /\ Now.st = st
BY DEF Now

\* The initial states satisfy the invariant.
LEMMA InitInv == Init => Inv
<1> SUFFICES ASSUME Init PROVE Inv
  OBVIOUS
<1> DEFINE m == Now
<1>1. PICK left \in Lefts : Disk(left)
  BY DEF Init, Lefts
<1>2. \A f \in Files : left[f] \in 0 .. 2
  BY DEF Lefts
\* The place of a pointer of the inode among the blocks of the file.
<1> DEFINE level(i) == IF i = 1 THEN 0 ELSE IF i = IND THEN 1 ELSE 2
           leads(f, i) == \/ i = 1
                          \/ i = IND /\ left[f] >= 1
                          \/ i = DIND /\ left[f] = 2
           top(f) == [i \in 1 .. DIND |-> IF leads(f, i) THEN Block(f, level(i)) ELSE 0]
<1>3. ASSUME NEW f \in Files, NEW i \in 1 .. DIND, leads(f, i)
      PROVE  level(i) \in LeftOver(left[f]) /\ level(i) \in 0 .. 2
  BY <1>2, <1>3, Constants DEF LeftOver, IND, DIND
<1>4. ASSUME NEW f \in Files
      PROVE  itable[f] \in INODEs /\ itable[f].size = 0 /\ itable[f].block = top(f)
  <2> DEFINE b0 == [i \in 1 .. DIND |-> 0]
             n == Block(f, 0)
             l == IF left[f] >= 1 THEN Block(f, 1) ELSE 0
             d == IF left[f] = 2 THEN Block(f, 2) ELSE 0
             b3 == [[[b0 EXCEPT ![1] = n] EXCEPT ![IND] = l] EXCEPT ![DIND] = d]
  <2>1. itable[f] = [size |-> 0, block |-> b3]
    BY <1>1 DEF Empty, Disk
  <2>2. n \in 0 .. NBLOCKS /\ l \in 0 .. NBLOCKS /\ d \in 0 .. NBLOCKS
    <3>1. /\ 0 \in LeftOver(left[f]) /\ (left[f] >= 1 => 1 \in LeftOver(left[f]))
          /\ (left[f] = 2 => 2 \in LeftOver(left[f]))
      BY DEF LeftOver
    <3>2. \A k \in LeftOver(left[f]) : Block(f, k) \in 0 .. NBLOCKS
      BY LeftMakes, Constants
    <3>3. 0 \in 0 .. NBLOCKS
      BY Constants
    <3> QED BY <3>1, <3>2, <3>3
  <2>3. /\ IND \in 1 .. DIND /\ 1 \in 1 .. DIND /\ DIND \in 1 .. DIND
        /\ IND # 1 /\ DIND # 1 /\ IND # DIND
    BY Constants DEF IND, DIND
  <2>4. /\ top(f) = [i \in 1 .. DIND |-> IF i = DIND THEN d
                                         ELSE IF i = IND THEN l ELSE IF i = 1 THEN n ELSE 0]
    BY <2>3
  <2> HIDE DEF n, l, d, top
  <2>5. b3 \in [1 .. DIND -> 0 .. NBLOCKS] /\ b3 = top(f)
    <3>1. b0 \in [1 .. DIND -> 0 .. NBLOCKS] /\ \A i \in 1 .. DIND : b0[i] = 0
      BY Constants
    <3> HIDE DEF b0
    <3> DEFINE b1 == [b0 EXCEPT ![1] = n]
    <3>2. b1 \in [1 .. DIND -> 0 .. NBLOCKS]
          /\ \A i \in 1 .. DIND : b1[i] = IF i = 1 THEN n ELSE 0
      BY <2>2, <2>3, <3>1
    <3> HIDE DEF b1
    <3> DEFINE b2 == [b1 EXCEPT ![IND] = l]
    <3>3. b2 \in [1 .. DIND -> 0 .. NBLOCKS]
          /\ \A i \in 1 .. DIND : b2[i] = IF i = IND THEN l ELSE IF i = 1 THEN n ELSE 0
      BY <2>2, <2>3, <3>2
    <3> HIDE DEF b2
    <3>4. b3 = [b2 EXCEPT ![DIND] = d]
      BY DEF b2, b1
    <3> HIDE DEF b3
    <3>5. b3 \in [1 .. DIND -> 0 .. NBLOCKS]
          /\ \A i \in 1 .. DIND : b3[i] = IF i = DIND THEN d
                                          ELSE IF i = IND THEN l ELSE IF i = 1 THEN n ELSE 0
      BY <2>2, <2>3, <3>3, <3>4
    <3> QED BY <2>4, <3>5
  <2> HIDE DEF b3
  <2>6. itable[f] \in INODEs /\ itable[f].size = 0 /\ itable[f].block = b3
    BY <2>1, <2>5, Constants DEF INODEs
  <2> QED BY <2>5, <2>6
<1>5. ASSUME NEW b \in 0 .. NBLOCKS, NEW k \in 0 .. NIND - 1, ptr[b][k] # 0
      PROVE  \E f \in Files : \E i \in 1 .. 3 :
                /\ i # 1 => k = 0
                /\ Child(i, k) \in LeftOver(left[f])
                /\ b = Block(f, i) /\ ptr[b][k] = Block(f, Child(i, k))
  <2>1. ptr[b][k] = LeftRow(left, b, k)
    BY <1>1 DEF Disk
  <2> QED BY <1>5, <2>1, LeftRowMakes
<1>6. ASSUME NEW b \in 0 .. NBLOCKS, NEW k \in 0 .. NIND - 1
      PROVE  ptr[b][k] \in 0 .. NBLOCKS
  <2>1. CASE ptr[b][k] = 0
    BY <2>1, Constants
  <2>2. CASE ptr[b][k] # 0
    <3>1. PICK f \in Files, i \in 1 .. 3 :
              Child(i, k) \in LeftOver(left[f]) /\ ptr[b][k] = Block(f, Child(i, k))
      BY <1>5, <2>2
    <3>2. Block(f, Child(i, k)) \in 1 .. NBLOCKS - 1
      BY <3>1, LeftMakes
    <3> QED BY <3>1, <3>2, Constants
  <2> QED BY <2>1, <2>2
<1>7. ASSUME NEW f \in Files, NEW k \in LeftOver(left[f]) PROVE Block(f, k) \in bmap
  <2> DEFINE mine == {Block(f, l) : l \in LeftOver(left[f])}
             all == {{Block(g, l) : l \in LeftOver(left[g])} : g \in Files}
  <2>1. Block(f, k) \in mine /\ mine \in all /\ bmap = UNION all
    BY <1>1 DEF Disk
  <2> HIDE DEF mine, all
  <2> QED BY <2>1
<1>8. bmap \subseteq Blks /\ bmap # Blks /\ st = "up"
  <2>1. ASSUME NEW b \in bmap PROVE b \in 1 .. NBLOCKS - 1
    <3>1. PICK f \in Files : b \in {Block(f, k) : k \in LeftOver(left[f])}
      BY <1>1 DEF Disk
    <3>2. PICK k \in LeftOver(left[f]) : b = Block(f, k)
      BY <3>1
    <3> QED BY <3>2, LeftMakes
  <2>2. NBLOCKS \in Blks /\ NBLOCKS \notin bmap
    BY <2>1, Constants DEF Blks
  <2>3. bmap \subseteq Blks
    BY <2>1, Constants DEF Blks
  <2>4. st = "up"
    BY DEF Init
  <2> QED BY <2>2, <2>3, <2>4
<1>9. data \in [0 .. NBLOCKS -> [0 .. BLKSIZE - 1 -> Bytes \cup {0}]] /\ data[0] = ZeroData
  <2>1. PICK old \in Bytes :
            data = [b \in 0 .. NBLOCKS |->
                      IF \E f \in Files : \E k \in LeftOver(left[f]) : k >= 4 /\ b = Block(f, k)
                      THEN [o \in 0 .. BLKSIZE - 1 |-> old] ELSE ZeroData]
    BY <1>1 DEF Disk
  <2>2. /\ [o \in 0 .. BLKSIZE - 1 |-> old] \in [0 .. BLKSIZE - 1 -> Bytes \cup {0}]
        /\ ZeroData \in [0 .. BLKSIZE - 1 -> Bytes \cup {0}]
    BY Zeros
  <2>3. ~ \E f \in Files : \E k \in LeftOver(left[f]) : k >= 4 /\ 0 = Block(f, k)
    BY LeftMakes
  <2>4. 0 \in 0 .. NBLOCKS
    BY Constants
  <2> QED BY <2>1, <2>2, <2>3, <2>4
<1>10. m \in Machines
  <2>1. itable \in [Files -> INODEs]
    BY <1>1, <1>4 DEF Disk
  <2>2. ptr \in [0 .. NBLOCKS -> Rows]
    BY <1>1, <1>6 DEF Rows, Disk
  <2>3. core \in [Files -> MINODEs] /\ fd \in [FDs -> OFTs \cup {Null}]
    BY EmptyInode DEF Init
  <2>4. Now = [core |-> core, itable |-> itable, data |-> data, ptr |-> ptr,
               bmap |-> bmap, fd |-> fd, st |-> st]
    BY DEF Now
  <2> QED BY <1>8, <1>9, <2>1, <2>2, <2>3, <2>4 DEF Machines
<1>11. /\ m.core = core /\ m.itable = itable /\ m.data = data /\ m.ptr = ptr
       /\ m.bmap = bmap /\ m.fd = fd /\ m.st = st
  BY NowParts
<1> HIDE DEF m
<1>12. /\ \A f \in Files : m.core[f].refCount = 0 /\ ~ m.core[f].lock
       /\ \A n \in FDs : m.fd[n] = Null
  <2>1. core = [f \in Files |-> Idle] /\ fd = [n \in FDs |-> Null]
    BY DEF Init
  <2>2. Idle.refCount = 0 /\ ~ Idle.lock
    BY DEF Idle
  <2> QED BY <1>11, <2>1, <2>2
<1>13. Locks(m) /\ Clean(m) /\ Offsets(m) /\ Agree(m)
  BY <1>12 DEF Locks, Clean, Offsets, Agree
<1>14. ASSUME NEW f \in Files
       PROVE  Tables(m, f) = {top(f)} /\ Copies(m, f) = {itable[f]}
  <2>1. m.core[f].refCount = 0 /\ m.itable[f] = itable[f] /\ itable[f].block = top(f)
    BY <1>4, <1>11, <1>12
  <2> HIDE DEF top
  <2>2. ~ (m.core[f].refCount > 0)
    BY <2>1
  <2> QED BY <2>1, <2>2 DEF Tables, Copies
<1>15. ASSUME NEW f \in Files, NEW i \in 1 .. DIND
       PROVE  /\ top(f)[i] = 0 \/ (leads(f, i) /\ top(f)[i] = Block(f, level(i)))
  OBVIOUS
<1>16. ASSUME NEW i \in 1 .. DIND, NEW j \in 1 .. DIND, NEW f \in Files, NEW g \in Files,
              leads(f, i), leads(g, j), level(i) = level(j)
       PROVE  i = j
  BY <1>16, Constants DEF IND, DIND
<1> HIDE DEF top, leads, level
<1>17. ASSUME NEW p \in PtrBlocks(m), NEW k \in 0 .. NIND - 1, m.ptr[p][k] # 0
       PROVE  \E f \in Files : \E i \in 1 .. 3 :
                 /\ i # 1 => k = 0
                 /\ Child(i, k) \in LeftOver(left[f]) /\ Child(i, k) \in Nat /\ Child(i, k) > 2
                 /\ p = Block(f, i) /\ m.ptr[p][k] = Block(f, Child(i, k))
  <2>1. p \in 0 .. NBLOCKS
    BY Constants DEF PtrBlocks, Blks
  <2>2. \A i \in 1 .. 3 : (i # 1 => k = 0) => Child(i, k) \in Nat /\ Child(i, k) > 2
    BY DEF Child
  <2> QED BY <1>5, <1>11, <1>17, <2>1, <2>2
<1>18. TopsApart(m)
  <2> SUFFICES ASSUME NEW f \in Files, NEW g \in Files, NEW i \in 1 .. DIND, NEW j \in 1 .. DIND,
                      top(f)[i] # 0, top(f)[i] = top(g)[j]
               PROVE  f = g /\ i = j
    BY <1>14 DEF TopsApart
  <2>1. /\ leads(f, i) /\ leads(g, j)
        /\ Block(f, level(i)) = Block(g, level(j))
        /\ level(i) \in Nat /\ level(j) \in Nat
    BY <1>3, <1>15
  <2>2. f = g /\ level(i) = level(j)
    BY <2>1, BlockMakes
  <2> QED BY <1>16, <2>1, <2>2
<1>19. TopsMarked(m)
  <2> SUFFICES ASSUME NEW f \in Files, NEW i \in 1 .. DIND
               PROVE  top(f)[i] \in m.bmap \cup {0}
    BY <1>14 DEF TopsMarked
  <2> QED BY <1>3, <1>7, <1>11, <1>15
<1>20. TopsNotInRows(m)
  <2> SUFFICES ASSUME NEW f \in Files, NEW i \in 1 .. DIND,
                      NEW p \in PtrBlocks(m), NEW k \in 0 .. NIND - 1,
                      top(f)[i] # 0, m.ptr[p][k] = top(f)[i]
               PROVE  FALSE
    BY <1>14 DEF TopsNotInRows
  <2>1. /\ level(i) \in Nat /\ level(i) <= 2 /\ m.ptr[p][k] = Block(f, level(i))
    BY <1>3, <1>15
  <2>2. PICK g \in Files, j \in 1 .. 3 :
            /\ Child(j, k) \in Nat /\ Child(j, k) > 2
            /\ m.ptr[p][k] = Block(g, Child(j, k))
    BY <1>17
  <2> DEFINE a == level(i)
             b == Child(j, k)
  <2>3. a \in Nat /\ b \in Nat /\ Block(f, a) = Block(g, b)
    BY <2>1, <2>2
  <2> HIDE DEF a, b
  <2>4. a = b
    BY <2>3, BlockMakes
  <2> QED BY <2>1, <2>2, <2>4 DEF a, b
<1>21. RowsApart(m)
  <2> SUFFICES ASSUME NEW p \in PtrBlocks(m), NEW q \in PtrBlocks(m),
                      NEW k \in 0 .. NIND - 1, NEW l \in 0 .. NIND - 1,
                      m.ptr[p][k] # 0, m.ptr[p][k] = m.ptr[q][l]
               PROVE  p = q /\ k = l
    BY DEF RowsApart
  <2>1. PICK f \in Files, i \in 1 .. 3 :
            /\ i # 1 => k = 0
            /\ Child(i, k) \in Nat
            /\ p = Block(f, i) /\ m.ptr[p][k] = Block(f, Child(i, k))
    BY <1>17
  <2>2. PICK g \in Files, j \in 1 .. 3 :
            /\ j # 1 => l = 0
            /\ Child(j, l) \in Nat
            /\ q = Block(g, j) /\ m.ptr[q][l] = Block(g, Child(j, l))
    BY <1>17
  <2> DEFINE a == Child(i, k)
             b == Child(j, l)
  <2>5. a \in Nat /\ b \in Nat /\ Block(f, a) = Block(g, b)
    BY <2>1, <2>2
  <2> HIDE DEF a, b
  <2>6. f = g /\ a = b
    BY <2>5, BlockMakes
  <2>3. f = g /\ Child(i, k) = Child(j, l)
    BY <2>6 DEF a, b
  <2>4. i = j /\ k = l
    BY <2>1, <2>2, <2>3 DEF Child
  <2> QED BY <2>1, <2>2, <2>3, <2>4
<1>22. RowsMarked(m)
  <2> SUFFICES ASSUME NEW p \in PtrBlocks(m), NEW k \in 0 .. NIND - 1, m.ptr[p][k] # 0
               PROVE  m.ptr[p][k] \in m.bmap
    BY DEF RowsMarked
  <2>1. PICK f \in Files, i \in 1 .. 3 :
            Child(i, k) \in LeftOver(left[f]) /\ m.ptr[p][k] = Block(f, Child(i, k))
    BY <1>17
  <2> QED BY <1>7, <1>11, <2>1
<1>23. m.ptr[0] = ZeroPtr
  <2>1. 0 \in 0 .. NBLOCKS
    BY Constants
  <2>2. ASSUME NEW k \in 0 .. NIND - 1 PROVE ptr[0][k] = 0
    <3> SUFFICES ASSUME ptr[0][k] # 0 PROVE FALSE
      OBVIOUS
    <3>1. PICK f \in Files, i \in 1 .. 3 : 0 = Block(f, i)
      BY <1>5, <2>1
    <3>2. i \in Nat
      OBVIOUS
    <3>3. Block(f, i) > 0
      BY <3>2, BlockMakes
    <3> QED BY <3>1, <3>3
  <2>3. ptr[0] = [k \in 0 .. NIND - 1 |-> LeftRow(left, 0, k)]
    BY <1>1, <2>1 DEF Disk
  <2>4. ptr[0] = [k \in 0 .. NIND - 1 |-> ptr[0][k]]
    BY <2>3
  <2> QED BY <1>11, <2>2, <2>4 DEF ZeroPtr
<1>24. Filled(m)
  <2>1. \A f \in Files : \A x \in Copies(m, f) : x.size = 0
    BY <1>4, <1>14
  <2> QED BY <2>1 DEF Filled
<1>25. Blocks(m)
  BY <1>9, <1>11, <1>13, <1>18, <1>19, <1>20, <1>21, <1>22, <1>23, <1>24 DEF Blocks, Private
<1> QED BY <1>8, <1>10, <1>13, <1>25 DEF Inv, Sound, m

\* A command that leaves with a sound machine satisfies the invariant after it.
LEMMA LeavesInv ==
    ASSUME NEW m, Sound(m), Leaves(m)
    PROVE  Inv'
<1>1. m \in Machines
  BY DEF Sound
<1>2. Now' = (IF m.st = "down" THEN Restarted(m) ELSE m) /\ m.bmap # Blks
  BY <1>1, LeavesMakes
<1>3. Sound(Now')
  BY <1>2, RestartSound
<1>4. /\ Now'.bmap = bmap' /\ Now'.st = st'
  BY DEF Now
<1>5. bmap' # Blks
  BY <1>2, <1>4 DEF Restarted
<1>6. st' \in {"up", "undefined"}
  BY <1>1, <1>2, <1>4, Parts DEF Restarted
<1> QED BY <1>3, <1>5, <1>6 DEF Inv

\* Every command leaves a sound machine, unless it takes the last clear block.
LEMMA CommandSound ==
    ASSUME NEW m, Sound(m)
    PROVE  /\ \A f \in Files, mode \in Modes : Sound(OpenFile(m, f, mode).m)
           /\ \A n \in FDs : Sound(CloseFile(m, n))
           /\ \A f \in Files, pos \in Nat : Sound(MyLseek(m, f, pos))
           /\ \A n \in FDs, nbytes \in Nat : m.fd[n] # Null => Sound(MyRead(m, n, nbytes).m)
           /\ \A n \in FDs, text \in Texts :
                 m.fd[n] # Null /\ m.fd[n].offset + Len(text) <= MaxSize =>
                    Sound(MyWrite(m, n, text))
           /\ \A f \in Files : Sound(MyCat(m, f))
           /\ \A f, g \in Files : Sound(MyCp(m, f, g))
           /\ Sound(QuitTo(m)) /\ Sound(Fail(m, "down"))
<1>1. \A f \in Files, mode \in Modes : Sound(OpenFile(m, f, mode).m)
  BY OpenFileMakes DEF Opened
<1>2. ASSUME NEW n \in FDs PROVE Sound(CloseFile(m, n))
  <2>1. CASE m.fd[n] = Null
    BY <2>1, FailSound DEF CloseFile
  <2>2. CASE m.fd[n] # Null
    BY <2>2, CloseFileMakes DEF Shut
  <2> QED BY <2>1, <2>2
<1>3. ASSUME NEW f \in Files, NEW pos \in Nat PROVE Sound(MyLseek(m, f, pos))
  <2> DEFINE r == MyLseek(m, f, pos)
             i == Iget(m, f)
  <2>1. Sound(i) /\ i.fd = m.fd
    BY IgetSound, IgetMakes DEF Sound
  <2>2. \/ r = i
        \/ r = Fail(i, "undefined")
        \/ \E n \in FDs : /\ m.fd[n] # Null
                          /\ pos \in 0 .. Size(i, m.fd[n].file)
                          /\ r = PutOFT(i, n, [file |-> m.fd[n].file, offset |-> pos])
    BY MyLseekMakes
  <2> HIDE DEF r, i
  <2>3. CASE r = i
    BY <2>1, <2>3 DEF r
  <2>4. CASE r = Fail(i, "undefined")
    BY <2>1, <2>4, FailSound DEF r
  <2>5. CASE \E n \in FDs : /\ m.fd[n] # Null
                            /\ pos \in 0 .. Size(i, m.fd[n].file)
                            /\ r = PutOFT(i, n, [file |-> m.fd[n].file, offset |-> pos])
    <3>1. PICK n \in FDs : /\ m.fd[n] # Null
                           /\ pos \in 0 .. Size(i, m.fd[n].file)
                           /\ r = PutOFT(i, n, [file |-> m.fd[n].file, offset |-> pos])
      BY <2>5
    <3>2. i.fd[n] # Null /\ i.fd[n].file = m.fd[n].file
      BY <2>1, <3>1
    <3>3. Sound(PutOFT(i, n, [file |-> i.fd[n].file, offset |-> pos]))
      BY <2>1, <3>1, <3>2, MoveSound
    <3> QED BY <3>1, <3>2, <3>3 DEF r
  <2> QED BY <2>2, <2>3, <2>4, <2>5
<1>4. ASSUME NEW n \in FDs, NEW nbytes \in Nat, m.fd[n] # Null
      PROVE  Sound(MyRead(m, n, nbytes).m)
  <2> DEFINE f == m.fd[n].file
             r == MyRead(m, n, nbytes)
  <2>1. m \in Machines /\ f \in Files /\ m.fd[n].offset \in Nat
    BY <1>4, OpenOFT DEF Sound
  <2>2. PICK p \in m.fd[n].offset .. Size(m, f) :
            r.m = PutOFT(m, n, [file |-> f, offset |-> p])
    BY <1>4, MyReadMakes
  <2> HIDE DEF r
  <2>3. p \in 0 .. Size(m, f)
    BY <2>1
  <2>4. Sound(PutOFT(m, n, [file |-> f, offset |-> p]))
    BY <1>4, <2>3, MoveSound
  <2> QED BY <2>2, <2>4 DEF r
<1>5. ASSUME NEW n \in FDs, NEW text \in Texts, m.fd[n] # Null,
             m.fd[n].offset + Len(text) <= MaxSize
      PROVE  Sound(MyWrite(m, n, text))
  <2> DEFINE what == [i \in Nat |-> text[i - m.fd[n].offset + 1]]
  <2>1. m.fd[n].offset \in Nat
    BY <1>5, OpenOFT DEF Sound
  <2>2. text \in Seq(Bytes) /\ text \in Seq(Bytes \cup {0})
        /\ \A i \in 1 .. Len(text) : text[i] \in Bytes
    BY InputsAssumption
  <2>3. ASSUME NEW i \in 1 .. Len(text) PROVE what[m.fd[n].offset + i - 1] = text[i]
    <3>1. m.fd[n].offset + i - 1 \in Nat /\ (m.fd[n].offset + i - 1) - m.fd[n].offset + 1 = i
      BY <2>1, <2>2
    <3> QED BY <3>1
  <2> HIDE DEF what
  <2> QED BY <1>5, <2>2, <2>3, MyWriteMakes
<1>6. ASSUME NEW f \in Files PROVE Sound(MyCat(m, f))
  <2> DEFINE r == MyCat(m, f)
  <2>1. PICK o : /\ Opened(m, f, RD, o)
                 /\ \/ o.n = -1 /\ r = o.m
                    \/ o.n = NFD /\ r = Fail(o.m, "undefined")
                    \/ o.n \in FDs /\ o.m.fd[o.n] # Null /\ Shut(o.m, o.n, r)
    BY MyCatMakes
  <2> HIDE DEF r
  <2> QED BY <2>1, FailSound DEF Opened, Shut, r
<1>7. ASSUME NEW f \in Files, NEW g \in Files PROVE Sound(MyCp(m, f, g))
  <2> DEFINE r == MyCp(m, f, g)
  <2>1. CpEnds(m, f, g, r)
    BY MyCpMakes
  <2> HIDE DEF r
  <2>2. PICK o : /\ Opened(m, f, RD, o)
                 /\ \/ o.n = -1 /\ r = o.m
                    \/ /\ o.n # -1
                       /\ \E q : /\ Opened(Iget(o.m, g), g, RD, q)
                                 /\ \/ q.n = -1 /\ r = q.m
                                    \/ q.n # -1 /\ NFD \in {o.n, q.n} /\ r = Fail(q.m, "undefined")
                                    \/ CpCopies(f, g, o, q, r)
    BY <2>1 DEF CpEnds
  <2>3. CASE o.n = -1 /\ r = o.m
    BY <2>2, <2>3 DEF Opened, r
  <2>4. CASE \E q : /\ Opened(Iget(o.m, g), g, RD, q)
                    /\ \/ q.n = -1 /\ r = q.m
                       \/ q.n # -1 /\ NFD \in {o.n, q.n} /\ r = Fail(q.m, "undefined")
                       \/ CpCopies(f, g, o, q, r)
    <3>1. PICK q : /\ Opened(Iget(o.m, g), g, RD, q)
                   /\ \/ q.n = -1 /\ r = q.m
                      \/ q.n # -1 /\ NFD \in {o.n, q.n} /\ r = Fail(q.m, "undefined")
                      \/ CpCopies(f, g, o, q, r)
      BY <2>4
    <3>2. Sound(q.m)
      BY <3>1 DEF Opened
    <3>3. CpCopies(f, g, o, q, r) => Sound(r)
      BY DEF CpCopies, Shut
    <3> QED BY <3>1, <3>2, <3>3, FailSound DEF r
  <2> QED BY <2>2, <2>3, <2>4
<1>8. Sound(QuitTo(m)) /\ Sound(Fail(m, "down"))
  BY QuitSound, FailSound
<1> QED BY <1>1, <1>2, <1>3, <1>4, <1>5, <1>6, <1>7, <1>8

\* Every step keeps the invariant.
LEMMA StepInv == Inv /\ [Next]_vars => Inv'
<1> SUFFICES ASSUME Inv, [Next]_vars PROVE Inv'
  OBVIOUS
<1> DEFINE m == Now
<1>1. Sound(m) /\ m.fd = fd
  BY NowParts DEF Inv
<1>2. Seeks \subseteq Nat /\ Counts \subseteq Nat
  BY InputsAssumption
<1> HIDE DEF m
<1>3. /\ \A f \in Files, mode \in Modes : Sound(OpenFile(m, f, mode).m)
      /\ \A n \in FDs : Sound(CloseFile(m, n))
      /\ \A f \in Files, pos \in Nat : Sound(MyLseek(m, f, pos))
      /\ \A n \in FDs, nbytes \in Nat : m.fd[n] # Null => Sound(MyRead(m, n, nbytes).m)
      /\ \A n \in FDs, text \in Texts :
            m.fd[n] # Null /\ m.fd[n].offset + Len(text) <= MaxSize =>
               Sound(MyWrite(m, n, text))
      /\ \A f \in Files : Sound(MyCat(m, f))
      /\ \A f, g \in Files : Sound(MyCp(m, f, g))
      /\ Sound(QuitTo(m)) /\ Sound(Fail(m, "down"))
  BY <1>1, CommandSound
<1>4. ASSUME NEW f \in Files, NEW mode \in Modes, Open(f, mode) PROVE Inv'
  <2>1. Leaves(OpenFile(m, f, mode).m)
    BY <1>4 DEF Open, m
  <2> QED BY <1>3, <2>1, LeavesInv
<1>5. ASSUME NEW n \in FDs, Close(n) PROVE Inv'
  <2>1. Leaves(CloseFile(m, n))
    BY <1>5 DEF Close, m
  <2> QED BY <1>3, <2>1, LeavesInv
<1>6. ASSUME NEW f \in Files, NEW pos \in Seeks, Lseek(f, pos) PROVE Inv'
  <2>1. Leaves(MyLseek(m, f, pos))
    BY <1>6 DEF Lseek, m
  <2> QED BY <1>2, <1>3, <2>1, LeavesInv
<1>7. ASSUME NEW n \in FDs, NEW nbytes \in Counts, Read(n, nbytes) PROVE Inv'
  <2>1. Leaves(MyRead(m, n, nbytes).m) /\ m.fd[n] # Null
    BY <1>1, <1>7 DEF Read, m
  <2> QED BY <1>2, <1>3, <2>1, LeavesInv
<1>8. ASSUME NEW n \in FDs, NEW text \in Texts, Write(n, text) PROVE Inv'
  <2>1. Leaves(MyWrite(m, n, text)) /\ m.fd[n] # Null
        /\ m.fd[n].offset + Len(text) <= MaxSize
    BY <1>1, <1>8 DEF Write, m
  <2> QED BY <1>3, <2>1, LeavesInv
<1>9. ASSUME NEW f \in Files, Cat(f) PROVE Inv'
  <2>1. Leaves(MyCat(m, f))
    BY <1>9 DEF Cat, m
  <2> QED BY <1>3, <2>1, LeavesInv
<1>10. ASSUME NEW f \in Files, NEW g \in Files, Cp(f, g) PROVE Inv'
  <2>1. Leaves(MyCp(m, f, g))
    BY <1>10 DEF Cp, m
  <2> QED BY <1>3, <2>1, LeavesInv
<1>11. CASE Quit
  <2>1. Leaves(QuitTo(m))
    BY <1>11 DEF Quit, QuitTo, Saved, Now, m
  <2> QED BY <1>3, <2>1, LeavesInv
<1>12. CASE Kill
  <2>1. Leaves(Fail(m, "down"))
    BY <1>12 DEF Kill, m
  <2> QED BY <1>3, <2>1, LeavesInv
<1>13. CASE UNCHANGED vars
  <2>1. Now' = Now /\ bmap' = bmap /\ st' = st
    BY <1>13 DEF vars, Now
  <2> QED BY <2>1 DEF Inv
<1> QED BY <1>4, <1>5, <1>6, <1>7, <1>8, <1>9, <1>10, <1>11, <1>12, <1>13 DEF Next

\* Every reachable machine is sound: locks, offsets, block pointers and bytes.
THEOREM FilesInvariant == Spec => []Inv
<1>1. Init => Inv
  BY InitInv
<1>2. Inv /\ [Next]_vars => Inv'
  BY StepInv
<1> QED BY <1>1, <1>2, PTL DEF Spec

-----------------------------------------------------------------------------
(* What holds of a sound machine.                                          *)

\* Sizes, offsets and pointers stay in range: the size grows with the offset of
\* a write, a pointer is a number that balloc() gave.
THEOREM FilesTypes == Spec => []TypeOK
<1>1. Inv => TypeOK
  <2> SUFFICES ASSUME Inv PROVE TypeOK
    OBVIOUS
  <2>1. Now \in Machines /\ st \in {"up", "undefined"}
    BY DEF Inv, Sound
  <2>2. /\ core \in [Files -> MINODEs] /\ itable \in [Files -> INODEs]
        /\ data \in [0 .. NBLOCKS -> [0 .. BLKSIZE - 1 -> Bytes \cup {0}]]
        /\ ptr \in [0 .. NBLOCKS -> Rows] /\ bmap \subseteq Blks
        /\ fd \in [FDs -> OFTs \cup {Null}]
    BY <2>1, NowParts, Parts
  <2> QED BY <2>1, <2>2 DEF TypeOK, Rows, OFTs
<1> QED BY <1>1, FilesInvariant, PTL

\* An open file is locked and held, and no second descriptor refers to it: the
\* lock that open_file() tests is set and taken off with the descriptor, also on
\* the paths that leave a reference or a lock behind.
THEOREM LockGuards == Spec => []LockGuardsOpen
<1>1. Inv => LockGuardsOpen
  <2> SUFFICES ASSUME Inv PROVE LockGuardsOpen
    OBVIOUS
  <2>1. Locks(Now) /\ Now \in Machines
    BY DEF Inv, Sound
  <2>2. \A n \in FDs : fd[n] # Null => fd[n].file \in Files
    BY <2>1, NowParts, OpenOFT
  <2> QED BY <2>1, <2>2, NowParts DEF Locks, LockGuardsOpen
<1> QED BY <1>1, FilesInvariant, PTL

\* A piece of a text of bytes is the part of its sequence.
LEMMA PieceOfText ==
    ASSUME NEW m, NEW inode, inode.size \in Nat, NEW at \in Nat, NEW n \in Nat, at + n <= inode.size
    PROVE  Piece(m, inode, at, n) = SubSeq(Contents(m, inode), at + 1, at + n)
<1> DEFINE text == Contents(m, inode)
           S == {ByteAt(m, inode, i - 1) : i \in 1 .. inode.size}
           w == SubSeq(text, at + 1, at + n)
<1>1. \A i \in 1 .. inode.size : text[i] = ByteAt(m, inode, i - 1) /\ text[i] \in S
  BY DEF Contents
<1>2. ASSUME NEW i \in at + 1 .. at + n PROVE text[i] \in S
  <2>1. i \in 1 .. inode.size
    OBVIOUS
  <2> HIDE DEF text, S
  <2> QED BY <1>1, <2>1
<1> HIDE DEF text, S
<1>3. /\ w \in Seq(S) /\ Len(w) = n
      /\ \A i \in 1 .. n : w[i] = text[at + 1 + i - 1]
  <2>1. at + 1 \in Int /\ at + n \in Int /\ (at + n) - (at + 1) + 1 = n
        /\ (at + 1 <= at + n => (at + n) - (at + 1) + 1 = n) /\ (~ (at + 1 <= at + n) => n = 0)
    OBVIOUS
  <2> QED BY <1>2, <2>1, SubSeqProperties
<1> HIDE DEF w
<1>4. ASSUME NEW i \in 1 .. n PROVE w[i] = ByteAt(m, inode, at + i - 1)
  <2>1. at + i \in 1 .. inode.size /\ at + 1 + i - 1 = at + i
    OBVIOUS
  <2>2. w[i] = text[at + i]
    BY <1>3, <2>1
  <2> QED BY <1>1, <2>1, <2>2
<1>5. w = [i \in 1 .. n |-> w[i]]
  BY <1>3, LenProperties
<1>6. w = Piece(m, inode, at, n)
  BY <1>4, <1>5 DEF Piece
<1> QED BY <1>6 DEF w, text

\* myRead() delivers what is left of the file, up to the number asked for: no
\* block of the file begins with a 0 that it would take for an empty file, and no
\* offset is behind the end.  What stays in one block is in buf[], byte by byte.
THEOREM DeliveringReads == Spec => []ReadsDeliver
<1>1. Inv => ReadsDeliver
  <2> SUFFICES ASSUME Inv, NEW n \in FDs, NEW nbytes \in Counts, fd[n] # Null
               PROVE  /\ Due(n, nbytes) >= 0
                      /\ MyRead(Now, n, nbytes).n = Due(n, nbytes)
                      /\ (fd[n].offset % BLKSIZE) + Due(n, nbytes) <= BLKSIZE =>
                              MyRead(Now, n, nbytes).buf = Wanted(n, nbytes)
    BY DEF ReadsDeliver
  <2> DEFINE m == Now
             f == m.fd[n].file
             at == m.fd[n].offset
             left == Size(m, f) - at
             due == IF nbytes < left THEN nbytes ELSE left
             inode == Inode(m, f)
             r == MyRead(m, n, nbytes)
  <2>1. Sound(m) /\ m.bmap # Blks /\ m.fd = fd /\ m \in Machines
    BY NowParts DEF Inv, Sound
  <2>2. nbytes \in Nat
    BY InputsAssumption
  <2>3. Due(n, nbytes) = due /\ Wanted(n, nbytes) = SubSeq(Holds[f], at + 1, at + due)
    BY <2>1 DEF Due, Wanted
  <2>4. /\ m.core = core
        /\ \A g \in Files : core[g].refCount > 0 => Holds[g] = Contents(m, core[g].INODE)
    BY NowParts DEF Holds, Current
  <2> HIDE DEF m, r
  <2>5. /\ at \in Nat /\ at <= Size(m, f) /\ f \in Files /\ Size(m, f) \in Nat
        /\ m.core[f].refCount > 0
    <3>1. m.fd[n] # Null /\ at <= Size(m, f) /\ f \in Files /\ at \in Nat /\ m.core[f].lock
      BY <2>1, OpenOFT DEF Sound, Offsets, Locks
    <3>2. Size(m, f) \in 0 .. MaxSize
      BY <2>1, <3>1, MinodeParts
    <3>3. m.core[f].refCount > 0
      BY <2>1, <3>1 DEF Sound, Locks
    <3> QED BY <3>1, <3>2, <3>3, Constants
  <2>6. due \in Nat /\ at + due <= Size(m, f)
    <3> HIDE DEF at, f
    <3> QED BY <2>2, <2>5
  <2>7. Holds[f] = Contents(m, inode)
    BY <2>4, <2>5 DEF Inode
  <2>8. /\ m.bmap # Blks => r.n = due
        /\ r.n >= 0 /\ (at % BLKSIZE) + r.n <= BLKSIZE => r.buf = Piece(m, inode, at, r.n)
    BY <2>1, <2>2, MyReadMakes DEF r
  <2>9. Piece(m, inode, at, due) = SubSeq(Contents(m, inode), at + 1, at + due)
    <3>1. inode.size = Size(m, f)
      BY DEF Size
    <3> HIDE DEF at, due, inode, f
    <3> QED BY <2>5, <2>6, <3>1, PieceOfText
  <2> HIDE DEF due, at, inode, f
  <2>10. (at % BLKSIZE) + due <= BLKSIZE => r.buf = Wanted(n, nbytes)
    <3> SUFFICES ASSUME (at % BLKSIZE) + due <= BLKSIZE PROVE r.buf = Wanted(n, nbytes)
      OBVIOUS
    <3>1. r.n = due /\ r.n >= 0
      BY <2>1, <2>6, <2>8
    <3>2. r.buf = Piece(m, inode, at, due)
      BY <2>8, <3>1
    <3>3. Wanted(n, nbytes) = SubSeq(Contents(m, inode), at + 1, at + due)
      BY <2>3, <2>7
    <3> QED BY <2>9, <3>2, <3>3
  <2> QED BY <2>1, <2>3, <2>6, <2>8, <2>10 DEF m, r, at
<1> QED BY <1>1, FilesInvariant, PTL

\* A pointer of a file is one of the inode, or one of a block of pointers.
LEMMA PointersMake ==
    ASSUME Now \in Machines, Private(Now), NEW f \in Files, NEW x \in Copies(Now, f),
           NEW p \in Pointers(f, x)
    PROVE  \/ \E i \in 1 .. DIND : /\ p = [at |-> <<f, i>>, to |-> x.block[i]]
                                   /\ x.block[i] # 0
           \/ \E b \in PtrBlocks(Now), k \in 0 .. NIND - 1 :
                 p = [at |-> <<b, k>>, to |-> ptr[b][k]] /\ ptr[b][k] # 0
<1> DEFINE t == x.block
           top == Row(f, t)
           ofInd == Under({q \in top : q.at[2] = IND})
           ofDind == Under({q \in top : q.at[2] = DIND})
<1>1. /\ t \in Tables(Now, f) /\ t \in [1 .. DIND -> 0 .. NBLOCKS]
      /\ ptr \in [0 .. NBLOCKS -> Rows] /\ Now.ptr = ptr
  <2>1. t \in Tables(Now, f)
    BY DEF Copies, Tables
  <2> QED BY <2>1, TablesType, NowParts, Parts
<1>2. ASSUME NEW q \in top
      PROVE  \E i \in 1 .. DIND : /\ q.at = <<f, i>> /\ q.at[2] = i /\ q.to = t[i]
                                  /\ q = [at |-> <<f, i>>, to |-> t[i]] /\ t[i] # 0
  <2>1. PICK i \in {k \in DOMAIN t : t[k] # 0} : q = [at |-> <<f, i>>, to |-> t[i]]
    BY DEF Row
  <2> QED BY <1>1, <2>1
<1>3. ASSUME NEW b \in PtrBlocks(Now), NEW q \in Row(b, ptr[b])
      PROVE  \E k \in 0 .. NIND - 1 : /\ q.to = ptr[b][k] /\ ptr[b][k] # 0
                                      /\ q = [at |-> <<b, k>>, to |-> ptr[b][k]]
  <2>1. PICK k \in {k \in DOMAIN ptr[b] : ptr[b][k] # 0} : q = [at |-> <<b, k>>, to |-> ptr[b][k]]
    BY DEF Row
  <2>2. b \in 0 .. NBLOCKS
    BY Constants DEF PtrBlocks, Blks
  <2>3. DOMAIN ptr[b] = 0 .. NIND - 1
    BY <1>1, <2>2 DEF Rows
  <2> QED BY <2>1, <2>3
<1>4. ASSUME NEW i \in {IND, DIND}, t[i] # 0
      PROVE  t[i] \in PtrBlocks(Now)
  <2>1. t[i] \in Blks
    BY <1>1, <1>4, Levels, Constants DEF Blks
  <2>2. LeadsTo(Now, t, t[i])
    BY DEF LeadsTo
  <2> QED BY <1>1, <2>1, <2>2 DEF PtrBlocks
<1>5. ASSUME NEW j \in {IND, DIND}, NEW q \in Under({q \in top : q.at[2] = j})
      PROVE  /\ t[j] # 0 /\ t[j] \in PtrBlocks(Now)
             /\ \E k \in 0 .. NIND - 1 : /\ q.to = ptr[t[j]][k] /\ ptr[t[j]][k] # 0
                                         /\ q = [at |-> <<t[j], k>>, to |-> ptr[t[j]][k]]
  <2>1. PICK o \in {q1 \in top : q1.at[2] = j} : q \in Row(o.to, ptr[o.to])
    BY DEF Under
  <2>2. o.to = t[j] /\ t[j] # 0
    BY <1>2, <2>1
  <2>3. t[j] \in PtrBlocks(Now)
    BY <1>4, <2>2
  <2> QED BY <1>3, <2>1, <2>2, <2>3
<1>6. p \in top \/ p \in ofInd \/ p \in ofDind \/ p \in Under(ofDind)
  BY DEF Pointers
<1>7. CASE p \in top
  BY <1>2, <1>7
<1>8. CASE p \in ofInd
  BY <1>5, <1>8
<1>9. CASE p \in ofDind
  BY <1>5, <1>9
<1>10. CASE p \in Under(ofDind)
  <2>1. PICK o \in ofDind : p \in Row(o.to, ptr[o.to])
    BY <1>10 DEF Under
  <2>2. PICK k \in 0 .. NIND - 1 : o.to = ptr[t[DIND]][k] /\ ptr[t[DIND]][k] # 0 /\ t[DIND] # 0
    BY <1>5, <2>1
  <2>3. o.to \in PtrBlocks(Now)
    <3>1. t[DIND] \in 0 .. NBLOCKS
      BY <1>1, Levels
    <3>2. o.to \in Blks
      <4>1. ptr[t[DIND]] \in Rows
        BY <1>1, <3>1
      <4>2. o.to \in 0 .. NBLOCKS /\ o.to # 0
        BY <2>2, <4>1 DEF Rows
      <4> QED BY <4>2, Constants DEF Blks
    <3>3. LeadsTo(Now, t, o.to)
      BY <1>1, <2>2 DEF LeadsTo
    <3> QED BY <1>1, <3>2, <3>3 DEF PtrBlocks
  <2> QED BY <1>3, <2>1, <2>3
<1> QED BY <1>6, <1>7, <1>8, <1>9, <1>10

\* No block has two pointers to it, in the inodes in core, in those on disk and
\* in the indirect blocks of both, and each is marked in the bitmap: mywrite()
\* takes clear blocks only, and truncation, which frees none, leaves the pointers.
THEOREM PrivateBlocks == Spec => []BlocksPrivate
<1>1. Inv => BlocksPrivate
  <2> SUFFICES ASSUME Inv PROVE BlocksPrivate
    OBVIOUS
  <2> DEFINE all == UNION {Pointers(f, Current(f)) \cup Pointers(f, itable[f]) : f \in Files}
  <2>1. Now \in Machines /\ Private(Now) /\ Now.bmap = bmap /\ Now.ptr = ptr
        /\ Now.core = core /\ Now.itable = itable
    BY NowParts DEF Inv, Sound, Blocks
  <2>2. ASSUME NEW p \in all
        PROVE  \/ \E f \in Files : \E t \in Tables(Now, f) : \E i \in 1 .. DIND :
                     p = [at |-> <<f, i>>, to |-> t[i]] /\ t[i] # 0
               \/ \E b \in PtrBlocks(Now), k \in 0 .. NIND - 1 :
                     p = [at |-> <<b, k>>, to |-> ptr[b][k]] /\ ptr[b][k] # 0
    <3>1. PICK f \in Files : p \in Pointers(f, Current(f)) \cup Pointers(f, itable[f])
      OBVIOUS
    <3>2. Current(f) \in Copies(Now, f) /\ itable[f] \in Copies(Now, f)
      BY <2>1 DEF Current, Copies
    <3>3. PICK x \in Copies(Now, f) : p \in Pointers(f, x)
      BY <3>1, <3>2
    <3>4. x.block \in Tables(Now, f)
      BY DEF Copies, Tables
    <3> HIDE DEF all
    <3> QED BY <2>1, <3>3, <3>4, PointersMake
  <2> HIDE DEF all
  <2>3. ASSUME NEW p \in all, NEW q \in all, p.to = q.to
        PROVE  p = q
    <3>1. ASSUME NEW f \in Files, NEW t \in Tables(Now, f), NEW i \in 1 .. DIND,
                 NEW g \in Files, NEW u \in Tables(Now, g), NEW j \in 1 .. DIND,
                 p = [at |-> <<f, i>>, to |-> t[i]], t[i] # 0,
                 q = [at |-> <<g, j>>, to |-> u[j]]
          PROVE  p = q
      <4>1. t[i] = u[j]
        BY <2>3, <3>1
      <4>2. f = g /\ i = j
        BY <2>1, <3>1, <4>1 DEF Private, TopsApart
      <4> QED BY <3>1, <4>1, <4>2
    <3>2. ASSUME NEW b \in PtrBlocks(Now), NEW k \in 0 .. NIND - 1,
                 NEW c \in PtrBlocks(Now), NEW l \in 0 .. NIND - 1,
                 p = [at |-> <<b, k>>, to |-> ptr[b][k]], ptr[b][k] # 0,
                 q = [at |-> <<c, l>>, to |-> ptr[c][l]]
          PROVE  p = q
      <4>1. ptr[b][k] = ptr[c][l]
        BY <2>3, <3>2
      <4>2. b = c /\ k = l
        BY <2>1, <3>2, <4>1 DEF Private, RowsApart
      <4> QED BY <3>2, <4>1, <4>2
    <3>3. ASSUME NEW f \in Files, NEW t \in Tables(Now, f), NEW i \in 1 .. DIND,
                 NEW c \in PtrBlocks(Now), NEW l \in 0 .. NIND - 1,
                 t[i] # 0, t[i] = ptr[c][l]
          PROVE  FALSE
      BY <2>1, <3>3 DEF Private, TopsNotInRows
    <3>4. CASE \E f \in Files : \E t \in Tables(Now, f) : \E i \in 1 .. DIND :
                     p = [at |-> <<f, i>>, to |-> t[i]] /\ t[i] # 0
      <4>1. PICK f \in Files : \E t \in Tables(Now, f) : \E i \in 1 .. DIND :
                     p = [at |-> <<f, i>>, to |-> t[i]] /\ t[i] # 0
        BY <3>4
      <4>2. PICK t \in Tables(Now, f) : \E i \in 1 .. DIND :
                     p = [at |-> <<f, i>>, to |-> t[i]] /\ t[i] # 0
        BY <4>1
      <4>3. PICK i \in 1 .. DIND : p = [at |-> <<f, i>>, to |-> t[i]] /\ t[i] # 0
        BY <4>2
      <4>4. p.to = t[i]
        BY <4>3
      <4>5. CASE \E g \in Files : \E u \in Tables(Now, g) : \E j \in 1 .. DIND :
                     q = [at |-> <<g, j>>, to |-> u[j]] /\ u[j] # 0
        BY <3>1, <4>3, <4>5
      <4>6. CASE \E c \in PtrBlocks(Now), l \in 0 .. NIND - 1 :
                     q = [at |-> <<c, l>>, to |-> ptr[c][l]] /\ ptr[c][l] # 0
        <5>1. PICK c \in PtrBlocks(Now), l \in 0 .. NIND - 1 : q.to = ptr[c][l]
          BY <4>6
        <5> QED BY <2>3, <3>3, <4>3, <4>4, <5>1
      <4> QED BY <2>2, <4>5, <4>6
    <3>5. CASE \E b \in PtrBlocks(Now), k \in 0 .. NIND - 1 :
                     p = [at |-> <<b, k>>, to |-> ptr[b][k]] /\ ptr[b][k] # 0
      <4>1. PICK b \in PtrBlocks(Now), k \in 0 .. NIND - 1 :
                     p = [at |-> <<b, k>>, to |-> ptr[b][k]] /\ ptr[b][k] # 0
        BY <3>5
      <4>2. p.to = ptr[b][k]
        BY <4>1
      <4>3. CASE \E g \in Files : \E u \in Tables(Now, g) : \E j \in 1 .. DIND :
                     q = [at |-> <<g, j>>, to |-> u[j]] /\ u[j] # 0
        <5>1. PICK g \in Files : \E u \in Tables(Now, g) : \E j \in 1 .. DIND :
                     q = [at |-> <<g, j>>, to |-> u[j]] /\ u[j] # 0
          BY <4>3
        <5>2. PICK u \in Tables(Now, g) : \E j \in 1 .. DIND : q.to = u[j] /\ u[j] # 0
          BY <5>1
        <5>3. PICK j \in 1 .. DIND : q.to = u[j] /\ u[j] # 0
          BY <5>2
        <5> QED BY <2>3, <3>3, <4>1, <4>2, <5>3
      <4>4. CASE \E c \in PtrBlocks(Now), l \in 0 .. NIND - 1 :
                     q = [at |-> <<c, l>>, to |-> ptr[c][l]] /\ ptr[c][l] # 0
        BY <3>2, <4>1, <4>4
      <4> QED BY <2>2, <4>3, <4>4
    <3> QED BY <2>2, <3>4, <3>5
  <2>4. ASSUME NEW p \in all PROVE p.to \in bmap
    <3>1. CASE \E f \in Files : \E t \in Tables(Now, f) : \E i \in 1 .. DIND :
                     p = [at |-> <<f, i>>, to |-> t[i]] /\ t[i] # 0
      <4>1. PICK f \in Files : \E t \in Tables(Now, f) : \E i \in 1 .. DIND :
                     p.to = t[i] /\ t[i] # 0
        BY <3>1
      <4> QED BY <2>1, <4>1 DEF Private, TopsMarked
    <3>2. CASE \E b \in PtrBlocks(Now), k \in 0 .. NIND - 1 :
                     p = [at |-> <<b, k>>, to |-> ptr[b][k]] /\ ptr[b][k] # 0
      <4>1. PICK b \in PtrBlocks(Now), k \in 0 .. NIND - 1 :
                     p.to = ptr[b][k] /\ ptr[b][k] # 0
        BY <3>2
      <4> QED BY <2>1, <4>1 DEF Private, RowsMarked
    <3> QED BY <2>2, <3>1, <3>2
  <2> QED BY <2>3, <2>4 DEF BlocksPrivate, all
<1> QED BY <1>1, FilesInvariant, PTL

-----------------------------------------------------------------------------
(* OpenFiles implements ByteFiles: through all levels of block pointers,   *)
(* reference counts and locks a file is a sequence of bytes, and every     *)
(* command does one step of ByteFiles or none.                             *)

-----------------------------------------------------------------------------
(* What a machine holds, saves and has open.                               *)

HoldsOf(m) == [f \in Files |-> Contents(m, Cur(m, f))]
SavesOf(m) == [f \in Files |-> Contents(m, m.itable[f])]
OpensOf(m, f) == {n \in FDs : m.fd[n].file = f}
AtOf(m) == [f \in Files |-> IF OpensOf(m, f) = {} THEN -1
                            ELSE m.fd[LeastOf(OpensOf(m, f))].offset]

\* The mapping of ByteFiles is that of the machine now.
LEMMA Views ==
    /\ Holds = HoldsOf(Now) /\ Saves = SavesOf(Now) /\ At = AtOf(Now)
    /\ Holds' = HoldsOf(Now') /\ Saves' = SavesOf(Now') /\ At' = AtOf(Now')
<1>1. Holds = HoldsOf(Now)
  <2>1. \A f : Current(f) = Cur(Now, f)
    BY NowParts DEF Current, Cur
  <2> QED BY <2>1 DEF Holds, HoldsOf
<1>2. Saves = SavesOf(Now)
  BY NowParts DEF Saves, SavesOf
<1>3. At = AtOf(Now)
  <2>1. \A f : Opens(f) = OpensOf(Now, f)
    BY NowParts DEF Opens, OpensOf
  <2> QED BY <2>1, NowParts DEF At, AtOf
<1> DEFINE n == Now'
<1>4. /\ n.core = core' /\ n.itable = itable' /\ n.data = data' /\ n.ptr = ptr'
      /\ n.bmap = bmap' /\ n.fd = fd' /\ n.st = st'
  BY DEF Now
<1>5. Holds' = [f \in Files |-> Contents(Now', IF core'[f].refCount > 0 THEN core'[f].INODE
                                               ELSE itable'[f])]
  BY DEF Holds, Current
<1>6. Saves' = [f \in Files |-> Contents(Now', itable'[f])]
  BY DEF Saves
<1>7. At' = [f \in Files |-> IF {k \in FDs : fd'[k].file = f} = {} THEN -1
                             ELSE fd'[LeastOf({k \in FDs : fd'[k].file = f})].offset]
  BY DEF At, Opens
<1> HIDE DEF n
<1>8. Holds' = HoldsOf(Now')
  BY <1>4, <1>5 DEF HoldsOf, Cur, n
<1>9. Saves' = SavesOf(Now')
  BY <1>4, <1>6 DEF SavesOf, n
<1>10. At' = AtOf(Now')
  BY <1>4, <1>7 DEF AtOf, OpensOf, n
<1> QED BY <1>1, <1>2, <1>3, <1>8, <1>9, <1>10

\* A file that is open is so at the offset of its descriptor.
LEMMA AtOpen ==
    ASSUME NEW m, Sound(m), NEW n \in FDs, m.fd[n] # Null
    PROVE  AtOf(m)[m.fd[n].file] = m.fd[n].offset
<1> DEFINE f == m.fd[n].file
<1>1. m \in Machines /\ f \in Files
  BY OpenOFT DEF Sound
<1>2. OpensOf(m, f) = {n}
  <2>1. \A k \in FDs \ {n} : m.fd[k].file # f
    BY DEF Sound, Locks
  <2> QED BY <2>1 DEF OpensOf
<1>3. LeastOf({n}) = n
  <2>1. n \in Nat
    BY Constants DEF FDs
  <2>2. LeastOf({n}) \in {n}
    BY <2>1, LeastExists
  <2> QED BY <2>2
<1> QED BY <1>1, <1>2, <1>3 DEF AtOf

\* A file with no descriptor is at no place.
LEMMA AtClosed ==
    ASSUME NEW m, NEW f \in Files, NotOpen(m, f)
    PROVE  AtOf(m)[f] = -1
BY DEF AtOf, OpensOf, NotOpen

\* The offsets are those of the descriptors.
LEMMA AtSame ==
    ASSUME NEW m, NEW r, r.fd = m.fd
    PROVE  AtOf(r) = AtOf(m)
BY DEF AtOf, OpensOf

\* A descriptor of one file that moves leaves the places of the others.
LEMMA AtOthers ==
    ASSUME NEW m, NEW r, NEW n \in FDs, NEW f \in Files,
           \A k \in FDs \ {n} : r.fd[k] = m.fd[k],
           m.fd[n].file \in {f, NoFile}, r.fd[n].file \in {f, NoFile}
    PROVE  \A g \in Files \ {f} : AtOf(r)[g] = AtOf(m)[g]
<1> SUFFICES ASSUME NEW g \in Files \ {f} PROVE AtOf(r)[g] = AtOf(m)[g]
  OBVIOUS
<1>1. NoFile \notin Files
  BY FilesAssumption DEF NoFile
<1>2. OpensOf(r, g) = OpensOf(m, g) /\ n \notin OpensOf(m, g)
  BY <1>1 DEF OpensOf
<1>3. CASE OpensOf(m, g) = {}
  BY <1>2, <1>3 DEF AtOf
<1>4. CASE OpensOf(m, g) # {}
  <2> DEFINE k == LeastOf(OpensOf(m, g))
  <2>1. k \in OpensOf(m, g)
    <3>1. OpensOf(m, g) \subseteq Nat
      BY Constants DEF OpensOf, FDs
    <3> QED BY <1>4, <3>1, LeastExists
  <2> HIDE DEF k
  <2>2. r.fd[k] = m.fd[k]
    BY <1>2, <2>1 DEF OpensOf
  <2> QED BY <1>2, <1>4, <2>2 DEF AtOf, k
<1> QED BY <1>3, <1>4

Moves(m, r, n, f, at) ==
    /\ n \in FDs /\ f \in Files
    /\ r.fd[n].file = f
    /\ m.fd[n].file \in {f, NoFile}
    /\ \A k \in FDs \ {n} : r.fd[k] = m.fd[k]
    /\ \A k \in FDs \ {n} : m.fd[k].file # f
    /\ at = [AtOf(m) EXCEPT ![f] = r.fd[n].offset]

\* The places of the files after a move are those before with that of one file replaced.
LEMMA AtMoves ==
    ASSUME NEW m, NEW r, NEW n, NEW f, NEW at, Moves(m, r, n, f, at)
    PROVE  AtOf(r) = at
<1>0. /\ n \in FDs /\ f \in Files
      /\ r.fd[n].file = f
      /\ m.fd[n].file \in {f, NoFile}
      /\ \A k \in FDs \ {n} : r.fd[k] = m.fd[k]
      /\ \A k \in FDs \ {n} : m.fd[k].file # f
      /\ at = [AtOf(m) EXCEPT ![f] = r.fd[n].offset]
  BY DEF Moves
<1>1. OpensOf(r, f) = {n}
  BY <1>0 DEF OpensOf
<1>2. LeastOf({n}) = n
  <2>1. n \in Nat
    BY <1>0, Constants DEF FDs
  <2>2. LeastOf({n}) \in {n}
    BY <2>1, LeastExists
  <2> QED BY <2>2
<1>3. AtOf(r)[f] = r.fd[n].offset
  BY <1>0, <1>1, <1>2 DEF AtOf
<1>4. \A g \in Files \ {f} : AtOf(r)[g] = AtOf(m)[g]
  <2>1. r.fd[n].file \in {f, NoFile} /\ m.fd[n].file \in {f, NoFile}
    BY <1>0
  <2>2. \A k \in FDs \ {n} : r.fd[k] = m.fd[k]
    BY <1>0
  <2>3. n \in FDs /\ f \in Files
    BY <1>0
  <2> QED BY ONLY <2>1, <2>2, <2>3, AtOthers
<1>5. AtOf(m) = [g \in Files |-> AtOf(m)[g]] /\ AtOf(r) = [g \in Files |-> AtOf(r)[g]]
  BY DEF AtOf
<1> QED BY <1>0, <1>3, <1>4, <1>5

\* A descriptor that is closed leaves its file at no place.
LEMMA AtCloses ==
    ASSUME NEW m, NEW r, NEW n \in FDs, NEW f \in Files, r.fd[n] = Null,
           \A k \in FDs \ {n} : r.fd[k] = m.fd[k],
           \A k \in FDs \ {n} : m.fd[k].file # f, m.fd[n].file = f,
           NEW at, at = [AtOf(m) EXCEPT ![f] = -1]
    PROVE  AtOf(r) = at
<1>1. r.fd[n] = Null /\ \A k \in FDs \ {n} : r.fd[k] = m.fd[k]
  OBVIOUS
<1>2. Null.file = NoFile /\ NoFile # f
  BY FilesAssumption DEF Null, NoFile
<1>3. AtOf(r)[f] = -1
  <2>1. NotOpen(r, f)
    BY <1>1, <1>2 DEF NotOpen
  <2> QED BY <2>1, AtClosed
<1>4. \A g \in Files \ {f} : AtOf(r)[g] = AtOf(m)[g]
  <2>1. r.fd[n].file \in {f, NoFile} /\ m.fd[n].file \in {f, NoFile}
    BY <1>1, <1>2
  <2>2. \A k \in FDs \ {n} : r.fd[k] = m.fd[k]
    BY <1>1
  <2> QED BY ONLY <2>1, <2>2, AtOthers, n \in FDs, f \in Files
<1>5. AtOf(m) = [g \in Files |-> AtOf(m)[g]] /\ AtOf(r) = [g \in Files |-> AtOf(r)[g]]
  BY DEF AtOf
<1> QED BY <1>3, <1>4, <1>5

\* The bytes of an inode are a sequence, and its blocks and its size make it.
LEMMA ContentsMake ==
    ASSUME NEW m \in Machines, NEW x \in INODEs
    PROVE  /\ Contents(m, x) \in Seq(Bytes \cup {0}) /\ Len(Contents(m, x)) = x.size
           /\ x.size \in 0 .. MaxSize /\ x.size \in Nat
           /\ \A i \in 1 .. x.size : Contents(m, x)[i] = ByteAt(m, x, i - 1)
<1>1. x.size \in 0 .. MaxSize /\ x.size \in Nat
  BY Constants DEF INODEs
<1>2. ASSUME NEW i \in 1 .. x.size PROVE ByteAt(m, x, i - 1) \in Bytes \cup {0}
  <2>1. i - 1 \in 0 .. MaxSize - 1
    BY <1>1, Constants
  <2> DEFINE j == i - 1
  <2> HIDE DEF j
  <2>2. ByteAt(m, x, j) \in Bytes \cup {0}
    BY <2>1, ByteType DEF j
  <2> QED BY <2>2 DEF j
<1>3. Contents(m, x) \in [1 .. x.size -> Bytes \cup {0}]
  BY <1>2 DEF Contents
<1>4. Contents(m, x) \in Seq(Bytes \cup {0})
  BY <1>1, <1>3, SeqDef
<1>5. Len(Contents(m, x)) = x.size
  BY <1>1, <1>3, <1>4, LenProperties
<1> QED BY <1>1, <1>4, <1>5 DEF Contents

\* An INODE whose map and bytes are as they were holds what it held.
LEMMA ContentsSame ==
    ASSUME NEW m, NEW r, NEW x, NEW y, r.data = m.data, r.ptr = m.ptr,
           x.block = y.block, x.size = y.size
    PROVE  Contents(r, x) = Contents(m, y)
<1>1. \A i : ByteAt(r, x, i) = ByteAt(m, y, i)
  BY BytesOfBlocks
<1> QED BY <1>1 DEF Contents

\* The program sees an inode that it has in core, or the one on disk.
LEMMA CurMakes ==
    ASSUME NEW m \in Machines, NEW f \in Files
    PROVE  /\ Cur(m, f) \in INODEs /\ Cur(m, f) \in Copies(m, f)
           /\ m.itable[f] \in INODEs /\ m.core[f].INODE \in INODEs
           /\ HoldsOf(m)[f] = Contents(m, Cur(m, f)) /\ SavesOf(m)[f] = Contents(m, m.itable[f])
           /\ Len(HoldsOf(m)[f]) = Cur(m, f).size
BY MinodeParts, ContentsMake DEF Cur, Copies, HoldsOf, SavesOf

-----------------------------------------------------------------------------
(* Texts over texts.                                                       *)

\* A text written in place leaves a sequence as long as it was.
LEMMA InPlaceMakes ==
    ASSUME NEW S, NEW s \in Seq(S), NEW text \in Seq(S), NEW at \in Nat
    PROVE  LET r == Abstract!InPlace(s, at, text)
           IN  /\ r \in Seq(S) /\ Len(r) = Len(s)
               /\ \A i \in 1 .. Len(s) :
                     r[i] = IF i \in at + 1 .. at + Len(text) THEN text[i - at] ELSE s[i]
<1> DEFINE r == Abstract!InPlace(s, at, text)
<1>1. /\ Len(s) \in Nat /\ DOMAIN s = 1 .. Len(s) /\ s \in [1 .. Len(s) -> S]
      /\ Len(text) \in Nat /\ text \in [1 .. Len(text) -> S]
  BY LenProperties
<1>2. r = [i \in 1 .. Len(s) |-> IF i \in at + 1 .. at + Len(text) THEN text[i - at] ELSE s[i]]
  BY <1>1 DEF Abstract!InPlace
<1> HIDE DEF r
<1>3. r \in [1 .. Len(s) -> S]
  <2> SUFFICES ASSUME NEW i \in 1 .. Len(s)
               PROVE  (IF i \in at + 1 .. at + Len(text) THEN text[i - at] ELSE s[i]) \in S
    BY <1>2
  <2>1. i \in at + 1 .. at + Len(text) => i - at \in 1 .. Len(text)
    BY <1>1
  <2> QED BY <1>1, <2>1
<1>4. r \in Seq(S)
  BY <1>1, <1>3, SeqDef
<1>5. Len(r) = Len(s)
  BY <1>1, <1>3, <1>4, LenProperties
<1> QED BY <1>2, <1>4, <1>5 DEF r

\* One that goes beyond the end makes it longer.
LEMMA OverlayMakes ==
    ASSUME NEW S, NEW s \in Seq(S), NEW text \in Seq(S), NEW at \in 0 .. Len(s)
    PROVE  LET r == Abstract!Overlay(s, at, text)
               end == at + Len(text)
           IN  /\ r \in Seq(S)
               /\ Len(r) = IF end > Len(s) THEN end ELSE Len(s)
               /\ \A i \in 1 .. Len(r) :
                     r[i] = IF i \in at + 1 .. end THEN text[i - at] ELSE s[i]
<1> DEFINE r == Abstract!Overlay(s, at, text)
           end == at + Len(text)
           first == Len(s) - at + 1
           head == Abstract!InPlace(s, at, text)
           rest == SubSeq(text, first, Len(text))
<1>1. Len(s) \in Nat /\ Len(text) \in Nat /\ at \in Nat /\ at <= Len(s) /\ end \in Nat
  BY LenProperties
<1>2. /\ head \in Seq(S) /\ Len(head) = Len(s)
      /\ \A i \in 1 .. Len(s) :
            head[i] = IF i \in at + 1 .. at + Len(text) THEN text[i - at] ELSE s[i]
  BY <1>1, InPlaceMakes
<1>3. /\ rest \in Seq(S) /\ Len(rest) = IF first <= Len(text) THEN Len(text) - first + 1 ELSE 0
      /\ \A i \in 1 .. Len(text) - first + 1 : rest[i] = text[first + i - 1]
  <2>1. first \in Int /\ first >= 1 /\ Len(text) \in Int
    BY <1>1
  <2>2. \A i \in first .. Len(text) : text[i] \in S
    <3>1. \A i \in first .. Len(text) : i \in 1 .. Len(text)
      BY <1>1, <2>1
    <3> HIDE DEF first
    <3> QED BY <3>1, ElementOfSeq
  <2> HIDE DEF first
  <2> QED BY <2>1, <2>2, SubSeqProperties
<1>4. r = head \o rest
  BY DEF Abstract!Overlay
<1>5. Len(rest) = IF end > Len(s) THEN end - Len(s) ELSE 0
  BY <1>1, <1>3
<1> HIDE DEF r, head, rest
<1>6. /\ head \o rest \in Seq(S) /\ Len(head \o rest) = Len(head) + Len(rest)
      /\ \A i \in 1 .. Len(head) + Len(rest) :
            (head \o rest)[i] = IF i <= Len(head) THEN head[i] ELSE rest[i - Len(head)]
  BY <1>2, <1>3, ConcatProperties
<1>7. r \in Seq(S) /\ Len(r) = IF end > Len(s) THEN end ELSE Len(s)
  BY <1>1, <1>2, <1>4, <1>5, <1>6
<1>8. ASSUME NEW i \in 1 .. Len(r)
      PROVE  r[i] = IF i \in at + 1 .. end THEN text[i - at] ELSE s[i]
  <2>1. i \in 1 .. Len(head) + Len(rest)
    BY <1>4, <1>6
  <2>2. r[i] = IF i <= Len(s) THEN head[i] ELSE rest[i - Len(s)]
    BY <1>2, <1>4, <1>6, <2>1
  <2>3. CASE i <= Len(s)
    BY <1>1, <1>2, <2>1, <2>2, <2>3
  <2>4. CASE i > Len(s)
    <3>1. i - Len(s) \in 1 .. Len(text) - first + 1 /\ end > Len(s) /\ i \in at + 1 .. end
      BY <1>1, <1>2, <1>5, <2>1, <2>4
    <3>2. rest[i - Len(s)] = text[first + (i - Len(s)) - 1]
      BY <1>3, <3>1
    <3>3. first + (i - Len(s)) - 1 = i - at
      BY <1>1, <2>1
    <3> QED BY <1>1, <2>1, <2>2, <2>4, <3>1, <3>2, <3>3
  <2> QED BY <1>1, <2>1, <2>3, <2>4
<1> QED BY <1>7, <1>8 DEF r

\* A write lays its text over what the file holds, and, in place, over what is saved.
WroteOver(m, r, n, text) ==
    LET f == m.fd[n].file
        at == m.fd[n].offset
    IN  /\ f \in Files /\ AtOf(m)[f] = at
        /\ HoldsOf(r) = [HoldsOf(m) EXCEPT ![f] = Abstract!Overlay(HoldsOf(m)[f], at, text)]
        /\ SavesOf(r) = [SavesOf(m) EXCEPT ![f] = Abstract!InPlace(SavesOf(m)[f], at, text)]
        /\ AtOf(r) = [AtOf(m) EXCEPT ![f] = at + Len(text)]

\* A text written to an open file is written over what the file holds, at its place.
LEMMA WroteViews ==
    ASSUME NEW m, Sound(m), NEW r, Sound(r), NEW n \in FDs, m.fd[n] # Null,
           NEW text \in Seq(Bytes \cup {0}), NEW what,
           \A i \in 1 .. Len(text) : what[m.fd[n].offset + i - 1] = text[i],
           Wrote(m, r, n, m.fd[n].offset + Len(text), what), r.bmap # Blks
    PROVE  WroteOver(m, r, n, text)
<1> DEFINE f == m.fd[n].file
           at == m.fd[n].offset
           end == at + Len(text)
           S == Bytes \cup {0}
<1>1. m \in Machines /\ r \in Machines /\ f \in Files /\ at \in Nat /\ Len(text) \in Nat /\ end \in Nat
  BY OpenOFT DEF Sound
<1>2. at <= Size(m, f) /\ m.core[f].refCount > 0
  BY <1>1 DEF Sound, Offsets, Locks
<1>3. /\ r.fd = [m.fd EXCEPT ![n] = [file |-> f, offset |-> end]] /\ r.itable = m.itable
      /\ \A g \in Files \ {f} : r.core[g] = m.core[g]
      /\ r.core[f].refCount = m.core[f].refCount
      /\ Size(r, f) = IF end > Size(m, f) THEN end ELSE Size(m, f)
      /\ WroteBytes(m, r, f, at, end, what)
  BY DEF Wrote
<1>4. AtOf(m)[f] = at
  BY AtOpen
<1>5. \A k \in FDs \ {n} : m.fd[k].file # f
  BY DEF Sound, Locks
<1>6. \A i \in 1 .. Len(text) : what[at + i - 1] = text[i]
  OBVIOUS
<1>7. text \in Seq(S) /\ m.fd[n].file = f
  OBVIOUS
<1> HIDE DEF f, at, end, S
<1>8. AtOf(r) = [AtOf(m) EXCEPT ![f] = end]
  <2> DEFINE oft == [file |-> f, offset |-> end]
  <2>1. oft.file = f /\ oft.offset = end
    OBVIOUS
  <2>2. r.fd = [m.fd EXCEPT ![n] = oft]
    BY <1>3
  <2> HIDE DEF oft
  <2>3. r.fd[n] = oft /\ \A k \in FDs \ {n} : r.fd[k] = m.fd[k]
    BY <1>1, <2>2, Parts
  <2>4. m.fd[n].file \in {f, NoFile} /\ r.fd[n].file = f /\ r.fd[n].offset = end
    BY <1>7, <2>1, <2>3
  <2> DEFINE next == [AtOf(m) EXCEPT ![f] = end]
  <2>5. next = [AtOf(m) EXCEPT ![f] = r.fd[n].offset]
    BY <2>4
  <2> HIDE DEF next
  <2>6. Moves(m, r, n, f, next)
    BY <1>1, <1>5, <2>3, <2>4, <2>5 DEF Moves
  <2>7. AtOf(r) = next
    BY ONLY <2>6, AtMoves
  <2> QED BY <2>7 DEF next
<1>9. \A i \in Int : i \in at + 1 .. end => what[i - 1] = text[i - at]
  <2> SUFFICES ASSUME NEW i \in Int, i \in at + 1 .. end PROVE what[i - 1] = text[i - at]
    OBVIOUS
  <2>1. i - at \in 1 .. Len(text) /\ at + (i - at) - 1 = i - 1
    BY <1>1 DEF end
  <2> QED BY <1>6, <2>1
<1>10. /\ m.core[f].INODE \in INODEs /\ r.core[f].INODE \in INODEs /\ m.itable[f] \in INODEs
       /\ Cur(m, f) = m.core[f].INODE /\ Cur(r, f) = r.core[f].INODE
       /\ Size(m, f) = m.core[f].INODE.size /\ Size(r, f) = r.core[f].INODE.size
  BY <1>1, <1>2, <1>3, MinodeParts DEF Cur, Size, Inode
<1>11. HoldsOf(r)[f] = Abstract!Overlay(HoldsOf(m)[f], at, text)
  <2> DEFINE old == Contents(m, m.core[f].INODE)
             new == Contents(r, r.core[f].INODE)
  <2>1. /\ old \in Seq(S) /\ Len(old) = Size(m, f) /\ Size(m, f) \in Nat
        /\ \A i \in 1 .. Size(m, f) : old[i] = ByteAt(m, m.core[f].INODE, i - 1)
    BY <1>1, <1>10, ContentsMake DEF S
  <2>2. /\ new \in Seq(S) /\ Len(new) = Size(r, f) /\ Size(r, f) \in Nat
        /\ \A i \in 1 .. Size(r, f) : new[i] = ByteAt(r, r.core[f].INODE, i - 1)
    BY <1>1, <1>10, ContentsMake DEF S
  <2>3. HoldsOf(m)[f] = old /\ HoldsOf(r)[f] = new
    BY <1>1, <1>10 DEF HoldsOf
  <2> HIDE DEF old, new
  <2> DEFINE both == Abstract!Overlay(old, at, text)
  <2>4. at \in 0 .. Len(old)
    BY <1>1, <1>2, <2>1
  <2>5. /\ both \in Seq(S) /\ Len(both) = Size(r, f)
        /\ \A i \in 1 .. Len(both) :
              both[i] = IF i \in at + 1 .. end THEN text[i - at] ELSE old[i]
    <3>1. /\ both \in Seq(S) /\ Len(both) = IF end > Len(old) THEN end ELSE Len(old)
          /\ \A i \in 1 .. Len(both) :
                both[i] = IF i \in at + 1 .. end THEN text[i - at] ELSE old[i]
      BY <1>7, <2>1, <2>4, OverlayMakes DEF end
    <3> QED BY <1>3, <2>1, <3>1
  <2> HIDE DEF both
  <2>6. ASSUME NEW i \in 1 .. Len(new) PROVE new[i] = both[i]
    <3>1. i - 1 \in 0 .. Size(r, f) - 1 /\ i \in 1 .. Size(r, f) /\ i \in Int
      BY <2>2
    <3>2. new[i] = ByteAt(r, r.core[f].INODE, i - 1)
      BY <2>2, <3>1
    <3>3. ByteAt(r, r.core[f].INODE, i - 1) = IF i - 1 \in at .. end - 1 THEN what[i - 1]
                                              ELSE ByteAt(m, m.core[f].INODE, i - 1)
      BY <1>1, <1>2, <1>3, <3>1 DEF WroteBytes
    <3>4. i - 1 \in at .. end - 1 <=> i \in at + 1 .. end
      BY <1>1, <3>1
    <3>5. CASE i \in at + 1 .. end
      BY <1>9, <2>5, <3>1, <3>2, <3>3, <3>4, <3>5
    <3>6. CASE i \notin at + 1 .. end
      <4>1. i \in 1 .. Size(m, f)
        BY <1>1, <1>2, <1>3, <2>1, <3>1, <3>6
      <4> QED BY <2>1, <2>5, <3>1, <3>2, <3>3, <3>4, <3>6, <4>1
    <3> QED BY <3>5, <3>6
  <2>7. new = both
    BY <2>2, <2>5, <2>6, SeqEqual
  <2> QED BY <2>3, <2>7 DEF both
<1>12. SavesOf(r)[f] = Abstract!InPlace(SavesOf(m)[f], at, text)
  <2> DEFINE old == Contents(m, m.itable[f])
             new == Contents(r, r.itable[f])
             L == m.itable[f].size
  <2>1. /\ old \in Seq(S) /\ Len(old) = L /\ L \in Nat
        /\ \A i \in 1 .. L : old[i] = ByteAt(m, m.itable[f], i - 1)
    BY <1>1, <1>10, ContentsMake DEF S
  <2>2. /\ new \in Seq(S) /\ Len(new) = L
        /\ \A i \in 1 .. L : new[i] = ByteAt(r, r.itable[f], i - 1)
    BY <1>1, <1>3, <1>10, ContentsMake DEF S
  <2>3. SavesOf(m)[f] = old /\ SavesOf(r)[f] = new
    BY <1>1 DEF SavesOf
  <2> HIDE DEF old, new
  <2> DEFINE both == Abstract!InPlace(old, at, text)
  <2>4. /\ both \in Seq(S) /\ Len(both) = Len(old)
        /\ \A i \in 1 .. Len(old) :
              both[i] = IF i \in at + 1 .. end THEN text[i - at] ELSE old[i]
    BY <1>1, <1>7, <2>1, InPlaceMakes DEF end
  <2> HIDE DEF both
  <2>5. ASSUME NEW i \in 1 .. Len(new) PROVE new[i] = both[i]
    <3>1. i - 1 \in 0 .. m.itable[f].size - 1 /\ i \in 1 .. L /\ i \in Int
      BY <2>1, <2>2
    <3>2. ByteAt(r, r.itable[f], i - 1) = IF i - 1 \in at .. end - 1 THEN what[i - 1]
                                          ELSE ByteAt(m, m.itable[f], i - 1)
      BY <1>1, <1>3, <3>1 DEF WroteBytes
    <3>3. i - 1 \in at .. end - 1 <=> i \in at + 1 .. end
      BY <1>1, <3>1
    <3> HIDE DEF L
    <3> QED BY <1>9, <2>1, <2>2, <2>4, <3>1, <3>2, <3>3
  <2>6. new = both
    <3> HIDE DEF L
    <3> QED BY <2>1, <2>2, <2>4, <2>5, SeqEqual
  <2> QED BY <2>3, <2>6 DEF both
<1>13. ASSUME NEW g \in Files \ {f}
       PROVE  HoldsOf(r)[g] = HoldsOf(m)[g] /\ SavesOf(r)[g] = SavesOf(m)[g]
  <2>1. r.core[g] = m.core[g] /\ r.itable[g] = m.itable[g] /\ g # f /\ Cur(r, g) = Cur(m, g)
    BY <1>3 DEF Cur
  <2>2. Contents(r, m.itable[g]) = Contents(m, m.itable[g])
    <3>1. ASSUME NEW i \in 1 .. m.itable[g].size
          PROVE  ByteAt(r, m.itable[g], i - 1) = ByteAt(m, m.itable[g], i - 1)
      <4>1. m.itable[g].size \in Nat
        BY <1>1, CurMakes, ContentsMake
      <4>2. i - 1 \in 0 .. m.itable[g].size - 1
        BY <4>1
      <4> QED BY <1>3, <2>1, <4>2 DEF WroteBytes
    <3> QED BY <3>1 DEF Contents
  <2>3. ASSUME m.core[g].refCount > 0
        PROVE  Contents(r, m.core[g].INODE) = Contents(m, m.core[g].INODE)
    <3>1. ASSUME NEW i \in 1 .. m.core[g].INODE.size
          PROVE  ByteAt(r, m.core[g].INODE, i - 1) = ByteAt(m, m.core[g].INODE, i - 1)
      <4>1. m.core[g].INODE.size \in Nat /\ Size(r, g) = m.core[g].INODE.size
        BY <1>1, <2>1, CurMakes, ContentsMake DEF Size, Inode
      <4>2. i - 1 \in 0 .. Size(r, g) - 1
        BY <4>1
      <4> QED BY <1>3, <2>1, <2>3, <4>2 DEF WroteBytes
    <3> QED BY <3>1 DEF Contents
  <2> QED BY <2>1, <2>2, <2>3 DEF HoldsOf, SavesOf, Cur
<1>14. /\ HoldsOf(m) = [g \in Files |-> HoldsOf(m)[g]] /\ HoldsOf(r) = [g \in Files |-> HoldsOf(r)[g]]
       /\ SavesOf(m) = [g \in Files |-> SavesOf(m)[g]] /\ SavesOf(r) = [g \in Files |-> SavesOf(r)[g]]
  BY DEF HoldsOf, SavesOf
<1>15. HoldsOf(r) = [HoldsOf(m) EXCEPT ![f] = Abstract!Overlay(HoldsOf(m)[f], at, text)]
  <2> DEFINE new == Abstract!Overlay(HoldsOf(m)[f], at, text)
  <2> HIDE DEF new
  <2>1. HoldsOf(r)[f] = new
    BY <1>11 DEF new
  <2>2. HoldsOf(r) = [HoldsOf(m) EXCEPT ![f] = new]
    BY <1>13, <1>14, <2>1
  <2> QED BY <2>2 DEF new
<1>16. SavesOf(r) = [SavesOf(m) EXCEPT ![f] = Abstract!InPlace(SavesOf(m)[f], at, text)]
  <2> DEFINE new == Abstract!InPlace(SavesOf(m)[f], at, text)
  <2> HIDE DEF new
  <2>1. SavesOf(r)[f] = new
    BY <1>12 DEF new
  <2>2. SavesOf(r) = [SavesOf(m) EXCEPT ![f] = new]
    BY <1>13, <1>14, <2>1
  <2> QED BY <2>2 DEF new
<1> QED BY <1>1, <1>4, <1>8, <1>15, <1>16 DEF WroteOver, f, at, end

-----------------------------------------------------------------------------
(* The routines, in the terms of ByteFiles.                                *)

Same(m, r) == HoldsOf(r) = HoldsOf(m) /\ SavesOf(r) = SavesOf(m) /\ AtOf(r) = AtOf(m)

\* Files whose INODEs and blocks are as they were hold what they held.
LEMMA HoldsSame ==
    ASSUME NEW m, NEW r, r.data = m.data, r.ptr = m.ptr,
           \A g \in Files : Cur(r, g).block = Cur(m, g).block /\ Cur(r, g).size = Cur(m, g).size
    PROVE  HoldsOf(r) = HoldsOf(m)
<1>1. ASSUME NEW g \in Files PROVE Contents(r, Cur(r, g)) = Contents(m, Cur(m, g))
  <2> DEFINE x == Cur(r, g)
             y == Cur(m, g)
  <2>1. x.block = y.block /\ x.size = y.size
    OBVIOUS
  <2> HIDE DEF x, y
  <2>2. Contents(r, x) = Contents(m, y)
    BY <2>1, ContentsSame
  <2> QED BY <2>2 DEF x, y
<1> QED BY <1>1 DEF HoldsOf

\* INODEs on disk that are as they were save what they saved.
LEMMA SavesSame ==
    ASSUME NEW m, NEW r, r.data = m.data, r.ptr = m.ptr, r.itable = m.itable
    PROVE  SavesOf(r) = SavesOf(m)
<1>1. ASSUME NEW g \in Files PROVE Contents(r, r.itable[g]) = Contents(m, m.itable[g])
  <2> DEFINE x == m.itable[g]
  <2>1. r.itable[g] = x
    OBVIOUS
  <2> HIDE DEF x
  <2>2. Contents(r, x) = Contents(m, x)
    BY ContentsSame
  <2> QED BY <2>1, <2>2 DEF x
<1> QED BY <1>1 DEF SavesOf

\* A reference more is not seen: the first one loads what is on disk.
LEMMA IgetViews ==
    ASSUME NEW m \in Machines, NEW f \in Files
    PROVE  Same(m, Iget(m, f)) /\ \A g \in Files : Cur(Iget(m, f), g) = Cur(m, g)
<1> DEFINE r == Iget(m, f)
<1>1. /\ r.itable = m.itable /\ r.data = m.data /\ r.ptr = m.ptr /\ r.fd = m.fd
      /\ r.core[f].refCount = m.core[f].refCount + 1
      /\ r.core[f].INODE = IF m.core[f].refCount = 0 THEN m.itable[f] ELSE m.core[f].INODE
      /\ \A g \in Files \ {f} : r.core[g] = m.core[g]
  BY IgetMakes
<1>2. m.core[f].refCount \in Nat
  BY MinodeParts
<1> HIDE DEF r
<1>3. \A g \in Files : Cur(r, g) = Cur(m, g)
  BY <1>1, <1>2 DEF Cur
<1>4. HoldsOf(r) = HoldsOf(m)
  BY <1>1, <1>3, HoldsSame
<1>5. SavesOf(r) = SavesOf(m) /\ AtOf(r) = AtOf(m)
  BY <1>1, SavesSame, AtSame
<1> QED BY <1>3, <1>4, <1>5 DEF Same, r

\* What a program does that reads past running->fd[] is not seen.
LEMMA FailViews ==
    ASSUME NEW m \in Machines, NEW how \in {"down", "undefined"}
    PROVE  Same(m, Fail(m, how))
<1> DEFINE r == Fail(m, how)
<1>1. /\ r.itable = m.itable /\ r.data = m.data /\ r.ptr = m.ptr /\ r.fd = m.fd
      /\ r.core = m.core
  BY FailMakes
<1> HIDE DEF r
<1>2. \A g \in Files : Cur(r, g) = Cur(m, g)
  BY <1>1 DEF Cur
<1>3. HoldsOf(r) = HoldsOf(m)
  BY <1>1, <1>2, HoldsSame
<1>4. SavesOf(r) = SavesOf(m) /\ AtOf(r) = AtOf(m)
  BY <1>1, SavesSame, AtSame
<1> QED BY <1>3, <1>4 DEF Same, r

\* An open file is held, and at a place of it.
LEMMA OpenViews ==
    ASSUME NEW m, Sound(m), NEW n \in FDs, m.fd[n] # Null
    PROVE  LET f == m.fd[n].file
           IN  /\ f \in Files /\ AtOf(m)[f] = m.fd[n].offset
               /\ m.core[f].refCount > 0 /\ Cur(m, f) = m.core[f].INODE
               /\ Len(HoldsOf(m)[f]) = Size(m, f)
               /\ AtOf(m)[f] \in 0 .. Size(m, f) /\ AtOf(m)[f] # -1
               /\ \A k \in FDs \ {n} : m.fd[k].file # f
<1> DEFINE f == m.fd[n].file
<1>1. f \in Files /\ m \in Machines /\ m.fd[n].offset \in Nat
  BY OpenOFT DEF Sound
<1>2. m.core[f].refCount > 0 /\ \A k \in FDs \ {n} : m.fd[k].file # f
  BY <1>1 DEF Sound, Locks
<1>3. m.fd[n].offset <= Size(m, f) /\ Size(m, f) \in Nat
  BY <1>1, MinodeParts DEF Sound, Offsets
<1>4. AtOf(m)[f] = m.fd[n].offset
  BY AtOpen
<1> HIDE DEF f
<1>5. Cur(m, f) = m.core[f].INODE /\ Len(HoldsOf(m)[f]) = Size(m, f)
  BY <1>1, <1>2, CurMakes DEF Cur, Size, Inode
<1> QED BY <1>1, <1>2, <1>3, <1>4, <1>5 DEF f

\* The offset of an open file is moved.
LEMMA MoveViews ==
    ASSUME NEW m, Sound(m), NEW n \in FDs, m.fd[n] # Null,
           NEW p \in 0 .. Size(m, m.fd[n].file)
    PROVE  LET f == m.fd[n].file
               r == PutOFT(m, n, [file |-> f, offset |-> p])
           IN  /\ HoldsOf(r) = HoldsOf(m) /\ SavesOf(r) = SavesOf(m)
               /\ AtOf(r) = [AtOf(m) EXCEPT ![f] = p]
<1> DEFINE f == m.fd[n].file
           oft == [file |-> f, offset |-> p]
           r == PutOFT(m, n, oft)
<1>1. /\ r.core = m.core /\ r.itable = m.itable /\ r.data = m.data /\ r.ptr = m.ptr
      /\ r.fd = [m.fd EXCEPT ![n] = oft]
  BY MoveSound
<1>2. m \in Machines /\ f \in Files /\ \A k \in FDs \ {n} : m.fd[k].file # f
  BY OpenViews DEF Sound
<1>3. oft.file = f /\ oft.offset = p
  OBVIOUS
<1>4. m.fd[n].file \in {f, NoFile}
  OBVIOUS
<1> HIDE DEF r, oft, f
<1>5. r.fd[n] = oft /\ \A k \in FDs \ {n} : r.fd[k] = m.fd[k]
  BY <1>1, <1>2, Parts
<1>6. \A g \in Files : Cur(r, g) = Cur(m, g)
  BY <1>1 DEF Cur
<1>7. HoldsOf(r) = HoldsOf(m)
  BY <1>1, <1>6, HoldsSame
<1>8. SavesOf(r) = SavesOf(m)
  BY <1>1, SavesSame
<1> DEFINE at == [AtOf(m) EXCEPT ![f] = p]
<1>9. at = [AtOf(m) EXCEPT ![f] = r.fd[n].offset] /\ r.fd[n].file = f
  BY <1>3, <1>5
<1> HIDE DEF at
<1>10. AtOf(r) = at
  <2>1. Moves(m, r, n, f, at)
    BY <1>2, <1>4, <1>5, <1>9 DEF Moves
  <2> QED BY ONLY <2>1, AtMoves
<1> QED BY <1>7, <1>8, <1>10 DEF r, oft, f, at

\* To open a file moves it from closed to a place, and empties it if the mode is WR.
OpenedAt(m, f, mode, o) ==
    /\ SavesOf(o.m) = SavesOf(m)
    /\ o.n = -1 => Same(m, o.m)
    /\ o.n # -1 =>
         /\ AtOf(m)[f] = -1
         /\ HoldsOf(o.m) = IF mode = WR THEN [HoldsOf(m) EXCEPT ![f] = <<>>] ELSE HoldsOf(m)
    /\ o.n = NFD => AtOf(o.m) = AtOf(m)
    /\ o.n \in FDs => \E p \in {0, Len(HoldsOf(o.m)[f])} :
         /\ mode # AP => p = 0
         /\ AtOf(o.m) = [AtOf(m) EXCEPT ![f] = p]

\* What open_file() does, seen as files of bytes, is what OpenedAt says.
LEMMA OpenedViews ==
    ASSUME NEW m, Sound(m), NEW f \in Files, NEW mode, NEW o, Opened(m, f, mode, o)
    PROVE  OpenedAt(m, f, mode, o)
<1> DEFINE r == o.m
<1>1. /\ Sound(r) /\ r \in Machines /\ m \in Machines
      /\ r.itable = m.itable /\ r.data = m.data /\ r.ptr = m.ptr
      /\ \A g \in Files \ {f} : r.core[g] = m.core[g]
      /\ r.core[f].refCount = m.core[f].refCount + 1
      /\ r.core[f].INODE.block = Cur(m, f).block
      /\ o.n = -1 => r.fd = m.fd /\ r.core[f].INODE = Cur(m, f)
      /\ o.n # -1 => /\ ~ m.core[f].lock
                     /\ Size(r, f) = IF mode = WR THEN 0 ELSE Cur(m, f).size
      /\ o.n = NFD => r.fd = m.fd
      /\ o.n \in FDs => /\ m.fd[o.n] = Null
                        /\ \E p \in {0, Size(r, f)} :
                              /\ mode # AP => p = 0
                              /\ r.fd = [m.fd EXCEPT ![o.n] = [file |-> f, offset |-> p]]
  BY DEF Opened, Sound
<1> HIDE DEF r
<1>2. r.core[f].refCount > 0 /\ Cur(r, f) = r.core[f].INODE /\ Size(r, f) = r.core[f].INODE.size
  <2>1. m.core[f].refCount \in Nat
    BY <1>1, MinodeParts
  <2> QED BY <1>1, <2>1 DEF Cur, Size, Inode
<1>3. \A g \in Files \ {f} : Cur(r, g) = Cur(m, g)
  BY <1>1 DEF Cur
<1>4. SavesOf(r) = SavesOf(m)
  BY <1>1, SavesSame
<1>5. ASSUME Size(r, f) = Cur(m, f).size PROVE HoldsOf(r) = HoldsOf(m)
  <2>1. \A g \in Files : Cur(r, g).block = Cur(m, g).block /\ Cur(r, g).size = Cur(m, g).size
    BY <1>1, <1>2, <1>3, <1>5
  <2> QED BY <1>1, <2>1, HoldsSame
<1>6. ASSUME o.n = -1 PROVE Same(m, r)
  <2>1. Size(r, f) = Cur(m, f).size /\ r.fd = m.fd
    BY <1>1, <1>2, <1>6
  <2> QED BY <1>4, <1>5, <2>1, AtSame DEF Same
<1>7. ASSUME o.n # -1 PROVE NotOpen(m, f) /\ AtOf(m)[f] = -1
  <2>1. NotOpen(m, f)
    BY <1>1, <1>7, UnlockedNotOpen
  <2> QED BY <2>1, AtClosed
<1>8. ASSUME o.n # -1
      PROVE  HoldsOf(r) = IF mode = WR THEN [HoldsOf(m) EXCEPT ![f] = <<>>] ELSE HoldsOf(m)
  <2>1. CASE mode # WR
    BY <1>1, <1>5, <1>8, <2>1
  <2>2. CASE mode = WR
    <3>1. \A g \in Files \ {f} : HoldsOf(r)[g] = HoldsOf(m)[g]
      <4> SUFFICES ASSUME NEW g \in Files \ {f} PROVE HoldsOf(r)[g] = HoldsOf(m)[g]
        OBVIOUS
      <4> DEFINE x == Cur(m, g)
      <4>1. Cur(r, g) = x
        BY <1>3
      <4> HIDE DEF x
      <4>2. Contents(r, x) = Contents(m, x)
        BY <1>1, ContentsSame
      <4> QED BY <4>1, <4>2 DEF HoldsOf, x
    <3>2. HoldsOf(r)[f] = <<>>
      <4>1. Size(r, f) = 0
        BY <1>1, <1>8, <2>2
      <4>2. /\ Len(HoldsOf(r)[f]) = 0 /\ HoldsOf(r)[f] \in Seq(Bytes \cup {0})
        <5> DEFINE x == Cur(r, f)
        <5>1. x \in INODEs /\ x.size = 0 /\ HoldsOf(r)[f] = Contents(r, x)
          BY <1>1, <1>2, <4>1, CurMakes
        <5> HIDE DEF x
        <5> QED BY <1>1, <5>1, ContentsMake
      <4> QED BY <4>2, EmptySeq
    <3>3. /\ HoldsOf(m) = [g \in Files |-> HoldsOf(m)[g]]
          /\ HoldsOf(r) = [g \in Files |-> HoldsOf(r)[g]]
      BY DEF HoldsOf
    <3> QED BY <2>2, <3>1, <3>2, <3>3
  <2> QED BY <2>1, <2>2
<1>9. ASSUME o.n = NFD PROVE AtOf(r) = AtOf(m)
  BY <1>1, <1>9, AtSame
<1>10. ASSUME o.n \in FDs
       PROVE  \E p \in {0, Len(HoldsOf(r)[f])} :
                 /\ mode # AP => p = 0
                 /\ AtOf(r) = [AtOf(m) EXCEPT ![f] = p]
  <2>1. o.n # -1 /\ m.fd[o.n] = Null
    BY <1>1, <1>10, Constants DEF FDs
  <2>2. PICK p \in {0, Size(r, f)} :
              /\ mode # AP => p = 0
              /\ r.fd = [m.fd EXCEPT ![o.n] = [file |-> f, offset |-> p]]
    BY <1>1, <1>10
  <2>3. Len(HoldsOf(r)[f]) = Size(r, f)
    BY <1>1, <1>2, CurMakes
  <2> DEFINE oft == [file |-> f, offset |-> p]
             n == o.n
  <2>3a. n \in FDs
    BY <1>10
  <2>4. r.fd = [m.fd EXCEPT ![n] = oft] /\ m.fd[n] = Null
    BY <2>1, <2>2
  <2>5. oft.file = f /\ oft.offset = p
    OBVIOUS
  <2>6. \A k \in FDs \ {n} : m.fd[k].file # f
    BY <1>7, <2>1 DEF NotOpen
  <2> HIDE DEF oft, n
  <2>7. m.fd[n].file \in {f, NoFile}
    BY <2>4 DEF Null
  <2>8. r.fd[n] = oft /\ \A k \in FDs \ {n} : r.fd[k] = m.fd[k]
    BY <1>1, <2>3a, <2>4, Parts
  <2> DEFINE at == [AtOf(m) EXCEPT ![f] = p]
  <2>9. at = [AtOf(m) EXCEPT ![f] = r.fd[n].offset] /\ r.fd[n].file = f
    BY <2>5, <2>8
  <2> HIDE DEF at
  <2>10. AtOf(r) = at
    <3>1. Moves(m, r, n, f, at)
      BY <2>3a, <2>6, <2>7, <2>8, <2>9 DEF Moves
    <3> QED BY ONLY <3>1, AtMoves
  <2> QED BY <2>2, <2>3, <2>10 DEF at
<1> QED BY <1>4, <1>6, <1>7, <1>8, <1>9, <1>10 DEF OpenedAt, r

\* To close one takes it to closed, and what it holds to the disk with the last
\* reference.
ShutAt(m, n, r) ==
    LET f == m.fd[n].file
    IN  /\ HoldsOf(r) = HoldsOf(m)
        /\ SavesOf(r) = [SavesOf(m) EXCEPT ![f] =
                             IF m.core[f].refCount > 1 THEN @ ELSE HoldsOf(m)[f]]
        /\ AtOf(r) = [AtOf(m) EXCEPT ![f] = -1]

\* What close_file() does, seen as files of bytes, is what ShutAt says.
LEMMA ShutViews ==
    ASSUME NEW m, Sound(m), NEW n \in FDs, m.fd[n] # Null, NEW r, Shut(m, n, r)
    PROVE  ShutAt(m, n, r)
<1> DEFINE f == m.fd[n].file
<1>1. /\ f \in Files /\ m.core[f].refCount > 0 /\ Cur(m, f) = m.core[f].INODE
      /\ \A k \in FDs \ {n} : m.fd[k].file # f
      /\ m \in Machines /\ r \in Machines
  BY OpenViews DEF Shut, Sound
<1>2. /\ r.data = m.data /\ r.ptr = m.ptr /\ r.fd = [m.fd EXCEPT ![n] = Null]
      /\ \A g \in Files \ {f} : r.core[g] = m.core[g] /\ r.itable[g] = m.itable[g]
      /\ Cur(r, f) = m.core[f].INODE
      /\ r.itable[f] = IF m.core[f].refCount > 1 THEN m.itable[f] ELSE m.core[f].INODE
  BY DEF Shut
<1>3. m.fd[n].file = f
  OBVIOUS
<1> HIDE DEF f
<1>4. \A g \in Files : Cur(r, g) = Cur(m, g)
  BY <1>1, <1>2 DEF Cur
<1>5. HoldsOf(r) = HoldsOf(m)
  BY <1>2, <1>4, HoldsSame
<1>6. r.fd[n] = Null /\ \A k \in FDs \ {n} : r.fd[k] = m.fd[k]
  BY <1>1, <1>2, Parts
<1>7. AtOf(r) = [AtOf(m) EXCEPT ![f] = -1]
  <2> DEFINE at == [AtOf(m) EXCEPT ![f] = -1]
  <2>1. at = [AtOf(m) EXCEPT ![f] = -1]
    OBVIOUS
  <2> HIDE DEF at
  <2>2. AtOf(r) = at
    BY ONLY <1>1, <1>3, <1>6, <2>1, AtCloses, n \in FDs
  <2> QED BY <2>2 DEF at
<1>8. \A x : Contents(r, x) = Contents(m, x)
  BY <1>2, ContentsSame
<1>9. HoldsOf(m)[f] = Contents(m, m.core[f].INODE)
  BY <1>1 DEF HoldsOf
<1>10. SavesOf(r)[f] = IF m.core[f].refCount > 1 THEN SavesOf(m)[f] ELSE HoldsOf(m)[f]
  BY <1>1, <1>2, <1>8, <1>9 DEF SavesOf
<1>11. \A g \in Files \ {f} : SavesOf(r)[g] = SavesOf(m)[g]
  BY <1>2, <1>8 DEF SavesOf
<1>12. SavesOf(m) = [g \in Files |-> SavesOf(m)[g]] /\ SavesOf(r) = [g \in Files |-> SavesOf(r)[g]]
  BY DEF SavesOf
<1>13. SavesOf(r) = [SavesOf(m) EXCEPT ![f] =
                        IF m.core[f].refCount > 1 THEN @ ELSE HoldsOf(m)[f]]
  BY <1>10, <1>11, <1>12
<1> QED BY <1>5, <1>7, <1>13 DEF ShutAt, f

\* A program that ended leaves what is on disk.
LEMMA RestartedViews ==
    ASSUME NEW m \in Machines
    PROVE  LET r == Restarted(m)
           IN  /\ HoldsOf(r) = SavesOf(m) /\ SavesOf(r) = SavesOf(m)
               /\ AtOf(r) = [f \in Files |-> -1]
<1> DEFINE r == Restarted(m)
<1>1. /\ r.itable = m.itable /\ r.data = m.data /\ r.ptr = m.ptr
      /\ \A g \in Files : r.core[g].refCount = 0
      /\ \A n \in FDs : r.fd[n] = Null
  BY DEF Restarted, Idle
<1> HIDE DEF r
<1>2. SavesOf(r) = SavesOf(m)
  BY <1>1, SavesSame
<1>3. HoldsOf(r) = SavesOf(r)
  BY <1>1 DEF HoldsOf, SavesOf, Cur
<1>4. ASSUME NEW f \in Files PROVE AtOf(r)[f] = -1
  <2>1. Null.file # f
    BY FilesAssumption DEF Null, NoFile
  <2> QED BY <1>1, <2>1, AtClosed DEF NotOpen
<1>5. AtOf(r) = [f \in Files |-> AtOf(r)[f]]
  BY DEF AtOf
<1> QED BY <1>2, <1>3, <1>4, <1>5 DEF r

\* What quit() saves is what the files hold.
LEMMA QuitViews ==
    ASSUME NEW m, Sound(m)
    PROVE  \E S \in SUBSET Files :
              SavesOf(QuitTo(m)) = [f \in Files |-> IF f \in S THEN HoldsOf(m)[f]
                                                    ELSE SavesOf(m)[f]]
<1> DEFINE r == QuitTo(m)
           S == {f \in Files : m.core[f].refCount = 1 /\ m.core[f].dirty}
<1>1. r.itable = Saved(m) /\ r.data = m.data /\ r.ptr = m.ptr
  BY QuitSound
<1> HIDE DEF r
<1>2. \A x : Contents(r, x) = Contents(m, x)
  BY <1>1, ContentsSame
<1>3. ASSUME NEW f \in Files
      PROVE  Contents(r, r.itable[f]) = IF f \in S THEN HoldsOf(m)[f] ELSE SavesOf(m)[f]
  BY <1>1, <1>2 DEF Saved, HoldsOf, SavesOf, Cur
<1>4. SavesOf(r) = [f \in Files |-> IF f \in S THEN HoldsOf(m)[f] ELSE SavesOf(m)[f]]
  BY <1>3 DEF SavesOf
<1>5. S \in SUBSET Files
  OBVIOUS
<1> HIDE DEF S
<1> QED BY <1>4, <1>5 DEF r

\* The offset of an open file is moved to a place of it.
Moved(m, r) ==
    \E f \in Files : \E p \in 0 .. Len(HoldsOf(m)[f]) :
        /\ AtOf(m)[f] # -1
        /\ HoldsOf(r) = HoldsOf(m) /\ SavesOf(r) = SavesOf(m)
        /\ AtOf(r) = [AtOf(m) EXCEPT ![f] = p]

\* A descriptor put at another place of its file moves it.
LEMMA PutMoved ==
    ASSUME NEW m, Sound(m), NEW n \in FDs, m.fd[n] # Null,
           NEW p \in 0 .. Size(m, m.fd[n].file)
    PROVE  Moved(m, PutOFT(m, n, [file |-> m.fd[n].file, offset |-> p]))
<1> DEFINE f == m.fd[n].file
           r == PutOFT(m, n, [file |-> f, offset |-> p])
<1>1. f \in Files /\ Len(HoldsOf(m)[f]) = Size(m, f) /\ AtOf(m)[f] # -1
  BY OpenViews
<1>2. /\ HoldsOf(r) = HoldsOf(m) /\ SavesOf(r) = SavesOf(m)
      /\ AtOf(r) = [AtOf(m) EXCEPT ![f] = p]
  BY MoveViews
<1>3. p \in 0 .. Len(HoldsOf(m)[f])
  BY <1>1
<1> HIDE DEF r, f
<1>4. Moved(m, r)
  BY <1>1, <1>2, <1>3 DEF Moved
<1> QED BY <1>4 DEF r, f

\* mylseek() moves a file to a place within it or changes nothing of what is seen.
LEMMA LseekViews ==
    ASSUME NEW m, Sound(m), m.st = "up", NEW f \in Files, NEW pos \in Nat
    PROVE  LET r == MyLseek(m, f, pos)
           IN  r.st # "down" /\ (Same(m, r) \/ Moved(m, r))
<1> DEFINE r == MyLseek(m, f, pos)
           i == Iget(m, f)
<1>1. Sound(i) /\ i.fd = m.fd /\ i.st = "up" /\ Same(m, i) /\ m \in Machines /\ i \in Machines
  BY IgetSound, IgetMakes, IgetViews DEF Sound
<1>2. \/ r = i
      \/ r = Fail(i, "undefined")
      \/ \E n \in FDs : /\ m.fd[n] # Null
                        /\ pos \in 0 .. Size(i, m.fd[n].file)
                        /\ r = PutOFT(i, n, [file |-> m.fd[n].file, offset |-> pos])
  BY MyLseekMakes
<1> HIDE DEF r, i
<1>3. CASE r = i
  BY <1>1, <1>3 DEF r
<1>4. CASE r = Fail(i, "undefined")
  <2>1. Same(i, r) /\ r.st = "undefined"
    BY <1>1, <1>4, FailViews, FailMakes
  <2>2. Same(m, r)
    BY <1>1, <2>1 DEF Same
  <2> QED BY <2>1, <2>2 DEF r
<1>5. CASE \E n \in FDs : /\ m.fd[n] # Null
                          /\ pos \in 0 .. Size(i, m.fd[n].file)
                          /\ r = PutOFT(i, n, [file |-> m.fd[n].file, offset |-> pos])
  <2>1. PICK n \in FDs : /\ m.fd[n] # Null
                         /\ pos \in 0 .. Size(i, m.fd[n].file)
                         /\ r = PutOFT(i, n, [file |-> m.fd[n].file, offset |-> pos])
    BY <1>5
  <2>2. i.fd[n] # Null /\ i.fd[n].file = m.fd[n].file
    BY <1>1, <2>1
  <2> DEFINE s == PutOFT(i, n, [file |-> i.fd[n].file, offset |-> pos])
  <2>3. r = s /\ pos \in 0 .. Size(i, i.fd[n].file)
    BY <2>1, <2>2
  <2>4. Moved(i, s)
    BY <1>1, <2>2, <2>3, PutMoved
  <2>5. s.st = i.st
    BY <1>1, <2>2, <2>3, MoveSound
  <2> HIDE DEF s
  <2>6. Moved(m, s)
    BY <1>1, <2>4 DEF Moved, Same
  <2> QED BY <1>1, <2>3, <2>5, <2>6 DEF r
<1> QED BY <1>2, <1>3, <1>4, <1>5

\* myread() moves a file.
LEMMA ReadViews ==
    ASSUME NEW m, Sound(m), m.st = "up", NEW n \in FDs, m.fd[n] # Null, NEW nbytes \in Nat
    PROVE  LET r == MyRead(m, n, nbytes).m IN r.st # "down" /\ Moved(m, r)
<1> DEFINE f == m.fd[n].file
           r == MyRead(m, n, nbytes)
<1>1. m \in Machines /\ f \in Files /\ m.fd[n].offset \in Nat
  BY OpenOFT DEF Sound
<1>2. PICK p \in m.fd[n].offset .. Size(m, f) : r.m = PutOFT(m, n, [file |-> f, offset |-> p])
  BY MyReadMakes
<1>3. p \in 0 .. Size(m, f)
  BY <1>1
<1> HIDE DEF r
<1> DEFINE s == PutOFT(m, n, [file |-> f, offset |-> p])
<1>4. Moved(m, s) /\ s.st = "up"
  BY <1>3, PutMoved, MoveSound
<1> HIDE DEF s
<1>5. r.m = s
  BY <1>2 DEF s
<1> QED BY <1>4, <1>5 DEF r

\* mywrite() writes over a file at its place.
LEMMA WriteViews ==
    ASSUME NEW m, Sound(m), m.st = "up", NEW n \in FDs, m.fd[n] # Null, NEW text \in Texts,
           m.fd[n].offset + Len(text) <= MaxSize, MyWrite(m, n, text).bmap # Blks
    PROVE  LET r == MyWrite(m, n, text) IN r.st # "down" /\ WroteOver(m, r, n, text)
<1> DEFINE what == [i \in Nat |-> text[i - m.fd[n].offset + 1]]
           r == MyWrite(m, n, text)
<1>1. m.fd[n].offset \in Nat
  BY OpenOFT DEF Sound
<1>2. text \in Seq(Bytes) /\ text \in Seq(Bytes \cup {0})
      /\ \A i \in 1 .. Len(text) : text[i] \in Bytes
  BY InputsAssumption
<1>3. \A i \in 1 .. Len(text) : what[m.fd[n].offset + i - 1] = text[i]
  <2> SUFFICES ASSUME NEW i \in 1 .. Len(text) PROVE what[m.fd[n].offset + i - 1] = text[i]
    OBVIOUS
  <2>1. m.fd[n].offset + i - 1 \in Nat /\ (m.fd[n].offset + i - 1) - m.fd[n].offset + 1 = i
    BY <1>1, <1>2
  <2> QED BY <2>1
<1> HIDE DEF what
<1>4. Sound(r) /\ Wrote(m, r, n, m.fd[n].offset + Len(text), what)
  BY <1>2, <1>3, MyWriteMakes
<1>5. r.bmap # Blks
  OBVIOUS
<1> HIDE DEF r
<1>6. r.st = "up"
  BY <1>4 DEF Wrote
<1>7. WroteOver(m, r, n, text)
  BY <1>2, <1>3, <1>4, <1>5, WroteViews
<1> QED BY <1>6, <1>7 DEF r

\* cat opens and closes: what it saves is on disk.
LEMMA CatViews ==
    ASSUME NEW m, Sound(m), m.st = "up", NEW f \in Files
    PROVE  LET r == MyCat(m, f) IN r.st # "down" /\ Same(m, r)
<1> DEFINE r == MyCat(m, f)
<1>1. PICK o : /\ Opened(m, f, RD, o)
               /\ \/ o.n = -1 /\ r = o.m
                  \/ o.n = NFD /\ r = Fail(o.m, "undefined")
                  \/ o.n \in FDs /\ o.m.fd[o.n] # Null /\ Shut(o.m, o.n, r)
  BY MyCatMakes
<1> HIDE DEF r
<1> DEFINE n == o.n
           q == o.m
<1>2. /\ Sound(q) /\ q \in Machines /\ m \in Machines /\ q.st = "up"
      /\ q.core[f].refCount = m.core[f].refCount + 1 /\ m.core[f].refCount \in Nat
      /\ n \in FDs => \E p : q.fd = [m.fd EXCEPT ![n] = [file |-> f, offset |-> p]]
  BY <1>1, MinodeParts DEF Opened, Sound
<1>3. SavesOf(q) = SavesOf(m)
      /\ (n = -1 => Same(m, q))
      /\ (n # -1 => AtOf(m)[f] = -1 /\ HoldsOf(q) = HoldsOf(m))
      /\ (n = NFD => AtOf(q) = AtOf(m))
      /\ (n \in FDs => \E p : AtOf(q) = [AtOf(m) EXCEPT ![f] = p])
  <2>1. Opened(m, f, RD, o) /\ RD # WR
    BY <1>1 DEF RD, WR
  <2>2. OpenedAt(m, f, RD, o)
    BY <2>1, OpenedViews
  <2> QED BY <2>1, <2>2 DEF OpenedAt
<1>4. -1 # NFD /\ -1 \notin FDs
  BY Constants DEF FDs
<1>5. CASE n = -1 /\ r = q
  BY <1>2, <1>3, <1>5 DEF r
<1>6. CASE n = NFD /\ r = Fail(q, "undefined")
  <2>1. Same(q, r) /\ r.st = "undefined"
    BY <1>2, <1>6, FailViews, FailMakes
  <2>2. Same(m, r)
    BY <1>3, <1>4, <1>6, <2>1 DEF Same
  <2> QED BY <2>1, <2>2 DEF r
<1>7. CASE n \in FDs /\ q.fd[n] # Null /\ Shut(q, n, r)
  <2>1. PICK p : q.fd = [m.fd EXCEPT ![n] = [file |-> f, offset |-> p]]
    BY <1>2, <1>7
  <2>2. q.fd[n].file = f
    BY <1>2, <1>7, <2>1, Parts
  <2> HIDE DEF n, q
  <2>3. /\ HoldsOf(r) = HoldsOf(q)
        /\ SavesOf(r) = [SavesOf(q) EXCEPT ![f] =
                             IF q.core[f].refCount > 1 THEN @ ELSE HoldsOf(q)[f]]
        /\ AtOf(r) = [AtOf(q) EXCEPT ![f] = -1]
    BY <1>2, <1>7, <2>2, ShutViews DEF ShutAt
  <2>4. r.st = "up"
    BY <1>2, <1>7 DEF Shut
  <2>5. n # -1
    BY <1>4, <1>7
  <2>6. q.core[f].refCount > 1 \/ HoldsOf(m)[f] = SavesOf(m)[f]
    <3>1. CASE m.core[f].refCount > 0
      BY <1>2, <3>1
    <3>2. CASE ~ (m.core[f].refCount > 0)
      BY <3>2 DEF HoldsOf, SavesOf, Cur
    <3> QED BY <3>1, <3>2
  <2>7. /\ SavesOf(m) = [g \in Files |-> SavesOf(m)[g]]
        /\ AtOf(m) = [g \in Files |-> AtOf(m)[g]]
    BY DEF SavesOf, AtOf
  <2>8. SavesOf(r) = SavesOf(m)
    BY <1>3, <2>3, <2>5, <2>6, <2>7
  <2>9. AtOf(r) = AtOf(m)
    BY <1>3, <1>7, <2>3, <2>5, <2>7
  <2> QED BY <1>3, <2>3, <2>4, <2>5, <2>8, <2>9 DEF Same, r
<1> QED BY <1>1, <1>5, <1>6, <1>7

\* One file is copied over the beginning of another; both are closed before and after.
CopiedOver(m, r, f, g) ==
    LET copy == Abstract!Overlay(HoldsOf(m)[g], 0, HoldsOf(m)[f])
    IN  /\ f # g /\ AtOf(m)[f] = -1 /\ AtOf(m)[g] = -1 /\ AtOf(r) = AtOf(m)
        /\ HoldsOf(r) = [HoldsOf(m) EXCEPT ![g] = copy]
        /\ \E s \in {SavesOf(m)[f], HoldsOf(m)[f]},
              t \in {Abstract!InPlace(SavesOf(m)[g], 0, HoldsOf(m)[f]), copy} :
              SavesOf(r) = [SavesOf(m) EXCEPT ![f] = s, ![g] = t]

\* The bytes that were copied are those of the file that was read.
LEMMA CopiedViews ==
    ASSUME NEW p, NEW from, NEW to, Copying(p, from, to), NEW c, Sound(c), c.bmap # Blks,
           LET size == Size(p, p.fd[from].file) IN Copied(p, c, from, to, size, size)
    PROVE  LET f == p.fd[from].file
               g == p.fd[to].file
               text == HoldsOf(p)[f]
           IN  /\ HoldsOf(c) = [HoldsOf(p) EXCEPT ![g] = Abstract!Overlay(@, 0, text)]
               /\ SavesOf(c) = [SavesOf(p) EXCEPT ![g] = Abstract!InPlace(@, 0, text)]
               /\ \A h \in Files \ {f, g} : AtOf(c)[h] = AtOf(p)[h]
               /\ c.fd[from].file = f /\ c.fd[to].file = g
               /\ f \in Files /\ g \in Files \ {f}
<1> DEFINE f == p.fd[from].file
           g == p.fd[to].file
           size == Size(p, f)
           oft == [file |-> f, offset |-> size]
           q == PutOFT(p, from, oft)
           text == HoldsOf(p)[f]
           what == [i \in 0 .. size - 1 |-> ByteAt(p, Inode(p, f), i)]
<1>1. /\ Sound(p) /\ from \in FDs /\ to \in FDs \ {from} /\ p.fd[from] # Null /\ p.fd[to] # Null
      /\ p.fd[to].offset = 0 /\ p \in Machines /\ c \in Machines
  BY DEF Copying, Sound
<1>2. /\ f \in Files /\ Cur(p, f) = p.core[f].INODE /\ Len(text) = size
      /\ \A k \in FDs \ {from} : p.fd[k].file # f
  BY <1>1, OpenViews
<1>3. g \in Files \ {f}
  BY <1>1, <1>2, OpenViews
<1>4. size \in Nat /\ size \in 0 .. MaxSize /\ size = p.core[f].INODE.size
  <2>1. size \in 0 .. MaxSize
    BY <1>1, <1>2, MinodeParts
  <2>2. size = p.core[f].INODE.size
    BY DEF Size, Inode
  <2> HIDE DEF size, f
  <2> QED BY <2>1, <2>2, Constants
<1>5. text \in Seq(Bytes \cup {0}) /\ \A i \in 1 .. size : text[i] = ByteAt(p, p.core[f].INODE, i - 1)
  <2> DEFINE x == p.core[f].INODE
  <2>1. x \in INODEs /\ text = Contents(p, x) /\ x.size = size
    BY <1>1, <1>2, <1>4, CurMakes
  <2> HIDE DEF x, text, size
  <2>2. Contents(p, x) \in Seq(Bytes \cup {0}) /\ \A i \in 1 .. x.size : Contents(p, x)[i] = ByteAt(p, x, i - 1)
    BY <1>1, <2>1, ContentsMake
  <2> QED BY <2>1, <2>2 DEF x
<1>6. \A i \in 1 .. Len(text) : what[0 + i - 1] = text[i]
  <2> SUFFICES ASSUME NEW i \in 1 .. size PROVE what[0 + i - 1] = text[i]
    BY <1>2
  <2> HIDE DEF size
  <2>1. i - 1 \in 0 .. size - 1 /\ 0 + i - 1 = i - 1
    BY <1>4
  <2>2. what[i - 1] = ByteAt(p, p.core[f].INODE, i - 1)
    BY <2>1 DEF Inode
  <2> QED BY <1>5, <2>1, <2>2
<1>7. /\ Sound(q) /\ q.fd = [p.fd EXCEPT ![from] = oft]
      /\ HoldsOf(q) = HoldsOf(p) /\ SavesOf(q) = SavesOf(p)
      /\ AtOf(q) = [AtOf(p) EXCEPT ![f] = size]
  <2>1. size \in 0 .. Size(p, p.fd[from].file)
    <3>1. size = Size(p, p.fd[from].file)
      OBVIOUS
    <3> HIDE DEF size
    <3> QED BY <1>4, <3>1
  <2>2. Sound(q) /\ q.fd = [p.fd EXCEPT ![from] = oft]
    BY <1>1, <2>1, MoveSound
  <2>3. /\ HoldsOf(q) = HoldsOf(p) /\ SavesOf(q) = SavesOf(p)
        /\ AtOf(q) = [AtOf(p) EXCEPT ![f] = size]
    BY <1>1, <2>1, MoveViews
  <2> QED BY <2>2, <2>3
<1>8. Wrote(q, c, to, size, what)
  BY DEF Copied
<1>9. oft.file = f /\ oft # Null
  BY <1>2, FilesAssumption DEF Null, NoFile
<1>10. p.fd[to].file = g
  OBVIOUS
<1> HIDE DEF f, g, size, oft, q, text, what
<1>11. q.fd[from] = oft /\ q.fd[to] = p.fd[to] /\ q.fd[to].offset = 0 /\ q.fd[to].file = g
       /\ q.fd[to] # Null
  BY <1>1, <1>7, <1>10, Parts
<1>12. Wrote(q, c, to, q.fd[to].offset + Len(text), what)
  <2>1. q.fd[to].offset + Len(text) = size
    BY <1>2, <1>4, <1>11
  <2> QED BY <1>8, <2>1
<1>13. \A i \in 1 .. Len(text) : what[q.fd[to].offset + i - 1] = text[i]
  BY <1>6, <1>11
<1>14. WroteOver(q, c, to, text)
  BY <1>1, <1>5, <1>7, <1>11, <1>12, <1>13, WroteViews
<1>15. /\ HoldsOf(c) = [HoldsOf(q) EXCEPT ![g] = Abstract!Overlay(HoldsOf(q)[g], 0, text)]
       /\ SavesOf(c) = [SavesOf(q) EXCEPT ![g] = Abstract!InPlace(SavesOf(q)[g], 0, text)]
       /\ AtOf(c) = [AtOf(q) EXCEPT ![g] = 0 + Len(text)]
  BY <1>11, <1>14 DEF WroteOver
<1>16. \A h \in Files \ {f, g} : AtOf(c)[h] = AtOf(p)[h]
  <2>1. /\ AtOf(p) = [h \in Files |-> AtOf(p)[h]] /\ AtOf(q) = [h \in Files |-> AtOf(q)[h]]
        /\ AtOf(c) = [h \in Files |-> AtOf(c)[h]]
    BY DEF AtOf
  <2>2. \A h \in Files \ {f, g} : AtOf(c)[h] = AtOf(q)[h]
    BY <1>15, <2>1
  <2>3. \A h \in Files \ {f, g} : AtOf(q)[h] = AtOf(p)[h]
    BY <1>7, <2>1
  <2> QED BY <2>2, <2>3
<1>17. c.fd[from].file = f /\ c.fd[to].file = g
  <2> DEFINE new == [file |-> g, offset |-> size]
  <2>1. c.fd = [q.fd EXCEPT ![to] = new]
    BY <1>8, <1>11 DEF Wrote
  <2>2. new.file = g
    OBVIOUS
  <2> HIDE DEF new
  <2>3. c.fd[to] = new /\ c.fd[from] = q.fd[from]
    <3>1. q.fd \in [FDs -> OFTs \cup {Null}]
      BY <1>7, Parts DEF Sound
    <3> QED BY <1>1, <2>1, <3>1
  <2> QED BY <1>9, <1>11, <2>2, <2>3
<1>18. /\ HoldsOf(c) = [HoldsOf(p) EXCEPT ![g] = Abstract!Overlay(@, 0, text)]
       /\ SavesOf(c) = [SavesOf(p) EXCEPT ![g] = Abstract!InPlace(@, 0, text)]
  BY <1>7, <1>15
<1> QED BY <1>2, <1>3, <1>16, <1>17, <1>18 DEF f, g, text

\* cp copies: two files are opened, the bytes copied, and both files closed.
LEMMA CpCopiesViews ==
    ASSUME NEW m, Sound(m), m.st = "up", NEW f \in Files, NEW g \in Files,
           NEW o, Opened(m, f, RD, o), NEW q, Opened(Iget(o.m, g), g, RD, q),
           NEW r, CpCopies(f, g, o, q, r), r.bmap # Blks
    PROVE  r.st # "down" /\ CopiedOver(m, r, f, g)
<1> DEFINE i == Iget(o.m, g)
           from == o.n
           to == q.n
           p == q.m
           copy == Abstract!Overlay(HoldsOf(m)[g], 0, HoldsOf(m)[f])
           inplace == Abstract!InPlace(SavesOf(m)[g], 0, HoldsOf(m)[f])
<1>1. /\ Sound(o.m) /\ o.m \in Machines /\ o.m.st = "up" /\ RD # WR /\ RD # AP
      /\ Sound(i) /\ Same(o.m, i) /\ i.st = "up" /\ Sound(p) /\ p.st = "up" /\ p \in Machines
  <2>1. Sound(o.m) /\ o.m \in Machines /\ o.m.st = "up" /\ RD # WR /\ RD # AP
    BY DEF Opened, Sound, RD, WR, AP
  <2>2. Sound(i) /\ Same(o.m, i) /\ i.st = "up"
    BY <2>1, IgetSound, IgetMakes, IgetViews
  <2>3. Sound(p) /\ p.st = "up" /\ p \in Machines
    BY <2>2 DEF Opened, Sound
  <2> QED BY <2>1, <2>2, <2>3
<1>2. /\ f # g /\ from \in FDs /\ to \in FDs /\ Copying(p, from, to)
      /\ p.fd[from].file = f /\ p.fd[to].file = g /\ from # to
  BY DEF CpCopies, Copying
<1>3. PICK c : /\ Sound(c)
               /\ \E s \in 0 .. Size(p, f) : \E t \in 0 .. s :
                     /\ Copied(p, c, from, to, s, t)
                     /\ c.bmap # Blks => s = Size(p, f) /\ t = Size(p, f)
               /\ \E d : Shut(c, from, d) /\ Shut(d, to, r)
  BY DEF CpCopies
<1>4. PICK d : Shut(c, from, d) /\ Shut(d, to, r)
  BY <1>3
<1>5. c.bmap # Blks /\ r.st = c.st
  BY <1>4 DEF Shut
<1>6. Copied(p, c, from, to, Size(p, f), Size(p, f))
  BY <1>3, <1>5
<1>7. OpenedAt(m, f, RD, o)
  BY OpenedViews
<1>8. OpenedAt(i, g, RD, q)
  <2>1. Opened(i, g, RD, q)
    OBVIOUS
  <2> HIDE DEF i
  <2> QED BY <1>1, <2>1, OpenedViews
<1> HIDE DEF i
<1>9. -1 \notin FDs
  BY Constants DEF FDs
<1>10. /\ HoldsOf(p) = HoldsOf(m) /\ SavesOf(p) = SavesOf(m) /\ AtOf(m)[f] = -1 /\ AtOf(m)[g] = -1
       /\ \A h \in Files \ {f, g} : AtOf(p)[h] = AtOf(m)[h]
  <2>1. /\ AtOf(o.m) = [AtOf(m) EXCEPT ![f] = 0] /\ AtOf(p) = [AtOf(i) EXCEPT ![g] = 0]
        /\ AtOf(i) = AtOf(o.m) /\ AtOf(m)[f] = -1 /\ AtOf(i)[g] = -1
    BY <1>1, <1>2, <1>7, <1>8, <1>9 DEF OpenedAt, Same
  <2>2. /\ AtOf(m) = [h \in Files |-> AtOf(m)[h]] /\ AtOf(o.m) = [h \in Files |-> AtOf(o.m)[h]]
        /\ AtOf(p) = [h \in Files |-> AtOf(p)[h]]
    BY DEF AtOf
  <2>3. AtOf(m)[g] = -1
    BY <1>2, <2>1, <2>2
  <2>4. \A h \in Files \ {f, g} : AtOf(p)[h] = AtOf(m)[h]
    BY <2>1, <2>2
  <2>5. HoldsOf(p) = HoldsOf(m) /\ SavesOf(p) = SavesOf(m)
    BY <1>1, <1>2, <1>7, <1>8, <1>9 DEF OpenedAt, Same
  <2> QED BY <2>1, <2>3, <2>4, <2>5
<1> HIDE DEF from, to, p
<1>11. /\ HoldsOf(c) = [HoldsOf(p) EXCEPT ![g] = Abstract!Overlay(@, 0, HoldsOf(p)[f])]
       /\ SavesOf(c) = [SavesOf(p) EXCEPT ![g] = Abstract!InPlace(@, 0, HoldsOf(p)[f])]
       /\ \A h \in Files \ {f, g} : AtOf(c)[h] = AtOf(p)[h]
       /\ c.fd[from].file = f /\ c.fd[to].file = g
  BY <1>2, <1>3, <1>5, <1>6, CopiedViews
<1>12. /\ HoldsOf(m) = [h \in Files |-> HoldsOf(m)[h]] /\ SavesOf(m) = [h \in Files |-> SavesOf(m)[h]]
       /\ AtOf(m) = [h \in Files |-> AtOf(m)[h]]
  BY DEF HoldsOf, SavesOf, AtOf
<1>13. HoldsOf(c) = [HoldsOf(m) EXCEPT ![g] = copy] /\ SavesOf(c) = [SavesOf(m) EXCEPT ![g] = inplace]
  BY <1>10, <1>11
<1> HIDE DEF copy, inplace
<1>14. c \in Machines /\ c.fd[from] # Null /\ Sound(d) /\ d \in Machines
  <2>1. Null.file # f
    BY FilesAssumption DEF Null, NoFile
  <2> QED BY <1>3, <1>4, <1>11, <2>1 DEF Sound, Shut
<1>15. /\ HoldsOf(d) = HoldsOf(c)
       /\ SavesOf(d) = [SavesOf(c) EXCEPT ![f] = IF c.core[f].refCount > 1 THEN @ ELSE HoldsOf(c)[f]]
       /\ AtOf(d) = [AtOf(c) EXCEPT ![f] = -1]
  <2>1. ShutAt(c, from, d)
    BY <1>2, <1>3, <1>4, <1>14, ShutViews
  <2> QED BY <1>11, <2>1 DEF ShutAt
<1>16. d.fd[to] # Null /\ d.fd[to].file = g
  <2>1. d.fd = [c.fd EXCEPT ![from] = Null]
    BY <1>4 DEF Shut
  <2>2. d.fd[to] = c.fd[to]
    BY <1>2, <1>14, <2>1, Parts
  <2>3. Null.file # g
    BY FilesAssumption DEF Null, NoFile
  <2> QED BY <1>11, <2>2, <2>3
<1>17. /\ HoldsOf(r) = HoldsOf(d)
       /\ SavesOf(r) = [SavesOf(d) EXCEPT ![g] = IF d.core[g].refCount > 1 THEN @ ELSE HoldsOf(d)[g]]
       /\ AtOf(r) = [AtOf(d) EXCEPT ![g] = -1]
  <2>1. ShutAt(d, to, r)
    BY <1>2, <1>4, <1>14, <1>16, ShutViews
  <2> QED BY <1>16, <2>1 DEF ShutAt
<1>18. r.st = "up"
  <2> DEFINE s == Size(p, f)
             oft == [file |-> f, offset |-> s]
  <2>1. s \in 0 .. Size(p, p.fd[from].file)
    BY <1>1, <1>2, MinodeParts
  <2>2. PutOFT(p, from, [file |-> p.fd[from].file, offset |-> s]).st = p.st
    BY <1>1, <1>2, <2>1, MoveSound DEF Copying
  <2>3. c.st = PutOFT(p, from, [file |-> p.fd[from].file, offset |-> s]).st
    BY <1>6 DEF Copied, Wrote
  <2> QED BY <1>1, <1>5, <2>2, <2>3
<1>19. HoldsOf(r) = [HoldsOf(m) EXCEPT ![g] = copy]
  BY <1>13, <1>15, <1>17
<1>20. AtOf(r) = AtOf(m)
  <2>1. /\ AtOf(c) = [h \in Files |-> AtOf(c)[h]] /\ AtOf(d) = [h \in Files |-> AtOf(d)[h]]
        /\ AtOf(r) = [h \in Files |-> AtOf(r)[h]]
    BY DEF AtOf
  <2>2. AtOf(d)[f] = -1 /\ \A h \in Files \ {f} : AtOf(d)[h] = AtOf(c)[h]
    BY <1>15, <2>1
  <2>3. AtOf(r)[g] = -1 /\ \A h \in Files \ {g} : AtOf(r)[h] = AtOf(d)[h]
    BY <1>17, <2>1
  <2>4. ASSUME NEW h \in Files PROVE AtOf(r)[h] = AtOf(m)[h]
    <3>1. CASE h \in {f, g}
      BY <1>2, <1>10, <2>2, <2>3, <3>1
    <3>2. CASE h \notin {f, g}
      BY <1>10, <1>11, <2>2, <2>3, <3>2
    <3> QED BY <3>1, <3>2
  <2> QED BY <1>12, <2>1, <2>4
<1>21. \E s \in {SavesOf(m)[f], HoldsOf(m)[f]}, t \in {inplace, copy} :
          SavesOf(r) = [SavesOf(m) EXCEPT ![f] = s, ![g] = t]
  <2> DEFINE s == SavesOf(r)[f]
             t == SavesOf(r)[g]
  <2>1. /\ SavesOf(c) = [h \in Files |-> SavesOf(c)[h]] /\ SavesOf(d) = [h \in Files |-> SavesOf(d)[h]]
        /\ SavesOf(r) = [h \in Files |-> SavesOf(r)[h]]
    BY DEF SavesOf
  <2>2. SavesOf(c)[g] = inplace /\ SavesOf(c)[f] = SavesOf(m)[f]
        /\ \A h \in Files \ {f, g} : SavesOf(c)[h] = SavesOf(m)[h]
    BY <1>2, <1>12, <1>13
  <2>3. HoldsOf(c)[f] = HoldsOf(m)[f] /\ HoldsOf(d)[g] = copy
    BY <1>2, <1>12, <1>13, <1>15
  <2>4. SavesOf(d)[f] \in {SavesOf(c)[f], HoldsOf(c)[f]} /\ SavesOf(d)[g] = SavesOf(c)[g]
        /\ \A h \in Files \ {f, g} : SavesOf(d)[h] = SavesOf(c)[h]
    BY <1>2, <1>15, <2>1
  <2>5. SavesOf(r)[g] \in {SavesOf(d)[g], HoldsOf(d)[g]} /\ SavesOf(r)[f] = SavesOf(d)[f]
        /\ \A h \in Files \ {f, g} : SavesOf(r)[h] = SavesOf(d)[h]
    BY <1>2, <1>17, <2>1
  <2>6. s \in {SavesOf(m)[f], HoldsOf(m)[f]} /\ t \in {inplace, copy}
    BY <2>2, <2>3, <2>4, <2>5
  <2>7. SavesOf(r) = [SavesOf(m) EXCEPT ![f] = s, ![g] = t]
    <3> HIDE DEF s, t
    <3>1. s = SavesOf(r)[f] /\ t = SavesOf(r)[g]
      BY DEF s, t
    <3>2. \A h \in Files \ {f, g} : SavesOf(r)[h] = SavesOf(m)[h]
      BY <2>2, <2>4, <2>5
    <3> QED BY <1>2, <1>12, <2>1, <3>1, <3>2
  <2> HIDE DEF s, t
  <2> QED BY <2>6, <2>7
<1> QED BY <1>2, <1>10, <1>18, <1>19, <1>20, <1>21 DEF CopiedOver, copy, inplace

\* A file is opened, at its beginning or at its end, and not emptied.
OpenedIn(m, r) ==
    \E f \in Files : \E p \in {0, Len(HoldsOf(m)[f])} :
        /\ AtOf(m)[f] = -1
        /\ HoldsOf(r) = HoldsOf(m) /\ SavesOf(r) = SavesOf(m)
        /\ AtOf(r) = [AtOf(m) EXCEPT ![f] = p]

\* Opened in another mode than WR, a file is opened in the sense of ByteFiles or nothing changes.
LEMMA OpenedInViews ==
    ASSUME NEW m, NEW f \in Files, NEW mode, mode # WR, NEW o, OpenedAt(m, f, mode, o),
           o.n \in {-1, NFD} \cup FDs
    PROVE  IF o.n \in FDs THEN OpenedIn(m, o.m) ELSE Same(m, o.m)
<1>1. -1 # NFD /\ -1 \notin FDs /\ NFD \notin FDs
  BY Constants DEF FDs
<1>2. CASE o.n \in FDs
  <2>1. /\ SavesOf(o.m) = SavesOf(m) /\ AtOf(m)[f] = -1 /\ HoldsOf(o.m) = HoldsOf(m)
        /\ \E p \in {0, Len(HoldsOf(o.m)[f])} : AtOf(o.m) = [AtOf(m) EXCEPT ![f] = p]
    BY <1>1, <1>2 DEF OpenedAt
  <2>2. PICK p \in {0, Len(HoldsOf(m)[f])} : AtOf(o.m) = [AtOf(m) EXCEPT ![f] = p]
    BY <2>1
  <2>3. OpenedIn(m, o.m)
    BY <2>1, <2>2 DEF OpenedIn
  <2> QED BY <1>2, <2>3
<1>3. CASE o.n \notin FDs
  BY <1>1, <1>3 DEF OpenedAt, Same
<1> QED BY <1>2, <1>3

\* What the program sees of cp: nothing, a file that is left open, or a copy.
LEMMA CpViews ==
    ASSUME NEW m, Sound(m), m.st = "up", NEW f \in Files, NEW g \in Files,
           MyCp(m, f, g).bmap # Blks
    PROVE  LET r == MyCp(m, f, g)
           IN  r.st # "down" /\ (Same(m, r) \/ OpenedIn(m, r) \/ CopiedOver(m, r, f, g))
<1> DEFINE r == MyCp(m, f, g)
<1>1. CpEnds(m, f, g, r) /\ r.bmap # Blks
  BY MyCpMakes
<1> HIDE DEF r
<1>2. PICK o : /\ Opened(m, f, RD, o)
               /\ \/ o.n = -1 /\ r = o.m
                  \/ /\ o.n # -1
                     /\ \E q : /\ Opened(Iget(o.m, g), g, RD, q)
                               /\ \/ q.n = -1 /\ r = q.m
                                  \/ q.n # -1 /\ NFD \in {o.n, q.n} /\ r = Fail(q.m, "undefined")
                                  \/ CpCopies(f, g, o, q, r)
  BY <1>1 DEF CpEnds
<1>3. -1 # NFD /\ -1 \notin FDs /\ NFD \notin FDs /\ RD # WR
  BY Constants DEF FDs, RD, WR
<1>4. Sound(o.m) /\ o.m \in Machines /\ o.m.st = "up" /\ o.n \in {-1, NFD} \cup FDs
  BY <1>2 DEF Opened, Sound
<1>5. OpenedAt(m, f, RD, o)
  BY <1>2, OpenedViews
<1>6. IF o.n \in FDs THEN OpenedIn(m, o.m) ELSE Same(m, o.m)
  BY <1>3, <1>4, <1>5, OpenedInViews
<1>7. CASE o.n = -1 /\ r = o.m
  BY <1>3, <1>4, <1>6, <1>7 DEF r
<1>8. CASE /\ o.n # -1
           /\ \E q : /\ Opened(Iget(o.m, g), g, RD, q)
                     /\ \/ q.n = -1 /\ r = q.m
                        \/ q.n # -1 /\ NFD \in {o.n, q.n} /\ r = Fail(q.m, "undefined")
                        \/ CpCopies(f, g, o, q, r)
  <2> DEFINE i == Iget(o.m, g)
  <2>1. PICK q : /\ Opened(i, g, RD, q)
                 /\ \/ q.n = -1 /\ r = q.m
                    \/ q.n # -1 /\ NFD \in {o.n, q.n} /\ r = Fail(q.m, "undefined")
                    \/ CpCopies(f, g, o, q, r)
    BY <1>8
  <2>2. Sound(i) /\ Same(o.m, i) /\ i.st = "up"
    BY <1>4, IgetSound, IgetMakes, IgetViews
  <2>3. CASE CpCopies(f, g, o, q, r)
    BY <1>1, <1>2, <2>1, <2>3, CpCopiesViews DEF r
  <2> HIDE DEF i
  <2>4. OpenedAt(i, g, RD, q)
    BY <2>1, <2>2, OpenedViews
  <2>5. q.n \in {-1, NFD} \cup FDs /\ q.m.st = "up" /\ q.m \in Machines
    BY <2>1, <2>2 DEF Opened, Sound
  <2>6. IF q.n \in FDs THEN OpenedIn(i, q.m) ELSE Same(i, q.m)
    BY <1>3, <2>4, <2>5, OpenedInViews
  <2>7. ASSUME ~ (o.n \in FDs /\ q.n \in FDs)
        PROVE  Same(m, q.m) \/ OpenedIn(m, q.m)
    <3>1. CASE q.n \in FDs
      <4>1. Same(m, o.m)
        BY <1>6, <2>7, <3>1
      <4> QED BY <2>2, <2>6, <3>1, <4>1 DEF Same, OpenedIn
    <3>2. CASE q.n \notin FDs
      BY <1>6, <2>2, <2>6, <3>2 DEF Same, OpenedIn
    <3> QED BY <3>1, <3>2
  <2>8. CASE q.n = -1 /\ r = q.m
    BY <1>3, <2>5, <2>7, <2>8 DEF r
  <2>9. CASE q.n # -1 /\ NFD \in {o.n, q.n} /\ r = Fail(q.m, "undefined")
    <3>1. Same(m, q.m) \/ OpenedIn(m, q.m)
      BY <1>3, <2>7, <2>9
    <3>2. Same(q.m, r) /\ r.st = "undefined"
      BY <2>5, <2>9, FailViews, FailMakes
    <3>3. Same(m, r) \/ OpenedIn(m, r)
      BY <3>1, <3>2 DEF Same, OpenedIn
    <3> QED BY <3>2, <3>3 DEF r
  <2> QED BY <2>1, <2>3, <2>8, <2>9
<1> QED BY <1>2, <1>7, <1>8

-----------------------------------------------------------------------------
(* The steps of ByteFiles.                                                 *)

\* Two machines the mapping sees, before a step and after it.
Seen(m, r) == /\ Holds = HoldsOf(m) /\ Saves = SavesOf(m) /\ At = AtOf(m)
              /\ Holds' = HoldsOf(r) /\ Saves' = SavesOf(r) /\ At' = AtOf(r)

\* A machine in which files hold, save and have open the same is a stutter of ByteFiles.
LEMMA SameStep ==
    ASSUME NEW m, NEW r, Seen(m, r), Same(m, r)
    PROVE  UNCHANGED Abstract!vars
<1>1. Holds' = Holds /\ Saves' = Saves /\ At' = At
  BY DEF Seen, Same
<1> QED BY <1>1 DEF Abstract!vars

\* A machine in which one file has moved is a Move of ByteFiles.
LEMMA MovedStep ==
    ASSUME NEW m, NEW r, Seen(m, r), Moved(m, r)
    PROVE  Abstract!Next
<1>1. PICK f \in Files : \E p \in 0 .. Len(Holds[f]) :
          At[f] # -1 /\ Holds' = Holds /\ Saves' = Saves /\ At' = [At EXCEPT ![f] = p]
  BY DEF Seen, Moved
<1>2. Abstract!Move(f)
  BY <1>1 DEF Abstract!Move
<1> QED BY <1>2 DEF Abstract!Next

\* A machine in which one file has been opened is an Open of ByteFiles.
LEMMA OpenedInStep ==
    ASSUME NEW m, NEW r, Seen(m, r), OpenedIn(m, r)
    PROVE  Abstract!Next
<1>1. PICK f \in Files : \E p \in {0, Len(Holds[f])} :
          At[f] = -1 /\ Holds' = Holds /\ Saves' = Saves /\ At' = [At EXCEPT ![f] = p]
  BY DEF Seen, OpenedIn
<1>2. Abstract!Open(f)
  BY <1>1 DEF Abstract!Open
<1> QED BY <1>2 DEF Abstract!Next

\* A machine in which a text is written over a file is a Write of ByteFiles.
LEMMA WroteStep ==
    ASSUME NEW m, NEW r, Seen(m, r), NEW n, NEW text \in Texts, WroteOver(m, r, n, text),
           m.fd[n].offset # -1
    PROVE  Abstract!Next
<1> DEFINE f == m.fd[n].file
           at == m.fd[n].offset
<1>1. /\ f \in Files /\ At[f] = at /\ at # -1
      /\ Holds' = [Holds EXCEPT ![f] = Abstract!Overlay(Holds[f], at, text)]
      /\ Saves' = [Saves EXCEPT ![f] = Abstract!InPlace(Saves[f], at, text)]
      /\ At' = [At EXCEPT ![f] = at + Len(text)]
  BY DEF Seen, WroteOver
<1> HIDE DEF f, at
<1>2. Abstract!Write(f, text)
  BY <1>1 DEF Abstract!Write
<1> QED BY <1>1, <1>2 DEF Abstract!Next

\* A machine in which a file is copied over another is a Copy of ByteFiles.
LEMMA CopiedStep ==
    ASSUME NEW m, NEW r, Seen(m, r), NEW f \in Files, NEW g \in Files, CopiedOver(m, r, f, g)
    PROVE  Abstract!Next
<1> DEFINE copy == Abstract!Overlay(Holds[g], 0, Holds[f])
           inplace == Abstract!InPlace(Saves[g], 0, Holds[f])
<1>1. /\ f # g /\ At[f] = -1 /\ At[g] = -1 /\ At' = At
      /\ Holds' = [Holds EXCEPT ![g] = copy]
      /\ \E s \in {Saves[f], Holds[f]}, t \in {inplace, copy} :
            Saves' = [Saves EXCEPT ![f] = s, ![g] = t]
  BY DEF Seen, CopiedOver
<1>2. Abstract!Copy(f, g)
  BY <1>1 DEF Abstract!Copy
<1> QED BY <1>2 DEF Abstract!Next

\* A command leaves a machine: the mapping sees it, or what it has on disk.
LEMMA LeavesViews ==
    ASSUME NEW m, Sound(m), Leaves(m)
    PROVE  /\ m.bmap # Blks
           /\ m.st # "down" => Seen(Now, m)
           /\ m.st = "down" => /\ Holds' = SavesOf(m) /\ Saves' = SavesOf(m)
                               /\ At' = [f \in Files |-> -1]
<1>1. m \in Machines
  BY DEF Sound
<1>2. Now' = (IF m.st = "down" THEN Restarted(m) ELSE m) /\ m.bmap # Blks
  BY <1>1, LeavesMakes
<1>3. CASE m.st # "down"
  <2>1. Now' = m
    BY <1>2, <1>3
  <2> QED BY <1>2, <1>3, <2>1, Views DEF Seen
<1>4. CASE m.st = "down"
  <2>1. Now' = Restarted(m)
    BY <1>2, <1>4
  <2>2. Holds' = HoldsOf(Restarted(m)) /\ Saves' = SavesOf(Restarted(m)) /\ At' = AtOf(Restarted(m))
    BY <2>1, Views
  <2> QED BY <1>1, <1>2, <1>4, <2>2, RestartedViews
<1> QED BY <1>3, <1>4

\* The initial states are initial states of ByteFiles.
LEMMA InitStep == Init => Abstract!Init
<1> SUFFICES ASSUME Init PROVE Abstract!Init
  OBVIOUS
<1>1. Inv
  BY InitInv
<1> DEFINE m == Now
<1>2. m \in Machines /\ Holds = HoldsOf(m) /\ Saves = SavesOf(m) /\ At = AtOf(m)
  BY <1>1, Views DEF Inv, Sound
<1>3. ASSUME NEW f \in Files PROVE m.itable[f].size = 0 /\ m.core[f].refCount = 0
  <2>1. itable[f].size = 0
    <3>1. PICK left : Disk(left)
      BY DEF Init
    <3> DEFINE l == IF left[f] >= 1 THEN Block(f, 1) ELSE 0
               d == IF left[f] = 2 THEN Block(f, 2) ELSE 0
    <3>2. itable[f] = [size |-> 0, block |-> [[i \in 1 .. DIND |-> 0]
                          EXCEPT ![1] = Block(f, 0), ![IND] = l, ![DIND] = d]]
      BY <3>1 DEF Empty, Disk
    <3> QED BY <3>2
  <2>2. core[f].refCount = 0
    BY DEF Init, Idle
  <2> QED BY <2>1, <2>2, NowParts
<1>4. \A n \in FDs : m.fd[n] = Null
  BY NowParts DEF Init
<1> HIDE DEF m
<1>5. ASSUME NEW f \in Files PROVE HoldsOf(m)[f] = <<>> /\ SavesOf(m)[f] = <<>> /\ AtOf(m)[f] = -1
  <2>1. /\ SavesOf(m)[f] = Contents(m, m.itable[f]) /\ HoldsOf(m)[f] = SavesOf(m)[f]
        /\ m.itable[f] \in INODEs
    BY <1>2, <1>3, CurMakes DEF Cur
  <2>2. Contents(m, m.itable[f]) \in Seq(Bytes \cup {0}) /\ Len(Contents(m, m.itable[f])) = 0
    BY <1>2, <1>3, <2>1, ContentsMake
  <2>3. SavesOf(m)[f] = <<>>
    BY <2>1, <2>2, EmptySeq
  <2>4. Null.file # f
    BY FilesAssumption DEF Null, NoFile
  <2>5. AtOf(m)[f] = -1
    BY <1>4, <2>4, AtClosed DEF NotOpen
  <2> QED BY <2>1, <2>3, <2>5
<1>6. /\ HoldsOf(m) = [f \in Files |-> HoldsOf(m)[f]] /\ SavesOf(m) = [f \in Files |-> SavesOf(m)[f]]
      /\ AtOf(m) = [f \in Files |-> AtOf(m)[f]]
  BY DEF HoldsOf, SavesOf, AtOf
<1>7. Holds = [f \in Files |-> <<>>] /\ Saves = Holds /\ At = [f \in Files |-> -1]
  BY <1>2, <1>5, <1>6
<1> QED BY <1>7 DEF Abstract!Init

\* The program ends: some of what files hold is on disk, and nothing else is changed.
LEMMA EndStep ==
    ASSUME NEW m, Holds = HoldsOf(m), NEW S \in SUBSET Files,
           Saves' = [f \in Files |-> IF f \in S THEN HoldsOf(m)[f] ELSE Saves[f]],
           Holds' = Saves', At' = [f \in Files |-> -1]
    PROVE  Abstract!Next
<1>1. Saves' = [f \in Files |-> IF f \in S THEN Holds[f] ELSE Saves[f]]
  OBVIOUS
<1>2. Abstract!End
  BY <1>1 DEF Abstract!End
<1> QED BY <1>2 DEF Abstract!Next

\* open is an Open or a Truncate of ByteFiles, or a stutter.
LEMMA OpenStep ==
    ASSUME Inv, NEW f \in Files, NEW mode \in Modes, Open(f, mode)
    PROVE  Abstract!Next \/ UNCHANGED Abstract!vars
<1> DEFINE m == Now
           o == OpenFile(m, f, mode)
<1>1. Sound(m) /\ m.st = "up" /\ Leaves(o.m)
  BY NowParts DEF Inv, Open, Runs
<1> HIDE DEF m
<1>2. Opened(m, f, mode, o)
  BY <1>1, OpenFileMakes
<1> HIDE DEF o
<1>3. Sound(o.m) /\ o.m.st # "down" /\ o.n \in {-1, NFD} \cup FDs
  BY <1>1, <1>2 DEF Opened
<1>4. Seen(m, o.m)
  BY <1>1, <1>3, LeavesViews DEF m
<1>5. OpenedAt(m, f, mode, o)
  BY <1>1, <1>2, OpenedViews
<1>6. CASE mode # WR
  BY <1>3, <1>4, <1>5, <1>6, OpenedInViews, OpenedInStep, SameStep
<1>7. CASE mode = WR /\ o.n = -1
  BY <1>4, <1>5, <1>7, SameStep DEF OpenedAt
<1>8. CASE mode = WR /\ o.n # -1
  <2>1. /\ At[f] = -1 /\ Holds' = [Holds EXCEPT ![f] = <<>>] /\ Saves' = Saves
        /\ \E p \in {0, -1} : At' = [At EXCEPT ![f] = p]
    <3>1. /\ At[f] = -1 /\ Holds' = [Holds EXCEPT ![f] = <<>>] /\ Saves' = Saves
      BY <1>4, <1>5, <1>8 DEF OpenedAt, Seen
    <3>2. CASE o.n \in FDs
      <4>1. \E p \in {0, Len(HoldsOf(o.m)[f])} :
                (mode # AP => p = 0) /\ AtOf(o.m) = [AtOf(m) EXCEPT ![f] = p]
        BY <1>5, <3>2 DEF OpenedAt
      <4>2. AtOf(o.m) = [AtOf(m) EXCEPT ![f] = 0]
        BY <1>8, <4>1 DEF WR, AP
      <4>3. At' = [At EXCEPT ![f] = 0]
        BY <1>4, <4>2 DEF Seen
      <4> QED BY <3>1, <4>3
    <3>3. CASE o.n = NFD
      <4>1. At' = At /\ At = [g \in Files |-> At[g]]
        BY <1>4, <1>5, <3>3 DEF OpenedAt, Seen, At
      <4>2. At' = [At EXCEPT ![f] = -1]
        BY <3>1, <4>1
      <4> QED BY <3>1, <4>2
    <3> QED BY <1>3, <1>8, <3>1, <3>2, <3>3
  <2>2. Abstract!Truncate(f)
    BY <2>1 DEF Abstract!Truncate
  <2> QED BY <2>2 DEF Abstract!Next
<1> QED BY <1>6, <1>7, <1>8

\* close is a Close of ByteFiles, the End of it on a closed descriptor, or a stutter.
LEMMA CloseStep ==
    ASSUME Inv, NEW n \in FDs, Close(n)
    PROVE  Abstract!Next \/ UNCHANGED Abstract!vars
<1> DEFINE m == Now
           r == CloseFile(m, n)
<1>1. Sound(m) /\ m \in Machines /\ m.st = "up" /\ Leaves(r)
  BY NowParts DEF Inv, Close, Runs, Sound
<1>2. Holds = HoldsOf(m) /\ Saves = SavesOf(m) /\ At = AtOf(m)
  BY Views
<1> HIDE DEF m
<1>3. CASE m.fd[n] = Null
  <2>1. r = Fail(m, "down")
    BY <1>3 DEF CloseFile
  <2>2. Sound(r) /\ r.st = "down" /\ Same(m, r)
    BY <1>1, <2>1, FailSound, FailMakes, FailViews
  <2> HIDE DEF r
  <2>3. Holds' = SavesOf(r) /\ Saves' = SavesOf(r) /\ At' = [f \in Files |-> -1]
    BY <1>1, <2>2, LeavesViews
  <2> DEFINE S == {}
  <2>4. Saves' = [f \in Files |-> IF f \in S THEN HoldsOf(m)[f] ELSE Saves[f]]
    BY <1>2, <2>2, <2>3 DEF Same, SavesOf
  <2>5. Holds' = Saves' /\ S \in SUBSET Files
    BY <2>3
  <2> HIDE DEF S
  <2> QED BY <1>2, <2>3, <2>4, <2>5, EndStep
<1>4. CASE m.fd[n] # Null
  <2> DEFINE f == m.fd[n].file
  <2>1. Shut(m, n, r)
    BY <1>1, <1>4, CloseFileMakes
  <2> HIDE DEF r
  <2>2. ShutAt(m, n, r) /\ Sound(r) /\ r.st # "down"
    BY <1>1, <1>4, <2>1, ShutViews DEF Shut
  <2>3. Seen(m, r)
    BY <1>1, <2>2, LeavesViews DEF m
  <2>4. f \in Files /\ AtOf(m)[f] # -1
    BY <1>1, <1>4, OpenViews
  <2>5. /\ Holds' = Holds /\ At' = [At EXCEPT ![f] = -1]
        /\ Saves' = [Saves EXCEPT ![f] = IF m.core[f].refCount > 1 THEN Saves[f] ELSE Holds[f]]
    BY <2>2, <2>3 DEF ShutAt, Seen
  <2> DEFINE last == IF m.core[f].refCount > 1 THEN Saves[f] ELSE Holds[f]
  <2>6. last \in {Saves[f], Holds[f]} /\ Saves' = [Saves EXCEPT ![f] = last]
    BY <2>5
  <2> HIDE DEF f, last
  <2>7. Abstract!Close(f)
    BY <1>2, <2>4, <2>5, <2>6 DEF Abstract!Close
  <2> QED BY <2>4, <2>7 DEF Abstract!Next
<1> QED BY <1>3, <1>4

\* lseek is a Move of ByteFiles or a stutter.
LEMMA LseekStep ==
    ASSUME Inv, NEW f \in Files, NEW pos \in Seeks, Lseek(f, pos)
    PROVE  Abstract!Next \/ UNCHANGED Abstract!vars
<1> DEFINE m == Now
           r == MyLseek(m, f, pos)
<1>1. Sound(m) /\ m.st = "up" /\ Leaves(r) /\ pos \in Nat
  BY NowParts, InputsAssumption DEF Inv, Lseek, Runs
<1> HIDE DEF m
<1>2. r.st # "down" /\ (Same(m, r) \/ Moved(m, r)) /\ Sound(r)
  BY <1>1, LseekViews, CommandSound
<1> HIDE DEF r
<1>3. Seen(m, r)
  BY <1>1, <1>2, LeavesViews DEF m
<1> QED BY <1>2, <1>3, SameStep, MovedStep

\* read is a Move of ByteFiles.
LEMMA ReadStep ==
    ASSUME Inv, NEW n \in FDs, NEW nbytes \in Counts, Read(n, nbytes)
    PROVE  Abstract!Next
<1> DEFINE m == Now
           r == MyRead(m, n, nbytes).m
<1>1. Sound(m) /\ m.st = "up" /\ Leaves(r) /\ nbytes \in Nat /\ m.fd[n] # Null
  BY NowParts, InputsAssumption DEF Inv, Read, Runs
<1> HIDE DEF m
<1>2. r.st # "down" /\ Moved(m, r) /\ Sound(r)
  BY <1>1, ReadViews, CommandSound
<1> HIDE DEF r
<1>3. Seen(m, r)
  BY <1>1, <1>2, LeavesViews DEF m
<1> QED BY <1>2, <1>3, MovedStep

\* write is a Write of ByteFiles.
LEMMA WriteStep ==
    ASSUME Inv, NEW n \in FDs, NEW text \in Texts, Write(n, text)
    PROVE  Abstract!Next
<1> DEFINE m == Now
           r == MyWrite(m, n, text)
<1>1. /\ Sound(m) /\ m.st = "up" /\ Leaves(r) /\ m.fd[n] # Null
      /\ m.fd[n].offset + Len(text) <= MaxSize
  BY NowParts DEF Inv, Write, Runs
<1> HIDE DEF m
<1>2. Sound(r)
  BY <1>1, CommandSound
<1>3. r.bmap # Blks
  BY <1>1, <1>2, LeavesViews
<1>4. r.st # "down" /\ WroteOver(m, r, n, text)
  BY <1>1, <1>3, WriteViews
<1>5. m.fd[n].offset # -1
  <2>1. m.fd[n].offset \in Nat
    BY <1>1, OpenOFT DEF Sound
  <2> QED BY <2>1
<1> HIDE DEF r
<1>6. Seen(m, r)
  BY <1>1, <1>2, <1>4, LeavesViews DEF m
<1> QED BY <1>4, <1>5, <1>6, WroteStep

\* cat is a stutter of ByteFiles: it closes what it opens.
LEMMA CatStep ==
    ASSUME Inv, NEW f \in Files, Cat(f)
    PROVE  UNCHANGED Abstract!vars
<1> DEFINE m == Now
           r == MyCat(m, f)
<1>1. Sound(m) /\ m.st = "up" /\ Leaves(r)
  BY NowParts DEF Inv, Cat, Runs
<1> HIDE DEF m
<1>2. r.st # "down" /\ Same(m, r) /\ Sound(r)
  BY <1>1, CatViews, CommandSound
<1> HIDE DEF r
<1>3. Seen(m, r)
  BY <1>1, <1>2, LeavesViews DEF m
<1> QED BY <1>2, <1>3, SameStep

\* cp is a Copy of ByteFiles, an Open when the second open fails, or a stutter.
LEMMA CpStep ==
    ASSUME Inv, NEW f \in Files, NEW g \in Files, Cp(f, g)
    PROVE  Abstract!Next \/ UNCHANGED Abstract!vars
<1> DEFINE m == Now
           r == MyCp(m, f, g)
<1>1. Sound(m) /\ m.st = "up" /\ Leaves(r)
  BY NowParts DEF Inv, Cp, Runs
<1> HIDE DEF m
<1>2. Sound(r)
  BY <1>1, CommandSound
<1>3. r.bmap # Blks
  BY <1>1, <1>2, LeavesViews
<1>4. r.st # "down" /\ (Same(m, r) \/ OpenedIn(m, r) \/ CopiedOver(m, r, f, g))
  BY <1>1, <1>3, CpViews
<1> HIDE DEF r
<1>5. Seen(m, r)
  BY <1>1, <1>2, <1>4, LeavesViews DEF m
<1> QED BY <1>4, <1>5, SameStep, OpenedInStep, CopiedStep

\* quit is an End of ByteFiles: some files keep what they held, others what was saved.
LEMMA QuitStep ==
    ASSUME Inv, Quit
    PROVE  Abstract!Next
<1> DEFINE m == Now
           r == QuitTo(m)
<1>1. Sound(m) /\ Leaves(r)
  BY NowParts DEF Inv, Quit, QuitTo, Saved, Now
<1>2. Holds = HoldsOf(m) /\ Saves = SavesOf(m)
  BY Views
<1> HIDE DEF m
<1>3. PICK S \in SUBSET Files :
         SavesOf(r) = [f \in Files |-> IF f \in S THEN HoldsOf(m)[f] ELSE SavesOf(m)[f]]
  BY <1>1, QuitViews
<1>4. Sound(r) /\ r.st = "down"
  BY <1>1, QuitSound
<1> HIDE DEF r
<1>5. Holds' = SavesOf(r) /\ Saves' = SavesOf(r) /\ At' = [f \in Files |-> -1]
  BY <1>1, <1>4, LeavesViews
<1>6. Saves' = [f \in Files |-> IF f \in S THEN HoldsOf(m)[f] ELSE Saves[f]] /\ Holds' = Saves'
  BY <1>2, <1>3, <1>5
<1> QED BY <1>2, <1>5, <1>6, EndStep

\* kill is an End of ByteFiles at which no more is saved.
LEMMA KillStep ==
    ASSUME Inv, Kill
    PROVE  Abstract!Next
<1> DEFINE m == Now
           r == Fail(m, "down")
<1>1. Sound(m) /\ m \in Machines /\ Leaves(r)
  BY NowParts DEF Inv, Kill, Sound
<1>2. Holds = HoldsOf(m) /\ Saves = SavesOf(m)
  BY Views
<1> HIDE DEF m
<1>3. Sound(r) /\ r.st = "down" /\ Same(m, r)
  BY <1>1, FailSound, FailMakes, FailViews
<1> HIDE DEF r
<1>4. Holds' = SavesOf(r) /\ Saves' = SavesOf(r) /\ At' = [f \in Files |-> -1]
  BY <1>1, <1>3, LeavesViews
<1> DEFINE S == {}
<1>5. /\ Saves' = [f \in Files |-> IF f \in S THEN HoldsOf(m)[f] ELSE Saves[f]]
      /\ Holds' = Saves' /\ S \in SUBSET Files
  BY <1>2, <1>3, <1>4 DEF Same, SavesOf
<1> HIDE DEF S
<1> QED BY <1>2, <1>4, <1>5, EndStep

\* A command that is not typed leaves the files as they are.
LEMMA StutterStep ==
    ASSUME UNCHANGED vars
    PROVE  UNCHANGED Abstract!vars
<1>1. Now' = Now
  BY DEF vars, Now
<1>2. Holds' = Holds /\ Saves' = Saves /\ At' = At
  BY <1>1, Views
<1> QED BY <1>2 DEF Abstract!vars

\* Through all levels of block pointers, reference counts and locks, open, close, lseek,
\* read, write, cat and cp treat a file as a sequence of bytes that is open at one place.
THEOREM FilesAreBytes == Spec => ImplementsByteFiles
<1>1. Init => Abstract!Init
  BY InitStep
<1>2. Inv /\ [Next]_vars => [Abstract!Next]_(Abstract!vars)
  <2> SUFFICES ASSUME Inv, [Next]_vars PROVE Abstract!Next \/ UNCHANGED Abstract!vars
    OBVIOUS
  <2> QED BY OpenStep, CloseStep, LseekStep, ReadStep, WriteStep, CatStep, CpStep, QuitStep,
             KillStep, StutterStep DEF Next
<1>3. Spec => []Inv
  BY FilesInvariant
<1> QED BY <1>1, <1>2, <1>3, PTL DEF Spec, ImplementsByteFiles, Abstract!Spec
=============================================================================
