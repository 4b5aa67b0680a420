------------------------------ MODULE DirBlock ------------------------------
(***************************************************************************)
(* A directory of Final/src as bytes on disk: chains of entries            *)
(*     inode (4 bytes), rec_len (2), name_len (1), file_type (1), name     *)
(* in the blocks i_block[0 .. NDIRECT-1], and what search(), enter_child() *)
(* and rm_child() do to them.  Machine has the same routines on sequences  *)
(* of entries; here are the lengths, the ends of the blocks, the bytes     *)
(* left over from removed entries and the bytes nobody wrote.              *)
(*                                                                         *)
(* A name is a sequence of bytes other than 0.  Numbers fit in a byte, so  *)
(* the high bytes of inode and rec_len are 0: BLKSIZE is small.            *)
(***************************************************************************)
EXTENDS Integers, Sequences, FiniteSets, Functions

CONSTANTS BLKSIZE,      \* bytes in a block
          NDIRECT,      \* direct blocks of a directory, 12 in the program
          Names,        \* names of files
          Inos,         \* their inode numbers
          Junk,         \* blocks of bytes as found in memory that is not initialized
          MaxDrift      \* bound: how far a chain may end behind its block

ASSUME SizeAssumption == /\ BLKSIZE \in Nat /\ BLKSIZE >= 24 /\ BLKSIZE < 256
                         /\ NDIRECT \in Nat \ {0}
\* rmdir() refuses "." and "..", and a line typed is shorter than a block.
DOT == 46
ASSUME NamesAssumption ==
    \A x \in Names : /\ x \in Seq(1 .. 255) /\ x # <<>> /\ Len(x) + 8 <= BLKSIZE
                     /\ x \notin {<<DOT>>, <<DOT, DOT>>}
ASSUME InosAssumption == Inos \subseteq 1 .. 255
ASSUME DriftAssumption == MaxDrift \in Nat /\ BLKSIZE + MaxDrift < 256
ASSUME JunkAssumption == Junk \subseteq [0 .. BLKSIZE - 1 -> 0 .. 255] /\ Junk # {}

VARIABLES blocks,       \* the blocks the directory has, in order
          st            \* "up", "hung", "undefined", or "skewed"

vars == <<blocks, st>>

-----------------------------------------------------------------------------
(* Bytes and entries.                                                      *)

Off == 0 .. BLKSIZE - 1
Zeros == [o \in Off |-> 0]

\* 0 stands for what lies behind the block.
Byte(b, k) == IF k \in Off THEN b[k] ELSE 0
Ino(b, o) == Byte(b, o)
RecLen(b, o) == Byte(b, o + 4)
NameLen(b, o) == Byte(b, o + 6)
Name(b, o) == [k \in 1 .. NameLen(b, o) |-> Byte(b, o + 7 + k)]

\* The length of an entry for a name of len bytes: a multiple of 4.
idealLength_Short(len) == 4 * ((8 + len) \div 4)
idealLength(len) == 4 * ((8 + len + 3) \div 4)

\* strlen() of the name of the entry at o: the bytes before the next 0, or up to
\* the end of the block if there is none.
StrLen(b, o) ==
    LET zeros == {k \in o + 8 .. BLKSIZE - 1 : b[k] = 0}
    IN  IF zeros = {} THEN BLKSIZE - (o + 8)
        ELSE CHOOSE k \in 0 .. BLKSIZE : o + 8 + k \in zeros /\ \A z \in zeros : o + 8 + k <= z

\* The fields of an entry but file_type, which nobody writes; strncpy() leaves the
\* bytes behind the name as they were.
PutEntry(b, o, i, len, x) ==
    [k \in Off |-> CASE k = o -> i
                     [] k \in {o + 1, o + 2, o + 3, o + 5} -> 0
                     [] k = o + 4 -> len
                     [] k = o + 6 -> Len(x)
                     [] k \in o + 8 .. o + 7 + Len(x) -> x[k - o - 7]
                     [] OTHER -> b[k]]

SetRecLen(b, o, len) == [b EXCEPT ![o + 4] = len]

\* The entries of a block in the order they are met: their offsets.  A rec_len of 0
\* leads nowhere; the walk of search() stays there for ever.
Chain(b) ==
    LET from[o \in Nat] == IF o >= BLKSIZE THEN <<>>
                           ELSE IF RecLen(b, o) = 0 THEN <<o>>
                           ELSE <<o>> \o from[o + RecLen(b, o)]
    IN  from[0]
Last(b) == LET to[o \in Nat] == IF RecLen(b, o) = 0 \/ o + RecLen(b, o) >= BLKSIZE THEN o
                                ELSE to[o + RecLen(b, o)]
           IN  to[0]

-----------------------------------------------------------------------------
(* search(): the first entry of that name, the blocks in order.            *)

Hits(b, x) == {o \in Range(Chain(b)) : Name(b, o) = x}
Has(bs, x) == \E k \in DOMAIN bs : Hits(bs[k], x) # {}
search(bs, x) ==
    IF ~Has(bs, x) THEN 0
    ELSE LET k == CHOOSE k \in DOMAIN bs : /\ Hits(bs[k], x) # {}
                                           /\ \A j \in 1 .. k - 1 : Hits(bs[j], x) = {}
             hits == Hits(bs[k], x)
         IN  Ino(bs[k], CHOOSE o \in hits : \A p \in hits : o <= p)

-----------------------------------------------------------------------------
(* enter_child(): behind the last entry of the first block that seems to   *)
(* have the room, in a new block if there is one to be had, or nowhere.    *)

Room(b) == RecLen(b, Last(b)) - idealLength(NameLen(b, Last(b)))

\* The last entry shrinks to what strlen() takes for its name, and the new one gets
\* what would remain behind the name it has.
Place(b) == Room(b)
Behind(b) == Last(b) + idealLength(StrLen(b, Last(b)))
InRoom(b, x, i) ==
    PutEntry(SetRecLen(b, Last(b), idealLength(StrLen(b, Last(b)))), Behind(b), i, Place(b), x)

CanGrow_OffByOne(bs) == Len(bs) <= NDIRECT
CanGrow(bs) == Len(bs) < NDIRECT
WithRoom_Strict(bs, x) == {k \in DOMAIN bs : Room(bs[k]) > idealLength(Len(x))}
WithRoom(bs, x) == {k \in DOMAIN bs : Room(bs[k]) >= idealLength(Len(x))}

\* Room is computed from name_len and Behind from strlen(): when they differ the chain
\* ends behind the block (bound: MaxDrift), until a write gets there, "undefined".
\* A block just allocated starts as a copy of block number 0, which is zeros.
enter_child(x, i) ==
    IF WithRoom(blocks, x) # {}
    THEN LET k == CHOOSE k \in WithRoom(blocks, x) : \A j \in WithRoom(blocks, x) : k <= j
             b == blocks[k]
         IN  IF Behind(b) + 8 + Len(x) > BLKSIZE
             THEN st' = "undefined" /\ UNCHANGED blocks
             ELSE /\ Behind(b) + Place(b) <= BLKSIZE + MaxDrift
                  /\ blocks' = [blocks EXCEPT ![k] = InRoom(b, x, i)]
                  /\ UNCHANGED st
    ELSE /\ blocks' = IF CanGrow(blocks)
                      THEN Append(blocks, PutEntry(Zeros, 0, i, BLKSIZE, x)) ELSE blocks
         /\ UNCHANGED st

-----------------------------------------------------------------------------
(* rm_child(), which walks all blocks with one set of local variables.     *)

Cut_Unmoved(b, o, junk) == [k \in Off |-> IF k + RecLen(b, o) < BLKSIZE THEN b[k] ELSE junk[k]]
\* memcpy() of what is before and behind the entry at o; the tail of modBuf[] is as
\* it was found in memory.
Cut(b, o, junk) ==
    [k \in Off |-> IF k < o THEN b[k]
                   ELSE IF k + RecLen(b, o) < BLKSIZE THEN b[k + RecLen(b, o)] ELSE junk[k]]

\* What remains of block b without x: the entries behind it move up and the last one
\* gets its length, or, if x is the last, the one before it does.
Before_Removed(b, o) == o
Before(b, o) == CHOOSE p \in Range(Chain(b)) : p + RecLen(b, p) = o
Grown(b, o, len) == SetRecLen(b, o, RecLen(b, o) + len)
Without(b, x, junk) ==
    LET o == CHOOSE o \in Hits(b, x) : TRUE
        l == Last(b)
        len == RecLen(b, o)
    IN  IF Hits(b, x) = {} THEN b
        ELSE IF o = l THEN Grown(b, Before(b, o), len)
        ELSE Grown(Cut(b, o, junk), l - len, len)

\* One block.  s: the blocks, how the call goes, the variable name[], and removedSize
\* # 0.  A block of one entry is freed and zeroed if the name seen last, in another
\* block, is not x, and the loop finds no end in it.  A block read with a size, a
\* removedSize or a prevDp of an earlier one: "skewed".
rm_block(s, k, x, junk) ==
    LET b == s.blocks[k]
        one == Last(b) = 0
    IN  IF s.st # "up" THEN s
        ELSE IF s.name # x /\ RecLen(b, 0) = BLKSIZE
             THEN [s EXCEPT !.blocks[k] = Zeros, !.st = "hung"]
        ELSE IF s.removed \/ (one /\ Hits(b, x) # {}) THEN [s EXCEPT !.st = "skewed"]
        ELSE [s EXCEPT !.blocks[k] = Without(b, x, junk),
                       !.name = Name(b, Last(b)),
                       !.removed = Hits(b, x) \ {Last(b)} # {}]

rm_child(bs, x, junk) ==
    LET after[k \in 0 .. Len(bs)] ==
            IF k = 0 THEN [blocks |-> bs, st |-> "up", name |-> <<>>, removed |-> FALSE]
            ELSE rm_block(after[k - 1], k, x, junk)
    IN  after[Len(bs)]

-----------------------------------------------------------------------------
(* The commands.                                                           *)

\* kmkdir() in a block that was never used: "." of 12 bytes, ".." up to the end.
Init == /\ blocks = << PutEntry(PutEntry(Zeros, 0, 2, 12, <<DOT>>),
                                12, 2, BLKSIZE - 12, <<DOT, DOT>>) >>
        /\ st = "up"

\* creat, link, symlink: a name that search() does not find is entered.
Enter(x, i) == /\ st = "up"
               /\ search(blocks, x) = 0
               /\ enter_child(x, i)

\* unlink, rmdir; rmdir also for a name the directory does not have.
Remove(x) == /\ st = "up"
             /\ \E junk \in Junk : LET r == rm_child(blocks, x, junk)
                                   IN  blocks' = r.blocks /\ st' = r.st

Next == \/ \E x \in Names, i \in Inos : Enter(x, i)
        \/ \E x \in Names : Remove(x)

Spec == Init /\ [][Next]_vars

-----------------------------------------------------------------------------
(* Properties.                                                             *)

\* Types: blocks of bytes.
TypeOK == /\ blocks \in Seq([Off -> 0 .. 255]) /\ Len(blocks) \in 1 .. NDIRECT
          /\ st \in {"up", "hung", "undefined", "skewed"}

\* A directory keeps what it was given: search() finds each name entered, with its
\* number, and no other, although names left over from removed entries make
\* enter_child() place the next entry too far behind the last and rm_child() leaves
\* uninitialized bytes behind it.  This ends only where a write crosses the end of
\* the block, and where rm_child() comes to a second block.
Found == {e \in UNION {{<<Name(b, o), Ino(b, o)>> : o \in Range(Chain(b))} :
                           b \in Range(blocks)} : e[1] \in Names}
Map == INSTANCE DirMap WITH dir <- IF st = "up" THEN Found ELSE {}, lost <- st # "up"
ImplementsMap == Map!Spec

\* No entry reaches into the next one, however its rec_len was computed.
EntriesApart ==
    st = "up" =>
        \A b \in Range(blocks) : \A o \in Range(Chain(b)) :
            o + RecLen(b, o) < BLKSIZE => RecLen(b, o) >= 8 + NameLen(b, o)

\* rm_child() of a name leaves it nowhere in the directory, wherever in its block it
\* was, and whatever the removals before left behind.
RemovedIsGone ==
    st = "up" => \A x \in Names, junk \in Junk :
                    LET r == rm_child(blocks, x, junk)
                    IN  r.st = "up" => ~Has(r.blocks, x)

\* enter_child() drops a name without a word only if there is really no room for it:
\* in no block do the entries, packed, leave the bytes it needs.
Packed(b) == LET c == Chain(b)
                 sum[k \in 0 .. Len(c)] ==
                     IF k = 0 THEN 0 ELSE sum[k - 1] + idealLength(NameLen(b, c[k]))
             IN  sum[Len(c)]
DropsOnlyWhenFull ==
    st = "up" => \A x \in Names :
                    WithRoom(blocks, x) = {} /\ ~CanGrow(blocks) =>
                        \A b \in Range(blocks) : Packed(b) + idealLength(Len(x)) > BLKSIZE

=============================================================================
