--------------------------- MODULE DirBlockProofs ---------------------------
(***************************************************************************)
(* Theorems about DirBlock, for every block size below 256, every number   *)
(* of blocks and all names and numbers: the bytes of a directory stay a    *)
(* chain of entries through enter_child() and rm_child(), and a directory  *)
(* is a map from names to inode numbers.                                   *)
(***************************************************************************)
EXTENDS DirBlock, SequenceTheorems, Numbers

\* Blocks of bytes.
Bytes == 0 .. 255
Block == [Off -> Bytes]
NameBytes == 1 .. 255

\* An entry in good order: it has a number and its name is within the block, free of
\* zeros, and within its rec_len.
Entry(b, o) == /\ Ino(b, o) # 0
               /\ o + 8 + NameLen(b, o) <= BLKSIZE
               /\ \A k \in 1 .. NameLen(b, o) : Byte(b, o + 7 + k) # 0
               /\ RecLen(b, o) >= 8 + NameLen(b, o)

\* A sequence of offsets linked by the rec_len of each, which ends at the end of the
\* block or up to MaxDrift behind it.
Linked(b, s) == /\ s \in Seq(Off) /\ Len(s) > 0 /\ s[1] = 0
                /\ \A k \in 1 .. Len(s) : Entry(b, s[k])
                /\ \A k \in 1 .. Len(s) - 1 : /\ s[k + 1] = s[k] + RecLen(b, s[k])
                                              /\ RecLen(b, s[k]) >= idealLength(NameLen(b, s[k]))
                /\ s[Len(s)] + RecLen(b, s[Len(s)]) \in BLKSIZE .. BLKSIZE + MaxDrift

\* No name that is looked for is in a block twice.
NamesOnce(b) == \A o, p \in Range(Chain(b)) :
                    Name(b, o) = Name(b, p) /\ Name(b, o) \in Names => o = p

\* A block in good order.  What its entries do not need when packed is all behind the
\* last one, which is where enter_child() looks for room.
Sound(b) == /\ b \in Block
            /\ Linked(b, Chain(b))
            /\ NamesOnce(b)
            /\ Packed(b) + Room(b) >= BLKSIZE

\* The entries of a block, as a map has them, and their names.
Entries(b) == {<<Name(b, o), Ino(b, o)>> : o \in Range(Chain(b))}

NamedIn(b) == {Name(b, o) : o \in Range(Chain(b))}

\* A directory in good order: its blocks are, and no two have a name in common.
Whole(bs) == /\ \A k \in DOMAIN bs : Sound(bs[k])
             /\ \A j, k \in DOMAIN bs : j # k => NamedIn(bs[j]) \cap NamedIn(bs[k]) \cap Names = {}

\* The entries of a directory.
AllEntries(bs) == UNION {Entries(b) : b \in Range(bs)}

\* The inductive invariant.
IInv == TypeOK /\ (st = "up" => Whole(blocks))

-----------------------------------------------------------------------------
(* Bytes and lengths.                                                      *)

\* The parameters.
LEMMA Sizes ==
    /\ BLKSIZE \in Nat /\ BLKSIZE >= 24 /\ BLKSIZE < 256
    /\ NDIRECT \in Nat /\ NDIRECT > 0
    /\ MaxDrift \in Nat /\ BLKSIZE + MaxDrift < 256
    /\ Junk \subseteq Block
BY SizeAssumption, DriftAssumption, JunkAssumption DEF Bytes, Block, Off

\* Bytes are the numbers below 256, and those of a name are not 0.
LEMMA ByteNumbers ==
    /\ \A n \in Nat : n < 256 => n \in Bytes
    /\ \A n \in Bytes : n \in Nat /\ n < 256
    /\ \A n \in NameBytes : n \in Bytes /\ n # 0
BY DEF Bytes, NameBytes

\* What is read of a block is a byte, wherever it is read.
LEMMA ByteIsByte ==
    ASSUME NEW b \in Block, NEW k \in Int
    PROVE  Byte(b, k) \in Bytes
BY Sizes DEF Block, Byte, Bytes, Off

\* So are the fields of an entry.
LEMMA FieldsAreBytes ==
    ASSUME NEW b \in Block, NEW o \in Int
    PROVE  Ino(b, o) \in Bytes /\ RecLen(b, o) \in Bytes /\ NameLen(b, o) \in Bytes
BY ByteIsByte DEF Ino, RecLen, NameLen

\* An entry of the ideal length holds its head and its name, and a longer name needs
\* no less.
LEMMA IdealLength ==
    ASSUME NEW len \in Nat
    PROVE  /\ idealLength(len) \in Nat /\ idealLength(len) >= 8 + len
           /\ idealLength(len) <= 8 + len + 3
           /\ \A more \in Nat : len <= more => idealLength(len) <= idealLength(more)
BY DEF idealLength

-----------------------------------------------------------------------------
(* The chain of a block.                                                   *)

\* The recursion of Chain has a solution, which is built from the end of the block.
LEMMA ChainRecursion ==
    ASSUME NEW b \in Block
    PROVE  \E f : /\ Chain(b) = f[0]
                  /\ \A o \in Nat : f[o] = IF o >= BLKSIZE THEN <<>>
                                           ELSE IF RecLen(b, o) = 0 THEN <<o>>
                                           ELSE <<o>> \o f[o + RecLen(b, o)]
<1> DEFINE Body(f, o) == IF o >= BLKSIZE THEN <<>>
                         ELSE IF RecLen(b, o) = 0 THEN <<o>>
                         ELSE <<o>> \o f[o + RecLen(b, o)]
           Solved(f, d) == \A o \in Nat : o + d >= BLKSIZE => f[o] = Body(f, o)
           S == {d \in Nat : \E f : f = [o \in Nat |-> f[o]] /\ Solved(f, d)}
<1>1. 0 \in S
  <2>1. [o \in Nat |-> <<>>] = [o \in Nat |-> [p \in Nat |-> <<>>][o]]
      /\ Solved([o \in Nat |-> <<>>], 0)
    BY Sizes
  <2> QED BY <2>1
<1>2. ASSUME NEW d \in Nat, d \in S PROVE d + 1 \in S
  <2>1. PICK f : f = [o \in Nat |-> f[o]] /\ Solved(f, d)
    BY <1>2
  <2> DEFINE g == [o \in Nat |-> IF o + d + 1 = BLKSIZE THEN Body(f, o) ELSE f[o]]
  <2>2. ASSUME NEW o \in Nat, o + (d + 1) >= BLKSIZE PROVE g[o] = Body(g, o)
    <3>1. RecLen(b, o) \in Nat
      BY FieldsAreBytes DEF Bytes
    <3>2. ASSUME RecLen(b, o) # 0 PROVE g[o + RecLen(b, o)] = f[o + RecLen(b, o)]
      BY <2>2, <3>1, <3>2, Sizes
    <3>3. Body(g, o) = Body(f, o)
      BY <3>2
    <3>4. g[o] = Body(f, o)
      <4>1. CASE o + d + 1 = BLKSIZE
        BY <4>1
      <4>2. CASE o + d + 1 # BLKSIZE
        <5>1. o + d >= BLKSIZE
          BY <2>2, <4>2, Sizes
        <5> QED BY <2>1, <4>2, <5>1
      <4> QED BY <4>1, <4>2
    <3> QED BY <3>3, <3>4
  <2>3. g = [o \in Nat |-> g[o]]
    OBVIOUS
  <2> HIDE DEF g
  <2>4. Solved(g, d + 1)
    BY <2>2
  <2> HIDE DEF Solved
  <2>5. \E h : h = [o \in Nat |-> h[o]] /\ Solved(h, d + 1)
    BY <2>3, <2>4
  <2> QED BY <2>5
<1>3. BLKSIZE \in S
  <2> HIDE DEF S
  <2> QED BY <1>1, <1>2, SetInduction, Sizes
<1>4. PICK f : f = [o \in Nat |-> f[o]] /\ Solved(f, BLKSIZE)
  BY <1>3
<1>5. f = [o \in Nat |-> Body(f, o)]
  <2> HIDE DEF Body
  <2>1. \A o \in Nat : o + BLKSIZE >= BLKSIZE
    BY Sizes
  <2>2. \A o \in Nat : f[o] = Body(f, o)
    BY <1>4, <2>1
  <2> QED BY <1>4, <2>2
<1> DEFINE from == CHOOSE h : h = [o \in Nat |-> Body(h, o)]
<1>6. from = [o \in Nat |-> Body(from, o)]
  <2> HIDE DEF Body
  <2> QED BY <1>5
<1>7. Chain(b) = from[0]
  BY DEF Chain
<1> HIDE DEF from
<1>8. \A o \in Nat : from[o] = Body(from, o)
  <2> HIDE DEF Body
  <2> QED BY <1>6
<1> QED BY <1>7, <1>8

\* So has the recursion of Last.
LEMMA LastRecursion ==
    ASSUME NEW b \in Block
    PROVE  \E f : /\ Last(b) = f[0]
                  /\ \A o \in Nat : f[o] = IF RecLen(b, o) = 0 \/ o + RecLen(b, o) >= BLKSIZE
                                           THEN o ELSE f[o + RecLen(b, o)]
<1> DEFINE Body(f, o) == IF RecLen(b, o) = 0 \/ o + RecLen(b, o) >= BLKSIZE
                         THEN o ELSE f[o + RecLen(b, o)]
           Solved(f, d) == \A o \in Nat : o + d >= BLKSIZE => f[o] = Body(f, o)
           S == {d \in Nat : \E f : f = [o \in Nat |-> f[o]] /\ Solved(f, d)}
<1>1. 0 \in S
  <2> DEFINE g == [o \in Nat |-> o]
  <2>1. ASSUME NEW o \in Nat, o + 0 >= BLKSIZE PROVE g[o] = Body(g, o)
    BY <2>1, FieldsAreBytes, Sizes DEF Bytes
  <2>2. g = [o \in Nat |-> g[o]]
    OBVIOUS
  <2> HIDE DEF g
  <2>3. Solved(g, 0)
    BY <2>1
  <2> HIDE DEF Solved
  <2>4. \E h : h = [o \in Nat |-> h[o]] /\ Solved(h, 0)
    BY <2>2, <2>3
  <2> QED BY <2>4
<1>2. ASSUME NEW d \in Nat, d \in S PROVE d + 1 \in S
  <2>1. PICK f : f = [o \in Nat |-> f[o]] /\ Solved(f, d)
    BY <1>2
  <2> DEFINE g == [o \in Nat |-> IF o + d + 1 = BLKSIZE THEN Body(f, o) ELSE f[o]]
  <2>2. ASSUME NEW o \in Nat, o + (d + 1) >= BLKSIZE PROVE g[o] = Body(g, o)
    <3>1. RecLen(b, o) \in Nat
      BY FieldsAreBytes DEF Bytes
    <3>2. ASSUME RecLen(b, o) # 0 PROVE g[o + RecLen(b, o)] = f[o + RecLen(b, o)]
      BY <2>2, <3>1, <3>2, Sizes
    <3>3. Body(g, o) = Body(f, o)
      BY <3>2
    <3>4. g[o] = Body(f, o)
      <4>1. CASE o + d + 1 = BLKSIZE
        BY <4>1
      <4>2. CASE o + d + 1 # BLKSIZE
        <5>1. o + d >= BLKSIZE
          BY <2>2, <4>2, Sizes
        <5> QED BY <2>1, <4>2, <5>1
      <4> QED BY <4>1, <4>2
    <3> QED BY <3>3, <3>4
  <2>3. g = [o \in Nat |-> g[o]]
    OBVIOUS
  <2> HIDE DEF g
  <2>4. Solved(g, d + 1)
    BY <2>2
  <2> HIDE DEF Solved
  <2>5. \E h : h = [o \in Nat |-> h[o]] /\ Solved(h, d + 1)
    BY <2>3, <2>4
  <2> QED BY <2>5
<1>3. BLKSIZE \in S
  <2> HIDE DEF S
  <2> QED BY <1>1, <1>2, SetInduction, Sizes
<1>4. PICK f : f = [o \in Nat |-> f[o]] /\ Solved(f, BLKSIZE)
  BY <1>3
<1>5. f = [o \in Nat |-> Body(f, o)]
  <2> HIDE DEF Body
  <2>1. \A o \in Nat : o + BLKSIZE >= BLKSIZE
    BY Sizes
  <2>2. \A o \in Nat : f[o] = Body(f, o)
    BY <1>4, <2>1
  <2> QED BY <1>4, <2>2
<1> DEFINE to == CHOOSE h : h = [o \in Nat |-> Body(h, o)]
<1>6. to = [o \in Nat |-> Body(to, o)]
  <2> HIDE DEF Body
  <2> QED BY <1>5
<1>7. Last(b) = to[0]
  BY DEF Last
<1> HIDE DEF to
<1>8. \A o \in Nat : to[o] = Body(to, o)
  <2> HIDE DEF Body
  <2> QED BY <1>6
<1> QED BY <1>7, <1>8

\* What a link says of its entry.
LEMMA LinkFacts ==
    ASSUME NEW b \in Block, NEW s, Linked(b, s), NEW k \in 1 .. Len(s)
    PROVE  /\ Len(s) \in Nat
           /\ s[k] \in Nat /\ s[k] < BLKSIZE /\ Entry(b, s[k])
           /\ RecLen(b, s[k]) \in Nat /\ NameLen(b, s[k]) \in Nat
           /\ RecLen(b, s[k]) >= 8 + NameLen(b, s[k])
           /\ s[k] + 8 + NameLen(b, s[k]) <= BLKSIZE
<1>1. Len(s) \in Nat /\ s[k] \in Off /\ Entry(b, s[k])
  BY DEF Linked
<1>2. s[k] \in Nat /\ s[k] < BLKSIZE
  BY <1>1, Sizes DEF Off
<1>3. RecLen(b, s[k]) \in Nat /\ NameLen(b, s[k]) \in Nat
  <2>1. s[k] \in Int
    BY <1>2
  <2>2. RecLen(b, s[k]) \in Bytes /\ NameLen(b, s[k]) \in Bytes
    BY <2>1, FieldsAreBytes
  <2> QED BY <2>2, ByteNumbers
<1>4. RecLen(b, s[k]) >= 8 + NameLen(b, s[k]) /\ s[k] + 8 + NameLen(b, s[k]) <= BLKSIZE
  BY <1>1 DEF Entry
<1> QED BY <1>1, <1>2, <1>3, <1>4

\* No entry of a chain reaches into a later one.
LEMMA LinksApart ==
    ASSUME NEW b \in Block, NEW s, Linked(b, s),
           NEW j \in 1 .. Len(s), NEW k \in 1 .. Len(s), j < k
    PROVE  s[j] + RecLen(b, s[j]) <= s[k]
<1> DEFINE S == {d \in Nat : j + d + 1 <= Len(s) => s[j] + RecLen(b, s[j]) <= s[j + d + 1]}
<1>0. Len(s) \in Nat
  BY DEF Linked
<1>1. 0 \in S
  <2>1. SUFFICES ASSUME j + 0 + 1 <= Len(s) PROVE s[j] + RecLen(b, s[j]) <= s[j + 0 + 1]
    OBVIOUS
  <2>2. j \in 1 .. Len(s) - 1 /\ j + 0 + 1 = j + 1
    BY <1>0, <2>1
  <2>3. s[j + 1] = s[j] + RecLen(b, s[j])
    BY <2>2 DEF Linked
  <2>4. s[j] \in Nat /\ RecLen(b, s[j]) \in Nat
    BY LinkFacts
  <2> QED BY <2>2, <2>3, <2>4
<1>2. ASSUME NEW d \in Nat, d \in S PROVE d + 1 \in S
  <2>1. SUFFICES ASSUME j + (d + 1) + 1 <= Len(s)
                 PROVE  s[j] + RecLen(b, s[j]) <= s[j + (d + 1) + 1]
    OBVIOUS
  <2> DEFINE i == j + d + 1
  <2>2. i \in 1 .. Len(s) - 1 /\ i \in 1 .. Len(s) /\ i + 1 = j + (d + 1) + 1
    BY <1>0, <2>1
  <2>3. s[j] + RecLen(b, s[j]) <= s[i]
    BY <1>0, <1>2, <2>1
  <2> HIDE DEF i
  <2>4. s[i + 1] = s[i] + RecLen(b, s[i])
    BY <2>2 DEF Linked
  <2>5. /\ s[i] \in Nat /\ RecLen(b, s[i]) \in Nat
        /\ s[j] \in Nat /\ RecLen(b, s[j]) \in Nat
    BY <2>2, LinkFacts
  <2> QED BY <2>2, <2>3, <2>4, <2>5
<1>3. k - j - 1 \in S
  <2>1. k - j - 1 \in Nat
    BY <1>0
  <2> HIDE DEF S
  <2> QED BY <1>1, <1>2, <2>1, SetInduction
<1>4. j + (k - j - 1) + 1 = k
  BY <1>0
<1> QED BY <1>0, <1>3, <1>4

\* A sequence from k on is its k-th element and the sequence behind it.
LEMMA ConsRest ==
    ASSUME NEW S, NEW s \in Seq(S), NEW k \in 1 .. Len(s)
    PROVE  <<s[k]>> \o [j \in 1 .. Len(s) - k |-> s[k + j]]
             = [j \in 1 .. Len(s) - k + 1 |-> s[k + j - 1]]
<1> DEFINE rest == [j \in 1 .. Len(s) - k |-> s[k + j]]
           all == [j \in 1 .. Len(s) - k + 1 |-> s[k + j - 1]]
<1>1. Len(s) \in Nat /\ \A j \in 1 .. Len(s) : s[j] \in S
  OBVIOUS
<1>2. rest \in Seq(S) /\ Len(rest) = Len(s) - k
  BY <1>1
<1>3. all \in Seq(S) /\ Len(all) = Len(s) - k + 1
  BY <1>1
<1>4. <<s[k]>> \in Seq(S) /\ Len(<<s[k]>>) = 1 /\ <<s[k]>>[1] = s[k]
  BY <1>1
<1>5. /\ <<s[k]>> \o rest \in Seq(S) /\ Len(<<s[k]>> \o rest) = 1 + Len(rest)
      /\ \A i \in 1 .. 1 + Len(rest) :
             (<<s[k]>> \o rest)[i] = IF i <= 1 THEN <<s[k]>>[i] ELSE rest[i - 1]
  <2> HIDE DEF rest
  <2> QED BY <1>2, <1>4, ConcatProperties
<1>6. ASSUME NEW i \in 1 .. Len(s) - k + 1 PROVE (<<s[k]>> \o rest)[i] = all[i]
  <2>1. CASE i = 1
    <3>1. all[i] = s[k]
      BY <1>1, <2>1
    <3> QED BY <1>1, <1>2, <1>4, <1>5, <2>1, <3>1
  <2>2. CASE i # 1
    <3>1. i - 1 \in 1 .. Len(s) - k /\ ~ (i <= 1) /\ k + (i - 1) = k + i - 1
      BY <1>1, <2>2
    <3>2. (<<s[k]>> \o rest)[i] = rest[i - 1]
      BY <1>2, <1>5, <3>1
    <3> QED BY <3>1, <3>2
  <2> QED BY <2>1, <2>2
<1> HIDE DEF rest, all
<1> QED BY <1>1, <1>2, <1>3, <1>5, <1>6, SeqEqual DEF rest, all

\* A linked sequence of entries is the chain of its block.
LEMMA ChainIs ==
    ASSUME NEW b \in Block, NEW s, Linked(b, s)
    PROVE  Chain(b) = s /\ Last(b) = s[Len(s)]
<1>0. s \in Seq(Off) /\ Len(s) \in Nat /\ Len(s) > 0 /\ s[1] = 0
  BY DEF Linked
<1> DEFINE L == Len(s)
<1>1. /\ s[L] \in Nat /\ RecLen(b, s[L]) \in Nat /\ RecLen(b, s[L]) # 0 /\ s[L] < BLKSIZE
      /\ s[L] + RecLen(b, s[L]) >= BLKSIZE
  <2>1. L \in 1 .. L
    BY <1>0
  <2>2. s[L] + RecLen(b, s[L]) \in BLKSIZE .. BLKSIZE + MaxDrift
    BY DEF Linked
  <2> QED BY <2>1, <2>2, LinkFacts, Sizes
<1>2. ASSUME NEW k \in 1 .. L - 1
      PROVE  /\ s[k] \in Nat /\ s[k] < BLKSIZE /\ RecLen(b, s[k]) \in Nat
             /\ RecLen(b, s[k]) # 0 /\ s[k] + RecLen(b, s[k]) = s[k + 1]
             /\ s[k + 1] < BLKSIZE
  <2>1. k \in 1 .. L /\ k + 1 \in 1 .. L
    BY <1>0
  <2>2. s[k + 1] = s[k] + RecLen(b, s[k])
    BY DEF Linked
  <2>3. s[k + 1] < BLKSIZE
    BY <2>1, LinkFacts
  <2> QED BY <2>1, <2>2, <2>3, LinkFacts
<1>00. L = Len(s)
  OBVIOUS
<1> HIDE DEF L
<1>3. Chain(b) = s
  <2>1. PICK f : /\ Chain(b) = f[0]
                 /\ \A o \in Nat : f[o] = IF o >= BLKSIZE THEN <<>>
                                          ELSE IF RecLen(b, o) = 0 THEN <<o>>
                                          ELSE <<o>> \o f[o + RecLen(b, o)]
    BY ChainRecursion
  <2> DEFINE T(k) == [j \in 1 .. L - k + 1 |-> s[k + j - 1]]
             S == {d \in Nat : d < L => f[s[L - d]] = T(L - d)}
  <2>2. 0 \in S
    <3>0. PICK o \in Nat, e \in Nat : o = s[L] /\ e = s[L] + RecLen(b, s[L])
      BY <1>1
    <3>1. f[e] = <<>>
      BY <1>1, <2>1, <3>0
    <3>2. f[s[L]] = <<s[L]>> \o <<>>
      <4>1. ~ (o >= BLKSIZE) /\ RecLen(b, o) # 0 /\ e = o + RecLen(b, o)
        BY <1>1, <3>0, Sizes
      <4>2. f[o] = <<o>> \o f[e]
        BY <2>1, <4>1
      <4> QED BY <3>0, <3>1, <4>2
    <3>3. <<s[L]>> \o <<>> = <<s[L]>>
      BY <1>0, <1>00, ConcatEmptySeq
    <3>4. T(L) = <<s[L]>>
      BY <1>0, <1>00
    <3>5. L - 0 = L
      BY <1>0, <1>00
    <3> QED BY <3>2, <3>3, <3>4, <3>5
  <2>3. ASSUME NEW d \in Nat, d \in S PROVE d + 1 \in S
    <3>1. SUFFICES ASSUME d + 1 < L PROVE f[s[L - (d + 1)]] = T(L - (d + 1))
      OBVIOUS
    <3>2. PICK k \in 1 .. L - 1 : k = L - (d + 1) /\ k + 1 = L - d
      <4>1. L - (d + 1) \in 1 .. L - 1 /\ L - (d + 1) + 1 = L - d
        BY <1>0, <1>00, <3>1
      <4> QED BY <4>1
    <3>3. f[s[k + 1]] = T(k + 1)
      <4> HIDE DEF T
      <4>1. d < L
        BY <1>0, <1>00, <3>1
      <4>2. f[s[L - d]] = T(L - d)
        BY <2>3, <4>1
      <4> QED BY <3>2, <4>2
    <3>4. f[s[k]] = <<s[k]>> \o f[s[k + 1]]
      <4>1. PICK o \in Nat : o = s[k]
        BY <1>2
      <4>2. ~ (o >= BLKSIZE) /\ RecLen(b, o) # 0 /\ o + RecLen(b, o) = s[k + 1]
        BY <1>2, <4>1, Sizes
      <4>3. f[o] = <<o>> \o f[s[k + 1]]
        BY <2>1, <4>2
      <4> QED BY <4>1, <4>3
    <3>5. T(k + 1) = [j \in 1 .. L - k |-> s[k + j]]
      <4>1. L - (k + 1) + 1 = L - k
        BY <1>0, <1>00
      <4>2. \A j \in 1 .. L - k : (k + 1) + j - 1 = k + j
        OBVIOUS
      <4> QED BY <4>1, <4>2
    <3>6. <<s[k]>> \o [j \in 1 .. L - k |-> s[k + j]] = T(k)
      BY <1>0, <1>00, ConsRest
    <3> QED BY <3>2, <3>3, <3>4, <3>5, <3>6
  <2>4. L - 1 \in S
    <3>1. L - 1 \in Nat
      BY <1>0, <1>00
    <3> HIDE DEF S
    <3> QED BY <2>2, <2>3, <3>1, SetInduction
  <2>5. f[s[1]] = T(1)
    <3>1. L - 1 < L /\ L - (L - 1) = 1
      BY <1>0, <1>00
    <3> QED BY <2>4, <3>1
  <2>6. T(1) = s
    <3>1. T(1) \in Seq(Off) /\ Len(T(1)) = L /\ \A j \in 1 .. L : T(1)[j] = s[j]
      BY <1>0, <1>00
    <3> HIDE DEF T
    <3> QED BY <1>0, <1>00, <3>1, SeqEqual
  <2> QED BY <1>0, <1>00, <2>1, <2>5, <2>6
<1>4. Last(b) = s[L]
  <2>1. PICK f : /\ Last(b) = f[0]
                 /\ \A o \in Nat : f[o] = IF RecLen(b, o) = 0 \/ o + RecLen(b, o) >= BLKSIZE
                                          THEN o ELSE f[o + RecLen(b, o)]
    BY LastRecursion
  <2> DEFINE S == {d \in Nat : d < L => f[s[L - d]] = s[L]}
  <2>2. 0 \in S
    <3>1. L - 0 = L
      BY <1>0, <1>00
    <3> QED BY <1>1, <2>1, <3>1
  <2>3. ASSUME NEW d \in Nat, d \in S PROVE d + 1 \in S
    <3>1. SUFFICES ASSUME d + 1 < L PROVE f[s[L - (d + 1)]] = s[L]
      OBVIOUS
    <3>2. PICK k \in 1 .. L - 1 : k = L - (d + 1) /\ k + 1 = L - d
      <4>1. L - (d + 1) \in 1 .. L - 1 /\ L - (d + 1) + 1 = L - d
        BY <1>0, <1>00, <3>1
      <4> QED BY <4>1
    <3>3. f[s[k + 1]] = s[L]
      <4>1. d < L
        BY <1>0, <1>00, <3>1
      <4>2. f[s[L - d]] = s[L]
        BY <2>3, <4>1
      <4> QED BY <3>2, <4>2
    <3>4. f[s[k]] = f[s[k + 1]]
      <4>1. ~ (s[k] + RecLen(b, s[k]) >= BLKSIZE)
        <5> QED BY <1>2, Sizes
      <4> QED BY <1>2, <2>1, <4>1
    <3> QED BY <3>2, <3>3, <3>4
  <2>4. L - 1 \in S
    <3>1. L - 1 \in Nat
      BY <1>0, <1>00
    <3> HIDE DEF S
    <3> QED BY <2>2, <2>3, <3>1, SetInduction
  <2>5. L - 1 < L /\ L - (L - 1) = 1
    BY <1>0, <1>00
  <2> QED BY <1>0, <1>00, <2>1, <2>4, <2>5
<1> QED BY <1>3, <1>4 DEF L

-----------------------------------------------------------------------------
(* What the entries of a block need.                                       *)

\* The sums of the ideal lengths of the entries up to each.
Sums(b, s, g) == /\ g[0] = 0
                 /\ \A k \in 1 .. Len(s) : g[k] = g[k - 1] + idealLength(NameLen(b, s[k]))

\* The recursion of Packed has a solution.
LEMMA PackedHas ==
    ASSUME NEW b, Len(Chain(b)) \in Nat
    PROVE  \E g : Sums(b, Chain(b), g) /\ Packed(b) = g[Len(Chain(b))]
<1> DEFINE c == Chain(b)
           L == Len(c)
           Next1(g, k) == g[k - 1] + idealLength(NameLen(b, c[k]))
           Is(g, j) == g = [k \in 0 .. j |-> IF k = 0 THEN 0 ELSE Next1(g, k)]
           S == {j \in Nat : \E g : Is(g, j)}
<1>1. 0 \in S
  <2>1. Is([k \in 0 .. 0 |-> 0], 0)
    OBVIOUS
  <2> QED BY <2>1
<1>2. ASSUME NEW j \in Nat, j \in S PROVE j + 1 \in S
  <2>1. PICK g : Is(g, j)
    BY <1>2
  <2> DEFINE h == [k \in 0 .. j + 1 |-> IF k <= j THEN g[k] ELSE Next1(g, k)]
  <2>2. ASSUME NEW k \in 0 .. j + 1 PROVE h[k] = IF k = 0 THEN 0 ELSE Next1(h, k)
    <3>1. CASE k = 0
      BY <2>1, <3>1
    <3>2. CASE k # 0
      <4>1. k - 1 \in 0 .. j + 1 /\ k - 1 <= j
        BY <3>2
      <4>2. h[k - 1] = g[k - 1]
        BY <4>1
      <4>3. Next1(h, k) = Next1(g, k)
        BY <4>2
      <4>4. h[k] = Next1(g, k)
        <5>1. CASE k <= j
          <6>1. k \in 0 .. j
            BY <5>1
          <6>2. g[k] = Next1(g, k)
            BY <2>1, <3>2, <6>1
          <6> QED BY <5>1, <6>2
        <5>2. CASE ~ (k <= j)
          BY <5>2
        <5> QED BY <5>1, <5>2
      <4> QED BY <3>2, <4>3, <4>4
    <3> QED BY <3>1, <3>2
  <2>3. h = [k \in 0 .. j + 1 |-> h[k]]
    OBVIOUS
  <2> HIDE DEF h
  <2>4. Is(h, j + 1)
    <3> HIDE DEF Next1
    <3> QED BY <2>2, <2>3
  <2> HIDE DEF Is
  <2>5. \E f : Is(f, j + 1)
    BY <2>4
  <2> QED BY <2>5
<1>3. \E g : Is(g, L)
  <2>1. Nat \subseteq S
    <3> HIDE DEF S
    <3> QED BY <1>1, <1>2, SetInduction
  <2> HIDE DEF Is
  <2> QED BY <2>1
<1> DEFINE sum == CHOOSE g : Is(g, L)
<1>4. Is(sum, L)
  <2> HIDE DEF Is
  <2> QED BY <1>3
<1>5. Packed(b) = sum[L]
  BY DEF Packed
<1> HIDE DEF sum
<1>6. L \in Nat
  OBVIOUS
<1>7. \A k \in 0 .. L : sum[k] = IF k = 0 THEN 0 ELSE Next1(sum, k)
  <2> HIDE DEF Next1, L
  <2> QED BY <1>4
<1>8. Sums(b, Chain(b), sum)
  <2>1. sum[0] = 0
    BY <1>6, <1>7
  <2>2. ASSUME NEW k \in 1 .. L PROVE sum[k] = sum[k - 1] + idealLength(NameLen(b, c[k]))
    <3>1. k \in 0 .. L /\ k # 0
      BY <1>6
    <3> HIDE DEF L
    <3> QED BY <1>7, <3>1
  <2> QED BY <2>1, <2>2 DEF Sums
<1> QED BY <1>5, <1>8

\* It has one.
LEMMA SumsAgree ==
    ASSUME NEW b, NEW s, NEW g, NEW h, Len(s) \in Nat, Sums(b, s, g), Sums(b, s, h),
           NEW k \in 0 .. Len(s)
    PROVE  g[k] = h[k]
<1> DEFINE S == {j \in Nat : j <= Len(s) => g[j] = h[j]}
<1>1. 0 \in S
  BY DEF Sums
<1>2. ASSUME NEW j \in Nat, j \in S PROVE j + 1 \in S
  <2>1. SUFFICES ASSUME j + 1 <= Len(s) PROVE g[j + 1] = h[j + 1]
    OBVIOUS
  <2>2. j + 1 \in 1 .. Len(s) /\ (j + 1) - 1 = j /\ j <= Len(s)
    BY <2>1
  <2>3. g[j] = h[j]
    BY <1>2, <2>2
  <2>4. /\ g[j + 1] = g[(j + 1) - 1] + idealLength(NameLen(b, s[j + 1]))
        /\ h[j + 1] = h[(j + 1) - 1] + idealLength(NameLen(b, s[j + 1]))
    BY <2>2 DEF Sums
  <2> QED BY <2>2, <2>3, <2>4
<1>3. k \in S
  <2>1. k \in Nat
    OBVIOUS
  <2> HIDE DEF S
  <2> QED BY <1>1, <1>2, <2>1, SetInduction
<1> QED BY <1>3

\* So Packed can be read from any sums.
LEMMA PackedIs ==
    ASSUME NEW b, NEW s, NEW g, Len(s) \in Nat, Chain(b) = s, Sums(b, s, g)
    PROVE  Packed(b) = g[Len(s)]
BY PackedHas, SumsAgree

\* The sums are numbers.
LEMMA SumsAreNumbers ==
    ASSUME NEW b, NEW s, NEW g, Len(s) \in Nat, Sums(b, s, g),
           \A k \in 1 .. Len(s) : NameLen(b, s[k]) \in Nat,
           NEW k \in 0 .. Len(s)
    PROVE  g[k] \in Nat
<1> DEFINE S == {j \in Nat : j <= Len(s) => g[j] \in Nat}
<1>1. 0 \in S
  BY DEF Sums
<1>2. ASSUME NEW j \in Nat, j \in S PROVE j + 1 \in S
  <2>1. SUFFICES ASSUME j + 1 <= Len(s) PROVE g[j + 1] \in Nat
    OBVIOUS
  <2>2. j + 1 \in 1 .. Len(s) /\ (j + 1) - 1 = j /\ j <= Len(s)
    BY <2>1
  <2>3. g[j + 1] = g[j] + idealLength(NameLen(b, s[j + 1]))
    BY <2>2 DEF Sums
  <2>4. g[j] \in Nat /\ idealLength(NameLen(b, s[j + 1])) \in Nat
    BY <1>2, <2>2, IdealLength
  <2> QED BY <2>3, <2>4
<1>3. k \in S
  <2>1. k \in Nat
    OBVIOUS
  <2> HIDE DEF S
  <2> QED BY <1>1, <1>2, <2>1, SetInduction
<1> QED BY <1>3

-----------------------------------------------------------------------------
(* What the writes to a block leave in it.                                 *)

\* The length of the entry at o becomes len.
LEMMA LengthSet ==
    ASSUME NEW b \in Block, NEW o \in Nat, o + 8 <= BLKSIZE, NEW len \in Bytes
    PROVE  /\ SetRecLen(b, o, len) \in Block
           /\ RecLen(SetRecLen(b, o, len), o) = len
           /\ \A k \in Int : k # o + 4 => Byte(SetRecLen(b, o, len), k) = Byte(b, k)
<1>1. o + 4 \in Off
  BY Sizes DEF Off
<1> QED BY <1>1 DEF SetRecLen, Block, RecLen, Byte

\* An entry is written at o: what is before it stays.
LEMMA EntryPut ==
    ASSUME NEW b \in Block, NEW o \in Nat, NEW x \in Seq(NameBytes), o + 8 + Len(x) <= BLKSIZE,
           NEW i \in NameBytes, NEW len \in Bytes
    PROVE  LET c == PutEntry(b, o, i, len, x)
           IN  /\ c \in Block
               /\ Ino(c, o) = i /\ RecLen(c, o) = len /\ NameLen(c, o) = Len(x) /\ Name(c, o) = x
               /\ \A k \in 1 .. Len(x) : Byte(c, o + 7 + k) # 0
               /\ \A k \in Int : k < o => Byte(c, k) = Byte(b, k)
<1> DEFINE c == PutEntry(b, o, i, len, x)
           At(k) == CASE k = o -> i
                     [] k \in {o + 1, o + 2, o + 3, o + 5} -> 0
                     [] k = o + 4 -> len
                     [] k = o + 6 -> Len(x)
                     [] k \in o + 8 .. o + 7 + Len(x) -> x[k - o - 7]
                     [] OTHER -> b[k]
<1>0. /\ Len(x) \in Nat /\ Len(x) \in Bytes /\ i \in Bytes /\ 0 \in Bytes
      /\ \A k \in 1 .. Len(x) : x[k] \in Bytes /\ x[k] # 0
  <2>1. Len(x) \in Nat /\ \A k \in 1 .. Len(x) : x[k] \in NameBytes
    OBVIOUS
  <2>2. Len(x) < 256
    BY <2>1, Sizes
  <2>3. Len(x) \in Bytes /\ 0 \in Bytes
    BY <2>1, <2>2, ByteNumbers
  <2> QED BY <2>1, <2>3, ByteNumbers
<1>1. c = [k \in Off |-> At(k)]
  BY DEF PutEntry
<1>2. \A k \in Off : k \in Int /\ b[k] \in Bytes
  BY DEF Off, Block
<1>3. ASSUME NEW k \in Off PROVE At(k) \in Bytes
  <2>1. CASE k \in o + 8 .. o + 7 + Len(x)
    <3>1. k - o - 7 \in 1 .. Len(x)
      BY <1>0, <2>1
    <3>2. x[k - o - 7] \in Bytes
      BY <1>0, <3>1
    <3>3. At(k) = x[k - o - 7]
      BY <1>0, <1>2, <2>1
    <3> QED BY <3>2, <3>3
  <2>2. CASE k \notin o + 8 .. o + 7 + Len(x)
    BY <1>0, <1>2, <2>2
  <2> QED BY <2>1, <2>2
<1>4. c \in Block
  <2> HIDE DEF At, c
  <2> QED BY <1>1, <1>3 DEF Block
<1>5. /\ o \in Off /\ o + 4 \in Off /\ o + 6 \in Off
      /\ \A k \in 1 .. Len(x) : o + 7 + k \in Off /\ o + 7 + k \in o + 8 .. o + 7 + Len(x)
  BY <1>0, Sizes DEF Off
<1>6. At(o) = i /\ At(o + 4) = len /\ At(o + 6) = Len(x)
  OBVIOUS
<1>7. ASSUME NEW k \in 1 .. Len(x) PROVE At(o + 7 + k) = x[k]
  <2>1. (o + 7 + k) - o - 7 = k
    BY <1>0
  <2>2. At(o + 7 + k) = x[(o + 7 + k) - o - 7]
    BY <1>0, <1>5
  <2> QED BY <2>1, <2>2
<1>8. ASSUME NEW k \in Off, k < o PROVE At(k) = b[k]
  BY <1>0, <1>2, <1>8
<1> HIDE DEF At
<1>9. Ino(c, o) = i /\ RecLen(c, o) = len /\ NameLen(c, o) = Len(x)
  BY <1>1, <1>5, <1>6 DEF Ino, RecLen, NameLen, Byte
<1>10. \A k \in 1 .. Len(x) : Byte(c, o + 7 + k) = x[k]
  BY <1>1, <1>5, <1>7 DEF Byte
<1>11. Name(c, o) = x
  <2>1. Name(c, o) = [k \in 1 .. Len(x) |-> x[k]]
    BY <1>9, <1>10 DEF Name
  <2> QED BY <2>1
<1>12. \A k \in 1 .. Len(x) : Byte(c, o + 7 + k) # 0
  BY <1>0, <1>10
<1>13. ASSUME NEW k \in Int, k < o PROVE Byte(c, k) = Byte(b, k)
  BY <1>1, <1>8, <1>13 DEF Byte
<1> HIDE DEF c
<1> QED BY <1>4, <1>9, <1>11, <1>12, <1>13 DEF c

\* c is b with such an entry at o.
Written(b, o, i, len, x, c) ==
    /\ c \in Block
    /\ Ino(c, o) = i /\ RecLen(c, o) = len /\ NameLen(c, o) = Len(x) /\ Name(c, o) = x
    /\ \A k \in 1 .. Len(x) : Byte(c, o + 7 + k) # 0
    /\ \A k \in Int : k < o => Byte(c, k) = Byte(b, k)

\* PutEntry makes it so.
LEMMA EntryWritten ==
    ASSUME NEW b \in Block, NEW o \in Nat, NEW x \in Seq(NameBytes), o + 8 + Len(x) <= BLKSIZE,
           NEW i \in NameBytes, NEW len \in Bytes
    PROVE  Written(b, o, i, len, x, PutEntry(b, o, i, len, x))
<1> DEFINE c == PutEntry(b, o, i, len, x)
<1>1. /\ c \in Block
      /\ Ino(c, o) = i /\ RecLen(c, o) = len /\ NameLen(c, o) = Len(x) /\ Name(c, o) = x
      /\ \A k \in 1 .. Len(x) : Byte(c, o + 7 + k) # 0
      /\ \A k \in Int : k < o => Byte(c, k) = Byte(b, k)
  BY EntryPut
<1> HIDE DEF c
<1>2. Written(b, o, i, len, x, c)
  BY <1>1 DEF Written
<1> QED BY <1>2 DEF c

\* The bytes behind the entry at o are moved onto it.
LEMMA CutOut ==
    ASSUME NEW b \in Block, NEW o \in Nat, NEW junk \in Junk
    PROVE  /\ Cut(b, o, junk) \in Block
           /\ \A k \in Nat : k < o => Byte(Cut(b, o, junk), k) = Byte(b, k)
           /\ \A k \in Nat : k >= o /\ k + RecLen(b, o) < BLKSIZE =>
                  Byte(Cut(b, o, junk), k) = Byte(b, k + RecLen(b, o))
<1>1. RecLen(b, o) \in Nat
  BY FieldsAreBytes DEF Bytes
<1> DEFINE r == RecLen(b, o)
           At(k) == IF k < o THEN b[k] ELSE IF k + r < BLKSIZE THEN b[k + r] ELSE junk[k]
           c == Cut(b, o, junk)
<1>2. c = [k \in Off |-> At(k)]
  BY DEF Cut
<1> HIDE DEF r, c
<1>3. ASSUME NEW k \in Off PROVE At(k) \in Bytes
  <2>1. k + r < BLKSIZE => k + r \in Off
    BY <1>1, Sizes DEF Off, r
  <2> QED BY <2>1, Sizes DEF Block, Bytes
<1>4. c \in Block
  <2> HIDE DEF At
  <2> QED BY <1>2, <1>3 DEF Block
<1>5. ASSUME NEW k \in Nat, k < o PROVE Byte(c, k) = Byte(b, k)
  BY <1>2, <1>5 DEF Byte
<1>6. ASSUME NEW k \in Nat, k >= o, k + r < BLKSIZE PROVE Byte(c, k) = Byte(b, k + r)
  <2>1. k \in Off /\ k + r \in Off /\ ~ (k < o)
    BY <1>1, <1>6, Sizes DEF Off, r
  <2>2. At(k) = b[k + r]
    BY <1>6, <2>1
  <2> QED BY <1>2, <2>1, <2>2 DEF Byte
<1> QED BY <1>4, <1>5, <1>6 DEF r, c

-----------------------------------------------------------------------------
(* Entries that stay, and entries that move.                               *)

\* The bytes of the entry at o of b, its rec_len apart, are at p of c.
Moved(b, o, c, p) == \A j \in 0 .. 7 + NameLen(b, o) : j # 4 => Byte(c, p + j) = Byte(b, o + j)

\* They are the same entry then.
LEMMA MovedEntry ==
    ASSUME NEW b \in Block, NEW c \in Block, NEW o \in Nat, NEW p \in Nat, Moved(b, o, c, p)
    PROVE  /\ Ino(c, p) = Ino(b, o) /\ NameLen(c, p) = NameLen(b, o) /\ Name(c, p) = Name(b, o)
           /\ Entry(b, o) /\ p + 8 + NameLen(b, o) <= BLKSIZE /\ RecLen(c, p) >= 8 + NameLen(b, o)
                 => Entry(c, p)
<1>1. NameLen(b, o) \in Nat
  BY FieldsAreBytes DEF Bytes
<1> DEFINE n == NameLen(b, o)
<1> HIDE DEF n
<1>2. n \in Nat /\ \A j \in 0 .. 7 + n : j # 4 => Byte(c, p + j) = Byte(b, o + j)
  BY <1>1 DEF Moved, n
<1>3. Byte(c, p + 0) = Byte(b, o + 0) /\ Byte(c, p + 6) = Byte(b, o + 6)
  BY <1>2
<1>4. Ino(c, p) = Ino(b, o) /\ NameLen(c, p) = n
  BY <1>3 DEF Ino, NameLen, n
<1>5. ASSUME NEW k \in 1 .. n PROVE Byte(c, p + 7 + k) = Byte(b, o + 7 + k)
  <2>1. 7 + k \in 0 .. 7 + n /\ 7 + k # 4 /\ p + (7 + k) = p + 7 + k /\ o + (7 + k) = o + 7 + k
    BY <1>2
  <2>2. Byte(c, p + (7 + k)) = Byte(b, o + (7 + k))
    BY <1>2, <2>1
  <2> QED BY <2>1, <2>2
<1>6. Name(c, p) = Name(b, o)
  BY <1>4, <1>5 DEF Name, n
<1>7. ASSUME Entry(b, o), p + 8 + n <= BLKSIZE, RecLen(c, p) >= 8 + n PROVE Entry(c, p)
  BY <1>4, <1>5, <1>7 DEF Entry, n
<1> QED BY <1>4, <1>6, <1>7 DEF n

\* strlen() of a name does not stop within it.
LEMMA StrLenCovers ==
    ASSUME NEW b \in Block, NEW o \in Nat, Entry(b, o)
    PROVE  StrLen(b, o) \in Nat /\ StrLen(b, o) >= NameLen(b, o)
<1> DEFINE zeros == {k \in o + 8 .. BLKSIZE - 1 : b[k] = 0}
           First(k) == o + 8 + k \in zeros /\ \A z \in zeros : o + 8 + k <= z
<1>1. NameLen(b, o) \in Nat /\ o + 8 + NameLen(b, o) <= BLKSIZE
  BY FieldsAreBytes, ByteNumbers DEF Entry
<1>2. CASE zeros = {}
  <2>1. StrLen(b, o) = BLKSIZE - (o + 8)
    BY <1>2 DEF StrLen
  <2> QED BY <1>1, <2>1, Sizes
<1>3. CASE zeros # {}
  <2>1. zeros \subseteq Nat
    BY Sizes
  <2>2. PICK z \in zeros : \A y \in zeros : z <= y
    <3> HIDE DEF zeros
    <3> QED BY <1>3, <2>1, LeastNumber
  <2>3. z \in Nat /\ o + 8 <= z /\ z < BLKSIZE
    BY Sizes
  <2>4. z - (o + 8) \in 0 .. BLKSIZE /\ o + 8 + (z - (o + 8)) = z
    BY <2>3, Sizes
  <2>5. First(z - (o + 8))
    <3> HIDE DEF zeros
    <3> QED BY <2>2, <2>4
  <2> DEFINE k == CHOOSE k \in 0 .. BLKSIZE : First(k)
  <2>6. k \in 0 .. BLKSIZE /\ First(k)
    <3> HIDE DEF First
    <3> QED BY <2>4, <2>5
  <2>7. StrLen(b, o) = k
    BY <1>3 DEF StrLen
  <2> HIDE DEF k
  <2>8. k \in Nat /\ o + 8 + k <= BLKSIZE - 1 /\ b[o + 8 + k] = 0
    BY <2>6, Sizes
  <2>9. ASSUME k < NameLen(b, o) PROVE FALSE
    <3>1. k + 1 \in 1 .. NameLen(b, o) /\ o + 7 + (k + 1) = o + 8 + k
      BY <1>1, <2>8, <2>9
    <3>2. Byte(b, o + 8 + k) # 0
      BY <3>1 DEF Entry
    <3>3. o + 8 + k \in Off
      BY <2>8, Sizes DEF Off
    <3> QED BY <2>8, <3>2, <3>3 DEF Byte
  <2> QED BY <1>1, <2>7, <2>8, <2>9
<1> QED BY <1>2, <1>3

-----------------------------------------------------------------------------
(* The names of a block.                                                   *)

\* The chain of a block, by the places of its entries.
LEMMA ChainAt ==
    ASSUME NEW b \in Block, NEW s, Linked(b, s)
    PROVE  /\ Chain(b) = s /\ Len(s) \in Nat /\ Len(s) > 0
           /\ Range(Chain(b)) = {s[k] : k \in 1 .. Len(s)}
           /\ Entries(b) = {<<Name(b, s[k]), Ino(b, s[k])>> : k \in 1 .. Len(s)}
           /\ NamedIn(b) = {Name(b, s[k]) : k \in 1 .. Len(s)}
<1>1. Chain(b) = s
  BY ChainIs
<1>2. s \in Seq(Off) /\ Len(s) \in Nat /\ Len(s) > 0
  BY DEF Linked
<1>3. Range(Chain(b)) = {s[k] : k \in 1 .. Len(s)}
  BY <1>1, <1>2, RangeEquality
<1>4. Entries(b) = {<<Name(b, s[k]), Ino(b, s[k])>> : k \in 1 .. Len(s)}
  BY <1>3 DEF Entries
<1>5. NamedIn(b) = {Name(b, s[k]) : k \in 1 .. Len(s)}
  BY <1>3 DEF NamedIn
<1> QED BY <1>1, <1>2, <1>3, <1>4, <1>5

\* Two entries of one name are at one place of the chain.
OnceAt(b, s) == \A j, k \in 1 .. Len(s) :
                    Name(b, s[j]) = Name(b, s[k]) /\ Name(b, s[j]) \in Names => j = k

\* NamesOnce by the places.
LEMMA OnceByPlace ==
    ASSUME NEW b \in Block, NEW s, Linked(b, s)
    PROVE  NamesOnce(b) <=> OnceAt(b, s)
<1>1. /\ Len(s) \in Nat
      /\ Range(Chain(b)) = {s[k] : k \in 1 .. Len(s)}
  BY ChainAt
<1>2. ASSUME NEW j \in 1 .. Len(s), NEW k \in 1 .. Len(s), s[j] = s[k] PROVE j = k
  <2>1. /\ s[j] \in Nat /\ RecLen(b, s[j]) \in Nat /\ RecLen(b, s[j]) >= 8 + NameLen(b, s[j])
        /\ s[k] \in Nat /\ RecLen(b, s[k]) \in Nat /\ RecLen(b, s[k]) >= 8 + NameLen(b, s[k])
        /\ NameLen(b, s[j]) \in Nat /\ NameLen(b, s[k]) \in Nat
    BY LinkFacts
  <2>2. j < k => s[j] + RecLen(b, s[j]) <= s[k]
    BY LinksApart
  <2>3. k < j => s[k] + RecLen(b, s[k]) <= s[j]
    BY LinksApart
  <2> QED BY <1>1, <1>2, <2>1, <2>2, <2>3
<1>3. NamesOnce(b) => OnceAt(b, s)
  BY <1>1, <1>2 DEF NamesOnce, OnceAt
<1>4. OnceAt(b, s) => NamesOnce(b)
  BY <1>1 DEF NamesOnce, OnceAt
<1> QED BY <1>3, <1>4

\* The entry at p of c is the one at o of b.
Same(b, o, c, p) ==
    Ino(c, p) = Ino(b, o) /\ NameLen(c, p) = NameLen(b, o) /\ Name(c, p) = Name(b, o)

\* The places behind the i-th.
Skip(i, k) == IF k < i THEN k ELSE k + 1

\* A block that has the entries of b but the i-th has its names but that one, and
\* needs so much less.
LEMMA EntryGone ==
    ASSUME NEW b \in Block, NEW s, Linked(b, s), NamesOnce(b),
           NEW c \in Block, NEW t, Linked(c, t), Len(t) = Len(s) - 1,
           NEW i \in 1 .. Len(s), Name(b, s[i]) \in Names,
           \A k \in 1 .. Len(t) : Same(b, s[Skip(i, k)], c, t[k])
    PROVE  /\ NamesOnce(c)
           /\ Entries(c) = {e \in Entries(b) : e[1] # Name(b, s[i])}
           /\ Packed(c) = Packed(b) - idealLength(NameLen(b, s[i]))
<1> DEFINE n == Len(s)
           x == Name(b, s[i])
<1>1. /\ Len(s) \in Nat /\ Len(t) \in Nat /\ Chain(b) = s /\ Chain(c) = t
      /\ Entries(b) = {<<Name(b, s[k]), Ino(b, s[k])>> : k \in 1 .. Len(s)}
      /\ Entries(c) = {<<Name(c, t[k]), Ino(c, t[k])>> : k \in 1 .. Len(t)}
  BY ChainAt
<1>2. \A k \in 1 .. Len(t) : Skip(i, k) \in 1 .. Len(s) /\ Skip(i, k) # i
  BY <1>1 DEF Skip
<1>3. \A k \in 1 .. Len(t) : /\ Ino(c, t[k]) = Ino(b, s[Skip(i, k)])
                             /\ NameLen(c, t[k]) = NameLen(b, s[Skip(i, k)])
                             /\ Name(c, t[k]) = Name(b, s[Skip(i, k)])
  BY DEF Same
<1>4. OnceAt(b, s)
  BY OnceByPlace
<1>5. NamesOnce(c)
  <2>1. ASSUME NEW j \in 1 .. Len(t), NEW k \in 1 .. Len(t),
               Name(c, t[j]) = Name(c, t[k]), Name(c, t[j]) \in Names
        PROVE  j = k
    <3>1. Skip(i, j) = Skip(i, k)
      BY <1>2, <1>3, <1>4, <2>1 DEF OnceAt
    <3> QED BY <1>1, <3>1 DEF Skip
  <2>2. OnceAt(c, t)
    BY <2>1 DEF OnceAt
  <2> QED BY <2>2, OnceByPlace
<1>6. Entries(c) = {e \in Entries(b) : e[1] # x}
  <2>1. ASSUME NEW k \in 1 .. Len(t)
        PROVE  <<Name(c, t[k]), Ino(c, t[k])>> \in {e \in Entries(b) : e[1] # x}
    <3>1. Name(b, s[Skip(i, k)]) # x
      BY <1>2, <1>4 DEF OnceAt
    <3> QED BY <1>1, <1>2, <1>3, <3>1
  <2>2. ASSUME NEW m \in 1 .. Len(s), Name(b, s[m]) # x
        PROVE  <<Name(b, s[m]), Ino(b, s[m])>> \in Entries(c)
    <3>1. m # i
      BY <2>2
    <3>2. PICK k \in 1 .. Len(t) : Skip(i, k) = m
      <4>1. CASE m < i
        <5>1. m \in 1 .. Len(t) /\ Skip(i, m) = m
          BY <1>1, <4>1 DEF Skip
        <5> QED BY <5>1
      <4>2. CASE m > i
        <5>1. m - 1 \in 1 .. Len(t) /\ Skip(i, m - 1) = m
          BY <1>1, <4>2 DEF Skip
        <5> QED BY <5>1
      <4> QED BY <1>1, <3>1, <4>1, <4>2
    <3>3. <<Name(b, s[m]), Ino(b, s[m])>> = <<Name(c, t[k]), Ino(c, t[k])>>
      BY <1>3, <3>2
    <3> QED BY <1>1, <3>3
  <2> HIDE DEF x
  <2> QED BY <1>1, <2>1, <2>2
<1>7. Packed(c) = Packed(b) - idealLength(NameLen(b, s[i]))
  <2>1. PICK g : Sums(b, s, g) /\ Packed(b) = g[Len(s)]
    BY <1>1, PackedHas
  <2>2. \A k \in 1 .. Len(s) : NameLen(b, s[k]) \in Nat
    BY LinkFacts
  <2>3. \A k \in 0 .. Len(s) : g[k] \in Nat
    BY <1>1, <2>1, <2>2, SumsAreNumbers
  <2> DEFINE w == idealLength(NameLen(b, s[i]))
             h == [k \in 0 .. Len(t) |-> IF k < i THEN g[k] ELSE g[k + 1] - w]
  <2>4. w \in Nat
    BY <2>2, IdealLength
  <2>5. g[i] = g[i - 1] + w
    BY <2>1 DEF Sums
  <2> HIDE DEF w
  <2>6. h[0] = 0
    BY <1>1, <2>1 DEF Sums
  <2>7. ASSUME NEW k \in 1 .. Len(t) PROVE h[k] = h[k - 1] + idealLength(NameLen(c, t[k]))
    <3>0. k \in 0 .. Len(t) /\ k - 1 \in 0 .. Len(t) /\ k \in 1 .. Len(s) /\ k + 1 \in 1 .. Len(s)
          /\ (k + 1) - 1 = k /\ (k - 1) + 1 = k /\ k \in 0 .. Len(s) /\ k - 1 \in 0 .. Len(s)
          /\ k + 1 \in 0 .. Len(s)
      BY <1>1
    <3>1. CASE k < i
      <4>1. h[k] = g[k] /\ h[k - 1] = g[k - 1]
        BY <3>0, <3>1
      <4>2. g[k] = g[k - 1] + idealLength(NameLen(b, s[k]))
        BY <2>1, <3>0 DEF Sums
      <4>3. NameLen(c, t[k]) = NameLen(b, s[k])
        BY <1>3, <3>1 DEF Skip
      <4> QED BY <4>1, <4>2, <4>3
    <3>2. CASE ~ (k < i)
      <4>1. NameLen(c, t[k]) = NameLen(b, s[k + 1])
        BY <1>3, <3>2 DEF Skip
      <4>2. g[k + 1] = g[k] + idealLength(NameLen(b, s[k + 1]))
        BY <2>1, <3>0 DEF Sums
      <4>3. h[k] = g[k + 1] - w
        BY <3>0, <3>2
      <4>4. h[k - 1] = g[k] - w
        <5>1. CASE k = i
          <6>1. h[k - 1] = g[k - 1]
            BY <3>0, <5>1
          <6> QED BY <2>3, <2>4, <2>5, <3>0, <5>1, <6>1
        <5>2. CASE k # i
          <6>1. ~ (k - 1 < i)
            BY <1>1, <3>2, <5>2
          <6> QED BY <3>0, <6>1
        <5> QED BY <5>1, <5>2
      <4>5. g[k] \in Nat /\ g[k + 1] \in Nat
        BY <2>3, <3>0
      <4>6. idealLength(NameLen(c, t[k])) \in Nat
        BY <2>2, <3>0, <4>1, IdealLength
      <4> QED BY <2>4, <4>1, <4>2, <4>3, <4>4, <4>5, <4>6
    <3> QED BY <3>1, <3>2
  <2>8. h[Len(t)] = g[Len(s)] - w
    <3>1. Len(t) \in 0 .. Len(t) /\ Len(t) + 1 = Len(s)
      BY <1>1
    <3>2. CASE Len(t) < i
      <4>1. Len(s) = i /\ Len(t) = i - 1 /\ i - 1 \in 0 .. Len(s) /\ i \in 0 .. Len(s)
        BY <1>1, <3>1, <3>2
      <4>2. h[Len(t)] = g[i - 1]
        BY <3>1, <3>2, <4>1
      <4> QED BY <2>3, <2>4, <2>5, <4>1, <4>2
    <3>3. CASE ~ (Len(t) < i)
      BY <3>1, <3>3
    <3> QED BY <3>2, <3>3
  <2> HIDE DEF h
  <2>9. Sums(c, t, h)
    BY <2>6, <2>7 DEF Sums
  <2>10. Packed(c) = h[Len(t)]
    BY <1>1, <2>9, PackedIs
  <2> QED BY <2>1, <2>8, <2>10 DEF w
<1> QED BY <1>5, <1>6, <1>7

\* A block that has the entries of b and one more, of a name b does not have, has that
\* name too, and needs so much more.
LEMMA EntryAdded ==
    ASSUME NEW b \in Block, NEW s, Linked(b, s), NamesOnce(b),
           NEW c \in Block, NEW t, Linked(c, t), Len(t) = Len(s) + 1,
           \A k \in 1 .. Len(s) : Same(b, s[k], c, t[k]),
           NEW o, o = t[Len(t)], Name(c, o) \notin NamedIn(b)
    PROVE  /\ NamesOnce(c)
           /\ Entries(c) = Entries(b) \cup {<<Name(c, o), Ino(c, o)>>}
           /\ Packed(c) = Packed(b) + idealLength(NameLen(c, o))
<1>1. /\ Len(s) \in Nat /\ Len(t) \in Nat /\ Chain(b) = s /\ Chain(c) = t
      /\ Entries(b) = {<<Name(b, s[k]), Ino(b, s[k])>> : k \in 1 .. Len(s)}
      /\ Entries(c) = {<<Name(c, t[k]), Ino(c, t[k])>> : k \in 1 .. Len(t)}
      /\ NamedIn(b) = {Name(b, s[k]) : k \in 1 .. Len(s)}
  BY ChainAt
<1>2. \A k \in 1 .. Len(s) : /\ Ino(c, t[k]) = Ino(b, s[k])
                             /\ NameLen(c, t[k]) = NameLen(b, s[k])
                             /\ Name(c, t[k]) = Name(b, s[k])
  BY DEF Same
<1>3. OnceAt(b, s)
  BY OnceByPlace
<1>4. ASSUME NEW k \in 1 .. Len(t) PROVE k \in 1 .. Len(s) \/ k = Len(t)
  BY <1>1
<1>5. NamesOnce(c)
  <2>1. ASSUME NEW j \in 1 .. Len(t), NEW k \in 1 .. Len(t),
               Name(c, t[j]) = Name(c, t[k]), Name(c, t[j]) \in Names
        PROVE  j = k
    <3>1. CASE j \in 1 .. Len(s) /\ k \in 1 .. Len(s)
      BY <1>2, <1>3, <2>1, <3>1 DEF OnceAt
    <3>2. CASE j \in 1 .. Len(s) /\ k = Len(t)
      <4>1. Name(b, s[j]) = Name(c, o) /\ Name(b, s[j]) \in NamedIn(b)
        BY <1>1, <1>2, <2>1, <3>2
      <4> QED BY <4>1
    <3>3. CASE k \in 1 .. Len(s) /\ j = Len(t)
      <4>1. Name(b, s[k]) = Name(c, o) /\ Name(b, s[k]) \in NamedIn(b)
        BY <1>1, <1>2, <2>1, <3>3
      <4> QED BY <4>1
    <3> QED BY <1>4, <3>1, <3>2, <3>3
  <2>2. OnceAt(c, t)
    BY <2>1 DEF OnceAt
  <2> QED BY <2>2, OnceByPlace
<1>6. Entries(c) = Entries(b) \cup {<<Name(c, o), Ino(c, o)>>}
  <2>1. Len(t) \in 1 .. Len(t) /\ \A k \in 1 .. Len(s) : k \in 1 .. Len(t)
    BY <1>1
  <2>2. \A e \in Entries(c) : e \in Entries(b) \/ e = <<Name(c, o), Ino(c, o)>>
    BY <1>1, <1>2, <1>4
  <2>3. \A e \in Entries(b) : e \in Entries(c)
    BY <1>1, <1>2, <2>1
  <2>4. <<Name(c, o), Ino(c, o)>> \in Entries(c)
    BY <1>1, <2>1
  <2> QED BY <2>2, <2>3, <2>4
<1>7. Packed(c) = Packed(b) + idealLength(NameLen(c, o))
  <2>1. PICK g : Sums(b, s, g) /\ Packed(b) = g[Len(s)]
    BY <1>1, PackedHas
  <2> DEFINE w == idealLength(NameLen(c, o))
             h == [k \in 0 .. Len(t) |-> IF k <= Len(s) THEN g[k] ELSE g[Len(s)] + w]
  <2>2. h[0] = 0 /\ h[Len(t)] = Packed(b) + w
    BY <1>1, <2>1 DEF Sums
  <2>3. ASSUME NEW k \in 1 .. Len(t) PROVE h[k] = h[k - 1] + idealLength(NameLen(c, t[k]))
    <3>1. k \in 0 .. Len(t) /\ k - 1 \in 0 .. Len(t) /\ k - 1 <= Len(s)
      BY <1>1
    <3>2. h[k - 1] = g[k - 1]
      BY <3>1
    <3>3. CASE k \in 1 .. Len(s)
      <4>1. h[k] = g[k]
        BY <1>1, <3>1, <3>3
      <4>2. g[k] = g[k - 1] + idealLength(NameLen(b, s[k]))
        BY <2>1, <3>3 DEF Sums
      <4> QED BY <1>2, <3>2, <3>3, <4>1, <4>2
    <3>4. CASE k = Len(t)
      <4>1. k - 1 = Len(s) /\ ~ (k <= Len(s))
        BY <1>1, <3>4
      <4> QED BY <3>1, <3>2, <3>4, <4>1
    <3> QED BY <1>4, <3>3, <3>4
  <2> HIDE DEF h
  <2>4. Sums(c, t, h)
    BY <2>2, <2>3 DEF Sums
  <2>5. Packed(c) = h[Len(t)]
    BY <1>1, <2>4, PackedIs
  <2> QED BY <2>2, <2>5
<1> QED BY <1>5, <1>6, <1>7

-----------------------------------------------------------------------------
(* The commands on one block.                                              *)

\* Names.
LEMMA NameFacts ==
    ASSUME NEW x \in Names
    PROVE  x \in Seq(NameBytes) /\ Len(x) \in Nat /\ Len(x) + 8 <= BLKSIZE
<1>1. x \in Seq(NameBytes) /\ Len(x) + 8 <= BLKSIZE
  BY NamesAssumption DEF NameBytes
<1> QED BY <1>1

\* enter_child() in a block with room: the entries it has, and the new one.
LEMMA EnterBlock ==
    ASSUME NEW b, Sound(b), NEW x \in Names, x \notin NamedIn(b), NEW i \in Inos,
           Room(b) >= idealLength(Len(x)), Behind(b) + 8 + Len(x) <= BLKSIZE,
           Behind(b) + Place(b) <= BLKSIZE + MaxDrift
    PROVE  Sound(InRoom(b, x, i)) /\ Entries(InRoom(b, x, i)) = Entries(b) \cup {<<x, i>>}
<1> DEFINE s == Chain(b)
           n == Len(s)
           l == s[n]
           B == Behind(b)
           h == idealLength(StrLen(b, l))
           len == Place(b)
           b1 == SetRecLen(b, l, h)
           c == InRoom(b, x, i)
           t == Append(s, B)
<1>1. /\ b \in Block /\ Linked(b, s) /\ NamesOnce(b) /\ Packed(b) + Room(b) >= BLKSIZE
      /\ Last(b) = l /\ n \in Nat /\ n > 0 /\ s \in Seq(Off) /\ s[1] = 0
  <2>1. b \in Block /\ Linked(b, s) /\ NamesOnce(b) /\ Packed(b) + Room(b) >= BLKSIZE
    BY DEF Sound
  <2> QED BY <2>1, ChainIs, ChainAt DEF Linked
<1>2. /\ l \in Nat /\ l < BLKSIZE /\ Entry(b, l) /\ RecLen(b, l) \in Nat /\ NameLen(b, l) \in Nat
      /\ l + 8 + NameLen(b, l) <= BLKSIZE /\ l + RecLen(b, l) >= BLKSIZE
  <2>1. n \in 1 .. n
    BY <1>1
  <2>2. l + RecLen(b, l) \in BLKSIZE .. BLKSIZE + MaxDrift
    BY <1>1 DEF Linked
  <2>3. l + RecLen(b, l) >= BLKSIZE
    BY <2>2, Sizes
  <2> HIDE DEF l, s, n
  <2> QED BY <1>1, <2>1, <2>3, LinkFacts DEF l, n
<1>3. /\ StrLen(b, l) \in Nat /\ h \in Nat /\ h >= 8 + NameLen(b, l)
      /\ h >= idealLength(NameLen(b, l)) /\ B = l + h /\ B \in Nat
  <2>1. StrLen(b, l) \in Nat /\ StrLen(b, l) >= NameLen(b, l)
    BY <1>1, <1>2, StrLenCovers
  <2>2. h \in Nat /\ h >= 8 + StrLen(b, l) /\ h >= idealLength(NameLen(b, l))
    BY <1>2, <2>1, IdealLength
  <2>3. B = l + h
    BY <1>1 DEF Behind
  <2> QED BY <1>2, <2>1, <2>2, <2>3
<1>4. /\ x \in Seq(NameBytes) /\ Len(x) \in Nat /\ i \in NameBytes
      /\ idealLength(Len(x)) \in Nat /\ idealLength(Len(x)) >= 8 + Len(x)
  BY NameFacts, IdealLength, InosAssumption DEF NameBytes
<1>5. /\ len = RecLen(b, l) - idealLength(NameLen(b, l)) /\ len \in Nat /\ len >= 8 + Len(x)
      /\ len >= idealLength(Len(x)) /\ idealLength(NameLen(b, l)) \in Nat
      /\ B + len >= BLKSIZE /\ B + len <= BLKSIZE + MaxDrift
  <2>1. len = RecLen(b, l) - idealLength(NameLen(b, l)) /\ len = Room(b)
    BY <1>1 DEF Place, Room
  <2>2. idealLength(NameLen(b, l)) \in Nat
    BY <1>2, IdealLength
  <2> HIDE DEF s, n, l, B, h, len
  <2>3. len >= idealLength(Len(x))
    BY <2>1
  <2>4. B + len <= BLKSIZE + MaxDrift
    BY DEF B, len
  <2> QED BY <1>2, <1>3, <1>4, <2>1, <2>2, <2>3, <2>4, Sizes
<1>6. h \in Bytes /\ len \in Bytes
  <2>1. B + 8 + Len(x) <= BLKSIZE
    OBVIOUS
  <2> HIDE DEF s, n, l, B, h, len
  <2>2. h < 256 /\ len < 256
    BY <1>2, <1>3, <1>4, <1>5, <2>1, Sizes
  <2> QED BY <1>3, <1>5, <2>2, ByteNumbers
<1>7. /\ b1 \in Block /\ RecLen(b1, l) = h
      /\ \A k \in Int : k # l + 4 => Byte(b1, k) = Byte(b, k)
  <2>1. l + 8 <= BLKSIZE
    BY <1>2, Sizes
  <2> HIDE DEF l, h
  <2> QED BY <1>1, <1>2, <1>6, <2>1, LengthSet
<1>8. /\ c \in Block /\ Ino(c, B) = i /\ RecLen(c, B) = len
          /\ NameLen(c, B) = Len(x) /\ Name(c, B) = x
      /\ \A k \in 1 .. Len(x) : Byte(c, B + 7 + k) # 0
      /\ \A k \in Int : k < B => Byte(c, k) = Byte(b1, k)
  <2>1. c = PutEntry(b1, B, i, len, x)
    BY <1>1 DEF InRoom
  <2>2. B + 8 + Len(x) <= BLKSIZE
    OBVIOUS
  <2> HIDE DEF l, h, b1, B, len, c
  <2> QED BY <1>3, <1>4, <1>6, <1>7, <2>1, <2>2, EntryPut
<1> HIDE DEF s, n, l, B, h, len, b1, c, t
<1>00. n = Len(s) /\ l = s[n]
  BY DEF n, l
<1>03. l \in Nat /\ B \in Nat /\ l + 8 <= B
  BY <1>2, <1>3
<1>9. ASSUME NEW k \in 1 .. n
      PROVE  /\ s[k] \in Nat /\ s[k] \in Off /\ Entry(b, s[k])
                /\ s[k] + 8 + NameLen(b, s[k]) <= BLKSIZE
             /\ RecLen(b, s[k]) \in Nat /\ NameLen(b, s[k]) \in Nat
             /\ RecLen(b, s[k]) >= 8 + NameLen(b, s[k])
             /\ k # n => s[k] + RecLen(b, s[k]) <= l
  <2>1. n \in 1 .. n /\ (k # n => k < n)
    BY <1>1
  <2>2. k # n => s[k] + RecLen(b, s[k]) <= l
    BY <1>00, <1>1, <2>1, LinksApart
  <2>3. s[k] \in Off
    BY <1>00, <1>1
  <2> QED BY <1>00, <1>1, <2>2, <2>3, LinkFacts
<1>10. ASSUME NEW k \in 1 .. n PROVE Moved(b, s[k], c, s[k])
  <2>1. ASSUME NEW j \in 0 .. 7 + NameLen(b, s[k]), j # 4
        PROVE Byte(c, s[k] + j) = Byte(b, s[k] + j)
    <3>0. /\ s[k] \in Nat /\ NameLen(b, s[k]) \in Nat /\ RecLen(b, s[k]) \in Nat
          /\ RecLen(b, s[k]) >= 8 + NameLen(b, s[k]) /\ (k # n => s[k] + RecLen(b, s[k]) <= l)
      BY <1>9
    <3>1. j \in Nat /\ j <= 7 + NameLen(b, s[k])
      BY <2>1, <3>0
    <3>2. s[k] + j \in Int /\ s[k] + j < B /\ s[k] + j # l + 4
      <4>1. CASE k = n
        <5>1. s[k] = l
          BY <1>00, <4>1
        <5> QED BY <1>2, <1>3, <2>1, <3>0, <3>1, <5>1
      <4>2. CASE k # n
        <5>1. s[k] + j < l
          BY <1>2, <3>0, <3>1, <4>2
        <5> QED BY <1>03, <3>0, <3>1, <5>1
      <4> QED BY <4>1, <4>2
    <3> QED BY <1>7, <1>8, <3>2
  <2> QED BY <2>1 DEF Moved
<1>11. RecLen(c, l) = h
  <2>1. l + 4 \in Int /\ l + 4 < B
    BY <1>2, <1>3
  <2> QED BY <1>7, <1>8, <2>1 DEF RecLen
<1>12. ASSUME NEW k \in 1 .. n, k # n PROVE RecLen(c, s[k]) = RecLen(b, s[k])
  <2>0. /\ s[k] \in Nat /\ NameLen(b, s[k]) \in Nat /\ RecLen(b, s[k]) \in Nat
        /\ RecLen(b, s[k]) >= 8 + NameLen(b, s[k]) /\ s[k] + RecLen(b, s[k]) <= l
    BY <1>9, <1>12
  <2>1. s[k] + 4 \in Int /\ s[k] + 4 < B /\ s[k] + 4 # l + 4
    BY <1>03, <2>0
  <2> QED BY <1>7, <1>8, <2>1 DEF RecLen
<1>13. ASSUME NEW k \in 1 .. n PROVE Same(b, s[k], c, s[k]) /\ Entry(c, s[k])
  <2>1. RecLen(c, s[k]) >= 8 + NameLen(b, s[k])
    <3>1. CASE k = n
      BY <1>00, <1>3, <1>11, <3>1
    <3>2. CASE k # n
      BY <1>9, <1>12, <3>2
    <3> QED BY <3>1, <3>2
  <2> QED BY <1>1, <1>8, <1>9, <1>10, <2>1, MovedEntry DEF Same
<1>14. Entry(c, B) /\ B \in Off
  <2>1. B + 8 + Len(x) <= BLKSIZE
    BY DEF B
  <2>2. i # 0
    BY <1>4, ByteNumbers
  <2>3. B \in Off
    BY <1>3, <1>4, <2>1, Sizes DEF Off
  <2> QED BY <1>5, <1>8, <2>1, <2>2, <2>3 DEF Entry
<1>15. t \in Seq(Off) /\ Len(t) = n + 1 /\ (\A k \in 1 .. n : t[k] = s[k]) /\ t[n + 1] = B
  BY <1>00, <1>1, <1>14, AppendProperties DEF t
<1>16. Linked(c, t)
  <2>1. t[1] = 0 /\ Len(t) > 0
    BY <1>1, <1>15
  <2>2. ASSUME NEW k \in 1 .. Len(t) PROVE Entry(c, t[k])
    <3>1. k \in 1 .. n \/ k = n + 1
      BY <1>1, <1>15
    <3> QED BY <1>13, <1>14, <1>15, <3>1
  <2>3. ASSUME NEW k \in 1 .. Len(t) - 1
        PROVE  t[k + 1] = t[k] + RecLen(c, t[k]) /\ RecLen(c, t[k]) >= idealLength(NameLen(c, t[k]))
    <3>0. k \in 1 .. n /\ t[k] = s[k] /\ NameLen(c, s[k]) = NameLen(b, s[k])
      BY <1>1, <1>13, <1>15 DEF Same
    <3>1. CASE k = n
      BY <1>00, <1>3, <1>11, <1>15, <3>0, <3>1
    <3>2. CASE k # n
      <4>1. k \in 1 .. Len(s) - 1 /\ k + 1 \in 1 .. n
        BY <1>00, <1>1, <3>0, <3>2
      <4>2. s[k + 1] = s[k] + RecLen(b, s[k]) /\ RecLen(b, s[k]) >= idealLength(NameLen(b, s[k]))
        BY <1>1, <4>1 DEF Linked
      <4> QED BY <1>12, <1>15, <3>0, <3>2, <4>1, <4>2
    <3> QED BY <3>1, <3>2
  <2>4. t[Len(t)] + RecLen(c, t[Len(t)]) \in BLKSIZE .. BLKSIZE + MaxDrift
    BY <1>3, <1>5, <1>8, <1>15, Sizes
  <2> QED BY <1>15, <2>1, <2>2, <2>3, <2>4 DEF Linked
<1>17. /\ NamesOnce(c)
       /\ Entries(c) = Entries(b) \cup {<<x, i>>}
       /\ Packed(c) = Packed(b) + idealLength(Len(x))
  <2>1. B = t[Len(t)] /\ Len(t) = Len(s) + 1 /\ Name(c, B) \notin NamedIn(b)
    BY <1>00, <1>8, <1>15
  <2>2. \A k \in 1 .. Len(s) : Same(b, s[k], c, t[k])
    BY <1>00, <1>13, <1>15
  <2>3. /\ NamesOnce(c)
        /\ Entries(c) = Entries(b) \cup {<<Name(c, B), Ino(c, B)>>}
        /\ Packed(c) = Packed(b) + idealLength(NameLen(c, B))
    BY <1>1, <1>8, <1>16, <2>1, <2>2, EntryAdded
  <2> QED BY <1>8, <2>3
<1>18. Packed(c) + Room(c) >= BLKSIZE
  <2>1. Last(c) = B
    BY <1>8, <1>15, <1>16, ChainIs
  <2>2. Room(c) = len - idealLength(Len(x))
    BY <1>8, <2>1 DEF Room
  <2>3. Room(b) = len
    BY DEF len, Place
  <2>4. Packed(b) \in Int
    <3>1. PICK g : Sums(b, s, g) /\ Packed(b) = g[Len(s)]
      BY <1>00, <1>1, PackedHas DEF s
    <3>2. \A k \in 1 .. Len(s) : NameLen(b, s[k]) \in Nat
      BY <1>00, <1>9
    <3>3. Len(s) \in Nat /\ Len(s) \in 0 .. Len(s)
      BY <1>00, <1>1
    <3> QED BY <3>1, <3>2, <3>3, SumsAreNumbers
  <2> QED BY <1>1, <1>4, <1>5, <1>17, <2>2, <2>3, <2>4
<1>19. Chain(c) = t
  BY <1>8, <1>16, ChainIs
<1>20. Sound(c)
  BY <1>8, <1>16, <1>17, <1>18, <1>19 DEF Sound
<1> QED BY <1>17, <1>20 DEF c

\* The sum of ideal lengths is a number.
LEMMA PackedNumber ==
    ASSUME NEW b \in Block, NEW s, Linked(b, s)
    PROVE  Packed(b) \in Nat
<1>1. Chain(b) = s /\ Len(s) \in Nat /\ Len(s) \in 0 .. Len(s)
  BY ChainAt
<1>2. PICK g : Sums(b, s, g) /\ Packed(b) = g[Len(s)]
  BY <1>1, PackedHas
<1>3. \A k \in 1 .. Len(s) : NameLen(b, s[k]) \in Nat
  BY LinkFacts
<1> QED BY <1>1, <1>2, <1>3, SumsAreNumbers

\* The entry before the last one.
LEMMA BeforeLast ==
    ASSUME NEW b \in Block, NEW s, Linked(b, s), Len(s) > 1
    PROVE  Before(b, s[Len(s)]) = s[Len(s) - 1]
<1> DEFINE n == Len(s)
           p == Before(b, s[n])
<1>1. /\ Len(s) \in Nat /\ Range(Chain(b)) = {s[k] : k \in 1 .. Len(s)}
  BY ChainAt
<1>2. n - 1 \in 1 .. n - 1 /\ n - 1 \in 1 .. n /\ (n - 1) + 1 = n /\ n \in 1 .. n
  BY <1>1
<1>3. s[n] = s[n - 1] + RecLen(b, s[n - 1])
  BY <1>2 DEF Linked
<1>4. s[n - 1] \in Range(Chain(b))
  BY <1>1, <1>2
<1>5. p \in Range(Chain(b)) /\ p + RecLen(b, p) = s[n]
  BY <1>3, <1>4 DEF Before
<1> HIDE DEF p
<1>6. PICK j \in 1 .. n : p = s[j]
  BY <1>1, <1>5
<1>7. /\ s[j] \in Nat /\ RecLen(b, s[j]) \in Nat /\ RecLen(b, s[j]) >= 8 + NameLen(b, s[j])
      /\ NameLen(b, s[j]) \in Nat
  BY <1>6, LinkFacts
<1>8. /\ s[n - 1] \in Nat /\ RecLen(b, s[n - 1]) \in Nat /\ NameLen(b, s[n - 1]) \in Nat
      /\ RecLen(b, s[n - 1]) >= 8 + NameLen(b, s[n - 1])
  BY <1>2, LinkFacts
<1>9. j < n - 1 => s[j] + RecLen(b, s[j]) <= s[n - 1]
  BY <1>2, LinksApart
<1>10. j # n
  BY <1>5, <1>6, <1>7
<1>11. j = n - 1
  <2>1. ~ (j < n - 1)
    BY <1>3, <1>5, <1>6, <1>7, <1>8, <1>9
  <2> QED BY <1>1, <1>10, <2>1
<1> QED BY <1>6, <1>11 DEF p

\* The last entry is removed: the one before it gets its bytes.
LEMMA LastRemoved ==
    ASSUME NEW b, Sound(b), NEW s, s = Chain(b), NEW l, l = s[Len(s)], Len(s) > 1,
           Name(b, l) \in Names,
           NEW c, c = Grown(b, Before(b, l), RecLen(b, l))
    PROVE  Sound(c) /\ Entries(c) = {e \in Entries(b) : e[1] # Name(b, l)}
<1> DEFINE n == Len(s)
           p == s[n - 1]
           len == RecLen(b, p) + RecLen(b, l)
           t == [k \in 1 .. n - 1 |-> s[k]]
<1>1. /\ b \in Block /\ Linked(b, s) /\ NamesOnce(b) /\ Packed(b) + Room(b) >= BLKSIZE
      /\ Last(b) = l /\ n \in Nat /\ s \in Seq(Off) /\ s[1] = 0
  <2>1. b \in Block /\ Linked(b, s) /\ NamesOnce(b) /\ Packed(b) + Room(b) >= BLKSIZE
    BY DEF Sound
  <2> QED BY <2>1, ChainIs, ChainAt DEF Linked
<1>2. n - 1 \in 1 .. n - 1 /\ n - 1 \in 1 .. n /\ (n - 1) + 1 = n /\ n \in 1 .. n
  BY <1>1
<1>3. /\ p \in Nat /\ RecLen(b, p) \in Nat /\ NameLen(b, p) \in Nat /\ p + 8 <= BLKSIZE
      /\ RecLen(b, p) >= 8 + NameLen(b, p) /\ l = p + RecLen(b, p)
      /\ RecLen(b, p) >= idealLength(NameLen(b, p)) /\ idealLength(NameLen(b, p)) \in Nat
  <2>1. /\ p \in Nat /\ RecLen(b, p) \in Nat /\ NameLen(b, p) \in Nat
        /\ p + 8 + NameLen(b, p) <= BLKSIZE /\ RecLen(b, p) >= 8 + NameLen(b, p)
    BY <1>1, <1>2, LinkFacts
  <2>2. l = p + RecLen(b, p) /\ RecLen(b, p) >= idealLength(NameLen(b, p))
    BY <1>1, <1>2 DEF Linked
  <2>3. idealLength(NameLen(b, p)) \in Nat
    BY <2>1, IdealLength
  <2> QED BY <2>1, <2>2, <2>3, Sizes
<1>4. /\ l \in Nat /\ RecLen(b, l) \in Nat /\ NameLen(b, l) \in Nat
      /\ l + RecLen(b, l) >= BLKSIZE /\ l + RecLen(b, l) <= BLKSIZE + MaxDrift
      /\ idealLength(NameLen(b, l)) \in Nat
  <2>1. l \in Nat /\ RecLen(b, l) \in Nat /\ NameLen(b, l) \in Nat
    BY <1>1, <1>2, LinkFacts
  <2>2. l + RecLen(b, l) \in BLKSIZE .. BLKSIZE + MaxDrift
    BY <1>1 DEF Linked
  <2>3. l + RecLen(b, l) >= BLKSIZE /\ l + RecLen(b, l) <= BLKSIZE + MaxDrift
    BY <2>1, <2>2, Sizes
  <2> QED BY <2>1, <2>3, IdealLength
<1>5. c = SetRecLen(b, p, len)
  BY <1>1, BeforeLast DEF Grown
<1>6. len \in Nat /\ len \in Bytes /\ p + len = l + RecLen(b, l)
  <2> HIDE DEF n, p
  <2>1. len \in Nat /\ p + len = l + RecLen(b, l)
    BY <1>3, <1>4
  <2> HIDE DEF len
  <2>2. len < 256
    BY <1>3, <1>4, <2>1, Sizes
  <2> QED BY <2>1, <2>2, ByteNumbers
<1>00. n = Len(s) /\ p = s[n - 1] /\ l = s[n]
  OBVIOUS
<1> HIDE DEF n, p, len, t
<1>7. /\ c \in Block /\ RecLen(c, p) = len
      /\ \A k \in Int : k # p + 4 => Byte(c, k) = Byte(b, k)
  BY <1>1, <1>3, <1>5, <1>6, LengthSet
<1>8. ASSUME NEW k \in 1 .. n - 1
      PROVE  /\ k \in 1 .. n
             /\ s[k] \in Nat /\ s[k] \in Off /\ Entry(b, s[k])
                /\ s[k] + 8 + NameLen(b, s[k]) <= BLKSIZE
             /\ RecLen(b, s[k]) \in Nat /\ NameLen(b, s[k]) \in Nat
             /\ RecLen(b, s[k]) >= 8 + NameLen(b, s[k])
             /\ k # n - 1 => s[k] + RecLen(b, s[k]) <= p
  <2>1. k \in 1 .. n /\ (k # n - 1 => k < n - 1)
    BY <1>1
  <2>2. k # n - 1 => s[k] + RecLen(b, s[k]) <= p
    BY <1>00, <1>1, <1>2, <2>1, LinksApart
  <2>3. s[k] \in Off
    BY <1>00, <1>1, <2>1
  <2> QED BY <1>00, <1>1, <2>1, <2>2, <2>3, LinkFacts
<1>9. ASSUME NEW k \in 1 .. n - 1 PROVE Moved(b, s[k], c, s[k])
  <2>1. ASSUME NEW j \in 0 .. 7 + NameLen(b, s[k]), j # 4
        PROVE Byte(c, s[k] + j) = Byte(b, s[k] + j)
    <3>0. /\ s[k] \in Nat /\ NameLen(b, s[k]) \in Nat /\ RecLen(b, s[k]) \in Nat
          /\ RecLen(b, s[k]) >= 8 + NameLen(b, s[k]) /\ (k # n - 1 => s[k] + RecLen(b, s[k]) <= p)
      BY <1>8
    <3>1. j \in Nat /\ j <= 7 + NameLen(b, s[k])
      BY <2>1, <3>0
    <3>2. s[k] + j \in Int /\ s[k] + j # p + 4
      <4>1. CASE k = n - 1
        <5>1. s[k] = p
          BY <1>00, <4>1
        <5> QED BY <1>3, <2>1, <3>0, <3>1, <5>1
      <4>2. CASE k # n - 1
        <5>1. s[k] + j < p
          BY <1>3, <3>0, <3>1, <4>2
        <5> QED BY <1>3, <3>0, <3>1, <5>1
      <4> QED BY <4>1, <4>2
    <3> QED BY <1>7, <3>2
  <2> QED BY <2>1 DEF Moved
<1>10. ASSUME NEW k \in 1 .. n - 1, k # n - 1 PROVE RecLen(c, s[k]) = RecLen(b, s[k])
  <2>0. /\ s[k] \in Nat /\ NameLen(b, s[k]) \in Nat /\ RecLen(b, s[k]) \in Nat
        /\ RecLen(b, s[k]) >= 8 + NameLen(b, s[k]) /\ s[k] + RecLen(b, s[k]) <= p
    BY <1>8, <1>10
  <2>1. s[k] + 4 \in Int /\ s[k] + 4 # p + 4
    BY <1>3, <2>0
  <2> QED BY <1>7, <2>1 DEF RecLen
<1>11. ASSUME NEW k \in 1 .. n - 1 PROVE Same(b, s[k], c, s[k]) /\ Entry(c, s[k])
  <2>1. RecLen(c, s[k]) >= 8 + NameLen(b, s[k])
    <3>1. CASE k = n - 1
      <4>1. s[k] = p
        BY <1>00, <3>1
      <4>2. len >= 8 + NameLen(b, p)
        BY <1>3, <1>4 DEF len
      <4> QED BY <1>7, <4>1, <4>2
    <3>2. CASE k # n - 1
      BY <1>8, <1>10, <3>2
    <3> QED BY <3>1, <3>2
  <2> QED BY <1>1, <1>7, <1>8, <1>9, <2>1, MovedEntry DEF Same
<1>12. t \in Seq(Off) /\ Len(t) = n - 1 /\ \A k \in 1 .. n - 1 : t[k] = s[k]
  <2>1. n - 1 \in Nat /\ \A k \in 1 .. n - 1 : s[k] \in Off
    BY <1>1, <1>2, <1>8
  <2> QED BY <2>1 DEF t
<1>13. Linked(c, t)
  <2>1. t[1] = 0 /\ Len(t) > 0
    BY <1>1, <1>2, <1>12
  <2>2. \A k \in 1 .. Len(t) : Entry(c, t[k])
    BY <1>11, <1>12
  <2>3. ASSUME NEW k \in 1 .. Len(t) - 1
        PROVE  t[k + 1] = t[k] + RecLen(c, t[k]) /\ RecLen(c, t[k]) >= idealLength(NameLen(c, t[k]))
    <3>1. k \in 1 .. n - 1 /\ k + 1 \in 1 .. n - 1 /\ k # n - 1
      BY <1>1, <1>12
    <3>2. s[k + 1] = s[k] + RecLen(b, s[k]) /\ RecLen(b, s[k]) >= idealLength(NameLen(b, s[k]))
      BY <1>00, <1>1, <3>1 DEF Linked
    <3>3. NameLen(c, s[k]) = NameLen(b, s[k])
      BY <1>11, <3>1 DEF Same
    <3> QED BY <1>10, <1>12, <3>1, <3>2, <3>3
  <2>4. t[Len(t)] + RecLen(c, t[Len(t)]) \in BLKSIZE .. BLKSIZE + MaxDrift
    <3>1. t[Len(t)] = p
      BY <1>00, <1>2, <1>12
    <3>2. p + len \in BLKSIZE .. BLKSIZE + MaxDrift
      BY <1>4, <1>6, Sizes
    <3> QED BY <1>7, <3>1, <3>2
  <2> QED BY <1>12, <2>1, <2>2, <2>3, <2>4 DEF Linked
<1>14. /\ NamesOnce(c)
       /\ Entries(c) = {e \in Entries(b) : e[1] # Name(b, l)}
       /\ Packed(c) = Packed(b) - idealLength(NameLen(b, l))
  <2>1. Len(t) = Len(s) - 1 /\ n \in 1 .. Len(s) /\ Name(b, s[n]) \in Names
    BY <1>00, <1>2, <1>12
  <2>2. \A k \in 1 .. Len(t) : Same(b, s[Skip(n, k)], c, t[k])
    <3>1. ASSUME NEW k \in 1 .. Len(t) PROVE Skip(n, k) = k /\ k \in 1 .. n - 1
      BY <1>1, <1>12 DEF Skip
    <3> QED BY <1>11, <1>12, <3>1
  <2>3. /\ NamesOnce(c)
        /\ Entries(c) = {e \in Entries(b) : e[1] # Name(b, s[n])}
        /\ Packed(c) = Packed(b) - idealLength(NameLen(b, s[n]))
    <3>1. b \in Block /\ Linked(b, s) /\ NamesOnce(b) /\ c \in Block
      BY <1>1, <1>7
    <3> QED BY ONLY <1>13, <2>1, <2>2, <3>1, EntryGone
  <2> QED BY <1>00, <2>3
<1>15. Packed(c) + Room(c) >= BLKSIZE
  <2>1. Last(c) = p
    BY <1>00, <1>2, <1>7, <1>12, <1>13, ChainIs
  <2>2. NameLen(c, p) = NameLen(b, p)
    BY <1>00, <1>2, <1>11 DEF Same
  <2>3. Room(c) = len - idealLength(NameLen(b, p))
          /\ Room(b) = RecLen(b, l) - idealLength(NameLen(b, l))
    BY <1>1, <1>7, <2>1, <2>2 DEF Room
  <2>4. Packed(b) \in Nat
    BY <1>1, PackedNumber
  <2>5. len = RecLen(b, p) + RecLen(b, l)
    BY DEF len
  <2>6. ASSUME NEW P \in Nat, NEW B \in Nat, NEW rp \in Nat,
               NEW rl \in Nat, NEW ip \in Nat, NEW il \in Nat,
               rp >= ip, P + (rl - il) >= B
        PROVE  (P - il) + ((rp + rl) - ip) >= B
    BY ONLY <2>6
  <2>7. Packed(b) + (RecLen(b, l) - idealLength(NameLen(b, l))) >= BLKSIZE
    BY <1>1, <2>3
  <2> QED BY ONLY <1>3, <1>4, <1>14, <2>3, <2>4, <2>5, <2>6, <2>7, Sizes
<1>16. Sound(c)
  <2>1. Chain(c) = t
    BY <1>7, <1>13, ChainIs
  <2> QED BY <1>7, <1>13, <1>14, <1>15, <2>1 DEF Sound
<1> QED BY <1>14, <1>16

\* Another entry is removed: those behind it move up, and the last one gets its bytes.
LEMMA InnerRemoved ==
    ASSUME NEW b, Sound(b), NEW s, s = Chain(b), NEW l, l = s[Len(s)],
           NEW i \in 1 .. Len(s) - 1, NEW o, o = s[i], Name(b, o) \in Names,
           NEW junk \in Junk,
           NEW c, c = Grown(Cut(b, o, junk), l - RecLen(b, o), RecLen(b, o))
    PROVE  Sound(c) /\ Entries(c) = {e \in Entries(b) : e[1] # Name(b, o)}
<1> DEFINE n == Len(s)
           r == RecLen(b, o)
           q == l - r
           d == Cut(b, o, junk)
           len == RecLen(b, l) + r
           t == [k \in 1 .. n - 1 |-> IF k < i THEN s[k] ELSE s[k + 1] - r]
<1>1. /\ b \in Block /\ Linked(b, s) /\ NamesOnce(b) /\ Packed(b) + Room(b) >= BLKSIZE
      /\ Last(b) = l /\ n \in Nat /\ s \in Seq(Off) /\ s[1] = 0
  <2>1. b \in Block /\ Linked(b, s) /\ NamesOnce(b) /\ Packed(b) + Room(b) >= BLKSIZE
    BY DEF Sound
  <2> QED BY <2>1, ChainIs, ChainAt DEF Linked
<1>2. /\ i \in 1 .. n /\ i + 1 \in 1 .. n /\ n \in 1 .. n /\ i \in Nat /\ i < n
      /\ n - 1 \in 1 .. n - 1 /\ i \in 1 .. n - 1 /\ (n - 1) + 1 = n
  BY <1>1
<1>3. /\ o \in Nat /\ r \in Nat /\ NameLen(b, o) \in Nat /\ r >= 8 /\ s[i + 1] = o + r
      /\ r >= idealLength(NameLen(b, o)) /\ idealLength(NameLen(b, o)) \in Nat
  <2>1. o \in Nat /\ r \in Nat /\ NameLen(b, o) \in Nat /\ r >= 8 + NameLen(b, o)
    BY <1>1, <1>2, LinkFacts
  <2>2. s[i + 1] = o + r /\ r >= idealLength(NameLen(b, o))
    BY <1>1, <1>2 DEF Linked
  <2>3. idealLength(NameLen(b, o)) \in Nat
    BY <2>1, IdealLength
  <2> QED BY <2>1, <2>2, <2>3
<1>4. /\ l \in Nat /\ RecLen(b, l) \in Nat /\ NameLen(b, l) \in Nat /\ l + 8 <= BLKSIZE
      /\ l + RecLen(b, l) >= BLKSIZE /\ l + RecLen(b, l) <= BLKSIZE + MaxDrift
      /\ RecLen(b, l) >= 8 + NameLen(b, l)
      /\ idealLength(NameLen(b, l)) \in Nat
  <2>1. l \in Nat /\ RecLen(b, l) \in Nat /\ NameLen(b, l) \in Nat
        /\ l + 8 + NameLen(b, l) <= BLKSIZE /\ RecLen(b, l) >= 8 + NameLen(b, l)
    BY <1>1, <1>2, LinkFacts
  <2>2. l + RecLen(b, l) \in BLKSIZE .. BLKSIZE + MaxDrift
    BY <1>1 DEF Linked
  <2>3. l + RecLen(b, l) >= BLKSIZE /\ l + RecLen(b, l) <= BLKSIZE + MaxDrift
    BY <2>1, <2>2, Sizes
  <2>4. l + 8 <= BLKSIZE
    BY <2>1, Sizes
  <2> QED BY <2>1, <2>3, <2>4, IdealLength
<1>00. n = Len(s) /\ l = s[n] /\ r = RecLen(b, o)
  OBVIOUS
<1> HIDE DEF n, r, d, t
<1>5. ASSUME NEW k \in 1 .. n
      PROVE  /\ s[k] \in Nat /\ s[k] \in Off /\ Entry(b, s[k])
                /\ s[k] + 8 + NameLen(b, s[k]) <= BLKSIZE
             /\ RecLen(b, s[k]) \in Nat /\ NameLen(b, s[k]) \in Nat
             /\ RecLen(b, s[k]) >= 8 + NameLen(b, s[k])
             /\ k < i => s[k] + RecLen(b, s[k]) <= o
             /\ k > i => o + r <= s[k]
             /\ k # n => s[k] + RecLen(b, s[k]) <= l
  <2>1. k < i => s[k] + RecLen(b, s[k]) <= o
    BY <1>00, <1>1, <1>2, LinksApart
  <2>2. k > i => o + r <= s[k]
    BY <1>00, <1>1, <1>2, LinksApart
  <2>3. k # n => s[k] + RecLen(b, s[k]) <= l
    <3>1. k # n => k < n
      BY <1>1
    <3> QED BY <1>00, <1>1, <1>2, <3>1, LinksApart
  <2>4. s[k] \in Off
    BY <1>00, <1>1
  <2> QED BY <1>00, <1>1, <2>1, <2>2, <2>3, <2>4, LinkFacts
<1>6. q \in Nat /\ o <= q /\ q + r = l /\ q + 8 <= BLKSIZE
  <2>1. o + r <= l
    BY <1>00, <1>2, <1>5
  <2>2. o \in Nat /\ r \in Nat /\ l \in Nat /\ l + 8 <= BLKSIZE /\ BLKSIZE \in Nat
    BY <1>3, <1>4, Sizes
  <2> QED BY ONLY <2>1, <2>2
<1>7. /\ d \in Block
      /\ \A k \in Nat : k < o => Byte(d, k) = Byte(b, k)
      /\ \A k \in Nat : k >= o /\ k + r < BLKSIZE => Byte(d, k) = Byte(b, k + r)
  BY <1>1, <1>3, CutOut DEF d, r
<1>8. RecLen(d, q) = RecLen(b, l)
  <2> HIDE DEF q
  <2>1. q + 4 \in Nat /\ q + 4 >= o /\ (q + 4) + r < BLKSIZE /\ (q + 4) + r = l + 4
    <3>1. o \in Nat /\ r \in Nat /\ l \in Nat /\ l + 8 <= BLKSIZE /\ BLKSIZE \in Nat
      BY <1>3, <1>4, Sizes
    <3> QED BY ONLY <1>6, <3>1
  <2> QED BY <1>7, <2>1 DEF RecLen
<1>9. c = SetRecLen(d, q, len)
  BY <1>8 DEF Grown, d, r
<1>10. len \in Nat /\ len \in Bytes /\ q + len = l + RecLen(b, l) /\ len >= 8 + NameLen(b, l)
  <2>1. len \in Nat /\ q + len = l + RecLen(b, l) /\ len >= 8 + NameLen(b, l)
    <3>1. r \in Nat /\ l \in Nat /\ RecLen(b, l) \in Nat /\ NameLen(b, l) \in Nat
          /\ RecLen(b, l) >= 8 + NameLen(b, l)
      BY <1>3, <1>4
    <3> HIDE DEF q
    <3> QED BY ONLY <1>6, <3>1 DEF len
  <2> HIDE DEF len, q
  <2>2. len < 256
    BY <1>4, <1>6, <2>1, Sizes
  <2> QED BY <2>1, <2>2, ByteNumbers
<1>02. q = l - r /\ len = RecLen(b, l) + r
  OBVIOUS
<1> HIDE DEF q, len
<1>03. o \in Nat /\ r \in Nat /\ q \in Nat /\ o <= q /\ q + r = l /\ l \in Nat
  BY <1>3, <1>4, <1>6
<1>11. /\ c \in Block /\ RecLen(c, q) = len
       /\ \A k \in Int : k # q + 4 => Byte(c, k) = Byte(d, k)
  BY <1>6, <1>7, <1>9, <1>10, LengthSet
\* The entries before it.
<1>12. ASSUME NEW k \in 1 .. n, k < i
       PROVE  Same(b, s[k], c, s[k]) /\ RecLen(c, s[k]) = RecLen(b, s[k]) /\ Entry(c, s[k])
  <2>0. /\ s[k] \in Nat /\ NameLen(b, s[k]) \in Nat /\ RecLen(b, s[k]) \in Nat
        /\ RecLen(b, s[k]) >= 8 + NameLen(b, s[k]) /\ s[k] + RecLen(b, s[k]) <= o
    BY <1>5, <1>12
  <2>1. ASSUME NEW j \in 0 .. 7 + NameLen(b, s[k]) PROVE Byte(c, s[k] + j) = Byte(b, s[k] + j)
    <3>1. j \in Nat /\ j <= 7 + NameLen(b, s[k])
      BY <2>0
    <3>2. s[k] + j < o
      BY ONLY <1>03, <2>0, <3>1
    <3>3. s[k] + j \in Nat /\ s[k] + j \in Int /\ s[k] + j # q + 4
      BY ONLY <1>03, <2>0, <3>1, <3>2
    <3> QED BY <1>7, <1>11, <3>2, <3>3
  <2>2. Moved(b, s[k], c, s[k])
    BY <2>1 DEF Moved
  <2>3. RecLen(c, s[k]) = RecLen(b, s[k])
    <3>1. 4 \in 0 .. 7 + NameLen(b, s[k])
      BY <2>0
    <3> QED BY <2>1, <3>1 DEF RecLen
  <2> QED BY <1>1, <1>5, <1>11, <2>0, <2>2, <2>3, MovedEntry DEF Same
\* The entries behind it.
<1>13. ASSUME NEW k \in 1 .. n, k > i
       PROVE  /\ s[k] - r \in Nat /\ s[k] - r \in Off
              /\ Same(b, s[k], c, s[k] - r)
              /\ k # n => RecLen(c, s[k] - r) = RecLen(b, s[k])
              /\ Entry(c, s[k] - r)
  <2>0. /\ s[k] \in Nat /\ NameLen(b, s[k]) \in Nat /\ RecLen(b, s[k]) \in Nat
        /\ RecLen(b, s[k]) >= 8 + NameLen(b, s[k]) /\ o + r <= s[k]
        /\ s[k] + 8 + NameLen(b, s[k]) <= BLKSIZE
        /\ k # n => s[k] + RecLen(b, s[k]) <= l
    BY <1>5, <1>13
  <2>01. PICK p \in Nat : p = s[k] - r /\ p >= o /\ p + r = s[k]
    <3>1. s[k] - r \in Nat /\ s[k] - r >= o /\ (s[k] - r) + r = s[k]
      BY ONLY <1>03, <2>0
    <3> QED BY <3>1
  <2>1. ASSUME NEW j \in 0 .. 7 + NameLen(b, s[k]), k # n \/ j # 4
        PROVE  Byte(c, p + j) = Byte(b, s[k] + j)
    <3>1. j \in Nat /\ j <= 7 + NameLen(b, s[k])
      BY <2>0
    <3>2. (p + j) + r = s[k] + j /\ p + j \in Nat /\ p + j >= o /\ p + j \in Int
      <4>1. o \in Nat /\ r \in Nat /\ j \in Nat /\ p \in Nat /\ p >= o /\ p + r = s[k]
        BY ONLY <1>03, <2>01, <3>1
      <4> QED BY ONLY <4>1
    <3>3. (p + j) + r < BLKSIZE
      BY ONLY <2>0, <3>1, <3>2, Sizes
    <3>4. p + j # q + 4
      <4>1. CASE k = n
        <5>1. s[k] = l /\ j # 4
          BY <1>00, <2>1, <4>1
        <5> QED BY ONLY <1>03, <3>1, <3>2, <5>1
      <4>2. CASE k # n
        <5>1. s[k] + j < l
          BY ONLY <1>03, <2>0, <3>1, <4>2
        <5> QED BY ONLY <1>03, <2>0, <3>1, <3>2, <5>1
      <4> QED BY <4>1, <4>2
    <3> QED BY <1>7, <1>11, <3>2, <3>3, <3>4
  <2>2. Moved(b, s[k], c, p)
    BY <2>1 DEF Moved
  <2>3. k # n => RecLen(c, p) = RecLen(b, s[k])
    <3>1. 4 \in 0 .. 7 + NameLen(b, s[k])
      BY <2>0
    <3> QED BY <2>1, <3>1 DEF RecLen
  <2>4. p + 8 + NameLen(b, s[k]) <= BLKSIZE
    <3>1. r \in Nat /\ p \in Nat /\ p + r = s[k] /\ BLKSIZE \in Nat
      BY ONLY <1>03, <2>01, Sizes
    <3>2. s[k] + 8 + NameLen(b, s[k]) <= BLKSIZE /\ NameLen(b, s[k]) \in Nat
      BY ONLY <2>0
    <3> QED BY ONLY <3>1, <3>2
  <2>5. RecLen(c, p) >= 8 + NameLen(b, s[k])
    <3>1. CASE k = n
      <4>1. s[k] = l /\ p = q
        BY <1>00, <1>02, <2>01, <3>1
      <4> QED BY <1>10, <1>11, <4>1
    <3>2. CASE k # n
      BY <2>0, <2>3, <3>2
    <3> QED BY <3>1, <3>2
  <2>6. Same(b, s[k], c, p) /\ Entry(c, p)
    <3>1. b \in Block /\ c \in Block /\ Entry(b, s[k])
      BY <1>1, <1>5, <1>11
    <3> QED BY ONLY <2>0, <2>01, <2>2, <2>4, <2>5, <3>1, MovedEntry DEF Same
  <2>7. p \in Off
    BY <2>0, <2>4, Sizes DEF Off
  <2> QED BY <2>01, <2>3, <2>6, <2>7
<1>14. /\ t \in Seq(Off) /\ Len(t) = n - 1
       /\ \A k \in 1 .. n - 1 : t[k] = IF k < i THEN s[k] ELSE s[k + 1] - r
  <2>1. ASSUME NEW k \in 1 .. n - 1 PROVE (IF k < i THEN s[k] ELSE s[k + 1] - r) \in Off
    <3>1. k \in 1 .. n /\ k + 1 \in 1 .. n /\ (~ (k < i) => k + 1 > i)
      BY <1>1, <1>2
    <3> QED BY <1>5, <1>13, <3>1
  <2>2. n - 1 \in Nat
    BY <1>1, <1>2
  <2> QED BY <2>1, <2>2 DEF t
<1>15. ASSUME NEW k \in 1 .. n - 1
       PROVE  /\ Same(b, s[Skip(i, k)], c, t[k]) /\ Entry(c, t[k])
              /\ k # n - 1 => RecLen(c, t[k]) = RecLen(b, s[Skip(i, k)])
  <2>1. k \in 1 .. n /\ k + 1 \in 1 .. n /\ (~ (k < i) => k + 1 > i) /\ (k # n - 1 => k + 1 # n)
    BY <1>1, <1>2
  <2>2. CASE k < i
    BY <1>12, <1>14, <2>1, <2>2 DEF Skip
  <2>3. CASE ~ (k < i)
    BY <1>13, <1>14, <2>1, <2>3 DEF Skip
  <2> QED BY <2>2, <2>3
<1>16. Linked(c, t)
  <2>1. t[1] = 0 /\ Len(t) > 0
    <3>1. 1 \in 1 .. n - 1 /\ Len(t) > 0
      BY <1>1, <1>2, <1>14
    <3>2. CASE 1 < i
      BY <1>1, <1>14, <3>1, <3>2
    <3>3. CASE ~ (1 < i)
      <4>1. i = 1 /\ s[1 + 1] = o + r /\ o = 0
        BY <1>1, <1>2, <1>3, <3>3
      <4> QED BY <1>3, <1>14, <3>1, <3>3, <4>1
    <3> QED BY <3>1, <3>2, <3>3
  <2>2. \A k \in 1 .. Len(t) : Entry(c, t[k])
    BY <1>14, <1>15
  <2>3. ASSUME NEW k \in 1 .. Len(t) - 1
        PROVE  t[k + 1] = t[k] + RecLen(c, t[k]) /\ RecLen(c, t[k]) >= idealLength(NameLen(c, t[k]))
    <3>1. /\ k \in 1 .. n - 1 /\ k + 1 \in 1 .. n - 1 /\ k # n - 1
          /\ k \in 1 .. Len(s) - 1 /\ k + 1 \in 1 .. Len(s) - 1 /\ k \in 1 .. n /\ k + 1 \in 1 .. n
      BY <1>00, <1>1, <1>14
    <3>2. /\ s[k + 1] = s[k] + RecLen(b, s[k]) /\ RecLen(b, s[k]) >= idealLength(NameLen(b, s[k]))
          /\ s[(k + 1) + 1] = s[k + 1] + RecLen(b, s[k + 1])
          /\ RecLen(b, s[k + 1]) >= idealLength(NameLen(b, s[k + 1]))
      BY <1>1, <3>1 DEF Linked
    <3>3. NameLen(c, t[k]) = NameLen(b, s[Skip(i, k)]) /\ RecLen(c, t[k]) = RecLen(b, s[Skip(i, k)])
      BY <1>15, <3>1 DEF Same
    <3>4. t[k + 1] = t[k] + RecLen(c, t[k])
      <4>1. CASE k + 1 < i
        <5>1. k < i
          BY <1>2, <3>1, <4>1
        <5> QED BY <1>14, <3>1, <3>2, <3>3, <4>1, <5>1 DEF Skip
      <4>2. CASE k + 1 = i
        <5>1. k < i /\ ~ (k + 1 < i)
          BY <1>2, <3>1, <4>2
        <5>2. t[k] = s[k] /\ t[k + 1] = s[i + 1] - r /\ s[i] = s[k] + RecLen(b, s[k])
          BY <1>14, <3>1, <3>2, <4>2, <5>1
        <5>3. s[i + 1] - r = o
          BY <1>3
        <5> QED BY <3>3, <5>1, <5>2, <5>3 DEF Skip
      <4>3. CASE k + 1 > i
        <5>1. ~ (k < i) /\ ~ (k + 1 < i)
          BY <1>2, <3>1, <4>3
        <5>2. t[k] = s[k + 1] - r /\ t[k + 1] = s[(k + 1) + 1] - r
                /\ RecLen(c, t[k]) = RecLen(b, s[k + 1])
          BY <1>14, <3>1, <3>3, <5>1 DEF Skip
        <5>3. s[k + 1] \in Nat /\ RecLen(b, s[k + 1]) \in Nat
          BY <1>5, <3>1
        <5> QED BY <1>3, <3>2, <5>2, <5>3
      <4>4. k + 1 < i \/ k + 1 = i \/ k + 1 > i
        BY <1>2, <3>1
      <4> QED BY <4>1, <4>2, <4>3, <4>4
    <3>5. RecLen(c, t[k]) >= idealLength(NameLen(c, t[k]))
      BY <3>2, <3>3 DEF Skip
    <3> QED BY <3>4, <3>5
  <2>4. t[Len(t)] + RecLen(c, t[Len(t)]) \in BLKSIZE .. BLKSIZE + MaxDrift
    <3>1. t[Len(t)] = q
      BY <1>00, <1>02, <1>1, <1>2, <1>14
    <3>2. q + len \in BLKSIZE .. BLKSIZE + MaxDrift
      BY <1>4, <1>10, Sizes
    <3> QED BY <1>11, <3>1, <3>2
  <2> QED BY <1>14, <2>1, <2>2, <2>3, <2>4 DEF Linked
<1>17. /\ NamesOnce(c)
       /\ Entries(c) = {e \in Entries(b) : e[1] # Name(b, o)}
       /\ Packed(c) = Packed(b) - idealLength(NameLen(b, o))
  <2>1. Len(t) = Len(s) - 1 /\ i \in 1 .. Len(s) /\ Name(b, s[i]) \in Names
    BY <1>00, <1>2, <1>14
  <2>2. \A k \in 1 .. Len(t) : Same(b, s[Skip(i, k)], c, t[k])
    BY <1>14, <1>15
  <2>3. /\ NamesOnce(c)
        /\ Entries(c) = {e \in Entries(b) : e[1] # Name(b, s[i])}
        /\ Packed(c) = Packed(b) - idealLength(NameLen(b, s[i]))
    <3>1. b \in Block /\ Linked(b, s) /\ NamesOnce(b) /\ c \in Block
      BY <1>1, <1>11
    <3> QED BY ONLY <1>16, <2>1, <2>2, <3>1, EntryGone
  <2> QED BY <2>3
<1>18. Packed(c) + Room(c) >= BLKSIZE
  <2>1. Last(c) = q
    <3>1. t[Len(t)] = q
      BY <1>00, <1>02, <1>1, <1>2, <1>14
    <3> QED BY <1>11, <1>16, <3>1, ChainIs
  <2>2. NameLen(c, q) = NameLen(b, l)
    <3>1. Same(b, s[n], c, s[n] - r)
      BY <1>2, <1>13
    <3> QED BY <1>00, <1>02, <3>1 DEF Same
  <2>3. Room(c) = len - idealLength(NameLen(b, l))
          /\ Room(b) = RecLen(b, l) - idealLength(NameLen(b, l))
    BY <1>1, <1>11, <2>1, <2>2 DEF Room
  <2>4. Packed(b) \in Nat
    BY <1>1, PackedNumber
  <2>5. ASSUME NEW P \in Nat, NEW B \in Nat, NEW rr \in Nat,
               NEW rl \in Nat, NEW io \in Nat, NEW il \in Nat,
               rr >= io, P + (rl - il) >= B
        PROVE  (P - io) + ((rl + rr) - il) >= B
    BY ONLY <2>5
  <2>6. Packed(b) + (RecLen(b, l) - idealLength(NameLen(b, l))) >= BLKSIZE
    BY <1>1, <2>3
  <2>7. r \in Nat /\ idealLength(NameLen(b, o)) \in Nat /\ r >= idealLength(NameLen(b, o))
    BY <1>3
  <2>8. RecLen(b, l) \in Nat /\ idealLength(NameLen(b, l)) \in Nat /\ BLKSIZE \in Nat
    BY <1>4, Sizes
  <2>9. (Packed(b) - idealLength(NameLen(b, o))) + ((RecLen(b, l) + r) - idealLength(NameLen(b, l)))
          >= BLKSIZE
    BY ONLY <2>4, <2>5, <2>6, <2>7, <2>8
  <2>10. len = RecLen(b, l) + r
    BY <1>02
  <2> QED BY ONLY <1>17, <2>3, <2>9, <2>10
<1>19. Sound(c)
  <2>1. Chain(c) = t
    BY <1>11, <1>16, ChainIs
  <2> QED BY <1>11, <1>16, <1>17, <1>18, <2>1 DEF Sound
<1> QED BY <1>17, <1>19

\* The entries of a name, by the names of the block and by its entries.
LEMMA HitsFacts ==
    ASSUME NEW b, NEW x
    PROVE  /\ Hits(b, x) = {} <=> x \notin NamedIn(b)
           /\ NamedIn(b) = {e[1] : e \in Entries(b)}
<1>1. Hits(b, x) = {} <=> x \notin NamedIn(b)
  BY DEF Hits, NamedIn
<1>2. \A o : <<Name(b, o), Ino(b, o)>>[1] = Name(b, o)
  OBVIOUS
<1>3. ASSUME NEW y \in NamedIn(b) PROVE \E e \in Entries(b) : y = e[1]
  <2>1. PICK o \in Range(Chain(b)) : y = Name(b, o)
    BY DEF NamedIn
  <2>2. <<Name(b, o), Ino(b, o)>> \in Entries(b)
    BY DEF Entries
  <2> QED BY <1>2, <2>1, <2>2
<1>4. ASSUME NEW e \in Entries(b) PROVE e[1] \in NamedIn(b)
  <2>1. PICK o \in Range(Chain(b)) : e = <<Name(b, o), Ino(b, o)>>
    BY DEF Entries
  <2> QED BY <2>1 DEF NamedIn
<1> QED BY <1>1, <1>3, <1>4

\* What rm_child() does to a block, if it comes to the end of it: the entry of that
\* name is gone, and the others are left.
LEMMA WithoutBlock ==
    ASSUME NEW b, Sound(b), NEW x \in Names, NEW junk \in Junk,
           Hits(b, x) = {} \/ Last(b) # 0
    PROVE  /\ Sound(Without(b, x, junk))
           /\ Entries(Without(b, x, junk)) = {e \in Entries(b) : e[1] # x}
<1> DEFINE s == Chain(b)
           n == Len(s)
           l == s[n]
           c == Without(b, x, junk)
<1>1. b \in Block /\ Linked(b, s)
  BY DEF Sound
<1>2. /\ Last(b) = l /\ n \in Nat /\ n > 0 /\ s[1] = 0
      /\ Range(Chain(b)) = {s[k] : k \in 1 .. n}
  BY <1>1, ChainIs, ChainAt DEF Linked
<1>3. CASE Hits(b, x) = {}
  <2>1. c = b
    BY <1>3 DEF Without
  <2>2. \A e \in Entries(b) : e[1] # x
    BY <1>3, HitsFacts
  <2> QED BY <2>1, <2>2
<1>4. CASE Hits(b, x) # {}
  <2> DEFINE o == CHOOSE o \in Hits(b, x) : TRUE
  <2>1. o \in Hits(b, x)
    BY <1>4
  <2>2. c = IF o = l THEN Grown(b, Before(b, o), RecLen(b, o))
            ELSE Grown(Cut(b, o, junk), l - RecLen(b, o), RecLen(b, o))
    BY <1>2, <1>4 DEF Without
  <2> HIDE DEF o, c
  <2>3. PICK i \in 1 .. n : o = s[i] /\ Name(b, o) = x
    BY <1>2, <2>1 DEF Hits
  <2>4. n > 1
    <3>1. n # 1
      BY <1>2, <1>4
    <3> QED BY <1>2, <3>1
  <2>5. CASE o = l
    <3>1. c = Grown(b, Before(b, l), RecLen(b, l))
      BY <2>2, <2>5
    <3> HIDE DEF s, n, l
    <3>2. s = Chain(b) /\ l = s[Len(s)] /\ Len(s) > 1 /\ Name(b, l) = x
      BY <2>3, <2>4, <2>5 DEF s, n, l
    <3>3. Sound(c) /\ Entries(c) = {e \in Entries(b) : e[1] # Name(b, l)}
      BY <3>1, <3>2, LastRemoved
    <3> QED BY <3>2, <3>3 DEF c
  <2>6. CASE o # l
    <3>1. c = Grown(Cut(b, o, junk), l - RecLen(b, o), RecLen(b, o))
      BY <2>2, <2>6
    <3>2. i \in 1 .. Len(s) - 1
      <4>1. i # n
        BY <2>3, <2>6
      <4> QED BY <1>2, <4>1
    <3> HIDE DEF s, n, l
    <3>3. s = Chain(b) /\ l = s[Len(s)] /\ o = s[i] /\ Name(b, o) = x
      BY <2>3 DEF s, n, l
    <3>4. Sound(c) /\ Entries(c) = {e \in Entries(b) : e[1] # Name(b, o)}
      BY <3>1, <3>2, <3>3, InnerRemoved
    <3> QED BY <3>3, <3>4 DEF c
  <2> QED BY <2>5, <2>6
<1> QED BY <1>3, <1>4

\* A block of one entry.
LEMMA NewBlock ==
    ASSUME NEW x \in Names, NEW i \in Inos
    PROVE  /\ Sound(PutEntry(Zeros, 0, i, BLKSIZE, x))
           /\ Entries(PutEntry(Zeros, 0, i, BLKSIZE, x)) = {<<x, i>>}
<1> DEFINE c == PutEntry(Zeros, 0, i, BLKSIZE, x)
           s == <<0>>
<1>1. Zeros \in Block /\ BLKSIZE \in Bytes /\ 0 \in Nat /\ 0 \in Off
  <2>1. 0 \in Bytes /\ BLKSIZE \in Bytes
    BY Sizes, ByteNumbers
  <2>2. 0 \in Off
    BY Sizes DEF Off
  <2> QED BY <2>1, <2>2 DEF Zeros, Block
<1>2. x \in Seq(NameBytes) /\ Len(x) \in Nat /\ 0 + 8 + Len(x) <= BLKSIZE /\ i \in NameBytes
  <2>1. x \in Seq(NameBytes) /\ Len(x) \in Nat /\ Len(x) + 8 <= BLKSIZE
    BY NameFacts
  <2>2. i \in NameBytes
    BY InosAssumption DEF NameBytes
  <2> QED BY <2>1, <2>2, Sizes
<1>3. /\ c \in Block
      /\ Ino(c, 0) = i /\ RecLen(c, 0) = BLKSIZE /\ NameLen(c, 0) = Len(x) /\ Name(c, 0) = x
      /\ \A k \in 1 .. Len(x) : Byte(c, 0 + 7 + k) # 0
  BY <1>1, <1>2, EntryPut
<1> HIDE DEF c
<1>4. s \in Seq(Off) /\ Len(s) = 1 /\ s[1] = 0
  BY <1>1
<1> HIDE DEF s
<1>5. Entry(c, 0)
  <2>1. i # 0
    BY <1>2, ByteNumbers
  <2>2. 0 + 8 + NameLen(c, 0) <= BLKSIZE /\ RecLen(c, 0) >= 8 + NameLen(c, 0)
    BY <1>2, <1>3, Sizes
  <2> QED BY <1>3, <2>1, <2>2 DEF Entry
<1>6. Linked(c, s)
  <2>1. \A k \in 1 .. Len(s) : k = 1
    BY <1>4
  <2>2. \A k \in 1 .. Len(s) - 1 : FALSE
    BY <1>4
  <2>3. s[Len(s)] + RecLen(c, s[Len(s)]) \in BLKSIZE .. BLKSIZE + MaxDrift
    BY <1>3, <1>4, Sizes
  <2>4. Len(s) > 0 /\ \A k \in 1 .. Len(s) : Entry(c, s[k])
    BY <1>4, <1>5, <2>1
  <2> QED BY <1>4, <2>2, <2>3, <2>4 DEF Linked
<1>7. Chain(c) = s /\ Last(c) = 0
      /\ Entries(c) = {<<Name(c, s[k]), Ino(c, s[k])>> : k \in 1 .. Len(s)}
  BY <1>3, <1>4, <1>6, ChainIs, ChainAt
<1>8. Entries(c) = {<<x, i>>}
  <2>1. \A k : k \in 1 .. Len(s) <=> k = 1
    BY <1>4
  <2> QED BY <1>3, <1>4, <1>7, <2>1
<1>9. NamesOnce(c)
  <2>1. OnceAt(c, s)
    BY <1>4 DEF OnceAt
  <2> QED BY <1>3, <1>6, <2>1, OnceByPlace
<1>10. Packed(c) + Room(c) >= BLKSIZE
  <2> DEFINE g == [k \in 0 .. 1 |-> IF k = 0 THEN 0 ELSE idealLength(Len(x))]
  <2>0. idealLength(Len(x)) \in Nat
    BY <1>2, IdealLength
  <2>1. Sums(c, s, g)
    <3>1. \A k \in 1 .. Len(s) : k = 1
      BY <1>4
    <3>2. g[0] = 0 /\ g[1] = g[0] + idealLength(NameLen(c, s[1]))
      BY <1>3, <1>4, <2>0
    <3> HIDE DEF g
    <3>3. g[1 - 1] = g[0]
      OBVIOUS
    <3> QED BY <3>1, <3>2, <3>3 DEF Sums
  <2>2. Len(s) \in Nat /\ g[Len(s)] = idealLength(Len(x))
    BY <1>4
  <2> HIDE DEF g
  <2>3. Packed(c) = idealLength(Len(x))
    BY <1>7, <2>1, <2>2, PackedIs
  <2>4. Room(c) = BLKSIZE - idealLength(Len(x))
    BY <1>3, <1>7 DEF Room
  <2> QED BY <2>0, <2>3, <2>4, Sizes
<1>11. Sound(c)
  BY <1>3, <1>6, <1>7, <1>9, <1>10 DEF Sound
<1> QED BY <1>8, <1>11 DEF c

\* The block kmkdir() makes has "." and "..", and no name that is looked for.
LEMMA FirstBlock ==
    LET d == PutEntry(PutEntry(Zeros, 0, 2, 12, <<DOT>>), 12, 2, BLKSIZE - 12, <<DOT, DOT>>)
    IN  Sound(d) /\ NamedIn(d) \cap Names = {}
<1> DEFINE a == PutEntry(Zeros, 0, 2, 12, <<DOT>>)
           d == PutEntry(a, 12, 2, BLKSIZE - 12, <<DOT, DOT>>)
           s == <<0, 12>>
<1>1. Zeros \in Block /\ 12 \in Bytes /\ BLKSIZE - 12 \in Bytes
      /\ 2 \in NameBytes /\ 0 \in Off /\ 12 \in Off
  <2>1. 0 \in Bytes /\ 12 \in Bytes /\ BLKSIZE - 12 \in Bytes
    <3>1. BLKSIZE - 12 \in Nat /\ BLKSIZE - 12 < 256
      BY Sizes
    <3> QED BY <3>1, ByteNumbers
  <2>2. 0 \in Off /\ 12 \in Off
    BY Sizes DEF Off
  <2>3. 2 \in NameBytes
    BY DEF NameBytes
  <2> QED BY <2>1, <2>2, <2>3 DEF Zeros, Block
<1>2. /\ <<DOT>> \in Seq(NameBytes) /\ Len(<<DOT>>) = 1
      /\ <<DOT, DOT>> \in Seq(NameBytes) /\ Len(<<DOT, DOT>>) = 2
  <2>1. DOT \in NameBytes
    BY DEF DOT, NameBytes
  <2> QED BY <2>1
<1>3. /\ a \in Block
      /\ Ino(a, 0) = 2 /\ RecLen(a, 0) = 12 /\ NameLen(a, 0) = 1 /\ Name(a, 0) = <<DOT>>
      /\ \A k \in 1 .. 1 : Byte(a, 0 + 7 + k) # 0
  <2> DEFINE x == <<DOT>>
  <2>1. x \in Seq(NameBytes) /\ Len(x) = 1 /\ 0 + 8 + Len(x) <= BLKSIZE
    BY <1>2, Sizes
  <2>2. Written(Zeros, 0, 2, 12, x, PutEntry(Zeros, 0, 2, 12, x))
    <3>1. 0 \in Nat
      OBVIOUS
    <3> HIDE DEF x
    <3> QED BY <1>1, <2>1, <3>1, EntryWritten
  <2> HIDE DEF a
  <2>3. Written(Zeros, 0, 2, 12, x, a)
    BY <2>2 DEF a
  <2> QED BY <2>1, <2>3 DEF Written
<1> HIDE DEF a
<1>4. /\ d \in Block
      /\ Ino(d, 12) = 2 /\ RecLen(d, 12) = BLKSIZE - 12
         /\ NameLen(d, 12) = 2 /\ Name(d, 12) = <<DOT, DOT>>
      /\ \A k \in 1 .. 2 : Byte(d, 12 + 7 + k) # 0
      /\ \A k \in Int : k < 12 => Byte(d, k) = Byte(a, k)
  <2> DEFINE x == <<DOT, DOT>>
  <2>1. x \in Seq(NameBytes) /\ Len(x) = 2 /\ 12 + 8 + Len(x) <= BLKSIZE
    BY <1>2, Sizes
  <2>2. Written(a, 12, 2, BLKSIZE - 12, x, PutEntry(a, 12, 2, BLKSIZE - 12, x))
    <3>1. 12 \in Nat
      OBVIOUS
    <3> HIDE DEF x
    <3> QED BY <1>1, <1>3, <2>1, <3>1, EntryWritten
  <2> HIDE DEF d
  <2>3. Written(a, 12, 2, BLKSIZE - 12, x, d)
    BY <2>2 DEF d
  <2> QED BY <2>1, <2>3 DEF Written
<1> HIDE DEF d
<1>5. Moved(a, 0, d, 0) /\ RecLen(d, 0) = 12
  <2>1. ASSUME NEW j \in 0 .. 8 PROVE Byte(d, 0 + j) = Byte(a, 0 + j)
    BY <1>4
  <2>2. Moved(a, 0, d, 0)
    <3>1. 7 + NameLen(a, 0) = 8
      BY <1>3
    <3> QED BY <2>1, <3>1 DEF Moved
  <2>3. RecLen(d, 0) = RecLen(a, 0)
    BY <2>1 DEF RecLen
  <2> QED BY <1>3, <2>2, <2>3
<1>6. Entry(a, 0)
  BY <1>3, Sizes DEF Entry
<1>7. Name(d, 0) = <<DOT>> /\ NameLen(d, 0) = 1 /\ Entry(d, 0)
  <2>1. 0 + 8 + NameLen(a, 0) <= BLKSIZE /\ RecLen(d, 0) >= 8 + NameLen(a, 0)
    BY <1>3, <1>5, Sizes
  <2> QED BY <1>3, <1>4, <1>5, <1>6, <2>1, MovedEntry
<1>8. Entry(d, 12)
  BY <1>4, Sizes DEF Entry
<1>9. s \in Seq(Off) /\ Len(s) = 2 /\ s[1] = 0 /\ s[2] = 12
  BY <1>1
<1> HIDE DEF s
<1>10. \A k : k \in 1 .. Len(s) <=> k = 1 \/ k = 2
  BY <1>9
<1>11. idealLength(1) = 12 /\ idealLength(2) = 12
  BY DEF idealLength
<1>12. Linked(d, s)
  <2>1. Len(s) > 0 /\ \A k \in 1 .. Len(s) : Entry(d, s[k])
    BY <1>7, <1>8, <1>9, <1>10
  <2>2. ASSUME NEW k \in 1 .. Len(s) - 1
        PROVE  s[k + 1] = s[k] + RecLen(d, s[k]) /\ RecLen(d, s[k]) >= idealLength(NameLen(d, s[k]))
    <3>1. k = 1
      BY <1>9
    <3>2. s[1 + 1] = s[1] + RecLen(d, s[1]) /\ RecLen(d, s[1]) >= idealLength(NameLen(d, s[1]))
      BY <1>5, <1>7, <1>9, <1>11
    <3> QED BY <3>1, <3>2
  <2>3. s[Len(s)] + RecLen(d, s[Len(s)]) \in BLKSIZE .. BLKSIZE + MaxDrift
    BY <1>4, <1>9, Sizes
  <2> QED BY <1>9, <2>1, <2>2, <2>3 DEF Linked
<1>13. /\ Chain(d) = s /\ Last(d) = 12
       /\ NamedIn(d) = {Name(d, s[k]) : k \in 1 .. Len(s)}
  BY <1>4, <1>9, <1>12, ChainIs, ChainAt
<1>14. \A k \in 1 .. Len(s) : Name(d, s[k]) \notin Names
  <2>1. <<DOT>> \notin Names /\ <<DOT, DOT>> \notin Names
    BY NamesAssumption
  <2> QED BY <1>4, <1>7, <1>9, <1>10, <2>1
<1>15. NamesOnce(d)
  <2>1. OnceAt(d, s)
    BY <1>14 DEF OnceAt
  <2> QED BY <1>4, <1>12, <2>1, OnceByPlace
<1>16. Packed(d) + Room(d) >= BLKSIZE
  <2> DEFINE g == [k \in 0 .. 2 |-> IF k = 0 THEN 0 ELSE IF k = 1 THEN 12 ELSE 24]
  <2>1. Sums(d, s, g)
    <3>1. g[0] = 0 /\ g[1] = g[0] + 12 /\ g[2] = g[1] + 12
      OBVIOUS
    <3> HIDE DEF g
    <3>2. 1 - 1 = 0 /\ 2 - 1 = 1
      OBVIOUS
    <3>3. idealLength(NameLen(d, s[1])) = 12 /\ idealLength(NameLen(d, s[2])) = 12
      BY <1>4, <1>7, <1>9, <1>11
    <3> QED BY <1>10, <3>1, <3>2, <3>3 DEF Sums
  <2>2. Len(s) \in Nat /\ g[Len(s)] = 24
    BY <1>9
  <2> HIDE DEF g
  <2>3. Packed(d) = 24
    BY <1>13, <2>1, <2>2, PackedIs
  <2>4. Room(d) = BLKSIZE - 12 - 12
    BY <1>4, <1>11, <1>13 DEF Room
  <2> QED BY <2>3, <2>4, Sizes
<1>17. Sound(d)
  BY <1>4, <1>12, <1>13, <1>15, <1>16 DEF Sound
<1>18. NamedIn(d) \cap Names = {}
  BY <1>13, <1>14
<1> QED BY <1>17, <1>18 DEF a, d

-----------------------------------------------------------------------------
(* rm_child() over the blocks.                                             *)

\* f is where the loop is after each block.
Loop(bs, x, junk, f) ==
    /\ f[0] = [blocks |-> bs, st |-> "up", name |-> <<>>, removed |-> FALSE]
    /\ \A k \in 1 .. Len(bs) : f[k] = rm_block(f[k - 1], k, x, junk)

\* The blocks are treated one after the other.
LEMMA RmChildSteps ==
    ASSUME NEW bs, Len(bs) \in Nat, NEW x, NEW junk
    PROVE  \E f : Loop(bs, x, junk, f) /\ rm_child(bs, x, junk) = f[Len(bs)]
<1> DEFINE L == Len(bs)
           first == [blocks |-> bs, st |-> "up", name |-> <<>>, removed |-> FALSE]
           Is(g, j) == g =
                       [k \in 0 .. j |-> IF k = 0 THEN first ELSE rm_block(g[k - 1], k, x, junk)]
           S == {j \in Nat : \E g : Is(g, j)}
<1> HIDE DEF first
<1>1. 0 \in S
  <2>1. Is([k \in 0 .. 0 |-> first], 0)
    OBVIOUS
  <2> QED BY <2>1
<1>2. ASSUME NEW j \in Nat, j \in S PROVE j + 1 \in S
  <2>1. PICK g : Is(g, j)
    BY <1>2
  <2> DEFINE h == [k \in 0 .. j + 1 |-> IF k <= j THEN g[k] ELSE rm_block(g[j], j + 1, x, junk)]
  <2>2. ASSUME NEW k \in 0 .. j + 1
        PROVE  h[k] = IF k = 0 THEN first ELSE rm_block(h[k - 1], k, x, junk)
    <3>1. CASE k = 0
      BY <2>1, <3>1
    <3>2. CASE k # 0 /\ k <= j
      <4>1. k - 1 \in 0 .. j /\ k - 1 <= j /\ k \in 0 .. j
        BY <3>2
      <4>2. h[k] = g[k] /\ h[k - 1] = g[k - 1]
        BY <3>2, <4>1
      <4>3. g[k] = rm_block(g[k - 1], k, x, junk)
        BY <2>1, <3>2, <4>1
      <4> QED BY <3>2, <4>2, <4>3
    <3>3. CASE k # 0 /\ ~ (k <= j)
      <4>1. k = j + 1 /\ k - 1 = j /\ j \in 0 .. j + 1 /\ j <= j
        BY <3>3
      <4>2. h[k] = rm_block(g[j], j + 1, x, junk) /\ h[j] = g[j]
        BY <3>3, <4>1
      <4> QED BY <3>3, <4>1, <4>2
    <3> QED BY <3>1, <3>2, <3>3
  <2>3. Is(h, j + 1)
    <3>1. h = [k \in 0 .. j + 1 |-> h[k]]
      OBVIOUS
    <3> HIDE DEF h
    <3> QED BY <2>2, <3>1
  <2> HIDE DEF h
  <2>4. \E f : Is(f, j + 1)
    BY <2>3
  <2> QED BY <2>4
<1>3. Nat \subseteq S
  <2> HIDE DEF S
  <2> QED BY <1>1, <1>2, SetInduction
<1>4. \E g : Is(g, L)
  BY <1>3
<1> DEFINE after == CHOOSE g : Is(g, L)
<1>5. Is(after, L)
  BY <1>4
<1>6. rm_child(bs, x, junk) = after[L]
  BY DEF rm_child, first
<1> HIDE DEF after
<1>7. after[0] = first /\ \A k \in 1 .. L : after[k] = rm_block(after[k - 1], k, x, junk)
  <2>1. after[0] = first
    BY <1>5
  <2>2. ASSUME NEW k \in 1 .. L PROVE after[k] = rm_block(after[k - 1], k, x, junk)
    <3>1. k \in 0 .. L /\ k # 0
      OBVIOUS
    <3> QED BY <1>5, <3>1
  <2> QED BY <2>1, <2>2
<1>8. Loop(bs, x, junk, after)
  BY <1>7 DEF Loop, first
<1> QED BY <1>6, <1>8

\* What the loop carries from block to block.
Walk(s) == s = [blocks |-> s.blocks, st |-> s.st, name |-> s.name, removed |-> s.removed]

\* r is s after block k: either its end is lost, or the block has lost x and nothing else.
Treated(s, k, x, r) ==
    /\ Walk(r) /\ r.blocks \in Seq(Block) /\ Len(r.blocks) = Len(s.blocks)
    /\ r.st \in {"up", "hung", "skewed"}
    /\ \A j \in 1 .. Len(s.blocks) : j # k => r.blocks[j] = s.blocks[j]
    /\ r.st = "up" => /\ s.st = "up"
                      /\ Sound(r.blocks[k])
                      /\ Entries(r.blocks[k]) = {e \in Entries(s.blocks[k]) : e[1] # x}

\* One block: nothing once the end is lost, and else the block has lost x, or the end
\* is lost here.
LEMMA RmBlockStep ==
    ASSUME NEW s, Walk(s), s.blocks \in Seq(Block), NEW k \in 1 .. Len(s.blocks), NEW x \in Names,
           NEW junk \in Junk, s.st \in {"up", "hung", "skewed"},
           s.st = "up" => Sound(s.blocks[k])
    PROVE  Treated(s, k, x, rm_block(s, k, x, junk))
<1> DEFINE b == s.blocks[k]
           one == Last(b) = 0
           hung == [s EXCEPT !.blocks[k] = Zeros, !.st = "hung"]
           skewed == [s EXCEPT !.st = "skewed"]
           gone == [s EXCEPT !.blocks[k] = Without(b, x, junk),
                             !.name = Name(b, Last(b)),
                             !.removed = Hits(b, x) \ {Last(b)} # {}]
           r == rm_block(s, k, x, junk)
           Good(q) == Treated(s, k, x, q)
<1>1. CASE s.st # "up"
  <2>1. r = s
    BY <1>1 DEF rm_block
  <2>2. Good(s)
    BY <1>1 DEF Treated
  <2> QED BY <2>1, <2>2
<1>2. ASSUME NEW c \in Block, NEW bs, bs = [s.blocks EXCEPT ![k] = c]
      PROVE  /\ bs \in Seq(Block) /\ Len(bs) = Len(s.blocks) /\ bs[k] = c
             /\ \A j \in 1 .. Len(s.blocks) : j # k => bs[j] = s.blocks[j]
  BY <1>2
<1>3. CASE s.st = "up" /\ s.name # x /\ RecLen(b, 0) = BLKSIZE
  <2>1. r = hung
    BY <1>3 DEF rm_block
  <2>2. Zeros \in Block
    BY Sizes DEF Zeros, Block, Bytes
  <2>3. hung.blocks = [s.blocks EXCEPT ![k] = Zeros] /\ hung.st = "hung" /\ Walk(hung)
    <3> DEFINE bs == [s.blocks EXCEPT ![k] = Zeros]
               name == s.name
               removed == s.removed
    <3>1. hung = [s EXCEPT !.blocks = bs, !.st = "hung", !.name = name, !.removed = removed]
      BY DEF Walk
    <3> HIDE DEF hung, bs, name, removed
    <3>2. hung = [blocks |-> bs, st |-> "hung", name |-> name, removed |-> removed]
      BY <3>1 DEF Walk
    <3> QED BY <3>2 DEF Walk, bs
  <2> HIDE DEF hung
  <2>4. Good(hung)
    BY <1>2, <2>2, <2>3 DEF Treated
  <2> QED BY <2>1, <2>4
<1>4. CASE /\ s.st = "up" /\ ~ (s.name # x /\ RecLen(b, 0) = BLKSIZE)
           /\ s.removed \/ (one /\ Hits(b, x) # {})
  <2>1. r = skewed
    BY <1>4 DEF rm_block
  <2>2. skewed.blocks = s.blocks /\ skewed.st = "skewed" /\ Walk(skewed)
    BY DEF Walk
  <2> HIDE DEF skewed
  <2>3. Good(skewed)
    BY <2>2 DEF Treated
  <2> QED BY <2>1, <2>3
<1>5. CASE /\ s.st = "up" /\ ~ (s.name # x /\ RecLen(b, 0) = BLKSIZE)
           /\ ~ (s.removed \/ (one /\ Hits(b, x) # {}))
  <2>1. r = gone
    BY <1>5 DEF rm_block
  <2>2. /\ Sound(Without(b, x, junk))
        /\ Entries(Without(b, x, junk)) = {e \in Entries(b) : e[1] # x}
    BY <1>5, WithoutBlock
  <2>3. gone.blocks = [s.blocks EXCEPT ![k] = Without(b, x, junk)] /\ gone.st = s.st /\ Walk(gone)
    <3> DEFINE bs == [s.blocks EXCEPT ![k] = Without(b, x, junk)]
               name == Name(b, Last(b))
               removed == Hits(b, x) \ {Last(b)} # {}
    <3>1. gone = [s EXCEPT !.blocks = bs, !.st = s.st, !.name = name, !.removed = removed]
      BY DEF Walk
    <3> HIDE DEF gone, bs, name, removed
    <3>2. gone = [blocks |-> bs, st |-> s.st, name |-> name, removed |-> removed]
      BY <3>1 DEF Walk
    <3> QED BY <3>2 DEF Walk, bs
  <2> HIDE DEF gone
  <2>4. Without(b, x, junk) \in Block
    BY <2>2 DEF Sound
  <2>5. Good(gone)
    BY <1>2, <1>5, <2>2, <2>3, <2>4 DEF Treated
  <2> QED BY <2>1, <2>5
<1>6. Good(r)
  BY <1>1, <1>3, <1>4, <1>5
<1> QED BY <1>6

\* r is the directory bs after rm_child(): it has as many blocks, and if the call came to
\* its end each has the entries it had but those of x.
Removed(bs, x, r) ==
    /\ r.blocks \in Seq(Block) /\ Len(r.blocks) = Len(bs)
    /\ r.st \in {"up", "hung", "skewed"}
    /\ r.st = "up" => \A k \in 1 .. Len(bs) :
                          /\ Sound(r.blocks[k])
                          /\ Entries(r.blocks[k]) = {e \in Entries(bs[k]) : e[1] # x}

\* rm_child() leaves such a directory.
LEMMA RmChild ==
    ASSUME NEW bs \in Seq(Block), \A k \in 1 .. Len(bs) : Sound(bs[k]),
           NEW x \in Names, NEW junk \in Junk
    PROVE  Removed(bs, x, rm_child(bs, x, junk))
<1> DEFINE L == Len(bs)
           At(s, k) == Sound(s.blocks[k])
                       /\ Entries(s.blocks[k]) = {e \in Entries(bs[k]) : e[1] # x}
           Done(s, j) == /\ Walk(s) /\ s.blocks \in Seq(Block) /\ Len(s.blocks) = L
                         /\ s.st \in {"up", "hung", "skewed"}
                         /\ s.st = "up" => /\ \A k \in 1 .. L : k <= j => At(s, k)
                                           /\ \A k \in 1 .. L : k > j => s.blocks[k] = bs[k]
<1>1. L \in Nat
  OBVIOUS
<1>2. PICK f : /\ rm_child(bs, x, junk) = f[L]
               /\ f[0] = [blocks |-> bs, st |-> "up", name |-> <<>>, removed |-> FALSE]
               /\ \A k \in 1 .. L : f[k] = rm_block(f[k - 1], k, x, junk)
  <2>1. PICK f : Loop(bs, x, junk, f) /\ rm_child(bs, x, junk) = f[Len(bs)]
    BY <1>1, RmChildSteps
  <2> QED BY <2>1 DEF Loop
<1> DEFINE S == {j \in Nat : j <= L => Done(f[j], j)}
<1>3. 0 \in S
  <2>1. f[0].blocks = bs /\ f[0].st = "up" /\ Walk(f[0])
    BY <1>2 DEF Walk
  <2> HIDE DEF At
  <2>2. \A k \in 1 .. L : ~ (k <= 0)
    BY <1>1
  <2>3. Done(f[0], 0)
    BY <2>1, <2>2
  <2> QED BY <2>3
<1>4. ASSUME NEW j \in Nat, j \in S PROVE j + 1 \in S
  <2>1. SUFFICES ASSUME j + 1 <= L PROVE Done(f[j + 1], j + 1)
    OBVIOUS
  <2> DEFINE s == f[j]
             n == j + 1
             r == f[n]
  <2>2. /\ n \in 1 .. L /\ n - 1 = j /\ n > j
        /\ \A k \in 1 .. L : (k <= n <=> k <= j \/ k = n) /\ (k > n => k > j /\ k # n) /\ (k <= j => k # n)
    BY <1>1, <2>1
  <2>3. Done(s, j)
    BY <1>1, <1>4, <2>1
  <2>4. r = rm_block(s, n, x, junk)
    BY <1>2, <2>2
  <2> HIDE DEF s, n, r, L
  <2>5. s.st = "up" => Sound(s.blocks[n]) /\ s.blocks[n] = bs[n]
    BY <2>2, <2>3 DEF L
  <2>6. Treated(s, n, x, r)
    <3>1. n \in 1 .. Len(s.blocks) /\ Walk(s) /\ s.blocks \in Seq(Block)
          /\ s.st \in {"up", "hung", "skewed"}
      BY <2>2, <2>3
    <3> QED BY <2>4, <2>5, <3>1, RmBlockStep
  <2>7. ASSUME r.st = "up", NEW k \in 1 .. L, k <= n PROVE At(r, k)
    <3>1. CASE k = n
      BY <2>5, <2>6, <2>7, <3>1 DEF Treated
    <3>2. CASE k # n
      <4>1. k <= j /\ At(s, k)
        BY <2>2, <2>3, <2>6, <2>7, <3>2 DEF Treated
      <4>2. r.blocks[k] = s.blocks[k]
        BY <2>3, <2>6, <3>2 DEF Treated
      <4> QED BY <4>1, <4>2
    <3> QED BY <3>1, <3>2
  <2>8. ASSUME r.st = "up", NEW k \in 1 .. L, k > n PROVE r.blocks[k] = bs[k]
    <3>1. r.blocks[k] = s.blocks[k]
      BY <2>2, <2>3, <2>6, <2>8 DEF Treated
    <3>2. s.blocks[k] = bs[k]
      BY <2>2, <2>3, <2>6, <2>8 DEF Treated
    <3> QED BY <3>1, <3>2
  <2> HIDE DEF At
  <2>9. Done(r, n)
    BY <2>3, <2>6, <2>7, <2>8 DEF Treated
  <2> QED BY <2>9 DEF r, n
<1>5. L \in S
  <2> HIDE DEF S
  <2> QED BY <1>1, <1>3, <1>4, SetInduction
<1>6. Done(f[L], L)
  BY <1>1, <1>5
<1>7. \A k \in 1 .. L : k <= L
  BY <1>1
<1> DEFINE r == f[L]
<1> HIDE DEF r, L
<1>8. Removed(bs, x, r)
  BY <1>6, <1>7 DEF Removed, r, L
<1> QED BY <1>2, <1>8 DEF r

-----------------------------------------------------------------------------
(* search().                                                               *)

\* A number is given of a name the directory has, and 0 only of another.
LEMMA SearchFinds ==
    ASSUME NEW bs \in Seq(Block), \A k \in 1 .. Len(bs) : Sound(bs[k]), NEW x, search(bs, x) = 0
    PROVE  \A k \in 1 .. Len(bs) : x \notin NamedIn(bs[k])
<1>1. DOMAIN bs = 1 .. Len(bs) /\ Len(bs) \in Nat
  OBVIOUS
<1>2. ASSUME Has(bs, x) PROVE FALSE
  <2> DEFINE B == {k \in DOMAIN bs : Hits(bs[k], x) # {}}
             P(k) == Hits(bs[k], x) # {} /\ \A j \in 1 .. k - 1 : Hits(bs[j], x) = {}
             at == CHOOSE i \in DOMAIN bs : P(i)
             hits == Hits(bs[at], x)
             o == CHOOSE p \in hits : \A q \in hits : p <= q
  <2>1. \E i \in DOMAIN bs : P(i)
    <3>1. B # {} /\ B \subseteq Nat
      <4>1. PICK i \in DOMAIN bs : Hits(bs[i], x) # {}
        BY <1>2 DEF Has
      <4>2. i \in B
        BY <4>1
      <4>3. DOMAIN bs \subseteq Nat
        BY <1>1
      <4> QED BY <4>2, <4>3
    <3>2. PICK i \in B : \A j \in B : i <= j
      <4> HIDE DEF B
      <4> QED BY <3>1, LeastNumber
    <3>3. ASSUME NEW j \in 1 .. i - 1 PROVE Hits(bs[j], x) = {}
      <4>1. j \in DOMAIN bs /\ ~ (i <= j)
        BY <1>1, <3>2
      <4> QED BY <3>2, <4>1
    <3> QED BY <3>2, <3>3
  <2>2. at \in DOMAIN bs /\ P(at)
    <3> HIDE DEF P
    <3> QED BY <2>1
  <2>3. search(bs, x) = Ino(bs[at], o)
    BY <1>2 DEF search
  <2> HIDE DEF at, o
  <2>4. Sound(bs[at]) /\ hits # {}
    BY <1>1, <2>2
  <2>5. /\ hits \subseteq Range(Chain(bs[at]))
        /\ \A p \in Range(Chain(bs[at])) : p \in Nat /\ Ino(bs[at], p) # 0
    <3> DEFINE b == bs[at]
               s == Chain(b)
    <3>1. b \in Block /\ Linked(b, s)
      BY <2>4 DEF Sound
    <3>2. \A j \in 1 .. Len(s) : s[j] \in Nat /\ Entry(b, s[j])
      <4> HIDE DEF b, s
      <4> QED BY <3>1, LinkFacts
    <3>3. Range(Chain(b)) = {s[j] : j \in 1 .. Len(s)}
      BY <3>1, ChainAt
    <3>4. hits \subseteq Range(Chain(b))
      BY DEF Hits
    <3> QED BY <3>2, <3>3, <3>4 DEF Entry
  <2>6. \E p \in hits : \A q \in hits : p <= q
    <3>1. hits \subseteq Nat
      BY <2>5
    <3> HIDE DEF hits
    <3> QED BY <2>4, <3>1, LeastNumber
  <2>7. o \in hits
    <3> HIDE DEF hits
    <3> QED BY <2>6 DEF o
  <2> QED BY <2>3, <2>5, <2>7
<1> QED BY <1>1, <1>2, HitsFacts DEF Has

-----------------------------------------------------------------------------
(* The directory.                                                          *)

\* The entries of a directory are those of its blocks.
LEMMA EntryOfBlock ==
    ASSUME NEW bs \in Seq(Block)
    PROVE  /\ \A k \in 1 .. Len(bs) : Entries(bs[k]) \subseteq AllEntries(bs)
           /\ \A e \in AllEntries(bs) : \E k \in 1 .. Len(bs) : e \in Entries(bs[k])
<1>1. Range(bs) = {bs[k] : k \in 1 .. Len(bs)}
  BY DEF Range
<1> QED BY <1>1 DEF AllEntries

\* The names of a block are those of its entries.
LEMMA NameOfEntry ==
    ASSUME NEW b, NEW y
    PROVE  y \in NamedIn(b) <=> \E e \in Entries(b) : e[1] = y
BY HitsFacts

\* cs is a directory in good order, of that many blocks, with the entries of bs and <<x, i>>.
Entered(bs, x, i, cs, blocksOf) ==
    /\ cs \in Seq(Block) /\ Len(cs) = blocksOf /\ Whole(cs)
    /\ AllEntries(cs) = AllEntries(bs) \cup {<<x, i>>}

\* One block gets an entry of a name that none has.
LEMMA BlockChanged ==
    ASSUME NEW bs \in Seq(Block), Whole(bs), NEW k \in 1 .. Len(bs), NEW c, Sound(c),
           NEW x \in Names, NEW i, Entries(c) = Entries(bs[k]) \cup {<<x, i>>},
           \A j \in 1 .. Len(bs) : x \notin NamedIn(bs[j])
    PROVE  Entered(bs, x, i, [bs EXCEPT ![k] = c], Len(bs))
<1> DEFINE cs == [bs EXCEPT ![k] = c]
<1>1. c \in Block
  BY DEF Sound
<1>2. /\ cs \in Seq(Block) /\ Len(cs) = Len(bs)
      /\ DOMAIN bs = 1 .. Len(bs) /\ DOMAIN cs = 1 .. Len(bs)
      /\ cs[k] = c /\ \A j \in 1 .. Len(bs) : j # k => cs[j] = bs[j]
  BY <1>1
<1> HIDE DEF cs
<1>3. \A y : y \in NamedIn(c) => y = x \/ y \in NamedIn(bs[k])
  <2>1. <<x, i>>[1] = x
    OBVIOUS
  <2> QED BY <2>1, NameOfEntry
<1>4. Whole(cs)
  <2>1. \A j \in DOMAIN cs : Sound(cs[j])
    BY <1>2 DEF Whole
  <2>2. ASSUME NEW j \in DOMAIN cs, NEW m \in DOMAIN cs, j # m,
               NEW y \in NamedIn(cs[j]) \cap NamedIn(cs[m]) \cap Names
        PROVE  FALSE
    <3>1. CASE j # k /\ m # k
      BY <1>2, <2>2, <3>1 DEF Whole
    <3>2. CASE j = k \/ m = k
      <4>1. PICK n \in 1 .. Len(bs) : n # k /\ y \in NamedIn(bs[n]) /\ y \in NamedIn(c)
        BY <1>2, <2>2, <3>2
      <4>2. y \in NamedIn(bs[k])
        BY <1>3, <4>1
      <4> QED BY <1>2, <2>2, <4>1, <4>2 DEF Whole
    <3> QED BY <3>1, <3>2
  <2> QED BY <2>1, <2>2 DEF Whole
<1>5. ASSUME NEW e PROVE e \in AllEntries(cs) <=> e \in AllEntries(bs) \cup {<<x, i>>}
  <2>1. ASSUME e \in AllEntries(cs) PROVE e \in AllEntries(bs) \cup {<<x, i>>}
    <3>1. PICK j \in 1 .. Len(bs) : e \in Entries(cs[j])
      BY <1>2, <2>1, EntryOfBlock
    <3>2. e \in Entries(bs[j]) \cup {<<x, i>>}
      BY <1>2, <3>1
    <3> QED BY <3>2, EntryOfBlock
  <2>2. ASSUME e \in AllEntries(bs) PROVE e \in AllEntries(cs)
    <3>1. PICK j \in 1 .. Len(bs) : e \in Entries(bs[j])
      BY <2>2, EntryOfBlock
    <3>2. e \in Entries(cs[j])
      BY <1>2, <3>1
    <3> QED BY <1>2, <3>2, EntryOfBlock
  <2>3. <<x, i>> \in AllEntries(cs)
    <3>1. <<x, i>> \in Entries(cs[k])
      BY <1>2
    <3> QED BY <1>2, <3>1, EntryOfBlock
  <2> QED BY <2>1, <2>2, <2>3
<1>6. Entered(bs, x, i, cs, Len(bs))
  BY <1>2, <1>4, <1>5 DEF Entered
<1> QED BY <1>6 DEF cs

\* A block of one entry, of a name that none has, is added.
LEMMA BlockAppended ==
    ASSUME NEW bs \in Seq(Block), Whole(bs), NEW c, Sound(c),
           NEW x \in Names, NEW i, Entries(c) = {<<x, i>>},
           \A j \in 1 .. Len(bs) : x \notin NamedIn(bs[j])
    PROVE  Entered(bs, x, i, Append(bs, c), Len(bs) + 1)
<1> DEFINE k == Len(bs) + 1
           cs == Append(bs, c)
<1>1. c \in Block
  BY DEF Sound
<1>2. /\ cs \in Seq(Block) /\ Len(cs) = k /\ DOMAIN bs = 1 .. Len(bs) /\ DOMAIN cs = 1 .. k
      /\ cs[k] = c /\ \A j \in 1 .. Len(bs) : cs[j] = bs[j]
  BY <1>1
<1>3. /\ \A j : j \in 1 .. k <=> j = k \/ j \in 1 .. Len(bs)
      /\ k \notin 1 .. Len(bs)
  OBVIOUS
<1>4. \A y : y \in NamedIn(c) => y = x
  <2>1. <<x, i>>[1] = x
    OBVIOUS
  <2> QED BY <2>1, NameOfEntry
<1>5. Len(cs) = Len(bs) + 1
  BY <1>2
<1> HIDE DEF k, cs
<1>6. Whole(cs)
  <2>1. \A j \in DOMAIN cs : Sound(cs[j])
    BY <1>2, <1>3 DEF Whole
  <2>2. ASSUME NEW j \in DOMAIN cs, NEW m \in DOMAIN cs, j # m,
               NEW y \in NamedIn(cs[j]) \cap NamedIn(cs[m]) \cap Names
        PROVE  FALSE
    <3>1. CASE j # k /\ m # k
      BY <1>2, <1>3, <2>2, <3>1 DEF Whole
    <3>2. CASE j = k \/ m = k
      <4>1. PICK n \in 1 .. Len(bs) : y \in NamedIn(bs[n]) /\ y \in NamedIn(c)
        BY <1>2, <1>3, <2>2, <3>2
      <4> QED BY <1>4, <4>1
    <3> QED BY <3>1, <3>2
  <2> QED BY <2>1, <2>2 DEF Whole
<1>7. ASSUME NEW e PROVE e \in AllEntries(cs) <=> e \in AllEntries(bs) \cup {<<x, i>>}
  <2>1. ASSUME e \in AllEntries(cs) PROVE e \in AllEntries(bs) \cup {<<x, i>>}
    <3>1. PICK j \in 1 .. k : e \in Entries(cs[j])
      BY <1>2, <2>1, EntryOfBlock
    <3>2. CASE j = k
      BY <1>2, <3>1, <3>2
    <3>3. CASE j \in 1 .. Len(bs)
      <4>1. e \in Entries(bs[j])
        BY <1>2, <3>1, <3>3
      <4> QED BY <3>3, <4>1, EntryOfBlock
    <3> QED BY <1>3, <3>2, <3>3
  <2>2. ASSUME e \in AllEntries(bs) PROVE e \in AllEntries(cs)
    <3>1. PICK j \in 1 .. Len(bs) : e \in Entries(bs[j])
      BY <2>2, EntryOfBlock
    <3>2. e \in Entries(cs[j]) /\ j \in 1 .. Len(cs)
      BY <1>2, <1>3, <3>1
    <3> QED BY <1>2, <3>2, EntryOfBlock
  <2>3. <<x, i>> \in AllEntries(cs)
    <3>1. <<x, i>> \in Entries(cs[k]) /\ k \in 1 .. Len(cs)
      BY <1>2, <1>3
    <3> QED BY <1>2, <3>1, EntryOfBlock
  <2> QED BY <2>1, <2>2, <2>3
<1>8. Entered(bs, x, i, cs, Len(bs) + 1)
  BY <1>2, <1>5, <1>6, <1>7 DEF Entered
<1> QED BY <1>8 DEF cs

\* What rm_child() leaves.
LEMMA NameGone ==
    ASSUME NEW bs \in Seq(Block), Whole(bs), NEW x, NEW r, Removed(bs, x, r), r.st = "up"
    PROVE  /\ Whole(r.blocks)
           /\ AllEntries(r.blocks) = {e \in AllEntries(bs) : e[1] # x}
           /\ \A k \in 1 .. Len(bs) : x \notin NamedIn(r.blocks[k])
<1> DEFINE cs == r.blocks
<1>1. /\ cs \in Seq(Block) /\ Len(cs) = Len(bs)
      /\ \A k \in 1 .. Len(bs) : /\ Sound(cs[k])
                                /\ Entries(cs[k]) = {e \in Entries(bs[k]) : e[1] # x}
  BY DEF Removed
<1> HIDE DEF cs
<1>2. DOMAIN bs = 1 .. Len(bs) /\ DOMAIN cs = 1 .. Len(bs)
  BY <1>1
<1>3. ASSUME NEW k \in 1 .. Len(bs), NEW y \in NamedIn(cs[k]) PROVE y # x /\ y \in NamedIn(bs[k])
  BY <1>1, <1>3, NameOfEntry
<1>4. Whole(cs)
  BY <1>1, <1>2, <1>3 DEF Whole
<1>5. ASSUME NEW e PROVE e \in AllEntries(cs) <=> e \in {d \in AllEntries(bs) : d[1] # x}
  BY <1>1, EntryOfBlock
<1> QED BY <1>3, <1>4, <1>5 DEF cs

-----------------------------------------------------------------------------
(* The steps.                                                              *)

\* The directory kmkdir() makes is in good order and has none of the names.
LEMMA InitInv == Init => IInv /\ {e \in AllEntries(blocks) : e[1] \in Names} = {}
<1> SUFFICES ASSUME Init PROVE IInv /\ {e \in AllEntries(blocks) : e[1] \in Names} = {}
  OBVIOUS
<1> DEFINE c == PutEntry(PutEntry(Zeros, 0, 2, 12, <<DOT>>), 12, 2, BLKSIZE - 12, <<DOT, DOT>>)
<1>1. blocks = <<c>> /\ st = "up"
  BY DEF Init
<1>2. Sound(c) /\ NamedIn(c) \cap Names = {}
  BY FirstBlock
<1> HIDE DEF c
<1>3. c \in Block
  BY <1>2 DEF Sound
<1>4. /\ blocks \in Seq(Block) /\ Len(blocks) = 1 /\ DOMAIN blocks = 1 .. 1 /\ blocks[1] = c
      /\ \A k \in 1 .. 1 : k = 1
  BY <1>1, <1>3
<1>5. TypeOK
  <2>1. Len(blocks) \in 1 .. NDIRECT
    BY <1>4, Sizes
  <2> QED BY <1>1, <1>4, <2>1 DEF TypeOK, Block, Bytes
<1>6. Whole(blocks)
  BY <1>2, <1>4 DEF Whole
<1>7. \A e \in AllEntries(blocks) : e[1] \notin Names
  BY <1>2, <1>4, EntryOfBlock, NameOfEntry
<1> QED BY <1>5, <1>6, <1>7 DEF IInv

\* What the invariant says of a directory in use.
LEMMA Used ==
    ASSUME IInv, st = "up"
    PROVE  /\ blocks \in Seq(Block) /\ Len(blocks) \in Nat /\ Len(blocks) \in 1 .. NDIRECT
           /\ Whole(blocks)
           /\ DOMAIN blocks = 1 .. Len(blocks)
           /\ \A k \in 1 .. Len(blocks) : Sound(blocks[k])
<1>1. blocks \in Seq(Block) /\ Len(blocks) \in 1 .. NDIRECT /\ Whole(blocks)
  BY DEF IInv, TypeOK, Block, Bytes
<1>2. DOMAIN blocks = 1 .. Len(blocks) /\ Len(blocks) \in Nat
  BY <1>1
<1> QED BY <1>1, <1>2 DEF Whole

\* enter_child() of a name that is not there: it is dropped, or the directory has it
\* besides what it had, or its write crosses the end of the block.
LEMMA EnterEffect ==
    ASSUME IInv, NEW x \in Names, NEW i \in Inos, Enter(x, i)
    PROVE  /\ IInv'
           /\ \A e \in AllEntries(blocks) : e[1] # x
           /\ \/ UNCHANGED vars
              \/ st' # "up"
              \/ st' = "up" /\ AllEntries(blocks') = AllEntries(blocks) \cup {<<x, i>>}
<1>1. /\ blocks \in Seq(Block) /\ Len(blocks) \in Nat /\ Len(blocks) \in 1 .. NDIRECT
      /\ Whole(blocks)
      /\ DOMAIN blocks = 1 .. Len(blocks)
      /\ \A k \in 1 .. Len(blocks) : Sound(blocks[k])
  BY Used DEF Enter
<1>2. st = "up" /\ search(blocks, x) = 0 /\ enter_child(x, i)
  BY DEF Enter
<1>3. \A k \in 1 .. Len(blocks) : x \notin NamedIn(blocks[k])
  BY <1>1, <1>2, SearchFinds
<1>4. \A e \in AllEntries(blocks) : e[1] # x
  BY <1>1, <1>3, EntryOfBlock, NameOfEntry
<1>5. CASE WithRoom(blocks, x) # {}
  <2> DEFINE W == WithRoom(blocks, x)
             k == CHOOSE k \in W : \A j \in W : k <= j
             b == blocks[k]
  <2>1. W \subseteq 1 .. Len(blocks) /\ \A j \in W : Room(blocks[j]) >= idealLength(Len(x))
    BY <1>1 DEF WithRoom
  <2>2. k \in W
    <3>1. W \subseteq Nat
      BY <1>1, <2>1
    <3> HIDE DEF W
    <3>2. \E m \in W : \A j \in W : m <= j
      BY <1>5, <3>1, LeastNumber DEF W
    <3> QED BY <3>2
  <2>3. IF Behind(b) + 8 + Len(x) > BLKSIZE
        THEN st' = "undefined" /\ UNCHANGED blocks
        ELSE /\ Behind(b) + Place(b) <= BLKSIZE + MaxDrift
             /\ blocks' = [blocks EXCEPT ![k] = InRoom(b, x, i)]
             /\ UNCHANGED st
    BY <1>2, <1>5 DEF enter_child
  <2> HIDE DEF W, k
  <2>4. k \in 1 .. Len(blocks) /\ Sound(b) /\ Room(b) >= idealLength(Len(x)) /\ x \notin NamedIn(b)
    BY <1>1, <1>3, <2>1, <2>2
  <2>5. CASE Behind(b) + 8 + Len(x) > BLKSIZE
    BY <1>4, <2>3, <2>5 DEF IInv, TypeOK
  <2>6. CASE ~ (Behind(b) + 8 + Len(x) > BLKSIZE)
    <3> DEFINE c == InRoom(b, x, i)
    <3>1. /\ Behind(b) + Place(b) <= BLKSIZE + MaxDrift
          /\ blocks' = [blocks EXCEPT ![k] = c]
          /\ st' = st
      BY <2>3, <2>6
    <3>2. Behind(b) + 8 + Len(x) <= BLKSIZE
      <4>1. Behind(b) \in Int /\ Len(x) \in Int /\ BLKSIZE \in Int
        <5> DEFINE s == Chain(b)
                   l == s[Len(s)]
        <5>1. b \in Block /\ Linked(b, s) /\ Len(s) \in Nat /\ Len(s) > 0
          BY <2>4 DEF Sound, Linked
        <5>2. Last(b) = l /\ Len(s) \in 1 .. Len(s)
          BY <5>1, ChainIs
        <5>3. l \in Nat /\ Entry(b, l)
          <6> HIDE DEF s, b
          <6> QED BY <5>1, <5>2, LinkFacts
        <5>4. StrLen(b, l) \in Nat
          BY <5>1, <5>3, StrLenCovers
        <5>5. idealLength(StrLen(b, l)) \in Nat
          BY <5>4, IdealLength
        <5>6. Behind(b) \in Int
          BY <5>2, <5>3, <5>5 DEF Behind
        <5> QED BY <5>6, NameFacts, Sizes
      <4> HIDE DEF b
      <4> QED BY <2>6, <4>1
    <3>3. Sound(c) /\ Entries(c) = Entries(b) \cup {<<x, i>>}
      BY <2>4, <3>1, <3>2, EnterBlock
    <3> HIDE DEF c
    <3>4. Entered(blocks, x, i, [blocks EXCEPT ![k] = c], Len(blocks))
      BY <1>1, <1>3, <2>4, <3>3, BlockChanged
    <3>5. /\ blocks' \in Seq(Block) /\ Len(blocks') = Len(blocks) /\ Whole(blocks')
          /\ AllEntries(blocks') = AllEntries(blocks) \cup {<<x, i>>}
      BY <3>1, <3>4 DEF Entered
    <3>6. TypeOK'
      BY <1>1, <1>2, <3>1, <3>5 DEF TypeOK, Block, Bytes
    <3> QED BY <1>2, <1>4, <3>1, <3>5, <3>6 DEF IInv
  <2> QED BY <2>5, <2>6
<1>6. CASE WithRoom(blocks, x) = {} /\ CanGrow(blocks)
  <2> DEFINE c == PutEntry(Zeros, 0, i, BLKSIZE, x)
  <2>1. blocks' = Append(blocks, c) /\ st' = st
    BY <1>2, <1>6 DEF enter_child
  <2>2. Sound(c) /\ Entries(c) = {<<x, i>>}
    BY NewBlock
  <2> HIDE DEF c
  <2>3. Entered(blocks, x, i, Append(blocks, c), Len(blocks) + 1)
    BY <1>1, <1>3, <2>2, BlockAppended
  <2>4. /\ blocks' \in Seq(Block) /\ Len(blocks') = Len(blocks) + 1 /\ Whole(blocks')
        /\ AllEntries(blocks') = AllEntries(blocks) \cup {<<x, i>>}
    BY <2>1, <2>3 DEF Entered
  <2>5. Len(blocks') \in 1 .. NDIRECT
    BY <1>1, <1>6, <2>4, Sizes DEF CanGrow
  <2>6. TypeOK'
    BY <1>2, <2>1, <2>4, <2>5 DEF TypeOK, Block, Bytes
  <2> QED BY <1>2, <1>4, <2>1, <2>4, <2>6 DEF IInv
<1>7. CASE WithRoom(blocks, x) = {} /\ ~CanGrow(blocks)
  <2>1. UNCHANGED vars
    BY <1>2, <1>7 DEF enter_child, vars
  <2>2. IInv'
    BY <2>1 DEF IInv, TypeOK, vars
  <2> QED BY <1>4, <2>1, <2>2
<1> QED BY <1>5, <1>6, <1>7

\* rm_child(): if it comes to its end, the directory has lost the name and nothing else.
LEMMA RemoveEffect ==
    ASSUME IInv, NEW x \in Names, Remove(x)
    PROVE  /\ IInv'
           /\ st' = "up" => AllEntries(blocks') = {e \in AllEntries(blocks) : e[1] # x}
<1>1. /\ blocks \in Seq(Block) /\ Len(blocks) \in Nat /\ Len(blocks) \in 1 .. NDIRECT
      /\ Whole(blocks)
      /\ DOMAIN blocks = 1 .. Len(blocks)
      /\ \A k \in 1 .. Len(blocks) : Sound(blocks[k])
  BY Used DEF Remove
<1>2. PICK junk \in Junk :
        blocks' = rm_child(blocks, x, junk).blocks /\ st' = rm_child(blocks, x, junk).st
  BY DEF Remove
<1> DEFINE r == rm_child(blocks, x, junk)
<1>3. Removed(blocks, x, r)
  BY <1>1, RmChild
<1>4. blocks' = r.blocks /\ st' = r.st
  BY <1>2
<1> HIDE DEF r
<1>5. TypeOK'
  <2>1. blocks' \in Seq(Block) /\ Len(blocks') \in 1 .. NDIRECT /\ st' \in {"up", "hung", "skewed"}
    BY <1>1, <1>3, <1>4 DEF Removed
  <2> QED BY <2>1 DEF TypeOK, Block, Bytes
<1>6. st' = "up" => Whole(blocks') /\ AllEntries(blocks') = {e \in AllEntries(blocks) : e[1] # x}
  BY <1>1, <1>3, <1>4, NameGone
<1> QED BY <1>5, <1>6 DEF IInv

\* A name of the directory has one entry.
LEMMA OneEntry ==
    ASSUME IInv, st = "up", NEW d \in AllEntries(blocks), NEW e \in AllEntries(blocks),
           d[1] = e[1], d[1] \in Names
    PROVE  d = e
<1>1. /\ blocks \in Seq(Block) /\ Whole(blocks) /\ DOMAIN blocks = 1 .. Len(blocks)
      /\ \A k \in 1 .. Len(blocks) : Sound(blocks[k])
  BY Used
<1>2. PICK j \in 1 .. Len(blocks), k \in 1 .. Len(blocks) :
        d \in Entries(blocks[j]) /\ e \in Entries(blocks[k])
  BY <1>1, EntryOfBlock
<1>3. j = k
  <2>1. d[1] \in NamedIn(blocks[j]) /\ d[1] \in NamedIn(blocks[k])
    BY <1>2, NameOfEntry
  <2> QED BY <1>1, <2>1 DEF Whole
<1> DEFINE b == blocks[j]
<1>4. PICK o \in Range(Chain(b)), p \in Range(Chain(b)) :
        d = <<Name(b, o), Ino(b, o)>> /\ e = <<Name(b, p), Ino(b, p)>>
  BY <1>2, <1>3 DEF Entries
<1>5. d[1] = Name(b, o) /\ e[1] = Name(b, p)
  BY <1>4
<1>6. NamesOnce(b)
  BY <1>1 DEF Sound
<1>7. o = p
  BY <1>5, <1>6 DEF NamesOnce
<1> QED BY <1>4, <1>7

-----------------------------------------------------------------------------
(* The theorems.                                                           *)

\* The inductive invariant: every block of a directory in use is a chain of whole
\* entries apart from each other, no name is in it twice, and the room the last entry
\* offers is what the others leave.
THEOREM DirInvariant == Spec => []IInv
<1>1. Init => IInv
  BY InitInv
<1>2. IInv /\ [Next]_vars => IInv'
  <2> SUFFICES ASSUME IInv, [Next]_vars PROVE IInv'
    OBVIOUS
  <2>1. CASE \E x \in Names, i \in Inos : Enter(x, i)
    BY <2>1, EnterEffect
  <2>2. CASE \E x \in Names : Remove(x)
    BY <2>2, RemoveEffect
  <2>3. CASE UNCHANGED vars
    BY <2>3 DEF IInv, TypeOK, vars
  <2> QED BY <2>1, <2>2, <2>3 DEF Next
<1> QED BY <1>1, <1>2, PTL DEF Spec

\* Types: a directory has 1 to NDIRECT blocks of bytes, whatever the lengths, the chains
\* and the bytes behind them.
THEOREM DirTypes == Spec => []TypeOK
<1>1. IInv => TypeOK
  BY DEF IInv
<1> QED BY <1>1, DirInvariant, PTL

\* The entries of a directory do not overlap, although enter_child() computes their
\* lengths from name_len here and from strlen() there.
THEOREM EntriesDoNotOverlap == Spec => []EntriesApart
<1>1. IInv => EntriesApart
  <2> SUFFICES ASSUME IInv, st = "up", NEW b \in Range(blocks), NEW o \in Range(Chain(b))
               PROVE  RecLen(b, o) >= 8 + NameLen(b, o)
    BY DEF EntriesApart
  <2>1. PICK k \in DOMAIN blocks : b = blocks[k]
    BY DEF Range
  <2>2. Sound(b)
    BY <2>1, Used
  <2> DEFINE s == Chain(b)
  <2>3. b \in Block /\ Linked(b, s)
    BY <2>2 DEF Sound
  <2>4. PICK j \in 1 .. Len(s) : o = s[j]
    BY <2>3, ChainAt
  <2> HIDE DEF s
  <2> QED BY <2>3, <2>4, LinkFacts
<1> QED BY <1>1, DirInvariant, PTL

\* A name that rm_child() was called for is in no block, if the call comes to its end.
THEOREM RemovedNamesAreGone == Spec => []RemovedIsGone
<1>1. IInv => RemovedIsGone
  <2> SUFFICES ASSUME IInv, st = "up", NEW x \in Names, NEW junk \in Junk,
                      rm_child(blocks, x, junk).st = "up"
               PROVE  ~Has(rm_child(blocks, x, junk).blocks, x)
    BY DEF RemovedIsGone
  <2>1. /\ blocks \in Seq(Block) /\ Whole(blocks)
        /\ \A k \in 1 .. Len(blocks) : Sound(blocks[k])
    BY Used
  <2> DEFINE r == rm_child(blocks, x, junk)
  <2>2. Removed(blocks, x, r)
    BY <2>1, RmChild
  <2> HIDE DEF r
  <2>3. r.st = "up"
    BY DEF r
  <2>4. \A k \in 1 .. Len(blocks) : x \notin NamedIn(r.blocks[k])
    BY <2>1, <2>2, <2>3, NameGone
  <2>5. DOMAIN r.blocks = 1 .. Len(blocks)
    BY <2>2 DEF Removed
  <2>6. ~Has(r.blocks, x)
    BY <2>4, <2>5, HitsFacts DEF Has
  <2> QED BY <2>6 DEF r
<1> QED BY <1>1, DirInvariant, PTL

\* enter_child() drops a name only if no block has the bytes for it: what the entries
\* of a block do not need is all behind the last one.
THEOREM NothingDroppedWhileThereIsRoom == Spec => []DropsOnlyWhenFull
<1>1. IInv => DropsOnlyWhenFull
  <2> SUFFICES ASSUME IInv, st = "up", NEW x \in Names, WithRoom(blocks, x) = {},
                      NEW b \in Range(blocks)
               PROVE  Packed(b) + idealLength(Len(x)) > BLKSIZE
    BY DEF DropsOnlyWhenFull
  <2>1. PICK k \in DOMAIN blocks : b = blocks[k]
    BY DEF Range
  <2>2. Sound(b)
    BY <2>1, Used
  <2>3. ~ (Room(b) >= idealLength(Len(x)))
    BY <2>1 DEF WithRoom
  <2>4. idealLength(Len(x)) \in Nat
    BY NameFacts, IdealLength
  <2> DEFINE s == Chain(b)
             l == s[Len(s)]
  <2>5. b \in Block /\ Linked(b, s)
    BY <2>2 DEF Sound
  <2>6. Last(b) = l /\ Len(s) \in 1 .. Len(s)
    <3>1. Len(s) \in Nat /\ Len(s) > 0
      BY <2>5 DEF Linked
    <3> QED BY <2>5, <3>1, ChainIs
  <2>7. RecLen(b, l) \in Nat /\ NameLen(b, l) \in Nat
    <3> HIDE DEF s
    <3> QED BY <2>5, <2>6, LinkFacts
  <2>8. Room(b) \in Int
    <3>1. idealLength(NameLen(b, l)) \in Nat
      BY <2>7, IdealLength
    <3> QED BY <2>6, <2>7, <3>1 DEF Room
  <2>9. Packed(b) \in Nat
    <3> HIDE DEF s
    <3> QED BY <2>5, PackedNumber
  <2>10. Packed(b) + Room(b) >= BLKSIZE
    BY <2>2 DEF Sound
  <2> HIDE DEF s, l
  <2> QED BY ONLY <2>3, <2>4, <2>8, <2>9, <2>10, Sizes
<1> QED BY <1>1, DirInvariant, PTL

\* A directory is a map from names to inode numbers: search() of a name not found and
\* enter_child() put it in or leave the map as it is, rm_child() takes one name out, and
\* only a write across the end of a block and the end of the loop of rm_child() lose it.
THEOREM DirectoriesAreMaps == Spec => ImplementsMap
<1> DEFINE dir == IF st = "up" THEN Found ELSE {}
           lost == st # "up"
<1>1. Found = {e \in AllEntries(blocks) : e[1] \in Names}
  BY DEF Found, AllEntries, Entries
<1>2. Found' = {e \in AllEntries(blocks') : e[1] \in Names}
  BY DEF Found, AllEntries, Entries
<1> HIDE DEF Found
<1>3. Init => Map!Init
  BY <1>1, InitInv DEF Map!Init, Init
<1>4. IInv /\ [Next]_vars => [Map!Next]_<<dir, lost>>
  <2> SUFFICES ASSUME IInv, [Next]_vars PROVE Map!Next \/ UNCHANGED <<dir, lost>>
    OBVIOUS
  <2>1. CASE UNCHANGED vars
    <3>1. st' = st /\ AllEntries(blocks') = AllEntries(blocks)
      BY <2>1 DEF vars
    <3> QED BY <1>1, <1>2, <3>1
  <2>2. ASSUME st = "up", st' # "up" PROVE Map!Next
    BY <2>2 DEF Map!Next, Map!Lose
  <2>3. ASSUME NEW x \in Names, NEW i \in Inos, Enter(x, i)
        PROVE Map!Next \/ UNCHANGED <<dir, lost>>
    <3>1. /\ st = "up" /\ \A e \in AllEntries(blocks) : e[1] # x
          /\ \/ UNCHANGED vars
             \/ st' # "up"
             \/ st' = "up" /\ AllEntries(blocks') = AllEntries(blocks) \cup {<<x, i>>}
      BY <2>3, EnterEffect DEF Enter
    <3>2. CASE st' = "up" /\ AllEntries(blocks') = AllEntries(blocks) \cup {<<x, i>>}
      <4> DEFINE e == <<x, i>>
      <4>1. e[1] = x /\ e \in Names \X Inos
        OBVIOUS
      <4> HIDE DEF e
      <4>2. Found' = Found \cup {e}
        BY <1>1, <1>2, <3>2, <4>1 DEF e
      <4>3. \A d \in Found : d[1] # e[1]
        BY <1>1, <3>1, <4>1
      <4>4. e \in Found'
        BY <4>2
      <4>5. Map!Enter
        BY <3>1, <3>2, <4>1, <4>2, <4>3, <4>4 DEF Map!Enter, Map!Entered
      <4> QED BY <3>1, <4>5 DEF Map!Next
    <3> QED BY <2>1, <2>2, <3>1, <3>2
  <2>4. ASSUME NEW x \in Names, Remove(x) PROVE Map!Next \/ UNCHANGED <<dir, lost>>
    <3>1. st = "up" /\ (st' = "up" => AllEntries(blocks') = {e \in AllEntries(blocks) : e[1] # x})
      BY <2>4, RemoveEffect DEF Remove
    <3>2. CASE st' = "up"
      <4>1. Found' = {e \in Found : e[1] # x}
        BY <1>1, <1>2, <3>1, <3>2
      <4>2. CASE \A e \in Found : e[1] # x
        <5>1. Found' = Found
          BY <4>1, <4>2
        <5> QED BY <3>1, <3>2, <5>1
      <4>3. CASE \E e \in Found : e[1] = x
        <5>1. PICK e \in Found : e[1] = x
          BY <4>3
        <5>2. \A d \in Found : d[1] = x => d = e
          BY <1>1, <3>1, <5>1, OneEntry
        <5>3. Found' = Found \ {e}
          BY <4>1, <5>1, <5>2
        <5>4. Map!Remove
          BY <3>1, <3>2, <5>3 DEF Map!Remove
        <5> QED BY <3>1, <5>4 DEF Map!Next
      <4> QED BY <4>2, <4>3
    <3> QED BY <2>2, <3>1, <3>2
  <2> QED BY <2>1, <2>3, <2>4 DEF Next
<1> QED BY <1>3, <1>4, DirInvariant, PTL DEF Spec, ImplementsMap, Map!Spec
=============================================================================
