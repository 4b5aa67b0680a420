-------------------------- MODULE NamespaceProofs ---------------------------
(***************************************************************************)
(* What every size of the file system keeps of Namespace.                  *)
(*                                                                         *)
(* The argument is about machines.  Ok(m, hold, c, i) says of a machine m  *)
(* in the middle of a command that its block pointers are apart, and, in a *)
(* session of Careful commands, that hold counts the references which      *)
(* somebody has in hand: those of mount_root(), main() and cd, Pins(c),    *)
(* and those the routine has taken and not yet given back.  Every routine  *)
(* has one lemma, which says what it does to hold; a command is Ok with    *)
(* Pins(c) before and after.  Between two commands that is the invariant   *)
(* SpaceInv of the theorems at the end.                                    *)
(***************************************************************************)
EXTENDS Namespace, Numbers

-----------------------------------------------------------------------------
(* The first of some slots, numbers or pointers; the last index of a fold. *)

\* The first of some numbers is one of them.
LEMMA FirstIn ==
    ASSUME NEW S, S \subseteq Nat, S # {}
    PROVE  FirstOf(S) \in S
BY LeastNumber DEF FirstOf

\* The last of some indices is one of them, and none is larger.
LEMMA LastIn ==
    ASSUME NEW N \in Nat, NEW S, S \subseteq 1 .. N, S # {}
    PROVE  /\ LastOf(S) \in S
           /\ Max(S) \in S /\ \A x \in S : x <= Max(S)
<1> DEFINE T == {N - x : x \in S}
<1>1. T \subseteq Nat /\ T # {}
  <2>1. ASSUME NEW x \in S PROVE N - x \in Nat /\ N - x \in T
    OBVIOUS
  <2> QED BY <2>1
<1>2. PICK y \in T : \A z \in T : y <= z
  BY <1>1, LeastNumber
<1>3. PICK x \in S : y = N - x
  OBVIOUS
<1>4. \A z \in S : z <= x
  <2> SUFFICES ASSUME NEW z \in S PROVE z <= x
    OBVIOUS
  <2>1. N - z \in T
    OBVIOUS
  <2> QED BY <1>2, <1>3, <2>1
<1>5. \A z \in S : x >= z
  BY <1>4
<1> QED BY <1>4, <1>5 DEF LastOf, Max

-----------------------------------------------------------------------------
(* What FoldLeft computes.                                                 *)

\* A step F from a value and an index to a value: the function on the sets of
\* indices that the definition of a fold chooses exists.
Folds(g, N, base, F) ==
    \A s \in SUBSET (1 .. N) :
        g[s] = IF s = {} THEN base ELSE F[<<g[s \ {Max(s)}], Max(s)>>]

\* The function that a fold of F over 1 .. N chooses exists.
LEMMA FoldExists ==
    ASSUME NEW W, NEW base \in W, NEW N \in Nat, NEW F \in [W \X (1 .. N) -> W]
    PROVE  \E g \in [SUBSET (1 .. N) -> W] : Folds(g, N, base, F)
<1> DEFINE Dom(k) == {s \in SUBSET (1 .. N) : s \subseteq 1 .. k}
           Step(g, s) == IF s = {} THEN base ELSE F[<<g[s \ {Max(s)}], Max(s)>>]
           Good == {k \in Nat : \E g \in [Dom(k) -> W] : \A s \in Dom(k) : g[s] = Step(g, s)}
<1>1. 0 \in Good
  <2> DEFINE g == [s \in Dom(0) |-> base]
  <2>1. \A s \in Dom(0) : s = {}
    OBVIOUS
  <2>2. g \in [Dom(0) -> W] /\ \A s \in Dom(0) : g[s] = Step(g, s)
    BY <2>1
  <2> HIDE DEF g
  <2> QED BY <2>2
<1>2. ASSUME NEW k \in Nat, k \in Good PROVE k + 1 \in Good
  <2>1. PICK g \in [Dom(k) -> W] : \A s \in Dom(k) : g[s] = Step(g, s)
    BY <1>2
  <2> DEFINE h == [s \in Dom(k + 1) |->
                      IF s \in Dom(k) THEN g[s] ELSE F[<<g[s \ {k + 1}], k + 1>>]]
  <2>2. ASSUME NEW s \in Dom(k + 1) \ Dom(k)
        PROVE  s # {} /\ Max(s) = k + 1 /\ k + 1 \in 1 .. N /\ s \ {k + 1} \in Dom(k)
    <3>1. k + 1 \in s /\ s \subseteq 1 .. N /\ s \subseteq 1 .. k + 1
      BY <2>2
    <3>2. Max(s) \in s /\ \A x \in s : x <= Max(s)
      BY <3>1, LastIn
    <3>3. Max(s) = k + 1
      <4>1. Max(s) \in 1 .. k + 1 /\ k + 1 <= Max(s)
        BY <3>1, <3>2
      <4> HIDE DEF Dom
      <4> QED BY <4>1
    <3> QED BY <3>1, <3>3
  <2>3. h \in [Dom(k + 1) -> W]
    BY <2>2
  <2>4. ASSUME NEW s \in Dom(k + 1) PROVE h[s] = Step(h, s)
    <3>1. CASE s = {}
      BY <2>1, <3>1
    <3>2. CASE s # {} /\ s \in Dom(k)
      <4>1. Max(s) \in s
        BY <3>2, LastIn
      <4>2. s \ {Max(s)} \in Dom(k) /\ s \ {Max(s)} \in Dom(k + 1)
        BY <3>2
      <4>3. h[s \ {Max(s)}] = g[s \ {Max(s)}] /\ h[s] = g[s]
        BY <3>2, <4>2
      <4> QED BY <2>1, <3>2, <4>3
    <3>3. CASE s \notin Dom(k)
      <4>1. s # {} /\ Max(s) = k + 1 /\ s \ {k + 1} \in Dom(k) /\ s \ {k + 1} \in Dom(k + 1)
        BY <2>2, <3>3
      <4>2. h[s \ {k + 1}] = g[s \ {k + 1}] /\ h[s] = F[<<g[s \ {k + 1}], k + 1>>]
        BY <3>3, <4>1
      <4> QED BY <4>1, <4>2
    <3> QED BY <3>1, <3>2, <3>3
  <2> HIDE DEF h, Dom, Step
  <2> QED BY <2>3, <2>4
<1>3. N \in Good
  <2> HIDE DEF Good
  <2> QED BY <1>1, <1>2, SetInduction
<1>4. Dom(N) = SUBSET (1 .. N)
  OBVIOUS
<1>5. PICK g \in [SUBSET (1 .. N) -> W] : \A s \in SUBSET (1 .. N) : g[s] = Step(g, s)
  BY <1>3, <1>4
<1> QED BY <1>5 DEF Folds

\* A fold passes through the initial segments of the indices, one step of F each.
FoldsIn(h, W, N, base, F) ==
    /\ h[{}] = base
    /\ \A s \in (SUBSET (1 .. N)) \ {{}} :
          h[s \ {Max(s)}] \in W => h[s] = F[<<h[s \ {Max(s)}], Max(s)>>]

Chain(v, N, base, F, result) == /\ v[0] = base
                                /\ \A k \in 1 .. N : v[k] = F[<<v[k - 1], k>>]
                                /\ v[N] = result

\* The values a fold passes through, from base to its result.
LEMMA FoldSteps ==
    ASSUME NEW W, NEW base \in W, NEW N \in Nat, NEW F \in [W \X (1 .. N) -> W],
           NEW h, FoldsIn(h, W, N, base, F)
    PROVE  \E v \in [0 .. N -> W] :
              Chain(v, N, base, F, h[1 .. N])
<1>1. ASSUME NEW k \in 1 .. N
      PROVE  /\ 1 .. k \in (SUBSET (1 .. N)) \ {{}}
             /\ Max(1 .. k) = k
             /\ (1 .. k) \ {k} = 1 .. k - 1
  <2>1. 1 .. k \subseteq 1 .. N /\ k \in 1 .. k
    OBVIOUS
  <2>2. Max(1 .. k) \in 1 .. k /\ \A x \in 1 .. k : x <= Max(1 .. k)
    BY <2>1, LastIn
  <2> QED BY <2>1, <2>2
<1> DEFINE v == [k \in 0 .. N |-> h[1 .. k]]
           S == {j \in Nat : j <= N => v[j] \in W}
<1>2. v[0] = base /\ v[N] = h[1 .. N]
  <2>1. 1 .. 0 = {}
    OBVIOUS
  <2> QED BY <2>1 DEF FoldsIn
<1>3. ASSUME NEW k \in 1 .. N, v[k - 1] \in W PROVE v[k] = F[<<v[k - 1], k>>]
  <2>1. k \in 0 .. N /\ k - 1 \in 0 .. N
    OBVIOUS
  <2>2. v[k] = h[1 .. k] /\ v[k - 1] = h[1 .. k - 1]
    BY <2>1
  <2> DEFINE s == 1 .. k
  <2>3. s \in (SUBSET (1 .. N)) \ {{}} /\ Max(s) = k /\ s \ {k} = 1 .. k - 1
    BY <1>1
  <2>4. h[s \ {Max(s)}] \in W => h[s] = F[<<h[s \ {Max(s)}], Max(s)>>]
    <3> HIDE DEF s
    <3> QED BY <2>3 DEF FoldsIn
  <2> HIDE DEF v
  <2> QED BY <1>3, <2>2, <2>3, <2>4
<1>4. 0 \in S
  BY <1>2
<1>5. ASSUME NEW j \in Nat, j \in S PROVE j + 1 \in S
  <2> SUFFICES ASSUME j + 1 <= N PROVE v[j + 1] \in W
    OBVIOUS
  <2>1. j + 1 \in 1 .. N /\ (j + 1) - 1 = j /\ v[j] \in W
    BY <1>5
  <2> HIDE DEF v
  <2>2. v[j + 1] = F[<<v[j], j + 1>>]
    BY <1>3, <2>1
  <2> QED BY <2>1, <2>2
<1> HIDE DEF S
<1>6. Nat \subseteq S
  BY <1>4, <1>5, SetInduction
<1>7. \A k \in 0 .. N : v[k] \in W
  <2> HIDE DEF v
  <2> QED BY <1>6 DEF S
<1>8. v \in [0 .. N -> W]
  BY <1>7
<1>9. \A k \in 1 .. N : v[k] = F[<<v[k - 1], k>>]
  <2>1. \A k \in 1 .. N : k - 1 \in 0 .. N
    OBVIOUS
  <2> HIDE DEF v
  <2> QED BY <1>3, <1>7, <2>1
<1> HIDE DEF v
<1> QED BY <1>2, <1>8, <1>9 DEF Chain

\* The walk of getino() along a path, step by step.
LEMMA WalkFold ==
    ASSUME NEW W, NEW w \in W, NEW names \in Seq(FileNames),
           \A x \in W, a \in FileNames : Walk(x, a) \in W
    PROVE  WalkAll(w, names) \in W
<1> DEFINE N == Len(names)
           F == [x \in W \X (1 .. N) |-> Walk(x[1], names[x[2]])]
           Body(g) == [s \in SUBSET (1 .. N) |->
                          IF s = {} THEN w ELSE Walk(g[s \ {Max(s)}], names[Max(s)])]
           h == CHOOSE g : g = Body(g)
<1>1. N \in Nat /\ DOMAIN names = 1 .. N /\ \A k \in 1 .. N : names[k] \in FileNames
  OBVIOUS
<1> HIDE DEF N
<1>2. F \in [W \X (1 .. N) -> W]
  BY <1>1
<1>3. \A x \in W, k \in 1 .. N : F[<<x, k>>] = Walk(x, names[k])
  OBVIOUS
<1> HIDE DEF F, h
<1>4. PICK g \in [SUBSET (1 .. N) -> W] : Folds(g, N, w, F)
  BY <1>1, <1>2, FoldExists
<1>5. \A s \in (SUBSET (1 .. N)) \ {{}} : Max(s) \in 1 .. N /\ s \ {Max(s)} \in SUBSET (1 .. N)
  BY <1>1, LastIn
<1>6. g = Body(g)
  BY <1>3, <1>4, <1>5 DEF Folds
<1>7. h = Body(h)
  <2> HIDE DEF Body
  <2> QED BY <1>6 DEF h
<1>8. WalkAll(w, names) = h[1 .. N]
  BY <1>1 DEF WalkAll, FoldLeft, MapThenFoldSet, h
<1>9. FoldsIn(h, W, N, w, F)
  BY <1>3, <1>5, <1>7 DEF FoldsIn
<1> HIDE DEF Body
<1>0. N \in Nat
  BY <1>1
<1>10. PICK v \in [0 .. N -> W] :
           Chain(v, N, w, F, h[1 .. N])
  BY ONLY <1>0, <1>2, <1>9, w \in W, FoldSteps
<1> QED BY <1>1, <1>8, <1>10 DEF Chain

-----------------------------------------------------------------------------
(* The invariant, of a machine between two routines.                       *)

Machines == [minode : [Slots -> MINODEs], cwd : Slots,
             st : {"up", "down", "hung", "undefined"},
             itable : [Inos \cup {0} -> INODEs], imap : SUBSET Inos, bmap : SUBSET Blks,
             dir : [Blks \cup {0} -> Chains]]

\* The block pointers that are not 0, in every copy of an INODE, in core or on
\* disk, used or not: the inode, the index, and the block.
Points(m) == {x \in Inos \X (1 .. NDIRECT) \X Blks :
                 \/ m.itable[x[1]].block[x[2]] = x[3]
                 \/ \E s \in Slots : /\ m.minode[s].ino = x[1]
                                     /\ m.minode[s].INODE.block[x[2]] = x[3]}

\* A block in use is marked, and belongs to one pointer of one inode.
Apart(m) == /\ \A x \in Points(m) : x[3] \in m.bmap
            /\ \A x, y \in Points(m) : x[3] = y[3] => x = y

Sounds == {m \in Machines : Apart(m)}

\* The commands that release what they hold and nothing else.
Careful == Workload \subseteq {"mkdir", "creat", "link", "cd", "ls", "pwd", "quit", "kill"}

\* A slot in use.
Busy(m, s) == m.minode[s].refCount # 0
Holding(m, s, i) == Busy(m, s) /\ m.minode[s].ino = i
DirType(m, s) == m.minode[s].INODE.type = "dir"

\* An inode is in core once.
Once(m) == \A s, t \in Slots : Busy(m, s) /\ Busy(m, t) /\ m.minode[s].ino = m.minode[t].ino
                                  => s = t

\* The number of a directory is allocated, and what is a directory on disk is one
\* in core.
Marked(m) == /\ \A s \in Slots : Busy(m, s) /\ DirType(m, s)
                                    => m.minode[s].ino \in m.imap \cup {0}
             /\ \A i \in Inos : m.itable[i].type = "dir" => i \in m.imap
             /\ \A s \in Slots, i \in Inos : Holding(m, s, i) /\ m.itable[i].type = "dir"
                                                => DirType(m, s)
             /\ m.itable[ROOT].type = "dir"

\* The references mount_root(), main() and cd hold when no command runs.
Pins(c) == [s \in Slots |-> (IF s = Root THEN 1 ELSE 0) + (IF s = c THEN 1 ELSE 0)]
Plus(hold, s) == [hold EXCEPT ![s] = @ + 1]
AtMost(h, g) == \A s \in Slots : h[s] <= g[s]

\* hold says how many references to each slot are in somebody's hands: no slot counts
\* fewer.  c is running->cwd, the directory i.
Pinned(m, hold, c, i) ==
    /\ Once(m) /\ Marked(m)
    /\ hold \in [Slots -> Nat] /\ AtMost(Pins(c), hold)
    /\ \A s \in Slots : m.minode[s].refCount >= hold[s]
    /\ m.minode[Root].ino = ROOT /\ DirType(m, Root)
    /\ m.cwd = c /\ m.minode[c].ino = i /\ i # 0 /\ DirType(m, c)

Ok(m, hold, c, i) == m \in Sounds /\ (Careful => Pinned(m, hold, c, i))

\* The references in hand while a routine holds s.
Also(m, hold, s) == IF m.st = "up" /\ s # NULL THEN Plus(hold, s) ELSE hold

-----------------------------------------------------------------------------
\* The numbers of root, of / and of NULL are what their names say.
LEMMA Numbering ==
    /\ Root \in Slots /\ NULL \notin Slots /\ Slots \subseteq Nat
    /\ ROOT \in Inos /\ 0 \notin Inos /\ 0 \notin Blks
    /\ Inos \subseteq Nat /\ Blks \subseteq Nat
    /\ 1 \in 1 .. NDIRECT /\ NDIRECT \in Nat
BY NMINODEAssumption, GeometryAssumption DEF Root, Slots, NULL, ROOT, Inos, Blks

\* The type of INODE().
LEMMA NewINODE ==
    ASSUME NEW type \in {"none", "reg", "dir", "lnk"}, NEW links \in U16,
           NEW b \in Blks \cup {0}
    PROVE  /\ INODE(type, links, b) \in INODEs
           /\ INODE(type, links, b).type = type
           /\ \A k \in 1 .. NDIRECT : INODE(type, links, b).block[k] = IF k = 1 THEN b ELSE 0
BY Numbering DEF INODE, INODEs

\* The parts of an INODE and of a block of entries.
LEMMA InodeParts ==
    ASSUME NEW x \in INODEs
    PROVE  /\ x.type \in {"none", "reg", "dir", "lnk"} /\ x.links \in U16
           /\ x.block \in [1 .. NDIRECT -> Blks \cup {0}]
           /\ \A k \in 1 .. NDIRECT : x.block[k] \in Blks \cup {0}
BY DEF INODEs

\* The parts of a block of entries.
LEMMA ChainParts ==
    ASSUME NEW chain \in Chains
    PROVE  /\ Len(chain) \in Nat /\ DOMAIN chain = 1 .. Len(chain)
           /\ \A k \in DOMAIN chain : chain[k].name \in FileNames /\ chain[k].ino \in Inos \cup {0}
<1> DEFINE R == [name : FileNames, ino : Inos \cup {0}]
<1>1. chain \in Seq(R)
  BY DEF Chains
<1> HIDE DEF R
<1>2. /\ Len(chain) \in Nat /\ DOMAIN chain = 1 .. Len(chain)
      /\ \A k \in DOMAIN chain : chain[k] \in R
  BY <1>1
<1> QED BY <1>2 DEF R

\* The zeroed table has its type.
LEMMA BlankTypes ==
    Blank \in [Slots -> MINODEs]
<1>1. INODE("none", 0, 0) \in INODEs
  BY Numbering DEF INODE, INODEs, U16
<1> QED BY <1>1 DEF Blank, MINODEs

\* Fewer references in hand.
LEMMA Fewer ==
    ASSUME NEW m, NEW hold, NEW less, NEW c, NEW i, Ok(m, hold, c, i),
           Careful => less \in [Slots -> Nat] /\ AtMost(Pins(c), less) /\ AtMost(less, hold)
    PROVE  Ok(m, less, c, i)
<1>1. SUFFICES ASSUME Careful PROVE Pinned(m, less, c, i)
  BY DEF Ok
<1>2. Pinned(m, hold, c, i) /\ m \in Machines
  BY <1>1 DEF Ok, Sounds
<1>3. ASSUME NEW s \in Slots PROVE m.minode[s].refCount >= less[s]
  <2>1. m.minode[s].refCount \in Int
    BY <1>2 DEF Machines, MINODEs
  <2>2. m.minode[s].refCount >= hold[s] /\ less[s] <= hold[s] /\ hold[s] \in Nat /\ less[s] \in Nat
    BY <1>1, <1>2 DEF Pinned, AtMost
  <2> QED BY <2>1, <2>2
<1> QED BY <1>1, <1>2, <1>3 DEF Pinned

\* What was in hand before a slot was held is in hand after it was not.
LEMMA PlusMore ==
    ASSUME NEW hold \in [Slots -> Nat], NEW s \in Slots
    PROVE  /\ Plus(hold, s) \in [Slots -> Nat]
           /\ AtMost(hold, Plus(hold, s))
           /\ \A r \in Slots : Plus(hold, s)[r] = IF r = s THEN hold[r] + 1 ELSE hold[r]
           /\ \A p : p \in [Slots -> Nat] /\ AtMost(p, hold) => AtMost(p, Plus(hold, s))
BY DEF Plus, AtMost

\* root and running->cwd are counted in natural numbers.
LEMMA PinsType ==
    ASSUME NEW c
    PROVE  Pins(c) \in [Slots -> Nat] /\ AtMost(Pins(c), Pins(c))
BY DEF Pins, AtMost

\* A routine may forget what it holds: the count stays too high.
LEMMA LetGo ==
    ASSUME NEW m, NEW hold, NEW s \in Slots \cup {NULL}, NEW c, NEW i, NEW n,
           Ok(m, Also(n, hold, s), c, i),
           Careful => hold \in [Slots -> Nat] /\ AtMost(Pins(c), hold)
    PROVE  Ok(m, hold, c, i)
<1>1. CASE n.st = "up" /\ s # NULL
  <2>1. Ok(m, Plus(hold, s), c, i) /\ s \in Slots
    BY <1>1 DEF Also
  <2>2. Careful => AtMost(hold, Plus(hold, s))
    BY <2>1, PlusMore
  <2> HIDE DEF Careful
  <2> QED BY <2>1, <2>2, Fewer
<1>2. CASE ~ (n.st = "up" /\ s # NULL)
  BY <1>2 DEF Also
<1> QED BY <1>1, <1>2

-----------------------------------------------------------------------------
(* The routines.                                                           *)

\* The program stops.
LEMMA FailOk ==
    ASSUME NEW m, NEW how \in {"down", "hung", "undefined"}, m \in Machines
    PROVE  LET n == Fail(m, how)
           IN  /\ n \in Machines
               /\ m.st # "up" => n = m
               /\ n.st # "up"
               /\ n.minode = m.minode /\ n.itable = m.itable /\ n.imap = m.imap
               /\ n.bmap = m.bmap /\ n.cwd = m.cwd /\ n.dir = m.dir
BY DEF Fail, Machines

\* What Ok says of a machine is not about st and dir.
LEMMA SameOk ==
    ASSUME NEW m, NEW n \in Machines, NEW hold, NEW c, NEW i, Ok(m, hold, c, i),
           n.minode = m.minode, n.itable = m.itable, n.imap = m.imap,
           n.bmap = m.bmap, n.cwd = m.cwd
    PROVE  Ok(n, hold, c, i)
<1>1. Points(n) = Points(m)
  BY DEF Points
<1>2. n \in Sounds
  BY <1>1 DEF Ok, Sounds, Apart
<1>3. Once(m) => Once(n)
  BY DEF Once, Busy
<1>4. Marked(m) => Marked(n)
  BY DEF Marked, Busy, Holding, DirType
<1>5. Pinned(m, hold, c, i) => Pinned(n, hold, c, i)
  BY <1>3, <1>4 DEF Pinned, DirType
<1> QED BY <1>2, <1>5 DEF Ok

\* What Ok says outlives the program.
LEMMA FailKeeps ==
    ASSUME NEW m, NEW how \in {"down", "hung", "undefined"}, NEW hold, NEW c, NEW i,
           Ok(m, hold, c, i)
    PROVE  Ok(Fail(m, how), hold, c, i) /\ Fail(m, how).st # "up"
<1>1. m \in Machines
  BY DEF Ok, Sounds
<1> QED BY <1>1, FailOk, SameOk

\* iget() returns a slot in core, an unused one, or NULL.
LEMMA IgetSlotCases ==
    ASSUME NEW mt, NEW ino
    PROVE  LET t == IgetSlot(mt, ino)
           IN  \/ t \in InCore(mt, ino)
               \/ InCore(mt, ino) = {} /\ t \in Unused(mt)
               \/ InCore(mt, ino) = {} /\ t = NULL
<1>1. InCore(mt, ino) \subseteq Nat /\ Unused(mt) \subseteq Nat
  BY Numbering DEF InCore, Unused
<1>2. InCore(mt, ino) # {} => FirstOf(InCore(mt, ino)) \in InCore(mt, ino)
  BY <1>1, FirstIn
<1>3. Unused(mt) # {} => FirstOf(Unused(mt)) \in Unused(mt)
  BY <1>1, FirstIn
<1> QED BY <1>2, <1>3 DEF IgetSlot

\* The slot that iget() loads.
Load(x, ino, y) == [x EXCEPT !.refCount = 1, !.ino = ino, !.INODE = y]

\* A slot loaded with INODE y of number ino.
LEMMA Loaded ==
    ASSUME NEW x \in MINODEs, NEW y \in INODEs, NEW ino \in Inos \cup {0}
    PROVE  LET v == Load(x, ino, y)
           IN  /\ v \in MINODEs /\ v.ino = ino /\ v.dirty = x.dirty /\ v.INODE = y
               /\ v.refCount = 1
<1> DEFINE a == [x EXCEPT !.refCount = 1]
           b == [a EXCEPT !.ino = ino]
           d == [b EXCEPT !.INODE = y]
<1>1. a \in MINODEs /\ a.dirty = x.dirty /\ a.refCount = 1
  BY DEF MINODEs
<1> HIDE DEF a
<1>2. b \in MINODEs /\ b.dirty = x.dirty /\ b.refCount = 1 /\ b.ino = ino
  BY <1>1 DEF MINODEs
<1> HIDE DEF b
<1>3. /\ d \in MINODEs /\ d.dirty = x.dirty /\ d.refCount = 1 /\ d.ino = ino
      /\ d.INODE = y
  BY <1>2 DEF MINODEs
<1>4. d = Load(x, ino, y)
  BY DEF a, b, Load
<1> QED BY <1>3, <1>4

\* iget() touches the slot it returns: a hit is counted, a miss loads the INODE.
LEMMA IgetTableEffect ==
    ASSUME NEW mt \in [Slots -> MINODEs], NEW ino \in Inos \cup {0}, NEW itab,
           itab[ino] \in INODEs
    PROVE  LET t == IgetSlot(mt, ino)
               n == IgetTable(mt, itab, ino)
           IN  /\ t \in Slots \cup {NULL}
               /\ n \in [Slots -> MINODEs]
               /\ t = NULL => n = mt
               /\ \A r \in Slots : r # t => n[r] = mt[r]
               /\ t # NULL =>
                    /\ n[t].ino = ino
                    /\ n[t].dirty = mt[t].dirty
                    /\ \/ /\ mt[t].refCount # 0 /\ mt[t].ino = ino
                          /\ n[t].refCount = mt[t].refCount + 1
                          /\ n[t].INODE = mt[t].INODE
                       \/ /\ \A r \in Slots : ~ (mt[r].refCount # 0 /\ mt[r].ino = ino)
                          /\ mt[t].refCount = 0
                          /\ n[t].refCount = 1
                          /\ n[t].INODE = itab[ino]
<1> DEFINE t == IgetSlot(mt, ino)
           n == IgetTable(mt, itab, ino)
<1>1. CASE t \in InCore(mt, ino)
  <2>1. t \in Slots /\ t # NULL /\ mt[t].refCount # 0 /\ mt[t].ino = ino
    BY <1>1, Numbering DEF InCore
  <2>2. n = [mt EXCEPT ![t].refCount = @ + 1]
    BY <1>1, <2>1 DEF IgetTable
  <2> HIDE DEF t, n
  <2>3. [mt[t] EXCEPT !.refCount = @ + 1] \in MINODEs
    BY <2>1 DEF MINODEs
  <2>4. n = [mt EXCEPT ![t] = [mt[t] EXCEPT !.refCount = @ + 1]]
    BY <2>1, <2>2
  <2>5. n \in [Slots -> MINODEs] /\ \A r \in Slots : r # t => n[r] = mt[r]
    BY <2>1, <2>3, <2>4
  <2>6. /\ n[t].ino = ino /\ n[t].dirty = mt[t].dirty /\ n[t].INODE = mt[t].INODE
        /\ n[t].refCount = mt[t].refCount + 1
    BY <2>1, <2>4 DEF MINODEs
  <2> QED BY <2>1, <2>5, <2>6 DEF t, n
<1>2. CASE InCore(mt, ino) = {} /\ t \in Unused(mt)
  <2>1. t \in Slots /\ t # NULL /\ mt[t].refCount = 0
    BY <1>2, Numbering DEF Unused
  <2>2. n = [mt EXCEPT ![t].refCount = 1, ![t].ino = ino, ![t].INODE = itab[ino]]
    BY <1>2, <2>1 DEF IgetTable
  <2>3. \A r \in Slots : ~ (mt[r].refCount # 0 /\ mt[r].ino = ino)
    BY <1>2 DEF InCore
  <2> HIDE DEF t, n
  <2> DEFINE v == Load(mt[t], ino, itab[ino])
  <2>4. mt[t] \in MINODEs
    BY <2>1
  <2>5. /\ v \in MINODEs /\ v.ino = ino /\ v.dirty = mt[t].dirty /\ v.INODE = itab[ino]
        /\ v.refCount = 1
    BY <2>4, Loaded
  <2>6. n = [mt EXCEPT ![t] = v]
    BY <2>1, <2>2, <2>4 DEF MINODEs, Load
  <2> HIDE DEF v
  <2>7. n \in [Slots -> MINODEs] /\ n[t] = v /\ \A r \in Slots : r # t => n[r] = mt[r]
    BY <2>1, <2>5, <2>6
  <2> QED BY <2>1, <2>3, <2>5, <2>7 DEF t, n
<1>3. CASE InCore(mt, ino) = {} /\ t = NULL
  <2>1. n = mt
    BY <1>3 DEF IgetTable
  <2> QED BY <1>3, <2>1, Numbering
<1> QED BY <1>1, <1>2, <1>3, IgetSlotCases

\* A machine whose block pointers are those of another, and whose block bitmap has
\* its bits, or one more of both.
LEMMA FewerPoints ==
    ASSUME NEW m \in Sounds, NEW n \in Machines, Points(n) \subseteq Points(m),
           m.bmap \subseteq n.bmap
    PROVE  n \in Sounds
BY DEF Sounds, Apart

\* One more pointer, to a block that was free and is marked now.
LEMMA OneMorePoint ==
    ASSUME NEW m \in Sounds, NEW n \in Machines, NEW x, x[3] \notin m.bmap,
           Points(n) \subseteq Points(m) \cup {x},
           m.bmap \cup {x[3]} \subseteq n.bmap
    PROVE  n \in Sounds
BY DEF Sounds, Apart

\* iget().
LEMMA IgetOk ==
    ASSUME NEW m, NEW hold, NEW c, NEW i, Ok(m, hold, c, i), NEW ino \in Inos \cup {0}
    PROVE  LET t == IgetPtr(m, ino)
               n == Iget(m, ino)
           IN  /\ Ok(n, Also(n, hold, t), c, i)
               /\ t \in Slots \cup {NULL}
               /\ n.st = m.st
               /\ m.st # "up" => n = m
               /\ m.st = "up" /\ t # NULL => n.minode[t].ino = ino
<1> DEFINE t == IgetPtr(m, ino)
           n == Iget(m, ino)
           mt == m.minode
           nt == n.minode
<1>1. m \in Sounds /\ m \in Machines /\ Apart(m) /\ mt \in [Slots -> MINODEs]
      /\ m.itable \in [Inos \cup {0} -> INODEs]
  BY DEF Ok, Sounds, Machines
<1>2. /\ t \in Slots \cup {NULL}
      /\ IgetTable(mt, m.itable, ino) \in [Slots -> MINODEs]
      /\ t = NULL => IgetTable(mt, m.itable, ino) = mt
  BY <1>1, IgetTableEffect DEF IgetPtr
<1>3. CASE m.st # "up"
  <2>1. n = m
    BY <1>3 DEF Iget
  <2> QED BY <1>2, <1>3, <2>1 DEF Also
<1>4. CASE m.st = "up"
  <2>1. n = [m EXCEPT !.minode = IgetTable(mt, m.itable, ino)]
    BY <1>4 DEF Iget
  <2>2. /\ n \in Machines /\ nt = IgetTable(mt, m.itable, ino)
        /\ n.itable = m.itable /\ n.imap = m.imap /\ n.bmap = m.bmap /\ n.cwd = m.cwd
        /\ n.st = m.st
    BY <1>1, <1>2, <2>1 DEF Machines
  <2>3. CASE t = NULL
    <3>1. Ok(n, hold, c, i)
      BY <1>2, <2>2, <2>3, SameOk
    <3> QED BY <1>2, <1>4, <2>2, <2>3, <3>1 DEF Also
  <2>4. CASE t # NULL
    <3>1. /\ t \in Slots
          /\ \A r \in Slots : r # t => nt[r] = mt[r]
          /\ nt[t].ino = ino
          /\ \/ /\ mt[t].refCount # 0 /\ mt[t].ino = ino
                /\ nt[t].refCount = mt[t].refCount + 1
                /\ nt[t].INODE = mt[t].INODE
             \/ /\ \A r \in Slots : ~ (mt[r].refCount # 0 /\ mt[r].ino = ino)
                /\ mt[t].refCount = 0
                /\ nt[t].refCount = 1
                /\ nt[t].INODE = m.itable[ino]
      BY <1>1, <2>2, <2>4, IgetTableEffect DEF IgetPtr
    <3>2. \A r \in Slots : mt[r].refCount \in Int /\ nt[r].refCount \in Int
      BY <1>1, <2>2 DEF Machines, MINODEs
    <3> HIDE DEF t, n, mt, nt
    <3>3. Points(n) \subseteq Points(m)
      BY <2>2, <3>1 DEF Points, mt, nt
    <3>4. n \in Sounds
      BY <1>1, <2>2, <3>3, FewerPoints
    <3>5. ASSUME Careful PROVE Pinned(n, Plus(hold, t), c, i)
      <4>1. Pinned(m, hold, c, i)
        BY <3>5 DEF Ok
      <4>2. hold \in [Slots -> Nat] /\ AtMost(Pins(c), hold)
        BY <4>1 DEF Pinned
      <4>3. /\ Plus(hold, t) \in [Slots -> Nat] /\ AtMost(Pins(c), Plus(hold, t))
            /\ \A r \in Slots : Plus(hold, t)[r] = IF r = t THEN hold[r] + 1 ELSE hold[r]
        BY <3>1, <4>2, PlusMore, PinsType
      <4>4. \A r \in Slots : mt[r].refCount >= hold[r]
        BY <4>1 DEF Pinned, mt
      <4>5. \A r \in Slots : nt[r].refCount >= Plus(hold, t)[r]
        BY <3>1, <3>2, <4>2, <4>3, <4>4
      <4>6. Once(n)
        BY <3>1, <4>1 DEF Pinned, Once, Busy, mt, nt
      <4>7. Marked(n)
        <5>1. Marked(m)
          BY <4>1 DEF Pinned
        <5>2. ASSUME NEW r \in Slots, Busy(n, r), DirType(n, r)
              PROVE  n.minode[r].ino \in n.imap \cup {0}
          BY <2>2, <3>1, <5>1, <5>2 DEF Marked, Busy, DirType, mt, nt
        <5>3. ASSUME NEW r \in Slots, NEW k \in Inos, Holding(n, r, k),
                     n.itable[k].type = "dir"
              PROVE  DirType(n, r)
          BY <2>2, <3>1, <5>1, <5>3 DEF Marked, Holding, Busy, DirType, mt, nt
        <5> QED BY <2>2, <5>1, <5>2, <5>3 DEF Marked
      <4>8. \A r \in {Root, c} : r \in Slots /\ hold[r] >= 1 /\ mt[r].refCount >= 1
        <5>1. c \in Slots
          BY <1>1, <4>1 DEF Pinned, Machines
        <5>2. \A r \in {Root, c} : r \in Slots /\ Pins(c)[r] >= 1 /\ Pins(c)[r] \in Nat
          BY <5>1, Numbering DEF Pins
        <5> QED BY <3>2, <4>2, <4>4, <5>2 DEF AtMost
      <4>9. \A r \in {Root, c} : nt[r].ino = mt[r].ino /\ nt[r].INODE = mt[r].INODE
        BY <3>1, <3>2, <4>8
      <4> QED BY <2>2, <4>1, <4>3, <4>5, <4>6, <4>7, <4>8, <4>9 DEF Pinned, DirType, mt, nt
    <3> QED BY <1>2, <1>4, <2>2, <2>4, <3>1, <3>4, <3>5 DEF Ok, Also, t, n, nt
  <2> QED BY <2>3, <2>4
<1> QED BY <1>3, <1>4

\* iput(): one reference less, the INODE on the disk with the last one.
LEMMA IputEffect ==
    ASSUME NEW m \in Machines, NEW s \in Slots, m.st = "up",
           ~ (WritesBack(m.minode, s) /\ m.minode[s].ino = 0)
    PROVE  LET n == Iput(m, s)
               x == m.minode[s]
           IN  /\ n \in Machines
               /\ n.imap = m.imap /\ n.bmap = m.bmap /\ n.cwd = m.cwd /\ n.st = m.st
               /\ n.dir = m.dir
               /\ \A r \in Slots : /\ n.minode[r].ino = m.minode[r].ino
                                   /\ n.minode[r].INODE = m.minode[r].INODE
                                   /\ r # s => n.minode[r] = m.minode[r]
               /\ \/ /\ WritesBack(m.minode, s)
                     /\ x.refCount <= 1 /\ n.minode[s].refCount = 0
                     /\ x.ino \in Inos
                     /\ n.itable = [m.itable EXCEPT ![x.ino] = x.INODE]
                  \/ /\ ~ WritesBack(m.minode, s)
                     /\ n.minode[s].refCount = x.refCount - 1
                     /\ n.itable = m.itable
<1> DEFINE mt == m.minode
           x == mt[s]
           n == Iput(m, s)
           count == IF WritesBack(mt, s) THEN 0 ELSE x.refCount - 1
           y == [x EXCEPT !.refCount = count]
<1>1. s # NULL /\ mt \in [Slots -> MINODEs] /\ m.itable \in [Inos \cup {0} -> INODEs]
  BY Numbering DEF Machines
<1>2. x \in MINODEs /\ x.refCount \in Int /\ x.ino \in Inos \cup {0} /\ x.INODE \in INODEs
  BY <1>1 DEF MINODEs
<1>3. n = [m EXCEPT !.minode = IputTable(mt, s), !.itable = IputDisk(mt, m.itable, s)]
  BY <1>1 DEF Iput
<1>4. y \in MINODEs /\ y.ino = x.ino /\ y.INODE = x.INODE /\ y.refCount = count
  BY <1>2 DEF MINODEs
<1>5. IputTable(mt, s) = [mt EXCEPT ![s] = y]
  BY <1>1 DEF IputTable
<1>6. IputTable(mt, s) \in [Slots -> MINODEs]
  <2> HIDE DEF y
  <2> QED BY <1>1, <1>4, <1>5
<1>7. IputDisk(mt, m.itable, s) \in [Inos \cup {0} -> INODEs]
  <2>1. CASE WritesBack(mt, s)
    BY <1>1, <1>2, <2>1 DEF IputDisk
  <2>2. CASE ~ WritesBack(mt, s)
    BY <1>1, <2>2 DEF IputDisk
  <2> QED BY <2>1, <2>2
<1>8. /\ n \in Machines /\ n.minode = IputTable(mt, s) /\ n.itable = IputDisk(mt, m.itable, s)
      /\ n.imap = m.imap /\ n.bmap = m.bmap /\ n.cwd = m.cwd /\ n.st = m.st
      /\ n.dir = m.dir
  BY <1>3, <1>6, <1>7 DEF Machines
<1>9. \A r \in Slots : /\ n.minode[r].ino = mt[r].ino
                       /\ n.minode[r].INODE = mt[r].INODE
                       /\ r # s => n.minode[r] = mt[r]
                       /\ r = s => n.minode[r].refCount = count
  <2> HIDE DEF n, y
  <2> QED BY <1>1, <1>4, <1>5, <1>8
<1>10. CASE WritesBack(mt, s)
  <2>1. x.refCount <= 1 /\ x.ino \in Inos /\ count = 0
    BY <1>2, <1>10 DEF WritesBack
  <2>2. n.itable = [m.itable EXCEPT ![x.ino] = x.INODE]
    BY <1>8, <1>10 DEF IputDisk
  <2> HIDE DEF count, y
  <2> QED BY <1>8, <1>9, <1>10, <2>1, <2>2
<1>11. CASE ~ WritesBack(mt, s)
  <2>1. count = x.refCount - 1
    BY <1>11
  <2>2. n.itable = m.itable
    BY <1>8, <1>11 DEF IputDisk
  <2> HIDE DEF count, y
  <2> QED BY <1>8, <1>9, <1>11, <2>1, <2>2
<1> QED BY <1>10, <1>11

\* iput(): what s held is given back; Ok of a hand that holds s before, and not after.
LEMMA IputOk ==
    ASSUME NEW m, NEW hold, NEW c, NEW i, NEW s \in Slots \cup {NULL},
           Ok(m, Also(m, hold, s), c, i),
           Careful => hold \in [Slots -> Nat] /\ AtMost(Pins(c), hold)
    PROVE  /\ Ok(Iput(m, s), hold, c, i)
           /\ m.st # "up" => Iput(m, s) = m
<1> DEFINE n == Iput(m, s)
<1>1. m \in Sounds /\ m \in Machines
  BY DEF Ok, Sounds
<1>2. Ok(m, hold, c, i)
  BY LetGo
<1>3. CASE m.st # "up" \/ s = NULL
  <2>1. n = m
    BY <1>3 DEF Iput
  <2> QED BY <1>2, <2>1
<1>4. CASE m.st = "up" /\ s # NULL /\ WritesBack(m.minode, s) /\ m.minode[s].ino = 0
  <2>1. n = Fail(m, "undefined")
    BY <1>4 DEF Iput
  <2> QED BY <1>2, <1>4, <2>1, FailKeeps
<1>5. CASE m.st = "up" /\ s # NULL /\ ~ (WritesBack(m.minode, s) /\ m.minode[s].ino = 0)
  <2>0. s \in Slots /\ Ok(m, Plus(hold, s), c, i)
    BY <1>5 DEF Also
  <2> DEFINE x == m.minode[s]
  <2>1. /\ n \in Machines
        /\ n.imap = m.imap /\ n.bmap = m.bmap /\ n.cwd = m.cwd
        /\ \A r \in Slots : /\ n.minode[r].ino = m.minode[r].ino
                            /\ n.minode[r].INODE = m.minode[r].INODE
                            /\ r # s => n.minode[r] = m.minode[r]
        /\ \/ /\ x.refCount <= 1 /\ n.minode[s].refCount = 0
              /\ x.ino \in Inos
              /\ n.itable = [m.itable EXCEPT ![x.ino] = x.INODE]
           \/ /\ n.minode[s].refCount = x.refCount - 1
              /\ n.itable = m.itable
    BY <1>1, <1>5, <2>0, IputEffect
  <2>2. \A r \in Slots : m.minode[r].refCount \in Int
    BY <1>1 DEF Machines, MINODEs
  <2>3. m.itable \in [Inos \cup {0} -> INODEs]
    BY <1>1 DEF Machines
  <2> HIDE DEF n
  <2>4. \A k \in Inos : \/ n.itable[k] = m.itable[k]
                        \/ k = x.ino /\ n.itable[k] = x.INODE
    BY <2>1, <2>3
  <2>5. Points(n) \subseteq Points(m)
    BY <2>0, <2>1, <2>4 DEF Points
  <2>6. n \in Sounds
    BY <1>1, <2>1, <2>5, FewerPoints
  <2>7. ASSUME Careful PROVE Pinned(n, hold, c, i)
    <3>1. Pinned(m, Plus(hold, s), c, i) /\ hold \in [Slots -> Nat] /\ AtMost(Pins(c), hold)
      BY <2>0, <2>7 DEF Ok
    <3>2. \A r \in Slots : m.minode[r].refCount >= IF r = s THEN hold[r] + 1 ELSE hold[r]
      <4>1. \A r \in Slots : Plus(hold, s)[r] = IF r = s THEN hold[r] + 1 ELSE hold[r]
        BY <2>0, <3>1, PlusMore
      <4> QED BY <3>1, <4>1 DEF Pinned
    <3>3. \A r \in Slots : n.minode[r].refCount >= hold[r]
      BY <2>1, <2>2, <3>1, <3>2
    <3>4. Busy(m, s) /\ \A r \in Slots : Busy(n, r) => Busy(m, r)
      BY <2>0, <2>1, <2>2, <3>1, <3>2 DEF Busy
    <3>5. Once(n)
      BY <2>1, <3>1, <3>4 DEF Pinned, Once
    <3>6. Marked(n)
      <4>1. Marked(m)
        BY <3>1 DEF Pinned
      <4>2. ASSUME NEW r \in Slots, Busy(n, r), DirType(n, r)
            PROVE  n.minode[r].ino \in n.imap \cup {0}
        BY <2>1, <3>4, <4>1, <4>2 DEF Marked, DirType
      <4>3. ASSUME NEW k \in Inos, n.itable[k].type = "dir" PROVE k \in n.imap
        BY <2>0, <2>1, <2>4, <3>4, <4>1, <4>3, Numbering DEF Marked, DirType
      <4>4. ASSUME NEW r \in Slots, NEW k \in Inos, Holding(n, r, k),
                   n.itable[k].type = "dir"
            PROVE  DirType(n, r)
        <5>1. Holding(m, r, k)
          BY <2>1, <3>4, <4>4 DEF Holding
        <5>2. CASE n.itable[k] = m.itable[k]
          BY <2>1, <4>1, <4>4, <5>1, <5>2 DEF Marked, DirType
        <5>3. CASE k = x.ino /\ n.itable[k] = x.INODE
          <6>1. r = s
            BY <2>0, <3>1, <3>4, <5>1, <5>3 DEF Pinned, Once, Holding
          <6> QED BY <2>1, <4>4, <5>3, <6>1 DEF DirType
        <5> QED BY <2>4, <5>2, <5>3
      <4>5. n.itable[ROOT].type = "dir"
        <5>1. m.itable[ROOT].type = "dir" /\ ROOT \in Inos
          BY <4>1, Numbering DEF Marked
        <5>2. CASE ROOT = x.ino /\ n.itable[ROOT] = x.INODE
          <6>1. Holding(m, s, ROOT)
            BY <3>4, <5>2 DEF Holding
          <6> QED BY <2>0, <4>1, <5>1, <5>2, <6>1 DEF Marked, DirType
        <5> QED BY <2>4, <5>1, <5>2
      <4> QED BY <4>2, <4>3, <4>4, <4>5 DEF Marked
    <3>7. c \in Slots
      BY <1>1, <3>1 DEF Pinned, Machines
    <3> QED BY <2>1, <3>1, <3>3, <3>5, <3>6, <3>7, Numbering DEF Pinned, DirType
  <2> QED BY <1>5, <2>6, <2>7 DEF Ok, n
<1> QED BY <1>3, <1>4, <1>5

\* A handler writes an INODE in core, of the same type.
LEMMA SlotKeeps ==
    ASSUME NEW m, NEW n \in Sounds, NEW hold, NEW c, NEW i, Ok(m, hold, c, i),
           n.itable = m.itable, n.imap = m.imap, n.cwd = m.cwd,
           \A r \in Slots : /\ n.minode[r].ino = m.minode[r].ino
                            /\ n.minode[r].refCount = m.minode[r].refCount
                            /\ Careful => n.minode[r].INODE.type = m.minode[r].INODE.type
    PROVE  Ok(n, hold, c, i)
<1>1. SUFFICES ASSUME Careful PROVE Pinned(n, hold, c, i)
  BY DEF Ok
<1>2. Pinned(m, hold, c, i) /\ m \in Machines /\ n \in Machines
  BY <1>1 DEF Ok, Sounds
<1>3. Once(n)
  BY <1>2 DEF Pinned, Once, Busy
<1>4. Marked(n)
  BY <1>1, <1>2 DEF Pinned, Marked, Busy, Holding, DirType
<1>5. c \in Slots
  BY <1>2 DEF Pinned, Machines
<1> HIDE DEF Careful
<1> QED BY <1>1, <1>2, <1>3, <1>4, <1>5, Numbering DEF Pinned, DirType

\* "mip->dirty = 1", after a write to mip->INODE.
LEMMA StoreEffect ==
    ASSUME NEW m \in Machines, NEW s \in Slots, NEW inode \in INODEs, m.st = "up"
    PROVE  LET n == Store(m, s, inode)
           IN  /\ n \in Machines
               /\ n.itable = m.itable /\ n.imap = m.imap /\ n.bmap = m.bmap
               /\ n.cwd = m.cwd /\ n.st = m.st /\ n.dir = m.dir
               /\ \A r \in Slots : /\ n.minode[r].ino = m.minode[r].ino
                                   /\ n.minode[r].refCount = m.minode[r].refCount
                                   /\ r # s => n.minode[r] = m.minode[r]
               /\ n.minode[s].INODE = inode /\ n.minode[s].dirty
<1> DEFINE n == Store(m, s, inode)
           x == m.minode[s]
           y == [[x EXCEPT !.INODE = inode] EXCEPT !.dirty = TRUE]
<1>1. x \in MINODEs /\ m.minode \in [Slots -> MINODEs]
  BY DEF Machines
<1>2. [x EXCEPT !.INODE = inode] \in MINODEs
  BY <1>1 DEF MINODEs
<1>3. /\ y \in MINODEs /\ y.ino = x.ino /\ y.refCount = x.refCount
      /\ y.INODE = inode /\ y.dirty
  BY <1>1, <1>2 DEF MINODEs
<1>4. n = [m EXCEPT !.minode = [m.minode EXCEPT ![s] = y]]
  BY <1>1 DEF Store, Machines
<1> HIDE DEF y, n
<1>5. [m.minode EXCEPT ![s] = y] \in [Slots -> MINODEs]
  BY <1>1, <1>3
<1>6. /\ n \in Machines /\ n.minode = [m.minode EXCEPT ![s] = y]
      /\ n.itable = m.itable /\ n.imap = m.imap /\ n.bmap = m.bmap
      /\ n.cwd = m.cwd /\ n.st = m.st /\ n.dir = m.dir
  BY <1>1, <1>4, <1>5 DEF Machines
<1>7. /\ \A r \in Slots : /\ n.minode[r].ino = m.minode[r].ino
                          /\ n.minode[r].refCount = m.minode[r].refCount
                          /\ r # s => n.minode[r] = m.minode[r]
      /\ n.minode[s].INODE = inode /\ n.minode[s].dirty
  BY <1>1, <1>3, <1>6
<1> QED BY <1>6, <1>7 DEF n

\* A store that leaves the blocks and the type of an INODE alone.
LEMMA StoreOk ==
    ASSUME NEW m, NEW hold, NEW c, NEW i, Ok(m, hold, c, i),
           NEW s \in Slots, NEW inode \in INODEs, inode.block = Inode(m, s).block,
           Careful => inode.type = Inode(m, s).type
    PROVE  Ok(Store(m, s, inode), hold, c, i) /\ Store(m, s, inode).st = m.st
<1> DEFINE n == Store(m, s, inode)
<1>1. m \in Sounds /\ m \in Machines
  BY DEF Ok, Sounds
<1>2. CASE m.st # "up"
  BY <1>2 DEF Store
<1>3. CASE m.st = "up"
  <2>1. /\ n \in Machines
        /\ n.itable = m.itable /\ n.imap = m.imap /\ n.bmap = m.bmap
        /\ n.cwd = m.cwd /\ n.st = m.st
        /\ \A r \in Slots : /\ n.minode[r].ino = m.minode[r].ino
                            /\ n.minode[r].refCount = m.minode[r].refCount
                            /\ r # s => n.minode[r] = m.minode[r]
        /\ n.minode[s].INODE = inode
    BY <1>1, <1>3, StoreEffect
  <2> HIDE DEF n
  <2>2. \A r \in Slots : /\ n.minode[r].INODE.block = m.minode[r].INODE.block
                         /\ Careful => n.minode[r].INODE.type = m.minode[r].INODE.type
    BY <2>1 DEF Inode
  <2>3. Points(n) \subseteq Points(m)
    BY <2>1, <2>2 DEF Points
  <2>4. n \in Sounds
    BY <1>1, <2>1, <2>3, FewerPoints
  <2>5. Ok(n, hold, c, i)
    BY <2>1, <2>2, <2>4, SlotKeeps
  <2> QED BY <2>1, <2>5 DEF n
<1> QED BY <1>2, <1>3

-----------------------------------------------------------------------------
(* search() and getino().                                                  *)

\* search() changes nothing, and what it returns is an inode number or 0.
LEMMA SearchOk ==
    ASSUME NEW m, NEW hold, NEW c, NEW i, Ok(m, hold, c, i), NEW s \in Slots, NEW name
    PROVE  LET n == Search(m, s, name)
           IN  /\ Ok(n, hold, c, i)
               /\ n.st = "up" => /\ n = m /\ ~ Opaque(m, s)
                                 /\ SearchIno(m, s, name) \in Inos \cup {0}
<1> DEFINE n == Search(m, s, name)
           S == SearchStop(m, s, name)
           ends == S # {} /\ StopChain(m, s, name) = <<>>
<1>1. CASE Opaque(m, s)
  BY <1>1, FailKeeps DEF Search
<1>2. CASE ~ Opaque(m, s) /\ ends
  BY <1>2, FailKeeps DEF Search
<1>3. CASE ~ Opaque(m, s) /\ ~ ends
  <2>1. n = m
    BY <1>3 DEF Search
  <2>2. CASE S = {}
    BY <1>3, <2>1, <2>2 DEF SearchIno
  <2>3. CASE S # {} /\ StopChain(m, s, name) # <<>>
    <3> DEFINE k == FirstOf(S)
               b == Inode(m, s).block[k]
               chain == StopChain(m, s, name)
               T == {l \in DOMAIN chain : chain[l].name = name}
    <3>1. S \subseteq Nat
      BY Numbering DEF SearchStop
    <3>2. k \in S
      BY <2>3, <3>1, FirstIn
    <3>3. chain = m.dir[b]
      BY DEF StopChain
    <3>4. k \in 1 .. NDIRECT /\ b # 0 /\ Holds(chain, name)
      BY <2>3, <3>2, <3>3 DEF SearchStop
    <3>5. m.minode[s] \in MINODEs /\ m.dir \in [Blks \cup {0} -> Chains]
      BY DEF Ok, Sounds, Machines
    <3>6. b \in Blks \cup {0}
      <4>1. Inode(m, s) \in INODEs
        BY <3>5 DEF Inode, MINODEs
      <4> QED BY <3>4, <4>1, InodeParts
    <3> HIDE DEF chain, b, k
    <3>7. chain \in Chains
      BY <3>3, <3>5, <3>6
    <3>8. T \subseteq Nat /\ T # {}
      BY <3>4, <3>7 DEF Holds, Chains
    <3>9. FirstOf(T) \in T
      <4> HIDE DEF T
      <4> QED BY <3>8, FirstIn
    <3>10. chain[FirstOf(T)].ino \in Inos \cup {0}
      <4>1. FirstOf(T) \in DOMAIN chain
        BY <3>9
      <4> HIDE DEF T
      <4> QED BY <3>7, <4>1, ChainParts
    <3>11. SearchIno(m, s, name) = chain[FirstOf(T)].ino
      BY <2>3 DEF SearchIno, InoOf, chain
    <3> QED BY <1>3, <2>1, <3>10, <3>11
  <2> QED BY <1>3, <2>1, <2>2, <2>3
<1> QED BY <1>1, <1>2, <1>3

\* The walks of a path in one session: the slot they are at is in hand.
Walks(hold, c, i) == {w \in [m : Machines, s : Slots \cup {NULL}, ino : Inos \cup {0},
                             ok : BOOLEAN] : Ok(w.m, Also(w.m, hold, w.s), c, i)}

\* One component of a path: the directory in hand is given back for the next one.
LEMMA WalkOk ==
    ASSUME NEW hold, NEW c, NEW i, NEW w \in Walks(hold, c, i), NEW name,
           Careful => hold \in [Slots -> Nat] /\ AtMost(Pins(c), hold)
    PROVE  Walk(w, name) \in Walks(hold, c, i)
<1> DEFINE m1 == Search(w.m, w.s, name)
           ino == SearchIno(w.m, w.s, name)
           m2 == Iput(m1, w.s)
<1>1. /\ w \in [m : Machines, s : Slots \cup {NULL}, ino : Inos \cup {0}, ok : BOOLEAN]
      /\ Ok(w.m, Also(w.m, hold, w.s), c, i)
  BY DEF Walks
<1>2. \A n : Ok(n, hold, c, i) => n \in Machines
  BY DEF Ok, Sounds
<1>3. Ok(w.m, hold, c, i)
  BY <1>1, LetGo
<1>4. ASSUME NEW n, Ok(n, hold, c, i), n.st # "up" \/ w.s = NULL
      PROVE  [w EXCEPT !.m = n] \in Walks(hold, c, i)
  BY <1>1, <1>2, <1>4 DEF Walks, Also
<1>5. CASE ~ w.ok \/ w.m.st # "up"
  BY <1>5 DEF Walk
<1>6. CASE w.ok /\ w.m.st = "up" /\ w.s = NULL
  <2>1. Walk(w, name) = [w EXCEPT !.m = Fail(w.m, "down")]
    BY <1>6 DEF Walk, Deref
  <2> QED BY <1>3, <1>4, <1>6, <2>1, FailKeeps
<1>7. CASE w.ok /\ w.m.st = "up" /\ w.s # NULL
  <2>1. w.s \in Slots /\ Ok(w.m, Plus(hold, w.s), c, i)
    BY <1>1, <1>7 DEF Also
  <2>2. Walk(w, name) =
            IF m1.st # "up" THEN [w EXCEPT !.m = m1]
            ELSE IF ino = 0
                 THEN [m |-> m2, s |-> NULL, ino |-> 0, ok |-> FALSE]
            ELSE [m |-> Iget(m2, ino), s |-> IgetPtr(m2, ino), ino |-> ino,
                  ok |-> TRUE]
    BY <1>7 DEF Walk, With
  <2>3. Ok(m1, hold, c, i)
    BY <1>3, <2>1, SearchOk
  <2>4. CASE m1.st # "up"
    BY <1>4, <2>2, <2>3, <2>4
  <2>5. CASE m1.st = "up"
    <3>1. m1 = w.m /\ ino \in Inos \cup {0}
      BY <1>3, <2>1, <2>5, SearchOk
    <3>2. Ok(m2, hold, c, i)
      BY <1>1, <2>1, <3>1, IputOk
    <3>3. CASE ino = 0
      <4> HIDE DEF m1, m2, ino
      <4>1. Walk(w, name) = [m |-> m2, s |-> NULL, ino |-> 0, ok |-> FALSE]
        BY <2>2, <2>5, <3>3
      <4> QED BY <1>2, <3>2, <4>1 DEF Walks, Also
    <3>4. CASE ino # 0
      <4> DEFINE n == Iget(m2, ino)
                 t == IgetPtr(m2, ino)
      <4> HIDE DEF m1, m2, ino
      <4>1. Walk(w, name) = [m |-> n, s |-> t, ino |-> ino, ok |-> TRUE]
        BY <2>2, <2>5, <3>4
      <4>2. Ok(n, Also(n, hold, t), c, i) /\ t \in Slots \cup {NULL}
        BY <3>1, <3>2, IgetOk
      <4>3. n \in Machines
        BY <4>2 DEF Ok, Sounds
      <4> HIDE DEF n, t
      <4> QED BY <3>1, <4>1, <4>2, <4>3 DEF Walks
    <3> QED BY <3>3, <3>4
  <2> QED BY <2>4, <2>5
<1> QED BY <1>5, <1>6, <1>7

\* The parts of Ok that no later step needs the rest of.
LEMMA Held ==
    ASSUME NEW m, NEW hold, NEW c, NEW i, Ok(m, hold, c, i)
    PROVE  /\ m \in Sounds /\ m \in Machines
           /\ Careful => hold \in [Slots -> Nat] /\ AtMost(Pins(c), hold)
           /\ Careful => m.cwd = c
           /\ Careful => c \in Slots
BY DEF Ok, Sounds, Pinned, Machines

\* "running->cwd->refCount++": another hand on a slot in use.
LEMMA CountOk ==
    ASSUME NEW m, NEW hold, NEW c, NEW i, Ok(m, hold, c, i), NEW s \in {Root, m.cwd}
    PROVE  LET n == [m EXCEPT !.minode[s].refCount = @ + 1]
           IN  /\ s \in Slots
               /\ n.st = m.st
               /\ Ok(n, Plus(hold, s), c, i)
<1> DEFINE x == m.minode[s]
           y == [x EXCEPT !.refCount = @ + 1]
           n == [m EXCEPT !.minode[s].refCount = @ + 1]
<1>1. m \in Sounds /\ m \in Machines /\ s \in Slots /\ m.minode \in [Slots -> MINODEs]
  BY Held, Numbering DEF Machines
<1>2. x \in MINODEs /\ x.refCount \in Int
  BY <1>1 DEF MINODEs
<1>3. y \in MINODEs /\ y.ino = x.ino /\ y.refCount = x.refCount + 1 /\ y.INODE = x.INODE
  BY <1>2 DEF MINODEs
<1>4. n = [m EXCEPT !.minode = [m.minode EXCEPT ![s] = y]]
  BY <1>1 DEF Machines
<1> HIDE DEF y, n
<1>5. [m.minode EXCEPT ![s] = y] \in [Slots -> MINODEs]
  BY <1>1, <1>3
<1>6. /\ n \in Machines /\ n.minode = [m.minode EXCEPT ![s] = y]
      /\ n.itable = m.itable /\ n.imap = m.imap /\ n.bmap = m.bmap /\ n.cwd = m.cwd
      /\ n.st = m.st
  BY <1>1, <1>4, <1>5 DEF Machines
<1>7. \A r \in Slots : /\ n.minode[r].ino = m.minode[r].ino
                       /\ n.minode[r].INODE = m.minode[r].INODE
                       /\ r # s => n.minode[r] = m.minode[r]
                       /\ r = s => n.minode[r].refCount = x.refCount + 1
  BY <1>1, <1>3, <1>6
<1>8. Points(n) \subseteq Points(m)
  BY <1>6, <1>7 DEF Points
<1>9. n \in Sounds
  BY <1>1, <1>6, <1>8, FewerPoints
<1>10. ASSUME Careful PROVE Pinned(n, Plus(hold, s), c, i)
  <2>1. Pinned(m, hold, c, i) /\ hold \in [Slots -> Nat] /\ AtMost(Pins(c), hold)
        /\ m.cwd = c /\ c \in Slots
    BY <1>10, Held DEF Ok
  <2>2. /\ Plus(hold, s) \in [Slots -> Nat] /\ AtMost(Pins(c), Plus(hold, s))
        /\ \A r \in Slots : Plus(hold, s)[r] = IF r = s THEN hold[r] + 1 ELSE hold[r]
    BY <1>1, <2>1, PlusMore, PinsType
  <2>3. \A r \in Slots : m.minode[r].refCount >= hold[r] /\ m.minode[r].refCount \in Int
    BY <1>1, <2>1 DEF Pinned, MINODEs
  <2>4. \A r \in Slots : n.minode[r].refCount >= Plus(hold, s)[r]
    BY <1>7, <2>1, <2>2, <2>3
  <2>5. Pins(c)[s] >= 1 /\ Pins(c)[s] \in Nat
    BY <1>1, <2>1 DEF Pins
  <2>6. \A r \in Slots : Busy(n, r) => Busy(m, r)
    BY <1>1, <1>7, <2>1, <2>3, <2>5 DEF Busy, AtMost
  <2>7. Once(n)
    BY <1>7, <2>1, <2>6 DEF Pinned, Once
  <2>8. Marked(n)
    BY <1>6, <1>7, <2>1, <2>6 DEF Pinned, Marked, Holding, DirType
  <2> QED BY <1>6, <1>7, <2>1, <2>2, <2>4, <2>7, <2>8, Numbering DEF Pinned, DirType
<1> QED BY <1>1, <1>6, <1>9, <1>10 DEF Ok, n

\* getino() gives back every slot it took, on every path out of it.
LEMMA GetinoOk ==
    ASSUME NEW m, NEW hold, NEW c, NEW i, Ok(m, hold, c, i), NEW path \in PathType
    PROVE  LET g == Getino(m, path)
           IN  Ok(g.m, hold, c, i) /\ g.ino \in Inos \cup {0}
<1> DEFINE start == IF path.abs THEN Root ELSE m.cwd
           m1 == [m EXCEPT !.minode[start].refCount = @ + 1]
           w0 == [m |-> m1, s |-> start, ino |-> 0, ok |-> TRUE]
           w == WalkAll(w0, path.comps)
           g == Getino(m, path)
<1>1. CASE m.st # "up"
  BY <1>1 DEF Getino
<1>2. CASE m.st = "up" /\ path.comps = <<>>
  BY <1>2, Numbering DEF Getino
<1>3. CASE m.st = "up" /\ path.comps # <<>>
  <2>1. g = [m |-> Iput(w.m, w.s), ino |-> w.ino]
    BY <1>3 DEF Getino, With
  <2>2. start \in Slots /\ m1.st = "up" /\ Ok(m1, Plus(hold, start), c, i)
    <3>1. start \in {Root, m.cwd}
      OBVIOUS
    <3> HIDE DEF start
    <3> QED BY <1>3, <3>1, CountOk
  <2> HIDE DEF m1, start
  <2>3. w0 \in Walks(hold, c, i)
    <3>1. start # NULL /\ m1 \in Machines
      BY <2>2, Held, Numbering
    <3> QED BY <2>2, <3>1 DEF Walks, Also
  <2>4. path.comps \in Seq(FileNames)
    BY DEF PathType
  <2>5. \A x \in Walks(hold, c, i), a \in FileNames : Walk(x, a) \in Walks(hold, c, i)
    BY Held, WalkOk
  <2>6. w \in Walks(hold, c, i)
    <3> HIDE DEF w0
    <3> QED BY <2>3, <2>4, <2>5, WalkFold
  <2> HIDE DEF w
  <2>7. /\ w.s \in Slots \cup {NULL} /\ w.ino \in Inos \cup {0}
        /\ Ok(w.m, Also(w.m, hold, w.s), c, i)
    BY <2>6 DEF Walks
  <2>8. Ok(Iput(w.m, w.s), hold, c, i)
    BY <2>7, Held, IputOk
  <2> QED BY <2>1, <2>7, <2>8
<1> QED BY <1>1, <1>2, <1>3

\* getino() and iget(): one reference more, to the inode of the path.
LEMMA FetchOk ==
    ASSUME NEW m, NEW hold, NEW c, NEW i, Ok(m, hold, c, i), NEW path \in PathType
    PROVE  LET f == Fetch(m, path)
           IN  /\ Ok(f.m, Also(f.m, hold, f.s), c, i)
               /\ f.s \in Slots \cup {NULL} /\ f.ino \in Inos \cup {0}
               /\ f.m.st = "up" /\ f.s # NULL => f.m.minode[f.s].ino = f.ino
<1> DEFINE g == Getino(m, path)
<1>1. Ok(g.m, hold, c, i) /\ g.ino \in Inos \cup {0}
  BY GetinoOk
<1>2. Fetch(m, path) = [m |-> Iget(g.m, g.ino), ino |-> g.ino, s |-> IgetPtr(g.m, g.ino)]
  BY DEF Fetch, With
<1> HIDE DEF g
<1> QED BY <1>1, <1>2, IgetOk

\* dirname() and basename() of a path with a last component.
LEMMA PathParts ==
    ASSUME NEW path \in PathType, path.comps # <<>>
    PROVE  Dirname(path) \in PathType /\ Basename(path) \in FileNames
<1> DEFINE names == path.comps
           up == IF Len(names) = 1 /\ ~ path.abs THEN <<".">> ELSE Front(names)
<1>1. names \in Seq(FileNames) /\ names # <<>> /\ Len(names) \in Nat \ {0}
  BY DEF PathType
<1>2. Front(names) \in Seq(FileNames)
  BY <1>1 DEF Front
<1>3. up \in Seq(FileNames)
  <2>1. <<".">> \in Seq(FileNames)
    BY NamesAssumption
  <2> QED BY <1>2, <2>1
<1>4. Dirname(path) = [path EXCEPT !.comps = up]
  BY DEF Dirname, PathType
<1> HIDE DEF up
<1>5. Dirname(path) \in PathType
  BY <1>3, <1>4 DEF PathType
<1>6. Basename(path) \in FileNames
  BY <1>1 DEF Basename, Last
<1> QED BY <1>5, <1>6

\* A machine whose slots differ in their dirty flags alone, or not at all.
LEMMA AlikeOk ==
    ASSUME NEW m, NEW n \in Machines, NEW hold, NEW c, NEW i, Ok(m, hold, c, i),
           n.itable = m.itable, n.imap = m.imap, n.bmap = m.bmap, n.cwd = m.cwd,
           \A r \in Slots : /\ n.minode[r].ino = m.minode[r].ino
                            /\ n.minode[r].refCount = m.minode[r].refCount
                            /\ n.minode[r].INODE = m.minode[r].INODE
    PROVE  Ok(n, hold, c, i)
<1>1. Points(n) \subseteq Points(m)
  BY DEF Points
<1>2. n \in Sounds
  BY <1>1, Held, FewerPoints
<1> QED BY <1>2, SlotKeeps

\* A block of entries is written.
LEMMA DirOk ==
    ASSUME NEW m, NEW hold, NEW c, NEW i, Ok(m, hold, c, i),
           NEW b \in Blks \cup {0}, NEW chain \in Chains
    PROVE  LET n == [m EXCEPT !.dir[b] = chain]
           IN  Ok(n, hold, c, i) /\ n.st = m.st /\ n.minode = m.minode
<1> DEFINE n == [m EXCEPT !.dir[b] = chain]
<1>1. m \in Machines
  BY Held
<1>2. [m.dir EXCEPT ![b] = chain] \in [Blks \cup {0} -> Chains]
  BY <1>1 DEF Machines
<1>3. n = [m EXCEPT !.dir = [m.dir EXCEPT ![b] = chain]]
  BY <1>1 DEF Machines
<1>4. /\ n \in Machines /\ n.minode = m.minode /\ n.itable = m.itable /\ n.imap = m.imap
      /\ n.bmap = m.bmap /\ n.cwd = m.cwd /\ n.st = m.st
  BY <1>1, <1>2, <1>3 DEF Machines
<1> QED BY <1>4, SameOk

\* ialloc() and balloc() return a free number or 0.
LEMMA Free ==
    ASSUME NEW m \in Machines
    PROVE  /\ FreeIno(m) \in Inos \cup {0} /\ FreeIno(m) \notin m.imap
           /\ FreeBlk(m) \in Blks \cup {0} /\ FreeBlk(m) \notin m.bmap
           /\ FreeBlk(m) # 0 => FreeBlk(m) \in Blks
<1>1. m.imap \subseteq Inos /\ m.bmap \subseteq Blks
  BY DEF Machines
<1>2. FreeIno(m) \in Inos \cup {0} /\ FreeIno(m) \notin m.imap
  <2>1. CASE Inos \subseteq m.imap
    BY <1>1, <2>1, Numbering DEF FreeIno
  <2>2. CASE ~ (Inos \subseteq m.imap)
    <3>1. FirstOf(Inos \ m.imap) \in Inos \ m.imap
      BY <2>2, Numbering, FirstIn
    <3> QED BY <2>2, <3>1 DEF FreeIno
  <2> QED BY <2>1, <2>2
<1>3. FreeBlk(m) \in Blks \cup {0} /\ FreeBlk(m) \notin m.bmap
  <2>1. CASE Blks \subseteq m.bmap
    BY <1>1, <2>1, Numbering DEF FreeBlk
  <2>2. CASE ~ (Blks \subseteq m.bmap)
    <3>1. FirstOf(Blks \ m.bmap) \in Blks \ m.bmap
      BY <2>2, Numbering, FirstIn
    <3> QED BY <2>2, <3>1 DEF FreeBlk
  <2> QED BY <2>1, <2>2
<1> QED BY <1>2, <1>3

-----------------------------------------------------------------------------
(* mkdir_creat.c.                                                          *)

EntryType == [name : FileNames, ino : Inos \cup {0}]

\* A new block pointer in a slot.
Grow(x, k, b) == [x EXCEPT !.INODE.block[k] = b]

\* A slot after enter_child() has put block b behind pointer k.
LEMMA Grown ==
    ASSUME NEW x \in MINODEs, NEW k \in 1 .. NDIRECT, NEW b \in Blks \cup {0}
    PROVE  LET y == Grow(x, k, b)
           IN  /\ y \in MINODEs /\ y.ino = x.ino /\ y.refCount = x.refCount
               /\ y.INODE.type = x.INODE.type
               /\ \A l \in 1 .. NDIRECT :
                     y.INODE.block[l] = IF l = k THEN b ELSE x.INODE.block[l]
<1> DEFINE blocks == [x.INODE.block EXCEPT ![k] = b]
           inode == [x.INODE EXCEPT !.block = blocks]
           y == [x EXCEPT !.INODE = inode]
<1>1. x.INODE \in INODEs
  BY DEF MINODEs
<1>2. x.INODE.block \in [1 .. NDIRECT -> Blks \cup {0}]
  BY <1>1, InodeParts
<1>3. blocks \in [1 .. NDIRECT -> Blks \cup {0}]
      /\ \A l \in 1 .. NDIRECT : blocks[l] = IF l = k THEN b ELSE x.INODE.block[l]
  BY <1>2
<1> HIDE DEF blocks
<1>4. inode \in INODEs /\ inode.block = blocks /\ inode.type = x.INODE.type
  BY <1>1, <1>3 DEF INODEs
<1> HIDE DEF inode
<1>5. y \in MINODEs /\ y.ino = x.ino /\ y.refCount = x.refCount /\ y.INODE = inode
  BY <1>4 DEF MINODEs
<1>6. Grow(x, k, b) = y
  BY <1>1 DEF Grow, MINODEs, INODEs, inode, blocks
<1> QED BY <1>3, <1>4, <1>5, <1>6

\* enter_child(): a new block is a free one, marked in the same step.
LEMMA EnterChildOk ==
    ASSUME NEW m, NEW hold, NEW c, NEW i, Ok(m, hold, c, i), NEW s \in Slots,
           NEW entry \in EntryType
    PROVE  LET n == EnterChild(m, s, entry)
           IN  Ok(n, hold, c, i) /\ (m.st # "up" => n = m)
<1> DEFINE n == EnterChild(m, s, entry)
           room == {k \in 1 .. NDIRECT : HasRoom(m, s, k)}
           k == FirstOf(room)
           b == Inode(m, s).block[k]
           fb == FreeBlk(m)
           x == m.minode[s]
<1>1. m \in Sounds /\ m \in Machines /\ m.minode \in [Slots -> MINODEs] /\ x \in MINODEs
      /\ m.dir \in [Blks \cup {0} -> Chains]
  BY Held DEF Machines
<1>2. CASE m.st # "up"
  BY <1>2 DEF EnterChild
<1>3. CASE m.st = "up" /\ Opaque(m, s)
  BY <1>3, FailKeeps DEF EnterChild
<1>4. CASE m.st = "up" /\ ~ Opaque(m, s) /\ room = {}
  BY <1>4 DEF EnterChild
<1>5. room # {} => k \in 1 .. NDIRECT
  BY Numbering, FirstIn
<1>6. CASE m.st = "up" /\ ~ Opaque(m, s) /\ room # {} /\ b = 0
  <2> DEFINE y == Grow(x, k, fb)
             point == <<x.ino, k, fb>>
  <2>1. n = [[m EXCEPT !.bmap = @ \cup ({fb} \cap Blks)] EXCEPT
                !.minode[s].INODE.block[k] = fb, !.dir[fb] = <<entry>>]
    BY <1>6 DEF EnterChild, Balloc
  <2>2. fb \in Blks \cup {0} /\ fb \notin m.bmap
    BY <1>1, Free
  <2>3. k \in 1 .. NDIRECT
    BY <1>5, <1>6
  <2> HIDE DEF n, fb, k
  <2>4. n = [m EXCEPT !.bmap = @ \cup ({fb} \cap Blks),
                      !.minode = [m.minode EXCEPT ![s] = y],
                      !.dir = [m.dir EXCEPT ![fb] = <<entry>>]]
    BY <1>1, <2>1 DEF Machines, Grow
  <2>5. /\ y \in MINODEs /\ y.ino = x.ino /\ y.refCount = x.refCount
        /\ y.INODE.type = x.INODE.type
        /\ \A l \in 1 .. NDIRECT : y.INODE.block[l] = IF l = k THEN fb ELSE x.INODE.block[l]
    BY <1>1, <2>2, <2>3, Grown
  <2> HIDE DEF y
  <2>6. [m.minode EXCEPT ![s] = y] \in [Slots -> MINODEs]
    BY <1>1, <2>5
  <2>7. [m.dir EXCEPT ![fb] = <<entry>>] \in [Blks \cup {0} -> Chains]
    <3>1. <<entry>> \in Chains
      BY DEF Chains, EntryType
    <3> QED BY <1>1, <2>2, <3>1
  <2>8. m.bmap \cup ({fb} \cap Blks) \subseteq Blks
    BY <1>1 DEF Machines
  <2>9. /\ n \in Machines /\ n.minode = [m.minode EXCEPT ![s] = y]
        /\ n.bmap = m.bmap \cup ({fb} \cap Blks)
        /\ n.itable = m.itable /\ n.imap = m.imap /\ n.cwd = m.cwd
    BY <1>1, <2>4, <2>6, <2>7, <2>8 DEF Machines
  <2>10. \A r \in Slots : /\ n.minode[r].ino = m.minode[r].ino
                          /\ n.minode[r].refCount = m.minode[r].refCount
                          /\ n.minode[r].INODE.type = m.minode[r].INODE.type
                          /\ \A l \in 1 .. NDIRECT :
                                \/ n.minode[r].INODE.block[l] = m.minode[r].INODE.block[l]
                                \/ r = s /\ l = k /\ n.minode[r].INODE.block[l] = fb
    BY <1>1, <2>5, <2>9
  <2>11. Points(n) \subseteq Points(m) \cup {point}
    BY <2>9, <2>10 DEF Points
  <2>12. n \in Sounds
    <3>1. CASE fb = 0
      <4>1. Points(n) \subseteq Points(m)
        BY <2>11, <3>1, Numbering DEF Points
      <4> QED BY <1>1, <2>9, <4>1, FewerPoints
    <3>2. CASE fb # 0
      BY <1>1, <2>2, <2>9, <2>11, <3>2, OneMorePoint
    <3> QED BY <3>1, <3>2
  <2>13. Ok(n, hold, c, i)
    <3>1. \A r \in Slots : /\ n.minode[r].ino = m.minode[r].ino
                           /\ n.minode[r].refCount = m.minode[r].refCount
                           /\ Careful => n.minode[r].INODE.type = m.minode[r].INODE.type
      BY <2>10
    <3> QED BY <2>9, <2>12, <3>1, SlotKeeps
  <2> QED BY <1>6, <2>13 DEF n
<1>7. CASE m.st = "up" /\ ~ Opaque(m, s) /\ room # {} /\ b # 0
  <2>1. n = [m EXCEPT !.dir[b] = Append(@, entry)]
    BY <1>7 DEF EnterChild
  <2>2. b \in Blks \cup {0}
    <3>1. Inode(m, s) \in INODEs
      BY <1>1 DEF Inode, MINODEs
    <3> QED BY <1>5, <1>7, <3>1, InodeParts
  <2> HIDE DEF b, n
  <2>3. m.dir[b] \in Chains
    BY <1>1, <2>2
  <2>4. Append(m.dir[b], entry) \in Chains
    BY <2>3 DEF Chains, EntryType
  <2>5. n = [m EXCEPT !.dir[b] = Append(m.dir[b], entry)]
    BY <2>1
  <2>6. Ok(n, hold, c, i)
    <3> DEFINE chain == Append(m.dir[b], entry)
    <3> HIDE DEF chain
    <3> QED BY <2>2, <2>4, <2>5, DirOk DEF chain
  <2> QED BY <1>7, <2>6 DEF n
<1> QED BY <1>2, <1>3, <1>4, <1>6, <1>7

\* "mip->refCount = v" for a slot in use that is not in more than v hands.
LEMMA CountSetOk ==
    ASSUME NEW m, NEW hold, NEW c, NEW i, Ok(m, hold, c, i), NEW s \in Slots, NEW v \in Nat,
           Careful => Busy(m, s) /\ hold[s] <= v
    PROVE  LET n == [m EXCEPT !.minode[s].refCount = v]
           IN  /\ Ok(n, hold, c, i)
               /\ n.st = m.st /\ n.itable = m.itable /\ n.imap = m.imap /\ n.bmap = m.bmap
               /\ n.cwd = m.cwd
               /\ \A r \in Slots : /\ n.minode[r].ino = m.minode[r].ino
                                   /\ n.minode[r].INODE = m.minode[r].INODE
                                   /\ n.minode[r].dirty = m.minode[r].dirty
                                   /\ r # s => n.minode[r] = m.minode[r]
                                   /\ r = s => n.minode[r].refCount = v
<1> DEFINE x == m.minode[s]
           y == [x EXCEPT !.refCount = v]
           n == [m EXCEPT !.minode[s].refCount = v]
<1>1. m \in Sounds /\ m \in Machines /\ m.minode \in [Slots -> MINODEs]
  BY DEF Ok, Sounds, Machines
<1>2. x \in MINODEs
  BY <1>1
<1>3. y \in MINODEs /\ y.ino = x.ino /\ y.refCount = v /\ y.INODE = x.INODE /\ y.dirty = x.dirty
  BY <1>2 DEF MINODEs
<1>4. n = [m EXCEPT !.minode = [m.minode EXCEPT ![s] = y]]
  BY <1>1 DEF Machines
<1> HIDE DEF y, n
<1>5. [m.minode EXCEPT ![s] = y] \in [Slots -> MINODEs]
  BY <1>1, <1>3
<1>6. /\ n \in Machines /\ n.minode = [m.minode EXCEPT ![s] = y]
      /\ n.itable = m.itable /\ n.imap = m.imap /\ n.bmap = m.bmap /\ n.cwd = m.cwd
      /\ n.st = m.st
  BY <1>1, <1>4, <1>5 DEF Machines
<1>7. \A r \in Slots : /\ n.minode[r].ino = m.minode[r].ino
                       /\ n.minode[r].INODE = m.minode[r].INODE
                       /\ n.minode[r].dirty = m.minode[r].dirty
                       /\ r # s => n.minode[r] = m.minode[r]
                       /\ r = s => n.minode[r].refCount = v
  BY <1>1, <1>3, <1>6
<1>8. Points(n) \subseteq Points(m)
  BY <1>6, <1>7 DEF Points
<1>9. n \in Sounds
  BY <1>1, <1>6, <1>8, FewerPoints
<1>10. ASSUME Careful PROVE Pinned(n, hold, c, i)
  <2>1. Pinned(m, hold, c, i) /\ hold \in [Slots -> Nat] /\ AtMost(Pins(c), hold)
        /\ m.cwd = c /\ c \in Slots
    BY <1>10, Held DEF Ok
  <2>2. \A r \in Slots : m.minode[r].refCount >= hold[r]
    BY <2>1 DEF Pinned
  <2>3. \A r \in Slots : n.minode[r].refCount >= hold[r]
    BY <1>7, <1>10, <2>2
  <2>4. \A r \in Slots : Busy(n, r) => Busy(m, r)
    BY <1>7, <1>10 DEF Busy
  <2>5. Once(n)
    BY <1>7, <2>1, <2>4 DEF Pinned, Once
  <2>6. Marked(n)
    BY <1>6, <1>7, <2>1, <2>4 DEF Pinned, Marked, Holding, DirType
  <2> QED BY <1>6, <1>7, <2>1, <2>3, <2>5, <2>6, Numbering DEF Pinned, DirType
<1> QED BY <1>6, <1>7, <1>9, <1>10 DEF Ok, n

\* More bits are set.
LEMMA BitsOk ==
    ASSUME NEW m, NEW hold, NEW c, NEW i, Ok(m, hold, c, i), NEW n \in Machines,
           n.minode = m.minode, n.itable = m.itable, n.cwd = m.cwd,
           m.imap \subseteq n.imap, m.bmap \subseteq n.bmap
    PROVE  Ok(n, hold, c, i)
<1>1. Points(n) \subseteq Points(m)
  BY DEF Points
<1>2. n \in Sounds
  BY <1>1, Held, FewerPoints
<1>3. Once(m) => Once(n)
  BY DEF Once, Busy
<1>4. Marked(m) => Marked(n)
  BY DEF Marked, Busy, Holding, DirType
<1> QED BY <1>2, <1>3, <1>4 DEF Ok, Pinned, DirType

\* What iget() leaves alone.
LEMMA IgetKeeps ==
    ASSUME NEW m \in Machines, m.st = "up", NEW ino \in Inos \cup {0}
    PROVE  LET n == Iget(m, ino)
           IN  /\ n.minode = IgetTable(m.minode, m.itable, ino)
               /\ n.itable = m.itable /\ n.imap = m.imap /\ n.bmap = m.bmap
               /\ n.cwd = m.cwd /\ n.st = m.st /\ n.dir = m.dir
               /\ \A r \in Slots : Busy(m, r) => /\ n.minode[r].ino = m.minode[r].ino
                                                 /\ n.minode[r].INODE = m.minode[r].INODE
<1> DEFINE mt == m.minode
           n == Iget(m, ino)
<1>1. mt \in [Slots -> MINODEs] /\ m.itable \in [Inos \cup {0} -> INODEs]
  BY DEF Machines
<1>2. n = [m EXCEPT !.minode = IgetTable(mt, m.itable, ino)]
  BY DEF Iget
<1>3. /\ n.minode = IgetTable(mt, m.itable, ino)
      /\ n.itable = m.itable /\ n.imap = m.imap /\ n.bmap = m.bmap
      /\ n.cwd = m.cwd /\ n.st = m.st /\ n.dir = m.dir
  BY <1>2 DEF Machines
<1>4. \A r \in Slots : mt[r].refCount # 0 =>
          /\ IgetTable(mt, m.itable, ino)[r].ino = mt[r].ino
          /\ IgetTable(mt, m.itable, ino)[r].INODE = mt[r].INODE
  <2> DEFINE t == IgetSlot(mt, ino)
             nt == IgetTable(mt, m.itable, ino)
  <2>1. m.itable[ino] \in INODEs
    BY <1>1
  <2>2. /\ t \in Slots \cup {NULL}
        /\ t = NULL => nt = mt
        /\ \A r \in Slots : r # t => nt[r] = mt[r]
        /\ t # NULL => /\ nt[t].ino = ino
                       /\ \/ mt[t].ino = ino /\ nt[t].INODE = mt[t].INODE
                          \/ mt[t].refCount = 0
    <3> HIDE DEF mt
    <3> QED BY <1>1, <2>1, IgetTableEffect
  <2> HIDE DEF t, nt
  <2>3. ASSUME NEW r \in Slots, mt[r].refCount # 0
        PROVE  nt[r].ino = mt[r].ino /\ nt[r].INODE = mt[r].INODE
    BY <2>2, <2>3
  <2> QED BY <2>3 DEF nt
<1> HIDE DEF n
<1> QED BY <1>3, <1>4 DEF Busy, n

\* The last steps of kcreat() and kmkdir() give the parent back once.
LEMMA EnterAndReleaseOk ==
    ASSUME NEW m, NEW hold, NEW c, NEW i, NEW s \in Slots, Ok(m, Also(m, hold, s), c, i),
           Careful => hold \in [Slots -> Nat] /\ AtMost(Pins(c), hold),
           NEW entry \in EntryType
    PROVE  Ok(EnterAndRelease(m, s, entry), hold, c, i)
<1> DEFINE h == Also(m, hold, s)
           m1 == EnterChild(m, s, entry)
           m2 == Store(m1, s, Inode(m1, s))
<1>1. EnterAndRelease(m, s, entry) = IF m1.st # "up" THEN m1 ELSE Iput(m2, s)
  BY DEF EnterAndRelease, With
<1>2. Ok(m1, h, c, i) /\ (m.st # "up" => m1 = m)
  BY EnterChildOk
<1>3. CASE m1.st # "up"
  <2>1. Ok(m1, hold, c, i)
    BY <1>2, LetGo
  <2> QED BY <1>1, <1>3, <2>1
<1>4. CASE m1.st = "up"
  <2> HIDE DEF m1
  <2>1. Inode(m1, s) \in INODEs
    <3>1. m1.minode[s] \in MINODEs
      BY <1>2, Held DEF Machines
    <3> QED BY <3>1 DEF Inode, MINODEs
  <2>2. Ok(m2, h, c, i) /\ m2.st = "up"
    BY <1>2, <1>4, <2>1, StoreOk
  <2>3. h = Also(m2, hold, s)
    BY <1>2, <1>4, <2>2 DEF Also
  <2> HIDE DEF m2, h
  <2>4. Ok(Iput(m2, s), hold, c, i)
    BY <2>2, <2>3, IputOk
  <2> QED BY <1>1, <1>4, <2>4
<1> QED BY <1>3, <1>4

\* What is in hand is a directory, and not the inode number 0.
HoldsDirs(m, hold) == \A r \in Slots : hold[r] # 0 => DirType(m, r) /\ m.minode[r].ino # 0

\* ialloc(), balloc() and iget() for a new inode: its slot is in no other hand.
LEMMA NewMinodeOk ==
    ASSUME NEW m, NEW hold, NEW c, NEW i, Ok(m, hold, c, i), m.st = "up",
           NEW type \in {"reg", "dir"}, NEW links \in U16, Careful => HoldsDirs(m, hold)
    PROVE  LET new == NewMinode(m, type, links)
           IN  /\ new.s \in Slots \cup {NULL} /\ new.ino \in Inos \cup {0}
               /\ new.blk \in Blks \cup {0}
               /\ Ok(new.m, Also(new.m, hold, new.s), c, i)
               /\ new.m.st = "up" =>
                     /\ new.s # NULL /\ new.m.minode[new.s].dirty
                     /\ new.m.minode[new.s].ino = new.ino
                     /\ Careful => hold[new.s] = 0
<1> DEFINE ino == FreeIno(m)
           blk == FreeBlk(m)
           m1 == Balloc(Ialloc(m))
           t == IgetPtr(m1, ino)
           n1 == Iget(m1, ino)
           m2 == Deref(n1, t)
           inode == INODE(type, links, blk)
           new == NewMinode(m, type, links)
<1>1. new = [m |-> IF m2.st # "up" THEN m2 ELSE Store(m2, t, inode),
             s |-> t, ino |-> ino, blk |-> blk]
  BY DEF NewMinode, With
<1>2. m \in Sounds /\ m \in Machines
  BY DEF Ok, Sounds
<1>3. /\ ino \in Inos \cup {0} /\ ino \notin m.imap
      /\ blk \in Blks \cup {0} /\ blk \notin m.bmap
  BY <1>2, Free
<1> DEFINE m0 == Ialloc(m)
<1>4. /\ m0 \in Machines /\ m0.imap = m.imap \cup ({ino} \cap Inos)
      /\ m0.minode = m.minode /\ m0.itable = m.itable /\ m0.bmap = m.bmap
      /\ m0.cwd = m.cwd /\ m0.st = m.st /\ m0.dir = m.dir
  BY <1>2 DEF Ialloc, Machines
<1>5. FreeBlk(m0) = blk
  BY <1>4 DEF FreeBlk
<1> HIDE DEF m0
<1>6. /\ m1 \in Machines /\ m1.imap = m.imap \cup ({ino} \cap Inos)
      /\ m1.bmap = m.bmap \cup ({blk} \cap Blks)
      /\ m1.minode = m.minode /\ m1.itable = m.itable
      /\ m1.cwd = m.cwd /\ m1.st = m.st /\ m1.dir = m.dir
  <2>1. m1 = [m0 EXCEPT !.bmap = m.bmap \cup ({blk} \cap Blks)]
    BY <1>4, <1>5 DEF Balloc, m0
  <2>2. m.bmap \cup ({blk} \cap Blks) \subseteq Blks
    BY <1>2 DEF Machines
  <2> HIDE DEF m1, blk
  <2> QED BY <1>4, <2>1, <2>2 DEF Machines
<1> HIDE DEF m1, ino, blk
<1>7. Ok(m1, hold, c, i)
  BY <1>6, BitsOk
<1>8. Ok(n1, Also(n1, hold, t), c, i) /\ t \in Slots \cup {NULL} /\ n1.st = "up"
  BY <1>3, <1>6, <1>7, IgetOk
<1>9. CASE t = NULL
  <2>1. Ok(n1, hold, c, i)
    BY <1>8, <1>9 DEF Also
  <2>2. m2 = Fail(n1, "down")
    BY <1>9 DEF Deref
  <2>3. Ok(m2, hold, c, i) /\ m2.st # "up"
    BY <2>1, <2>2, FailKeeps
  <2> HIDE DEF m2, t, new
  <2>4. new.m = m2 /\ new.s = t /\ new.ino = ino /\ new.blk = blk
    BY <1>1, <2>3
  <2> QED BY <1>3, <1>8, <1>9, <2>3, <2>4 DEF Also, new
<1>10. CASE t # NULL
  <2> DEFINE n == Store(n1, t, inode)
             mm == Iget(m, ino)
             point == <<ino, 1, blk>>
  <2>1. m2 = n1 /\ t \in Slots
    BY <1>8, <1>10 DEF Deref
  <2>2. Ok(n1, Plus(hold, t), c, i)
    BY <1>8, <1>10 DEF Also
  <2>3. t = IgetPtr(m, ino)
    BY <1>6 DEF IgetPtr
  <2>4. Ok(mm, Plus(hold, t), c, i) /\ mm.minode[t].ino = ino
    <3>1. Ok(mm, Also(mm, hold, t), c, i) /\ mm.st = "up" /\ mm.minode[t].ino = ino
      <4> HIDE DEF t
      <4> QED BY <1>3, <1>10, <2>3, IgetOk
    <3> QED BY <1>10, <3>1 DEF Also
  <2>5. /\ mm.minode = n1.minode /\ mm.itable = n1.itable /\ mm.cwd = n1.cwd
        /\ mm.imap = m.imap /\ mm.bmap = m.bmap
        /\ n1.imap = m1.imap /\ n1.bmap = m1.bmap
        /\ \A r \in Slots : Busy(m, r) => /\ mm.minode[r].ino = m.minode[r].ino
                                          /\ mm.minode[r].INODE = m.minode[r].INODE
    <3>1. /\ mm.minode = IgetTable(m.minode, m.itable, ino)
          /\ mm.itable = m.itable /\ mm.imap = m.imap /\ mm.bmap = m.bmap /\ mm.cwd = m.cwd
          /\ \A r \in Slots : Busy(m, r) => /\ mm.minode[r].ino = m.minode[r].ino
                                            /\ mm.minode[r].INODE = m.minode[r].INODE
      BY <1>2, <1>3, IgetKeeps
    <3>2. /\ n1.minode = IgetTable(m1.minode, m1.itable, ino)
          /\ n1.itable = m1.itable /\ n1.imap = m1.imap /\ n1.bmap = m1.bmap
          /\ n1.cwd = m1.cwd
      BY <1>3, <1>6, IgetKeeps
    <3> HIDE DEF mm, n1
    <3> QED BY <1>6, <3>1, <3>2
  <2>6. /\ inode \in INODEs
        /\ \A k \in 1 .. NDIRECT : inode.block[k] = IF k = 1 THEN blk ELSE 0
    BY <1>3, NewINODE
  <2> HIDE DEF n1, t, mm, inode
  <2>7. /\ n \in Machines
        /\ n.itable = n1.itable /\ n.imap = n1.imap /\ n.bmap = n1.bmap
        /\ n.cwd = n1.cwd /\ n.st = n1.st
        /\ \A r \in Slots : /\ n.minode[r].ino = mm.minode[r].ino
                            /\ n.minode[r].refCount = mm.minode[r].refCount
                            /\ r # t => n.minode[r] = mm.minode[r]
        /\ n.minode[t].INODE = inode /\ n.minode[t].dirty
    <3>1. n1 \in Machines
      BY <2>2, Held
    <3> QED BY <1>8, <2>1, <2>5, <2>6, <3>1, StoreEffect
  <2> HIDE DEF n
  <2>8. Points(n) \subseteq Points(mm) \cup {point}
    <3>1. n.itable = mm.itable
      BY <2>5, <2>7
    <3> SUFFICES ASSUME NEW x \in Points(n) PROVE x \in Points(mm) \cup {point}
      OBVIOUS
    <3>2. /\ x \in Inos \X (1 .. NDIRECT) \X Blks
          /\ \/ n.itable[x[1]].block[x[2]] = x[3]
             \/ \E r \in Slots : /\ n.minode[r].ino = x[1]
                                 /\ n.minode[r].INODE.block[x[2]] = x[3]
      BY DEF Points
    <3>3. CASE n.itable[x[1]].block[x[2]] = x[3]
      BY <3>1, <3>2, <3>3 DEF Points
    <3>4. ASSUME NEW r \in Slots, r # t, n.minode[r].ino = x[1],
                 n.minode[r].INODE.block[x[2]] = x[3]
          PROVE  x \in Points(mm)
      BY <2>7, <3>2, <3>4 DEF Points
    <3>5. CASE n.minode[t].ino = x[1] /\ n.minode[t].INODE.block[x[2]] = x[3]
      <4>1. x[1] = ino /\ x[2] = 1 /\ x[3] = blk
        BY <2>1, <2>4, <2>6, <2>7, <3>2, <3>5, Numbering
      <4> QED BY <3>2, <4>1
    <3> QED BY <3>2, <3>3, <3>4, <3>5
  <2>9. n \in Sounds
    <3>1. mm \in Sounds
      BY <2>4, Held
    <3>2. CASE blk = 0
      <4>1. Points(n) \subseteq Points(mm)
        BY <2>8, <3>2, Numbering DEF Points
      <4>2. mm.bmap \subseteq n.bmap
        BY <1>6, <2>5, <2>7
      <4> QED BY <2>7, <3>1, <4>1, <4>2, FewerPoints
    <3>3. CASE blk # 0
      <4>1. point[3] \notin mm.bmap /\ mm.bmap \cup {point[3]} \subseteq n.bmap
        BY <1>3, <1>6, <2>5, <2>7, <3>3
      <4> HIDE DEF point
      <4> QED BY <2>7, <2>8, <3>1, <4>1, OneMorePoint
    <3> QED BY <3>2, <3>3
  <2>10. ASSUME Careful PROVE hold[t] = 0 /\ Pinned(n, Plus(hold, t), c, i)
    <3>1. Pinned(m, hold, c, i) /\ Pinned(mm, Plus(hold, t), c, i) /\ HoldsDirs(m, hold)
      BY <2>4, <2>10 DEF Ok
    <3>2. hold \in [Slots -> Nat] /\ AtMost(Pins(c), hold) /\ c \in Slots
      BY <2>10, Held
    <3>3. hold[t] = 0
      <4> SUFFICES ASSUME hold[t] # 0 PROVE FALSE
        OBVIOUS
      <4>1. m.minode[t].refCount \in Int /\ m.minode[t].refCount >= hold[t] /\ hold[t] \in Nat
        BY <1>2, <2>1, <3>1, <3>2 DEF Pinned, Machines, MINODEs
      <4>2. Busy(m, t) /\ DirType(m, t) /\ m.minode[t].ino # 0
        BY <2>1, <3>1, <4>1 DEF Busy, HoldsDirs
      <4>3. m.minode[t].ino \in m.imap
        BY <2>1, <3>1, <4>2 DEF Pinned, Marked
      <4> QED BY <1>3, <2>1, <2>4, <2>5, <4>2, <4>3
    <3>4. Root # t /\ c # t
      <4>1. Pins(c)[Root] >= 1 /\ Pins(c)[c] >= 1 /\ Pins(c) \in [Slots -> Nat]
        BY <3>2, Numbering DEF Pins
      <4> QED BY <2>1, <3>2, <3>3, <4>1, Numbering DEF AtMost
    <3>5. Once(n)
      BY <2>7, <3>1 DEF Pinned, Once, Busy
    <3>6. Marked(n)
      <4>1. Marked(mm) /\ n.itable = mm.itable /\ n.imap = m.imap \cup ({ino} \cap Inos)
            /\ mm.imap = m.imap
        BY <1>6, <2>5, <2>7, <3>1 DEF Pinned
      <4>2. ASSUME NEW r \in Slots, Busy(n, r), DirType(n, r)
            PROVE  n.minode[r].ino \in n.imap \cup {0}
        <5>1. CASE r = t
          BY <1>3, <2>4, <2>7, <4>1, <5>1
        <5>2. CASE r # t
          BY <2>7, <4>1, <4>2, <5>2 DEF Marked, Busy, DirType
        <5> QED BY <5>1, <5>2
      <4>3. ASSUME NEW r \in Slots, NEW k \in Inos, Holding(n, r, k),
                   n.itable[k].type = "dir"
            PROVE  DirType(n, r)
        <5>1. k \in m.imap
          BY <4>1, <4>3 DEF Marked
        <5>2. r # t
          BY <1>3, <2>4, <2>7, <4>3, <5>1 DEF Holding
        <5> QED BY <2>7, <4>1, <4>3, <5>2 DEF Marked, Holding, Busy, DirType
      <4> QED BY <4>1, <4>2, <4>3 DEF Marked
    <3> QED BY <2>5, <2>7, <3>1, <3>2, <3>3, <3>4, <3>5, <3>6, Numbering DEF Pinned, DirType
  <2>11. Ok(n, Plus(hold, t), c, i) /\ n.st = "up" /\ n.minode[t].ino = ino
    BY <1>8, <2>1, <2>4, <2>7, <2>9, <2>10 DEF Ok
  <2>12. new.m = n /\ new.s = t /\ new.ino = ino /\ new.blk = blk
    <3> HIDE DEF m2, new
    <3> QED BY <1>1, <1>8, <2>1 DEF n
  <2> HIDE DEF new
  <2>13. Also(new.m, hold, new.s) = Plus(hold, t)
    BY <1>10, <2>11, <2>12 DEF Also
  <2> QED BY <1>3, <1>10, <2>1, <2>7, <2>10, <2>11, <2>12, <2>13 DEF new
<1> QED BY <1>9, <1>10

\* What a routine holds while the program is up it holds of what the program stops as.
LEMMA Still ==
    ASSUME NEW m, m.st = "up", NEW n, NEW hold, NEW s \in Slots \cup {NULL}, NEW c, NEW i,
           Ok(n, Also(m, hold, s), c, i),
           Careful => hold \in [Slots -> Nat] /\ AtMost(Pins(c), hold)
    PROVE  Ok(n, Also(n, hold, s), c, i)
<1>1. CASE n.st = "up"
  BY <1>1 DEF Also
<1>2. CASE n.st # "up"
  <2>1. Ok(n, hold, c, i)
    BY LetGo
  <2> QED BY <1>2, <2>1 DEF Also
<1> QED BY <1>1, <1>2

\* kcreat(): the count it forces to 0 is that of a slot nobody holds, the parent's excepted.
LEMMA KcreatOk ==
    ASSUME NEW m, NEW hold, NEW c, NEW i, NEW s \in Slots, Ok(m, Also(m, hold, s), c, i),
           Careful => hold \in [Slots -> Nat] /\ AtMost(Pins(c), hold),
           Careful /\ m.st = "up" => HoldsDirs(m, Plus(hold, s)), NEW name \in FileNames
    PROVE  Ok(Kcreat(m, s, name), hold, c, i)
<1>1. CASE m.st # "up"
  <2>1. Ok(m, hold, c, i)
    BY LetGo
  <2> QED BY <1>1, <2>1 DEF Kcreat
<1>2. CASE m.st = "up"
  <2> DEFINE new == NewMinode(m, "reg", 1)
             t == new.s
             h == Plus(hold, s)
             unref == [new.m EXCEPT !.minode[t].refCount = 0]
             n == Iput(unref, t)
  <2>1. Kcreat(m, s, name) = IF new.m.st # "up" THEN new.m
                             ELSE EnterAndRelease(n, s, Entry(name, new.ino))
    BY <1>2 DEF Kcreat, With
  <2>2. h = Also(m, hold, s) /\ Ok(m, h, c, i)
    BY <1>2, Numbering DEF Also
  <2>3. Careful => h \in [Slots -> Nat] /\ AtMost(Pins(c), h)
    BY <2>2, Held
  <2>4. /\ t \in Slots \cup {NULL} /\ new.ino \in Inos \cup {0}
        /\ Ok(new.m, Also(new.m, h, t), c, i)
        /\ new.m.st = "up" =>
                     /\ t # NULL /\ new.m.minode[t].dirty
                     /\ new.m.minode[t].ino = new.ino
                     /\ Careful => h[t] = 0
    <3>1. "reg" \in {"reg", "dir"} /\ 1 \in U16
      BY DEF U16
    <3> HIDE DEF h
    <3> QED BY <1>2, <2>2, <3>1, NewMinodeOk DEF h
  <2> HIDE DEF new, h
  <2>5. Ok(new.m, h, c, i)
    BY <2>3, <2>4, LetGo
  <2>6. CASE new.m.st # "up"
    <3>1. Ok(new.m, hold, c, i)
      BY <2>2, <2>5, LetGo
    <3> QED BY <2>1, <2>6, <3>1
  <2>7. CASE new.m.st = "up"
    <3> DEFINE once == [new.m EXCEPT !.minode[t].refCount = 1]
    <3> HIDE DEF t
    <3>1. /\ t \in Slots /\ Ok(new.m, Plus(h, t), c, i)
          /\ new.m.minode[t].dirty /\ new.m.minode[t].ino = new.ino
      BY <2>4, <2>7 DEF Also, t
    <3>2. ASSUME Careful PROVE Busy(new.m, t) /\ h[t] = 0 /\ Plus(h, t)[t] = 1
      <4>1. h[t] = 0 /\ h \in [Slots -> Nat]
        BY <2>3, <2>4, <2>7, <3>2 DEF t
      <4>2. Plus(h, t)[t] = 1
        BY <3>1, <4>1 DEF Plus
      <4>3. Pinned(new.m, Plus(h, t), c, i)
        BY <3>1, <3>2 DEF Ok
      <4>4. new.m.minode[t].refCount >= 1
        BY <3>1, <4>2, <4>3 DEF Pinned
      <4> QED BY <4>1, <4>2, <4>4 DEF Busy
    <3>3. /\ Ok(unref, h, c, i)
          /\ unref.st = new.m.st /\ unref.itable = new.m.itable
          /\ unref.imap = new.m.imap /\ unref.bmap = new.m.bmap /\ unref.cwd = new.m.cwd
          /\ \A r \in Slots : /\ unref.minode[r].ino = new.m.minode[r].ino
                              /\ unref.minode[r].INODE = new.m.minode[r].INODE
                              /\ unref.minode[r].dirty = new.m.minode[r].dirty
                              /\ r # t => unref.minode[r] = new.m.minode[r]
                              /\ r = t => unref.minode[r].refCount = 0
      BY <2>5, <3>1, <3>2, CountSetOk
    <3>4. /\ Ok(once, Plus(h, t), c, i)
          /\ once.st = new.m.st /\ once.itable = new.m.itable
          /\ once.imap = new.m.imap /\ once.bmap = new.m.bmap /\ once.cwd = new.m.cwd
          /\ \A r \in Slots : /\ once.minode[r].ino = new.m.minode[r].ino
                              /\ once.minode[r].INODE = new.m.minode[r].INODE
                              /\ once.minode[r].dirty = new.m.minode[r].dirty
                              /\ r # t => once.minode[r] = new.m.minode[r]
                              /\ r = t => once.minode[r].refCount = 1
      <4> DEFINE g == Plus(h, t)
                 one == 1
      <4>1. Ok(new.m, g, c, i) /\ (Careful => Busy(new.m, t) /\ g[t] <= one) /\ one \in Nat
        BY <3>1, <3>2
      <4> DEFINE some == [new.m EXCEPT !.minode[t].refCount = one]
      <4> HIDE DEF g, one
      <4>2. /\ Ok(some, g, c, i)
            /\ some.st = new.m.st /\ some.itable = new.m.itable
            /\ some.imap = new.m.imap /\ some.bmap = new.m.bmap /\ some.cwd = new.m.cwd
            /\ \A r \in Slots : /\ some.minode[r].ino = new.m.minode[r].ino
                                /\ some.minode[r].INODE = new.m.minode[r].INODE
                                /\ some.minode[r].dirty = new.m.minode[r].dirty
                                /\ r # t => some.minode[r] = new.m.minode[r]
                                /\ r = t => some.minode[r].refCount = one
        BY <3>1, <4>1, CountSetOk
      <4> QED BY <4>2 DEF g, one
    <3> HIDE DEF unref, once
    <3>5. WritesBack(unref.minode, t) /\ WritesBack(once.minode, t)
      BY <3>1, <3>3, <3>4 DEF WritesBack
    <3>6. Ok(n, h, c, i)
      <4>1. CASE new.ino = 0
        <5>1. n = Fail(unref, "undefined")
          BY <2>7, <3>1, <3>3, <3>5, <4>1, Numbering DEF Iput
        <5> QED BY <3>3, <5>1, FailKeeps
      <4>2. CASE new.ino # 0
        <5> DEFINE nn == Iput(once, t)
        <5>1. Ok(nn, h, c, i)
          <6>1. Also(once, h, t) = Plus(h, t)
            BY <2>7, <3>1, <3>4, Numbering DEF Also
          <6> QED BY <2>3, <3>1, <3>4, <6>1, IputOk
        <5>2. /\ nn.imap = once.imap /\ nn.bmap = once.bmap /\ nn.cwd = once.cwd
              /\ \A r \in Slots : /\ nn.minode[r].ino = once.minode[r].ino
                                  /\ nn.minode[r].INODE = once.minode[r].INODE
                                  /\ r # t => nn.minode[r] = once.minode[r]
              /\ nn.minode[t].refCount = 0
              /\ nn.itable = [once.itable EXCEPT ![new.ino] = new.m.minode[t].INODE]
          <6>1. once \in Machines /\ once.st = "up" /\ once.minode[t].ino # 0
            BY <2>7, <3>1, <3>4, <4>2, Held
          <6> QED BY <3>1, <3>4, <3>5, <6>1, IputEffect
        <5>3. /\ n \in Machines
              /\ n.imap = unref.imap /\ n.bmap = unref.bmap /\ n.cwd = unref.cwd
              /\ \A r \in Slots : /\ n.minode[r].ino = unref.minode[r].ino
                                  /\ n.minode[r].INODE = unref.minode[r].INODE
                                  /\ r # t => n.minode[r] = unref.minode[r]
              /\ n.minode[t].refCount = 0
              /\ n.itable = [unref.itable EXCEPT ![new.ino] = new.m.minode[t].INODE]
          <6>1. unref \in Machines /\ unref.st = "up" /\ unref.minode[t].ino # 0
            BY <2>7, <3>1, <3>3, <4>2, Held
          <6> QED BY <3>1, <3>3, <3>5, <6>1, IputEffect
        <5> HIDE DEF nn, n
        <5>4. /\ n.itable = nn.itable /\ n.imap = nn.imap /\ n.bmap = nn.bmap /\ n.cwd = nn.cwd
          BY <3>3, <3>4, <5>2, <5>3
        <5>5. \A r \in Slots : /\ n.minode[r].ino = nn.minode[r].ino
                               /\ n.minode[r].refCount = nn.minode[r].refCount
                               /\ n.minode[r].INODE = nn.minode[r].INODE
          BY <3>3, <3>4, <5>2, <5>3
        <5> QED BY <5>1, <5>3, <5>4, <5>5, AlikeOk
      <4> QED BY <4>1, <4>2
    <3> HIDE DEF n
    <3>7. Ok(n, Also(n, hold, s), c, i)
      BY <1>2, <2>2, <3>6, Still
    <3>8. Entry(name, new.ino) \in EntryType
      BY <2>4 DEF Entry, EntryType
    <3> QED BY <2>1, <2>7, <3>7, <3>8, EnterAndReleaseOk
  <2> QED BY <2>6, <2>7
<1> QED BY <1>1, <1>2

\* kmkdir(): the new inode and the parent are given back, and nothing else.
LEMMA KmkdirOk ==
    ASSUME NEW m, NEW hold, NEW c, NEW i, NEW s \in Slots, Ok(m, Also(m, hold, s), c, i),
           Careful => hold \in [Slots -> Nat] /\ AtMost(Pins(c), hold),
           Careful /\ m.st = "up" => HoldsDirs(m, Plus(hold, s)), NEW name \in FileNames
    PROVE  Ok(Kmkdir(m, s, name), hold, c, i)
<1>1. CASE m.st # "up"
  <2>1. Ok(m, hold, c, i)
    BY LetGo
  <2> QED BY <1>1, <2>1 DEF Kmkdir
<1>2. CASE m.st = "up"
  <2> DEFINE new == NewMinode(m, "dir", 2)
             h == Plus(hold, s)
             n == Iput(new.m, new.s)
             dots == DotEntries(n, s, new.ino)
             d == [n EXCEPT !.dir[new.blk] = dots]
  <2>1. Kmkdir(m, s, name) = IF new.m.st # "up" THEN new.m
                             ELSE EnterAndRelease(d, s, Entry(name, new.ino))
    BY <1>2 DEF Kmkdir, With
  <2>2. h = Also(m, hold, s) /\ Ok(m, h, c, i)
    BY <1>2, Numbering DEF Also
  <2>3. Careful => h \in [Slots -> Nat] /\ AtMost(Pins(c), h)
    BY <2>2, Held
  <2>4. /\ new.s \in Slots \cup {NULL} /\ new.ino \in Inos \cup {0}
        /\ new.blk \in Blks \cup {0}
        /\ Ok(new.m, Also(new.m, h, new.s), c, i)
    <3>1. "dir" \in {"reg", "dir"} /\ 2 \in U16
      BY DEF U16
    <3> HIDE DEF h
    <3> QED BY <1>2, <2>2, <3>1, NewMinodeOk DEF h
  <2> HIDE DEF new, h, dots
  <2>5. CASE new.m.st # "up"
    <3>1. Ok(new.m, h, c, i)
      BY <2>3, <2>4, LetGo
    <3>2. Ok(new.m, hold, c, i)
      BY <2>2, <3>1, LetGo
    <3> QED BY <2>1, <2>5, <3>2
  <2>6. CASE new.m.st = "up"
    <3>1. Ok(n, h, c, i)
      BY <2>3, <2>4, IputOk
    <3>2. dots \in Chains
      <4> DEFINE up == n.minode[s].ino
      <4>1. up \in Inos \cup {0}
        <5> HIDE DEF n
        <5> QED BY <3>1 DEF Ok, Sounds, Machines, MINODEs
      <4> HIDE DEF up
      <4>2. Entry(".", new.ino) \in EntryType /\ Entry("..", up) \in EntryType
        BY <2>4, <4>1, NamesAssumption DEF Entry, EntryType
      <4>3. <<Entry(".", new.ino), Entry("..", up)>> \in Seq(EntryType)
        BY <4>2
      <4> QED BY <4>3 DEF Chains, EntryType, dots, DotEntries, up
    <3> HIDE DEF n
    <3>3. Ok(d, h, c, i)
      BY <2>4, <3>1, <3>2, DirOk
    <3> HIDE DEF d
    <3>4. Ok(d, Also(d, hold, s), c, i)
      BY <1>2, <2>2, <3>3, Still
    <3>5. Entry(name, new.ino) \in EntryType
      BY <2>4 DEF Entry, EntryType
    <3> QED BY <2>1, <2>6, <3>4, <3>5, EnterAndReleaseOk
  <2> QED BY <2>5, <2>6
<1> QED BY <1>1, <1>2

\* A reference more or less to what the program holds between two commands.
LEMMA PinsDirs ==
    ASSUME NEW m, NEW c, NEW i, NEW s \in Slots, NEW hold, Careful,
           Ok(m, hold, c, i), DirType(m, s), m.minode[s].ino # 0
    PROVE  HoldsDirs(m, Plus(Pins(c), s))
<1>1. Pinned(m, hold, c, i)
  BY DEF Ok
<1>2. ROOT # 0
  BY DEF ROOT
<1> QED BY <1>1, <1>2 DEF Pinned, HoldsDirs, Plus, Pins

\* The parent of a new name.
LEMMA NewParentOk ==
    ASSUME NEW m, NEW hold, NEW c, NEW i, Ok(m, hold, c, i),
           NEW path \in PathType, path.comps # <<>>
    PROVE  LET p == NewParent(m, path)
           IN  /\ p.s \in Slots \cup {NULL}
               /\ Ok(p.m, Also(p.m, hold, p.s), c, i)
               /\ p.enter => /\ p.m.st = "up" /\ p.s \in Slots
                             /\ DirType(p.m, p.s) /\ p.m.minode[p.s].ino # 0
<1> DEFINE p == NewParent(m, path)
           name == Basename(path)
           f == Fetch(m, Dirname(path))
           m1 == CheckDir(f.m, f.s, name)
           enter == m1.st = "up" /\ MayEnter(m1, f.s, name)
<1>1. p = [m |-> m1, s |-> f.s, enter |-> enter]
  BY DEF NewParent, With
<1>0. p.m = m1 /\ p.s = f.s /\ p.enter = enter
  <2> HIDE DEF p, m1, enter
  <2> QED BY <1>1
<1>2. Ok(f.m, Also(f.m, hold, f.s), c, i) /\ f.s \in Slots \cup {NULL}
  BY PathParts, FetchOk
<1>3. Careful => hold \in [Slots -> Nat] /\ AtMost(Pins(c), hold)
  BY Held
<1> HIDE DEF f, name
<1>4. CASE f.s # NULL /\ f.m.st = "up" /\ IsDir(f.m, f.s)
  <2>1. m1 = Search(f.m, f.s, name) /\ f.s \in Slots
    BY <1>2, <1>4 DEF CheckDir
  <2>2. /\ Ok(m1, Also(f.m, hold, f.s), c, i)
        /\ m1.st = "up" => m1 = f.m /\ ~ Opaque(f.m, f.s)
    BY <1>2, <2>1, SearchOk
  <2> HIDE DEF m1
  <2>3. Ok(m1, Also(m1, hold, f.s), c, i)
    BY <1>2, <1>3, <1>4, <2>2, Still
  <2>4. m1.st = "up" => DirType(m1, f.s) /\ m1.minode[f.s].ino # 0
    BY <1>4, <2>2 DEF IsDir, Inode, DirType, Opaque
  <2> QED BY <1>0, <1>2, <2>1, <2>3, <2>4
<1>5. CASE f.s = NULL
  <2>1. m1 = Fail(f.m, "down")
    BY <1>5 DEF CheckDir, Deref
  <2>2. Ok(f.m, hold, c, i)
    BY <1>5, <1>2 DEF Also
  <2>3. Ok(m1, hold, c, i) /\ m1.st # "up"
    BY <2>1, <2>2, FailKeeps
  <2> HIDE DEF m1
  <2> QED BY <1>0, <1>2, <1>5, <2>3 DEF Also
<1>6. CASE f.s # NULL /\ ~ (f.m.st = "up" /\ IsDir(f.m, f.s))
  <2>1. m1 = f.m
    BY <1>6 DEF CheckDir, Deref
  <2>2. ~ (m1.st = "up" /\ MayEnter(m1, f.s, name))
    BY <1>6, <2>1 DEF MayEnter
  <2> QED BY <1>0, <1>2, <2>1, <2>2
<1> QED BY <1>4, <1>5, <1>6

\* A command starts and ends with the references of Pins.
LEMMA MyMkdirOk ==
    ASSUME NEW m, NEW c, NEW i, Ok(m, Pins(c), c, i),
           NEW path \in PathType, path.comps # <<>>
    PROVE  Ok(MyMkdir(m, path), Pins(c), c, i) /\ Ok(MyCreat(m, path), Pins(c), c, i)
<1> DEFINE p == NewParent(m, path)
           name == Basename(path)
<1>1. /\ MyMkdir(m, path) = IF p.enter THEN Kmkdir(p.m, p.s, name) ELSE p.m
      /\ MyCreat(m, path) = IF p.enter THEN Kcreat(p.m, p.s, name) ELSE p.m
  BY DEF MyMkdir, MyCreat, With
<1>2. /\ p.s \in Slots \cup {NULL}
      /\ Ok(p.m, Also(p.m, Pins(c), p.s), c, i)
      /\ p.enter => /\ p.m.st = "up" /\ p.s \in Slots
                    /\ DirType(p.m, p.s) /\ p.m.minode[p.s].ino # 0
  BY NewParentOk
<1>3. name \in FileNames
  BY PathParts
<1> HIDE DEF p, name
<1>4. CASE ~ p.enter
  <2>1. Ok(p.m, Pins(c), c, i)
    BY <1>2, PinsType, LetGo
  <2> QED BY <1>1, <1>4, <2>1
<1>5. CASE p.enter
  <2>1. Careful => HoldsDirs(p.m, Plus(Pins(c), p.s))
    BY <1>2, <1>5, PinsDirs
  <2>2. Ok(Kmkdir(p.m, p.s, name), Pins(c), c, i)
    BY <1>2, <1>3, <1>5, <2>1, PinsType, KmkdirOk
  <2>3. Ok(Kcreat(p.m, p.s, name), Pins(c), c, i)
    BY <1>2, <1>3, <1>5, <2>1, PinsType, KcreatOk
  <2> QED BY <1>1, <1>5, <2>2, <2>3
<1> QED BY <1>4, <1>5

\* The links count is a u16, whatever is added to it or taken from it.
LEMMA GainLinkType ==
    ASSUME NEW inode \in INODEs
    PROVE  /\ GainLink(inode) \in INODEs /\ LoseLink(inode) \in INODEs
           /\ GainLink(inode).block = inode.block /\ LoseLink(inode).block = inode.block
           /\ GainLink(inode).type = inode.type /\ LoseLink(inode).type = inode.type
<1>1. inode.links \in U16
  BY InodeParts
<1>2. ASSUME NEW l \in U16
      PROVE  (l + 1) % 65536 \in U16 /\ (l + 65535) % 65536 \in U16
  <2>1. l \in Nat
    BY DEF U16
  <2>2. ASSUME NEW x \in Nat PROVE x % 65536 \in U16
    BY SMT DEF U16
  <2>3. l + 1 \in Nat /\ l + 65535 \in Nat
    BY <2>1
  <2> HIDE DEF U16
  <2> QED BY <2>2, <2>3
<1>3. GainLink(inode) = [inode EXCEPT !.links = (inode.links + 1) % 65536]
  BY DEF GainLink
<1>4. LoseLink(inode) = [inode EXCEPT !.links = (inode.links + 65535) % 65536]
  BY DEF LoseLink
<1>5. ASSUME NEW l \in U16
      PROVE  LET y == [inode EXCEPT !.links = l]
             IN  y \in INODEs /\ y.block = inode.block /\ y.type = inode.type
  BY DEF INODEs
<1> DEFINE gain == (inode.links + 1) % 65536
           lose == (inode.links + 65535) % 65536
<1>6. gain \in U16 /\ lose \in U16
  BY <1>1, <1>2
<1> HIDE DEF gain, lose
<1>7. GainLink(inode) = [inode EXCEPT !.links = gain]
  BY <1>3 DEF gain
<1>8. LoseLink(inode) = [inode EXCEPT !.links = lose]
  BY <1>4 DEF lose
<1> QED BY <1>5, <1>6, <1>7, <1>8

\* link.
LEMMA MyLinkOk ==
    ASSUME NEW m, NEW c, NEW i, Ok(m, Pins(c), c, i), NEW old \in PathType,
           NEW new \in PathType, new.comps # <<>>
    PROVE  Ok(MyLink(m, old, new), Pins(c), c, i)
<1> DEFINE o == Fetch(m, old)
           g == Getino(o.m, new)
           p == Fetch(g.m, Dirname(new))
           m1 == EnterChild(p.m, p.s, Entry(Basename(new), o.ino))
           m2 == Store(m1, o.s, GainLink(Inode(m1, o.s)))
           h == Plus(Pins(c), o.s)
<1>1. MyLink(m, old, new) =
        IF g.m.st # "up" \/ g.ino # 0 \/ o.s = NULL THEN g.m
        ELSE IF IsDir(g.m, o.s) THEN g.m
        ELSE IF p.m.st # "up" \/ p.s = NULL THEN p.m
        ELSE IF ~ IsDir(p.m, p.s) THEN p.m
        ELSE IF m1.st # "up" THEN m1
        ELSE Iput(Iput(m2, o.s), p.s)
  BY DEF MyLink, With
<1>2. /\ Ok(o.m, Also(o.m, Pins(c), o.s), c, i) /\ o.s \in Slots \cup {NULL}
      /\ o.ino \in Inos \cup {0}
  BY FetchOk
<1> HIDE DEF o
<1>3. Ok(g.m, Also(o.m, Pins(c), o.s), c, i)
  BY <1>2, GetinoOk
<1>4. Ok(g.m, Pins(c), c, i)
  BY <1>2, <1>3, PinsType, LetGo
<1>5. CASE g.m.st # "up" \/ g.ino # 0 \/ o.s = NULL \/ IsDir(g.m, o.s)
  BY <1>1, <1>4, <1>5
<1>6. CASE ~ (g.m.st # "up" \/ g.ino # 0 \/ o.s = NULL \/ IsDir(g.m, o.s))
  <2> DEFINE Result == IF p.m.st # "up" \/ p.s = NULL THEN p.m
                       ELSE IF ~ IsDir(p.m, p.s) THEN p.m
                       ELSE IF m1.st # "up" THEN m1
                       ELSE Iput(Iput(m2, o.s), p.s)
  <2>1. MyLink(m, old, new) = Result
    BY <1>1, <1>6
  <2>2. o.s \in Slots /\ o.s # NULL
    BY <1>2, <1>6
  <2>3. o.m.st = "up"
    <3>1. CASE o.m.st # "up"
      BY <1>6, <3>1 DEF Getino
    <3> QED BY <3>1
  <2>4. Also(o.m, Pins(c), o.s) = h
    BY <2>2, <2>3 DEF Also
  <2>5. Ok(g.m, h, c, i)
    BY <1>3, <2>4
  <2> HIDE DEF g, h
  <2>6. /\ Ok(p.m, Also(p.m, h, p.s), c, i) /\ p.s \in Slots \cup {NULL}
    BY <2>5, PathParts, FetchOk
  <2>7. Careful => h \in [Slots -> Nat] /\ AtMost(Pins(c), h)
    BY <2>5, Held
  <2> HIDE DEF p
  <2>8. \A n : Ok(n, h, c, i) => Ok(n, Pins(c), c, i)
    <3> SUFFICES ASSUME NEW n, Ok(n, h, c, i) PROVE Ok(n, Pins(c), c, i)
      OBVIOUS
    <3> QED BY <2>4, <1>2, PinsType, LetGo
  <2>9. Ok(p.m, Pins(c), c, i)
    BY <2>6, <2>7, <2>8, LetGo
  <2>10. CASE p.m.st # "up" \/ p.s = NULL \/ ~ IsDir(p.m, p.s)
    BY <2>1, <2>9, <2>10
  <2>11. CASE p.m.st = "up" /\ p.s # NULL /\ IsDir(p.m, p.s)
    <3> DEFINE hh == Also(p.m, h, p.s)
    <3>1. p.s \in Slots
      BY <2>6, <2>11
    <3>2. Entry(Basename(new), o.ino) \in EntryType
      BY <1>2, PathParts DEF Entry, EntryType
    <3>3. Ok(m1, hh, c, i)
      BY <2>6, <3>1, <3>2, EnterChildOk
    <3> HIDE DEF m1
    <3>4. CASE m1.st # "up"
      <4>1. Ok(m1, Pins(c), c, i)
        BY <2>6, <2>7, <2>8, <3>3, LetGo
      <4> QED BY <2>1, <2>11, <3>4, <4>1
    <3>5. CASE m1.st = "up"
      <4>1. Inode(m1, o.s) \in INODEs
        <5>1. m1.minode[o.s] \in MINODEs
          BY <2>2, <3>3, Held DEF Machines
        <5> QED BY <5>1 DEF Inode, MINODEs
      <4>2. Ok(m2, hh, c, i) /\ m2.st = "up"
        BY <2>2, <3>3, <3>5, <4>1, GainLinkType, StoreOk
      <4> DEFINE k == Also(m2, Pins(c), p.s)
                 m3 == Iput(m2, o.s)
      <4>3. hh = Plus(h, p.s) /\ k = Plus(Pins(c), p.s)
        BY <2>11, <4>2 DEF Also
      <4> HIDE DEF m2, hh
      <4>4. k \in [Slots -> Nat] /\ AtMost(Pins(c), k)
        BY <3>1, <4>3, PinsType, PlusMore
      <4>5. hh = Also(m2, k, o.s)
        <5>1. hh = Plus(k, o.s)
          BY <2>2, <3>1, <4>3, <4>4 DEF Plus, Pins, h
        <5> QED BY <2>2, <4>2, <5>1 DEF Also
      <4> HIDE DEF k
      <4>6. Ok(m3, k, c, i)
        BY <1>2, <4>2, <4>4, <4>5, IputOk
      <4>7. Ok(m3, Also(m3, Pins(c), p.s), c, i)
        BY <2>6, <4>2, <4>6, PinsType, Still DEF k
      <4> HIDE DEF m3
      <4>8. Ok(Iput(m3, p.s), Pins(c), c, i)
        BY <2>6, <4>7, PinsType, IputOk
      <4> QED BY <2>1, <2>11, <3>5, <4>8 DEF m3
    <3> QED BY <3>4, <3>5
  <2> QED BY <2>10, <2>11
<1> QED BY <1>5, <1>6

\* A command has ended: running->cwd is pinned, and its inode is the same unless the
\* pointer has moved.
After(m, c, i) == \E k : Ok(m, Pins(m.cwd), m.cwd, k) /\ (Careful /\ m.cwd = c => k = i)

\* Without Careful only the block pointers are spoken of.
LEMMA Loose ==
    ASSUME ~ Careful, NEW m, NEW hold, NEW c, NEW i
    PROVE  Ok(m, hold, c, i) <=> m \in Sounds
BY DEF Ok

\* A command that leaves running->cwd alone.
LEMMA Stays ==
    ASSUME NEW m, NEW c, NEW i, Ok(m, Pins(c), c, i)
    PROVE  After(m, c, i)
<1>1. CASE Careful
  <2>1. m.cwd = c
    BY <1>1, Held
  <2> QED BY <2>1 DEF After
<1>2. CASE ~ Careful
  BY <1>2, Loose DEF After
<1> QED BY <1>1, <1>2

\* cd: the new directory is in hand before the old one is given back.
LEMMA CdOk ==
    ASSUME NEW m, NEW c, NEW i, Ok(m, Pins(c), c, i), NEW path \in PathType
    PROVE  After(Cd(m, path), c, i)
<1> DEFINE g == Getino(m, path)
           s == IgetPtr(g.m, g.ino)
           n == Iget(g.m, g.ino)
           m1 == Deref(n, s)
           d == m1.cwd
           r == [Iput(m1, d) EXCEPT !.cwd = s]
<1>1. Cd(m, path) = IF g.ino = 0 THEN g.m
                    ELSE IF m1.st # "up" \/ ~ IsDir(m1, s) THEN m1 ELSE r
  BY DEF Cd, With
<1>2. Ok(g.m, Pins(c), c, i) /\ g.ino \in Inos \cup {0}
  BY GetinoOk
<1> HIDE DEF g
<1>3. /\ Ok(n, Also(n, Pins(c), s), c, i) /\ s \in Slots \cup {NULL}
      /\ g.m.st = "up" /\ s # NULL => n.minode[s].ino = g.ino
      /\ n.st = g.m.st
  BY <1>2, IgetOk
<1> HIDE DEF n, s
<1>4. Ok(n, Pins(c), c, i)
  BY <1>3, PinsType, LetGo
<1>5. CASE g.ino = 0
  BY <1>1, <1>2, <1>5, Stays
<1>6. CASE g.ino # 0 /\ s = NULL
  <2>1. m1 = Fail(n, "down")
    BY <1>6 DEF Deref
  <2>2. Ok(m1, Pins(c), c, i) /\ m1.st # "up"
    BY <1>4, <2>1, FailKeeps
  <2> QED BY <1>1, <1>6, <2>2, Stays
<1>7. CASE g.ino # 0 /\ s # NULL
  <2>1. m1 = n /\ s \in Slots
    BY <1>3, <1>7 DEF Deref
  <2>2. CASE n.st # "up" \/ ~ IsDir(n, s)
    BY <1>1, <1>4, <1>7, <2>1, <2>2, Stays
  <2>3. CASE n.st = "up" /\ IsDir(n, s)
    <3> DEFINE m2 == [n EXCEPT !.cwd = s]
               q == Iput(m2, d)
    <3>1. Cd(m, path) = r /\ d = n.cwd
      BY <1>1, <1>7, <2>1, <2>3
    <3>2. n \in Machines /\ n \in Sounds /\ d \in Slots /\ (Careful => d = c)
      <4>1. n \in Machines /\ n \in Sounds /\ (Careful => n.cwd = c)
        BY <1>4, Held
      <4> QED BY <3>1, <4>1 DEF Machines
    <3>3. Ok(n, Plus(Pins(c), s), c, i) /\ n.minode[s].ino = g.ino
      BY <1>3, <1>7, <2>3 DEF Also
    <3>4. /\ m2 \in Machines /\ m2.cwd = s /\ m2.st = n.st /\ m2.minode = n.minode
          /\ m2.itable = n.itable /\ m2.imap = n.imap /\ m2.bmap = n.bmap /\ m2.dir = n.dir
      BY <2>1, <3>2 DEF Machines
    <3> HIDE DEF m2, d, r
    <3>5. Ok(m2, Plus(Pins(s), d), s, g.ino)
      <4>1. Points(m2) = Points(n)
        BY <3>4 DEF Points
      <4>2. m2 \in Sounds
        BY <3>2, <3>4, <4>1 DEF Sounds, Apart
      <4>3. ASSUME Careful PROVE Pinned(m2, Plus(Pins(s), d), s, g.ino)
        <5>1. Pinned(n, Plus(Pins(c), s), c, i) /\ d = c
          BY <3>2, <3>3, <4>3 DEF Ok
        <5>2. Plus(Pins(s), d) = Plus(Pins(c), s)
          <6>1. d \in Slots /\ d = c
            BY <3>2, <5>1
          <6>2. \A x \in Slots : Plus(Pins(s), d)[x] = Plus(Pins(c), s)[x]
            BY <2>1, <6>1 DEF Plus, Pins
          <6>3. Plus(Pins(s), d) \in [Slots -> Nat] /\ Plus(Pins(c), s) \in [Slots -> Nat]
            BY <2>1, <6>1, PinsType, PlusMore
          <6> QED BY <6>2, <6>3
        <5>3. Plus(Pins(s), d) \in [Slots -> Nat] /\ AtMost(Pins(s), Plus(Pins(s), d))
          BY <3>2, PinsType, PlusMore
        <5>4. Once(m2)
          BY <3>4, <5>1 DEF Pinned, Once, Busy
        <5>5. Marked(m2)
          BY <3>4, <5>1 DEF Pinned, Marked, Busy, Holding, DirType
        <5>6. DirType(m2, s)
          BY <2>3, <3>4 DEF IsDir, Inode, DirType
        <5> QED BY <1>7, <3>3, <3>4, <5>1, <5>2, <5>3, <5>4, <5>5, <5>6 DEF Pinned, DirType
      <4> QED BY <4>2, <4>3 DEF Ok
    <3>6. Ok(q, Pins(s), s, g.ino)
      <4>1. Also(m2, Pins(s), d) = Plus(Pins(s), d)
        BY <2>3, <3>2, <3>4, Numbering DEF Also
      <4> QED BY <3>2, <3>5, <4>1, PinsType, IputOk
    <3>7. /\ r \in Machines /\ r.minode = q.minode /\ r.itable = q.itable /\ r.imap = q.imap
          /\ r.bmap = q.bmap /\ r.cwd = q.cwd
      <4>0. d # NULL /\ q \in Machines
        BY <3>2, <3>6, Held, Numbering
      <4>1. CASE WritesBack(n.minode, d) /\ n.minode[d].ino = 0
        <5>1. q = Fail(m2, "undefined") /\ Iput(n, d) = Fail(n, "undefined")
          BY <2>3, <3>4, <4>0, <4>1 DEF Iput
        <5>2. r = [Fail(n, "undefined") EXCEPT !.cwd = s]
          BY <2>1, <5>1 DEF r
        <5> QED BY <2>1, <2>3, <3>2, <3>4, <5>1, <5>2 DEF Fail, Machines
      <4>2. CASE ~ (WritesBack(n.minode, d) /\ n.minode[d].ino = 0)
        <5> DEFINE T == IputTable(n.minode, d)
                   D == IputDisk(n.minode, n.itable, d)
        <5>1. /\ q = [m2 EXCEPT !.minode = T, !.itable = D]
              /\ Iput(n, d) = [n EXCEPT !.minode = T, !.itable = D]
          BY <2>3, <3>4, <4>0, <4>2 DEF Iput
        <5>2. r = [[n EXCEPT !.minode = T, !.itable = D] EXCEPT !.cwd = s]
          BY <2>1, <5>1 DEF r
        <5> HIDE DEF T, D, q
        <5>3. /\ q.minode = T /\ q.itable = D /\ q.imap = n.imap /\ q.bmap = n.bmap
              /\ q.cwd = s
          BY <3>4, <5>1 DEF Machines
        <5>4. T \in [Slots -> MINODEs] /\ D \in [Inos \cup {0} -> INODEs]
          BY <4>0, <5>3 DEF Machines
        <5> QED BY <2>1, <3>2, <5>2, <5>3, <5>4 DEF Machines
      <4> QED BY <4>1, <4>2
    <3> HIDE DEF q
    <3>8. Ok(r, Pins(s), s, g.ino) /\ r.cwd = s
      <4>1. Ok(r, Pins(s), s, g.ino)
        BY <3>6, <3>7, SameOk
      <4>2. r.cwd = s
        BY <2>1, <3>7, <3>2 DEF r, Iput, Fail, Machines
      <4> QED BY <4>1, <4>2
    <3>9. Careful /\ s = c => g.ino = i
      BY <3>3 DEF Ok, Pinned
    <3> QED BY <3>1, <3>8, <3>9 DEF After
  <2> QED BY <2>1, <2>2, <2>3
<1> QED BY <1>5, <1>6, <1>7

-----------------------------------------------------------------------------
(* rmdir, unlink and symlink: what is said of the block pointers alone.    *)

\* The routines the three commands are made of.
LEMMA LooseSteps ==
    ASSUME ~ Careful, NEW m \in Sounds
    PROVE  /\ \A ino \in Inos \cup {0} : /\ Iget(m, ino) \in Sounds
                                         /\ IgetPtr(m, ino) \in Slots \cup {NULL}
           /\ \A s \in Slots \cup {NULL} : Iput(m, s) \in Sounds /\ Deref(m, s) \in Sounds
           /\ \A how \in {"down", "hung", "undefined"} : Fail(m, how) \in Sounds
           /\ \A p \in PathType : /\ Getino(m, p).m \in Sounds
                                  /\ Getino(m, p).ino \in Inos \cup {0}
                                  /\ Fetch(m, p).m \in Sounds
                                  /\ Fetch(m, p).ino \in Inos \cup {0}
                                  /\ Fetch(m, p).s \in Slots \cup {NULL}
           /\ \A ino \in Inos \cup {0} : Idalloc(m, ino) \in Sounds
           /\ \A b \in Blks \cup {0}, chain \in Chains : [m EXCEPT !.dir[b] = chain] \in Sounds
<1>1. \A n : Ok(n, Pins(0), 0, 0) <=> n \in Sounds
  BY Loose
<1>2. Ok(m, Pins(0), 0, 0)
  BY <1>1
<1>3. ASSUME NEW ino \in Inos \cup {0}
      PROVE  Iget(m, ino) \in Sounds /\ IgetPtr(m, ino) \in Slots \cup {NULL}
  BY <1>2, IgetOk DEF Ok
<1>4. ASSUME NEW how \in {"down", "hung", "undefined"} PROVE Fail(m, how) \in Sounds
  BY <1>1, <1>2, FailKeeps
<1>5. ASSUME NEW s \in Slots \cup {NULL} PROVE Iput(m, s) \in Sounds /\ Deref(m, s) \in Sounds
  <2>1. Ok(m, Also(m, Pins(0), s), 0, 0)
    BY Loose
  <2>2. Ok(Iput(m, s), Pins(0), 0, 0)
    BY <2>1, IputOk
  <2> QED BY <1>1, <1>4, <2>2 DEF Deref
<1>6. ASSUME NEW p \in PathType
      PROVE  /\ Getino(m, p).m \in Sounds /\ Getino(m, p).ino \in Inos \cup {0}
             /\ Fetch(m, p).m \in Sounds /\ Fetch(m, p).ino \in Inos \cup {0}
             /\ Fetch(m, p).s \in Slots \cup {NULL}
  <2>1. Ok(Getino(m, p).m, Pins(0), 0, 0) /\ Getino(m, p).ino \in Inos \cup {0}
    BY <1>2, GetinoOk
  <2>2. /\ Ok(Fetch(m, p).m, Also(Fetch(m, p).m, Pins(0), Fetch(m, p).s), 0, 0)
        /\ Fetch(m, p).ino \in Inos \cup {0} /\ Fetch(m, p).s \in Slots \cup {NULL}
    BY <1>2, FetchOk
  <2> QED BY <2>1, <2>2 DEF Ok
<1>7. ASSUME NEW ino \in Inos \cup {0} PROVE Idalloc(m, ino) \in Sounds
  <2> DEFINE n == [m EXCEPT !.imap = @ \ {ino}]
  <2>1. m \in Machines
    BY DEF Sounds
  <2>2. /\ n \in Machines /\ n.minode = m.minode /\ n.itable = m.itable /\ n.bmap = m.bmap
    BY <2>1 DEF Machines
  <2> HIDE DEF n
  <2>3. Points(n) \subseteq Points(m)
    BY <2>2 DEF Points
  <2>4. n \in Sounds
    BY <2>2, <2>3, FewerPoints
  <2> QED BY <2>4 DEF Idalloc, n
<1>8. ASSUME NEW b \in Blks \cup {0}, NEW chain \in Chains
      PROVE  [m EXCEPT !.dir[b] = chain] \in Sounds
  BY <1>1, <1>2, DirOk
<1> QED BY <1>3, <1>4, <1>5, <1>6, <1>7, <1>8

\* An INODE is written with its block pointers, or with none.
LEMMA LooseWrite ==
    ASSUME NEW m \in Sounds, NEW s \in Slots, NEW inode \in INODEs,
           \A k \in 1 .. NDIRECT : inode.block[k] \in {0, Inode(m, s).block[k]}
    PROVE  /\ Store(m, s, inode) \in Sounds /\ Store(m, s, inode).st = m.st
           /\ [m EXCEPT !.minode[s].INODE = inode] \in Sounds
<1> DEFINE n == Store(m, s, inode)
           x == m.minode[s]
           q == [m EXCEPT !.minode[s].INODE = inode]
           y == [x EXCEPT !.INODE = inode]
<1>1. m \in Machines /\ x \in MINODEs /\ m.minode \in [Slots -> MINODEs]
  BY DEF Sounds, Machines
<1>2. n \in Sounds /\ n.st = m.st
  <2>1. CASE m.st # "up"
    BY <2>1 DEF Store
  <2>2. CASE m.st = "up"
    <3>1. /\ n \in Machines /\ n.itable = m.itable /\ n.bmap = m.bmap /\ n.st = m.st
          /\ \A r \in Slots : /\ n.minode[r].ino = m.minode[r].ino
                              /\ r # s => n.minode[r] = m.minode[r]
          /\ n.minode[s].INODE = inode
      BY <1>1, <2>2, StoreEffect
    <3> HIDE DEF n
    <3>2. Points(n) \subseteq Points(m)
      BY <3>1, Numbering DEF Points, Inode
    <3> QED BY <3>1, <3>2, FewerPoints
  <2> QED BY <2>1, <2>2
<1>3. q \in Sounds
  <2>1. y \in MINODEs /\ y.ino = x.ino /\ y.INODE = inode
    BY <1>1 DEF MINODEs
  <2>2. q = [m EXCEPT !.minode = [m.minode EXCEPT ![s] = y]]
    BY <1>1 DEF Machines
  <2> HIDE DEF y, q
  <2>3. [m.minode EXCEPT ![s] = y] \in [Slots -> MINODEs]
    BY <1>1, <2>1
  <2>4. /\ q \in Machines /\ q.minode = [m.minode EXCEPT ![s] = y]
        /\ q.itable = m.itable /\ q.bmap = m.bmap
    BY <1>1, <2>2, <2>3 DEF Machines
  <2>5. \A r \in Slots : /\ q.minode[r].ino = m.minode[r].ino
                         /\ r # s => q.minode[r] = m.minode[r]
                         /\ r = s => q.minode[r].INODE = inode
    BY <1>1, <2>1, <2>4
  <2>6. Points(q) \subseteq Points(m)
    BY <2>4, <2>5, Numbering DEF Points, Inode
  <2> QED BY <2>4, <2>6, FewerPoints
<1> QED BY <1>2, <1>3

\* A slot holds an INODE.
LEMMA LooseInode ==
    ASSUME NEW m \in Sounds, NEW s \in Slots
    PROVE  Inode(m, s) \in INODEs
<1>1. m.minode[s] \in MINODEs
  BY DEF Sounds, Machines
<1> QED BY <1>1 DEF Inode, MINODEs

-----------------------------------------------------------------------------
(* rm_child().                                                             *)

Rounds == [m : Sounds, last : FileNames \cup {""}, cut : BOOLEAN]

\* One round of rm_child() adds no block pointer and frees no block in the block bitmap.
LEMMA RmBlockOk ==
    ASSUME ~ Careful, NEW r \in Rounds, NEW b \in Blks \cup {0}, NEW name
    PROVE  RmBlock(r, b, name) \in Rounds
<1> DEFINE chain == r.m.dir[b]
           at == {k \in DOMAIN chain : chain[k].name = name}
           k == FirstOf(at)
<1>1. r.m \in Sounds /\ r.m \in Machines /\ chain \in Chains
  BY DEF Rounds, Sounds, Machines
<1>2. \A n \in Sounds : [r EXCEPT !.m = n] \in Rounds
  BY DEF Rounds
<1>3. \A n \in Sounds : Fail(n, "hung") \in Sounds /\ Fail(n, "undefined") \in Sounds
  BY LooseSteps
<1>4. <<>> \in Chains
  BY DEF Chains
<1>5. CASE r.m.st # "up" \/ b = 0
  BY <1>5 DEF RmBlock
<1>6. CASE ~ (r.m.st # "up" \/ b = 0) /\ chain = <<>>
  <2>1. RmBlock(r, b, name) = [r EXCEPT !.m = Fail(r.m, "hung")]
    BY <1>6 DEF RmBlock
  <2> QED BY <1>1, <1>2, <1>3, <2>1
<1>7. CASE ~ (r.m.st # "up" \/ b = 0) /\ chain # <<>> /\ Len(chain) = 1 /\ r.last # name
  <2> DEFINE freed == Idalloc(r.m, b)
             empty == [freed EXCEPT !.dir[b] = <<>>]
  <2>1. RmBlock(r, b, name) = [r EXCEPT !.m = Fail(empty, "hung")]
    BY <1>7 DEF RmBlock, Bdalloc, Idalloc
  <2>2. b \in Inos \cup {0}
    BY DEF Inos, Blks
  <2>3. freed \in Sounds
    BY <1>1, <2>2, LooseSteps
  <2> HIDE DEF freed
  <2>4. empty \in Sounds
    BY <1>4, <2>3, LooseSteps
  <2> HIDE DEF empty
  <2> QED BY <1>2, <1>3, <2>1, <2>4
<1>8. CASE /\ ~ (r.m.st # "up" \/ b = 0) /\ chain # <<>> /\ ~ (Len(chain) = 1 /\ r.last # name)
           /\ r.cut \/ Cardinality(at) > 1 \/ (at # {} /\ Len(chain) = 1)
  <2>1. RmBlock(r, b, name) = [r EXCEPT !.m = Fail(r.m, "undefined")]
    BY <1>8 DEF RmBlock
  <2> QED BY <1>1, <1>2, <1>3, <2>1
<1>9. CASE /\ ~ (r.m.st # "up" \/ b = 0) /\ chain # <<>> /\ ~ (Len(chain) = 1 /\ r.last # name)
           /\ ~ (r.cut \/ Cardinality(at) > 1 \/ (at # {} /\ Len(chain) = 1))
  <2> DEFINE n == IF at = {} THEN r.m ELSE [r.m EXCEPT !.dir[b] = RemoveAt(@, k)]
             cut == at # {} /\ k < Len(chain)
  <2>1. RmBlock(r, b, name) = [last |-> Last(chain).name, cut |-> cut, m |-> n]
    BY <1>9 DEF RmBlock
  <2>2. Last(chain).name \in FileNames
    <3>1. Len(chain) \in DOMAIN chain
      BY <1>1, <1>9 DEF Chains
    <3> HIDE DEF chain
    <3> QED BY <1>1, <3>1, ChainParts DEF Last
  <2>3. n \in Sounds
    <3>1. CASE at = {}
      BY <1>1, <3>1
    <3>2. CASE at # {}
      <4>1. at \subseteq Nat
        BY <1>1 DEF Chains
      <4>2. k \in at
        <5> HIDE DEF at
        <5> QED BY <3>2, <4>1, FirstIn
      <4>3. k \in 1 .. Len(chain)
        BY <1>1, <4>2 DEF Chains
      <4> HIDE DEF k, chain
      <4>4. RemoveAt(chain, k) \in Chains
        <5> DEFINE R == [name : FileNames, ino : Inos \cup {0}]
        <5>1. chain \in Seq(R)
          BY <1>1 DEF Chains
        <5> HIDE DEF R
        <5>2. SubSeq(chain, 1, k - 1) \in Seq(R) /\ SubSeq(chain, k + 1, Len(chain)) \in Seq(R)
          BY <4>3, <5>1
        <5>3. RemoveAt(chain, k) \in Seq(R)
          BY <5>2 DEF RemoveAt
        <5> QED BY <5>3 DEF Chains, R
      <4>5. n = [r.m EXCEPT !.dir[b] = RemoveAt(chain, k)]
        BY <3>2 DEF chain, k
      <4> DEFINE rest == RemoveAt(chain, k)
      <4> HIDE DEF rest
      <4> QED BY <1>1, <4>4, <4>5, LooseSteps DEF rest
    <3> QED BY <3>1, <3>2
  <2> HIDE DEF n, cut
  <2>4. cut \in BOOLEAN
    BY DEF cut
  <2> DEFINE last == Last(chain).name
  <2> HIDE DEF last
  <2>5. last \in FileNames \cup {""}
    BY <2>2 DEF last
  <2>6. \A a \in FileNames \cup {""}, x \in Sounds :
            [last |-> a, cut |-> TRUE, m |-> x] \in Rounds
            /\ [last |-> a, cut |-> FALSE, m |-> x] \in Rounds
    BY DEF Rounds
  <2>7. [last |-> last, cut |-> cut, m |-> n] \in Rounds
    BY <2>3, <2>4, <2>5, <2>6
  <2> QED BY <2>1, <2>7 DEF last
<1> QED BY <1>5, <1>6, <1>7, <1>8, <1>9

\* The blocks of rm_child(), one by one.
LEMMA RmBlocksFold ==
    ASSUME NEW W, NEW r \in W, NEW blocks \in [1 .. NDIRECT -> Blks \cup {0}], NEW name,
           \A x \in W, b \in Blks \cup {0} : RmBlock(x, b, name) \in W
    PROVE  RmBlocks(r, blocks, name) \in W
<1> DEFINE N == NDIRECT
           F == [x \in W \X (1 .. N) |-> RmBlock(x[1], blocks[x[2]], name)]
           Body(g) == [s \in SUBSET (1 .. N) |->
                          IF s = {} THEN r ELSE RmBlock(g[s \ {Max(s)}], blocks[Max(s)], name)]
           h == CHOOSE g : g = Body(g)
<1>1. N \in Nat /\ DOMAIN blocks = 1 .. N /\ \A k \in 1 .. N : blocks[k] \in Blks \cup {0}
  BY Numbering
<1> HIDE DEF N
<1>2. F \in [W \X (1 .. N) -> W]
  BY <1>1
<1>3. \A x \in W, k \in 1 .. N : F[<<x, k>>] = RmBlock(x, blocks[k], name)
  OBVIOUS
<1> HIDE DEF F, h
<1>4. PICK g \in [SUBSET (1 .. N) -> W] : Folds(g, N, r, F)
  BY <1>1, <1>2, FoldExists
<1>5. \A s \in (SUBSET (1 .. N)) \ {{}} : Max(s) \in 1 .. N /\ s \ {Max(s)} \in SUBSET (1 .. N)
  BY <1>1, LastIn
<1>6. g = Body(g)
  BY <1>3, <1>4, <1>5 DEF Folds
<1>7. h = Body(h)
  <2> HIDE DEF Body
  <2> QED BY <1>6 DEF h
<1>8. RmBlocks(r, blocks, name) = h[1 .. N]
  BY <1>1 DEF RmBlocks, FoldLeft, MapThenFoldSet, h
<1>9. FoldsIn(h, W, N, r, F)
  BY <1>3, <1>5, <1>7 DEF FoldsIn
<1> HIDE DEF Body
<1>0. N \in Nat
  BY <1>1
<1>10. PICK v \in [0 .. N -> W] : Chain(v, N, r, F, h[1 .. N])
  BY ONLY <1>0, <1>2, <1>9, r \in W, FoldSteps
<1> QED BY <1>1, <1>8, <1>10 DEF Chain

\* rm_child() adds no block pointer and frees no block in the block bitmap.
LEMMA RmChildOk ==
    ASSUME ~ Careful, NEW m \in Sounds, NEW s \in Slots, NEW name
    PROVE  RmChild(m, s, name) \in Sounds
<1> DEFINE r == [m |-> m, last |-> "", cut |-> FALSE]
           end == RmBlocks(r, Inode(m, s).block, name)
<1>1. CASE m.st # "up" \/ Opaque(m, s)
  BY <1>1, LooseSteps DEF RmChild
<1>2. CASE ~ (m.st # "up" \/ Opaque(m, s))
  <2>1. RmChild(m, s, name) = end.m
    BY <1>2 DEF RmChild
  <2>2. r \in Rounds
    BY DEF Rounds
  <2>3. Inode(m, s).block \in [1 .. NDIRECT -> Blks \cup {0}]
    BY LooseInode, InodeParts
  <2>4. \A x \in Rounds, b \in Blks \cup {0} : RmBlock(x, b, name) \in Rounds
    BY RmBlockOk
  <2> HIDE DEF r
  <2>5. end \in Rounds
    BY <2>2, <2>3, <2>4, RmBlocksFold
  <2> QED BY <2>1, <2>5 DEF Rounds
<1> QED BY <1>1, <1>2

\* rmdir leaves the blocks apart.
LEMMA MyRmdirOk ==
    ASSUME ~ Careful, NEW m \in Sounds, NEW path \in PathType, path.comps # <<>>
    PROVE  MyRmdir(m, path) \in Sounds
<1> DEFINE g == Getino(m, path)
           p == Fetch(g.m, Dirname(path))
           m1 == Iget(p.m, g.ino)
           m2 == RmChild(Idalloc(m1, g.ino), p.s, Basename(path))
           left == LoseLink(Inode(m2, p.s))
<1>1. MyRmdir(m, path) = IF Basename(path) \in {".", ".."} THEN g.m
                         ELSE IF m1.st # "up" \/ p.s = NULL THEN m1
                         ELSE IF m2.st # "up" THEN m2
                         ELSE Iput(Store(m2, p.s, left), p.s)
  BY DEF MyRmdir, With
<1>2. g.m \in Sounds /\ g.ino \in Inos \cup {0}
  BY LooseSteps
<1> HIDE DEF g
<1>3. p.m \in Sounds /\ p.s \in Slots \cup {NULL}
  BY <1>2, PathParts, LooseSteps
<1> HIDE DEF p
<1>4. m1 \in Sounds
  BY <1>2, <1>3, LooseSteps
<1> HIDE DEF m1
<1>5. CASE Basename(path) \in {".", ".."} \/ m1.st # "up" \/ p.s = NULL
  BY <1>1, <1>2, <1>4, <1>5
<1>6. CASE ~ (Basename(path) \in {".", ".."} \/ m1.st # "up" \/ p.s = NULL)
  <2>1. p.s \in Slots
    BY <1>3, <1>6
  <2>2. Idalloc(m1, g.ino) \in Sounds
    BY <1>2, <1>4, LooseSteps
  <2>3. m2 \in Sounds
    BY <2>1, <2>2, RmChildOk
  <2> HIDE DEF m2
  <2>4. Inode(m2, p.s) \in INODEs
    BY <2>1, <2>3, LooseInode
  <2>5. left \in INODEs /\ left.block = Inode(m2, p.s).block
    BY <2>4, GainLinkType
  <2> HIDE DEF left
  <2>6. Store(m2, p.s, left) \in Sounds
    BY <2>1, <2>3, <2>5, LooseWrite
  <2>7. Iput(Store(m2, p.s, left), p.s) \in Sounds
    BY <1>3, <2>6, LooseSteps
  <2> QED BY <1>1, <1>6, <2>3, <2>7
<1> QED BY <1>5, <1>6

\* unlink leaves the blocks apart.
LEMMA MyUnlinkOk ==
    ASSUME ~ Careful, NEW m \in Sounds, NEW path \in PathType, path.comps # <<>>
    PROVE  MyUnlink(m, path) \in Sounds
<1> DEFINE f == Fetch(m, path)
           p == Fetch(f.m, Dirname(path))
           m1 == RmChild(p.m, p.s, Basename(path))
           m2 == Store(m1, p.s, Inode(m1, p.s))
           m3 == Iput(m2, p.s)
           left == LoseLink(Inode(m3, f.s))
           m4 == [m3 EXCEPT !.minode[f.s].INODE = left]
<1>1. MyUnlink(m, path) =
          IF f.m.st # "up" \/ f.s = NULL THEN f.m
          ELSE IF IsDir(f.m, f.s) THEN f.m
          ELSE IF p.m.st # "up" \/ p.s = NULL THEN Deref(p.m, p.s)
          ELSE IF m1.st # "up" THEN m1
          ELSE DropFile(m3, f)
  BY DEF MyUnlink, With
<1>2. f.m \in Sounds /\ f.s \in Slots \cup {NULL} /\ f.ino \in Inos \cup {0}
  BY LooseSteps
<1> HIDE DEF f
<1>3. p.m \in Sounds /\ p.s \in Slots \cup {NULL}
  BY <1>2, PathParts, LooseSteps
<1> HIDE DEF p
<1>4. Deref(p.m, p.s) \in Sounds
  BY <1>3, LooseSteps
<1>5. CASE f.m.st # "up" \/ f.s = NULL \/ IsDir(f.m, f.s) \/ p.m.st # "up" \/ p.s = NULL
  BY <1>1, <1>2, <1>4, <1>5
<1>6. CASE ~ (f.m.st # "up" \/ f.s = NULL \/ IsDir(f.m, f.s) \/ p.m.st # "up" \/ p.s = NULL)
  <2>1. p.s \in Slots /\ f.s \in Slots
    BY <1>2, <1>3, <1>6
  <2>2. m1 \in Sounds
    BY <1>3, <2>1, RmChildOk
  <2> HIDE DEF m1
  <2>3. m2 \in Sounds
    <3>1. Inode(m1, p.s) \in INODEs
      BY <2>1, <2>2, LooseInode
    <3> QED BY <2>1, <2>2, <3>1, LooseWrite
  <2> HIDE DEF m2
  <2>4. m3 \in Sounds
    BY <1>3, <2>3, LooseSteps
  <2> HIDE DEF m3
  <2>5. Inode(m3, f.s) \in INODEs
    BY <2>1, <2>4, LooseInode
  <2>6. left \in INODEs /\ left.block = Inode(m3, f.s).block
    BY <2>5, GainLinkType
  <2>7. DropFile(m3, f) = IF m3.st # "up" THEN m3
                          ELSE IF left.links > 0 THEN Store(m3, f.s, left)
                          ELSE Idalloc(m4, f.ino)
    BY DEF DropFile
  <2> HIDE DEF left
  <2>8. Store(m3, f.s, left) \in Sounds /\ m4 \in Sounds
    BY <2>1, <2>4, <2>6, LooseWrite
  <2> HIDE DEF m4
  <2>9. Idalloc(m4, f.ino) \in Sounds
    BY <1>2, <2>8, LooseSteps
  <2> QED BY <1>1, <1>6, <2>2, <2>4, <2>7, <2>8, <2>9
<1> QED BY <1>5, <1>6

\* The last steps of symlink leave the blocks apart: the text of the link is no block.
LEMMA MakeLinkOk ==
    ASSUME ~ Careful, NEW m \in Sounds, NEW s \in Slots, NEW nino \in Inos \cup {0}
    PROVE  MakeLink(m, s, nino) \in Sounds
<1> DEFINE n == IgetPtr(m, nino)
           m1 == Deref(Iget(m, nino), n)
           inode == INODE("lnk", Inode(m1, n).links, 0)
           m2 == Store(m1, n, inode)
           m3 == Store(m2, s, Inode(m2, s))
<1>1. MakeLink(m, s, nino) = IF m1.st # "up" THEN m1 ELSE Iput(Iput(m3, n), s)
  BY DEF MakeLink, With
<1>2. Iget(m, nino) \in Sounds /\ n \in Slots \cup {NULL}
  BY LooseSteps
<1> HIDE DEF n
<1>3. m1 \in Sounds /\ (n = NULL => m1.st # "up")
  <2>1. Deref(Iget(m, nino), n) \in Sounds
    BY <1>2, LooseSteps
  <2>2. ASSUME n = NULL PROVE m1.st # "up"
    <3>1. m1 = Fail(Iget(m, nino), "down") /\ Iget(m, nino) \in Machines
      BY <1>2, <2>2 DEF Deref, Sounds
    <3> QED BY <3>1, FailOk
  <2> QED BY <2>1, <2>2
<1> HIDE DEF m1
<1>4. CASE m1.st # "up"
  BY <1>1, <1>3, <1>4
<1>5. CASE m1.st = "up"
  <2>1. n \in Slots
    BY <1>2, <1>3, <1>5
  <2>2. Inode(m1, n).links \in U16
    BY <1>3, <2>1, LooseInode, InodeParts
  <2>3. inode \in INODEs /\ \A k \in 1 .. NDIRECT : inode.block[k] = 0
    <3> DEFINE links == Inode(m1, n).links
    <3> HIDE DEF links
    <3>1. INODE("lnk", links, 0) \in INODEs
      BY <2>2, NewINODE DEF links
    <3>2. \A k \in 1 .. NDIRECT : INODE("lnk", links, 0).block[k] = 0
      BY DEF INODE
    <3> QED BY <3>1, <3>2 DEF links
  <2> HIDE DEF inode
  <2>4. m2 \in Sounds
    BY <1>3, <2>1, <2>3, LooseWrite
  <2> HIDE DEF m2
  <2>5. m3 \in Sounds
    <3>1. Inode(m2, s) \in INODEs
      BY <2>4, LooseInode
    <3> QED BY <2>4, <3>1, LooseWrite
  <2> HIDE DEF m3
  <2>6. Iput(m3, n) \in Sounds
    BY <1>2, <2>5, LooseSteps
  <2>7. Iput(Iput(m3, n), s) \in Sounds
    BY <2>6, LooseSteps
  <2> QED BY <1>1, <1>5, <2>7
<1> QED BY <1>4, <1>5

\* symlink leaves the blocks apart.
LEMMA MySymLinkOk ==
    ASSUME ~ Careful, NEW m \in Sounds, NEW old \in PathType, NEW new \in PathType,
           new.comps # <<>>
    PROVE  MySymLink(m, old, new) \in Sounds
<1> DEFINE name == Basename(new)
           o == Fetch(m, old)
           p == Fetch(o.m, Dirname(new))
           g == Getino(p.m, [abs |-> FALSE, comps |-> <<name>>])
           m1 == Kcreat(g.m, p.s, name)
           nino == FreeIno(g.m)
<1>1. MySymLink(m, old, new) =
        IF o.m.st # "up" \/ o.s = NULL THEN o.m
        ELSE IF p.m.st # "up" \/ p.s = NULL THEN p.m
        ELSE IF g.m.st # "up" \/ g.ino # 0 THEN g.m
        ELSE MakeLink(m1, p.s, nino)
  BY DEF MySymLink, With
<1>2. o.m \in Sounds
  BY LooseSteps
<1> HIDE DEF o
<1>3. p.m \in Sounds /\ p.s \in Slots \cup {NULL}
  BY <1>2, PathParts, LooseSteps
<1> HIDE DEF p
<1>4. name \in FileNames
  BY PathParts
<1> HIDE DEF name
<1>5. g.m \in Sounds
  <2>1. <<name>> \in Seq(FileNames)
    BY <1>4
  <2>2. [abs |-> FALSE, comps |-> <<name>>] \in PathType
    BY <2>1 DEF PathType
  <2> QED BY <1>3, <2>2, LooseSteps
<1> HIDE DEF g
<1>6. CASE p.s = NULL
  BY <1>1, <1>2, <1>3, <1>6
<1>7. CASE p.s # NULL
  <2>1. p.s \in Slots
    BY <1>3, <1>7
  <2>2. nino \in Inos \cup {0}
    BY <1>5, Free DEF Sounds
  <2>3. m1 \in Sounds
    <3>1. Ok(g.m, Also(g.m, Pins(0), p.s), 0, 0)
      BY <1>5, Loose
    <3>2. Ok(m1, Pins(0), 0, 0)
      BY <1>4, <2>1, <3>1, KcreatOk
    <3> QED BY <3>2 DEF Ok
  <2> HIDE DEF m1, nino
  <2>4. MakeLink(m1, p.s, nino) \in Sounds
    BY <2>1, <2>2, <2>3, MakeLinkOk
  <2> QED BY <1>1, <1>2, <1>3, <1>5, <2>4
<1> QED BY <1>6, <1>7

-----------------------------------------------------------------------------
(* ls.                                                                     *)

\* ls_dir() gives back every entry it fetched.
LEMMA VisitOk ==
    ASSUME NEW m, NEW hold, NEW c, NEW i, Ok(m, hold, c, i), NEW entry \in EntryType
    PROVE  Ok(Visit(m, entry), hold, c, i)
<1> DEFINE t == IgetPtr(m, entry.ino)
           n == Iget(m, entry.ino)
           d == Deref(n, t)
<1>1. Visit(m, entry) = Iput(d, t)
  BY DEF Visit
<1>2. Careful => hold \in [Slots -> Nat] /\ AtMost(Pins(c), hold)
  BY Held
<1>3. entry.ino \in Inos \cup {0}
  BY DEF EntryType
<1>4. Ok(n, Also(n, hold, t), c, i) /\ t \in Slots \cup {NULL}
  BY <1>3, IgetOk
<1> HIDE DEF n, t
<1>5. Ok(d, Also(d, hold, t), c, i)
  <2>1. CASE t = NULL
    <3>1. Ok(n, hold, c, i)
      BY <1>4, <2>1 DEF Also
    <3>2. d = Fail(n, "down")
      BY <2>1 DEF Deref
    <3>3. Ok(d, hold, c, i)
      BY <3>1, <3>2, FailKeeps
    <3> QED BY <2>1, <3>3 DEF Also
  <2>2. CASE t # NULL
    BY <1>4, <2>2 DEF Deref
  <2> QED BY <2>1, <2>2
<1> HIDE DEF d
<1>6. Ok(Iput(d, t), hold, c, i)
  BY <1>2, <1>4, <1>5, IputOk
<1> QED BY <1>1, <1>6

\* The entries of a block, one by one.
LEMMA VisitAllFold ==
    ASSUME NEW W, NEW m \in W, NEW chain \in Chains,
           \A x \in W, k \in DOMAIN chain : Visit(x, chain[k]) \in W
    PROVE  VisitAll(m, chain) \in W
<1> DEFINE N == Len(chain)
           F == [x \in W \X (1 .. N) |-> Visit(x[1], chain[x[2]])]
           Body(g) == [s \in SUBSET (1 .. N) |->
                          IF s = {} THEN m ELSE Visit(g[s \ {Max(s)}], chain[Max(s)])]
           h == CHOOSE g : g = Body(g)
<1>1. N \in Nat /\ DOMAIN chain = 1 .. N
  BY ChainParts
<1> HIDE DEF N
<1>2. F \in [W \X (1 .. N) -> W]
  BY <1>1
<1>3. \A x \in W, k \in 1 .. N : F[<<x, k>>] = Visit(x, chain[k])
  OBVIOUS
<1> HIDE DEF F, h
<1>4. PICK g \in [SUBSET (1 .. N) -> W] : Folds(g, N, m, F)
  BY <1>1, <1>2, FoldExists
<1>5. \A s \in (SUBSET (1 .. N)) \ {{}} : Max(s) \in 1 .. N /\ s \ {Max(s)} \in SUBSET (1 .. N)
  BY <1>1, LastIn
<1>6. g = Body(g)
  BY <1>3, <1>4, <1>5 DEF Folds
<1>7. h = Body(h)
  <2> HIDE DEF Body
  <2> QED BY <1>6 DEF h
<1>8. VisitAll(m, chain) = h[1 .. N]
  BY <1>1 DEF VisitAll, FoldLeft, MapThenFoldSet, h
<1>9. FoldsIn(h, W, N, m, F)
  BY <1>3, <1>5, <1>7 DEF FoldsIn
<1> HIDE DEF Body
<1>0. N \in Nat
  BY <1>1
<1>10. PICK v \in [0 .. N -> W] : Chain(v, N, m, F, h[1 .. N])
  BY ONLY <1>0, <1>2, <1>9, m \in W, FoldSteps
<1> QED BY <1>1, <1>8, <1>10 DEF Chain

\* The blocks of a directory, one by one.
LEMMA LsBlocksFold ==
    ASSUME NEW W, NEW m \in W, NEW blocks \in [1 .. NDIRECT -> Blks \cup {0}],
           \A x \in W, b \in Blks \cup {0} : LsBlock(x, b) \in W
    PROVE  LsBlocks(m, blocks) \in W
<1> DEFINE N == NDIRECT
           F == [x \in W \X (1 .. N) |-> LsBlock(x[1], blocks[x[2]])]
           Body(g) == [s \in SUBSET (1 .. N) |->
                          IF s = {} THEN m ELSE LsBlock(g[s \ {Max(s)}], blocks[Max(s)])]
           h == CHOOSE g : g = Body(g)
<1>1. N \in Nat /\ DOMAIN blocks = 1 .. N /\ \A k \in 1 .. N : blocks[k] \in Blks \cup {0}
  BY Numbering
<1> HIDE DEF N
<1>2. F \in [W \X (1 .. N) -> W]
  BY <1>1
<1>3. \A x \in W, k \in 1 .. N : F[<<x, k>>] = LsBlock(x, blocks[k])
  OBVIOUS
<1> HIDE DEF F, h
<1>4. PICK g \in [SUBSET (1 .. N) -> W] : Folds(g, N, m, F)
  BY <1>1, <1>2, FoldExists
<1>5. \A s \in (SUBSET (1 .. N)) \ {{}} : Max(s) \in 1 .. N /\ s \ {Max(s)} \in SUBSET (1 .. N)
  BY <1>1, LastIn
<1>6. g = Body(g)
  BY <1>3, <1>4, <1>5 DEF Folds
<1>7. h = Body(h)
  <2> HIDE DEF Body
  <2> QED BY <1>6 DEF h
<1>8. LsBlocks(m, blocks) = h[1 .. N]
  BY <1>1 DEF LsBlocks, FoldLeft, MapThenFoldSet, h
<1>9. FoldsIn(h, W, N, m, F)
  BY <1>3, <1>5, <1>7 DEF FoldsIn
<1> HIDE DEF Body
<1>0. N \in Nat
  BY <1>1
<1>10. PICK v \in [0 .. N -> W] : Chain(v, N, m, F, h[1 .. N])
  BY ONLY <1>0, <1>2, <1>9, m \in W, FoldSteps
<1> QED BY <1>1, <1>8, <1>10 DEF Chain

\* ls_dir() holds after its loop what it held before.
LEMMA LsDirOk ==
    ASSUME NEW m, NEW hold, NEW c, NEW i, Ok(m, hold, c, i), NEW s \in Slots \cup {NULL},
           m.st = "up" => s \in Slots
    PROVE  Ok(LsDir(m, s), hold, c, i) /\ (m.st # "up" => LsDir(m, s) = m)
<1> DEFINE W == {n \in Machines : Ok(n, hold, c, i)}
           blocks == Inode(m, s).block
<1>1. m \in W /\ \A n \in W : Ok(n, hold, c, i)
  BY Held
<1>2. \A n : Ok(n, hold, c, i) => n \in W
  BY Held
<1>3. \A x \in W, e \in EntryType : Visit(x, e) \in W
  BY <1>1, <1>2, VisitOk
<1>4. ASSUME NEW x \in W, NEW b \in Blks \cup {0} PROVE LsBlock(x, b) \in W
  <2>1. CASE b = 0
    BY <2>1 DEF LsBlock
  <2>2. CASE b # 0 /\ x.dir[b] = <<>>
    <3>1. LsBlock(x, b) = Fail(x, "hung")
      BY <2>2 DEF LsBlock
    <3> QED BY <1>1, <1>2, <3>1, FailKeeps
  <2>3. CASE b # 0 /\ x.dir[b] # <<>>
    <3>1. LsBlock(x, b) = VisitAll(x, x.dir[b])
      BY <2>3 DEF LsBlock
    <3>2. x.dir[b] \in Chains
      BY DEF Machines
    <3> DEFINE chain == x.dir[b]
    <3> HIDE DEF W, chain
    <3>3. \A k \in DOMAIN chain : chain[k] \in EntryType
      <4>1. chain \in Seq(EntryType)
        BY <3>2 DEF chain, Chains, EntryType
      <4> QED BY <4>1
    <3> QED BY <1>3, <3>1, <3>2, <3>3, VisitAllFold DEF chain
  <2> QED BY <2>1, <2>2, <2>3
<1>5. CASE m.st # "up"
  BY <1>5 DEF LsDir
<1>6. CASE m.st = "up" /\ Opaque(m, s)
  BY <1>6, FailKeeps DEF LsDir
<1>7. CASE m.st = "up" /\ ~ Opaque(m, s)
  <2>1. LsDir(m, s) = LsBlocks(m, blocks)
    BY <1>7 DEF LsDir
  <2>2. blocks \in [1 .. NDIRECT -> Blks \cup {0}]
    BY <1>7, Held, LooseInode, InodeParts
  <2> HIDE DEF W, blocks
  <2>3. LsBlocks(m, blocks) \in W
    BY <1>1, <1>4, <2>2, LsBlocksFold
  <2> QED BY <1>1, <1>7, <2>1, <2>3
<1> QED BY <1>5, <1>6, <1>7

\* ls with a path gives back the directory it lists.
LEMMA LsOk ==
    ASSUME NEW m, NEW c, NEW i, Ok(m, Pins(c), c, i), NEW path \in PathType
    PROVE  Ok(Ls(m, path), Pins(c), c, i)
<1> DEFINE f == Fetch(m, path)
           d == IF IsDir(f.m, f.s) THEN LsDir(f.m, f.s) ELSE f.m
<1>1. Ls(m, path) = IF f.s = NULL THEN Deref(f.m, f.s)
                    ELSE IF f.m.st # "up" THEN f.m ELSE Iput(d, f.s)
  BY DEF Ls, LsOf, With
<1>2. Ok(f.m, Also(f.m, Pins(c), f.s), c, i) /\ f.s \in Slots \cup {NULL}
  BY FetchOk
<1> HIDE DEF f
<1>3. Ok(f.m, Pins(c), c, i)
  BY <1>2, PinsType, LetGo
<1>4. CASE f.s = NULL
  BY <1>1, <1>3, <1>4, FailKeeps DEF Deref
<1>5. CASE f.s # NULL /\ f.m.st # "up"
  BY <1>1, <1>3, <1>5
<1>6. CASE f.s # NULL /\ f.m.st = "up"
  <2>1. Ok(d, Also(f.m, Pins(c), f.s), c, i)
    BY <1>2, <1>6, LsDirOk
  <2> HIDE DEF d
  <2>2. Ok(d, Also(d, Pins(c), f.s), c, i)
    BY <1>2, <1>6, <2>1, PinsType, Still
  <2>3. Ok(Iput(d, f.s), Pins(c), c, i)
    BY <1>2, <2>2, PinsType, IputOk
  <2> QED BY <1>1, <1>6, <2>3
<1> QED BY <1>4, <1>5, <1>6

\* ls without a path gives back the current directory it fetched once more.
LEMMA LsCwdOk ==
    ASSUME NEW m, NEW c, NEW i, Ok(m, Pins(c), c, i)
    PROVE  Ok(LsCwd(m), Pins(c), c, i)
<1> DEFINE ino == m.minode[m.cwd].ino
           s == IgetPtr(m, ino)
           n == Iget(m, ino)
           d == Deref(n, s)
           e == LsDir(d, s)
<1>1. LsCwd(m) = Iput(e, s)
  BY DEF LsCwd
<1>2. ino \in Inos \cup {0}
  BY DEF Ok, Sounds, Machines, MINODEs
<1> HIDE DEF ino
<1>3. Ok(n, Also(n, Pins(c), s), c, i) /\ s \in Slots \cup {NULL}
  BY <1>2, IgetOk
<1> HIDE DEF n, s
<1>4. CASE s = NULL
  <2>1. Ok(n, Pins(c), c, i)
    BY <1>3, <1>4 DEF Also
  <2>2. Ok(d, Pins(c), c, i) /\ d.st # "up"
    BY <1>4, <2>1, FailKeeps DEF Deref
  <2>3. e = d
    BY <2>2 DEF LsDir
  <2>4. Iput(e, s) = e
    BY <1>4 DEF Iput
  <2> QED BY <1>1, <2>2, <2>3, <2>4
<1>5. CASE s # NULL
  <2>1. d = n
    BY <1>5 DEF Deref
  <2>2. /\ Ok(e, Also(n, Pins(c), s), c, i)
        /\ n.st # "up" => e = n
    BY <1>3, <1>5, <2>1, LsDirOk
  <2> HIDE DEF e
  <2>3. Ok(e, Also(e, Pins(c), s), c, i)
    <3>1. CASE n.st = "up"
      BY <1>3, <2>2, <3>1, PinsType, Still
    <3>2. CASE n.st # "up"
      BY <2>2, <3>2
    <3> QED BY <3>1, <3>2
  <2>4. Ok(Iput(e, s), Pins(c), c, i)
    BY <1>3, <2>3, PinsType, IputOk
  <2> QED BY <1>1, <2>4
<1> QED BY <1>4, <1>5

-----------------------------------------------------------------------------
(* pwd: the slots of the trail are in hand, each once more than those after it. *)

Backing(H, trail, hold, c) ==
    /\ H \in [0 .. Len(trail) -> [Slots -> Nat]]
    /\ H[0] = hold /\ H[Len(trail)] = Pins(c)
    /\ \A k \in 0 .. Len(trail) : AtMost(Pins(c), H[k])
    /\ \A k \in 1 .. Len(trail) : H[k - 1] = Plus(H[k], trail[k])

Backed(trail, hold, c) == \E H \in [0 .. Len(trail) -> [Slots -> Nat]] :
                             Backing(H, trail, hold, c)

Climbs(c, i) == {x \in [m : Machines, wd : Slots, trail : Seq(Slots)] :
                    \E hold \in [Slots -> Nat] : /\ Backed(x.trail, hold, c)
                                                 /\ Ok(x.m, hold, c, i)}

\* pwd starts with an empty trail.
LEMMA BackedFirst ==
    ASSUME NEW c
    PROVE  Backed(<<>>, Pins(c), c)
<1> DEFINE H == [k \in 0 .. 0 |-> Pins(c)]
<1>1. Len(<<>>) = 0 /\ 1 .. 0 = {}
  OBVIOUS
<1>2. H \in [0 .. 0 -> [Slots -> Nat]] /\ H[0] = Pins(c) /\ \A k \in 0 .. 0 : H[k] = Pins(c)
  BY PinsType
<1> HIDE DEF H
<1>3. Backing(H, <<>>, Pins(c), c)
  BY <1>1, <1>2, PinsType DEF Backing
<1> QED BY <1>1, <1>2, <1>3 DEF Backed

\* A level of rpwd() takes one slot more.
LEMMA BackedMore ==
    ASSUME NEW c, NEW trail \in Seq(Slots), NEW hold \in [Slots -> Nat], Backed(trail, hold, c),
           NEW up \in Slots
    PROVE  Backed(<<up>> \o trail, Plus(hold, up), c)
<1> DEFINE N == Len(trail)
           new == <<up>> \o trail
           more == Plus(hold, up)
<1>1. PICK H \in [0 .. N -> [Slots -> Nat]] : Backing(H, trail, hold, c)
  BY DEF Backed
<1> DEFINE G == [k \in 0 .. N + 1 |-> IF k = 0 THEN more ELSE H[k - 1]]
<1>2. /\ N \in Nat /\ Len(new) = N + 1 /\ new[1] = up
      /\ \A k \in 1 .. N : new[k + 1] = trail[k]
  OBVIOUS
<1>3. more \in [Slots -> Nat] /\ AtMost(Pins(c), more)
  <2>1. hold \in [Slots -> Nat] /\ AtMost(Pins(c), hold)
    BY <1>1, <1>2 DEF Backing
  <2> QED BY <2>1, PlusMore, PinsType
<1> HIDE DEF N, new, more
<1>4. /\ G \in [0 .. N + 1 -> [Slots -> Nat]] /\ G[0] = more
      /\ \A k \in 0 .. N : G[k + 1] = H[k]
  <2>1. \A k \in 0 .. N + 1 : k # 0 => k - 1 \in 0 .. N
    BY <1>2
  <2>2. \A k \in 0 .. N : k + 1 \in 0 .. N + 1 /\ k + 1 # 0 /\ (k + 1) - 1 = k
    BY <1>2
  <2> QED BY <1>2, <1>3, <2>1, <2>2
<1> HIDE DEF G
<1>5. \A k \in 1 .. N + 1 : k - 1 \in 0 .. N /\ (k = 1 \/ k - 1 \in 1 .. N)
  BY <1>2
<1>6. ASSUME NEW k \in 0 .. N + 1 PROVE AtMost(Pins(c), G[k])
  <2>1. CASE k = 0
    BY <1>3, <1>4, <2>1
  <2>2. CASE k # 0
    <3>1. k - 1 \in 0 .. N /\ (k - 1) + 1 = k
      BY <1>2, <2>2
    <3>2. G[k] = H[k - 1]
      BY <1>4, <3>1
    <3> QED BY <1>1, <3>1, <3>2 DEF Backing, N
  <2> QED BY <2>1, <2>2
<1>7. ASSUME NEW k \in 1 .. N + 1 PROVE G[k - 1] = Plus(G[k], new[k])
  <2>1. CASE k = 1
    <3>1. G[1] = hold /\ G[0] = more
      <4>1. G[0 + 1] = H[0]
        BY <1>2, <1>4
      <4> QED BY <1>1, <1>4, <4>1 DEF Backing
    <3> QED BY <1>2, <2>1, <3>1 DEF more
  <2>2. CASE k # 1
    <3> DEFINE l == k - 1
    <3>1. l \in 1 .. N /\ l + 1 = k /\ l \in 0 .. N /\ l - 1 \in 0 .. N /\ (l - 1) + 1 = l
      BY <1>2, <2>2
    <3> HIDE DEF l
    <3>2. G[k] = H[l] /\ G[l] = H[l - 1] /\ new[k] = trail[l]
      BY <1>2, <1>4, <3>1
    <3>3. H[l - 1] = Plus(H[l], trail[l])
      BY <1>1, <3>1 DEF Backing, N
    <3> QED BY <3>2, <3>3 DEF l
  <2> QED BY <2>1, <2>2
<1>8. G[N + 1] = Pins(c)
  BY <1>1, <1>2, <1>4 DEF Backing, N
<1>9. Backing(G, new, more, c)
  BY <1>2, <1>4, <1>6, <1>7, <1>8 DEF Backing
<1>10. Backed(new, more, c)
  BY <1>2, <1>4, <1>9 DEF Backed
<1> QED BY <1>10 DEF new, more

\* The number a block of entries has for a name is an inode number or 0.
LEMMA InodeOfName ==
    ASSUME NEW chain \in Chains, NEW name, Holds(chain, name)
    PROVE  InoOf(chain, name) \in Inos \cup {0}
<1> DEFINE T == {l \in DOMAIN chain : chain[l].name = name}
<1>1. T \subseteq Nat /\ T # {}
  BY ChainParts DEF Holds
<1>2. FirstOf(T) \in DOMAIN chain
  <2>1. FirstOf(T) \in T
    <3> HIDE DEF T
    <3> QED BY <1>1, FirstIn
  <2> QED BY <2>1
<1>3. InoOf(chain, name) = chain[FirstOf(T)].ino
  BY DEF InoOf
<1> HIDE DEF T
<1> QED BY <1>2, <1>3, ChainParts

\* A level of rpwd().
LEMMA ClimbOk ==
    ASSUME NEW c, NEW i, NEW x \in Climbs(c, i), NEW level
    PROVE  Climb(x, level) \in Climbs(c, i)
<1>1. PICK hold \in [Slots -> Nat] : Backed(x.trail, hold, c) /\ Ok(x.m, hold, c, i)
  BY DEF Climbs
<1>2. x \in [m : Machines, wd : Slots, trail : Seq(Slots)]
  BY DEF Climbs
<1> DEFINE chain == x.m.dir[Inode(x.m, x.wd).block[1]]
           ino == InoOf(chain, "..")
           up == IgetPtr(x.m, ino)
           n == Iget(x.m, ino)
           m1 == Deref(n, up)
<1>3. ASSUME NEW y, Ok(y, hold, c, i) PROVE [x EXCEPT !.m = y] \in Climbs(c, i)
  <2> DEFINE z == [x EXCEPT !.m = y]
  <2>1. y \in Machines
    BY <1>3, Held
  <2>2. z \in [m : Machines, wd : Slots, trail : Seq(Slots)] /\ z.m = y /\ z.trail = x.trail
    BY <1>2, <2>1
  <2> HIDE DEF z
  <2>3. z \in Climbs(c, i)
    BY <1>1, <1>3, <2>2 DEF Climbs
  <2> QED BY <2>3 DEF z
<1>4. Climb(x, level) =
        IF x.m.st # "up" \/ x.wd = Root THEN x
        ELSE IF Opaque(x.m, x.wd) THEN [x EXCEPT !.m = Fail(x.m, "undefined")]
        ELSE IF chain = <<>> THEN [x EXCEPT !.m = Fail(x.m, "hung")]
        ELSE IF ~ Holds(chain, "..") THEN [x EXCEPT !.m = Fail(x.m, "undefined")]
        ELSE IF m1.st # "up" THEN [x EXCEPT !.m = m1]
        ELSE IF Opaque(m1, up) THEN [x EXCEPT !.m = Fail(m1, "undefined")]
        ELSE IF m1.dir[Inode(m1, up).block[1]] = <<>>
             THEN [x EXCEPT !.m = Fail(m1, "hung")]
        ELSE [m |-> m1, wd |-> up, trail |-> <<up>> \o x.trail]
  BY DEF Climb, With
<1>5. chain \in Chains
  <2>1. Inode(x.m, x.wd) \in INODEs
    BY <1>1, <1>2, Held, LooseInode
  <2>2. Inode(x.m, x.wd).block[1] \in Blks \cup {0}
    BY <2>1, InodeParts, Numbering
  <2> QED BY <1>2, <2>2 DEF Machines
<1> HIDE DEF chain
<1>6. CASE Holds(chain, "..")
  <2>1. ino \in Inos \cup {0}
    BY <1>5, <1>6, InodeOfName
  <2> HIDE DEF ino
  <2>2. Ok(n, Also(n, hold, up), c, i) /\ up \in Slots \cup {NULL}
    BY <1>1, <2>1, IgetOk
  <2> HIDE DEF n, up
  <2>3. Careful => hold \in [Slots -> Nat] /\ AtMost(Pins(c), hold)
    BY <1>1, Held
  <2>4. Ok(n, hold, c, i)
    BY <2>2, <2>3, LetGo
  <2>5. Ok(m1, hold, c, i) /\ (m1.st = "up" => up \in Slots /\ m1 = n)
    BY <2>2, <2>4, FailKeeps DEF Deref
  <2> HIDE DEF m1
  <2>6. ASSUME m1.st = "up"
        PROVE  [m |-> m1, wd |-> up, trail |-> <<up>> \o x.trail] \in Climbs(c, i)
    <3> DEFINE y == [m |-> m1, wd |-> up, trail |-> <<up>> \o x.trail]
    <3>1. Ok(m1, Plus(hold, up), c, i)
      BY <2>2, <2>5, <2>6, Numbering DEF Also
    <3>2. Backed(<<up>> \o x.trail, Plus(hold, up), c)
      BY <1>1, <1>2, <2>5, <2>6, BackedMore
    <3>3. Plus(hold, up) \in [Slots -> Nat]
      BY <2>5, <2>6, PlusMore
    <3>4. <<up>> \o x.trail \in Seq(Slots) /\ m1 \in Machines /\ up \in Slots
      BY <1>2, <2>5, <2>6, Held
    <3> QED BY <3>1, <3>2, <3>3, <3>4 DEF Climbs
  <2>7. /\ [x EXCEPT !.m = m1] \in Climbs(c, i)
        /\ [x EXCEPT !.m = Fail(m1, "undefined")] \in Climbs(c, i)
        /\ [x EXCEPT !.m = Fail(m1, "hung")] \in Climbs(c, i)
    BY <1>3, <2>5, FailKeeps
  <2>8. /\ [x EXCEPT !.m = Fail(x.m, "undefined")] \in Climbs(c, i)
        /\ [x EXCEPT !.m = Fail(x.m, "hung")] \in Climbs(c, i)
    BY <1>1, <1>3, FailKeeps
  <2> QED BY <1>4, <2>6, <2>7, <2>8
<1>7. CASE ~ Holds(chain, "..")
  <2>8. /\ [x EXCEPT !.m = Fail(x.m, "undefined")] \in Climbs(c, i)
        /\ [x EXCEPT !.m = Fail(x.m, "hung")] \in Climbs(c, i)
    BY <1>1, <1>3, FailKeeps
  <2> QED BY <1>4, <1>7, <2>8
<1> QED BY <1>6, <1>7

\* The levels of rpwd(), one by one.
LEMMA ClimbAllFold ==
    ASSUME NEW W, NEW c \in W, \A x \in W, level \in 1 .. NMINODE : Climb(x, level) \in W
    PROVE  ClimbAll(c) \in W
<1> DEFINE N == NMINODE
           levels == [level \in 1 .. NMINODE |-> level]
           F == [x \in W \X (1 .. N) |-> Climb(x[1], levels[x[2]])]
           Body(g) == [s \in SUBSET (1 .. N) |->
                          IF s = {} THEN c ELSE Climb(g[s \ {Max(s)}], levels[Max(s)])]
           h == CHOOSE g : g = Body(g)
<1>1. N \in Nat /\ DOMAIN levels = 1 .. N /\ \A k \in 1 .. N : levels[k] \in 1 .. N
  BY NMINODEAssumption
<1>0. ClimbAll(c) = FoldLeft(Climb, c, levels)
  BY DEF ClimbAll
<1> HIDE DEF N, levels
<1>2. F \in [W \X (1 .. N) -> W]
  BY <1>1 DEF N
<1>3. \A x \in W, k \in 1 .. N : F[<<x, k>>] = Climb(x, levels[k])
  OBVIOUS
<1> HIDE DEF F, h
<1>4. PICK g \in [SUBSET (1 .. N) -> W] : Folds(g, N, c, F)
  BY <1>1, <1>2, FoldExists
<1>5. \A s \in (SUBSET (1 .. N)) \ {{}} : Max(s) \in 1 .. N /\ s \ {Max(s)} \in SUBSET (1 .. N)
  BY <1>1, LastIn
<1>6. g = Body(g)
  BY <1>3, <1>4, <1>5 DEF Folds
<1>7. h = Body(h)
  <2> HIDE DEF Body
  <2> QED BY <1>6 DEF h
<1>8. ClimbAll(c) = h[1 .. N]
  BY <1>0, <1>1 DEF FoldLeft, MapThenFoldSet, h
<1>9. FoldsIn(h, W, N, c, F)
  BY <1>3, <1>5, <1>7 DEF FoldsIn
<1> HIDE DEF Body
<1>10. N \in Nat
  BY <1>1
<1>11. PICK v \in [0 .. N -> W] : Chain(v, N, c, F, h[1 .. N])
  BY ONLY <1>10, <1>2, <1>9, c \in W, FoldSteps
<1> QED BY <1>1, <1>8, <1>11 DEF Chain

\* The slots of the trail, given back one by one.
LEMMA IputAllFold ==
    ASSUME NEW W, NEW m \in W, NEW trail \in Seq(Slots),
           \A x \in W, s \in Slots : Iput(x, s) \in W
    PROVE  \E v \in [0 .. Len(trail) -> W] :
              /\ v[0] = m /\ v[Len(trail)] = IputAll(m, trail)
              /\ \A k \in 1 .. Len(trail) : v[k] = Iput(v[k - 1], trail[k])
<1> DEFINE N == Len(trail)
           F == [x \in W \X (1 .. N) |-> Iput(x[1], trail[x[2]])]
           Body(g) == [s \in SUBSET (1 .. N) |->
                          IF s = {} THEN m ELSE Iput(g[s \ {Max(s)}], trail[Max(s)])]
           h == CHOOSE g : g = Body(g)
<1>1. N \in Nat /\ DOMAIN trail = 1 .. N /\ \A k \in 1 .. N : trail[k] \in Slots
  OBVIOUS
<1> HIDE DEF N
<1>2. F \in [W \X (1 .. N) -> W]
  BY <1>1
<1>3. \A x \in W, k \in 1 .. N : F[<<x, k>>] = Iput(x, trail[k])
  OBVIOUS
<1> HIDE DEF F, h
<1>4. PICK g \in [SUBSET (1 .. N) -> W] : Folds(g, N, m, F)
  BY <1>1, <1>2, FoldExists
<1>5. \A s \in (SUBSET (1 .. N)) \ {{}} : Max(s) \in 1 .. N /\ s \ {Max(s)} \in SUBSET (1 .. N)
  BY <1>1, LastIn
<1>6. g = Body(g)
  BY <1>3, <1>4, <1>5 DEF Folds
<1>7. h = Body(h)
  <2> HIDE DEF Body
  <2> QED BY <1>6 DEF h
<1>8. IputAll(m, trail) = h[1 .. N]
  BY <1>1 DEF IputAll, FoldLeft, MapThenFoldSet, h
<1>9. FoldsIn(h, W, N, m, F)
  BY <1>3, <1>5, <1>7 DEF FoldsIn
<1> HIDE DEF Body
<1>0. N \in Nat
  BY <1>1
<1>10. PICK v \in [0 .. N -> W] : Chain(v, N, m, F, h[1 .. N])
  BY ONLY <1>0, <1>2, <1>9, m \in W, FoldSteps
<1>11. \A k \in 1 .. N : k - 1 \in 0 .. N
  BY <1>1
<1>12. \A k \in 1 .. N : v[k] = Iput(v[k - 1], trail[k])
  BY <1>3, <1>10, <1>11 DEF Chain
<1>13. v[0] = m /\ v[N] = IputAll(m, trail)
  BY <1>8, <1>10 DEF Chain
<1> QED BY <1>12, <1>13 DEF N

\* iput() leaves a machine.
LEMMA IputMachine ==
    ASSUME NEW m \in Machines, NEW s \in Slots
    PROVE  Iput(m, s) \in Machines
<1>1. CASE m.st # "up"
  BY <1>1 DEF Iput
<1>2. CASE m.st = "up" /\ WritesBack(m.minode, s) /\ m.minode[s].ino = 0
  BY <1>2, FailOk, Numbering DEF Iput
<1>3. CASE m.st = "up" /\ ~ (WritesBack(m.minode, s) /\ m.minode[s].ino = 0)
  BY <1>3, IputEffect
<1> QED BY <1>1, <1>2, <1>3

\* The returns of rpwd() give back the slots of the trail, each as often as it was taken.
LEMMA IputAllOk ==
    ASSUME NEW m, NEW hold, NEW c, NEW i, Ok(m, hold, c, i), NEW trail \in Seq(Slots),
           Backed(trail, hold, c)
    PROVE  Ok(IputAll(m, trail), Pins(c), c, i)
<1> DEFINE N == Len(trail)
<1>1. PICK H \in [0 .. N -> [Slots -> Nat]] : Backing(H, trail, hold, c)
  BY DEF Backed
<1>2. m \in Machines
  BY Held
<1>3. PICK v \in [0 .. N -> Machines] :
              /\ v[0] = m /\ v[N] = IputAll(m, trail)
              /\ \A k \in 1 .. N : v[k] = Iput(v[k - 1], trail[k])
  BY <1>2, IputMachine, IputAllFold
<1>4. N \in Nat /\ \A k \in 1 .. N : trail[k] \in Slots
  OBVIOUS
<1>5. /\ H[0] = hold /\ H[N] = Pins(c) 
      /\ \A k \in 0 .. N : H[k] \in [Slots -> Nat] /\ AtMost(Pins(c), H[k])
      /\ \A k \in 1 .. N : H[k - 1] = Plus(H[k], trail[k])
  BY <1>1, <1>4 DEF Backing
<1> HIDE DEF N
<1> DEFINE S == {k \in Nat : k <= N => Ok(v[k], H[k], c, i)}
<1>6. 0 \in S
  BY <1>3, <1>5
<1>7. ASSUME NEW k \in Nat, k \in S PROVE k + 1 \in S
  <2> DEFINE l == k + 1
             s == trail[l]
  <2> SUFFICES ASSUME l <= N PROVE Ok(v[l], H[l], c, i)
    OBVIOUS
  <2>1. l \in 1 .. N /\ l - 1 = k /\ l \in 0 .. N /\ s \in Slots /\ Ok(v[k], H[k], c, i)
    BY <1>4, <1>7
  <2> HIDE DEF l
  <2>2. v[l] = Iput(v[k], s) /\ H[k] = Plus(H[l], s)
    BY <1>3, <1>5, <2>1
  <2> HIDE DEF s
  <2>3. H[l] \in [Slots -> Nat] /\ AtMost(Pins(c), H[l])
    BY <1>5, <2>1
  <2>4. Ok(v[k], Also(v[k], H[l], s), c, i)
    <3>1. CASE v[k].st = "up"
      BY <2>1, <2>2, <3>1, Numbering DEF Also
    <3>2. CASE v[k].st # "up"
      <4>1. AtMost(H[l], Plus(H[l], s))
        BY <2>1, <2>3, PlusMore
      <4>2. Ok(v[k], H[l], c, i)
        BY <2>1, <2>2, <2>3, <4>1, Fewer
      <4> QED BY <3>2, <4>2 DEF Also
    <3> QED BY <3>1, <3>2
  <2> QED BY <2>1, <2>2, <2>3, <2>4, IputOk
<1> HIDE DEF S
<1>8. N \in S
  BY <1>4, <1>6, <1>7, SetInduction
<1>9. Ok(v[N], H[N], c, i)
  BY <1>4, <1>8 DEF S
<1> QED BY <1>3, <1>5, <1>9

\* pwd gives back every directory it climbed through.
LEMMA PwdOk ==
    ASSUME NEW m, NEW c, NEW i, Ok(m, Pins(c), c, i)
    PROVE  Ok(Pwd(m), Pins(c), c, i)
<1> DEFINE x == [m |-> m, wd |-> m.cwd, trail |-> <<>>]
           y == ClimbAll(x)
<1>1. x \in Climbs(c, i)
  <2>1. m \in Machines /\ m.cwd \in Slots
    <3>1. m \in Machines
      BY Held
    <3> QED BY <3>1 DEF Machines
  <2>2. <<>> \in Seq(Slots) /\ Pins(c) \in [Slots -> Nat]
    BY PinsType
  <2>3. x \in [m : Machines, wd : Slots, trail : Seq(Slots)]
    BY <2>1, <2>2
  <2>4. x.trail = <<>> /\ x.m = m
    OBVIOUS
  <2> HIDE DEF x
  <2> QED BY <2>2, <2>3, <2>4, BackedFirst DEF Climbs
<1>2. Pwd(m) = IF y.m.st = "up" /\ y.wd # Root THEN Fail(y.m, "down") ELSE IputAll(y.m, y.trail)
  BY DEF Pwd, With
<1> HIDE DEF x
<1>3. y \in Climbs(c, i)
  <2> DEFINE W == Climbs(c, i)
  <2>1. x \in W /\ \A z \in W, level \in 1 .. NMINODE : Climb(z, level) \in W
    BY <1>1, ClimbOk
  <2> HIDE DEF W
  <2>2. ClimbAll(x) \in W
    BY <2>1, ClimbAllFold
  <2> QED BY <2>2 DEF W
<1> HIDE DEF y
<1>4. PICK hold \in [Slots -> Nat] : Backed(y.trail, hold, c) /\ Ok(y.m, hold, c, i)
  BY <1>3 DEF Climbs
<1>5. y.trail \in Seq(Slots)
  BY <1>3 DEF Climbs
<1>6. Ok(y.m, Pins(c), c, i)
  BY <1>4, PinsType, Held, Fewer
<1>7. Ok(Fail(y.m, "down"), Pins(c), c, i)
  BY <1>6, FailKeeps
<1>8. Ok(IputAll(y.m, y.trail), Pins(c), c, i)
  BY <1>4, <1>5, IputAllOk
<1> QED BY <1>2, <1>7, <1>8

-----------------------------------------------------------------------------
(* The state between two commands.                                         *)

States == [minode : [Slots -> MINODEs], cwd : Slots \cup {NULL},
           st : {"up", "down", "hung", "undefined"}, itable : [Inos -> INODEs],
           imap : SUBSET Inos, bmap : SUBSET Blks, dir : [Blks \cup {0} -> Chains]]

\* A process that died holds nothing; every other one holds root and cwd.
Rests(h) == IF h.st = "down" THEN Marked(h)
            ELSE Pinned(h, Pins(h.cwd), h.cwd, h.minode[h.cwd].ino)

Kept(h) == /\ h \in States
           /\ (h.cwd = NULL) = (h.st = "down")
           /\ Apart(h)
           /\ h.st = "down" => h.minode = Blank
           /\ Careful => Rests(h)

\* What Leaves(m) leaves.
Ends(m) == [minode |-> IF m.st = "down" THEN Blank ELSE Forget(m),
            cwd |-> IF m.st = "down" THEN NULL ELSE m.cwd, st |-> m.st,
            itable |-> [i \in Inos |-> m.itable[i]],
            imap |-> m.imap, bmap |-> m.bmap, dir |-> m.dir]

\* A zeroed slot is not in use and has no block.
LEMMA BlankEmpty ==
    ASSUME NEW s \in Slots
    PROVE  /\ Blank[s].refCount = 0 /\ Blank[s].ino = 0
           /\ \A k \in 1 .. NDIRECT : Blank[s].INODE.block[k] = 0
BY DEF Blank, INODE

\* Forgetting a slot nobody uses changes nothing that somebody reads.
LEMMA ForgetEffect ==
    ASSUME NEW m \in Machines
    PROVE  /\ Forget(m) \in [Slots -> MINODEs]
           /\ \A s \in Slots : \/ Forget(m)[s] = m.minode[s]
                               \/ /\ ~ Busy(m, s) /\ s # Root /\ s # m.cwd
                                  /\ Forget(m)[s].refCount = 0
                                  /\ \A k \in 1 .. NDIRECT : Forget(m)[s].INODE.block[k] = 0
<1> DEFINE Gone(s) == [Blank[s] EXCEPT !.dirty = m.minode[s].dirty]
<1>1. m.minode \in [Slots -> MINODEs]
  BY DEF Machines
<1>2. ASSUME NEW s \in Slots
      PROVE  /\ Gone(s) \in MINODEs /\ Gone(s).refCount = 0
             /\ \A k \in 1 .. NDIRECT : Gone(s).INODE.block[k] = 0
  <2>1. Blank[s] \in MINODEs /\ m.minode[s] \in MINODEs
    BY <1>1, BlankTypes
  <2> DEFINE x == Blank[s]
             d == m.minode[s].dirty
  <2>2. x \in MINODEs /\ x.refCount = 0 /\ \A k \in 1 .. NDIRECT : x.INODE.block[k] = 0
    BY <2>1, BlankEmpty
  <2>3. d \in BOOLEAN
    BY <2>1 DEF MINODEs
  <2> HIDE DEF x, d
  <2>4. /\ [x EXCEPT !.dirty = d] \in MINODEs
        /\ [x EXCEPT !.dirty = d].refCount = x.refCount
        /\ [x EXCEPT !.dirty = d].INODE = x.INODE
    BY <2>2, <2>3 DEF MINODEs
  <2> QED BY <2>2, <2>4 DEF x, d
<1>3. ASSUME NEW s \in Slots
      PROVE  Forget(m)[s] = IF m.minode[s].refCount = 0 /\ s \notin {Root, m.cwd}
                            THEN Gone(s) ELSE m.minode[s]
  BY DEF Forget
<1>4. Forget(m) = [s \in Slots |-> Forget(m)[s]]
  BY DEF Forget
<1> HIDE DEF Gone
<1>5. \A s \in Slots : Forget(m)[s] \in MINODEs
  BY <1>1, <1>2, <1>3
<1>6. Forget(m) \in [Slots -> MINODEs]
  BY <1>4, <1>5
<1> QED BY <1>2, <1>3, <1>6 DEF Busy

\* Fewer block pointers, and none that is new.
LEMMA FewerApart ==
    ASSUME NEW m, NEW h, Apart(m), Points(h) \subseteq Points(m), m.bmap = h.bmap
    PROVE  Apart(h)
BY DEF Apart

\* Between two commands the invariant holds, and cwd is the directory it was.
LEMMA EndsOk ==
    ASSUME NEW m, NEW c, NEW i, After(m, c, i)
    PROVE  /\ Kept(Ends(m))
           /\ Careful /\ m.cwd = c /\ m.st # "down" => Ends(m).minode[c].ino = i
<1> DEFINE h == Ends(m)
           d == m.cwd
<1>1. PICK k : Ok(m, Pins(d), d, k) /\ (Careful /\ d = c => k = i)
  BY DEF After
<1>2. m \in Sounds /\ m \in Machines
  BY <1>1, Held
<1>3. d \in Slots /\ d # NULL
  <2>1. d \in Slots
    BY <1>2 DEF Machines
  <2> QED BY <2>1, Numbering
<1>4. /\ h.st = m.st /\ h.imap = m.imap /\ h.bmap = m.bmap /\ h.dir = m.dir
      /\ h.minode = (IF m.st = "down" THEN Blank ELSE Forget(m))
      /\ h.cwd = (IF m.st = "down" THEN NULL ELSE d)
      /\ h.itable = [j \in Inos |-> m.itable[j]]
      /\ \A j \in Inos : h.itable[j] = m.itable[j]
  BY DEF Ends
<1>5. h \in States
  <2>1. h.minode \in [Slots -> MINODEs] /\ h.itable \in [Inos -> INODEs]
    BY <1>2, <1>4, BlankTypes, ForgetEffect DEF Machines
  <2>2. h.cwd \in Slots \cup {NULL}
    BY <1>3, <1>4
  <2> DEFINE mi == h.minode
             it == h.itable
             cw == h.cwd
  <2>3. h = [minode |-> mi, cwd |-> cw, st |-> m.st, itable |-> it, imap |-> m.imap,
             bmap |-> m.bmap, dir |-> m.dir]
    BY <1>4 DEF Ends
  <2> HIDE DEF mi, it, cw
  <2>4. mi \in [Slots -> MINODEs] /\ it \in [Inos -> INODEs] /\ cw \in Slots \cup {NULL}
    BY <2>1, <2>2 DEF mi, it, cw
  <2> HIDE DEF h
  <2> QED BY <1>2, <2>3, <2>4 DEF States, Machines
<1> HIDE DEF h, d
<1>6. Points(h) \subseteq Points(m)
  <2> SUFFICES ASSUME NEW j \in Inos, NEW l \in 1 .. NDIRECT, NEW b \in Blks,
                      \/ h.itable[j].block[l] = b
                      \/ \E s \in Slots : /\ h.minode[s].ino = j
                                          /\ h.minode[s].INODE.block[l] = b
               PROVE  \/ m.itable[j].block[l] = b
                      \/ \E s \in Slots : /\ m.minode[s].ino = j
                                          /\ m.minode[s].INODE.block[l] = b
    BY DEF Points
  <2>1. ASSUME NEW s \in Slots, h.minode[s].INODE.block[l] = b
        PROVE  h.minode[s] = m.minode[s]
    <3>1. b # 0
      BY Numbering
    <3> QED BY <1>2, <1>4, <2>1, <3>1, BlankEmpty, ForgetEffect
  <2> QED BY <1>4, <2>1
<1>7. Apart(h)
  BY <1>2, <1>4, <1>6, FewerApart DEF Sounds
<1>8. CASE m.st = "down"
  <2>1. ASSUME Careful PROVE Marked(h)
    <3>1. Marked(m)
      BY <1>1, <2>1 DEF Ok, Pinned
    <3>2. \A s \in Slots : ~ Busy(h, s)
      BY <1>4, <1>8, BlankEmpty DEF Busy
    <3> QED BY <1>4, <3>1, <3>2, Numbering DEF Marked, Holding
  <2> QED BY <1>4, <1>5, <1>7, <1>8, <2>1 DEF Kept, Rests, h
<1>9. CASE m.st # "down"
  <2>1. h.minode = Forget(m) /\ h.cwd = d
    BY <1>4, <1>9
  <2>2. /\ h.minode[Root] = m.minode[Root] /\ h.minode[d] = m.minode[d]
        /\ \A s \in Slots : Busy(h, s) => h.minode[s] = m.minode[s]
        /\ \A s \in Slots : h.minode[s].refCount = m.minode[s].refCount
    <3>1. \A s \in Slots : \/ h.minode[s] = m.minode[s]
                            \/ /\ ~ Busy(m, s) /\ s # Root /\ s # d
                               /\ h.minode[s].refCount = 0
      BY <1>2, <2>1, ForgetEffect DEF d
    <3>2. \A s \in Slots : Busy(h, s) => h.minode[s] = m.minode[s]
      BY <3>1 DEF Busy
    <3>3. \A s \in Slots : h.minode[s].refCount = m.minode[s].refCount
      BY <3>1 DEF Busy
    <3> QED BY <1>3, <3>1, <3>2, <3>3, Numbering
  <2>3. ASSUME Careful
        PROVE  Pinned(h, Pins(d), d, h.minode[d].ino) /\ h.minode[d].ino = k
    <3>1. Pinned(m, Pins(d), d, k)
      BY <1>1, <2>3 DEF Ok
    <3>2. Once(h)
      <4>1. \A s \in Slots : Busy(h, s) => Busy(m, s)
        BY <2>2 DEF Busy
      <4> QED BY <2>2, <3>1, <4>1 DEF Pinned, Once
    <3>3. Marked(h)
      <4>1. \A s \in Slots : Busy(h, s) => Busy(m, s) /\ h.minode[s] = m.minode[s]
        BY <2>2 DEF Busy
      <4>2. Marked(m)
        BY <3>1 DEF Pinned
      <4> QED BY <1>4, <4>1, <4>2, Numbering DEF Marked, Holding, DirType
    <3> QED BY <2>1, <2>2, <3>1, <3>2, <3>3 DEF Pinned, DirType
  <2>4. Kept(h)
    BY <1>3, <1>4, <1>5, <1>7, <1>9, <2>1, <2>3 DEF Kept, Rests
  <2>5. ASSUME Careful, d = c PROVE h.minode[c].ino = i
    BY <1>1, <2>3, <2>5
  <2> QED BY <2>4, <2>5 DEF h, d
<1> QED BY <1>8, <1>9

-----------------------------------------------------------------------------
(* The start of a command, of a run, and their ends.                       *)

Begin(h, j) == [minode |-> h.minode, cwd |-> h.cwd, st |-> h.st,
                itable |-> [i \in Inos \cup {0} |-> IF i = 0 THEN j ELSE h.itable[i]],
                imap |-> h.imap, bmap |-> h.bmap, dir |-> h.dir]

Booted(h) == [minode |-> IgetTable(IgetTable(Blank, h.itable, ROOT), h.itable, ROOT),
              cwd |-> Root, st |-> "up", itable |-> h.itable,
              imap |-> h.imap, bmap |-> h.bmap, dir |-> h.dir]

\* A command starts on a machine that is Ok, with root and cwd in hand.
LEMMA BeginOk ==
    ASSUME NEW h, Kept(h), h.st # "down", NEW j \in INODEs
    PROVE  Ok(Begin(h, j), Pins(h.cwd), h.cwd, h.minode[h.cwd].ino)
<1> DEFINE m == Begin(h, j)
<1>1. h \in States /\ h.cwd \in Slots
  <2>1. h \in States /\ h.cwd # NULL
    BY DEF Kept
  <2> QED BY <2>1 DEF States
<1>2. /\ m.minode = h.minode /\ m.cwd = h.cwd /\ m.st = h.st /\ m.imap = h.imap
      /\ m.bmap = h.bmap /\ m.dir = h.dir
      /\ m.itable = [i \in Inos \cup {0} |-> IF i = 0 THEN j ELSE h.itable[i]]
      /\ \A i \in Inos : m.itable[i] = h.itable[i]
  BY Numbering DEF Begin
<1>3. m \in Machines
  <2> DEFINE T == m.itable
  <2>1. h.itable \in [Inos -> INODEs]
    BY <1>1 DEF States
  <2>2. T \in [Inos \cup {0} -> INODEs]
    BY <1>2, <2>1
  <2>3. m = [minode |-> h.minode, cwd |-> h.cwd, st |-> h.st, itable |-> T,
             imap |-> h.imap, bmap |-> h.bmap, dir |-> h.dir]
    BY <1>2 DEF Begin
  <2> HIDE DEF T, m
  <2> QED BY <1>1, <2>2, <2>3 DEF States, Machines
<1> HIDE DEF m
<1>4. Points(m) = Points(h)
  BY <1>2 DEF Points
<1>5. m \in Sounds
  BY <1>2, <1>3, <1>4, FewerApart DEF Sounds, Kept
<1>6. ASSUME Careful PROVE Pinned(m, Pins(h.cwd), h.cwd, h.minode[h.cwd].ino)
  <2>1. Pinned(h, Pins(h.cwd), h.cwd, h.minode[h.cwd].ino)
    BY <1>6 DEF Kept, Rests
  <2>2. Once(m)
    BY <1>2, <2>1 DEF Pinned, Once, Busy
  <2>3. Marked(m)
    <3>1. Marked(h)
      BY <2>1 DEF Pinned
    <3> QED BY <1>2, <3>1, Numbering DEF Marked, Busy, Holding, DirType
  <2> QED BY <1>2, <2>1, <2>2, <2>3 DEF Pinned, DirType
<1> QED BY <1>5, <1>6 DEF Ok, m

\* A command that only stops the program.
LEMMA StopOk ==
    ASSUME NEW m, NEW c, NEW i, Ok(m, Pins(c), c, i), NEW how \in {"down", "hung", "undefined"}
    PROVE  After([m EXCEPT !.st = how], c, i)
<1> DEFINE n == [m EXCEPT !.st = how]
<1>1. m \in Machines
  BY Held
<1>2. /\ n \in Machines /\ n.minode = m.minode /\ n.itable = m.itable /\ n.imap = m.imap
      /\ n.bmap = m.bmap /\ n.cwd = m.cwd
  BY <1>1 DEF Machines
<1> HIDE DEF n
<1>3. Ok(n, Pins(c), c, i)
  BY <1>2, SameOk
<1>4. After(n, c, i)
  BY <1>3, Stays
<1> QED BY <1>4 DEF n

\* quit(): the dirty slots with one user are written back.
LEMMA QuitOk ==
    ASSUME NEW m, NEW c, NEW i, Ok(m, Pins(c), c, i), NEW how \in {"down", "undefined"}
    PROVE  After([m EXCEPT !.itable = QuitDisk(m.minode, m.itable), !.st = how], c, i)
<1> DEFINE D == QuitDisk(m.minode, m.itable)
           n == [m EXCEPT !.itable = D]
           From(j) == {s \in Flushed(m.minode) : m.minode[s].ino = j}
<1>1. m \in Machines /\ m \in Sounds
  BY Held
<1>2. m.itable \in [Inos \cup {0} -> INODEs] /\ m.minode \in [Slots -> MINODEs]
  BY <1>1 DEF Machines
<1>3. ASSUME NEW j \in Inos \cup {0}
      PROVE  \/ D[j] = m.itable[j]
             \/ \E s \in Slots : Holding(m, s, j) /\ D[j] = m.minode[s].INODE
  <2>1. D[j] = IF From(j) = {} THEN m.itable[j] ELSE m.minode[LastOf(From(j))].INODE
    BY <1>2 DEF QuitDisk
  <2>2. CASE From(j) = {}
    BY <2>1, <2>2
  <2>3. CASE From(j) # {}
    <3>1. From(j) \subseteq 1 .. NMINODE
      BY DEF Flushed, Slots
    <3> DEFINE s == LastOf(From(j))
    <3>2. s \in From(j)
      <4> HIDE DEF From
      <4> QED BY <2>3, <3>1, LastIn, NMINODEAssumption
    <3>3. s \in Slots /\ m.minode[s].refCount = 1 /\ m.minode[s].ino = j
      BY <3>2 DEF Flushed
    <3>4. D[j] = m.minode[s].INODE
      BY <2>1, <2>3
    <3> HIDE DEF s, D
    <3> QED BY <3>3, <3>4 DEF Holding, Busy
  <2> QED BY <2>2, <2>3
<1>4. D \in [Inos \cup {0} -> INODEs]
  <2>1. \A s \in Slots : m.minode[s].INODE \in INODEs
    BY <1>2 DEF MINODEs
  <2>2. \A j \in Inos \cup {0} : D[j] \in INODEs
    BY <1>2, <1>3, <2>1
  <2>3. D = [j \in Inos \cup {0} |-> D[j]]
    BY <1>2 DEF QuitDisk
  <2> HIDE DEF D
  <2> QED BY <2>2, <2>3
<1> HIDE DEF D, From
<1>5. /\ n \in Machines /\ n.minode = m.minode /\ n.itable = D /\ n.imap = m.imap
      /\ n.bmap = m.bmap /\ n.cwd = m.cwd
      /\ [n EXCEPT !.st = how] = [m EXCEPT !.itable = D, !.st = how]
  BY <1>1, <1>4 DEF Machines
<1> HIDE DEF n
<1>6. Points(n) \subseteq Points(m)
  <2> SUFFICES ASSUME NEW j \in Inos, NEW l \in 1 .. NDIRECT, NEW b \in Blks,
                      \/ n.itable[j].block[l] = b
                      \/ \E s \in Slots : /\ n.minode[s].ino = j
                                          /\ n.minode[s].INODE.block[l] = b
               PROVE  \/ m.itable[j].block[l] = b
                      \/ \E s \in Slots : /\ m.minode[s].ino = j
                                          /\ m.minode[s].INODE.block[l] = b
    BY DEF Points
  <2> QED BY <1>3, <1>5 DEF Holding
<1>7. n \in Sounds
  BY <1>1, <1>5, <1>6, FewerApart DEF Sounds
<1>8. ASSUME Careful PROVE Pinned(n, Pins(c), c, i)
  <2>1. Pinned(m, Pins(c), c, i)
    BY <1>8 DEF Ok
  <2>2. Once(n)
    BY <1>5, <2>1 DEF Pinned, Once, Busy
  <2>3. Once(m) /\ Marked(m) /\ DirType(m, Root) /\ m.minode[Root].ino = ROOT
    BY <2>1 DEF Pinned
  <2>4. Busy(m, Root)
    <3>1. m.minode[Root].refCount >= Pins(c)[Root] /\ Pins(c)[Root] >= 1
      BY <2>1, Numbering DEF Pinned, Pins
    <3>2. m.minode[Root].refCount \in Int /\ Pins(c)[Root] \in Int
      BY <1>2, Numbering DEF MINODEs, Pins
    <3> QED BY <3>1, <3>2 DEF Busy
  <2>5. ASSUME NEW j \in Inos, D[j].type = "dir"
        PROVE  /\ j \in m.imap
               /\ \A s \in Slots : Holding(m, s, j) => DirType(m, s)
    <3>1. CASE D[j] = m.itable[j]
      BY <2>3, <2>5, <3>1 DEF Marked
    <3>2. CASE \E s \in Slots : Holding(m, s, j) /\ D[j] = m.minode[s].INODE
      <4>1. PICK s \in Slots : Holding(m, s, j) /\ D[j] = m.minode[s].INODE
        BY <3>2
      <4>2. Busy(m, s) /\ DirType(m, s) /\ m.minode[s].ino = j /\ j # 0
        BY <2>5, <4>1, Numbering DEF Holding, DirType
      <4>3. j \in m.imap
        BY <2>3, <4>2 DEF Marked
      <4>4. \A t \in Slots : Holding(m, t, j) => t = s
        BY <2>3, <4>2 DEF Once, Holding
      <4> QED BY <4>2, <4>3, <4>4
    <3> QED BY <1>3, <3>1, <3>2
  <2>6. D[ROOT].type = "dir"
    <3>1. CASE D[ROOT] = m.itable[ROOT]
      BY <2>3, <3>1 DEF Marked
    <3>2. CASE \E s \in Slots : Holding(m, s, ROOT) /\ D[ROOT] = m.minode[s].INODE
      <4>1. PICK s \in Slots : Holding(m, s, ROOT) /\ D[ROOT] = m.minode[s].INODE
        BY <3>2
      <4>2. s = Root
        BY <2>3, <2>4, <4>1, Numbering DEF Once, Holding
      <4> QED BY <2>3, <4>1, <4>2 DEF DirType
    <3> QED BY <1>3, <3>1, <3>2, Numbering
  <2>7. Marked(n)
    <3>1. \A s \in Slots : /\ Busy(n, s) = Busy(m, s) /\ DirType(n, s) = DirType(m, s)
                           /\ n.minode[s].ino = m.minode[s].ino
                           /\ \A j : Holding(n, s, j) = Holding(m, s, j)
      BY <1>5 DEF Busy, DirType, Holding
    <3> QED BY <1>5, <2>3, <2>5, <2>6, <3>1 DEF Marked
  <2> QED BY <1>5, <2>1, <2>2, <2>7 DEF Pinned, DirType
<1>9. Ok(n, Pins(c), c, i)
  BY <1>7, <1>8 DEF Ok
<1>10. After([n EXCEPT !.st = how], c, i)
  BY <1>9, StopOk
<1> QED BY <1>5, <1>10 DEF D

-----------------------------------------------------------------------------
\* mount_root() and main(): root and cwd are the first slot, with two references.
LEMMA FirstSlot ==
    FirstOf(Slots) = Root
<1>1. Root \in Slots /\ Slots \subseteq Nat /\ \A s \in Slots : Root <= s
  BY NMINODEAssumption DEF Slots, Root
<1>2. FirstOf(Slots) \in Slots /\ \A s \in Slots : FirstOf(Slots) <= s
  BY <1>1 DEF FirstOf
<1>3. FirstOf(Slots) \in Nat /\ FirstOf(Slots) <= Root /\ Root <= FirstOf(Slots) /\ Root \in Nat
  BY <1>1, <1>2
<1> HIDE DEF Root
<1> QED BY <1>3

\* A run starts with two references to the first slot, root's and cwd's.
LEMMA BootOk ==
    ASSUME NEW h, Kept(h), h.st = "down"
    PROVE  Kept(Booted(h))
<1> DEFINE a == IgetTable(Blank, h.itable, ROOT)
           b == IgetTable(a, h.itable, ROOT)
           n == Booted(h)
           y == h.itable[ROOT]
<1>1. h \in States /\ h.minode = Blank /\ Apart(h)
  BY DEF Kept
<1>2. h.itable \in [Inos -> INODEs] /\ y \in INODEs /\ ROOT \in Inos \cup {0}
  BY <1>1, Numbering DEF States
<1>3. /\ a \in [Slots -> MINODEs]
      /\ a[Root].ino = ROOT /\ a[Root].refCount = 1 /\ a[Root].INODE = y
      /\ \A r \in Slots : r # Root => a[r] = Blank[r]
  <2>1. InCore(Blank, ROOT) = {} /\ Unused(Blank) = Slots
    BY BlankEmpty DEF InCore, Unused
  <2>2. IgetSlot(Blank, ROOT) = Root /\ Root # NULL
    BY <2>1, FirstSlot, Numbering DEF IgetSlot
  <2>3. \A r \in Slots : Blank[r].refCount = 0
    BY BlankEmpty
  <2> HIDE DEF a, y
  <2> QED BY <1>2, <2>2, <2>3, BlankTypes, IgetTableEffect DEF a, y
<1>4. /\ b \in [Slots -> MINODEs]
      /\ b[Root].ino = ROOT /\ b[Root].refCount = 2 /\ b[Root].INODE = y
      /\ \A r \in Slots : r # Root => b[r] = Blank[r]
  <2> HIDE DEF a, y
  <2>1. InCore(a, ROOT) = {Root}
    BY <1>3, BlankEmpty, Numbering DEF InCore
  <2>2. IgetSlot(a, ROOT) = Root /\ Root # NULL
    <3>1. IgetSlot(a, ROOT) \in {Root}
      BY <2>1, IgetSlotCases
    <3> QED BY <3>1, Numbering
  <2>3. a[Root].refCount # 0
    BY <1>3
  <2> QED BY <1>2, <1>3, <2>2, <2>3, IgetTableEffect DEF b, y
<1>5. /\ n.minode = b /\ n.cwd = Root /\ n.st = "up" /\ n.itable = h.itable
      /\ n.imap = h.imap /\ n.bmap = h.bmap /\ n.dir = h.dir
  BY DEF Booted
<1>6. n \in States
  <2>1. n = [minode |-> b, cwd |-> Root, st |-> "up", itable |-> h.itable,
             imap |-> h.imap, bmap |-> h.bmap, dir |-> h.dir]
    BY DEF Booted
  <2> HIDE DEF n, b
  <2> QED BY <1>1, <1>4, <2>1, Numbering DEF States
<1> HIDE DEF n, b, a
<1>7. Points(n) \subseteq Points(h)
  <2> SUFFICES ASSUME NEW j \in Inos, NEW l \in 1 .. NDIRECT, NEW k \in Blks,
                      \/ n.itable[j].block[l] = k
                      \/ \E s \in Slots : /\ n.minode[s].ino = j
                                          /\ n.minode[s].INODE.block[l] = k
               PROVE  h.itable[j].block[l] = k
    BY DEF Points
  <2>1. ASSUME NEW s \in Slots, n.minode[s].ino = j, n.minode[s].INODE.block[l] = k
        PROVE  h.itable[j].block[l] = k
    <3>1. s = Root
      <4>1. k # 0
        BY Numbering
      <4> QED BY <1>4, <1>5, <2>1, <4>1, BlankEmpty
    <3> QED BY <1>4, <1>5, <2>1, <3>1 DEF y
  <2> QED BY <1>5, <2>1
<1>8. Apart(n)
  BY <1>1, <1>5, <1>7, FewerApart
<1>9. ASSUME Careful PROVE Pinned(n, Pins(Root), Root, ROOT)
  <2>1. Marked(h)
    BY <1>9 DEF Kept, Rests
  <2>2. y.type = "dir" /\ ROOT \in h.imap
    BY <2>1, Numbering DEF Marked, y
  <2>3. \A s \in Slots : Busy(n, s) => s = Root
    BY <1>4, <1>5, BlankEmpty DEF Busy
  <2>4. Once(n)
    BY <2>3 DEF Once
  <2>5. DirType(n, Root)
    BY <1>4, <1>5, <2>2 DEF DirType
  <2>6. Marked(n)
    <3>1. \A s \in Slots : Busy(n, s) => s = Root /\ DirType(n, s) /\ n.minode[s].ino = ROOT
      BY <1>4, <1>5, <2>3, <2>5
    <3> QED BY <1>5, <2>1, <2>2, <3>1 DEF Marked, Holding
  <2>7. ASSUME NEW s \in Slots PROVE n.minode[s].refCount >= Pins(Root)[s]
    BY <1>4, <1>5, BlankEmpty DEF Pins
  <2>8. ROOT # 0
    BY Numbering
  <2> QED BY <1>4, <1>5, <2>4, <2>5, <2>6, <2>7, <2>8, PinsType DEF Pinned
<1>10. Root # NULL
  BY Numbering
<1> QED BY <1>4, <1>5, <1>6, <1>8, <1>9, <1>10 DEF Kept, Rests, n

-----------------------------------------------------------------------------
(* The invariant, of the variables.                                        *)

Here == [minode |-> minode, cwd |-> cwd, st |-> st, itable |-> itable,
         imap |-> imap, bmap |-> bmap, dir |-> dir]

SpaceInv == Kept(Here)

\* A disk that mkfs made.
LEMMA SpaceInit == Init => SpaceInv
<1> SUFFICES ASSUME Init PROVE SpaceInv
  OBVIOUS
<1> DEFINE root == INODE("dir", 2, 1)
           none == INODE("none", 0, 0)
           dots == <<Entry(".", ROOT), Entry("..", ROOT)>>
<1>1. /\ Here.minode = Blank /\ Here.cwd = NULL /\ Here.st = "down" /\ Here.imap = 1 .. ROOT
      /\ Here.bmap = {1}
      /\ Here.itable = [i \in Inos |-> IF i = ROOT THEN root ELSE none]
      /\ Here.dir = [b \in Blks \cup {0} |-> IF b = 1 THEN dots ELSE <<>>]
  BY DEF Here, Init
<1>2. /\ root \in INODEs /\ root.type = "dir"
      /\ \A k \in 1 .. NDIRECT : root.block[k] = IF k = 1 THEN 1 ELSE 0
      /\ none \in INODEs /\ none.type = "none"
      /\ \A k \in 1 .. NDIRECT : none.block[k] = 0
  <2>1. 2 \in U16 /\ 0 \in U16
    BY SMT DEF U16
  <2>2. 1 \in Blks
    BY GeometryAssumption DEF Blks
  <2> DEFINE b == 1
             z == 0
  <2>3. b \in Blks \cup {0} /\ z \in Blks \cup {0}
    BY <2>2
  <2> HIDE DEF b, z
  <2>4. \A l \in U16 : /\ INODE("dir", l, b) \in INODEs /\ INODE("dir", l, b).type = "dir"
                       /\ \A k \in 1 .. NDIRECT :
                             INODE("dir", l, b).block[k] = IF k = 1 THEN b ELSE 0
                       /\ INODE("none", l, z) \in INODEs /\ INODE("none", l, z).type = "none"
                       /\ \A k \in 1 .. NDIRECT :
                             INODE("none", l, z).block[k] = IF k = 1 THEN z ELSE 0
    BY <2>3, NewINODE
  <2> HIDE DEF root, none
  <2> QED BY <2>1, <2>4 DEF root, none, b, z
<1>3. dots \in Chains
  <2>1. Entry(".", ROOT) \in EntryType /\ Entry("..", ROOT) \in EntryType
    BY NamesAssumption, Numbering DEF Entry, EntryType
  <2>2. dots \in Seq(EntryType)
    BY <2>1
  <2> HIDE DEF dots
  <2> QED BY <2>2 DEF Chains, EntryType
<1> HIDE DEF root, none, dots
<1>4. Here \in States
  <2> DEFINE I == [i \in Inos |-> IF i = ROOT THEN root ELSE none]
             D == [b \in Blks \cup {0} |-> IF b = 1 THEN dots ELSE <<>>]
  <2>1. I \in [Inos -> INODEs]
    BY <1>2
  <2>2. D \in [Blks \cup {0} -> Chains]
    <3>1. <<>> \in Chains
      BY DEF Chains
    <3> QED BY <1>3, <3>1
  <2>3. 1 .. ROOT \in SUBSET Inos /\ {1} \in SUBSET Blks
    BY GeometryAssumption DEF ROOT, Inos, Blks
  <2>4. Here = [minode |-> Blank, cwd |-> NULL, st |-> "down", itable |-> I,
                imap |-> 1 .. ROOT, bmap |-> {1}, dir |-> D]
    BY DEF Here, Init, root, none, dots
  <2> HIDE DEF I, D
  <2> QED BY <2>1, <2>2, <2>3, <2>4, BlankTypes DEF States
<1>5. \A x \in Points(Here) : x = <<ROOT, 1, 1>>
  <2> SUFFICES ASSUME NEW j \in Inos, NEW l \in 1 .. NDIRECT, NEW b \in Blks,
                      \/ Here.itable[j].block[l] = b
                      \/ \E s \in Slots : /\ Here.minode[s].ino = j
                                          /\ Here.minode[s].INODE.block[l] = b
               PROVE  j = ROOT /\ l = 1 /\ b = 1
    BY DEF Points
  <2>1. Here.itable[j].block[l] = b
    BY <1>1, BlankEmpty, Numbering
  <2> QED BY <1>1, <1>2, <2>1, Numbering
<1>6. Apart(Here)
  BY <1>1, <1>5 DEF Apart
<1>7. Marked(Here)
  <2>1. \A s \in Slots : ~ Busy(Here, s)
    BY <1>1, BlankEmpty DEF Busy
  <2>2. ROOT \in 1 .. ROOT
    BY DEF ROOT
  <2> QED BY <1>1, <1>2, <2>1, <2>2, Numbering DEF Marked, Holding
<1> QED BY <1>1, <1>4, <1>6, <1>7 DEF SpaceInv, Kept, Rests

\* What a command does to the directory the process is in.
Stayed == cwd' = cwd /\ st = "up" /\ st' = "up" => minode'[cwd].ino = minode[cwd].ino

\* A command that ends Ok ends in the invariant.
LEMMA LeavesOk ==
    ASSUME NEW m, After(m, cwd, minode[cwd].ino), Leaves(m)
    PROVE  SpaceInv' /\ (Careful => Stayed)
<1>1. /\ minode' = (IF m.st = "down" THEN Blank ELSE Forget(m))
      /\ cwd' = (IF m.st = "down" THEN NULL ELSE m.cwd)
      /\ st' = m.st /\ itable' = [i \in Inos |-> m.itable[i]]
      /\ imap' = m.imap /\ bmap' = m.bmap /\ dir' = m.dir
  BY DEF Leaves
<1>2. Here' = Ends(m)
  BY <1>1 DEF Here, Ends
<1>3. /\ Kept(Ends(m))
      /\ Careful /\ m.cwd = cwd /\ m.st # "down" => Ends(m).minode[cwd].ino = minode[cwd].ino
  BY EndsOk
<1>4. SpaceInv'
  <2>1. Kept(Here')
    BY <1>2, <1>3
  <2> QED BY <2>1 DEF SpaceInv
<1>5. Careful => Stayed
  BY <1>1, <1>3 DEF Stayed, Ends
<1> QED BY <1>4, <1>5

\* The machine of a command, from the variables.
LEMMA NowOk ==
    ASSUME SpaceInv, st # "down", NEW j \in Junk
    PROVE  Ok(Now(j), Pins(cwd), cwd, minode[cwd].ino)
<1>1. j \in INODEs /\ Here.st # "down"
  BY JunkAssumption DEF Here
<1>2. Ok(Begin(Here, j), Pins(Here.cwd), Here.cwd, Here.minode[Here.cwd].ino)
  BY <1>1, BeginOk DEF SpaceInv
<1>3. Begin(Here, j) = Now(j) /\ Here.cwd = cwd /\ Here.minode = minode
  BY DEF Begin, Here, Now
<1> QED BY <1>2, <1>3

\* Every command keeps the invariant, one case each.
LEMMA SpaceStep ==
    ASSUME SpaceInv, [Next]_vars
    PROVE  SpaceInv' /\ (Careful => Stayed)
<1> DEFINE i == minode[cwd].ino
<1>1. \A p \in Paths : p \in PathType
  BY PathsAssumption
<1>2. \A p \in Named : p \in PathType /\ p.comps # <<>>
  BY PathsAssumption DEF Named
<1>3. ASSUME NEW m, Leaves(m), Ok(m, Pins(cwd), cwd, i)
      PROVE  SpaceInv' /\ (Careful => Stayed)
  BY <1>3, Stays, LeavesOk
<1>4. ASSUME NEW m, Leaves(m), ~ Careful, m \in Sounds
      PROVE  SpaceInv' /\ (Careful => Stayed)
  BY <1>3, <1>4, Loose
<1>5. st = "up" => st # "down"
  OBVIOUS
<1>6. \A j \in Junk : st # "down" => Ok(Now(j), Pins(cwd), cwd, i) /\ Now(j) \in Sounds
  BY NowOk, Held
<1> HIDE DEF i
<1>7. CASE Mkdir
  <2>1. PICK p \in Named, j \in Junk : Leaves(MyMkdir(Now(j), p))
    BY <1>7 DEF Mkdir
  <2>2. Ok(MyMkdir(Now(j), p), Pins(cwd), cwd, i)
    BY <1>2, <1>5, <1>6, <1>7, MyMkdirOk DEF Mkdir, Runs
  <2> QED BY <1>3, <2>1, <2>2
<1>8. CASE Creat
  <2>1. PICK p \in Named, j \in Junk : Leaves(MyCreat(Now(j), p))
    BY <1>8 DEF Creat
  <2>2. Ok(MyCreat(Now(j), p), Pins(cwd), cwd, i)
    BY <1>2, <1>5, <1>6, <1>8, MyMkdirOk DEF Creat, Runs
  <2> QED BY <1>3, <2>1, <2>2
<1>9. CASE Rmdir
  <2>1. PICK p \in Named, j \in Junk : Leaves(MyRmdir(Now(j), p))
    BY <1>9 DEF Rmdir
  <2>2. ~ Careful
    BY <1>9 DEF Rmdir, Runs, Careful
  <2>3. MyRmdir(Now(j), p) \in Sounds
    BY <1>2, <1>5, <1>6, <1>9, <2>2, MyRmdirOk DEF Rmdir, Runs
  <2> QED BY <1>4, <2>1, <2>2, <2>3
<1>10. CASE Unlink
  <2>1. PICK p \in Named, j \in Junk : Leaves(MyUnlink(Now(j), p))
    BY <1>10 DEF Unlink
  <2>2. ~ Careful
    BY <1>10 DEF Unlink, Runs, Careful
  <2>3. MyUnlink(Now(j), p) \in Sounds
    BY <1>2, <1>5, <1>6, <1>10, <2>2, MyUnlinkOk DEF Unlink, Runs
  <2> QED BY <1>4, <2>1, <2>2, <2>3
<1>11. CASE Link
  <2>1. PICK p \in Paths, q \in Named, j \in Junk : Leaves(MyLink(Now(j), p, q))
    BY <1>11 DEF Link
  <2>2. Ok(MyLink(Now(j), p, q), Pins(cwd), cwd, i)
    BY <1>1, <1>2, <1>5, <1>6, <1>11, MyLinkOk DEF Link, Runs
  <2> QED BY <1>3, <2>1, <2>2
<1>12. CASE SymLink
  <2>1. PICK p \in Named, q \in Named, j \in Junk : Leaves(MySymLink(Now(j), p, q))
    BY <1>12 DEF SymLink
  <2>2. ~ Careful
    BY <1>12 DEF SymLink, Runs, Careful
  <2>3. MySymLink(Now(j), p, q) \in Sounds
    BY <1>2, <1>5, <1>6, <1>12, <2>2, MySymLinkOk DEF SymLink, Runs
  <2> QED BY <1>4, <2>1, <2>2, <2>3
<1>13. CASE ChangeDir
  <2>1. PICK p \in Paths, j \in Junk : Leaves(Cd(Now(j), p))
    BY <1>13 DEF ChangeDir
  <2>2. After(Cd(Now(j), p), cwd, i)
    BY <1>1, <1>5, <1>6, <1>13, CdOk DEF ChangeDir, Runs
  <2> QED BY <2>1, <2>2, LeavesOk DEF i
<1>14. CASE List
  <2>1. PICK j \in Junk : \/ Leaves(LsCwd(Now(j)))
                          \/ \E p \in Paths : Leaves(Ls(Now(j), p))
    BY <1>14 DEF List
  <2>2. /\ Ok(LsCwd(Now(j)), Pins(cwd), cwd, i)
        /\ \A p \in Paths : Ok(Ls(Now(j), p), Pins(cwd), cwd, i)
    BY <1>1, <1>5, <1>6, <1>14, LsCwdOk, LsOk DEF List, Runs
  <2> QED BY <1>3, <2>1, <2>2
<1>15. CASE PrintDir
  <2>1. PICK j \in Junk : Leaves(Pwd(Now(j)))
    BY <1>15 DEF PrintDir
  <2>2. Ok(Pwd(Now(j)), Pins(cwd), cwd, i)
    BY <1>5, <1>6, <1>15, PwdOk DEF PrintDir, Runs
  <2> QED BY <1>3, <2>1, <2>2
<1>16. CASE Quit
  <2> DEFINE how == IF \E s \in Flushed(minode) : minode[s].ino = 0 THEN "undefined" ELSE "down"
  <2>1. PICK j \in Junk : Leaves([Now(j) EXCEPT !.itable = QuitDisk(minode, @), !.st = how])
    BY <1>16 DEF Quit
  <2> DEFINE m == Now(j)
  <2>2. /\ Ok(m, Pins(cwd), cwd, i) /\ m.minode = minode
        /\ Leaves([m EXCEPT !.itable = QuitDisk(m.minode, m.itable), !.st = how])
    BY <1>5, <1>6, <1>16, <2>1 DEF Quit, Runs, Now
  <2>3. how \in {"down", "undefined"}
    OBVIOUS
  <2> HIDE DEF m, how
  <2>4. After([m EXCEPT !.itable = QuitDisk(m.minode, m.itable), !.st = how], cwd, i)
    BY <2>2, <2>3, QuitOk
  <2> QED BY <2>2, <2>4, LeavesOk DEF i
<1>17. CASE Kill
  <2>1. PICK j \in Junk : Leaves([Now(j) EXCEPT !.st = "down"])
    BY <1>17 DEF Kill
  <2>2. st # "down"
    BY <1>17 DEF Kill
  <2>3. After([Now(j) EXCEPT !.st = "down"], cwd, i)
    BY <1>6, <2>2, StopOk
  <2> QED BY <2>1, <2>3, LeavesOk DEF i
<1>18. CASE Boot
  <2>1. st = "down" /\ Here.st = "down" /\ Here.itable = itable
    BY <1>18 DEF Boot, Here
  <2>2. Here' = Booted(Here)
    BY <1>18 DEF Boot, Here, Booted
  <2>3. Kept(Here')
    BY <2>1, <2>2, BootOk DEF SpaceInv
  <2> QED BY <2>1, <2>3 DEF SpaceInv, Stayed
<1>19. CASE UNCHANGED vars
  <2>1. Here' = Here
    BY <1>19 DEF vars, Here
  <2>2. Kept(Here')
    BY <2>1 DEF SpaceInv
  <2>3. Stayed
    BY <1>19 DEF vars, Stayed
  <2> QED BY <2>2, <2>3 DEF SpaceInv
<1> QED BY <1>7, <1>8, <1>9, <1>10, <1>11, <1>12, <1>13, <1>14, <1>15, <1>16, <1>17,
           <1>18, <1>19 DEF Next

-----------------------------------------------------------------------------
(* What the invariant says of the properties of Namespace.                 *)

\* The parts of the invariant.
LEMMA HereParts ==
    ASSUME SpaceInv
    PROVE  /\ TypeOK
           /\ Apart(Here)
           /\ Careful => IF st = "down" THEN minode = Blank
                         ELSE Pinned(Here, Pins(cwd), cwd, minode[cwd].ino)
<1>1. /\ Here.minode = minode /\ Here.cwd = cwd /\ Here.st = st /\ Here.itable = itable
      /\ Here.imap = imap /\ Here.bmap = bmap /\ Here.dir = dir
  BY DEF Here
<1>2. Kept(Here)
  BY DEF SpaceInv
<1> HIDE DEF Here
<1>3. Here \in States
  BY <1>2 DEF Kept
<1> QED BY <1>1, <1>2, <1>3 DEF Kept, Rests, States, TypeOK

\* The INODE of a number is one of its copies.
LEMMA CurrentIs ==
    ASSUME SpaceInv, NEW i \in Inos
    PROVE  /\ Current(i) \in INODEs
           /\ \/ Current(i) = itable[i]
              \/ \E s \in Slots : /\ minode[s].refCount # 0 /\ minode[s].ino = i
                                  /\ Current(i) = minode[s].INODE
<1>1. TypeOK
  BY HereParts
<1>2. CASE InCore(minode, i) = {}
  BY <1>1, <1>2 DEF Current, TypeOK
<1>3. CASE InCore(minode, i) # {}
  <2> DEFINE s == FirstOf(InCore(minode, i))
  <2>1. InCore(minode, i) \subseteq Nat
    BY Numbering DEF InCore
  <2>2. s \in InCore(minode, i)
    BY <1>3, <2>1, FirstIn
  <2>3. Current(i) = minode[s].INODE
    BY <1>3 DEF Current
  <2> HIDE DEF s
  <2>4. s \in Slots /\ minode[s].refCount # 0 /\ minode[s].ino = i
    BY <2>2 DEF InCore
  <2>5. minode[s] \in MINODEs
    BY <1>1, <2>4 DEF TypeOK
  <2> QED BY <2>3, <2>4, <2>5 DEF MINODEs
<1> QED BY <1>2, <1>3

\* The block pointers the users see are among those the invariant speaks of.
LEMMA CurrentPoints ==
    ASSUME SpaceInv, NEW i \in Inos, NEW k \in Owned(i)
    PROVE  <<i, k, Current(i).block[k]>> \in Points(Here)
<1> DEFINE b == Current(i).block[k]
<1>1. k \in 1 .. NDIRECT /\ b # 0
  BY DEF Owned
<1>2. b \in Blks
  BY <1>1, CurrentIs, InodeParts
<1>3. Here.itable = itable /\ Here.minode = minode
  BY DEF Here
<1>4. \/ itable[i].block[k] = b
      \/ \E s \in Slots : minode[s].ino = i /\ minode[s].INODE.block[k] = b
  BY CurrentIs
<1> HIDE DEF b
<1>5. <<i, k, b>> \in Points(Here)
  BY <1>1, <1>2, <1>3, <1>4 DEF Points
<1> QED BY <1>5 DEF b

\* An entry names an inode number of the device, or 0.
LEMMA LinkedInos ==
    ASSUME SpaceInv
    PROVE  Linked \ {0} \subseteq Inos
<1>1. TypeOK
  BY HereParts
<1>2. ASSUME NEW d \in Dirs, NEW e \in Children(d) PROVE e.ino \in Inos \cup {0}
  <2>1. d \in Inos
    BY <1>1 DEF Dirs, TypeOK
  <2>2. PICK b \in BlocksOf(Current(d)) : e \in ToSet(dir[b])
    BY DEF Children, Entries
  <2>3. b \in Blks \cup {0}
    BY <2>1, CurrentIs, InodeParts DEF BlocksOf
  <2>4. dir[b] \in Chains
    BY <1>1, <2>3 DEF TypeOK
  <2>5. PICK k \in DOMAIN dir[b] : e = dir[b][k]
    BY <2>2 DEF ToSet
  <2> QED BY <2>4, <2>5, ChainParts
<1> QED BY <1>2, Numbering DEF Linked

\* The invariant keeps the blocks of the inodes in use apart.
LEMMA SpaceBlocks ==
    ASSUME SpaceInv
    PROVE  BlocksPrivate
<1>1. Apart(Here) /\ Here.bmap = bmap
  BY HereParts DEF Here
<1>2. ASSUME NEW i \in Linked \ {0} PROVE BlocksOf(Current(i)) \subseteq bmap
  <2> SUFFICES ASSUME NEW k \in 1 .. NDIRECT, Current(i).block[k] # 0
               PROVE  Current(i).block[k] \in bmap
    BY DEF BlocksOf
  <2>1. i \in Inos /\ k \in Owned(i)
    BY LinkedInos DEF Owned
  <2>2. <<i, k, Current(i).block[k]>> \in Points(Here)
    BY <2>1, CurrentPoints
  <2> QED BY <1>1, <2>2 DEF Apart
<1>3. ASSUME NEW i \in Linked \ {0}, NEW j \in Linked \ {0}, NEW k \in Owned(i),
             NEW l \in Owned(j), Current(i).block[k] = Current(j).block[l]
      PROVE  i = j /\ k = l
  <2>1. i \in Inos /\ j \in Inos
    BY LinkedInos
  <2>2. /\ <<i, k, Current(i).block[k]>> \in Points(Here)
        /\ <<j, l, Current(j).block[l]>> \in Points(Here)
    BY <2>1, CurrentPoints
  <2>3. <<i, k, Current(i).block[k]>> = <<j, l, Current(j).block[l]>>
    BY <1>1, <1>3, <2>2 DEF Apart
  <2> QED BY <2>3
<1> QED BY <1>2, <1>3 DEF BlocksPrivate

\* The invariant lets an inode be in core once.
LEMMA SpaceOneCopy ==
    ASSUME SpaceInv, Careful
    PROVE  OneCopy
<1>1. Here.minode = minode
  BY DEF Here
<1>2. CASE st = "down"
  <2>1. minode = Blank
    BY <1>2, HereParts
  <2> QED BY <2>1, BlankEmpty DEF OneCopy
<1>3. CASE st # "down"
  <2>1. Once(Here)
    BY <1>3, HereParts DEF Pinned
  <2> QED BY <1>1, <2>1 DEF Once, Busy, OneCopy
<1> QED BY <1>2, <1>3

\* The invariant pins root and running->cwd.
LEMMA SpacePinned ==
    ASSUME SpaceInv, Careful
    PROVE  PointersPinned
<1> SUFFICES ASSUME st = "up"
             PROVE  /\ \A s \in Slots : minode[s].refCount >= 0
                    /\ \A s \in {Root, cwd} : minode[s].refCount > 0 /\ minode[s].ino \in Dirs
                    /\ minode[Root].ino = ROOT
  BY DEF PointersPinned
<1>1. Here.minode = minode /\ Here.imap = imap
  BY DEF Here
<1>2. Pinned(Here, Pins(cwd), cwd, minode[cwd].ino) /\ TypeOK
  BY HereParts
<1>3. cwd \in Slots /\ Root \in Slots /\ minode \in [Slots -> MINODEs]
  BY <1>2, Numbering DEF TypeOK
<1>4. \A s \in Slots : minode[s].refCount \in Int /\ minode[s].ino \in Inos \cup {0}
  BY <1>3 DEF MINODEs
<1>5. \A s \in Slots : minode[s].refCount >= Pins(cwd)[s] /\ Pins(cwd)[s] \in Nat
  BY <1>1, <1>2 DEF Pinned
<1>6. \A s \in Slots : minode[s].refCount >= 0
  BY <1>4, <1>5
<1>7. ASSUME NEW s \in {Root, cwd}
      PROVE  minode[s].refCount > 0 /\ minode[s].ino \in Dirs
  <2> DEFINE i == minode[s].ino
  <2>1. s \in Slots /\ Pins(cwd)[s] >= 1
    BY <1>3 DEF Pins
  <2>2. minode[s].refCount > 0
    BY <1>4, <1>5, <2>1
  <2>3. Busy(Here, s) /\ DirType(Here, s) /\ i # 0
    BY <1>1, <1>2, <1>3, <2>2, Numbering DEF Pinned, Busy, DirType
  <2>4. i \in imap /\ i \in Inos
    BY <1>1, <1>2, <1>4, <2>1, <2>3 DEF Pinned, Marked
  <2>5. Current(i).type = "dir"
    <3>1. s \in InCore(minode, i)
      BY <2>1, <2>2 DEF InCore
    <3>2. InCore(minode, i) \subseteq Nat
      BY Numbering DEF InCore
    <3> DEFINE t == FirstOf(InCore(minode, i))
    <3>3. t \in InCore(minode, i)
      BY <3>1, <3>2, FirstIn
    <3>4. Current(i) = minode[t].INODE
      BY <3>1 DEF Current
    <3> HIDE DEF t
    <3>5. t \in Slots /\ Busy(Here, t) /\ minode[t].ino = i
      BY <1>1, <3>3 DEF InCore, Busy
    <3>6. t = s
      BY <1>1, <1>2, <2>1, <2>3, <3>5 DEF Pinned, Once
    <3> QED BY <1>1, <2>3, <3>4, <3>6 DEF DirType
  <2> QED BY <2>2, <2>4, <2>5 DEF Dirs
<1>8. minode[Root].ino = ROOT
  BY <1>1, <1>2 DEF Pinned
<1> QED BY <1>6, <1>7, <1>8

-----------------------------------------------------------------------------
\* Whatever commands are typed, in every order, and however often the program is
\* killed, quit and started again: the state has its type, the block pointers are
\* apart and marked, and in a session of Careful commands root and cwd are pinned.
THEOREM SpaceInvariant == Spec => []SpaceInv
<1>1. SpaceInv /\ [Next]_vars => SpaceInv'
  BY SpaceStep
<1> QED BY <1>1, SpaceInit, PTL DEF Spec

\* The state has its type after every command: i_links_count stays a u16, a block or
\* inode number on the device, and running->cwd is NULL exactly when no process runs.
THEOREM SpaceTypes == Spec => []TypeOK
<1>1. SpaceInv => TypeOK
  BY HereParts
<1> QED BY <1>1, SpaceInvariant, PTL

\* No two inodes that a name leads to, and no two pointers of one, share a data block,
\* and balloc() will not hand out a block in use: with every command, rmdir, unlink
\* and symlink among them, although bdalloc() clears bits in the wrong bitmap.
THEOREM InodesOwnTheirBlocks == Spec => []BlocksPrivate
BY SpaceBlocks, SpaceInvariant, PTL

\* While nothing is removed and no symbolic link is made, an inode is in core at most
\* once, so the changes made through one slot are those every other user sees.
THEOREM OneCopyInCore ==
    ASSUME Careful
    PROVE  Spec => []OneCopy
<1>1. SpaceInv => OneCopy
  BY SpaceOneCopy
<1> QED BY <1>1, SpaceInvariant, PTL

\* In such a session no count goes below zero, and root and running->cwd point to slots
\* that are counted and hold directories of the tree: no iput() of mkdir, creat, link,
\* cd, ls or pwd gives back what mount_root() and cd hold.
THEOREM RootAndCwdAreHeld ==
    ASSUME Careful
    PROVE  Spec => []PointersPinned
<1>1. SpaceInv => PointersPinned
  BY SpacePinned
<1> QED BY <1>1, SpaceInvariant, PTL

\* In such a session the slot running->cwd points to names the same directory until cd
\* moves the pointer.
THEOREM CwdIsNotRecycled ==
    ASSUME Careful
    PROVE  Spec => CwdKeepsInode
<1>1. SpaceInv /\ [Next]_vars
        => [cwd' = cwd /\ st = "up" /\ st' = "up" => minode'[cwd].ino = minode[cwd].ino]_vars
  BY SpaceStep DEF Stayed
<1> QED BY <1>1, SpaceInvariant, PTL DEF Spec, CwdKeepsInode
=============================================================================
