----------------------------- MODULE TreeProofs -----------------------------
(***************************************************************************)
(* What every size of the file system keeps of the tree of names.          *)
(***************************************************************************)
EXTENDS NamespaceProofs

-----------------------------------------------------------------------------
(* Commands that only read the tree.                                       *)

\* The number of every slot, and of every entry, is allocated or 0.
Known(m) == \A s \in Slots : m.minode[s].ino \in m.imap \cup {0}
Listed(m) == \A b \in Blks \cup {0} : \A k \in DOMAIN m.dir[b] :
                m.dir[b][k].ino \in m.imap \cup {0}

\* The machines with inode bitmap I where that is so.
Tame(I) == {x \in Machines : x.imap = I /\ Known(x) /\ Listed(x)}

\* The machines W are closed under the steps that getino(), ls, pwd and cd are made of.
Serves(W, I) ==
    /\ ROOT \in I /\ W \subseteq Tame(I)
    /\ \A x \in W, how \in {"down", "hung", "undefined"} : Fail(x, how) \in W
    /\ \A x \in W, ino \in I \cup {0} : Iget(x, ino) \in W
    /\ \A x \in W, s \in Slots : Iput(x, s) \in W
    /\ \A x \in W, s \in Slots : [x EXCEPT !.minode[s].refCount = @ + 1] \in W
    /\ \A x \in W, s \in Slots : [x EXCEPT !.cwd = s] \in W

\* The parts of such a machine.
LEMMA ServesParts ==
    ASSUME NEW W, NEW I, Serves(W, I), NEW x \in W
    PROVE  /\ x \in Machines /\ x.imap = I /\ I \subseteq Inos /\ ROOT \in I
           /\ x.cwd \in Slots
           /\ \A s \in Slots : /\ x.minode[s].ino \in I \cup {0}
                               /\ Inode(x, s) \in INODEs
                               /\ \A k \in 1 .. NDIRECT :
                                     Inode(x, s).block[k] \in Blks \cup {0}
           /\ \A b \in Blks \cup {0} : /\ x.dir[b] \in Chains
                                       /\ \A k \in DOMAIN x.dir[b] :
                                             x.dir[b][k].ino \in I \cup {0}
<1>1. x \in Machines /\ x.imap = I /\ Known(x) /\ Listed(x) /\ ROOT \in I
  BY DEF Serves, Tame
<1>2. \A s \in Slots : x.minode[s] \in MINODEs
  BY <1>1 DEF Machines
<1>3. \A s \in Slots : Inode(x, s) \in INODEs
  BY <1>2 DEF Inode, MINODEs
<1>4. \A s \in Slots, k \in 1 .. NDIRECT : Inode(x, s).block[k] \in Blks \cup {0}
  BY <1>3, InodeParts
<1>5. x.cwd \in Slots /\ I \subseteq Inos /\ \A b \in Blks \cup {0} : x.dir[b] \in Chains
  BY <1>1 DEF Machines
<1> QED BY <1>1, <1>3, <1>4, <1>5 DEF Known, Listed

\* The program stops.
LEMMA ServesFail ==
    ASSUME NEW W, NEW I, Serves(W, I), NEW x \in W, NEW how \in {"down", "hung", "undefined"}
    PROVE  Fail(x, how) \in W /\ Fail(x, how).st # "up"
<1>1. Fail(x, how) \in W
  BY DEF Serves
<1>2. x \in Machines
  BY ServesParts
<1> QED BY <1>1, <1>2, FailOk

\* iput() of a slot or of NULL, and a dereference.
LEMMA ServesNull ==
    ASSUME NEW W, NEW I, Serves(W, I), NEW x \in W, NEW s \in Slots \cup {NULL}
    PROVE  /\ Iput(x, s) \in W /\ Deref(x, s) \in W
           /\ Deref(x, s).st = "up" => Deref(x, s) = x /\ s \in Slots
<1>1. CASE s = NULL
  <2>1. Iput(x, s) = x /\ Deref(x, s) = Fail(x, "down")
    BY <1>1 DEF Iput, Deref
  <2>2. Fail(x, "down") \in W
    BY DEF Serves
  <2>3. Fail(x, "down").st # "up"
    BY ServesParts, FailOk
  <2> QED BY <2>1, <2>2, <2>3
<1>2. CASE s \in Slots
  BY <1>2, Numbering DEF Serves, Deref
<1> QED BY <1>1, <1>2

\* iget() returns the slot of the number, or NULL.
LEMMA ServesIget ==
    ASSUME NEW W, NEW I, Serves(W, I), NEW x \in W, NEW ino \in I \cup {0}
    PROVE  /\ Iget(x, ino) \in W /\ IgetPtr(x, ino) \in Slots \cup {NULL}
           /\ x.st = "up" /\ IgetPtr(x, ino) # NULL
                => Iget(x, ino).minode[IgetPtr(x, ino)].ino = ino
<1>1. Iget(x, ino) \in W
  BY DEF Serves
<1>2. /\ x.minode \in [Slots -> MINODEs] /\ ino \in Inos \cup {0} /\ x.itable[ino] \in INODEs
  BY ServesParts DEF Machines
<1>3. /\ IgetPtr(x, ino) \in Slots \cup {NULL}
      /\ IgetPtr(x, ino) # NULL
            => IgetTable(x.minode, x.itable, ino)[IgetPtr(x, ino)].ino = ino
  BY <1>2, IgetTableEffect DEF IgetPtr
<1>4. x.st = "up" => Iget(x, ino).minode = IgetTable(x.minode, x.itable, ino)
  BY ServesParts, <1>2, IgetKeeps
<1> QED BY <1>1, <1>3, <1>4

\* The number of a name in a block of entries is that of an entry.
LEMMA NumberOfName ==
    ASSUME NEW chain \in Chains, NEW name, Holds(chain, name)
    PROVE  \E k \in DOMAIN chain : /\ chain[k].name = name
                                   /\ InoOf(chain, name) = chain[k].ino
                                   /\ \A l \in DOMAIN chain : chain[l].name = name => k <= l
<1> DEFINE T == {l \in DOMAIN chain : chain[l].name = name}
           k == FirstOf(T)
<1>1. T \subseteq Nat /\ T # {}
  BY ChainParts DEF Holds
<1>2. k \in T /\ \A l \in T : k <= l
  <2> HIDE DEF T
  <2>1. \E y \in T : \A z \in T : y <= z
    BY <1>1, LeastNumber
  <2> QED BY <2>1 DEF FirstOf
<1>3. InoOf(chain, name) = chain[k].ino
  BY DEF InoOf
<1> HIDE DEF k
<1> QED BY <1>2, <1>3

\* search() changes nothing, and what it returns is allocated or 0.
LEMMA SearchServes ==
    ASSUME NEW W, NEW I, Serves(W, I), NEW x \in W, NEW s \in Slots, NEW name
    PROVE  /\ Search(x, s, name) \in W
           /\ Search(x, s, name).st = "up" => /\ Search(x, s, name) = x
                                              /\ ~ Opaque(x, s)
                                              /\ SearchIno(x, s, name) \in I \cup {0}
<1> DEFINE S == SearchStop(x, s, name)
           k == FirstOf(S)
           b == Inode(x, s).block[k]
<1>1. \A how \in {"hung", "undefined"} : Fail(x, how) \in W /\ Fail(x, how).st # "up"
  BY ServesFail
<1>2. CASE Opaque(x, s)
  BY <1>1, <1>2 DEF Search
<1>3. CASE ~ Opaque(x, s) /\ S # {} /\ StopChain(x, s, name) = <<>>
  BY <1>1, <1>3 DEF Search
<1>4. CASE ~ Opaque(x, s) /\ S = {}
  <2>1. Search(x, s, name) = x
    BY <1>4 DEF Search
  <2>2. SearchIno(x, s, name) = 0
    BY <1>4 DEF SearchIno
  <2> HIDE DEF S
  <2> QED BY <1>4, <2>1, <2>2
<1>5. CASE ~ Opaque(x, s) /\ S # {} /\ StopChain(x, s, name) # <<>>
  <2>1. Search(x, s, name) = x
    BY <1>5 DEF Search
  <2>0. S \subseteq Nat
    BY Numbering DEF SearchStop
  <2>2. k \in S
    <3> HIDE DEF S
    <3> QED BY <1>5, <2>0, FirstIn
  <2>3. StopChain(x, s, name) = x.dir[b]
    BY DEF StopChain
  <2>4. k \in 1 .. NDIRECT /\ Holds(x.dir[b], name)
    BY <1>5, <2>2, <2>3 DEF SearchStop
  <2>5. b \in Blks \cup {0}
    BY <2>4, ServesParts
  <2>6. SearchIno(x, s, name) = InoOf(x.dir[b], name)
    BY <1>5, <2>3 DEF SearchIno
  <2> HIDE DEF b
  <2>7. x.dir[b] \in Chains /\ \A l \in DOMAIN x.dir[b] : x.dir[b][l].ino \in I \cup {0}
    BY <2>5, ServesParts
  <2> QED BY <1>5, <2>1, <2>4, <2>6, <2>7, NumberOfName
<1> QED BY <1>2, <1>3, <1>4, <1>5

\* One component of a path.
LEMMA WalkServes ==
    ASSUME NEW W, NEW I, Serves(W, I),
           NEW w \in [m : W, s : Slots \cup {NULL}, ino : I \cup {0}, ok : BOOLEAN], NEW name
    PROVE  Walk(w, name) \in [m : W, s : Slots \cup {NULL}, ino : I \cup {0}, ok : BOOLEAN]
<1> DEFINE m1 == Search(w.m, w.s, name)
           ino == SearchIno(w.m, w.s, name)
           m2 == Iput(m1, w.s)
<1>1. CASE ~ w.ok \/ w.m.st # "up"
  BY <1>1 DEF Walk
<1>2. CASE w.ok /\ w.m.st = "up" /\ w.s = NULL
  <2>1. Walk(w, name) = [w EXCEPT !.m = Fail(w.m, "down")]
    BY <1>2 DEF Walk, Deref
  <2>2. Fail(w.m, "down") \in W
    BY DEF Serves
  <2> QED BY <2>1, <2>2
<1>3. CASE w.ok /\ w.m.st = "up" /\ w.s # NULL
  <2>1. Walk(w, name) =
            IF m1.st # "up" THEN [w EXCEPT !.m = m1]
            ELSE IF ino = 0
                 THEN [m |-> m2, s |-> NULL, ino |-> 0, ok |-> FALSE]
            ELSE [m |-> Iget(m2, ino), s |-> IgetPtr(m2, ino), ino |-> ino,
                  ok |-> TRUE]
    BY <1>3 DEF Walk, With
  <2>2. w.m \in W /\ w.s \in Slots
    BY <1>3
  <2>3. m1 \in W /\ (m1.st = "up" => ino \in I \cup {0})
    BY <2>2, SearchServes
  <2> HIDE DEF m1, ino
  <2>4. m2 \in W
    BY <2>2, <2>3, ServesNull
  <2> HIDE DEF m2
  <2>5. CASE m1.st # "up"
    BY <2>1, <2>3, <2>5
  <2>6. CASE m1.st = "up" /\ ino = 0
    BY <2>1, <2>4, <2>6
  <2>7. CASE m1.st = "up" /\ ino # 0
    <3>1. Iget(m2, ino) \in W /\ IgetPtr(m2, ino) \in Slots \cup {NULL} /\ ino \in I \cup {0}
      BY <2>3, <2>4, <2>7, ServesIget
    <3> QED BY <2>1, <2>7, <3>1
  <2> QED BY <2>5, <2>6, <2>7
<1> QED BY <1>1, <1>2, <1>3

\* getino() and iget() of a path.
LEMMA FetchServes ==
    ASSUME NEW W, NEW I, Serves(W, I), NEW x \in W, NEW path \in PathType
    PROVE  /\ Getino(x, path).m \in W /\ Getino(x, path).ino \in I \cup {0}
           /\ Fetch(x, path).m \in W /\ Fetch(x, path).ino \in I \cup {0}
           /\ Fetch(x, path).ino = Getino(x, path).ino
           /\ Fetch(x, path).s \in Slots \cup {NULL}
           /\ Fetch(x, path).m.st = "up" /\ Fetch(x, path).s # NULL
                 => Fetch(x, path).m.minode[Fetch(x, path).s].ino = Fetch(x, path).ino
<1> DEFINE start == IF path.abs THEN Root ELSE x.cwd
           m1 == [x EXCEPT !.minode[start].refCount = @ + 1]
           w0 == [m |-> m1, s |-> start, ino |-> 0, ok |-> TRUE]
           w == WalkAll(w0, path.comps)
           g == Getino(x, path)
           V == [m : W, s : Slots \cup {NULL}, ino : I \cup {0}, ok : BOOLEAN]
<1>1. g.m \in W /\ g.ino \in I \cup {0}
  <2>1. CASE x.st # "up"
    BY <2>1 DEF Getino
  <2>2. CASE x.st = "up" /\ path.comps = <<>>
    BY <2>2, ServesParts DEF Getino
  <2>3. CASE x.st = "up" /\ path.comps # <<>>
    <3>1. g = [m |-> Iput(w.m, w.s), ino |-> w.ino]
      BY <2>3 DEF Getino, With
    <3>2. start \in Slots
      BY ServesParts, Numbering
    <3> HIDE DEF start
    <3>3. m1 \in W
      BY <3>2 DEF Serves
    <3> HIDE DEF m1
    <3>4. w0 \in V
      BY <3>2, <3>3
    <3>5. path.comps \in Seq(FileNames)
      BY DEF PathType
    <3>6. \A v \in V, a \in FileNames : Walk(v, a) \in V
      BY WalkServes
    <3> HIDE DEF V, w0
    <3>7. w \in V
      BY <3>4, <3>5, <3>6, WalkFold
    <3> HIDE DEF w
    <3>8. w.m \in W /\ w.s \in Slots \cup {NULL} /\ w.ino \in I \cup {0}
      BY <3>7 DEF V
    <3> QED BY <3>1, <3>8, ServesNull
  <2> QED BY <2>1, <2>2, <2>3
<1>2. Fetch(x, path) = [m |-> Iget(g.m, g.ino), ino |-> g.ino, s |-> IgetPtr(g.m, g.ino)]
  BY DEF Fetch, With
<1> HIDE DEF g
<1>3. /\ Iget(g.m, g.ino) \in W /\ IgetPtr(g.m, g.ino) \in Slots \cup {NULL}
      /\ g.m.st = "up" /\ IgetPtr(g.m, g.ino) # NULL
            => Iget(g.m, g.ino).minode[IgetPtr(g.m, g.ino)].ino = g.ino
  BY <1>1, ServesIget
<1>4. Iget(g.m, g.ino).st = "up" => g.m.st = "up"
  BY DEF Iget
<1> QED BY <1>1, <1>2, <1>3, <1>4 DEF g

\* The parent of a new name: a directory where search() does not find the name.
LEMMA NewParentServes ==
    ASSUME NEW W, NEW I, Serves(W, I), NEW x \in W,
           NEW path \in PathType, path.comps # <<>>
    PROVE  LET p == NewParent(x, path)
           IN  /\ p.m \in W /\ p.s \in Slots \cup {NULL}
               /\ p.enter => /\ p.m.st = "up" /\ p.s \in Slots
                             /\ IsDir(p.m, p.s) /\ ~ Opaque(p.m, p.s)
                             /\ Search(p.m, p.s, Basename(path)) = p.m
                             /\ SearchIno(p.m, p.s, Basename(path)) = 0
<1> DEFINE p == NewParent(x, path)
           name == Basename(path)
           f == Fetch(x, Dirname(path))
           m1 == CheckDir(f.m, f.s, name)
<1>1. p = [m |-> m1, s |-> f.s, enter |-> m1.st = "up" /\ MayEnter(m1, f.s, name)]
  BY DEF NewParent, With
<1>2. f.m \in W /\ f.s \in Slots \cup {NULL}
  BY PathParts, FetchServes
<1> HIDE DEF f, name
<1>3. CASE f.s # NULL /\ f.m.st = "up" /\ IsDir(f.m, f.s)
  <2>1. m1 = Search(f.m, f.s, name) /\ f.s \in Slots
    BY <1>2, <1>3 DEF CheckDir
  <2>2. m1 \in W /\ (m1.st = "up" => m1 = f.m /\ ~ Opaque(f.m, f.s))
    BY <1>2, <2>1, SearchServes
  <2>3. p.m = m1 /\ p.s = f.s /\ p.enter = (m1.st = "up" /\ MayEnter(m1, f.s, name))
    <3> HIDE DEF p, m1
    <3> QED BY <1>1
  <2> HIDE DEF p, m1
  <2> QED BY <1>2, <2>1, <2>2, <2>3 DEF MayEnter, p, name
<1>4. CASE ~ (f.s # NULL /\ f.m.st = "up" /\ IsDir(f.m, f.s))
  <2>1. m1 = Deref(f.m, f.s)
    BY <1>4 DEF CheckDir
  <2>2. m1 \in W /\ (m1.st = "up" => m1 = f.m /\ f.s \in Slots)
    BY <1>2, <2>1, ServesNull
  <2>3. ~ (m1.st = "up" /\ MayEnter(m1, f.s, name))
    BY <1>4, <2>2, Numbering DEF MayEnter
  <2>4. p.m = m1 /\ p.s = f.s /\ p.enter = (m1.st = "up" /\ MayEnter(m1, f.s, name))
    <3> HIDE DEF p, m1
    <3> QED BY <1>1
  <2> HIDE DEF p, m1
  <2> QED BY <1>2, <2>2, <2>3, <2>4 DEF p
<1> QED BY <1>3, <1>4

\* cd.
LEMMA CdServes ==
    ASSUME NEW W, NEW I, Serves(W, I), NEW x \in W, NEW path \in PathType
    PROVE  Cd(x, path) \in W
<1> DEFINE g == Getino(x, path)
           s == IgetPtr(g.m, g.ino)
           m1 == Deref(Iget(g.m, g.ino), s)
<1>1. Cd(x, path) = IF g.ino = 0 THEN g.m
                    ELSE IF m1.st # "up" \/ ~ IsDir(m1, s) THEN m1
                    ELSE [Iput(m1, m1.cwd) EXCEPT !.cwd = s]
  BY DEF Cd, With
<1>2. g.m \in W /\ g.ino \in I \cup {0}
  BY FetchServes
<1> HIDE DEF g
<1>3. Iget(g.m, g.ino) \in W /\ s \in Slots \cup {NULL}
  BY <1>2, ServesIget
<1> HIDE DEF s
<1>4. m1 \in W /\ (m1.st = "up" => s \in Slots)
  BY <1>3, ServesNull
<1> HIDE DEF m1
<1>5. Iput(m1, m1.cwd) \in W
  <2>1. m1.cwd \in Slots \cup {NULL}
    BY <1>4, ServesParts
  <2> QED BY <1>4, <2>1, ServesNull
<1>6. m1.st = "up" => [Iput(m1, m1.cwd) EXCEPT !.cwd = s] \in W
  BY <1>4, <1>5 DEF Serves
<1> QED BY <1>1, <1>2, <1>4, <1>6

-----------------------------------------------------------------------------
(* ls and pwd.                                                             *)

\* An entry is fetched and given back.
LEMMA VisitServes ==
    ASSUME NEW W, NEW I, Serves(W, I), NEW x \in W, NEW ino \in I \cup {0}
    PROVE  Iput(Deref(Iget(x, ino), IgetPtr(x, ino)), IgetPtr(x, ino)) \in W
<1> DEFINE t == IgetPtr(x, ino)
           d == Deref(Iget(x, ino), t)
<1>1. Iget(x, ino) \in W /\ t \in Slots \cup {NULL}
  BY ServesIget
<1> HIDE DEF t
<1>2. d \in W
  BY <1>1, ServesNull
<1> HIDE DEF d
<1>3. Iput(d, t) \in W
  BY <1>1, <1>2, ServesNull
<1> QED BY <1>3 DEF d, t

\* The entries of a block.
LEMMA LsBlockServes ==
    ASSUME NEW W, NEW I, Serves(W, I), NEW x \in W, NEW b \in Blks \cup {0}
    PROVE  LsBlock(x, b) \in W
<1> DEFINE chain == x.dir[b]
<1>1. CASE b = 0
  BY <1>1 DEF LsBlock
<1>2. CASE b # 0 /\ chain = <<>>
  <2>1. LsBlock(x, b) = Fail(x, "hung")
    BY <1>2 DEF LsBlock
  <2> QED BY <2>1, ServesFail
<1>3. CASE b # 0 /\ chain # <<>>
  <2>1. LsBlock(x, b) = VisitAll(x, chain)
    BY <1>3 DEF LsBlock
  <2>2. chain \in Chains /\ \A k \in DOMAIN chain : chain[k].ino \in I \cup {0}
    BY ServesParts
  <2> HIDE DEF chain
  <2>3. \A y \in W, k \in DOMAIN chain : Visit(y, chain[k]) \in W
    BY <2>2, VisitServes DEF Visit
  <2> QED BY <2>1, <2>2, <2>3, VisitAllFold
<1> QED BY <1>1, <1>2, <1>3

\* The blocks of a directory.
LEMMA LsDirServes ==
    ASSUME NEW W, NEW I, Serves(W, I), NEW x \in W, NEW s \in Slots
    PROVE  LsDir(x, s) \in W
<1> DEFINE blocks == Inode(x, s).block
<1>1. CASE x.st # "up"
  BY <1>1 DEF LsDir
<1>2. CASE x.st = "up" /\ Opaque(x, s)
  <2>1. LsDir(x, s) = Fail(x, "undefined")
    BY <1>2 DEF LsDir
  <2> QED BY <2>1, ServesFail
<1>3. CASE x.st = "up" /\ ~ Opaque(x, s)
  <2>1. LsDir(x, s) = LsBlocks(x, blocks)
    BY <1>3 DEF LsDir
  <2>2. blocks \in [1 .. NDIRECT -> Blks \cup {0}]
    BY ServesParts, InodeParts
  <2>3. \A y \in W, b \in Blks \cup {0} : LsBlock(y, b) \in W
    BY LsBlockServes
  <2> HIDE DEF blocks
  <2> QED BY <2>1, <2>2, <2>3, LsBlocksFold
<1> QED BY <1>1, <1>2, <1>3

\* ls with a path and without.
LEMMA LsServes ==
    ASSUME NEW W, NEW I, Serves(W, I), NEW x \in W
    PROVE  LsCwd(x) \in W /\ \A path \in PathType : Ls(x, path) \in W
<1>1. ASSUME NEW path \in PathType PROVE Ls(x, path) \in W
  <2> DEFINE f == Fetch(x, path)
             d == IF IsDir(f.m, f.s) THEN LsDir(f.m, f.s) ELSE f.m
  <2>1. Ls(x, path) = IF f.s = NULL THEN Deref(f.m, f.s)
                      ELSE IF f.m.st # "up" THEN f.m ELSE Iput(d, f.s)
    BY DEF Ls, LsOf, With
  <2>2. f.m \in W /\ f.s \in Slots \cup {NULL}
    BY FetchServes
  <2> HIDE DEF f
  <2>3. CASE f.s = NULL
    BY <2>1, <2>2, <2>3, ServesNull
  <2>4. CASE f.s \in Slots
    <3>1. d \in W
      BY <2>2, <2>4, LsDirServes
    <3> HIDE DEF d
    <3>2. Iput(d, f.s) \in W
      BY <2>2, <3>1, ServesNull
    <3> QED BY <2>1, <2>2, <2>4, <3>2, Numbering
  <2> QED BY <2>2, <2>3, <2>4
<1>2. LsCwd(x) \in W
  <2> DEFINE ino == x.minode[x.cwd].ino
             s == IgetPtr(x, ino)
             d == Deref(Iget(x, ino), s)
  <2>1. LsCwd(x) = Iput(LsDir(d, s), s)
    BY DEF LsCwd
  <2>2. ino \in I \cup {0}
    BY ServesParts
  <2> HIDE DEF ino
  <2>3. Iget(x, ino) \in W /\ s \in Slots \cup {NULL}
    BY <2>2, ServesIget
  <2> HIDE DEF s
  <2>4. d \in W /\ (d.st = "up" => s \in Slots)
    BY <2>3, ServesNull
  <2> HIDE DEF d
  <2>5. LsDir(d, s) \in W
    <3>1. CASE d.st # "up"
      BY <2>4, <3>1 DEF LsDir
    <3>2. CASE d.st = "up"
      BY <2>4, <3>2, LsDirServes
    <3> QED BY <3>1, <3>2
  <2> QED BY <2>1, <2>3, <2>5, ServesNull
<1> QED BY <1>1, <1>2

\* A level of rpwd().
LEMMA ClimbServes ==
    ASSUME NEW W, NEW I, Serves(W, I), NEW c \in [m : W, wd : Slots, trail : Seq(Slots)],
           NEW level
    PROVE  Climb(c, level) \in [m : W, wd : Slots, trail : Seq(Slots)]
<1> DEFINE b == Inode(c.m, c.wd).block[1]
           chain == c.m.dir[b]
           ino == InoOf(chain, "..")
           up == IgetPtr(c.m, ino)
           m1 == Deref(Iget(c.m, ino), up)
           C == [m : W, wd : Slots, trail : Seq(Slots)]
<1>1. Climb(c, level) =
        IF c.m.st # "up" \/ c.wd = Root THEN c
        ELSE IF Opaque(c.m, c.wd) THEN [c EXCEPT !.m = Fail(c.m, "undefined")]
        ELSE IF chain = <<>> THEN [c EXCEPT !.m = Fail(c.m, "hung")]
        ELSE IF ~ Holds(chain, "..") THEN [c EXCEPT !.m = Fail(c.m, "undefined")]
        ELSE IF m1.st # "up" THEN [c EXCEPT !.m = m1]
        ELSE IF Opaque(m1, up) THEN [c EXCEPT !.m = Fail(m1, "undefined")]
        ELSE IF m1.dir[Inode(m1, up).block[1]] = <<>>
             THEN [c EXCEPT !.m = Fail(m1, "hung")]
        ELSE [m |-> m1, wd |-> up, trail |-> <<up>> \o c.trail]
  BY DEF Climb, With
<1>2. c.m \in W /\ c.wd \in Slots /\ c.trail \in Seq(Slots)
  OBVIOUS
<1>3. b \in Blks \cup {0}
  BY <1>2, ServesParts, Numbering
<1> HIDE DEF b
<1>4. chain \in Chains /\ \A k \in DOMAIN chain : chain[k].ino \in I \cup {0}
  BY <1>2, <1>3, ServesParts
<1> HIDE DEF chain
<1>5. \A y \in W : [c EXCEPT !.m = y] \in C
  OBVIOUS
<1>6. /\ [c EXCEPT !.m = Fail(c.m, "undefined")] \in C
      /\ [c EXCEPT !.m = Fail(c.m, "hung")] \in C
  BY <1>2, <1>5, ServesFail
<1>7. CASE ~ Holds(chain, "..")
  <2> HIDE DEF C, m1
  <2> QED BY <1>1, <1>6, <1>7 DEF C
<1>8. CASE Holds(chain, "..")
  <2>1. ino \in I \cup {0}
    BY <1>4, <1>8, NumberOfName
  <2> HIDE DEF ino
  <2>2. Iget(c.m, ino) \in W /\ up \in Slots \cup {NULL}
    BY <1>2, <2>1, ServesIget
  <2> HIDE DEF up
  <2>3. m1 \in W /\ (m1.st = "up" => up \in Slots)
    BY <2>2, ServesNull
  <2> HIDE DEF m1
  <2>4. /\ [c EXCEPT !.m = m1] \in C
        /\ [c EXCEPT !.m = Fail(m1, "undefined")] \in C
        /\ [c EXCEPT !.m = Fail(m1, "hung")] \in C
    BY <1>5, <2>3, ServesFail
  <2>5. m1.st = "up" => [m |-> m1, wd |-> up, trail |-> <<up>> \o c.trail] \in C
    BY <1>2, <2>3
  <2> HIDE DEF C
  <2> QED BY <1>1, <1>6, <2>4, <2>5 DEF C
<1> QED BY <1>7, <1>8

\* The slots of the trail, given back one by one.
LEMMA IputAllIn ==
    ASSUME NEW W, NEW m \in W, NEW trail \in Seq(Slots),
           \A x \in W, s \in Slots : Iput(x, s) \in W
    PROVE  IputAll(m, trail) \in W
<1>1. PICK v \in [0 .. Len(trail) -> W] :
              /\ v[0] = m /\ v[Len(trail)] = IputAll(m, trail)
              /\ \A k \in 1 .. Len(trail) : v[k] = Iput(v[k - 1], trail[k])
  BY IputAllFold
<1>2. Len(trail) \in 0 .. Len(trail)
  OBVIOUS
<1> QED BY <1>1, <1>2

\* pwd.
LEMMA PwdServes ==
    ASSUME NEW W, NEW I, Serves(W, I), NEW x \in W
    PROVE  Pwd(x) \in W
<1> DEFINE C == [m : W, wd : Slots, trail : Seq(Slots)]
           c == [m |-> x, wd |-> x.cwd, trail |-> <<>>]
           y == ClimbAll(c)
<1>1. Pwd(x) = IF y.m.st = "up" /\ y.wd # Root THEN Fail(y.m, "down") ELSE IputAll(y.m, y.trail)
  BY DEF Pwd, With
<1>2. c \in C
  BY ServesParts
<1>3. \A z \in C, level \in 1 .. NMINODE : Climb(z, level) \in C
  BY ClimbServes
<1>4. y \in C
  <2> HIDE DEF C, c
  <2> QED BY <1>2, <1>3, ClimbAllFold
<1> HIDE DEF y
<1>5. y.m \in W /\ y.trail \in Seq(Slots)
  BY <1>4
<1>6. Fail(y.m, "down") \in W
  BY <1>5, ServesFail
<1>7. \A z \in W, s \in Slots : Iput(z, s) \in W
  BY DEF Serves
<1>8. IputAll(y.m, y.trail) \in W
  BY <1>5, <1>7, IputAllIn
<1> QED BY <1>1, <1>6, <1>8

-----------------------------------------------------------------------------
(* The sets of machines that serve.                                        *)

\* A step that writes neither a bitmap nor an entry: a slot keeps its inode or is
\* loaded from the disk, the disk keeps an INODE or is given that of a slot.
Reads(x, n) ==
    /\ n \in Machines
    /\ n.imap = x.imap /\ n.bmap = x.bmap /\ n.dir = x.dir
    /\ \A s \in Slots :
          \/ /\ n.minode[s].ino = x.minode[s].ino
             /\ n.minode[s].INODE = x.minode[s].INODE
          \/ /\ n.minode[s].ino \in x.imap \cup {0}
             /\ n.minode[s].INODE = x.itable[n.minode[s].ino]
    /\ \A i \in Inos : \/ n.itable[i] = x.itable[i]
                       \/ \E s \in Slots : /\ x.minode[s].ino = i
                                           /\ n.itable[i] = x.minode[s].INODE

\* A machine where no slot and no INODE differs.
LEMMA ReadsSame ==
    ASSUME NEW x \in Machines, NEW n \in Machines,
           n.imap = x.imap, n.bmap = x.bmap, n.dir = x.dir, n.itable = x.itable,
           \A s \in Slots : /\ n.minode[s].ino = x.minode[s].ino
                            /\ n.minode[s].INODE = x.minode[s].INODE
    PROVE  Reads(x, n)
BY DEF Reads

\* The count of a slot.
LEMMA ReadsCount ==
    ASSUME NEW x \in Machines, NEW s \in Slots, NEW v \in Int
    PROVE  LET n == [x EXCEPT !.minode[s].refCount = v]
           IN  /\ Reads(x, n) /\ n.st = x.st /\ n.itable = x.itable /\ n.cwd = x.cwd
               /\ n.minode[s].refCount = v /\ n.minode[s].dirty = x.minode[s].dirty
               /\ n.minode[s].ino = x.minode[s].ino /\ n.minode[s].INODE = x.minode[s].INODE
               /\ \A r \in Slots : r # s => n.minode[r] = x.minode[r]
<1> DEFINE y == [x.minode[s] EXCEPT !.refCount = v]
           mt == [x.minode EXCEPT ![s] = y]
           n == [x EXCEPT !.minode[s].refCount = v]
<1>1. x.minode \in [Slots -> MINODEs] /\ x.minode[s] \in MINODEs
  BY DEF Machines
<1>2. y \in MINODEs /\ y.ino = x.minode[s].ino /\ y.INODE = x.minode[s].INODE
      /\ y.refCount = v /\ y.dirty = x.minode[s].dirty
  BY <1>1 DEF MINODEs
<1> HIDE DEF y
<1>3. mt \in [Slots -> MINODEs] /\ mt[s] = y /\ \A r \in Slots : r # s => mt[r] = x.minode[r]
  BY <1>1, <1>2
<1>4. n = [x EXCEPT !.minode = mt]
  BY DEF Machines, y
<1> HIDE DEF mt, n
<1>5. n \in Machines /\ n.minode = mt /\ n.imap = x.imap /\ n.bmap = x.bmap /\ n.dir = x.dir
      /\ n.itable = x.itable /\ n.st = x.st /\ n.cwd = x.cwd
  BY <1>3, <1>4 DEF Machines
<1>6. \A r \in Slots : n.minode[r].ino = x.minode[r].ino /\ n.minode[r].INODE = x.minode[r].INODE
  BY <1>2, <1>3, <1>5
<1>7. Reads(x, n)
  BY <1>5, <1>6, ReadsSame
<1> QED BY <1>2, <1>3, <1>5, <1>7 DEF n

\* iget() of an allocated number or of 0.
LEMMA ReadsIget ==
    ASSUME NEW x \in Machines, NEW ino \in x.imap \cup {0}
    PROVE  Reads(x, Iget(x, ino))
<1> DEFINE mt == IgetTable(x.minode, x.itable, ino)
           n == Iget(x, ino)
<1>1. CASE x.st # "up"
  <2>1. n = x
    BY <1>1 DEF Iget
  <2> HIDE DEF n
  <2> QED BY <2>1, ReadsSame DEF n
<1>2. CASE x.st = "up"
  <2>1. x.minode \in [Slots -> MINODEs] /\ ino \in Inos \cup {0} /\ x.itable[ino] \in INODEs
    BY DEF Machines
  <2>2. /\ mt \in [Slots -> MINODEs]
        /\ \A r \in Slots : \/ mt[r] = x.minode[r]
                            \/ mt[r].ino = ino /\ x.minode[r].ino = ino
                               /\ mt[r].INODE = x.minode[r].INODE
                            \/ mt[r].ino = ino /\ mt[r].INODE = x.itable[ino]
    <3> HIDE DEF mt
    <3> QED BY <2>1, IgetTableEffect DEF mt
  <2>3. n = [x EXCEPT !.minode = mt]
    BY <1>2 DEF Iget
  <2> HIDE DEF mt, n
  <2>4. n \in Machines /\ n.minode = mt /\ n.imap = x.imap /\ n.bmap = x.bmap /\ n.dir = x.dir
        /\ n.itable = x.itable
    BY <2>2, <2>3 DEF Machines
  <2>5. Reads(x, n)
    BY <2>2, <2>4 DEF Reads
  <2> QED BY <2>5 DEF n
<1> QED BY <1>1, <1>2

\* iput().
LEMMA ReadsIput ==
    ASSUME NEW x \in Machines, NEW s \in Slots
    PROVE  Reads(x, Iput(x, s))
<1> DEFINE n == Iput(x, s)
<1>1. CASE x.st # "up"
  <2>1. n = x
    BY <1>1 DEF Iput
  <2> HIDE DEF n
  <2> QED BY <2>1, ReadsSame DEF n
<1>2. CASE x.st = "up" /\ WritesBack(x.minode, s) /\ x.minode[s].ino = 0
  <2>1. n = Fail(x, "undefined")
    BY <1>2, Numbering DEF Iput
  <2> HIDE DEF n
  <2> QED BY <2>1, FailOk, ReadsSame DEF n
<1>3. CASE x.st = "up" /\ ~ (WritesBack(x.minode, s) /\ x.minode[s].ino = 0)
  <2>1. /\ n \in Machines
        /\ n.imap = x.imap /\ n.bmap = x.bmap /\ n.dir = x.dir
        /\ \A r \in Slots : /\ n.minode[r].ino = x.minode[r].ino
                            /\ n.minode[r].INODE = x.minode[r].INODE
        /\ \/ n.itable = [x.itable EXCEPT ![x.minode[s].ino] = x.minode[s].INODE]
           \/ n.itable = x.itable
    BY <1>3, IputEffect
  <2> HIDE DEF n
  <2>2. x.itable \in [Inos \cup {0} -> INODEs]
    BY DEF Machines
  <2>3. \A i \in Inos : \/ n.itable[i] = x.itable[i]
                        \/ x.minode[s].ino = i /\ n.itable[i] = x.minode[s].INODE
    BY <2>1, <2>2
  <2>4. Reads(x, n)
    BY <2>1, <2>3 DEF Reads
  <2> QED BY <2>4 DEF n
<1> QED BY <1>1, <1>2, <1>3

\* The end of the program, and a step of running->cwd.
LEMMA ReadsRest ==
    ASSUME NEW x \in Machines
    PROVE  /\ \A how \in {"down", "hung", "undefined"} : Reads(x, Fail(x, how))
           /\ \A s \in Slots : Reads(x, [x EXCEPT !.cwd = s])
<1>1. ASSUME NEW how \in {"down", "hung", "undefined"} PROVE Reads(x, Fail(x, how))
  BY FailOk, ReadsSame
<1>2. ASSUME NEW s \in Slots PROVE Reads(x, [x EXCEPT !.cwd = s])
  <2> DEFINE n == [x EXCEPT !.cwd = s]
  <2>1. n \in Machines /\ n.minode = x.minode /\ n.itable = x.itable /\ n.imap = x.imap
        /\ n.bmap = x.bmap /\ n.dir = x.dir
    BY DEF Machines
  <2> HIDE DEF n
  <2>2. Reads(x, n)
    BY <2>1, ReadsSame
  <2> QED BY <2>2 DEF n
<1> QED BY <1>1, <1>2

\* Machines that such steps do not leave serve every command that only reads the tree.
LEMMA ReadsServe ==
    ASSUME NEW W, NEW I, ROOT \in I, W \subseteq Tame(I),
           \A x \in W, n \in Machines : Reads(x, n) => n \in W
    PROVE  Serves(W, I)
<1>0. ASSUME NEW x \in W PROVE x \in Machines /\ x.imap = I
  BY DEF Tame
<1>1. ASSUME NEW x \in W, NEW n, Reads(x, n) PROVE n \in W
  BY <1>1 DEF Reads
<1>2. ASSUME NEW x \in W, NEW s \in Slots PROVE [x EXCEPT !.minode[s].refCount = @ + 1] \in W
  <2> DEFINE v == x.minode[s].refCount + 1
  <2>1. x.minode[s] \in MINODEs
    BY <1>0 DEF Machines
  <2>2. v \in Int
    BY <2>1 DEF MINODEs
  <2>3. [x EXCEPT !.minode[s].refCount = @ + 1] = [x EXCEPT !.minode[s].refCount = v]
    BY <1>0 DEF Machines
  <2> HIDE DEF v
  <2>4. Reads(x, [x EXCEPT !.minode[s].refCount = v])
    BY <1>0, <2>2, ReadsCount
  <2> QED BY <1>1, <2>3, <2>4
<1>3. ASSUME NEW x \in W, NEW how \in {"down", "hung", "undefined"} PROVE Fail(x, how) \in W
  BY <1>0, <1>1, ReadsRest
<1>4. ASSUME NEW x \in W, NEW s \in Slots PROVE [x EXCEPT !.cwd = s] \in W
  BY <1>0, <1>1, ReadsRest
<1>5. ASSUME NEW x \in W, NEW s \in Slots PROVE Iput(x, s) \in W
  BY <1>0, <1>1, ReadsIput
<1>6. ASSUME NEW x \in W, NEW ino \in I \cup {0} PROVE Iget(x, ino) \in W
  BY <1>0, <1>1, ReadsIget
<1> QED BY <1>2, <1>3, <1>4, <1>5, <1>6 DEF Serves

\* The tame machines serve.
LEMMA TameServes ==
    ASSUME NEW I, ROOT \in I
    PROVE  Serves(Tame(I), I)
<1>1. ASSUME NEW x \in Tame(I), NEW n \in Machines, Reads(x, n) PROVE n \in Tame(I)
  BY <1>1 DEF Tame, Reads, Known, Listed
<1> QED BY <1>1, ReadsServe

-----------------------------------------------------------------------------
(* The commands that make names keep the machines tame.                    *)

\* A write to the INODE of a slot.
LEMMA TameStore ==
    ASSUME NEW I, NEW x \in Tame(I), NEW s \in Slots, NEW inode \in INODEs
    PROVE  Store(x, s, inode) \in Tame(I)
<1> DEFINE n == Store(x, s, inode)
<1>1. CASE x.st # "up"
  BY <1>1 DEF Store
<1>2. CASE x.st = "up"
  <2>1. /\ n \in Machines /\ n.imap = x.imap /\ n.dir = x.dir
        /\ \A r \in Slots : n.minode[r].ino = x.minode[r].ino
    BY <1>2, StoreEffect DEF Tame
  <2> HIDE DEF n
  <2>2. n \in Tame(I)
    BY <2>1 DEF Tame, Known, Listed
  <2> QED BY <2>2 DEF n
<1> QED BY <1>1, <1>2

\* A block of entries that are allocated or 0.
LEMMA TameBlock ==
    ASSUME NEW I, NEW x \in Tame(I), NEW b \in Blks \cup {0}, NEW chain \in Chains,
           \A k \in DOMAIN chain : chain[k].ino \in I \cup {0}
    PROVE  LET n == [x EXCEPT !.dir[b] = chain]
           IN  /\ n \in Tame(I) /\ n.dir = [x.dir EXCEPT ![b] = chain]
               /\ n.minode = x.minode /\ n.itable = x.itable /\ n.bmap = x.bmap
               /\ n.st = x.st /\ n.cwd = x.cwd
<1> DEFINE D == [x.dir EXCEPT ![b] = chain]
           n == [x EXCEPT !.dir[b] = chain]
<1>1. x \in Machines /\ x.imap = I /\ Known(x) /\ Listed(x)
  BY DEF Tame
<1>2. x.dir \in [Blks \cup {0} -> Chains]
  BY <1>1 DEF Machines
<1>3. D \in [Blks \cup {0} -> Chains] /\ D[b] = chain
      /\ \A c \in Blks \cup {0} : c # b => D[c] = x.dir[c]
  BY <1>2
<1>4. n = [x EXCEPT !.dir = D]
  OBVIOUS
<1> HIDE DEF D, n
<1>5. /\ n \in Machines /\ n.imap = I /\ n.dir = D /\ n.minode = x.minode
      /\ n.itable = x.itable /\ n.bmap = x.bmap /\ n.st = x.st /\ n.cwd = x.cwd
  BY <1>1, <1>3, <1>4 DEF Machines
<1>6. n \in Tame(I)
  BY <1>1, <1>3, <1>5 DEF Tame, Known, Listed
<1> QED BY <1>5, <1>6 DEF n, D

\* An entry more at the end of a block.
LEMMA OneMoreEntry ==
    ASSUME NEW chain \in Chains, NEW entry \in EntryType, NEW T,
           \A k \in DOMAIN chain : chain[k].ino \in T, entry.ino \in T
    PROVE  /\ Append(chain, entry) \in Chains /\ <<entry>> \in Chains
           /\ \A k \in DOMAIN Append(chain, entry) : Append(chain, entry)[k].ino \in T
           /\ \A k \in DOMAIN <<entry>> : <<entry>>[k].ino \in T
<1>1. chain \in Seq(EntryType)
  BY DEF Chains, EntryType
<1>2. Append(chain, entry) \in Seq(EntryType) /\ <<entry>> \in Seq(EntryType)
  BY <1>1
<1>3. /\ DOMAIN Append(chain, entry) = 1 .. Len(chain) + 1
      /\ \A k \in 1 .. Len(chain) : Append(chain, entry)[k] = chain[k]
      /\ Append(chain, entry)[Len(chain) + 1] = entry
      /\ DOMAIN chain = 1 .. Len(chain) /\ Len(chain) \in Nat
  BY <1>1
<1>4. \A k \in DOMAIN Append(chain, entry) : Append(chain, entry)[k].ino \in T
  <2> SUFFICES ASSUME NEW k \in 1 .. Len(chain) + 1
               PROVE  Append(chain, entry)[k].ino \in T
    BY <1>3
  <2>1. CASE k = Len(chain) + 1
    BY <1>3, <2>1
  <2>2. CASE k \in 1 .. Len(chain)
    BY <1>3, <2>2
  <2> QED BY <1>3, <2>1, <2>2
<1>5. \A k \in DOMAIN <<entry>> : <<entry>>[k].ino \in T
  OBVIOUS
<1> QED BY <1>2, <1>4, <1>5 DEF Chains, EntryType

\* enter_child().
LEMMA TameEnter ==
    ASSUME NEW I, NEW m \in Tame(I), NEW s \in Slots, NEW entry \in EntryType,
           entry.ino \in I \cup {0}
    PROVE  EnterChild(m, s, entry) \in Tame(I)
<1> DEFINE n == EnterChild(m, s, entry)
           room == {k \in 1 .. NDIRECT : HasRoom(m, s, k)}
           k == FirstOf(room)
           b == Inode(m, s).block[k]
           fb == FreeBlk(m)
           x == m.minode[s]
<1>1. m \in Machines /\ m.minode \in [Slots -> MINODEs] /\ x \in MINODEs
      /\ m.dir \in [Blks \cup {0} -> Chains] /\ m.imap = I /\ Known(m) /\ Listed(m)
  BY DEF Tame, Machines
<1>2. CASE m.st # "up"
  BY <1>2 DEF EnterChild
<1>3. CASE m.st = "up" /\ Opaque(m, s)
  <2>1. n = Fail(m, "undefined")
    BY <1>3 DEF EnterChild
  <2> HIDE DEF n
  <2>2. n \in Tame(I)
    BY <1>1, <2>1, FailOk DEF Tame, Known, Listed
  <2> QED BY <2>2 DEF n
<1>4. CASE m.st = "up" /\ ~ Opaque(m, s) /\ room = {}
  BY <1>4 DEF EnterChild
<1>5. room # {} => k \in 1 .. NDIRECT
  BY Numbering, FirstIn
<1>6. CASE m.st = "up" /\ ~ Opaque(m, s) /\ room # {} /\ b = 0
  <2> DEFINE y == Grow(x, k, fb)
  <2>1. n = [[m EXCEPT !.bmap = @ \cup ({fb} \cap Blks)] EXCEPT
                !.minode[s].INODE.block[k] = fb, !.dir[fb] = <<entry>>]
    BY <1>6 DEF EnterChild, Balloc
  <2>2. fb \in Blks \cup {0}
    BY <1>1, Free
  <2>3. k \in 1 .. NDIRECT
    BY <1>5, <1>6
  <2> HIDE DEF n, fb, k
  <2>4. n = [m EXCEPT !.bmap = @ \cup ({fb} \cap Blks),
                      !.minode = [m.minode EXCEPT ![s] = y],
                      !.dir = [m.dir EXCEPT ![fb] = <<entry>>]]
    BY <1>1, <2>1 DEF Machines, Grow
  <2>5. y \in MINODEs /\ y.ino = x.ino
    BY <1>1, <2>2, <2>3, Grown
  <2> HIDE DEF y
  <2>6. [m.minode EXCEPT ![s] = y] \in [Slots -> MINODEs]
    BY <1>1, <2>5
  <2>7. <<entry>> \in Chains /\ \A l \in DOMAIN <<entry>> : <<entry>>[l].ino \in I \cup {0}
    BY DEF Chains, EntryType
  <2>8. [m.dir EXCEPT ![fb] = <<entry>>] \in [Blks \cup {0} -> Chains]
    BY <1>1, <2>2, <2>7
  <2>9. m.bmap \cup ({fb} \cap Blks) \subseteq Blks
    BY <1>1 DEF Machines
  <2>10. /\ n \in Machines /\ n.minode = [m.minode EXCEPT ![s] = y] /\ n.imap = m.imap
         /\ n.dir = [m.dir EXCEPT ![fb] = <<entry>>]
    BY <1>1, <2>4, <2>6, <2>8, <2>9 DEF Machines
  <2>11. Known(n)
    BY <1>1, <2>5, <2>10 DEF Known
  <2>12. Listed(n)
    BY <1>1, <2>7, <2>10 DEF Listed
  <2> QED BY <1>1, <2>10, <2>11, <2>12 DEF n, Tame
<1>7. CASE m.st = "up" /\ ~ Opaque(m, s) /\ room # {} /\ b # 0
  <2> DEFINE chain == Append(m.dir[b], entry)
  <2>1. n = [m EXCEPT !.dir[b] = chain]
    BY <1>7 DEF EnterChild
  <2>2. b \in Blks \cup {0}
    <3>1. Inode(m, s) \in INODEs
      BY <1>1 DEF Inode, MINODEs
    <3> QED BY <1>5, <1>7, <3>1, InodeParts
  <2> HIDE DEF b, n
  <2>3. m.dir[b] \in Chains /\ \A l \in DOMAIN m.dir[b] : m.dir[b][l].ino \in I \cup {0}
    BY <1>1, <2>2 DEF Listed
  <2>4. chain \in Chains /\ \A l \in DOMAIN chain : chain[l].ino \in I \cup {0}
    BY <2>3, OneMoreEntry
  <2> HIDE DEF chain
  <2>5. n \in Tame(I)
    BY <2>1, <2>2, <2>4, TameBlock
  <2> QED BY <2>5 DEF n
<1> QED BY <1>2, <1>3, <1>4, <1>6, <1>7

\* The entry, then the parent given back.
LEMMA TameRelease ==
    ASSUME NEW I, NEW m \in Tame(I), ROOT \in I, NEW s \in Slots, NEW entry \in EntryType,
           entry.ino \in I \cup {0}
    PROVE  EnterAndRelease(m, s, entry) \in Tame(I)
<1> DEFINE m1 == EnterChild(m, s, entry)
           m2 == Store(m1, s, Inode(m1, s))
<1>1. EnterAndRelease(m, s, entry) = IF m1.st # "up" THEN m1 ELSE Iput(m2, s)
  BY DEF EnterAndRelease, With
<1>2. m1 \in Tame(I)
  BY TameEnter
<1> HIDE DEF m1
<1>3. Inode(m1, s) \in INODEs
  BY <1>2, TameServes, ServesParts
<1>4. m2 \in Tame(I)
  BY <1>2, <1>3, TameStore
<1> HIDE DEF m2
<1>5. Iput(m2, s) \in Tame(I)
  BY <1>4, TameServes, ServesNull
<1> QED BY <1>1, <1>2, <1>5

\* A new number, a new block and a slot for them.
LEMMA TameNew ==
    ASSUME NEW I, NEW m \in Tame(I), ROOT \in I, m.st = "up", NEW type \in {"reg", "dir"},
           NEW links \in U16
    PROVE  LET new == NewMinode(m, type, links)
               J == I \cup ({FreeIno(m)} \cap Inos)
           IN  /\ new.m \in Tame(J) /\ new.s \in Slots \cup {NULL}
               /\ new.ino = FreeIno(m) /\ new.ino \in J \cup {0}
               /\ new.blk = FreeBlk(m) /\ new.blk \in Blks \cup {0}
               /\ new.m.st = "up" => new.s \in Slots
<1> DEFINE ino == FreeIno(m)
           blk == FreeBlk(m)
           J == I \cup ({ino} \cap Inos)
           m1 == Balloc(Ialloc(m))
           t == IgetPtr(m1, ino)
           n1 == Iget(m1, ino)
           m2 == Deref(n1, t)
           inode == INODE(type, links, blk)
           n == Store(m2, t, inode)
           new == NewMinode(m, type, links)
<1>1. new = [m |-> IF m2.st # "up" THEN m2 ELSE n, s |-> t, ino |-> ino, blk |-> blk]
  BY DEF NewMinode, With
<1>2. m \in Machines /\ m.imap = I /\ Known(m) /\ Listed(m)
  BY DEF Tame
<1>3. ino \in Inos \cup {0} /\ blk \in Blks \cup {0}
  BY <1>2, Free
<1> DEFINE m0 == Ialloc(m)
<1>4. /\ m0 \in Machines /\ m0.imap = J /\ m0.minode = m.minode /\ m0.dir = m.dir
      /\ m0.bmap = m.bmap
  BY <1>2 DEF Ialloc, Machines
<1>5. FreeBlk(m0) = blk
  BY <1>4 DEF FreeBlk
<1> HIDE DEF m0
<1>6. /\ m1 \in Machines /\ m1.imap = J /\ m1.minode = m.minode /\ m1.dir = m.dir
  <2>1. m1 = [m0 EXCEPT !.bmap = m.bmap \cup ({blk} \cap Blks)]
    BY <1>4, <1>5 DEF Balloc, m0
  <2>2. m.bmap \cup ({blk} \cap Blks) \subseteq Blks
    BY <1>2 DEF Machines
  <2> HIDE DEF m1, blk
  <2> QED BY <1>4, <2>1, <2>2 DEF Machines
<1> HIDE DEF m1, ino, blk, new
<1>7. m1 \in Tame(J) /\ ino \in J \cup {0} /\ ROOT \in J
  BY <1>2, <1>3, <1>6 DEF Tame, Known, Listed
<1>8. Serves(Tame(J), J)
  BY <1>7, TameServes
<1> HIDE DEF J
<1>9. n1 \in Tame(J) /\ t \in Slots \cup {NULL}
  BY <1>7, <1>8, ServesIget
<1> HIDE DEF n1, t
<1>10. m2 \in Tame(J) /\ (m2.st = "up" => t \in Slots)
  BY <1>8, <1>9, ServesNull
<1> HIDE DEF m2
<1>11. inode \in INODEs
  BY <1>3, NewINODE
<1> HIDE DEF inode
<1>12. t \in Slots => n \in Tame(J)
  BY <1>10, <1>11, TameStore
<1> HIDE DEF n
<1>13. /\ new.m = (IF m2.st # "up" THEN m2 ELSE n)
       /\ new.s = t /\ new.ino = ino /\ new.blk = blk
  BY <1>1
<1> QED BY <1>3, <1>7, <1>9, <1>10, <1>12, <1>13 DEF new, ino, blk, J

\* kcreat() and kmkdir(): they allocate a number, or none.
LEMMA TameMake ==
    ASSUME NEW I, NEW m \in Tame(I), ROOT \in I, NEW s \in Slots, NEW name \in FileNames
    PROVE  LET J == I \cup ({FreeIno(m)} \cap Inos)
           IN  /\ Kcreat(m, s, name) \in Tame(I) \cup Tame(J)
               /\ Kmkdir(m, s, name) \in Tame(I) \cup Tame(J)
<1> DEFINE J == I \cup ({FreeIno(m)} \cap Inos)
<1>1. CASE m.st # "up"
  BY <1>1 DEF Kcreat, Kmkdir
<1>2. CASE m.st = "up"
  <2>1. ROOT \in J /\ Serves(Tame(J), J)
    BY TameServes
  <2>2. Kcreat(m, s, name) \in Tame(J)
    <3> DEFINE new == NewMinode(m, "reg", 1)
               t == new.s
               unref == [new.m EXCEPT !.minode[t].refCount = 0]
               n == Iput(unref, t)
    <3>1. Kcreat(m, s, name) = IF new.m.st # "up" THEN new.m
                               ELSE EnterAndRelease(n, s, Entry(name, new.ino))
      BY <1>2 DEF Kcreat, With
    <3>2. "reg" \in {"reg", "dir"} /\ 1 \in U16
      BY DEF U16
    <3>3. new.m \in Tame(J) /\ new.ino \in J \cup {0} /\ (new.m.st = "up" => t \in Slots)
      BY <1>2, <3>2, TameNew
    <3> HIDE DEF new, t
    <3>4. new.ino \in Inos \cup {0}
      BY <3>3, <2>1 DEF Tame, Machines
    <3> HIDE DEF J
    <3>5. CASE new.m.st # "up"
      BY <3>1, <3>3, <3>5
    <3>6. CASE new.m.st = "up"
      <4>1. unref \in Tame(J)
        <5>1. new.m \in Machines /\ 0 \in Int
          BY <3>3 DEF Tame
        <5> DEFINE zero == 0
        <5>2. zero \in Int
          BY <5>1
        <5> HIDE DEF zero
        <5>3. Reads(new.m, [new.m EXCEPT !.minode[t].refCount = zero])
          BY <3>3, <3>6, <5>1, <5>2, ReadsCount
        <5>4. Reads(new.m, unref)
          BY <5>3 DEF zero
        <5> HIDE DEF unref
        <5> QED BY <3>3, <5>4 DEF Tame, Reads, Known, Listed
      <4> HIDE DEF unref
      <4>2. n \in Tame(J)
        BY <2>1, <3>3, <3>6, <4>1, ServesNull
      <4> HIDE DEF n
      <4>3. Entry(name, new.ino) \in EntryType /\ Entry(name, new.ino).ino \in J \cup {0}
        BY <3>3, <3>4 DEF Entry, EntryType
      <4> QED BY <2>1, <3>1, <3>6, <4>2, <4>3, TameRelease
    <3> QED BY <3>5, <3>6
  <2>3. Kmkdir(m, s, name) \in Tame(J)
    <3> DEFINE new == NewMinode(m, "dir", 2)
               n == Iput(new.m, new.s)
               dots == DotEntries(n, s, new.ino)
               d == [n EXCEPT !.dir[new.blk] = dots]
    <3>1. Kmkdir(m, s, name) = IF new.m.st # "up" THEN new.m
                               ELSE EnterAndRelease(d, s, Entry(name, new.ino))
      BY <1>2 DEF Kmkdir, With
    <3>2. "dir" \in {"reg", "dir"} /\ 2 \in U16
      BY DEF U16
    <3>3. /\ new.m \in Tame(J) /\ new.ino \in J \cup {0} /\ new.s \in Slots \cup {NULL}
          /\ new.blk \in Blks \cup {0}
      BY <1>2, <3>2, TameNew
    <3> HIDE DEF new
    <3>4. new.ino \in Inos \cup {0}
      BY <3>3, <2>1 DEF Tame, Machines
    <3> HIDE DEF J
    <3>5. n \in Tame(J)
      BY <2>1, <3>3, ServesNull
    <3> HIDE DEF n
    <3>6. n.minode[s].ino \in J \cup {0} /\ n.minode[s].ino \in Inos \cup {0}
      BY <3>5 DEF Tame, Known, Machines
    <3>7. dots \in Chains /\ \A k \in DOMAIN dots : dots[k].ino \in J \cup {0}
      <4>1. Entry(".", new.ino) \in EntryType /\ Entry("..", n.minode[s].ino) \in EntryType
        BY <3>4, <3>6, NamesAssumption DEF Entry, EntryType
      <4>2. <<Entry(".", new.ino), Entry("..", n.minode[s].ino)>> \in Seq(EntryType)
        BY <4>1
      <4>3. \A k \in DOMAIN dots : dots[k].ino \in J \cup {0}
        BY <3>3, <3>6 DEF DotEntries, Entry
      <4> QED BY <4>2, <4>3 DEF Chains, EntryType, DotEntries
    <3> HIDE DEF dots
    <3>8. d \in Tame(J)
      BY <3>3, <3>5, <3>7, TameBlock
    <3> HIDE DEF d
    <3>9. Entry(name, new.ino) \in EntryType /\ Entry(name, new.ino).ino \in J \cup {0}
      BY <3>3, <3>4 DEF Entry, EntryType
    <3>10. EnterAndRelease(d, s, Entry(name, new.ino)) \in Tame(J)
      BY <2>1, <3>8, <3>9, TameRelease
    <3> QED BY <3>1, <3>3, <3>10
  <2> QED BY <2>2, <2>3
<1> QED BY <1>1, <1>2

\* mkdir and creat.
LEMMA TameMakers ==
    ASSUME NEW I, NEW x \in Tame(I), ROOT \in I, NEW path \in PathType, path.comps # <<>>
    PROVE  \E J : /\ ROOT \in J /\ MyMkdir(x, path) \in Tame(I) \cup Tame(J)
                  /\ MyCreat(x, path) \in Tame(I) \cup Tame(J)
<1> DEFINE p == NewParent(x, path)
           name == Basename(path)
<1>1. /\ MyMkdir(x, path) = IF p.enter THEN Kmkdir(p.m, p.s, name) ELSE p.m
      /\ MyCreat(x, path) = IF p.enter THEN Kcreat(p.m, p.s, name) ELSE p.m
  BY DEF MyMkdir, MyCreat, With
<1>2. p.m \in Tame(I) /\ (p.enter => p.s \in Slots)
  BY TameServes, NewParentServes
<1>3. name \in FileNames
  BY PathParts
<1> HIDE DEF p, name
<1>4. CASE ~ p.enter
  BY <1>1, <1>2, <1>4
<1>5. CASE p.enter
  <2> DEFINE J == I \cup ({FreeIno(p.m)} \cap Inos)
  <2>1. /\ Kcreat(p.m, p.s, name) \in Tame(I) \cup Tame(J)
        /\ Kmkdir(p.m, p.s, name) \in Tame(I) \cup Tame(J)
    BY <1>2, <1>3, <1>5, TameMake
  <2>2. ROOT \in J
    OBVIOUS
  <2> HIDE DEF J
  <2> QED BY <1>1, <1>5, <2>1, <2>2
<1> QED BY <1>4, <1>5

\* link.
LEMMA TameLink ==
    ASSUME NEW I, NEW x \in Tame(I), ROOT \in I, NEW old \in PathType,
           NEW new \in PathType, new.comps # <<>>
    PROVE  MyLink(x, old, new) \in Tame(I)
<1> DEFINE o == Fetch(x, old)
           g == Getino(o.m, new)
           p == Fetch(g.m, Dirname(new))
           m1 == EnterChild(p.m, p.s, Entry(Basename(new), o.ino))
           m2 == Store(m1, o.s, GainLink(Inode(m1, o.s)))
           m3 == Iput(m2, o.s)
<1>1. MyLink(x, old, new) =
        IF g.m.st # "up" \/ g.ino # 0 \/ o.s = NULL THEN g.m
        ELSE IF IsDir(g.m, o.s) THEN g.m
        ELSE IF p.m.st # "up" \/ p.s = NULL THEN p.m
        ELSE IF ~ IsDir(p.m, p.s) THEN p.m
        ELSE IF m1.st # "up" THEN m1
        ELSE Iput(m3, p.s)
  BY DEF MyLink, With
<1>0. Serves(Tame(I), I)
  BY TameServes
<1>2. o.m \in Tame(I) /\ o.s \in Slots \cup {NULL} /\ o.ino \in I \cup {0}
  BY <1>0, FetchServes
<1>3. o.ino \in Inos \cup {0} /\ Dirname(new) \in PathType /\ Basename(new) \in FileNames
  BY <1>2, PathParts DEF Tame, Machines
<1> HIDE DEF o
<1>4. g.m \in Tame(I)
  BY <1>0, <1>2, FetchServes
<1> HIDE DEF g
<1>5. p.m \in Tame(I) /\ p.s \in Slots \cup {NULL}
  BY <1>0, <1>3, <1>4, FetchServes
<1> HIDE DEF p
<1>6. CASE o.s \in Slots /\ p.s \in Slots
  <2>1. /\ Entry(Basename(new), o.ino) \in EntryType
        /\ Entry(Basename(new), o.ino).ino \in I \cup {0}
    BY <1>2, <1>3 DEF Entry, EntryType
  <2>2. m1 \in Tame(I)
    BY <1>5, <1>6, <2>1, TameEnter
  <2> HIDE DEF m1
  <2>3. Inode(m1, o.s) \in INODEs
    BY <1>0, <1>6, <2>2, ServesParts
  <2>4. m2 \in Tame(I)
    BY <1>6, <2>2, <2>3, GainLinkType, TameStore
  <2> HIDE DEF m2
  <2>5. m3 \in Tame(I)
    BY <1>0, <1>6, <2>4, ServesNull
  <2> HIDE DEF m3
  <2>6. Iput(m3, p.s) \in Tame(I)
    BY <1>0, <1>6, <2>5, ServesNull
  <2> QED BY <1>1, <1>4, <1>5, <2>2, <2>6
<1>7. CASE o.s = NULL \/ p.s = NULL
  BY <1>1, <1>4, <1>5, <1>7
<1> QED BY <1>2, <1>5, <1>6, <1>7

-----------------------------------------------------------------------------
(* Between two commands.                                                   *)

\* The numbers of the slots and of the entries, of the variables.
CalmInv == SpaceInv /\ Known(Here) /\ Listed(Here)

\* The variables in the machine they make.
LEMMA HereIs ==
    /\ Here.minode = minode /\ Here.cwd = cwd /\ Here.st = st /\ Here.itable = itable
    /\ Here.imap = imap /\ Here.bmap = bmap /\ Here.dir = dir
BY DEF Here

\* A command starts on a tame machine.
LEMMA NowTame ==
    ASSUME CalmInv, Careful, st # "down", NEW j \in Junk
    PROVE  Now(j) \in Tame(imap) /\ ROOT \in imap
<1>1. Ok(Now(j), Pins(cwd), cwd, minode[cwd].ino)
  BY NowOk DEF CalmInv
<1>2. Now(j).minode = minode /\ Now(j).imap = imap /\ Now(j).dir = dir
  BY DEF Now
<1> HIDE DEF Now
<1>3. Now(j) \in Machines
  BY <1>1, Held
<1>4. ROOT \in imap
  <2>1. Marked(Now(j))
    BY <1>1 DEF Ok, Pinned
  <2> QED BY <1>2, <2>1, Numbering DEF Marked
<1>5. Known(Now(j)) /\ Listed(Now(j))
  BY <1>2, HereIs DEF CalmInv, Known, Listed
<1> QED BY <1>2, <1>3, <1>4, <1>5 DEF Tame

\* A slot that is forgotten has number 0.
LEMMA ForgetTame ==
    ASSUME NEW m, NEW s \in Slots
    PROVE  Forget(m)[s] = m.minode[s] \/ Forget(m)[s].ino = 0
<1>1. Forget(m)[s] = IF m.minode[s].refCount = 0 /\ s \notin {Root, m.cwd}
                     THEN [Blank[s] EXCEPT !.dirty = m.minode[s].dirty]
                     ELSE m.minode[s]
  BY DEF Forget
<1>2. [Blank[s] EXCEPT !.dirty = m.minode[s].dirty].ino = 0
  BY DEF Blank
<1> QED BY <1>1, <1>2

\* And it ends on one.
LEMMA LeavesTame ==
    ASSUME NEW I, NEW m \in Tame(I), Leaves(m)
    PROVE  Known(Here)' /\ Listed(Here)'
<1>1. /\ minode' = (IF m.st = "down" THEN Blank ELSE Forget(m))
      /\ imap' = m.imap /\ dir' = m.dir
  BY DEF Leaves
<1>2. Here.minode' = minode' /\ Here.imap' = imap' /\ Here.dir' = dir'
  BY DEF Here
<1>3. \A s \in Slots : minode'[s].ino = m.minode[s].ino \/ minode'[s].ino = 0
  BY <1>1, ForgetTame, BlankEmpty
<1>4. Known(m) /\ Listed(m)
  BY DEF Tame
<1> HIDE DEF Here
<1> QED BY <1>1, <1>2, <1>3, <1>4 DEF Known, Listed

\* A disk that mkfs made.
LEMMA CalmInit ==
    ASSUME Init
    PROVE  CalmInv
<1>1. SpaceInv
  BY SpaceInit
<1>2. /\ minode = Blank /\ imap = 1 .. ROOT
      /\ dir = [b \in Blks \cup {0} |->
                     IF b = 1 THEN <<Entry(".", ROOT), Entry("..", ROOT)>> ELSE <<>>]
  BY DEF Init
<1>3. ROOT \in imap
  BY <1>2 DEF ROOT
<1>4. \A s \in Slots : minode[s].ino = 0
  BY <1>2, BlankEmpty
<1>5. ASSUME NEW b \in Blks \cup {0}, NEW k \in DOMAIN dir[b] PROVE dir[b][k].ino \in imap
  <2> DEFINE dots == <<Entry(".", ROOT), Entry("..", ROOT)>>
  <2>1. \A l \in DOMAIN dots : dots[l].ino = ROOT
    BY DEF Entry
  <2>2. dir[b] = IF b = 1 THEN dots ELSE <<>>
    BY <1>2
  <2> HIDE DEF dots
  <2> QED BY <1>3, <1>5, <2>1, <2>2
<1> QED BY <1>1, <1>4, <1>5, HereIs DEF CalmInv, Known, Listed

\* quit and the death of the process change no number.
LEMMA CalmEnds ==
    ASSUME NEW m, NEW c, NEW i, Ok(m, Pins(c), c, i), NEW I, m \in Tame(I),
           NEW how \in {"down", "undefined"}
    PROVE  /\ [m EXCEPT !.itable = QuitDisk(m.minode, m.itable), !.st = how] \in Tame(I)
           /\ [m EXCEPT !.st = how] \in Tame(I)
<1> DEFINE D == QuitDisk(m.minode, m.itable)
           n == [m EXCEPT !.itable = D, !.st = how]
           k == [m EXCEPT !.st = how]
<1>1. n \in Machines /\ k \in Machines
  <2>1. After(n, c, i) /\ After(k, c, i)
    BY QuitOk, StopOk
  <2> HIDE DEF n, k
  <2> QED BY <2>1, Held DEF After
<1>2. m \in Machines /\ m.imap = I /\ Known(m) /\ Listed(m)
  BY DEF Tame
<1> HIDE DEF D
<1>3. /\ n.minode = m.minode /\ n.imap = m.imap /\ n.dir = m.dir
      /\ k.minode = m.minode /\ k.imap = m.imap /\ k.dir = m.dir
  BY <1>2 DEF Machines
<1> HIDE DEF n, k
<1>4. n \in Tame(I) /\ k \in Tame(I)
  BY <1>1, <1>2, <1>3 DEF Tame, Known, Listed
<1> QED BY <1>4 DEF n, k, D

\* Every careful command keeps the numbers allocated.
LEMMA CalmStep ==
    ASSUME CalmInv, Careful, [Next]_vars
    PROVE  CalmInv'
<1> DEFINE Goal == Known(Here)' /\ Listed(Here)'
<1>0. SpaceInv' /\ SpaceInv
  BY SpaceStep DEF CalmInv
<1> SUFFICES Goal
  BY <1>0 DEF CalmInv
<1>1. \A p \in Paths : p \in PathType
  BY PathsAssumption
<1>2. \A p \in Named : p \in PathType /\ p.comps # <<>>
  BY PathsAssumption DEF Named
<1>3. ASSUME NEW m, NEW I, Leaves(m), m \in Tame(I) PROVE Goal
  BY <1>3, LeavesTame
<1>4. ASSUME NEW j \in Junk, st # "down"
      PROVE  /\ Now(j) \in Tame(imap) /\ ROOT \in imap /\ Serves(Tame(imap), imap)
             /\ Ok(Now(j), Pins(cwd), cwd, minode[cwd].ino)
  BY <1>0, <1>4, NowTame, TameServes, NowOk
<1> HIDE DEF Goal
<1>5. CASE Mkdir
  <2>1. PICK p \in Named, j \in Junk : Leaves(MyMkdir(Now(j), p))
    BY <1>5 DEF Mkdir
  <2>2. PICK J : MyMkdir(Now(j), p) \in Tame(imap) \cup Tame(J)
    BY <1>2, <1>4, <1>5, TameMakers DEF Mkdir, Runs
  <2> QED BY <1>3, <2>1, <2>2
<1>6. CASE Creat
  <2>1. PICK p \in Named, j \in Junk : Leaves(MyCreat(Now(j), p))
    BY <1>6 DEF Creat
  <2>2. PICK J : MyCreat(Now(j), p) \in Tame(imap) \cup Tame(J)
    BY <1>2, <1>4, <1>6, TameMakers DEF Creat, Runs
  <2> QED BY <1>3, <2>1, <2>2
<1>7. CASE Link
  <2>1. PICK p \in Paths, q \in Named, j \in Junk : Leaves(MyLink(Now(j), p, q))
    BY <1>7 DEF Link
  <2>2. MyLink(Now(j), p, q) \in Tame(imap)
    BY <1>1, <1>2, <1>4, <1>7, TameLink DEF Link, Runs
  <2> QED BY <1>3, <2>1, <2>2
<1>8. CASE ChangeDir
  <2>1. PICK p \in Paths, j \in Junk : Leaves(Cd(Now(j), p))
    BY <1>8 DEF ChangeDir
  <2>2. Cd(Now(j), p) \in Tame(imap)
    BY <1>1, <1>4, <1>8, CdServes DEF ChangeDir, Runs
  <2> QED BY <1>3, <2>1, <2>2
<1>9. CASE List
  <2>1. PICK j \in Junk : \/ Leaves(LsCwd(Now(j)))
                          \/ \E p \in Paths : Leaves(Ls(Now(j), p))
    BY <1>9 DEF List
  <2>2. LsCwd(Now(j)) \in Tame(imap) /\ \A p \in Paths : Ls(Now(j), p) \in Tame(imap)
    BY <1>1, <1>4, <1>9, LsServes DEF List, Runs
  <2> QED BY <1>3, <2>1, <2>2
<1>10. CASE PrintDir
  <2>1. PICK j \in Junk : Leaves(Pwd(Now(j)))
    BY <1>10 DEF PrintDir
  <2>2. Pwd(Now(j)) \in Tame(imap)
    BY <1>4, <1>10, PwdServes DEF PrintDir, Runs
  <2> QED BY <1>3, <2>1, <2>2
<1>11. CASE Quit
  <2> DEFINE how == IF \E s \in Flushed(minode) : minode[s].ino = 0 THEN "undefined" ELSE "down"
  <2>1. PICK j \in Junk : Leaves([Now(j) EXCEPT !.itable = QuitDisk(minode, @), !.st = how])
    BY <1>11 DEF Quit
  <2> DEFINE m == Now(j)
  <2>2. /\ Ok(m, Pins(cwd), cwd, minode[cwd].ino) /\ m \in Tame(imap)
        /\ Leaves([m EXCEPT !.itable = QuitDisk(m.minode, m.itable), !.st = how])
    <3>1. m.minode = minode
      BY DEF Now
    <3> QED BY <1>4, <1>11, <2>1, <3>1 DEF Quit, Runs
  <2>3. how \in {"down", "undefined"}
    OBVIOUS
  <2> HIDE DEF m, how
  <2> QED BY <1>3, <2>2, <2>3, CalmEnds
<1>12. CASE Kill
  <2>1. PICK j \in Junk : Leaves([Now(j) EXCEPT !.st = "down"])
    BY <1>12 DEF Kill
  <2>2. [Now(j) EXCEPT !.st = "down"] \in Tame(imap)
    BY <1>4, <1>12, CalmEnds DEF Kill
  <2> QED BY <1>3, <2>1, <2>2
<1>13. CASE Boot
  <2>1. minode = Blank /\ UNCHANGED <<itable, imap, dir>>
        /\ minode' = IgetTable(IgetTable(Blank, itable, ROOT), itable, ROOT)
    BY <1>0, <1>13, HereParts DEF Boot
  <2>2. ROOT \in imap /\ itable[ROOT] \in INODEs /\ ROOT \in Inos \cup {0}
    <3>1. Rests(Here) /\ Here.st = "down"
      BY <1>0, <1>13, HereIs DEF Boot, SpaceInv, Kept
    <3>2. Marked(Here)
      BY <3>1 DEF Rests
    <3>3. TypeOK
      BY <1>0, HereParts
    <3> QED BY <3>2, <3>3, HereIs, Numbering DEF Marked, TypeOK
  <2> DEFINE a == IgetTable(Blank, itable, ROOT)
             b == IgetTable(a, itable, ROOT)
  <2>3. a \in [Slots -> MINODEs] /\ \A s \in Slots : a[s].ino \in {0, ROOT}
    <3>1. Blank \in [Slots -> MINODEs]
      BY BlankTypes
    <3> QED BY <2>2, <3>1, IgetTableEffect, BlankEmpty
  <2> HIDE DEF a
  <2>4. \A s \in Slots : b[s].ino \in {0, ROOT}
    BY <2>2, <2>3, IgetTableEffect
  <2>5. \A s \in Slots : minode'[s].ino \in {0, ROOT}
    BY <2>1, <2>4 DEF a
  <2>6. Here.minode' = minode' /\ Here.imap' = imap /\ Here.dir' = dir
    BY <2>1 DEF Here
  <2>7. Known(Here)' /\ Listed(Here)'
    BY <2>2, <2>5, <2>6, HereIs DEF CalmInv, Known, Listed
  <2> QED BY <2>7 DEF Goal
<1>14. CASE Rmdir \/ Unlink \/ SymLink
  BY <1>14 DEF Rmdir, Unlink, SymLink, Runs, Careful
<1>15. CASE UNCHANGED vars
  <2>1. Here' = Here
    BY <1>15 DEF vars, Here
  <2>2. Known(Here') /\ Listed(Here')
    BY <2>1 DEF CalmInv
  <2> QED BY <2>2 DEF Goal
<1> QED BY <1>0, <1>5, <1>6, <1>7, <1>8, <1>9, <1>10, <1>11, <1>12, <1>13, <1>14, <1>15
        DEF Next

\* The entries the users see are entries of blocks.
LEMMA CalmNamed ==
    ASSUME CalmInv
    PROVE  NamedAllocated
<1>1. SpaceInv /\ TypeOK /\ Listed(Here)
  BY HereParts DEF CalmInv
<1> SUFFICES ASSUME NEW d \in Dirs, NEW e \in Children(d) PROVE e.ino \in imap \cup {0}
  BY DEF NamedAllocated
<1>2. d \in Inos
  BY <1>1 DEF Dirs, TypeOK
<1>3. PICK b \in BlocksOf(Current(d)) : e \in ToSet(dir[b])
  BY DEF Children, Entries
<1>4. b \in Blks \cup {0}
  BY <1>1, <1>2, CurrentIs, InodeParts DEF BlocksOf
<1>5. PICK k \in DOMAIN dir[b] : e = dir[b][k]
  BY <1>3 DEF ToSet
<1> QED BY <1>1, <1>4, <1>5, HereIs DEF Listed

\* While nothing is removed and no symbolic link is made, an inode number that an entry
\* names is never free for the next file: ialloc() marks it before enter_child() writes
\* the entry, and what dies in between leaves a number marked and unnamed.
THEOREM NamesAreAllocated ==
    ASSUME Careful
    PROVE  Spec => []NamedAllocated
<1>1. Init => CalmInv
  BY CalmInit
<1>2. CalmInv /\ [Next]_vars => CalmInv'
  BY CalmStep
<1>3. CalmInv => NamedAllocated
  BY CalmNamed
<1> QED BY <1>1, <1>2, <1>3, PTL DEF Spec

-----------------------------------------------------------------------------
(* The tree on the disk.                                                   *)

\* Two INODEs of one type, with the same blocks: links counts may differ.
Same(x, y) == x.type = y.type /\ x.block = y.block

\* The INODE of a slot, in use or not, is that of the disk but for its links count.
Coherent(m) == \A s \in Slots : m.minode[s].ino # 0
                  => Same(m.minode[s].INODE, m.itable[m.minode[s].ino])

\* The directories of the disk, and the entries in the first block of one.
TDirs(m) == {i \in Inos : m.itable[i].type = "dir"}
Ch(m, d) == m.dir[m.itable[d].block[1]]

\* The numbers in use are the first ones, the directories among them.
Numbered(m) == /\ ROOT \in TDirs(m) /\ TDirs(m) \subseteq m.imap
               /\ \E k \in Inos : m.imap = 1 .. k

\* A directory has one block, which is marked and its own.
Packed(m) ==
    /\ \A d \in TDirs(m) : /\ m.itable[d].block[1] \in m.bmap \cap Blks
                           /\ \A k \in 1 .. NDIRECT : k # 1 => m.itable[d].block[k] = 0
    /\ \A d, e \in TDirs(m) : m.itable[d].block[1] = m.itable[e].block[1] => d = e

\* It starts with "." and ".."; the parent has the smaller number.
Dotted(m) ==
    \A d \in TDirs(m) : /\ Len(Ch(m, d)) >= 2
                        /\ Ch(m, d)[1] = Entry(".", d)
                        /\ Ch(m, d)[2].name = ".." /\ Ch(m, d)[2].ino \in TDirs(m)
                        /\ d = ROOT => Ch(m, d)[2].ino = ROOT
                        /\ d # ROOT => Ch(m, d)[2].ino < d

\* The other entries are names of allocated inodes.
Filled(m) ==
    \A d \in TDirs(m) : \A k \in 3 .. Len(Ch(m, d)) :
        /\ Ch(m, d)[k].name \in Names
        /\ Ch(m, d)[k].ino \in m.imap /\ Ch(m, d)[k].ino # ROOT

\* A directory is named by its parent, and by no other directory.
Upward(m) ==
    \A d, c \in TDirs(m) : \A k \in 3 .. Len(Ch(m, d)) :
        Ch(m, d)[k].ino = c => Ch(m, c)[2].ino = d
Downward(m) ==
    \A c \in TDirs(m) : c # ROOT =>
        \E k \in 3 .. Len(Ch(m, Ch(m, c)[2].ino)) : Ch(m, Ch(m, c)[2].ino)[k].ino = c

Shape(m) == /\ Numbered(m) /\ Packed(m) /\ Dotted(m) /\ Filled(m)
            /\ Upward(m) /\ Downward(m)

\* Two machines with the same tree on the disk.
Alike(x, n) == /\ n.imap = x.imap /\ n.bmap = x.bmap /\ n.dir = x.dir
               /\ \A i \in Inos : Same(n.itable[i], x.itable[i])

\* The machines a command that only reads the tree goes through.
Near(x) == {n \in Tame(x.imap) : Coherent(n) /\ Alike(x, n)}

\* An inode keeps its type and its blocks in a step that only reads the tree.
LEMMA ReadsCoherent ==
    ASSUME NEW x \in Machines, Coherent(x), Known(x), NEW n \in Machines, Reads(x, n)
    PROVE  Coherent(n) /\ Alike(x, n)
<1>1. ASSUME NEW i \in Inos PROVE Same(n.itable[i], x.itable[i])
  <2>1. CASE n.itable[i] = x.itable[i]
    BY <2>1 DEF Same
  <2>2. CASE \E s \in Slots : x.minode[s].ino = i /\ n.itable[i] = x.minode[s].INODE
    <3>1. PICK s \in Slots : x.minode[s].ino = i /\ n.itable[i] = x.minode[s].INODE
      BY <2>2
    <3>2. i # 0
      BY Numbering
    <3> QED BY <3>1, <3>2 DEF Coherent
  <2> QED BY <2>1, <2>2 DEF Reads
<1>2. ASSUME NEW s \in Slots, n.minode[s].ino # 0
      PROVE  Same(n.minode[s].INODE, n.itable[n.minode[s].ino])
  <2> DEFINE i == n.minode[s].ino
  <2>1. i \in Inos
    <3>1. n.minode[s] \in MINODEs
      BY DEF Machines
    <3> QED BY <1>2, <3>1 DEF MINODEs
  <2>2. Same(n.itable[i], x.itable[i])
    BY <1>1, <2>1
  <2>3. CASE n.minode[s].ino = x.minode[s].ino /\ n.minode[s].INODE = x.minode[s].INODE
    <3>1. Same(x.minode[s].INODE, x.itable[i])
      BY <1>2, <2>3 DEF Coherent
    <3> QED BY <2>2, <2>3, <3>1 DEF Same
  <2>4. CASE n.minode[s].INODE = x.itable[i]
    BY <2>2, <2>4 DEF Same
  <2> QED BY <2>3, <2>4 DEF Reads
<1> QED BY <1>1, <1>2 DEF Coherent, Alike, Reads

\* Same and Alike are transitive.
LEMMA AlikeMore ==
    ASSUME NEW x, NEW y, NEW z, Alike(x, y), Alike(y, z)
    PROVE  Alike(x, z)
BY DEF Alike, Same

\* The machines near one serve the commands that only read the tree.
LEMMA NearServes ==
    ASSUME NEW x, ROOT \in x.imap
    PROVE  Serves(Near(x), x.imap)
<1>1. ASSUME NEW y \in Near(x), NEW n \in Machines, Reads(y, n) PROVE n \in Near(x)
  <2>1. y \in Machines /\ y.imap = x.imap /\ Known(y) /\ Listed(y) /\ Coherent(y) /\ Alike(x, y)
    BY DEF Near, Tame
  <2>2. Coherent(n) /\ Alike(y, n)
    BY <1>1, <2>1, ReadsCoherent
  <2>3. Alike(x, n)
    BY <2>1, <2>2, AlikeMore
  <2>4. n \in Tame(x.imap)
    BY <1>1, <2>1 DEF Tame, Reads, Known, Listed
  <2> QED BY <2>2, <2>3, <2>4 DEF Near
<1>2. Near(x) \subseteq Tame(x.imap)
  BY DEF Near
<1> QED BY <1>1, <1>2, ReadsServe

\* A machine is near itself.
LEMMA NearFirst ==
    ASSUME NEW I, NEW x \in Tame(I), Coherent(x)
    PROVE  x \in Near(x) /\ Alike(x, x)
BY DEF Near, Tame, Alike, Same

\* The tree is that of the disk: directories, blocks and entries.
LEMMA AlikeDirs ==
    ASSUME NEW x, NEW n, Alike(x, n)
    PROVE  /\ TDirs(n) = TDirs(x)
           /\ \A d \in Inos : /\ n.itable[d].block = x.itable[d].block
                              /\ Ch(n, d) = Ch(x, d)
<1>1. \A d \in Inos : /\ n.itable[d].block = x.itable[d].block
                      /\ n.itable[d].type = x.itable[d].type
  BY DEF Alike, Same
<1> QED BY <1>1 DEF TDirs, Ch, Alike

\* Machines with the same tree have it in the same shape.
LEMMA AlikeShape ==
    ASSUME NEW x, NEW n, Alike(x, n), Shape(x)
    PROVE  Shape(n)
<1>1. /\ TDirs(n) = TDirs(x) /\ n.imap = x.imap /\ n.bmap = x.bmap
      /\ \A d \in TDirs(x) : n.itable[d].block = x.itable[d].block /\ Ch(n, d) = Ch(x, d)
  <2>1. TDirs(x) \subseteq Inos
    BY DEF TDirs
  <2> QED BY <2>1, AlikeDirs DEF Alike
<1>2. Numbered(n)
  BY <1>1 DEF Shape, Numbered
<1>3. Packed(n)
  BY <1>1 DEF Shape, Packed
<1>4. Dotted(n)
  BY <1>1 DEF Shape, Dotted
<1>5. Filled(n)
  BY <1>1 DEF Shape, Filled
<1>6. Upward(n)
  BY <1>1 DEF Shape, Upward
<1>7. Downward(n)
  <2>1. \A c \in TDirs(x) : Ch(x, c)[2].ino \in TDirs(x)
    BY DEF Shape, Dotted
  <2> QED BY <1>1, <2>1 DEF Shape, Downward
<1> QED BY <1>2, <1>3, <1>4, <1>5, <1>6, <1>7 DEF Shape

-----------------------------------------------------------------------------
(* The tree grows.                                                         *)

\* The block of a directory.
TBlk(m, d) == m.itable[d].block[1]

\* An inode of a type with the number and the block that are free, and its name at the
\* end of directory d.
Added(x, n, d, name, type) ==
    LET ino == FreeIno(x)
        blk == FreeBlk(x)
    IN  /\ n.imap = x.imap \cup {ino} /\ n.bmap = x.bmap \cup {blk}
        /\ \A i \in Inos : i # ino => Same(n.itable[i], x.itable[i])
        /\ n.itable[ino].type = type
        /\ \A k \in 1 .. NDIRECT : n.itable[ino].block[k] = IF k = 1 THEN blk ELSE 0
        /\ n.dir[TBlk(x, d)] = Append(x.dir[TBlk(x, d)], Entry(name, ino))
        /\ type = "dir" => n.dir[blk] = <<Entry(".", ino), Entry("..", d)>>
        /\ \A b \in Blks : b # TBlk(x, d) /\ b # blk => n.dir[b] = x.dir[b]

\* A number and a block are marked, and nothing else.
Orphaned(x, n) ==
    /\ n.imap = x.imap \cup {FreeIno(x)} /\ n.bmap = x.bmap \cup {FreeBlk(x)}
    /\ n.dir = x.dir
    /\ \A i \in Inos : Same(n.itable[i], x.itable[i])

\* The number ialloc() returns is the next one.
LEMMA NextNumber ==
    ASSUME NEW x \in Machines, Numbered(x), FreeIno(x) # 0
    PROVE  /\ FreeIno(x) \in Inos /\ FreeIno(x) \notin x.imap
           /\ \A i \in x.imap : i < FreeIno(x)
           /\ x.imap \cup {FreeIno(x)} = 1 .. FreeIno(x)
<1> DEFINE f == FreeIno(x)
           T == Inos \ x.imap
<1>1. f \in Inos /\ f \notin x.imap
  BY Free
<1>2. PICK k \in Inos : x.imap = 1 .. k
  BY DEF Numbered
<1>3. T \subseteq Nat /\ T # {} /\ f = FirstOf(T)
  BY <1>1, Numbering DEF FreeIno
<1>4. \A y \in T : f <= y
  <2> HIDE DEF T, f
  <2>1. \E y \in T : \A z \in T : y <= z
    BY <1>3, LeastNumber
  <2> QED BY <1>3, <2>1 DEF FirstOf
<1> HIDE DEF f
<1>5. NINODES \in Nat /\ k \in 1 .. NINODES /\ f \in 1 .. NINODES
  BY <1>1, GeometryAssumption DEF Inos
<1>6. f > k
  BY <1>1, <1>2, <1>5
<1>7. k + 1 \in T
  BY <1>2, <1>5, <1>6 DEF Inos
<1>8. f = k + 1
  BY <1>4, <1>5, <1>6, <1>7
<1> QED BY <1>1, <1>2, <1>5, <1>8 DEF f

\* An orphan is no directory.
LEMMA OrphanShape ==
    ASSUME NEW x \in Machines, Shape(x), FreeIno(x) # 0, NEW n, Orphaned(x, n)
    PROVE  /\ Shape(n) /\ TDirs(n) = TDirs(x)
           /\ \A d \in TDirs(x) : Ch(n, d) = Ch(x, d)
<1>1. /\ TDirs(n) = TDirs(x)
      /\ \A d \in TDirs(x) : n.itable[d].block = x.itable[d].block /\ Ch(n, d) = Ch(x, d)
  BY DEF Orphaned, TDirs, Same, Ch
<1>2. /\ x.imap \subseteq n.imap /\ x.bmap \subseteq n.bmap
      /\ FreeIno(x) \in Inos /\ n.imap = 1 .. FreeIno(x)
  <2>1. FreeIno(x) \in Inos /\ x.imap \cup {FreeIno(x)} = 1 .. FreeIno(x)
    BY NextNumber DEF Shape
  <2> QED BY <2>1 DEF Orphaned
<1>3. Numbered(n)
  BY <1>1, <1>2 DEF Shape, Numbered
<1>4. Packed(n)
  BY <1>1, <1>2 DEF Shape, Packed
<1>5. Dotted(n)
  BY <1>1 DEF Shape, Dotted
<1>6. Filled(n)
  BY <1>1, <1>2 DEF Shape, Filled
<1>7. Upward(n)
  BY <1>1 DEF Shape, Upward
<1>8. Downward(n)
  <2>1. \A c \in TDirs(x) : Ch(x, c)[2].ino \in TDirs(x)
    BY DEF Shape, Dotted
  <2> QED BY <1>1, <2>1 DEF Shape, Downward
<1> QED BY <1>1, <1>3, <1>4, <1>5, <1>6, <1>7, <1>8 DEF Shape

\* The directories after a new name, and their entries.
LEMMA AddedDirs ==
    ASSUME NEW x \in Machines, Shape(x), FreeIno(x) # 0, FreeBlk(x) # 0,
           NEW n, NEW d \in TDirs(x), NEW name, NEW type, Added(x, n, d, name, type)
    PROVE  LET ino == FreeIno(x)
           IN  /\ ino \in Inos /\ ino \notin TDirs(x)
               /\ TDirs(n) = TDirs(x) \cup (IF type = "dir" THEN {ino} ELSE {})
               /\ \A c \in TDirs(x) : n.itable[c].block = x.itable[c].block
               /\ \A c \in TDirs(x) : c # d => Ch(n, c) = Ch(x, c)
               /\ Ch(n, d) = Append(Ch(x, d), Entry(name, ino))
               /\ type = "dir" => Ch(n, ino) = <<Entry(".", ino), Entry("..", d)>>
               /\ Ch(x, d) \in Chains
<1> DEFINE ino == FreeIno(x)
           blk == FreeBlk(x)
<1>1. /\ ino \in Inos /\ ino \notin x.imap /\ blk \in Blks /\ blk \notin x.bmap
  BY Free
<1>2. TDirs(x) \subseteq x.imap /\ TDirs(x) \subseteq Inos
  BY DEF Shape, Numbered, TDirs
<1>3. \A c \in TDirs(x) : TBlk(x, c) \in x.bmap /\ TBlk(x, c) \in Blks
  BY DEF Shape, Packed, TBlk
<1>4. \A c \in TDirs(x) : TBlk(x, c) = TBlk(x, d) => c = d
  BY DEF Shape, Packed, TBlk
<1>5. /\ n.imap = x.imap \cup {ino} /\ n.bmap = x.bmap \cup {blk}
      /\ \A i \in Inos : i # ino => Same(n.itable[i], x.itable[i])
      /\ n.itable[ino].type = type
      /\ \A k \in 1 .. NDIRECT : n.itable[ino].block[k] = IF k = 1 THEN blk ELSE 0
      /\ n.dir[TBlk(x, d)] = Append(x.dir[TBlk(x, d)], Entry(name, ino))
      /\ type = "dir" => n.dir[blk] = <<Entry(".", ino), Entry("..", d)>>
      /\ \A b \in Blks : b # TBlk(x, d) /\ b # blk => n.dir[b] = x.dir[b]
  BY DEF Added
<1> HIDE DEF ino, blk
<1>6. TDirs(n) = TDirs(x) \cup (IF type = "dir" THEN {ino} ELSE {})
  BY <1>1, <1>2, <1>5 DEF TDirs, Same
<1>7. \A c \in TDirs(x) : n.itable[c].block = x.itable[c].block
  BY <1>1, <1>2, <1>5 DEF Same
<1>8. \A c \in TDirs(x) : c # d => Ch(n, c) = Ch(x, c)
  BY <1>1, <1>3, <1>4, <1>5, <1>7 DEF Ch, TBlk
<1>9. Ch(n, d) = Append(Ch(x, d), Entry(name, ino))
  BY <1>5, <1>7 DEF Ch, TBlk
<1>10. type = "dir" => Ch(n, ino) = <<Entry(".", ino), Entry("..", d)>>
  BY <1>5, Numbering DEF Ch
<1>11. Ch(x, d) \in Chains
  BY <1>3 DEF Ch, TBlk, Machines
<1> QED BY <1>1, <1>2, <1>6, <1>7, <1>8, <1>9, <1>10, <1>11 DEF ino

\* The entries of a directory that got one more.
LEMMA AddedEntry ==
    ASSUME NEW chain \in Chains, NEW e, Len(chain) >= 2
    PROVE  LET more == Append(chain, e)
           IN  /\ Len(chain) \in Nat /\ Len(more) = Len(chain) + 1
               /\ more[1] = chain[1] /\ more[2] = chain[2]
               /\ \A k \in 3 .. Len(chain) : more[k] = chain[k]
               /\ more[Len(more)] = e
               /\ Len(more) \in 3 .. Len(more)
               /\ \A k \in 3 .. Len(more) : k \in 3 .. Len(chain) \/ k = Len(more)
<1> DEFINE R == [name : FileNames, ino : Inos \cup {0}]
<1>1. chain \in Seq(R)
  BY DEF Chains
<1> HIDE DEF R
<1>2. Len(chain) \in Nat
  BY <1>1
<1>3. /\ Len(Append(chain, e)) = Len(chain) + 1
      /\ \A k \in 1 .. Len(chain) : Append(chain, e)[k] = chain[k]
      /\ Append(chain, e)[Len(chain) + 1] = e
  BY <1>1
<1> QED BY <1>2, <1>3

\* The tree with one more name has the same shape.
LEMMA AddedShape ==
    ASSUME NEW x \in Machines, Shape(x), FreeIno(x) # 0, FreeBlk(x) # 0,
           NEW n, NEW d \in TDirs(x), NEW name \in Names, NEW type, Added(x, n, d, name, type)
    PROVE  Shape(n)
<1> DEFINE ino == FreeIno(x)
           blk == FreeBlk(x)
           more == Append(Ch(x, d), Entry(name, ino))
           dots == <<Entry(".", ino), Entry("..", d)>>
<1>1. /\ ino \in Inos /\ ino \notin x.imap /\ blk \in Blks /\ blk \notin x.bmap
      /\ \A i \in x.imap : i < ino
      /\ x.imap \cup {ino} = 1 .. ino
      /\ n.imap = x.imap \cup {ino} /\ n.bmap = x.bmap \cup {blk}
      /\ \A k \in 1 .. NDIRECT : n.itable[ino].block[k] = IF k = 1 THEN blk ELSE 0
  BY Free, NextNumber DEF Shape, Added
<1>2. /\ ino \notin TDirs(x)
      /\ TDirs(n) = TDirs(x) \cup (IF type = "dir" THEN {ino} ELSE {})
      /\ \A c \in TDirs(x) : n.itable[c].block = x.itable[c].block
      /\ \A c \in TDirs(x) : c # d => Ch(n, c) = Ch(x, c)
      /\ Ch(n, d) = more
      /\ type = "dir" => Ch(n, ino) = dots
      /\ Ch(x, d) \in Chains
  BY AddedDirs
<1>3. /\ ROOT \in TDirs(x) /\ TDirs(x) \subseteq x.imap /\ ROOT # ino /\ d < ino
      /\ TDirs(x) \subseteq Inos /\ d \in Inos
  BY <1>1 DEF Shape, Numbered, TDirs
<1>4. /\ Len(Ch(x, d)) \in Nat /\ Len(more) = Len(Ch(x, d)) + 1
      /\ more[1] = Ch(x, d)[1] /\ more[2] = Ch(x, d)[2]
      /\ \A k \in 3 .. Len(Ch(x, d)) : more[k] = Ch(x, d)[k] /\ k \in 3 .. Len(more)
      /\ more[Len(more)] = Entry(name, ino)
      /\ Len(more) \in 3 .. Len(more)
      /\ \A k \in 3 .. Len(more) : k \in 3 .. Len(Ch(x, d)) \/ k = Len(more)
  <2> DEFINE e == Entry(name, ino)
             chain == Ch(x, d)
  <2>1. Len(chain) >= 2 /\ chain \in Chains
    BY <1>2 DEF Shape, Dotted
  <2> HIDE DEF e, chain
  <2>2. /\ Len(chain) \in Nat /\ Len(Append(chain, e)) = Len(chain) + 1
        /\ Append(chain, e)[1] = chain[1] /\ Append(chain, e)[2] = chain[2]
        /\ \A k \in 3 .. Len(chain) : Append(chain, e)[k] = chain[k]
        /\ Append(chain, e)[Len(Append(chain, e))] = e
        /\ Len(Append(chain, e)) \in 3 .. Len(Append(chain, e))
        /\ \A k \in 3 .. Len(Append(chain, e)) : k \in 3 .. Len(chain) \/ k = Len(Append(chain, e))
    BY <2>1, AddedEntry
  <2>3. \A k \in 3 .. Len(chain) : k \in 3 .. Len(Append(chain, e))
    BY <2>2
  <2> QED BY <2>2, <2>3 DEF e, chain
<1>5. /\ Len(dots) = 2 /\ dots[1] = Entry(".", ino) /\ dots[2] = Entry("..", d)
      /\ dots[2].name = ".." /\ dots[2].ino = d /\ 3 .. Len(dots) = {}
  BY DEF Entry
<1>6. Entry(name, ino).name = name /\ Entry(name, ino).ino = ino
  BY DEF Entry
<1> HIDE DEF ino, blk, more, dots
<1> DEFINE L == Len(more)
\* The first two entries of an old directory are the same, the others are kept.
<1>7. ASSUME NEW c \in TDirs(x)
      PROVE  /\ Len(Ch(n, c)) >= 2 /\ Ch(n, c)[1] = Ch(x, c)[1] /\ Ch(n, c)[2] = Ch(x, c)[2]
             /\ \A k \in 3 .. Len(Ch(x, c)) : k \in 3 .. Len(Ch(n, c)) /\ Ch(n, c)[k] = Ch(x, c)[k]
             /\ \A k \in 3 .. Len(Ch(n, c)) :
                   \/ k \in 3 .. Len(Ch(x, c)) /\ Ch(n, c)[k] = Ch(x, c)[k]
                   \/ c = d /\ Ch(n, c)[k] = Entry(name, ino)
  <2>1. CASE c = d
    <3>1. L >= 2
      BY <1>4
    <3> QED BY <1>2, <1>4, <2>1, <3>1
  <2>2. CASE c # d
    BY <1>2, <2>2 DEF Shape, Dotted
  <2> QED BY <2>1, <2>2
<1>8. Numbered(n)
  BY <1>1, <1>2, <1>3 DEF Numbered
<1>9. Packed(n)
  <2>1. ASSUME NEW c \in TDirs(n)
        PROVE  /\ n.itable[c].block[1] \in n.bmap \cap Blks
               /\ \A k \in 1 .. NDIRECT : k # 1 => n.itable[c].block[k] = 0
               /\ c = ino => n.itable[c].block[1] = blk
               /\ c # ino => c \in TDirs(x) /\ n.itable[c].block[1] \in x.bmap
                             /\ n.itable[c].block[1] = x.itable[c].block[1]
    <3>1. CASE c \in TDirs(x)
      BY <1>1, <1>2, <3>1 DEF Shape, Packed
    <3>2. CASE c = ino
      BY <1>1, <3>2, Numbering
    <3> QED BY <1>2, <3>1, <3>2
  <2>2. ASSUME NEW c \in TDirs(n), NEW e \in TDirs(n),
               n.itable[c].block[1] = n.itable[e].block[1]
        PROVE  c = e
    BY <1>1, <2>1, <2>2 DEF Shape, Packed
  <2> QED BY <2>1, <2>2 DEF Packed
<1>10. Dotted(n)
  <2> SUFFICES ASSUME NEW c \in TDirs(n)
               PROVE  /\ Len(Ch(n, c)) >= 2
                      /\ Ch(n, c)[1] = Entry(".", c)
                      /\ Ch(n, c)[2].name = ".." /\ Ch(n, c)[2].ino \in TDirs(n)
                      /\ c = ROOT => Ch(n, c)[2].ino = ROOT
                      /\ c # ROOT => Ch(n, c)[2].ino < c
    BY DEF Dotted
  <2>1. CASE c \in TDirs(x)
    BY <1>2, <1>7, <2>1 DEF Shape, Dotted
  <2>2. CASE c \notin TDirs(x)
    <3>1. c = ino /\ type = "dir" /\ Ch(n, c) = dots
      BY <1>2, <2>2
    <3> QED BY <1>2, <1>3, <1>5, <3>1
  <2> QED BY <2>1, <2>2
<1>11. Filled(n)
  <2> SUFFICES ASSUME NEW c \in TDirs(n), NEW k \in 3 .. Len(Ch(n, c))
               PROVE  /\ Ch(n, c)[k].name \in Names
                      /\ Ch(n, c)[k].ino \in n.imap /\ Ch(n, c)[k].ino # ROOT
    BY DEF Filled
  <2>1. CASE c \notin TDirs(x)
    <3>1. c = ino /\ type = "dir" /\ Ch(n, c) = dots
      BY <1>2, <2>1
    <3> QED BY <1>5, <3>1
  <2>2. CASE c \in TDirs(x) /\ k \in 3 .. Len(Ch(x, c)) /\ Ch(n, c)[k] = Ch(x, c)[k]
    BY <1>1, <2>2 DEF Shape, Filled
  <2>3. CASE c = d /\ Ch(n, c)[k] = Entry(name, ino)
    BY <1>1, <1>3, <1>6, <2>3
  <2> QED BY <1>7, <2>1, <2>2, <2>3
<1>12. Upward(n)
  <2> SUFFICES ASSUME NEW c \in TDirs(n), NEW a \in TDirs(n), NEW k \in 3 .. Len(Ch(n, c)),
                      Ch(n, c)[k].ino = a
               PROVE  Ch(n, a)[2].ino = c
    BY DEF Upward
  <2>1. CASE c \notin TDirs(x)
    <3>1. c = ino /\ type = "dir" /\ Ch(n, c) = dots
      BY <1>2, <2>1
    <3> QED BY <1>5, <3>1
  <2>2. CASE c \in TDirs(x) /\ k \in 3 .. Len(Ch(x, c)) /\ Ch(n, c)[k] = Ch(x, c)[k]
    <3>1. a \in x.imap
      BY <2>2 DEF Shape, Filled
    <3>2. a \in TDirs(x)
      BY <1>1, <1>2, <3>1
    <3>3. Ch(x, a)[2].ino = c
      BY <2>2, <3>2 DEF Shape, Upward
    <3> QED BY <1>7, <3>2, <3>3
  <2>3. CASE c = d /\ Ch(n, c)[k] = Entry(name, ino)
    <3>1. a = ino
      BY <1>6, <2>3
    <3>2. Ch(n, a) = dots
      BY <1>2, <3>1
    <3> QED BY <1>5, <2>3, <3>2
  <2> QED BY <1>7, <2>1, <2>2, <2>3
<1>13. Downward(n)
  <2> SUFFICES ASSUME NEW c \in TDirs(n), c # ROOT
               PROVE  \E k \in 3 .. Len(Ch(n, Ch(n, c)[2].ino)) :
                         Ch(n, Ch(n, c)[2].ino)[k].ino = c
    BY DEF Downward
  <2>1. CASE c \in TDirs(x)
    <3> DEFINE a == Ch(x, c)[2].ino
    <3>1. Ch(n, c)[2].ino = a /\ a \in TDirs(x)
      BY <1>7, <2>1 DEF Shape, Dotted
    <3>2. PICK k \in 3 .. Len(Ch(x, a)) : Ch(x, a)[k].ino = c
      BY <2>1 DEF Shape, Downward
    <3> HIDE DEF a
    <3>3. k \in 3 .. Len(Ch(n, a)) /\ Ch(n, a)[k].ino = c
      BY <1>7, <3>1, <3>2
    <3> QED BY <3>1, <3>3
  <2>2. CASE c \notin TDirs(x)
    <3>1. c = ino /\ type = "dir" /\ Ch(n, c) = dots
      BY <1>2, <2>2
    <3>2. Ch(n, c)[2].ino = d /\ Ch(n, d) = more
      BY <1>2, <1>5, <3>1
    <3>3. L \in 3 .. Len(more) /\ more[L].ino = c
      BY <1>4, <1>6, <3>1
    <3> QED BY <3>2, <3>3
  <2> QED BY <2>1, <2>2
<1> QED BY <1>8, <1>9, <1>10, <1>11, <1>12, <1>13 DEF Shape

-----------------------------------------------------------------------------
(* kcreat() and kmkdir() with a number and a block left, and room for the  *)
(* entry in the first block of the directory.                              *)

\* enter_child() stops at the first block pointer.
LEMMA EnterHere ==
    ASSUME NEW y \in Machines, y.st = "up", NEW s \in Slots, ~ Opaque(y, s), NEW entry,
           Inode(y, s).block[1] # 0, Len(y.dir[Inode(y, s).block[1]]) \in 1 .. BlockCap - 1
    PROVE  EnterChild(y, s, entry) =
              [y EXCEPT !.dir[Inode(y, s).block[1]] = Append(y.dir[Inode(y, s).block[1]], entry)]
<1> DEFINE room == {k \in 1 .. NDIRECT : HasRoom(y, s, k)}
           k == FirstOf(room)
           b == Inode(y, s).block[k]
<1>1. 1 \in room
  BY Numbering DEF HasRoom
<1>2. room \subseteq Nat /\ \A j \in room : 1 <= j
  OBVIOUS
<1>3. k = 1
  <2> HIDE DEF room
  <2>1. k \in room
    BY <1>1, <1>2, FirstIn
  <2>2. \E z \in room : \A j \in room : z <= j
    BY <1>1, <1>2, LeastNumber
  <2>3. \A j \in room : k <= j
    BY <2>2 DEF FirstOf
  <2>4. k \in Nat /\ k <= 1 /\ 1 <= k
    BY <1>1, <1>2, <2>1, <2>3
  <2> QED BY <2>4
<1>4. EnterChild(y, s, entry) =
        IF room = {} THEN y
        ELSE IF b = 0 THEN [Balloc(y) EXCEPT !.minode[s].INODE.block[k] = FreeBlk(y),
                                             !.dir[FreeBlk(y)] = <<entry>>]
        ELSE [y EXCEPT !.dir[b] = Append(y.dir[b], entry)]
  BY DEF EnterChild
<1> HIDE DEF room, k
<1>5. room # {} /\ b = Inode(y, s).block[1] /\ b # 0
  BY <1>1, <1>3
<1> QED BY <1>4, <1>5

\* The parent is marked dirty and given back: the tree is not touched any more.
LEMMA ReleaseHere ==
    ASSUME NEW I, ROOT \in I, NEW y \in Tame(I), Coherent(y), y.st = "up",
           NEW s \in Slots, ~ Opaque(y, s),
           NEW entry \in EntryType, entry.ino \in I,
           Inode(y, s).block[1] # 0, Len(y.dir[Inode(y, s).block[1]]) \in 1 .. BlockCap - 1
    PROVE  LET b == Inode(y, s).block[1]
               r == EnterAndRelease(y, s, entry)
           IN  /\ r \in Tame(I) /\ Coherent(r)
               /\ r.bmap = y.bmap /\ r.dir = [y.dir EXCEPT ![b] = Append(y.dir[b], entry)]
               /\ \A i \in Inos : Same(r.itable[i], y.itable[i])
<1> DEFINE b == Inode(y, s).block[1]
           m1 == EnterChild(y, s, entry)
           m2 == Store(m1, s, Inode(m1, s))
           r == EnterAndRelease(y, s, entry)
           chain == Append(y.dir[b], entry)
<1>1. r = IF m1.st # "up" THEN m1 ELSE Iput(m2, s)
  BY DEF EnterAndRelease, With
<1>2. y \in Machines /\ Listed(y) /\ y.imap = I /\ y.minode[s] \in MINODEs
  BY DEF Tame, Machines
<1>3. b \in Blks \cup {0} /\ y.dir[b] \in Chains
  <2>1. Inode(y, s) \in INODEs
    BY <1>2 DEF Inode, MINODEs
  <2> QED BY <1>2, <2>1, InodeParts, Numbering DEF Machines
<1>4. m1 = [y EXCEPT !.dir[b] = chain]
  BY <1>2, EnterHere
<1> HIDE DEF m1, b
<1>5. chain \in Chains /\ \A k \in DOMAIN chain : chain[k].ino \in I \cup {0}
  BY <1>2, <1>3, OneMoreEntry DEF Listed
<1> HIDE DEF chain
<1>6. /\ m1 \in Tame(I) /\ m1.dir = [y.dir EXCEPT ![b] = chain]
      /\ m1.minode = y.minode /\ m1.itable = y.itable /\ m1.bmap = y.bmap
      /\ m1.st = y.st
  BY <1>3, <1>4, <1>5, TameBlock
<1>7. Coherent(m1) /\ m1.imap = I
  BY <1>6 DEF Coherent, Tame
<1>8. m2 \in Near(m1)
  <2>1. m1 \in Machines /\ Inode(m1, s) \in INODEs
    BY <1>2, <1>6 DEF Tame, Inode, MINODEs
  <2>2. /\ m2 \in Machines
        /\ m2.itable = m1.itable /\ m2.imap = m1.imap /\ m2.bmap = m1.bmap
        /\ m2.dir = m1.dir
        /\ \A q \in Slots : /\ m2.minode[q].ino = m1.minode[q].ino
                            /\ m2.minode[q].INODE = m1.minode[q].INODE
    BY <1>6, <2>1, StoreEffect DEF Inode
  <2> HIDE DEF m2
  <2>3. m2 \in Tame(I)
    BY <1>6, <2>2 DEF Tame, Known, Listed
  <2>4. Coherent(m2) /\ Alike(m1, m2)
    BY <1>7, <2>2 DEF Coherent, Alike, Same
  <2> QED BY <1>7, <2>3, <2>4 DEF Near
<1> HIDE DEF m2
<1>9. r \in Near(m1)
  <2>1. Serves(Near(m1), I)
    BY <1>7, NearServes
  <2>2. Iput(m2, s) \in Near(m1)
    BY <1>8, <2>1, ServesNull
  <2> QED BY <1>1, <1>6, <2>2
<1> HIDE DEF r
<1>10. r \in Tame(I) /\ Coherent(r) /\ Alike(m1, r)
  BY <1>7, <1>9 DEF Near
<1> QED BY <1>6, <1>10 DEF Alike, r, chain, b

\* The slot that iget() finds for the new number was in nobody's use.
LEMMA NewHere ==
    ASSUME NEW I, ROOT \in I, NEW m \in Tame(I), Coherent(m), m.st = "up",
           FreeIno(m) # 0, FreeBlk(m) # 0, NEW type \in {"reg", "dir"}, NEW links \in U16
    PROVE  LET new == NewMinode(m, type, links)
               ino == FreeIno(m)
               blk == FreeBlk(m)
           IN  /\ new.ino = ino /\ ino \in Inos \ I /\ new.blk = blk /\ blk \in Blks
               /\ blk \notin m.bmap /\ new.s \in Slots \cup {NULL}
               /\ new.m \in Tame(I \cup {ino}) /\ new.m.bmap = m.bmap \cup {blk}
               /\ new.m.dir = m.dir /\ new.m.itable = m.itable
               /\ new.m.st # "up" => Coherent(new.m)
               /\ new.m.st = "up" =>
                     /\ new.s \in Slots /\ m.minode[new.s].refCount = 0
                     /\ new.m.minode[new.s].refCount = 1 /\ new.m.minode[new.s].dirty
                     /\ new.m.minode[new.s].ino = ino
                     /\ new.m.minode[new.s].INODE = INODE(type, links, blk)
                     /\ \A r \in Slots : r # new.s => new.m.minode[r] = m.minode[r]
<1> DEFINE ino == FreeIno(m)
           blk == FreeBlk(m)
           J == I \cup {ino}
           m0 == Ialloc(m)
           m1 == Balloc(m0)
           t == IgetPtr(m1, ino)
           n1 == Iget(m1, ino)
           m2 == Deref(n1, t)
           inode == INODE(type, links, blk)
           n == Store(m2, t, inode)
           new == NewMinode(m, type, links)
<1>1. /\ new.m = (IF m2.st # "up" THEN m2 ELSE n)
      /\ new.s = t /\ new.ino = ino /\ new.blk = blk
  BY DEF NewMinode, With
<1>2. m \in Machines /\ m.imap = I /\ Known(m) /\ Listed(m)
  BY DEF Tame
<1>3. ino \in Inos /\ ino \notin I /\ blk \in Blks /\ blk \notin m.bmap
  BY <1>2, Free
<1>4. new.m \in Tame(J) /\ new.s \in Slots \cup {NULL} /\ (new.m.st = "up" => new.s \in Slots)
  <2>1. {ino} \cap Inos = {ino}
    BY <1>3
  <2> HIDE DEF new, ino
  <2>2. I \cup ({FreeIno(m)} \cap Inos) = J
    BY <2>1 DEF ino
  <2> QED BY <2>2, TameNew DEF new
<1>5. /\ m0 \in Machines /\ m0.imap = J /\ m0.minode = m.minode /\ m0.dir = m.dir
      /\ m0.bmap = m.bmap /\ m0.itable = m.itable /\ m0.st = "up"
  BY <1>2, <1>3 DEF Ialloc, Machines
<1>6. m1 = [m0 EXCEPT !.bmap = m.bmap \cup {blk}]
  <2>1. FreeBlk(m0) = blk
    BY <1>5 DEF FreeBlk
  <2>2. m1 = [m0 EXCEPT !.bmap = m.bmap \cup ({blk} \cap Blks)]
    BY <1>5, <2>1 DEF Balloc
  <2>3. {blk} \cap Blks = {blk}
    BY <1>3
  <2> QED BY <2>2, <2>3
<1> HIDE DEF m0, blk, ino
<1>7. /\ m1 \in Machines /\ m1.minode = m.minode /\ m1.dir = m.dir
      /\ m1.bmap = m.bmap \cup {blk} /\ m1.itable = m.itable /\ m1.st = "up"
  <2>1. m.bmap \cup {blk} \subseteq Blks
    BY <1>2, <1>3 DEF Machines
  <2> HIDE DEF m1
  <2> QED BY <1>5, <1>6, <2>1 DEF Machines
<1> HIDE DEF m1, new
<1>8. /\ n1.minode = IgetTable(m.minode, m.itable, ino)
      /\ n1.itable = m.itable /\ n1.bmap = m.bmap \cup {blk}
      /\ n1.dir = m.dir /\ n1.st = "up"
  BY <1>3, <1>7, IgetKeeps
<1>9. t = IgetSlot(m.minode, ino)
  BY <1>7 DEF IgetPtr
<1>10. /\ t = NULL => n1.minode = m.minode
       /\ \A r \in Slots : r # t => n1.minode[r] = m.minode[r]
       /\ t # NULL => /\ n1.minode[t].ino = ino
                      /\ m.minode[t].refCount = 0 /\ n1.minode[t].refCount = 1
  <2>1. m.minode \in [Slots -> MINODEs] /\ m.itable[ino] \in INODEs
    BY <1>2, <1>3 DEF Machines
  <2>2. \A r \in Slots : m.minode[r].ino # ino
    BY <1>2, <1>3, Numbering DEF Known
  <2>3. IgetSlot(m.minode, ino) \in Slots \cup {NULL}
    BY <1>3, <2>1, IgetTableEffect
  <2> HIDE DEF n1, t
  <2> QED BY <1>3, <1>8, <1>9, <2>1, <2>2, <2>3, IgetTableEffect
<1>11. n1 \in Machines
  <2>1. m.minode \in [Slots -> MINODEs] /\ m.itable[ino] \in INODEs
    BY <1>2, <1>3 DEF Machines
  <2>2. IgetTable(m.minode, m.itable, ino) \in [Slots -> MINODEs]
    BY <1>3, <2>1, IgetTableEffect
  <2>3. n1 = [m1 EXCEPT !.minode = IgetTable(m.minode, m.itable, ino)]
    BY <1>7 DEF Iget
  <2> HIDE DEF n1
  <2> QED BY <1>7, <2>2, <2>3 DEF Machines
<1> HIDE DEF n1, t
<1>12. CASE t = NULL
  <2>1. /\ m2.st # "up" /\ m2.minode = n1.minode /\ m2.itable = n1.itable
        /\ m2.bmap = n1.bmap /\ m2.dir = n1.dir
    BY <1>11, <1>12, FailOk DEF Deref
  <2> HIDE DEF m2
  <2>2. Coherent(m2)
    BY <1>8, <1>10, <1>12, <2>1 DEF Coherent
  <2> QED BY <1>1, <1>3, <1>4, <1>8, <2>1, <2>2 DEF ino, blk, new
<1>13. CASE t \in Slots
  <2>1. t # NULL /\ m2 = n1
    BY <1>13, Numbering DEF Deref
  <2>2. inode \in INODEs
    <3>1. type \in {"none", "reg", "dir", "lnk"} /\ blk \in Blks \cup {0}
      BY <1>3
    <3> QED BY <3>1, NewINODE
  <2> HIDE DEF inode, m2
  <2>3. /\ n.itable = m.itable /\ n.bmap = m.bmap \cup {blk} /\ n.st = "up" /\ n.dir = m.dir
        /\ \A r \in Slots : /\ n.minode[r].ino = n1.minode[r].ino
                            /\ n.minode[r].refCount = n1.minode[r].refCount
                            /\ r # t => n.minode[r] = n1.minode[r]
        /\ n.minode[t].INODE = inode /\ n.minode[t].dirty
    BY <1>8, <1>11, <1>13, <2>1, <2>2, StoreEffect
  <2> HIDE DEF n
  <2>4. new.m = n /\ new.s = t
    BY <1>1, <1>8, <2>1
  <2> QED BY <1>1, <1>3, <1>4, <1>10, <1>13, <2>1, <2>3, <2>4 DEF ino, blk, new, inode
<1> QED BY <1>1, <1>4, <1>12, <1>13

\* iput() writes the new inode.
LEMMA WrittenHere ==
    ASSUME NEW I, ROOT \in I, NEW m \in Tame(I), Coherent(m), NEW ino \in Inos \ I,
           NEW inode \in INODEs, NEW y \in Tame(I \cup {ino}), NEW t \in Slots, y.st = "up",
           y.minode[t].refCount <= 1, y.minode[t].dirty,
           y.minode[t].ino = ino, y.minode[t].INODE = inode, y.itable = m.itable,
           \A r \in Slots : r # t => y.minode[r] = m.minode[r]
    PROVE  LET w == Iput(y, t)
           IN  /\ w \in Tame(I \cup {ino}) /\ Coherent(w) /\ w.st = "up"
               /\ w.bmap = y.bmap /\ w.dir = y.dir
               /\ w.itable = [m.itable EXCEPT ![ino] = inode]
               /\ \A r \in Slots : r # t => w.minode[r] = m.minode[r]
<1> DEFINE w == Iput(y, t)
           J == I \cup {ino}
<1>1. y \in Machines /\ m \in Machines /\ Known(m) /\ m.imap = I /\ ino # 0
  BY Numbering DEF Tame
<1>2. WritesBack(y.minode, t)
  BY DEF WritesBack
<1>3. /\ w.imap = y.imap /\ w.bmap = y.bmap /\ w.st = y.st /\ w.dir = y.dir
      /\ \A r \in Slots : /\ w.minode[r].ino = y.minode[r].ino
                          /\ w.minode[r].INODE = y.minode[r].INODE
                          /\ r # t => w.minode[r] = y.minode[r]
      /\ w.itable = [y.itable EXCEPT ![ino] = inode]
  BY <1>1, <1>2, IputEffect
<1>4. w \in Tame(J)
  <2>1. Serves(Tame(J), J)
    BY TameServes
  <2> QED BY <2>1, ServesNull
<1>5. m.itable \in [Inos \cup {0} -> INODEs]
  BY <1>1 DEF Machines
<1> HIDE DEF w
<1>6. /\ w.itable[ino] = inode
      /\ \A i \in Inos : i # ino => w.itable[i] = m.itable[i]
  BY <1>3, <1>5
<1>7. \A r \in Slots : m.minode[r].ino # ino
  BY <1>1 DEF Known
<1>8. \A r \in Slots : m.minode[r].ino # 0 => m.minode[r].ino \in Inos
  BY <1>1 DEF Machines, MINODEs
<1>9. ASSUME NEW r \in Slots, w.minode[r].ino # 0
      PROVE  Same(w.minode[r].INODE, w.itable[w.minode[r].ino])
  <2>1. CASE r = t
    BY <1>3, <1>6, <2>1 DEF Same
  <2>2. CASE r # t
    BY <1>3, <1>6, <1>7, <1>8, <1>9, <2>2 DEF Coherent
  <2> QED BY <2>1, <2>2
<1>10. Coherent(w)
  BY <1>9 DEF Coherent
<1> QED BY <1>3, <1>4, <1>10 DEF w

\* The name of a new inode, which is on the disk, is entered.
LEMMA NamedHere ==
    ASSUME NEW I, ROOT \in I, NEW m \in Tame(I), Coherent(m), Shape(m),
           FreeIno(m) # 0, FreeBlk(m) # 0,
           NEW s \in Slots, IsDir(m, s), ~ Opaque(m, s),
           Len(Ch(m, m.minode[s].ino)) < BlockCap, NEW name \in Names,
           NEW type \in {"reg", "dir"}, NEW links \in U16,
           NEW y \in Tame(I \cup {FreeIno(m)}), Coherent(y), y.st = "up",
           y.bmap = m.bmap \cup {FreeBlk(m)}, y.minode[s] = m.minode[s],
           y.itable = [m.itable EXCEPT ![FreeIno(m)] = INODE(type, links, FreeBlk(m))],
           type = "dir" => y.dir[FreeBlk(m)] = DotEntries(m, s, FreeIno(m)),
           \A b \in Blks : b # FreeBlk(m) => y.dir[b] = m.dir[b]
    PROVE  LET r == EnterAndRelease(y, s, Entry(name, FreeIno(m)))
           IN  /\ m.minode[s].ino \in TDirs(m)
               /\ r \in Tame(I \cup {FreeIno(m)}) /\ Coherent(r)
               /\ Added(m, r, m.minode[s].ino, name, type)
<1> DEFINE ino == FreeIno(m)
           blk == FreeBlk(m)
           d == m.minode[s].ino
           b == TBlk(m, d)
           J == I \cup {ino}
           entry == Entry(name, ino)
           r == EnterAndRelease(y, s, entry)
<1>1. m \in Machines /\ m.imap = I /\ y \in Machines
  BY DEF Tame
<1>2. ino \in Inos /\ ino \notin I /\ blk \in Blks /\ blk \notin m.bmap
  BY <1>1, Free
<1>3. d \in TDirs(m) /\ Inode(m, s).block[1] = b
  <2>1. d # 0 /\ d \in Inos
    BY <1>1 DEF Opaque, Machines, MINODEs
  <2>2. Same(m.minode[s].INODE, m.itable[d])
    BY <2>1 DEF Coherent
  <2> QED BY <2>1, <2>2 DEF TDirs, Same, IsDir, Inode, TBlk
<1>4. b \in Blks /\ b \in m.bmap /\ b # blk
  BY <1>2, <1>3 DEF Shape, Packed, TBlk
<1>5. /\ Inode(y, s) = Inode(m, s) /\ ~ Opaque(y, s) /\ Inode(y, s).block[1] = b
      /\ Inode(y, s).block[1] # 0
  BY <1>3, <1>4, Numbering DEF Inode, Opaque
<1>6. y.dir[b] = m.dir[b] /\ y.dir[b] = Ch(m, d)
  BY <1>4 DEF Ch, TBlk
<1>7. Len(y.dir[b]) \in 1 .. BlockCap - 1
  <2>1. y.dir[b] \in Seq(EntryType)
    BY <1>1, <1>4 DEF Machines, Chains, EntryType
  <2>2. Len(Ch(m, d)) >= 2
    BY <1>3 DEF Shape, Dotted
  <2>3. Len(y.dir[b]) \in Nat /\ Len(y.dir[b]) >= 2 /\ Len(y.dir[b]) < BlockCap
    BY <1>6, <2>1, <2>2
  <2> QED BY <2>3, GeometryAssumption
<1>8. entry \in EntryType /\ entry.ino \in J
  BY <1>2 DEF Entry, EntryType, Names
<1> HIDE DEF entry, b, d, ino, blk
<1>9. /\ r \in Tame(J) /\ Coherent(r)
      /\ r.bmap = y.bmap /\ r.dir = [y.dir EXCEPT ![b] = Append(y.dir[b], entry)]
      /\ \A i \in Inos : Same(r.itable[i], y.itable[i])
  <2>1. ROOT \in J /\ y \in Tame(J)
    BY DEF ino
  <2> DEFINE c == Inode(y, s).block[1]
  <2>2. c = b /\ c # 0 /\ Len(y.dir[c]) \in 1 .. BlockCap - 1
    BY <1>5, <1>7
  <2> HIDE DEF J
  <2>3. /\ r \in Tame(J) /\ Coherent(r)
        /\ r.bmap = y.bmap /\ r.dir = [y.dir EXCEPT ![c] = Append(y.dir[c], entry)]
        /\ \A i \in Inos : Same(r.itable[i], y.itable[i])
    BY <1>5, <1>8, <2>1, <2>2, ReleaseHere
  <2> HIDE DEF c, r
  <2> QED BY <2>2, <2>3
<1> HIDE DEF r
<1>10. r.imap = m.imap \cup {ino} /\ r.bmap = m.bmap \cup {blk}
  BY <1>1, <1>9 DEF Tame, blk
<1>11. /\ m.itable \in [Inos \cup {0} -> INODEs]
       /\ y.dir \in [Blks \cup {0} -> Chains]
  BY <1>1 DEF Machines
<1>12. /\ y.itable[ino] = INODE(type, links, blk)
       /\ \A i \in Inos : i # ino => y.itable[i] = m.itable[i]
  BY <1>2, <1>11 DEF ino, blk
<1>13. \A i \in Inos : i # ino => Same(r.itable[i], m.itable[i])
  BY <1>9, <1>12
<1>14. /\ r.itable[ino].type = type
       /\ \A k \in 1 .. NDIRECT : r.itable[ino].block[k] = IF k = 1 THEN blk ELSE 0
  <2>1. type \in {"none", "reg", "dir", "lnk"} /\ blk \in Blks \cup {0}
    BY <1>2
  <2>2. /\ INODE(type, links, blk).type = type
        /\ \A k \in 1 .. NDIRECT : INODE(type, links, blk).block[k] = IF k = 1 THEN blk ELSE 0
    BY <2>1, NewINODE
  <2>3. Same(r.itable[ino], INODE(type, links, blk))
    BY <1>2, <1>9, <1>12
  <2> QED BY <2>2, <2>3 DEF Same
<1>15. /\ r.dir[b] = Append(m.dir[b], entry)
       /\ \A c \in Blks : c # b => r.dir[c] = y.dir[c]
  BY <1>4, <1>6, <1>9, <1>11
<1>16. type = "dir" => r.dir[blk] = <<Entry(".", ino), Entry("..", d)>>
  BY <1>2, <1>4, <1>15 DEF ino, blk, d, DotEntries
<1>17. \A c \in Blks : c # b /\ c # blk => r.dir[c] = m.dir[c]
  BY <1>15 DEF blk
<1>18. Added(m, r, d, name, type)
  BY <1>10, <1>13, <1>14, <1>15, <1>16, <1>17 DEF Added, ino, blk, b, entry
<1> QED BY <1>3, <1>9, <1>18 DEF r, d, ino, entry

\* What kcreat() and kmkdir() leave: no slot was found, or the name is there.
Made(m, r, d, name, type) ==
    /\ r \in Tame(m.imap \cup {FreeIno(m)}) /\ Coherent(r)
    /\ Orphaned(m, r) \/ (d \in TDirs(m) /\ Added(m, r, d, name, type))

\* No slot was found for the new inode.
LEMMA UnmadeHere ==
    ASSUME NEW I, NEW m \in Tame(I), NEW r \in Tame(I \cup {FreeIno(m)}), Coherent(r),
           r.bmap = m.bmap \cup {FreeBlk(m)}, r.dir = m.dir, r.itable = m.itable,
           NEW d, NEW name, NEW type
    PROVE  Made(m, r, d, name, type)
BY DEF Made, Orphaned, Tame, Same

\* kcreat() and kmkdir(), in a directory with room, make one new name or nothing.
LEMMA MakeHere ==
    ASSUME NEW I, ROOT \in I, NEW m \in Tame(I), Coherent(m), Shape(m), m.st = "up",
           FreeIno(m) # 0, FreeBlk(m) # 0,
           NEW s \in Slots, m.minode[s].refCount # 0, IsDir(m, s), ~ Opaque(m, s),
           Len(Ch(m, m.minode[s].ino)) < BlockCap, NEW name \in Names
    PROVE  /\ Made(m, Kcreat(m, s, name), m.minode[s].ino, name, "reg")
           /\ Made(m, Kmkdir(m, s, name), m.minode[s].ino, name, "dir")
<1> DEFINE ino == FreeIno(m)
           blk == FreeBlk(m)
           d == m.minode[s].ino
           J == I \cup {ino}
<1>1. m \in Machines /\ m.imap = I
  BY DEF Tame
<1>2. /\ ino \in Inos \ I /\ ino \in Inos /\ blk \in Blks /\ ROOT \in J
  BY <1>1, Free
<1>3. Kcreat(m, s, name) = LET new == NewMinode(m, "reg", 1) IN
         IF new.m.st # "up" THEN new.m
         ELSE EnterAndRelease(Iput([new.m EXCEPT !.minode[new.s].refCount = 0], new.s),
                              s, Entry(name, new.ino))
  BY DEF Kcreat, With
<1>4. Kmkdir(m, s, name) = LET new == NewMinode(m, "dir", 2) IN
         IF new.m.st # "up" THEN new.m
         ELSE LET w == Iput(new.m, new.s) IN
              EnterAndRelease([w EXCEPT !.dir[new.blk] = DotEntries(w, s, new.ino)],
                              s, Entry(name, new.ino))
  BY DEF Kmkdir, With
<1>5. Made(m, Kcreat(m, s, name), d, name, "reg")
  <2> DEFINE one == 1
             type == "reg"
             new == NewMinode(m, type, one)
             inode == INODE(type, one, blk)
             x == new.m
             t == new.s
  <2>1. one \in U16 /\ type \in {"reg", "dir"}
    BY DEF U16
  <2>7. type # "dir"
    OBVIOUS
  <2> HIDE DEF one, type
  <2>2. /\ new.ino = ino /\ new.blk = blk /\ x \in Tame(J) /\ x.bmap = m.bmap \cup {blk}
        /\ x.dir = m.dir /\ x.itable = m.itable
        /\ x.st # "up" => Coherent(x)
        /\ x.st = "up" =>
              /\ t \in Slots /\ m.minode[t].refCount = 0 /\ x.minode[t].dirty
              /\ x.minode[t].refCount = 1
              /\ x.minode[t].ino = ino /\ x.minode[t].INODE = inode
              /\ \A r \in Slots : r # t => x.minode[r] = m.minode[r]
    <3>1. ROOT \in I /\ m \in Tame(I) /\ Coherent(m) /\ m.st = "up" /\ ino # 0 /\ blk # 0
      OBVIOUS
    <3>2. /\ new.ino = FreeIno(m) /\ new.blk = FreeBlk(m)
          /\ new.m \in Tame(I \cup {FreeIno(m)}) /\ new.m.bmap = m.bmap \cup {FreeBlk(m)}
          /\ new.m.dir = m.dir /\ new.m.itable = m.itable
          /\ new.m.st # "up" => Coherent(new.m)
          /\ new.m.st = "up" =>
                /\ new.s \in Slots /\ m.minode[new.s].refCount = 0
                /\ new.m.minode[new.s].refCount = 1 /\ new.m.minode[new.s].dirty
                /\ new.m.minode[new.s].ino = FreeIno(m)
                /\ new.m.minode[new.s].INODE = INODE(type, one, FreeBlk(m))
                /\ \A r \in Slots : r # new.s => new.m.minode[r] = m.minode[r]
      BY ONLY <2>1, <3>1, NewHere
    <3> HIDE DEF new
    <3> QED BY <3>2
  <2> DEFINE zero == 0
             y == [x EXCEPT !.minode[t].refCount = zero]
             w == Iput(y, t)
  <2>0. zero \in Int /\ zero <= 1
    OBVIOUS
  <2>3. inode \in INODEs
    <3>1. blk \in Blks \cup {0} /\ type \in {"none", "reg", "dir", "lnk"}
      BY <1>2, <2>1
    <3> QED BY <2>1, <3>1, NewINODE
  <2>4. Kcreat(m, s, name) = IF x.st # "up" THEN x
                             ELSE EnterAndRelease(w, s, Entry(name, ino))
    BY <1>3, <2>2 DEF one, type
  <2> HIDE DEF new, zero, inode
  <2>5. CASE x.st # "up"
    <3> HIDE DEF x
    <3>1. Made(m, x, d, name, type)
      BY <2>2, <2>5, UnmadeHere
    <3> QED BY <2>4, <2>5, <3>1 DEF type
  <2>6. CASE x.st = "up"
    <3> HIDE DEF x, t
    <3>1. x \in Machines
      BY <2>2 DEF Tame
    <3>2. /\ y \in Machines /\ y.minode[t].refCount = zero /\ y.minode[t].dirty
          /\ y.minode[t].ino = ino /\ y.minode[t].INODE = inode
          /\ y.itable = m.itable /\ y.dir = m.dir /\ y.bmap = x.bmap /\ y.st = "up"
          /\ y.imap = x.imap
          /\ \A r \in Slots : y.minode[r].ino = x.minode[r].ino
          /\ \A r \in Slots : r # t => y.minode[r] = m.minode[r]
      <4> DEFINE mt == [x.minode EXCEPT ![t].refCount = zero]
      <4>1. x.minode \in [Slots -> MINODEs]
        BY <3>1 DEF Machines
      <4>2. /\ mt \in [Slots -> MINODEs] /\ mt[t].refCount = zero
            /\ mt[t].dirty = x.minode[t].dirty /\ mt[t].INODE = x.minode[t].INODE
            /\ \A r \in Slots : mt[r].ino = x.minode[r].ino
            /\ \A r \in Slots : r # t => mt[r] = x.minode[r]
        BY <2>0, <2>2, <2>6, <4>1 DEF MINODEs
      <4>3. y = [x EXCEPT !.minode = mt]
        OBVIOUS
      <4> HIDE DEF mt, y
      <4>4. /\ y \in Machines /\ y.minode = mt /\ y.itable = x.itable /\ y.dir = x.dir
            /\ y.bmap = x.bmap /\ y.st = x.st /\ y.imap = x.imap
        BY <3>1, <4>2, <4>3 DEF Machines
      <4> QED BY <2>2, <2>6, <4>2, <4>4
    <3> HIDE DEF y
    <3>3. y \in Tame(J)
      BY <2>2, <3>2 DEF Tame, Known, Listed
    <3>4. y.minode[t].refCount <= 1
      BY <2>0, <3>2
    <3>5. /\ w \in Tame(J) /\ Coherent(w) /\ w.st = "up" /\ w.bmap = y.bmap /\ w.dir = y.dir
          /\ w.itable = [m.itable EXCEPT ![ino] = inode]
          /\ \A r \in Slots : r # t => w.minode[r] = m.minode[r]
      <4> HIDE DEF ino, w
      <4> QED BY <1>2, <2>2, <2>3, <2>6, <3>2, <3>3, <3>4, WrittenHere DEF w
    <3>6. s # t
      BY <2>2, <2>6
    <3> HIDE DEF w
    <3> DEFINE r == EnterAndRelease(w, s, Entry(name, ino))
    <3>7. w.minode[s] = m.minode[s]
      BY <3>5, <3>6
    <3>8. /\ w.itable = [m.itable EXCEPT ![ino] = INODE(type, one, blk)]
          /\ w.bmap = m.bmap \cup {blk}
          /\ \A b \in Blks : b # blk => w.dir[b] = m.dir[b]
      BY <2>2, <3>2, <3>5 DEF inode
    <3>9. d \in TDirs(m) /\ r \in Tame(J) /\ Coherent(r) /\ Added(m, r, d, name, type)
      BY <2>1, <2>7, <3>5, <3>7, <3>8, NamedHere
    <3>10. Made(m, r, d, name, type)
      BY <1>1, <3>9 DEF Made
    <3> QED BY <2>4, <2>6, <3>10 DEF type
  <2> QED BY <2>5, <2>6
<1>6. Made(m, Kmkdir(m, s, name), d, name, "dir")
  <2> DEFINE two == 2
             type == "dir"
             new == NewMinode(m, type, two)
             inode == INODE(type, two, blk)
             x == new.m
             t == new.s
             w == Iput(x, t)
             dots == DotEntries(w, s, ino)
             y == [w EXCEPT !.dir[blk] = dots]
  <2>1. two \in U16 /\ type \in {"reg", "dir"}
    BY DEF U16
  <2> HIDE DEF two, type
  <2>2. /\ new.ino = ino /\ new.blk = blk /\ x \in Tame(J) /\ x.bmap = m.bmap \cup {blk}
        /\ x.dir = m.dir /\ x.itable = m.itable
        /\ x.st # "up" => Coherent(x)
        /\ x.st = "up" =>
              /\ t \in Slots /\ m.minode[t].refCount = 0 /\ x.minode[t].dirty
              /\ x.minode[t].refCount = 1
              /\ x.minode[t].ino = ino /\ x.minode[t].INODE = inode
              /\ \A r \in Slots : r # t => x.minode[r] = m.minode[r]
    <3>1. ROOT \in I /\ m \in Tame(I) /\ Coherent(m) /\ m.st = "up" /\ ino # 0 /\ blk # 0
      OBVIOUS
    <3>2. /\ new.ino = FreeIno(m) /\ new.blk = FreeBlk(m)
          /\ new.m \in Tame(I \cup {FreeIno(m)}) /\ new.m.bmap = m.bmap \cup {FreeBlk(m)}
          /\ new.m.dir = m.dir /\ new.m.itable = m.itable
          /\ new.m.st # "up" => Coherent(new.m)
          /\ new.m.st = "up" =>
                /\ new.s \in Slots /\ m.minode[new.s].refCount = 0
                /\ new.m.minode[new.s].refCount = 1 /\ new.m.minode[new.s].dirty
                /\ new.m.minode[new.s].ino = FreeIno(m)
                /\ new.m.minode[new.s].INODE = INODE(type, two, FreeBlk(m))
                /\ \A r \in Slots : r # new.s => new.m.minode[r] = m.minode[r]
      BY ONLY <2>1, <3>1, NewHere
    <3> HIDE DEF new
    <3> QED BY <3>2
  <2>3. inode \in INODEs
    <3>1. blk \in Blks \cup {0} /\ type \in {"none", "reg", "dir", "lnk"}
      BY <1>2, <2>1
    <3> QED BY <2>1, <3>1, NewINODE
  <2>4. Kmkdir(m, s, name) = IF x.st # "up" THEN x
                             ELSE EnterAndRelease(y, s, Entry(name, ino))
    BY <1>4, <2>2 DEF two, type
  <2> HIDE DEF new, inode
  <2>5. CASE x.st # "up"
    <3> HIDE DEF x
    <3>1. Made(m, x, d, name, type)
      BY <2>2, <2>5, UnmadeHere
    <3> QED BY <2>4, <2>5, <3>1 DEF type
  <2>6. CASE x.st = "up"
    <3> HIDE DEF x, t
    <3>1. x.minode[t].refCount <= 1
      BY <2>2, <2>6
    <3>2. /\ w \in Tame(J) /\ Coherent(w) /\ w.st = "up" /\ w.bmap = x.bmap /\ w.dir = x.dir
          /\ w.itable = [m.itable EXCEPT ![ino] = inode]
          /\ \A r \in Slots : r # t => w.minode[r] = m.minode[r]
      <4> HIDE DEF ino, w
      <4> QED BY <1>2, <2>2, <2>3, <2>6, <3>1, WrittenHere DEF w
    <3>3. s # t
      BY <2>2, <2>6
    <3>4. dots = <<Entry(".", ino), Entry("..", d)>>
      BY <3>2, <3>3 DEF DotEntries
    <3>5. dots \in Chains /\ \A k \in DOMAIN dots : dots[k].ino \in J \cup {0}
      <4>1. d \in J \cup {0} /\ d \in Inos \cup {0} /\ ino \in Inos \cup {0}
        BY <1>1, <1>2 DEF Tame, Known, Machines, MINODEs
      <4>2. /\ Entry(".", ino) \in EntryType /\ Entry("..", d) \in EntryType
            /\ Entry(".", ino).ino = ino /\ Entry("..", d).ino = d
        BY <4>1, NamesAssumption DEF Entry, EntryType
      <4> DEFINE e1 == Entry(".", ino)
                 e2 == Entry("..", d)
      <4> HIDE DEF dots, e1, e2
      <4>3. dots = <<e1, e2>> /\ e1 \in EntryType /\ e2 \in EntryType
            /\ e1.ino \in J \cup {0} /\ e2.ino \in J \cup {0}
        BY <3>4, <4>1, <4>2 DEF e1, e2
      <4>4. dots \in Seq(EntryType)
        BY <4>3
      <4>5. \A k \in DOMAIN dots : dots[k].ino \in J \cup {0}
        BY <4>3
      <4> QED BY <4>4, <4>5 DEF Chains, EntryType
    <3> HIDE DEF w, dots
    <3>6. /\ y \in Tame(J) /\ y.dir = [w.dir EXCEPT ![blk] = dots]
          /\ y.minode = w.minode /\ y.itable = w.itable /\ y.bmap = w.bmap
          /\ y.st = w.st
      <4> HIDE DEF J
      <4>1. blk \in Blks \cup {0}
        BY <1>2
      <4> QED BY <3>2, <3>5, <4>1, TameBlock
    <3> HIDE DEF y
    <3>7. Coherent(y)
      BY <3>2, <3>6 DEF Coherent
    <3>8. w.dir \in [Blks \cup {0} -> Chains]
      BY <3>2 DEF Tame, Machines
    <3> DEFINE r == EnterAndRelease(y, s, Entry(name, ino))
    <3>9. /\ y.minode[s] = m.minode[s] /\ y.st = "up"
          /\ y.bmap = m.bmap \cup {blk}
      BY <2>2, <3>2, <3>3, <3>6
    <3>10. y.itable = [m.itable EXCEPT ![ino] = INODE(type, two, blk)]
      BY <3>2, <3>6 DEF inode
    <3>11. /\ type = "dir" => y.dir[blk] = DotEntries(m, s, ino)
           /\ \A b \in Blks : b # blk => y.dir[b] = m.dir[b]
      BY <1>2, <2>2, <3>2, <3>4, <3>6, <3>8 DEF DotEntries
    <3>12. d \in TDirs(m) /\ r \in Tame(J) /\ Coherent(r) /\ Added(m, r, d, name, type)
      <4>1. y \in Tame(J)
        BY <3>6
      <4> HIDE DEF J, d, blk
      <4> QED BY <2>1, <3>7, <3>9, <3>10, <3>11, <4>1, NamedHere DEF J, d, blk
    <3>13. Made(m, r, d, name, type)
      BY <1>1, <3>12 DEF Made
    <3> QED BY <2>4, <2>6, <3>13 DEF type
  <2> QED BY <2>5, <2>6
<1> QED BY <1>5, <1>6

-----------------------------------------------------------------------------
(* mkdir and creat, while there is room.                                   *)

\* Without link, a name is never given to an inode that has one.
Growing == Workload \subseteq {"mkdir", "creat", "cd", "ls", "pwd", "quit", "kill"}

\* A run leaves a number and a block, and the first block of a directory has room.
Roomy == NINODES >= 3 /\ MaxEntries \in 2 .. BlockCap - 1 /\ Spare \in Nat \ {0}

\* What a command finds.
Room(m) == /\ FreeIno(m) # 0 /\ FreeBlk(m) # 0
           /\ \A b \in Blks : Len(m.dir[b]) < BlockCap

\* No entry of directory d has the name.
Absent(m, d, name) == \A k \in DOMAIN Ch(m, d) : Ch(m, d)[k].name # name

\* What the command leaves: the tree it found, or one with a new name.
Grows(m, n, type) ==
    \/ n \in Near(m)
    \/ /\ n \in Tame(m.imap \cup {FreeIno(m)}) /\ Coherent(n)
       /\ \/ Orphaned(m, n)
          \/ \E d \in TDirs(m), name \in Names : Absent(m, d, name) /\ Added(m, n, d, name, type)

\* The bounds leave room.
LEMMA RoomLeft ==
    ASSUME Roomy, NEW m \in Machines, Bounded(m)
    PROVE  Room(m)
<1>1. /\ Cardinality(Inos \ m.imap) >= Spare /\ Cardinality(Blks \ m.bmap) >= Spare
      /\ \A b \in Blks : Len(m.dir[b]) <= MaxEntries
  BY DEF Bounded
<1>2. Spare \in Nat /\ Spare > 0 /\ MaxEntries \in Nat /\ MaxEntries < BlockCap
      /\ BlockCap \in Nat
  BY GeometryAssumption DEF Roomy
<1>3. Inos \ m.imap # {} /\ Blks \ m.bmap # {}
  <2>1. Cardinality({}) = 0
    BY FS_EmptySet
  <2>2. ~ (0 >= Spare)
    BY <1>2
  <2> QED BY <1>1, <2>1, <2>2
<1>4. FreeIno(m) \in Inos /\ FreeBlk(m) \in Blks
  <2>1. Inos \ m.imap \subseteq Nat /\ Blks \ m.bmap \subseteq Nat
    BY Numbering
  <2> DEFINE S == Inos \ m.imap
             T == Blks \ m.bmap
  <2> HIDE DEF S, T
  <2>2. FirstOf(S) \in S /\ FirstOf(T) \in T
    BY <1>3, <2>1, FirstIn DEF S, T
  <2> QED BY <1>3, <2>2 DEF FreeIno, FreeBlk, S, T
<1>5. ASSUME NEW b \in Blks PROVE Len(m.dir[b]) < BlockCap
  <2>1. m.dir[b] \in Seq(EntryType)
    BY DEF Machines, Chains, EntryType
  <2>2. Len(m.dir[b]) \in Nat
    BY <2>1
  <2> QED BY <1>1, <1>2, <2>2
<1> QED BY <1>4, <1>5, Numbering DEF Room

\* A name search() does not find is none of the entries, for none has number 0.
LEMMA NotFound ==
    ASSUME NEW m \in Machines, Coherent(m), Shape(m), NEW s \in Slots,
           IsDir(m, s), ~ Opaque(m, s), NEW name \in FileNames, SearchIno(m, s, name) = 0
    PROVE  LET d == m.minode[s].ino
           IN  d \in TDirs(m) /\ Absent(m, d, name) /\ name \in Names
<1> DEFINE d == m.minode[s].ino
           b == TBlk(m, d)
           chain == m.dir[b]
           S == SearchStop(m, s, name)
           at == {k \in DOMAIN chain : chain[k].name = name}
<1>1. d \in TDirs(m) /\ Inode(m, s).block = m.itable[d].block
  <2>1. d # 0 /\ d \in Inos
    BY DEF Opaque, Machines, MINODEs
  <2>2. Same(m.minode[s].INODE, m.itable[d])
    BY <2>1 DEF Coherent
  <2> QED BY <2>1, <2>2 DEF TDirs, Same, IsDir, Inode
<1>2. /\ Inode(m, s).block[1] = b /\ b \in Blks /\ chain = Ch(m, d)
      /\ \A k \in 1 .. NDIRECT : k # 1 => Inode(m, s).block[k] = 0
  BY <1>1 DEF Shape, Packed, TBlk, Ch
<1>3. chain \in Seq(EntryType)
  BY <1>2 DEF Machines, Chains, EntryType
<1>4. /\ Len(chain) >= 2 /\ chain[1] = Entry(".", d) /\ chain[2].name = ".."
      /\ chain[2].ino \in TDirs(m)
      /\ \A k \in 3 .. Len(chain) : chain[k].ino \in m.imap
  BY <1>1, <1>2 DEF Shape, Dotted, Filled
<1> HIDE DEF chain, d, b
<1>5. \A k \in DOMAIN chain : chain[k].ino # 0
  <2>1. TDirs(m) \subseteq Inos /\ m.imap \subseteq Inos
    BY DEF TDirs, Machines
  <2>2. chain[1].ino \in Inos /\ chain[2].ino \in Inos
    BY <1>1, <1>4, <2>1 DEF Entry
  <2>3. Len(chain) \in Nat /\ DOMAIN chain = 1 .. Len(chain)
    BY <1>3
  <2>4. ASSUME NEW k \in DOMAIN chain PROVE chain[k].ino \in Inos
    <3>1. k = 1 \/ k = 2 \/ k \in 3 .. Len(chain)
      BY <2>3
    <3> QED BY <1>4, <2>1, <2>2, <3>1
  <2> QED BY <2>4, Numbering
<1>6. at = {}
  <2> SUFFICES ASSUME at # {} PROVE FALSE
    OBVIOUS
  <2>1. at \subseteq Nat
    BY <1>3
  <2>2. FirstOf(at) \in at
    <3> HIDE DEF at
    <3> QED BY <2>1, FirstIn
  <2>3. S = {1}
    <3>1. Holds(m.dir[b], name)
      BY <2>2 DEF Holds, chain
    <3>2. \A k \in 1 .. NDIRECT : Inode(m, s).block[k] # 0 => k = 1
      BY <1>2
    <3>3. S \subseteq {1}
      BY <3>2 DEF SearchStop
    <3>4. 1 \in S
      BY <1>2, <3>1, Numbering DEF SearchStop
    <3> QED BY <3>3, <3>4
  <2>4. FirstOf({1}) = 1
    <3>1. {1} \subseteq Nat /\ {1} # {}
      OBVIOUS
    <3>2. FirstOf({1}) \in {1}
      BY <3>1, FirstIn
    <3> QED BY <3>2
  <2>5. StopChain(m, s, name) = chain
    BY <1>2, <2>3, <2>4 DEF StopChain, chain
  <2>6. SearchIno(m, s, name) = InoOf(chain, name)
    BY <2>3, <2>5 DEF SearchIno
  <2>7. InoOf(chain, name) = chain[FirstOf(at)].ino
    BY DEF InoOf
  <2> QED BY <1>5, <2>2, <2>6, <2>7
<1>7. Absent(m, d, name)
  BY <1>2, <1>6 DEF Absent
<1>8. name # "." /\ name # ".."
  <2>1. 1 \in DOMAIN chain /\ 2 \in DOMAIN chain
    BY <1>3, <1>4
  <2> QED BY <1>4, <1>6, <2>1 DEF Entry
<1> QED BY <1>1, <1>7, <1>8 DEF Names, d

\* mkdir and creat leave the tree as it was, or with a new name.
LEMMA MakersGrow ==
    ASSUME Growing, NEW I, ROOT \in I, NEW m \in Tame(I), Coherent(m), Shape(m), Room(m),
           NEW c, NEW i, Ok(m, Pins(c), c, i), NEW path \in PathType, path.comps # <<>>
    PROVE  Grows(m, MyMkdir(m, path), "dir") /\ Grows(m, MyCreat(m, path), "reg")
<1> DEFINE p == NewParent(m, path)
           name == Basename(path)
<1>1. /\ MyMkdir(m, path) = IF p.enter THEN Kmkdir(p.m, p.s, name) ELSE p.m
      /\ MyCreat(m, path) = IF p.enter THEN Kcreat(p.m, p.s, name) ELSE p.m
  BY DEF MyMkdir, MyCreat, With
<1>2. m \in Machines /\ m.imap = I
  BY DEF Tame
<1>3. /\ p.m \in Near(m)
      /\ p.enter => /\ p.m.st = "up" /\ p.s \in Slots
                    /\ IsDir(p.m, p.s) /\ ~ Opaque(p.m, p.s)
                    /\ SearchIno(p.m, p.s, name) = 0
  <2>1. m \in Near(m)
    BY NearFirst
  <2>2. Serves(Near(m), I)
    BY <1>2, NearServes
  <2> QED BY <2>1, <2>2, NewParentServes
<1>4. Ok(p.m, Also(p.m, Pins(c), p.s), c, i)
  BY NewParentOk
<1>5. name \in FileNames
  BY PathParts
<1> HIDE DEF p, name
<1>6. CASE ~ p.enter
  BY <1>1, <1>3, <1>6 DEF Grows
<1>7. CASE p.enter
  <2> DEFINE x == p.m
             s == p.s
             d == x.minode[s].ino
  <2>1. /\ x \in Tame(I) /\ Coherent(x) /\ Alike(m, x) /\ x \in Machines /\ x.imap = I
        /\ x.st = "up" /\ s \in Slots /\ IsDir(x, s) /\ ~ Opaque(x, s)
        /\ SearchIno(x, s, name) = 0
    BY <1>2, <1>3, <1>7 DEF Near, Tame
  <2>2. x.minode[s].refCount # 0
    <3>1. s # NULL /\ Careful
      BY <2>1, Numbering DEF Growing, Careful
    <3>2. Pinned(x, Plus(Pins(c), s), c, i)
      BY <1>4, <2>1, <3>1 DEF Ok, Also
    <3>3. c \in Slots
      BY <1>2, <3>1, Held
    <3>4. Pins(c) \in [Slots -> Nat]
      BY DEF Pins
    <3>5. Plus(Pins(c), s)[s] > 0
      BY <2>1, <3>4 DEF Plus
    <3>6. x.minode[s].refCount >= Plus(Pins(c), s)[s]
      BY <2>1, <3>2 DEF Pinned
    <3>7. x.minode[s].refCount \in Int /\ Plus(Pins(c), s)[s] \in Nat
      BY <2>1, <3>4 DEF Machines, MINODEs, Plus
    <3> QED BY <3>5, <3>6, <3>7
  <2> HIDE DEF x, s
  <2>3. Shape(x)
    BY <2>1, AlikeShape
  <2>4. /\ FreeIno(x) = FreeIno(m) /\ FreeBlk(x) = FreeBlk(m) /\ TDirs(x) = TDirs(m)
        /\ \A e \in TDirs(m) : TBlk(x, e) = TBlk(m, e) /\ Ch(x, e) = Ch(m, e)
    <3>1. TDirs(m) \subseteq Inos
      BY DEF TDirs
    <3> QED BY <2>1, <3>1, AlikeDirs DEF FreeIno, FreeBlk, Alike, TBlk
  <2>5. d \in TDirs(x) /\ Absent(x, d, name) /\ name \in Names
    BY <1>5, <2>1, <2>3, NotFound
  <2>6. FreeIno(x) # 0 /\ FreeBlk(x) # 0 /\ Len(Ch(x, d)) < BlockCap
    <3>1. TBlk(x, d) \in Blks /\ Ch(x, d) = x.dir[TBlk(x, d)] /\ x.dir = m.dir
      BY <2>1, <2>3, <2>5 DEF Shape, Packed, TBlk, Ch, Alike
    <3> HIDE DEF d
    <3> QED BY <2>4, <3>1 DEF Room
  <2>7. /\ Made(x, Kcreat(x, s, name), d, name, "reg")
        /\ Made(x, Kmkdir(x, s, name), d, name, "dir")
    BY <2>1, <2>2, <2>3, <2>5, <2>6, MakeHere
  <2> HIDE DEF d
  <2>8. ASSUME NEW n, NEW type, Made(x, n, d, name, type) PROVE Grows(m, n, type)
    <3>1. n \in Tame(m.imap \cup {FreeIno(m)}) /\ Coherent(n)
      BY <1>2, <2>1, <2>4, <2>8 DEF Made
    <3>2. \A k \in Inos : Same(x.itable[k], m.itable[k])
      BY <2>1 DEF Alike
    <3>3. x.bmap = m.bmap /\ x.dir = m.dir /\ x.imap = m.imap
      BY <2>1 DEF Alike
    <3>4. CASE Orphaned(x, n)
      <4>1. Orphaned(m, n)
        BY <2>4, <3>2, <3>3, <3>4 DEF Orphaned, Same
      <4> QED BY <3>1, <4>1 DEF Grows
    <3>5. CASE Added(x, n, d, name, type)
      <4>1. TBlk(x, d) = TBlk(m, d) /\ Ch(x, d) = Ch(m, d) /\ d \in TDirs(m)
        BY <2>4, <2>5
      <4>2. Added(m, n, d, name, type)
        BY <2>4, <3>2, <3>3, <3>5, <4>1 DEF Added, Same
      <4>3. Absent(m, d, name)
        BY <2>5, <4>1 DEF Absent
      <4> QED BY <2>5, <3>1, <4>1, <4>2, <4>3 DEF Grows
    <3> QED BY <2>8, <3>4, <3>5 DEF Made
  <2> QED BY <1>1, <1>7, <2>7, <2>8 DEF x, s
<1> QED BY <1>6, <1>7

\* quit() and the death of the process leave the tree on the disk.
LEMMA EndsNear ==
    ASSUME NEW m, NEW c, NEW i, Ok(m, Pins(c), c, i), NEW I, ROOT \in I, m \in Tame(I),
           Coherent(m), NEW how \in {"down", "undefined"}
    PROVE  /\ [m EXCEPT !.itable = QuitDisk(m.minode, m.itable), !.st = how] \in Near(m)
           /\ [m EXCEPT !.st = how] \in Near(m)
<1> DEFINE D == QuitDisk(m.minode, m.itable)
           From(j) == {s \in Flushed(m.minode) : m.minode[s].ino = j}
           n == [m EXCEPT !.itable = D, !.st = how]
           k == [m EXCEPT !.st = how]
<1>1. m \in Machines /\ m.imap = I /\ m \in Near(m)
  BY NearFirst DEF Tame
<1>2. n \in Tame(I) /\ k \in Tame(I)
  <2> HIDE DEF n, k
  <2> QED BY CalmEnds DEF n, k
<1>3. ASSUME NEW j \in Inos
      PROVE  \/ D[j] = m.itable[j]
             \/ \E s \in Slots : m.minode[s].ino = j /\ D[j] = m.minode[s].INODE
  <2>0. m.itable \in [Inos \cup {0} -> INODEs]
    BY <1>1 DEF Machines
  <2>1. D[j] = IF From(j) = {} THEN m.itable[j] ELSE m.minode[LastOf(From(j))].INODE
    BY <2>0 DEF QuitDisk
  <2>2. CASE From(j) = {}
    BY <2>1, <2>2
  <2>3. CASE From(j) # {}
    <3>1. From(j) \subseteq 1 .. NMINODE
      BY DEF Flushed, Slots
    <3> DEFINE s == LastOf(From(j))
    <3>2. s \in From(j)
      <4> HIDE DEF From
      <4> QED BY <2>3, <3>1, LastIn, NMINODEAssumption
    <3>3. s \in Slots /\ m.minode[s].ino = j
      BY <3>2 DEF Flushed
    <3>4. D[j] = m.minode[s].INODE
      BY <2>1, <2>3
    <3> HIDE DEF s, D
    <3> QED BY <3>3, <3>4
  <2> QED BY <2>2, <2>3
<1> HIDE DEF D
<1>4. /\ n.minode = m.minode /\ n.itable = D
      /\ n.imap = m.imap /\ n.bmap = m.bmap /\ n.dir = m.dir
      /\ k.minode = m.minode /\ k.itable = m.itable
      /\ k.imap = m.imap /\ k.bmap = m.bmap /\ k.dir = m.dir
  BY <1>1 DEF Machines
<1> HIDE DEF n, k
<1>5. n \in Machines /\ k \in Machines
  BY <1>2 DEF Tame
<1>6. Reads(m, n) /\ Reads(m, k)
  BY <1>3, <1>4, <1>5 DEF Reads
<1>7. Known(m)
  BY DEF Tame
<1>8. Coherent(n) /\ Alike(m, n) /\ Coherent(k) /\ Alike(m, k)
  BY <1>1, <1>5, <1>6, <1>7, ReadsCoherent
<1> QED BY <1>1, <1>2, <1>8 DEF Near, n, k, D

-----------------------------------------------------------------------------
(* The tree between two commands.                                          *)

\* The tree on the disk, and its copies in core.
TreeInv == CalmInv /\ Coherent(Here) /\ Shape(Here) /\ Room(Here)

\* What a step does to the tree: nothing, or what a command does to the machine y that it
\* starts on.
Moves(x, n) ==
    \/ Alike(x, n)
    \/ \E y \in Machines :
          /\ Alike(x, y) /\ Shape(y) /\ Room(y)
          /\ \/ Orphaned(y, n)
             \/ \E type \in {"dir", "reg"}, d \in TDirs(y), name \in Names :
                   Absent(y, d, name) /\ Added(y, n, d, name, type)

\* A machine that a command leaves moves so to one with the same tree.
LEMMA SameMoves ==
    ASSUME NEW x, NEW y \in Machines, NEW m, NEW z, Alike(x, y), Alike(m, z),
           NEW type \in {"dir", "reg"}, Grows(y, m, type), Shape(y), Room(y)
    PROVE  Moves(x, z)
<1>1. /\ z.imap = m.imap /\ z.bmap = m.bmap /\ z.dir = m.dir
      /\ \A i \in Inos : /\ z.itable[i].type = m.itable[i].type
                         /\ z.itable[i].block = m.itable[i].block
  BY DEF Alike, Same
<1>2. CASE m \in Near(y)
  <2>1. Alike(y, m)
    BY <1>2 DEF Near
  <2>2. Alike(x, z)
    BY <2>1, AlikeMore
  <2> QED BY <2>2 DEF Moves
<1>3. CASE Orphaned(y, m)
  <2>1. Orphaned(y, z)
    BY <1>1, <1>3 DEF Orphaned, Same
  <2> QED BY <2>1 DEF Moves
<1>4. CASE \E d \in TDirs(y), name \in Names : Absent(y, d, name) /\ Added(y, m, d, name, type)
  <2>1. PICK d \in TDirs(y), name \in Names : Absent(y, d, name) /\ Added(y, m, d, name, type)
    BY <1>4
  <2> DEFINE ino == FreeIno(y)
             blk == FreeBlk(y)
  <2>2. /\ m.imap = y.imap \cup {ino} /\ m.bmap = y.bmap \cup {blk}
        /\ \A i \in Inos : i # ino => Same(m.itable[i], y.itable[i])
        /\ m.itable[ino].type = type
        /\ \A k \in 1 .. NDIRECT : m.itable[ino].block[k] = IF k = 1 THEN blk ELSE 0
        /\ m.dir[TBlk(y, d)] = Append(y.dir[TBlk(y, d)], Entry(name, ino))
        /\ type = "dir" => m.dir[blk] = <<Entry(".", ino), Entry("..", d)>>
        /\ \A b \in Blks : b # TBlk(y, d) /\ b # blk => m.dir[b] = y.dir[b]
    BY <2>1 DEF Added
  <2>3. ino \in Inos
    BY Free DEF Room
  <2>4. Added(y, z, d, name, type)
    <3> HIDE DEF ino, blk
    <3> QED BY <1>1, <2>2, <2>3 DEF Added, Same, ino, blk
  <2> QED BY <2>1, <2>4 DEF Moves
<1> QED BY <1>2, <1>3, <1>4 DEF Grows

\* And leave a tree in shape.
LEMMA GrownShape ==
    ASSUME NEW m \in Machines, Shape(m), Room(m), NEW n, NEW type, Grows(m, n, type)
    PROVE  Shape(n) /\ n \in Machines /\ Coherent(n)
<1>1. n \in Machines /\ Coherent(n)
  BY DEF Grows, Near, Tame
<1>2. CASE n \in Near(m)
  BY <1>1, <1>2, AlikeShape DEF Near
<1>3. CASE Orphaned(m, n)
  BY <1>1, <1>3, OrphanShape DEF Room
<1>4. CASE \E d \in TDirs(m), name \in Names : Added(m, n, d, name, type)
  BY <1>1, <1>4, AddedShape DEF Room
<1> QED BY <1>1, <1>2, <1>3, <1>4 DEF Grows

\* A command starts with the tree of the variables.
LEMMA NowHere ==
    ASSUME TreeInv, Careful, st # "down", NEW j \in Junk
    PROVE  /\ Now(j) \in Tame(imap) /\ ROOT \in imap /\ Coherent(Now(j))
           /\ Shape(Now(j)) /\ Room(Now(j)) /\ Alike(Here, Now(j))
           /\ Ok(Now(j), Pins(cwd), cwd, minode[cwd].ino)
<1> DEFINE m == Now(j)
<1>1. m \in Tame(imap) /\ ROOT \in imap
  BY NowTame DEF TreeInv
<1>2. Ok(m, Pins(cwd), cwd, minode[cwd].ino)
  BY NowOk DEF TreeInv, CalmInv
<1>3. /\ m.minode = minode /\ m.imap = imap /\ m.bmap = bmap /\ m.dir = dir
      /\ \A i \in Inos : m.itable[i] = itable[i]
  BY Numbering DEF Now
<1> HIDE DEF m
<1>4. Alike(Here, m)
  BY <1>3, HereIs DEF Alike, Same
<1>5. Shape(m)
  BY <1>4, AlikeShape DEF TreeInv
<1>6. Room(m)
  BY <1>3, HereIs DEF TreeInv, Room, FreeIno, FreeBlk
<1>7. Coherent(m)
  <2>1. m \in Machines
    BY <1>1 DEF Tame
  <2>2. \A s \in Slots : minode[s].ino # 0 => minode[s].ino \in Inos
    BY <1>3, <2>1 DEF Machines, MINODEs
  <2> QED BY <1>3, <2>2, HereIs DEF TreeInv, Coherent
<1> QED BY <1>1, <1>2, <1>4, <1>5, <1>6, <1>7 DEF m

\* And ends with that of the machine it leaves.
LEMMA LeavesHere ==
    ASSUME Roomy, NEW m \in Machines, Coherent(m), Leaves(m)
    PROVE  Alike(m, Here') /\ Coherent(Here') /\ Room(Here')
<1> DEFINE h == Here'
<1>1. /\ h.minode = (IF m.st = "down" THEN Blank ELSE Forget(m))
      /\ h.imap = m.imap /\ h.bmap = m.bmap /\ h.dir = m.dir
      /\ \A i \in Inos : h.itable[i] = m.itable[i]
  BY DEF Leaves, Here
<1>2. Room(m)
  BY RoomLeft DEF Leaves
<1> HIDE DEF h
<1>3. Alike(m, h)
  BY <1>1 DEF Alike, Same
<1>4. Room(h)
  BY <1>1, <1>2 DEF Room, FreeIno, FreeBlk
<1>5. ASSUME NEW s \in Slots, h.minode[s].ino # 0
      PROVE  Same(h.minode[s].INODE, h.itable[h.minode[s].ino])
  <2>1. h.minode[s] = m.minode[s]
    <3>1. Blank[s].ino = 0
      BY BlankEmpty
    <3>2. Forget(m)[s] = m.minode[s] \/ Forget(m)[s].ino = 0
      BY ForgetTame
    <3> QED BY <1>1, <1>5, <3>1, <3>2
  <2>2. m.minode[s].ino \in Inos
    BY <1>5, <2>1 DEF Machines, MINODEs
  <2> QED BY <1>1, <1>5, <2>1, <2>2 DEF Coherent
<1>6. Coherent(h)
  BY <1>5 DEF Coherent
<1> QED BY <1>3, <1>4, <1>6 DEF h

\* A disk that mkfs made.
LEMMA TreeInit ==
    ASSUME Init, Roomy
    PROVE  TreeInv
<1> DEFINE dots == <<Entry(".", ROOT), Entry("..", ROOT)>>
<1>1. /\ minode = Blank /\ imap = 1 .. ROOT /\ bmap = {1}
      /\ dir = [b \in Blks \cup {0} |-> IF b = 1 THEN dots ELSE <<>>]
      /\ itable = [i \in Inos |-> IF i = ROOT THEN INODE("dir", 2, 1)
                                  ELSE INODE("none", 0, 0)]
  BY DEF Init
<1>2. CalmInv
  BY CalmInit
<1>3. Coherent(Here)
  BY <1>1, BlankEmpty, HereIs DEF Coherent
<1>4. 1 \in Blks /\ 3 \in Inos /\ 2 \in Blks /\ NINODES \in Nat /\ NINODES >= 3
  BY GeometryAssumption DEF Roomy, Blks, Inos
<1>5. /\ itable[ROOT].type = "dir"
      /\ \A k \in 1 .. NDIRECT : itable[ROOT].block[k] = IF k = 1 THEN 1 ELSE 0
      /\ \A i \in Inos : i # ROOT => itable[i].type # "dir"
  <2> DEFINE one == 1
             zero == 0
             two == 2
  <2>1. one \in Blks \cup {0} /\ zero \in Blks \cup {0} /\ two \in U16 /\ zero \in U16
    BY <1>4 DEF U16
  <2>2. "dir" \in {"none", "reg", "dir", "lnk"} /\ "none" \in {"none", "reg", "dir", "lnk"}
    OBVIOUS
  <2>3. itable = [i \in Inos |-> IF i = ROOT THEN INODE("dir", two, one)
                                 ELSE INODE("none", zero, zero)]
    BY <1>1
  <2>4. \A k \in 1 .. NDIRECT : k # 1 => (IF k = 1 THEN 1 ELSE 0) = 0
    OBVIOUS
  <2> HIDE DEF one, zero, two
  <2>5. /\ INODE("dir", two, one).type = "dir"
        /\ \A k \in 1 .. NDIRECT : INODE("dir", two, one).block[k] = IF k = 1 THEN one ELSE 0
        /\ INODE("none", zero, zero).type = "none"
    BY <2>1, <2>2, NewINODE
  <2> QED BY <2>3, <2>5, Numbering DEF one
<1>6. TDirs(Here) = {ROOT} /\ TBlk(Here, ROOT) = 1 /\ Ch(Here, ROOT) = dots
  <2>1. TDirs(Here) = {ROOT}
    BY <1>5, HereIs, Numbering DEF TDirs
  <2>2. TBlk(Here, ROOT) = 1
    BY <1>5, HereIs, Numbering DEF TBlk
  <2>3. dir[1] = dots
    BY <1>1, <1>4
  <2> QED BY <2>1, <2>2, <2>3, HereIs DEF Ch, TBlk
<1>7. /\ Len(dots) = 2 /\ dots[1] = Entry(".", ROOT) /\ dots[2] = Entry("..", ROOT)
      /\ dots[2].name = ".." /\ dots[2].ino = ROOT /\ 3 .. Len(dots) = {}
  BY DEF Entry
<1>8. Room(Here)
  <2>1. FreeIno(Here) \in Inos /\ FreeBlk(Here) \in Blks
    <3> DEFINE S == Inos \ imap
               T == Blks \ bmap
    <3>1. S \subseteq Nat /\ T \subseteq Nat /\ 3 \in S /\ 2 \in T
      BY <1>1, <1>4, Numbering DEF ROOT
    <3> HIDE DEF S, T
    <3>2. FirstOf(S) \in S /\ FirstOf(T) \in T
      BY <3>1, FirstIn
    <3> QED BY <3>1, <3>2, HereIs DEF FreeIno, FreeBlk, S, T
  <2>2. ASSUME NEW b \in Blks PROVE Len(dir[b]) < BlockCap
    <3>1. dir[b] = IF b = 1 THEN dots ELSE <<>>
      BY <1>1
    <3>2. BlockCap \in Nat /\ 2 < BlockCap
      BY GeometryAssumption DEF Roomy
    <3>3. Len(<<>>) = 0
      OBVIOUS
    <3> HIDE DEF dots
    <3> QED BY <1>7, <3>1, <3>2, <3>3
  <2> QED BY <2>1, <2>2, HereIs, Numbering DEF Room
<1> HIDE DEF dots
<1>9. Numbered(Here)
  BY <1>1, <1>6, HereIs, Numbering DEF Numbered, ROOT
<1>10. Packed(Here)
  BY <1>1, <1>4, <1>5, <1>6, HereIs DEF Packed, TBlk
<1>11. Dotted(Here)
  BY <1>6, <1>7 DEF Dotted
<1>12. Filled(Here) /\ Upward(Here) /\ Downward(Here)
  BY <1>6, <1>7 DEF Filled, Upward, Downward
<1> QED BY <1>2, <1>3, <1>8, <1>9, <1>10, <1>11, <1>12 DEF TreeInv, Shape

\* Every step keeps the tree in shape, and moves it in one of these ways.
LEMMA TreeStep ==
    ASSUME TreeInv, Growing, Roomy, [Next]_vars
    PROVE  TreeInv' /\ Moves(Here, Here')
<1> DEFINE Goal == Coherent(Here') /\ Shape(Here') /\ Room(Here') /\ Moves(Here, Here')
<1>0. Careful /\ CalmInv /\ SpaceInv
  BY DEF Growing, Careful, TreeInv, CalmInv
<1>1. CalmInv'
  BY <1>0, CalmStep
<1> SUFFICES Goal
  BY <1>1 DEF TreeInv
<1>2. \A p \in Paths : p \in PathType
  BY PathsAssumption
<1>3. \A p \in Named : p \in PathType /\ p.comps # <<>>
  BY PathsAssumption DEF Named
<1>4. ASSUME NEW j \in Junk, st # "down"
      PROVE  /\ Now(j) \in Tame(imap) /\ ROOT \in imap /\ Coherent(Now(j))
             /\ Shape(Now(j)) /\ Room(Now(j)) /\ Alike(Here, Now(j))
             /\ Ok(Now(j), Pins(cwd), cwd, minode[cwd].ino)
  BY <1>0, <1>4, NowHere
<1>5. ASSUME NEW j \in Junk, st # "down", NEW m, NEW type \in {"dir", "reg"},
             Grows(Now(j), m, type), Leaves(m)
      PROVE  Goal
  <2> DEFINE y == Now(j)
  <2>1. /\ y \in Machines /\ Shape(y) /\ Room(y) /\ Alike(Here, y) /\ FreeIno(y) # 0
        /\ Grows(y, m, type)
    BY <1>4, <1>5 DEF Tame, Room
  <2> HIDE DEF y, Goal
  <2>2. Shape(m) /\ m \in Machines /\ Coherent(m)
    BY <2>1, GrownShape
  <2>3. Alike(m, Here') /\ Coherent(Here') /\ Room(Here')
    BY <1>5, <2>2, LeavesHere
  <2>4. Shape(Here')
    BY <2>2, <2>3, AlikeShape
  <2>5. Moves(Here, Here')
    BY <2>1, <2>3, SameMoves
  <2> QED BY <2>3, <2>4, <2>5 DEF Goal
<1>6. ASSUME NEW j \in Junk, st # "down", NEW m, m \in Near(Now(j)), Leaves(m)
      PROVE  Goal
  <2> DEFINE type == "dir"
  <2>1. Grows(Now(j), m, type) /\ type \in {"dir", "reg"}
    BY <1>6 DEF Grows
  <2> HIDE DEF type, Goal
  <2> QED BY <1>5, <1>6, <2>1
<1>7. ASSUME NEW j \in Junk, st # "down"
      PROVE  Now(j) \in Near(Now(j)) /\ Serves(Near(Now(j)), imap)
  <2> DEFINE y == Now(j)
  <2>1. y \in Tame(imap) /\ ROOT \in imap /\ Coherent(y) /\ y.imap = imap
    BY <1>4, <1>7 DEF Tame
  <2> HIDE DEF y
  <2>2. y \in Near(y) /\ Serves(Near(y), imap)
    BY <2>1, NearFirst, NearServes
  <2> QED BY <2>2 DEF y
<1> HIDE DEF Goal
<1>8. CASE Mkdir
  <2>1. PICK p \in Named, j \in Junk : Leaves(MyMkdir(Now(j), p))
    BY <1>8 DEF Mkdir
  <2> DEFINE type == "dir"
  <2>2. Grows(Now(j), MyMkdir(Now(j), p), type) /\ type \in {"dir", "reg"} /\ st # "down"
    BY <1>3, <1>4, <1>8, MakersGrow DEF Mkdir, Runs
  <2> HIDE DEF type
  <2> QED BY <1>5, <2>1, <2>2
<1>9. CASE Creat
  <2>1. PICK p \in Named, j \in Junk : Leaves(MyCreat(Now(j), p))
    BY <1>9 DEF Creat
  <2> DEFINE type == "reg"
  <2>2. Grows(Now(j), MyCreat(Now(j), p), type) /\ type \in {"dir", "reg"} /\ st # "down"
    BY <1>3, <1>4, <1>9, MakersGrow DEF Creat, Runs
  <2> HIDE DEF type
  <2> QED BY <1>5, <2>1, <2>2
<1>10. CASE ChangeDir
  <2>1. PICK p \in Paths, j \in Junk : Leaves(Cd(Now(j), p))
    BY <1>10 DEF ChangeDir
  <2>2. Cd(Now(j), p) \in Near(Now(j)) /\ st # "down"
    BY <1>2, <1>7, <1>10, CdServes DEF ChangeDir, Runs
  <2> QED BY <1>6, <2>1, <2>2
<1>11. CASE List
  <2>1. PICK j \in Junk : \/ Leaves(LsCwd(Now(j)))
                          \/ \E p \in Paths : Leaves(Ls(Now(j), p))
    BY <1>11 DEF List
  <2>2. /\ LsCwd(Now(j)) \in Near(Now(j)) /\ \A p \in Paths : Ls(Now(j), p) \in Near(Now(j))
        /\ st # "down"
    BY <1>2, <1>7, <1>11, LsServes DEF List, Runs
  <2> QED BY <1>6, <2>1, <2>2
<1>12. CASE PrintDir
  <2>1. PICK j \in Junk : Leaves(Pwd(Now(j)))
    BY <1>12 DEF PrintDir
  <2>2. Pwd(Now(j)) \in Near(Now(j)) /\ st # "down"
    BY <1>7, <1>12, PwdServes DEF PrintDir, Runs
  <2> QED BY <1>6, <2>1, <2>2
<1>13. CASE Quit
  <2> DEFINE how == IF \E s \in Flushed(minode) : minode[s].ino = 0 THEN "undefined" ELSE "down"
  <2>1. PICK j \in Junk : Leaves([Now(j) EXCEPT !.itable = QuitDisk(minode, @), !.st = how])
    BY <1>13 DEF Quit
  <2> DEFINE m == Now(j)
             n == [m EXCEPT !.itable = QuitDisk(m.minode, m.itable), !.st = how]
  <2>2. /\ Ok(m, Pins(cwd), cwd, minode[cwd].ino) /\ m \in Tame(imap) /\ ROOT \in imap
        /\ Coherent(m) /\ Leaves(n) /\ st # "down"
    <3>1. m.minode = minode
      BY DEF Now
    <3> QED BY <1>4, <1>13, <2>1, <3>1 DEF Quit, Runs
  <2>3. how \in {"down", "undefined"}
    OBVIOUS
  <2> HIDE DEF m, how
  <2>4. n \in Near(m)
    BY <2>2, <2>3, EndsNear
  <2> HIDE DEF n
  <2> QED BY <1>6, <2>2, <2>4 DEF m
<1>14. CASE Kill
  <2>1. PICK j \in Junk : Leaves([Now(j) EXCEPT !.st = "down"])
    BY <1>14 DEF Kill
  <2>2. [Now(j) EXCEPT !.st = "down"] \in Near(Now(j)) /\ st # "down"
    BY <1>4, <1>14, EndsNear DEF Kill
  <2> QED BY <1>6, <2>1, <2>2
<1>15. CASE Boot
  <2>1. minode = Blank /\ UNCHANGED <<itable, imap, bmap, dir>>
        /\ minode' = IgetTable(IgetTable(Blank, itable, ROOT), itable, ROOT)
    BY <1>0, <1>15, HereParts DEF Boot
  <2>2. itable[ROOT] \in INODEs /\ ROOT \in Inos \cup {0}
    <3>1. TypeOK
      BY <1>0, HereParts
    <3> QED BY <3>1, Numbering DEF TypeOK
  <2> DEFINE a == IgetTable(Blank, itable, ROOT)
             b == IgetTable(a, itable, ROOT)
  <2>3. /\ a \in [Slots -> MINODEs]
        /\ \A s \in Slots : a[s].ino = 0 \/ (a[s].ino = ROOT /\ a[s].INODE = itable[ROOT])
    <3>1. Blank \in [Slots -> MINODEs]
      BY BlankTypes
    <3> QED BY <2>2, <3>1, IgetTableEffect, BlankEmpty, Numbering
  <2> HIDE DEF a
  <2>4. \A s \in Slots : b[s].ino = 0 \/ (b[s].ino = ROOT /\ b[s].INODE = itable[ROOT])
    BY <2>2, <2>3, IgetTableEffect, Numbering
  <2>5. \A s \in Slots : minode'[s].ino = 0
                            \/ (minode'[s].ino = ROOT /\ minode'[s].INODE = itable[ROOT])
    BY <2>1, <2>4 DEF a
  <2> DEFINE h == Here'
  <2>6. /\ h.minode = minode' /\ h.imap = Here.imap /\ h.dir = Here.dir
        /\ h.itable = Here.itable /\ h.bmap = Here.bmap /\ Here.itable = itable
    BY <2>1 DEF Here
  <2> HIDE DEF h
  <2>7. Alike(Here, h)
    BY <2>6 DEF Alike, Same
  <2>8. Coherent(h)
    BY <2>5, <2>6 DEF Coherent, Same
  <2>9. Shape(h)
    BY <2>7, AlikeShape DEF TreeInv
  <2>10. Room(h)
    BY <2>6 DEF TreeInv, Room, FreeIno, FreeBlk
  <2> QED BY <2>7, <2>8, <2>9, <2>10 DEF Goal, h, Moves
<1>16. CASE Rmdir \/ Link \/ Unlink \/ SymLink
  BY <1>16 DEF Rmdir, Link, Unlink, SymLink, Runs, Growing
<1>17. CASE UNCHANGED vars
  <2>1. Here' = Here
    BY <1>17 DEF vars, Here
  <2>2. Alike(Here, Here)
    BY DEF Alike, Same
  <2> QED BY <2>1, <2>2 DEF Goal, TreeInv, Moves
<1> QED BY <1>8, <1>9, <1>10, <1>11, <1>12, <1>13, <1>14, <1>15, <1>16, <1>17 DEF Next

-----------------------------------------------------------------------------
(* What the users of the tree see of it.                                   *)

\* The names in a directory.
Kids(m, d) == {Ch(m, d)[k] : k \in 3 .. Len(Ch(m, d))}

\* The program sees the tree of the disk.
Seen == /\ Dirs = TDirs(Here)
        /\ \A d \in Dirs : Children(d) = Kids(Here, d)
        /\ \A i \in Inos : Current(i).type = itable[i].type

\* The copy in core, if there is one, is that of the disk but for its links count.
LEMMA CurrentSame ==
    ASSUME TreeInv, NEW i \in Inos
    PROVE  Same(Current(i), itable[i])
<1>1. SpaceInv /\ Coherent(Here)
  BY DEF TreeInv, CalmInv
<1>2. \/ Current(i) = itable[i]
      \/ \E s \in Slots : minode[s].ino = i /\ Current(i) = minode[s].INODE
  BY <1>1, CurrentIs
<1>3. \A s \in Slots : minode[s].ino # 0 => Same(minode[s].INODE, itable[minode[s].ino])
  BY <1>1, HereIs DEF Coherent
<1>4. i # 0
  BY Numbering
<1> QED BY <1>2, <1>3, <1>4 DEF Same

\* The entries of a directory are those of its one block.
LEMMA EntriesAre ==
    ASSUME TreeInv, NEW d \in TDirs(Here)
    PROVE  /\ Entries(d) = {Ch(Here, d)[k] : k \in DOMAIN Ch(Here, d)}
           /\ Ch(Here, d) \in Chains
<1> DEFINE blk == TBlk(Here, d)
           chain == dir[blk]
<1>1. d \in Inos
  BY DEF TDirs
<1>2. /\ blk \in Blks /\ blk # 0
      /\ \A k \in 1 .. NDIRECT : k # 1 => itable[d].block[k] = 0
      /\ itable[d].block[1] = blk
  BY Numbering, HereIs DEF TreeInv, Shape, Packed, TBlk
<1>3. Current(d).block = itable[d].block
  BY <1>1, CurrentSame DEF Same
<1> HIDE DEF blk
<1>4. BlocksOf(Current(d)) = {blk}
  <2>1. 1 \in 1 .. NDIRECT
    BY Numbering
  <2> QED BY <1>2, <1>3, <2>1 DEF BlocksOf
<1>5. Entries(d) = ToSet(chain)
  BY <1>4 DEF Entries
<1>6. Ch(Here, d) = chain
  BY <1>2, HereIs DEF Ch
<1>7. chain \in Chains
  <2>1. TypeOK
    BY HereParts DEF TreeInv, CalmInv
  <2> QED BY <1>2, <2>1 DEF TypeOK
<1> HIDE DEF chain
<1> QED BY <1>5, <1>6, <1>7 DEF ToSet

\* "." and ".." are the first two of them, and names are the others.
LEMMA ChildrenAre ==
    ASSUME TreeInv, NEW d \in TDirs(Here)
    PROVE  /\ Children(d) = Kids(Here, d)
           /\ {e \in Entries(d) : e.name \notin Names} =
                {Entry(".", d), Entry("..", Ch(Here, d)[2].ino)}
<1> DEFINE c == Ch(Here, d)
<1>1. Entries(d) = {c[k] : k \in DOMAIN c} /\ c \in Chains
  BY EntriesAre
<1>2. /\ Len(c) >= 2 /\ c[1] = Entry(".", d) /\ c[2].name = ".."
      /\ \A k \in 3 .. Len(c) : c[k].name \in Names
  BY DEF TreeInv, Shape, Dotted, Filled
<1> HIDE DEF c
<1>3. Len(c) \in Nat /\ DOMAIN c = 1 .. Len(c)
  BY <1>1, ChainParts
<1>4. c[1].name \notin Names /\ c[2].name \notin Names
  BY <1>2 DEF Entry, Names
<1>5. c[2] = Entry("..", c[2].ino)
  <2> DEFINE R == [name : FileNames, ino : Inos \cup {0}]
  <2>1. c \in Seq(R) /\ 2 \in 1 .. Len(c)
    BY <1>1, <1>2, <1>3 DEF Chains
  <2>2. c[2] \in R
    <3> HIDE DEF R
    <3> QED BY <2>1
  <2> QED BY <1>2, <2>2 DEF Entry
<1>6. DOMAIN c = {1, 2} \cup (3 .. Len(c))
  BY <1>2, <1>3
<1>7. Children(d) = {c[k] : k \in 3 .. Len(c)}
  BY <1>1, <1>2, <1>4, <1>6 DEF Children
<1>8. {e \in Entries(d) : e.name \notin Names} = {c[1], c[2]}
  BY <1>1, <1>2, <1>4, <1>6
<1> QED BY <1>2, <1>5, <1>7, <1>8 DEF Kids, c

\* So the program sees the tree of the disk.
LEMMA TreeSeen ==
    ASSUME TreeInv
    PROVE  Seen
<1>1. ASSUME NEW i \in Inos PROVE Current(i).type = itable[i].type
  BY CurrentSame DEF Same
<1>2. Dirs = TDirs(Here)
  <2>1. TDirs(Here) \subseteq imap /\ imap \subseteq Inos
    <3>1. TypeOK
      BY HereParts DEF TreeInv, CalmInv
    <3> QED BY <3>1, HereIs DEF TreeInv, Shape, Numbered, TypeOK
  <2> QED BY <1>1, <2>1, HereIs DEF Dirs, TDirs
<1> QED BY <1>1, <1>2, ChildrenAre DEF Seen

\* A directory is named by its parent alone, and / by none.
LEMMA HoldersAre ==
    ASSUME TreeInv, NEW d \in Dirs
    PROVE  Holders(d) = IF d = ROOT THEN {} ELSE {Ch(Here, d)[2].ino}
<1>1. Dirs = TDirs(Here) /\ \A x \in Dirs : Children(x) = Kids(Here, x)
  BY TreeSeen DEF Seen
<1> DEFINE C(x) == Ch(Here, x)
<1>2. Holders(d) = {x \in Dirs : \E k \in 3 .. Len(C(x)) : C(x)[k].ino = d}
  BY <1>1 DEF Holders, Kids
<1>3. /\ \A x \in Dirs : \A k \in 3 .. Len(C(x)) : C(x)[k].ino # ROOT
      /\ \A x \in Dirs : \A k \in 3 .. Len(C(x)) : C(x)[k].ino = d => C(d)[2].ino = x
      /\ C(d)[2].ino \in Dirs
      /\ d # ROOT => \E k \in 3 .. Len(C(C(d)[2].ino)) : C(C(d)[2].ino)[k].ino = d
  BY <1>1 DEF TreeInv, Shape, Filled, Upward, Downward, Dotted
<1> HIDE DEF C
<1>4. CASE d = ROOT
  BY <1>2, <1>3, <1>4
<1>5. CASE d # ROOT
  <2>1. Holders(d) = {C(d)[2].ino}
    BY <1>2, <1>3, <1>5
  <2> QED BY <1>5, <2>1 DEF C
<1> QED BY <1>4, <1>5

\* NINODES rounds from / reach every directory: a parent has the smaller number.
LEMMA ReachAll ==
    ASSUME TreeInv
    PROVE  Dirs \subseteq Reach
<1> DEFINE N == NINODES
           W == SUBSET Inos
           More(S) == S \cup UNION {{e.ino : e \in Children(d)} : d \in S \cap Dirs}
           F == [x \in W \X (1 .. N) |-> More(x[1])]
           list == [i \in 1 .. N |-> i]
           Body(g) == [s \in SUBSET (1 .. N) |->
                          IF s = {} THEN {ROOT} ELSE More(g[s \ {Max(s)}])]
           h == CHOOSE g : g = Body(g)
<1>1. /\ Dirs = TDirs(Here) /\ \A d \in Dirs : Children(d) = Kids(Here, d)
      /\ \A d \in Dirs : \A k \in 3 .. Len(Ch(Here, d)) : Ch(Here, d)[k].ino \in Inos
  <2>1. imap \subseteq Inos
    BY HereParts DEF TreeInv, CalmInv, TypeOK
  <2> QED BY <2>1, TreeSeen, HereIs DEF Seen, TreeInv, Shape, Filled
<1>2. \A S \in W : More(S) \in W
  BY <1>1 DEF Kids
<1>3. N \in Nat /\ ROOT \in Inos /\ {ROOT} \in W /\ Len(list) = N
  BY GeometryAssumption, Numbering
<1> HIDE DEF N, More
<1>4. F \in [W \X (1 .. N) -> W] /\ \A S \in W, k \in 1 .. N : F[<<S, k>>] = More(S)
  BY <1>2
<1> HIDE DEF F, h, W
<1>5. PICK g \in [SUBSET (1 .. N) -> W] : Folds(g, N, {ROOT}, F)
  BY <1>3, <1>4, FoldExists
<1>6. \A s \in (SUBSET (1 .. N)) \ {{}} : Max(s) \in 1 .. N /\ s \ {Max(s)} \in SUBSET (1 .. N)
  BY <1>3, LastIn
<1>7. g = Body(g)
  BY <1>4, <1>5, <1>6 DEF Folds
<1>8. h = Body(h)
  <2> HIDE DEF Body
  <2> QED BY <1>7 DEF h
<1>9. Reach = h[1 .. N]
  BY <1>3 DEF Reach, FoldLeft, MapThenFoldSet, h, More, N
<1>10. FoldsIn(h, W, N, {ROOT}, F)
  BY <1>4, <1>6, <1>8 DEF FoldsIn
<1> HIDE DEF Body
<1>11. N \in Nat /\ {ROOT} \in W /\ F \in [W \X (1 .. N) -> W]
  BY <1>3, <1>4
<1>12. PICK v \in [0 .. N -> W] : Chain(v, N, {ROOT}, F, h[1 .. N])
  BY ONLY <1>10, <1>11, FoldSteps
<1>13. /\ v[0] = {ROOT} /\ v[N] = Reach
       /\ \A k \in 0 .. N - 1 : v[k + 1] = More(v[k])
  <2>1. \A k \in 0 .. N - 1 : k + 1 \in 1 .. N /\ (k + 1) - 1 = k /\ v[k] \in W
    BY <1>11
  <2>2. \A k \in 1 .. N : v[k] = F[<<v[k - 1], k>>]
    BY <1>12 DEF Chain
  <2>3. \A k \in 0 .. N - 1 : v[k + 1] = F[<<v[k], k + 1>>]
    BY <2>1, <2>2
  <2> QED BY <1>4, <1>9, <1>12, <2>1, <2>3 DEF Chain
<1> DEFINE T == {k \in Nat : k <= N => \A d \in Dirs : d <= k + 2 => d \in v[k]}
           Up(d) == Ch(Here, d)[2].ino
<1>14. /\ Dirs \subseteq Nat
       /\ \A d \in Dirs : d = ROOT \/ (Up(d) \in Dirs /\ Up(d) < d)
       /\ \A d \in Dirs : d # ROOT => \E e \in Children(Up(d)) : e.ino = d
  <2>1. \A d \in Dirs : d \in Nat
    BY <1>1, Numbering DEF TDirs
  <2>2. \A d \in Dirs : d = ROOT \/ (Up(d) \in Dirs /\ Up(d) < d)
    BY <1>1 DEF TreeInv, Shape, Dotted
  <2>3. \A d \in Dirs : d # ROOT => \E k \in 3 .. Len(Ch(Here, Up(d))) : Ch(Here, Up(d))[k].ino = d
    BY <1>1 DEF TreeInv, Shape, Downward
  <2> QED BY <1>1, <2>1, <2>2, <2>3 DEF Kids
<1> HIDE DEF Up
<1>15. 0 \in T
  <2>1. ASSUME NEW d \in Dirs, d <= 2 PROVE d = ROOT
    <3>1. \A e \in Dirs : e < 2 => FALSE
      <4>1. 1 \notin Dirs /\ 0 \notin Dirs
        BY <1>1, <1>14, Numbering DEF TDirs, ROOT
      <4> QED BY <1>14, <4>1
    <3> QED BY <1>14, <2>1, <3>1 DEF ROOT
  <2> QED BY <1>13, <2>1
<1>16. ASSUME NEW k \in Nat, k \in T PROVE k + 1 \in T
  <2>1. SUFFICES ASSUME k + 1 <= N, NEW d \in Dirs, d <= (k + 1) + 2 PROVE d \in v[k + 1]
    OBVIOUS
  <2>2. /\ k \in 0 .. N - 1 /\ v[k + 1] = More(v[k])
        /\ \A e \in Dirs : e <= k + 2 => e \in v[k]
    BY <1>11, <1>13, <1>16, <2>1
  <2>3. CASE d <= k + 2
    BY <2>2, <2>3 DEF More
  <2>4. CASE d = ROOT
    BY <2>2, <2>3, <2>4 DEF ROOT
  <2>5. CASE d # ROOT
    <3>1. Up(d) \in Dirs /\ Up(d) <= k + 2
      <4>1. Up(d) \in Dirs /\ Up(d) < d /\ Up(d) \in Nat /\ d \in Nat
        BY <1>14, <2>5
      <4> QED BY <2>1, <4>1
    <3>2. Up(d) \in v[k] /\ \E e \in Children(Up(d)) : e.ino = d
      BY <1>14, <2>2, <2>5, <3>1
    <3> QED BY <2>2, <3>1, <3>2 DEF More
  <2> QED BY <2>4, <2>5
<1> HIDE DEF T
<1>17. N \in T
  BY <1>11, <1>15, <1>16, SetInduction
<1>18. \A d \in Dirs : d <= N + 2
  BY <1>1, GeometryAssumption DEF TDirs, Inos, N
<1> QED BY <1>11, <1>13, <1>17, <1>18 DEF T

\* The tree on the disk has the shape that its users rely on.
LEMMA ShapeSeen ==
    ASSUME TreeInv
    PROVE  TreeShape
<1>1. Dirs \subseteq Reach
  BY ReachAll
<1>2. ROOT \in Dirs /\ Dirs = TDirs(Here)
  BY TreeSeen DEF Seen, TreeInv, Shape, Numbered
<1>3. Holders(ROOT) = {}
  BY <1>2, HoldersAre
<1>4. ASSUME NEW d \in Dirs, NEW up, up = IF d = ROOT THEN {ROOT} ELSE Holders(d)
      PROVE  /\ Cardinality(up) = 1
             /\ {e \in Entries(d) : e.name \notin Names} =
                  {Entry(".", d)} \cup {Entry("..", u) : u \in up}
  <2> DEFINE u == Ch(Here, d)[2].ino
  <2>1. up = {u}
    <3>1. d = ROOT => u = ROOT
      BY <1>2 DEF TreeInv, Shape, Dotted
    <3> QED BY <1>4, <3>1, HoldersAre
  <2>2. {e \in Entries(d) : e.name \notin Names} = {Entry(".", d), Entry("..", u)}
    BY <1>2, ChildrenAre
  <2> HIDE DEF u
  <2>3. Cardinality(up) = 1
    BY <2>1, FS_Singleton
  <2> QED BY <2>1, <2>2, <2>3
<1> QED BY <1>1, <1>3, <1>4 DEF TreeShape

\* The tree of the disk is what every step of the makers of names keeps, and the model
\* stays in it from mkfs on: the numbers in use are the first ones, a directory has one
\* block of its own, and its parent has a smaller number than it has.
THEOREM TreeKept ==
    ASSUME Growing, Roomy
    PROVE  Spec => []TreeInv
<1>1. Init => TreeInv
  BY TreeInit
<1>2. TreeInv /\ [Next]_vars => TreeInv'
  BY TreeStep
<1> QED BY <1>1, <1>2, PTL DEF Spec

\* With mkdir, creat, cd, ls, pwd, quit and kill in any order, the directories form one
\* tree under /, and "." and ".." of each say where it is: what cd .. and rpwd() climb
\* along is the way that search() went down.
THEOREM DirectoriesFormATree ==
    ASSUME Growing, Roomy
    PROVE  Spec => []TreeShape
<1>1. Spec => []TreeInv
  BY TreeKept
<1>2. TreeInv => TreeShape
  BY ShapeSeen
<1> QED BY <1>1, <1>2, PTL

-----------------------------------------------------------------------------
(* The tree of names that the machines implement.                          *)

\* The names of a machine, the inodes that have one, and what these are.
Called(m) == UNION {{[dir |-> d, name |-> e.name, ino |-> e.ino] : e \in Kids(m, d)} :
                       d \in TDirs(m)}
LinkedIn(m) == {ROOT} \cup {e.ino : e \in UNION {Kids(m, d) : d \in TDirs(m)}}
Kinds(m) == [i \in LinkedIn(m) |-> m.itable[i].type]

\* What has a name is allocated; every directory has one.
LEMMA LinkedAre ==
    ASSUME NEW x, Shape(x), x.imap \subseteq Inos
    PROVE  LinkedIn(x) \subseteq x.imap /\ TDirs(x) \subseteq LinkedIn(x)
<1>1. ROOT \in x.imap
  BY DEF Shape, Numbered
<1>2. LinkedIn(x) \subseteq x.imap
  BY <1>1 DEF LinkedIn, Kids, Shape, Filled
<1>3. ASSUME NEW c \in TDirs(x) PROVE c \in LinkedIn(x)
  <2>1. CASE c = ROOT
    BY <2>1 DEF LinkedIn
  <2>2. CASE c # ROOT
    <3> DEFINE d == Ch(x, c)[2].ino
    <3>1. d \in TDirs(x) /\ \E k \in 3 .. Len(Ch(x, d)) : Ch(x, d)[k].ino = c
      BY <2>2 DEF Shape, Dotted, Downward
    <3> HIDE DEF d
    <3>2. \E e \in Kids(x, d) : e.ino = c
      BY <3>1 DEF Kids
    <3> QED BY <3>1, <3>2 DEF LinkedIn
  <2> QED BY <2>1, <2>2
<1> QED BY <1>1, <1>2, <1>3

\* Two machines with the same directories have the same names.
LEMMA SameCalled ==
    ASSUME NEW x, NEW n, Shape(x), x.imap \subseteq Inos, TDirs(n) = TDirs(x),
           \A d \in TDirs(x) : Ch(n, d) = Ch(x, d),
           \A i \in Inos : Same(n.itable[i], x.itable[i])
    PROVE  Called(n) = Called(x) /\ Kinds(n) = Kinds(x)
<1>1. \A d \in TDirs(x) : Kids(n, d) = Kids(x, d)
  BY DEF Kids
<1>2. LinkedIn(n) = LinkedIn(x)
  BY <1>1 DEF LinkedIn
<1>3. Called(n) = Called(x)
  BY <1>1 DEF Called
<1>4. LinkedIn(x) \subseteq Inos
  BY LinkedAre
<1>5. \A i \in Inos : n.itable[i].type = x.itable[i].type
  BY DEF Same
<1> QED BY <1>2, <1>3, <1>4, <1>5 DEF Kinds

\* So do machines with the same tree,
LEMMA AlikeCalled ==
    ASSUME NEW x, NEW n, Shape(x), x.imap \subseteq Inos, Alike(x, n)
    PROVE  Called(n) = Called(x) /\ Kinds(n) = Kinds(x)
<1>1. TDirs(n) = TDirs(x) /\ \A d \in TDirs(x) : Ch(n, d) = Ch(x, d)
  <2>1. TDirs(x) \subseteq Inos
    BY DEF TDirs
  <2> QED BY <2>1, AlikeDirs
<1> QED BY <1>1, SameCalled DEF Alike

\* and one with an orphan more.
LEMMA OrphanCalled ==
    ASSUME NEW x \in Machines, NEW n, Shape(x), FreeIno(x) # 0, Orphaned(x, n)
    PROVE  Called(n) = Called(x) /\ Kinds(n) = Kinds(x)
<1>1. TDirs(n) = TDirs(x) /\ \A d \in TDirs(x) : Ch(n, d) = Ch(x, d)
  BY OrphanShape
<1>2. x.imap \subseteq Inos
  BY DEF Machines
<1> QED BY <1>1, <1>2, SameCalled DEF Orphaned

\* A new name is one more, of an inode that had none.
LEMMA AddedCalled ==
    ASSUME NEW x \in Machines, Shape(x), FreeIno(x) # 0, FreeBlk(x) # 0,
           NEW n, NEW d \in TDirs(x), NEW name \in Names, NEW type, Added(x, n, d, name, type),
           Absent(x, d, name)
    PROVE  LET ino == FreeIno(x)
           IN  /\ ino \in Inos /\ ino \notin LinkedIn(x)
               /\ d \in LinkedIn(x) /\ Kinds(x)[d] = "dir"
               /\ \A e \in Called(x) : e.dir = d => e.name # name
               /\ Called(n) = Called(x) \cup {[dir |-> d, name |-> name, ino |-> ino]}
               /\ LinkedIn(n) = LinkedIn(x) \cup {ino}
               /\ \A i \in LinkedIn(x) : Kinds(n)[i] = Kinds(x)[i]
               /\ Kinds(n)[ino] = type
<1> DEFINE ino == FreeIno(x)
           c == Ch(x, d)
           e == Entry(name, ino)
           more == Append(c, e)
           dots == <<Entry(".", ino), Entry("..", d)>>
<1>1. /\ LinkedIn(x) \subseteq Inos /\ d \in LinkedIn(x) /\ ino \notin LinkedIn(x)
      /\ TDirs(x) \subseteq LinkedIn(x)
  <2>1. FreeIno(x) \notin x.imap /\ x.imap \subseteq Inos
    BY Free DEF Machines
  <2> QED BY <2>1, LinkedAre
<1>2. /\ ino \in Inos /\ ino \notin TDirs(x)
      /\ TDirs(n) = TDirs(x) \cup (IF type = "dir" THEN {ino} ELSE {})
      /\ \A t \in TDirs(x) : t # d => Ch(n, t) = Ch(x, t)
      /\ Ch(n, d) = more
      /\ type = "dir" => Ch(n, ino) = dots
      /\ c \in Chains
  BY AddedDirs
<1>3. Kinds(x)[d] = "dir"
  BY <1>1 DEF Kinds, TDirs
<1>4. \A f \in Called(x) : f.dir = d => f.name # name
  <2>1. \A k \in 3 .. Len(c) : c[k].name # name
    <3>1. DOMAIN c = 1 .. Len(c)
      BY <1>2, ChainParts
    <3> QED BY <3>1 DEF Absent
  <2> QED BY <2>1 DEF Called, Kids
<1>5. /\ \A i \in Inos : i # ino => n.itable[i].type = x.itable[i].type
      /\ n.itable[ino].type = type
  BY DEF Added, Same
<1>6. Kids(n, d) = Kids(x, d) \cup {e}
  <2>1. Len(c) >= 2
    BY DEF Shape, Dotted
  <2>2. c \in Chains
    BY <1>2
  <2>3. /\ \A k \in 3 .. Len(c) : more[k] = c[k]
        /\ more[Len(more)] = e
        /\ Len(c) \in Nat /\ Len(more) = Len(c) + 1 /\ Len(more) \in 3 .. Len(more)
        /\ \A k \in 3 .. Len(more) : k \in 3 .. Len(c) \/ k = Len(more)
    <3> HIDE DEF c, e
    <3> QED BY <2>1, <2>2, AddedEntry
  <2> HIDE DEF c, e, more
  <2>4. \A k \in 3 .. Len(c) : k \in 3 .. Len(more)
    BY <2>3
  <2> DEFINE L == Len(more)
  <2>5. L \in 3 .. L /\ more[L] = e
    BY <2>3
  <2>6. {more[k] : k \in 3 .. L} = {c[k] : k \in 3 .. Len(c)} \cup {e}
    BY <2>3, <2>4, <2>5
  <2> QED BY <1>2, <2>6 DEF Kids, c
<1>7. type = "dir" => Kids(n, ino) = {}
  <2>1. 3 .. Len(dots) = {}
    OBVIOUS
  <2> QED BY <1>2, <2>1 DEF Kids
<1>8. \A t \in TDirs(x) : t # d => Kids(n, t) = Kids(x, t)
  BY <1>2 DEF Kids
<1>9. e.name = name /\ e.ino = ino
  BY DEF Entry
<1> HIDE DEF ino, c, e, more, dots
<1>10. Called(n) = Called(x) \cup {[dir |-> d, name |-> name, ino |-> ino]}
  <2> DEFINE K(m, t) == {[dir |-> t, name |-> f.name, ino |-> f.ino] : f \in Kids(m, t)}
  <2>1. K(n, d) = K(x, d) \cup {[dir |-> d, name |-> name, ino |-> ino]}
    BY <1>6, <1>9
  <2>2. \A t \in TDirs(x) : t # d => K(n, t) = K(x, t)
    BY <1>8
  <2>3. type = "dir" => K(n, ino) = {}
    BY <1>7
  <2>4. Called(n) = UNION {K(n, t) : t \in TDirs(n)} /\ Called(x) = UNION {K(x, t) : t \in TDirs(x)}
    BY DEF Called
  <2> HIDE DEF K
  <2> QED BY <1>2, <2>1, <2>2, <2>3, <2>4
<1>11. LinkedIn(n) = LinkedIn(x) \cup {ino}
  <2> DEFINE K(m) == UNION {Kids(m, t) : t \in TDirs(m)}
  <2>1. K(n) = K(x) \cup {e}
    BY <1>2, <1>6, <1>7, <1>8
  <2>2. LinkedIn(n) = {ROOT} \cup {f.ino : f \in K(n)} /\ LinkedIn(x) = {ROOT} \cup {f.ino : f \in K(x)}
    BY DEF LinkedIn
  <2> HIDE DEF K
  <2> QED BY <1>9, <2>1, <2>2
<1>12. Kinds(n)[ino] = type /\ \A i \in LinkedIn(x) : Kinds(n)[i] = Kinds(x)[i]
  BY <1>1, <1>5, <1>11 DEF Kinds
<1> QED BY <1>1, <1>2, <1>3, <1>4, <1>10, <1>11, <1>12 DEF ino

\* What the users of the tree see is what FileTree speaks of.
Shown == Tree!vars = <<Called(Here), Kinds(Here)>>

\* While the tree is in shape, that is so.
LEMMA TreeShown ==
    ASSUME TreeInv
    PROVE  Shown
<1> DEFINE all == UNION {Children(d) : d \in Dirs}
           names == {[dir |-> x[1], name |-> x[2].name, ino |-> x[2].ino] :
                        x \in {y \in Dirs \X all : y[2] \in Children(y[1])}}
<1>1. /\ Dirs = TDirs(Here) /\ \A d \in Dirs : Children(d) = Kids(Here, d)
      /\ \A i \in Inos : Current(i).type = itable[i].type
  BY TreeSeen DEF Seen
<1>2. names = Called(Here)
  <2> DEFINE Pairs == {y \in Dirs \X all : y[2] \in Children(y[1])}
             Triple(d, e) == [dir |-> d, name |-> e.name, ino |-> e.ino]
  <2>1. \A y \in Pairs : y[1] \in Dirs /\ y[2] \in Children(y[1])
    OBVIOUS
  <2>2. \A d \in Dirs : \A e \in Children(d) : <<d, e>> \in Pairs
    OBVIOUS
  <2>3. names = {Triple(y[1], y[2]) : y \in Pairs}
    OBVIOUS
  <2>4. Called(Here) = UNION {{Triple(d, e) : e \in Children(d)} : d \in Dirs}
    BY <1>1 DEF Called
  <2> HIDE DEF Pairs, Triple, names
  <2>5. names \subseteq Called(Here)
    BY <2>1, <2>3, <2>4
  <2>6. ASSUME NEW d \in Dirs, NEW e \in Children(d) PROVE Triple(d, e) \in names
    <3> DEFINE y == <<d, e>>
    <3>1. y \in Pairs /\ y[1] = d /\ y[2] = e
      BY <2>2
    <3> HIDE DEF y
    <3> QED BY <2>3, <3>1
  <2>7. Called(Here) \subseteq names
    BY <2>4, <2>6
  <2> QED BY <2>5, <2>7
<1>3. Linked = LinkedIn(Here)
  BY <1>1 DEF Linked, LinkedIn
<1>4. LinkedIn(Here) \subseteq Inos
  <2>1. imap \subseteq Inos
    BY HereParts DEF TreeInv, CalmInv, TypeOK
  <2> QED BY <2>1, LinkedAre, HereIs DEF TreeInv
<1>5. [i \in Linked |-> Current(i).type] = Kinds(Here)
  BY <1>1, <1>3, <1>4, HereIs DEF Kinds
<1> HIDE DEF names
<1> QED BY <1>2, <1>5 DEF Shown, Tree!vars, names

\* A step of the program is a step of FileTree, or none.
LEMMA TreeMakes ==
    ASSUME TreeInv, Shown, Shown', [Next]_vars, Growing, Roomy
    PROVE  [Tree!Next]_(Tree!vars)
<1> DEFINE x == Here
           n == Here'
<1>1. Moves(x, n)
  BY TreeStep
<1>2. Shape(x) /\ x.imap \subseteq Inos
  BY HereParts, HereIs DEF TreeInv, CalmInv, TypeOK
<1>3. Tree!vars = <<Called(x), Kinds(x)>> /\ Tree!vars' = <<Called(n), Kinds(n)>>
  BY DEF Shown
<1> HIDE DEF x, n
<1>4. CASE Alike(x, n)
  <2>1. Called(n) = Called(x) /\ Kinds(n) = Kinds(x)
    BY <1>2, <1>4, AlikeCalled
  <2> QED BY <1>3, <2>1
<1>5. ASSUME NEW y \in Machines, Alike(x, y), Shape(y), Room(y), Orphaned(y, n)
      PROVE  Tree!vars' = Tree!vars
  <2>1. Called(y) = Called(x) /\ Kinds(y) = Kinds(x)
    BY <1>2, <1>5, AlikeCalled
  <2>2. Called(n) = Called(y) /\ Kinds(n) = Kinds(y)
    BY <1>5, OrphanCalled DEF Room
  <2> QED BY <1>3, <2>1, <2>2
<1>6. ASSUME NEW y \in Machines, Alike(x, y), Shape(y), Room(y),
             NEW type \in {"dir", "reg"}, NEW d \in TDirs(y), NEW name \in Names,
             Absent(y, d, name), Added(y, n, d, name, type)
      PROVE  Tree!Next
  <2> DEFINE ino == FreeIno(y)
             k == Kinds(x)
             l == Kinds(n)
             c == Called(x)
             a == Called(n)
  <2>1. Called(y) = c /\ Kinds(y) = k
    BY <1>2, <1>6, AlikeCalled
  <2>2. /\ ino \in Inos /\ ino \notin LinkedIn(y)
        /\ d \in LinkedIn(y) /\ k[d] = "dir"
        /\ \A e \in c : e.dir = d => e.name # name
        /\ a = c \cup {[dir |-> d, name |-> name, ino |-> ino]}
        /\ LinkedIn(n) = LinkedIn(y) \cup {ino}
        /\ \A i \in LinkedIn(y) : l[i] = k[i]
        /\ l[ino] = type
    <3>1. FreeIno(y) # 0 /\ FreeBlk(y) # 0
      BY <1>6 DEF Room
    <3> HIDE DEF c, k
    <3> QED BY <1>6, <2>1, <3>1, AddedCalled
  <2>3. /\ DOMAIN k = LinkedIn(y) /\ DOMAIN l = LinkedIn(n)
        /\ k = [i \in DOMAIN k |-> k[i]] /\ l = [i \in DOMAIN l |-> l[i]]
    <3>1. k = Kinds(y)
      BY <2>1
    <3> HIDE DEF k
    <3> QED BY <3>1 DEF Kinds
  <2>4. Tree!vars = <<c, k>> /\ Tree!vars' = <<a, l>>
    BY <1>3
  <2> HIDE DEF ino, k, l, c, a
  <2>5. l = [j \in (DOMAIN k) \cup {ino} |-> IF j = ino THEN type ELSE k[j]]
    BY <2>2, <2>3
  <2>6. Tree!Make(d, name, ino, type)
    BY <2>2, <2>3, <2>4, <2>5 DEF Tree!Make, Tree!vars
  <2> QED BY <1>6, <2>2, <2>3, <2>4, <2>6 DEF Tree!Next, Tree!vars
<1> QED BY <1>1, <1>4, <1>5, <1>6 DEF Moves

\* mkfs makes the tree that FileTree starts with: no names, and /.
LEMMA TreeStarts ==
    ASSUME Init, Roomy
    PROVE  Tree!Init
<1>1. TreeInv
  BY TreeInit
<1>2. Tree!vars = <<Called(Here), Kinds(Here)>>
  BY <1>1, TreeShown DEF Shown
<1>3. TDirs(Here) = {ROOT} /\ Len(Ch(Here, ROOT)) = 2
  <2> DEFINE dots == <<Entry(".", ROOT), Entry("..", ROOT)>>
  <2>1. /\ dir = [b \in Blks \cup {0} |-> IF b = 1 THEN dots ELSE <<>>]
        /\ itable = [i \in Inos |-> IF i = ROOT THEN INODE("dir", 2, 1)
                                    ELSE INODE("none", 0, 0)]
    BY DEF Init
  <2>2. /\ INODE("dir", 2, 1).type = "dir" /\ INODE("dir", 2, 1).block[1] = 1
        /\ INODE("none", 0, 0).type = "none"
    BY Numbering DEF INODE
  <2>3. TDirs(Here) = {ROOT} /\ Here.itable[ROOT].block[1] = 1
    BY <2>1, <2>2, Numbering, HereIs DEF TDirs
  <2>4. Ch(Here, ROOT) = dots
    <3>1. 1 \in Blks
      BY GeometryAssumption DEF Blks
    <3> QED BY <2>1, <2>3, <3>1, HereIs DEF Ch
  <2> QED BY <2>3, <2>4
<1>4. Kids(Here, ROOT) = {}
  BY <1>3 DEF Kids
<1>5. Called(Here) = {} /\ LinkedIn(Here) = {ROOT}
  BY <1>3, <1>4 DEF Called, LinkedIn
<1>6. Here.itable[ROOT].type = "dir"
  BY <1>3 DEF TDirs
<1>7. Kinds(Here) = [i \in {ROOT} |-> "dir"]
  BY <1>5, <1>6 DEF Kinds
<1> QED BY <1>2, <1>5, <1>7 DEF Tree!Init, Tree!vars

\* mkdir and creat implement the tree of names: with the commands of Growing in any order,
\* killed and started again between any two of them, each step makes one name for a new
\* inode in a directory that had none of that name, or leaves the tree as it was.
THEOREM TreeImplemented ==
    ASSUME Growing, Roomy
    PROVE  Spec => ImplementsFileTree
<1>1. Init => Tree!Init
  BY TreeStarts
<1>2. Spec => []TreeInv
  BY TreeKept
<1>3. TreeInv => Shown
  BY TreeShown
<1>4. TreeInv /\ Shown /\ Shown' /\ [Next]_vars => [Tree!Next]_(Tree!vars)
  BY TreeMakes
<1> QED BY <1>1, <1>2, <1>3, <1>4, PTL DEF Spec, ImplementsFileTree, Tree!Spec

-----------------------------------------------------------------------------
(* The link counts.  The session makes and removes names in /, its only    *)
(* directory.  The number i has one current INODE, Cur(m, i): that of the  *)
(* slot which holds it, or that of the disk.  The counts of the slots are  *)
(* at least the references in hand, so that iget() recycles no slot that   *)
(* is needed and iput() writes back what the disk does not have yet.       *)

\* The INODE of a number: the copy in core if there is one.
Cur(m, i) == IF InCore(m.minode, i) = {} THEN m.itable[i]
             ELSE m.minode[FirstOf(InCore(m.minode, i))].INODE

\* An allocated inode whose slot is clean is on the disk.
Synced(m) == \A s \in Slots : Busy(m, s) /\ m.minode[s].ino \in m.imap
                => m.minode[s].dirty \/ m.itable[m.minode[s].ino] = m.minode[s].INODE

\* hold says how many references to each slot are in somebody's hands, two of them to
\* the slot of /.
Hands(m, hold) == /\ hold \in [Slots -> Nat] /\ hold[Root] >= 2
                  /\ \A s \in Slots : m.minode[s].refCount >= hold[s]

\* The table between two routines; iget() ends the program only with no slot unused.
Steady(m, hold) == /\ Hands(m, hold) /\ Once(m) /\ Synced(m)
                   /\ m.minode[Root].ino = ROOT /\ m.cwd = Root
                   /\ m.st = "down" => Unused(m.minode) = {}
Firm(m, hold) == m \in Machines /\ Steady(m, hold)

\* The routines of the table leave the bitmaps, the entries, the current INODEs, and the
\* slots in hand.
Lasts(x, n, hold) ==
    /\ n.imap = x.imap /\ n.bmap = x.bmap /\ n.dir = x.dir
    /\ \A i \in x.imap : Cur(n, i) = Cur(x, i)
    /\ \A s \in Slots : hold[s] > 0 => n.minode[s].ino = x.minode[s].ino

\* The current INODE is that of the slot that holds the number, or that of the disk.
LEMMA CurIs ==
    ASSUME NEW m, NEW i
    PROVE  /\ Once(m) => \A s \in Slots : Holding(m, s, i) => Cur(m, i) = m.minode[s].INODE
           /\ (\A s \in Slots : ~ Holding(m, s, i)) => Cur(m, i) = m.itable[i]
<1>1. ASSUME Once(m), NEW s \in Slots, Holding(m, s, i)
      PROVE  Cur(m, i) = m.minode[s].INODE
  <2>1. InCore(m.minode, i) = {s}
    BY <1>1 DEF InCore, Holding, Busy, Once
  <2>2. FirstOf({s}) \in {s}
    BY FirstIn, Numbering
  <2> QED BY <2>1, <2>2 DEF Cur
<1>2. ASSUME \A s \in Slots : ~ Holding(m, s, i) PROVE Cur(m, i) = m.itable[i]
  <2>1. InCore(m.minode, i) = {}
    BY <1>2 DEF InCore, Holding, Busy
  <2> QED BY <2>1 DEF Cur
<1> QED BY <1>1, <1>2

\* What the parts of a firm machine are.
LEMMA FirmParts ==
    ASSUME NEW m, NEW hold, Firm(m, hold)
    PROVE  /\ m \in Machines /\ hold \in [Slots -> Nat] /\ hold[Root] >= 2
           /\ m.minode \in [Slots -> MINODEs]
           /\ \A s \in Slots : /\ m.minode[s] \in MINODEs /\ hold[s] \in Nat
                               /\ m.minode[s].refCount \in Int
                               /\ m.minode[s].refCount >= hold[s]
                               /\ m.minode[s].ino \in Inos \cup {0}
                               /\ m.minode[s].INODE \in INODEs
           /\ Busy(m, Root) /\ m.minode[Root].ino = ROOT /\ m.cwd = Root
           /\ m.imap \subseteq Inos
           /\ \A s \in Slots : hold[s] > 0 => Busy(m, s)
<1>1. m \in Machines /\ Hands(m, hold) /\ m.minode[Root].ino = ROOT /\ m.cwd = Root
  BY DEF Firm, Steady
<1>2. m.minode \in [Slots -> MINODEs] /\ m.imap \subseteq Inos
  BY <1>1 DEF Machines
<1>3. \A s \in Slots : /\ m.minode[s] \in MINODEs /\ hold[s] \in Nat
                       /\ m.minode[s].refCount \in Int
                       /\ m.minode[s].refCount >= hold[s]
                       /\ m.minode[s].ino \in Inos \cup {0}
                       /\ m.minode[s].INODE \in INODEs
  BY <1>1, <1>2 DEF Hands, MINODEs
<1>4. \A s \in Slots : hold[s] > 0 => Busy(m, s)
  BY <1>3 DEF Busy
<1>5. hold \in [Slots -> Nat] /\ hold[Root] >= 2 /\ Root \in Slots
  BY <1>1, Numbering DEF Hands
<1> QED BY <1>1, <1>2, <1>3, <1>4, <1>5

\* It is what a routine leaves as it was.
LEMMA LastsSelf ==
    ASSUME NEW x, NEW hold
    PROVE  Lasts(x, x, hold)
BY DEF Lasts

\* What two routines leave, they leave one after the other.
LEMMA LastsOn ==
    ASSUME NEW x, NEW y, NEW n, NEW hold, NEW more, Lasts(x, y, hold), Lasts(y, n, more),
           \A s \in Slots : hold[s] > 0 => more[s] > 0
    PROVE  Lasts(x, n, hold)
BY DEF Lasts

\* The program stops, for want of a slot or in a loop or in what is not defined.
LEMMA FirmFail ==
    ASSUME NEW m, NEW hold, Firm(m, hold), NEW how \in {"down", "hung", "undefined"},
           how = "down" => Unused(m.minode) = {}
    PROVE  LET n == Fail(m, how)
           IN  Firm(n, hold) /\ Lasts(m, n, hold) /\ n.st # "up"
<1> DEFINE n == Fail(m, how)
<1>1. /\ n \in Machines /\ n.st # "up"
      /\ n.minode = m.minode /\ n.itable = m.itable /\ n.imap = m.imap
      /\ n.bmap = m.bmap /\ n.cwd = m.cwd /\ n.dir = m.dir
      /\ m.st # "up" => n = m
  BY FailOk DEF Firm
<1>2. n.st = "down" => Unused(n.minode) = {}
  <2>1. CASE m.st # "up"
    BY <1>1, <2>1 DEF Firm, Steady
  <2>2. CASE m.st = "up"
    <3>1. n.st = how
      BY <2>2 DEF Fail, Firm, Machines
    <3> QED BY <1>1, <3>1
  <2> QED BY <2>1, <2>2
<1> HIDE DEF n
<1>3. Steady(m, hold)
  BY DEF Firm
<1>4. Hands(n, hold) /\ Once(n) /\ Synced(n)
  BY <1>1, <1>3 DEF Steady, Hands, Once, Synced, Busy
<1>5. \A i : Cur(n, i) = Cur(m, i)
  BY <1>1 DEF Cur
<1> QED BY <1>1, <1>2, <1>3, <1>4, <1>5 DEF Firm, Steady, Lasts, n

\* A slot loaded with a number that is not in core, or counted once more.
LEMMA FirmIget ==
    ASSUME NEW m, NEW hold, Firm(m, hold), NEW ino \in Inos \cup {0}
    PROVE  LET t == IgetPtr(m, ino)
               n == Iget(m, ino)
           IN  /\ Firm(n, Also(n, hold, t)) /\ Lasts(m, n, hold)
               /\ t \in Slots \cup {NULL} /\ n.st = m.st /\ n.itable = m.itable
               /\ m.st # "up" => n = m
               /\ m.st = "up" /\ t # NULL => n.minode[t].ino = ino
               /\ m.st = "up" /\ t = NULL => Unused(n.minode) = {}
<1> DEFINE t == IgetPtr(m, ino)
           n == Iget(m, ino)
<1>0. t \in Slots \cup {NULL}
  BY IgetSlotCases DEF IgetPtr, InCore, Unused
<1>1. CASE m.st # "up"
  <2>1. n = m /\ Also(n, hold, t) = hold
    BY <1>1 DEF Iget, Also
  <2> QED BY <1>0, <1>1, <2>1, LastsSelf
<1>2. CASE m.st = "up"
  <2>1. /\ m \in Machines /\ m.minode \in [Slots -> MINODEs]
        /\ m.itable \in [Inos \cup {0} -> INODEs] /\ m.itable[ino] \in INODEs
        /\ \A s \in Slots : m.minode[s].refCount >= hold[s] /\ hold[s] \in Nat
                            /\ m.minode[s].refCount \in Int
        /\ hold \in [Slots -> Nat] /\ hold[Root] >= 2 /\ m.imap \subseteq Inos
        /\ Busy(m, Root) /\ m.minode[Root].ino = ROOT /\ m.cwd = Root
    <3>1. m \in Machines
      BY DEF Firm
    <3>2. m.itable \in [Inos \cup {0} -> INODEs]
      BY <3>1 DEF Machines
    <3> QED BY <3>1, <3>2, FirmParts
  <2>2. /\ n.minode = IgetTable(m.minode, m.itable, ino)
        /\ n.itable = m.itable /\ n.imap = m.imap /\ n.bmap = m.bmap
        /\ n.cwd = m.cwd /\ n.st = m.st /\ n.dir = m.dir
        /\ \A r \in Slots : Busy(m, r) => /\ n.minode[r].ino = m.minode[r].ino
                                          /\ n.minode[r].INODE = m.minode[r].INODE
    BY <1>2, <2>1, IgetKeeps
  <2>3. /\ n.minode \in [Slots -> MINODEs]
        /\ t = NULL => n.minode = m.minode
        /\ \A r \in Slots : r # t => n.minode[r] = m.minode[r]
        /\ t # NULL =>
             /\ n.minode[t].ino = ino
             /\ n.minode[t].dirty = m.minode[t].dirty
             /\ \/ /\ m.minode[t].refCount # 0 /\ m.minode[t].ino = ino
                   /\ n.minode[t].refCount = m.minode[t].refCount + 1
                   /\ n.minode[t].INODE = m.minode[t].INODE
                \/ /\ \A r \in Slots : ~ (m.minode[r].refCount # 0 /\ m.minode[r].ino = ino)
                   /\ m.minode[t].refCount = 0
                   /\ n.minode[t].refCount = 1
                   /\ n.minode[t].INODE = m.itable[ino]
    BY <2>1, <2>2, IgetTableEffect DEF IgetPtr
  <2>4. n \in Machines
    <3>1. n = [m EXCEPT !.minode = n.minode]
      BY <1>2, <2>1, <2>2 DEF Iget, Machines
    <3> DEFINE z == n.minode
    <3> HIDE DEF n, z
    <3>2. z \in [Slots -> MINODEs] /\ n = [m EXCEPT !.minode = z]
      BY <2>3, <3>1 DEF z
    <3> QED BY <2>1, <3>2 DEF Machines
  <2>5. t = NULL => Unused(m.minode) = {}
    <3>1. /\ InCore(m.minode, ino) \subseteq Nat /\ Unused(m.minode) \subseteq Nat
          /\ InCore(m.minode, ino) \subseteq Slots /\ Unused(m.minode) \subseteq Slots
      BY Numbering DEF InCore, Unused
    <3>2. /\ InCore(m.minode, ino) # {} => FirstOf(InCore(m.minode, ino)) \in Slots
          /\ Unused(m.minode) # {} => FirstOf(Unused(m.minode)) \in Slots
      BY <3>1, FirstIn
    <3> QED BY <3>2, Numbering DEF IgetPtr, IgetSlot
  <2> HIDE DEF n, t
  <2>6. /\ Also(n, hold, t) \in [Slots -> Nat]
        /\ \A s \in Slots : Also(n, hold, t)[s] = IF s = t THEN hold[s] + 1 ELSE hold[s]
    <3>1. t \in Slots => /\ Plus(hold, t) \in [Slots -> Nat]
                         /\ \A r \in Slots : Plus(hold, t)[r] = IF r = t THEN hold[r] + 1 ELSE hold[r]
      BY <2>1, PlusMore
    <3> QED BY <1>0, <1>2, <2>1, <2>2, <3>1, Numbering DEF Also
  <2>16. \A s \in Slots : n.minode[s].refCount =
                             IF s = t THEN m.minode[s].refCount + 1 ELSE m.minode[s].refCount
    <3>1. t \in Slots => n.minode[t].refCount = m.minode[t].refCount + 1
      BY <2>3, Numbering
    <3> QED BY <2>3, <3>1
  <2>7. \A s \in Slots : Busy(n, s) <=> (Busy(m, s) \/ s = t)
    BY <2>1, <2>16 DEF Busy
  <2>8. Hands(n, Also(n, hold, t))
    <3>1. \A s \in Slots : n.minode[s].refCount >= Also(n, hold, t)[s]
      BY <2>1, <2>6, <2>16
    <3>2. Also(n, hold, t)[Root] >= 2
      BY <2>1, <2>6, Numbering
    <3> QED BY <2>6, <3>1, <3>2 DEF Hands
  <2>9. Once(n)
    <3>1. Once(m)
      BY DEF Firm, Steady
    <3> QED BY <1>0, <2>3, <2>7, <3>1 DEF Once, Busy
  <2>10. Synced(n)
    <3>1. Synced(m)
      BY DEF Firm, Steady
    <3> QED BY <1>0, <2>2, <2>3, <2>7, <3>1 DEF Synced, Busy
  <2>11. n.minode[Root].ino = ROOT /\ n.cwd = Root
    BY <2>1, <2>2, Numbering
  <2>12. Firm(n, Also(n, hold, t))
    BY <1>2, <2>2, <2>4, <2>8, <2>9, <2>10, <2>11 DEF Firm, Steady
  <2>13. ASSUME NEW i \in m.imap PROVE Cur(n, i) = Cur(m, i)
    <3>1. Once(m)
      BY DEF Firm, Steady
    <3>2. CASE \E s \in Slots : Holding(m, s, i)
      <4>1. PICK s \in Slots : Holding(m, s, i)
        BY <3>2
      <4>2. Holding(n, s, i) /\ n.minode[s].INODE = m.minode[s].INODE
        BY <2>2, <2>7, <4>1 DEF Holding
      <4> QED BY <2>9, <3>1, <4>1, <4>2, CurIs
    <3>3. CASE ~ \E s \in Slots : Holding(m, s, i)
      <4>1. Cur(m, i) = m.itable[i]
        BY <3>3, CurIs
      <4>2. CASE t # NULL /\ ino = i
        <5>1. t \in Slots /\ Holding(n, t, i) /\ n.minode[t].INODE = m.itable[i]
          BY <1>0, <2>3, <2>7, <3>3, <4>2 DEF Holding, Busy
        <5> QED BY <2>9, <4>1, <5>1, CurIs
      <4>3. CASE t = NULL \/ ino # i
        <5>1. \A s \in Slots : ~ Holding(n, s, i)
          BY <1>0, <2>3, <2>7, <3>3, <4>3, Numbering DEF Holding
        <5> QED BY <2>2, <4>1, <5>1, CurIs
      <4> QED BY <4>2, <4>3
    <3> QED BY <3>2, <3>3
  <2>14. \A s \in Slots : hold[s] > 0 => n.minode[s].ino = m.minode[s].ino
    BY <2>2, FirmParts
  <2>15. Lasts(m, n, hold)
    BY <2>2, <2>13, <2>14 DEF Lasts
  <2> QED BY <1>0, <1>2, <2>2, <2>3, <2>5, <2>12, <2>15 DEF n, t
<1> QED BY <1>1, <1>2

\* Fewer references in hand.
LEMMA FirmFewer ==
    ASSUME NEW m, NEW more, NEW hold \in [Slots -> Nat], Firm(m, more), hold[Root] >= 2,
           AtMost(hold, more)
    PROVE  Firm(m, hold)
<1>1. \A s \in Slots : m.minode[s].refCount >= more[s] /\ more[s] \in Nat
                       /\ m.minode[s].refCount \in Int
  BY FirmParts
<1>2. \A s \in Slots : m.minode[s].refCount >= hold[s]
  BY <1>1 DEF AtMost
<1> QED BY <1>2 DEF Firm, Steady, Hands

\* A reference given back: the last one writes what the disk does not have.
LEMMA FirmIput ==
    ASSUME NEW m, NEW hold \in [Slots -> Nat], hold[Root] >= 2, NEW s \in Slots \cup {NULL},
           Firm(m, Also(m, hold, s))
    PROVE  LET n == Iput(m, s)
           IN  /\ Firm(n, hold) /\ Lasts(m, n, hold)
               /\ m.st # "up" => n = m
               /\ n.st \in {m.st, "undefined"}
<1> DEFINE n == Iput(m, s)
<1>1. CASE m.st # "up" \/ s = NULL
  <2>1. n = m /\ Also(m, hold, s) = hold
    BY <1>1 DEF Iput, Also
  <2> QED BY <1>1, <2>1, LastsSelf
<1>2. CASE m.st = "up" /\ s # NULL
  <2>1. s \in Slots /\ Also(m, hold, s) = Plus(hold, s)
    BY <1>2 DEF Also
  <2>2. /\ Plus(hold, s) \in [Slots -> Nat]
        /\ \A r \in Slots : Plus(hold, s)[r] = IF r = s THEN hold[r] + 1 ELSE hold[r]
        /\ AtMost(hold, Plus(hold, s))
    BY <2>1, PlusMore
  <2>3. Firm(m, hold)
    BY <2>1, <2>2, FirmFewer
  <2>4. CASE WritesBack(m.minode, s) /\ m.minode[s].ino = 0
    <3>1. n = Fail(m, "undefined")
      BY <1>2, <2>4 DEF Iput
    <3>2. n.st = "undefined"
      <4>1. m \in Machines
        BY <2>3 DEF Firm
      <4> QED BY <1>2, <3>1, <4>1 DEF Fail, Machines
    <3> QED BY <1>2, <2>3, <3>1, <3>2, FirmFail
  <2>5. CASE ~ (WritesBack(m.minode, s) /\ m.minode[s].ino = 0)
    <3>1. /\ m \in Machines
          /\ \A r \in Slots : /\ m.minode[r].refCount \in Int /\ m.minode[r].refCount >= hold[r]
                              /\ hold[r] \in Nat /\ m.minode[r].ino \in Inos \cup {0}
          /\ m.minode[s].refCount >= hold[s] + 1
          /\ m.minode[Root].ino = ROOT /\ m.cwd = Root /\ m.imap \subseteq Inos
          /\ Once(m) /\ Synced(m)
      <4>1. Firm(m, Plus(hold, s))
        BY <2>1
      <4>2. m.minode[s].refCount >= Plus(hold, s)[s]
        BY <2>1, <4>1, FirmParts
      <4>3. Once(m) /\ Synced(m)
        BY <2>3 DEF Firm, Steady
      <4> QED BY <2>1, <2>2, <2>3, <4>2, <4>3, FirmParts
    <3>2. m.itable \in [Inos \cup {0} -> INODEs]
      BY <3>1 DEF Machines
    <3>3. /\ n \in Machines
          /\ n.imap = m.imap /\ n.bmap = m.bmap /\ n.cwd = m.cwd /\ n.st = m.st
          /\ n.dir = m.dir
          /\ \A r \in Slots : /\ n.minode[r].ino = m.minode[r].ino
                              /\ n.minode[r].INODE = m.minode[r].INODE
                              /\ n.minode[r].dirty = m.minode[r].dirty
                              /\ r # s => n.minode[r] = m.minode[r]
          /\ \/ /\ WritesBack(m.minode, s)
                /\ m.minode[s].refCount <= 1 /\ n.minode[s].refCount = 0
                /\ m.minode[s].ino \in Inos
                /\ n.itable = [m.itable EXCEPT ![m.minode[s].ino] = m.minode[s].INODE]
             \/ /\ ~ WritesBack(m.minode, s)
                /\ n.minode[s].refCount = m.minode[s].refCount - 1
                /\ n.itable = m.itable
      <4>1. \A r \in Slots : n.minode[r].dirty = m.minode[r].dirty
        <5>1. n.minode = IputTable(m.minode, s)
          BY <1>2, <2>5, <3>1 DEF Iput, Machines
        <5>2. m.minode \in [Slots -> MINODEs]
          BY <3>1 DEF Machines
        <5> HIDE DEF n
        <5> QED BY <2>1, <5>1, <5>2 DEF IputTable, MINODEs
      <4> HIDE DEF n
      <4> QED BY <1>2, <2>1, <2>5, <3>1, <4>1, IputEffect DEF n
    <3> HIDE DEF n
    <3>4. \A r \in Slots : n.minode[r].refCount >= hold[r]
      BY <2>1, <3>1, <3>3
    <3>5. \A r \in Slots : Busy(n, r) => Busy(m, r)
      BY <2>1, <3>1, <3>3 DEF Busy
    <3>6. Once(n)
      BY <3>1, <3>3, <3>5 DEF Once
    <3>7. \A r \in Slots : Busy(n, r) => n.itable[n.minode[r].ino] = m.itable[m.minode[r].ino]
                                         \/ n.itable[n.minode[r].ino] = n.minode[r].INODE
      <4> SUFFICES ASSUME NEW r \in Slots, Busy(n, r), n.itable # m.itable
                   PROVE  n.itable[n.minode[r].ino] = m.itable[m.minode[r].ino]
        BY <3>3
      <4>1. r # s /\ Busy(m, r) /\ Busy(m, s)
        BY <2>1, <3>1, <3>3, <3>5 DEF Busy
      <4>2. m.minode[r].ino # m.minode[s].ino
        BY <2>1, <3>1, <4>1 DEF Once
      <4> QED BY <3>1, <3>2, <3>3, <4>2
    <3>8. Synced(n)
      BY <3>1, <3>3, <3>5, <3>7 DEF Synced
    <3>9. Firm(n, hold)
      BY <1>2, <3>1, <3>3, <3>4, <3>6, <3>8, Numbering DEF Firm, Steady, Hands
    <3>10. ASSUME NEW i \in m.imap PROVE Cur(n, i) = Cur(m, i)
      <4>0. i \in Inos
        BY <3>1
      <4>1. CASE \E r \in Slots : Holding(n, r, i)
        <5>1. PICK r \in Slots : Holding(n, r, i)
          BY <4>1
        <5>2. Holding(m, r, i)
          BY <3>3, <3>5, <5>1 DEF Holding
        <5> QED BY <3>1, <3>3, <3>6, <5>1, <5>2, CurIs
      <4>2. CASE ~ (\E r \in Slots : Holding(n, r, i)) /\ m.minode[s].ino = i
        <5>1. Busy(m, s) /\ Holding(m, s, i)
          BY <2>1, <3>1, <4>2 DEF Holding, Busy
        <5>2. Cur(m, i) = m.minode[s].INODE /\ Cur(n, i) = n.itable[i]
          BY <2>1, <3>1, <4>2, <5>1, CurIs
        <5>3. ~ Busy(n, s)
          BY <2>1, <3>3, <4>2 DEF Holding
        <5>4. CASE WritesBack(m.minode, s)
          BY <2>1, <3>2, <3>3, <4>0, <4>2, <5>2, <5>4
        <5>5. CASE ~ WritesBack(m.minode, s)
          <6>1. m.minode[s].refCount = 1
            BY <2>1, <3>1, <3>3, <5>3, <5>5 DEF Busy
          <6>2. ~ m.minode[s].dirty
            BY <5>5, <6>1 DEF WritesBack
          <6> QED BY <2>1, <3>1, <3>3, <4>2, <5>1, <5>2, <5>5, <6>2 DEF Synced
        <5> QED BY <5>4, <5>5
      <4>3. CASE ~ (\E r \in Slots : Holding(n, r, i)) /\ m.minode[s].ino # i
        <5>1. \A r \in Slots : ~ Holding(m, r, i)
          BY <2>1, <3>3, <4>3 DEF Holding, Busy
        <5>2. Cur(m, i) = m.itable[i] /\ Cur(n, i) = n.itable[i]
          BY <4>3, <5>1, CurIs
        <5> QED BY <3>2, <3>3, <4>0, <4>3, <5>2
      <4> QED BY <4>1, <4>2, <4>3
    <3> QED BY <1>2, <3>3, <3>9, <3>10 DEF Lasts, n
  <2> QED BY <2>4, <2>5
<1> QED BY <1>1, <1>2

\* "running->cwd->refCount++", of the slot of /.
LEMMA FirmCount ==
    ASSUME NEW m, NEW hold, Firm(m, hold)
    PROVE  LET n == [m EXCEPT !.minode[Root].refCount = @ + 1]
           IN  /\ Firm(n, Plus(hold, Root)) /\ Lasts(m, n, hold) /\ n.st = m.st
<1> DEFINE n == [m EXCEPT !.minode[Root].refCount = @ + 1]
           v == m.minode[Root].refCount + 1
<1>1. /\ m \in Machines /\ m.minode[Root].refCount \in Int
      /\ \A r \in Slots : /\ m.minode[r].refCount \in Int /\ m.minode[r].refCount >= hold[r]
                          /\ hold[r] \in Nat
      /\ hold \in [Slots -> Nat] /\ hold[Root] >= 2 /\ Root \in Slots
      /\ m.minode[Root].ino = ROOT /\ m.cwd = Root
      /\ Once(m) /\ Synced(m) /\ Busy(m, Root)
  <2>1. Once(m) /\ Synced(m)
    BY DEF Firm, Steady
  <2> QED BY <2>1, FirmParts, Numbering
<1>2. v \in Int /\ n = [m EXCEPT !.minode[Root].refCount = v]
  BY <1>1
<1> HIDE DEF v, n
<1>3. /\ Reads(m, n) /\ n.st = m.st /\ n.itable = m.itable /\ n.cwd = m.cwd
      /\ n.minode[Root].refCount = v /\ n.minode[Root].dirty = m.minode[Root].dirty
      /\ n.minode[Root].ino = m.minode[Root].ino /\ n.minode[Root].INODE = m.minode[Root].INODE
      /\ \A r \in Slots : r # Root => n.minode[r] = m.minode[r]
  BY <1>1, <1>2, ReadsCount
<1>4. n \in Machines /\ n.imap = m.imap /\ n.bmap = m.bmap /\ n.dir = m.dir
  BY <1>3 DEF Reads
<1>5. /\ Plus(hold, Root) \in [Slots -> Nat]
      /\ \A r \in Slots : Plus(hold, Root)[r] = IF r = Root THEN hold[r] + 1 ELSE hold[r]
  BY <1>1, PlusMore
<1>6. \A r \in Slots : Busy(n, r) <=> Busy(m, r)
  BY <1>1, <1>3 DEF Busy, v
<1>7. Hands(n, Plus(hold, Root))
  <2>1. \A r \in Slots : n.minode[r].refCount >= Plus(hold, Root)[r]
    BY <1>1, <1>3, <1>5 DEF v
  <2> QED BY <1>1, <1>5, <2>1 DEF Hands
<1>8. Once(n) /\ Synced(n)
  BY <1>1, <1>3, <1>4, <1>6 DEF Once, Synced
<1>9. n.st = "down" => Unused(n.minode) = {}
  BY <1>3, <1>6 DEF Firm, Steady, Unused, Busy
<1>10. \A i : Cur(n, i) = Cur(m, i)
  <2> SUFFICES ASSUME NEW i PROVE Cur(n, i) = Cur(m, i)
    OBVIOUS
  <2>1. \A r \in Slots : Holding(n, r, i) <=> Holding(m, r, i)
    BY <1>3, <1>6 DEF Holding
  <2>2. CASE \E r \in Slots : Holding(m, r, i)
    <3>1. PICK r \in Slots : Holding(m, r, i)
      BY <2>2
    <3> QED BY <1>1, <1>3, <1>8, <2>1, <3>1, CurIs
  <2>3. CASE ~ \E r \in Slots : Holding(m, r, i)
    <3>1. Cur(m, i) = m.itable[i] /\ Cur(n, i) = n.itable[i]
      BY <2>1, <2>3, CurIs
    <3> QED BY <1>3, <3>1
  <2> QED BY <2>2, <2>3
<1>11. \A r \in Slots : n.minode[r].ino = m.minode[r].ino
  BY <1>3
<1> QED BY <1>1, <1>3, <1>4, <1>7, <1>8, <1>9, <1>10, <1>11 DEF Firm, Steady, Lasts, n

\* A slot in use is written and marked dirty, or its number given up: of the current
\* INODEs, that of its number alone is another.
LEMMA FirmWrite ==
    ASSUME NEW m, NEW hold, Firm(m, hold), NEW s \in Slots, Busy(m, s), NEW n \in Machines,
           n.itable = m.itable, n.cwd = m.cwd, n.st # "down",
           \A r \in Slots : r # s => n.minode[r] = m.minode[r],
           n.minode[s].ino = m.minode[s].ino, n.minode[s].refCount = m.minode[s].refCount,
           n.imap \subseteq m.imap \cup {m.minode[s].ino},
           m.minode[s].ino \in n.imap => n.minode[s].dirty
    PROVE  /\ Firm(n, hold)
           /\ Cur(n, m.minode[s].ino) = n.minode[s].INODE
           /\ \A i : i # m.minode[s].ino => Cur(n, i) = Cur(m, i)
<1>1. /\ hold \in [Slots -> Nat] /\ hold[Root] >= 2 /\ Root \in Slots
      /\ \A r \in Slots : m.minode[r].refCount >= hold[r]
      /\ m.minode[Root].ino = ROOT /\ m.cwd = Root
  BY FirmParts, Numbering
<1>2. Once(m) /\ Synced(m)
  BY DEF Firm, Steady
<1>3. \A r \in Slots : /\ n.minode[r].ino = m.minode[r].ino
                       /\ n.minode[r].refCount = m.minode[r].refCount
                       /\ Busy(n, r) <=> Busy(m, r)
  BY DEF Busy
<1>4. Once(n) /\ Hands(n, hold)
  BY <1>1, <1>2, <1>3 DEF Once, Hands
<1>5. Synced(n)
  <2> SUFFICES ASSUME NEW r \in Slots, Busy(n, r), n.minode[r].ino \in n.imap, r # s
               PROVE  n.minode[r].dirty \/ n.itable[n.minode[r].ino] = n.minode[r].INODE
    BY DEF Synced
  <2>1. m.minode[r].ino \in m.imap
    BY <1>2, <1>3 DEF Once
  <2> QED BY <1>2, <1>3, <2>1 DEF Synced
<1>6. Firm(n, hold)
  BY <1>1, <1>3, <1>4, <1>5 DEF Firm, Steady
<1>7. Cur(n, m.minode[s].ino) = n.minode[s].INODE
  <2>1. Holding(n, s, m.minode[s].ino)
    BY <1>3 DEF Holding
  <2> QED BY <1>4, <2>1, CurIs
<1>8. ASSUME NEW i, i # m.minode[s].ino PROVE Cur(n, i) = Cur(m, i)
  <2>1. \A r \in Slots : Holding(n, r, i) <=> Holding(m, r, i)
    BY <1>3 DEF Holding
  <2>2. CASE \E r \in Slots : Holding(m, r, i)
    <3>1. PICK r \in Slots : Holding(m, r, i)
      BY <2>2
    <3>2. r # s
      BY <1>8, <3>1 DEF Holding
    <3> QED BY <1>2, <1>4, <2>1, <3>1, <3>2, CurIs
  <2>3. CASE ~ \E r \in Slots : Holding(m, r, i)
    <3>1. Cur(m, i) = m.itable[i] /\ Cur(n, i) = n.itable[i]
      BY <2>1, <2>3, CurIs
    <3> QED BY <3>1
  <2> QED BY <2>2, <2>3
<1> QED BY <1>6, <1>7, <1>8

\* The write of a handler.
LEMMA FirmStore ==
    ASSUME NEW m, NEW hold, Firm(m, hold), m.st = "up", NEW s \in Slots, Busy(m, s),
           NEW inode \in INODEs
    PROVE  LET n == Store(m, s, inode)
           IN  /\ Firm(n, hold) /\ n.st = "up"
               /\ n.imap = m.imap /\ n.bmap = m.bmap /\ n.dir = m.dir
               /\ \A r \in Slots : n.minode[r].ino = m.minode[r].ino
               /\ Cur(n, m.minode[s].ino) = inode
               /\ \A i : i # m.minode[s].ino => Cur(n, i) = Cur(m, i)
<1> DEFINE n == Store(m, s, inode)
<1>1. /\ n \in Machines
      /\ n.itable = m.itable /\ n.imap = m.imap /\ n.bmap = m.bmap
      /\ n.cwd = m.cwd /\ n.st = m.st /\ n.dir = m.dir
      /\ \A r \in Slots : /\ n.minode[r].ino = m.minode[r].ino
                          /\ n.minode[r].refCount = m.minode[r].refCount
                          /\ r # s => n.minode[r] = m.minode[r]
      /\ n.minode[s].INODE = inode /\ n.minode[s].dirty
  BY StoreEffect DEF Firm
<1> HIDE DEF n
<1> QED BY <1>1, FirmWrite DEF n

\* kcreat(): the count is set to 0 whoever else counts the slot, and iput() writes it.
LEMMA FirmForced ==
    ASSUME NEW m, NEW hold, Firm(m, hold), m.st = "up", NEW s \in Slots, Busy(m, s),
           hold[s] = 0, m.minode[s].dirty, m.minode[s].ino \in Inos
    PROVE  LET n == Iput([m EXCEPT !.minode[s].refCount = 0], s)
           IN  /\ Firm(n, hold) /\ n.st = "up"
               /\ Lasts(m, n, hold)
<1> DEFINE y == [m EXCEPT !.minode[s].refCount = 0]
           n == Iput(y, s)
           i == m.minode[s].ino
<1>1. /\ m \in Machines /\ hold \in [Slots -> Nat] /\ hold[Root] >= 2 /\ Root \in Slots
      /\ \A r \in Slots : m.minode[r].refCount >= hold[r] /\ hold[r] \in Nat
      /\ m.minode[Root].ino = ROOT /\ m.cwd = Root /\ m.imap \subseteq Inos
  BY FirmParts, Numbering
<1>2. Once(m) /\ Synced(m)
  BY DEF Firm, Steady
<1>0. PICK v \in Int : v = 0
  OBVIOUS
<1>20. y = [m EXCEPT !.minode[s].refCount = v]
  BY <1>0
<1> HIDE DEF y, n
<1>15. /\ Reads(m, y) /\ y.st = m.st /\ y.itable = m.itable /\ y.cwd = m.cwd
       /\ y.minode[s].refCount = v /\ y.minode[s].dirty = m.minode[s].dirty
       /\ y.minode[s].ino = m.minode[s].ino /\ y.minode[s].INODE = m.minode[s].INODE
       /\ \A r \in Slots : r # s => y.minode[r] = m.minode[r]
  <2>1. m \in Machines
    BY <1>1
  <2>2. LET z == [m EXCEPT !.minode[s].refCount = v]
        IN  /\ Reads(m, z) /\ z.st = m.st /\ z.itable = m.itable /\ z.cwd = m.cwd
            /\ z.minode[s].refCount = v /\ z.minode[s].dirty = m.minode[s].dirty
            /\ z.minode[s].ino = m.minode[s].ino /\ z.minode[s].INODE = m.minode[s].INODE
            /\ \A r \in Slots : r # s => z.minode[r] = m.minode[r]
    BY ONLY <2>1, v \in Int, s \in Slots, ReadsCount
  <2> QED BY <1>20, <2>2
<1>3. /\ Reads(m, y) /\ y.st = m.st /\ y.itable = m.itable /\ y.cwd = m.cwd
      /\ y.minode[s].refCount = 0 /\ y.minode[s].dirty = m.minode[s].dirty
      /\ y.minode[s].ino = m.minode[s].ino /\ y.minode[s].INODE = m.minode[s].INODE
      /\ \A r \in Slots : r # s => y.minode[r] = m.minode[r]
  BY <1>0, <1>15
<1>4. y \in Machines /\ y.imap = m.imap /\ y.bmap = m.bmap /\ y.dir = m.dir
  BY <1>3 DEF Reads
<1>5. WritesBack(y.minode, s) /\ ~ (y.minode[s].ino = 0)
  BY <1>3, Numbering DEF WritesBack
<1>6. /\ n \in Machines
      /\ n.imap = m.imap /\ n.bmap = m.bmap /\ n.cwd = m.cwd /\ n.st = m.st
      /\ n.dir = m.dir
      /\ \A r \in Slots : /\ n.minode[r].ino = m.minode[r].ino
                          /\ n.minode[r].INODE = m.minode[r].INODE
                          /\ r # s => n.minode[r] = m.minode[r]
      /\ n.minode[s].refCount = 0
      /\ n.itable = [m.itable EXCEPT ![i] = m.minode[s].INODE]
  BY <1>3, <1>4, <1>5, IputEffect DEF n
<1>7. s # Root /\ hold[s] = 0
  BY <1>1
<1>8. \A r \in Slots : Busy(n, r) <=> (Busy(m, r) /\ r # s)
  BY <1>6 DEF Busy
<1>9. Once(n)
  BY <1>2, <1>6, <1>8 DEF Once
<1>10. Hands(n, hold)
  <2>1. \A r \in Slots : n.minode[r].refCount >= hold[r]
    BY <1>1, <1>6, <1>7
  <2> QED BY <1>1, <2>1 DEF Hands
<1>11. m.itable \in [Inos \cup {0} -> INODEs]
  BY <1>1 DEF Machines
<1>12. Synced(n)
  <2> SUFFICES ASSUME NEW r \in Slots, Busy(n, r), n.minode[r].ino \in n.imap
               PROVE  n.minode[r].dirty \/ n.itable[n.minode[r].ino] = n.minode[r].INODE
    BY DEF Synced
  <2>1. r # s /\ Busy(m, r) /\ n.minode[r] = m.minode[r]
    BY <1>6, <1>8
  <2>2. m.minode[r].ino # i /\ m.minode[r].ino \in m.imap
    BY <1>2, <1>6, <2>1 DEF Once
  <2>3. n.itable[m.minode[r].ino] = m.itable[m.minode[r].ino]
    BY <1>1, <1>6, <1>11, <2>2
  <2> QED BY <1>2, <2>1, <2>2, <2>3 DEF Synced
<1>13. Firm(n, hold)
  BY <1>1, <1>6, <1>7, <1>9, <1>10, <1>12 DEF Firm, Steady
<1>14. ASSUME NEW j \in m.imap PROVE Cur(n, j) = Cur(m, j)
  <2>0. j \in Inos
    BY <1>1
  <2>1. CASE j = i
    <3>1. Holding(m, s, j)
      BY <2>1 DEF Holding
    <3>2. \A r \in Slots : ~ Holding(n, r, j)
      BY <1>2, <1>6, <1>8, <2>1 DEF Holding, Once
    <3>3. Cur(m, j) = m.minode[s].INODE /\ Cur(n, j) = n.itable[j]
      BY <1>2, <3>1, <3>2, CurIs
    <3> QED BY <1>6, <1>11, <2>0, <2>1, <3>3
  <2>2. CASE j # i
    <3>1. \A r \in Slots : Holding(n, r, j) <=> Holding(m, r, j)
      BY <1>6, <1>8, <2>2 DEF Holding
    <3>2. CASE \E r \in Slots : Holding(m, r, j)
      <4>1. PICK r \in Slots : Holding(m, r, j)
        BY <3>2
      <4> QED BY <1>2, <1>6, <1>9, <3>1, <4>1, CurIs
    <3>3. CASE ~ \E r \in Slots : Holding(m, r, j)
      <4>1. Cur(m, j) = m.itable[j] /\ Cur(n, j) = n.itable[j]
        BY <3>1, <3>3, CurIs
      <4> QED BY <1>6, <1>11, <2>0, <2>2, <4>1
    <3> QED BY <3>2, <3>3
  <2> QED BY <2>1, <2>2
<1> QED BY <1>6, <1>13, <1>14 DEF Lasts, n, y

-----------------------------------------------------------------------------
(* The world of this session: /, in block 1, whose entries behind "." and  *)
(* ".." name files or nothing, and the files, each with as many links as   *)
(* there are places in / that hold its number.                             *)

\* The entries of /, and the places behind its dots that hold a number.
Slash(m) == m.dir[1]
Pos(chain, i) == {k \in 3 .. Len(chain) : chain[k].ino = i}

Ground(m) ==
    /\ ROOT \in m.imap /\ 1 \in m.bmap
    /\ Cur(m, ROOT).type = "dir"
    /\ \A k \in 1 .. NDIRECT : Cur(m, ROOT).block[k] = IF k = 1 THEN 1 ELSE 0
    /\ \A i \in m.imap \ {ROOT} : /\ Cur(m, i).type \in {"none", "reg"}
                                  /\ \A k \in 1 .. NDIRECT : Cur(m, i).block[k] # 1
    /\ \A b \in (Blks \cup {0}) \ {1} : m.dir[b] = <<>>
NamesFile(m, e) == /\ e.name \in Names /\ e.ino # ROOT
                   /\ e.ino # 0 => e.ino \in m.imap /\ Cur(m, e.ino).type = "reg"
Listing(m) ==
    /\ Len(Slash(m)) >= 2
    /\ Slash(m)[1] = Entry(".", ROOT) /\ Slash(m)[2] = Entry("..", ROOT)
    /\ \A k \in 3 .. Len(Slash(m)) : NamesFile(m, Slash(m)[k])
Counts(m) == \A i \in m.imap : Cur(m, i).type = "reg"
                                  => Cur(m, i).links = Cardinality(Pos(Slash(m), i))
World(m) == Ground(m) /\ Listing(m) /\ Counts(m)

\* The places of a number are finitely many, fewer than the entries.
LEMMA PosFinite ==
    ASSUME NEW chain \in Chains, NEW i
    PROVE  /\ IsFiniteSet(Pos(chain, i)) /\ Cardinality(Pos(chain, i)) \in Nat
           /\ Len(chain) >= 2 => Cardinality(Pos(chain, i)) <= Len(chain) - 2
<1>1. Len(chain) \in Nat
  BY ChainParts
<1>2. IsFiniteSet(3 .. Len(chain))
  BY <1>1, FS_Interval
<1>3. Pos(chain, i) \subseteq 3 .. Len(chain)
  BY DEF Pos
<1>4. /\ IsFiniteSet(Pos(chain, i))
      /\ Cardinality(Pos(chain, i)) <= Cardinality(3 .. Len(chain))
  BY <1>2, <1>3, FS_Subset
<1>5. Cardinality(Pos(chain, i)) \in Nat
  BY <1>4, FS_CardinalityType
<1>6. ASSUME Len(chain) >= 2 PROVE Cardinality(3 .. Len(chain)) = Len(chain) - 2
  BY <1>1, <1>6, FS_Interval
<1> QED BY <1>4, <1>5, <1>6

\* An entry at the end is one more place of its number.
LEMMA PosAppend ==
    ASSUME NEW chain \in Chains, Len(chain) >= 2, NEW e, NEW i
    PROVE  Cardinality(Pos(Append(chain, e), i))
              = Cardinality(Pos(chain, i)) + (IF e.ino = i THEN 1 ELSE 0)
<1> DEFINE more == Append(chain, e)
<1>1. /\ Len(chain) \in Nat /\ Len(more) = Len(chain) + 1
      /\ \A k \in 3 .. Len(chain) : more[k] = chain[k]
      /\ more[Len(more)] = e /\ Len(more) \in 3 .. Len(more)
      /\ \A k \in 3 .. Len(more) : k \in 3 .. Len(chain) \/ k = Len(more)
  BY AddedEntry
<1>2. /\ IsFiniteSet(Pos(chain, i)) /\ Cardinality(Pos(chain, i)) \in Nat
  BY PosFinite
<1> HIDE DEF more
<1>3. CASE e.ino = i
  <2>1. Pos(more, i) = Pos(chain, i) \cup {Len(more)}
    BY <1>1, <1>3 DEF Pos
  <2>2. Len(more) \notin Pos(chain, i)
    BY <1>1 DEF Pos
  <2>3. Cardinality(Pos(chain, i) \cup {Len(more)}) = Cardinality(Pos(chain, i)) + 1
    BY <1>2, <2>2, FS_AddElement
  <2> QED BY <1>3, <2>1, <2>3 DEF more
<1>4. CASE e.ino # i
  <2>1. Pos(more, i) = Pos(chain, i)
    BY <1>1, <1>4 DEF Pos
  <2> QED BY <1>2, <1>4, <2>1 DEF more
<1> QED BY <1>3, <1>4

\* What remains of a chain without its entry k.
LEMMA Shorter ==
    ASSUME NEW chain \in Chains, NEW k \in DOMAIN chain
    PROVE  LET less == RemoveAt(chain, k)
           IN  /\ less \in Chains /\ Len(less) = Len(chain) - 1
               /\ \A j \in 1 .. Len(less) : less[j] = IF j < k THEN chain[j] ELSE chain[j + 1]
<1> DEFINE R == [name : FileNames, ino : Inos \cup {0}]
           less == RemoveAt(chain, k)
           u == SubSeq(chain, 1, k - 1)
           v == SubSeq(chain, k + 1, Len(chain))
<1>1. chain \in Seq(R) /\ Len(chain) \in Nat /\ k \in 1 .. Len(chain)
  BY ChainParts DEF Chains
<1> HIDE DEF R
<1>2. /\ u \in Seq(R) /\ Len(u) = k - 1
      /\ \A j \in 1 .. k - 1 : u[j] = chain[j]
  BY <1>1
<1>3. /\ v \in Seq(R) /\ Len(v) = Len(chain) - k
      /\ \A j \in 1 .. Len(chain) - k : v[j] = chain[k + j]
  BY <1>1
<1>4. less = u \o v
  BY DEF RemoveAt
<1> HIDE DEF u, v, less
<1>5. /\ less \in Seq(R) /\ Len(less) = Len(u) + Len(v)
      /\ \A j \in 1 .. Len(less) : less[j] = IF j <= Len(u) THEN u[j] ELSE v[j - Len(u)]
  BY <1>2, <1>3, <1>4
<1>6. Len(less) = Len(chain) - 1
  BY <1>1, <1>2, <1>3, <1>5
<1>7. ASSUME NEW j \in 1 .. Len(less)
      PROVE  less[j] = IF j < k THEN chain[j] ELSE chain[j + 1]
  <2>1. CASE j < k
    <3>1. j <= Len(u) /\ j \in 1 .. k - 1
      BY <1>1, <1>2, <2>1
    <3> QED BY <1>2, <1>5, <2>1, <3>1
  <2>2. CASE ~ (j < k)
    <3>1. ~ (j <= Len(u)) /\ j - Len(u) \in 1 .. Len(chain) - k /\ k + (j - Len(u)) = j + 1
      BY <1>1, <1>2, <1>6, <2>2
    <3> QED BY <1>3, <1>5, <2>2, <3>1
  <2> QED BY <2>1, <2>2
<1>8. less \in Chains
  BY <1>5 DEF Chains, R
<1> QED BY <1>6, <1>7, <1>8 DEF less

\* An entry removed is one place of its number less.
LEMMA PosRemove ==
    ASSUME NEW chain \in Chains, NEW k \in 3 .. Len(chain), NEW i
    PROVE  Cardinality(Pos(RemoveAt(chain, k), i))
              = Cardinality(Pos(chain, i)) - (IF chain[k].ino = i THEN 1 ELSE 0)
<1> DEFINE less == RemoveAt(chain, k)
           f == [j \in Pos(less, i) |-> IF j < k THEN j ELSE j + 1]
           T == Pos(chain, i) \ {k}
<1>1. Len(chain) \in Nat /\ k \in DOMAIN chain
  BY ChainParts
<1>2. /\ less \in Chains /\ Len(less) = Len(chain) - 1
      /\ \A j \in 1 .. Len(less) : less[j] = IF j < k THEN chain[j] ELSE chain[j + 1]
  BY <1>1, Shorter
<1> HIDE DEF less
<1>3. ASSUME NEW j \in Pos(less, i) PROVE f[j] \in T
  <2>1. j \in 3 .. Len(chain) - 1 /\ less[j].ino = i
    BY <1>2 DEF Pos
  <2>2. CASE j < k
    <3>1. less[j] = chain[j] /\ f[j] = j
      BY <1>1, <1>2, <2>1, <2>2
    <3> QED BY <1>1, <2>1, <2>2, <3>1 DEF Pos
  <2>3. CASE ~ (j < k)
    <3>1. less[j] = chain[j + 1] /\ f[j] = j + 1
      BY <1>1, <1>2, <2>1, <2>3
    <3> QED BY <1>1, <2>1, <2>3, <3>1 DEF Pos
  <2> QED BY <2>2, <2>3
<1>4. ASSUME NEW j1 \in Pos(less, i), NEW j2 \in Pos(less, i), f[j1] = f[j2] PROVE j1 = j2
  <2>1. j1 \in Nat /\ j2 \in Nat
    BY <1>2 DEF Pos
  <2> QED BY <1>4, <2>1
<1>5. ASSUME NEW l \in T PROVE \E j \in Pos(less, i) : f[j] = l
  <2>1. l \in 3 .. Len(chain) /\ chain[l].ino = i /\ l # k
    BY DEF Pos
  <2>2. CASE l < k
    <3>1. l \in 1 .. Len(less) /\ less[l] = chain[l] /\ l \in 3 .. Len(less)
      BY <1>1, <1>2, <2>1, <2>2
    <3>2. l \in Pos(less, i)
      BY <2>1, <3>1 DEF Pos
    <3> QED BY <2>2, <3>2
  <2>3. CASE l > k
    <3>1. /\ l - 1 \in 1 .. Len(less) /\ ~ (l - 1 < k) /\ (l - 1) + 1 = l
          /\ l - 1 \in 3 .. Len(less)
      BY <1>1, <1>2, <2>1, <2>3
    <3>2. less[l - 1] = chain[l]
      BY <1>2, <3>1
    <3>3. l - 1 \in Pos(less, i)
      BY <2>1, <3>1, <3>2 DEF Pos
    <3> QED BY <3>1, <3>3
  <2> QED BY <1>1, <2>1, <2>2, <2>3
<1>6. f \in Bijection(Pos(less, i), T)
  <2>1. f \in [Pos(less, i) -> T]
    BY <1>3
  <2> HIDE DEF f, T
  <2> QED BY <1>4, <1>5, <2>1 DEF Bijection, Injection, Surjection, IsInjective
<1>7. IsFiniteSet(Pos(less, i)) /\ IsFiniteSet(Pos(chain, i)) /\ Cardinality(Pos(chain, i)) \in Nat
  BY <1>2, PosFinite
<1>8. Cardinality(Pos(less, i)) = Cardinality(T)
  <2> HIDE DEF f, T
  <2> QED BY <1>6, <1>7, FS_Bijection DEF ExistsBijection
<1>9. CASE chain[k].ino = i
  <2>1. k \in Pos(chain, i)
    BY <1>9 DEF Pos
  <2>2. Cardinality(T) = Cardinality(Pos(chain, i)) - 1
    BY <1>7, <2>1, FS_RemoveElement
  <2> QED BY <1>8, <1>9, <2>2 DEF less
<1>10. CASE chain[k].ino # i
  <2>1. T = Pos(chain, i)
    BY <1>10 DEF Pos
  <2>2. Cardinality(Pos(less, i)) = Cardinality(Pos(chain, i)) - 0
    <3> HIDE DEF T
    <3> QED BY <1>7, <1>8, <2>1
  <2> QED BY <1>10, <2>2 DEF less
<1> QED BY <1>9, <1>10

\* A links count is a natural number below 65536.
LEMMA CountNat == \A l \in U16 : l \in Nat /\ l <= 65535
<1>1. \A l \in 0 .. 65535 : l \in Nat /\ l <= 65535
  BY ONLY SMTT(30)
<1> QED BY ONLY <1>1, SMTT(30) DEF U16

\* A count that is not at the end of its range is counted up or down.
LEMMA CountsUpDown ==
    ASSUME NEW l \in U16
    PROVE  /\ \A c \in Nat : l <= c - 2 /\ c <= 65535 => (l + 1) % 65536 = l + 1
           /\ l >= 1 => (l + 65535) % 65536 = l - 1
<1>1. l \in Nat /\ l <= 65535
  BY CountNat
<1>2. ASSUME NEW c \in Nat, l <= c - 2, c <= 65535 PROVE (l + 1) % 65536 = l + 1
  <2>1. l + 1 \in Nat /\ l + 1 < 65536
    BY <1>1, <1>2
  <2> QED BY <2>1
<1>3. ASSUME l >= 1 PROVE (l + 65535) % 65536 = l - 1
  <2>1. ASSUME NEW x \in Nat, x < 65536 PROVE (x + 65536) % 65536 = x
    BY ONLY x \in Nat, x < 65536, SMTT(30)
  <2>2. l - 1 \in Nat /\ l - 1 < 65536 /\ (l - 1) + 65536 = l + 65535
    BY <1>1, <1>3
  <2> QED BY <2>1, <2>2
<1> QED BY <1>2, <1>3

\* What the bitmaps, the entries and the current INODEs do not tell apart.
LEMMA WorldSame ==
    ASSUME NEW x, NEW n, World(x), n.imap = x.imap, 1 \in n.bmap, n.dir = x.dir,
           \A i \in x.imap : Cur(n, i) = Cur(x, i)
    PROVE  World(n)
<1>1. Ground(x) /\ Listing(x) /\ Counts(x)
  BY DEF World
<1>2. Slash(n) = Slash(x)
  BY DEF Slash
<1>3. Ground(n)
  BY <1>1 DEF Ground
<1>4. \A e : NamesFile(x, e) => NamesFile(n, e)
  BY DEF NamesFile
<1>5. Listing(n)
  BY <1>1, <1>2, <1>4 DEF Listing
<1>6. Counts(n)
  BY <1>1, <1>2 DEF Counts
<1> QED BY <1>3, <1>5, <1>6 DEF World

\* A number that is not allocated has no place in /.
LEMMA NoPlace ==
    ASSUME NEW m \in Machines, World(m), NEW i, i \notin m.imap, i # 0
    PROVE  Pos(Slash(m), i) = {}
BY DEF World, Listing, NamesFile, Pos

\* The entries of / are a chain; so are they with one more.
LEMMA SlashMore ==
    ASSUME NEW m \in Machines, World(m), NEW name \in Names, NEW i \in Inos \cup {0},
           NEW n, n.dir = [m.dir EXCEPT ![1] = Append(Slash(m), Entry(name, i))]
    PROVE  /\ Slash(m) \in Chains /\ Len(Slash(m)) \in Nat /\ Len(Slash(m)) >= 2
           /\ 1 \in Blks /\ m.dir \in [Blks \cup {0} -> Chains]
           /\ Slash(n) = Append(Slash(m), Entry(name, i))
           /\ Entry(name, i).name = name /\ Entry(name, i).ino = i
           /\ \A b \in Blks \cup {0} : b # 1 => n.dir[b] = m.dir[b]
           /\ Len(Slash(n)) >= 2 /\ Slash(n)[1] = Slash(m)[1] /\ Slash(n)[2] = Slash(m)[2]
           /\ \A k \in 3 .. Len(Slash(n)) :
                 \/ k \in 3 .. Len(Slash(m)) /\ Slash(n)[k] = Slash(m)[k]
                 \/ Slash(n)[k] = Entry(name, i)
           /\ \A j : Cardinality(Pos(Slash(n), j))
                        = Cardinality(Pos(Slash(m), j)) + (IF i = j THEN 1 ELSE 0)
<1>1. m.dir \in [Blks \cup {0} -> Chains] /\ 1 \in Blks
  BY GeometryAssumption DEF Machines, Blks
<1>2. Slash(m) \in Chains /\ Len(Slash(m)) >= 2
  BY <1>1 DEF World, Listing, Slash
<1>3. Slash(n) = Append(Slash(m), Entry(name, i))
  <2> DEFINE c == Append(Slash(m), Entry(name, i))
  <2> HIDE DEF c
  <2>1. n.dir = [m.dir EXCEPT ![1] = c]
    BY DEF c
  <2> QED BY <1>1, <2>1 DEF Slash, c
<1>4. \A b \in Blks \cup {0} : b # 1 => n.dir[b] = m.dir[b]
  BY <1>1
<1>5. Entry(name, i).name = name /\ Entry(name, i).ino = i
  BY DEF Entry
<1> DEFINE chain == Slash(m)
           e == Entry(name, i)
<1> HIDE DEF e, chain
<1>6. /\ Len(chain) \in Nat /\ Len(Append(chain, e)) = Len(chain) + 1
      /\ Append(chain, e)[1] = chain[1] /\ Append(chain, e)[2] = chain[2]
      /\ \A k \in 3 .. Len(chain) : Append(chain, e)[k] = chain[k]
      /\ Append(chain, e)[Len(Append(chain, e))] = e
      /\ \A k \in 3 .. Len(Append(chain, e)) : k \in 3 .. Len(chain) \/ k = Len(Append(chain, e))
  BY <1>2, AddedEntry DEF chain
<1>7. \A j : Cardinality(Pos(Append(chain, e), j))
                = Cardinality(Pos(chain, j)) + (IF e.ino = j THEN 1 ELSE 0)
  BY <1>2, PosAppend DEF chain
<1>8. Slash(n) = Append(chain, e)
  BY <1>3 DEF chain, e
<1>9. chain = Slash(m) /\ e = Entry(name, i) /\ e.ino = i
  BY <1>5 DEF chain, e
<1> QED BY <1>1, <1>2, <1>4, <1>5, <1>6, <1>7, <1>8, <1>9

\* A file is made: a new number, one link, one entry.
LEMMA WorldCreated ==
    ASSUME NEW m \in Machines, World(m), NEW i \in Inos, i \notin m.imap,
           NEW name \in Names, NEW b \in Blks \cup {0}, b # 1, NEW n,
           n.imap = m.imap \cup {i}, 1 \in n.bmap,
           n.dir = [m.dir EXCEPT ![1] = Append(Slash(m), Entry(name, i))],
           Cur(n, i) = INODE("reg", 1, b),
           \A j \in m.imap : Cur(n, j) = Cur(m, j)
    PROVE  World(n)
<1>1. Ground(m) /\ Listing(m) /\ Counts(m)
  BY DEF World
<1>2. /\ Cur(n, i).type = "reg" /\ Cur(n, i).links = 1
      /\ \A k \in 1 .. NDIRECT : Cur(n, i).block[k] # 1
  <2>1. 1 \in U16
    BY DEF U16
  <2>2. INODE("reg", 1, b).links = 1
    BY DEF INODE
  <2> QED BY <2>1, <2>2, NewINODE
<1>3. /\ \A c \in Blks \cup {0} : c # 1 => n.dir[c] = m.dir[c]
      /\ Len(Slash(n)) >= 2 /\ Slash(n)[1] = Slash(m)[1] /\ Slash(n)[2] = Slash(m)[2]
      /\ \A k \in 3 .. Len(Slash(n)) :
            \/ k \in 3 .. Len(Slash(m)) /\ Slash(n)[k] = Slash(m)[k]
            \/ Slash(n)[k] = Entry(name, i)
      /\ \A j : Cardinality(Pos(Slash(n), j))
                   = Cardinality(Pos(Slash(m), j)) + (IF i = j THEN 1 ELSE 0)
      /\ Entry(name, i).name = name /\ Entry(name, i).ino = i
      /\ Slash(m) \in Chains
  <2>1. i \in Inos \cup {0}
    OBVIOUS
  <2> QED BY <2>1, SlashMore
<1>4. ROOT # i /\ i # 0
  BY <1>1, Numbering DEF Ground
<1>5. Ground(n)
  <2>1. \A j \in n.imap : j = i \/ j \in m.imap
    OBVIOUS
  <2> QED BY <1>1, <1>2, <1>3, <1>4, <2>1 DEF Ground
<1>6. Listing(n)
  <2>1. \A e : NamesFile(m, e) => NamesFile(n, e)
    BY DEF NamesFile
  <2>2. NamesFile(n, Entry(name, i))
    BY <1>2, <1>3, <1>4 DEF NamesFile
  <2> QED BY <1>1, <1>3, <2>1, <2>2 DEF Listing
<1>7. Counts(n)
  <2> SUFFICES ASSUME NEW j \in n.imap, Cur(n, j).type = "reg"
               PROVE  Cur(n, j).links = Cardinality(Pos(Slash(n), j))
    BY DEF Counts
  <2>1. CASE j = i
    <3>1. Pos(Slash(m), i) = {}
      BY <1>4, NoPlace
    <3>2. Cardinality(Pos(Slash(m), i)) = 0
      BY <3>1, FS_EmptySet
    <3> QED BY <1>2, <1>3, <2>1, <3>2
  <2>2. CASE j # i
    <3>1. Cardinality(Pos(Slash(m), j)) \in Nat
      BY <1>3, PosFinite
    <3>2. Cur(n, j) = Cur(m, j) /\ Cur(m, j).links = Cardinality(Pos(Slash(m), j))
      BY <1>1, <2>2 DEF Counts
    <3> QED BY <1>3, <2>2, <3>1, <3>2
  <2> QED BY <2>1, <2>2
<1> QED BY <1>5, <1>6, <1>7 DEF World

\* A file gets a name more, or a name is entered for the number 0.
NameMade(m, n, i, name) ==
    /\ n.imap = m.imap /\ n.bmap = m.bmap
    /\ n.dir = [m.dir EXCEPT ![1] = Append(Slash(m), Entry(name, i))]
    /\ i # 0 => Cur(m, i) \in INODEs /\ Cur(n, i) = GainLink(Cur(m, i))
    /\ \A j \in m.imap : j # i => Cur(n, j) = Cur(m, j)

\* The world has a place more of that number.
LEMMA WorldLinked ==
    ASSUME NEW m \in Machines, World(m), Len(Slash(m)) <= 65535,
           NEW i \in m.imap \cup {0}, i # ROOT, i # 0 => Cur(m, i).type = "reg",
           NEW name \in Names, NEW n, NameMade(m, n, i, name)
    PROVE  World(n)
<1>0. /\ n.imap = m.imap /\ n.bmap = m.bmap
      /\ n.dir = [m.dir EXCEPT ![1] = Append(Slash(m), Entry(name, i))]
      /\ i # 0 => Cur(m, i) \in INODEs /\ Cur(n, i) = GainLink(Cur(m, i))
      /\ \A j \in m.imap : j # i => Cur(n, j) = Cur(m, j)
  BY DEF NameMade
<1>1. Ground(m) /\ Listing(m) /\ Counts(m) /\ 0 \notin m.imap /\ m.imap \subseteq Inos
  BY Numbering DEF World, Machines
<1>2. i # 0 => /\ Cur(n, i).type = "reg" /\ Cur(n, i).block = Cur(m, i).block
               /\ Cur(n, i).links = (Cur(m, i).links + 1) % 65536
  <2>1. ASSUME i # 0 PROVE Cur(n, i).links = (Cur(m, i).links + 1) % 65536
    BY <1>0, <2>1 DEF GainLink, INODEs
  <2> QED BY <1>0, <2>1, GainLinkType
<1>3. /\ \A c \in Blks \cup {0} : c # 1 => n.dir[c] = m.dir[c]
      /\ Len(Slash(n)) >= 2 /\ Slash(n)[1] = Slash(m)[1] /\ Slash(n)[2] = Slash(m)[2]
      /\ \A k \in 3 .. Len(Slash(n)) :
            \/ k \in 3 .. Len(Slash(m)) /\ Slash(n)[k] = Slash(m)[k]
            \/ Slash(n)[k] = Entry(name, i)
      /\ \A j : Cardinality(Pos(Slash(n), j))
                   = Cardinality(Pos(Slash(m), j)) + (IF i = j THEN 1 ELSE 0)
      /\ Entry(name, i).name = name /\ Entry(name, i).ino = i
      /\ Slash(m) \in Chains /\ Len(Slash(m)) \in Nat /\ Len(Slash(m)) >= 2
  <2>1. i \in Inos \cup {0}
    BY <1>1
  <2>2. n.dir = [m.dir EXCEPT ![1] = Append(Slash(m), Entry(name, i))]
    BY <1>0
  <2> QED BY <2>1, <2>2, SlashMore, SMTT(30)
<1>5. Ground(n)
  <2>1. \A j \in m.imap \ {ROOT} : /\ Cur(n, j).type \in {"none", "reg"}
                                   /\ Cur(n, j).block = Cur(m, j).block
    BY <1>0, <1>1, <1>2 DEF Ground
  <2> QED BY <1>0, <1>1, <1>3, <2>1 DEF Ground
<1>6. Listing(n)
  <2>1. \A e : NamesFile(m, e) => NamesFile(n, e)
    BY <1>0, <1>2 DEF NamesFile
  <2>2. NamesFile(n, Entry(name, i))
    BY <1>0, <1>2, <1>3 DEF NamesFile
  <2> QED BY <1>1, <1>3, <2>1, <2>2 DEF Listing
<1>7. Counts(n)
  <2> SUFFICES ASSUME NEW j \in m.imap, Cur(n, j).type = "reg"
               PROVE  Cur(n, j).links = Cardinality(Pos(Slash(n), j))
    BY <1>0 DEF Counts
  <2>1. /\ Cardinality(Pos(Slash(m), j)) \in Nat
        /\ Cardinality(Pos(Slash(m), j)) <= Len(Slash(m)) - 2
    BY <1>3, PosFinite
  <2>2. CASE j = i
    <3>1. Cur(m, i).links = Cardinality(Pos(Slash(m), i)) /\ i # 0
      BY <1>0, <1>1, <2>2 DEF Counts
    <3>2. Cur(m, i).links \in U16
      BY <1>0, <3>1, InodeParts
    <3>3. Cur(m, i).links <= Len(Slash(m)) - 2 /\ Len(Slash(m)) <= 65535
      BY <1>3, <2>1, <2>2, <3>1
    <3>4. (Cur(m, i).links + 1) % 65536 = Cur(m, i).links + 1
      BY <1>3, <3>2, <3>3, CountsUpDown
    <3>6. Cur(n, i).links = Cur(m, i).links + 1
      BY <1>2, <3>1, <3>4
    <3> QED BY <1>3, <2>2, <3>1, <3>6
  <2>3. CASE j # i
    <3>2. Cur(n, j) = Cur(m, j) /\ Cur(m, j).links = Cardinality(Pos(Slash(m), j))
      BY <1>0, <1>1, <2>3 DEF Counts
    <3> QED BY <1>3, <2>1, <2>3, <3>2
  <2> QED BY <2>2, <2>3
<1> QED BY <1>1, <1>5, <1>6, <1>7 DEF World

\* An entry is removed, and with its last link the file.
LEMMA WorldDropped ==
    ASSUME NEW m \in Machines, World(m), NEW k \in 3 .. Len(Slash(m)), NEW i,
           Slash(m)[k].ino = i, NEW n,
           n.imap \in {m.imap, m.imap \ {i}}, n.bmap = m.bmap,
           n.dir = [m.dir EXCEPT ![1] = RemoveAt(Slash(m), k)],
           i # 0 => Cur(m, i) \in INODEs /\ Cur(n, i) = LoseLink(Cur(m, i)),
           i # 0 /\ n.imap # m.imap => LoseLink(Cur(m, i)).links = 0,
           \A j \in m.imap : j # i => Cur(n, j) = Cur(m, j)
    PROVE  World(n)
<1>1. Ground(m) /\ Listing(m) /\ Counts(m) /\ 0 \notin m.imap /\ m.imap \subseteq Inos
  BY Numbering DEF World, Machines
<1>0. m.dir \in [Blks \cup {0} -> Chains] /\ 1 \in Blks /\ Slash(m) \in Chains
  BY GeometryAssumption DEF Machines, Blks, Slash
<1>2. /\ i # ROOT
      /\ i # 0 => i \in m.imap /\ Cur(m, i).type = "reg"
  BY <1>1 DEF Listing, NamesFile
<1>3. /\ Len(Slash(m)) \in Nat /\ DOMAIN Slash(m) = 1 .. Len(Slash(m)) /\ k \in DOMAIN Slash(m)
  BY <1>0, ChainParts
<1>4. Slash(n) = RemoveAt(Slash(m), k) /\ \A c \in Blks \cup {0} : c # 1 => n.dir[c] = m.dir[c]
  <2> DEFINE c == RemoveAt(Slash(m), k)
  <2> HIDE DEF c
  <2>1. n.dir = [m.dir EXCEPT ![1] = c]
    BY DEF c
  <2> QED BY <1>0, <2>1 DEF Slash, c
<1>5. /\ Slash(n) \in Chains /\ Len(Slash(n)) = Len(Slash(m)) - 1
      /\ \A j \in 1 .. Len(Slash(n)) :
            Slash(n)[j] = IF j < k THEN Slash(m)[j] ELSE Slash(m)[j + 1]
  <2>1. LET less == RemoveAt(Slash(m), k)
        IN  /\ less \in Chains /\ Len(less) = Len(Slash(m)) - 1
            /\ \A j \in 1 .. Len(less) :
                  less[j] = IF j < k THEN Slash(m)[j] ELSE Slash(m)[j + 1]
    BY <1>0, <1>3, Shorter
  <2> QED BY <1>4, <2>1
<1>6. \A j : Cardinality(Pos(Slash(n), j))
                = Cardinality(Pos(Slash(m), j)) - (IF i = j THEN 1 ELSE 0)
  BY <1>0, <1>4, PosRemove
<1>7. \A j : Cardinality(Pos(Slash(m), j)) \in Nat /\ Cardinality(Pos(Slash(n), j)) \in Nat
  BY <1>0, <1>5, PosFinite
<1>8. i # 0 => /\ Cur(n, i).type = "reg" /\ Cur(n, i).block = Cur(m, i).block
               /\ Cur(n, i).links = Cardinality(Pos(Slash(n), i))
  <2> SUFFICES ASSUME i # 0
               PROVE  /\ Cur(n, i).type = "reg" /\ Cur(n, i).block = Cur(m, i).block
                      /\ Cur(n, i).links = Cardinality(Pos(Slash(n), i))
    OBVIOUS
  <2>1. Cur(n, i).links = (Cur(m, i).links + 65535) % 65536
    BY DEF LoseLink, INODEs
  <2>2. Cur(m, i).links \in U16
    BY InodeParts
  <2>3. Cur(m, i).links = Cardinality(Pos(Slash(m), i))
    BY <1>1, <1>2 DEF Counts
  <2>4. Cur(m, i).links >= 1
    BY <1>6, <1>7, <2>3
  <2>5. Cur(n, i).links = Cur(m, i).links - 1
    BY <2>1, <2>2, <2>4, CountsUpDown
  <2> QED BY <1>2, <1>6, <2>3, <2>5, GainLinkType
<1>9. ASSUME n.imap # m.imap PROVE i \in m.imap /\ Pos(Slash(n), i) = {} /\ n.imap = m.imap \ {i}
  <2>0. n.imap = m.imap \ {i}
    BY <1>9
  <2>1. n.imap = m.imap \ {i} /\ i \in m.imap /\ i # 0
    <3>1. i \in m.imap
      <4> SUFFICES ASSUME i \notin m.imap PROVE FALSE
        OBVIOUS
      <4>1. m.imap \ {i} = m.imap
        OBVIOUS
      <4> QED BY <1>9, <2>0, <4>1
    <3> QED BY <1>1, <2>0, <3>1
  <2>2. Cardinality(Pos(Slash(n), i)) = 0
    BY <1>8, <1>9, <2>1
  <2>3. IsFiniteSet(Pos(Slash(n), i))
    BY <1>5, PosFinite
  <2> QED BY <2>1, <2>2, <2>3, FS_EmptySet
<1>10. n.imap \subseteq m.imap /\ ROOT \in n.imap
  BY <1>1, <1>2, <1>9 DEF Ground
<1>11. Ground(n)
  <2>1. \A j \in n.imap : j = i => j # 0
    BY <1>1, <1>10
  <2>2. \A j \in n.imap \ {ROOT} : /\ Cur(n, j).type \in {"none", "reg"}
                                   /\ Cur(n, j).block = Cur(m, j).block
    BY <1>1, <1>8, <1>10, <2>1 DEF Ground
  <2>3. Cur(n, ROOT) = Cur(m, ROOT)
    BY <1>2, <1>10
  <2> QED BY <1>1, <1>4, <1>10, <2>2, <2>3 DEF Ground
<1>12. Listing(n)
  <2>1. \A j \in 3 .. Len(Slash(n)) : \E l \in 3 .. Len(Slash(m)) : Slash(n)[j] = Slash(m)[l]
    <3> SUFFICES ASSUME NEW j \in 3 .. Len(Slash(n))
                 PROVE  \E l \in 3 .. Len(Slash(m)) : Slash(n)[j] = Slash(m)[l]
      OBVIOUS
    <3>1. /\ j \in 1 .. Len(Slash(n)) /\ j \in 3 .. Len(Slash(m))
          /\ j + 1 \in 3 .. Len(Slash(m))
      BY <1>3, <1>5
    <3> QED BY <1>5, <3>1
  <2>2. Len(Slash(n)) >= 2 /\ Slash(n)[1] = Slash(m)[1] /\ Slash(n)[2] = Slash(m)[2]
    <3>1. 1 \in 1 .. Len(Slash(n)) /\ 2 \in 1 .. Len(Slash(n)) /\ 1 < k /\ 2 < k
      BY <1>3, <1>5
    <3> QED BY <1>3, <1>5, <3>1
  <2>3. ASSUME NEW j \in 3 .. Len(Slash(n)) PROVE NamesFile(n, Slash(n)[j])
    <3>1. PICK l \in 3 .. Len(Slash(m)) : Slash(n)[j] = Slash(m)[l]
      BY <2>1
    <3> DEFINE e == Slash(n)[j]
    <3>2. NamesFile(m, e)
      BY <1>1, <3>1 DEF Listing
    <3>3. e.ino = i => j \in Pos(Slash(n), i)
      BY DEF Pos
    <3>4. e.ino \in m.imap => e.ino \in n.imap
      BY <1>9, <3>3
    <3>5. e.ino # 0 => Cur(n, e.ino).type = "reg"
      BY <1>8, <3>2 DEF NamesFile
    <3> QED BY <3>2, <3>4, <3>5 DEF NamesFile
  <2> QED BY <1>1, <2>2, <2>3 DEF Listing
<1>13. Counts(n)
  <2> SUFFICES ASSUME NEW j \in n.imap, Cur(n, j).type = "reg"
               PROVE  Cur(n, j).links = Cardinality(Pos(Slash(n), j))
    BY DEF Counts
  <2>1. CASE j = i
    BY <1>1, <1>8, <1>10, <2>1
  <2>2. CASE j # i
    <3>2. Cur(n, j) = Cur(m, j) /\ Cur(m, j).links = Cardinality(Pos(Slash(m), j))
      BY <1>1, <1>10, <2>2 DEF Counts
    <3> QED BY <1>6, <1>7, <2>2, <3>2
  <2> QED BY <2>1, <2>2
<1>14. 1 \in n.bmap
  BY <1>1 DEF Ground
<1> QED BY <1>11, <1>12, <1>13, <1>14 DEF World

-----------------------------------------------------------------------------
(* Where a pathname leads in this world: to /, which its dots lead back    *)
(* to, to a file of /, or, through a file, nowhere.                        *)

Found(chain, name) == IF Holds(chain, name) THEN InoOf(chain, name) ELSE 0
Dots == {".", ".."}

\* The names of / and what they name.
LEMMA FoundIs ==
    ASSUME NEW m \in Machines, World(m), NEW name
    PROVE  LET i == Found(Slash(m), name)
           IN  /\ i \in Inos \cup {0}
               /\ name \in Dots => i = ROOT
               /\ name \notin Dots => /\ i # ROOT
                                      /\ i # 0 => i \in m.imap /\ Cur(m, i).type = "reg"
               /\ name \notin Dots /\ Holds(Slash(m), name)
                     => \E k \in 3 .. Len(Slash(m)) :
                           /\ Slash(m)[k].name = name /\ Slash(m)[k].ino = i
                           /\ FirstOf({l \in DOMAIN Slash(m) : Slash(m)[l].name = name}) = k
<1> DEFINE D == Slash(m)
           i == Found(D, name)
<1>1. /\ Len(D) >= 2 /\ D[1] = Entry(".", ROOT) /\ D[2] = Entry("..", ROOT)
      /\ \A k \in 3 .. Len(D) : NamesFile(m, D[k])
  BY DEF World, Listing
<1>2. D \in Chains /\ Len(D) \in Nat /\ DOMAIN D = 1 .. Len(D) /\ m.imap \subseteq Inos
  <2>1. D \in Chains /\ m.imap \subseteq Inos
    BY GeometryAssumption DEF Machines, Blks, Slash
  <2> QED BY <2>1, ChainParts
<1>3. D[1].name = "." /\ D[1].ino = ROOT /\ D[2].name = ".." /\ D[2].ino = ROOT
  BY <1>1 DEF Entry
<1> HIDE DEF D
<1>4. CASE ~ Holds(D, name)
  <2>1. i = 0
    BY <1>4 DEF Found
  <2>2. name \notin Dots
    BY <1>1, <1>2, <1>3, <1>4 DEF Holds, Dots
  <2> QED BY <1>4, <2>1, <2>2, Numbering DEF D
<1>5. CASE Holds(D, name)
  <2>1. PICK k \in DOMAIN D : /\ D[k].name = name
                              /\ InoOf(D, name) = D[k].ino
                              /\ \A l \in DOMAIN D : D[l].name = name => k <= l
    BY <1>2, <1>5, NumberOfName
  <2>2. i = D[k].ino
    BY <1>5, <2>1 DEF Found
  <2>3. i \in Inos \cup {0}
    BY <1>2, <2>2, ChainParts
  <2>4. FirstOf({l \in DOMAIN D : D[l].name = name}) = k
    <3> DEFINE T == {l \in DOMAIN D : D[l].name = name}
    <3>1. k \in T /\ (\A l \in T : k <= l) /\ T \subseteq Nat
      BY <1>2, <2>1
    <3>2. FirstOf(T) \in T /\ \A l \in T : FirstOf(T) <= l
      <4> HIDE DEF T
      <4> QED BY <3>1 DEF FirstOf
    <3>3. FirstOf(T) = k
      <4> HIDE DEF T
      <4> QED BY <3>1, <3>2
    <3> QED BY <3>3
  <2>5. CASE name \in Dots
    <3>1. k \in {1, 2}
      BY <1>1, <1>2, <1>3, <2>1, <2>5 DEF Dots
    <3> QED BY <1>3, <2>2, <2>3, <2>5, <3>1 DEF D
  <2>6. CASE name \notin Dots
    <3>1. k \in 3 .. Len(D)
      BY <1>2, <1>3, <2>1, <2>6 DEF Dots
    <3>2. NamesFile(m, D[k])
      BY <1>1, <3>1
    <3> QED BY <2>1, <2>2, <2>3, <2>4, <2>6, <3>1, <3>2 DEF D, NamesFile
  <2> QED BY <2>5, <2>6
<1> QED BY <1>4, <1>5

\* The slot of / holds the directory.
LEMMA SlashSlot ==
    ASSUME NEW m, NEW hold, Firm(m, hold), World(m)
    PROVE  /\ m \in Machines /\ Inode(m, Root) = Cur(m, ROOT) /\ IsDir(m, Root)
           /\ ~ Opaque(m, Root)
           /\ \A k \in 1 .. NDIRECT : Inode(m, Root).block[k] = IF k = 1 THEN 1 ELSE 0
           /\ Slash(m) \in Chains /\ Len(Slash(m)) \in Nat /\ Len(Slash(m)) >= 2
           /\ \A k \in DOMAIN Slash(m) : Slash(m)[k].ino \in m.imap \cup {0}
<1>1. /\ Busy(m, Root) /\ m.minode[Root].ino = ROOT /\ m \in Machines
      /\ Once(m)
  <2>1. Once(m)
    BY DEF Firm, Steady
  <2> QED BY <2>1, FirmParts
<1>2. Inode(m, Root) = Cur(m, ROOT)
  <2>1. Holding(m, Root, ROOT)
    BY <1>1 DEF Holding
  <2> QED BY <1>1, <2>1, CurIs, Numbering DEF Inode
<1>3. /\ Cur(m, ROOT).type = "dir" /\ ROOT \in m.imap
      /\ \A k \in 1 .. NDIRECT : Cur(m, ROOT).block[k] = IF k = 1 THEN 1 ELSE 0
      /\ Len(Slash(m)) >= 2
      /\ Slash(m)[1] = Entry(".", ROOT) /\ Slash(m)[2] = Entry("..", ROOT)
      /\ \A k \in 3 .. Len(Slash(m)) : Slash(m)[k].ino \in m.imap \cup {0}
  BY DEF World, Ground, Listing, NamesFile
<1>4. Slash(m) \in Chains
  BY <1>1, GeometryAssumption DEF Machines, Blks, Slash
<1>5. Len(Slash(m)) \in Nat /\ DOMAIN Slash(m) = 1 .. Len(Slash(m))
  BY <1>4, ChainParts
<1>6. Slash(m)[1].ino = ROOT /\ Slash(m)[2].ino = ROOT
  BY <1>3 DEF Entry
<1>7. \A k \in DOMAIN Slash(m) : Slash(m)[k].ino \in m.imap \cup {0}
  <2>1. \A k \in 1 .. Len(Slash(m)) : k = 1 \/ k = 2 \/ k \in 3 .. Len(Slash(m))
    BY <1>5
  <2> QED BY <1>3, <1>5, <1>6, <2>1
<1> QED BY <1>1, <1>2, <1>3, <1>4, <1>5, <1>7, Numbering DEF IsDir, Opaque

\* search() in /.
LEMMA SlashSearch ==
    ASSUME NEW m, NEW hold, Firm(m, hold), World(m), NEW name
    PROVE  Search(m, Root, name) = m /\ SearchIno(m, Root, name) = Found(Slash(m), name)
<1> DEFINE S == SearchStop(m, Root, name)
<1>1. /\ m \in Machines /\ ~ Opaque(m, Root)
      /\ \A k \in 1 .. NDIRECT : Inode(m, Root).block[k] = IF k = 1 THEN 1 ELSE 0
      /\ Slash(m) \in Chains /\ Len(Slash(m)) >= 2
  BY SlashSlot
<1>2. m.dir[1] = Slash(m) /\ Slash(m) # <<>> /\ 1 \in 1 .. NDIRECT
  BY <1>1, Numbering DEF Slash
<1>3. CASE Holds(Slash(m), name)
  <2>1. S = {1}
    BY <1>1, <1>2, <1>3 DEF SearchStop
  <2>2. FirstOf({1}) \in {1}
    BY FirstIn
  <2>3. StopChain(m, Root, name) = Slash(m)
    BY <1>1, <1>2, <2>1, <2>2 DEF StopChain
  <2> QED BY <1>1, <1>2, <1>3, <2>1, <2>3 DEF Search, SearchIno, Found
<1>4. CASE ~ Holds(Slash(m), name)
  <2>1. S = {}
    BY <1>1, <1>2, <1>4 DEF SearchStop
  <2> QED BY <1>1, <1>4, <2>1 DEF Search, SearchIno, Found
<1> QED BY <1>3, <1>4

\* search() in a file: its blocks are zeros, if it has any.
LEMMA FileSearch ==
    ASSUME NEW m, NEW hold, Firm(m, hold), World(m), NEW s \in Slots, Busy(m, s),
           m.minode[s].ino \in m.imap \ {ROOT}, NEW name
    PROVE  /\ ~ IsDir(m, s) /\ ~ Opaque(m, s)
           /\ \A k \in 1 .. NDIRECT : m.dir[Inode(m, s).block[k]] = <<>>
           /\ Search(m, s, name) \in {m, Fail(m, "hung")}
           /\ Search(m, s, name).st = "up" => Search(m, s, name) = m
                                              /\ SearchIno(m, s, name) = 0
<1> DEFINE S == SearchStop(m, s, name)
           x == Inode(m, s)
<1>1. m \in Machines /\ Once(m) /\ m.imap \subseteq Inos
  <2>1. Once(m)
    BY DEF Firm, Steady
  <2> QED BY <2>1, FirmParts
<1>2. x = Cur(m, m.minode[s].ino)
  <2>1. Holding(m, s, m.minode[s].ino)
    BY DEF Holding
  <2> QED BY <1>1, <2>1, CurIs DEF Inode
<1>3. x \in INODEs /\ m.minode[s].ino # 0
  BY <1>1, FirmParts, Numbering DEF Inode
<1>4. /\ x.type \in {"none", "reg"}
      /\ \A k \in 1 .. NDIRECT : x.block[k] \in (Blks \cup {0}) \ {1}
  <2>1. \A k \in 1 .. NDIRECT : x.block[k] \in Blks \cup {0}
    BY <1>3, InodeParts
  <2> QED BY <1>2, <2>1 DEF World, Ground
<1> HIDE DEF x
<1>5. \A k \in 1 .. NDIRECT : m.dir[x.block[k]] = <<>>
  BY <1>4 DEF World, Ground
<1>6. ~ Opaque(m, s) /\ ~ IsDir(m, s)
  BY <1>3, <1>4 DEF Opaque, IsDir, x
<1>7. \A k \in S : k \in 1 .. NDIRECT
  BY DEF SearchStop
<1>8. CASE S = {}
  BY <1>5, <1>6, <1>8 DEF Search, SearchIno, x
<1>9. CASE S # {}
  <2>1. FirstOf(S) \in S
    <3>1. S \subseteq Nat
      BY <1>7
    <3> HIDE DEF S
    <3> QED BY <1>9, <3>1, FirstIn
  <2>2. StopChain(m, s, name) = <<>>
    <3>1. StopChain(m, s, name) = m.dir[x.block[FirstOf(S)]]
      BY DEF StopChain, x
    <3> HIDE DEF S
    <3> QED BY <1>5, <1>7, <2>1, <3>1
  <2>3. Search(m, s, name) = Fail(m, "hung")
    BY <1>6, <1>9, <2>2 DEF Search
  <2>4. Fail(m, "hung").st # "up"
    BY <1>1, FailOk
  <2> QED BY <1>5, <1>6, <2>3, <2>4 DEF x
<1> QED BY <1>8, <1>9

\* iget() of a number in core returns its slot.
LEMMA HeldPtr ==
    ASSUME NEW m, Once(m), NEW s \in Slots, NEW i, Holding(m, s, i)
    PROVE  IgetPtr(m, i) = s
<1>1. InCore(m.minode, i) = {s}
  BY DEF InCore, Holding, Busy, Once
<1>2. FirstOf({s}) \in {s}
  BY FirstIn, Numbering
<1> QED BY <1>1, <1>2 DEF IgetPtr, IgetSlot

\* iget() of / returns the slot of root.
LEMMA SlashPtr ==
    ASSUME NEW m, NEW hold, Firm(m, hold)
    PROVE  IgetPtr(m, ROOT) = Root
<1>1. Once(m) /\ Busy(m, Root) /\ m.minode[Root].ino = ROOT
  <2>1. Once(m)
    BY DEF Firm, Steady
  <2> QED BY <2>1, FirmParts
<1>2. Holding(m, Root, ROOT)
  BY <1>1 DEF Holding
<1> QED BY <1>1, <1>2, HeldPtr, Numbering

\* Where the walk of getino() is: in /, in a file of /, or at an end.
AtSlash(w) == w.ok /\ w.s = Root
AtFile(x, w) == /\ w.ok /\ w.s # Root /\ w.ino \in x.imap \ {ROOT}
                /\ IF w.s = NULL THEN Unused(w.m.minode) = {}
                   ELSE w.m.minode[w.s].ino = w.ino
Gone(w) == ~ w.ok /\ w.ino = 0 /\ w.s = NULL

\* A walk that began in machine x, with hold in hand.
Trips(x, hold) ==
    {w \in [m : Machines, s : Slots \cup {NULL}, ino : Inos \cup {0}, ok : BOOLEAN] :
        /\ Firm(w.m, Also(w.m, hold, w.s)) /\ Lasts(x, w.m, hold)
        /\ w.m.st = "up" => AtSlash(w) \/ AtFile(x, w) \/ Gone(w)}

\* Where a round of getino() goes on to.
Onward(x, w, v, name) ==
    v.m.st = "up" =>
        /\ w.m.st = "up"
        /\ AtSlash(w) => /\ v.ino = Found(Slash(x), name)
                         /\ AtSlash(v) <=> name \in Dots
        /\ ~ AtSlash(w) => Gone(v)

\* A machine after a routine keeps the world.
LEMMA WorldLasts ==
    ASSUME NEW x, NEW n, NEW hold, World(x), Lasts(x, n, hold)
    PROVE  World(n) /\ Slash(n) = Slash(x)
<1>1. /\ n.imap = x.imap /\ n.bmap = x.bmap /\ n.dir = x.dir
      /\ \A i \in x.imap : Cur(n, i) = Cur(x, i)
  BY DEF Lasts
<1>2. 1 \in n.bmap
  BY <1>1 DEF World, Ground
<1> QED BY <1>1, <1>2, WorldSame DEF Slash

\* One round of getino().
LEMMA TripStep ==
    ASSUME NEW x \in Machines, World(x), NEW hold \in [Slots -> Nat], hold[Root] >= 2,
           NEW w \in Trips(x, hold), NEW name
    PROVE  Walk(w, name) \in Trips(x, hold) /\ Onward(x, w, Walk(w, name), name)
<1> DEFINE v == Walk(w, name)
           m1 == Search(w.m, w.s, name)
           ino == SearchIno(w.m, w.s, name)
           m2 == Iput(m1, w.s)
           V == [m : Machines, s : Slots \cup {NULL}, ino : Inos \cup {0}, ok : BOOLEAN]
<1>1. /\ w \in V /\ w.m \in Machines /\ w.s \in Slots \cup {NULL}
      /\ Firm(w.m, Also(w.m, hold, w.s)) /\ Lasts(x, w.m, hold)
      /\ w.m.st = "up" => AtSlash(w) \/ AtFile(x, w) \/ Gone(w)
  BY DEF Trips
<1>2. World(w.m) /\ Slash(w.m) = Slash(x) /\ w.m.imap = x.imap
  <2>1. w.m.imap = x.imap
    BY <1>1 DEF Lasts
  <2> QED BY <1>1, <2>1, WorldLasts
<1>3. CASE w.m.st # "up" \/ ~ w.ok
  <2>1. v = w
    BY <1>3 DEF Walk
  <2>2. w.m.st = "up" => Gone(w) /\ ~ AtSlash(w)
    BY <1>1, <1>3 DEF AtSlash, AtFile
  <2> QED BY <2>1, <2>2 DEF Onward
<1>4. CASE w.ok /\ w.m.st = "up" /\ w.s = NULL
  <2>1. v = [w EXCEPT !.m = Fail(w.m, "down")]
    BY <1>4 DEF Walk, Deref
  <2>2. AtFile(x, w) /\ Root # NULL
    BY <1>1, <1>4, Numbering DEF AtSlash, Gone
  <2>3. Unused(w.m.minode) = {}
    BY <1>4, <2>2 DEF AtFile
  <2>4. Firm(w.m, hold)
    BY <1>1, <1>4 DEF Also
  <2> DEFINE n == Fail(w.m, "down")
  <2>5. Firm(n, hold) /\ Lasts(w.m, n, hold) /\ n.st # "up"
    BY <2>3, <2>4, FirmFail
  <2> HIDE DEF n
  <2>6. Lasts(x, n, hold) /\ n \in Machines
    BY <1>1, <2>5, LastsOn DEF Firm
  <2>7. v \in V /\ v.m = n /\ v.s = NULL
    BY <1>1, <1>4, <2>1, <2>6 DEF n
  <2>8. Firm(v.m, Also(v.m, hold, v.s))
    BY <2>5, <2>7 DEF Also
  <2> QED BY <2>5, <2>6, <2>7, <2>8 DEF Trips, Onward
<1>5. CASE w.ok /\ w.m.st = "up" /\ w.s # NULL
  <2>1. v = IF m1.st # "up" THEN [w EXCEPT !.m = m1]
            ELSE IF ino = 0
                 THEN [m |-> m2, s |-> NULL, ino |-> 0, ok |-> FALSE]
            ELSE [m |-> Iget(m2, ino), s |-> IgetPtr(m2, ino), ino |-> ino, ok |-> TRUE]
    BY <1>5 DEF Walk, With
  <2>2. w.s \in Slots /\ Also(w.m, hold, w.s) = Plus(hold, w.s)
    BY <1>1, <1>5 DEF Also
  <2>3. /\ Plus(hold, w.s) \in [Slots -> Nat]
        /\ \A r \in Slots : Plus(hold, w.s)[r] = IF r = w.s THEN hold[r] + 1 ELSE hold[r]
        /\ AtMost(hold, Plus(hold, w.s))
    BY <2>2, PlusMore
  <2>4. Firm(w.m, Plus(hold, w.s)) /\ Firm(w.m, hold) /\ Busy(w.m, w.s)
    <3>1. Firm(w.m, Plus(hold, w.s))
      BY <1>1, <2>2
    <3>2. Plus(hold, w.s)[w.s] > 0
      BY <2>2, <2>3
    <3> QED BY <2>2, <2>3, <3>1, <3>2, FirmFewer, FirmParts
  <2>5. AtSlash(w) \/ AtFile(x, w)
    BY <1>1, <1>5 DEF Gone
  <2>6. CASE m1.st # "up"
    <3>1. AtFile(x, w)
      <4>1. AtSlash(w) => m1 = w.m
        BY <1>2, <2>4, SlashSearch DEF AtSlash
      <4> QED BY <1>5, <2>5, <2>6, <4>1
    <3>2. w.m.minode[w.s].ino \in w.m.imap \ {ROOT}
      BY <1>2, <1>5, <3>1 DEF AtFile
    <3>3. m1 = Fail(w.m, "hung")
      BY <1>2, <1>5, <2>2, <2>4, <2>6, <3>2, FileSearch
    <3>4. Firm(m1, hold) /\ Lasts(w.m, m1, hold)
      BY <2>4, <3>3, FirmFail
    <3> HIDE DEF m1
    <3>5. Lasts(x, m1, hold) /\ m1 \in Machines
      BY <1>1, <3>4, LastsOn DEF Firm
    <3>6. v = [w EXCEPT !.m = m1]
      BY <2>1, <2>6
    <3>7. v \in V /\ v.m = m1 /\ v.s = w.s
      BY <1>1, <3>5, <3>6
    <3>8. Firm(v.m, Also(v.m, hold, v.s))
      BY <2>6, <3>4, <3>7 DEF Also
    <3> QED BY <2>6, <3>5, <3>7, <3>8 DEF Trips, Onward
  <2>7. CASE m1.st = "up"
    <3>1. AtSlash(w) => m1 = w.m /\ ino = Found(Slash(x), name)
      BY <1>2, <2>4, SlashSearch DEF AtSlash
    <3>2. ~ AtSlash(w) => m1 = w.m /\ ino = 0
      <4> SUFFICES ASSUME ~ AtSlash(w) PROVE m1 = w.m /\ ino = 0
        OBVIOUS
      <4>1. w.m.minode[w.s].ino \in w.m.imap \ {ROOT}
        BY <1>2, <1>5, <2>5 DEF AtFile
      <4> QED BY <1>2, <2>2, <2>4, <2>7, <4>1, FileSearch
    <3> HIDE DEF m1, ino
    <3>3. /\ Firm(m2, hold) /\ Lasts(w.m, m2, hold)
      <4>1. Firm(m1, Also(m1, hold, w.s))
        BY <1>1, <3>1, <3>2
      <4>2. Firm(m2, hold) /\ Lasts(m1, m2, hold)
        BY <2>2, <4>1, FirmIput
      <4> QED BY <3>1, <3>2, <4>2
    <3> HIDE DEF m2
    <3>4. Lasts(x, m2, hold) /\ m2 \in Machines
      BY <1>1, <3>3, LastsOn DEF Firm
    <3>5. CASE ino = 0
      <4>1. v = [m |-> m2, s |-> NULL, ino |-> 0, ok |-> FALSE]
        BY <2>1, <2>7, <3>5
      <4>2. Firm(v.m, Also(v.m, hold, v.s)) /\ Gone(v) /\ ~ AtSlash(v)
        BY <3>3, <4>1 DEF Also, Gone, AtSlash
      <4>3. v \in V /\ v.m = m2 /\ v.ino = 0
        BY <3>4, <4>1
      <4>4. AtSlash(w) => name \notin Dots
        BY <1>2, <3>1, <3>5, FoundIs, Numbering
      <4> QED BY <1>5, <3>1, <3>4, <3>5, <4>2, <4>3, <4>4 DEF Trips, Onward
    <3>6. CASE ino # 0
      <4> DEFINE n == Iget(m2, ino)
                 t == IgetPtr(m2, ino)
      <4>1. v = [m |-> n, s |-> t, ino |-> ino, ok |-> TRUE]
        BY <2>1, <2>7, <3>6
      <4>2. /\ AtSlash(w) /\ ino = Found(Slash(x), name) /\ ino \in Inos \cup {0}
            /\ name \in Dots => ino = ROOT
            /\ name \notin Dots => ino \in x.imap \ {ROOT}
        <5>1. AtSlash(w) /\ ino = Found(Slash(x), name)
          BY <3>1, <3>2, <3>6
        <5> QED BY <3>6, <5>1, FoundIs
      <4>3. /\ Firm(n, Also(n, hold, t)) /\ Lasts(m2, n, hold) /\ t \in Slots \cup {NULL}
            /\ n.st = m2.st
            /\ m2.st = "up" /\ t # NULL => n.minode[t].ino = ino
            /\ m2.st = "up" /\ t = NULL => Unused(n.minode) = {}
        BY <3>3, <4>2, FirmIget
      <4>4. name \in Dots => t = Root
        BY <3>3, <4>2, SlashPtr
      <4> HIDE DEF n, t
      <4>5. Lasts(x, n, hold) /\ n \in Machines
        BY <3>4, <4>3, LastsOn DEF Firm
      <4>6. v \in V /\ v.m = n /\ v.s = t /\ v.ino = ino /\ v.ok
        BY <4>1, <4>2, <4>3, <4>5
      <4>7. n.minode[Root].ino = ROOT
        BY <4>3, FirmParts
      <4>8. n.st = "up" /\ name \notin Dots => AtFile(x, v) /\ ~ AtSlash(v)
        <5>1. n.st = "up" /\ name \notin Dots => t # Root
          BY <4>2, <4>3, <4>7, Numbering
        <5> QED BY <4>2, <4>3, <4>6, <5>1 DEF AtFile, AtSlash
      <4>9. name \in Dots => AtSlash(v)
        BY <4>4, <4>6 DEF AtSlash
      <4>10. v \in Trips(x, hold)
        BY <4>3, <4>5, <4>6, <4>8, <4>9 DEF Trips
      <4> QED BY <1>5, <4>2, <4>6, <4>8, <4>9, <4>10 DEF Onward
    <3> QED BY <3>5, <3>6
  <2> QED BY <2>6, <2>7
<1> QED BY <1>1, <1>3, <1>4, <1>5

\* The walk of getino() along a path, step by step.
WalksIn(W) == \A x \in W, a \in FileNames : Walk(x, a) \in W
Walked(v, W, w, names) ==
    /\ v \in [0 .. Len(names) -> W]
    /\ v[0] = w /\ v[Len(names)] = WalkAll(w, names)
    /\ \A k \in 1 .. Len(names) : v[k] = Walk(v[k - 1], names[k])

\* Closed under the rounds, the walks of a path are a sequence of them.
LEMMA WalkSteps ==
    ASSUME NEW W, NEW w \in W, NEW names \in Seq(FileNames), WalksIn(W)
    PROVE  \E v : Walked(v, W, w, names)
<1> DEFINE N == Len(names)
           F == [x \in W \X (1 .. N) |-> Walk(x[1], names[x[2]])]
           Body(g) == [s \in SUBSET (1 .. N) |->
                          IF s = {} THEN w ELSE Walk(g[s \ {Max(s)}], names[Max(s)])]
           h == CHOOSE g : g = Body(g)
<1>1. N \in Nat /\ DOMAIN names = 1 .. N /\ \A k \in 1 .. N : names[k] \in FileNames
  OBVIOUS
<1> HIDE DEF N
<1>2. F \in [W \X (1 .. N) -> W]
  BY <1>1 DEF WalksIn
<1>3. \A x \in W, k \in 1 .. N : F[<<x, k>>] = Walk(x, names[k])
  OBVIOUS
<1> HIDE DEF F, h
<1>4. PICK g \in [SUBSET (1 .. N) -> W] : Folds(g, N, w, F)
  BY <1>1, <1>2, FoldExists
<1>5. \A s \in (SUBSET (1 .. N)) \ {{}} : Max(s) \in 1 .. N /\ s \ {Max(s)} \in SUBSET (1 .. N)
  BY <1>1, LastIn
<1>6. g = Body(g)
  BY <1>3, <1>4, <1>5 DEF Folds
<1>7. h = Body(h)
  <2> HIDE DEF Body
  <2> QED BY <1>6 DEF h
<1>8. WalkAll(w, names) = h[1 .. N]
  BY <1>1 DEF WalkAll, FoldLeft, MapThenFoldSet, h
<1>9. FoldsIn(h, W, N, w, F)
  BY <1>3, <1>5, <1>7 DEF FoldsIn
<1> HIDE DEF Body
<1>0. N \in Nat
  BY <1>1
<1>10. PICK v \in [0 .. N -> W] : Chain(v, N, w, F, h[1 .. N])
  BY ONLY <1>0, <1>2, <1>9, w \in W, FoldSteps
<1>11. \A k \in 1 .. N : k - 1 \in 0 .. N
  BY <1>1
<1>12. \A k \in 1 .. N : v[k] = Walk(v[k - 1], names[k])
  BY <1>3, <1>10, <1>11 DEF Chain
<1>13. v[0] = w /\ v[N] = WalkAll(w, names)
  BY <1>8, <1>10 DEF Chain
<1>14. v \in [0 .. N -> W]
  BY <1>10
<1> QED BY <1>12, <1>13, <1>14 DEF N, Walked

\* What a path leads to.
Target(x, path) ==
    LET n == Len(path.comps)
    IN  IF path.comps = <<>> THEN ROOT
        ELSE IF \A k \in 1 .. n - 1 : path.comps[k] \in Dots
             THEN Found(Slash(x), path.comps[n])
        ELSE 0

\* A walk that goes on to its end has met what the path leads to.
LEMMA TripEnds ==
    ASSUME NEW x \in Machines, World(x), NEW hold \in [Slots -> Nat], hold[Root] >= 2,
           NEW w \in Trips(x, hold), AtSlash(w), NEW names \in Seq(FileNames), names # <<>>
    PROVE  LET v == WalkAll(w, names)
               n == Len(names)
           IN  /\ v \in Trips(x, hold)
               /\ v.m.st = "up" =>
                     v.ino = IF \A k \in 1 .. n - 1 : names[k] \in Dots
                             THEN Found(Slash(x), names[n]) ELSE 0
<1> DEFINE N == Len(names)
           All(k) == \A j \in 1 .. k : names[j] \in Dots
<1>1. N \in Nat /\ N >= 1
  OBVIOUS
<1>2. \A y \in Trips(x, hold), a \in FileNames :
         Walk(y, a) \in Trips(x, hold) /\ Onward(x, y, Walk(y, a), a)
  BY TripStep
<1>3. PICK v \in [0 .. N -> Trips(x, hold)] :
             /\ v[0] = w /\ v[N] = WalkAll(w, names)
             /\ \A k \in 1 .. N : v[k] = Walk(v[k - 1], names[k])
  <2>1. WalksIn(Trips(x, hold))
    BY <1>2 DEF WalksIn
  <2>2. \E v : Walked(v, Trips(x, hold), w, names)
    BY <2>1, WalkSteps
  <2> QED BY <2>2 DEF Walked
<1>4. \A k \in 1 .. N : names[k] \in FileNames
  OBVIOUS
<1> DEFINE Met(k) == v[k].m.st = "up" =>
                        /\ AtSlash(v[k]) <=> All(k)
                        /\ k >= 1 => v[k].ino = IF All(k - 1) THEN Found(Slash(x), names[k]) ELSE 0
           S == {k \in Nat : k <= N => Met(k)}
<1>5. 0 \in S
  <2>1. AtSlash(v[0]) /\ All(0)
    BY <1>3
  <2> QED BY <2>1
<1>6. ASSUME NEW k \in Nat, k \in S PROVE k + 1 \in S
  <2> SUFFICES ASSUME k + 1 <= N PROVE Met(k + 1)
    OBVIOUS
  <2>1. k + 1 \in 1 .. N /\ (k + 1) - 1 = k /\ Met(k) /\ k \in 0 .. N /\ k + 1 \in 0 .. N
    BY <1>1, <1>6
  <2>2. v[k + 1] = Walk(v[k], names[k + 1])
    BY <1>3, <2>1
  <2>3. Onward(x, v[k], v[k + 1], names[k + 1])
    BY <1>2, <1>3, <1>4, <2>1, <2>2
  <2>4. All(k + 1) <=> All(k) /\ names[k + 1] \in Dots
    <3>1. \A j \in 1 .. k + 1 : j \in 1 .. k \/ j = k + 1
      BY <1>6
    <3>2. \A j \in 1 .. k : j \in 1 .. k + 1
      BY <1>6
    <3>3. k + 1 \in 1 .. k + 1
      BY <1>6
    <3> QED BY ONLY <3>1, <3>2, <3>3
  <2>5. Gone(v[k + 1]) => ~ AtSlash(v[k + 1]) /\ v[k + 1].ino = 0
    BY DEF Gone, AtSlash
  <2> HIDE DEF All
  <2> QED BY <2>1, <2>3, <2>4, <2>5 DEF Onward
<1>7. N \in S
  <2> HIDE DEF S
  <2> QED BY <1>1, <1>5, <1>6, SetInduction
<1>8. v[N] \in Trips(x, hold) /\ Met(N)
  BY <1>1, <1>3, <1>7
<1> QED BY <1>1, <1>3, <1>8

\* getino() of a path.
LEMMA LookUp ==
    ASSUME NEW x, NEW hold, Firm(x, hold), World(x), NEW path \in PathType
    PROVE  LET g == Getino(x, path)
           IN  /\ Firm(g.m, hold) /\ Lasts(x, g.m, hold) /\ g.ino \in Inos \cup {0}
               /\ g.m.st = "up" => x.st = "up" /\ g.ino = Target(x, path)
<1> DEFINE start == IF path.abs THEN Root ELSE x.cwd
           m1 == [x EXCEPT !.minode[Root].refCount = @ + 1]
           w0 == [m |-> m1, s |-> Root, ino |-> 0, ok |-> TRUE]
           w == WalkAll(w0, path.comps)
           g == Getino(x, path)
<1>0. /\ x \in Machines /\ hold \in [Slots -> Nat] /\ hold[Root] >= 2 /\ x.cwd = Root
  BY FirmParts
<1>1. CASE x.st # "up"
  BY <1>1, LastsSelf DEF Getino
<1>2. CASE x.st = "up" /\ path.comps = <<>>
  BY <1>2, LastsSelf, Numbering DEF Getino, Target
<1>3. CASE x.st = "up" /\ path.comps # <<>>
  <2>0. start = Root
    BY <1>0
  <2>1. g = [m |-> Iput(w.m, w.s), ino |-> w.ino]
    BY <1>3, <2>0 DEF Getino, With
  <2>2. Firm(m1, Plus(hold, Root)) /\ Lasts(x, m1, hold) /\ m1.st = "up" /\ m1 \in Machines
    <3>1. Firm(m1, Plus(hold, Root)) /\ Lasts(x, m1, hold) /\ m1.st = x.st
      BY FirmCount
    <3> HIDE DEF m1
    <3> QED BY <1>3, <3>1 DEF Firm
  <2> HIDE DEF m1
  <2>3. w0 \in Trips(x, hold) /\ AtSlash(w0)
    <3>1. Also(m1, hold, Root) = Plus(hold, Root)
      BY <2>2, Numbering DEF Also
    <3> QED BY <2>2, <3>1, Numbering DEF Trips, AtSlash
  <2> HIDE DEF w0
  <2>4. path.comps \in Seq(FileNames)
    BY DEF PathType
  <2>5. /\ w \in Trips(x, hold)
        /\ w.m.st = "up" => w.ino = Target(x, path)
    BY <1>0, <1>3, <2>3, <2>4, TripEnds DEF Target
  <2> HIDE DEF w
  <2>6. /\ Firm(w.m, Also(w.m, hold, w.s)) /\ Lasts(x, w.m, hold)
        /\ w.s \in Slots \cup {NULL} /\ w.ino \in Inos \cup {0}
    BY <2>5 DEF Trips
  <2>7. /\ Firm(Iput(w.m, w.s), hold) /\ Lasts(w.m, Iput(w.m, w.s), hold)
        /\ w.m.st # "up" => Iput(w.m, w.s) = w.m
    BY <1>0, <2>6, FirmIput
  <2>8. Lasts(x, Iput(w.m, w.s), hold)
    BY <2>6, <2>7, LastsOn
  <2> QED BY <1>3, <2>1, <2>5, <2>6, <2>7, <2>8
<1> QED BY <1>1, <1>2, <1>3

\* What a path leads to is /, a file of / or nothing.
LEMMA TargetIs ==
    ASSUME NEW x \in Machines, World(x), NEW path \in PathType
    PROVE  /\ Target(x, path) \in x.imap \cup {0}
           /\ Target(x, path) \notin {0, ROOT} => Cur(x, Target(x, path)).type = "reg"
<1>1. ROOT \in x.imap
  BY DEF World, Ground
<1>2. ASSUME NEW name
      PROVE  /\ Found(Slash(x), name) \in x.imap \cup {0}
             /\ Found(Slash(x), name) \notin {0, ROOT} => Cur(x, Found(Slash(x), name)).type = "reg"
  BY <1>1, FoundIs
<1> QED BY <1>1, <1>2 DEF Target

\* The parent of what a path leads to is / or no directory.
LEMMA TargetParent ==
    ASSUME NEW x \in Machines, World(x), NEW path \in PathType, path.comps # <<>>
    PROVE  /\ Target(x, path) = IF Target(x, Dirname(path)) = ROOT
                                THEN Found(Slash(x), Basename(path)) ELSE 0
<1> DEFINE c == path.comps
           n == Len(c)
           up == IF n = 1 /\ ~ path.abs THEN <<".">> ELSE Front(c)
           All == \A k \in 1 .. n - 1 : c[k] \in Dots
<1>1. c \in Seq(FileNames) /\ n \in Nat /\ n >= 1
  BY DEF PathType
<1>7. \A j \in Nat : j >= 1 => (j = 1 /\ ~ (j > 1)) \/ (j > 1 /\ j # 1)
  OBVIOUS
<1>2. Dirname(path).comps = up
  BY DEF Dirname, PathType
<1>3. Basename(path) = c[n]
  BY DEF Basename, Last
<1>4. Target(x, path) = IF All THEN Found(Slash(x), c[n]) ELSE 0
  BY DEF Target
<1>5. Target(x, Dirname(path)) = ROOT <=> All
  <2>1. CASE n = 1 /\ ~ path.abs
    <3>1. All
      BY <2>1
    <3>2. up = <<".">> /\ up # <<>> /\ Len(up) = 1 /\ up[1] = "."
      BY <2>1
    <3>3. Target(x, Dirname(path)) = Found(Slash(x), ".")
      <4> HIDE DEF up
      <4>1. \A k \in 1 .. Len(up) - 1 : up[k] \in Dots
        BY <3>2
      <4> QED BY <1>2, <3>2, <4>1 DEF Target
    <3>4. Found(Slash(x), ".") = ROOT
      BY FoundIs DEF Dots
    <3> QED BY <3>1, <3>3, <3>4
  <2>2. CASE n = 1 /\ path.abs
    <3>1. All
      BY <2>2
    <3>2. up = <<>>
      BY <1>1, <2>2 DEF Front
    <3> QED BY <1>2, <3>1, <3>2 DEF Target
  <2>3. CASE n > 1
    <3>1. /\ up \in Seq(FileNames) /\ Len(up) = n - 1 /\ up # <<>>
          /\ \A k \in 1 .. n - 1 : up[k] = c[k]
      <4>1. up = SubSeq(c, 1, n - 1)
        <5>1. n # 1
          BY <1>1, <1>7, <2>3
        <5> QED BY <5>1 DEF Front
      <4>2. /\ SubSeq(c, 1, n - 1) \in Seq(FileNames) /\ Len(SubSeq(c, 1, n - 1)) = n - 1
            /\ \A k \in 1 .. n - 1 : SubSeq(c, 1, n - 1)[k] = c[k]
        BY <1>1, <2>3
      <4> HIDE DEF up
      <4>3. up \in Seq(FileNames) /\ Len(up) = n - 1 /\ \A k \in 1 .. n - 1 : up[k] = c[k]
        BY <4>1, <4>2
      <4>4. up # <<>>
        BY <1>1, <2>3, <4>3
      <4> QED BY <4>3, <4>4
    <3> HIDE DEF up
    <3>2. Target(x, Dirname(path)) =
             IF \A k \in 1 .. (n - 1) - 1 : c[k] \in Dots THEN Found(Slash(x), c[n - 1]) ELSE 0
      <4>1. \A k \in 1 .. (n - 1) - 1 : up[k] = c[k]
        BY <1>1, <3>1
      <4>2. up[n - 1] = c[n - 1]
        BY <1>1, <2>3, <3>1
      <4> QED BY <1>2, <3>1, <4>1, <4>2 DEF Target
    <3>3. Found(Slash(x), c[n - 1]) = ROOT <=> c[n - 1] \in Dots
      BY FoundIs, Numbering
    <3>4. All <=> (\A k \in 1 .. (n - 1) - 1 : c[k] \in Dots) /\ c[n - 1] \in Dots
      <4>1. \A k \in 1 .. n - 1 : k \in 1 .. (n - 1) - 1 \/ k = n - 1
        BY <1>1, <2>3
      <4>2. n - 1 \in 1 .. n - 1 /\ \A k \in 1 .. (n - 1) - 1 : k \in 1 .. n - 1
        BY <1>1, <2>3
      <4> QED BY <4>1, <4>2
    <3> HIDE DEF All
    <3>5. CASE All
      BY <3>2, <3>3, <3>4, <3>5
    <3>6. CASE ~ All
      <4>1. CASE \A k \in 1 .. (n - 1) - 1 : c[k] \in Dots
        <5>1. Target(x, Dirname(path)) = Found(Slash(x), c[n - 1]) /\ c[n - 1] \notin Dots
          BY <3>2, <3>4, <3>6, <4>1
        <5> QED BY <3>3, <3>6, <5>1
      <4>2. CASE ~ \A k \in 1 .. (n - 1) - 1 : c[k] \in Dots
        <5>1. Target(x, Dirname(path)) = 0 /\ 0 # ROOT
          BY <3>2, <4>2 DEF ROOT
        <5> QED BY <3>6, <5>1
      <4> QED BY <4>1, <4>2
    <3> QED BY <3>5, <3>6
  <2>4. n = 1 \/ n > 1
    BY <1>1, <1>7
  <2> HIDE DEF up, All
  <2> QED BY <2>1, <2>2, <2>3, <2>4
<1>6. Target(x, Dirname(path)) = ROOT <=> All
  BY <1>5
<1> HIDE DEF All
<1> QED BY <1>3, <1>4, <1>6

\* getino() and iget() of a path.
LEMMA FetchUp ==
    ASSUME NEW x, NEW hold, Firm(x, hold), World(x), NEW path \in PathType
    PROVE  LET f == Fetch(x, path)
           IN  /\ Firm(f.m, Also(f.m, hold, f.s)) /\ Lasts(x, f.m, hold)
               /\ f.s \in Slots \cup {NULL} /\ f.ino \in Inos \cup {0}
               /\ f.m.st = "up" =>
                     /\ x.st = "up" /\ f.ino = Target(x, path)
                     /\ IF f.s = NULL THEN Unused(f.m.minode) = {}
                        ELSE f.m.minode[f.s].ino = f.ino /\ Busy(f.m, f.s)
                     /\ f.s = Root <=> f.ino = ROOT
<1> DEFINE g == Getino(x, path)
<1>1. /\ Firm(g.m, hold) /\ Lasts(x, g.m, hold) /\ g.ino \in Inos \cup {0}
      /\ g.m.st = "up" => x.st = "up" /\ g.ino = Target(x, path)
  BY LookUp
<1> DEFINE f == Fetch(x, path)
<1>2. f = [m |-> Iget(g.m, g.ino), ino |-> g.ino, s |-> IgetPtr(g.m, g.ino)]
  BY DEF Fetch, With
<1> HIDE DEF g, f
<1>3. /\ Firm(f.m, Also(f.m, hold, f.s)) /\ Lasts(g.m, f.m, hold)
      /\ f.s \in Slots \cup {NULL} /\ f.m.st = g.m.st /\ f.ino = g.ino
      /\ f.m.st = "up" /\ f.s # NULL => f.m.minode[f.s].ino = f.ino
      /\ f.m.st = "up" /\ f.s = NULL => Unused(f.m.minode) = {}
  BY <1>1, <1>2, FirmIget
<1>4. Lasts(x, f.m, hold)
  BY <1>1, <1>3, LastsOn
<1>5. ASSUME f.m.st = "up", f.s # NULL PROVE Busy(f.m, f.s)
  <2>1. hold \in [Slots -> Nat] /\ f.s \in Slots
    BY <1>3, <1>5, FirmParts
  <2>2. Also(f.m, hold, f.s)[f.s] > 0
    BY <1>5, <2>1, PlusMore DEF Also
  <2> QED BY <1>3, <2>1, <2>2, FirmParts
<1>6. ASSUME f.m.st = "up" PROVE f.s = Root <=> f.ino = ROOT
  <2>1. f.ino = ROOT => f.s = Root
    BY <1>1, <1>2, SlashPtr
  <2>2. f.m.minode[Root].ino = ROOT /\ Root # NULL
    BY <1>3, FirmParts, Numbering
  <2> QED BY <1>3, <1>6, <2>1, <2>2
<1> QED BY <1>1, <1>3, <1>4, <1>5, <1>6 DEF f

\* Every slot is counted, that of / twice.
Full(m) == \A s \in Slots : m.minode[s].refCount >= IF s = Root THEN 2 ELSE 1

\* What a command of the session leaves: a table that fits the world, or the panic of
\* iget(), which takes more references than there are slots.
Good(n) == /\ n \in Machines
           /\ IF n.st = "down" THEN Full(n) ELSE Firm(n, Pins(Root)) /\ World(n)

\* The references a session has in hand between two commands.
LEMMA PinsRoot ==
    /\ Pins(Root) \in [Slots -> Nat] /\ Pins(Root)[Root] = 2
    /\ \A s \in Slots : s # Root => Pins(Root)[s] = 0
BY Numbering DEF Pins

\* A table without an unused slot is full.
LEMMA FirmFull ==
    ASSUME NEW m, NEW hold, Firm(m, hold), Unused(m.minode) = {}
    PROVE  Full(m)
<1> SUFFICES ASSUME NEW s \in Slots
             PROVE  m.minode[s].refCount >= IF s = Root THEN 2 ELSE 1
  BY DEF Full
<1>1. /\ m.minode[s].refCount \in Int /\ m.minode[s].refCount >= hold[s] /\ hold[s] \in Nat
      /\ hold[Root] >= 2
  BY FirmParts
<1>2. m.minode[s].refCount # 0
  BY DEF Unused
<1> QED BY <1>1, <1>2

\* What a routine leaves of a world is what a command may leave.
LEMMA GoodLasts ==
    ASSUME NEW x, NEW n, NEW hold, NEW more, World(x), Lasts(x, n, hold), Firm(n, more)
    PROVE  Good(n)
<1>1. World(n)
  BY WorldLasts
<1>2. n \in Machines /\ more \in [Slots -> Nat] /\ more[Root] >= 2
  BY FirmParts
<1>3. AtMost(Pins(Root), more)
  BY <1>2, PinsRoot DEF AtMost
<1>4. Firm(n, Pins(Root))
  BY <1>3, PinsRoot, FirmFewer
<1>5. n.st = "down" => Full(n)
  BY FirmFull DEF Firm, Steady
<1> QED BY <1>1, <1>2, <1>4, <1>5 DEF Good

\* The program stops.
LEMMA GoodFail ==
    ASSUME NEW m, NEW hold, Firm(m, hold), World(m), NEW how \in {"down", "hung", "undefined"},
           how = "down" => Unused(m.minode) = {}
    PROVE  Good(Fail(m, how))
BY FirmFail, GoodLasts

\* Another chain in the block of /.
LEMMA FirmDir ==
    ASSUME NEW m, NEW hold, Firm(m, hold), NEW chain \in Chains
    PROVE  LET n == [m EXCEPT !.dir[1] = chain]
           IN  /\ Firm(n, hold) /\ n.st = m.st /\ n.imap = m.imap /\ n.bmap = m.bmap
               /\ n.dir = [m.dir EXCEPT ![1] = chain] /\ n.minode = m.minode
               /\ \A i : Cur(n, i) = Cur(m, i)
<1> DEFINE n == [m EXCEPT !.dir[1] = chain]
<1>0. m \in Machines /\ Steady(m, hold)
  BY DEF Firm
<1>1. /\ n.st = m.st /\ n.imap = m.imap /\ n.bmap = m.bmap /\ n.cwd = m.cwd
      /\ n.dir = [m.dir EXCEPT ![1] = chain] /\ n.minode = m.minode /\ n.itable = m.itable
  BY <1>0 DEF Machines
<1>2. n \in Machines
  BY <1>0 DEF Machines
<1> HIDE DEF n
<1>3. Hands(n, hold) /\ Once(n) /\ Synced(n)
  BY <1>0, <1>1 DEF Steady, Hands, Once, Synced, Busy
<1>4. \A i : Cur(n, i) = Cur(m, i)
  BY <1>1 DEF Cur
<1>5. Firm(n, hold)
  BY <1>0, <1>1, <1>2, <1>3 DEF Firm, Steady
<1> QED BY <1>1, <1>4, <1>5 DEF n

\* enter_child() in /.
LEMMA SlashEnter ==
    ASSUME NEW m, NEW hold, Firm(m, hold), m.st = "up",
           Cur(m, ROOT).type = "dir", Cur(m, ROOT).block[1] = 1,
           Len(Slash(m)) \in 1 .. BlockCap - 1, NEW entry \in EntryType
    PROVE  LET n == EnterChild(m, Root, entry)
           IN  /\ Firm(n, hold) /\ n.st = "up" /\ n.imap = m.imap /\ n.bmap = m.bmap
               /\ n.dir = [m.dir EXCEPT ![1] = Append(Slash(m), entry)]
               /\ n.minode = m.minode
               /\ \A i : Cur(n, i) = Cur(m, i)
<1>1. /\ m \in Machines /\ m.minode[Root].ino = ROOT /\ Busy(m, Root) /\ Once(m)
      /\ Root \in Slots
  BY FirmParts, Numbering DEF Firm, Steady
<1>2. Inode(m, Root) = Cur(m, ROOT)
  BY <1>1, CurIs DEF Holding, Inode
<1>3. ~ Opaque(m, Root)
  BY <1>1, <1>2 DEF Opaque, ROOT
<1>4. m.dir \in [Blks \cup {0} -> Chains] /\ 1 \in Blks
  BY <1>1, GeometryAssumption DEF Machines, Blks
<1>5. Slash(m) \in Chains
  BY <1>4 DEF Slash
<1>6. Append(Slash(m), entry) \in Chains
  BY <1>5 DEF Chains, EntryType
<1>7. EnterChild(m, Root, entry) = [m EXCEPT !.dir[1] = Append(Slash(m), entry)]
  <2>1. Inode(m, Root).block[1] = 1 /\ Inode(m, Root).block[1] # 0
    BY <1>2
  <2>2. Len(m.dir[Inode(m, Root).block[1]]) \in 1 .. BlockCap - 1
    BY <2>1 DEF Slash
  <2>3. EnterChild(m, Root, entry) =
           [m EXCEPT !.dir[Inode(m, Root).block[1]]
                         = Append(m.dir[Inode(m, Root).block[1]], entry)]
    BY <1>1, <1>3, <2>1, <2>2, EnterHere
  <2> QED BY <2>1, <2>3 DEF Slash
<1> DEFINE chain == Append(Slash(m), entry)
           n == [m EXCEPT !.dir[1] = chain]
<1> HIDE DEF chain
<1>8. /\ Firm(n, hold) /\ n.st = m.st /\ n.imap = m.imap /\ n.bmap = m.bmap
      /\ n.dir = [m.dir EXCEPT ![1] = chain] /\ n.minode = m.minode
      /\ \A i : Cur(n, i) = Cur(m, i)
  BY <1>6, FirmDir DEF chain
<1>9. EnterChild(m, Root, entry) = n
  BY <1>7 DEF chain
<1> HIDE DEF n
<1> QED BY <1>8, <1>9 DEF chain

\* Several references to the slots.
LEMMA PlusTwice ==
    ASSUME NEW hold \in [Slots -> Nat], NEW s \in Slots, NEW t \in Slots
    PROVE  Plus(Plus(hold, s), t) = Plus(Plus(hold, t), s)
<1>1. /\ Plus(hold, s) \in [Slots -> Nat] /\ Plus(hold, t) \in [Slots -> Nat]
      /\ Plus(Plus(hold, s), t) \in [Slots -> Nat] /\ Plus(Plus(hold, t), s) \in [Slots -> Nat]
  BY PlusMore
<1>2. ASSUME NEW r \in Slots PROVE Plus(Plus(hold, s), t)[r] = Plus(Plus(hold, t), s)[r]
  <2>1. /\ Plus(hold, s)[r] = IF r = s THEN hold[r] + 1 ELSE hold[r]
        /\ Plus(hold, t)[r] = IF r = t THEN hold[r] + 1 ELSE hold[r]
    BY PlusMore
  <2>2. Plus(Plus(hold, s), t)[r] = IF r = t THEN Plus(hold, s)[r] + 1 ELSE Plus(hold, s)[r]
    BY <1>1, PlusMore
  <2>3. Plus(Plus(hold, t), s)[r] = IF r = s THEN Plus(hold, t)[r] + 1 ELSE Plus(hold, t)[r]
    BY <1>1, PlusMore
  <2> QED BY <2>1, <2>2, <2>3
<1> QED BY <1>1, <1>2

\* The parent of a new name: a name may be entered in / alone.
LEMMA ParentIsSlash ==
    ASSUME NEW x, NEW hold, Firm(x, hold), World(x), NEW path \in PathType, path.comps # <<>>
    PROVE  LET p == NewParent(x, path)
           IN  /\ ~ p.enter => Good(p.m)
               /\ p.enter => /\ p.s = Root /\ p.m.st = "up" /\ Basename(path) \in Names
                             /\ Firm(p.m, Plus(hold, Root)) /\ Lasts(x, p.m, hold)
<1> DEFINE name == Basename(path)
           f == Fetch(x, Dirname(path))
           m1 == CheckDir(f.m, f.s, name)
           more == Also(f.m, hold, f.s)
           p == NewParent(x, path)
<1>0. Dirname(path) \in PathType /\ name \in FileNames
  BY PathParts
<1>1. /\ Firm(f.m, more) /\ Lasts(x, f.m, hold)
      /\ f.s \in Slots \cup {NULL} /\ f.ino \in Inos \cup {0}
      /\ f.m.st = "up" =>
            /\ x.st = "up" /\ f.ino = Target(x, Dirname(path))
            /\ IF f.s = NULL THEN Unused(f.m.minode) = {}
               ELSE f.m.minode[f.s].ino = f.ino /\ Busy(f.m, f.s)
            /\ f.s = Root <=> f.ino = ROOT
  BY <1>0, FetchUp
<1>2. p = [m |-> m1, s |-> f.s, enter |-> m1.st = "up" /\ MayEnter(m1, f.s, name)]
  BY DEF NewParent, With
<1> HIDE DEF f, p, more, name
<1>3. World(f.m) /\ f.m.imap = x.imap /\ x \in Machines /\ f.m \in Machines
  BY <1>1, WorldLasts DEF Lasts, Firm
<1>4. /\ Firm(m1, more) /\ Lasts(f.m, m1, more)
      /\ m1.st = "up" => m1 = f.m /\ f.s # NULL
  <2>1. CASE f.m.st # "up"
    <3>1. m1 = f.m
      BY <2>1 DEF CheckDir, Deref, Fail
    <3> HIDE DEF m1
    <3> QED BY <1>1, <2>1, <3>1, LastsSelf
  <2>2. CASE f.m.st = "up" /\ f.s = NULL
    <3>1. m1 = Fail(f.m, "down")
      BY <2>2 DEF CheckDir, Deref
    <3> HIDE DEF m1
    <3> QED BY <1>1, <2>2, <3>1, FirmFail
  <2>3. CASE f.m.st = "up" /\ f.s # NULL
    <3>1. m1 \in {f.m, Fail(f.m, "undefined"), Fail(f.m, "hung")}
      BY <2>3 DEF CheckDir, Deref, Search
    <3> HIDE DEF m1
    <3> QED BY <1>1, <2>3, <3>1, FirmFail, LastsSelf
  <2> QED BY <2>1, <2>2, <2>3
<1>5. Good(m1)
  <2> HIDE DEF m1
  <2> QED BY <1>3, <1>4, GoodLasts
<1>6. ASSUME m1.st = "up", MayEnter(m1, f.s, name)
      PROVE  f.s = Root /\ name \in Names
  <2>1. m1 = f.m /\ f.s \in Slots /\ f.m.st = "up"
    <3> HIDE DEF m1
    <3> QED BY <1>1, <1>4, <1>6
  <2>2. IsDir(f.m, f.s) /\ SearchIno(f.m, f.s, name) = 0
    BY <1>6, <2>1 DEF MayEnter
  <2>3. m1 = Search(f.m, f.s, name)
    BY <2>1, <2>2, Numbering DEF CheckDir
  <2>4. f.m.minode[f.s].ino = f.ino /\ Busy(f.m, f.s)
    BY <1>1, <2>1, Numbering
  <2>5. f.ino # 0
    <3>1. ASSUME f.ino = 0 PROVE FALSE
      <4>1. Opaque(f.m, f.s)
        BY <2>4, <3>1 DEF Opaque
      <4>2. m1 = Fail(f.m, "undefined")
        BY <2>3, <4>1 DEF Search
      <4> HIDE DEF m1
      <4>3. m1.st # "up"
        BY <1>1, <4>2, FirmFail
      <4> QED BY <1>6, <4>3
    <3> QED BY <3>1
  <2>6. f.ino = ROOT
    <3>1. f.ino \in x.imap \cup {0}
      BY <1>0, <1>1, <1>3, <2>1, TargetIs
    <3>2. ASSUME f.ino # ROOT PROVE FALSE
      <4>1. f.m.minode[f.s].ino \in f.m.imap \ {ROOT}
        BY <1>3, <2>4, <2>5, <3>1, <3>2
      <4>2. ~ IsDir(f.m, f.s)
        BY <1>1, <1>3, <2>1, <2>4, <4>1, FileSearch
      <4> QED BY <2>2, <4>2
    <3> QED BY <3>2
  <2>7. f.s = Root
    BY <1>1, <2>1, <2>6
  <2>8. Found(Slash(f.m), name) = 0
    BY <1>1, <1>3, <2>2, <2>7, SlashSearch
  <2>9. name \notin Dots
    BY <1>3, <2>8, FoundIs DEF ROOT
  <2> QED BY <1>0, <2>7, <2>9 DEF Names, Dots
<1>7. ASSUME m1.st = "up", f.s = Root
      PROVE  Firm(m1, Plus(hold, Root)) /\ Lasts(x, m1, hold)
  <2>1. m1 = f.m
    BY <1>4, <1>7
  <2>2. more = Plus(hold, Root)
    BY <1>7, <2>1, Numbering DEF Also, more
  <2> HIDE DEF m1
  <2> QED BY <1>1, <2>1, <2>2
<1>8. p.m = m1 /\ p.s = f.s /\ (p.enter <=> m1.st = "up" /\ MayEnter(m1, f.s, name))
  BY <1>2
<1> HIDE DEF m1
<1>9. p.enter => /\ p.s = Root /\ p.m.st = "up" /\ name \in Names
                 /\ Firm(p.m, Plus(hold, Root)) /\ Lasts(x, p.m, hold)
  BY <1>6, <1>7, <1>8
<1> QED BY <1>5, <1>8, <1>9 DEF p, name

\* enter_child() in / and iput() of its slot.
LEMMA SlashRelease ==
    ASSUME NEW m, Firm(m, Plus(Pins(Root), Root)), m.st = "up",
           Cur(m, ROOT).type = "dir", Cur(m, ROOT).block[1] = 1,
           Len(Slash(m)) \in 1 .. BlockCap - 1, NEW entry \in EntryType
    PROVE  LET n == EnterAndRelease(m, Root, entry)
           IN  /\ Firm(n, Pins(Root)) /\ n.st # "down"
               /\ n.imap = m.imap /\ n.bmap = m.bmap
               /\ n.dir = [m.dir EXCEPT ![1] = Append(Slash(m), entry)]
               /\ \A i \in m.imap : Cur(n, i) = Cur(m, i)
<1> DEFINE hold == Plus(Pins(Root), Root)
           q == EnterChild(m, Root, entry)
           z == Store(q, Root, Inode(q, Root))
           n == Iput(z, Root)
<1>1. /\ Firm(q, hold) /\ q.st = "up" /\ q.imap = m.imap /\ q.bmap = m.bmap
      /\ q.dir = [m.dir EXCEPT ![1] = Append(Slash(m), entry)]
      /\ \A i : Cur(q, i) = Cur(m, i)
  BY SlashEnter, ZenonT(30)
<1>2. EnterAndRelease(m, Root, entry) = n
  BY <1>1 DEF EnterAndRelease, With
<1> HIDE DEF q
<1>3. /\ q \in Machines /\ Busy(q, Root) /\ Inode(q, Root) \in INODEs
      /\ q.minode[Root].ino = ROOT /\ Inode(q, Root) = Cur(q, ROOT) /\ Root \in Slots
  <2>1. /\ q \in Machines /\ Busy(q, Root) /\ q.minode[Root].INODE \in INODEs
        /\ q.minode[Root].ino = ROOT /\ Root \in Slots
    BY <1>1, FirmParts, Numbering
  <2>2. Once(q)
    BY <1>1 DEF Firm, Steady
  <2>3. Cur(q, ROOT) = q.minode[Root].INODE
    BY <2>1, <2>2, CurIs DEF Holding
  <2> QED BY <2>1, <2>3 DEF Inode
<1>4. /\ Firm(z, hold) /\ z.st = "up"
      /\ z.imap = q.imap /\ z.bmap = q.bmap /\ z.dir = q.dir
      /\ Cur(z, ROOT) = Inode(q, Root)
      /\ \A i : i # ROOT => Cur(z, i) = Cur(q, i)
  <2>1. /\ Firm(z, hold) /\ z.st = "up"
        /\ z.imap = q.imap /\ z.bmap = q.bmap /\ z.dir = q.dir
        /\ Cur(z, q.minode[Root].ino) = Inode(q, Root)
        /\ \A i : i # q.minode[Root].ino => Cur(z, i) = Cur(q, i)
    BY <1>1, <1>3, FirmStore
  <2> HIDE DEF z, hold
  <2> QED BY <1>3, <2>1
<1> HIDE DEF z
<1>5. Also(z, Pins(Root), Root) = hold
  BY <1>4, Numbering DEF Also
<1> HIDE DEF hold
<1>6. /\ Firm(n, Pins(Root)) /\ Lasts(z, n, Pins(Root))
      /\ n.st \in {z.st, "undefined"}
  BY <1>3, <1>4, <1>5, PinsRoot, FirmIput
<1> HIDE DEF n
<1>7. /\ n.imap = z.imap /\ n.bmap = z.bmap /\ n.dir = z.dir
      /\ \A i \in z.imap : Cur(n, i) = Cur(z, i)
  BY <1>6 DEF Lasts
<1>8. \A i \in m.imap : Cur(n, i) = Cur(m, i)
  BY <1>1, <1>3, <1>4, <1>7
<1> QED BY <1>1, <1>2, <1>4, <1>6, <1>7, <1>8

\* A new number in core.
LEMMA NewNumber ==
    ASSUME NEW m, Firm(m, Plus(Pins(Root), Root)), World(m), m.st = "up",
           FreeIno(m) # 0, FreeBlk(m) # 0
    PROVE  LET new == NewMinode(m, "reg", 1)
               ino == FreeIno(m)
               blk == FreeBlk(m)
           IN  /\ new.ino = ino /\ ino \in Inos /\ ino \notin m.imap
               /\ blk \in Blks /\ blk # 1
               /\ new.m.st # "up" => new.m \in Machines /\ new.m.st = "down" /\ Full(new.m)
               /\ new.m.st = "up" =>
                     /\ new.s \in Slots \ {Root} /\ Firm(new.m, Plus(Pins(Root), Root))
                     /\ Busy(new.m, new.s) /\ new.m.minode[new.s].dirty
                     /\ new.m.minode[new.s].ino = ino
                     /\ new.m.imap = m.imap \cup {ino} /\ 1 \in new.m.bmap
                     /\ new.m.dir = m.dir
                     /\ Cur(new.m, ino) = INODE("reg", 1, blk)
                     /\ \A i \in m.imap : Cur(new.m, i) = Cur(m, i)
<1> DEFINE hold == Plus(Pins(Root), Root)
           ino == FreeIno(m)
           blk == FreeBlk(m)
           m0 == Ialloc(m)
           m1 == Balloc(m0)
           t == IgetPtr(m1, ino)
           y == Iget(m, ino)
           n1 == Iget(m1, ino)
           m2 == Deref(n1, t)
           inode == INODE("reg", 1, blk)
           n == Store(m2, t, inode)
           new == NewMinode(m, "reg", 1)
<1>1. /\ new.m = (IF m2.st # "up" THEN m2 ELSE n)
      /\ new.s = t /\ new.ino = ino
  BY DEF NewMinode, With
<1>2. /\ m \in Machines /\ m.imap \subseteq Inos /\ 1 \in m.bmap /\ ROOT \in m.imap
      /\ m.cwd = Root
  BY FirmParts DEF World, Ground
<1>3. ino \in Inos /\ ino \notin m.imap /\ blk \in Blks /\ blk \notin m.bmap
      /\ ino # ROOT /\ blk # 1
  BY <1>2, Free
<1>4. inode \in INODEs
  <2>1. blk \in Blks \cup {0} /\ 1 \in U16 /\ "reg" \in {"none", "reg", "dir", "lnk"}
    BY <1>3 DEF U16
  <2> HIDE DEF blk
  <2> QED BY <2>1, NewINODE
<1>5. hold \in [Slots -> Nat] /\ hold[Root] >= 2 /\ \A r \in Slots : r # Root => hold[r] = 0
  BY PinsRoot, PlusMore, Numbering
<1>6. /\ m0 \in Machines /\ m0.imap = m.imap \cup {ino} /\ m0.minode = m.minode
      /\ m0.dir = m.dir /\ m0.cwd = m.cwd
      /\ m0.bmap = m.bmap /\ m0.itable = m.itable /\ m0.st = "up"
  BY <1>2, <1>3 DEF Ialloc, Machines
<1>7. m1 = [m0 EXCEPT !.bmap = m.bmap \cup {blk}]
  <2>1. FreeBlk(m0) = blk
    BY <1>6 DEF FreeBlk
  <2>2. m1 = [m0 EXCEPT !.bmap = m.bmap \cup ({blk} \cap Blks)]
    BY <1>6, <2>1 DEF Balloc
  <2>3. {blk} \cap Blks = {blk}
    BY <1>3
  <2> QED BY <2>2, <2>3
<1> HIDE DEF m0, blk, ino, hold
<1>8. /\ m1 \in Machines /\ m1.minode = m.minode /\ m1.dir = m.dir
      /\ m1.imap = m.imap \cup {ino} /\ m1.cwd = m.cwd
      /\ m1.bmap = m.bmap \cup {blk} /\ m1.itable = m.itable /\ m1.st = "up"
  <2>1. m.bmap \cup {blk} \subseteq Blks
    BY <1>2, <1>3 DEF Machines
  <2> HIDE DEF m1
  <2> QED BY <1>6, <1>7, <2>1 DEF Machines
<1> HIDE DEF m1, new, inode
<1>9. /\ n1 \in Machines /\ n1.minode = y.minode /\ n1.itable = m.itable
      /\ n1.imap = m.imap \cup {ino} /\ n1.bmap = m.bmap \cup {blk}
      /\ n1.dir = m.dir /\ n1.st = "up" /\ n1.cwd = m.cwd
  <2>1. /\ n1.minode = IgetTable(m1.minode, m1.itable, ino) /\ n1.itable = m1.itable
        /\ n1.imap = m1.imap /\ n1.bmap = m1.bmap /\ n1.cwd = m1.cwd /\ n1.st = m1.st
        /\ n1.dir = m1.dir
    BY <1>3, <1>8, IgetKeeps
  <2>2. y.minode = IgetTable(m.minode, m.itable, ino)
    BY <1>2, <1>3, IgetKeeps
  <2>3. n1 \in Machines
    <3>1. m.minode \in [Slots -> MINODEs] /\ m.itable[ino] \in INODEs
      BY <1>2, <1>3 DEF Machines
    <3>2. IgetTable(m.minode, m.itable, ino) \in [Slots -> MINODEs]
      BY <1>3, <3>1, IgetTableEffect
    <3>3. n1 = [m1 EXCEPT !.minode = IgetTable(m.minode, m.itable, ino)]
      BY <1>8 DEF Iget
    <3> HIDE DEF n1
    <3> QED BY <1>8, <3>2, <3>3 DEF Machines
  <2> HIDE DEF n1, y
  <2> QED BY <1>8, <2>1, <2>2, <2>3
<1>10. t = IgetPtr(m, ino)
  BY <1>8 DEF IgetPtr
<1>11. /\ Firm(y, Also(y, hold, t)) /\ Lasts(m, y, hold)
       /\ t \in Slots \cup {NULL} /\ y.st = "up" /\ y.itable = m.itable
       /\ t # NULL => y.minode[t].ino = ino
       /\ t = NULL => Unused(y.minode) = {}
  BY <1>3, <1>10, FirmIget DEF hold
<1> HIDE DEF n1, t, y
<1>12. CASE t = NULL
  <2>1. m2.st = "down" /\ m2.minode = y.minode /\ m2 \in Machines
    <3>1. m2 = Fail(n1, "down")
      BY <1>12 DEF Deref
    <3> HIDE DEF m2
    <3>2. m2 \in Machines /\ m2.minode = n1.minode
      BY <1>9, <3>1, FailOk
    <3>3. m2.st = "down"
      BY <1>9, <3>1 DEF Fail, Machines
    <3> QED BY <1>9, <3>2, <3>3
  <2> HIDE DEF m2
  <2>2. Full(y)
    BY <1>11, <1>12, FirmFull
  <2>3. Full(m2)
    BY <2>1, <2>2 DEF Full
  <2> QED BY <1>1, <1>3, <2>1, <2>3 DEF ino, blk, new
<1>13. CASE t \in Slots
  <2>1. t # NULL /\ m2 = n1
    BY <1>13, Numbering DEF Deref
  <2> HIDE DEF m2
  <2>2. /\ n \in Machines /\ n.itable = m.itable /\ n.imap = m.imap \cup {ino}
        /\ n.bmap = m.bmap \cup {blk} /\ n.st = "up" /\ n.dir = m.dir /\ n.cwd = m.cwd
        /\ \A r \in Slots : /\ n.minode[r].ino = y.minode[r].ino
                            /\ n.minode[r].refCount = y.minode[r].refCount
                            /\ r # t => n.minode[r] = y.minode[r]
        /\ n.minode[t].INODE = inode /\ n.minode[t].dirty
    BY <1>4, <1>9, <1>13, <2>1, StoreEffect
  <2> HIDE DEF n
  <2>3. new.m = n /\ new.s = t
    BY <1>1, <1>9, <2>1
  <2>4. Also(y, hold, t) = Plus(hold, t)
    BY <1>11, <2>1 DEF Also
  <2>5. /\ Plus(hold, t) \in [Slots -> Nat] /\ AtMost(hold, Plus(hold, t))
        /\ Plus(hold, t)[t] = hold[t] + 1
    BY <1>5, <1>13, PlusMore
  <2>6. Busy(y, t) /\ y.minode[Root].ino = ROOT /\ y.imap = m.imap /\ y.cwd = m.cwd
    <3>1. Plus(hold, t)[t] > 0
      BY <1>5, <1>13, <2>5
    <3>2. y.cwd = Root
      BY <1>11, FirmParts
    <3> QED BY <1>2, <1>11, <1>13, <2>4, <3>1, <3>2, FirmParts DEF Lasts
  <2>7. Firm(y, hold)
    BY <1>5, <1>11, <2>4, <2>5, FirmFewer
  <2>8. /\ Firm(n, hold) /\ Cur(n, ino) = inode
        /\ \A i : i # ino => Cur(n, i) = Cur(y, i)
    <3>1. y.minode[t].ino = ino
      BY <1>11, <2>1
    <3>2. /\ Firm(n, hold) /\ Cur(n, y.minode[t].ino) = n.minode[t].INODE
          /\ \A i : i # y.minode[t].ino => Cur(n, i) = Cur(y, i)
      BY <1>11, <1>13, <2>2, <2>6, <2>7, <3>1, FirmWrite
    <3> QED BY <2>2, <3>1, <3>2
  <2>9. t # Root
    BY <1>3, <1>11, <2>1, <2>6
  <2>10. Busy(n, t) /\ n.minode[t].ino = ino
    BY <1>11, <1>13, <2>1, <2>2, <2>6 DEF Busy
  <2>11. \A i \in m.imap : Cur(n, i) = Cur(m, i)
    BY <1>3, <1>11, <2>8 DEF Lasts
  <2>12. 1 \in n.bmap
    BY <1>2, <2>2
  <2> QED BY <1>1, <1>3, <1>13, <2>2, <2>3, <2>8, <2>9, <2>10, <2>11, <2>12
          DEF ino, blk, new, inode, hold
<1> QED BY <1>11, <1>12, <1>13

\* kcreat() in /.
LEMMA KcreatGood ==
    ASSUME NEW m, Firm(m, Plus(Pins(Root), Root)), World(m), m.st = "up",
           FreeIno(m) # 0, FreeBlk(m) # 0, Len(Slash(m)) < BlockCap, NEW name \in Names
    PROVE  Good(Kcreat(m, Root, name))
<1> DEFINE hold == Plus(Pins(Root), Root)
           new == NewMinode(m, "reg", 1)
           ino == FreeIno(m)
           blk == FreeBlk(m)
           e == Entry(name, ino)
           w == Iput([new.m EXCEPT !.minode[new.s].refCount = 0], new.s)
           r == EnterAndRelease(w, Root, e)
<1>1. /\ new.ino = ino /\ ino \in Inos /\ ino \notin m.imap
      /\ blk \in Blks /\ blk # 1
      /\ new.m.st # "up" => new.m \in Machines /\ new.m.st = "down" /\ Full(new.m)
      /\ new.m.st = "up" =>
            /\ new.s \in Slots \ {Root} /\ Firm(new.m, hold)
            /\ Busy(new.m, new.s) /\ new.m.minode[new.s].dirty
            /\ new.m.minode[new.s].ino = ino
            /\ new.m.imap = m.imap \cup {ino} /\ 1 \in new.m.bmap
            /\ new.m.dir = m.dir
            /\ Cur(new.m, ino) = INODE("reg", 1, blk)
            /\ \A i \in m.imap : Cur(new.m, i) = Cur(m, i)
  BY NewNumber
<1>2. Kcreat(m, Root, name) = IF new.m.st # "up" THEN new.m ELSE r
  <2>1. Kcreat(m, Root, name) = IF new.m.st # "up" THEN new.m
                                ELSE EnterAndRelease(w, Root, Entry(name, new.ino))
    BY DEF Kcreat, With
  <2> HIDE DEF new, ino
  <2> QED BY <1>1, <2>1
<1> HIDE DEF new, ino, blk
<1>3. CASE new.m.st # "up"
  BY <1>1, <1>2, <1>3 DEF Good
<1>4. CASE new.m.st = "up"
  <2>1. hold[new.s] = 0 /\ hold \in [Slots -> Nat] /\ hold[Root] = 3
    <3>1. /\ Pins(Root) \in [Slots -> Nat] /\ Root \in Slots /\ new.s \in Slots
          /\ Pins(Root)[Root] = 2 /\ new.s # Root /\ Pins(Root)[new.s] = 0
      BY <1>1, <1>4, PinsRoot, Numbering
    <3>2. /\ hold \in [Slots -> Nat]
          /\ \A q \in Slots : hold[q] = IF q = Root THEN Pins(Root)[q] + 1 ELSE Pins(Root)[q]
      BY <3>1, PlusMore
    <3> HIDE DEF hold
    <3> QED BY <3>1, <3>2
  <2> HIDE DEF hold
  <2>2. Firm(w, hold) /\ w.st = "up" /\ Lasts(new.m, w, hold)
    <3> DEFINE z == new.m
               s == new.s
    <3>1. /\ Firm(z, hold) /\ z.st = "up" /\ s \in Slots /\ Busy(z, s) /\ hold[s] = 0
          /\ z.minode[s].dirty /\ z.minode[s].ino \in Inos
      BY <1>1, <1>4, <2>1
    <3> HIDE DEF z, s
    <3>2. LET n == Iput([z EXCEPT !.minode[s].refCount = 0], s)
          IN  Firm(n, hold) /\ n.st = "up" /\ Lasts(z, n, hold)
      BY <3>1, FirmForced
    <3> QED BY <3>2 DEF z, s
  <2> HIDE DEF w
  <2>3. /\ w.imap = m.imap \cup {ino} /\ 1 \in w.bmap /\ w.dir = m.dir
        /\ Cur(w, ino) = INODE("reg", 1, blk)
        /\ \A i \in m.imap : Cur(w, i) = Cur(m, i)
    BY <1>1, <1>4, <2>2 DEF Lasts
  <2>4. /\ ROOT \in m.imap /\ Cur(w, ROOT).type = "dir" /\ Cur(w, ROOT).block[1] = 1
        /\ m \in Machines /\ Slash(m) \in Chains /\ Len(Slash(m)) \in Nat
        /\ Len(Slash(m)) >= 2 /\ Slash(w) = Slash(m)
    <3>1. ROOT \in m.imap /\ Cur(m, ROOT).type = "dir" /\ Cur(m, ROOT).block[1] = 1
      BY Numbering DEF World, Ground
    <3>2. Slash(w) = Slash(m)
      BY <2>3 DEF Slash
    <3>3. m \in Machines /\ Slash(m) \in Chains /\ Len(Slash(m)) \in Nat /\ Len(Slash(m)) >= 2
      BY SlashSlot
    <3> QED BY <2>3, <3>1, <3>2, <3>3
  <2>5. Len(Slash(w)) \in 1 .. BlockCap - 1
    BY <2>4, GeometryAssumption
  <2>6. e \in EntryType
    BY <1>1 DEF Entry, EntryType, Names
  <2>7. /\ Firm(r, Pins(Root)) /\ r.st # "down"
        /\ r.imap = w.imap /\ r.bmap = w.bmap
        /\ r.dir = [w.dir EXCEPT ![1] = Append(Slash(w), e)]
        /\ \A i \in w.imap : Cur(r, i) = Cur(w, i)
    <3> HIDE DEF e
    <3> QED BY <2>2, <2>4, <2>5, <2>6, SlashRelease DEF hold
  <2> HIDE DEF r
  <2>8. /\ r.imap = m.imap \cup {ino} /\ 1 \in r.bmap
        /\ r.dir = [m.dir EXCEPT ![1] = Append(Slash(m), Entry(name, ino))]
        /\ Cur(r, ino) = INODE("reg", 1, blk)
        /\ \A i \in m.imap : Cur(r, i) = Cur(m, i)
    BY <2>3, <2>4, <2>7
  <2>9. World(r)
    <3>1. /\ m \in Machines /\ World(m) /\ ino \in Inos /\ ino \notin m.imap /\ name \in Names
          /\ blk \in Blks \cup {0} /\ blk # 1
          /\ r.imap = m.imap \cup {ino} /\ 1 \in r.bmap
          /\ r.dir = [m.dir EXCEPT ![1] = Append(Slash(m), Entry(name, ino))]
          /\ Cur(r, ino) = INODE("reg", 1, blk)
          /\ \A i \in m.imap : Cur(r, i) = Cur(m, i)
      BY <1>1, <2>4, <2>8
    <3> HIDE DEF ino, blk
    <3> QED BY ONLY <3>1, WorldCreated
  <2> QED BY <1>2, <1>4, <2>7, <2>9 DEF Good, Firm
<1> QED BY <1>3, <1>4

\* creat in a session of one directory.
LEMMA CreatGood ==
    ASSUME NEW x, Firm(x, Pins(Root)), World(x), FreeIno(x) # 0, FreeBlk(x) # 0,
           Len(Slash(x)) < BlockCap, NEW path \in PathType, path.comps # <<>>
    PROVE  Good(MyCreat(x, path))
<1> DEFINE p == NewParent(x, path)
<1>1. MyCreat(x, path) = IF p.enter THEN Kcreat(p.m, p.s, Basename(path)) ELSE p.m
  BY DEF MyCreat, With
<1>2. /\ ~ p.enter => Good(p.m)
      /\ p.enter => /\ p.s = Root /\ p.m.st = "up" /\ Basename(path) \in Names
                    /\ Firm(p.m, Plus(Pins(Root), Root)) /\ Lasts(x, p.m, Pins(Root))
  BY ParentIsSlash
<1> HIDE DEF p
<1>3. CASE ~ p.enter
  BY <1>1, <1>2, <1>3
<1>4. CASE p.enter
  <2>1. p.m.imap = x.imap /\ p.m.bmap = x.bmap
    BY <1>2, <1>4 DEF Lasts
  <2>2. FreeIno(p.m) # 0 /\ FreeBlk(p.m) # 0
    BY <2>1 DEF FreeIno, FreeBlk
  <2>3. World(p.m) /\ Slash(p.m) = Slash(x)
    BY <1>2, <1>4, WorldLasts
  <2>4. Good(Kcreat(p.m, Root, Basename(path)))
    BY <1>2, <1>4, <2>2, <2>3, KcreatGood
  <2> QED BY <1>1, <1>2, <1>4, <2>4
<1> QED BY <1>3, <1>4

\* The slot in hand holds the current INODE of its number.
LEMMA CurInHand ==
    ASSUME NEW m, NEW hold, Firm(m, hold), NEW s \in Slots, hold[s] > 0
    PROVE  /\ Busy(m, s) /\ Inode(m, s) \in INODEs /\ m.minode[s].ino \in Inos \cup {0}
           /\ Inode(m, s) = Cur(m, m.minode[s].ino)
<1>1. Busy(m, s) /\ m.minode[s].INODE \in INODEs /\ m.minode[s].ino \in Inos \cup {0}
  BY FirmParts
<1>2. Once(m)
  BY DEF Firm, Steady
<1>3. Cur(m, m.minode[s].ino) = m.minode[s].INODE
  BY <1>1, <1>2, CurIs DEF Holding
<1> QED BY <1>1, <1>3 DEF Inode

\* The last steps of link: the entry, the count, both slots given back.
LEMMA LinkMade ==
    ASSUME NEW m, NEW s \in Slots, s # Root, Firm(m, Plus(Plus(Pins(Root), s), Root)),
           World(m), m.st = "up", Len(Slash(m)) < BlockCap, BlockCap <= 65535,
           NEW i \in m.imap \cup {0}, m.minode[s].ino = i, i # ROOT,
           i # 0 => Cur(m, i).type = "reg", NEW name \in Names
    PROVE  LET m1 == EnterChild(m, Root, Entry(name, i))
           IN  /\ m1.st = "up"
               /\ Good(Iput(Iput(Store(m1, s, GainLink(Inode(m1, s))), s), Root))
<1> DEFINE one == Plus(Pins(Root), Root)
           hold == Plus(Plus(Pins(Root), s), Root)
           e == Entry(name, i)
           m1 == EnterChild(m, Root, e)
           more == GainLink(Inode(m1, s))
           z == Store(m1, s, more)
           y == Iput(z, s)
           r == Iput(y, Root)
<1>0. /\ Pins(Root) \in [Slots -> Nat] /\ Root \in Slots /\ NULL \notin Slots
      /\ Pins(Root)[Root] = 2 /\ Pins(Root)[s] = 0
  BY PinsRoot, Numbering
<1>1. /\ one \in [Slots -> Nat] /\ one[Root] = 3 /\ AtMost(Pins(Root), one)
      /\ hold = Plus(one, s) /\ hold \in [Slots -> Nat] /\ hold[s] = 1 /\ hold[Root] >= 2
  <2>1. /\ one \in [Slots -> Nat] /\ AtMost(Pins(Root), one)
        /\ \A q \in Slots : one[q] = IF q = Root THEN Pins(Root)[q] + 1 ELSE Pins(Root)[q]
    BY <1>0, PlusMore
  <2>2. hold = Plus(one, s)
    BY <1>0, PlusTwice
  <2> HIDE DEF one, hold
  <2>3. /\ Plus(one, s) \in [Slots -> Nat]
        /\ \A q \in Slots : Plus(one, s)[q] = IF q = s THEN one[q] + 1 ELSE one[q]
    BY <2>1, PlusMore
  <2> QED BY <1>0, <2>1, <2>2, <2>3
<1>2. /\ m \in Machines /\ Slash(m) \in Chains /\ Len(Slash(m)) \in 1 .. BlockCap - 1
      /\ Cur(m, ROOT).type = "dir" /\ Cur(m, ROOT).block[1] = 1 /\ m.imap \subseteq Inos
  <2>1. Cur(m, ROOT).type = "dir" /\ Cur(m, ROOT).block[1] = 1
    BY Numbering DEF World, Ground
  <2>2. m \in Machines /\ Slash(m) \in Chains /\ Len(Slash(m)) \in Nat /\ Len(Slash(m)) >= 2
    BY SlashSlot
  <2> QED BY <2>1, <2>2, GeometryAssumption, FirmParts
<1>3. e \in EntryType
  BY <1>2 DEF Entry, EntryType, Names
<1> HIDE DEF e, hold
<1>4. /\ Firm(m1, hold) /\ m1.st = "up" /\ m1.imap = m.imap /\ m1.bmap = m.bmap
      /\ m1.dir = [m.dir EXCEPT ![1] = Append(Slash(m), e)]
      /\ m1.minode = m.minode
      /\ \A j : Cur(m1, j) = Cur(m, j)
  <2>1. Firm(m, hold)
    BY DEF hold
  <2>2. m.st = "up"
    OBVIOUS
  <2> QED BY ONLY <1>2, <1>3, <2>1, <2>2, SlashEnter, ZenonT(30)
<1> HIDE DEF m1
<1>5. /\ Busy(m1, s) /\ Inode(m1, s) \in INODEs /\ m1.minode[s].ino = i
      /\ Inode(m1, s) = Cur(m, i)
  BY <1>1, <1>4, CurInHand
<1>6. more \in INODEs
  BY <1>5, GainLinkType
<1>7. /\ Firm(z, hold) /\ z.st = "up"
      /\ z.imap = m1.imap /\ z.bmap = m1.bmap /\ z.dir = m1.dir
      /\ Cur(z, i) = more
      /\ \A j : j # i => Cur(z, j) = Cur(m1, j)
  <2> HIDE DEF more
  <2> QED BY <1>4, <1>5, <1>6, FirmStore
<1> HIDE DEF z
<1>8. /\ Firm(y, one) /\ Lasts(z, y, one) /\ y.st \in {"up", "undefined"}
  <2>1. Also(z, one, s) = hold
    BY <1>0, <1>1, <1>7 DEF Also
  <2> HIDE DEF one
  <2> QED BY <1>1, <1>7, <2>1, FirmIput, SMTT(30)
<1> HIDE DEF y
<1>9. /\ Firm(r, Pins(Root)) /\ Lasts(y, r, Pins(Root)) /\ r.st # "down"
  <2>1. Firm(y, Pins(Root))
    BY <1>0, <1>1, <1>8, FirmFewer
  <2>2. Firm(y, Also(y, Pins(Root), Root))
    BY <1>8, <2>1 DEF Also
  <2> HIDE DEF one
  <2> QED BY <1>0, <1>8, <2>2, FirmIput
<1> HIDE DEF r
<1>10. /\ r.imap = m.imap /\ r.bmap = m.bmap
       /\ r.dir = [m.dir EXCEPT ![1] = Append(Slash(m), Entry(name, i))]
       /\ \A j \in m.imap : Cur(r, j) = Cur(z, j)
  BY <1>4, <1>7, <1>8, <1>9 DEF Lasts, e
<1>11. i # 0 => Cur(m, i) \in INODEs /\ Cur(r, i) = GainLink(Cur(m, i))
  BY <1>5, <1>7, <1>10
<1>12. \A j \in m.imap : j # i => Cur(r, j) = Cur(m, j)
  BY <1>4, <1>7, <1>10
<1>13. Len(Slash(m)) <= 65535
  BY <1>2, GeometryAssumption
<1> HIDE DEF more
<1>14. World(r)
  <2>1. NameMade(m, r, i, name)
    BY <1>10, <1>11, <1>12 DEF NameMade
  <2> QED BY <1>2, <1>13, <2>1, WorldLinked
<1>15. Good(r)
  BY <1>9, <1>14 DEF Good, Firm
<1> QED BY <1>4, <1>15 DEF r, y, z, m1, e, more

\* What a path leads to is told by the entries of /.
LEMMA TargetSame ==
    ASSUME NEW x, NEW n, Slash(n) = Slash(x), NEW path
    PROVE  Target(n, path) = Target(x, path)
BY DEF Target

\* A slot in hand keeps its number, and its number the current INODE.
LEMMA HandLasts ==
    ASSUME NEW x, NEW n, NEW hold, Lasts(x, n, hold), NEW s \in Slots, hold[s] > 0
    PROVE  n.minode[s].ino = x.minode[s].ino
BY DEF Lasts

\* link in a session of one directory.
LEMMA LinkGood ==
    ASSUME NEW x, Firm(x, Pins(Root)), World(x), Len(Slash(x)) < BlockCap,
           BlockCap <= 65535, NEW old \in PathType, NEW new \in PathType, new.comps # <<>>
    PROVE  Good(MyLink(x, old, new))
<1> DEFINE o == Fetch(x, old)
           ho == Also(o.m, Pins(Root), o.s)
           g == Getino(o.m, new)
           p == Fetch(g.m, Dirname(new))
           hp == Also(p.m, ho, p.s)
           m1 == EnterChild(p.m, p.s, Entry(Basename(new), o.ino))
           r == Iput(Iput(Store(m1, o.s, GainLink(Inode(m1, o.s))), o.s), p.s)
           n == MyLink(x, old, new)
<1>1. n = IF g.m.st # "up" \/ g.ino # 0 \/ o.s = NULL THEN g.m
          ELSE IF IsDir(g.m, o.s) THEN g.m
          ELSE IF p.m.st # "up" \/ p.s = NULL THEN p.m
          ELSE IF ~ IsDir(p.m, p.s) THEN p.m
          ELSE IF m1.st # "up" THEN m1 ELSE r
  BY DEF MyLink, With
<1>2. Dirname(new) \in PathType /\ Basename(new) \in FileNames
  BY PathParts
<1>3. /\ Firm(o.m, ho) /\ Lasts(x, o.m, Pins(Root))
      /\ o.s \in Slots \cup {NULL} /\ o.ino \in Inos \cup {0}
      /\ o.m.st = "up" =>
            /\ x.st = "up" /\ o.ino = Target(x, old)
            /\ IF o.s = NULL THEN Unused(o.m.minode) = {}
               ELSE o.m.minode[o.s].ino = o.ino /\ Busy(o.m, o.s)
            /\ o.s = Root <=> o.ino = ROOT
  <2> DEFINE H == Pins(Root)
  <2>1. Firm(x, H) /\ World(x) /\ old \in PathType
    OBVIOUS
  <2> HIDE DEF H
  <2>2. LET f == Fetch(x, old)
        IN  /\ Firm(f.m, Also(f.m, H, f.s)) /\ Lasts(x, f.m, H)
            /\ f.s \in Slots \cup {NULL} /\ f.ino \in Inos \cup {0}
            /\ f.m.st = "up" =>
                  /\ x.st = "up" /\ f.ino = Target(x, old)
                  /\ IF f.s = NULL THEN Unused(f.m.minode) = {}
                     ELSE f.m.minode[f.s].ino = f.ino /\ Busy(f.m, f.s)
                  /\ f.s = Root <=> f.ino = ROOT
    BY ONLY <2>1, FetchUp
  <2> QED BY <2>2 DEF H
<1> HIDE DEF o, ho
<1>4. World(o.m) /\ Slash(o.m) = Slash(x)
  BY <1>3, WorldLasts
<1>5. /\ Firm(g.m, ho) /\ Lasts(o.m, g.m, ho) /\ g.ino \in Inos \cup {0}
      /\ g.m.st = "up" => o.m.st = "up" /\ g.ino = Target(o.m, new)
  BY <1>3, <1>4, LookUp
<1> HIDE DEF g
<1>6. World(g.m) /\ Slash(g.m) = Slash(x) /\ Good(g.m)
  BY <1>4, <1>5, WorldLasts, GoodLasts
<1>7. /\ Firm(p.m, hp) /\ Lasts(g.m, p.m, ho)
      /\ p.s \in Slots \cup {NULL} /\ p.ino \in Inos \cup {0}
      /\ p.m.st = "up" =>
            /\ g.m.st = "up" /\ p.ino = Target(g.m, Dirname(new))
            /\ IF p.s = NULL THEN Unused(p.m.minode) = {}
               ELSE p.m.minode[p.s].ino = p.ino /\ Busy(p.m, p.s)
            /\ p.s = Root <=> p.ino = ROOT
  BY <1>2, <1>5, <1>6, FetchUp
<1> HIDE DEF p, hp
<1>8. World(p.m) /\ Slash(p.m) = Slash(x) /\ Good(p.m)
  BY <1>6, <1>7, WorldLasts, GoodLasts
<1> HIDE DEF n, r
<1>9. CASE g.m.st # "up" \/ g.ino # 0 \/ o.s = NULL \/ IsDir(g.m, o.s)
  <2>1. n = g.m
    BY <1>1, <1>9
  <2> QED BY <1>6, <2>1 DEF n
<1>10. CASE /\ g.m.st = "up" /\ g.ino = 0 /\ o.s # NULL /\ ~ IsDir(g.m, o.s)
            /\ p.m.st # "up" \/ p.s = NULL \/ ~ IsDir(p.m, p.s)
  <2>1. n = p.m
    BY <1>1, <1>10
  <2> QED BY <1>8, <2>1 DEF n
<1>11. CASE /\ g.m.st = "up" /\ g.ino = 0 /\ o.s # NULL /\ ~ IsDir(g.m, o.s)
            /\ p.m.st = "up" /\ p.s # NULL /\ IsDir(p.m, p.s)
  <2>1. n = IF m1.st # "up" THEN m1 ELSE r
    BY <1>1, <1>11
  <2>2. /\ o.m.st = "up" /\ o.s \in Slots /\ o.m.minode[o.s].ino = o.ino
        /\ p.s \in Slots /\ p.m.minode[p.s].ino = p.ino /\ Busy(p.m, p.s)
        /\ o.ino = Target(x, old) /\ Target(o.m, new) = 0
    BY <1>3, <1>5, <1>7, <1>11
  <2>3. ho = Plus(Pins(Root), o.s) /\ hp = Plus(ho, p.s)
    BY <1>11, <2>2 DEF ho, hp, Also
  <2>4. CASE p.ino = 0
    <3>1. Opaque(p.m, p.s)
      BY <2>2, <2>4 DEF Opaque
    <3>2. m1 = Fail(p.m, "undefined")
      BY <1>11, <3>1 DEF EnterChild
    <3> HIDE DEF m1
    <3>3. Good(m1) /\ m1.st # "up"
      <4>1. Good(Fail(p.m, "undefined"))
        BY <1>7, <1>8, GoodFail
      <4>2. Fail(p.m, "undefined").st # "up"
        BY ONLY <1>7, FirmFail
      <4> QED BY <3>2, <4>1, <4>2
    <3> QED BY <2>1, <3>3 DEF n
  <2>5. CASE p.ino # 0 /\ p.ino # ROOT
    <3>1. p.ino \in g.m.imap
      <4>1. g.m \in Machines
        BY <1>5, FirmParts
      <4> QED BY <1>2, <1>6, <1>7, <1>11, <2>5, <4>1, TargetIs
    <3>2. p.m.imap = g.m.imap
      BY <1>7 DEF Lasts
    <3>3. p.m.minode[p.s].ino \in p.m.imap \ {ROOT}
      BY <2>2, <2>5, <3>1, <3>2
    <3>4. ~ IsDir(p.m, p.s)
      BY <1>7, <1>8, <2>2, <3>3, FileSearch
    <3> QED BY <1>11, <3>4
  <2>6. CASE p.ino = ROOT
    <3> DEFINE i == o.ino
    <3>1. p.s = Root
      BY <1>7, <1>11, <2>6
    <3>2. ho \in [Slots -> Nat] /\ ho[o.s] > 0
      <4>1. /\ Pins(Root) \in [Slots -> Nat] /\ Pins(Root)[o.s] \in Nat
        BY <2>2, PinsRoot
      <4> QED BY <2>2, <2>3, <4>1, PlusMore
    <3>3. g.m.minode[o.s].ino = i /\ p.m.minode[o.s].ino = i
      BY <1>5, <1>7, <2>2, <3>2, HandLasts
    <3>4. i # ROOT
      <4>1. ASSUME i = ROOT PROVE FALSE
        <5>1. o.s = Root
          BY <1>3, <2>2, <4>1
        <5>2. IsDir(g.m, Root)
          BY <1>5, <1>6, SlashSlot
        <5> QED BY <1>11, <5>1, <5>2
      <4> QED BY <4>1
    <3>5. o.s # Root
      BY <1>3, <2>2, <3>4
    <3>6. /\ i \in p.m.imap \cup {0}
          /\ i # 0 => Cur(p.m, i).type = "reg"
      <4>1. x \in Machines
        BY FirmParts
      <4>2. /\ i \in x.imap \cup {0}
            /\ i \notin {0, ROOT} => Cur(x, i).type = "reg"
        BY <2>2, <4>1, TargetIs
      <4>3. p.m.imap = x.imap /\ \A j \in x.imap : Cur(p.m, j) = Cur(x, j)
        BY <1>3, <1>5, <1>7 DEF Lasts
      <4> QED BY <3>4, <4>2, <4>3
    <3>7. Basename(new) \in Names
      <4>1. o.m \in Machines /\ p.m \in Machines
        BY <1>3, <1>7, FirmParts
      <4>2. Target(g.m, Dirname(new)) = ROOT
        BY <1>7, <1>11, <2>6
      <4>3. Target(o.m, Dirname(new)) = ROOT
        BY <1>4, <1>6, <4>2, TargetSame
      <4>4. Found(Slash(o.m), Basename(new)) = 0
        BY <1>4, <2>2, <4>1, <4>3, TargetParent
      <4>5. Basename(new) \notin Dots
        BY <1>4, <4>1, <4>4, FoundIs DEF ROOT
      <4> QED BY <1>2, <4>5 DEF Names, Dots
    <3>8. Firm(p.m, Plus(Plus(Pins(Root), o.s), Root))
      BY <1>7, <2>3, <3>1
    <3>9. m1.st = "up" /\ Good(r)
      <4> DEFINE m == p.m
                 s == o.s
                 name == Basename(new)
      <4>1. /\ s \in Slots /\ s # Root /\ Firm(m, Plus(Plus(Pins(Root), s), Root))
            /\ World(m) /\ m.st = "up" /\ Len(Slash(m)) < BlockCap
            /\ i \in m.imap \cup {0} /\ m.minode[s].ino = i /\ i # ROOT
            /\ name \in Names
        BY <1>8, <1>11, <2>2, <3>3, <3>4, <3>5, <3>6, <3>7, <3>8
      <4>2. i # 0 => Cur(m, i).type = "reg"
        BY <3>6
      <4> HIDE DEF m, s, name, i
      <4>3. LET q == EnterChild(m, Root, Entry(name, i))
            IN  /\ q.st = "up"
                /\ Good(Iput(Iput(Store(q, s, GainLink(Inode(q, s))), s), Root))
        BY <4>1, <4>2, LinkMade
      <4> QED BY <3>1, <4>3 DEF m, s, name, i, r
    <3> QED BY <2>1, <3>9 DEF n
  <2> QED BY <2>4, <2>5, <2>6
<1> QED BY <1>9, <1>10, <1>11

\* The rounds of rm_child(), of which only the first need be told from where it begins.
LEMMA RmSteps ==
    ASSUME NEW W, NEW r \in W, NEW blocks \in [1 .. NDIRECT -> Blks \cup {0}], NEW name,
           NEW F \in [W \X (1 .. NDIRECT) -> W],
           \A x \in W, k \in 1 .. NDIRECT :
              (k = 1 => x = r) => RmBlock(x, blocks[k], name) = F[<<x, k>>]
    PROVE  \E v \in [0 .. NDIRECT -> W] :
              Chain(v, NDIRECT, r, F, RmBlocks(r, blocks, name))
<1> DEFINE N == NDIRECT
           Body(g) == [s \in SUBSET (1 .. N) |->
                          IF s = {} THEN r ELSE RmBlock(g[s \ {Max(s)}], blocks[Max(s)], name)]
           h == CHOOSE g : g = Body(g)
<1>1. N \in Nat /\ DOMAIN blocks = 1 .. N
  BY Numbering
<1>2. \A x \in W, k \in 1 .. N :
         (k = 1 => x = r) => RmBlock(x, blocks[k], name) = F[<<x, k>>]
  OBVIOUS
<1>3. F \in [W \X (1 .. N) -> W]
  OBVIOUS
<1> HIDE DEF N, h
<1>4. PICK g \in [SUBSET (1 .. N) -> W] : Folds(g, N, r, F)
  BY <1>1, <1>3, FoldExists
<1>5. \A s \in (SUBSET (1 .. N)) \ {{}} :
         /\ Max(s) \in 1 .. N /\ s \ {Max(s)} \in SUBSET (1 .. N)
         /\ Max(s) = 1 => s \ {Max(s)} = {}
  <2> SUFFICES ASSUME NEW s \in (SUBSET (1 .. N)) \ {{}}
               PROVE  /\ Max(s) \in 1 .. N /\ s \ {Max(s)} \in SUBSET (1 .. N)
                      /\ Max(s) = 1 => s \ {Max(s)} = {}
    OBVIOUS
  <2>1. Max(s) \in s /\ \A x \in s : x <= Max(s)
    BY <1>1, LastIn
  <2>2. ASSUME Max(s) = 1 PROVE s = {1}
    <3>1. \A x \in s : x \in Nat /\ x >= 1 /\ x <= 1
      BY <1>1, <2>1, <2>2
    <3>2. \A x \in s : x = 1
      BY <3>1
    <3> QED BY <2>1, <2>2, <3>2
  <2> QED BY <2>1, <2>2
<1>6. g = Body(g)
  <2>1. \A s \in (SUBSET (1 .. N)) \ {{}} :
           g[s] = RmBlock(g[s \ {Max(s)}], blocks[Max(s)], name)
    <3> SUFFICES ASSUME NEW s \in (SUBSET (1 .. N)) \ {{}}
                 PROVE  g[s] = RmBlock(g[s \ {Max(s)}], blocks[Max(s)], name)
      OBVIOUS
    <3>1. g[s] = F[<<g[s \ {Max(s)}], Max(s)>>] /\ g[{}] = r
      BY <1>4 DEF Folds
    <3>2. Max(s) \in 1 .. N /\ g[s \ {Max(s)}] \in W /\ (Max(s) = 1 => g[s \ {Max(s)}] = r)
      BY <1>4, <1>5, <3>1
    <3> QED BY <1>2, <3>1, <3>2
  <2>2. g[{}] = r
    BY <1>4 DEF Folds
  <2> QED BY <2>1, <2>2
<1>7. h = Body(h)
  <2> HIDE DEF Body
  <2> QED BY <1>6 DEF h
<1>8. RmBlocks(r, blocks, name) = h[1 .. N]
  BY <1>1 DEF RmBlocks, FoldLeft, MapThenFoldSet, h
<1>9. FoldsIn(h, W, N, r, F)
  <2>1. h[{}] = r
    BY <1>7
  <2>2. ASSUME NEW s \in (SUBSET (1 .. N)) \ {{}}, h[s \ {Max(s)}] \in W
        PROVE  h[s] = F[<<h[s \ {Max(s)}], Max(s)>>]
    <3>1. h[s] = RmBlock(h[s \ {Max(s)}], blocks[Max(s)], name)
      BY <1>7, <2>2
    <3>2. Max(s) \in 1 .. N /\ (Max(s) = 1 => h[s \ {Max(s)}] = r)
      BY <1>5, <2>1, <2>2
    <3> HIDE DEF Body
    <3> QED BY <1>2, <2>2, <3>1, <3>2
  <2> HIDE DEF Body
  <2> QED BY <2>1, <2>2 DEF FoldsIn
<1> HIDE DEF Body
<1>10. PICK v \in [0 .. N -> W] : Chain(v, N, r, F, h[1 .. N])
  BY ONLY <1>1, <1>3, <1>9, r \in W, FoldSteps
<1> QED BY <1>8, <1>10 DEF N

Rm(m) == [m |-> m, last |-> "", cut |-> FALSE]

\* rm_child() of / looks through one block.
LEMMA RmOneBlock ==
    ASSUME NEW r, NEW blocks \in [1 .. NDIRECT -> Blks \cup {0}], NEW name,
           \A k \in 1 .. NDIRECT : blocks[k] = IF k = 1 THEN 1 ELSE 0
    PROVE  RmBlocks(r, blocks, name) = RmBlock(r, 1, name)
<1> DEFINE q == RmBlock(r, 1, name)
           W == {r, q}
           F == [x \in W \X (1 .. NDIRECT) |-> IF x[2] = 1 THEN q ELSE x[1]]
<1>1. F \in [W \X (1 .. NDIRECT) -> W] /\ r \in W
  OBVIOUS
<1>2. \A x \in W, k \in 1 .. NDIRECT : F[<<x, k>>] = IF k = 1 THEN q ELSE x
  OBVIOUS
<1>3. \A x : RmBlock(x, 0, name) = x
  BY DEF RmBlock
<1> HIDE DEF F, W, q
<1>4. ASSUME NEW x \in W, NEW k \in 1 .. NDIRECT, k = 1 => x = r
      PROVE  RmBlock(x, blocks[k], name) = F[<<x, k>>]
  BY <1>2, <1>3, <1>4 DEF q
<1>5. PICK v \in [0 .. NDIRECT -> W] : Chain(v, NDIRECT, r, F, RmBlocks(r, blocks, name))
  BY <1>1, <1>4, RmSteps
<1>6. /\ NDIRECT \in Nat /\ NDIRECT >= 1
      /\ \A k \in 1 .. NDIRECT : v[k] = F[<<v[k - 1], k>>] /\ v[k - 1] \in W
      /\ v[NDIRECT] = RmBlocks(r, blocks, name)
  BY <1>5, Numbering DEF Chain
<1> DEFINE S == {k \in Nat : k + 1 <= NDIRECT => v[k + 1] = q}
<1>7. 0 \in S
  <2>1. 1 \in 1 .. NDIRECT /\ v[1] = F[<<v[1 - 1], 1>>] /\ v[1 - 1] \in W
    BY <1>6
  <2> QED BY <1>2, <2>1
<1>8. ASSUME NEW k \in Nat, k \in S PROVE k + 1 \in S
  <2> SUFFICES ASSUME k + 2 <= NDIRECT PROVE v[k + 2] = q
    OBVIOUS
  <2>1. k + 2 \in 1 .. NDIRECT /\ (k + 2) - 1 = k + 1 /\ k + 2 # 1 /\ v[k + 1] = q
    BY <1>6, <1>8
  <2>2. v[k + 2] = F[<<v[k + 1], k + 2>>] /\ v[k + 1] \in W
    BY <1>6, <2>1
  <2> QED BY <1>2, <2>1, <2>2
<1>9. NDIRECT - 1 \in S
  <2>1. NDIRECT - 1 \in Nat
    BY <1>6
  <2> HIDE DEF S
  <2> QED BY <1>7, <1>8, <2>1, SetInduction
<1> QED BY <1>6, <1>9 DEF q

\* rm_child() in /.
LEMMA RmSlash ==
    ASSUME NEW m, NEW hold, Firm(m, hold), World(m), m.st = "up", NEW name, name \notin Dots
    PROVE  LET n == RmChild(m, Root, name)
               i == Found(Slash(m), name)
           IN  \/ n = Fail(m, "undefined")
               \/ n = m /\ i = 0
               \/ \E k \in 3 .. Len(Slash(m)) :
                     /\ Slash(m)[k].ino = i
                     /\ n = [m EXCEPT !.dir[1] = RemoveAt(Slash(m), k)]
<1> DEFINE D == Slash(m)
           i == Found(D, name)
           at == {k \in DOMAIN D : D[k].name = name}
           k == FirstOf(at)
           q == RmBlock(Rm(m), 1, name)
<1>1. /\ m \in Machines /\ ~ Opaque(m, Root)
      /\ \A l \in 1 .. NDIRECT : Inode(m, Root).block[l] = IF l = 1 THEN 1 ELSE 0
      /\ D \in Chains /\ Len(D) \in Nat /\ Len(D) >= 2
  BY SlashSlot
<1>2. Inode(m, Root).block \in [1 .. NDIRECT -> Blks \cup {0}]
  BY FirmParts, Numbering, InodeParts DEF Inode
<1>3. RmChild(m, Root, name) = q.m
  <2>1. RmChild(m, Root, name) = RmBlocks(Rm(m), Inode(m, Root).block, name).m
    BY <1>1 DEF RmChild, Rm
  <2>2. RmBlocks(Rm(m), Inode(m, Root).block, name) = q
    BY <1>1, <1>2, RmOneBlock
  <2> QED BY <2>1, <2>2
<1>4. m.dir[1] = D
  BY DEF Slash
<1> HIDE DEF D
<1>5. D # <<>> /\ Len(D) # 1
  BY <1>1
<1>6. q.m = IF Cardinality(at) > 1 THEN Fail(m, "undefined")
            ELSE IF at = {} THEN m
            ELSE [m EXCEPT !.dir[1] = RemoveAt(D, k)]
  <2> DEFINE r == Rm(m)
  <2>1. r.m = m /\ r.cut = FALSE /\ r.m.st = "up" /\ 1 # 0
    BY DEF Rm
  <2>2. [r EXCEPT !.m = Fail(r.m, "undefined")].m = Fail(m, "undefined")
    BY <2>1 DEF Rm
  <2> HIDE DEF r
  <2>3. q = IF Cardinality(at) > 1 THEN [r EXCEPT !.m = Fail(r.m, "undefined")]
            ELSE [last |-> Last(D).name, cut |-> at # {} /\ k < Len(D),
                  m |-> IF at = {} THEN r.m ELSE [r.m EXCEPT !.dir[1] = RemoveAt(D, k)]]
    BY <1>4, <1>5, <2>1 DEF RmBlock, r
  <2> HIDE DEF q, at, k
  <2> QED BY <2>1, <2>2, <2>3
<1>7. at = {} => i = 0
  BY DEF Found, Holds
<1>8. ASSUME at # {}
      PROVE  k \in 3 .. Len(D) /\ D[k].ino = i
  <2>1. Holds(D, name)
    BY <1>8 DEF Holds
  <2>2. PICK l \in 3 .. Len(D) : D[l].name = name /\ D[l].ino = i /\ k = l
    BY <1>1, <2>1, FoundIs DEF D
  <2> QED BY <2>2
<1> HIDE DEF q, at, k, i
<1>9. CASE Cardinality(at) > 1
  BY <1>3, <1>6, <1>9 DEF i, D
<1>10. CASE ~ Cardinality(at) > 1 /\ at = {}
  BY <1>3, <1>6, <1>7, <1>10 DEF i, D
<1>11. CASE ~ Cardinality(at) > 1 /\ at # {}
  <2>1. RmChild(m, Root, name) = [m EXCEPT !.dir[1] = RemoveAt(D, k)]
    BY <1>3, <1>6, <1>11
  <2> QED BY <1>8, <1>11, <2>1 DEF i, D
<1> QED BY <1>9, <1>10, <1>11

\* rm_child() in a file: its block is a block of zeros, or it has none.
LEMMA RmFile ==
    ASSUME NEW m, NEW hold, Firm(m, hold), World(m), m.st = "up", NEW s \in Slots,
           Busy(m, s), m.minode[s].ino \in m.imap \ {ROOT}, NEW name
    PROVE  RmChild(m, s, name) \in {m, Fail(m, "hung")}
<1> DEFINE r == Rm(m)
           dead == [r EXCEPT !.m = Fail(m, "hung")]
           W == {r, dead}
           blocks == Inode(m, s).block
           F == [x \in W \X (1 .. NDIRECT) |-> RmBlock(x[1], blocks[x[2]], name)]
<1>1. /\ m \in Machines /\ ~ Opaque(m, s)
      /\ \A k \in 1 .. NDIRECT : m.dir[blocks[k]] = <<>>
  BY FileSearch, FirmParts
<1>2. blocks \in [1 .. NDIRECT -> Blks \cup {0}]
  BY FirmParts, InodeParts DEF Inode
<1>3. Fail(m, "hung").st # "up"
  BY <1>1, FailOk
<1>4. r.m = m /\ dead.m = Fail(m, "hung")
  BY DEF Rm
<1>5. \A k \in 1 .. NDIRECT : /\ RmBlock(r, blocks[k], name) \in W
                              /\ RmBlock(dead, blocks[k], name) = dead
  <2> SUFFICES ASSUME NEW k \in 1 .. NDIRECT
               PROVE  /\ RmBlock(r, blocks[k], name) \in W
                      /\ RmBlock(dead, blocks[k], name) = dead
    OBVIOUS
  <2> DEFINE b == blocks[k]
  <2>1. m.dir[b] = <<>>
    BY <1>1
  <2> HIDE DEF b
  <2>2. RmBlock(r, b, name) = IF b = 0 THEN r ELSE dead
    BY <1>4, <2>1 DEF RmBlock
  <2>3. RmBlock(dead, b, name) = dead
    <3> HIDE DEF dead
    <3> QED BY <1>3, <1>4 DEF RmBlock
  <2> QED BY <2>2, <2>3 DEF b
<1> HIDE DEF r, dead
<1>6. \A x \in W, k \in 1 .. NDIRECT : RmBlock(x, blocks[k], name) \in W
  BY <1>5
<1>7. /\ F \in [W \X (1 .. NDIRECT) -> W] /\ r \in W
      /\ \A x \in W, k \in 1 .. NDIRECT : RmBlock(x, blocks[k], name) = F[<<x, k>>]
  BY <1>6
<1> HIDE DEF F, W, blocks
<1>8. PICK v \in [0 .. NDIRECT -> W] : Chain(v, NDIRECT, r, F, RmBlocks(r, blocks, name))
  BY <1>2, <1>7, RmSteps
<1>9. RmBlocks(r, blocks, name) \in W
  <2>1. NDIRECT \in 0 .. NDIRECT
    BY Numbering
  <2> QED BY <1>8, <2>1 DEF Chain
<1>10. RmChild(m, s, name) = RmBlocks(r, blocks, name).m
  BY <1>1 DEF RmChild, Rm, r, blocks
<1> QED BY <1>4, <1>9, <1>10 DEF W

\* An entry of / is gone, and a link of its file, or the file with its last link.
NameGone(m, n, i, k) ==
    /\ n.imap \in {m.imap, m.imap \ {i}} /\ n.bmap = m.bmap
    /\ n.dir = [m.dir EXCEPT ![1] = RemoveAt(Slash(m), k)]
    /\ i # 0 => Cur(m, i) \in INODEs /\ Cur(n, i) = LoseLink(Cur(m, i))
    /\ i # 0 /\ n.imap # m.imap => LoseLink(Cur(m, i)).links = 0
    /\ \A j \in m.imap : j # i => Cur(n, j) = Cur(m, j)

\* A slot written back with what it has.
LEMMA Rewritten ==
    ASSUME NEW m, NEW hold \in [Slots -> Nat], hold[Root] >= 2, NEW t \in Slots,
           Firm(m, Plus(hold, t)), m.st = "up"
    PROVE  LET n == Iput(Store(m, t, Inode(m, t)), t)
           IN  /\ Firm(n, hold) /\ Lasts(m, n, hold) /\ n.st \in {"up", "undefined"}
               /\ m.minode[t].ino # 0 => n.st = "up"
<1> DEFINE more == Plus(hold, t)
           z == Store(m, t, Inode(m, t))
           n == Iput(z, t)
<1>1. more[t] > 0 /\ more \in [Slots -> Nat] /\ AtMost(hold, more)
  BY PlusMore
<1> HIDE DEF more
<1>2. Firm(m, more)
  BY DEF more
<1>3. /\ Busy(m, t) /\ Inode(m, t) \in INODEs
      /\ Inode(m, t) = Cur(m, m.minode[t].ino)
  BY <1>1, <1>2, CurInHand
<1>4. /\ Firm(z, more) /\ z.st = "up"
      /\ z.imap = m.imap /\ z.bmap = m.bmap /\ z.dir = m.dir
      /\ \A r \in Slots : z.minode[r].ino = m.minode[r].ino
      /\ Cur(z, m.minode[t].ino) = Inode(m, t)
      /\ \A i : i # m.minode[t].ino => Cur(z, i) = Cur(m, i)
  BY <1>2, <1>3, FirmStore
<1> HIDE DEF z
<1>5. Lasts(m, z, hold)
  BY <1>3, <1>4 DEF Lasts
<1>6. Also(z, hold, t) = more
  BY <1>4, Numbering DEF Also, more
<1>7. /\ Firm(n, hold) /\ Lasts(z, n, hold) /\ n.st \in {z.st, "undefined"}
  BY <1>4, <1>6, FirmIput
<1>8. Lasts(m, n, hold)
  <2> HIDE DEF n
  <2> QED BY <1>5, <1>7, LastsOn
<1>9. ASSUME m.minode[t].ino # 0 PROVE n.st = "up"
  <2>1. z \in Machines /\ z.minode[t].ino # 0
    BY <1>4, <1>9, FirmParts
  <2> QED BY <1>4, <2>1, IputEffect
<1> HIDE DEF n
<1> QED BY <1>4, <1>7, <1>8, <1>9 DEF n, z

\* The last steps of unlink.
LEMMA Dropped ==
    ASSUME NEW m, NEW s \in Slots, s # Root, Firm(m, Plus(Pins(Root), s)), m.st = "up",
           NEW i, m.minode[s].ino = i, NEW f, f.s = s, f.ino = i
    PROVE  LET n == DropFile(m, f)
           IN  /\ Firm(n, Pins(Root)) /\ n.st = "up"
               /\ n.bmap = m.bmap /\ n.dir = m.dir
               /\ n.imap \in {m.imap, m.imap \ {i}}
               /\ n.imap # m.imap => LoseLink(Cur(m, i)).links = 0
               /\ Cur(m, i) \in INODEs /\ Cur(n, i) = LoseLink(Cur(m, i))
               /\ \A j : j # i => Cur(n, j) = Cur(m, j)
<1> DEFINE hold == Plus(Pins(Root), s)
           left == LoseLink(Inode(m, s))
           y == [m EXCEPT !.minode[s].INODE = left]
           n == DropFile(m, f)
<1>1. hold[s] > 0 /\ hold \in [Slots -> Nat] /\ AtMost(Pins(Root), hold)
  BY PinsRoot, PlusMore
<1> HIDE DEF hold
<1>2. Firm(m, hold)
  BY DEF hold
<1>3. /\ Busy(m, s) /\ Inode(m, s) \in INODEs /\ Inode(m, s) = Cur(m, i)
      /\ m \in Machines
  BY <1>1, <1>2, CurInHand, FirmParts
<1>4. left \in INODEs /\ left.links \in U16
  <2>1. left \in INODEs
    BY <1>3, GainLinkType
  <2> HIDE DEF left
  <2> QED BY <2>1, InodeParts
<1>5. n = IF left.links > 0 THEN Store(m, s, left) ELSE Idalloc(y, i)
  BY DEF DropFile
<1>6. Firm(m, Pins(Root))
  BY <1>1, <1>2, PinsRoot, FirmFewer
<1>7. CASE left.links > 0
  <2>1. n = Store(m, s, left)
    BY <1>5, <1>7
  <2> DEFINE q == Store(m, s, left)
  <2> HIDE DEF left
  <2>2. /\ Firm(q, Pins(Root)) /\ q.st = "up"
        /\ q.imap = m.imap /\ q.bmap = m.bmap /\ q.dir = m.dir
        /\ Cur(q, m.minode[s].ino) = left
        /\ \A j : j # m.minode[s].ino => Cur(q, j) = Cur(m, j)
    BY <1>3, <1>4, <1>6, FirmStore
  <2> HIDE DEF q, n
  <2>3. n = q
    BY <2>1 DEF q
  <2>4. left = LoseLink(Cur(m, i))
    BY <1>3 DEF left
  <2> QED BY <1>3, <2>2, <2>3, <2>4 DEF n
<1>8. CASE ~ left.links > 0
  <2>1. left.links = 0
    <3> HIDE DEF left
    <3>1. left.links \in U16
      BY ONLY <1>4
    <3>2. left.links \in Nat
      BY ONLY <3>1, CountNat
    <3> QED BY ONLY <1>8, <3>2
  <2>2. /\ n = [y EXCEPT !.imap = y.imap \ {i}]
    <3>1. n = Idalloc(y, i)
      BY <1>5, <1>8
    <3>2. y.st = "up"
      OBVIOUS
    <3> HIDE DEF y, n
    <3> QED BY <3>1, <3>2 DEF Idalloc
  <2>3. /\ y \in Machines /\ y.itable = m.itable /\ y.cwd = m.cwd /\ y.st = "up"
        /\ y.imap = m.imap /\ y.bmap = m.bmap /\ y.dir = m.dir
        /\ \A r \in Slots : r # s => y.minode[r] = m.minode[r]
        /\ y.minode[s].ino = i /\ y.minode[s].refCount = m.minode[s].refCount
        /\ y.minode[s].INODE = left
    <3> HIDE DEF left
    <3>1. m.minode \in [Slots -> MINODEs] /\ m.minode[s] \in MINODEs
      BY <1>3 DEF Machines
    <3>2. [m.minode[s] EXCEPT !.INODE = left] \in MINODEs
      BY <1>4, <3>1 DEF MINODEs
    <3>3. y.minode = [m.minode EXCEPT ![s] = [m.minode[s] EXCEPT !.INODE = left]]
      BY <1>3 DEF Machines
    <3>4. y.minode \in [Slots -> MINODEs]
      BY <3>1, <3>2, <3>3
    <3>5. /\ y.itable = m.itable /\ y.cwd = m.cwd /\ y.st = "up"
          /\ y.imap = m.imap /\ y.bmap = m.bmap /\ y.dir = m.dir
      BY <1>3 DEF Machines
    <3>6. y \in Machines
      BY <1>3, <3>4 DEF Machines
    <3>7. /\ \A r \in Slots : r # s => y.minode[r] = m.minode[r]
          /\ y.minode[s] = [m.minode[s] EXCEPT !.INODE = left]
      BY <3>1, <3>3
    <3>8. /\ [m.minode[s] EXCEPT !.INODE = left].ino = m.minode[s].ino
          /\ [m.minode[s] EXCEPT !.INODE = left].refCount = m.minode[s].refCount
          /\ [m.minode[s] EXCEPT !.INODE = left].INODE = left
      BY <3>1 DEF MINODEs
    <3> HIDE DEF y
    <3> QED BY <3>5, <3>6, <3>7, <3>8
  <2> HIDE DEF y, n
  <2>4. /\ n.itable = m.itable /\ n.cwd = m.cwd /\ n.st = "up"
        /\ n.imap = m.imap \ {i} /\ n.bmap = m.bmap /\ n.dir = m.dir
        /\ n.minode = y.minode /\ n \in Machines
    BY <2>2, <2>3 DEF Machines
  <2>5. /\ Firm(n, Pins(Root)) /\ Cur(n, i) = left
        /\ \A j : j # i => Cur(n, j) = Cur(m, j)
    <3> HIDE DEF left
    <3>1. /\ \A r \in Slots : r # s => n.minode[r] = m.minode[r]
          /\ n.minode[s].ino = m.minode[s].ino
          /\ n.minode[s].refCount = m.minode[s].refCount
          /\ n.minode[s].INODE = left
      BY <2>3, <2>4
    <3>2. /\ n.imap \subseteq m.imap \cup {m.minode[s].ino}
          /\ m.minode[s].ino \notin n.imap /\ n.st # "down"
      BY <2>4
    <3>3. /\ Firm(n, Pins(Root))
          /\ Cur(n, m.minode[s].ino) = n.minode[s].INODE
          /\ \A j : j # m.minode[s].ino => Cur(n, j) = Cur(m, j)
      BY <1>3, <1>6, <2>4, <3>1, <3>2, FirmWrite
    <3> QED BY <3>1, <3>3
  <2>6. left = LoseLink(Cur(m, i))
    BY <1>3
  <2> HIDE DEF left
  <2> QED BY <1>3, <2>1, <2>4, <2>5, <2>6 DEF n
<1> QED BY <1>7, <1>8

\* unlink of what was not found: the last steps work on the number 0.
LEMMA NothingDropped ==
    ASSUME NEW m, NEW s \in Slots, s # Root, NEW t \in Slots,
           Firm(m, Plus(Plus(Pins(Root), s), t)), World(m), m.st = "up",
           m.minode[s].ino = 0, NEW f, f.s = s, f.ino = 0
    PROVE  Good(DropFile(Iput(Store(m, t, Inode(m, t)), t), f))
<1> DEFINE hold == Plus(Pins(Root), s)
           y == Iput(Store(m, t, Inode(m, t)), t)
           n == DropFile(y, f)
<1>1. hold \in [Slots -> Nat] /\ hold[Root] >= 2 /\ hold[s] > 0
  BY PinsRoot, PlusMore, Numbering
<1>2. Firm(y, hold) /\ Lasts(m, y, hold) /\ y.st \in {"up", "undefined"}
  <2> HIDE DEF hold
  <2>1. Firm(m, Plus(hold, t))
    BY DEF hold
  <2> QED BY <1>1, <2>1, Rewritten
<1> HIDE DEF y
<1>3. World(y) /\ Good(y)
  BY <1>2, WorldLasts, GoodLasts
<1>4. CASE y.st # "up"
  <2>1. n = y
    BY <1>4 DEF DropFile
  <2> HIDE DEF n
  <2> QED BY <1>3, <2>1 DEF n, y
<1>5. CASE y.st = "up"
  <2>1. y.minode[s].ino = 0
    BY <1>1, <1>2, HandLasts
  <2>2. /\ Firm(n, Pins(Root)) /\ n.st = "up"
        /\ n.bmap = y.bmap /\ n.dir = y.dir
        /\ n.imap \in {y.imap, y.imap \ {0}}
        /\ \A j : j # 0 => Cur(n, j) = Cur(y, j)
    BY <1>2, <1>5, <2>1, Dropped DEF hold
  <2> HIDE DEF n
  <2>3. 0 \notin y.imap /\ 1 \in y.bmap
    BY <1>2, <1>3, FirmParts, Numbering DEF World, Ground
  <2>4. n.imap = y.imap
    BY <2>2, <2>3
  <2>5. World(n)
    BY <1>3, <2>2, <2>3, <2>4, WorldSame
  <2> QED BY <2>2, <2>5 DEF Good, Firm, n, y
<1> QED BY <1>4, <1>5

\* unlink of an entry of /.
LEMMA EntryDropped ==
    ASSUME NEW x, NEW s \in Slots, s # Root,
           Firm(x, Plus(Plus(Pins(Root), s), Root)), World(x), x.st = "up",
           NEW i, x.minode[s].ino = i, NEW f, f.s = s, f.ino = i,
           NEW k \in 3 .. Len(Slash(x)), Slash(x)[k].ino = i
    PROVE  LET m == [x EXCEPT !.dir[1] = RemoveAt(Slash(x), k)]
           IN  /\ m.st = "up"
               /\ Good(DropFile(Iput(Store(m, Root, Inode(m, Root)), Root), f))
<1> DEFINE hold == Plus(Pins(Root), s)
           more == Plus(hold, Root)
           less == RemoveAt(Slash(x), k)
           m == [x EXCEPT !.dir[1] = less]
           y == Iput(Store(m, Root, Inode(m, Root)), Root)
           n == DropFile(y, f)
<1>1. /\ hold \in [Slots -> Nat] /\ hold[Root] >= 2 /\ hold[s] > 0
      /\ Root \in Slots
  BY PinsRoot, PlusMore, Numbering
<1> HIDE DEF hold
<1>2. Firm(x, more)
  BY DEF hold
<1>3. x \in Machines /\ Slash(x) \in Chains
  BY SlashSlot
<1>4. less \in Chains
  <2>1. k \in DOMAIN Slash(x)
    BY <1>3, ChainParts
  <2> QED BY <1>3, <2>1, Shorter
<1> HIDE DEF less, more
<1>5. /\ Firm(m, more) /\ m.st = "up" /\ m.imap = x.imap /\ m.bmap = x.bmap
      /\ m.dir = [x.dir EXCEPT ![1] = less] /\ m.minode = x.minode
      /\ \A j : Cur(m, j) = Cur(x, j)
  BY <1>2, <1>4, FirmDir, ZenonT(30)
<1> HIDE DEF m
<1>6. /\ Firm(y, hold) /\ Lasts(m, y, hold) /\ y.st = "up"
  <2>1. m.minode[Root].ino # 0
    BY <1>5, FirmParts DEF ROOT
  <2> QED BY <1>1, <1>5, <2>1, Rewritten DEF more
<1> HIDE DEF y
<1>7. y.minode[s].ino = i
  BY <1>1, <1>5, <1>6, HandLasts
<1>8. /\ Firm(n, Pins(Root)) /\ n.st = "up"
      /\ n.bmap = y.bmap /\ n.dir = y.dir
      /\ n.imap \in {y.imap, y.imap \ {i}}
      /\ n.imap # y.imap => LoseLink(Cur(y, i)).links = 0
      /\ Cur(y, i) \in INODEs /\ Cur(n, i) = LoseLink(Cur(y, i))
      /\ \A j : j # i => Cur(n, j) = Cur(y, j)
  BY <1>6, <1>7, Dropped DEF hold
<1> HIDE DEF n
<1>9. /\ y.imap = x.imap /\ y.bmap = x.bmap /\ y.dir = [x.dir EXCEPT ![1] = less]
      /\ \A j \in x.imap : Cur(y, j) = Cur(x, j)
  BY <1>5, <1>6 DEF Lasts
<1>10. i # 0 => i \in x.imap
  <2>1. NamesFile(x, Slash(x)[k])
    BY DEF World, Listing
  <2> QED BY <2>1 DEF NamesFile
<1>11. NameGone(x, n, i, k)
  <2>1. i # 0 => Cur(y, i) = Cur(x, i)
    BY <1>9, <1>10
  <2> QED BY <1>8, <1>9, <2>1 DEF NameGone, less
<1>12. World(n)
  <2>1. /\ n.imap \in {x.imap, x.imap \ {i}} /\ n.bmap = x.bmap
        /\ n.dir = [x.dir EXCEPT ![1] = RemoveAt(Slash(x), k)]
        /\ i # 0 => Cur(x, i) \in INODEs /\ Cur(n, i) = LoseLink(Cur(x, i))
        /\ i # 0 /\ n.imap # x.imap => LoseLink(Cur(x, i)).links = 0
        /\ \A j \in x.imap : j # i => Cur(n, j) = Cur(x, j)
    BY <1>11 DEF NameGone
  <2> QED BY <1>3, <2>1, WorldDropped
<1> QED BY <1>5, <1>8, <1>12 DEF Good, Firm, n, y, m, less

\* unlink in a session of one directory.
LEMMA UnlinkGood ==
    ASSUME NEW x, Firm(x, Pins(Root)), World(x), NEW path \in PathType, path.comps # <<>>
    PROVE  Good(MyUnlink(x, path))
<1> DEFINE f == Fetch(x, path)
           hf == Also(f.m, Pins(Root), f.s)
           p == Fetch(f.m, Dirname(path))
           hp == Also(p.m, hf, p.s)
           m1 == RmChild(p.m, p.s, Basename(path))
           r == DropFile(Iput(Store(m1, p.s, Inode(m1, p.s)), p.s), f)
           n == MyUnlink(x, path)
<1>1. n = IF f.m.st # "up" \/ f.s = NULL THEN f.m
          ELSE IF IsDir(f.m, f.s) THEN f.m
          ELSE IF p.m.st # "up" \/ p.s = NULL THEN Deref(p.m, p.s)
          ELSE IF m1.st # "up" THEN m1 ELSE r
  BY DEF MyUnlink, With
<1>2. Dirname(path) \in PathType /\ Basename(path) \in FileNames
  BY PathParts
<1>3. /\ Firm(f.m, hf) /\ Lasts(x, f.m, Pins(Root))
      /\ f.s \in Slots \cup {NULL} /\ f.ino \in Inos \cup {0}
      /\ f.m.st = "up" =>
            /\ x.st = "up" /\ f.ino = Target(x, path)
            /\ IF f.s = NULL THEN Unused(f.m.minode) = {}
               ELSE f.m.minode[f.s].ino = f.ino /\ Busy(f.m, f.s)
            /\ f.s = Root <=> f.ino = ROOT
  <2> DEFINE H == Pins(Root)
  <2>1. Firm(x, H) /\ World(x) /\ path \in PathType
    OBVIOUS
  <2> HIDE DEF H
  <2>2. LET g == Fetch(x, path)
        IN  /\ Firm(g.m, Also(g.m, H, g.s)) /\ Lasts(x, g.m, H)
            /\ g.s \in Slots \cup {NULL} /\ g.ino \in Inos \cup {0}
            /\ g.m.st = "up" =>
                  /\ x.st = "up" /\ g.ino = Target(x, path)
                  /\ IF g.s = NULL THEN Unused(g.m.minode) = {}
                     ELSE g.m.minode[g.s].ino = g.ino /\ Busy(g.m, g.s)
                  /\ g.s = Root <=> g.ino = ROOT
    BY ONLY <2>1, FetchUp
  <2> QED BY <2>2 DEF H
<1> HIDE DEF f, hf
<1>4. World(f.m) /\ Slash(f.m) = Slash(x) /\ Good(f.m)
  BY <1>3, WorldLasts, GoodLasts
<1>5. /\ Firm(p.m, hp) /\ Lasts(f.m, p.m, hf)
      /\ p.s \in Slots \cup {NULL} /\ p.ino \in Inos \cup {0}
      /\ p.m.st = "up" =>
            /\ f.m.st = "up" /\ p.ino = Target(f.m, Dirname(path))
            /\ IF p.s = NULL THEN Unused(p.m.minode) = {}
               ELSE p.m.minode[p.s].ino = p.ino /\ Busy(p.m, p.s)
            /\ p.s = Root <=> p.ino = ROOT
  BY <1>2, <1>3, <1>4, FetchUp
<1> HIDE DEF p, hp
<1>6. World(p.m) /\ Slash(p.m) = Slash(x) /\ Good(p.m)
  BY <1>4, <1>5, WorldLasts, GoodLasts
<1> HIDE DEF n, r, m1
<1>7. CASE f.m.st # "up" \/ f.s = NULL \/ IsDir(f.m, f.s)
  <2>1. n = f.m
    BY <1>1, <1>7
  <2> QED BY <1>4, <2>1 DEF n
<1>8. CASE /\ f.m.st = "up" /\ f.s # NULL /\ ~ IsDir(f.m, f.s)
           /\ p.m.st # "up" \/ p.s = NULL
  <2>1. n = Deref(p.m, p.s)
    BY <1>1, <1>8
  <2>2. CASE p.m.st # "up" \/ p.s # NULL
    <3>1. n = p.m
      BY <1>8, <2>1, <2>2 DEF Deref, Fail
    <3> QED BY <1>6, <3>1 DEF n
  <2>3. CASE p.m.st = "up" /\ p.s = NULL
    <3>1. n = Fail(p.m, "down")
      BY <2>1, <2>3 DEF Deref
    <3>2. Unused(p.m.minode) = {}
      BY <1>5, <2>3
    <3>3. Good(Fail(p.m, "down"))
      BY <1>5, <1>6, <3>2, GoodFail
    <3> QED BY <3>1, <3>3 DEF n
  <2> QED BY <2>2, <2>3
<1>9. CASE /\ f.m.st = "up" /\ f.s # NULL /\ ~ IsDir(f.m, f.s)
           /\ p.m.st = "up" /\ p.s # NULL
  <2>1. n = IF m1.st # "up" THEN m1 ELSE r
    BY <1>1, <1>9
  <2>2. /\ f.s \in Slots /\ f.m.minode[f.s].ino = f.ino
        /\ p.s \in Slots /\ p.m.minode[p.s].ino = p.ino /\ Busy(p.m, p.s)
        /\ f.ino = Target(x, path) /\ p.ino = Target(f.m, Dirname(path))
    BY <1>3, <1>5, <1>9
  <2>3. hf = Plus(Pins(Root), f.s) /\ hp = Plus(hf, p.s)
    BY <1>9, <2>2 DEF hf, hp, Also
  <2>4. hf \in [Slots -> Nat] /\ hf[f.s] > 0
    <3>1. /\ Pins(Root) \in [Slots -> Nat] /\ Pins(Root)[f.s] \in Nat
      BY <2>2, PinsRoot
    <3> QED BY <2>2, <2>3, <3>1, PlusMore
  <2>5. p.m.minode[f.s].ino = f.ino
    BY <1>5, <2>2, <2>4, HandLasts
  <2>6. f.ino # ROOT /\ f.s # Root
    <3>1. ASSUME f.ino = ROOT \/ f.s = Root PROVE FALSE
      <4>1. f.s = Root
        BY <1>3, <1>9, <3>1
      <4>2. IsDir(f.m, Root)
        BY <1>3, <1>4, SlashSlot
      <4> QED BY <1>9, <4>1, <4>2
    <3> QED BY <3>1
  <2>7. f.ino = IF p.ino = ROOT THEN Found(Slash(x), Basename(path)) ELSE 0
    <3>1. x \in Machines
      BY FirmParts
    <3>2. Target(f.m, Dirname(path)) = Target(x, Dirname(path))
      BY <1>4, TargetSame
    <3> QED BY <2>2, <3>1, <3>2, TargetParent
  <2>8. Firm(p.m, Plus(Plus(Pins(Root), f.s), p.s))
    BY <1>5, <2>3
  <2>9. ASSUME m1 = p.m, f.ino = 0 PROVE Good(n)
    <3> DEFINE m == p.m
               s == f.s
               t == p.s
    <3>1. /\ s \in Slots /\ s # Root /\ t \in Slots
          /\ Firm(m, Plus(Plus(Pins(Root), s), t)) /\ World(m) /\ m.st = "up"
          /\ m.minode[s].ino = 0 /\ f.s = s /\ f.ino = 0
      BY <1>6, <1>9, <2>2, <2>5, <2>6, <2>8, <2>9
    <3> HIDE DEF m, s, t
    <3>2. Good(DropFile(Iput(Store(m, t, Inode(m, t)), t), f))
      BY <3>1, NothingDropped
    <3>3. n = DropFile(Iput(Store(m, t, Inode(m, t)), t), f)
      BY <1>9, <2>1, <2>9 DEF m, s, t, r
    <3> QED BY <3>2, <3>3
  <2>10. ASSUME m1 = Fail(p.m, "undefined") \/ m1 = Fail(p.m, "hung") PROVE Good(n)
    <3>1. /\ Good(Fail(p.m, "undefined")) /\ Good(Fail(p.m, "hung"))
      BY <1>5, <1>6, GoodFail
    <3>2. Fail(p.m, "undefined").st # "up" /\ Fail(p.m, "hung").st # "up"
      BY ONLY <1>5, FirmFail
    <3>3. n = m1
      BY <2>1, <2>10, <3>2
    <3> QED BY <2>10, <3>1, <3>3
  <2>11. CASE p.ino = 0
    <3>1. Opaque(p.m, p.s)
      BY <2>2, <2>11 DEF Opaque
    <3>2. m1 = Fail(p.m, "undefined")
      BY <1>9, <3>1 DEF RmChild, m1
    <3> QED BY <2>10, <3>2 DEF n
  <2>12. CASE p.ino # 0 /\ p.ino # ROOT
    <3>1. p.ino \in f.m.imap
      <4>1. f.m \in Machines
        BY <1>3, FirmParts
      <4> QED BY <1>2, <1>4, <2>2, <2>12, <4>1, TargetIs
    <3>2. p.m.imap = f.m.imap
      BY <1>5 DEF Lasts
    <3>3. p.m.minode[p.s].ino \in p.m.imap \ {ROOT}
      BY <2>2, <2>12, <3>1, <3>2
    <3>4. m1 \in {p.m, Fail(p.m, "hung")}
      BY <1>5, <1>6, <1>9, <2>2, <3>3, RmFile DEF m1
    <3>5. f.ino = 0
      BY <2>7, <2>12
    <3> QED BY <2>9, <2>10, <3>4, <3>5 DEF n
  <2>13. CASE p.ino = ROOT
    <3> DEFINE name == Basename(path)
               i == f.ino
    <3>1. p.s = Root /\ i = Found(Slash(p.m), name)
      BY <1>4, <1>5, <1>6, <1>9, <2>7, <2>13
    <3>2. name \notin Dots
      <4>1. p.m \in Machines
        BY <1>5, FirmParts
      <4> HIDE DEF name
      <4> QED BY <1>6, <2>6, <3>1, <4>1, FoundIs
    <3>3. \/ m1 = Fail(p.m, "undefined")
          \/ m1 = p.m /\ i = 0
          \/ \E k \in 3 .. Len(Slash(p.m)) :
                /\ Slash(p.m)[k].ino = i
                /\ m1 = [p.m EXCEPT !.dir[1] = RemoveAt(Slash(p.m), k)]
      <4>1. m1 = RmChild(p.m, Root, name)
        BY <3>1 DEF m1
      <4> DEFINE q == RmChild(p.m, Root, name)
                 j == Found(Slash(p.m), name)
      <4>2. \/ q = Fail(p.m, "undefined")
            \/ q = p.m /\ j = 0
            \/ \E k \in 3 .. Len(Slash(p.m)) :
                  /\ Slash(p.m)[k].ino = j
                  /\ q = [p.m EXCEPT !.dir[1] = RemoveAt(Slash(p.m), k)]
        BY <1>5, <1>6, <1>9, <3>2, RmSlash
      <4>3. m1 = q /\ i = j
        BY <3>1, <4>1
      <4> HIDE DEF q, j, i
      <4> QED BY <4>2, <4>3
    <3>4. CASE \E k \in 3 .. Len(Slash(p.m)) :
                  /\ Slash(p.m)[k].ino = i
                  /\ m1 = [p.m EXCEPT !.dir[1] = RemoveAt(Slash(p.m), k)]
      <4>1. PICK k \in 3 .. Len(Slash(p.m)) :
                  /\ Slash(p.m)[k].ino = i
                  /\ m1 = [p.m EXCEPT !.dir[1] = RemoveAt(Slash(p.m), k)]
        BY <3>4
      <4> DEFINE y == p.m
                 s == f.s
      <4>2. /\ s \in Slots /\ s # Root /\ Firm(y, Plus(Plus(Pins(Root), s), Root))
            /\ World(y) /\ y.st = "up" /\ y.minode[s].ino = i /\ f.s = s /\ f.ino = i
            /\ k \in 3 .. Len(Slash(y)) /\ Slash(y)[k].ino = i
        BY <1>6, <1>9, <2>2, <2>5, <2>6, <2>8, <3>1, <4>1
      <4> HIDE DEF y, s, i
      <4>3. LET m == [y EXCEPT !.dir[1] = RemoveAt(Slash(y), k)]
            IN  /\ m.st = "up"
                /\ Good(DropFile(Iput(Store(m, Root, Inode(m, Root)), Root), f))
        BY <4>2, EntryDropped
      <4>4. m1 = [y EXCEPT !.dir[1] = RemoveAt(Slash(y), k)]
        BY <4>1 DEF y
      <4>5. m1.st = "up" /\ Good(DropFile(Iput(Store(m1, Root, Inode(m1, Root)), Root), f))
        BY <4>3, <4>4
      <4> QED BY <2>1, <3>1, <4>5 DEF r, n
    <3> HIDE DEF i
    <3> QED BY <2>9, <2>10, <3>3, <3>4 DEF n, i
  <2> QED BY <2>11, <2>12, <2>13
<1> QED BY <1>7, <1>8, <1>9

\* The references to a set of slots, slot by slot in the order a fold takes them.
Pick(s) == CHOOSE x \in s : TRUE
SumsUp(g, count) ==
    \A s \in SUBSET Slots :
        g[s] = IF s = {} THEN 0 ELSE count[Pick(s)] + g[s \ {Pick(s)}]

\* A set of slots less one of them.
LEMMA OneLess ==
    ASSUME NEW s \in SUBSET Slots
    PROVE  /\ IsFiniteSet(s) /\ Cardinality(s) \in Nat
           /\ Cardinality(s) = 0 <=> s = {}
           /\ s # {} => /\ Pick(s) \in s /\ s \ {Pick(s)} \in SUBSET Slots
                        /\ Cardinality(s \ {Pick(s)}) = Cardinality(s) - 1
<1>1. IsFiniteSet(Slots)
  BY NMINODEAssumption, FS_Interval DEF Slots
<1>2. IsFiniteSet(s) /\ Cardinality(s) \in Nat
  BY <1>1, FS_Subset, FS_CardinalityType
<1>3. Cardinality(s) = 0 <=> s = {}
  BY <1>2, FS_EmptySet
<1>4. ASSUME s # {} PROVE Pick(s) \in s
  BY <1>4 DEF Pick
<1>5. ASSUME s # {} PROVE Cardinality(s \ {Pick(s)}) = Cardinality(s) - 1
  BY <1>2, <1>4, <1>5, FS_RemoveElement
<1> QED BY <1>2, <1>3, <1>4, <1>5

\* The function that the fold chooses exists.
LEMMA SumExists ==
    ASSUME NEW count \in [Slots -> Int]
    PROVE  \E g \in [SUBSET Slots -> Int] : SumsUp(g, count)
<1> DEFINE Dom(k) == {s \in SUBSET Slots : Cardinality(s) <= k}
           Step(g, s) == IF s = {} THEN 0 ELSE count[Pick(s)] + g[s \ {Pick(s)}]
           Fine == {k \in Nat : \E g \in [Dom(k) -> Int] : \A s \in Dom(k) : g[s] = Step(g, s)}
<1>1. 0 \in Fine
  <2> DEFINE g == [s \in Dom(0) |-> 0]
  <2>1. \A s \in Dom(0) : s = {}
    <3> SUFFICES ASSUME NEW s \in SUBSET Slots, Cardinality(s) <= 0 PROVE s = {}
      OBVIOUS
    <3>1. Cardinality(s) \in Nat /\ (Cardinality(s) = 0 <=> s = {})
      BY OneLess
    <3> QED BY <3>1
  <2>2. g \in [Dom(0) -> Int] /\ \A s \in Dom(0) : g[s] = Step(g, s)
    BY <2>1
  <2> HIDE DEF g
  <2> QED BY <2>2
<1>2. ASSUME NEW k \in Nat, k \in Fine PROVE k + 1 \in Fine
  <2>1. PICK g \in [Dom(k) -> Int] : \A s \in Dom(k) : g[s] = Step(g, s)
    BY <1>2
  <2> DEFINE h == [s \in Dom(k + 1) |-> Step(g, s)]
  <2>2. ASSUME NEW s \in Dom(k + 1), s # {}
        PROVE  /\ s \ {Pick(s)} \in Dom(k) /\ s \ {Pick(s)} \in Dom(k + 1)
               /\ Pick(s) \in Slots
    <3>1. /\ Cardinality(s) \in Nat /\ Cardinality(s) <= k + 1
          /\ Cardinality(s \ {Pick(s)}) = Cardinality(s) - 1
          /\ s \ {Pick(s)} \in SUBSET Slots /\ Pick(s) \in s
      BY <2>2, OneLess
    <3> QED BY <3>1
  <2>3. h \in [Dom(k + 1) -> Int]
    <3>1. ASSUME NEW s \in Dom(k + 1) PROVE Step(g, s) \in Int
      <4>1. CASE s = {}
        BY <4>1
      <4>2. CASE s # {}
        <5>1. g[s \ {Pick(s)}] \in Int /\ count[Pick(s)] \in Int
          <6> HIDE DEF Dom
          <6> QED BY <2>1, <2>2, <4>2
        <5> HIDE DEF Dom
        <5> QED BY <4>2, <5>1
      <4> QED BY <4>1, <4>2
    <3> HIDE DEF Step, Dom
    <3> QED BY <3>1
  <2>4. \A s \in Dom(k) : h[s] = g[s]
    <3>1. ASSUME NEW s \in Dom(k) PROVE s \in Dom(k + 1)
      <4>1. s \in SUBSET Slots /\ Cardinality(s) <= k
        OBVIOUS
      <4>2. Cardinality(s) \in Nat
        BY <4>1, OneLess
      <4> QED BY <4>1, <4>2
    <3> HIDE DEF Step, Dom
    <3> QED BY <2>1, <3>1
  <2>5. ASSUME NEW s \in Dom(k + 1) PROVE h[s] = Step(h, s)
    <3>1. h[s] = Step(g, s)
      <4> HIDE DEF Step, Dom
      <4> QED OBVIOUS
    <3>2. CASE s = {}
      <4> HIDE DEF h, Dom
      <4> QED BY <3>1, <3>2
    <3>3. CASE s # {}
      <4>1. h[s \ {Pick(s)}] = g[s \ {Pick(s)}]
        <5> HIDE DEF h, Dom
        <5> QED BY <2>2, <2>4, <3>3
      <4> HIDE DEF h, Dom
      <4> QED BY <3>1, <3>3, <4>1
    <3> QED BY <3>2, <3>3
  <2> HIDE DEF h, Dom, Step
  <2> QED BY <2>3, <2>5
<1>3. NMINODE \in Fine
  <2> HIDE DEF Fine
  <2> QED BY <1>1, <1>2, SetInduction, NMINODEAssumption
<1>4. Dom(NMINODE) = SUBSET Slots
  <2>1. \A s \in SUBSET Slots : Cardinality(s) <= NMINODE
    <3>1. IsFiniteSet(Slots) /\ Cardinality(Slots) = NMINODE
      BY NMINODEAssumption, FS_Interval DEF Slots
    <3> QED BY <3>1, FS_Subset
  <2> QED BY <2>1
<1>5. PICK g \in [SUBSET Slots -> Int] : \A s \in SUBSET Slots : g[s] = Step(g, s)
  <2> HIDE DEF Step
  <2> QED BY <1>3, <1>4
<1> QED BY <1>5 DEF SumsUp

\* Every slot counted, and / twice: the sum is larger than the number of the slots.
LEMMA SumAtLeast ==
    ASSUME NEW count \in [Slots -> Int], NEW g, SumsUp(g, count),
           \A s \in Slots : count[s] >= IF s = Root THEN 2 ELSE 1
    PROVE  g[Slots] \in Int /\ g[Slots] >= NMINODE + 1
<1> DEFINE More(s) == Cardinality(s) + (IF Root \in s THEN 1 ELSE 0)
           Fine == {k \in Nat : \A s \in SUBSET Slots :
                        Cardinality(s) = k => g[s] \in Int /\ g[s] >= More(s)}
<1>1. 0 \in Fine
  <2>1. ASSUME NEW s \in SUBSET Slots, Cardinality(s) = 0 PROVE g[s] \in Int /\ g[s] >= More(s)
    <3>1. s = {}
      BY <2>1, OneLess
    <3>2. g[s] = 0
      BY <3>1 DEF SumsUp
    <3>3. More(s) = 0
      BY <2>1, <3>1
    <3> HIDE DEF More
    <3> QED BY <3>2, <3>3
  <2> HIDE DEF More
  <2> QED BY <2>1
<1>2. ASSUME NEW k \in Nat, k \in Fine PROVE k + 1 \in Fine
  <2>1. ASSUME NEW s \in SUBSET Slots, Cardinality(s) = k + 1
        PROVE  g[s] \in Int /\ g[s] >= More(s)
    <3> DEFINE x == Pick(s)
               r == s \ {x}
    <3>1. s # {}
      <4>1. k + 1 # 0
        OBVIOUS
      <4>2. Cardinality(s) = 0 <=> s = {}
        BY OneLess
      <4> HIDE DEF More, x, r
      <4> QED BY ONLY <2>1, <4>1, <4>2
    <3>2. x \in s /\ r \in SUBSET Slots /\ Cardinality(r) = k
      BY <2>1, <3>1, OneLess
    <3>3. g[s] = count[x] + g[r]
      BY <3>1 DEF SumsUp
    <3>4. g[r] \in Int /\ g[r] >= More(r)
      <4> HIDE DEF More, r
      <4> QED BY <1>2, <3>2
    <3>5. count[x] \in Int /\ count[x] >= IF x = Root THEN 2 ELSE 1
      <4> HIDE DEF x
      <4> QED BY <3>2
    <3>6. CASE x = Root
      <4>1. More(r) = k /\ More(s) = k + 2
        BY <2>1, <3>2, <3>6
      <4> HIDE DEF More, r, x
      <4> QED BY <3>3, <3>4, <3>5, <3>6, <4>1
    <3>7. CASE x # Root
      <4>1. Root \in r <=> Root \in s
        BY <3>7
      <4>2. More(r) \in Nat /\ More(s) = More(r) + 1
        <5> HIDE DEF r, x
        <5> QED BY <2>1, <3>2, <4>1
      <4> HIDE DEF More, r, x
      <4> QED BY <3>3, <3>4, <3>5, <3>7, <4>2
    <3> QED BY <3>6, <3>7
  <2> HIDE DEF More
  <2> QED BY <2>1
<1>3. NMINODE \in Fine
  <2> HIDE DEF Fine
  <2> QED BY <1>1, <1>2, SetInduction, NMINODEAssumption
<1>4. Cardinality(Slots) = NMINODE /\ Root \in Slots
  BY NMINODEAssumption, FS_Interval, Numbering DEF Slots
<1>5. More(Slots) = NMINODE + 1
  BY <1>4
<1>6. g[Slots] \in Int /\ g[Slots] >= More(Slots)
  <2> HIDE DEF More
  <2> QED BY <1>3, <1>4
<1> HIDE DEF More
<1> QED BY <1>5, <1>6

\* A machine with a full table is out of the bounds of the instance.
LEMMA FullIsOut ==
    ASSUME NEW m \in Machines, Full(m), MaxRefs \in Nat, MaxRefs <= NMINODE
    PROVE  ~ Bounded(m)
<1> DEFINE count == [s \in Slots |-> m.minode[s].refCount]
           Body(g) == [s \in SUBSET Slots |->
                          IF s = {} THEN 0 ELSE m.minode[Pick(s)].refCount + g[s \ {Pick(s)}]]
           h == CHOOSE g : g = Body(g)
<1>1. m.minode \in [Slots -> MINODEs] /\ DOMAIN m.minode = Slots
  BY DEF Machines
<1>2. count \in [Slots -> Int]
  BY <1>1 DEF MINODEs
<1>3. PICK g \in [SUBSET Slots -> Int] : SumsUp(g, count)
  <2> HIDE DEF count
  <2> QED BY <1>2, SumExists
<1>4. \A s \in (SUBSET Slots) \ {{}} : Pick(s) \in Slots
  BY OneLess
<1>5. g = Body(g)
  BY <1>3, <1>4 DEF SumsUp
<1> HIDE DEF h
<1>6. h = Body(h)
  <2> HIDE DEF Body
  <2> QED BY <1>5 DEF h
<1>7. References(m) = h[Slots]
  BY <1>1 DEF References, FoldFunction, FoldFunctionOnSet, MapThenFoldSet, h, Pick
<1>8. SumsUp(h, count)
  BY <1>4, <1>6 DEF SumsUp
<1>9. \A s \in Slots : count[s] >= IF s = Root THEN 2 ELSE 1
  BY DEF Full
<1> HIDE DEF count, Body
<1>10. h[Slots] \in Int /\ h[Slots] >= NMINODE + 1
  BY <1>2, <1>8, <1>9, SumAtLeast
<1>11. ~ (References(m) <= MaxRefs)
  BY <1>7, <1>10, NMINODEAssumption
<1> QED BY <1>11 DEF Bounded

-----------------------------------------------------------------------------
(* The session between two commands.                                       *)

\* The commands of the session, at most as many references as there are slots, so that
\* iget() never panics, room in the block of /, and no count at the end of its range.
Linking == /\ Workload \subseteq {"creat", "link", "unlink"}
           /\ MaxRefs \in Nat /\ MaxRefs <= NMINODE
           /\ Roomy /\ BlockCap <= 65535

LinkInv == /\ SpaceInv /\ Room(Here) /\ World(Here)
           /\ st # "down" => Steady(Here, Pins(Root))

\* Machines with the same slots in use, disk and bitmaps have the same world.
Agree(m, n) ==
    /\ n.imap = m.imap /\ n.bmap = m.bmap /\ n.dir = m.dir /\ m.imap \subseteq Inos
    /\ \A i \in Inos : n.itable[i] = m.itable[i]
    /\ \A s \in Slots : n.minode[s].refCount = m.minode[s].refCount
    /\ \A s \in Slots : Busy(m, s) => n.minode[s] = m.minode[s]

\* That is so for the current INODE of every number,
LEMMA AgreeCur ==
    ASSUME NEW m, NEW n, Agree(m, n)
    PROVE  \A i \in Inos : Cur(n, i) = Cur(m, i)
<1> SUFFICES ASSUME NEW i \in Inos PROVE Cur(n, i) = Cur(m, i)
  OBVIOUS
<1> DEFINE S == InCore(m.minode, i)
           T == InCore(n.minode, i)
<1>1. S = T
  BY DEF Agree, InCore, Busy
<1>2. CASE S = {}
  BY <1>1, <1>2 DEF Agree, Cur
<1>3. CASE S # {}
  <2>1. S \subseteq Nat
    BY Numbering DEF InCore
  <2>2. FirstOf(S) \in S
    <3> HIDE DEF S
    <3> QED BY <1>3, <2>1, FirstIn
  <2>3. FirstOf(S) \in Slots /\ Busy(m, FirstOf(S))
    BY <2>2 DEF InCore, Busy
  <2>4. Cur(n, i) = n.minode[FirstOf(S)].INODE /\ Cur(m, i) = m.minode[FirstOf(S)].INODE
    BY <1>1, <1>3 DEF Cur
  <2> QED BY <2>3, <2>4 DEF Agree
<1> QED BY <1>2, <1>3

\* for the world,
LEMMA AgreeWorld ==
    ASSUME NEW m, NEW n, Agree(m, n), World(m)
    PROVE  World(n)
<1>1. \A i \in m.imap : Cur(n, i) = Cur(m, i)
  BY AgreeCur DEF Agree
<1>2. n.imap = m.imap /\ n.dir = m.dir /\ 1 \in n.bmap
  BY DEF Agree, World, Ground
<1> QED BY <1>1, <1>2, WorldSame

\* and for the table.
LEMMA AgreeSteady ==
    ASSUME NEW m, NEW n, Agree(m, n), NEW hold, Steady(m, hold), n.cwd = m.cwd, n.st = m.st
    PROVE  Steady(n, hold)
<1>1. Hands(n, hold)
  BY DEF Agree, Steady, Hands
<1>2. \A s \in Slots : Busy(n, s) = Busy(m, s)
  BY DEF Agree, Busy
<1>3. Once(n)
  BY <1>2 DEF Agree, Steady, Once
<1>4. Synced(n)
  BY <1>2 DEF Agree, Steady, Synced
<1>5. Unused(n.minode) = Unused(m.minode)
  BY DEF Agree, Unused
<1>6. Busy(m, Root)
  <2>1. m.minode[Root].refCount >= hold[Root] /\ hold[Root] >= 2 /\ hold[Root] \in Nat
    BY Numbering DEF Steady, Hands
  <2>2. ~ (0 >= hold[Root])
    BY <2>1
  <2> QED BY <2>1, <2>2 DEF Busy
<1>7. n.minode[Root].ino = ROOT
  BY <1>6, Numbering DEF Agree, Steady
<1> QED BY <1>1, <1>3, <1>4, <1>5, <1>7 DEF Steady

\* A command starts on the machine of the variables.
LEMMA NowFirm ==
    ASSUME LinkInv, st # "down", NEW j \in Junk
    PROVE  /\ Firm(Now(j), Pins(Root)) /\ World(Now(j))
           /\ FreeIno(Now(j)) # 0 /\ FreeBlk(Now(j)) # 0 /\ Len(Slash(Now(j))) < BlockCap
<1> DEFINE m == Now(j)
<1>1. m \in Machines
  <2>1. Ok(m, Pins(cwd), cwd, minode[cwd].ino)
    BY NowOk DEF LinkInv
  <2> HIDE DEF m
  <2> QED BY <2>1, Held
<1>2. /\ m.minode = minode /\ m.imap = imap /\ m.bmap = bmap /\ m.dir = dir
      /\ m.cwd = cwd /\ m.st = st /\ \A i \in Inos : m.itable[i] = itable[i]
  BY Numbering DEF Now
<1> HIDE DEF m
<1>3. imap \subseteq Inos
  BY HereParts DEF LinkInv, TypeOK
<1>4. Agree(Here, m)
  BY <1>2, <1>3, HereIs DEF Agree
<1>5. World(m)
  BY <1>4, AgreeWorld DEF LinkInv
<1>6. Steady(m, Pins(Root))
  BY <1>2, <1>4, HereIs, AgreeSteady DEF LinkInv
<1>7. FreeIno(m) # 0 /\ FreeBlk(m) # 0
  BY <1>2, HereIs DEF LinkInv, Room, FreeIno, FreeBlk
<1>8. Len(Slash(m)) < BlockCap
  <2>1. 1 \in Blks
    BY GeometryAssumption DEF Blks
  <2> QED BY <1>2, <2>1, HereIs DEF LinkInv, Room, Slash
<1> QED BY <1>1, <1>5, <1>6, <1>7, <1>8 DEF Firm, m

\* And ends with what it leaves.
LEMMA LeavesLinked ==
    ASSUME Linking, SpaceInv', NEW m, Good(m), Leaves(m)
    PROVE  LinkInv'
<1> DEFINE h == Here'
<1>1. m \in Machines /\ Bounded(m)
  BY DEF Good, Leaves
<1>2. m.st # "down" /\ Firm(m, Pins(Root)) /\ World(m)
  <2>1. MaxRefs \in Nat /\ MaxRefs <= NMINODE
    BY DEF Linking
  <2>2. ~ Full(m)
    BY ONLY <1>1, <2>1, FullIsOut
  <2> QED BY <2>2 DEF Good
<1>3. /\ h.minode = Forget(m) /\ h.cwd = m.cwd /\ h.st = m.st
      /\ h.imap = m.imap /\ h.bmap = m.bmap /\ h.dir = m.dir
      /\ \A i \in Inos : h.itable[i] = m.itable[i]
  BY <1>2 DEF Leaves, Here
<1>4. st' = m.st
  BY DEF Leaves
<1> HIDE DEF h
<1>5. Agree(m, h)
  <2>1. \A s \in Slots : \/ Forget(m)[s] = m.minode[s]
                         \/ ~ Busy(m, s) /\ Forget(m)[s].refCount = 0
    BY <1>1, ForgetEffect
  <2>2. m.imap \subseteq Inos
    BY <1>1 DEF Machines
  <2> QED BY <1>3, <2>1, <2>2 DEF Agree, Busy
<1>6. World(h)
  BY <1>2, <1>5, AgreeWorld
<1>7. Steady(h, Pins(Root))
  BY <1>2, <1>3, <1>5, AgreeSteady DEF Firm
<1>8. Room(h)
  <2>1. Roomy
    BY DEF Linking
  <2>2. Room(m)
    BY ONLY <1>1, <2>1, RoomLeft
  <2> QED BY <1>3, <2>2 DEF Room, FreeIno, FreeBlk
<1> QED BY <1>6, <1>7, <1>8 DEF LinkInv, h

\* The world of a process that is not there is that of the disk.
LEMMA DiskWorld ==
    ASSUME minode = Blank, NEW i
    PROVE  Cur(Here, i) = itable[i]
<1>1. InCore(Blank, i) = {}
  BY BlankEmpty DEF InCore
<1> QED BY <1>1, HereIs DEF Cur

\* A disk that mkfs made.
LEMMA LinkInit ==
    ASSUME Init, Roomy
    PROVE  LinkInv
<1> DEFINE dots == <<Entry(".", ROOT), Entry("..", ROOT)>>
<1>1. /\ minode = Blank /\ imap = 1 .. ROOT /\ bmap = {1} /\ st = "down"
      /\ dir = [b \in Blks \cup {0} |-> IF b = 1 THEN dots ELSE <<>>]
      /\ itable = [i \in Inos |-> IF i = ROOT THEN INODE("dir", 2, 1)
                                  ELSE INODE("none", 0, 0)]
  BY DEF Init
<1>2. SpaceInv /\ Room(Here)
  BY SpaceInit, TreeInit DEF TreeInv
<1>3. imap \subseteq Inos
  BY <1>2, HereParts DEF TypeOK
<1>4. /\ itable[ROOT].type = "dir"
      /\ \A k \in 1 .. NDIRECT : itable[ROOT].block[k] = IF k = 1 THEN 1 ELSE 0
      /\ \A i \in Inos : i # ROOT => /\ itable[i].type = "none"
                                     /\ \A k \in 1 .. NDIRECT : itable[i].block[k] = 0
  <2> DEFINE one == 1
             zero == 0
             two == 2
  <2>1. one \in Blks \cup {0} /\ zero \in Blks \cup {0} /\ two \in U16 /\ zero \in U16
    BY GeometryAssumption DEF U16, Blks
  <2>2. "dir" \in {"none", "reg", "dir", "lnk"} /\ "none" \in {"none", "reg", "dir", "lnk"}
    OBVIOUS
  <2>3. itable = [i \in Inos |-> IF i = ROOT THEN INODE("dir", two, one)
                                 ELSE INODE("none", zero, zero)]
    BY <1>1
  <2>4. \A k \in 1 .. NDIRECT : k # 1 => (IF k = 1 THEN 1 ELSE 0) = 0
    OBVIOUS
  <2> HIDE DEF one, zero, two
  <2>5. /\ INODE("dir", two, one).type = "dir"
        /\ \A k \in 1 .. NDIRECT : INODE("dir", two, one).block[k] = IF k = 1 THEN one ELSE 0
        /\ INODE("none", zero, zero).type = "none"
        /\ \A k \in 1 .. NDIRECT : INODE("none", zero, zero).block[k] = IF k = 1 THEN zero ELSE 0
    BY <2>1, <2>2, NewINODE
  <2> QED BY <2>3, <2>5, Numbering DEF one, zero
<1>5. \A i : Cur(Here, i) = itable[i]
  BY <1>1, DiskWorld
<1>6. 1 \in Blks
  BY GeometryAssumption DEF Blks
<1>7. Slash(Here) = dots /\ Len(dots) = 2 /\ 3 .. Len(dots) = {}
  <2>1. dir[1] = dots
    BY <1>1, <1>6
  <2> QED BY <2>1, HereIs DEF Slash
<1>8. dots[1] = Entry(".", ROOT) /\ dots[2] = Entry("..", ROOT)
  OBVIOUS
<1>9. \A b \in (Blks \cup {0}) \ {1} : dir[b] = <<>>
  BY <1>1
<1> HIDE DEF dots
<1>10. Ground(Here)
  <2>1. ROOT \in imap /\ 1 \in bmap
    BY <1>1 DEF ROOT
  <2>2. 1 # 0
    OBVIOUS
  <2> QED BY <1>3, <1>4, <1>5, <1>9, <2>1, <2>2, HereIs DEF Ground
<1>11. Listing(Here)
  BY <1>7, <1>8 DEF Listing
<1>12. Counts(Here)
  BY <1>3, <1>4, <1>5, HereIs DEF Counts
<1> QED BY <1>1, <1>2, <1>10, <1>11, <1>12 DEF LinkInv, World

\* mount_root() and main() load / into the first slot, twice.
LEMMA BootTable ==
    ASSUME NEW disk, disk[ROOT] \in INODEs
    PROVE  LET b == IgetTable(IgetTable(Blank, disk, ROOT), disk, ROOT)
           IN  /\ b[Root].ino = ROOT /\ b[Root].refCount = 2 /\ b[Root].INODE = disk[ROOT]
               /\ \A s \in Slots : s # Root => b[s].refCount = 0
<1> DEFINE a == IgetTable(Blank, disk, ROOT)
           b == IgetTable(a, disk, ROOT)
           y == disk[ROOT]
<1>1. ROOT \in Inos \cup {0} /\ y \in INODEs
  BY Numbering
<1>2. /\ a \in [Slots -> MINODEs]
      /\ a[Root].ino = ROOT /\ a[Root].refCount = 1 /\ a[Root].INODE = y
      /\ \A r \in Slots : r # Root => a[r] = Blank[r]
  <2>1. InCore(Blank, ROOT) = {} /\ Unused(Blank) = Slots
    BY BlankEmpty DEF InCore, Unused
  <2>2. IgetSlot(Blank, ROOT) = Root /\ Root # NULL
    BY <2>1, FirstSlot, Numbering DEF IgetSlot
  <2>3. \A r \in Slots : Blank[r].refCount = 0
    BY BlankEmpty
  <2> HIDE DEF a, y
  <2> QED BY <1>1, <2>2, <2>3, BlankTypes, IgetTableEffect DEF a, y
<1> HIDE DEF a, y
<1>3. InCore(a, ROOT) = {Root}
  <2>1. \A r \in Slots : a[r].refCount # 0 <=> r = Root
    <3>1. \A r \in Slots : r # Root => a[r].refCount = 0
      BY <1>2, BlankEmpty
    <3> QED BY <1>2, <3>1
  <2> QED BY <1>2, <2>1, Numbering DEF InCore
<1>4. IgetSlot(a, ROOT) = Root /\ Root # NULL
  <2>1. IgetSlot(a, ROOT) \in {Root}
    BY <1>3, IgetSlotCases
  <2> QED BY <2>1, Numbering
<1>5. a[Root].refCount # 0
  BY <1>2
<1>6. /\ b[Root].ino = ROOT /\ b[Root].refCount = 2 /\ b[Root].INODE = y
      /\ \A r \in Slots : r # Root => b[r] = Blank[r]
  BY <1>1, <1>2, <1>4, <1>5, IgetTableEffect DEF b, y
<1> HIDE DEF b
<1> QED BY <1>6, BlankEmpty DEF a, b, y

\* The program starts.
LEMMA BootLinked ==
    ASSUME LinkInv, SpaceInv', Boot
    PROVE  LinkInv'
<1> DEFINE h == Here'
           b == IgetTable(IgetTable(Blank, itable, ROOT), itable, ROOT)
<1>1. minode = Blank /\ itable[ROOT] \in INODEs /\ imap \subseteq Inos
  <2>1. TypeOK /\ Kept(Here) /\ Here.st = "down"
    BY HereParts, HereIs DEF LinkInv, SpaceInv, Boot
  <2> QED BY <2>1, Numbering, HereIs DEF Kept, TypeOK
<1>2. /\ h.minode = b /\ h.cwd = Root /\ h.st = "up" /\ h.itable = itable
      /\ h.imap = imap /\ h.bmap = bmap /\ h.dir = dir
  BY DEF Boot, Here
<1>3. /\ b[Root].ino = ROOT /\ b[Root].refCount = 2 /\ b[Root].INODE = itable[ROOT]
      /\ \A s \in Slots : s # Root => b[s].refCount = 0
  BY <1>1, BootTable
<1> HIDE DEF h, b
<1>4. \A s \in Slots : Busy(h, s) <=> s = Root
  BY <1>2, <1>3 DEF Busy
<1>5. Once(h)
  BY <1>4 DEF Once
<1>6. \A i : Cur(h, i) = itable[i]
  <2> SUFFICES ASSUME NEW i PROVE Cur(h, i) = itable[i]
    OBVIOUS
  <2>1. CASE i = ROOT
    <3>1. Holding(h, Root, ROOT)
      BY <1>2, <1>3, <1>4, Numbering DEF Holding
    <3> QED BY <1>2, <1>3, <1>5, <2>1, <3>1, Numbering, CurIs
  <2>2. CASE i # ROOT
    <3>1. \A s \in Slots : ~ Holding(h, s, i)
      BY <1>2, <1>3, <1>4, <2>2 DEF Holding
    <3> QED BY <1>2, <3>1, CurIs
  <2> QED BY <2>1, <2>2
<1>7. \A i : Cur(Here, i) = itable[i]
  BY <1>1, DiskWorld
<1>8. World(h)
  <2>1. World(Here)
    BY DEF LinkInv
  <2>2. h.imap = Here.imap /\ h.dir = Here.dir /\ 1 \in h.bmap
    BY <1>2, <2>1, HereIs DEF World, Ground
  <2>3. \A i \in Here.imap : Cur(h, i) = Cur(Here, i)
    BY <1>6, <1>7
  <2> QED BY <2>1, <2>2, <2>3, WorldSame
<1>9. Steady(h, Pins(Root))
  <2>1. Hands(h, Pins(Root))
    BY <1>2, <1>3, PinsRoot DEF Hands
  <2>2. Synced(h)
    BY <1>2, <1>3, <1>4 DEF Synced
  <2> QED BY <1>2, <1>3, <1>5, <2>1, <2>2 DEF Steady
<1>10. Room(h)
  BY <1>2, HereIs DEF LinkInv, Room, FreeIno, FreeBlk
<1> QED BY <1>8, <1>9, <1>10 DEF LinkInv, h

\* The users see one directory, and its one block.
LEMMA SlashSeen ==
    ASSUME LinkInv
    PROVE  LET c == dir[1]
           IN  /\ World(Here) /\ Here.imap = imap /\ Slash(Here) = c /\ c \in Chains
               /\ \A i : Current(i) = Cur(Here, i)
               /\ Dirs = {ROOT} /\ BlocksOf(Current(ROOT)) = {1}
               /\ DOMAIN c = 1 .. Len(c) /\ Len(c) \in Nat
               /\ \A k \in DOMAIN c : c[k] \in [name : FileNames, ino : Inos \cup {0}]
               /\ Len(c) < BlockCap /\ BlockCap \in Nat
               /\ \A k \in DOMAIN c : c[k].name \in Names <=> k \in 3 .. Len(c)
<1>1. TypeOK /\ World(Here) /\ Room(Here)
  BY HereParts DEF LinkInv
<1>2. imap \subseteq Inos /\ dir[1] \in Chains /\ 1 \in Blks
  BY <1>1, GeometryAssumption DEF TypeOK, Blks
<1>3. \A i : Current(i) = Cur(Here, i)
  BY HereIs DEF Current, Cur
<1>4. Dirs = {ROOT}
  BY <1>1, <1>3, HereIs DEF Dirs, World, Ground
<1>5. BlocksOf(Current(ROOT)) = {1}
  <2>1. \A k \in 1 .. NDIRECT : Current(ROOT).block[k] = IF k = 1 THEN 1 ELSE 0
    BY <1>1, <1>3 DEF World, Ground
  <2> QED BY <2>1, Numbering DEF BlocksOf
<1> DEFINE c == dir[1]
<1>6. /\ DOMAIN c = 1 .. Len(c) /\ Len(c) \in Nat
      /\ \A k \in DOMAIN c : c[k] \in [name : FileNames, ino : Inos \cup {0}]
  <2> DEFINE R == [name : FileNames, ino : Inos \cup {0}]
  <2>1. c \in Chains
    BY <1>2
  <2> HIDE DEF c
  <2>2. c \in Seq(R)
    BY <2>1 DEF Chains
  <2> HIDE DEF R
  <2>3. DOMAIN c = 1 .. Len(c) /\ Len(c) \in Nat /\ \A k \in DOMAIN c : c[k] \in R
    BY <2>2
  <2> QED BY <2>3 DEF R
<1>7. /\ Len(c) >= 2 /\ Len(c) < BlockCap /\ BlockCap \in Nat
      /\ c[1].name = "." /\ c[2].name = ".."
      /\ \A k \in 3 .. Len(c) : c[k].name \in Names
  BY <1>1, <1>2, HereIs, GeometryAssumption DEF World, Listing, NamesFile, Slash, Room, Entry
<1>8. Slash(Here) = c
  BY HereIs DEF Slash
<1> HIDE DEF c
<1>9. ASSUME NEW k \in DOMAIN c PROVE c[k].name \in Names <=> k \in 3 .. Len(c)
  <2>1. k = 1 \/ k = 2 \/ k \in 3 .. Len(c)
    BY <1>6
  <2>2. c[1].name \notin Names /\ c[2].name \notin Names
    BY <1>7 DEF Names
  <2> QED BY <1>7, <2>1, <2>2
<1>10. Here.imap = imap
  BY HereIs
<1> QED BY <1>1, <1>2, <1>3, <1>4, <1>5, <1>6, <1>7, <1>8, <1>9, <1>10 DEF c

\* What ls shows is told by the world.
LEMMA WorldCounts ==
    ASSUME LinkInv
    PROVE  LinkCountsExact
<1> DEFINE c == dir[1]
<1>1. /\ World(Here) /\ Here.imap = imap /\ Slash(Here) = c /\ c \in Chains
      /\ \A i : Current(i) = Cur(Here, i)
      /\ Dirs = {ROOT} /\ BlocksOf(Current(ROOT)) = {1}
      /\ DOMAIN c = 1 .. Len(c) /\ Len(c) \in Nat
      /\ \A k \in DOMAIN c : c[k] \in [name : FileNames, ino : Inos \cup {0}]
      /\ Len(c) < BlockCap /\ BlockCap \in Nat
      /\ \A k \in DOMAIN c : c[k].name \in Names <=> k \in 3 .. Len(c)
  BY SlashSeen
<1> HIDE DEF c
<1> SUFFICES ASSUME NEW i \in imap, Current(i).type = "reg"
             PROVE  Current(i).links = Cardinality(Naming(i))
  BY DEF LinkCountsExact
<1> DEFINE P == Pos(c, i)
           f == [k \in P |-> <<1, k>>]
<1>2. Current(i).links = Cardinality(P)
  BY <1>1 DEF World, Counts
<1>3. Naming(i) = {<<1, k>> : k \in P}
  <2>1. Naming(i) = {x \in {1} \X (1 .. BlockCap) :
                        /\ x[2] \in DOMAIN dir[x[1]]
                        /\ dir[x[1]][x[2]] \in [name : Names, ino : {i}]}
    BY <1>1 DEF Naming
  <2>2. ASSUME NEW k \in DOMAIN c
        PROVE  c[k] \in [name : Names, ino : {i}] <=> k \in P
    BY <1>1 DEF Pos
  <2>3. P \subseteq DOMAIN c /\ DOMAIN c \subseteq 1 .. BlockCap
    BY <1>1 DEF Pos
  <2> HIDE DEF P
  <2>4. ASSUME NEW x \in Naming(i) PROVE x \in {<<1, k>> : k \in P}
    <3>1. /\ x = <<1, x[2]>> /\ x[2] \in 1 .. BlockCap
          /\ x[2] \in DOMAIN c /\ c[x[2]] \in [name : Names, ino : {i}]
      BY <2>1 DEF c
    <3> QED BY <2>2, <3>1
  <2>5. ASSUME NEW k \in P PROVE <<1, k>> \in Naming(i)
    <3>1. k \in 1 .. BlockCap /\ k \in DOMAIN dir[1] /\ dir[1][k] \in [name : Names, ino : {i}]
      BY <2>2, <2>3 DEF c
    <3> QED BY <2>1, <3>1
  <2> QED BY <2>4, <2>5
<1>4. IsFiniteSet(P)
  BY <1>1, PosFinite
<1>5. Cardinality(Naming(i)) = Cardinality(P)
  <2> HIDE DEF P
  <2>1. f \in Bijection(P, Naming(i))
    BY <1>3 DEF Bijection, Injection, Surjection, IsInjective
  <2>2. ExistsBijection(P, Naming(i))
    BY <2>1 DEF ExistsBijection
  <2> QED BY <1>4, <2>2, FS_Bijection
<1> QED BY <1>2, <1>5

\* What the entries of / name is allocated.
LEMMA WorldAllocated ==
    ASSUME LinkInv
    PROVE  NamedAllocated
<1> DEFINE c == dir[1]
<1>1. /\ World(Here) /\ Here.imap = imap /\ Slash(Here) = c
      /\ Dirs = {ROOT} /\ BlocksOf(Current(ROOT)) = {1}
      /\ \A k \in DOMAIN c : c[k].name \in Names <=> k \in 3 .. Len(c)
  BY SlashSeen
<1>2. Entries(ROOT) = {c[k] : k \in DOMAIN c}
  BY <1>1 DEF Entries, ToSet
<1> HIDE DEF c
<1> SUFFICES ASSUME NEW e \in Children(ROOT) PROVE e.ino \in imap \cup {0}
  BY <1>1 DEF NamedAllocated
<1>3. PICK k \in DOMAIN c : e = c[k] /\ c[k].name \in Names
  BY <1>2 DEF Children
<1>4. NamesFile(Here, c[k])
  BY <1>1, <1>3 DEF World, Listing
<1> QED BY <1>1, <1>3, <1>4 DEF NamesFile

\* Every command keeps the counts.
LEMMA LinkStep ==
    ASSUME LinkInv, Linking, [Next]_vars
    PROVE  LinkInv'
<1>1. SpaceInv'
  BY SpaceStep DEF LinkInv
<1>2. \A p \in Paths : p \in PathType
  BY PathsAssumption
<1>3. \A p \in Named : p \in PathType /\ p.comps # <<>>
  BY PathsAssumption DEF Named
<1>4. BlockCap <= 65535
  BY DEF Linking
<1>5. ASSUME NEW m, Good(m), Leaves(m) PROVE LinkInv'
  BY ONLY <1>1, <1>5, Linking, LeavesLinked
<1>6. ASSUME NEW j \in Junk, st = "up"
      PROVE  /\ Firm(Now(j), Pins(Root)) /\ World(Now(j))
             /\ FreeIno(Now(j)) # 0 /\ FreeBlk(Now(j)) # 0 /\ Len(Slash(Now(j))) < BlockCap
  BY ONLY <1>6, LinkInv, NowFirm
<1>7. CASE Creat
  <2>1. PICK p \in Named, j \in Junk : Leaves(MyCreat(Now(j), p))
    BY ONLY <1>7 DEF Creat
  <2>2. st = "up"
    BY ONLY <1>7 DEF Creat, Runs
  <2> DEFINE x == Now(j)
  <2>3. /\ Firm(x, Pins(Root)) /\ World(x) /\ p \in PathType /\ p.comps # <<>>
        /\ FreeIno(x) # 0 /\ FreeBlk(x) # 0 /\ Len(Slash(x)) < BlockCap
    BY ONLY <1>3, <1>6, <2>2
  <2> HIDE DEF x
  <2>4. Good(MyCreat(x, p))
    BY ONLY <2>3, CreatGood
  <2> QED BY ONLY <1>5, <2>1, <2>4 DEF x
<1>8. CASE Link
  <2>1. PICK p \in Paths, q \in Named, j \in Junk : Leaves(MyLink(Now(j), p, q))
    BY ONLY <1>8 DEF Link
  <2>2. st = "up"
    BY ONLY <1>8 DEF Link, Runs
  <2> DEFINE x == Now(j)
  <2>3. /\ Firm(x, Pins(Root)) /\ World(x) /\ Len(Slash(x)) < BlockCap
        /\ p \in PathType /\ q \in PathType /\ q.comps # <<>>
    BY ONLY <1>2, <1>3, <1>6, <2>2
  <2> HIDE DEF x
  <2>4. Good(MyLink(x, p, q))
    BY ONLY <1>4, <2>3, LinkGood
  <2> QED BY ONLY <1>5, <2>1, <2>4 DEF x
<1>9. CASE Unlink
  <2>1. PICK p \in Named, j \in Junk : Leaves(MyUnlink(Now(j), p))
    BY ONLY <1>9 DEF Unlink
  <2>2. st = "up"
    BY ONLY <1>9 DEF Unlink, Runs
  <2> DEFINE x == Now(j)
  <2>3. /\ Firm(x, Pins(Root)) /\ World(x) /\ p \in PathType /\ p.comps # <<>>
    BY ONLY <1>3, <1>6, <2>2
  <2> HIDE DEF x
  <2>4. Good(MyUnlink(x, p))
    BY ONLY <2>3, UnlinkGood
  <2> QED BY ONLY <1>5, <2>1, <2>4 DEF x
<1>10. CASE Boot
  BY ONLY <1>1, <1>10, LinkInv, BootLinked
<1>11. CASE Mkdir \/ Rmdir \/ SymLink \/ ChangeDir \/ List \/ PrintDir \/ Quit \/ Kill
  <2>1. Workload \subseteq {"creat", "link", "unlink"}
    BY ONLY Linking DEF Linking
  <2> QED BY ONLY <1>11, <2>1
          DEF Mkdir, Rmdir, SymLink, ChangeDir, List, PrintDir, Quit, Kill, Runs
<1>12. CASE UNCHANGED vars
  <2>1. Here' = Here /\ st' = st
    BY ONLY <1>12 DEF vars, Here
  <2>2. Room(Here) /\ World(Here) /\ (st # "down" => Steady(Here, Pins(Root)))
    BY ONLY LinkInv DEF LinkInv
  <2>3. Room(Here') /\ World(Here') /\ (st' # "down" => Steady(Here', Pins(Root)))
    BY ONLY <2>1, <2>2
  <2> QED BY ONLY <1>1, <2>3 DEF LinkInv
<1> QED BY <1>7, <1>8, <1>9, <1>10, <1>11, <1>12 DEF Next

\* The session makes and removes names in / with creat, link and unlink, in every order.
LEMMA LinkInvariant ==
    ASSUME Linking
    PROVE  Spec => []LinkInv
<1>1. Init => LinkInv
  BY LinkInit DEF Linking
<1>2. LinkInv /\ [Next]_vars => LinkInv'
  BY LinkStep
<1> QED BY <1>1, <1>2, PTL DEF Spec

\* In such a session the link count of a file is the number of the entries that name it,
\* a name entered twice among them: for every size of the in-core table, of the disk and
\* of a block.  Linking bounds the commands to those that find a slot in the table, a free
\* number and room in the block of /, and the entries of a block by the largest count.
THEOREM LinkCountsAreExact ==
    ASSUME Linking
    PROVE  Spec => []LinkCountsExact
<1>1. LinkInv => LinkCountsExact
  BY WorldCounts
<1> QED BY <1>1, LinkInvariant, PTL

\* Unlink clears the bit of an inode number with the last of its names and not before: what
\* an entry names is never free for the next creat.
THEOREM LinkedIsAllocated ==
    ASSUME Linking
    PROVE  Spec => []NamedAllocated
<1>1. LinkInv => NamedAllocated
  BY WorldAllocated
<1> QED BY <1>1, LinkInvariant, PTL
=============================================================================
