--------------------------- MODULE SimTreeProofs ----------------------------
(***************************************************************************)
(* Theorems about SimTree: the pointers of the nodes stay a tree, however  *)
(* many commands went wrong before, and what save wrote reload makes again *)
(* where names can be told apart, for every number of nodes, all names and *)
(* all pathnames.                                                          *)
(***************************************************************************)
EXTENDS SimTree, Numbers, SequenceTheorems

-----------------------------------------------------------------------------
(* Nodes and lists.                                                        *)

Places == 0 .. NNODE

\* A record of the fields of a node.
IsNode(x) == x = [name |-> x.name, type |-> x.type, child |-> x.child,
                  sibling |-> x.sibling, parent |-> x.parent]

\* Every place holds a node, and an unused one nothing else.
Typed(t) ==
    /\ t = [n \in Nodes |-> t[n]]
    /\ \A n \in Nodes : /\ IsNode(t[n]) /\ t[n].type \in Types \cup {"unused"}
                        /\ {t[n].child, t[n].sibling, t[n].parent} \subseteq Nodes \cup {NULL}
                        /\ t[n].type = "unused" => t[n].child = NULL /\ t[n].sibling = NULL

\* The nodes in an order that child and sibling pointers lead up, and parent pointers down.
Ranked(t, r) ==
    \A n \in Used(t) : /\ t[n].child # NULL => r[n] < r[t[n].child]
                       /\ t[n].sibling # NULL => r[n] < r[t[n].sibling]
                       /\ n # ROOT => r[t[n].parent] < r[n]

\* Pointers lead from nodes to nodes, and those of a list have one parent.
Linked(t) ==
    /\ ROOT \in Used(t) /\ t[ROOT].parent = ROOT /\ t[ROOT].sibling = NULL
    /\ \A n \in Used(t) :
          /\ t[n].parent \in Used(t)
          /\ t[n].child # NULL => t[n].child \in Used(t) /\ t[t[n].child].parent = n
          /\ t[n].sibling # NULL => /\ t[n].sibling \in Used(t)
                                    /\ t[t[n].sibling].parent = t[n].parent

\* A node but the root is the first in a list, or behind one in a list.
Hung(t) ==
    \A n \in Used(t) : n # ROOT => \/ t[t[n].parent].child = n
                                   \/ \E m \in Used(t) : t[m].sibling = n

Orders(M) == [Nodes -> 0 .. M]
Good(t) == /\ Typed(t) /\ Linked(t) /\ Hung(t)
           /\ \E M \in Nat : \E r \in Orders(M) : Ranked(t, r)

\* The numbers of nodes.
LEMMA Numbering ==
    /\ NNODE \in Nat \ {0} /\ Nodes \subseteq Nat /\ ROOT \in Nodes /\ NULL \notin Nodes
    /\ CRASH \notin Nodes /\ CRASH # NULL
    /\ Places = Nodes \cup {NULL}
BY NodesAssumption DEF Nodes, ROOT, NULL, CRASH, Places

\* The pointers of a node lead up in the order, used or not.
LEMMA Upwards ==
    ASSUME NEW t, Typed(t), Linked(t), NEW M \in Nat, NEW r \in Orders(M), Ranked(t, r),
           NEW n \in Nodes
    PROVE  /\ r[n] \in 0 .. M
           /\ t[n].child \in Places /\ t[n].sibling \in Places
           /\ t[n].child # NULL => t[n].child \in Nodes /\ r[n] < r[t[n].child]
           /\ t[n].sibling # NULL => t[n].sibling \in Nodes /\ r[n] < r[t[n].sibling]
<1>1. /\ {t[n].child, t[n].sibling} \subseteq Nodes \cup {NULL}
      /\ n \notin Used(t) => t[n].child = NULL /\ t[n].sibling = NULL
  BY DEF Typed, Used
<1>2. n \in Used(t) => /\ t[n].child # NULL => r[n] < r[t[n].child]
                       /\ t[n].sibling # NULL => r[n] < r[t[n].sibling]
  BY DEF Ranked
<1> QED BY <1>1, <1>2, Numbering DEF Orders

\* The recursion of List has a solution, since siblings lead up in an order.
LEMMA ListRecursion ==
    ASSUME NEW t, Typed(t), Linked(t), NEW M \in Nat, NEW r \in Orders(M), Ranked(t, r)
    PROVE  \E f : /\ \A n \in Nodes : List(t, n) = f[t[n].child]
                  /\ f[NULL] = <<>>
                  /\ \A m \in Nodes : f[m] = <<m>> \o f[t[m].sibling]
<1> DEFINE Body(f, m) == IF m = NULL THEN <<>> ELSE <<m>> \o f[t[m].sibling]
           Deep(m, d) == m = NULL \/ (m \in Nodes /\ r[m] + d > M)
           Solved(f, d) == \A m \in Places : Deep(m, d) => f[m] = Body(f, m)
           S == {d \in Nat : \E f : f = [m \in Places |-> f[m]] /\ Solved(f, d)}
<1>1. 0 \in S
  <2> DEFINE g == [m \in Places |-> <<>>]
  <2>1. g = [m \in Places |-> g[m]]
    OBVIOUS
  <2>2. Solved(g, 0)
    BY Upwards, Numbering
  <2> HIDE DEF g, Solved
  <2>3. \E h : h = [m \in Places |-> h[m]] /\ Solved(h, 0)
    BY <2>1, <2>2
  <2> QED BY <2>3
<1>2. ASSUME NEW d \in Nat, d \in S PROVE d + 1 \in S
  <2>1. PICK f : f = [m \in Places |-> f[m]] /\ Solved(f, d)
    BY <1>2
  <2> DEFINE g == [m \in Places |-> IF Deep(m, d) THEN f[m] ELSE Body(f, m)]
  <2>2. ASSUME NEW m \in Places, Deep(m, d + 1) PROVE g[m] = Body(g, m)
    <3>1. g[m] = Body(f, m)
      BY <2>1
    <3>2. ASSUME m # NULL PROVE t[m].sibling \in Places /\ Deep(t[m].sibling, d)
      <4>1. m \in Nodes /\ r[m] + (d + 1) > M
        BY <2>2, <3>2
      <4>2. /\ r[m] \in Nat /\ t[m].sibling \in Places
            /\ t[m].sibling # NULL => t[m].sibling \in Nodes /\ r[m] < r[t[m].sibling]
        BY <4>1, Upwards
      <4>3. t[m].sibling \in Nodes => r[t[m].sibling] \in Nat
        BY Upwards
      <4> QED BY <4>1, <4>2, <4>3
    <3>3. m # NULL => g[t[m].sibling] = f[t[m].sibling]
      BY <3>2
    <3> HIDE DEF g, Deep
    <3> QED BY <3>1, <3>3
  <2>3. g = [m \in Places |-> g[m]]
    OBVIOUS
  <2> HIDE DEF g
  <2>4. Solved(g, d + 1)
    BY <2>2
  <2> HIDE DEF Solved
  <2>5. \E h : h = [m \in Places |-> h[m]] /\ Solved(h, d + 1)
    BY <2>3, <2>4
  <2> QED BY <2>5
<1>3. M + 1 \in S
  <2> HIDE DEF S
  <2> QED BY <1>1, <1>2, SetInduction
<1>4. PICK f : f = [m \in Places |-> f[m]] /\ Solved(f, M + 1)
  BY <1>3
<1>5. \A m \in Places : Deep(m, M + 1)
  BY Upwards, Numbering
<1>6. f = [m \in Places |-> Body(f, m)]
  <2> HIDE DEF Body, Deep
  <2> QED BY <1>4, <1>5
<1> DEFINE from == CHOOSE h : h = [m \in Places |-> Body(h, m)]
<1>7. from = [m \in Places |-> Body(from, m)]
  <2> HIDE DEF Body
  <2> QED BY <1>6
<1>8. \A n \in Nodes : List(t, n) = from[t[n].child]
  BY DEF List, Places
<1> HIDE DEF from
<1>9. \A m \in Places : from[m] = Body(from, m)
  <2> HIDE DEF Body
  <2> QED BY <1>7
<1> QED BY <1>8, <1>9, Numbering

\* The sequence s is the list that begins with m.
Chain(t, s, m) ==
    /\ s \in Seq(Nodes) /\ (s = <<>> <=> m = NULL)
    /\ m # NULL => s[1] = m /\ t[s[Len(s)]].sibling = NULL
    /\ \A k \in 1 .. Len(s) - 1 : t[s[k]].sibling = s[k + 1]

LEMMA ConsChain ==
    ASSUME NEW t, NEW m \in Nodes, NEW s, Chain(t, s, t[m].sibling)
    PROVE  Chain(t, <<m>> \o s, m)
<1> DEFINE u == <<m>> \o s
<1>1. /\ s \in Seq(Nodes) /\ u \in Seq(Nodes) /\ Len(u) = Len(s) + 1 /\ Len(s) \in Nat
      /\ u[1] = m /\ \A k \in 1 .. Len(s) : u[k + 1] = s[k]
  BY DEF Chain
<1> HIDE DEF u
<1>2. m # NULL /\ u # <<>>
  BY <1>1, Numbering
<1>3. t[u[Len(u)]].sibling = NULL
  <2>1. CASE s = <<>>
    BY <1>1, <2>1 DEF Chain
  <2>2. CASE s # <<>>
    <3>1. Len(s) \in 1 .. Len(s) /\ t[s[Len(s)]].sibling = NULL
      BY <1>1, <2>2 DEF Chain
    <3> QED BY <1>1, <3>1
  <2> QED BY <2>1, <2>2
<1>4. ASSUME NEW k \in 1 .. Len(u) - 1 PROVE t[u[k]].sibling = u[k + 1]
  <2>1. CASE k = 1
    <3>1. s # <<>> /\ 1 \in 1 .. Len(s)
      BY <1>1, <2>1
    <3>2. s[1] = t[m].sibling
      BY <3>1 DEF Chain
    <3> QED BY <1>1, <2>1, <3>1, <3>2
  <2>2. CASE k # 1
    <3>1. k - 1 \in 1 .. Len(s) - 1 /\ k - 1 \in 1 .. Len(s) /\ k \in 1 .. Len(s)
      BY <1>1, <2>2
    <3>2. t[s[k - 1]].sibling = s[(k - 1) + 1]
      BY <3>1 DEF Chain
    <3>3. u[(k - 1) + 1] = s[k - 1] /\ u[k + 1] = s[k]
      BY <1>1, <3>1
    <3> QED BY <3>2, <3>3
  <2> QED BY <2>1, <2>2
<1>5. Chain(t, u, m)
  BY <1>1, <1>2, <1>3, <1>4 DEF Chain
<1> QED BY <1>5 DEF u

\* What List returns is the list that begins with the first child.
LEMMA ListIsChain ==
    ASSUME NEW t, Good(t), NEW n \in Nodes
    PROVE  Chain(t, List(t, n), t[n].child)
<1>0. PICK M \in Nat : \E r \in Orders(M) : Ranked(t, r)
  BY DEF Good
<1>1. PICK r \in Orders(M) : Typed(t) /\ Linked(t) /\ Ranked(t, r)
  BY <1>0 DEF Good
<1>2. PICK f : /\ \A i \in Nodes : List(t, i) = f[t[i].child]
               /\ f[NULL] = <<>>
               /\ \A m \in Nodes : f[m] = <<m>> \o f[t[m].sibling]
  <2> HIDE DEF Orders
  <2> QED BY <1>1, ListRecursion
<1> DEFINE S == {d \in Nat : \A m \in Nodes : r[m] + d > M => Chain(t, f[m], m)}
<1>3. Chain(t, f[NULL], NULL)
  BY <1>2 DEF Chain
<1>4. 0 \in S
  BY <1>1, Upwards
<1>5. ASSUME NEW d \in Nat, d \in S PROVE d + 1 \in S
  <2>1. ASSUME NEW m \in Nodes, r[m] + (d + 1) > M PROVE Chain(t, f[m], m)
    <3>1. /\ r[m] \in Nat /\ t[m].sibling \in Places
          /\ t[m].sibling # NULL => t[m].sibling \in Nodes /\ r[m] < r[t[m].sibling]
      BY <1>1, Upwards
    <3>2. Chain(t, f[t[m].sibling], t[m].sibling)
      <4>1. CASE t[m].sibling = NULL
        BY <1>3, <4>1
      <4>2. CASE t[m].sibling # NULL
        <5>1. r[t[m].sibling] \in Nat
          BY <1>1, <3>1, <4>2, Upwards
        <5>2. r[t[m].sibling] + d > M
          BY <2>1, <3>1, <4>2, <5>1
        <5> QED BY <1>5, <3>1, <4>2, <5>2
      <4> QED BY <4>1, <4>2
    <3> QED BY <1>2, <3>2, ConsChain
  <2> QED BY <2>1
<1>6. M + 1 \in S
  <2> HIDE DEF S
  <2> QED BY <1>4, <1>5, SetInduction
<1>7. ASSUME NEW m \in Nodes PROVE Chain(t, f[m], m)
  BY <1>1, <1>6, Upwards
<1>8. t[n].child \in Nodes \cup {NULL}
  BY <1>1, Upwards, Numbering
<1> QED BY <1>2, <1>3, <1>7, <1>8

\* The nodes in the list of a node: it is their parent, and the order leads up.
LEMMA ListOfChildren ==
    ASSUME NEW t, Good(t), NEW M \in Nat, NEW r \in Orders(M), Ranked(t, r), NEW n \in Used(t)
    PROVE  /\ List(t, n) \in Seq(Used(t)) /\ IsInjective(List(t, n))
           /\ \A k \in 1 .. Len(List(t, n)) :
                 t[List(t, n)[k]].parent = n /\ r[n] < r[List(t, n)[k]]
           /\ \A j, k \in 1 .. Len(List(t, n)) : j < k => r[List(t, n)[j]] < r[List(t, n)[k]]
<1> DEFINE s == List(t, n)
<1>0. n \in Nodes /\ Typed(t) /\ Linked(t)
  BY DEF Used, Good
<1>1. Chain(t, s, t[n].child)
  BY <1>0, ListIsChain
<1> HIDE DEF s
<1>2. s \in Seq(Nodes) /\ Len(s) \in Nat /\ \A k \in 1 .. Len(s) : s[k] \in Nodes
  BY <1>1 DEF Chain
<1> DEFINE Fine(k) == s[k] \in Used(t) /\ t[s[k]].parent = n /\ r[n] < r[s[k]]
           S == {k \in Nat : k \in 1 .. Len(s) => Fine(k)}
<1>3. 0 \in S
  OBVIOUS
<1>4. ASSUME NEW k \in Nat, k \in S PROVE k + 1 \in S
  <2>1. SUFFICES ASSUME k + 1 \in 1 .. Len(s) PROVE Fine(k + 1)
    OBVIOUS
  <2>2. CASE k = 0
    <3>1. s # <<>> /\ s[1] = t[n].child /\ t[n].child # NULL
      BY <1>1, <1>2, <2>1, <2>2 DEF Chain
    <3> QED BY <2>2, <3>1 DEF Linked, Good, Ranked
  <2>3. CASE k # 0
    <3>1. k \in 1 .. Len(s) - 1 /\ k \in 1 .. Len(s)
      BY <1>2, <2>1, <2>3
    <3>2. t[s[k]].sibling = s[k + 1] /\ Fine(k) /\ s[k + 1] # NULL
      BY <1>1, <1>2, <1>4, <2>1, <3>1, Numbering DEF Chain
    <3>3. s[k + 1] \in Used(t) /\ t[s[k + 1]].parent = n /\ r[s[k]] < r[s[k + 1]]
      BY <1>0, <3>2 DEF Linked, Ranked
    <3>4. r[n] \in Nat /\ r[s[k]] \in Nat /\ r[s[k + 1]] \in Nat
      BY <1>0, <1>2, <2>1, <3>1 DEF Orders
    <3> QED BY <3>2, <3>3, <3>4
  <2> QED BY <2>2, <2>3
<1>5. ASSUME NEW k \in 1 .. Len(s) PROVE Fine(k)
  <2>1. k \in S
    <3> HIDE DEF S
    <3> QED BY <1>3, <1>4, SetInduction
  <2> QED BY <2>1
<1>6. ASSUME NEW k \in 1 .. Len(s) - 1 PROVE r[s[k]] < r[s[k + 1]]
  <2>1. t[s[k]].sibling = s[k + 1] /\ s[k] \in Used(t) /\ s[k + 1] # NULL
    BY <1>1, <1>2, <1>5, Numbering DEF Chain
  <2> QED BY <2>1 DEF Ranked
<1>7. ASSUME NEW k \in 1 .. Len(s) PROVE r[s[k]] \in Nat
  BY <1>2 DEF Orders
<1>8. ASSUME NEW j \in 1 .. Len(s), NEW k \in 1 .. Len(s), j < k PROVE r[s[j]] < r[s[k]]
  <2> DEFINE T == {i \in Nat : j < i /\ i <= Len(s) => r[s[j]] < r[s[i]]}
  <2>1. 0 \in T
    OBVIOUS
  <2>2. ASSUME NEW i \in Nat, i \in T PROVE i + 1 \in T
    <3>1. SUFFICES ASSUME j < i + 1, i + 1 <= Len(s) PROVE r[s[j]] < r[s[i + 1]]
      OBVIOUS
    <3>2. i \in 1 .. Len(s) - 1 /\ i + 1 \in 1 .. Len(s) /\ i \in 1 .. Len(s)
      BY <1>2, <3>1
    <3>3. r[s[i]] < r[s[i + 1]] /\ r[s[i]] \in Nat /\ r[s[i + 1]] \in Nat /\ r[s[j]] \in Nat
      BY <1>6, <1>7, <3>2
    <3>4. j < i => r[s[j]] < r[s[i]]
      BY <2>2, <3>2
    <3>5. j < i \/ j = i
      BY <3>1
    <3> QED BY <3>3, <3>4, <3>5
  <2>3. k \in T
    <3> HIDE DEF T
    <3> QED BY <2>1, <2>2, SetInduction
  <2> QED BY <1>2, <1>8, <2>3
<1>9. IsInjective(s)
  <2>1. ASSUME NEW a \in 1 .. Len(s), NEW b \in 1 .. Len(s), s[a] = s[b] PROVE a = b
    <3>1. ~ (a < b) /\ ~ (b < a)
      BY <1>7, <1>8, <2>1
    <3> QED BY <3>1
  <2>2. DOMAIN s = 1 .. Len(s)
    BY <1>2
  <2> QED BY <2>1, <2>2 DEF IsInjective
<1>10. s \in Seq(Used(t))
  BY <1>2, <1>5
<1> QED BY <1>5, <1>8, <1>9, <1>10 DEF s

-----------------------------------------------------------------------------
(* Sets that grow along pointers, as Below and Touched.                    *)

LEMMA PlacesFinite == IsFiniteSet(Nodes) /\ Cardinality(Nodes) = NNODE
BY NodesAssumption, FS_Interval DEF Nodes

\* The sets that begin with A and grow by what nx leads to from their members.
GrowBody(A, nx, g, k) == IF k = 0 THEN A ELSE g[k - 1] \cup UNION {nx[n] : n \in g[k - 1]}
Rounds(A, nx, g) == g = [k \in 0 .. NNODE |-> GrowBody(A, nx, g, k)]

LEMMA RoundsExist ==
    ASSUME NEW A \in SUBSET Nodes, NEW nx \in [Nodes -> SUBSET Nodes]
    PROVE  \E g : Rounds(A, nx, g) /\ \A k \in 0 .. NNODE : g[k] \in SUBSET Nodes
<1> DEFINE Solved(g, d) == /\ g = [k \in 0 .. d |-> g[k]]
                           /\ \A k \in 0 .. d : g[k] = GrowBody(A, nx, g, k) /\ g[k] \in SUBSET Nodes
           S == {d \in Nat : \E g : Solved(g, d)}
<1>1. 0 \in S
  <2> DEFINE g == [k \in 0 .. 0 |-> A]
  <2>1. Solved(g, 0)
    BY DEF GrowBody
  <2> HIDE DEF g
  <2> QED BY <2>1
<1>2. ASSUME NEW d \in Nat, d \in S PROVE d + 1 \in S
  <2>1. PICK f : Solved(f, d)
    BY <1>2
  <2> DEFINE g == [k \in 0 .. d + 1 |-> IF k <= d THEN f[k] ELSE GrowBody(A, nx, f, k)]
  <2>2. g = [k \in 0 .. d + 1 |-> g[k]]
    OBVIOUS
  <2>3. ASSUME NEW k \in 0 .. d + 1 PROVE g[k] = GrowBody(A, nx, g, k)
    <3>1. g[k] = GrowBody(A, nx, f, k)
      BY <2>1
    <3>2. k # 0 => k - 1 \in 0 .. d /\ g[k - 1] = f[k - 1]
      OBVIOUS
    <3> HIDE DEF g
    <3> QED BY <3>1, <3>2 DEF GrowBody
  <2>4. ASSUME NEW k \in 0 .. d + 1 PROVE g[k] \in SUBSET Nodes
    <3>0. \A i \in 0 .. d : f[i] \in SUBSET Nodes
      BY <2>1
    <3>1. k <= d => g[k] \in SUBSET Nodes
      BY <3>0
    <3>2. ~ k <= d => d \in 0 .. d /\ k - 1 = d /\ k # 0
      OBVIOUS
    <3>3. f[d] \in SUBSET Nodes
      BY <3>0
    <3>4. ~ k <= d => g[k] = f[d] \cup UNION {nx[n] : n \in f[d]}
      BY <3>2 DEF GrowBody
    <3>5. UNION {nx[n] : n \in f[d]} \subseteq Nodes
      BY <3>3
    <3> QED BY <3>1, <3>3, <3>4, <3>5
  <2> HIDE DEF g
  <2>5. Solved(g, d + 1)
    BY <2>2, <2>3, <2>4
  <2> HIDE DEF Solved
  <2> QED BY <2>5
<1>3. NNODE \in S
  <2> HIDE DEF S
  <2> QED BY <1>1, <1>2, SetInduction, NodesAssumption
<1>4. PICK g : Solved(g, NNODE)
  BY <1>3
<1>5. Rounds(A, nx, g) /\ \A k \in 0 .. NNODE : g[k] \in SUBSET Nodes
  BY <1>4 DEF Rounds
<1> QED BY <1>5

\* After NNODE rounds nothing is missing, and nothing is there that need not be.
LEMMA Growing ==
    ASSUME NEW A \in SUBSET Nodes, NEW nx \in [Nodes -> SUBSET Nodes], NEW g, Rounds(A, nx, g)
    PROVE  /\ A \subseteq g[NNODE] /\ g[NNODE] \subseteq Nodes
           /\ \A n \in g[NNODE] : nx[n] \subseteq g[NNODE]
           /\ \A F : A \subseteq F /\ (\A n \in F \cap Nodes : nx[n] \subseteq F) => g[NNODE] \subseteq F
<1>0. NNODE \in Nat /\ NNODE # 0
  BY NodesAssumption
<1>1. /\ g[0] = A
      /\ \A k \in 0 .. NNODE - 1 : g[k + 1] = g[k] \cup UNION {nx[n] : n \in g[k]}
  <2>1. \A k \in 0 .. NNODE : g[k] = GrowBody(A, nx, g, k)
    BY DEF Rounds
  <2>2. g[0] = A
    <3>1. 0 \in 0 .. NNODE
      BY <1>0
    <3>2. GrowBody(A, nx, g, 0) = A
      BY DEF GrowBody
    <3> QED BY <2>1, <3>1, <3>2
  <2>3. ASSUME NEW k \in 0 .. NNODE - 1 PROVE g[k + 1] = g[k] \cup UNION {nx[n] : n \in g[k]}
    <3>1. k + 1 \in 0 .. NNODE /\ k + 1 # 0 /\ (k + 1) - 1 = k
      BY <1>0
    <3> QED BY <2>1, <3>1 DEF GrowBody
  <2> QED BY <2>2, <2>3
<1> DEFINE Closed(F) == \A n \in F \cap Nodes : nx[n] \subseteq F
           S == {k \in Nat : k <= NNODE => A \subseteq g[k] /\ g[k] \subseteq Nodes}
<1>2. ASSUME NEW k \in Nat, k <= NNODE PROVE A \subseteq g[k] /\ g[k] \subseteq Nodes
  <2>1. 0 \in S
    BY <1>1
  <2>2. ASSUME NEW i \in Nat, i \in S PROVE i + 1 \in S
    <3>1. SUFFICES ASSUME i + 1 <= NNODE PROVE A \subseteq g[i + 1] /\ g[i + 1] \subseteq Nodes
      OBVIOUS
    <3>2. i \in 0 .. NNODE - 1 /\ A \subseteq g[i] /\ g[i] \subseteq Nodes
      BY <1>0, <2>2, <3>1
    <3> QED BY <1>1, <3>2
  <2>3. k \in S
    <3> HIDE DEF S
    <3> QED BY <2>1, <2>2, SetInduction
  <2> QED BY <1>2, <2>3
<1>3. ASSUME NEW F, A \subseteq F, Closed(F) PROVE g[NNODE] \subseteq F
  <2> DEFINE T == {k \in Nat : k <= NNODE => g[k] \subseteq F}
  <2>1. 0 \in T
    BY <1>1, <1>3
  <2>2. ASSUME NEW i \in Nat, i \in T PROVE i + 1 \in T
    <3>1. SUFFICES ASSUME i + 1 <= NNODE PROVE g[i + 1] \subseteq F
      OBVIOUS
    <3>2. i \in 0 .. NNODE - 1 /\ g[i] \subseteq F /\ g[i] \subseteq Nodes
      BY <1>0, <1>2, <2>2, <3>1
    <3> QED BY <1>1, <1>3, <3>2
  <2>3. NNODE \in T
    <3> HIDE DEF T
    <3> QED BY <1>0, <2>1, <2>2, SetInduction
  <2> QED BY <1>0, <2>3
\* A set that is not closed grows by one node at least.
<1> DEFINE U == {k \in Nat : k <= NNODE => \/ \E j \in 0 .. k : Closed(g[j])
                                           \/ Cardinality(g[k]) >= k}
<1>4. \E j \in 0 .. NNODE : Closed(g[j])
  <2>1. 0 \in U
    <3>1. IsFiniteSet(g[0])
      BY <1>0, <1>2, PlacesFinite, FS_Subset
    <3>2. Cardinality(g[0]) \in Nat
      BY <3>1, FS_CardinalityType
    <3> QED BY <3>2
  <2>2. ASSUME NEW i \in Nat, i \in U PROVE i + 1 \in U
    <3>1. SUFFICES ASSUME i + 1 <= NNODE, ~ \E j \in 0 .. i + 1 : Closed(g[j])
                   PROVE  Cardinality(g[i + 1]) >= i + 1
      OBVIOUS
    <3>2. i \in 0 .. NNODE - 1 /\ i \in 0 .. i + 1 /\ \A j \in 0 .. i : j \in 0 .. i + 1
      BY <1>0, <3>1
    <3>3. ~ Closed(g[i])
      BY <3>1, <3>2
    <3>4. Cardinality(g[i]) >= i
      <4>1. i <= NNODE => (\E j \in 0 .. i : Closed(g[j])) \/ Cardinality(g[i]) >= i
        BY <2>2
      <4>2. i <= NNODE
        BY <1>0, <3>2
      <4> HIDE DEF Closed
      <4> QED BY <3>1, <3>2, <4>1, <4>2
    <3>5. PICK x : x \in g[i + 1] /\ x \notin g[i]
      BY <1>1, <3>2, <3>3
    <3>6. g[i] \subseteq g[i + 1] \ {x} /\ IsFiniteSet(g[i + 1])
      <4>1. g[i + 1] \subseteq Nodes
        BY <1>2, <3>1
      <4> QED BY <1>1, <3>2, <3>5, <4>1, PlacesFinite, FS_Subset
    <3>7. IsFiniteSet(g[i + 1] \ {x}) /\ Cardinality(g[i + 1] \ {x}) = Cardinality(g[i + 1]) - 1
      BY <3>5, <3>6, FS_RemoveElement
    <3>8. Cardinality(g[i]) <= Cardinality(g[i + 1] \ {x})
      BY <3>6, <3>7, FS_Subset
    <3>9. Cardinality(g[i]) \in Nat /\ Cardinality(g[i + 1]) \in Nat
      BY <3>6, <3>7, FS_Subset, FS_CardinalityType
    <3> QED BY <3>4, <3>7, <3>8, <3>9
  <2>3. NNODE \in U
    <3> HIDE DEF U
    <3> QED BY <1>0, <2>1, <2>2, SetInduction
  <2>4. CASE \E j \in 0 .. NNODE : Closed(g[j])
    BY <2>4
  <2>5. CASE Cardinality(g[NNODE]) >= NNODE
    <3>1. g[NNODE] \subseteq Nodes /\ IsFiniteSet(g[NNODE]) /\ Cardinality(g[NNODE]) \in Nat
      BY <1>0, <1>2, PlacesFinite, FS_Subset, FS_CardinalityType
    <3>2. Cardinality(g[NNODE]) <= NNODE
      BY <3>1, PlacesFinite, FS_Subset
    <3>3. g[NNODE] = Nodes
      BY <1>0, <2>5, <3>1, <3>2, PlacesFinite, FS_Subset
    <3>4. Closed(g[NNODE])
      BY <3>3
    <3> QED BY <1>0, <3>4
  <2> QED BY <1>0, <2>3, <2>4, <2>5
<1>5. PICK j \in 0 .. NNODE : Closed(g[j])
  BY <1>4
<1>6. g[NNODE] = g[j]
  <2>1. A \subseteq g[j]
    BY <1>2
  <2>2. g[NNODE] \subseteq g[j]
    <3> HIDE DEF Closed
    <3> QED BY <1>3, <1>5, <2>1
  <2> DEFINE V == {d \in Nat : j + d <= NNODE => g[j] \subseteq g[j + d]}
  <2>3. 0 \in V
    OBVIOUS
  <2>4. ASSUME NEW d \in Nat, d \in V PROVE d + 1 \in V
    <3>1. SUFFICES ASSUME j + (d + 1) <= NNODE PROVE g[j] \subseteq g[j + (d + 1)]
      OBVIOUS
    <3>2. j + d \in 0 .. NNODE - 1 /\ j + (d + 1) = (j + d) + 1
      BY <1>0, <3>1
    <3>3. g[j] \subseteq g[j + d]
      BY <1>0, <2>4, <3>2
    <3>4. g[(j + d) + 1] = g[j + d] \cup UNION {nx[n] : n \in g[j + d]}
      BY <1>1, <3>2
    <3> QED BY <3>2, <3>3, <3>4
  <2>5. NNODE - j \in Nat /\ j + (NNODE - j) = NNODE
    BY <1>0
  <2>6. NNODE - j \in V
    <3> HIDE DEF V
    <3> QED BY <2>3, <2>4, <2>5, SetInduction
  <2>7. j + (NNODE - j) <= NNODE => g[j] \subseteq g[j + (NNODE - j)]
    BY <2>6
  <2>8. g[j] \subseteq g[NNODE]
    BY <1>0, <2>5, <2>7
  <2> QED BY <2>2, <2>8
<1>7. g[NNODE] \subseteq Nodes /\ A \subseteq g[NNODE]
  BY <1>0, <1>2
<1>8. \A n \in g[NNODE] : nx[n] \subseteq g[NNODE]
  BY <1>5, <1>6, <1>7
<1> QED BY <1>3, <1>7, <1>8

\* Rounds that are known only for sets of nodes.
LEMMA RoundsOfNodes ==
    ASSUME NEW A \in SUBSET Nodes, NEW nx \in [Nodes -> SUBSET Nodes], NEW h,
           h = [k \in 0 .. NNODE |-> h[k]], h[0] = A,
           \A k \in 1 .. NNODE :
              h[k - 1] \in SUBSET Nodes => h[k] = h[k - 1] \cup UNION {nx[n] : n \in h[k - 1]}
    PROVE  Rounds(A, nx, h)
<1> DEFINE S == {k \in Nat : k <= NNODE => h[k] \in SUBSET Nodes}
<1>0. NNODE \in Nat
  BY NodesAssumption
<1>1. 0 \in S
  OBVIOUS
<1>2. ASSUME NEW k \in Nat, k \in S PROVE k + 1 \in S
  <2>1. SUFFICES ASSUME k + 1 <= NNODE PROVE h[k + 1] \in SUBSET Nodes
    OBVIOUS
  <2>2. k + 1 \in 1 .. NNODE /\ (k + 1) - 1 = k /\ h[k] \in SUBSET Nodes
    BY <1>0, <1>2, <2>1
  <2>3. h[k + 1] = h[k] \cup UNION {nx[n] : n \in h[k]}
    BY <2>2
  <2>4. UNION {nx[n] : n \in h[k]} \subseteq Nodes
    BY <2>2
  <2> QED BY <2>2, <2>3, <2>4
<1>3. ASSUME NEW k \in 0 .. NNODE PROVE h[k] = GrowBody(A, nx, h, k)
  <2>1. CASE k = 0
    BY <2>1 DEF GrowBody
  <2>2. CASE k # 0
    <3>1. k \in 1 .. NNODE /\ k - 1 \in Nat /\ k - 1 <= NNODE
      BY <1>0, <2>2
    <3>2. k - 1 \in S
      <4> HIDE DEF S
      <4> QED BY <1>1, <1>2, <3>1, SetInduction
    <3> QED BY <2>2, <3>1, <3>2 DEF GrowBody
  <2> QED BY <2>1, <2>2
<1> QED BY <1>3 DEF Rounds

\* The nodes below a node are the least set with it and the lists of its members.
LEMMA BelowGrows ==
    ASSUME NEW t, Good(t), NEW n \in Nodes
    PROVE  /\ n \in Below(t, n) /\ Below(t, n) \subseteq Nodes
           /\ \A m \in Below(t, n) : ToSet(List(t, m)) \subseteq Below(t, n)
           /\ \A F : n \in F /\ (\A m \in F \cap Nodes : ToSet(List(t, m)) \subseteq F)
                     => Below(t, n) \subseteq F
<1> DEFINE A == {n}
           nx == [m \in Nodes |-> ToSet(List(t, m))]
           Body(g, k) == IF k = 0 THEN A ELSE g[k - 1] \cup UNION {ToSet(List(t, m)) : m \in g[k - 1]}
<1>1. nx \in [Nodes -> SUBSET Nodes]
  <2>1. ASSUME NEW m \in Nodes PROVE ToSet(List(t, m)) \in SUBSET Nodes
    <3>1. List(t, m) \in Seq(Nodes)
      BY ListIsChain DEF Chain
    <3> QED BY <3>1 DEF ToSet
  <2> QED BY <2>1
<1>2. \A m \in Nodes : nx[m] = ToSet(List(t, m))
  OBVIOUS
<1>3. A \in SUBSET Nodes
  OBVIOUS
<1> HIDE DEF A, nx
<1>4. ASSUME NEW X \in SUBSET Nodes
      PROVE  UNION {ToSet(List(t, m)) : m \in X} = UNION {nx[m] : m \in X}
  BY <1>2
<1>5. PICK f : Rounds(A, nx, f) /\ \A k \in 0 .. NNODE : f[k] \in SUBSET Nodes
  BY <1>1, <1>3, RoundsExist
<1>6. f = [k \in 0 .. NNODE |-> Body(f, k)]
  <2>1. ASSUME NEW k \in 0 .. NNODE PROVE GrowBody(A, nx, f, k) = Body(f, k)
    <3>1. k # 0 => f[k - 1] \in SUBSET Nodes
      BY <1>5, NodesAssumption
    <3> QED BY <1>4, <3>1 DEF GrowBody
  <2>2. f = [k \in 0 .. NNODE |-> GrowBody(A, nx, f, k)]
    BY <1>5 DEF Rounds
  <2> HIDE DEF Body
  <2> QED BY <2>1, <2>2
<1> DEFINE grow == CHOOSE h : h = [k \in 0 .. NNODE |-> Body(h, k)]
<1>7. grow = [k \in 0 .. NNODE |-> Body(grow, k)]
  <2> HIDE DEF Body
  <2> QED BY <1>6
<1>8. Below(t, n) = grow[NNODE]
  BY DEF Below, A
<1> HIDE DEF grow
<1>9. Rounds(A, nx, grow)
  <2>0. 0 \in 0 .. NNODE /\ \A k \in 1 .. NNODE : k \in 0 .. NNODE /\ k # 0
    BY NodesAssumption
  <2>1. grow = [k \in 0 .. NNODE |-> grow[k]] /\ \A k \in 0 .. NNODE : grow[k] = Body(grow, k)
    <3> HIDE DEF Body
    <3> QED BY <1>7
  <2>2. grow[0] = A
    <3>1. Body(grow, 0) = A
      OBVIOUS
    <3> HIDE DEF Body
    <3> QED BY <2>0, <2>1, <3>1
  <2>3. ASSUME NEW k \in 1 .. NNODE, grow[k - 1] \in SUBSET Nodes
        PROVE  grow[k] = grow[k - 1] \cup UNION {nx[m] : m \in grow[k - 1]}
    <3>1. Body(grow, k) = grow[k - 1] \cup UNION {ToSet(List(t, m)) : m \in grow[k - 1]}
      BY <2>0
    <3> HIDE DEF Body
    <3> QED BY <1>4, <2>0, <2>1, <2>3, <3>1
  <2> QED BY <1>1, <1>3, <2>1, <2>2, <2>3, RoundsOfNodes
<1>10. /\ A \subseteq grow[NNODE] /\ grow[NNODE] \subseteq Nodes
       /\ \A m \in grow[NNODE] : nx[m] \subseteq grow[NNODE]
       /\ \A F : A \subseteq F /\ (\A m \in F \cap Nodes : nx[m] \subseteq F) => grow[NNODE] \subseteq F
  BY <1>1, <1>3, <1>9, Growing
<1>11. \A m \in grow[NNODE] : ToSet(List(t, m)) \subseteq grow[NNODE]
  BY <1>2, <1>10
<1>12. ASSUME NEW F, n \in F, \A m \in F \cap Nodes : ToSet(List(t, m)) \subseteq F
       PROVE  grow[NNODE] \subseteq F
  BY <1>2, <1>10, <1>12 DEF A
<1>13. n \in grow[NNODE]
  BY <1>10 DEF A
<1> QED BY <1>8, <1>10, <1>11, <1>12, <1>13

\* Every node but the root is in the list of its parent.
LEMMA InList ==
    ASSUME NEW t, Good(t), NEW n \in Used(t), n # ROOT
    PROVE  n \in ToSet(List(t, t[n].parent))
<1>0. PICK M \in Nat : \E r \in Orders(M) : Ranked(t, r)
  BY DEF Good
<1>1. PICK r \in Orders(M) : Typed(t) /\ Linked(t) /\ Ranked(t, r) /\ Hung(t)
  BY <1>0 DEF Good
<1> DEFINE Bad == {m \in Used(t) : m # ROOT /\ m \notin ToSet(List(t, t[m].parent))}
<1> SUFFICES ASSUME Bad # {} PROVE FALSE
  OBVIOUS
<1>2. PICK m \in Bad : \A i \in Bad : r[m] <= r[i]
  <2> DEFINE S == {r[i] : i \in Bad}
  <2>1. S \subseteq Nat
    BY DEF Orders, Used
  <2>2. S # {}
    OBVIOUS
  <2> HIDE DEF S
  <2>3. PICK x \in S : \A y \in S : x <= y
    BY <2>1, <2>2, LeastNumber
  <2> USE DEF S
  <2> QED BY <2>3
<1>3. m \in Used(t) /\ m \in Nodes /\ m # ROOT /\ m # NULL
  BY <1>2, Numbering DEF Used
<1>4. CASE t[t[m].parent].child = m
  <2> DEFINE s == List(t, t[m].parent)
  <2>1. t[m].parent \in Nodes
    BY <1>1, <1>3 DEF Linked, Used
  <2>2. Chain(t, s, m)
    BY <1>4, <2>1, ListIsChain
  <2>3. s \in Seq(Nodes) /\ s # <<>> /\ s[1] = m
    BY <1>3, <2>2 DEF Chain
  <2> HIDE DEF s
  <2>4. 1 \in DOMAIN s
    BY <2>3
  <2>5. m \in ToSet(s)
    BY <2>3, <2>4 DEF ToSet
  <2> QED BY <1>2, <2>5 DEF s
<1>5. ASSUME NEW p \in Used(t), t[p].sibling = m PROVE FALSE
  <2>1. p # ROOT /\ t[m].parent = t[p].parent /\ r[p] < r[m] /\ p \in Nodes
    BY <1>1, <1>3, <1>5 DEF Linked, Ranked, Used
  <2>2. r[p] \in Nat /\ r[m] \in Nat
    BY <1>3, <2>1 DEF Orders
  <2>3. p \notin Bad
    BY <1>2, <2>1, <2>2
  <2> DEFINE s == List(t, t[m].parent)
  <2>4. p \in ToSet(s)
    BY <2>1, <2>3
  <2>5. t[m].parent \in Nodes
    BY <1>1, <1>3 DEF Linked, Used
  <2>6. Chain(t, s, t[t[m].parent].child)
    BY <2>5, ListIsChain
  <2> HIDE DEF s, Bad
  <2>7. s \in Seq(Nodes) /\ Len(s) \in Nat /\ DOMAIN s = 1 .. Len(s)
    BY <2>6 DEF Chain
  <2>8. PICK k \in 1 .. Len(s) : s[k] = p
    BY <2>4, <2>7 DEF ToSet
  <2>9. k # Len(s)
    <3> SUFFICES ASSUME k = Len(s) PROVE FALSE
      OBVIOUS
    <3>1. s # <<>>
      BY <2>7, <2>8
    <3>2. t[s[Len(s)]].sibling = NULL
      BY <2>6, <3>1 DEF Chain
    <3> QED BY <1>3, <1>5, <2>8, <3>2
  <2>a. k \in 1 .. Len(s) - 1 /\ k + 1 \in 1 .. Len(s)
    <3>1. Len(s) \in Nat
      BY <2>7
    <3> QED BY <2>9, <3>1
  <2>10. k \in 1 .. Len(s) - 1 /\ k + 1 \in DOMAIN s
    BY <2>7, <2>a
  <2>11. s[k + 1] = m
    BY <1>5, <2>6, <2>8, <2>10 DEF Chain
  <2>12. m \in ToSet(s)
    BY <2>10, <2>11 DEF ToSet
  <2> QED BY <1>2, <2>12 DEF s, Bad
<1> QED BY <1>1, <1>3, <1>4, <1>5, <1>2 DEF Hung

\* All nodes are below the root.
LEMMA BelowRoot ==
    ASSUME NEW t, Good(t)
    PROVE  Used(t) = Below(t, ROOT)
<1>0. PICK M \in Nat : \E r \in Orders(M) : Ranked(t, r)
  BY DEF Good
<1>1. PICK r \in Orders(M) : Typed(t) /\ Linked(t) /\ Ranked(t, r) /\ Hung(t)
  BY <1>0 DEF Good
<1>2. /\ ROOT \in Below(t, ROOT) /\ Below(t, ROOT) \subseteq Nodes
      /\ \A m \in Below(t, ROOT) : ToSet(List(t, m)) \subseteq Below(t, ROOT)
      /\ \A F : ROOT \in F /\ (\A m \in F \cap Nodes : ToSet(List(t, m)) \subseteq F)
                => Below(t, ROOT) \subseteq F
  BY Numbering, BelowGrows
<1>3. Below(t, ROOT) \subseteq Used(t)
  <2>1. ASSUME NEW m \in Used(t) PROVE ToSet(List(t, m)) \subseteq Used(t)
    <3>1. List(t, m) \in Seq(Used(t))
      <4> HIDE DEF Good
      <4> QED BY <1>1, ListOfChildren
    <3> QED BY <3>1 DEF ToSet
  <2>2. ROOT \in Used(t)
    BY <1>1 DEF Linked
  <2> QED BY <1>2, <2>1, <2>2
<1> DEFINE Bad == Used(t) \ Below(t, ROOT)
<1>4. Bad = {}
  <2> SUFFICES ASSUME Bad # {} PROVE FALSE
    OBVIOUS
  <2>1. PICK m \in Bad : \A i \in Bad : r[m] <= r[i]
    <3> DEFINE S == {r[i] : i \in Bad}
    <3>1. S \subseteq Nat
      BY DEF Orders, Used
    <3>2. S # {}
      OBVIOUS
    <3> HIDE DEF S
    <3>3. PICK x \in S : \A y \in S : x <= y
      BY <3>1, <3>2, LeastNumber
    <3> USE DEF S
    <3> QED BY <3>3
  <2>2. m \in Used(t) /\ m \in Nodes /\ m # ROOT
    BY <1>2, <2>1 DEF Used
  <2>3. t[m].parent \in Used(t) /\ t[m].parent \in Nodes /\ r[t[m].parent] < r[m]
    BY <1>1, <2>2 DEF Linked, Ranked, Used
  <2>4. r[m] \in Nat /\ r[t[m].parent] \in Nat
    BY <2>2, <2>3 DEF Orders
  <2>5. t[m].parent \in Below(t, ROOT)
    BY <2>1, <2>3, <2>4
  <2>6. m \in ToSet(List(t, t[m].parent))
    BY <2>2, InList
  <2> QED BY <1>2, <2>1, <2>5, <2>6
<1> QED BY <1>3, <1>4

-----------------------------------------------------------------------------
(* Pathnames.                                                              *)

\* A child that is found is in the list.
LEMMA SearchChild ==
    ASSUME NEW t, Good(t), NEW parent \in Used(t), NEW name
    PROVE  search_child(t, parent, name) \in ToSet(List(t, parent)) \cup {NULL}
<1> DEFINE list == List(t, parent)
           hits == {k \in DOMAIN list : t[list[k]].name = name}
           least == CHOOSE k \in hits : \A j \in hits : k <= j
<1>0. search_child(t, parent, name) = IF hits = {} THEN NULL ELSE list[least]
  BY DEF search_child
<1>1. parent \in Nodes
  BY DEF Used
<1>2. list \in Seq(Nodes)
  BY <1>1, ListIsChain DEF Chain
<1> HIDE DEF list
<1>3. hits \subseteq Nat
  <2>1. DOMAIN list \subseteq Nat
    BY <1>2
  <2> QED BY <2>1
<1>4. hits # {} => least \in hits
  <2> HIDE DEF hits
  <2> QED BY <1>3, LeastNumber
<1>5. hits # {} => list[least] \in ToSet(list)
  <2>1. hits \subseteq DOMAIN list
    OBVIOUS
  <2> HIDE DEF hits, least
  <2> QED BY <1>4, <2>1 DEF ToSet
<1> HIDE DEF hits, least
<1> QED BY <1>0, <1>5 DEF list

\* There are as many buffers as components.
LEMMA BuffersLength ==
    ASSUME NEW S, NEW comps \in Seq(S)
    PROVE  Buffers(comps) \in Seq({Buffers(comps)[k] : k \in DOMAIN comps}) /\ Len(Buffers(comps)) = Len(comps)
<1> DEFINE buffer == CHOOSE g : g = [k \in 0 .. Len(comps) |->
                                       IF k = 0 THEN <<>> ELSE Over(g[k - 1], comps[k])]
<1>1. Buffers(comps) = [k \in DOMAIN comps |-> buffer[k]]
  BY DEF Buffers
<1> HIDE DEF buffer
<1> DEFINE b == Buffers(comps)
           T == {b[k] : k \in DOMAIN comps}
<1>2. DOMAIN comps = 1 .. Len(comps) /\ Len(comps) \in Nat
  OBVIOUS
<1>3. b = [k \in 1 .. Len(comps) |-> b[k]]
  BY <1>1, <1>2
<1>4. \A k \in 1 .. Len(comps) : b[k] \in T
  BY <1>2
<1> HIDE DEF b, T
<1>5. b \in Seq(T) /\ Len(b) = Len(comps)
  BY <1>2, <1>3, <1>4
<1> QED BY <1>5 DEF b, T

\* A pathname leads down from the current directory, along a list at every step.
LEMMA GotoPath ==
    ASSUME NEW t, Good(t), NEW M \in Nat, NEW r \in Orders(M), Ranked(t, r),
           NEW c \in Used(t) \cup {NULL}, NEW path, NEW S, path.comps \in Seq(S)
    PROVE  /\ goto_path(t, c, path) \in Used(t) \cup {NULL, CRASH}
           /\ goto_path(t, c, path) \in Used(t) =>
                 /\ c \in Used(t) /\ goto_path(t, c, path) # ROOT
                 /\ r[c] <= r[t[goto_path(t, c, path)].parent]
<1> DEFINE buffers == IF path.comps = <<>> THEN <<<<>>>> ELSE Buffers(path.comps)
           K == Len(buffers)
           Body(g, k) == IF k = 0 THEN IF path.abs THEN NULL ELSE c
                         ELSE IF g[k - 1] \in {NULL, CRASH} THEN CRASH
                         ELSE search_child(t, g[k - 1], buffers[k])
           at == CHOOSE g : g = [k \in 0 .. K |-> Body(g, k)]
<1>1. goto_path(t, c, path) = at[K]
  BY DEF goto_path
<1>2. K \in Nat /\ K # 0
  <2>1. CASE path.comps = <<>>
    BY <2>1
  <2>2. CASE path.comps # <<>>
    <3>1. K = Len(path.comps)
      BY <2>2, BuffersLength
    <3> QED BY <2>2, <3>1
  <2> QED BY <2>1, <2>2
<1> HIDE DEF buffers, K
<1>3. at = [k \in 0 .. K |-> Body(at, k)]
  <2> DEFINE Solved(g, d) == g = [k \in 0 .. d |-> g[k]] /\ \A k \in 0 .. d : g[k] = Body(g, k)
             T == {d \in Nat : \E g : Solved(g, d)}
  <2>1. 0 \in T
    <3> DEFINE a == IF path.abs THEN NULL ELSE c
               g == [k \in 0 .. 0 |-> a]
    <3>1. g = [k \in 0 .. 0 |-> g[k]]
      OBVIOUS
    <3>2. Body(g, 0) = a
      OBVIOUS
    <3>3. g[0] = a
      OBVIOUS
    <3> HIDE DEF g, a, Body
    <3>4. Solved(g, 0)
      BY <3>1, <3>2, <3>3
    <3> HIDE DEF Solved
    <3> QED BY <3>4
  <2>2. ASSUME NEW d \in Nat, d \in T PROVE d + 1 \in T
    <3>1. PICK f : Solved(f, d)
      BY <2>2
    <3> DEFINE g == [k \in 0 .. d + 1 |-> IF k <= d THEN f[k] ELSE Body(f, k)]
    <3>2. g = [k \in 0 .. d + 1 |-> g[k]]
      OBVIOUS
    <3>3. ASSUME NEW k \in 0 .. d + 1 PROVE g[k] = Body(g, k)
      <4>1. g[k] = Body(f, k)
        <5>1. g[k] = IF k <= d THEN f[k] ELSE Body(f, k)
          OBVIOUS
        <5> HIDE DEF g, Body
        <5> QED BY <3>1, <5>1
      <4>2. k # 0 => k - 1 \in 0 .. d /\ g[k - 1] = f[k - 1]
        OBVIOUS
      <4> HIDE DEF g
      <4> QED BY <4>1, <4>2
    <3> HIDE DEF g, Body
    <3>4. Solved(g, d + 1)
      BY <3>2, <3>3
    <3> HIDE DEF Solved
    <3> QED BY <3>4
  <2>3. K \in T
    <3> HIDE DEF T
    <3> QED BY <1>2, <2>1, <2>2, SetInduction
  <2>4. PICK g : Solved(g, K)
    BY <2>3
  <2> HIDE DEF Body
  <2>5. g = [k \in 0 .. K |-> Body(g, k)]
    BY <2>4
  <2> QED BY <2>5
<1> HIDE DEF at
<1>4. \A k \in 0 .. K : at[k] = Body(at, k)
  <2> HIDE DEF Body
  <2> QED BY <1>3
<1>5. at[0] \in {c, NULL}
  BY <1>2, <1>4
<1>6. ASSUME NEW k \in 1 .. K PROVE at[k] = Body(at, k) /\ k # 0
  BY <1>2, <1>4
<1> DEFINE Step(k) == at[k] \in Used(t) =>
                         /\ at[k - 1] \in Used(t) /\ at[k] # ROOT /\ t[at[k]].parent = at[k - 1]
                         /\ r[at[k - 1]] < r[at[k]]
<1>7. ASSUME NEW k \in 1 .. K, at[k - 1] \in Used(t) \cup {NULL, CRASH}
      PROVE  at[k] \in Used(t) \cup {NULL, CRASH} /\ Step(k)
  <2>1. CASE at[k - 1] \in {NULL, CRASH}
    <3>1. at[k] = CRASH
      BY <1>6, <2>1
    <3> QED BY <3>1, Numbering DEF Used
  <2>2. CASE at[k - 1] \notin {NULL, CRASH}
    <3> DEFINE P == at[k - 1]
               s == List(t, P)
    <3>1. P \in Used(t) /\ at[k] = search_child(t, P, buffers[k])
      BY <1>6, <1>7, <2>2
    <3> HIDE DEF P
    <3>2. at[k] \in ToSet(s) \cup {NULL}
      BY <3>1, SearchChild
    <3>3. /\ s \in Seq(Used(t))
          /\ \A i \in 1 .. Len(s) : t[s[i]].parent = P /\ r[P] < r[s[i]]
      <4> HIDE DEF Orders
      <4> QED BY <3>1, ListOfChildren
    <3> HIDE DEF s
    <3>4. ASSUME at[k] # NULL
          PROVE  at[k] \in Used(t) /\ t[at[k]].parent = P /\ r[P] < r[at[k]]
      <4>1. DOMAIN s = 1 .. Len(s)
        BY <3>3
      <4>2. PICK i \in 1 .. Len(s) : at[k] = s[i]
        BY <3>2, <3>4, <4>1 DEF ToSet
      <4>3. s[i] \in Used(t)
        BY <3>3
      <4> QED BY <3>3, <4>2, <4>3
    <3>5. at[k] # NULL => at[k] # ROOT
      <4>1. r[P] \in Nat
        BY <3>1 DEF Orders, Used
      <4>2. t[ROOT].parent = ROOT
        BY DEF Good, Linked
      <4> QED BY <3>4, <4>1, <4>2
    <3>6. at[k] \in Used(t) => at[k] # NULL
      BY Numbering DEF Used
    <3> QED BY <3>1, <3>4, <3>5, <3>6 DEF P
  <2> QED BY <2>1, <2>2
<1> DEFINE Fine(k) == /\ at[k] \in Used(t) \cup {NULL, CRASH}
                      /\ at[k] \in Used(t) => c \in Used(t) /\ r[c] <= r[at[k]]
           U == {k \in Nat : k <= K => Fine(k)}
<1>8. ASSUME NEW x \in Used(t) PROVE r[x] \in Nat
  BY DEF Orders, Used
<1>9. 0 \in U
  <2>1. NULL \notin Used(t)
    BY Numbering DEF Used
  <2>2. c \in Used(t) => r[c] <= r[c]
    BY <1>8
  <2> QED BY <1>5, <2>1, <2>2
<1>10. ASSUME NEW k \in Nat, k \in U PROVE k + 1 \in U
  <2>1. SUFFICES ASSUME k + 1 <= K PROVE Fine(k + 1)
    OBVIOUS
  <2>2. k + 1 \in 1 .. K /\ (k + 1) - 1 = k /\ k <= K
    BY <1>2, <2>1
  <2>3. Fine(k)
    BY <1>10, <2>2
  <2>4. at[k + 1] \in Used(t) \cup {NULL, CRASH} /\ Step(k + 1)
    <3>1. at[(k + 1) - 1] \in Used(t) \cup {NULL, CRASH}
      BY <2>2, <2>3
    <3> HIDE DEF Step
    <3> QED BY <1>7, <2>2, <3>1
  <2>5. at[k + 1] \in Used(t) => at[k] \in Used(t) /\ r[at[k]] < r[at[k + 1]]
    BY <2>2, <2>4
  <2> QED BY <1>8, <2>3, <2>4, <2>5
<1>11. ASSUME NEW k \in Nat, k <= K PROVE Fine(k)
  <2>1. k \in U
    <3> HIDE DEF U
    <3> QED BY <1>9, <1>10, SetInduction
  <2> QED BY <1>11, <2>1
<1>12. Fine(K) /\ Fine(K - 1) /\ Step(K)
  <2>1. K - 1 \in Nat /\ K - 1 <= K /\ K \in 1 .. K
    BY <1>2
  <2> HIDE DEF Step
  <2>2. Fine(K) /\ Fine(K - 1)
    BY <1>2, <1>11, <2>1
  <2> QED BY <1>7, <2>1, <2>2
<1> QED BY <1>1, <1>12

-----------------------------------------------------------------------------
(* A node more.                                                            *)

\* A new node hangs at x, which is the parent without a child or its last child.
Attached(t, u, q, x, name, type, parent) ==
    /\ u = [n \in Nodes |-> u[n]]
    /\ u[q] = NODE(name, type, parent)
    /\ \A n \in Nodes \ {q, x} : u[n] = t[n]
    /\ IsNode(u[x]) /\ u[x].type = t[x].type /\ u[x].name = t[x].name /\ u[x].parent = t[x].parent
    /\ \/ /\ x = parent /\ t[x].child = NULL
          /\ u[x].child = q /\ u[x].sibling = t[x].sibling
       \/ /\ x # ROOT /\ t[x].parent = parent /\ t[x].sibling = NULL
          /\ u[x].sibling = q /\ u[x].child = t[x].child

LEMMA AttachKeeps ==
    ASSUME NEW t, Good(t), NEW q \in Nodes \ Used(t), NEW x \in Used(t), NEW parent \in Used(t),
           NEW type \in Types, NEW name, NEW u, Attached(t, u, q, x, name, type, parent)
    PROVE  Good(u) /\ Used(u) = Used(t) \cup {q}
<1>0. PICK M \in Nat : \E r \in Orders(M) : Ranked(t, r)
  BY DEF Good
<1>1. PICK r \in Orders(M) : Typed(t) /\ Linked(t) /\ Ranked(t, r) /\ Hung(t)
  BY <1>0 DEF Good
<1>2. /\ u[q].type = type /\ u[q].child = NULL /\ u[q].sibling = NULL /\ u[q].parent = parent
      /\ IsNode(u[q])
  BY DEF Attached, NODE, IsNode
<1>3. type # "unused" /\ q \in Nodes /\ x \in Nodes /\ parent \in Nodes /\ q # x /\ q # NULL /\ q # ROOT
      /\ q # parent /\ x # NULL
  BY <1>1, Numbering DEF Types, Used, Linked
<1>4. ASSUME NEW n \in Nodes, n # q
      PROVE  /\ u[n].type = t[n].type /\ u[n].parent = t[n].parent /\ IsNode(u[n])
             /\ u[n].child = t[n].child \/ (n = x /\ n = parent /\ t[n].child = NULL /\ u[n].child = q)
             /\ u[n].sibling = t[n].sibling
                \/ (n = x /\ n # ROOT /\ t[n].parent = parent /\ t[n].sibling = NULL /\ u[n].sibling = q)
  <2>1. CASE n = x
    BY <1>4, <2>1 DEF Attached
  <2>2. CASE n # x
    BY <1>1, <1>4, <2>2 DEF Attached, Typed
  <2> QED BY <2>1, <2>2
<1>5. Used(u) = Used(t) \cup {q}
  <2>1. ASSUME NEW n \in Nodes, n # q PROVE u[n].type = t[n].type
    BY <1>4, <2>1
  <2> QED BY <1>2, <1>3, <2>1 DEF Used
<1>6. Typed(u)
  <2>1. ASSUME NEW n \in Nodes
        PROVE  /\ IsNode(u[n]) /\ u[n].type \in Types \cup {"unused"}
               /\ {u[n].child, u[n].sibling, u[n].parent} \subseteq Nodes \cup {NULL}
               /\ u[n].type = "unused" => u[n].child = NULL /\ u[n].sibling = NULL
    <3>1. CASE n = q
      BY <1>2, <1>3, <3>1
    <3>2. CASE n # q
      <4>1. /\ t[n].type \in Types \cup {"unused"}
            /\ {t[n].child, t[n].sibling, t[n].parent} \subseteq Nodes \cup {NULL}
            /\ t[n].type = "unused" => t[n].child = NULL /\ t[n].sibling = NULL
            /\ t[n].type = "unused" => n # x
        BY <1>1 DEF Typed, Used
      <4> QED BY <1>3, <1>4, <3>2, <4>1
    <3> QED BY <3>1, <3>2
  <2>2. u = [n \in Nodes |-> u[n]]
    BY DEF Attached
  <2> QED BY <2>1, <2>2 DEF Typed
<1>7. ASSUME NEW n \in Used(t) PROVE n \in Nodes /\ n # q /\ n # NULL
  BY Numbering DEF Used
<1>8. Linked(u)
  <2>1. ROOT \in Used(u) /\ u[ROOT].parent = ROOT /\ u[ROOT].sibling = NULL
    <3>1. ROOT \in Used(t) /\ t[ROOT].parent = ROOT /\ t[ROOT].sibling = NULL /\ ROOT \in Nodes /\ ROOT # q
      BY <1>1, <1>3, Numbering DEF Linked
    <3>2. u[ROOT].parent = t[ROOT].parent /\ u[ROOT].sibling = t[ROOT].sibling
      BY <1>4, <3>1
    <3> QED BY <1>5, <3>1, <3>2
  <2>2. ASSUME NEW n \in Used(t)
        PROVE  /\ u[n].parent \in Used(u)
               /\ u[n].child # NULL => u[n].child \in Used(u) /\ u[u[n].child].parent = n
               /\ u[n].sibling # NULL => /\ u[n].sibling \in Used(u)
                                         /\ u[u[n].sibling].parent = u[n].parent
    <3>1. /\ t[n].parent \in Used(t)
          /\ t[n].child # NULL => t[n].child \in Used(t) /\ t[t[n].child].parent = n
          /\ t[n].sibling # NULL => t[n].sibling \in Used(t) /\ t[t[n].sibling].parent = t[n].parent
      BY <1>1 DEF Linked
    <3>2. n \in Nodes /\ n # q
      BY <1>7
    <3>3. u[n].parent \in Used(u)
      BY <1>4, <1>5, <3>1, <3>2
    <3>4. ASSUME u[n].child # NULL PROVE u[n].child \in Used(u) /\ u[u[n].child].parent = n
      <4>1. CASE u[n].child = t[n].child
        <5>1. t[n].child \in Used(t) /\ t[t[n].child].parent = n
          BY <3>1, <3>4, <4>1
        <5>2. u[t[n].child].parent = t[t[n].child].parent
          BY <1>4, <1>7, <5>1
        <5> QED BY <1>5, <4>1, <5>1, <5>2
      <4>2. CASE n = parent /\ u[n].child = q
        BY <1>2, <1>5, <4>2
      <4> QED BY <1>4, <3>2, <4>1, <4>2
    <3>5. ASSUME u[n].sibling # NULL
          PROVE  u[n].sibling \in Used(u) /\ u[u[n].sibling].parent = u[n].parent
      <4>0. u[n].parent = t[n].parent
        BY <1>4, <3>2
      <4>1. CASE u[n].sibling = t[n].sibling
        <5>1. t[n].sibling \in Used(t) /\ t[t[n].sibling].parent = t[n].parent
          BY <3>1, <3>5, <4>1
        <5>2. u[t[n].sibling].parent = t[t[n].sibling].parent
          BY <1>4, <1>7, <5>1
        <5> QED BY <1>5, <4>0, <4>1, <5>1, <5>2
      <4>2. CASE t[n].parent = parent /\ u[n].sibling = q
        BY <1>2, <1>5, <4>0, <4>2
      <4> QED BY <1>4, <3>2, <4>1, <4>2
    <3> QED BY <3>3, <3>4, <3>5
  <2>3. u[q].parent \in Used(u) /\ u[q].child = NULL /\ u[q].sibling = NULL
    BY <1>2, <1>5
  <2> QED BY <1>5, <2>1, <2>2, <2>3 DEF Linked
<1>9. Hung(u)
  <2>1. ASSUME NEW n \in Used(t), n # ROOT
        PROVE  u[u[n].parent].child = n \/ \E m \in Used(u) : u[m].sibling = n
    <3>1. n \in Nodes /\ n # q /\ n # NULL /\ u[n].parent = t[n].parent /\ t[n].parent \in Used(t)
      BY <1>1, <1>4, <1>7 DEF Linked
    <3>2. CASE t[t[n].parent].child = n
      <4>1. u[t[n].parent].child = t[t[n].parent].child
        BY <1>4, <1>7, <3>1, <3>2
      <4> QED BY <3>1, <3>2, <4>1
    <3>3. CASE \E m \in Used(t) : t[m].sibling = n
      <4>1. PICK m \in Used(t) : t[m].sibling = n
        BY <3>3
      <4>2. u[m].sibling = t[m].sibling
        BY <1>4, <1>7, <3>1, <4>1
      <4> QED BY <1>5, <4>1, <4>2
    <3> QED BY <1>1, <2>1, <3>2, <3>3 DEF Hung
  <2>2. u[u[q].parent].child = q \/ \E m \in Used(u) : u[m].sibling = q
    <3>1. u[parent].child = q \/ u[x].sibling = q
      BY DEF Attached
    <3> QED BY <1>2, <1>5, <3>1
  <2> QED BY <1>5, <2>1, <2>2 DEF Hung
<1>10. \E r2 \in Orders(M + 1) : Ranked(u, r2)
  <2> DEFINE r2 == [n \in Nodes |-> IF n = q THEN M + 1 ELSE r[n]]
  <2>1. ASSUME NEW n \in Nodes PROVE r[n] \in 0 .. M
    BY DEF Orders
  <2>2. r2 \in Orders(M + 1)
    <3>1. ASSUME NEW n \in Nodes PROVE r2[n] \in 0 .. M + 1
      BY <2>1
    <3> QED BY <3>1 DEF Orders
  <2>3. ASSUME NEW n \in Used(t)
        PROVE  r2[n] = r[n] /\ r2[n] \in 0 .. M /\ r2[q] = M + 1 /\ r2[n] < r2[q]
    BY <1>3, <1>7, <2>1
  <2> HIDE DEF r2
  <2>4. ASSUME NEW n \in Used(u)
        PROVE  /\ u[n].child # NULL => r2[n] < r2[u[n].child]
               /\ u[n].sibling # NULL => r2[n] < r2[u[n].sibling]
               /\ n # ROOT => r2[u[n].parent] < r2[n]
    <3>1. CASE n = q
      BY <1>2, <2>3, <3>1
    <3>2. CASE n \in Used(t)
      <4>1. n \in Nodes /\ n # q /\ u[n].parent = t[n].parent /\ t[n].parent \in Used(t)
        BY <1>1, <1>4, <1>7, <3>2 DEF Linked
      <4>2. n # ROOT => r2[u[n].parent] < r2[n]
        BY <1>1, <2>3, <3>2, <4>1 DEF Ranked
      <4>3. ASSUME u[n].child # NULL PROVE r2[n] < r2[u[n].child]
        <5>1. CASE u[n].child = t[n].child
          <6>1. t[n].child \in Used(t) /\ r[n] < r[t[n].child]
            BY <1>1, <3>2, <4>3, <5>1 DEF Linked, Ranked
          <6> QED BY <2>3, <3>2, <5>1, <6>1
        <5>2. CASE u[n].child = q
          BY <2>3, <3>2, <5>2
        <5> QED BY <1>4, <4>1, <5>1, <5>2
      <4>4. ASSUME u[n].sibling # NULL PROVE r2[n] < r2[u[n].sibling]
        <5>1. CASE u[n].sibling = t[n].sibling
          <6>1. t[n].sibling \in Used(t) /\ r[n] < r[t[n].sibling]
            BY <1>1, <3>2, <4>4, <5>1 DEF Linked, Ranked
          <6> QED BY <2>3, <3>2, <5>1, <6>1
        <5>2. CASE u[n].sibling = q
          BY <2>3, <3>2, <5>2
        <5> QED BY <1>4, <4>1, <5>1, <5>2
      <4> QED BY <4>2, <4>3, <4>4
    <3> QED BY <1>5, <3>1, <3>2
  <2>5. Ranked(u, r2)
    BY <2>4 DEF Ranked
  <2> QED BY <2>2, <2>5
<1>11. Good(u)
  <2>1. M + 1 \in Nat
    OBVIOUS
  <2> QED BY <1>6, <1>8, <1>9, <1>10, <2>1 DEF Good
<1> QED BY <1>5, <1>11

\* insert_child() takes a free place and one pointer that was NULL.
LEMMA InsertAttaches ==
    ASSUME NEW t, Good(t), NEW parent \in Used(t), NEW name, NEW type \in Types, Used(t) # Nodes
    PROVE  \E q \in Nodes \ Used(t), x \in Used(t) :
              Attached(t, insert_child(t, parent, name, type), q, x, name, type, parent)
<1> DEFINE q == New(t)
           u == insert_child(t, parent, name, type)
           s == List(t, parent)
           x == s[Len(s)]
<1>0. PICK M \in Nat : \E r \in Orders(M) : Ranked(t, r)
  BY DEF Good
<1>1. PICK r \in Orders(M) : Typed(t) /\ Linked(t) /\ Ranked(t, r)
  BY <1>0 DEF Good
<1>2. q \in Nodes \ Used(t)
  <2> DEFINE Free == Nodes \ Used(t)
  <2>1. Free \subseteq Nat /\ Free # {}
    BY Numbering DEF Used
  <2>2. q = CHOOSE n \in Free : \A m \in Free : n <= m
    BY DEF New
  <2> HIDE DEF Free, q
  <2>3. q \in Free
    BY <2>1, <2>2, LeastNumber
  <2> QED BY <2>3 DEF Free
<1>3. u = IF t[parent].child = NULL
          THEN [t EXCEPT ![q] = NODE(name, type, parent), ![parent].child = q]
          ELSE [t EXCEPT ![q] = NODE(name, type, parent), ![x].sibling = q]
  BY DEF insert_child, Last
<1> HIDE DEF q, u
<1>4. parent \in Nodes /\ t = [n \in Nodes |-> t[n]] /\ \A n \in Nodes : IsNode(t[n])
  BY <1>1 DEF Used, Typed
<1>5. CASE t[parent].child = NULL
  <2>1. u = [t EXCEPT ![q] = NODE(name, type, parent), ![parent].child = q]
    BY <1>3, <1>5
  <2>2. parent # q /\ q \in Nodes
    BY <1>2
  <2>3. /\ u = [n \in Nodes |-> u[n]] /\ u[q] = NODE(name, type, parent)
        /\ \A n \in Nodes \ {q, parent} : u[n] = t[n]
        /\ u[parent] = [t[parent] EXCEPT !.child = q]
    BY <1>4, <2>1, <2>2
  <2>4. /\ IsNode(u[parent]) /\ u[parent].type = t[parent].type /\ u[parent].parent = t[parent].parent
        /\ u[parent].child = q /\ u[parent].sibling = t[parent].sibling
        /\ u[parent].name = t[parent].name
    BY <1>4, <2>3 DEF IsNode
  <2>5. Attached(t, u, q, parent, name, type, parent)
    BY <1>5, <2>3, <2>4 DEF Attached
  <2> QED BY <1>2, <2>5 DEF u
<1>6. CASE t[parent].child # NULL
  <2>1. u = [t EXCEPT ![q] = NODE(name, type, parent), ![x].sibling = q]
    BY <1>3, <1>6
  <2>2. Chain(t, s, t[parent].child)
    BY <1>4, ListIsChain
  <2>3. /\ s \in Seq(Used(t))
        /\ \A k \in 1 .. Len(s) : t[s[k]].parent = parent /\ r[parent] < r[s[k]]
    <3> HIDE DEF Orders
    <3> QED BY <1>1, ListOfChildren
  <2> HIDE DEF s
  <2>4. Len(s) \in 1 .. Len(s) /\ t[x].sibling = NULL
    BY <1>6, <2>2, <2>3 DEF Chain
  <2>5. x \in Used(t) /\ t[x].parent = parent /\ r[parent] < r[x]
    BY <2>3, <2>4
  <2> HIDE DEF x
  <2>6. x # ROOT
    <3>1. r[parent] \in Nat
      BY <1>4 DEF Orders
    <3> QED BY <1>1, <2>5, <3>1 DEF Linked
  <2>7. x # q /\ q \in Nodes /\ x \in Nodes
    BY <1>2, <2>5 DEF Used
  <2>8. /\ u = [n \in Nodes |-> u[n]] /\ u[q] = NODE(name, type, parent)
        /\ \A n \in Nodes \ {q, x} : u[n] = t[n]
        /\ u[x] = [t[x] EXCEPT !.sibling = q]
    BY <1>4, <2>1, <2>7
  <2>9. /\ IsNode(u[x]) /\ u[x].type = t[x].type /\ u[x].parent = t[x].parent
        /\ u[x].child = t[x].child /\ u[x].sibling = q /\ u[x].name = t[x].name
    BY <1>4, <2>7, <2>8 DEF IsNode
  <2>10. Attached(t, u, q, x, name, type, parent)
    BY <2>4, <2>5, <2>6, <2>8, <2>9 DEF Attached
  <2> QED BY <1>2, <2>5, <2>10 DEF u
<1> QED BY <1>5, <1>6

\* What is looked for is a node of the tree, if it is one at all.
LEMMA GotoNode ==
    ASSUME NEW t, Good(t), NEW c \in Used(t) \cup {NULL}, NEW path, NEW S, path.comps \in Seq(S)
    PROVE  goto_path(t, c, path) \in Used(t) \cup {NULL, CRASH}
<1>0. PICK M \in Nat : \E r \in Orders(M) : Ranked(t, r)
  BY DEF Good
<1>1. PICK r \in Orders(M) : Ranked(t, r)
  BY <1>0
<1> HIDE DEF Orders
<1> QED BY <1>1, GotoPath

LEMMA UnderNode ==
    ASSUME NEW t, Good(t), NEW c \in Used(t) \cup {NULL}, NEW path
    PROVE  Under(t, c, path) \in Used(t) \cup {NULL, CRASH}
<1> DEFINE before == Front(Buffers(path.comps))
           joined == FlattenSeq(before)
           short == [abs |-> FALSE, comps |-> <<joined>>]
<1>1. Under(t, c, path) = IF before = <<>> THEN IF path.abs THEN ROOT ELSE c ELSE goto_path(t, c, short)
  BY DEF Under
<1> HIDE DEF before, joined
<1>2. short.comps \in Seq({joined})
  OBVIOUS
<1> HIDE DEF short
<1>3. goto_path(t, c, short) \in Used(t) \cup {NULL, CRASH}
  BY <1>2, GotoNode
<1>4. ROOT \in Used(t)
  BY DEF Good, Linked
<1> QED BY <1>1, <1>3, <1>4

\* The tree of a program that crashed is none of the trees of a program that goes on.
LEMMA CrashedIsNone == ASSUME NEW t, Good(t) PROVE t # Crashed
<1>1. t[ROOT].type \in {"D", "F", "unused"}
  BY Numbering DEF Good, Typed, Types
<1>2. Crashed[ROOT].type = "crash"
  BY Numbering DEF Crashed, OnlyRoot, NODE
<1> QED BY <1>1, <1>2

LEMMA MakeFileAttaches ==
    ASSUME NEW t, Good(t), NEW c \in Used(t) \cup {NULL}, NEW path, NEW type \in Types, Used(t) # Nodes,
           makeFile(t, c, path, type) # Crashed
    PROVE  \E parent \in Used(t), q \in Nodes \ Used(t), x \in Used(t) :
              Attached(t, makeFile(t, c, path, type), q, x, Last(Buffers(path.comps)), type, parent)
<1> DEFINE parent == Under(t, c, path)
           name == Last(Buffers(path.comps))
<1>1. parent \in Used(t) \cup {NULL, CRASH}
  BY UnderNode
<1>2. makeFile(t, c, path, type) = IF parent \in {NULL, CRASH} THEN Crashed
                                   ELSE insert_child(t, parent, name, type)
  BY DEF makeFile
<1> HIDE DEF parent, name
<1>3. parent \in Used(t) /\ makeFile(t, c, path, type) = insert_child(t, parent, name, type)
  BY <1>1, <1>2
<1>4. \E q \in Nodes \ Used(t), x \in Used(t) :
         Attached(t, insert_child(t, parent, name, type), q, x, name, type, parent)
  BY <1>3, InsertAttaches
<1> QED BY <1>3, <1>4 DEF name

LEMMA MakeFile ==
    ASSUME NEW t, Good(t), NEW c \in Used(t) \cup {NULL}, NEW path, NEW type \in Types, Used(t) # Nodes,
           makeFile(t, c, path, type) # Crashed
    PROVE  /\ Good(makeFile(t, c, path, type))
           /\ \E q \in Nodes \ Used(t) : Used(makeFile(t, c, path, type)) = Used(t) \cup {q}
<1> DEFINE u == makeFile(t, c, path, type)
           name == Last(Buffers(path.comps))
<1>1. \E parent \in Used(t), q \in Nodes \ Used(t), x \in Used(t) :
         Attached(t, u, q, x, name, type, parent)
  BY MakeFileAttaches
<1> HIDE DEF u, name
<1>2. PICK parent \in Used(t), q \in Nodes \ Used(t), x \in Used(t) :
         Attached(t, u, q, x, name, type, parent)
  BY <1>1
<1>3. Good(u) /\ Used(u) = Used(t) \cup {q}
  BY <1>2, AttachKeeps
<1> QED BY <1>3 DEF u

LEMMA RootAlone == Good(OnlyRoot) /\ Used(OnlyRoot) = {ROOT}
<1> DEFINE t == OnlyRoot
<1>1. /\ t = [n \in Nodes |-> t[n]]
      /\ t[ROOT] = NODE(<<>>, "D", ROOT) /\ \A n \in Nodes \ {ROOT} : t[n] = Unused
  BY Numbering DEF OnlyRoot
<1> HIDE DEF t
<1>2. Used(t) = {ROOT}
  <2>1. t[ROOT].type = "D"
    BY <1>1 DEF NODE
  <2>2. \A n \in Nodes \ {ROOT} : t[n].type = "unused"
    BY <1>1 DEF Unused, NODE
  <2> QED BY <2>1, <2>2, Numbering DEF Used
<1>3. /\ t[ROOT].child = NULL /\ t[ROOT].sibling = NULL /\ t[ROOT].parent = ROOT /\ IsNode(t[ROOT])
      /\ t[ROOT].type = "D"
  BY <1>1 DEF NODE, IsNode
<1>4. Typed(t)
  <2>1. ASSUME NEW n \in Nodes \ {ROOT}
        PROVE  /\ IsNode(t[n]) /\ t[n].type = "unused" /\ t[n].child = NULL /\ t[n].sibling = NULL
               /\ t[n].parent = NULL
    BY <1>1 DEF Unused, NODE, IsNode
  <2> QED BY <1>1, <1>3, <2>1, Numbering DEF Typed, Types
<1>5. Linked(t) /\ Hung(t)
  BY <1>2, <1>3 DEF Linked, Hung
<1>6. \E r \in Orders(0) : Ranked(t, r)
  <2> DEFINE r == [n \in Nodes |-> 0]
  <2>1. r \in Orders(0)
    BY DEF Orders
  <2>2. Ranked(t, r)
    BY <1>2, <1>3 DEF Ranked
  <2> HIDE DEF r
  <2> QED BY <2>1, <2>2
<1>7. Good(t)
  BY <1>4, <1>5, <1>6 DEF Good
<1> QED BY <1>2, <1>7 DEF t

-----------------------------------------------------------------------------
(* Nodes that nothing leads to any more.                                   *)

Pointers(x) == {x.child, x.sibling, x.parent} \ {NULL}

\* The nodes that pointers lead to are the least set with the two they start from.
LEMMA TouchedGrows ==
    ASSUME NEW t, NEW c \in Nodes \cup {NULL}, \A n \in Nodes : Pointers(t[n]) \subseteq Nodes
    PROVE  /\ {ROOT, c} \ {NULL} \subseteq Touched(t, c) /\ Touched(t, c) \subseteq Nodes
           /\ \A n \in Touched(t, c) : Pointers(t[n]) \subseteq Touched(t, c)
           /\ \A F : {ROOT, c} \ {NULL} \subseteq F /\ (\A n \in F \cap Nodes : Pointers(t[n]) \subseteq F)
                     => Touched(t, c) \subseteq F
<1> DEFINE A == {ROOT, c} \ {NULL}
           nx == [n \in Nodes |-> Pointers(t[n])]
           next(n) == {t[n].child, t[n].sibling, t[n].parent} \ {NULL}
           Body(g, k) == IF k = 0 THEN A ELSE g[k - 1] \cup UNION {next(n) : n \in g[k - 1]}
<1>1. nx \in [Nodes -> SUBSET Nodes]
  OBVIOUS
<1>2. \A n \in Nodes : nx[n] = Pointers(t[n]) /\ nx[n] = next(n)
  BY DEF Pointers
<1>3. A \in SUBSET Nodes
  BY Numbering
<1> HIDE DEF nx
<1>4. ASSUME NEW X \in SUBSET Nodes PROVE UNION {next(n) : n \in X} = UNION {nx[n] : n \in X}
  <2> HIDE DEF next
  <2> QED BY <1>2
<1>8a. Touched(t, c) = LET grow[k \in 0 .. NNODE] == Body(grow, k) IN grow[NNODE]
  BY DEF Touched
<1> HIDE DEF A, next
<1>5. PICK f : Rounds(A, nx, f) /\ \A k \in 0 .. NNODE : f[k] \in SUBSET Nodes
  BY <1>1, <1>3, RoundsExist
<1>6. f = [k \in 0 .. NNODE |-> Body(f, k)]
  <2>1. ASSUME NEW k \in 0 .. NNODE PROVE GrowBody(A, nx, f, k) = Body(f, k)
    <3>1. k # 0 => f[k - 1] \in SUBSET Nodes
      BY <1>5, NodesAssumption
    <3> QED BY <1>4, <3>1 DEF GrowBody
  <2>2. f = [k \in 0 .. NNODE |-> GrowBody(A, nx, f, k)]
    BY <1>5 DEF Rounds
  <2> HIDE DEF Body
  <2> QED BY <2>1, <2>2
<1> DEFINE grow == CHOOSE h : h = [k \in 0 .. NNODE |-> Body(h, k)]
<1>7. grow = [k \in 0 .. NNODE |-> Body(grow, k)]
  <2> HIDE DEF Body
  <2> QED BY <1>6
<1>8. Touched(t, c) = grow[NNODE]
  BY <1>8a
<1> HIDE DEF grow
<1>9. Rounds(A, nx, grow)
  <2>0. 0 \in 0 .. NNODE /\ \A k \in 1 .. NNODE : k \in 0 .. NNODE /\ k # 0
    BY NodesAssumption
  <2>1. grow = [k \in 0 .. NNODE |-> grow[k]] /\ \A k \in 0 .. NNODE : grow[k] = Body(grow, k)
    <3> HIDE DEF Body
    <3> QED BY <1>7
  <2>2. grow[0] = A
    <3>1. Body(grow, 0) = A
      OBVIOUS
    <3> HIDE DEF Body
    <3> QED BY <2>0, <2>1, <3>1
  <2>3. ASSUME NEW k \in 1 .. NNODE, grow[k - 1] \in SUBSET Nodes
        PROVE  grow[k] = grow[k - 1] \cup UNION {nx[n] : n \in grow[k - 1]}
    <3>1. Body(grow, k) = grow[k - 1] \cup UNION {next(n) : n \in grow[k - 1]}
      BY <2>0
    <3> HIDE DEF Body
    <3> QED BY <1>4, <2>0, <2>1, <2>3, <3>1
  <2> QED BY <1>1, <1>3, <2>1, <2>2, <2>3, RoundsOfNodes
<1>10. /\ A \subseteq grow[NNODE] /\ grow[NNODE] \subseteq Nodes
       /\ \A n \in grow[NNODE] : nx[n] \subseteq grow[NNODE]
       /\ \A F : A \subseteq F /\ (\A n \in F \cap Nodes : nx[n] \subseteq F) => grow[NNODE] \subseteq F
  BY <1>1, <1>3, <1>9, Growing
<1>11. \A n \in grow[NNODE] : Pointers(t[n]) \subseteq grow[NNODE]
  BY <1>2, <1>10
<1>12. ASSUME NEW F, A \subseteq F, \A n \in F \cap Nodes : Pointers(t[n]) \subseteq F
       PROVE  grow[NNODE] \subseteq F
  BY <1>2, <1>10, <1>12
<1> QED BY <1>8, <1>10, <1>11, <1>12 DEF A

\* A tree of which pointers have been cut: a list of children, or nodes out of one.
\* Those up to the number b in the order still lead where they did.
Pruned(t, after, r, b) ==
    /\ after = [n \in Nodes |-> after[n]]
    /\ \A n \in Nodes :
          /\ IsNode(after[n]) /\ after[n].type = t[n].type /\ after[n].parent = t[n].parent
          /\ after[n].name = t[n].name /\ after[n].child \in {t[n].child, NULL}
          /\ \/ after[n].sibling \in {t[n].sibling, NULL}
             \/ /\ n \in Used(t) /\ n # ROOT /\ after[n].sibling \in Used(t)
                /\ t[after[n].sibling].parent = t[n].parent /\ r[n] < r[after[n].sibling]
          /\ t[n].child \in Nodes /\ r[t[n].child] <= b => after[n].child = t[n].child
          /\ t[n].sibling \in Nodes /\ r[t[n].sibling] <= b => after[n].sibling = t[n].sibling

\* If the nodes are cut off that nothing leads to, what is left is a tree again.
LEMMA CollectKeeps ==
    ASSUME NEW t, Good(t), NEW M \in Nat, NEW r \in Orders(M), Ranked(t, r), NEW b \in Nat,
           NEW c \in Used(t) \cup {NULL}, c \in Used(t) => r[c] <= b, NEW after, Pruned(t, after, r, b)
    PROVE  Good(Collected(after, c)) /\ c \in Used(Collected(after, c)) \cup {NULL}
<1>1. Typed(t) /\ Linked(t) /\ Hung(t)
  BY DEF Good
<1>2. ASSUME NEW n \in Nodes
      PROVE  /\ after[n].type \in Types \cup {"unused"} /\ after[n].parent \in Nodes \cup {NULL}
             /\ after[n].child \in Nodes \cup {NULL} /\ after[n].sibling \in Nodes \cup {NULL}
             /\ after[n].type = "unused" => after[n].child = NULL /\ after[n].sibling = NULL
             /\ n \in Used(t) <=> after[n].type # "unused"
  <2>1. /\ t[n].type \in Types \cup {"unused"}
        /\ {t[n].child, t[n].sibling, t[n].parent} \subseteq Nodes \cup {NULL}
        /\ t[n].type = "unused" => t[n].child = NULL /\ t[n].sibling = NULL
    BY <1>1 DEF Typed
  <2>2. n \in Used(t) <=> t[n].type # "unused"
    BY DEF Used
  <2>3. \A m \in Used(t) : m \in Nodes
    BY DEF Used
  <2> QED BY <2>1, <2>2, <2>3 DEF Pruned
\* What the pointers of a node still lead to, as in the tree before.
<1>3. ASSUME NEW n \in Used(t)
      PROVE  /\ n \in Nodes /\ n # NULL /\ after[n].parent = t[n].parent /\ t[n].parent \in Used(t)
             /\ after[n].child # NULL => /\ after[n].child \in Used(t) /\ r[n] < r[after[n].child]
                                         /\ after[after[n].child].parent = n
             /\ after[n].sibling # NULL => /\ after[n].sibling \in Used(t) /\ r[n] < r[after[n].sibling]
                                           /\ after[after[n].sibling].parent = after[n].parent
  <2>1. n \in Nodes /\ n # NULL
    BY Numbering DEF Used
  <2>2. /\ t[n].parent \in Used(t)
        /\ t[n].child # NULL => /\ t[n].child \in Used(t) /\ t[t[n].child].parent = n
                                /\ r[n] < r[t[n].child]
        /\ t[n].sibling # NULL => /\ t[n].sibling \in Used(t) /\ t[t[n].sibling].parent = t[n].parent
                                  /\ r[n] < r[t[n].sibling]
    BY <1>1 DEF Linked, Ranked
  <2>3. \A m \in Used(t) : after[m].parent = t[m].parent
    BY DEF Used, Pruned
  <2>4. /\ after[n].child \in {t[n].child, NULL}
        /\ \/ after[n].sibling \in {t[n].sibling, NULL}
           \/ /\ after[n].sibling \in Used(t)
              /\ t[after[n].sibling].parent = t[n].parent /\ r[n] < r[after[n].sibling]
    BY <2>1 DEF Pruned
  <2>5. after[n].child # NULL => /\ after[n].child \in Used(t) /\ r[n] < r[after[n].child]
                                 /\ after[after[n].child].parent = n
    BY <2>2, <2>3, <2>4
  <2>6. after[n].sibling # NULL => /\ after[n].sibling \in Used(t) /\ r[n] < r[after[n].sibling]
                                   /\ after[after[n].sibling].parent = after[n].parent
    BY <2>2, <2>3, <2>4
  <2> QED BY <2>1, <2>2, <2>3, <2>5, <2>6
\* F: the nodes that lists lead to from the root.
<1> DEFINE Onward(X) == \A n \in X : {after[n].child, after[n].sibling} \ {NULL} \subseteq X
           F == {n \in Nodes : \A X \in SUBSET Nodes : ROOT \in X /\ Onward(X) => n \in X}
<1>4. ROOT \in F /\ Onward(F) /\ F \subseteq Nodes
  <2>1. ROOT \in F
    BY Numbering
  <2>2. ASSUME NEW n \in F, NEW m \in {after[n].child, after[n].sibling} \ {NULL} PROVE m \in F
    <3>1. m \in Nodes
      BY <1>2
    <3>2. ASSUME NEW X \in SUBSET Nodes, ROOT \in X, Onward(X) PROVE m \in X
      <4>1. n \in X
        BY <3>2
      <4> QED BY <3>2, <4>1
    <3> QED BY <3>1, <3>2
  <2> HIDE DEF F
  <2>3. Onward(F)
    BY <2>2
  <2>4. F \subseteq Nodes
    BY DEF F
  <2> QED BY <2>1, <2>3, <2>4
<1>5. ASSUME NEW X \in SUBSET Nodes, ROOT \in X, Onward(X) PROVE F \subseteq X
  BY <1>5
<1> HIDE DEF F
<1>6. F \subseteq Used(t)
  <2>1. Onward(Used(t))
    BY <1>3
  <2>2. ROOT \in Used(t) /\ Used(t) \in SUBSET Nodes
    BY <1>1 DEF Linked, Used
  <2> HIDE DEF Onward
  <2> QED BY <1>5, <2>1, <2>2
<1>7. ASSUME NEW n \in F PROVE after[n].parent \in F
  <2> DEFINE X == {m \in F : after[m].parent \in F}
  <2>1. ROOT \in X
    BY <1>1, <1>3, <1>4, <1>6 DEF Linked
  <2>2. ASSUME NEW m \in X, NEW i \in {after[m].child, after[m].sibling} \ {NULL} PROVE i \in X
    <3>1. i \in F /\ m \in F /\ m \in Used(t) /\ after[m].parent \in F
      BY <1>4, <1>6
    <3>2. after[i].parent = m \/ after[i].parent = after[m].parent
      BY <1>3, <2>2, <3>1
    <3> QED BY <3>1, <3>2
  <2>3. X \in SUBSET Nodes
    BY <1>4
  <2> HIDE DEF X
  <2>4. Onward(X)
    BY <2>2
  <2>5. F \subseteq X
    <3> HIDE DEF Onward
    <3> QED BY <1>5, <2>1, <2>3, <2>4
  <2> QED BY <2>5 DEF X
<1>8. ASSUME NEW n \in F, n # ROOT
      PROVE  \E m \in F : after[m].child = n \/ after[m].sibling = n
  <2> DEFINE X == {i \in F : i = ROOT \/ \E m \in F : after[m].child = i \/ after[m].sibling = i}
  <2>1. ROOT \in X /\ X \in SUBSET Nodes
    BY <1>4
  <2>2. ASSUME NEW m \in X, NEW i \in {after[m].child, after[m].sibling} \ {NULL} PROVE i \in X
    <3>1. m \in F /\ i \in F
      BY <1>4
    <3> QED BY <3>1
  <2> HIDE DEF X
  <2>3. Onward(X)
    BY <2>2
  <2>4. F \subseteq X
    <3> HIDE DEF Onward
    <3> QED BY <1>5, <2>1, <2>3
  <2> QED BY <1>8, <2>4 DEF X
\* Up to b nothing has been cut off, so the current directory is in F.
<1>9. c \in F \cup {NULL}
  <2> DEFINE Lost == {n \in Used(t) : r[n] <= b /\ n \notin F}
  <2>1. Lost = {}
    <3> SUFFICES ASSUME Lost # {} PROVE FALSE
      OBVIOUS
    <3>1. PICK m \in Lost : \A i \in Lost : r[m] <= r[i]
      <4> DEFINE S == {r[i] : i \in Lost}
      <4>1. S \subseteq Nat
        BY DEF Orders, Used
      <4>2. S # {}
        OBVIOUS
      <4> HIDE DEF S
      <4>3. PICK x \in S : \A y \in S : x <= y
        BY <4>1, <4>2, LeastNumber
      <4> USE DEF S
      <4> QED BY <4>3
    <3>2. m \in Used(t) /\ m \in Nodes /\ m # NULL /\ m # ROOT /\ r[m] <= b /\ m \notin F
      BY <1>3, <1>4, <3>1
    <3>3. ASSUME NEW p \in Used(t), t[p].child = m \/ t[p].sibling = m PROVE FALSE
      <4>1. p \in Nodes /\ r[p] < r[m]
        BY <1>1, <3>2, <3>3 DEF Ranked, Used
      <4>2. r[p] \in Nat /\ r[m] \in Nat
        BY <3>2, <4>1 DEF Orders
      <4>3. p \notin Lost
        BY <3>1, <4>1, <4>2
      <4>4. p \in F
        BY <3>2, <4>1, <4>2, <4>3
      <4>5. after[p].child = m \/ after[p].sibling = m
        BY <3>2, <3>3, <4>1 DEF Pruned
      <4> QED BY <1>4, <3>2, <4>4, <4>5
    <3>4. t[m].parent \in Used(t)
      BY <1>3, <3>2
    <3> QED BY <1>1, <3>2, <3>3, <3>4 DEF Hung
  <2> QED BY <2>1
\* All that is touched is in F.
<1> DEFINE T == Touched(after, c)
           u == Collected(after, c)
<1>10. /\ {ROOT, c} \ {NULL} \subseteq T /\ T \subseteq Nodes
       /\ \A n \in T : Pointers(after[n]) \subseteq T
       /\ \A X : {ROOT, c} \ {NULL} \subseteq X /\ (\A n \in X \cap Nodes : Pointers(after[n]) \subseteq X)
                 => T \subseteq X
  <2>1. c \in Nodes \cup {NULL}
    BY DEF Used
  <2>2. \A n \in Nodes : Pointers(after[n]) \subseteq Nodes
    BY <1>2 DEF Pointers
  <2> QED BY <2>1, <2>2, TouchedGrows
<1> HIDE DEF T
<1>11. T = F
  <2>1. ASSUME NEW n \in F PROVE Pointers(after[n]) \subseteq F
    BY <1>4, <1>7 DEF Pointers
  <2>2. T \subseteq F
    BY <1>4, <1>9, <1>10, <2>1
  <2>3. Onward(T)
    BY <1>10 DEF Pointers
  <2>4. ROOT \in T
    BY <1>10, Numbering
  <2>5. F \subseteq T
    <3> HIDE DEF Onward
    <3> QED BY <1>5, <1>10, <2>3, <2>4
  <2> QED BY <2>2, <2>5
<1>12. /\ u = [n \in Nodes |-> u[n]]
       /\ \A n \in F : u[n] = after[n]
       /\ \A n \in Nodes \ F : u[n] = Unused
  BY <1>4, <1>11 DEF Collected, T
<1> HIDE DEF u, Onward
<1>13. Used(u) = F
  <2>1. \A n \in F : u[n].type # "unused"
    BY <1>2, <1>6, <1>12 DEF Used
  <2>2. \A n \in Nodes \ F : u[n].type = "unused"
    BY <1>12 DEF Unused, NODE
  <2> QED BY <1>4, <2>1, <2>2 DEF Used
<1>14. Typed(u)
  <2>1. ASSUME NEW n \in Nodes
        PROVE  /\ IsNode(u[n]) /\ u[n].type \in Types \cup {"unused"}
               /\ {u[n].child, u[n].sibling, u[n].parent} \subseteq Nodes \cup {NULL}
               /\ u[n].type = "unused" => u[n].child = NULL /\ u[n].sibling = NULL
    <3>1. CASE n \in F
      <4>1. IsNode(after[n]) /\ u[n] = after[n]
        BY <1>12, <3>1 DEF Pruned
      <4> QED BY <1>2, <4>1
    <3>2. CASE n \notin F
      <4>1. u[n] = Unused
        BY <1>12, <3>2
      <4> QED BY <4>1 DEF Unused, NODE, IsNode
    <3> QED BY <3>1, <3>2
  <2> QED BY <1>12, <2>1 DEF Typed
<1>15. ASSUME NEW n \in F
       PROVE  /\ u[n] = after[n] /\ n \in Used(t) /\ after[n].parent \in F
              /\ after[n].child # NULL => after[n].child \in F /\ u[after[n].child] = after[after[n].child]
              /\ after[n].sibling # NULL =>
                    after[n].sibling \in F /\ u[after[n].sibling] = after[after[n].sibling]
  BY <1>4, <1>6, <1>7, <1>12 DEF Onward
<1>16. Linked(u)
  <2>1. u[ROOT].parent = ROOT /\ u[ROOT].sibling = NULL
    <3>1. t[ROOT].parent = ROOT /\ t[ROOT].sibling = NULL /\ ROOT \in Nodes
      BY <1>1, Numbering DEF Linked
    <3>2. after[ROOT].parent = ROOT /\ after[ROOT].sibling = NULL
      BY <3>1 DEF Pruned
    <3> QED BY <1>4, <1>12, <3>2
  <2>2. ASSUME NEW n \in F
        PROVE  /\ u[n].parent \in F
               /\ u[n].child # NULL => u[n].child \in F /\ u[u[n].child].parent = n
               /\ u[n].sibling # NULL => u[n].sibling \in F /\ u[u[n].sibling].parent = u[n].parent
    BY <1>3, <1>15
  <2> QED BY <1>4, <1>13, <2>1, <2>2 DEF Linked
<1>17. Hung(u)
  <2>1. ASSUME NEW n \in F, n # ROOT
        PROVE  u[u[n].parent].child = n \/ \E m \in F : u[m].sibling = n
    <3>1. PICK m \in F : after[m].child = n \/ after[m].sibling = n
      BY <1>8, <2>1
    <3>2. n # NULL /\ u[m] = after[m] /\ u[n] = after[n] /\ m \in Used(t)
      BY <1>3, <1>15, <2>1
    <3>3. after[m].child = n => after[n].parent = m
      BY <1>3, <3>2
    <3> QED BY <3>1, <3>2, <3>3
  <2> QED BY <1>13, <2>1 DEF Hung
<1>18. Ranked(u, r)
  <2>1. ASSUME NEW n \in F
        PROVE  /\ u[n].child # NULL => r[n] < r[u[n].child]
               /\ u[n].sibling # NULL => r[n] < r[u[n].sibling]
               /\ n # ROOT => r[u[n].parent] < r[n]
    <3>1. u[n] = after[n] /\ n \in Used(t) /\ after[n].parent = t[n].parent
      BY <1>3, <1>15
    <3>2. n # ROOT => r[t[n].parent] < r[n]
      BY <1>1, <3>1 DEF Ranked
    <3> QED BY <1>3, <3>1, <3>2
  <2> QED BY <1>13, <2>1 DEF Ranked
<1>19. Good(u)
  BY <1>14, <1>16, <1>17, <1>18 DEF Good
<1> QED BY <1>9, <1>13, <1>19 DEF u

\* A tree of which nothing has been cut.
LEMMA Uncut ==
    ASSUME NEW t, Good(t), NEW r, NEW b
    PROVE  Pruned(t, t, r, b)
BY DEF Good, Typed, Pruned

\* What removeFromList() takes out lies behind the parent in the order.
LEMMA RemovePrunes ==
    ASSUME NEW t, Good(t), NEW M \in Nat, NEW r \in Orders(M), Ranked(t, r),
           NEW parent \in Used(t), NEW b \in Nat, b <= r[parent], NEW path
    PROVE  Pruned(t, removeFromList(t, parent, path), r, b)
<1> DEFINE list == List(t, parent)
           others == {k \in 2 .. Len(list) : path.comps # <<t[list[k]].name>>}
           first == CHOOSE k \in others : \A j \in others : k <= j
           u == removeFromList(t, parent, path)
<1>1. Typed(t) /\ Linked(t)
  BY DEF Good
<1>2. u = IF t[parent].sibling = NULL THEN [t EXCEPT ![parent].child = NULL]
          ELSE IF others = {} THEN t
          ELSE [t EXCEPT ![list[first - 1]].sibling = t[list[first]].sibling]
  BY DEF removeFromList
<1> HIDE DEF u
<1>3. parent \in Nodes /\ r[parent] \in Nat
  BY DEF Used, Orders
<1>4. t = [n \in Nodes |-> t[n]] /\ \A n \in Nodes : IsNode(t[n])
  BY <1>1 DEF Typed
<1>5. Pruned(t, t, r, b)
  BY Uncut
<1>6. CASE t[parent].sibling = NULL
  <2>1. u = [t EXCEPT ![parent].child = NULL]
    BY <1>2, <1>6
  <2>2. /\ u = [n \in Nodes |-> u[n]] /\ \A n \in Nodes \ {parent} : u[n] = t[n]
        /\ u[parent] = [t[parent] EXCEPT !.child = NULL]
    BY <1>3, <1>4, <2>1
  <2>3. /\ IsNode(u[parent]) /\ u[parent].type = t[parent].type /\ u[parent].parent = t[parent].parent
        /\ u[parent].child = NULL /\ u[parent].sibling = t[parent].sibling
        /\ u[parent].name = t[parent].name
    BY <1>3, <1>4, <2>2 DEF IsNode
  <2>4. ~ (t[parent].child \in Nodes /\ r[t[parent].child] <= b)
    <3> SUFFICES ASSUME t[parent].child \in Nodes, r[t[parent].child] <= b PROVE FALSE
      OBVIOUS
    <3>0. \A n \in Nodes : r[n] \in Nat
      BY DEF Orders
    <3>1. t[parent].child # NULL /\ r[t[parent].child] \in Nat
      BY <3>0, Numbering
    <3>2. r[parent] < r[t[parent].child]
      BY <3>1 DEF Ranked
    <3> QED BY <1>3, <3>1, <3>2
  <2> QED BY <1>5, <2>2, <2>3, <2>4 DEF Pruned, u
<1>7. CASE t[parent].sibling # NULL /\ others = {}
  BY <1>2, <1>5, <1>7 DEF u
<1>8. CASE t[parent].sibling # NULL /\ others # {}
  <2> DEFINE x == list[first - 1]
             y == list[first]
  <2>1. u = [t EXCEPT ![x].sibling = t[y].sibling]
    BY <1>2, <1>8
  <2>2. /\ list \in Seq(Used(t))
        /\ \A k \in 1 .. Len(list) : t[list[k]].parent = parent /\ r[parent] < r[list[k]]
        /\ \A j, k \in 1 .. Len(list) : j < k => r[list[j]] < r[list[k]]
    <3> HIDE DEF Orders
    <3> QED BY ListOfChildren
  <2>3. Chain(t, list, t[parent].child)
    BY <1>3, ListIsChain
  <2> HIDE DEF list
  <2>4. first \in 2 .. Len(list)
    <3>1. others \subseteq Nat /\ others \subseteq 2 .. Len(list)
      OBVIOUS
    <3> HIDE DEF others
    <3>2. first \in others
      BY <1>8, <3>1, LeastNumber
    <3> QED BY <3>1, <3>2
  <2> HIDE DEF first, others
  <2>5. first \in 1 .. Len(list) /\ first - 1 \in 1 .. Len(list) /\ first - 1 \in 1 .. Len(list) - 1
        /\ first - 1 < first /\ (first - 1) + 1 = first
    BY <2>2, <2>4
  <2>6. x \in Used(t) /\ y \in Used(t) /\ t[x].parent = parent /\ t[y].parent = parent
        /\ r[parent] < r[x] /\ r[x] < r[y] /\ t[x].sibling = y
    BY <2>2, <2>3, <2>5 DEF Chain
  <2> HIDE DEF x, y
  <2>7. x \in Nodes /\ y \in Nodes /\ r[x] \in Nat /\ r[y] \in Nat
    BY <2>6 DEF Used, Orders
  <2>8. x # ROOT
    BY <1>1, <1>3, <2>6 DEF Linked
  <2>9. /\ u = [n \in Nodes |-> u[n]] /\ \A n \in Nodes \ {x} : u[n] = t[n]
        /\ u[x] = [t[x] EXCEPT !.sibling = t[y].sibling]
    BY <1>4, <2>1, <2>7
  <2>10. /\ IsNode(u[x]) /\ u[x].type = t[x].type /\ u[x].parent = t[x].parent
         /\ u[x].child = t[x].child /\ u[x].sibling = t[y].sibling /\ u[x].name = t[x].name
    BY <1>4, <2>7, <2>9 DEF IsNode
  <2>11. ~ (t[x].sibling \in Nodes /\ r[t[x].sibling] <= b)
    BY <1>3, <2>6, <2>7
  <2>12. \/ t[y].sibling = NULL
         \/ /\ t[y].sibling \in Used(t) /\ t[t[y].sibling].parent = t[x].parent
            /\ r[x] < r[t[y].sibling]
    <3> SUFFICES ASSUME t[y].sibling # NULL
                 PROVE  /\ t[y].sibling \in Used(t) /\ t[t[y].sibling].parent = t[x].parent
                        /\ r[x] < r[t[y].sibling]
      OBVIOUS
    <3>1. /\ t[y].sibling \in Used(t) /\ t[t[y].sibling].parent = t[y].parent
          /\ r[y] < r[t[y].sibling]
      BY <1>1, <2>6 DEF Linked, Ranked
    <3>2. r[t[y].sibling] \in Nat
      BY <3>1 DEF Used, Orders
    <3> QED BY <2>6, <2>7, <3>1, <3>2
  <2>13. ASSUME NEW n \in Nodes
         PROVE  /\ IsNode(u[n]) /\ u[n].type = t[n].type /\ u[n].parent = t[n].parent
                /\ u[n].name = t[n].name /\ u[n].child \in {t[n].child, NULL}
                /\ \/ u[n].sibling \in {t[n].sibling, NULL}
                   \/ /\ n \in Used(t) /\ n # ROOT /\ u[n].sibling \in Used(t)
                      /\ t[u[n].sibling].parent = t[n].parent /\ r[n] < r[u[n].sibling]
                /\ t[n].child \in Nodes /\ r[t[n].child] <= b => u[n].child = t[n].child
                /\ t[n].sibling \in Nodes /\ r[t[n].sibling] <= b => u[n].sibling = t[n].sibling
    <3>1. CASE n = x
      BY <2>6, <2>8, <2>10, <2>11, <2>12, <3>1
    <3>2. CASE n # x
      BY <1>4, <2>9, <3>2
    <3> QED BY <3>1, <3>2
  <2> QED BY <2>9, <2>13 DEF Pruned, u
<1> QED BY <1>6, <1>7, <1>8

-----------------------------------------------------------------------------
(* The recursions of reload and save.                                      *)

\* The recursion of Reloaded has a solution.
LEMMA ReloadRecursion ==
    ASSUME NEW t, NEW c, NEW S, NEW lines \in Seq(S)
    PROVE  \E after :
              /\ Reloaded(t, c, lines) = after[Len(lines)] /\ after[0] = t
              /\ \A k \in 1 .. Len(lines) :
                    after[k] = IF after[k - 1] = Crashed THEN Crashed
                               ELSE makeFile(after[k - 1], c, lines[k].path, lines[k].type)
<1> DEFINE K == Len(lines)
           Body(g, k) == IF k = 0 THEN t
                         ELSE IF g[k - 1] = Crashed THEN Crashed
                         ELSE makeFile(g[k - 1], c, lines[k].path, lines[k].type)
           after == CHOOSE g : g = [k \in 0 .. K |-> Body(g, k)]
<1>1. Reloaded(t, c, lines) = after[K]
  BY DEF Reloaded
<1>2. K \in Nat
  OBVIOUS
<1> HIDE DEF K
<1>4. after = [k \in 0 .. K |-> Body(after, k)]
  <2> DEFINE Solved(g, d) == g = [k \in 0 .. d |-> g[k]] /\ \A k \in 0 .. d : g[k] = Body(g, k)
             T == {d \in Nat : \E g : Solved(g, d)}
  <2>1. 0 \in T
    <3> DEFINE g == [k \in 0 .. 0 |-> t]
    <3>1. g = [k \in 0 .. 0 |-> g[k]]
      OBVIOUS
    <3>2. Body(g, 0) = t
      OBVIOUS
    <3>3. g[0] = t
      OBVIOUS
    <3> HIDE DEF g, Body
    <3>4. Solved(g, 0)
      BY <3>1, <3>2, <3>3
    <3> HIDE DEF Solved
    <3> QED BY <3>4
  <2>2. ASSUME NEW d \in Nat, d \in T PROVE d + 1 \in T
    <3>1. PICK f : Solved(f, d)
      BY <2>2
    <3> DEFINE g == [k \in 0 .. d + 1 |-> IF k <= d THEN f[k] ELSE Body(f, k)]
    <3>2. g = [k \in 0 .. d + 1 |-> g[k]]
      OBVIOUS
    <3>3. ASSUME NEW k \in 0 .. d + 1 PROVE g[k] = Body(g, k)
      <4>1. g[k] = Body(f, k)
        <5>1. g[k] = IF k <= d THEN f[k] ELSE Body(f, k)
          OBVIOUS
        <5> HIDE DEF g, Body
        <5> QED BY <3>1, <5>1
      <4>2. k # 0 => k - 1 \in 0 .. d /\ g[k - 1] = f[k - 1]
        OBVIOUS
      <4> HIDE DEF g
      <4> QED BY <4>1, <4>2
    <3> HIDE DEF g, Body
    <3>4. Solved(g, d + 1)
      BY <3>2, <3>3
    <3> HIDE DEF Solved
    <3> QED BY <3>4
  <2>3. K \in T
    <3> HIDE DEF T
    <3> QED BY <1>2, <2>1, <2>2, SetInduction
  <2>4. PICK g : Solved(g, K)
    BY <2>3
  <2> HIDE DEF Body
  <2>5. g = [k \in 0 .. K |-> Body(g, k)]
    BY <2>4
  <2> QED BY <2>5
<1> HIDE DEF after
<1>5. \A k \in 0 .. K : after[k] = Body(after, k)
  <2> HIDE DEF Body
  <2> QED BY <1>4
<1>6. after[0] = t
  BY <1>2, <1>5
<1>7. ASSUME NEW k \in 1 .. K
      PROVE  after[k] = IF after[k - 1] = Crashed THEN Crashed
                        ELSE makeFile(after[k - 1], c, lines[k].path, lines[k].type)
  BY <1>2, <1>5
<1> QED BY <1>1, <1>6, <1>7 DEF K

\* The recursion of saveHelp has a solution, since its pointers lead up in an order.
LEMMA SaveRecursion ==
    ASSUME NEW t, Good(t)
    PROVE  \E f : /\ saveHelp(t, ROOT) = f[t[ROOT].child]
                  /\ f[NULL] = <<>>
                  /\ \A m \in Nodes : f[m] = <<Line(t, m, PathOf(t, m))>> \o f[t[m].child] \o f[t[m].sibling]
<1>0. PICK M \in Nat : \E r \in Orders(M) : Ranked(t, r)
  BY DEF Good
<1>1. PICK r \in Orders(M) : Typed(t) /\ Linked(t) /\ Ranked(t, r)
  BY <1>0 DEF Good
<1> DEFINE line(m) == Line(t, m, PathOf(t, m))
           Body(f, m) == IF m = NULL THEN <<>>
                         ELSE <<line(m)>> \o f[t[m].child] \o f[t[m].sibling]
           below == CHOOSE h : h = [m \in Places |-> Body(h, m)]
<1>2. saveHelp(t, ROOT) = below[t[ROOT].child]
  BY DEF saveHelp, Places
<1> HIDE DEF line
\* A node and what its pointers lead to.
<1> DEFINE Deep(m, d) == m = NULL \/ (m \in Nodes /\ r[m] + d > M)
<1>4. ASSUME NEW d \in Nat, NEW m \in Nodes, Deep(m, d + 1)
      PROVE  /\ t[m].child \in Places /\ Deep(t[m].child, d)
             /\ t[m].sibling \in Places /\ Deep(t[m].sibling, d)
  <2>1. /\ r[m] \in Nat /\ t[m].child \in Places /\ t[m].sibling \in Places
        /\ t[m].child # NULL => t[m].child \in Nodes /\ r[m] < r[t[m].child]
        /\ t[m].sibling # NULL => t[m].sibling \in Nodes /\ r[m] < r[t[m].sibling]
    BY <1>1, Upwards
  <2>2. \A i \in Nodes : r[i] \in Nat
    BY <1>1, Upwards
  <2>3. r[m] + (d + 1) > M
    BY <1>4, Numbering
  <2> QED BY <2>1, <2>2, <2>3
<1>5. ASSUME NEW m \in Places PROVE Deep(m, M + 1) /\ ~ (m \in Nodes /\ Deep(m, 0))
  <2>1. m \in Nodes => r[m] \in 0 .. M /\ m # NULL
    BY <1>1, Upwards, Numbering
  <2> QED BY <2>1, Numbering
<1> HIDE DEF Deep
<1>6. below = [m \in Places |-> Body(below, m)]
  <2> DEFINE Solved(f, d) == \A m \in Places : Deep(m, d) => f[m] = Body(f, m)
             S == {d \in Nat : \E f : f = [m \in Places |-> f[m]] /\ Solved(f, d)}
  <2>1. 0 \in S
    <3> DEFINE g == [m \in Places |-> <<>>]
    <3>1. g = [m \in Places |-> g[m]]
      OBVIOUS
    <3>2. Solved(g, 0)
      BY <1>5, Numbering
    <3> HIDE DEF g, Solved
    <3>3. \E h : h = [m \in Places |-> h[m]] /\ Solved(h, 0)
      BY <3>1, <3>2
    <3> QED BY <3>3
  <2>2. ASSUME NEW d \in Nat, d \in S PROVE d + 1 \in S
    <3>1. PICK f : f = [m \in Places |-> f[m]] /\ Solved(f, d)
      BY <2>2
    <3> DEFINE g == [m \in Places |-> IF Deep(m, d) THEN f[m] ELSE Body(f, m)]
    <3>2. ASSUME NEW m \in Places, Deep(m, d + 1) PROVE g[m] = Body(g, m)
      <4>1. g[m] = Body(f, m)
        BY <3>1
      <4>2. m # NULL => g[t[m].child] = f[t[m].child] /\ g[t[m].sibling] = f[t[m].sibling]
        BY <1>4, <3>2, Numbering
      <4> HIDE DEF g
      <4> QED BY <4>1, <4>2
    <3>3. g = [m \in Places |-> g[m]]
      OBVIOUS
    <3> HIDE DEF g
    <3>4. Solved(g, d + 1)
      BY <3>2
    <3> HIDE DEF Solved
    <3>5. \E h : h = [m \in Places |-> h[m]] /\ Solved(h, d + 1)
      BY <3>3, <3>4
    <3> QED BY <3>5
  <2>3. M + 1 \in S
    <3> HIDE DEF S
    <3> QED BY <2>1, <2>2, SetInduction
  <2>4. PICK f : f = [m \in Places |-> f[m]] /\ Solved(f, M + 1)
    BY <2>3
  <2>5. f = [m \in Places |-> Body(f, m)]
    <3> HIDE DEF Body
    <3> QED BY <1>5, <2>4
  <2> HIDE DEF Body
  <2> QED BY <2>5
<1> HIDE DEF below
<1>7. \A m \in Places : below[m] = Body(below, m)
  <2> HIDE DEF Body
  <2> QED BY <1>6
<1>8. below[NULL] = <<>>
  BY <1>7, Numbering
<1>9. ASSUME NEW m \in Nodes
      PROVE  below[m] = <<line(m)>> \o below[t[m].child] \o below[t[m].sibling]
  BY <1>7, Numbering
<1> QED BY <1>2, <1>8, <1>9 DEF line

\* The lines of the nodes.
Lines(t) == {Line(t, m, PathOf(t, m)) : m \in Used(t)}

\* What it gives is a sequence of them.
LEMMA SavedLines ==
    ASSUME NEW t, Good(t), NEW below, below[NULL] = <<>>,
           \A m \in Nodes :
              below[m] = <<Line(t, m, PathOf(t, m))>> \o below[t[m].child] \o below[t[m].sibling]
    PROVE  \A m \in Used(t) \cup {NULL} : below[m] \in Seq(Lines(t))
<1>0. PICK M \in Nat : \E r \in Orders(M) : Ranked(t, r)
  BY DEF Good
<1>1. PICK r \in Orders(M) : Typed(t) /\ Linked(t) /\ Ranked(t, r)
  BY <1>0 DEF Good
<1> DEFINE line(m) == Line(t, m, PathOf(t, m))
           lines == Lines(t)
<1>2. /\ below[NULL] = <<>>
      /\ \A m \in Nodes : below[m] = <<line(m)>> \o below[t[m].child] \o below[t[m].sibling]
  OBVIOUS
<1>3. \A m \in Used(t) : line(m) \in lines
  BY DEF Lines
<1> HIDE DEF line, lines
\* A node and what its pointers lead to.
<1> DEFINE Deep(m, d) == m = NULL \/ (m \in Nodes /\ r[m] + d > M)
<1>4. ASSUME NEW d \in Nat, NEW m \in Nodes, Deep(m, d + 1)
      PROVE  /\ t[m].child \in Places /\ Deep(t[m].child, d)
             /\ t[m].sibling \in Places /\ Deep(t[m].sibling, d)
  <2>1. /\ r[m] \in Nat /\ t[m].child \in Places /\ t[m].sibling \in Places
        /\ t[m].child # NULL => t[m].child \in Nodes /\ r[m] < r[t[m].child]
        /\ t[m].sibling # NULL => t[m].sibling \in Nodes /\ r[m] < r[t[m].sibling]
    BY <1>1, Upwards
  <2>2. \A i \in Nodes : r[i] \in Nat
    BY <1>1, Upwards
  <2>3. r[m] + (d + 1) > M
    BY <1>4, Numbering
  <2> QED BY <2>1, <2>2, <2>3
<1>5. ASSUME NEW m \in Places PROVE Deep(m, M + 1) /\ ~ (m \in Nodes /\ Deep(m, 0))
  <2>1. m \in Nodes => r[m] \in 0 .. M /\ m # NULL
    BY <1>1, Upwards, Numbering
  <2> QED BY <2>1, Numbering
<1> HIDE DEF Deep
<1>9. ASSUME NEW m \in Used(t)
      PROVE  /\ below[m] = <<line(m)>> \o below[t[m].child] \o below[t[m].sibling]
             /\ m \in Nodes /\ line(m) \in lines
             /\ t[m].child \in Used(t) \cup {NULL} /\ t[m].sibling \in Used(t) \cup {NULL}
  <2>1. m \in Places /\ m # NULL /\ m \in Nodes
    BY Numbering DEF Used
  <2>2. t[m].child \in Used(t) \cup {NULL} /\ t[m].sibling \in Used(t) \cup {NULL}
    BY <1>1 DEF Linked
  <2> QED BY <1>2, <1>3, <2>1, <2>2
<1>10. <<>> \in Seq(lines)
  OBVIOUS
<1>11. ASSUME NEW x \in lines PROVE <<x>> \in Seq(lines)
  OBVIOUS
<1> DEFINE U == {d \in Nat : \A m \in Used(t) \cup {NULL} : Deep(m, d) => below[m] \in Seq(lines)}
<1>12. 0 \in U
  <2>1. ASSUME NEW m \in Used(t) \cup {NULL}, Deep(m, 0) PROVE below[m] \in Seq(lines)
    <3>1. m = NULL
      BY <1>5, <2>1, Numbering DEF Used
    <3> QED BY <1>2, <1>10, <3>1
  <2> QED BY <2>1
<1>13. ASSUME NEW d \in Nat, d \in U PROVE d + 1 \in U
  <2>1. ASSUME NEW m \in Used(t) \cup {NULL}, Deep(m, d + 1) PROVE below[m] \in Seq(lines)
    <3>1. CASE m = NULL
      BY <1>2, <1>10, <3>1
    <3>2. CASE m \in Used(t)
      <4>1. Deep(t[m].child, d) /\ Deep(t[m].sibling, d)
        BY <1>4, <1>9, <2>1, <3>2
      <4>2. below[t[m].child] \in Seq(lines) /\ below[t[m].sibling] \in Seq(lines)
        BY <1>9, <1>13, <3>2, <4>1
      <4>3. <<line(m)>> \in Seq(lines)
        BY <1>9, <1>11, <3>2
      <4>4. <<line(m)>> \o below[t[m].child] \in Seq(lines)
        BY <4>2, <4>3
      <4>5. (<<line(m)>> \o below[t[m].child]) \o below[t[m].sibling] \in Seq(lines)
        BY <4>2, <4>4
      <4> QED BY <1>9, <3>2, <4>5
    <3> QED BY <3>1, <3>2
  <2> QED BY <2>1
<1>14. M + 1 \in U
  <2> HIDE DEF U
  <2> QED BY <1>12, <1>13, SetInduction
<1>15. ASSUME NEW m \in Used(t) \cup {NULL} PROVE below[m] \in Seq(lines)
  <2>1. m \in Places
    BY Numbering DEF Used
  <2> QED BY <1>5, <1>14, <2>1
<1> QED BY <1>15 DEF lines

-----------------------------------------------------------------------------
(* What mkdir and creat leave as it was.                                   *)

\* The pathname of a node is the one of its parent and its name.
LEMMA PathRecursion ==
    ASSUME NEW t, Good(t)
    PROVE  \A n \in Used(t) : PathOf(t, n) = IF n = ROOT THEN <<>>
                                             ELSE Append(PathOf(t, t[n].parent), t[n].name)
<1>0. PICK M \in Nat : \E r \in Orders(M) : Ranked(t, r)
  BY DEF Good
<1>1. PICK r \in Orders(M) : Typed(t) /\ Linked(t) /\ Ranked(t, r)
  BY <1>0 DEF Good
<1> DEFINE Body(f, m) == IF m = ROOT THEN <<>> ELSE Append(f[t[m].parent], t[m].name)
           Solved(f, d) == \A m \in Used(t) : r[m] < d => f[m] = Body(f, m)
           S == {d \in Nat : \E f : f = [m \in Used(t) |-> f[m]] /\ Solved(f, d)}
           up == CHOOSE h : h = [m \in Used(t) |-> Body(h, m)]
<1>2. \A m \in Used(t) : PathOf(t, m) = up[m]
  BY DEF PathOf
<1>3. ASSUME NEW m \in Used(t)
      PROVE  r[m] \in 0 .. M /\ t[m].parent \in Used(t) /\ (m # ROOT => r[t[m].parent] < r[m])
  BY <1>1 DEF Orders, Used, Linked, Ranked
<1>4. 0 \in S
  <2> DEFINE g == [m \in Used(t) |-> <<>>]
  <2>1. g = [m \in Used(t) |-> g[m]]
    OBVIOUS
  <2>2. \A m \in Used(t) : ~ r[m] < 0
    BY <1>3
  <2> HIDE DEF g
  <2>3. Solved(g, 0)
    BY <2>2
  <2> HIDE DEF Solved
  <2> QED BY <2>1, <2>3
<1>5. ASSUME NEW d \in Nat, d \in S PROVE d + 1 \in S
  <2>1. PICK f : f = [m \in Used(t) |-> f[m]] /\ Solved(f, d)
    BY <1>5
  <2> DEFINE g == [m \in Used(t) |-> IF r[m] < d THEN f[m] ELSE Body(f, m)]
  <2>2. ASSUME NEW m \in Used(t), r[m] < d + 1 PROVE g[m] = Body(g, m)
    <3>1. g[m] = Body(f, m)
      BY <2>1
    <3>2. m # ROOT => r[t[m].parent] < d /\ t[m].parent \in Used(t)
      <4>1. r[m] \in Nat /\ r[t[m].parent] \in Nat
        BY <1>3
      <4> QED BY <1>3, <2>2, <4>1
    <3>3. m # ROOT => g[t[m].parent] = f[t[m].parent]
      BY <3>2
    <3> HIDE DEF g
    <3> QED BY <3>1, <3>3
  <2>3. g = [m \in Used(t) |-> g[m]]
    OBVIOUS
  <2> HIDE DEF g, Body
  <2>4. Solved(g, d + 1)
    BY <2>2
  <2> HIDE DEF Solved
  <2> QED BY <2>3, <2>4
<1>6. M + 1 \in S
  <2> HIDE DEF S
  <2> QED BY <1>4, <1>5, SetInduction
<1>7. PICK f : f = [m \in Used(t) |-> f[m]] /\ Solved(f, M + 1)
  BY <1>6
<1>8. \A m \in Used(t) : r[m] < M + 1
  BY <1>3
<1> HIDE DEF Body
<1>9. f = [m \in Used(t) |-> Body(f, m)]
  BY <1>7, <1>8
<1>10. up = [m \in Used(t) |-> Body(up, m)]
  BY <1>9
<1> HIDE DEF up
<1>11. ASSUME NEW n \in Used(t) PROVE up[n] = Body(up, n)
  BY <1>10
<1> USE DEF Body
<1> QED BY <1>2, <1>3, <1>11

\* The line of a node is what it was before another node came.
LEMMA SameLines ==
    ASSUME NEW t, Good(t), NEW q \in Nodes \ Used(t), NEW x \in Used(t), NEW parent \in Used(t),
           NEW type \in Types, NEW name, NEW u, Attached(t, u, q, x, name, type, parent)
    PROVE  \A n \in Used(t) : Line(u, n, PathOf(u, n)) = Line(t, n, PathOf(t, n))
<1>0. PICK M \in Nat : \E r \in Orders(M) : Ranked(t, r)
  BY DEF Good
<1>1. PICK r \in Orders(M) : Linked(t) /\ Ranked(t, r)
  BY <1>0 DEF Good
<1>2. Good(u) /\ Used(u) = Used(t) \cup {q}
  BY AttachKeeps
<1>3. ASSUME NEW n \in Used(t)
      PROVE  u[n].name = t[n].name /\ u[n].type = t[n].type /\ u[n].parent = t[n].parent
             /\ t[n].parent \in Used(t)
  <2>1. n \in Nodes /\ n # q
    BY DEF Used
  <2>2. u[n].name = t[n].name /\ u[n].type = t[n].type /\ u[n].parent = t[n].parent
    <3>1. n # x => u[n] = t[n]
      BY <2>1 DEF Attached
    <3> QED BY <3>1 DEF Attached
  <2> QED BY <1>1, <2>2 DEF Linked
<1>4. ASSUME NEW n \in Used(t)
      PROVE  /\ PathOf(t, n) = IF n = ROOT THEN <<>> ELSE Append(PathOf(t, t[n].parent), t[n].name)
             /\ PathOf(u, n) = IF n = ROOT THEN <<>> ELSE Append(PathOf(u, t[n].parent), t[n].name)
  <2>1. PathOf(t, n) = IF n = ROOT THEN <<>> ELSE Append(PathOf(t, t[n].parent), t[n].name)
    BY PathRecursion
  <2>2. PathOf(u, n) = IF n = ROOT THEN <<>> ELSE Append(PathOf(u, u[n].parent), u[n].name)
    <3>1. n \in Used(u)
      BY <1>2
    <3> QED BY <1>2, <3>1, PathRecursion
  <2> QED BY <1>3, <2>1, <2>2
<1> DEFINE Bad == {n \in Used(t) : PathOf(u, n) # PathOf(t, n)}
<1>5. Bad = {}
  <2> SUFFICES ASSUME Bad # {} PROVE FALSE
    OBVIOUS
  <2>1. PICK m \in Bad : \A i \in Bad : r[m] <= r[i]
    <3> DEFINE S == {r[i] : i \in Bad}
    <3>1. S \subseteq Nat
      BY DEF Orders, Used
    <3>2. S # {}
      OBVIOUS
    <3> HIDE DEF S
    <3>3. PICK y \in S : \A z \in S : y <= z
      BY <3>1, <3>2, LeastNumber
    <3> USE DEF S
    <3> QED BY <3>3
  <2>2. m \in Used(t) /\ m # ROOT /\ PathOf(u, t[m].parent) # PathOf(t, t[m].parent)
    BY <1>4, <2>1
  <2>3. t[m].parent \in Bad
    BY <1>3, <2>2
  <2>4. r[t[m].parent] < r[m] /\ r[t[m].parent] \in Nat /\ r[m] \in Nat
    BY <1>1, <1>3, <2>2 DEF Ranked, Orders, Used
  <2> HIDE DEF Bad
  <2> QED BY <2>1, <2>3, <2>4
<1>6. ASSUME NEW n \in Used(t) PROVE Line(u, n, PathOf(u, n)) = Line(t, n, PathOf(t, n))
  <2>1. PathOf(u, n) = PathOf(t, n)
    BY <1>5
  <2> QED BY <1>3, <2>1 DEF Line
<1> QED BY <1>6

\* One pointer leads to a node.
LEMMA OnePointer ==
    ASSUME NEW t, Good(t), NEW n \in Used(t), NEW p \in Used(t), NEW p2 \in Used(t),
           t[p].child = n \/ t[p].sibling = n, t[p2].child = n \/ t[p2].sibling = n
    PROVE  p = p2 /\ n # ROOT
<1>0. PICK M \in Nat : \E r \in Orders(M) : Ranked(t, r)
  BY DEF Good
<1>1. PICK r \in Orders(M) : Typed(t) /\ Linked(t) /\ Ranked(t, r)
  BY <1>0 DEF Good
<1>2. n # NULL /\ \A i \in Used(t) : i \in Nodes /\ r[i] \in Nat
  BY Numbering DEF Used, Orders
<1> DEFINE P == t[n].parent
           s == List(t, P)
<1>3. P \in Used(t) /\ P \in Nodes
  BY <1>1 DEF Linked, Used
<1>4. n # ROOT
  <2> SUFFICES ASSUME n = ROOT PROVE FALSE
    OBVIOUS
  <2>1. t[p].child = n => p = ROOT /\ r[p] < r[n]
    BY <1>1, <1>2 DEF Linked, Ranked
  <2>2. t[p].sibling = n => t[p].parent = ROOT /\ r[p] < r[n] /\ p # ROOT
    BY <1>1, <1>2 DEF Linked, Ranked
  <2>3. t[p].sibling = n => r[ROOT] < r[p]
    BY <1>1, <2>2 DEF Ranked
  <2> QED BY <1>2, <2>1, <2>2, <2>3
<1>5. Chain(t, s, t[P].child) /\ s \in Seq(Nodes) /\ IsInjective(s)
  <2>1. Chain(t, s, t[P].child)
    BY <1>3, ListIsChain
  <2>2. IsInjective(s)
    <3> HIDE DEF Orders
    <3> QED BY <1>1, <1>3, ListOfChildren
  <2> QED BY <2>1, <2>2 DEF Chain
<1> HIDE DEF s
<1>6. Len(s) \in Nat /\ DOMAIN s = 1 .. Len(s) /\ \A a, b \in 1 .. Len(s) : s[a] = s[b] => a = b
  <2>1. DOMAIN s = 1 .. Len(s)
    BY <1>5
  <2> QED BY <1>5, <2>1 DEF IsInjective
\* Behind which element of the list the node is.
<1>7. ASSUME NEW y \in Used(t), t[y].sibling = n
      PROVE  \E k \in 1 .. Len(s) - 1 : s[k] = y /\ s[k + 1] = n
  <2>1. t[y].parent = P /\ y # ROOT
    BY <1>1, <1>2, <1>7 DEF Linked
  <2>2. y \in ToSet(s)
    BY <2>1, InList DEF s
  <2>3. PICK k \in 1 .. Len(s) : s[k] = y
    BY <1>6, <2>2 DEF ToSet
  <2>4. k # Len(s)
    <3> SUFFICES ASSUME k = Len(s) PROVE FALSE
      OBVIOUS
    <3>1. t[P].child # NULL
      <4>1. s # <<>>
        BY <1>6, <2>3
      <4> QED BY <1>5, <4>1 DEF Chain
    <3>2. t[s[Len(s)]].sibling = NULL
      BY <1>5, <3>1 DEF Chain
    <3> QED BY <1>2, <1>7, <2>3, <3>2
  <2>5. k \in 1 .. Len(s) - 1
    <3>1. Len(s) \in Nat
      BY <1>6
    <3> QED BY <2>4, <3>1
  <2>6. s[k + 1] = n
    BY <1>5, <1>7, <2>3, <2>5 DEF Chain
  <2> QED BY <2>3, <2>5, <2>6
<1>8. ASSUME NEW y \in Used(t), t[y].child = n
      PROVE  y = P /\ s # <<>> /\ s[1] = n
  <2>1. y = P
    BY <1>1, <1>2, <1>8 DEF Linked
  <2> QED BY <1>2, <1>5, <1>8, <2>1 DEF Chain
<1>9. ASSUME NEW y \in Used(t), NEW z \in Used(t), t[y].child = n, t[z].sibling = n PROVE FALSE
  <2>1. PICK k \in 1 .. Len(s) - 1 : s[k] = z /\ s[k + 1] = n
    BY <1>7, <1>9
  <2>2. s[1] = n
    BY <1>8, <1>9
  <2>3. 1 \in 1 .. Len(s) /\ k + 1 \in 1 .. Len(s) /\ k + 1 # 1
    <3>1. Len(s) \in Nat
      BY <1>6
    <3> QED BY <2>1, <3>1
  <2> QED BY <1>6, <2>1, <2>2, <2>3
<1>10. CASE t[p].child = n /\ t[p2].child = n
  BY <1>4, <1>8, <1>10
<1>11. CASE t[p].sibling = n /\ t[p2].sibling = n
  <2>1. PICK k \in 1 .. Len(s) - 1 : s[k] = p /\ s[k + 1] = n
    BY <1>7, <1>11
  <2>2. PICK j \in 1 .. Len(s) - 1 : s[j] = p2 /\ s[j + 1] = n
    BY <1>7, <1>11
  <2>3. k + 1 \in 1 .. Len(s) /\ j + 1 \in 1 .. Len(s)
    <3>1. Len(s) \in Nat
      BY <1>6
    <3> QED BY <3>1
  <2>4. k + 1 = j + 1
    BY <1>6, <2>1, <2>2, <2>3
  <2> QED BY <1>4, <2>1, <2>2, <2>4
<1> QED BY <1>9, <1>10, <1>11

\* The pointers from the root to a node, backwards.
Way(t, x, d, z) ==
    /\ z \in [0 .. d -> Used(t)] /\ z[0] = x /\ z[d] = ROOT
    /\ \A k \in 0 .. d - 1 : t[z[k + 1]].child = z[k] \/ t[z[k + 1]].sibling = z[k]

LEMMA WayExists ==
    ASSUME NEW t, Good(t), NEW x \in Used(t)
    PROVE  \E d \in Nat : \E z : Way(t, x, d, z)
<1>0. PICK M \in Nat : \E r \in Orders(M) : Ranked(t, r)
  BY DEF Good
<1>1. PICK r \in Orders(M) : Typed(t) /\ Linked(t) /\ Ranked(t, r) /\ Hung(t)
  BY <1>0 DEF Good
<1> DEFINE Bad == {n \in Used(t) : ~ \E d \in Nat : \E z : Way(t, n, d, z)}
<1> SUFFICES ASSUME Bad # {} PROVE FALSE
  OBVIOUS
<1>2. PICK m \in Bad : \A i \in Bad : r[m] <= r[i]
  <2> DEFINE S == {r[i] : i \in Bad}
  <2>1. S \subseteq Nat
    BY DEF Orders, Used
  <2>2. S # {}
    OBVIOUS
  <2> HIDE DEF S
  <2>3. PICK y \in S : \A v \in S : y <= v
    BY <2>1, <2>2, LeastNumber
  <2> USE DEF S
  <2> QED BY <2>3
<1>3. m # ROOT
  <2> SUFFICES ASSUME m = ROOT PROVE FALSE
    OBVIOUS
  <2> DEFINE z == [k \in 0 .. 0 |-> ROOT]
  <2>1. Way(t, ROOT, 0, z)
    BY <1>1 DEF Way, Linked
  <2> HIDE DEF z
  <2> QED BY <1>2, <2>1
<1>4. m \in Used(t) /\ m # NULL
  BY <1>2, Numbering DEF Used
<1>5. PICK p \in Used(t) : t[p].child = m \/ t[p].sibling = m
  <2>1. t[m].parent \in Used(t)
    BY <1>1, <1>4 DEF Linked
  <2> QED BY <1>1, <1>3, <1>4, <2>1 DEF Hung
<1>6. p \notin Bad
  <2>1. r[p] < r[m] /\ r[p] \in Nat /\ r[m] \in Nat
    BY <1>1, <1>4, <1>5 DEF Ranked, Orders, Used
  <2> HIDE DEF Bad
  <2> QED BY <1>2, <2>1
<1>7. PICK d \in Nat : \E z : Way(t, p, d, z)
  BY <1>6
<1>8. PICK z : Way(t, p, d, z)
  BY <1>7
<1> DEFINE y == [k \in 0 .. d + 1 |-> IF k = 0 THEN m ELSE z[k - 1]]
<1>9. Way(t, m, d + 1, y)
  <2>1. ASSUME NEW k \in 0 .. d + 1 PROVE y[k] \in Used(t)
    <3>1. k # 0 => k - 1 \in 0 .. d
      OBVIOUS
    <3> QED BY <1>4, <1>8, <3>1 DEF Way
  <2>2. y[0] = m /\ y[d + 1] = ROOT
    BY <1>8 DEF Way
  <2>3. ASSUME NEW k \in 0 .. (d + 1) - 1
        PROVE  t[y[k + 1]].child = y[k] \/ t[y[k + 1]].sibling = y[k]
    <3>1. y[k + 1] = z[k]
      OBVIOUS
    <3>2. CASE k = 0
      BY <1>5, <1>8, <3>1, <3>2 DEF Way
    <3>3. CASE k # 0
      <4>1. y[k] = z[k - 1] /\ k - 1 \in 0 .. d - 1 /\ (k - 1) + 1 = k
        BY <3>3
      <4>2. t[z[(k - 1) + 1]].child = z[k - 1] \/ t[z[(k - 1) + 1]].sibling = z[k - 1]
        BY <1>8, <4>1 DEF Way
      <4> QED BY <3>1, <4>1, <4>2
    <3> QED BY <3>2, <3>3
  <2> HIDE DEF y
  <2>4. y \in [0 .. d + 1 -> Used(t)]
    <3>1. y = [k \in 0 .. d + 1 |-> y[k]]
      BY DEF y
    <3> QED BY <2>1, <3>1
  <2> QED BY <2>2, <2>3, <2>4 DEF Way
<1> HIDE DEF y
<1>10. d + 1 \in Nat
  OBVIOUS
<1> QED BY <1>2, <1>9, <1>10

\* The order leads up along the way, so no node is on it twice.
LEMMA WayLeadsUp ==
    ASSUME NEW t, Good(t), NEW M \in Nat, NEW r \in Orders(M), Ranked(t, r),
           NEW x \in Used(t), NEW d \in Nat, NEW z, Way(t, x, d, z),
           NEW j \in 0 .. d, NEW k \in 0 .. d, j < k
    PROVE  r[z[k]] < r[z[j]]
<1> DEFINE S == {i \in Nat : j < i /\ i <= d => r[z[i]] < r[z[j]]}
<1>1. 0 \in S
  OBVIOUS
<1>2. ASSUME NEW i \in Nat, i \in S PROVE i + 1 \in S
  <2>1. SUFFICES ASSUME j < i + 1, i + 1 <= d PROVE r[z[i + 1]] < r[z[j]]
    OBVIOUS
  <2>2. i \in 0 .. d - 1 /\ i \in 0 .. d /\ i + 1 \in 0 .. d
    BY <2>1
  <2>3. z[i] \in Used(t) /\ z[i + 1] \in Used(t) /\ z[j] \in Used(t)
    BY <2>2 DEF Way
  <2>4. t[z[i + 1]].child = z[i] \/ t[z[i + 1]].sibling = z[i]
    BY <2>2 DEF Way
  <2>5. z[i] # NULL
    BY <2>3, Numbering DEF Used
  <2>6. r[z[i + 1]] < r[z[i]]
    BY <2>3, <2>4, <2>5 DEF Ranked
  <2>7. r[z[i]] \in Nat /\ r[z[i + 1]] \in Nat /\ r[z[j]] \in Nat
    BY <2>3 DEF Used, Orders
  <2>8. i = j \/ j < i
    BY <2>1
  <2>9. j < i => r[z[i]] < r[z[j]]
    BY <1>2, <2>2
  <2> QED BY <2>6, <2>7, <2>8, <2>9
<1>3. k \in S
  <2>1. k \in Nat
    OBVIOUS
  <2> HIDE DEF S
  <2> QED BY <1>1, <1>2, <2>1, SetInduction
<1> QED BY <1>3

\* The second sequence has the element l more than the first, at the end if it says so.
OneMore(L, end, l, s, s2) ==
    \E a \in Seq(L), b \in Seq(L) : s = a \o b /\ s2 = (a \o <<l>>) \o b /\ (end => b = <<>>)

LEMMA OneMoreBefore ==
    ASSUME NEW L, NEW end \in BOOLEAN, NEW l \in L, NEW e \in Seq(L), NEW s, NEW s2,
           OneMore(L, end, l, s, s2)
    PROVE  OneMore(L, end, l, e \o s, e \o s2)
<1>1. PICK a \in Seq(L), b \in Seq(L) :
         s = a \o b /\ s2 = (a \o <<l>>) \o b /\ (end => b = <<>>)
  BY DEF OneMore
<1>2. s = a \o b /\ s2 = (a \o <<l>>) \o b
  BY <1>1
<1>3. <<l>> \in Seq(L)
  OBVIOUS
<1> DEFINE w == <<l>>
<1> HIDE DEF w
<1>4. w \in Seq(L) /\ s2 = (a \o w) \o b
  BY <1>2, <1>3 DEF w
<1>5. e \o a \in Seq(L) /\ a \o w \in Seq(L)
  BY <1>4, ConcatProperties
<1>6. e \o s = (e \o a) \o b
  BY <1>2, ConcatAssociative
<1>7. e \o s2 = (e \o (a \o w)) \o b
  <2> DEFINE c == a \o w
  <2>1. c \in Seq(L) /\ s2 = c \o b
    BY <1>4, <1>5
  <2> HIDE DEF c
  <2>2. e \o s2 = (e \o c) \o b
    <3>1. (e \o c) \o b = e \o (c \o b)
      BY <2>1, ConcatAssociative
    <3> QED BY <2>1, <3>1
  <2> QED BY <2>2 DEF c
<1>8. e \o (a \o w) = (e \o a) \o w
  BY <1>4, ConcatAssociative
<1>9. e \o s2 = ((e \o a) \o <<l>>) \o b
  BY <1>7, <1>8 DEF w
<1> QED BY <1>1, <1>5, <1>6, <1>9 DEF OneMore

LEMMA OneMoreBehind ==
    ASSUME NEW L, NEW end \in BOOLEAN, NEW l \in L, NEW e \in Seq(L), NEW s, NEW s2,
           OneMore(L, end, l, s, s2), end => e = <<>>
    PROVE  OneMore(L, end, l, s \o e, s2 \o e)
<1>1. PICK a \in Seq(L), b \in Seq(L) :
         s = a \o b /\ s2 = (a \o <<l>>) \o b /\ (end => b = <<>>)
  BY DEF OneMore
<1>2. s = a \o b /\ s2 = (a \o <<l>>) \o b
  BY <1>1
<1>3. <<l>> \in Seq(L)
  OBVIOUS
<1> DEFINE w == <<l>>
<1> HIDE DEF w
<1>4. w \in Seq(L) /\ s2 = (a \o w) \o b
  BY <1>2, <1>3 DEF w
<1>5. b \o e \in Seq(L) /\ a \o w \in Seq(L)
  BY <1>4, ConcatProperties
<1>6. s \o e = a \o (b \o e)
  BY <1>2, ConcatAssociative
<1>7. s2 \o e = (a \o w) \o (b \o e)
  BY <1>4, <1>5, ConcatAssociative
<1>8. s2 \o e = (a \o <<l>>) \o (b \o e)
  BY <1>7 DEF w
<1>9. end => b \o e = <<>>
  BY <1>1, ConcatEmptySeq
<1> QED BY <1>5, <1>6, <1>8, <1>9 DEF OneMore

LEMMA OneMoreRemoved ==
    ASSUME NEW L, NEW end \in BOOLEAN, NEW l \in L, NEW s, NEW s2, OneMore(L, end, l, s, s2)
    PROVE  \E k \in DOMAIN s2 : RemoveAt(s2, k) = s
<1>1. PICK a \in Seq(L), b \in Seq(L) :
         s = a \o b /\ s2 = (a \o <<l>>) \o b /\ (end => b = <<>>)
  BY DEF OneMore
<1>2. s = a \o b /\ s2 = (a \o <<l>>) \o b
  BY <1>1
<1> DEFINE i == Len(a) + 1
           p == SubSeq(s2, 1, i - 1)
           v == SubSeq(s2, i + 1, Len(s2))
<1>3. Len(a) \in Nat /\ Len(b) \in Nat
  OBVIOUS
<1>4. /\ s2 \in Seq(L) /\ Len(s2) = Len(a) + 1 + Len(b)
      /\ \A k \in 1 .. Len(a) : s2[k] = a[k]
      /\ \A k \in 1 .. Len(b) : s2[Len(a) + 1 + k] = b[k]
  <2> DEFINE w == <<l>>
             c == a \o w
  <2>1. w \in Seq(L) /\ Len(w) = 1
    OBVIOUS
  <2> HIDE DEF w
  <2>2. /\ c \in Seq(L) /\ Len(c) = Len(a) + 1
        /\ \A k \in 1 .. Len(a) + 1 : c[k] = IF k <= Len(a) THEN a[k] ELSE w[k - Len(a)]
    <3>1. /\ a \o w \in Seq(L) /\ Len(a \o w) = Len(a) + Len(w)
          /\ \A k \in 1 .. Len(a) + Len(w) : (a \o w)[k] = IF k <= Len(a) THEN a[k] ELSE w[k - Len(a)]
      BY <2>1, ConcatProperties
    <3> QED BY <2>1, <3>1
  <2>3. s2 = c \o b
    BY <1>2 DEF w
  <2> HIDE DEF c
  <2>4. /\ s2 \in Seq(L) /\ Len(s2) = Len(a) + 1 + Len(b)
        /\ \A k \in 1 .. Len(a) + 1 + Len(b) :
              s2[k] = IF k <= Len(a) + 1 THEN c[k] ELSE b[k - (Len(a) + 1)]
    <3>1. /\ c \o b \in Seq(L) /\ Len(c \o b) = Len(c) + Len(b)
          /\ \A k \in 1 .. Len(c) + Len(b) : (c \o b)[k] = IF k <= Len(c) THEN c[k] ELSE b[k - Len(c)]
      BY <2>2, ConcatProperties
    <3> QED BY <2>2, <2>3, <3>1
  <2>5. ASSUME NEW k \in 1 .. Len(a) PROVE s2[k] = a[k]
    <3>1. k \in 1 .. Len(a) + 1 /\ k \in 1 .. Len(a) + 1 + Len(b) /\ k <= Len(a) + 1 /\ k <= Len(a)
      BY <1>3
    <3> QED BY <2>2, <2>4, <3>1
  <2>6. ASSUME NEW k \in 1 .. Len(b) PROVE s2[Len(a) + 1 + k] = b[k]
    <3>1. /\ Len(a) + 1 + k \in 1 .. Len(a) + 1 + Len(b) /\ ~ (Len(a) + 1 + k <= Len(a) + 1)
          /\ (Len(a) + 1 + k) - (Len(a) + 1) = k
      BY <1>3
    <3> QED BY <2>4, <3>1
  <2> QED BY <2>4, <2>5, <2>6
<1>5. \A k \in 1 .. Len(s2) : s2[k] \in L
  BY <1>4
<1> HIDE DEF i
<1>i. i = Len(a) + 1 /\ i \in Int
  BY <1>3 DEF i
<1>6. p = a
  <2>1. /\ p \in Seq(L) /\ Len(p) = Len(a)
        /\ \A k \in 1 .. Len(a) : p[k] = s2[k]
    BY <1>i, <1>3, <1>4, <1>5, SubSeqProperties
  <2> HIDE DEF p
  <2> QED BY <1>4, <2>1
<1>7. v = b
  <2>1. /\ v \in Seq(L) /\ Len(v) = Len(b)
        /\ \A k \in 1 .. Len(b) : v[k] = s2[Len(a) + 1 + k]
    BY <1>i, <1>3, <1>4, <1>5, SubSeqProperties
  <2> HIDE DEF v
  <2> QED BY <1>4, <2>1
<1>8. RemoveAt(s2, i) = p \o v
  BY DEF RemoveAt
<1>9. i \in DOMAIN s2
  <2>1. DOMAIN s2 = 1 .. Len(s2)
    BY <1>4
  <2>2. i \in 1 .. Len(s2)
    BY <1>i, <1>3, <1>4
  <2> QED BY <2>1, <2>2
<1> QED BY <1>2, <1>6, <1>7, <1>8, <1>9

\* What save would write has one line more, wherever the node hangs; the last one if it
\* hangs at the root or below its last child.
LEMMA OneLineMore ==
    ASSUME NEW t, Good(t), NEW q \in Nodes \ Used(t), NEW x \in Used(t), NEW parent \in Used(t),
           NEW type \in Types, NEW name, NEW u, Attached(t, u, q, x, name, type, parent),
           NEW end \in BOOLEAN, end => t[parent].sibling = NULL /\ t[parent].parent = ROOT
    PROVE  OneMore(Lines(u), end, Line(u, q, PathOf(u, q)), saveHelp(t, ROOT), saveHelp(u, ROOT))
<1>0. PICK M \in Nat : \E r \in Orders(M) : Ranked(t, r)
  BY DEF Good
<1>1. PICK r \in Orders(M) : Typed(t) /\ Linked(t) /\ Ranked(t, r)
  BY <1>0 DEF Good
<1>2. Good(u) /\ Used(u) = Used(t) \cup {q}
  BY AttachKeeps
<1> DEFINE L == Lines(u)
           line(m) == Line(u, m, PathOf(u, m))
<1>3. \A m \in Used(t) : Line(t, m, PathOf(t, m)) = line(m)
  BY SameLines
<1>4. \A m \in Used(u) : line(m) \in L
  BY DEF Lines
<1>5. PICK f : /\ saveHelp(t, ROOT) = f[t[ROOT].child]
               /\ f[NULL] = <<>>
               /\ \A m \in Nodes : f[m] = <<Line(t, m, PathOf(t, m))>> \o f[t[m].child] \o f[t[m].sibling]
  BY SaveRecursion
<1>6. PICK g : /\ saveHelp(u, ROOT) = g[u[ROOT].child]
               /\ g[NULL] = <<>>
               /\ \A m \in Nodes : g[m] = <<Line(u, m, PathOf(u, m))>> \o g[u[m].child] \o g[u[m].sibling]
  BY <1>2, SaveRecursion
<1>7. ASSUME NEW m \in Used(t) \cup {NULL} PROVE f[m] \in Seq(L) /\ g[m] \in Seq(L)
  <2>1. f[m] \in Seq(Lines(t))
    BY <1>5, SavedLines
  <2>2. Lines(t) \subseteq L
    BY <1>2, <1>3, <1>4 DEF Lines
  <2>3. g[m] \in Seq(L)
    <3>1. \A i \in Used(u) \cup {NULL} : g[i] \in Seq(Lines(u))
      BY <1>2, <1>6, SavedLines
    <3> QED BY <1>2, <3>1
  <2> QED BY <2>1, <2>2, <2>3
<1> HIDE DEF L, line
<1>8. ASSUME NEW m \in Used(t)
      PROVE  /\ m \in Nodes /\ m # q /\ m # NULL /\ r[m] \in Nat /\ line(m) \in L
             /\ f[m] = <<line(m)>> \o f[t[m].child] \o f[t[m].sibling]
             /\ g[m] = <<line(m)>> \o g[u[m].child] \o g[u[m].sibling]
             /\ t[m].child \in Used(t) \cup {NULL} /\ t[m].sibling \in Used(t) \cup {NULL}
  <2>0. m \in Nodes /\ m # q
    BY DEF Used
  <2>1. m \in Nodes /\ m # q /\ m # NULL /\ r[m] \in Nat
    <3>1. r[m] \in 0 .. M
      BY <2>0 DEF Orders
    <3> QED BY <2>0, <3>1, Numbering
  <2>2. line(m) \in L
    BY <1>2, <1>4 DEF line, L
  <2>3. f[m] = <<line(m)>> \o f[t[m].child] \o f[t[m].sibling]
    BY <1>3, <1>5, <2>1
  <2>4. g[m] = <<line(m)>> \o g[u[m].child] \o g[u[m].sibling]
    BY <1>6, <2>1 DEF line
  <2>5. t[m].child \in Used(t) \cup {NULL} /\ t[m].sibling \in Used(t) \cup {NULL}
    BY <1>1 DEF Linked
  <2> QED BY <2>1, <2>2, <2>3, <2>4, <2>5
<1>9. ASSUME NEW m \in Used(t), m # x PROVE u[m].child = t[m].child /\ u[m].sibling = t[m].sibling
  BY <1>8, <1>9 DEF Attached
\* The way to the new node.
<1>10. PICK d \in Nat : \E z : Way(t, x, d, z)
  BY WayExists
<1>11. PICK z : Way(t, x, d, z)
  BY <1>10
<1>12. ASSUME NEW j \in 0 .. d, NEW k \in 0 .. d, z[j] = z[k] PROVE j = k
  <2>1. ASSUME NEW a \in 0 .. d, NEW b \in 0 .. d, a < b PROVE r[z[b]] < r[z[a]]
    <3> HIDE DEF Orders
    <3> QED BY <1>1, <1>11, <2>1, WayLeadsUp
  <2>2. r[z[j]] \in Nat /\ ~ (j < k) /\ ~ (k < j)
    <3>1. z[j] \in Used(t)
      BY <1>11 DEF Way
    <3>2. r[z[j]] \in Nat
      BY <1>8, <3>1
    <3> QED BY <1>12, <2>1, <3>2
  <2> QED BY <2>2
<1> DEFINE Z == {z[k] : k \in 0 .. d}
\* A node whose pointer leads to the way is on it.
<1>13. ASSUME NEW m \in Used(t), NEW k \in 0 .. d, t[m].child = z[k] \/ t[m].sibling = z[k]
       PROVE  k \in 0 .. d - 1 /\ m = z[k + 1]
  <2>1. z[k] \in Used(t) /\ z[d] = ROOT
    BY <1>11 DEF Way
  <2>2. z[k] # ROOT
    BY <1>13, <2>1, OnePointer
  <2>3. k \in 0 .. d - 1 /\ k + 1 \in 0 .. d
    BY <2>1, <2>2
  <2>4. z[k + 1] \in Used(t) /\ (t[z[k + 1]].child = z[k] \/ t[z[k + 1]].sibling = z[k])
    BY <1>11, <2>3 DEF Way
  <2>5. m = z[k + 1]
    BY <1>13, <2>1, <2>4, OnePointer
  <2> QED BY <2>3, <2>5
\* Off the way nothing changes.
<1>14. x \in Z /\ NULL \notin Z
  <2>1. 0 \in 0 .. d /\ z[0] = x
    BY <1>11 DEF Way
  <2>2. \A k \in 0 .. d : z[k] \in Used(t)
    BY <1>11 DEF Way
  <2> QED BY <1>8, <2>1, <2>2
<1>15. ASSUME NEW m \in (Used(t) \cup {NULL}) \ Z PROVE g[m] = f[m]
  <2> DEFINE Bad == {i \in Used(t) \ Z : g[i] # f[i]}
  <2>1. Bad = {}
    <3> SUFFICES ASSUME Bad # {} PROVE FALSE
      OBVIOUS
    <3>1. PICK i \in Bad : \A j \in Bad : M - r[i] <= M - r[j]
      <4> DEFINE S == {M - r[j] : j \in Bad}
      <4>1. S \subseteq Nat
        <5>1. ASSUME NEW j \in Used(t) PROVE M - r[j] \in Nat
          <6>1. r[j] \in 0 .. M
            BY DEF Orders, Used
          <6> QED BY <6>1
        <5> QED BY <5>1
      <4>2. S # {}
        OBVIOUS
      <4> HIDE DEF S
      <4>3. PICK y \in S : \A v \in S : y <= v
        BY <4>1, <4>2, LeastNumber
      <4> USE DEF S
      <4> QED BY <4>3
    <3>2. i \in Used(t) /\ i \notin Z /\ g[i] # f[i] /\ i # x
      BY <1>14, <3>1
    <3>3. ASSUME NEW o \in Used(t) \cup {NULL}, o = t[i].child \/ o = t[i].sibling PROVE g[o] = f[o]
      <4>1. CASE o = NULL
        BY <1>5, <1>6, <4>1
      <4>2. CASE o \in Used(t)
        <5>1. o \notin Z
          BY <1>13, <3>2, <3>3
        <5>2. r[i] < r[o]
          <6>1. o # NULL
            BY <1>8, <4>2
          <6> QED BY <1>1, <3>2, <3>3, <6>1 DEF Ranked
        <5>3. r[i] \in Nat /\ r[o] \in Nat
          BY <1>8, <3>2, <4>2
        <5>4. o \notin Bad
          <6> HIDE DEF Bad
          <6> QED BY <3>1, <5>2, <5>3
        <5> QED BY <4>2, <5>1, <5>4
      <4> QED BY <4>1, <4>2
    <3>4. g[t[i].child] = f[t[i].child] /\ g[t[i].sibling] = f[t[i].sibling]
      BY <1>8, <3>2, <3>3
    <3>5. u[i].child = t[i].child /\ u[i].sibling = t[i].sibling
      BY <1>9, <3>2
    <3>6. /\ f[i] = <<line(i)>> \o f[t[i].child] \o f[t[i].sibling]
          /\ g[i] = <<line(i)>> \o g[u[i].child] \o g[u[i].sibling]
      BY <1>8, <3>2
    <3>7. f[i] = g[i]
      BY <3>4, <3>5, <3>6
    <3> QED BY <3>2, <3>7
  <2>2. CASE m = NULL
    BY <1>5, <1>6, <2>2
  <2> QED BY <2>1, <2>2
\* The new node itself.
<1>16. line(q) \in L /\ g[q] = <<line(q)>>
  <2>1. line(q) \in L
    BY <1>2, <1>4 DEF line, L
  <2>2. q \in Nodes /\ u[q].child = NULL /\ u[q].sibling = NULL
    BY DEF Attached, NODE
  <2>3. g[q] = <<line(q)>> \o <<>> \o <<>>
    BY <1>6, <2>2 DEF line
  <2>4. <<line(q)>> \in Seq(L)
    BY <2>1
  <2>5. <<line(q)>> \o <<>> = <<line(q)>>
    BY <2>4, ConcatEmptySeq
  <2> QED BY <2>1, <2>3, <2>5
<1>17. ASSUME NEW s \in Seq(L), NEW s2 \in Seq(L), end => s2 = <<>>
       PROVE  OneMore(L, end, line(q), s \o s2, (s \o <<line(q)>>) \o s2)
  BY <1>16, <1>17 DEF OneMore
<1>18. ASSUME NEW s \in Seq(L) PROVE s \o <<>> = s /\ <<>> \o s = s
  BY <1>18, ConcatEmptySeq
<1>19. ASSUME NEW m \in Used(t), NEW s \in Seq(L)
       PROVE  <<line(m)>> \in Seq(L) /\ <<line(m)>> \o s \in Seq(L)
  <2>1. line(m) \in L
    BY <1>8
  <2> QED BY <2>1
<1>20. <<>> \in Seq(L)
  BY <1>5, <1>7
\* If the line is to be the last, child pointers on the way are those of last children.
<1>p. ASSUME end PROVE \A k \in 0 .. d - 1 : t[z[k]].parent \in {parent, ROOT}
  <2> DEFINE S == {k \in Nat : k <= d - 1 => t[z[k]].parent \in {parent, ROOT}}
  <2>1. 0 \in S
    <3>1. z[0] = x
      BY <1>11 DEF Way
    <3>2. t[x].parent \in {parent, ROOT}
      BY <1>p DEF Attached
    <3> QED BY <3>1, <3>2
  <2>2. ASSUME NEW k \in Nat, k \in S PROVE k + 1 \in S
    <3>1. SUFFICES ASSUME k + 1 <= d - 1 PROVE t[z[k + 1]].parent \in {parent, ROOT}
      OBVIOUS
    <3> DEFINE y == z[k]
               p == z[k + 1]
    <3>2. k \in 0 .. d - 1 /\ k \in 0 .. d /\ k + 1 \in 0 .. d
      BY <3>1
    <3>3. y \in Used(t) /\ p \in Used(t) /\ (t[p].child = y \/ t[p].sibling = y)
      BY <1>11, <3>2 DEF Way
    <3>4. t[y].parent \in {parent, ROOT}
      BY <2>2, <3>2
    <3> HIDE DEF y, p
    <3>5. t[y].parent = p \/ t[y].parent = t[p].parent
      BY <1>1, <1>8, <3>3 DEF Linked
    <3>6. t[ROOT].parent = ROOT
      BY <1>1 DEF Linked
    <3>7. t[p].parent \in {parent, ROOT}
      BY <1>p, <3>4, <3>5, <3>6
    <3> QED BY <3>7 DEF p
  <2>3. \A k \in Nat : k \in S
    <3> HIDE DEF S
    <3> QED BY <2>1, <2>2, SetInduction
  <2> QED BY <2>3
\* On the way, from the node it hangs at to the root.
<1>21. OneMore(L, end, line(q), f[x], g[x]) \/ (x = ROOT /\ x = parent)
  <2> DEFINE c == f[t[x].child]
             s == f[t[x].sibling]
             w == <<line(x)>>
  <2>1. f[x] = (w \o c) \o s /\ w \in Seq(L) /\ c \in Seq(L) /\ s \in Seq(L) /\ w \o c \in Seq(L)
    BY <1>7, <1>8, <1>19
  <2>2. ASSUME NEW o \in Used(t), o = t[x].child \/ o = t[x].sibling PROVE o \notin Z
    <3> SUFFICES ASSUME o \in Z PROVE FALSE
      OBVIOUS
    <3>1. PICK k \in 0 .. d : o = z[k]
      OBVIOUS
    <3>2. k \in 0 .. d - 1 /\ x = z[k + 1]
      BY <1>13, <2>2, <3>1
    <3>3. z[0] = x /\ 0 \in 0 .. d /\ k + 1 \in 0 .. d
      BY <1>11, <3>2 DEF Way
    <3>4. k + 1 = 0
      BY <1>12, <3>2, <3>3
    <3> QED BY <3>2, <3>4
  <2>3. g[t[x].child] = c /\ g[t[x].sibling] = s
    <3>1. t[x].child \in Used(t) \cup {NULL} /\ t[x].sibling \in Used(t) \cup {NULL}
      BY <1>8
    <3> QED BY <1>14, <1>15, <2>2, <3>1
  <2>4. CASE t[x].child = NULL /\ u[x].child = q /\ u[x].sibling = t[x].sibling
    <3>1. f[x] = w \o s
      BY <1>5, <1>18, <2>1, <2>4
    <3>2. g[x] = (w \o <<line(q)>>) \o s
      BY <1>8, <1>16, <2>3, <2>4
    <3>3. x = parent \/ t[x].sibling = NULL
      BY DEF Attached
    <3>4. end => s = <<>>
      BY <1>5, <3>3
    <3> HIDE DEF w, s
    <3> QED BY <1>17, <2>1, <3>1, <3>2, <3>4
  <2>5. CASE t[x].sibling = NULL /\ u[x].sibling = q /\ u[x].child = t[x].child
    <3>1. f[x] = (w \o c) \o <<>>
      BY <1>5, <2>1, <2>5
    <3>2. g[x] = (w \o c) \o <<line(q)>>
      <4>1. g[u[x].child] = c /\ g[u[x].sibling] = <<line(q)>>
        BY <1>16, <2>3, <2>5
      <4>2. g[x] = (w \o g[u[x].child]) \o g[u[x].sibling]
        BY <1>8
      <4> HIDE DEF c, w
      <4> QED BY <4>1, <4>2
    <3>3. <<line(q)>> \in Seq(L)
      BY <1>16
    <3> DEFINE wc == w \o c
               e == <<line(q)>>
    <3>4. wc \in Seq(L) /\ f[x] = wc \o <<>> /\ g[x] = wc \o e /\ e \in Seq(L)
      BY <2>1, <3>1, <3>2, <3>3
    <3>5. OneMore(L, end, line(q), wc \o <<>>, (wc \o e) \o <<>>)
      <4> HIDE DEF wc
      <4> QED BY <1>17, <1>20, <3>4
    <3> HIDE DEF wc, e
    <3>6. wc \o e \in Seq(L)
      BY <3>4, ConcatProperties
    <3>7. (wc \o e) \o <<>> = wc \o e
      BY <1>18, <3>6
    <3> QED BY <3>4, <3>5, <3>7
  <2> QED BY <2>4, <2>5 DEF Attached
<1>22. ASSUME NEW k \in 0 .. d - 1, OneMore(L, end, line(q), f[z[k]], g[z[k]]), z[k + 1] # x
       PROVE  OneMore(L, end, line(q), f[z[k + 1]], g[z[k + 1]])
  <2> DEFINE p == z[k + 1]
             w == <<line(p)>>
             c == t[p].child
             s == t[p].sibling
  <2>0. k \in 0 .. d /\ k + 1 \in 0 .. d
    OBVIOUS
  <2>1. p \in Used(t) /\ z[k] \in Used(t) /\ (c = z[k] \/ s = z[k])
    BY <1>11, <2>0 DEF Way
  <2>2. /\ f[p] = (w \o f[c]) \o f[s] /\ g[p] = (w \o g[c]) \o g[s]
        /\ w \in Seq(L) /\ f[c] \in Seq(L) /\ g[c] \in Seq(L) /\ f[s] \in Seq(L) /\ g[s] \in Seq(L)
        /\ c \in Used(t) \cup {NULL} /\ s \in Used(t) \cup {NULL}
    <3>1. u[p].child = c /\ u[p].sibling = s
      BY <1>9, <1>22, <2>1
    <3>2. c \in Used(t) \cup {NULL} /\ s \in Used(t) \cup {NULL} /\ w \in Seq(L)
      BY <1>8, <1>19, <1>20, <2>1
    <3> QED BY <1>7, <1>8, <2>1, <3>1, <3>2
  <2>3. c # s
    <3> SUFFICES ASSUME c = s PROVE FALSE
      OBVIOUS
    <3> DEFINE y == z[k]
    <3>0. y \in Used(t) /\ y # NULL /\ t[p].child = y /\ t[p].sibling = y
      BY <1>8, <2>1
    <3> HIDE DEF p, y, Z, w
    <3>a. t[y].parent = p /\ t[y].parent = t[p].parent
      BY <1>1, <2>1, <3>0 DEF Linked
    <3>1. t[p].parent = p
      BY <3>a
    <3>2. p # ROOT
      BY <1>1, <1>8, <2>1, <3>1 DEF Linked
    <3>3. r[t[p].parent] < r[p] /\ r[p] \in Nat
      BY <1>1, <1>8, <2>1, <3>2 DEF Ranked
    <3> QED BY <3>1, <3>3
  <2>4. ASSUME NEW o \in Used(t), o = c \/ o = s, o # z[k] PROVE o \notin Z
    <3> SUFFICES ASSUME o \in Z PROVE FALSE
      OBVIOUS
    <3>1. PICK j \in 0 .. d : o = z[j]
      OBVIOUS
    <3>2. j \in 0 .. d - 1 /\ p = z[j + 1]
      BY <1>13, <2>1, <2>4, <3>1
    <3>3. j + 1 \in 0 .. d
      BY <3>2
    <3>4. j + 1 = k + 1
      BY <1>12, <2>0, <3>2, <3>3
    <3>5. j = k
      BY <3>2, <3>4
    <3> QED BY <2>4, <3>1, <3>5
  <2> HIDE DEF Z, p, w
  <2>5. CASE c = z[k]
    <3>1. g[s] = f[s]
      BY <1>14, <1>15, <2>2, <2>3, <2>4, <2>5
    <3>e. end => f[s] = <<>>
      <4> SUFFICES ASSUME end PROVE f[s] = <<>>
        OBVIOUS
      <4>1. t[z[k]].parent \in {parent, ROOT}
        BY <1>p
      <4>2. t[c].parent = p
        <5>1. t[p].child # NULL
          BY <1>8, <2>1, <2>5
        <5> QED BY <1>1, <2>1, <5>1 DEF Linked
      <4>3. p \in {parent, ROOT}
        BY <2>5, <4>1, <4>2
      <4>4. t[p].sibling = NULL
        BY <1>1, <4>3 DEF Linked
      <4> QED BY <1>5, <4>4
    <3> DEFINE A == f[c]
               B == g[c]
               C == f[s]
    <3>2. /\ OneMore(L, end, line(q), A, B) /\ A \in Seq(L) /\ B \in Seq(L) /\ C \in Seq(L) /\ w \in Seq(L)
          /\ f[p] = (w \o A) \o C /\ g[p] = (w \o B) \o C /\ (end => C = <<>>)
      BY <1>22, <2>2, <2>5, <3>1, <3>e
    <3> HIDE DEF A, B, C
    <3>3. OneMore(L, end, line(q), w \o A, w \o B)
      BY <1>16, <3>2, OneMoreBefore
    <3>4. OneMore(L, end, line(q), (w \o A) \o C, (w \o B) \o C)
      BY <1>16, <3>2, <3>3, OneMoreBehind
    <3> QED BY <3>2, <3>4 DEF p
  <2>6. CASE s = z[k]
    <3>1. g[c] = f[c]
      BY <1>14, <1>15, <2>2, <2>3, <2>4, <2>6
    <3> DEFINE A == f[s]
               B == g[s]
               C == w \o f[c]
    <3>2. /\ OneMore(L, end, line(q), A, B) /\ C \in Seq(L)
          /\ f[p] = C \o A /\ g[p] = C \o B
      BY <1>22, <2>2, <2>6, <3>1
    <3> HIDE DEF A, B, C
    <3>3. OneMore(L, end, line(q), C \o A, C \o B)
      BY <1>16, <3>2, OneMoreBefore
    <3> QED BY <3>2, <3>3 DEF p
  <2> QED BY <2>1, <2>5, <2>6
\* The list of the root.
<1>23. CASE x = ROOT
  <2>1. t[x].child = NULL /\ u[x].child = q
    BY <1>23 DEF Attached
  <2>2. saveHelp(t, ROOT) = <<>> /\ saveHelp(u, ROOT) = <<line(q)>>
    BY <1>5, <1>6, <1>16, <1>23, <2>1
  <2>3. OneMore(L, end, line(q), <<>> \o <<>>, (<<>> \o <<line(q)>>) \o <<>>)
    BY <1>17, <1>20
  <2>4. <<line(q)>> \in Seq(L)
    BY <1>16
  <2>5. <<>> \o <<>> = <<>> /\ (<<>> \o <<line(q)>>) \o <<>> = <<line(q)>>
    BY <1>18, <1>20, <2>4
  <2> QED BY <2>2, <2>3, <2>5 DEF L, line
<1>24. CASE x # ROOT
  <2> DEFINE S == {k \in Nat : k <= d - 1 => OneMore(L, end, line(q), f[z[k]], g[z[k]])}
  <2>1. 0 \in S
    <3>1. z[0] = x
      BY <1>11 DEF Way
    <3> QED BY <1>21, <1>24, <3>1
  <2>2. ASSUME NEW k \in Nat, k \in S PROVE k + 1 \in S
    <3>1. SUFFICES ASSUME k + 1 <= d - 1 PROVE OneMore(L, end, line(q), f[z[k + 1]], g[z[k + 1]])
      OBVIOUS
    <3>2. k \in 0 .. d - 1 /\ k + 1 \in 0 .. d /\ 0 \in 0 .. d /\ k + 1 # 0 /\ z[0] = x
      BY <1>11, <3>1 DEF Way
    <3>3. z[k + 1] # x
      BY <1>12, <3>2
    <3>4. OneMore(L, end, line(q), f[z[k]], g[z[k]])
      BY <2>2, <3>2
    <3> QED BY <1>22, <3>2, <3>3, <3>4
  <2>3. d # 0
    BY <1>11, <1>24 DEF Way
  <2>4. d - 1 \in Nat /\ d - 1 \in 0 .. d - 1 /\ (d - 1) + 1 = d
    BY <2>3
  <2>5. OneMore(L, end, line(q), f[z[d - 1]], g[z[d - 1]])
    <3>1. d - 1 \in S
      <4> HIDE DEF S
      <4> QED BY <2>1, <2>2, <2>4, SetInduction
    <3> QED BY <2>4, <3>1
  <2>6. t[ROOT].child = z[d - 1]
    <3>1. t[z[(d - 1) + 1]].child = z[d - 1] \/ t[z[(d - 1) + 1]].sibling = z[d - 1]
      BY <1>11, <2>4 DEF Way
    <3>2. z[(d - 1) + 1] = ROOT /\ z[d - 1] \in Used(t)
      BY <1>11, <2>4 DEF Way
    <3>3. t[ROOT].sibling = NULL /\ z[d - 1] # NULL
      BY <1>1, <1>8, <3>2 DEF Linked
    <3> QED BY <3>1, <3>2, <3>3
  <2>7. u[ROOT].child = t[ROOT].child
    <3>1. ROOT \in Used(t)
      BY <1>1 DEF Linked
    <3> QED BY <1>9, <1>24, <3>1
  <2> QED BY <1>5, <1>6, <2>5, <2>6, <2>7 DEF L, line
<1> QED BY <1>23, <1>24

-----------------------------------------------------------------------------
(* What reload makes of what save wrote.                                   *)

Names == Seq(Chars)

\* All names but that of the root, which has none, are of characters.
Named(t) == \A n \in Used(t) \ {ROOT} : t[n].name \in Names

\* A component that is not shorter covers the one before it in the buffer.
LEMMA OverLonger ==
    ASSUME NEW buffer \in Names, NEW name \in Names, Len(buffer) <= Len(name)
    PROVE  Over(buffer, name) = name
<1> DEFINE rest == SubSeq(buffer, Len(name) + 1, Len(buffer))
<1>1. rest = <<>>
  <2>1. Len(name) \in Nat /\ Len(buffer) \in Nat
    OBVIOUS
  <2> QED BY <2>1
<1>2. name \o <<>> = name
  BY ConcatEmptySeq DEF Names
<1> HIDE DEF rest
<1>3. Over(buffer, name) = name \o rest
  BY DEF Over, rest
<1> QED BY <1>1, <1>2, <1>3

LEMMA OverNames ==
    ASSUME NEW buffer \in Names, NEW name \in Names
    PROVE  Over(buffer, name) \in Names
<1>1. CASE Len(buffer) <= Len(name)
  BY <1>1, OverLonger
<1>2. CASE ~ (Len(buffer) <= Len(name))
  <2>1. Len(name) \in Nat /\ Len(buffer) \in Nat
    BY DEF Names
  <2>2. Len(name) + 1 \in 1 .. Len(buffer) + 1 /\ Len(buffer) \in (Len(name) + 1) - 1 .. Len(buffer)
    BY <1>2, <2>1
  <2>3. SubSeq(buffer, Len(name) + 1, Len(buffer)) \in Names
    BY <2>2, SubSeqProperties DEF Names
  <2>4. name \o SubSeq(buffer, Len(name) + 1, Len(buffer)) \in Names
    BY <2>3, ConcatProperties DEF Names
  <2> QED BY <2>4 DEF Over
<1> QED BY <1>1, <1>2

\* The recursion of Buffers.
LEMMA BuffersRecursion ==
    ASSUME NEW S, NEW comps \in Seq(S)
    PROVE  \E b : /\ b[0] = <<>>
                  /\ \A k \in 1 .. Len(comps) : b[k] = Over(b[k - 1], comps[k])
                  /\ \A k \in 1 .. Len(comps) : Buffers(comps)[k] = b[k]
<1> DEFINE K == Len(comps)
           Body(g, k) == IF k = 0 THEN <<>> ELSE Over(g[k - 1], comps[k])
           buffer == CHOOSE g : g = [k \in 0 .. K |-> Body(g, k)]
<1>1. Buffers(comps) = [k \in DOMAIN comps |-> buffer[k]]
  BY DEF Buffers
<1>2. K \in Nat /\ DOMAIN comps = 1 .. K
  OBVIOUS
<1> HIDE DEF K
<1>4. buffer = [k \in 0 .. K |-> Body(buffer, k)]
  <2> DEFINE Solved(g, d) == g = [k \in 0 .. d |-> g[k]] /\ \A k \in 0 .. d : g[k] = Body(g, k)
             T == {d \in Nat : \E g : Solved(g, d)}
  <2>1. 0 \in T
    <3> DEFINE g == [k \in 0 .. 0 |-> <<>>]
    <3>1. g = [k \in 0 .. 0 |-> g[k]]
      OBVIOUS
    <3>2. Body(g, 0) = <<>>
      OBVIOUS
    <3>3. g[0] = <<>>
      OBVIOUS
    <3> HIDE DEF g, Body
    <3>4. Solved(g, 0)
      BY <3>1, <3>2, <3>3
    <3> HIDE DEF Solved
    <3> QED BY <3>4
  <2>2. ASSUME NEW d \in Nat, d \in T PROVE d + 1 \in T
    <3>1. PICK f : Solved(f, d)
      BY <2>2
    <3> DEFINE g == [k \in 0 .. d + 1 |-> IF k <= d THEN f[k] ELSE Body(f, k)]
    <3>2. g = [k \in 0 .. d + 1 |-> g[k]]
      OBVIOUS
    <3>3. ASSUME NEW k \in 0 .. d + 1 PROVE g[k] = Body(g, k)
      <4>1. g[k] = Body(f, k)
        <5>1. g[k] = IF k <= d THEN f[k] ELSE Body(f, k)
          OBVIOUS
        <5> HIDE DEF g, Body
        <5> QED BY <3>1, <5>1
      <4>2. k # 0 => k - 1 \in 0 .. d /\ g[k - 1] = f[k - 1]
        OBVIOUS
      <4> HIDE DEF g
      <4> QED BY <4>1, <4>2
    <3> HIDE DEF g, Body
    <3>4. Solved(g, d + 1)
      BY <3>2, <3>3
    <3> HIDE DEF Solved
    <3> QED BY <3>4
  <2>3. K \in T
    <3> HIDE DEF T
    <3> QED BY <1>2, <2>1, <2>2, SetInduction
  <2>4. PICK g : Solved(g, K)
    BY <2>3
  <2> HIDE DEF Body
  <2>5. g = [k \in 0 .. K |-> Body(g, k)]
    BY <2>4
  <2> QED BY <2>5
<1> HIDE DEF buffer
<1>5. \A k \in 0 .. K : buffer[k] = Body(buffer, k)
  <2> HIDE DEF Body
  <2> QED BY <1>4
<1>6. buffer[0] = <<>>
  BY <1>2, <1>5
<1>7. \A k \in 1 .. K : buffer[k] = Over(buffer[k - 1], comps[k]) /\ Buffers(comps)[k] = buffer[k]
  BY <1>1, <1>2, <1>5
<1> QED BY <1>6, <1>7 DEF K

\* Each buffer is a name.
LEMMA BuffersNames ==
    ASSUME NEW comps \in Seq(Names)
    PROVE  Buffers(comps) \in Seq(Names) /\ Len(Buffers(comps)) = Len(comps)
<1>1. PICK b : /\ b[0] = <<>>
               /\ \A k \in 1 .. Len(comps) : b[k] = Over(b[k - 1], comps[k])
               /\ \A k \in 1 .. Len(comps) : Buffers(comps)[k] = b[k]
  BY BuffersRecursion
<1>2. Len(comps) \in Nat /\ \A k \in 1 .. Len(comps) : comps[k] \in Names
  OBVIOUS
<1> DEFINE U == {k \in Nat : k <= Len(comps) => b[k] \in Names}
<1>3. 0 \in U
  <2>1. <<>> \in Names
    BY DEF Names
  <2> QED BY <1>1, <2>1
<1>4. ASSUME NEW k \in Nat, k \in U PROVE k + 1 \in U
  <2>1. SUFFICES ASSUME k + 1 <= Len(comps) PROVE b[k + 1] \in Names
    OBVIOUS
  <2>2. k + 1 \in 1 .. Len(comps) /\ (k + 1) - 1 = k /\ b[k] \in Names
    BY <1>2, <1>4, <2>1
  <2>3. b[k + 1] = Over(b[k], comps[k + 1])
    BY <1>1, <2>2
  <2> QED BY <1>2, <2>2, <2>3, OverNames
<1>5. \A k \in Nat : k \in U
  <2> HIDE DEF U
  <2> QED BY <1>3, <1>4, SetInduction
<1>6. \A k \in 1 .. Len(comps) : Buffers(comps)[k] \in Names
  BY <1>1, <1>2, <1>5
<1>7. Buffers(comps) \in Seq({Buffers(comps)[k] : k \in DOMAIN comps}) /\ Len(Buffers(comps)) = Len(comps)
  BY BuffersLength
<1> DEFINE B == Buffers(comps)
<1>8. B = [k \in 1 .. Len(comps) |-> B[k]]
  <2> HIDE DEF B
  <2> QED BY <1>7 DEF B
<1> QED BY <1>2, <1>6, <1>7, <1>8

\* A new node has a name.
LEMMA MakeFileNamed ==
    ASSUME NEW t, Good(t), Named(t), NEW c \in Used(t) \cup {NULL}, NEW path,
           path.comps \in Seq(Names), path.comps # <<>>, NEW type \in Types, Used(t) # Nodes,
           makeFile(t, c, path, type) # Crashed
    PROVE  Named(makeFile(t, c, path, type))
<1> DEFINE u == makeFile(t, c, path, type)
           B == Buffers(path.comps)
           name == Last(B)
<1>1. \E parent \in Used(t), q \in Nodes \ Used(t), x \in Used(t) :
         Attached(t, u, q, x, name, type, parent)
  BY MakeFileAttaches
<1>2. name \in Names
  <2>1. B \in Seq(Names) /\ Len(B) = Len(path.comps)
    BY BuffersNames
  <2>2. Len(path.comps) \in Nat /\ Len(path.comps) # 0
    OBVIOUS
  <2> HIDE DEF B
  <2>3. Len(B) \in 1 .. Len(B)
    BY <2>1, <2>2
  <2> QED BY <2>1, <2>3, ElementOfSeq DEF Last
<1> HIDE DEF u, name
<1>3. PICK parent \in Used(t), q \in Nodes \ Used(t), x \in Used(t) :
         Attached(t, u, q, x, name, type, parent)
  BY <1>1
<1>4. Used(u) = Used(t) \cup {q}
  BY <1>3, AttachKeeps
<1>5. ASSUME NEW n \in Used(u) \ {ROOT} PROVE u[n].name \in Names
  <2>1. CASE n = q
    <3>1. u[n] = NODE(name, type, parent)
      BY <1>3, <2>1 DEF Attached
    <3> QED BY <1>2, <3>1 DEF NODE
  <2>2. CASE n \in Used(t)
    <3>1. n \in Nodes \ {q}
      BY <2>2 DEF Used
    <3>2. u[n].name = t[n].name
      BY <1>3, <3>1 DEF Attached
    <3> QED BY <1>5, <2>2, <3>2 DEF Named
  <2> QED BY <1>4, <1>5, <2>1, <2>2
<1>6. Named(u)
  BY <1>5 DEF Named
<1> QED BY <1>6 DEF u

\* So have all nodes that are left when some are cut off.
LEMMA CollectedNamed ==
    ASSUME NEW t, Named(t), NEW after, NEW r, NEW b, Pruned(t, after, r, b), NEW c
    PROVE  Named(Collected(after, c))
<1>1. ASSUME NEW n \in Used(Collected(after, c)) \ {ROOT} PROVE Collected(after, c)[n].name \in Names
  <2>1. n \in Nodes /\ Collected(after, c)[n] = (IF n \in Touched(after, c) THEN after[n] ELSE Unused)
    BY DEF Collected, Used
  <2>2. Collected(after, c)[n].type # "unused"
    BY DEF Used
  <2>3. Unused.type = "unused"
    BY DEF Unused, NODE
  <2>4. Collected(after, c)[n] = after[n]
    BY <2>1, <2>2, <2>3
  <2>5. after[n].type = t[n].type /\ after[n].name = t[n].name
    BY <2>1 DEF Pruned
  <2>6. n \in Used(t) \ {ROOT}
    BY <1>1, <2>1, <2>2, <2>4, <2>5 DEF Used
  <2> QED BY <2>4, <2>5, <2>6 DEF Named
<1> QED BY <1>1 DEF Named

LEMMA RootNamed == Named(OnlyRoot)
BY RootAlone DEF Named

\* The pathname of a node is of names, and as deep as the node.
LEMMA PathNames ==
    ASSUME NEW t, Good(t), Named(t)
    PROVE  /\ \A n \in Used(t) : PathOf(t, n) \in Seq(Names)
           /\ PathOf(t, ROOT) = <<>>
           /\ \A n \in Used(t) \ {ROOT} :
                 /\ PathOf(t, n) # <<>>
                 /\ t[n].parent = ROOT => PathOf(t, n) = <<t[n].name>>
                 /\ t[n].parent # ROOT => Head(PathOf(t, n)) = Head(PathOf(t, t[n].parent))
<1>0. PICK M \in Nat : \E r \in Orders(M) : Ranked(t, r)
  BY DEF Good
<1>1. PICK r \in Orders(M) : Linked(t) /\ Ranked(t, r)
  BY <1>0 DEF Good
<1>2. \A n \in Used(t) : PathOf(t, n) = IF n = ROOT THEN <<>>
                                         ELSE Append(PathOf(t, t[n].parent), t[n].name)
  BY PathRecursion
<1>3. ROOT \in Used(t) /\ PathOf(t, ROOT) = <<>>
  BY <1>1, <1>2 DEF Linked
<1>4. ASSUME NEW n \in Used(t), n # ROOT
      PROVE  /\ t[n].parent \in Used(t) /\ r[t[n].parent] < r[n] /\ t[n].name \in Names
             /\ PathOf(t, n) = Append(PathOf(t, t[n].parent), t[n].name)
  BY <1>1, <1>2, <1>4 DEF Linked, Ranked, Named
<1> DEFINE Bad == {n \in Used(t) : PathOf(t, n) \notin Seq(Names)}
<1>5. Bad = {}
  <2> SUFFICES ASSUME Bad # {} PROVE FALSE
    OBVIOUS
  <2>0. \A n \in Used(t) : r[n] \in Nat
    BY DEF Orders, Used
  <2>1. PICK m \in Bad : \A i \in Bad : r[m] <= r[i]
    <3> DEFINE S == {r[i] : i \in Bad}
    <3>1. S \subseteq Nat
      BY <2>0
    <3>2. S # {}
      OBVIOUS
    <3> HIDE DEF S
    <3>3. PICK y \in S : \A v \in S : y <= v
      BY <3>1, <3>2, LeastNumber
    <3> USE DEF S
    <3> QED BY <3>3
  <2>2. m # ROOT
    <3>1. <<>> \in Seq(Names)
      OBVIOUS
    <3> QED BY <1>3, <3>1
  <2> DEFINE p == t[m].parent
  <2>3. p \in Used(t) /\ p \notin Bad
    <3>1. p \in Used(t) /\ r[p] < r[m]
      BY <1>4, <2>2
    <3>2. r[p] \in Nat /\ r[m] \in Nat
      BY <2>0, <3>1
    <3>3. p \in Bad => r[m] <= r[p]
      BY <2>1
    <3> QED BY <3>1, <3>2, <3>3
  <2>4. PathOf(t, p) \in Seq(Names)
    BY <2>3
  <2>5. PathOf(t, m) = Append(PathOf(t, p), t[m].name) /\ t[m].name \in Names
    BY <1>4, <2>2
  <2> HIDE DEF p
  <2>6. PathOf(t, m) \in Seq(Names)
    BY <2>4, <2>5, AppendProperties
  <2> QED BY <2>6
<1>6. ASSUME NEW n \in Used(t), n # ROOT
      PROVE  /\ PathOf(t, n) # <<>>
             /\ t[n].parent = ROOT => PathOf(t, n) = <<t[n].name>>
             /\ t[n].parent # ROOT => Head(PathOf(t, n)) = Head(PathOf(t, t[n].parent))
  <2> DEFINE p == t[n].parent
             s == PathOf(t, p)
  <2>1. p \in Used(t) /\ PathOf(t, n) = Append(s, t[n].name) /\ t[n].name \in Names
    BY <1>4, <1>6
  <2>2. s \in Seq(Names)
    BY <1>5, <2>1
  <2>3. p = ROOT => s = <<>>
    BY <1>3
  <2>4. p # ROOT => s # <<>>
    <3> SUFFICES ASSUME p # ROOT PROVE s # <<>>
      OBVIOUS
    <3>1. s = Append(PathOf(t, t[p].parent), t[p].name) /\ t[p].parent \in Used(t) /\ t[p].name \in Names
      BY <1>4, <2>1
    <3>2. PathOf(t, t[p].parent) \in Seq(Names)
      BY <1>5, <3>1
    <3> HIDE DEF p
    <3> QED BY <3>1, <3>2, AppendProperties
  <2> HIDE DEF s
  <2>5. Append(s, t[n].name) # <<>> /\ (s # <<>> => Head(Append(s, t[n].name)) = Head(s))
    BY <2>1, <2>2, AppendProperties
  <2>6. p = ROOT => Append(s, t[n].name) = <<t[n].name>>
    BY <2>3
  <2> QED BY <2>1, <2>4, <2>5, <2>6 DEF s
<1>7. \A n \in Used(t) : PathOf(t, n) \in Seq(Names)
  BY <1>5
<1> QED BY <1>3, <1>6, <1>7

\* The lines save writes: every name with a pathname.
FileLines == [type : Types, path : [abs : {TRUE}, comps : Seq(Names) \ {<<>>}]]

\* A line deeper than one name comes after a line that begins with the same name.
Followed(s) ==
    \A k \in 1 .. Len(s) : Len(s[k].path.comps) > 1 =>
        k > 1 /\ Head(s[k - 1].path.comps) = Head(s[k].path.comps)

\* The nodes of a list and all below them come one after another.
LEMMA FollowedTogether ==
    ASSUME NEW l \in FileLines, Len(l.path.comps) = 1, NEW a \in Seq(FileLines), NEW b \in Seq(FileLines),
           \A k \in 1 .. Len(a) : Head(a[k].path.comps) = Head(l.path.comps), Followed(b)
    PROVE  Followed((<<l>> \o a) \o b)
<1> DEFINE s == (<<l>> \o a) \o b
<1>1. Len(a) \in Nat /\ Len(b) \in Nat
  OBVIOUS
<1>2. /\ Len(s) = (Len(a) + 1) + Len(b) /\ s[1] = l
      /\ \A k \in 1 .. Len(a) : s[k + 1] = a[k]
      /\ \A k \in 1 .. Len(b) : s[(Len(a) + 1) + k] = b[k]
  OBVIOUS
<1>3. ASSUME NEW k \in 1 .. Len(s), Len(s[k].path.comps) > 1
      PROVE  k > 1 /\ Head(s[k - 1].path.comps) = Head(s[k].path.comps)
  <2> HIDE DEF s
  <2>1. CASE k = 1
    <3>1. s[k] = l
      BY <1>2, <2>1
    <3>2. 1 > 1
      BY <1>3, <3>1
    <3> QED BY <3>2
  <2>2. CASE k \in 2 .. Len(a) + 1
    <3>1. k - 1 \in 1 .. Len(a) /\ (k - 1) + 1 = k
      BY <1>1, <2>2
    <3>2. s[k] = a[k - 1]
      BY <1>2, <3>1
    <3>3. Head(s[k].path.comps) = Head(l.path.comps)
      BY <3>1, <3>2
    <3>4. CASE k = 2
      BY <1>2, <3>3, <3>4
    <3>5. CASE k > 2
      <4>1. k - 2 \in 1 .. Len(a) /\ (k - 2) + 1 = k - 1
        BY <1>1, <2>2, <3>5
      <4>2. s[k - 1] = a[k - 2]
        BY <1>2, <4>1
      <4> QED BY <3>3, <3>5, <4>1, <4>2
    <3> QED BY <2>2, <3>4, <3>5
  <2>3. CASE k > Len(a) + 1
    <3> DEFINE j == k - (Len(a) + 1)
    <3>1. j \in 1 .. Len(b) /\ (Len(a) + 1) + j = k
      BY <1>1, <1>2, <2>3
    <3>2. s[k] = b[j]
      BY <1>2, <3>1
    <3>3. j > 1 /\ Head(b[j - 1].path.comps) = Head(b[j].path.comps)
      <4> HIDE DEF j
      <4> QED BY <1>3, <3>1, <3>2 DEF Followed
    <3>4. j - 1 \in 1 .. Len(b) /\ (Len(a) + 1) + (j - 1) = k - 1
      BY <1>1, <3>1, <3>3
    <3>5. s[k - 1] = b[j - 1]
      <4> HIDE DEF j
      <4> QED BY <1>2, <3>4
    <3> QED BY <1>1, <2>3, <3>2, <3>3, <3>5
  <2> QED BY <1>1, <1>2, <2>1, <2>2, <2>3
<1> QED BY <1>3 DEF Followed

\* The lines of all nodes but the root.
Inner(t) == {Line(t, m, PathOf(t, m)) : m \in Used(t) \ {ROOT}}

LEMMA InnerLines ==
    ASSUME NEW t, Good(t), Named(t)
    PROVE  /\ Inner(t) \subseteq FileLines
           /\ \A m \in Used(t) \ {ROOT} : /\ Line(t, m, PathOf(t, m)) \in FileLines
                                          /\ Line(t, m, PathOf(t, m)).path.comps = PathOf(t, m)
<1>1. ASSUME NEW m \in Used(t) \ {ROOT}
      PROVE  /\ Line(t, m, PathOf(t, m)) \in FileLines
             /\ Line(t, m, PathOf(t, m)).path.comps = PathOf(t, m)
  <2>1. t[m].type \in Types
    BY DEF Good, Typed, Used
  <2>2. PathOf(t, m) \in Seq(Names) \ {<<>>}
    BY PathNames
  <2> QED BY <2>1, <2>2 DEF Line, FileLines
<1> QED BY <1>1 DEF Inner

\* Child and sibling pointers do not lead to the root, and keep or enter a list.
LEMMA PointersInside ==
    ASSUME NEW t, Good(t), NEW m \in Used(t)
    PROVE  /\ t[m].child # NULL => t[m].child \in Used(t) \ {ROOT} /\ t[t[m].child].parent = m
           /\ t[m].sibling # NULL =>
                 t[m].sibling \in Used(t) \ {ROOT} /\ t[t[m].sibling].parent = t[m].parent
<1>1. Linked(t)
  BY DEF Good
<1>2. ASSUME t[m].child # NULL
      PROVE  t[m].child \in Used(t) \ {ROOT} /\ t[t[m].child].parent = m
  <2>1. t[m].child \in Used(t) /\ t[t[m].child].parent = m
    BY <1>1, <1>2 DEF Linked
  <2>2. t[m].child # ROOT
    BY <2>1, OnePointer
  <2> QED BY <2>1, <2>2
<1>3. ASSUME t[m].sibling # NULL
      PROVE  t[m].sibling \in Used(t) \ {ROOT} /\ t[t[m].sibling].parent = t[m].parent
  <2>1. t[m].sibling \in Used(t) /\ t[t[m].sibling].parent = t[m].parent
    BY <1>1, <1>3 DEF Linked
  <2>2. t[m].sibling # ROOT
    BY <2>1, OnePointer
  <2> QED BY <2>1, <2>2
<1> QED BY <1>2, <1>3

\* What is written for a node, all below it and those behind it in its list.
Written(t, s, m) ==
    /\ s \in Seq(Inner(t))
    /\ t[m].parent # ROOT => \A k \in 1 .. Len(s) : Head(s[k].path.comps) = Head(PathOf(t, m))
    /\ t[m].parent = ROOT => Followed(s)

LEMMA WrittenTogether ==
    ASSUME NEW t, Good(t), Named(t), NEW m \in Used(t) \ {ROOT}, NEW a, NEW b,
           IF t[m].child = NULL THEN a = <<>> ELSE Written(t, a, t[m].child),
           IF t[m].sibling = NULL THEN b = <<>> ELSE Written(t, b, t[m].sibling)
    PROVE  Written(t, (<<Line(t, m, PathOf(t, m))>> \o a) \o b, m)
<1> DEFINE l == Line(t, m, PathOf(t, m))
           c == t[m].child
           z == t[m].sibling
           h == Head(PathOf(t, m))
           s == (<<l>> \o a) \o b
<1>1. /\ c # NULL => c \in Used(t) \ {ROOT} /\ t[c].parent = m
      /\ z # NULL => z \in Used(t) \ {ROOT} /\ t[z].parent = t[m].parent
  BY PointersInside
<1>2. l \in Inner(t) /\ l \in FileLines /\ l.path.comps = PathOf(t, m) /\ Inner(t) \subseteq FileLines
  BY InnerLines DEF Inner
<1>3. a \in Seq(Inner(t)) /\ b \in Seq(Inner(t))
  <2>1. <<>> \in Seq(Inner(t))
    OBVIOUS
  <2> QED BY <2>1 DEF Written
<1>4. \A k \in 1 .. Len(a) : Head(a[k].path.comps) = h
  <2>1. CASE c = NULL
    BY <2>1
  <2>2. CASE c # NULL
    <3>1. c \in Used(t) \ {ROOT} /\ t[c].parent = m /\ t[c].parent # ROOT
      BY <1>1, <2>2
    <3>2. Head(PathOf(t, c)) = h
      <4> HIDE DEF c
      <4> QED BY <3>1, PathNames
    <3>3. Written(t, a, c)
      BY <2>2
    <3> HIDE DEF c, h
    <3> QED BY <3>1, <3>2, <3>3 DEF Written
  <2> QED BY <2>1, <2>2
<1>5. t[m].parent # ROOT => \A k \in 1 .. Len(b) : Head(b[k].path.comps) = h
  <2>0. SUFFICES ASSUME t[m].parent # ROOT PROVE \A k \in 1 .. Len(b) : Head(b[k].path.comps) = h
    OBVIOUS
  <2>1. CASE z = NULL
    BY <2>1
  <2>2. CASE z # NULL
    <3>1. z \in Used(t) \ {ROOT} /\ t[z].parent = t[m].parent
      BY <1>1, <2>2
    <3>2. Head(PathOf(t, z)) = h
      <4> HIDE DEF z
      <4>1. Head(PathOf(t, z)) = Head(PathOf(t, t[z].parent))
        BY <2>0, <3>1, PathNames
      <4>2. Head(PathOf(t, m)) = Head(PathOf(t, t[m].parent))
        BY <2>0, PathNames
      <4> QED BY <3>1, <4>1, <4>2
    <3>3. Written(t, b, z)
      BY <2>2
    <3> HIDE DEF z, h
    <3> QED BY <2>0, <3>1, <3>2, <3>3 DEF Written
  <2> QED BY <2>1, <2>2
<1>6. t[m].parent = ROOT => Followed(b)
  <2>1. CASE z = NULL
    BY <2>1 DEF Followed
  <2>2. CASE z # NULL
    <3>1. t[z].parent = t[m].parent /\ Written(t, b, z)
      BY <1>1, <2>2
    <3> HIDE DEF z
    <3> QED BY <3>1 DEF Written
  <2> QED BY <2>1, <2>2
<1> HIDE DEF l, c, z, h
<1>7. s \in Seq(Inner(t))
  <2>1. <<l>> \in Seq(Inner(t))
    BY <1>2
  <2>2. <<l>> \o a \in Seq(Inner(t))
    BY <1>3, <2>1, ConcatProperties
  <2> QED BY <1>3, <2>2, ConcatProperties
<1>8. ASSUME t[m].parent # ROOT PROVE \A k \in 1 .. Len(s) : Head(s[k].path.comps) = h
  <2>1. Len(a) \in Nat /\ Len(b) \in Nat
    BY <1>3
  <2>2. /\ Len(s) = (Len(a) + 1) + Len(b) /\ s[1] = l
        /\ \A k \in 1 .. Len(a) : s[k + 1] = a[k]
        /\ \A k \in 1 .. Len(b) : s[(Len(a) + 1) + k] = b[k]
    BY <1>2, <1>3
  <2>3. Head(l.path.comps) = h
    BY <1>2 DEF h
  <2>4. ASSUME NEW k \in 1 .. Len(s) PROVE Head(s[k].path.comps) = h
    <3> HIDE DEF s
    <3>1. CASE k = 1
      BY <2>2, <2>3, <3>1
    <3>2. CASE k \in 2 .. Len(a) + 1
      <4>1. k - 1 \in 1 .. Len(a) /\ (k - 1) + 1 = k
        BY <2>1, <3>2
      <4> QED BY <1>4, <2>2, <4>1
    <3>3. CASE k > Len(a) + 1
      <4> DEFINE j == k - (Len(a) + 1)
      <4>1. j \in 1 .. Len(b) /\ (Len(a) + 1) + j = k
        BY <2>1, <2>2, <3>3
      <4> HIDE DEF j
      <4> QED BY <1>5, <1>8, <2>2, <4>1
    <3> QED BY <2>1, <2>2, <3>1, <3>2, <3>3
  <2> QED BY <2>4
<1>9. ASSUME t[m].parent = ROOT PROVE Followed(s)
  <2>1. PathOf(t, m) = <<t[m].name>>
    BY <1>9, PathNames
  <2>2. Len(l.path.comps) = 1
    BY <1>2, <2>1
  <2>3. a \in Seq(FileLines) /\ b \in Seq(FileLines)
    BY <1>2, <1>3
  <2>4. \A k \in 1 .. Len(a) : Head(a[k].path.comps) = Head(l.path.comps)
    BY <1>2, <1>4 DEF h
  <2> QED BY <1>2, <1>6, <1>9, <2>2, <2>3, <2>4, FollowedTogether
<1> HIDE DEF s
<1>10. Written(t, s, m)
  BY <1>7, <1>8, <1>9 DEF Written, h
<1> QED BY <1>10 DEF s, l

\* What saveHelp() makes of it.
LEMMA SavedWritten ==
    ASSUME NEW t, Good(t), Named(t), NEW below, below[NULL] = <<>>,
           \A m \in Nodes :
              below[m] = <<Line(t, m, PathOf(t, m))>> \o below[t[m].child] \o below[t[m].sibling]
    PROVE  \A m \in Used(t) \ {ROOT} : Written(t, below[m], m)
<1>0. PICK M \in Nat : \E r \in Orders(M) : Ranked(t, r)
  BY DEF Good
<1>1. PICK r \in Orders(M) : Ranked(t, r)
  BY <1>0
<1>2. \A m \in Used(t) : r[m] \in 0 .. M
  BY DEF Orders, Used
<1> DEFINE U == {d \in Nat : \A m \in Used(t) \ {ROOT} : r[m] + d > M => Written(t, below[m], m)}
<1>3. 0 \in U
  BY <1>2
<1>4. ASSUME NEW d \in Nat, d \in U PROVE d + 1 \in U
  <2>1. ASSUME NEW m \in Used(t) \ {ROOT}, r[m] + (d + 1) > M PROVE Written(t, below[m], m)
    <3> DEFINE c == t[m].child
               z == t[m].sibling
    <3>1. /\ c # NULL => c \in Used(t) \ {ROOT} /\ r[m] < r[c]
          /\ z # NULL => z \in Used(t) \ {ROOT} /\ r[m] < r[z]
      BY <1>1, PointersInside DEF Ranked
    <3>2. \A n \in Used(t) : r[n] \in Nat /\ r[m] \in Nat
      BY <1>2
    <3> HIDE DEF c, z
    <3>3. c # NULL => Written(t, below[c], c)
      <4>1. c # NULL => r[c] + d > M
        BY <2>1, <3>1, <3>2
      <4> QED BY <1>4, <3>1, <4>1
    <3>4. z # NULL => Written(t, below[z], z)
      <4>1. z # NULL => r[z] + d > M
        BY <2>1, <3>1, <3>2
      <4> QED BY <1>4, <3>1, <4>1
    <3>5. /\ IF c = NULL THEN below[c] = <<>> ELSE Written(t, below[c], c)
          /\ IF z = NULL THEN below[z] = <<>> ELSE Written(t, below[z], z)
      BY <3>3, <3>4
    <3>6. Written(t, (<<Line(t, m, PathOf(t, m))>> \o below[c]) \o below[z], m)
      <4>1. /\ IF t[m].child = NULL THEN below[c] = <<>> ELSE Written(t, below[c], t[m].child)
            /\ IF t[m].sibling = NULL THEN below[z] = <<>> ELSE Written(t, below[z], t[m].sibling)
        BY <3>5 DEF c, z
      <4> QED BY <4>1, WrittenTogether
    <3>7. below[m] = (<<Line(t, m, PathOf(t, m))>> \o below[c]) \o below[z]
      BY DEF c, z, Used
    <3> QED BY <3>6, <3>7
  <2> QED BY <2>1
<1>5. M + 1 \in U
  <2> HIDE DEF U
  <2> QED BY <1>3, <1>4, SetInduction
<1> QED BY <1>2, <1>5

\* A file as save leaves it.  If no pathname is in it twice there is a node for each line.
Saved(f) ==
    /\ f \in Seq(FileLines) /\ Followed(f)
    /\ IsInjective([k \in DOMAIN f |-> f[k].path]) => Len(f) < NNODE

LEMMA SavedSaved ==
    ASSUME NEW t, Good(t), Named(t)
    PROVE  Saved(saveHelp(t, ROOT))
<1>1. PICK below : /\ saveHelp(t, ROOT) = below[t[ROOT].child]
                   /\ below[NULL] = <<>>
                   /\ \A m \in Nodes :
                         below[m] = <<Line(t, m, PathOf(t, m))>> \o below[t[m].child] \o below[t[m].sibling]
  BY SaveRecursion
<1>2. \A m \in Used(t) \ {ROOT} : Written(t, below[m], m)
  BY <1>1, SavedWritten
<1> DEFINE f == saveHelp(t, ROOT)
           c == t[ROOT].child
<1>3. ROOT \in Used(t)
  BY DEF Good, Linked
<1>4. f \in Seq(Inner(t)) /\ Followed(f)
  <2>1. CASE c = NULL
    <3>1. f = <<>>
      BY <1>1, <2>1
    <3> HIDE DEF f
    <3> QED BY <3>1 DEF Followed
  <2>2. CASE c # NULL
    <3>1. c \in Used(t) \ {ROOT} /\ t[c].parent = ROOT
      BY <1>3, <2>2, PointersInside
    <3>2. Written(t, f, c)
      BY <1>1, <1>2, <3>1
    <3> HIDE DEF f, c
    <3> QED BY <3>1, <3>2 DEF Written
  <2> QED BY <2>1, <2>2
<1>5. f \in Seq(FileLines)
  BY <1>4, InnerLines
<1> HIDE DEF f
<1>6. ASSUME IsInjective([k \in DOMAIN f |-> f[k].path]) PROVE Len(f) < NNODE
  <2> DEFINE K == 1 .. Len(f)
             R == Used(t) \ {ROOT}
             g == [k \in K |-> CHOOSE m \in R : f[k] = Line(t, m, PathOf(t, m))]
  <2>1. Len(f) \in Nat /\ DOMAIN f = K
    BY <1>4
  <2>2. ASSUME NEW k \in K PROVE g[k] \in R /\ f[k] = Line(t, g[k], PathOf(t, g[k]))
    <3>1. f[k] \in Inner(t)
      BY <1>4
    <3>2. \E m \in R : f[k] = Line(t, m, PathOf(t, m))
      BY <3>1 DEF Inner
    <3>3. g[k] = CHOOSE m \in R : f[k] = Line(t, m, PathOf(t, m))
      OBVIOUS
    <3> HIDE DEF g, R
    <3> QED BY <3>2, <3>3
  <2>3. ASSUME NEW j \in K, NEW k \in K, g[j] = g[k] PROVE j = k
    <3>1. f[j] = f[k]
      <4> HIDE DEF g
      <4> QED BY <2>2, <2>3
    <3> HIDE DEF g, K
    <3> QED BY <1>6, <2>1, <2>3, <3>1 DEF IsInjective
  <2>4. IsFiniteSet(R) /\ Cardinality(R) < NNODE
    <3>1. R \subseteq Nodes \ {ROOT}
      BY DEF Used
    <3>2. IsFiniteSet(Nodes \ {ROOT}) /\ Cardinality(Nodes \ {ROOT}) = NNODE - 1
      BY PlacesFinite, Numbering, FS_RemoveElement
    <3> HIDE DEF R
    <3>3. IsFiniteSet(R) /\ Cardinality(R) <= Cardinality(Nodes \ {ROOT}) /\ Cardinality(R) \in Nat
      BY <3>1, <3>2, FS_Subset, FS_CardinalityType
    <3> QED BY <3>2, <3>3, Numbering
  <2>5. g \in Injection(K, R)
    <3>1. g \in [K -> R]
      <4>1. g = [k \in K |-> g[k]]
        OBVIOUS
      <4> HIDE DEF g, R
      <4> QED BY <2>2, <4>1
    <3> HIDE DEF g, R, K
    <3> QED BY <2>3, <3>1 DEF Injection, IsInjective
  <2>6. IsFiniteSet(K) /\ Cardinality(K) = Len(f)
    <3> DEFINE N == Len(f)
    <3>1. N \in Nat
      BY <2>1
    <3> HIDE DEF N
    <3>2. IsFiniteSet(1 .. N) /\ Cardinality(1 .. N) = IF 1 > N THEN 0 ELSE N - 1 + 1
      BY <3>1, FS_Interval
    <3>3. IsFiniteSet(1 .. N) /\ Cardinality(1 .. N) = N
      BY <3>1, <3>2
    <3> QED BY <3>3 DEF N
  <2> HIDE DEF g, R, K
  <2>7. Cardinality(K) <= Cardinality(R)
    BY <2>4, <2>5, <2>6, FS_Injection
  <2> QED BY <2>1, <2>4, <2>6, <2>7, Numbering, FS_CardinalityType
<1> QED BY <1>4, <1>5, <1>6 DEF Saved, f

-----------------------------------------------------------------------------
(* Lines of one name and of two.                                           *)

LEMMA OneBuffer ==
    ASSUME NEW a \in Names
    PROVE  Buffers(<<a>>) = <<a>>
<1> DEFINE comps == <<a>>
           B == Buffers(comps)
<1>1. comps \in Seq(Names) /\ Len(comps) = 1 /\ comps[1] = a
  OBVIOUS
<1> HIDE DEF comps
<1>2. B \in Seq(Names) /\ Len(B) = 1
  BY <1>1, BuffersNames
<1>3. PICK b : /\ b[0] = <<>>
               /\ \A k \in 1 .. Len(comps) : b[k] = Over(b[k - 1], comps[k])
               /\ \A k \in 1 .. Len(comps) : B[k] = b[k]
  BY <1>1, BuffersRecursion
<1>4. B[1] = Over(<<>>, a)
  <2>1. 1 \in 1 .. Len(comps) /\ 1 - 1 = 0
    BY <1>1
  <2> QED BY <1>1, <1>3, <2>1
<1>5. Over(<<>>, a) = a
  <2>1. <<>> \in Names /\ Len(<<>>) <= Len(a)
    BY DEF Names
  <2> QED BY <2>1, OverLonger
<1> HIDE DEF B
<1>6. B = <<a>>
  BY <1>2, <1>4, <1>5
<1> QED BY <1>6 DEF B, comps

LEMMA TwoBuffers ==
    ASSUME NEW a \in Names, NEW b \in Names, Len(a) <= Len(b)
    PROVE  Buffers(<<a, b>>) = <<a, b>>
<1> DEFINE comps == <<a, b>>
           B == Buffers(comps)
<1>1. comps \in Seq(Names) /\ Len(comps) = 2 /\ comps[1] = a /\ comps[2] = b
  OBVIOUS
<1> HIDE DEF comps
<1>2. B \in Seq(Names) /\ Len(B) = 2
  BY <1>1, BuffersNames
<1>3. PICK f : /\ f[0] = <<>>
               /\ \A k \in 1 .. Len(comps) : f[k] = Over(f[k - 1], comps[k])
               /\ \A k \in 1 .. Len(comps) : B[k] = f[k]
  BY <1>1, BuffersRecursion
<1>4. B[1] = Over(<<>>, a) /\ B[2] = Over(B[1], b)
  <2>1. 1 \in 1 .. Len(comps) /\ 1 - 1 = 0 /\ 2 \in 1 .. Len(comps) /\ 2 - 1 = 1
    BY <1>1
  <2>2. f[1] = Over(f[0], a) /\ f[2] = Over(f[1], b) /\ B[1] = f[1] /\ B[2] = f[2]
    <3>1. f[1] = Over(f[1 - 1], comps[1]) /\ f[2] = Over(f[2 - 1], comps[2])
      BY <1>3, <2>1
    <3> QED BY <1>1, <1>3, <2>1, <3>1
  <2> QED BY <1>3, <2>2
<1>5. Over(<<>>, a) = a
  <2>1. <<>> \in Names /\ Len(<<>>) <= Len(a)
    BY DEF Names
  <2> QED BY <2>1, OverLonger
<1>6. B[1] = a /\ B[2] = b
  BY <1>4, <1>5, OverLonger
<1> HIDE DEF B
<1>7. B = <<a, b>>
  BY <1>2, <1>6
<1> QED BY <1>7 DEF B, comps

LEMMA FlattenOne ==
    ASSUME NEW a
    PROVE  FlattenSeq(<<a>>) = a
<1> DEFINE s == <<a>>
           Body(g, i) == IF i = 1 THEN s[i] ELSE g[i - 1] \o s[i]
           flatten == CHOOSE g : g = [i \in 1 .. Len(s) |-> Body(g, i)]
<1>1. Len(s) = 1 /\ s[1] = a
  OBVIOUS
<1>2. FlattenSeq(s) = flatten[1]
  BY <1>1 DEF FlattenSeq
<1> HIDE DEF s
<1>3. flatten = [i \in 1 .. Len(s) |-> Body(flatten, i)]
  <2> DEFINE g == [i \in 1 .. Len(s) |-> a]
  <2>1. g = [i \in 1 .. Len(s) |-> Body(g, i)]
    BY <1>1
  <2> HIDE DEF g, Body
  <2> QED BY <2>1
<1> HIDE DEF flatten
<1>4. flatten[1] = a
  BY <1>1, <1>3
<1> QED BY <1>2, <1>4 DEF s

\* A pathname of one name leads to a child of the current directory.
LEMMA GotoChild ==
    ASSUME NEW t, NEW c, c \notin {NULL, CRASH}, NEW a \in Names
    PROVE  goto_path(t, c, [abs |-> FALSE, comps |-> <<a>>]) = search_child(t, c, a)
<1> DEFINE path == [abs |-> FALSE, comps |-> <<a>>]
           buffers == IF path.comps = <<>> THEN <<<<>>>> ELSE Buffers(path.comps)
           K == Len(buffers)
           Body(g, k) == IF k = 0 THEN IF path.abs THEN NULL ELSE c
                         ELSE IF g[k - 1] \in {NULL, CRASH} THEN CRASH
                         ELSE search_child(t, g[k - 1], buffers[k])
           at == CHOOSE g : g = [k \in 0 .. K |-> Body(g, k)]
<1>1. goto_path(t, c, path) = at[K]
  BY DEF goto_path
<1>2. path.abs = FALSE /\ buffers = <<a>>
  <2>1. path.comps = <<a>> /\ <<a>> # <<>>
    OBVIOUS
  <2> QED BY <2>1, OneBuffer
<1> HIDE DEF path
<1>3. K = 1 /\ buffers[1] = a
  BY <1>2
<1> HIDE DEF buffers
<1>4. at = [k \in 0 .. K |-> Body(at, k)]
  <2> DEFINE g == [k \in 0 .. K |-> IF k = 0 THEN c ELSE search_child(t, c, a)]
  <2>1. ASSUME NEW k \in 0 .. K PROVE g[k] = Body(g, k)
    <3>1. g[0] = c
      BY <1>3
    <3>2. k = 1 => g[k] = search_child(t, c, a)
      BY <1>3
    <3>3. k = 0 \/ (k = 1 /\ k - 1 = 0)
      BY <1>3
    <3> HIDE DEF g
    <3> QED BY <1>2, <1>3, <3>1, <3>2, <3>3
  <2>2. g = [k \in 0 .. K |-> g[k]]
    OBVIOUS
  <2> HIDE DEF g, Body
  <2>3. g = [k \in 0 .. K |-> Body(g, k)]
    BY <2>1, <2>2
  <2> QED BY <2>3
<1> HIDE DEF at
<1>5. at[0] = c
  BY <1>2, <1>3, <1>4
<1>6. at[1] = search_child(t, c, a)
  <2>1. at[1] = Body(at, 1)
    <3> HIDE DEF Body
    <3> QED BY <1>3, <1>4
  <2> QED BY <1>3, <1>5, <2>1
<1> QED BY <1>1, <1>3, <1>6 DEF path

\* A line of one name is made under the root, a line of two under a child of the root.
LEMMA LineUnder ==
    ASSUME NEW t, ROOT \in Used(t), NEW l \in FileLines,
           Len(l.path.comps) <= 2, Len(Head(l.path.comps)) <= Len(Last(l.path.comps))
    PROVE  \/ /\ l.path.comps = <<Last(l.path.comps)>> /\ Under(t, ROOT, l.path) = ROOT
              /\ Last(Buffers(l.path.comps)) = Last(l.path.comps)
           \/ /\ l.path.comps = <<Head(l.path.comps), Last(l.path.comps)>>
              /\ Under(t, ROOT, l.path) = search_child(t, ROOT, Head(l.path.comps))
              /\ Last(Buffers(l.path.comps)) = Last(l.path.comps)
<1> DEFINE s == l.path.comps
<1>1. s \in Seq(Names) /\ s # <<>> /\ l.path.abs = TRUE
  BY DEF FileLines
<1>2. ROOT \notin {NULL, CRASH}
  BY DEF ROOT, NULL, CRASH
<1>3. Under(t, ROOT, l.path) = IF Front(Buffers(s)) = <<>> THEN IF l.path.abs THEN ROOT ELSE ROOT
         ELSE goto_path(t, ROOT, [abs |-> FALSE, comps |-> <<FlattenSeq(Front(Buffers(s)))>>])
  BY DEF Under
<1>a. Len(s) <= 2 /\ Len(Head(s)) <= Len(Last(s))
  OBVIOUS
<1> HIDE DEF s
<1>4. Len(s) \in {1, 2}
  <2> DEFINE n == Len(s)
  <2>1. n \in Nat /\ n # 0
    BY <1>1
  <2>2. n <= 2
    BY <1>a
  <2> HIDE DEF n
  <2>3. n \in {1, 2}
    BY <2>1, <2>2
  <2> QED BY <2>3 DEF n
<1>5. CASE Len(s) = 1
  <2> DEFINE a == s[1]
  <2>1. a \in Names /\ s = <<a>> /\ Last(s) = a
    BY <1>1, <1>5 DEF Last
  <2> HIDE DEF a
  <2>2. Buffers(s) = <<a>>
    BY <2>1, OneBuffer
  <2>3. Front(<<a>>) = <<>> /\ Last(<<a>>) = a
    BY DEF Front, Last
  <2> QED BY <1>3, <2>1, <2>2, <2>3 DEF s
<1>6. CASE Len(s) = 2
  <2> DEFINE a == s[1]
             b == s[2]
  <2>0. a \in Names /\ b \in Names
    <3>1. s \in Seq(Names) /\ 1 \in 1 .. Len(s) /\ 2 \in 1 .. Len(s)
      BY <1>1, <1>6
    <3>2. s[1] \in Names
      BY <3>1, ElementOfSeq
    <3>3. s[2] \in Names
      BY <3>1, ElementOfSeq
    <3> QED BY <3>2, <3>3
  <2>1. s = <<a, b>> /\ Last(s) = b /\ Head(s) = a
    <3>1. ASSUME NEW S, NEW v \in Seq(S), Len(v) = 2 PROVE v = <<v[1], v[2]>>
      BY <3>1
    <3>2. s = <<a, b>>
      BY <1>1, <1>6, <3>1
    <3>3. Last(s) = b
      BY <1>6 DEF Last
    <3>4. Head(s) = a
      BY <1>1
    <3> QED BY <3>2, <3>3, <3>4
  <2> HIDE DEF a, b
  <2>2. Buffers(s) = <<a, b>>
    BY <1>a, <2>0, <2>1, TwoBuffers
  <2>3. Front(<<a, b>>) = <<a>> /\ Last(<<a, b>>) = b /\ <<a>> # <<>>
    <3> DEFINE w == <<a, b>>
               v == SubSeq(w, 1, 1)
    <3>1. w \in Seq({a, b}) /\ Len(w) = 2 /\ w[1] = a /\ w[2] = b
      OBVIOUS
    <3> HIDE DEF w
    <3>2. v \in Seq({a, b}) /\ Len(v) = 1 /\ v[1] = a
      BY <3>1
    <3>3. Front(w) = v /\ Last(w) = b
      BY <3>1 DEF Front, Last
    <3> HIDE DEF v
    <3>4. v = <<a>>
      BY <3>2
    <3> QED BY <3>3, <3>4 DEF w
  <2>4. Under(t, ROOT, l.path) = goto_path(t, ROOT, [abs |-> FALSE, comps |-> <<a>>])
    BY <1>3, <2>2, <2>3, FlattenOne
  <2>5. Under(t, ROOT, l.path) = search_child(t, ROOT, a)
    BY <1>2, <2>0, <2>4, GotoChild
  <2> QED BY <2>1, <2>2, <2>3, <2>5 DEF s
<1> QED BY <1>4, <1>5, <1>6

-----------------------------------------------------------------------------
(* What reload makes line by line.                                         *)

\* The tree after k lines of f: the root and a node for each line, and the last child of
\* the root has the name that line k begins with.
Restored(t, f, k) ==
    /\ Good(t) /\ Named(t) /\ Cardinality(Used(t)) = k + 1
    /\ saveHelp(t, ROOT) = SubSeq(f, 1, k)
    /\ \A n \in Used(t) \ {ROOT} : \E j \in 1 .. k : PathOf(t, n) = f[j].path.comps
    /\ \A n, m \in Used(t) : PathOf(t, n) = PathOf(t, m) => n = m
    /\ k > 0 => \E p \in Used(t) \ {ROOT} : /\ t[p].parent = ROOT /\ t[p].sibling = NULL
                                            /\ t[p].name = Head(f[k].path.comps)

\* The child of the root that the line before was about is found.
LEMMA LastChildFound ==
    ASSUME NEW t, NEW f, NEW k \in Nat, k > 0, Restored(t, f, k)
    PROVE  LET p == search_child(t, ROOT, Head(f[k].path.comps))
           IN  /\ p \in Used(t) \ {ROOT} /\ t[p].parent = ROOT /\ t[p].sibling = NULL
               /\ PathOf(t, p) = <<Head(f[k].path.comps)>>
<1> DEFINE a == Head(f[k].path.comps)
<1>1. PICK p \in Used(t) \ {ROOT} : t[p].parent = ROOT /\ t[p].sibling = NULL /\ t[p].name = a
  BY DEF Restored
<1>2. Good(t) /\ Named(t) /\ ROOT \in Used(t)
  BY DEF Restored, Good, Linked
<1> HIDE DEF a
<1> DEFINE list == List(t, ROOT)
           hits == {i \in DOMAIN list : t[list[i]].name = a}
           least == CHOOSE i \in hits : \A j \in hits : i <= j
<1>3. search_child(t, ROOT, a) = IF hits = {} THEN NULL ELSE list[least]
  BY DEF search_child
<1>4. PICK M \in Nat : \E r \in Orders(M) : Ranked(t, r)
  BY <1>2 DEF Good
<1>5. PICK r \in Orders(M) : Ranked(t, r)
  BY <1>4
<1>6. list \in Seq(Used(t)) /\ \A i \in 1 .. Len(list) : t[list[i]].parent = ROOT /\ r[ROOT] < r[list[i]]
  <2> HIDE DEF Orders
  <2> QED BY <1>2, <1>5, ListOfChildren
<1>7. p \in ToSet(list)
  BY <1>1, <1>2, InList
<1> HIDE DEF list
<1>8. hits # {} /\ hits \subseteq Nat /\ hits \subseteq 1 .. Len(list)
  <2>1. PICK i \in DOMAIN list : list[i] = p
    BY <1>7 DEF ToSet
  <2>2. DOMAIN list = 1 .. Len(list)
    BY <1>6
  <2> QED BY <1>1, <2>1, <2>2
<1>9. least \in hits
  <2> HIDE DEF hits
  <2> QED BY <1>8, LeastNumber
<1> DEFINE n == list[least]
<1>10. n \in Used(t) /\ t[n].name = a /\ t[n].parent = ROOT /\ r[ROOT] < r[n]
  <2>1. least \in 1 .. Len(list) /\ t[list[least]].name = a
    BY <1>8, <1>9
  <2> HIDE DEF least, hits
  <2> QED BY <1>6, <2>1
<1>11. search_child(t, ROOT, a) = n
  <2> HIDE DEF hits, least
  <2> QED BY <1>3, <1>8
<1> HIDE DEF n
<1>12. n # ROOT
  <2>1. r[ROOT] \in Nat
    BY <1>2 DEF Orders, Used
  <2> QED BY <1>10, <2>1
<1>13. PathOf(t, n) = <<a>> /\ PathOf(t, p) = <<a>>
  BY <1>1, <1>2, <1>10, <1>12, PathNames
<1>14. n = p
  BY <1>1, <1>10, <1>13 DEF Restored
<1> QED BY <1>1, <1>11, <1>13, <1>14 DEF a

\* One element at the end.
LEMMA OneMoreAtEnd ==
    ASSUME NEW L, NEW l \in L, NEW s, NEW s2, OneMore(L, TRUE, l, s, s2)
    PROVE  s2 = Append(s, l)
<1>1. PICK a \in Seq(L), b \in Seq(L) : s = a \o b /\ s2 = (a \o <<l>>) \o b /\ b = <<>>
  BY DEF OneMore
<1>2. a \o <<>> = a
  BY ConcatEmptySeq
<1> DEFINE w == a \o <<l>>
<1>3. w \in Seq(L) /\ w = Append(a, l)
  OBVIOUS
<1> HIDE DEF w
<1>4. w \o <<>> = w
  BY <1>3, ConcatEmptySeq
<1>5. s = a /\ s2 = w
  BY <1>1, <1>2, <1>4 DEF w
<1> QED BY <1>3, <1>5

\* The next line makes the node it was written for.
LEMMA LineRestored ==
    ASSUME NEW f, Saved(f), Plain(f), NEW k \in Nat, k < Len(f), NEW t, Restored(t, f, k)
    PROVE  /\ Restored(makeFile(t, ROOT, f[k + 1].path, f[k + 1].type), f, k + 1)
           /\ makeFile(t, ROOT, f[k + 1].path, f[k + 1].type) # Crashed
<1> DEFINE l == f[k + 1]
           s == l.path.comps
           name == Last(s)
           type == l.type
           u == makeFile(t, ROOT, l.path, type)
<1>0. f \in Seq(FileLines) /\ Len(f) \in Nat /\ k + 1 \in 1 .. Len(f) /\ DOMAIN f = 1 .. Len(f)
  <2>1. f \in Seq(FileLines)
    BY DEF Saved
  <2>2. Len(f) \in Nat /\ DOMAIN f = 1 .. Len(f)
    BY <2>1
  <2> QED BY <2>1, <2>2
<1>1. l \in FileLines /\ Len(s) <= 2 /\ Len(Head(s)) <= Len(Last(s))
  <2>1. l \in FileLines
    BY <1>0
  <2>2. Len(s) <= 2 /\ Len(Head(s)) <= Len(Last(s))
    <3>1. \A i \in DOMAIN f : LET comps == f[i].path.comps
                              IN  Len(comps) <= 2 /\ Len(Head(comps)) <= Len(Last(comps))
      BY DEF Plain
    <3> QED BY <1>0, <3>1
  <2> QED BY <2>1, <2>2
<1>2. Good(t) /\ Named(t) /\ ROOT \in Used(t) /\ t[ROOT].parent = ROOT /\ t[ROOT].sibling = NULL
  BY DEF Restored, Good, Linked
<1>3. s \in Seq(Names) /\ s # <<>> /\ type \in Types /\ l = [type |-> type, path |-> [abs |-> TRUE, comps |-> s]]
  <2> HIDE DEF l
  <2> QED BY <1>1 DEF FileLines
<1>4. PathOf(t, ROOT) = <<>>
  BY <1>2, PathNames
<1> DEFINE parent == Under(t, ROOT, l.path)
<1>5. /\ parent \in Used(t) /\ t[parent].sibling = NULL /\ t[parent].parent = ROOT
      /\ Last(Buffers(s)) = name /\ Append(PathOf(t, parent), name) = s
      /\ parent = ROOT \/ (k > 0 /\ parent # ROOT /\ Head(s) = Head(f[k].path.comps))
      /\ parent = ROOT => s = <<name>>
  <2>0. \/ s = <<Last(s)>> /\ parent = ROOT /\ Last(Buffers(s)) = Last(s)
        \/ /\ s = <<Head(s), Last(s)>> /\ parent = search_child(t, ROOT, Head(s))
           /\ Last(Buffers(s)) = Last(s)
    <3> HIDE DEF l
    <3> QED BY <1>1, <1>2, LineUnder
  <2> HIDE DEF parent, s
  <2>1. CASE s = <<Last(s)>> /\ parent = ROOT /\ Last(Buffers(s)) = Last(s)
    <3>1. Append(<<>>, name) = <<name>>
      OBVIOUS
    <3> QED BY <1>2, <1>4, <2>1, <3>1
  <2>2. CASE /\ s = <<Head(s), Last(s)>> /\ parent = search_child(t, ROOT, Head(s))
             /\ Last(Buffers(s)) = Last(s)
    <3> DEFINE a == Head(s)
               b == Last(s)
    <3> HIDE DEF a, b
    <3>1. s = <<a, b>>
      BY <2>2 DEF a, b
    <3>2. Len(s) > 1
      BY <3>1
    <3>3. k + 1 > 1 /\ Head(f[(k + 1) - 1].path.comps) = Head(s)
      BY <1>0, <3>2 DEF Saved, Followed, s
    <3>4. k > 0 /\ (k + 1) - 1 = k
      BY <3>3
    <3>5. Head(f[k].path.comps) = a
      BY <3>3, <3>4 DEF a
    <3>6. /\ parent \in Used(t) \ {ROOT} /\ t[parent].parent = ROOT /\ t[parent].sibling = NULL
          /\ PathOf(t, parent) = <<a>>
      BY <2>2, <3>4, <3>5, LastChildFound DEF a
    <3>7. Append(<<a>>, b) = <<a, b>>
      <4> DEFINE w == <<a>>
                 v == Append(w, b)
      <4>1. w \in Seq({a, b}) /\ Len(w) = 1 /\ w[1] = a
        OBVIOUS
      <4> HIDE DEF w
      <4>2. v \in Seq({a, b}) /\ Len(v) = 2 /\ v[1] = a /\ v[2] = b
        <5> DEFINE S == {a, b}
        <5>1. w \in Seq(S) /\ b \in S /\ Len(w) = 1 /\ w[1] = a
          BY <4>1
        <5> HIDE DEF S
        <5>2. /\ v \in Seq(S) /\ Len(v) = Len(w) + 1
              /\ \A i \in 1 .. Len(w) : v[i] = w[i]
              /\ v[Len(w) + 1] = b
          BY <5>1, AppendProperties
        <5>3. 1 \in 1 .. Len(w) /\ Len(w) + 1 = 2
          BY <5>1
        <5> HIDE DEF v
        <5>4. v \in Seq(S) /\ Len(v) = 2 /\ v[1] = a /\ v[2] = b
          BY <5>1, <5>2, <5>3
        <5> QED BY <5>4 DEF S
      <4> HIDE DEF v
      <4>3. v = <<a, b>>
        BY <4>2
      <4> QED BY <4>3 DEF v, w
    <3>8. Append(PathOf(t, parent), name) = s
      BY <3>1, <3>6, <3>7 DEF b
    <3> QED BY <2>2, <3>4, <3>5, <3>6, <3>8 DEF a
  <2> QED BY <2>0, <2>1, <2>2
<1>6. u = insert_child(t, parent, name, type)
  <2>1. parent \notin {NULL, CRASH}
    BY <1>5, Numbering DEF Used
  <2>2. u = IF parent \in {NULL, CRASH} THEN Crashed
            ELSE insert_child(t, parent, Last(Buffers(s)), type)
    BY DEF makeFile
  <2> HIDE DEF parent, u, name, type, s
  <2> QED BY <1>5, <2>1, <2>2
<1> HIDE DEF parent, u, name, type, s, l
<1>7. Used(t) # Nodes
  <2>1. Len(f) < NNODE
    BY DEF Saved, Plain
  <2>2. Cardinality(Used(t)) = k + 1
    BY DEF Restored
  <2> QED BY <1>0, <2>1, <2>2, Numbering, PlacesFinite
<1>8. \E q \in Nodes \ Used(t), x \in Used(t) : Attached(t, u, q, x, name, type, parent)
  BY <1>2, <1>3, <1>5, <1>6, <1>7, InsertAttaches
<1>9. PICK q \in Nodes \ Used(t), x \in Used(t) : Attached(t, u, q, x, name, type, parent)
  BY <1>8
<1>10. Good(u) /\ Used(u) = Used(t) \cup {q}
  BY <1>2, <1>3, <1>5, <1>9, AttachKeeps
<1>11. /\ u[q].type = type /\ u[q].name = name /\ u[q].parent = parent /\ u[q].sibling = NULL
       /\ \A n \in Used(t) : u[n].name = t[n].name /\ u[n].parent = t[n].parent
  <2>1. u[q] = NODE(name, type, parent)
    BY <1>9 DEF Attached
  <2>2. u[q].type = type /\ u[q].name = name /\ u[q].parent = parent /\ u[q].sibling = NULL
    BY <2>1 DEF NODE
  <2>3. ASSUME NEW n \in Used(t) PROVE u[n].name = t[n].name /\ u[n].parent = t[n].parent
    <3>1. n \in Nodes \ {q}
      BY DEF Used
    <3> QED BY <1>9, <3>1 DEF Attached
  <2> QED BY <2>2, <2>3
<1>12. \A n \in Used(t) : PathOf(u, n) = PathOf(t, n)
  <2>1. ASSUME NEW n \in Used(t) PROVE PathOf(u, n) = PathOf(t, n)
    <3>1. Line(u, n, PathOf(u, n)) = Line(t, n, PathOf(t, n))
      BY <1>2, <1>3, <1>5, <1>9, SameLines
    <3>2. /\ Line(u, n, PathOf(u, n)).path.comps = PathOf(u, n)
          /\ Line(t, n, PathOf(t, n)).path.comps = PathOf(t, n)
      BY DEF Line
    <3> QED BY <3>1, <3>2
  <2> QED BY <2>1
<1>13. q # ROOT /\ PathOf(u, q) = s
  <2>1. PathOf(u, q) = Append(PathOf(u, u[q].parent), u[q].name)
    BY <1>2, <1>10, PathRecursion
  <2> QED BY <1>2, <1>5, <1>11, <1>12, <2>1
<1>14. Line(u, q, PathOf(u, q)) = l
  BY <1>3, <1>11, <1>13 DEF Line
<1>15. saveHelp(u, ROOT) = Append(saveHelp(t, ROOT), l)
  <2> DEFINE end == TRUE
  <2>1. end \in BOOLEAN /\ (end => t[parent].sibling = NULL /\ t[parent].parent = ROOT)
    BY <1>5
  <2> HIDE DEF end
  <2>2. OneMore(Lines(u), end, Line(u, q, PathOf(u, q)), saveHelp(t, ROOT), saveHelp(u, ROOT))
    BY <1>2, <1>3, <1>5, <1>9, <2>1, OneLineMore
  <2>3. l \in Lines(u)
    BY <1>10, <1>14 DEF Lines
  <2>4. OneMore(Lines(u), TRUE, l, saveHelp(t, ROOT), saveHelp(u, ROOT))
    BY <1>14, <2>2 DEF end
  <2> QED BY <2>3, <2>4, OneMoreAtEnd
<1>16. saveHelp(u, ROOT) = SubSeq(f, 1, k + 1)
  <2>1. saveHelp(u, ROOT) = Append(SubSeq(f, 1, k), l)
    BY <1>15 DEF Restored
  <2>2. Append(SubSeq(f, 1, k), f[k + 1]) = SubSeq(f, 1, k + 1)
    BY <1>0
  <2> QED BY <2>1, <2>2 DEF l
<1>17. Cardinality(Used(u)) = (k + 1) + 1
  <2>1. IsFiniteSet(Used(t))
    <3>1. Used(t) \subseteq Nodes
      BY DEF Used
    <3> QED BY <3>1, PlacesFinite, FS_Subset
  <2>2. Cardinality(Used(t) \cup {q}) = Cardinality(Used(t)) + 1
    BY <2>1, FS_AddElement
  <2> QED BY <1>10, <2>2 DEF Restored
<1>18. Named(u)
  <2>1. name \in Names
    <3>1. Len(s) \in 1 .. Len(s)
      BY <1>3
    <3> QED BY <1>3, <3>1, ElementOfSeq DEF name, Last
  <2> QED BY <1>2, <1>10, <1>11, <2>1 DEF Named
<1>19. ASSUME NEW n \in Used(u) \ {ROOT} PROVE \E j \in 1 .. k + 1 : PathOf(u, n) = f[j].path.comps
  <2>1. CASE n = q
    <3>1. PathOf(u, n) = f[k + 1].path.comps
      BY <1>13, <2>1 DEF s, l
    <3>2. k + 1 \in 1 .. k + 1
      OBVIOUS
    <3> QED BY <3>1, <3>2
  <2>2. CASE n \in Used(t)
    <3>1. PICK j \in 1 .. k : PathOf(t, n) = f[j].path.comps
      BY <1>19, <2>2 DEF Restored
    <3>2. j \in 1 .. k + 1
      OBVIOUS
    <3> QED BY <1>12, <2>2, <3>1, <3>2
  <2> QED BY <1>10, <2>1, <2>2
<1>20. ASSUME NEW n \in Used(t) PROVE PathOf(u, n) # s
  <2>1. CASE n = ROOT
    BY <1>3, <1>4, <1>12, <2>1
  <2>2. CASE n # ROOT
    <3>1. PICK j \in 1 .. k : PathOf(t, n) = f[j].path.comps
      BY <2>2 DEF Restored
    <3>2. SUFFICES ASSUME f[j].path.comps = s PROVE FALSE
      BY <1>12, <3>1
    <3>3. j \in 1 .. Len(f) /\ j # k + 1
      BY <1>0
    <3>4. f[j] \in FileLines
      BY <1>0, <3>3
    <3>5. f[j].path = [abs |-> TRUE, comps |-> s] /\ f[k + 1].path = [abs |-> TRUE, comps |-> s]
      <4>1. f[j].path = [abs |-> TRUE, comps |-> f[j].path.comps]
        BY <3>4 DEF FileLines
      <4>2. l.path = [abs |-> TRUE, comps |-> s]
        BY <1>3
      <4> QED BY <3>2, <4>1, <4>2 DEF l
    <3>6. IsInjective([i \in DOMAIN f |-> f[i].path])
      BY DEF Plain
    <3> QED BY <1>0, <3>3, <3>5, <3>6 DEF IsInjective
  <2> QED BY <2>1, <2>2
<1>21. ASSUME NEW n \in Used(u), NEW m \in Used(u), PathOf(u, n) = PathOf(u, m) PROVE n = m
  <2>1. CASE n = q /\ m \in Used(t)
    BY <1>13, <1>20, <1>21, <2>1
  <2>2. CASE n \in Used(t) /\ m = q
    BY <1>13, <1>20, <1>21, <2>2
  <2>3. CASE n \in Used(t) /\ m \in Used(t)
    BY <1>12, <1>21, <2>3 DEF Restored
  <2> QED BY <1>10, <2>1, <2>2, <2>3
<1>22. \E p \in Used(u) \ {ROOT} : /\ u[p].parent = ROOT /\ u[p].sibling = NULL
                                   /\ u[p].name = Head(f[k + 1].path.comps)
  <2>1. CASE parent = ROOT
    <3>1. s = <<name>>
      BY <1>5, <2>1
    <3>2. Head(s) = name
      BY <3>1
    <3> QED BY <1>10, <1>11, <1>13, <2>1, <3>2 DEF s, l
  <2>2. CASE parent # ROOT
    <3>1. k > 0 /\ Head(s) = Head(f[k].path.comps)
      BY <1>5, <2>2
    <3>2. PICK p \in Used(t) \ {ROOT} : /\ t[p].parent = ROOT /\ t[p].sibling = NULL
                                        /\ t[p].name = Head(f[k].path.comps)
      BY <3>1 DEF Restored
    <3>3. u[p].sibling = NULL
      <4>1. p \in Nodes \ {q}
        BY DEF Used
      <4>2. CASE p # x
        <5>1. u[p] = t[p]
          BY <1>9, <4>1, <4>2 DEF Attached
        <5> QED BY <3>2, <5>1
      <4>3. CASE p = x
        <5>1. x # ROOT /\ (t[x].parent = parent => FALSE)
          BY <2>2, <3>2, <4>3
        <5>2. u[x].sibling = t[x].sibling
          BY <1>9, <5>1 DEF Attached
        <5> QED BY <3>2, <4>3, <5>2
      <4> QED BY <4>2, <4>3
    <3>4. p \in Used(u) \ {ROOT} /\ u[p].parent = ROOT /\ u[p].name = Head(f[k + 1].path.comps)
      BY <1>10, <1>11, <3>1, <3>2 DEF s, l
    <3> QED BY <3>3, <3>4
  <2> QED BY <2>1, <2>2
<1>23. Restored(u, f, k + 1)
  BY <1>10, <1>16, <1>17, <1>18, <1>19, <1>21, <1>22 DEF Restored
<1>24. u # Crashed
  BY <1>10, CrashedIsNone
<1> QED BY <1>23, <1>24 DEF u, l, type

\* All lines make the tree again that they were written from.
LEMMA ReloadMakesFile ==
    ASSUME NEW f, Saved(f), Plain(f)
    PROVE  Reloaded(OnlyRoot, ROOT, f) # Crashed /\ saveHelp(Reloaded(OnlyRoot, ROOT, f), ROOT) = f
<1>1. f \in Seq(FileLines)
  BY DEF Saved
<1> DEFINE K == Len(f)
<1>2. PICK after :
         /\ Reloaded(OnlyRoot, ROOT, f) = after[K] /\ after[0] = OnlyRoot
         /\ \A k \in 1 .. K : after[k] = IF after[k - 1] = Crashed THEN Crashed
                                         ELSE makeFile(after[k - 1], ROOT, f[k].path, f[k].type)
  BY <1>1, ReloadRecursion
<1>3. K \in Nat /\ SubSeq(f, 1, 0) = <<>> /\ SubSeq(f, 1, K) = f
  BY <1>1
<1> HIDE DEF K
<1> DEFINE U == {k \in Nat : k <= K => after[k] # Crashed /\ Restored(after[k], f, k)}
<1>4. 0 \in U
  <2> DEFINE t == OnlyRoot
  <2>1. Good(t) /\ Named(t) /\ Used(t) = {ROOT}
    BY RootAlone, RootNamed
  <2>2. t[ROOT].child = NULL
    BY Numbering DEF OnlyRoot, NODE
  <2> HIDE DEF t
  <2>3. saveHelp(t, ROOT) = <<>>
    BY <2>1, <2>2, SaveRecursion
  <2>4. Cardinality(Used(t)) = 0 + 1
    <3>1. Cardinality({ROOT}) = 1
      BY FS_Singleton
    <3> QED BY <2>1, <3>1
  <2>5. Restored(t, f, 0)
    BY <1>3, <2>1, <2>3, <2>4 DEF Restored
  <2>6. t # Crashed
    BY <2>1, CrashedIsNone
  <2>7. after[0] = t
    BY <1>2 DEF t
  <2> QED BY <2>5, <2>6, <2>7
<1>5. ASSUME NEW k \in Nat, k \in U PROVE k + 1 \in U
  <2>1. SUFFICES ASSUME k + 1 <= K PROVE after[k + 1] # Crashed /\ Restored(after[k + 1], f, k + 1)
    OBVIOUS
  <2>2. k <= K /\ k < K /\ k + 1 \in 1 .. K /\ (k + 1) - 1 = k
    BY <1>3, <2>1
  <2> DEFINE t == after[k]
             u == makeFile(t, ROOT, f[k + 1].path, f[k + 1].type)
  <2>3. t # Crashed /\ Restored(t, f, k)
    BY <1>5, <2>2
  <2>4. after[k + 1] = IF t = Crashed THEN Crashed ELSE u
    BY <1>2, <2>2
  <2> HIDE DEF t
  <2>5. k < Len(f)
    BY <2>2 DEF K
  <2>6. Restored(u, f, k + 1) /\ u # Crashed
    BY <2>3, <2>5, LineRestored
  <2> HIDE DEF u
  <2> QED BY <2>3, <2>4, <2>6
<1>6. K \in U
  <2> HIDE DEF U
  <2> QED BY <1>3, <1>4, <1>5, SetInduction
<1>7. after[K] # Crashed /\ Restored(after[K], f, K)
  BY <1>3, <1>6
<1> QED BY <1>2, <1>3, <1>7 DEF Restored

\* What reload makes, if it does not crash on the way.
LEMMA ReloadedTree ==
    ASSUME NEW t, Good(t), Named(t), NEW c \in Used(t) \cup {NULL}, NEW lines \in Seq(FileLines),
           Cardinality(Used(t)) + Len(lines) <= NNODE, Reloaded(t, c, lines) # Crashed
    PROVE  /\ Good(Reloaded(t, c, lines)) /\ Named(Reloaded(t, c, lines))
           /\ Used(t) \subseteq Used(Reloaded(t, c, lines))
<1> DEFINE K == Len(lines)
<1>2. K \in Nat /\ \A k \in 1 .. K : /\ lines[k].type \in Types
                                     /\ lines[k].path.comps \in Seq(Names)
                                     /\ lines[k].path.comps # <<>>
  <2>1. K \in Nat /\ \A k \in 1 .. K : lines[k] \in FileLines
    OBVIOUS
  <2> QED BY <2>1 DEF FileLines
<1>3. Cardinality(Used(t)) + K <= NNODE
  OBVIOUS
<1>1. PICK after :
         /\ Reloaded(t, c, lines) = after[K] /\ after[0] = t
         /\ \A k \in 1 .. K : after[k] = IF after[k - 1] = Crashed THEN Crashed
                                         ELSE makeFile(after[k - 1], c, lines[k].path, lines[k].type)
  BY ReloadRecursion
<1> HIDE DEF K
<1> DEFINE Fine(k) == after[k] # Crashed => /\ Good(after[k]) /\ Named(after[k])
                                            /\ Used(t) \subseteq Used(after[k])
                                            /\ Cardinality(Used(after[k])) = Cardinality(Used(t)) + k
           U == {k \in Nat : k <= K => Fine(k)}
<1>6. ASSUME NEW x PROVE IsFiniteSet(Used(x)) /\ Cardinality(Used(x)) \in Nat /\ Cardinality(Used(x)) <= NNODE
  <2>1. Used(x) \subseteq Nodes
    BY DEF Used
  <2> QED BY <2>1, PlacesFinite, FS_Subset, FS_CardinalityType
<1>7. 0 \in U
  <2>1. after[0] = t
    BY <1>1
  <2>2. Cardinality(Used(t)) = Cardinality(Used(t)) + 0
    BY <1>6
  <2> QED BY <2>1, <2>2
<1>8. ASSUME NEW k \in Nat, k \in U PROVE k + 1 \in U
  <2>1. SUFFICES ASSUME k + 1 <= K, after[k + 1] # Crashed
                 PROVE  /\ Good(after[k + 1]) /\ Named(after[k + 1])
                        /\ Used(t) \subseteq Used(after[k + 1])
                        /\ Cardinality(Used(after[k + 1])) = Cardinality(Used(t)) + (k + 1)
    OBVIOUS
  <2>2. k + 1 \in 0 .. K /\ k + 1 \in 1 .. K /\ k + 1 # 0 /\ (k + 1) - 1 = k /\ k <= K
    BY <1>2, <2>1
  <2> DEFINE x == after[k]
             path == lines[k + 1].path
             type == lines[k + 1].type
  <2>3. after[k + 1] = IF x = Crashed THEN Crashed ELSE makeFile(x, c, path, type)
    BY <1>1, <2>2
  <2>4. type \in Types /\ path.comps \in Seq(Names) /\ path.comps # <<>>
    BY <1>2, <2>2
  <2>5. Fine(k)
    BY <1>8, <2>2
  <2> HIDE DEF path, type
  <2>6. x # Crashed /\ after[k + 1] = makeFile(x, c, path, type)
    BY <2>1, <2>3
  <2>7. /\ Good(x) /\ Named(x) /\ Used(t) \subseteq Used(x)
        /\ Cardinality(Used(x)) = Cardinality(Used(t)) + k
    BY <2>5, <2>6
  <2> HIDE DEF x
  <2>8. Used(x) # Nodes
    BY <1>2, <1>3, <1>6, <2>1, <2>7, PlacesFinite, NodesAssumption
  <2>9. c \in Used(x) \cup {NULL}
    BY <2>7
  <2>10. makeFile(x, c, path, type) # Crashed
    BY <2>1, <2>6
  <2>11. /\ Good(makeFile(x, c, path, type))
         /\ \E q \in Nodes \ Used(x) : Used(makeFile(x, c, path, type)) = Used(x) \cup {q}
    <3>1. Good(x)
      BY <2>7
    <3>2. Good(makeFile(x, c, path, type))
      BY ONLY <2>4, <2>8, <2>9, <2>10, <3>1, MakeFile
    <3> DEFINE v == makeFile(x, c, path, type)
    <3>3. \E q \in Nodes \ Used(x) : Used(v) = Used(x) \cup {q}
      <4> DEFINE y == x
                 w == path
      <4>1. /\ Good(y) /\ c \in Used(y) \cup {NULL} /\ type \in Types /\ Used(y) # Nodes
            /\ makeFile(y, c, w, type) # Crashed
        BY <2>4, <2>8, <2>9, <2>10, <3>1
      <4> HIDE DEF y, w
      <4>2. \E q \in Nodes \ Used(y) : Used(makeFile(y, c, w, type)) = Used(y) \cup {q}
        BY ONLY <4>1, MakeFile
      <4> QED BY <4>2 DEF y, w
    <3> QED BY <3>2, <3>3
  <2>12. PICK q \in Nodes \ Used(x) : Used(after[k + 1]) = Used(x) \cup {q}
    BY <2>6, <2>11
  <2>13. Cardinality(Used(x) \cup {q}) = Cardinality(Used(x)) + 1
    BY <1>6, <2>12, FS_AddElement
  <2>14. Good(after[k + 1]) /\ Named(after[k + 1])
    <3>1. Named(makeFile(x, c, path, type))
      BY <2>4, <2>7, <2>8, <2>9, <2>10, MakeFileNamed
    <3> QED BY <2>6, <2>11, <3>1
  <2>15. Used(t) \subseteq Used(after[k + 1])
    BY <2>7, <2>12
  <2>16. Cardinality(Used(after[k + 1])) = Cardinality(Used(t)) + (k + 1)
    <3>1. Cardinality(Used(after[k + 1])) = (Cardinality(Used(t)) + k) + 1
      BY <2>7, <2>12, <2>13
    <3>2. Cardinality(Used(t)) \in Nat
      BY <1>6
    <3> QED BY <3>1, <3>2
  <2> QED BY <2>14, <2>15, <2>16
<1>9. Fine(K)
  <2>1. K \in U
    <3> HIDE DEF U
    <3> QED BY <1>2, <1>7, <1>8, SetInduction
  <2> QED BY <1>2, <2>1
<1> QED BY <1>1, <1>9

-----------------------------------------------------------------------------
(* The invariant.                                                          *)

\* The pointers are a tree in every state, and tree.txt holds lines as save writes them.
Inv == /\ Good(tree) /\ Named(tree)
       /\ cwd \in Used(tree) \cup {NULL}
       /\ st \in {"up", "down", "undefined"}
       /\ file = NoFile \/ Saved(file)

LEMMA InvInit == Init => Inv
<1> SUFFICES ASSUME Init PROVE Inv
  OBVIOUS
<1>1. Good(tree) /\ Used(tree) = {ROOT} /\ Named(tree)
  BY RootAlone, RootNamed DEF Init
<1> QED BY <1>1 DEF Init, Inv

LEMMA DownKeeps == Inv /\ Down => Inv'
<1> SUFFICES ASSUME Inv, Down PROVE Inv'
  OBVIOUS
<1>1. tree' = OnlyRoot /\ cwd' = ROOT /\ st' = "down" /\ file' = file
  BY DEF Down
<1>2. Good(tree)' /\ Used(tree)' = {ROOT} /\ Named(tree)'
  <2>1. Good(OnlyRoot) /\ Used(OnlyRoot) = {ROOT} /\ Named(OnlyRoot)
    BY RootAlone, RootNamed
  <2> QED BY <1>1, <2>1
<1>3. Saved(file) => Saved(file)'
  BY <1>1
<1> QED BY <1>1, <1>2, <1>3 DEF Inv

\* A command that leaves a tree with the current directory in it, or a crash.
LEMMA BecomesKeeps ==
    ASSUME NEW t, t # Crashed => Good(t) /\ Named(t) /\ cwd \in Used(t) \cup {NULL}, Inv, Becomes(t)
    PROVE  Inv'
<1>1. CASE t = Crashed
  BY <1>1, DownKeeps DEF Becomes
<1>2. CASE t # Crashed
  <2>1. tree' = t /\ cwd' = cwd /\ file' = file /\ st' = st
    BY <1>2 DEF Becomes
  <2>2. Good(tree)' /\ Named(tree)' /\ cwd' \in Used(tree)' \cup {NULL}
    BY <1>2, <2>1
  <2>3. Saved(file) => Saved(file)'
    BY <2>1
  <2> QED BY <2>1, <2>2, <2>3 DEF Inv
<1> QED BY <1>1, <1>2

LEMMA PathTyped == ASSUME NEW path \in Paths PROVE path.comps \in Seq(Names)
<1> DEFINE T == Seq(Chars) \ {<<>>}
           s == path.comps
<1>1. s \in Seq(T)
  BY PathsAssumption
<1>2. T \subseteq Names
  BY DEF Names
<1> HIDE DEF T, s
<1>3. Len(s) \in Nat /\ s = [k \in 1 .. Len(s) |-> s[k]] /\ \A k \in 1 .. Len(s) : s[k] \in Names
  BY <1>1, <1>2
<1>4. s \in Seq(Names)
  BY <1>3
<1> QED BY <1>4 DEF s

LEMMA MakeKeeps ==
    ASSUME Inv, NEW path \in Paths, NEW type \in Types, Make(path, type)
    PROVE  Inv'
<1> DEFINE t == makeFile(tree, cwd, path, type)
<1>1. Used(tree) # Nodes /\ Becomes(t) /\ path.comps # <<>>
  BY DEF Make
<1>2. Good(tree) /\ Named(tree) /\ cwd \in Used(tree) \cup {NULL}
  BY DEF Inv
<1>3. ASSUME t # Crashed PROVE Good(t) /\ Named(t) /\ cwd \in Used(t) \cup {NULL}
  <2>1. Good(t)
    BY <1>1, <1>2, <1>3, MakeFile
  <2>2. \E q \in Nodes \ Used(tree) : Used(t) = Used(tree) \cup {q}
    BY <1>1, <1>2, <1>3, MakeFile
  <2>3. Named(t)
    BY <1>1, <1>2, <1>3, PathTyped, MakeFileNamed
  <2> QED BY <1>2, <2>1, <2>2, <2>3
<1> HIDE DEF t
<1> QED BY <1>1, <1>3, BecomesKeeps

LEMMA CdKeeps ==
    ASSUME Inv, NEW path \in Paths, Cd(path)
    PROVE  Inv'
<1> DEFINE to == IF path.comps = <<>> THEN ROOT ELSE goto_path(tree, cwd, path)
<1>1. Good(tree) /\ Named(tree) /\ cwd \in Used(tree) \cup {NULL}
  BY DEF Inv
<1>2. to \in Used(tree) \cup {NULL, CRASH}
  <2>1. goto_path(tree, cwd, path) \in Used(tree) \cup {NULL, CRASH}
    BY <1>1, PathTyped, GotoNode
  <2>2. ROOT \in Used(tree)
    BY <1>1 DEF Good, Linked
  <2> QED BY <2>1, <2>2
<1>3. IF to = CRASH THEN Down
      ELSE cwd' = to /\ tree' = Collected(tree, to) /\ UNCHANGED <<file, st>>
  BY DEF Cd
<1> HIDE DEF to
<1>4. CASE to = CRASH
  BY <1>3, <1>4, DownKeeps
<1>5. CASE to # CRASH
  <2>1. to \in Used(tree) \cup {NULL}
    BY <1>2, <1>5
  <2>2. PICK M \in Nat : \E r \in Orders(M) : Ranked(tree, r)
    BY <1>1 DEF Good
  <2>3. PICK r \in Orders(M) : Ranked(tree, r)
    BY <2>2
  <2>4. to \in Used(tree) => r[to] <= M
    BY DEF Orders, Used
  <2>5. Pruned(tree, tree, r, M)
    BY <1>1, Uncut
  <2>6. Good(Collected(tree, to)) /\ to \in Used(Collected(tree, to)) \cup {NULL}
    <3> HIDE DEF Orders
    <3> QED BY <1>1, <2>1, <2>3, <2>4, <2>5, CollectKeeps
  <2>7. cwd' = to /\ tree' = Collected(tree, to) /\ file' = file /\ st' = st
    BY <1>3, <1>5
  <2>8. Good(tree)' /\ Named(tree)' /\ cwd' \in Used(tree)' \cup {NULL}
    <3>1. Named(Collected(tree, to))
      BY <1>1, <2>5, CollectedNamed
    <3> QED BY <2>6, <2>7, <3>1
  <2>9. Saved(file) => Saved(file)'
    BY <2>7
  <2> QED BY <2>7, <2>8, <2>9 DEF Inv
<1> QED BY <1>4, <1>5

LEMMA RmdirKeeps ==
    ASSUME Inv, NEW path \in Paths, Rmdir(path)
    PROVE  Inv'
<1> DEFINE temp == goto_path(tree, cwd, path)
           P == tree[temp].parent
           after == removeFromList(tree, P, path)
<1>1. Good(tree) /\ Named(tree) /\ cwd \in Used(tree) \cup {NULL}
  BY DEF Inv
<1>2. IF temp \in {NULL, CRASH} THEN Down
      ELSE IF temp \in Touched(after, cwd)
      THEN st' = "undefined" /\ UNCHANGED <<tree, cwd, file>>
      ELSE Becomes(Collected(after, cwd))
  BY DEF Rmdir
<1>3. PICK M \in Nat : \E r \in Orders(M) : Ranked(tree, r)
  BY <1>1 DEF Good
<1>4. PICK r \in Orders(M) : Ranked(tree, r)
  BY <1>3
<1>5. /\ temp \in Used(tree) \cup {NULL, CRASH}
      /\ temp \in Used(tree) => cwd \in Used(tree) /\ r[cwd] <= r[P]
  <2> HIDE DEF Orders
  <2> QED BY <1>1, <1>4, PathTyped, GotoPath
<1> HIDE DEF temp, P
<1>6. CASE temp \in {NULL, CRASH}
  BY <1>2, <1>6, DownKeeps
<1>7. CASE temp \in Used(tree)
  <2>1. P \in Used(tree) /\ cwd \in Used(tree) /\ r[cwd] <= r[P]
    BY <1>1, <1>5, <1>7 DEF Good, Linked, P
  <2>2. r[cwd] \in Nat
    BY <2>1 DEF Orders, Used
  <2>3. Pruned(tree, after, r, r[cwd])
    <3> HIDE DEF Orders
    <3> QED BY <1>1, <1>4, <2>1, <2>2, RemovePrunes
  <2> HIDE DEF after
  <2>4. Good(Collected(after, cwd)) /\ cwd \in Used(Collected(after, cwd)) \cup {NULL}
    <3>1. cwd \in Used(tree) => r[cwd] <= r[cwd]
      BY <2>2
    <3> HIDE DEF Orders
    <3> QED BY <1>1, <1>4, <2>2, <2>3, <3>1, CollectKeeps
  <2>5. CASE Becomes(Collected(after, cwd))
    <3>1. Named(Collected(after, cwd))
      BY <1>1, <2>3, CollectedNamed
    <3> QED BY <2>4, <2>5, <3>1, BecomesKeeps
  <2>6. CASE st' = "undefined" /\ UNCHANGED <<tree, cwd, file>>
    <3>1. Saved(file) => Saved(file)'
      BY <2>6
    <3>2. Good(tree)' /\ Named(tree)' /\ cwd' \in Used(tree)' \cup {NULL}
      BY <1>1, <2>6
    <3> QED BY <2>6, <3>1, <3>2 DEF Inv
  <2>7. temp \notin {NULL, CRASH}
    BY <1>7, Numbering DEF Used
  <2> QED BY <1>2, <2>5, <2>6, <2>7
<1> QED BY <1>5, <1>6, <1>7

LEMMA SaveKeeps == Inv /\ Save => Inv'
<1> SUFFICES ASSUME Inv, Save PROVE Inv'
  OBVIOUS
<1>1. tree' = tree /\ cwd' = cwd /\ st' = st /\ file' = saveHelp(tree, ROOT)
  BY DEF Save
<1>2. Good(tree)' /\ Named(tree)' /\ cwd' \in Used(tree)' \cup {NULL}
  BY <1>1 DEF Inv
<1>3. Saved(file)'
  <2>1. Saved(saveHelp(tree, ROOT))
    BY SavedSaved DEF Inv
  <2> QED BY <1>1, <2>1
<1> QED BY <1>1, <1>2, <1>3 DEF Inv

LEMMA ReloadKeeps == Inv /\ Reload => Inv'
<1> SUFFICES ASSUME Inv, Reload PROVE Inv'
  OBVIOUS
<1>1. CASE file = NoFile
  BY <1>1, DownKeeps DEF Reload
<1>2. CASE file # NoFile
  <2> DEFINE t == Reloaded(tree, cwd, file)
  <2>1. Cardinality(Used(tree)) + Len(file) <= NNODE /\ Becomes(t)
    BY <1>2 DEF Reload
  <2>2. Good(tree) /\ Named(tree) /\ cwd \in Used(tree) \cup {NULL} /\ file \in Seq(FileLines)
    BY <1>2 DEF Inv, Saved
  <2>3. ASSUME t # Crashed PROVE Good(t) /\ Named(t) /\ cwd \in Used(t) \cup {NULL}
    <3>1. Good(t) /\ Named(t) /\ Used(tree) \subseteq Used(t)
      BY <2>1, <2>2, <2>3, ReloadedTree
    <3> QED BY <2>2, <3>1
  <2> HIDE DEF t
  <2> QED BY <2>1, <2>3, BecomesKeeps
<1> QED BY <1>1, <1>2

LEMMA InvNext == Inv /\ [Next]_vars => Inv'
<1> SUFFICES ASSUME Inv, [Next]_vars PROVE Inv'
  OBVIOUS
<1>1. ASSUME NEW path \in Paths, Make(path, IF path \in Files THEN "F" ELSE "D") PROVE Inv'
  <2> DEFINE type == IF path \in Files THEN "F" ELSE "D"
  <2>1. type \in Types
    BY DEF Types
  <2> HIDE DEF type
  <2>2. Make(path, type)
    BY <1>1 DEF type
  <2> QED BY <2>1, <2>2, MakeKeeps
<1>2. ASSUME NEW path \in Paths, Cd(path) PROVE Inv'
  BY <1>2, CdKeeps
<1>3. ASSUME NEW path \in Paths, Look(path) PROVE Inv'
  BY <1>3, DownKeeps DEF Look
<1>4. ASSUME NEW path \in Paths, Rmdir(path) PROVE Inv'
  BY <1>4, RmdirKeeps
<1>5. ASSUME Pwd \/ Quit PROVE Inv'
  BY <1>5, DownKeeps DEF Pwd, Quit
<1>6. CASE Save
  BY <1>6, SaveKeeps
<1>7. CASE Reload
  BY <1>7, ReloadKeeps
<1>8. ASSUME tree' = tree, cwd' = cwd, file' = file, st' \in {"up", "down", "undefined"} PROVE Inv'
  <2>1. Good(tree)' /\ Named(tree)' /\ cwd' \in Used(tree)' \cup {NULL}
    BY <1>8 DEF Inv
  <2>2. Saved(file) => Saved(file)'
    BY <1>8
  <2> QED BY <1>8, <2>1, <2>2 DEF Inv
<1>9. CASE Start
  BY <1>8, <1>9 DEF Start
<1>10. CASE UNCHANGED vars
  <2>1. st' \in {"up", "down", "undefined"}
    BY <1>10 DEF Inv, vars
  <2> QED BY <1>8, <1>10, <2>1 DEF vars
<1> QED BY <1>1, <1>2, <1>3, <1>4, <1>5, <1>6, <1>7, <1>9, <1>10 DEF Next

\* The pointers of the nodes in memory stay a tree and tree.txt a file as save writes it,
\* whatever mkdir, creat, rmdir, cd, save and reload have been given.
THEOREM TreeInMemory == Spec => []Inv
BY InvInit, InvNext, PTL DEF Spec

\* The nodes, the current directory and the state of the program have their types.
THEOREM NodesTyped == Spec => []TypeOK
<1>1. Inv => TypeOK
  <2> SUFFICES ASSUME Inv PROVE TypeOK
    OBVIOUS
  <2>1. Typed(tree) /\ cwd \in Nodes \cup {NULL}
    BY DEF Inv, Good, Used
  <2> QED BY <2>1 DEF Inv, Typed, TypeOK
<1> QED BY <1>1, TreeInMemory, PTL

\* A node is in the list of its parent and in no other, all nodes are below the root,
\* and so is the current one: rmdir never leaves pointers of two minds.
THEOREM TreeConsistent == Spec => []PointersAgree
<1>1. Inv => PointersAgree
  <2> SUFFICES ASSUME Inv PROVE PointersAgree
    OBVIOUS
  <2>1. Good(tree)
    BY DEF Inv
  <2>2. ASSUME NEW n \in Used(tree)
        PROVE  /\ IsInjective(List(tree, n))
               /\ \A k \in DOMAIN List(tree, n) : tree[List(tree, n)[k]].parent = n
    <3>1. PICK M \in Nat : \E r \in Orders(M) : Ranked(tree, r)
      BY <2>1 DEF Good
    <3>2. PICK r \in Orders(M) : Ranked(tree, r)
      BY <3>1
    <3>3. /\ List(tree, n) \in Seq(Used(tree)) /\ IsInjective(List(tree, n))
          /\ \A k \in 1 .. Len(List(tree, n)) : tree[List(tree, n)[k]].parent = n
      <4> HIDE DEF Orders
      <4> QED BY <2>1, <3>2, ListOfChildren
    <3>4. DOMAIN List(tree, n) = 1 .. Len(List(tree, n))
      BY <3>3
    <3> QED BY <3>3, <3>4
  <2>3. Used(tree) = Below(tree, ROOT)
    BY <2>1, BelowRoot
  <2> QED BY <2>2, <2>3 DEF PointersAgree, Inv
<1> QED BY <1>1, TreeInMemory, PTL

\* A new directory or file is one line more for save and changes no other.
THEOREM OthersKept == Spec => MakeKeepsOthers
<1> DEFINE Kept(path, type) ==
             st' = "up" /\ Make(path, type) =>
                 LET lines == saveHelp(tree', ROOT)
                 IN  \E k \in DOMAIN lines : RemoveAt(lines, k) = saveHelp(tree, ROOT)
           All == \A path \in Paths, type \in Types : Kept(path, type)
<1>1. ASSUME Inv, NEW path \in Paths, NEW type \in Types PROVE Kept(path, type)
  <2> SUFFICES ASSUME st' = "up", Make(path, type)
               PROVE  \E k \in DOMAIN saveHelp(tree', ROOT) :
                         RemoveAt(saveHelp(tree', ROOT), k) = saveHelp(tree, ROOT)
    OBVIOUS
  <2> DEFINE t == makeFile(tree, cwd, path, type)
  <2>1. Good(tree) /\ cwd \in Used(tree) \cup {NULL}
    BY <1>1 DEF Inv
  <2>2. Used(tree) # Nodes /\ t # Crashed /\ tree' = t
    BY DEF Make, Becomes, Down
  <2> DEFINE name == Last(Buffers(path.comps))
  <2>3. \E parent \in Used(tree), q \in Nodes \ Used(tree), x \in Used(tree) :
           Attached(tree, t, q, x, name, type, parent)
    BY <2>1, <2>2, MakeFileAttaches
  <2> HIDE DEF t, name
  <2>4. PICK parent \in Used(tree), q \in Nodes \ Used(tree), x \in Used(tree) :
           Attached(tree, t, q, x, name, type, parent)
    BY <2>3
  <2> DEFINE l == Line(t, q, PathOf(t, q))
  <2>5. l \in Lines(t) /\ OneMore(Lines(t), FALSE, l, saveHelp(tree, ROOT), saveHelp(t, ROOT))
    <3>1. OneMore(Lines(t), FALSE, l, saveHelp(tree, ROOT), saveHelp(t, ROOT))
      <4> DEFINE end == FALSE
      <4>1. end \in BOOLEAN /\ (end => tree[parent].sibling = NULL /\ tree[parent].parent = ROOT)
        OBVIOUS
      <4> HIDE DEF end
      <4>2. OneMore(Lines(t), end, Line(t, q, PathOf(t, q)), saveHelp(tree, ROOT), saveHelp(t, ROOT))
        BY <2>1, <2>4, <4>1, OneLineMore
      <4> QED BY <4>2 DEF end
    <3>2. q \in Used(t)
      BY <2>1, <2>4, AttachKeeps
    <3> QED BY <3>1, <3>2 DEF Lines
  <2> HIDE DEF l
  <2>6. \E k \in DOMAIN saveHelp(t, ROOT) : RemoveAt(saveHelp(t, ROOT), k) = saveHelp(tree, ROOT)
    <3> DEFINE end == FALSE
    <3>1. end \in BOOLEAN /\ l \in Lines(t)
          /\ OneMore(Lines(t), end, l, saveHelp(tree, ROOT), saveHelp(t, ROOT))
      BY <2>5
    <3> HIDE DEF end
    <3> QED BY <3>1, OneMoreRemoved
  <2> QED BY <2>2, <2>6
<1>2. Inv => [All]_vars
  <2> HIDE DEF Kept
  <2> QED BY <1>1
<1> QED BY <1>2, TreeInMemory, PTL DEF MakeKeepsOthers

\* Save and reload are inverse wherever the names can be told apart: a program just
\* started makes from tree.txt the tree that it was written from, line by line.
THEOREM SavedIsReloaded == Spec => []ReloadRestores
<1>1. Inv => ReloadRestores
  <2> SUFFICES ASSUME Inv, file # NoFile, Plain(file)
               PROVE  /\ Reloaded(OnlyRoot, ROOT, file) # Crashed
                      /\ saveHelp(Reloaded(OnlyRoot, ROOT, file), ROOT) = file
    BY DEF ReloadRestores
  <2>1. Saved(file)
    BY DEF Inv
  <2> QED BY <2>1, ReloadMakesFile
<1> QED BY <1>1, TreeInMemory, PTL
=============================================================================
