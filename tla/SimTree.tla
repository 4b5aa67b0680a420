------------------------------ MODULE SimTree -------------------------------
(***************************************************************************)
(* The file tree simulator of src/lab2/lab2.c: a tree of nodes with child, *)
(* sibling and parent pointers in memory, the commands mkdir creat rmdir   *)
(* cd ls pwd save reload quit, and tree.txt, which outlives the program.   *)
(*                                                                         *)
(* A name is a sequence of characters, because goto_path() and makeFile()  *)
(* mix the characters of one component with those of another.  A pathname  *)
(* has components and may begin with a slash; empty components, a slash at *)
(* the end, "." and ".." are left out, and so is what is printed.          *)
(***************************************************************************)
EXTENDS Integers, Sequences, SequencesExt, FiniteSets

CONSTANTS NNODE,        \* bound: nodes in memory at a time
          MaxLines,     \* bound: lines in tree.txt
          Chars,        \* the characters of names
          Paths,        \* the pathnames users type
          Files         \* those of them they give to creat, not to mkdir

ASSUME NodesAssumption == NNODE \in Nat \ {0} /\ MaxLines \in Nat
ASSUME PathsAssumption ==
    \A p \in Paths : p.abs \in BOOLEAN /\ p.comps \in Seq(Seq(Chars) \ {<<>>})

VARIABLES tree,         \* the nodes
          cwd,          \* the current node, or NULL
          file,         \* tree.txt: its lines, or NoFile
          st            \* "up", "down", "undefined"

vars == <<tree, cwd, file, st>>

-----------------------------------------------------------------------------
NULL == 0
CRASH == -1             \* a pointer read through NULL
ROOT == 1
Nodes == 1 .. NNODE
Types == {"D", "F"}
NoFile == <<[type |-> "none", path |-> [abs |-> FALSE, comps |-> <<>>]]>>

NODE(name, type, parent) == [name |-> name, type |-> type, child |-> NULL,
                             sibling |-> NULL, parent |-> parent]
Unused == NODE(<<>>, "unused", NULL)
Used(t) == {n \in Nodes : t[n].type # "unused"}

\* initialize().
OnlyRoot == [n \in Nodes |-> IF n = ROOT THEN NODE(<<>>, "D", ROOT) ELSE Unused]

\* The children of a node in the order of the list.
List(t, n) == LET from[m \in 0 .. NNODE] == IF m = NULL THEN <<>>
                                            ELSE <<m>> \o from[t[m].sibling]
              IN  from[t[n].child]

search_child(t, parent, name) ==
    LET list == List(t, parent)
        hits == {k \in DOMAIN list : t[list[k]].name = name}
    IN  IF hits = {} THEN NULL ELSE list[CHOOSE k \in hits : \A j \in hits : k <= j]

\* Characters written one by one over those of the component before, of which only
\* the first had been set to 0.
Over(buffer, name) == name \o SubSeq(buffer, Len(name) + 1, Len(buffer))
Buffers(comps) == LET buffer[k \in 0 .. Len(comps)] ==
                          IF k = 0 THEN <<>> ELSE Over(buffer[k - 1], comps[k])
                  IN  [k \in DOMAIN comps |-> buffer[k]]

\* A slash at the beginning ends an empty component, which no child of the root has.
goto_path(t, c, path) ==
    LET buffers == IF path.comps = <<>> THEN <<<<>>>> ELSE Buffers(path.comps)
        at[k \in 0 .. Len(buffers)] ==
            IF k = 0 THEN IF path.abs THEN NULL ELSE c
            ELSE IF at[k - 1] \in {NULL, CRASH} THEN CRASH
            ELSE search_child(t, at[k - 1], buffers[k])
    IN  at[Len(buffers)]

-----------------------------------------------------------------------------
(* mkdir and creat.                                                        *)

New(t) == CHOOSE n \in Nodes \ Used(t) : \A m \in Nodes \ Used(t) : n <= m

insert_child_Untyped(t, parent, name, type) ==
    LET q == New(t)
    IN  IF t[parent].child = NULL
        THEN [t EXCEPT ![q] = NODE(name, "garbage", parent), ![parent].child = q]
        ELSE [t EXCEPT ![q] = NODE(name, "garbage", parent), ![Last(List(t, parent))].sibling = q]
insert_child_OfRoot(t, parent, name, type) ==
    LET q == New(t)
    IN  IF t[parent].child = NULL
        THEN [t EXCEPT ![q] = NODE(name, type, parent), ![parent].child = q]
        ELSE [t EXCEPT ![q] = NODE(name, type, ROOT), ![Last(List(t, parent))].sibling = q]
insert_child_Alone(t, parent, name, type) ==
    LET q == New(t)
    IN  [t EXCEPT ![q] = NODE(name, type, parent), ![parent].child = q]
insert_child_First(t, parent, name, type) ==
    LET q == New(t)
    IN  [t EXCEPT ![q] = [NODE(name, type, parent) EXCEPT !.sibling = t[parent].child],
                  ![parent].child = q]
\* At the end of the list, whatever names it holds.
insert_child(t, parent, name, type) ==
    LET q == New(t)
    IN  IF t[parent].child = NULL
        THEN [t EXCEPT ![q] = NODE(name, type, parent), ![parent].child = q]
        ELSE [t EXCEPT ![q] = NODE(name, type, parent), ![Last(List(t, parent))].sibling = q]

\* The node a new one is put under: the components before the last are strung
\* together without a slash, and looked for from cwd even if the pathname had one.
Under(t, c, path) ==
    LET before == Front(Buffers(path.comps))
    IN  IF before = <<>> THEN IF path.abs THEN ROOT ELSE c
        ELSE goto_path(t, c, [abs |-> FALSE, comps |-> <<FlattenSeq(before)>>])

\* The tree after makeFile(), or OnlyRoot with CRASH for its type.
Crashed == [OnlyRoot EXCEPT ![ROOT].type = "crash"]
makeFile(t, c, path, type) ==
    LET parent == Under(t, c, path)
    IN  IF parent \in {NULL, CRASH} THEN Crashed
        ELSE insert_child(t, parent, Last(Buffers(path.comps)), type)

-----------------------------------------------------------------------------
(* save and reload.                                                        *)

\* saveHelp(), pwd_help(): type and pathname of each node below n, children before
\* siblings.  The character s that pwd_help2() appends is no string; it ends in the
\* zero byte of the stack guard behind it, as the tree.txt in the repository shows.
Line(t, n, comps) == [type |-> t[n].type, path |-> [abs |-> TRUE, comps |-> comps]]
PathOf(t, n) == LET up[m \in Used(t)] == IF m = ROOT THEN <<>>
                                         ELSE Append(up[t[m].parent], t[m].name)
                IN  up[n]
saveHelp(t, n) ==
    LET below[m \in 0 .. NNODE] ==
            IF m = NULL THEN <<>>
            ELSE <<Line(t, m, PathOf(t, m))>> \o below[t[m].child] \o below[t[m].sibling]
    IN  below[t[n].child]

\* reload(): mkdir or creat for each line, from the current directory.
Reloaded(t, c, lines) ==
    LET after[k \in 0 .. Len(lines)] ==
            IF k = 0 THEN t
            ELSE IF after[k - 1] = Crashed THEN Crashed
            ELSE makeFile(after[k - 1], c, lines[k].path, lines[k].type)
    IN  after[Len(lines)]

-----------------------------------------------------------------------------
(* rmdir.                                                                  *)

\* removeFromList(): of a parent without a sibling all children go; of another one
\* the first child behind the first whose name is not the pathname typed.
removeFromList(t, parent, path) ==
    LET list == List(t, parent)
        others == {k \in 2 .. Len(list) : path.comps # <<t[list[k]].name>>}
        k == CHOOSE k \in others : \A j \in others : k <= j
    IN  IF t[parent].sibling = NULL THEN [t EXCEPT ![parent].child = NULL]
        ELSE IF others = {} THEN t
        ELSE [t EXCEPT ![list[k - 1]].sibling = t[list[k]].sibling]

\* The nodes that pointers lead to from the root and the current directory.
Touched(t, c) ==
    LET next(n) == {t[n].child, t[n].sibling, t[n].parent} \ {NULL}
        grow[k \in 0 .. NNODE] ==
            IF k = 0 THEN {ROOT, c} \ {NULL}
            ELSE grow[k - 1] \cup UNION {next(n) : n \in grow[k - 1]}
    IN  grow[NNODE]

\* Nodes nothing leads to are lost; their places are used again.
Collected(t, c) == [n \in Nodes |-> IF n \in Touched(t, c) THEN t[n] ELSE Unused]

-----------------------------------------------------------------------------
(* The commands.                                                           *)

Down == st' = "down" /\ tree' = OnlyRoot /\ cwd' = ROOT /\ UNCHANGED file

\* A command with its tree: the program goes on, or has crashed.
Becomes(t) == IF t = Crashed THEN Down
              ELSE tree' = t /\ UNCHANGED <<cwd, file, st>>

Make(path, type) == /\ st = "up" /\ path.comps # <<>>
                    /\ Used(tree) # Nodes
                    /\ Becomes(makeFile(tree, cwd, path, type))

Cd(path) ==
    /\ st = "up"
    /\ LET to == IF path.comps = <<>> THEN ROOT ELSE goto_path(tree, cwd, path)
       IN  IF to = CRASH THEN Down
           ELSE /\ cwd' = to
                /\ tree' = Collected(tree, to)
                /\ UNCHANGED <<file, st>>

\* ls and pwd change nothing, but read cwd.
Look(path) ==
    /\ st = "up"
    /\ IF path.abs \/ path.comps # <<>> THEN goto_path(tree, cwd, path) = CRASH ELSE cwd = NULL
    /\ Down

Pwd == st = "up" /\ cwd = NULL /\ Down

\* The node is freed wherever it is still linked: "undefined" if anything leads to it.
Rmdir(path) ==
    /\ st = "up"
    /\ LET temp == goto_path(tree, cwd, path)
           after == removeFromList(tree, tree[temp].parent, path)
       IN  IF temp \in {NULL, CRASH} THEN Down
           ELSE IF temp \in Touched(after, cwd)
           THEN st' = "undefined" /\ UNCHANGED <<tree, cwd, file>>
           ELSE Becomes(Collected(after, cwd))

Save == /\ st = "up"
        /\ Cardinality(Used(tree)) <= MaxLines + 1
        /\ file' = saveHelp(tree, ROOT)
        /\ UNCHANGED <<tree, cwd, st>>

Reload ==
    /\ st = "up"
    /\ IF file = NoFile THEN Down
       ELSE /\ Cardinality(Used(tree)) + Len(file) <= NNODE
            /\ Becomes(Reloaded(tree, cwd, file))

Quit == st = "up" /\ Down

Start == st = "down" /\ st' = "up" /\ UNCHANGED <<tree, cwd, file>>

Init == tree = OnlyRoot /\ cwd = ROOT /\ file = NoFile /\ st = "up"

Next == \/ \E path \in Paths : Make(path, IF path \in Files THEN "F" ELSE "D")
        \/ \E path \in Paths : Cd(path) \/ Look(path) \/ Rmdir(path)
        \/ Pwd \/ Save \/ Reload \/ Quit \/ Start

Spec == Init /\ [][Next]_vars

-----------------------------------------------------------------------------
(* Properties.                                                             *)

\* Types: the nodes and what points to them.
TypeOK == /\ \A n \in Nodes : /\ tree[n].type \in Types \cup {"unused"}
                              /\ {tree[n].child, tree[n].sibling, tree[n].parent} \subseteq Nodes \cup {NULL}
          /\ cwd \in Nodes \cup {NULL}
          /\ st \in {"up", "down", "undefined"}

\* The nodes below a node, by its list and theirs.
Below(t, n) == LET grow[k \in 0 .. NNODE] ==
                       IF k = 0 THEN {n} ELSE grow[k - 1] \cup UNION {ToSet(List(t, m)) : m \in grow[k - 1]}
               IN  grow[NNODE]

\* However often rmdir has cut a list in the wrong place, the pointers agree: a node is
\* in the list of its parent, in no other list and there once, and all nodes are below
\* the root, the current one too (cd to a missing name leaves NULL there).
PointersAgree ==
    st = "up" =>
        /\ \A n \in Used(tree) : LET list == List(tree, n)
                                 IN  /\ IsInjective(list)
                                     /\ \A k \in DOMAIN list : tree[list[k]].parent = n
        /\ Used(tree) = Below(tree, ROOT)
        /\ cwd \in Used(tree) \cup {NULL}

\* mkdir and creat leave every other pathname as it was, although they may put the new
\* one somewhere else than asked.
MakeKeepsOthers ==
    [][\A path \in Paths, type \in Types :
          st' = "up" /\ Make(path, type) =>
              LET lines == saveHelp(tree', ROOT)
              IN  \E k \in DOMAIN lines : RemoveAt(lines, k) = saveHelp(tree, ROOT)]_vars

\* What save wrote, reload makes again in a program just started, in the same order, if
\* no pathname is there twice, none has more than two components (their names
\* would be strung together), and none a second name shorter than its first (it
\* would end with characters of the first).
Plain(lines) == /\ IsInjective([k \in DOMAIN lines |-> lines[k].path])
                /\ \A k \in DOMAIN lines : LET comps == lines[k].path.comps
                                           IN  /\ Len(comps) <= 2
                                               /\ Len(Head(comps)) <= Len(Last(comps))
ReloadRestores ==
    file # NoFile /\ Plain(file) => LET t == Reloaded(OnlyRoot, ROOT, file)
                                    IN  t # Crashed /\ saveHelp(t, ROOT) = file
=============================================================================
