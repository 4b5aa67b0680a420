----------------------------- MODULE Namespace ------------------------------
(***************************************************************************)
(* The commands of src/Final/src that change the name space: mkdir, creat, *)
(* rmdir, link, unlink, symlink, cd, ls, pwd and quit, each run to its     *)
(* end by the command loop of main(), which serves one process, P1.  The   *)
(* process may be killed between commands and started again.               *)
(***************************************************************************)
EXTENDS Machine

CONSTANTS Paths,        \* pathnames typed: [abs, comps], comps <<>> for "/"
          Junk,         \* what iget(dev, 0) may find before its buffer
          Workload,     \* the commands a run types
          MaxRefs,      \* bound: references to all slots
          MaxEntries,   \* bound: entries in one block
          MaxLinks,     \* bound: links count of an inode, 65535 allowed
          Spare         \* bound: inode and block numbers never allocated

PathType == [abs : BOOLEAN, comps : Seq(FileNames)]

ASSUME PathsAssumption == Paths \subseteq PathType
ASSUME JunkAssumption == Junk \subseteq INODEs

VARIABLES minode, cwd, st, itable, imap, bmap, dir      \* see Machine

vars == <<minode, cwd, st, itable, imap, bmap, dir>>

-----------------------------------------------------------------------------
\* The machine a command starts on, when inode number 0 reads as j.
Now(j) == [minode |-> minode, cwd |-> cwd, st |-> st,
           itable |-> [i \in Inos \cup {0} |-> IF i = 0 THEN j ELSE itable[i]],
           imap |-> imap, bmap |-> bmap, dir |-> dir]

\* The references to all slots.
References(m) == FoldFunction(LAMBDA slot, sum : slot.refCount + sum, 0, m.minode)

\* The bounds of the instance.
Bounded(m) ==
    /\ References(m) <= MaxRefs
    /\ \A b \in Blks : Len(m.dir[b]) <= MaxEntries
    /\ \A l \in {m.itable[i].links : i \in Inos} \cup {Inode(m, s).links : s \in Slots} :
           l <= MaxLinks \/ l = 65535
    /\ \A s \in Slots : m.minode[s].refCount >= -1
    /\ Cardinality(Inos \ m.imap) >= Spare
    /\ Cardinality(Blks \ m.bmap) >= Spare

\* A slot nobody counts is loaded by iget() before anything reads it, unless
\* root or running->cwd points to it: its inode is forgotten.
Forget(m) ==
    [s \in Slots |->
        IF m.minode[s].refCount = 0 /\ s \notin {Root, m.cwd}
        THEN [Blank[s] EXCEPT !.dirty = m.minode[s].dirty]
        ELSE m.minode[s]]

\* The command leaves machine m.  A process that died leaves no memory.
Leaves(m) ==
    LET dead == m.st = "down"
    IN  /\ Bounded(m)
        /\ minode' = IF dead THEN Blank ELSE Forget(m)
        /\ cwd' = IF dead THEN NULL ELSE m.cwd
        /\ st' = m.st
        /\ itable' = [i \in Inos |-> m.itable[i]]
        /\ imap' = m.imap
        /\ bmap' = m.bmap
        /\ dir' = m.dir

-----------------------------------------------------------------------------
(* mkdir_creat.c.  A name that exists, or a parent that is no directory,   *)
(* returns 1 without giving the parent back.                               *)

\* Getting the parent of a new name: a record [m, s, enter], where enter says
\* that checkDir() found nothing wrong.
NewParent(m, path) ==
    LET name == Basename(path)
    IN  With(Fetch(m, Dirname(path)), LAMBDA p :
        With(CheckDir(p.m, p.s, name), LAMBDA m1 :
            [m |-> m1, s |-> p.s,
             enter |-> m1.st = "up" /\ MayEnter(m1, p.s, name)]))

MyMkdir(m, path) ==
    With(NewParent(m, path), LAMBDA p :
        IF p.enter THEN Kmkdir(p.m, p.s, Basename(path)) ELSE p.m)
MyCreat(m, path) ==
    With(NewParent(m, path), LAMBDA p :
        IF p.enter THEN Kcreat(p.m, p.s, Basename(path)) ELSE p.m)

-----------------------------------------------------------------------------
(* rmdir.c: the checks that the name exists, is a directory, is empty and  *)
(* is not in use are commented out; mip is never given back.               *)

\* Mutants: the count is kept; the count is an int.
LoseLink_Kept(inode) == inode
LoseLink_Wide(inode) == [inode EXCEPT !.links = @ - 1]

\* i_links_count--, on a u16.
LoseLink(inode) == [inode EXCEPT !.links = (@ + 65535) % 65536]
GainLink(inode) == [inode EXCEPT !.links = (@ + 1) % 65536]

MyRmdir(m, path) ==
    With(Getino(m, path), LAMBDA g :
        IF Basename(path) \in {".", ".."} THEN g.m
        ELSE With(Fetch(g.m, Dirname(path)), LAMBDA p :
             With(Iget(p.m, g.ino), LAMBDA m1 :
                IF m1.st # "up" \/ p.s = NULL THEN m1
                ELSE With(RmChild(Idalloc(m1, g.ino), p.s, Basename(path)), LAMBDA m2 :
                        IF m2.st # "up" THEN m2
                        ELSE Iput(Store(m2, p.s, LoseLink(Inode(m2, p.s))), p.s)))))

-----------------------------------------------------------------------------
(* link_unlink.c.                                                          *)

\* omip is given back only when the link is made; the new parent is given
\* back without being marked dirty.
MyLink(m, old, new) ==
    With(Fetch(m, old), LAMBDA o :
    With(Getino(o.m, new), LAMBDA g :
        IF g.m.st # "up" \/ g.ino # 0 \/ o.s = NULL THEN g.m
        ELSE IF IsDir(g.m, o.s) THEN g.m
        ELSE With(Fetch(g.m, Dirname(new)), LAMBDA p :
                IF p.m.st # "up" \/ p.s = NULL THEN p.m
                ELSE IF ~ IsDir(p.m, p.s) THEN p.m
                ELSE With(EnterChild(p.m, p.s, Entry(Basename(new), o.ino)), LAMBDA m1 :
                        IF m1.st # "up" THEN m1
                        ELSE Iput(Iput(Store(m1, o.s, GainLink(Inode(m1, o.s))), o.s), p.s)))))

\* The last steps of myUnlink(): f.s holds the file, of number f.ino.
DropFile(m, f) ==
    LET left == LoseLink(Inode(m, f.s))
    IN  IF m.st # "up" THEN m
        ELSE IF left.links > 0 THEN Store(m, f.s, left)
        ELSE Idalloc([m EXCEPT !.minode[f.s].INODE = left], f.ino)

\* mip is never given back; with no link left it is not marked dirty either.
MyUnlink(m, path) ==
    With(Fetch(m, path), LAMBDA f :
        IF f.m.st # "up" \/ f.s = NULL THEN f.m
        ELSE IF IsDir(f.m, f.s) THEN f.m
        ELSE With(Fetch(f.m, Dirname(path)), LAMBDA p :
                IF p.m.st # "up" \/ p.s = NULL THEN Deref(p.m, p.s)
                ELSE With(RmChild(p.m, p.s, Basename(path)), LAMBDA m1 :
                        IF m1.st # "up" THEN m1
                        ELSE DropFile(Iput(Store(m1, p.s, Inode(m1, p.s)), p.s), f))))

-----------------------------------------------------------------------------
(* symlink.c: mip is never given back; kcreat() gives npmip back and       *)
(* mySymLink() does it again; the name is looked up in the current         *)
(* directory, not in the parent of the new file.                           *)

\* The steps after kcreat() returned inode number nino; s is npmip.
MakeLink(m, s, nino) ==
    With(IgetPtr(m, nino), LAMBDA n :
    With(Deref(Iget(m, nino), n), LAMBDA m1 :
        IF m1.st # "up" THEN m1
        ELSE With(Store(m1, n, INODE("lnk", Inode(m1, n).links, 0)), LAMBDA m2 :
                Iput(Iput(Store(m2, s, Inode(m2, s)), n), s))))

MySymLink(m, old, new) ==
    LET name == Basename(new)
    IN  With(Fetch(m, old), LAMBDA o :
        IF o.m.st # "up" \/ o.s = NULL THEN o.m
        ELSE With(Fetch(o.m, Dirname(new)), LAMBDA p :
            IF p.m.st # "up" \/ p.s = NULL THEN p.m
            ELSE With(Getino(p.m, [abs |-> FALSE, comps |-> <<name>>]), LAMBDA g :
                IF g.m.st # "up" \/ g.ino # 0 THEN g.m
                ELSE MakeLink(Kcreat(g.m, p.s, name), p.s, FreeIno(g.m)))))

-----------------------------------------------------------------------------
(* cd_ls_pwd.c.                                                            *)

Cd(m, path) ==
    With(Getino(m, path), LAMBDA g :
        IF g.ino = 0 THEN g.m
        ELSE With(IgetPtr(g.m, g.ino), LAMBDA s :
             With(Deref(Iget(g.m, g.ino), s), LAMBDA m1 :
                IF m1.st # "up" \/ ~ IsDir(m1, s) THEN m1
                ELSE [Iput(m1, m1.cwd) EXCEPT !.cwd = s])))

\* Mutant: the entry is given back twice.
Visit_Twice(m, entry) ==
    LET t == IgetPtr(m, entry.ino)
    IN  Iput(Iput(Deref(Iget(m, entry.ino), t), t), t)

\* ls_dir(): every entry is fetched, printed and given back.
Visit(m, entry) ==
    LET t == IgetPtr(m, entry.ino)
    IN  Iput(Deref(Iget(m, entry.ino), t), t)

VisitAll(m, chain) == FoldLeft(Visit, m, chain)

LsBlock(m, b) == IF b = 0 THEN m
                 ELSE IF m.dir[b] = <<>> THEN Fail(m, "hung")
                 ELSE VisitAll(m, m.dir[b])

LsBlocks(m, blocks) == FoldLeft(LsBlock, m, blocks)

LsDir(m, s) == IF m.st # "up" THEN m
               ELSE IF Opaque(m, s) THEN Fail(m, "undefined")
               ELSE LsBlocks(m, Inode(m, s).block)

LsOf(m, s) ==
    IF s = NULL THEN Deref(m, s)
    ELSE IF m.st # "up" THEN m
    ELSE Iput(IF IsDir(m, s) THEN LsDir(m, s) ELSE m, s)

Ls(m, path) == With(Fetch(m, path), LAMBDA f : LsOf(f.m, f.s))

\* Without a path the current directory is listed whatever its type is.
LsCwd(m) == LET ino == m.minode[m.cwd].ino
                s == IgetPtr(m, ino)
            IN  Iput(LsDir(Deref(Iget(m, ino), s), s), s)

\* rpwd(): one level of the recursion reads ".." in the first block of wd,
\* fetches the parent and scans the first block of the parent for wd.
Climb(c, level) ==
    LET chain == c.m.dir[Inode(c.m, c.wd).block[1]]
    IN  IF c.m.st # "up" \/ c.wd = Root THEN c
        ELSE IF Opaque(c.m, c.wd) THEN [c EXCEPT !.m = Fail(@, "undefined")]
        ELSE IF chain = <<>> THEN [c EXCEPT !.m = Fail(@, "hung")]
        ELSE IF ~ Holds(chain, "..") THEN [c EXCEPT !.m = Fail(@, "undefined")]
        ELSE With(IgetPtr(c.m, InoOf(chain, "..")), LAMBDA up :
             With(Deref(Iget(c.m, InoOf(chain, "..")), up), LAMBDA m1 :
                IF m1.st # "up" THEN [c EXCEPT !.m = m1]
                ELSE IF Opaque(m1, up) THEN [c EXCEPT !.m = Fail(m1, "undefined")]
                ELSE IF m1.dir[Inode(m1, up).block[1]] = <<>>
                     THEN [c EXCEPT !.m = Fail(m1, "hung")]
                ELSE [m |-> m1, wd |-> up, trail |-> <<up>> \o c.trail]))

\* pwd(): the recursion ends at the root pointer; a climb that has not met it
\* after as many levels as there are slots is in a cycle and never will, and
\* the process dies when its stack is used up.
ClimbAll(c) == FoldLeft(Climb, c, [level \in 1 .. NMINODE |-> level])
IputAll(m, trail) == FoldLeft(Iput, m, trail)

Pwd(m) ==
    With(ClimbAll([m |-> m, wd |-> m.cwd, trail |-> <<>>]),
         LAMBDA c : IF c.m.st = "up" /\ c.wd # Root THEN Fail(c.m, "down")
                    ELSE IputAll(c.m, c.trail))

-----------------------------------------------------------------------------
(* main.c: the command loop, the start and the end of a run.               *)

\* A path with a last component, as the commands that split it are given.
Named == {p \in Paths : p.comps # <<>>}

Runs(command) == st = "up" /\ command \in Workload

Mkdir == Runs("mkdir") /\ \E p \in Named, j \in Junk : Leaves(MyMkdir(Now(j), p))
Creat == Runs("creat") /\ \E p \in Named, j \in Junk : Leaves(MyCreat(Now(j), p))
Rmdir == Runs("rmdir") /\ \E p \in Named, j \in Junk : Leaves(MyRmdir(Now(j), p))
Unlink == Runs("unlink") /\ \E p \in Named, j \in Junk : Leaves(MyUnlink(Now(j), p))
Link == Runs("link") /\ \E p \in Paths, q \in Named, j \in Junk :
                            Leaves(MyLink(Now(j), p, q))
SymLink == Runs("symlink") /\ \E p \in Named, q \in Named, j \in Junk :
                                  Leaves(MySymLink(Now(j), p, q))
\* The empty pathname, for which getino() returns an ino it has not set, is left out.
ChangeDir == Runs("cd") /\ \E p \in Paths, j \in Junk : Leaves(Cd(Now(j), p))
List == Runs("ls") /\ \E j \in Junk : \/ Leaves(LsCwd(Now(j)))
                                      \/ \E p \in Paths : Leaves(Ls(Now(j), p))
PrintDir == Runs("pwd") /\ \E j \in Junk : Leaves(Pwd(Now(j)))

\* quit(): Flushed in Minode says what the loop writes back, an inode number 0
\* over the variables of iput().
Quit == /\ Runs("quit")
        /\ \E j \in Junk :
              LET m == Now(j)
                  smashed == \E s \in Flushed(minode) : minode[s].ino = 0
              IN  Leaves([m EXCEPT !.itable = QuitDisk(minode, @),
                                   !.st = IF smashed THEN "undefined" ELSE "down"])

\* The process is killed between two commands, or while a command hangs.
Kill == /\ st \in {"up", "hung"}
        /\ "kill" \in Workload
        /\ \E j \in Junk : Leaves([Now(j) EXCEPT !.st = "down"])

\* main() up to its loop: init(), mount_root(), the current directories.
Boot == /\ st = "down"
        /\ minode' = IgetTable(IgetTable(Blank, itable, ROOT), itable, ROOT)
        /\ cwd' = Root
        /\ st' = "up"
        /\ UNCHANGED <<itable, imap, bmap, dir>>

Next == \/ Mkdir \/ Creat \/ Rmdir \/ Link \/ Unlink \/ SymLink
        \/ ChangeDir \/ List \/ PrintDir
        \/ Quit \/ Kill \/ Boot

\* A disk that mkfs made: the root directory alone.
Init == /\ st = "down"
        /\ minode = Blank
        /\ cwd = NULL
        /\ itable = [i \in Inos |-> IF i = ROOT THEN INODE("dir", 2, 1)
                                    ELSE INODE("none", 0, 0)]
        /\ imap = 1 .. ROOT
        /\ bmap = {1}
        /\ dir = [b \in Blks \cup {0} |->
                     IF b = 1 THEN <<Entry(".", ROOT), Entry("..", ROOT)>>
                     ELSE <<>>]

Spec == Init /\ [][Next]_vars

-----------------------------------------------------------------------------
(* What the users of the file system see.                                  *)

\* The INODE of a number: the copy in core if there is one.
Current(i) == IF InCore(minode, i) = {} THEN itable[i]
              ELSE minode[FirstOf(InCore(minode, i))].INODE

\* The directories and their entries.
Dirs == {i \in imap : Current(i).type = "dir"}
BlocksOf(inode) == {inode.block[k] : k \in 1 .. NDIRECT} \ {0}
Entries(i) == UNION {ToSet(dir[b]) : b \in BlocksOf(Current(i))}
Names == FileNames \ {".", ".."}
Children(i) == {e \in Entries(i) : e.name \in Names}

-----------------------------------------------------------------------------
\* The state has its type: i_links_count is a u16, block and inode numbers are
\* on the device.
TypeOK ==
    /\ minode \in [Slots -> MINODEs]
    /\ itable \in [Inos -> INODEs]
    /\ cwd \in Slots \cup {NULL}
    /\ (cwd = NULL) = (st = "down")
    /\ st \in {"up", "down", "hung", "undefined"}
    /\ imap \subseteq Inos
    /\ bmap \subseteq Blks
    /\ dir \in [Blks \cup {0} -> Chains]

\* An inode is in core at most once, with every command going through iget()
\* and getino() counting root and cwd by hand.
OneCopy == \A s, t \in {x \in Slots : minode[x].refCount # 0} :
               minode[s].ino = minode[t].ino => s = t

\* root and running->cwd point to slots that are in use and hold directories
\* of the tree: no command's iput() gives back what cd and mount_root() hold,
\* nor what nobody holds.
PointersPinned ==
    st = "up" => /\ \A s \in Slots : minode[s].refCount >= 0
                 /\ \A s \in {Root, cwd} : /\ minode[s].refCount > 0
                                           /\ minode[s].ino \in Dirs
                 /\ minode[Root].ino = ROOT

\* running->cwd names the same directory until cd moves it to another slot:
\* the slot is not recycled under it.
CwdKeepsInode ==
    [][cwd' = cwd /\ st = "up" /\ st' = "up"
            => minode'[cwd].ino = minode[cwd].ino]_vars

\* The directories form a tree: each is reached from /, its "." is itself, and
\* its ".." is the one directory that has an entry for it, which is what cd ..
\* and rpwd() climb along.
Holders(i) == {d \in Dirs : \E e \in Children(d) : e.ino = i}
Reach == LET More(S, i) == S \cup UNION {{e.ino : e \in Children(d)} : d \in S \cap Dirs}
         IN  FoldLeft(More, {ROOT}, [i \in 1 .. NINODES |-> i])
TreeShape ==
    /\ Dirs \subseteq Reach
    /\ Holders(ROOT) = {}
    /\ \A d \in Dirs : LET up == IF d = ROOT THEN {ROOT} ELSE Holders(d)
                       IN  /\ Cardinality(up) = 1
                           /\ {e \in Entries(d) : e.name \notin Names} =
                                {Entry(".", d)} \cup {Entry("..", u) : u \in up}

\* ls's link count: the i_links_count of a file in use is the number of the
\* entries that name it, however its names were made and removed.  A name may be in
\* a directory twice: link to a missing file enters number 0, which search() takes for
\* "not there" when the name is entered again.
Naming(i) == {x \in (UNION {BlocksOf(Current(d)) : d \in Dirs}) \X (1 .. BlockCap) :
                 /\ x[2] \in DOMAIN dir[x[1]]
                 /\ dir[x[1]][x[2]] \in [name : Names, ino : {i}]}
LinkCountsExact ==
    \A i \in imap : Current(i).type = "reg"
                        => Current(i).links = Cardinality(Naming(i))

\* An inode number that an entry names is not free for the next file: its bit
\* is cleared with the last of its names, not before.
NamedAllocated ==
    \A d \in Dirs : \A e \in Children(d) : e.ino \in imap \cup {0}

\* No two inodes in use, and no two pointers of one, share a data block, and
\* every block in use is marked in the block bitmap.
Linked == {ROOT} \cup {e.ino : e \in UNION {Children(d) : d \in Dirs}}
Owned(i) == {k \in 1 .. NDIRECT : Current(i).block[k] # 0}
BlocksPrivate ==
    /\ \A i \in Linked \ {0} : BlocksOf(Current(i)) \subseteq bmap
    /\ \A i, j \in Linked \ {0} : \A k \in Owned(i), l \in Owned(j) :
           Current(i).block[k] = Current(j).block[l] => i = j /\ k = l

\* mkdir, creat and unlink implement FileTree on the tree the program sees:
\* killing the program or leaving it, and starting it again, changes nothing.
Tree == INSTANCE FileTree WITH
            names <- {[dir |-> x[1], name |-> x[2].name, ino |-> x[2].ino] :
                         x \in {y \in Dirs \X UNION {Children(d) : d \in Dirs} :
                                   y[2] \in Children(y[1])}},
            kind <- [i \in Linked |-> Current(i).type]
ImplementsFileTree == Tree!Spec

\* "exit YOUR project; diff2 MUST not show any lines": leaving the program
\* with quit puts every inode on the disk as the program saw it.
QuitKeepsInodes ==
    [][st = "up" /\ st' = "down" => \A i \in Inos : itable'[i] = Current(i)]_vars
=============================================================================
