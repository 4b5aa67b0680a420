# The EXT2 file system of `Final/src`, with the shell of `lab3` and the tree of `lab2`, specified and verified

The repository is a set of systems-programming labs that ends in `src/Final`, a
user-level EXT2 file system: a command loop that opens a disk image and runs
`ls cd pwd mkdir rmdir creat link unlink symlink open close lseek read write cat
cp quit` on it. Two of the earlier labs are programs with a life of their own: the
shell of `lab3` and the file tree simulator of `lab2`. This directory holds TLA+
modules for these three, the TLC configurations that check them and the proofs
TLAPS checks.

## 1. Inventory

`src/Final/src` is the last stage of the file system and carries the core logic;
`level1/mountroot` is an older copy of the same files and `lab5` the first sketch
of lookup, `cd`, `ls` and `pwd`. `lab1` to `lab4` are separate small programs, which
share no state with it or with each other.

| component | state | operations | correct when |
|---|---|---|---|
| in-core inode table (`util.c`, `main.c`) | `minode[NMINODE]`: `ino`, `refCount`, `dirty`, `lock`, `INODE` | `iget`, `iput`, `midalloc`, write-back in `quit` | an inode is in core once; a slot counts its users; clean means equal to disk; the last release makes the inode durable |
| bitmaps (`util.c`) | two bitmap blocks on disk | `ialloc`, `balloc`, `idalloc`, `bdalloc` | a number is handed out once and freed with its last use |
| pathname lookup (`util.c`) | `gpath`, `name[]`, `n` | `tokenize`, `search`, `getino`, `makePath`, `checkDir` | finds what the tree holds, ends, and leaves every count as it was |
| directory entries (`mkdir_creat.c`, `rmdir.c`) | directory blocks | `enter_child`, `rm_child` | one entry more, one entry less, the others untouched |
| name space commands (`mkdir_creat.c`, `rmdir.c`, `link_unlink.c`, `symlink.c`) | all of the above | `myMkdir`, `myCreat`, `myRmdir`, `myLink`, `myUnlink`, `mySymLink` | the directories form a tree, link counts are exact, changes survive the end of the program |
| `cd`, `ls`, `pwd` (`cd_ls_pwd.c`) | `running->cwd` | | the current directory stays the one chosen; listing changes nothing |
| start, loop, `quit` (`main.c`) | `root`, `running`, `proc[]` | `init`, `mount_root`, `main`, `quit` | what was seen before `quit` is on the disk |
| open files (`open_close_lseek.c`) | `running->fd[NFD]`, OFTs, `lock` | `open_file`, `close_file`, `myLseek`, `dup`, `dup2`, `pfd` | a descriptor names an open file; a file is open once for its `lock` |
| data (`read_cat.c`, `write_cp.c`, `myTruncate`) | `i_block[]`, indirect blocks, `i_size` | `myRead`, `mywrite`, `myCat`, `myCp` | what was written is read; a copy equals its source |
| shell (`lab3/main.c`) | processes, `pid1`, `pid2`, `fd[]`, standard input and output, pipes | `main`, `pipeIt`, `pipeNext`, `fork`, `execve`, `wait` | one reader of the terminal; a pipeline ends, with all its processes, before the next prompt; no circle of waits |
| file tree simulator (`lab2/lab2.c`) | `root`, `cwd`, nodes with child, sibling and parent, `tree.txt` | `mkdir`, `creat`, `rmdir`, `cd`, `ls`, `pwd`, `save`, `reload`, `quit` | the pointers agree; a command changes the name it is given; `reload` makes what `save` wrote |
| file client (`lab4/client.c`) | a connection | requests and answers | not modelled, section 6 |
| `printf`, partition table (`lab1`) | none | | not modelled, section 6 |

The components interact by calls on shared state: every command takes slots with
`getino`/`iget`, changes the `INODE` of a slot and directory blocks on disk, and
gives slots back with `iput`, which writes the inode when the count falls to 0.
Directory blocks and bitmaps are written at once; inodes are written late. The file
system has one thread and one user process, so its hard behaviours are not
interleavings of threads. They are long sequences of legal commands over a table
of counts that must come out even, early returns that skip a release, an inode
that exists in core and on disk with different values, the table running full in
the middle of a command, and the end of the program (`quit`, a kill, a NULL
dereference) between any two commands or in the middle of one. A directory block
is hard in its own way: its lengths come from two sources (`name_len` and
`strlen`), and removed names leave bytes behind.

The shell is where processes interleave: it forks, its children share the terminal
and pipes with it and with each other, a child comes back into code its parent runs
as well, and each waits for ends of pipes and for children that may be waiting too.
In the tree simulator it is pointers: `rmdir` frees a node that a list, or `cwd`,
may go on using.

The hazards, each at its line and with the properties that guard it, are listed
in `PROJECT.json`.

## 2. Modules

| module | models |
|---|---|
| `Minode` | `iget`, `iput`, `midalloc` and the loop of `quit` as operators on a table and the inodes on disk |
| `InodeStore` | abstract: an inode has one current and one durable value; no slots, no dirty flags |
| `MinodeCache` | the table under users that keep its contract: `Iget`, `Iput`, `Modify`, `NewInode` (the `refCount = 0` trick of `kcreat`), `Quit`, `Kill`, `Boot`; refines `InodeStore` |
| `MinodeCacheProofs` | the theorems about `MinodeCache` |
| `Machine` | the routines commands are made of, as operators from a machine (table, `cwd`, inodes, bitmaps, directory blocks, status) to a machine: bitmaps, `search`, `getino`, `enter_child`, `rm_child`, `kcreat`, `kmkdir` |
| `FileTree` | abstract: a tree of names with `Make` and `Unlink`, in which ending and starting the program are no steps at all |
| `Namespace` | the command loop: one action for each command, `Quit`, `Kill`, `Boot`; the properties; the mapping to `FileTree` |
| `NamespaceProofs` | theorems about `Namespace`: types, blocks, copies and pointers |
| `TreeProofs` | theorems about `Namespace`: the tree of names |
| `ByteFiles` | abstract: a file is a sequence of bytes, open at one place at most, with the sequence the end of the program would leave behind |
| `OpenFiles` | descriptors, locks and references, block pointers and data on disk: `open close lseek read write cat cp quit` on regular files and a kill; refines `ByteFiles` |
| `OpenFilesProofs` | the theorems about `OpenFiles`, its refinement included |
| `DirMap` | abstract: a directory is a map from names to numbers |
| `DirBlock` | `search`, `enter_child` and `rm_child` on the bytes of directory blocks; refines `DirMap` as long as the code keeps its directory at all |
| `DirBlockProofs` | the theorems about `DirBlock` |
| `Numbers` | two lemmas on sets of numbers, which the proofs use for induction |
| `Shell` | the shell as processes: one action for each system call of `main`, `pipeIt`, `pipeNext`, of the programs it runs and of the user |
| `ShellProofs` | the theorems about `Shell` |
| `SimTree` | the simulator: one action for each command, on nodes and pointers |
| `SimTreeProofs` | the theorems about `SimTree` |
| `MCMinodeCache`, `MCNamespace`, `MCOpenFiles`, `MCDirBlock`, `MCSimTree` | finite instances (`Shell` needs none) |

A command is one action: the program is sequential and nothing else looks at its
state while it runs. Inside the action the calls follow the code in order, and
the machine's field `st` carries the early end: `"down"` after `exit` or a
dereference of NULL (the disk keeps what had been written by then, the memory is
gone), `"hung"` in a loop that cannot advance, `"undefined"` when the code reads
bytes that are not what it takes them for, after which the model says nothing.
Undefined are: using the block pointers of inode number 0 or of a symbolic link
(its text lies over them), writing back inode number 0 (`iput` stores it 128
bytes below its own buffer), and a scan of directory entries outside a chain.
`iget(dev, 0)` itself reads the bytes below its buffer; `Junk` enumerates what
they may look like.

Data are abstracted to what the properties see. A pathname is a sequence of
components with a flag for a leading slash; a directory block is a sequence of
`[name, ino]` (names are members of `FileNames`), `<<>>` for a block of zeros; how many
entries fit is `BlockCap`.
Sizes, owners, modes beyond the type, and times are left out. `Forget` erases
from a slot that counts 0 and is not `root` or `cwd` what the next `iget`
overwrites anyway; its dirty flag, which `iget` does not reset, is kept.

`OpenFiles` is beside `Namespace`, not on top of it: its files exist, their names
never change, and each has a `MINODE` of its own (that the slots give it one is the
`cache` run). What it keeps of `iget` and `iput` is the count, the lock, the dirty
flag and when the `INODE` is read and written. Its blocks are real: `i_block[]` with
direct, indirect and double indirect pointers, pointer blocks and bytes on disk,
`balloc`. `BLKSIZE`, `NDIRECT`, `NIND` are 1024, 12, 256 in the program and 1 or 2
here. A file may have had its inode number from another (`Reusing`), whose `i_block[12]`
and `i_block[13]` `kcreat` does not clear: it starts with none, one or both of them, the
pointers in those blocks and old bytes behind them. `MyRead` returns the count and `buf[]`
as the code leaves it, each block copied over the one before (section 5). Left out: `open` of a missing file (`myCreat`, in
`Namespace`) and of a directory (refused, with one more reference); the inode bits
that the `bdalloc` calls of `myTruncate` clear, which nothing here reads; a disk that
is full; numbers typed for a descriptor outside the array; negative numbers of bytes;
the byte `cp` writes behind its buffer; a text with a byte 0. A text may be longer
than typed, since `main` does not terminate `writebuf`. `dup` and `dup2` have no
command. `"undefined"` there is an `OFT` pointer without a value (`lseek` with nothing
open) or read behind `running->fd[]` (`cat` and `cp` with no descriptor free).

`DirBlock` is below `Machine`: the same three routines, with `rec_len`, `name_len`,
the names' bytes, the bytes nobody overwrote and those nobody wrote (`Junk`, what
`modBuf[]` in `rm_child` is found to hold, a block of any bytes). In `Machine` a block is a sequence of
entries and `BlockCap` says how many fit; `DirBlock` shows when that is right.
`"undefined"`: a write behind the buffer; `"hung"`: the loop on a zeroed block;
`"skewed"`: a scan of a block with the `size`, `removedSize` or `prevDp` of an
earlier one. `ImplementsMap` maps all three to `lost`. `BLKSIZE` is 1024 in the
program and below 256 here, so that a `rec_len` is one byte. Left out: the allocation
itself (a new block is a copy of block number 0, which is zeros), and `file_type`.

`Shell` has a step for each system call; the `dup2` and the two `close` of a child
are one step, since nobody else sees them apart. The state of a process is its place
in the code (`pc`, `fn`), its descriptors, and the variables that decide what it does
next; a `fork` copies them, an `execve` keeps the descriptors. What is external
(pipes, `wait`, `exit`, the reaping of orphans, `SIGPIPE`, a program that reads its
input or does not) is modelled as POSIX has it and as the shell relies on it. `execve` may
fail: the child of the loop ends, the child of a pipeline goes on in the code of its
parent, which is what the source does. `fork` and `pipe` are refused when the limits
are reached. `trouble` is a history variable that tells such runs apart. The search of `PATH` opens
directories and closes none (`checkdir`). The model assumes that `PATH` names at least
one, that all of them exist and that the limit of open files is not met, and keeps what
they do to a pipeline: `pipeIt`, called by a child that has just closed both ends of its
pipe, opens directories at those two numbers, so that after its return `fd[]` of
`pipeNext` names directories (`Return`, `DIR`). `execve` closes them. Redirection, which
gives a child a file for its standard output, and `cd` are left out.

`SimTree` keeps a name as a sequence of characters, because `goto_path` and
`makeFile` mix the characters of components: a buffer is not cleared between them, and
all components but the last are strung together. A node is freed by `rmdir`; if
anything still leads to it the state is `"undefined"`. Nodes that nothing leads to any
more are collected, so that a run may go on (they are leaked in the code).

`users` in `MinodeCache` is a history variable: the pointers handed out by `iget`.

Definitions named after another one with a suffix (`IgetTable_Uncounted`) are
faulty variants of it; no specification uses them. Each shows that a property
notices a plausible fault: put in the place of the original, it makes TLC find the
property violated.

## 3. Runs

| run | instance | shows |
|---|---|---|
| `cache` | 2 slots, 3 inodes, 2 contents, up to 3 references | all properties of `MinodeCache`, and that it implements `InodeStore`; slots are recycled and the table fills up |
| `tree` | 3 slots, 5 inodes, all junk | `mkdir creat cd ls pwd quit kill`: an inode is in core once, `root` and `cwd` stay pinned and `cwd` keeps its inode, the directories form a tree with right `.` and `..`, and the program implements `FileTree` although refused commands leak references until the table is full and `iget` panics in the middle of a command |
| `files` | same | `creat unlink ls cd quit kill`: `FileTree` again, where inode numbers are reused while leaked slots still hold the old inode |
| `links` | 5 slots, two files of `/` and one below a file, up to 6 entries | `creat link unlink`: link counts are exact, even when a name is in the directory twice, and inode numbers are freed with the last entry |
| `all` | 2 slots, 4 inodes, two paths, directories of 2 blocks of 3 entries | every command, `rmdir` and `symlink` included: types, and private blocks even so, while directories gain and lose a block |
| `io` | 1 file of a new inode number or a used one with one or two levels of old pointers, blocks of a byte, 1 direct pointer, 2 in a block, up to 7 bytes (all levels) | every command: reads count what is left, no block has two pointers to it in core or on disk and all are marked, and the program implements `ByteFiles` |
| `descriptors` | 3 files, 2 descriptors, 1 byte | every command: types, an open file is locked, held and open once, no slot is given back locked, and `ByteFiles` again: a command changes only the files it names |
| `cp` | 2 files of up to 3 bytes, blocks of 2, 2 descriptors | `open lseek read write cp quit`: a read counts what is left of the file, up to the number asked for, and one within a block has its bytes in `buf[]`, from the offset on, also after an `lseek` of a file that is not open has moved the offset of the other one; `cp`, block by block, is one overwrite of the beginning of the target, whichever is longer |
| `dir` | 2 blocks of 44 bytes, 4 names of 1, 4, 5 and 24 bytes, 2 inode numbers, 2 kinds of junk | names entered and removed in any order: `search` finds what was entered and no other (`DirMap`), entries do not overlap, what is removed is gone, and a name is dropped only when it really does not fit |
| `shell` | 6 processes, 2 pipes of one line | commands and pipelines of two and three, nested as deep as the processes allow, with one missing command: one reader of the terminal, no circle of waits, a clean prompt, and the user is asked again (liveness) |
| `simtree` | 5 nodes, 4 pathnames and `cd` alone, 3 lines of `tree.txt` | every command and restarts: the pointers agree, `mkdir` and `creat` leave other pathnames alone, `reload` makes what `save` wrote |
| `quit_grown` | small | the code does not do what the demo sheet says; see section 5 |

Bounds. `MaxRefs` bounds the references a run may leak (each leak needs one
refused command), `MaxEntries` the entries of a block, `MaxLinks` a link count
(the wrapped 65535 is kept), `Spare` keeps one inode and block number free;
a count below -1 is cut off. Three slots are enough for root, one inode held and
one recycled, and for the table to be full with one leak more; two names and
depth two give a parent different from `/` and from the current directory, which
the faults found need. In `links` the table has more slots than `MaxRefs` can
fill, so that no crash loses a link count that is in core only: the count on
disk is not exact after a kill, because `unlink` keeps the inode in core. The
directory has room for 4 names there: a file, a link made without one and two more of
the same name must fit, since only then do names and entries differ in number (section 5).

In `OpenFiles`, `MaxSize` bounds a file and `MaxRefs` the references that `lseek`,
refused `open` and `cp` leak; `io` reaches past the first slot of the double indirect
range, and its long text crosses every boundary. In `cp` one reference is the limit,
so that an `lseek` of a file that is open is left to `io` and `descriptors`. Three files
are one more than the descriptors. `ByteFiles` cannot be had with a program that keeps less: its `End` may
keep, for each file, either what the program held or what a kill would leave.

In `DirBlock` a block of 44 bytes holds `.`, `..` and one more entry, a second one
up to three; the lengths of the names are below a multiple of 4, on it, and one
behind it, so that `strlen` sees the bytes of the name that was there before, and the
name of 24 bytes leaves the room for one entry exactly, so that directories are full.
Memory nobody wrote is full of the byte of another name, or has a 0 at every third byte.
`MaxDrift` bounds how far a chain may end behind its block. Two blocks reach the new
block, the full directory and the removal in a second block.

In `Shell` six processes are a shell, the two children of a pipeline, the two of the
one nested in it, and one more; a pipe of one line makes a writer of two block. The
bounds in the guards: one command of a pipeline is missing, and after a refused
`fork` or `pipe`, of which the properties say nothing, the user only types `exit`. In
`SimTree`, `DeepPaths` has a name that is two others strung together, a relative and
an absolute pathname, and one too deep for the code; `Chars` are the two characters
that tell them apart, and `NNODE` bounds the nodes.

`CHECK_DEADLOCK FALSE` is given where the program really stops: `Namespace` and
`OpenFiles` in an endless loop when no kill is in the workload, and in `"undefined"`;
`DirBlock` in `"hung"`, `"skewed"` and `"undefined"`; `SimTree` in `"undefined"`;
`Shell` when the first shell has ended. `MinodeCache` is checked for deadlock.

Fairness. The file system and the simulator act when the user types, and promise
nothing that must happen. `Shell` assumes weak fairness of the steps of each process
(`WF_vars(Runs(p))`): a process that can run and goes on being able to is scheduled.
What the user does, at a prompt or for a program that reads the terminal, is not
fair: the user may leave. Weak fairness is enough, because what enables a step of
a process (a line in its pipe, a child that has ended) stays until it takes it.
`UserIsAsked` then says that the scheduler alone brings the user back to a prompt or
to a program that reads what is typed.

## 4. Proofs

`MinodeCacheProofs` proves for every number of slots, every set of inodes and
contents:

- `TypeCorrect`, `InCoreOnce`, `CountsExact`, `CleanMatchesDisk`: the invariants of
  the `cache` run;
- `HeldSlotsKept`: the action property `HeldSlotKeepsInode`;
- `CacheImplementsStore`: `Spec => Store!Spec`.

The assumptions are those of the modules: at least one slot, inode number 0 is not
on the device, `ROOT` is. (`MaxRef` only cuts off TLC's counters.) The inductive
invariant is the conjunction of the four invariants with the fact that the program,
when it is not up, has an empty table. They need each other: that a hit is unique
(`UniqueInCore`) uses that a slot in use counts its users and names an inode; that
`iput` loses nothing uses `CleanInSync`; that a held slot is not recycled is
`RefCountIsUsers`. The facts about `iget` and `iput` are lemmas about the operators
of `Minode` (`FirstExists` and the lemmas after it: what the returned slot is, and
which fields of which slot change). One step per action, under it one per conjunct.
The refinement maps the current value of an inode to the copy in core, or the disk's;
each action maps to the action of the same kind, or to a stutter when `iget` returns
NULL.

`ShellProofs` proves for every number of processes and pipes and every capacity of a
pipe (`LimitsAssumption`: each at least one):

- `ShellTypes`: the type invariant; with it, that no pipe holds more than fits and
  that the variables for children never name the process itself;
- `CleanPrompt`: `PromptIsClean`;
- `OneAtTerminal`: `OneReader`;
- `NobodyWaitsInACircle`: `NoWaitCycle`;
- `ShellInvariant`: `Inv` is inductive, which these follow from, the last one with
- `OrderInvariant`: while no call was refused the processes stand in an order (below).

Neither `PromptIsClean` nor `OneReader` is inductive. `Inv` adds, for runs in which no
call was refused (`Calm`): a process holds both ends of its pipe or none, and none
outside the code of a pipeline; its children are among those its variables name at
that place in the code, and there are none where it asks, starts an image or runs
one; and of the processes with the terminal at their standard input (the second child of a
fork, which is about to put a pipe or a directory there, does not count) only one has no
child of the same kind. The last says that these processes form a line. The child that
returns from `pipeIt` is one of them, and the one it forks is not, its `fd[]` naming
directories; but where the first command of a pipeline is missing its child goes on in
`pipeIt` with both ends closed, the child it forks keeps the terminal, and must therefore
be its only one. The
lemmas follow the shape of the steps: `OwnStep` (only the process itself changes),
`WaitStep` (a child is reaped), `ExitStep`, `ForkStep`; `CalmStep` has a step for each
action. `ChildIsFree` (the least free process exists) and `SomeEnd` (a relation without
circles has an end) rest on the well-foundedness of the subsets.

`NoWaitCycle` needs more than who holds what: whether a pipe makes its readers wait or
its writers changes with every line, so no order of the processes alone decreases along
the waits. `Ordered` says that there is a line on which the pipes and the two sides of the
terminal lie (`pos`), each process between its input and its output (`left` is where its input lies
or, if that is a directory, lay before: nobody writes there), and a tree of
descendants (`desc`), such that descendants stand inside their ancestors and all other
processes beside each other (`Spans`); a child forked in a pipeline stands from the fork
on where its `dup2` will put it. `pipe()` puts its pipe between the ends of the process
(`Stretched`), a fork divides them there, and everything else leaves the line alone
(`OwnOrdered`, `ReapOrdered`, `ExitOrdered`, `PipeOrdered`, `ForkOrdered`; `OrderedStep` has
a step for each action). `NoCircle` then takes a set of processes each of which waits
within the set, and in it the first one without descendants that waits for its left and
the one before it, which waits for its right: the two they wait for would have to overlap.
The order was checked with TLC on the instance of the run `shell` before it was proved.

`OpenFilesProofs` proves for every set of files, of bytes and of texts, every number of
descriptors, every size of a block, number of direct pointers, number of pointers in a
block and size of the disk:

- `FilesTypes`: the type invariant; through three levels of pointers no offset, size or
  block number leaves its range;
- `LockGuards`: `LockGuardsOpen`;
- `PrivateBlocks`: `BlocksPrivate`;
- `DeliveringReads`: `ReadsDeliver`, the count of every read and, of those within a block
  (all of `cat` and `cp` are), the bytes;
- `FilesAreBytes`: `Spec => ImplementsByteFiles`, the refinement;
- `FilesInvariant`: `Inv` is inductive; all the others follow from it.

The assumptions are `ParametersAssumption` (positive numbers, a file fits its
pointers), `InputsAssumption` (a text has no byte 0) and `FilesAssumption` (the files
are finitely many, and their first blocks and the blocks left over by earlier files
leave one clear). Of the bounds in the guards two matter to the proof: `MaxSize`, and
that the commands considered leave a clear block (`bmap # Blks`): on a full disk
`balloc` returns 0, and the properties are false. `MaxRefs` is not used.

`Inv` says that the machine is `Sound`: it has its type, and

- `Locks`: an open file is locked and open once; what is locked is held and dirty;
- `Clean`: an `INODE` that is held and not dirty is the one on disk. `iput` writes only
  dirty ones, so this is why a close loses nothing but what the leaked references keep;
- `Offsets`: no offset is behind the end, although truncation takes the end away:
  only a file that is not locked is truncated, and a locked one is open once;
- `Private`: the pointers of all inodes, in core and on disk, and of all blocks of
  pointers they lead to. `BlocksPrivate` itself is not inductive: a block of pointers
  that is reached from the disk's copy of an inode only must not be handed out,
  so the invariant speaks of both copies and says that they agree where the
  one on disk is not null; that block 0, which a null pointer leads to, is zero stands
  for the check the code does not make;
- `Filled`: no byte below the size of a file is 0, on disk and in core. This is what
  `ReadsDeliver` needs (a block that begins with 0 ends a read), and it holds because
  `mywrite` leaves no hole: it starts at the end at most.

A machine is not sound between the allocation of a block and the byte written to it,
so the lemmas are about the two together (`WriteByteMakes`), and the loops of `mywrite`
and `myCp` are recursive functions over the number of rounds; `SetInduction` gives the
induction over it as a fact about a set of numbers, which needs no operator as a
parameter. When the disk fills in the middle of a command, `Private` and `Filled` are
given up from there on (`Sound` asks for them only while a block is clear); the guard
of the command, which looks at its end, then refuses it.

The refinement maps a machine to what its files hold (`HoldsOf`), what the disk would
give back (`SavesOf`) and where they are open (`AtOf`), and has a lemma for what each
routine does to these three: `WroteViews` (a write is an `Overlay` of what is held,
and an `InPlace` of what is saved, since the blocks are written and the size is not),
`OpenedViews`, `ShutViews`, `MoveViews`, `CpCopiesViews`. A step lemma for each command
then names the action of `ByteFiles`, or the stutter (`cat`, and every refused
command, whatever reference it leaks).

`DirBlockProofs` proves for every number of blocks, all names and inode numbers, and
every block of 24 to 255 bytes (in the model a `rec_len` is one byte):

- `DirTypes`: the type invariant;
- `EntriesDoNotOverlap`: `EntriesApart`;
- `RemovedNamesAreGone`: `RemovedIsGone`;
- `NothingDroppedWhileThereIsRoom`: `DropsOnlyWhenFull`;
- `DirectoriesAreMaps`: `Spec => ImplementsMap`, the refinement;
- `DirInvariant`: `IInv` is inductive; all the others follow from it.

The assumptions are those of `DirBlock`: a name is not empty, has no byte 0, fits a
block (a typed line has 128 bytes, a block 1024) and is not `.` or `..`, which `rmdir`
refuses (`rmdir.c:130`) and the other commands find to be there, or a directory; an
inode number is not 0. `MaxDrift` cuts off the steps that would take a chain further behind its
block; the theorems hold for each value of it that keeps a `rec_len` in its byte.

`IInv` says, while the directory is in use, that each block is `Sound`: its chain is
`Linked` (each entry has a number, a name free of zeros within the block and within its
`rec_len`; each `rec_len` leads to the next entry, and that of the last at most
`MaxDrift` behind the block), no name is in it twice, and `Packed(b) + Room(b) >= BLKSIZE`;
and that no two blocks have a name in common. The number is what `search` returns, so it
takes a 0 for "not there" only because of it. That names are free of zeros is why
`strlen` never cuts an entry short, whatever bytes are behind the name: it finds at
least `name_len` bytes (`StrLenCovers`), and the harm it does is at the end of the
chain only. That removals leave no gaps, which `DropsOnlyWhenFull` is about, needs that every
entry but the last has at least its ideal length, and that the bytes of a removed one
go to the last, wherever in the block it was (`LastRemoved`, `InnerRemoved`).

`Chain`, `Last` and `Packed` are recursive functions over offsets; `ChainRecursion` and
`LastRecursion` build the function from the end of the block (`SetInduction`), and
`ChainIs` then says that any sequence of offsets linked by their `rec_len` is the
chain. So a lemma about a write names the new sequence and shows it linked:
`EnterBlock`, `NewBlock`, `LastRemoved`, `InnerRemoved`, `FirstBlock`. `RmChild` is the
loop of `rm_child` over the blocks: as long as it comes to an end each block has lost
the name and nothing else. The refinement maps a directory to the set of its entries
of the names in question: `EnterEffect` and `RemoveEffect` name the steps of `DirMap`.

`NamespaceProofs` proves for every number of slots, of inode and block numbers and of
block pointers of a directory, all names and pathnames, and every number of entries in
a block that is at least 2:

- `SpaceTypes`: the type invariant, with every command;
- `InodesOwnTheirBlocks`: `BlocksPrivate`, with every command;
- `OneCopyInCore`: `OneCopy`;
- `RootAndCwdAreHeld`: `PointersPinned`;
- `CwdIsNotRecycled`: the action property `CwdKeepsInode`;
- `SpaceInvariant`: `SpaceInv` is inductive; all the others follow from it.

The third to fifth assume `Careful`: the session types `mkdir creat link cd ls pwd quit`,
and may be killed. They are false for the commands left out, and the faults are the
program's: `rmdir` frees the number of the current directory, `symlink` gives the parent
back twice, and an `unlink` in a directory with a block of one entry lets `bdalloc` clear
the inode bit of whatever directory has that block's number, and hangs; the next run
finds the bit cleared. The assumptions on the constants are
`NMINODEAssumption` and `GeometryAssumption` (a slot, inode numbers up to 2 at least, a
block pointer, room for `.` and `..`), and that names and what `iget(dev, 0)` reads have
their types (`NamesAssumption`, `PathsAssumption`, `JunkAssumption`). None of the bounds
is used.

A command is a single step of `Namespace` and a long way through the code, so the proof
is about the machines in the middle of it. `Ok(m, hold, c, i)` says of a machine that

- `Apart`: the block pointers of all inodes, in core and on disk, of numbers in use or
  not, lead to marked blocks, and no two of them to the same one, except those of the
  copies of one inode. `BlocksPrivate` speaks of `Linked` inodes and is not inductive:
  what a slot nobody counts holds is read again by the next `iget`, and what the disk
  holds by the next run;
- `Pinned`: no slot counts fewer references than `hold` has, where `hold` is what
  somebody has in hand at that point of the code. Counts may be too high, which is what
  leaks do to them; if they were too low, a slot would be recycled under its user.
  With it come `Once` (an inode is in core once) and `Marked` (the number of a
  directory is allocated, and a directory on disk is one in core). These are needed for
  `kcreat`, which forces a count to 0: the slot is a new inode's, whose number was
  free, so none of those in hand, which hold directories.

There is a lemma for each routine that says what it does to `hold`: `IgetOk` adds the
slot returned, `IputOk` takes it away, `CountOk` is the reference `getino` makes by
hand, `GetinoOk` and `EnterAndReleaseOk` come out even, `FetchOk` keeps one. A command is
even (`MyMkdirOk`, `MyLinkOk`, `LsOk`, `PwdOk`), and `cd` (`CdOk`) trades what it holds for
what `running->cwd` held. The loops are folds: `FoldExists` shows by `SetInduction` that
the function their definition chooses exists, `FoldSteps` that it passes from one
machine to the next; `WalkFold`, `VisitAllFold`, `LsBlocksFold`, `RmBlocksFold`,
`ClimbAllFold` and `IputAllFold` apply them. `pwd` takes a slot at each level and gives
all of them back at the end, so its `hold` grows and shrinks with the trail (`Backed`).
Between two commands `hold` is `Pins(cwd)`: one for `root`, one for `running->cwd`. For
`rmdir`, `unlink` and `symlink` only `Apart` is carried through.

`TreeProofs` goes on, with the same assumptions on the constants, from the machine to
the entries:

- `NamesAreAllocated`: `NamedAllocated`, for the sessions of `Careful`;
- `DirectoriesFormATree`: `TreeShape`;
- `TreeImplemented`: `Spec => ImplementsFileTree`, the refinement;
- `TreeKept`: `TreeInv` is inductive; the two before follow from it.
- `LinkCountsAreExact`: `LinkCountsExact`, for the sessions of `Linking`, with `unlink` in
  them;
- `LinkedIsAllocated`: `NamedAllocated` for those.

`CalmInv` adds to `SpaceInv` that the number of every slot (`Known`) and of every entry
of every block (`Listed`) is allocated or 0. Slots are in it because a lookup fetches
what an entry names and `link` enters the number of a slot it has fetched. Most routines
only look: `Serves(W, I)` says of a set of machines `W` that it is closed under the five
steps that lookups, `cd`, `ls` and `pwd` are made of (a fetch, a release, a count by
hand, a change of `cwd`, a stop), with `I` the inode bitmap throughout, and a lemma for
each routine says that it stays in such a set (`WalkServes`, `FetchServes`,
`NewParentServes`, `LsServes`, `PwdServes`, `CdServes`). `TameServes` is the instance for
`Known` and `Listed`; what writes (`TameMake`, `TameEnter`, `TameLink`) has a lemma of its
own.

`DirectoriesFormATree`, `TreeImplemented` and `TreeKept` assume `Growing`, the sessions of the run `tree` (`mkdir creat cd ls pwd
quit`, and kills), and `Roomy`. `link` is left out because `FileTree` has no step for it
and because `link` of a missing file enters number 0. `Roomy` says that a run leaves an
inode number and a block (`Spare`), and that the first block of a directory is never
full (`MaxEntries`): at those limits the properties are false, since `ialloc` and `balloc`
return 0, which no caller tests, and since the block that a directory grows by while it
is in core twice is lost (section 5). There is no assumption on the number of slots: the
table may fill up, and `iget` panic anywhere in a command.

`TreeInv` is `CalmInv` and, of the machine between two commands:

- `Coherent`: the `INODE` of every slot has the type and the blocks of the one on disk. This is
  why a kill loses no part of the tree: what is in core only is a links count, which
  nothing that climbs or searches reads. It holds because `kcreat` and `kmkdir` force the
  new inode out, and because in `Roomy` no directory changes its blocks;
- `Shape`, of what is on disk: the numbers in use are the first ones (`Numbered`), so that
  a new one is larger than all others; a directory has one marked block of its own
  (`Packed`), `"."` and `".."` in front, the latter a directory with a smaller number
  (`Dotted`), names of allocated inodes behind them (`Filled`), and is named by its parent
  (`Downward`) and no other (`Upward`). That a parent has the smaller number is what makes the
  graph of directories a tree: `ReachAll` shows by `SetInduction` that `k` rounds of
  `Reach` get to all directories with numbers up to `k + 2`;
- `Room`, what `Roomy` gives the next command.

`Moves` says what a step does to the tree: nothing (`Alike`: types, blocks and entries
are the same), a number and a block marked that nothing leads to (`Orphaned`: `iget`
panicked after `ialloc`), or one new inode with one new name (`Added`). The commands that
only look stay `Near` the machine they start on, which is the instance `NearServes` of
`Serves`; `mkdir` and `creat` are followed through `EnterHere`, `ReleaseHere`, `NewHere`,
`WrittenHere`, `NamedHere` and `MakeHere`, with a case for every place where `iget` returns
NULL; `MakersGrow` adds what comes before, the search that did not find the name
(`NotFound`). `AddedShape` and `OrphanShape` then keep `Shape`, and the refinement maps a
machine to the names in its directories (`Called`) and what they name (`Kinds`):
`AddedCalled` is the step `Make`, and `Alike` and `Orphaned` are stutters, those of a kill,
of `quit` and of a restart included.

`LinkInv`, for `LinkCountsAreExact` and `LinkedIsAllocated`, is another invariant, since a
number freed by `unlink` is given out again. It is `SpaceInv`, `Room`, and:

- `World`, of inodes as the program sees them (`Cur`: in core if the number is there,
  else on disk): `/` has the one block 1 (`Ground`); behind `"."` and `".."` it names regular
  files with allocated numbers, or number 0 (`Listing`); and the count of every regular
  file is the number of the positions that name it (`Counts`). Positions, since `link` may
  enter one name many times (section 5);
- `Steady(m, hold)`, of the table: it counts at least the references in `hold`, an inode is
  in core once, what differs from the disk is marked, slot 0 is that of `/`, and it is
  down only when no slot is unused. Between two commands `hold` is `Pins(Root)`.

`Firm` adds the types. There is one lemma for each routine on a `Firm` machine that says
which of the references in hand it takes or gives back (`FirmIget`, `FirmIput`,
`FirmStore`, `FirmDir`), and what lasts over it (`Lasts`: bitmaps, entries, `Cur` of every
allocated number, and the inodes of the slots in hand). The current `INODE` of a file lasts
over the write-back and over the slot being recycled, which is why the count may be
raised in core by one command and be read from the disk by the next. What `World` says then
has to be followed over three changes: a name of a new number (`creat`, whose inode has
one link), a name of an old one (`LinkMade`: one entry and one link more), and an entry
fewer (`EntryDropped`: one link less, and the bit cleared with the last). The number of
positions in the longer or shorter sequence is counted in `SlashMore` and `WorldDropped`,
and `WorldCreated`, `WorldLinked` and `WorldDropped` set it against the links; a
count does not wrap because there is no room in the block for so many entries
(`CountsUpDown`, from `BlockCap <= 65535`).

`Linking` is `creat link unlink` in any order, `Roomy`, `BlockCap <= 65535` and
`MaxRefs <= NMINODE`. The last is needed because a program that dies between two commands
has counts in core that never reach the disk: the entries of a `link` are there after the
restart and the count is not. A table full of references is the only way it dies in these
sessions. Refused commands leak references, so that it may fill up, but every slot then
has a reference and that of `/` two (`Full`), which is more than `MaxRefs` counts: `FullIsOut`
adds them up, from the fold of `References` (`SumExists`, `SumAtLeast`). What a command
leaves is therefore `Good`: `Firm` and `World`, or `Full` and out of the bounds.

`SimTreeProofs` proves for every number of nodes, all names and all pathnames:

- `NodesTyped`: the type invariant;
- `TreeConsistent`: `PointersAgree`;
- `OthersKept`: the action property `MakeKeepsOthers`;
- `SavedIsReloaded`: `ReloadRestores`;
- `TreeInMemory`: `Inv` is inductive; all the others follow from it.

The assumptions are `NodesAssumption` (a place for the root) and `PathsAssumption` (the
components of a pathname are not empty). `MaxLines` is not used; `NNODE` is, where the
code would go on to `malloc` another node.

`PointersAgree` is about lists and sets that recurse along pointers, and says nothing of
them that a step could be followed by. `Inv` says of the nodes that they are `Good`:
`Typed`; `Linked` (pointers lead from nodes to nodes, and the nodes of a list have one
parent); `Hung` (each node is the first of a list or behind one); and there is an order
of the nodes, with `Ranked`, in which `child` and `sibling` lead up and `parent` leads
down. The order is what the recursions live on: `ListRecursion`, `SaveRecursion` and
`PathRecursion` show along it that the functions exist that `List`, `saveHelp` and
`PathOf` choose, and `BelowRoot` that `NNODE` rounds of `Below` reach every node
(`RoundsExist`, `Growing`). Beside it, every node but the root is `Named`, and
`tree.txt` is `Saved`.

`mkdir` and `creat` hang a node behind the last of a list or under a node without
children (`Attached`), and comes last in the order (`AttachKeeps`).
`rmdir` and `cd` are one argument. `removeFromList` may cut off the wrong nodes, but
only nodes behind the current directory in the order, because `goto_path` leads up in it
(`GotoPath`): so the current directory is not lost, and what is left is `Pruned`. From
there the nodes that pointers still lead to are a tree again (`CollectKeeps`); that one
of them points to the freed node is the state `"undefined"`.

What `save` writes is the concatenation of the lines of the child's nodes and the
sibling's. A new node is on the way to one place in it only (`Way`), so it is one line
more there (`OneLineMore`), wherever the strung together pathname has put it.
`SavedIsReloaded` needs more of a saved file: a line of two names comes after one that
begins with the same name (`Followed`; the subtree of a child of the root is written
together, `WrittenTogether`), and if no pathname is in it twice there is a node for each
line, so that memory is enough. Then, line by line (`LineRestored`), what has been made
is `Restored`: it would be saved as the lines read so far, it has one node for
each pathname, and the last child of the root is the one the last line begins with.
That one is therefore what `search_child` finds (`LastChildFound`), and the new node
comes at the end.

Model-checked only: `UserIsAsked` of `Shell`, and `ImplementsFileTree`, `TreeShape` and
`LinkCountsExact` in the sessions the theorems leave out. Liveness and `ENABLED` are out
of the prover's reach. Where directories are made and names removed, numbers are used
again, so that neither `Numbered` nor `Coherent` holds any more.

## 5. Where the code and its own words disagree

- `quit_grown`: a block added to `/` while `/` is the current directory is lost.

Seen while modelling, in the modules, without a run of their own:

- `link missing b` makes an entry for inode number 0 (`link_unlink.c:63`). `search` returns
  that 0 for `b`, which reads as "not there", so `link a b` enters the name again
  and again, each time counted in the inode of `a`; `LinkCountsExact` counts entries
  and not names for that reason;
- `bdalloc` clears the inode bitmap (`util.c:103`). Since blocks are therefore never
  freed, `BlocksPrivate` holds; with `bdalloc` on the block bitmap it would not (its
  mutant), because `rm_child` leaves the pointer in the inode;
- of a read of more than one block, each block is copied to the beginning of `buf[]`, over
  the one before, since `cq` is not advanced (`read_cat.c:148`), although "if one data block
  is not enough, loop back to OUTER while for more" (`:195`). The count is right, and
  `ReadsDeliver` speaks of the bytes only if the read stays in a block. `cat` and `cp` read
  a block at a time from its start, so their text is whole; what the command `read` has
  read is not used;
- `lseek g 0` with only `f` open moves the offset of `f` (`open_close_lseek.c:259`);
- two symlinks in `/` drop the count of the root slot to 0, since `kcreat` and
  `mySymLink` both release the parent (`symlink.c:134`);
- `cd /a; rmdir /a; creat b; mkdir a`: the slot of the current directory is recycled,
  the check being commented out (`rmdir.c:167`);
- `creat a; cd a/b` never returns (`util.c:286`);
- `rmdir` frees non-empty directories, and any missing name takes a link from the
  parent (`rmdir.c:222-224`), which `mkdir` never added;
- `symlink` may enter a name twice (`symlink.c:113`); refused `mkdir` and `creat` leak
  a reference (`mkdir_creat.c:119`); the last `unlink` leaves the inode marked clean
  (`link_unlink.c:189`);
- each `lseek` keeps a reference, so neither `close` nor `quit` writes what the file
  grew by (`open_close_lseek.c:238`); `close` of a descriptor that is not open ends
  the program (`:160`); the descriptor `open` returns when none is free is 2 (`:103`);
  `write` does not look at the mode (`write_cp.c:19`).
- a chain of entries ends behind its block when the last name is shorter than the one
  whose bytes are still behind it: `remain` is computed from `name_len`, the length it
  is cut to from `strlen` (`mkdir_creat.c:72`, `:78`); until a write gets there the
  names are kept;
- in a directory of two blocks, a removal whose first block ends in another name zeroes
  a second block of one entry and does not return (`rmdir.c:39`, `:46`); sizes of one
  block are used for the next (`rmdir.c:73`);
- shell: the parent of a pipeline is a child of the shell and becomes a shell itself
  (`main.c:304`, `:309`), so shells nest, one deeper with each pipeline, and `exit` has
  to be typed for each;
- shell: the third command of a pipeline of three is run twice, the second time with a
  directory as its standard input: the child comes back from `pipeIt` with an `fd[]` whose
  numbers the search of `PATH` has taken meanwhile (`main.c:41`, `:152-167`);
- shell: a missing second command makes its child a shell at the end of a pipe that
  repeats an old line for ever while its parent waits (`main.c:114`, `:216`);
- simulator: an absolute pathname of more than one component makes `cd`, `ls` and
  `rmdir` read through NULL, since the empty component before the slash is looked up
  (`lab2.c:83`); `mkdir` and `creat` look for the components before the last strung
  together, from the current directory (`lab2.c:134`, `:161`), although the comment
  above asks for ANY pathname (`lab2.c:103`);
- simulator: `rmdir` of a child of the root unlinks all children of the root, and in a
  longer list it unlinks the first that is not the one named (`lab2.c:278`, `:291`).

## 6. Not modelled, and the plan

Not modelled: an empty pathname with a command that looks one up (`getino` returns a
variable it did not set, `util.c:293-333`), a process at its limit of open files, what is printed, `misc.c` (not compiled), the parsing of the command
line, `level1` and `lab5` (older stages of the same files), `lab1` (`myprintf.c` formats,
`ptable.c` walks a partition table once and prints it: no state outlives a call), `lab4`
(the server is a binary without source, and the client alone only forwards what it is
told: the properties of the conversation would rest on a guess at the other half).

Next, in this order:

1. `unlink` next to `mkdir` in the proofs of `TreeProofs`: an order of the directories that is
   not the one of their numbers, and slots that hold what was there before.
2. `OpenFiles` joined with the bitmaps (truncation clears inode bits; a full disk).
