---------------------------- MODULE MCNamespace -----------------------------
(* Finite instances of Namespace: a few short pathnames over two names.     *)
EXTENDS Namespace

Rel(comps) == [abs |-> FALSE, comps |-> comps]
Abs(comps) == [abs |-> TRUE, comps |-> comps]

\* A tree two levels deep, seen from / and from below.
TreePaths == {Abs(<<>>), Abs(<<"a">>), Abs(<<"a", "b">>), Rel(<<"b">>), Rel(<<"..">>)}

\* Two files of /, one of them named from the current directory.
FewPaths == {Abs(<<>>), Abs(<<"a">>), Rel(<<"b">>)}

\* Two files of / and what would be below one of them.
FilePaths == FewPaths \cup {Abs(<<"a", "b">>)}

\* The bytes before the buffer of iget() look like no inode, a file with one
\* link, or a directory.
NoDirJunk == {INODE("none", 0, 0)}
AnyJunk == NoDirJunk \cup {INODE("reg", 1, 0), INODE("dir", 0, 0)}

\* Commands that make names, with all the ways to leave and come back.
MakeCommands == {"mkdir", "creat", "cd", "ls", "pwd", "quit", "kill"}
FileCommands == {"creat", "unlink", "ls", "cd", "quit", "kill"}
LinkCommands == {"creat", "link", "unlink"}
Everything == MakeCommands \cup LinkCommands \cup {"rmdir", "symlink"}
=============================================================================
