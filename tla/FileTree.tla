------------------------------ MODULE FileTree ------------------------------
(***************************************************************************)
(* What mkdir, creat and unlink promise to a user of the file system: a    *)
(* tree of names.  Nothing is said of slots, reference counts, blocks or   *)
(* bitmaps, and there is no action for a crash or a restart: the tree is   *)
(* the same before and after.                                              *)
(***************************************************************************)
EXTENDS Naturals

CONSTANTS Inos,         \* inode numbers
          Names,        \* the names of files
          ROOT          \* the inode number of /

VARIABLES names,        \* the names: a set of [dir, name, ino]
          kind          \* the inodes that have a name, and ROOT: "dir" or "reg"

vars == <<names, kind>>

Init == /\ names = {}
        /\ kind = [i \in {ROOT} |-> "dir"]

\* A new inode under a new name of a directory.
Make(d, name, i, type) ==
    /\ kind[d] = "dir"
    /\ i \notin DOMAIN kind
    /\ \A e \in names : e.dir = d => e.name # name
    /\ names' = names \cup {[dir |-> d, name |-> name, ino |-> i]}
    /\ kind' = [j \in (DOMAIN kind) \cup {i} |-> IF j = i THEN type ELSE kind[j]]

\* A name of a file goes, and the file with its last name.
Unlink(e) ==
    LET left == names \ {e}
    IN  /\ kind[e.ino] = "reg"
        /\ names' = left
        /\ kind' = [i \in {ROOT} \cup {f.ino : f \in left} |-> kind[i]]

Next == \/ \E d \in DOMAIN kind, name \in Names, i \in Inos :
              Make(d, name, i, "dir") \/ Make(d, name, i, "reg")
        \/ \E e \in names : Unlink(e)

Spec == Init /\ [][Next]_vars
=============================================================================
