---------------------------- MODULE MCDirBlock ------------------------------
(* Names with and without a byte to spare before the next multiple of 4, and   *)
(* one that leaves little room for another in its block; memory full of the    *)
(* byte of another name, and memory where every third byte is 0.               *)
EXTENDS DirBlock

A(len) == [k \in 1 .. len |-> 97]
ShortAndLong == {A(1), A(4), A(5), A(24)}

Memory == {[o \in Off |-> 98], [o \in Off |-> IF o % 3 = 0 THEN 0 ELSE 98]}
=============================================================================
