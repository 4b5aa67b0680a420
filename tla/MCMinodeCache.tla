--------------------------- MODULE MCMinodeCache ----------------------------
(* Finite instance of MinodeCache: more inodes than slots, so that slots    *)
(* are recycled and the table fills up.                                     *)
EXTENDS MinodeCache

CONSTANTS v0, v1

MCInos == {2, 3, 4}
MCINODEs == {v0, v1}
=============================================================================
