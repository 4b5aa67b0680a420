------------------------------- MODULE DirMap -------------------------------
(***************************************************************************)
(* What a directory promises to the commands: a map from names to inode    *)
(* numbers, in which a name may be entered, or dropped for lack of room,   *)
(* and removed.                                                            *)
(***************************************************************************)
CONSTANTS Names, Inos

VARIABLES dir,          \* the map, as a set of <<name, number>>
          lost          \* nothing is promised any more

Init == dir = {} /\ lost = FALSE

Entered(x) == \E e \in dir : e[1] = x

Enter == /\ \E e \in dir' : ~Entered(e[1]) /\ e \in Names \X Inos /\ dir' = dir \cup {e}
         /\ UNCHANGED lost

Remove == /\ \E e \in dir : dir' = dir \ {e}
          /\ UNCHANGED lost

Lose == dir' = {} /\ lost' = TRUE

Next == ~lost /\ (Enter \/ Remove \/ Lose)

Spec == Init /\ [][Next]_<<dir, lost>>
=============================================================================
