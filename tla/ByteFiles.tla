----------------------------- MODULE ByteFiles ------------------------------
(***************************************************************************)
(* What open, close, lseek, read, write, cat and cp promise: a file is a   *)
(* sequence of bytes, open at one place at most, and there is always a     *)
(* sequence that the end of the program would leave behind.  Nothing is    *)
(* said of descriptors, reference counts, locks, blocks or block pointers. *)
(***************************************************************************)
EXTENDS Naturals, Sequences

CONSTANTS Files,
          Texts,        \* what may be written at once: sequences of bytes
          Closed        \* in place of the offset of a file that is not open

VARIABLES bytes,        \* what a file holds: Files -> sequence of bytes
          saved,        \* what it would hold if the program ended now
          offset        \* Files -> Nat \cup {Closed}

vars == <<bytes, saved, offset>>

\* text over the bytes of s from position at on, in place: the bytes on disk
\* are overwritten, the size on disk is not.
InPlace(s, at, text) ==
    [i \in DOMAIN s |-> IF i \in at + 1 .. at + Len(text) THEN text[i - at] ELSE s[i]]

\* The same, and s grows to hold all of text.
Overlay(s, at, text) ==
    InPlace(s, at, text) \o SubSeq(text, Len(s) - at + 1, Len(text))

Init == /\ bytes = [f \in Files |-> <<>>]
        /\ saved = bytes
        /\ offset = [f \in Files |-> Closed]

Open(f) ==
    /\ offset[f] = Closed
    /\ \E at \in {0, Len(bytes[f])} : offset' = [offset EXCEPT ![f] = at]
    /\ UNCHANGED <<bytes, saved>>

\* Emptied, and open unless no descriptor is left.
Truncate(f) ==
    /\ offset[f] = Closed
    /\ \E at \in {0, Closed} : offset' = [offset EXCEPT ![f] = at]
    /\ bytes' = [bytes EXCEPT ![f] = <<>>]
    /\ UNCHANGED saved

Move(f) ==
    /\ offset[f] # Closed
    /\ \E at \in 0 .. Len(bytes[f]) : offset' = [offset EXCEPT ![f] = at]
    /\ UNCHANGED <<bytes, saved>>

Write(f, text) ==
    /\ offset[f] # Closed
    /\ bytes' = [bytes EXCEPT ![f] = Overlay(@, offset[f], text)]
    /\ saved' = [saved EXCEPT ![f] = InPlace(@, offset[f], text)]
    /\ offset' = [offset EXCEPT ![f] = @ + Len(text)]

Close(f) ==
    /\ offset[f] # Closed
    /\ offset' = [offset EXCEPT ![f] = Closed]
    /\ \E last \in {saved[f], bytes[f]} : saved' = [saved EXCEPT ![f] = last]
    /\ UNCHANGED bytes

\* One file copied over the beginning of another; either may reach the disk.
Copy(f, g) ==
    LET copy == Overlay(bytes[g], 0, bytes[f])
    IN  /\ f # g
        /\ offset[f] = Closed /\ offset[g] = Closed
        /\ bytes' = [bytes EXCEPT ![g] = copy]
        /\ \E s \in {saved[f], bytes[f]}, t \in {InPlace(saved[g], 0, bytes[f]), copy} :
               saved' = [saved EXCEPT ![f] = s, ![g] = t]
        /\ UNCHANGED offset

\* The program ends and is started again.
End == /\ offset' = [f \in Files |-> Closed]
       /\ saved' \in {[f \in Files |-> IF f \in S THEN bytes[f] ELSE saved[f]] :
                         S \in SUBSET Files}
       /\ bytes' = saved'

Next == \/ \E f \in Files : Open(f) \/ Truncate(f) \/ Move(f) \/ Close(f)
        \/ \E f \in Files, text \in Texts : Write(f, text)
        \/ \E f, g \in Files : Copy(f, g)
        \/ End

Spec == Init /\ [][Next]_vars
=============================================================================
