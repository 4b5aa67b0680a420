----------------------------- MODULE InodeStore -----------------------------
(***************************************************************************)
(* What the in-core inode table promises to its users, without slots,      *)
(* reference counts on slots or dirty flags: every inode has one current   *)
(* value that all its users see and change, and one durable value on disk. *)
(* Nobody's change to an inode is lost to another user's load or release;  *)
(* when the last user lets go the current value is durable.  Leaving the   *)
(* program makes durable only the inodes with a single user.               *)
(***************************************************************************)
EXTENDS Integers

CONSTANTS Inos,         \* inode numbers
          INODEs,       \* contents of an inode
          ROOT          \* the inode number of /

VARIABLES current,      \* [Inos -> INODEs]: what the users of an inode see
          durable,      \* [Inos -> INODEs]: what is on disk
          users,        \* [Inos -> Nat]: references handed out
          up            \* the program is running

vars == <<current, durable, users, up>>

Init == /\ durable \in [Inos -> INODEs]
        /\ current = durable
        /\ users = [i \in Inos |-> IF i = ROOT THEN 2 ELSE 0]
        /\ up = TRUE

Open(i) == /\ up
           /\ users' = [users EXCEPT ![i] = @ + 1]
           /\ UNCHANGED <<current, durable, up>>

Close(i) == /\ up
            /\ users[i] > 0
            /\ users' = [users EXCEPT ![i] = @ - 1]
            /\ durable' = IF users[i] = 1
                          THEN [durable EXCEPT ![i] = current[i]]
                          ELSE durable
            /\ UNCHANGED <<current, up>>

Update(i, v) == /\ up
                /\ users[i] > 0
                /\ current' = [current EXCEPT ![i] = v]
                /\ UNCHANGED <<durable, users, up>>

Create(i, v) == /\ up
                /\ users[i] = 0
                /\ current' = [current EXCEPT ![i] = v]
                /\ durable' = [durable EXCEPT ![i] = v]
                /\ UNCHANGED <<users, up>>

\* Leave the program, having made the inodes in S durable.
Leave(S) == /\ up
            /\ up' = FALSE
            /\ durable' = [i \in Inos |->
                              IF i \in S THEN current[i] ELSE durable[i]]
            /\ current' = durable'
            /\ users' = [i \in Inos |-> 0]

Quit == Leave({i \in Inos : users[i] = 1})
Kill == Leave({})

Boot == /\ ~ up
        /\ up' = TRUE
        /\ users' = [i \in Inos |-> IF i = ROOT THEN 2 ELSE 0]
        /\ UNCHANGED <<current, durable>>

Next == \/ \E i \in Inos : \/ Open(i)
                           \/ Close(i)
                           \/ \E v \in INODEs : Update(i, v) \/ Create(i, v)
        \/ Quit
        \/ Kill
        \/ Boot

Spec == Init /\ [][Next]_vars
=============================================================================
