------------------------------- MODULE Shell --------------------------------
(***************************************************************************)
(* The shell of src/lab3/main.c: the command loop, fork, exec and wait,    *)
(* and the pipelines of two and of three commands (pipeIt and pipeNext),   *)
(* as processes that share a terminal and pipes.  A step is a system call  *)
(* of one process; the dup2() and the two close() of a child are one.      *)
(*                                                                         *)
(* What is printed and the words of a line are left out, and so are cd and *)
(* the empty line, which lead back to the prompt.  Of the search of PATH,  *)
(* which opens every directory in it and closes none (checkdir), the model *)
(* keeps the descriptors that matter: PATH names a directory or more, all  *)
(* of them exist, and the limit of open files is not met.                  *)
(***************************************************************************)
EXTENDS Naturals, FiniteSets

CONSTANTS NPROC,        \* processes the system grants the user
          NPIPE,        \* pipes it grants
          PipeCap       \* what fits in a pipe before its writer blocks

ASSUME LimitsAssumption == {NPROC, NPIPE, PipeCap} \subseteq Nat \ {0}

VARIABLES proc,         \* the processes: their code, descriptors and locals
          pipe,         \* how much each pipe holds
          trouble       \* history: "none", a command of a pipeline was "missing",
                        \* or a fork() or pipe() of one was "refused"

vars == <<proc, pipe, trouble>>

-----------------------------------------------------------------------------
Procs == 1 .. NPROC
Pipes == 1 .. NPIPE
ROOT == 1               \* the shell the user started
TTY == 0                \* the terminal, or a file, at a standard descriptor
NONE == 0               \* no process, no pipe
DIR == NPIPE + 1        \* an open directory, at a descriptor

\* The lines a user types: a command, one with its output to a file, two or
\* three commands in a pipeline, and exit.
Lines == {"simple", "pipe", "pipe3", "exit"}

\* fn and pc: where it is.  back: pipeIt() was called by pipeNext().  pair: the
\* pipe of its variable fd[], or DIR.  ends: the ends of pipes at its other descriptors.
\* kid1, kid2: its variables pid1, pid2; 0 in the child of the fork.
\* reads, todo: an image that reads its input, and what it has left to write.
Gone == [pc |-> "gone", fn |-> "main", parent |-> NONE, in |-> TTY, out |-> TTY,
         ends |-> {}, pair |-> NONE, back |-> FALSE, kid1 |-> NONE, kid2 |-> NONE,
         reads |-> FALSE, todo |-> 0]

Alive == {p \in Procs : proc[p].pc \notin {"gone", "zombie"}}
Free == {p \in Procs : proc[p].pc = "gone"}
Kids(p) == {k \in Procs : proc[k].pc # "gone" /\ proc[k].parent = p}
Zombies(S) == {k \in S : proc[k].pc = "zombie"}

Ends(q) == {<<q, "r">>, <<q, "w">>}
AllEnds == Pipes \X {"r", "w"}
Held(p) == proc[p].ends \cup ({<<proc[p].in, "r">>, <<proc[p].out, "w">>} \cap AllEnds)
Readers(q) == {p \in Alive : <<q, "r">> \in Held(p)}
Writers(q) == {p \in Alive : <<q, "w">> \in Held(p)}
Unused == {q \in Pipes : Readers(q) \cup Writers(q) = {}}

At(p, pc) == proc[p].pc = pc
Set(p, r) == proc' = [proc EXCEPT ![p] = r]
Goes(p, pc) == [proc[p] EXCEPT !.pc = pc]

\* exit() or a signal: descriptors are closed, children go to init, which reaps
\* them, as it does the process itself if its parent is gone.
Exits(p) ==
    proc' = [k \in Procs |->
        IF k = p THEN IF proc[p].parent = NONE THEN Gone
                      ELSE [Gone EXCEPT !.pc = "zombie", !.parent = proc[p].parent]
        ELSE IF k \notin Kids(p) THEN proc[k]
        ELSE IF At(k, "zombie") THEN Gone ELSE [proc[k] EXCEPT !.parent = NONE]]

-----------------------------------------------------------------------------
(* The steps of a call.                                                    *)

\* return: of pipeIt() to pipeNext() behind its first fork, where pid1 is 0, or
\* of either to the command loop: continue.  fd[] of pipeNext() has the numbers that
\* First closed, the lowest free ones when pipeIt() began: two of the directories its
\* search of PATH left open have them now, and its own fd[] got others.
Return(r) ==
    IF r.back
    THEN [r EXCEPT !.fn = "pipeNext", !.back = FALSE, !.pc = "fork2",
                   !.kid1 = NONE, !.kid2 = NONE, !.pair = DIR]
    ELSE [r EXCEPT !.fn = "main", !.pc = "prompt",
                   !.kid1 = NONE, !.kid2 = NONE, !.pair = NONE]

\* pipe() or fork() in a pipeline is refused: return, with all that is open and
\* all that runs left as they are.
Refused(p) == /\ Set(p, Return(proc[p]))
              /\ trouble' = "refused"
              /\ UNCHANGED pipe

\* fork(): the child starts at pc with the descriptors and variables of p, but
\* 0 for the child it is; its parent goes on as given.
Child == CHOOSE c \in Free : \A d \in Free : c <= d
Forks(p, pc, parent) ==
    proc' = [proc EXCEPT ![p] = parent,
                         ![Child] = [proc[p] EXCEPT !.pc = pc, !.parent = p,
                                                    !.kid1 = NONE, !.kid2 = NONE]]

\* Both ends of fd[] are closed, if they are open.
Closed(r) == [r EXCEPT !.ends = @ \ Ends(r.pair)]

\* wait() or waitpid() for one of S: returns at once if none of them is a child,
\* and otherwise with one that has ended; then p goes on as r.
Waits(p, S, r) ==
    LET kids == S \cap Kids(p)
    IN  /\ \/ kids = {} /\ Set(p, r)
           \/ \E z \in Zombies(kids) : proc' = [proc EXCEPT ![p] = r, ![z] = Gone]
        /\ UNCHANGED <<pipe, trouble>>

\* waitpid(k): 0 stands for any child.
Awaited(k) == IF k = NONE THEN Procs ELSE {k}

\* read() at standard input returns with a line, or with the end of the input; of a
\* directory, at once with an error, which is an end too.
HasLine(p) == proc[p].in \in Pipes /\ pipe[proc[p].in] > 0
HasEnd(p) == \/ proc[p].in = DIR
             \/ proc[p].in \in Pipes /\ pipe[proc[p].in] = 0 /\ Writers(proc[p].in) = {}
Take(p) == IF HasLine(p) THEN [pipe EXCEPT ![proc[p].in] = @ - 1] ELSE pipe

-----------------------------------------------------------------------------
(* The shell.                                                              *)

\* A line at the prompt: exit, or fork() and, in the parent, wait() for any child,
\* whether fork() returned a child or -1.  At the end of the input the return of
\* fgets() is not looked at, and line[] holds some older line without its end.
\* Bound: after a refused call, of which the properties say nothing, only exit.
Line(p, line) ==
    /\ At(p, "prompt")
    /\ trouble # "refused" \/ line = "exit"
    /\ proc[p].in = TTY \/ HasLine(p) \/ HasEnd(p)
    /\ IF line = "exit" THEN Exits(p)
       ELSE IF Free = {} THEN Set(p, Goes(p, "wait"))
       ELSE Forks(p, line, Goes(p, "wait"))
    /\ pipe' = Take(p)
    /\ UNCHANGED trouble

Wait_Absent(p) == /\ At(p, "wait")
                  /\ Set(p, Goes(p, "prompt"))
                  /\ UNCHANGED <<pipe, trouble>>
Wait(p) == At(p, "wait") /\ Waits(p, Procs, Goes(p, "prompt"))

\* The child looks for the bar: pipeIt() or pipeNext() with its pipe(), on the
\* numbers of descriptors that are free.
PipeCall(p) ==
    /\ \/ At(p, "pipe")
       \/ At(p, "pipe3")
    /\ \/ /\ Unused = {}
          /\ Refused(p)
       \/ /\ \E q \in Unused :
                /\ \A r \in Unused : q <= r
                /\ Set(p, [Goes(p, "fork1") EXCEPT
                               !.fn = IF At(p, "pipe") THEN "pipeIt" ELSE "pipeNext",
                               !.pair = q, !.ends = @ \cup Ends(q)])
                /\ pipe' = [pipe EXCEPT ![q] = 0]
          /\ UNCHANGED trouble

\* The two forks of a pipeline.  If one is refused the function returns.
Fork1(p) ==
    /\ At(p, "fork1")
    /\ \/ Free = {} /\ Refused(p)
       \/ /\ Free # {}
          /\ Forks(p, "first", [Goes(p, "fork2") EXCEPT !.kid1 = Child])
          /\ UNCHANGED <<pipe, trouble>>

Fork2(p) ==
    /\ At(p, "fork2")
    /\ \/ Free = {} /\ Refused(p)
       \/ /\ Free # {}
          /\ Forks(p, "second", [Goes(p, "close") EXCEPT !.kid2 = Child])
          /\ UNCHANGED <<pipe, trouble>>

\* The child at the writing end.  Under pipeNext() it is to run the first two
\* commands: it calls pipeIt() and will come back from there.
FirstEnd(r) == Closed([r EXCEPT !.out = r.pair])
First(p) ==
    /\ At(p, "first")
    /\ Set(p, IF proc[p].fn = "pipeIt" THEN [FirstEnd(proc[p]) EXCEPT !.pc = "exec"]
              ELSE [FirstEnd(proc[p]) EXCEPT !.pc = "pipe", !.back = TRUE])
    /\ UNCHANGED <<pipe, trouble>>

\* The child at the reading end.  dup2() of a directory succeeds; of a descriptor that is
\* closed, in a child of the first child of pipeIt(), which had closed it and whose
\* execve() failed, it leaves standard input as it was.
Input(r) == IF r.pair = DIR \/ <<r.pair, "r">> \in r.ends THEN r.pair ELSE r.in
SecondEnd_KeepsWriter(r) == [r EXCEPT !.in = Input(r), !.ends = @ \ {<<r.pair, "r">>}]
SecondEnd(r) == Closed([r EXCEPT !.in = Input(r)])
Second(p) ==
    /\ At(p, "second")
    /\ Set(p, [SecondEnd(proc[p]) EXCEPT !.pc = "exec2"])
    /\ UNCHANGED <<pipe, trouble>>

\* execve() of an image that reads its input or does not.
Image(r, reads) ==
    [r EXCEPT !.pc = "run", !.fn = "main", !.pair = NONE, !.back = FALSE,
              !.kid1 = NONE, !.kid2 = NONE,
              !.reads = reads, !.todo = IF reads \/ r.out = TTY THEN 0 ELSE PipeCap + 1]
Exec(p) ==
    /\ proc[p].pc \in {"simple", "exec", "exec2"}
    /\ \E reads \in BOOLEAN : Set(p, Image(proc[p], reads))
    /\ UNCHANGED <<pipe, trouble>>

\* execve() fails.  The child of the loop ends; a child of a pipeline goes on in the
\* code of its parent: the first with the second fork(), the second with close().
\* Bound: one command of a pipeline is not found, and none after a refused call.
ExecFails(p) ==
    /\ \/ /\ At(p, "simple")
          /\ Exits(p)
          /\ UNCHANGED trouble
       \/ /\ proc[p].pc \in {"exec", "exec2"}
          /\ trouble = "none"
          /\ Set(p, Goes(p, IF At(p, "exec") THEN "fork2" ELSE "close"))
          /\ trouble' = "missing"
    /\ UNCHANGED pipe

\* The parent of a pipeline: both ends closed, then waitpid(pid2), waitpid(pid1).
Close_ReadOnly(p) == /\ At(p, "close")
                     /\ Set(p, [proc[p] EXCEPT !.ends = @ \ {<<proc[p].pair, "r">>},
                                                !.pc = "wait2"])
                     /\ UNCHANGED <<pipe, trouble>>
Close(p) == /\ At(p, "close")
            /\ Set(p, [Closed(proc[p]) EXCEPT !.pc = "wait2"])
            /\ UNCHANGED <<pipe, trouble>>
Wait2_Only(p) == At(p, "wait2") /\ Waits(p, Awaited(proc[p].kid2), Return(proc[p]))
Wait2(p) == At(p, "wait2") /\ Waits(p, Awaited(proc[p].kid2), Goes(p, "wait1"))
Wait1(p) == At(p, "wait1") /\ Waits(p, Awaited(proc[p].kid1), Return(proc[p]))

-----------------------------------------------------------------------------
(* The programs it runs.                                                   *)

\* A line written to a pipe, once there is room.
Full_Late(q) == pipe[q] > PipeCap
Full(q) == pipe[q] = PipeCap
Write(p) ==
    /\ At(p, "run") /\ proc[p].todo > 0 /\ proc[p].out \in Pipes
    /\ Readers(proc[p].out) # {}
    /\ ~Full(proc[p].out)
    /\ pipe' = [pipe EXCEPT ![proc[p].out] = @ + 1]
    /\ Set(p, [proc[p] EXCEPT !.todo = @ - 1])
    /\ UNCHANGED trouble

\* SIGPIPE, or the end of a program that has written all and reads nothing more.
Finish(p) ==
    /\ At(p, "run")
    /\ IF proc[p].todo > 0 THEN Readers(proc[p].out) = {}
       ELSE ~proc[p].reads \/ HasEnd(p)
    /\ Exits(p)
    /\ UNCHANGED <<pipe, trouble>>

\* A filter: a line read is a line to write, unless it goes to the terminal.
Reading(p) == At(p, "run") /\ proc[p].reads /\ proc[p].todo = 0
Filtered(r) == [r EXCEPT !.todo = IF r.out = TTY THEN 0 ELSE 1]
Read(p) ==
    /\ Reading(p) /\ HasLine(p)
    /\ pipe' = Take(p)
    /\ Set(p, Filtered(proc[p]))
    /\ UNCHANGED trouble

\* The user types a line, or the end of the input, for a program that reads the
\* terminal.
TypeLine(p) ==
    /\ Reading(p) /\ proc[p].in = TTY
    /\ Set(p, Filtered(proc[p]))
    /\ UNCHANGED <<pipe, trouble>>

TypeEnd(p) ==
    /\ Reading(p) /\ proc[p].in = TTY
    /\ Exits(p)
    /\ UNCHANGED <<pipe, trouble>>

-----------------------------------------------------------------------------
Init == /\ proc = [p \in Procs |-> IF p = ROOT THEN [Gone EXCEPT !.pc = "prompt"] ELSE Gone]
        /\ pipe = [q \in Pipes |-> 0]
        /\ trouble = "none"

\* What a process does when it is scheduled, and what the user does for it.
Runs(p) == \/ Wait(p) \/ PipeCall(p) \/ Fork1(p) \/ Fork2(p) \/ First(p) \/ Second(p)
           \/ Exec(p) \/ ExecFails(p) \/ Close(p) \/ Wait2(p) \/ Wait1(p)
           \/ Write(p) \/ Finish(p) \/ Read(p)
           \/ proc[p].in # TTY /\ \E line \in Lines : Line(p, line)
User(p) == \/ proc[p].in = TTY /\ \E line \in Lines : Line(p, line)
           \/ TypeLine(p)
           \/ TypeEnd(p)

Next == \E p \in Procs : Runs(p) \/ User(p)

\* The scheduler runs every process that can run.  The user owes nothing.
Spec == Init /\ [][Next]_vars /\ \A p \in Procs : WF_vars(Runs(p))

-----------------------------------------------------------------------------
(* Properties.                                                             *)

\* Types: the processes, what fits in a pipe; nobody is a parent or a child of itself.
Places == {"gone", "zombie", "prompt", "wait", "simple", "pipe", "pipe3", "fork1", "fork2",
           "first", "second", "exec", "exec2", "close", "wait2", "wait1", "run"}
Process == [pc : Places,
            fn : {"main", "pipeIt", "pipeNext"},
            parent : Procs \cup {NONE},
            in : Pipes \cup {TTY, DIR}, out : Pipes \cup {TTY, DIR},
            ends : SUBSET AllEnds,
            pair : Pipes \cup {NONE, DIR}, back : BOOLEAN,
            kid1 : Procs \cup {NONE}, kid2 : Procs \cup {NONE},
            reads : BOOLEAN, todo : 0 .. PipeCap + 1]
TypeOK == /\ proc \in [Procs -> Process]
          /\ \A p \in Procs : p \notin {proc[p].parent, proc[p].kid1, proc[p].kid2}
          /\ pipe \in [Pipes -> 0 .. PipeCap]
          /\ trouble \in {"none", "missing", "refused"}

\* Who would take what the user types next: a shell at its prompt, or a program.
AtTerminal == {p \in Procs : proc[p].in = TTY /\ (At(p, "prompt") \/ Reading(p))}

\* However deep shells are nested by pipelines (continue, main.c:304, 309), although
\* the first child of a pipeline of three comes back from pipeIt(), its standard input
\* still the terminal, and forks and waits once more, for a third command that is given a
\* directory to read, and although a child whose command is missing becomes a shell, at
\* whatever its standard input is then, the user never talks to two at once.
OneReader == trouble # "refused" => Cardinality(AtTerminal) <= 1

\* Whom a blocked process waits for: a child, all the writers of an empty pipe, the
\* readers of a full one.
WaitsFor(p) ==
    LET r == proc[p]
        kids == Kids(p) \cap (CASE r.pc = "wait" -> Procs
                                [] r.pc = "wait2" -> Awaited(r.kid2)
                                [] r.pc = "wait1" -> Awaited(r.kid1)
                                [] OTHER -> {})
        asks == (Reading(p) \/ At(p, "prompt")) /\ r.in \in Pipes
    IN  (IF Zombies(kids) = {} THEN kids ELSE {})
        \cup (IF asks /\ ~HasLine(p) THEN Writers(r.in) ELSE {})
        \cup (IF At(p, "run") /\ r.todo > 0 /\ Full(r.out) THEN Readers(r.out) ELSE {})

\* No processes wait for each other in a circle: a reader for the end of a pipe whose
\* writing end its own parent, which waits for it, still holds (main.c:117-118,
\* 170-171), or a writer for room in a pipe only its waiting parent could read.
NoWaitCycle ==
    trouble # "refused" =>
        LET waits == [p \in Alive |-> WaitsFor(p)]
        IN  \A S \in (SUBSET {p \in Alive : waits[p] # {}}) \ {{}} :
                \E p \in S : waits[p] \cap S = {}

\* A shell that asks for the next line has no child left running, unreaped, or stopped
\* at a pipe, and no end of a pipe but its own standard input and output: nothing of
\* a pipeline outlives it, so wait() returns for the command just started.
PromptIsClean ==
    trouble # "refused" =>
        \A p \in Procs : At(p, "prompt") => Kids(p) = {} /\ proc[p].ends = {}

\* Whatever is run, the user gets to type again, to a program that reads the terminal
\* or to a shell, until the first shell has ended: the scheduler is all it takes.
\* (A missing second command breaks it: its child is a shell at the end of a pipe,
\* which its parent waits for and which asks for ever.)
UserIsAsked == []<>(trouble # "none" \/ At(ROOT, "gone") \/ AtTerminal # {})
=============================================================================
