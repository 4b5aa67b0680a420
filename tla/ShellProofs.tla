---------------------------- MODULE ShellProofs -----------------------------
(***************************************************************************)
(* Theorems about Shell for every number of processes and pipes and every  *)
(* capacity of a pipe.                                                     *)
(***************************************************************************)
EXTENDS Shell, FiniteSetTheorems, TLAPS

-----------------------------------------------------------------------------
(* fork() finds a process that is not used.                                *)

\* Of the segments 1 .. c for free c one has no other below it: it ends in the
\* least free process, which Child chooses.
LEMMA ChildIsFree ==
    ASSUME Free # {}
    PROVE  Child \in Free
<1> DEFINE R == StrictSubsetOrdering(Procs)
           Segments == {1 .. c : c \in Free}
<1>1. NPROC \in Nat
  BY LimitsAssumption
<1>2. IsWellFoundedOn(R, SUBSET Procs)
  <2>1. IsFiniteSet(Procs)
    BY <1>1, FS_Interval DEF Procs
  <2>2. FiniteSubsetsOf(Procs) = SUBSET Procs
    BY <2>1, FS_FiniteSubsetsOfFinite
  <2>3. IsWellFoundedOn(R, FiniteSubsetsOf(Procs))
    BY <2>1, FS_StrictSubsetOrderingWellFounded
  <2> QED BY <2>2, <2>3
<1>3. \A c \in Free : c \in 1 .. NPROC /\ 1 .. c \subseteq Procs
  BY <1>1 DEF Free, Procs
<1>4. Segments # {} /\ Segments \subseteq SUBSET Procs
  BY <1>3
<1>5. PICK t \in Segments : \A u \in Segments : ~ (<<u, t>> \in R)
  <2> HIDE DEF R, Segments
  <2> QED BY <1>2, <1>4, WFMin
<1>6. PICK c \in Free : t = 1 .. c
  OBVIOUS
<1>7. ASSUME NEW d \in Free PROVE c <= d
  <2>1. 1 .. d \in Segments
    OBVIOUS
  <2>2. ~ (<<1 .. d, 1 .. c>> \in R)
    BY <1>5, <1>6, <2>1
  <2>3. ~ (1 .. d \subseteq 1 .. c /\ 1 .. d # 1 .. c)
    BY <1>3, <2>2 DEF StrictSubsetOrdering
  <2> QED BY <1>1, <1>3, <2>3
<1> QED BY <1>7 DEF Child
-----------------------------------------------------------------------------
(* Types.                                                                  *)

ProcType == /\ proc \in [Procs -> Process]
            /\ \A p \in Procs : p \notin {proc[p].parent, proc[p].kid1, proc[p].kid2}

\* What a step of p may write to its own place.
Own(p) == {r \in Process : p \notin {r.parent, r.kid1, r.kid2}}

LEMMA OwnRecord ==
    ASSUME TypeOK, NEW p \in Procs
    PROVE  proc[p] \in Own(p)
BY DEF TypeOK, Own

LEMMA NumbersApart ==
    /\ NONE \notin Procs
    /\ TTY \notin Pipes
    /\ DIR \notin Pipes /\ DIR # TTY
BY LimitsAssumption DEF Procs, Pipes, NONE, TTY, DIR

LEMMA GoneOwn ==
    ASSUME NEW p \in Procs
    PROVE  Gone \in Own(p)
BY NumbersApart, LimitsAssumption DEF Own, Process, Places, Gone, TTY, NONE

LEMMA SetTypes ==
    ASSUME TypeOK, NEW p \in Procs, NEW r \in Own(p), Set(p, r)
    PROVE  ProcType'
<1> USE DEF Set, Own
<1>1. proc \in [Procs -> Process]
  BY DEF TypeOK
<1>2. \A k \in Procs : k \notin {proc[k].parent, proc[k].kid1, proc[k].kid2}
  BY DEF TypeOK
<1>3. proc' \in [Procs -> Process]
  BY <1>1
<1>4. \A k \in Procs : proc'[k] = IF k = p THEN r ELSE proc[k]
  BY <1>1
<1> QED BY <1>2, <1>3, <1>4 DEF ProcType

LEMMA ForkTypes ==
    ASSUME TypeOK, NEW p \in Alive, NEW pc \in Places, NEW r \in Own(p), Free # {},
           Forks(p, pc, r)
    PROVE  ProcType'
<1> DEFINE c == [proc[p] EXCEPT !.pc = pc, !.parent = p, !.kid1 = NONE, !.kid2 = NONE]
<1>1. p \in Procs /\ Child \in Procs /\ Child # p
  BY ChildIsFree DEF Alive, Free
<1>2. proc[p] \in Process
  BY <1>1, OwnRecord DEF Own
<1>3. c \in Own(Child)
  BY <1>1, <1>2, NumbersApart DEF Own, Process, NONE
<1>4. proc \in [Procs -> Process]
  BY DEF TypeOK
<1>5. proc' = [proc EXCEPT ![p] = r, ![Child] = c]
  BY DEF Forks
<1> HIDE DEF c
<1>6. proc' \in [Procs -> Process]
  BY <1>1, <1>3, <1>4, <1>5 DEF Own
<1>7. \A k \in Procs : proc'[k] = IF k = Child THEN c ELSE IF k = p THEN r ELSE proc[k]
  BY <1>1, <1>4, <1>5
<1> QED BY <1>3, <1>6, <1>7 DEF ProcType, Own, TypeOK

LEMMA ExitTypes ==
    ASSUME TypeOK, NEW p \in Procs, Exits(p)
    PROVE  ProcType'
<1>1. proc \in [Procs -> Process]
  BY DEF TypeOK
<1>2. ASSUME NEW k \in Procs PROVE proc'[k] \in Own(k)
  <2>1. Gone \in Own(k) /\ proc[k] \in Own(k)
    BY GoneOwn, OwnRecord
  <2>2. [Gone EXCEPT !.pc = "zombie", !.parent = proc[k].parent] \in Own(k)
    BY <2>1 DEF Own, Process, Places
  <2>3. [proc[k] EXCEPT !.parent = NONE] \in Own(k)
    BY <2>1, NumbersApart DEF Own, Process
  <2> QED BY <1>1, <2>1, <2>2, <2>3 DEF Exits
<1>3. proc' \in [Procs -> Process]
  BY <1>2 DEF Exits, Own
<1> QED BY <1>2, <1>3 DEF ProcType, Own

LEMMA WaitTypes ==
    ASSUME TypeOK, NEW p \in Procs, NEW S, NEW r \in Own(p), Waits(p, S, r)
    PROVE  ProcType'
<1>1. CASE Set(p, r)
  BY <1>1, SetTypes
<1>2. ASSUME NEW z \in Procs, proc' = [proc EXCEPT ![p] = r, ![z] = Gone]
      PROVE  ProcType'
  <2>1. proc \in [Procs -> Process] /\ Gone \in Own(z)
    BY GoneOwn DEF TypeOK
  <2>2. proc' \in [Procs -> Process]
    BY <1>2, <2>1 DEF Own
  <2>3. \A k \in Procs : proc'[k] = IF k = z THEN Gone ELSE IF k = p THEN r ELSE proc[k]
    BY <1>2, <2>1
  <2> QED BY <2>1, <2>2, <2>3 DEF ProcType, Own, TypeOK
<1> QED BY <1>1, <1>2 DEF Waits, Zombies, Kids

\* What the steps write is typed.
LEMMA GoesOwn ==
    ASSUME TypeOK, NEW p \in Procs, NEW pc \in Places
    PROVE  Goes(p, pc) \in Own(p)
BY OwnRecord DEF Own, Process, Goes

LEMMA ReturnOwn ==
    ASSUME NEW p \in Procs, NEW r \in Own(p)
    PROVE  Return(r) \in Own(p)
<1>1. CASE r.back
  <2> DEFINE s == [r EXCEPT !.fn = "pipeNext", !.back = FALSE, !.pc = "fork2", !.pair = DIR]
  <2>1. s \in Own(p)
    BY DEF Own, Process, Places
  <2>2. Return(r) = [s EXCEPT !.kid1 = NONE, !.kid2 = NONE]
    BY <1>1 DEF Return, Own, Process
  <2> HIDE DEF s
  <2>3. [s EXCEPT !.kid1 = NONE, !.kid2 = NONE] \in Own(p)
    BY <2>1, NumbersApart DEF Own, Process
  <2> QED BY <2>2, <2>3
<1>2. CASE ~r.back
  BY <1>2, NumbersApart DEF Own, Process, Places, Return, NONE
<1> QED BY <1>1, <1>2

LEMMA ClosedOwn ==
    ASSUME NEW p \in Procs, NEW r \in Own(p)
    PROVE  Closed(r) \in Own(p)
BY DEF Own, Process, Closed

LEMMA ImageOwn ==
    ASSUME NEW p \in Procs, NEW r \in Own(p), NEW reads \in BOOLEAN
    PROVE  Image(r, reads) \in Own(p)
<1> DEFINE t == IF reads \/ r.out = TTY THEN 0 ELSE PipeCap + 1
           s == [r EXCEPT !.pc = "run", !.fn = "main", !.pair = NONE, !.back = FALSE]
<1>1. t \in 0 .. PipeCap + 1
  BY LimitsAssumption
<1>2. s \in Own(p)
  BY DEF Own, Process, Places
<1>3. Image(r, reads) = [s EXCEPT !.kid1 = NONE, !.kid2 = NONE, !.reads = reads, !.todo = t]
  BY DEF Image, Own, Process
<1> HIDE DEF t, s
<1>4. [s EXCEPT !.kid1 = NONE, !.kid2 = NONE, !.reads = reads, !.todo = t] \in Own(p)
  BY <1>1, <1>2, NumbersApart DEF Own, Process
<1> QED BY <1>3, <1>4

LEMMA FilteredOwn ==
    ASSUME NEW p \in Procs, NEW r \in Own(p)
    PROVE  Filtered(r) \in Own(p)
BY LimitsAssumption DEF Own, Process, Filtered

LEMMA TakeType ==
    ASSUME TypeOK, NEW p \in Procs
    PROVE  Take(p) \in [Pipes -> 0 .. PipeCap]
BY LimitsAssumption DEF TypeOK, Take, HasLine

\* Every step of a process keeps the types.
LEMMA TypeStep ==
    ASSUME TypeOK, [Next]_vars
    PROVE  TypeOK'
<1> DEFINE RestType == /\ pipe' \in [Pipes -> 0 .. PipeCap]
                       /\ trouble' \in {"none", "missing", "refused"}
<1>1. SUFFICES ProcType' /\ RestType
  BY DEF ProcType, TypeOK
<1>2. pipe \in [Pipes -> 0 .. PipeCap] /\ trouble \in {"none", "missing", "refused"}
  BY DEF TypeOK
<1>3. CASE UNCHANGED vars
  BY <1>2, <1>3 DEF vars, ProcType, TypeOK
<1>4. ASSUME NEW p \in Procs, Runs(p) \/ User(p)
      PROVE  ProcType' /\ RestType
  <2> DEFINE r == proc[p]
  <2>1. r \in Own(p) /\ r \in Process
    BY OwnRecord DEF Own
  <2>2. Refused(p) => ProcType' /\ RestType
    BY <1>2, <2>1, ReturnOwn, SetTypes DEF Refused
  <2>3. ASSUME NEW line \in Lines, Line(p, line) PROVE ProcType' /\ RestType
    <3>1. CASE line = "exit"
      BY <1>2, <2>3, <3>1, ExitTypes, TakeType DEF Line
    <3>2. CASE line # "exit" /\ Free = {}
      <4>1. Goes(p, "wait") \in Own(p)
        BY GoesOwn DEF Places
      <4> QED BY <1>2, <2>3, <3>2, <4>1, SetTypes, TakeType DEF Line
    <3>3. CASE line # "exit" /\ Free # {}
      <4>1. /\ Goes(p, "wait") \in Own(p)
            /\ line \in Places
            /\ p \in Alive
        <5>1. Goes(p, "wait") \in Own(p)
          BY GoesOwn DEF Places
        <5>2. line \in Places
          BY <3>3 DEF Lines, Places
        <5>3. p \in Alive
          BY <2>3 DEF Line, Alive, At
        <5> QED BY <5>1, <5>2, <5>3
      <4>2. Forks(p, line, Goes(p, "wait"))
        BY <2>3, <3>3 DEF Line
      <4> QED BY <1>2, <2>3, <3>3, <4>1, <4>2, ForkTypes, TakeType DEF Line
    <3> QED BY <3>1, <3>2, <3>3
  <2>4. CASE Wait(p)
    <3>1. Goes(p, "prompt") \in Own(p)
      BY GoesOwn DEF Places
    <3>2. Waits(p, Procs, Goes(p, "prompt"))
      BY <2>4 DEF Wait
    <3> QED BY <1>2, <3>1, <3>2, WaitTypes DEF Waits
  <2>5. CASE PipeCall(p)
    <3>1. CASE Refused(p)
      BY <2>2, <3>1
    <3>2. ASSUME NEW q \in Pipes, NEW fn \in {"pipeIt", "pipeNext"},
                 Set(p, [Goes(p, "fork1") EXCEPT !.fn = fn, !.pair = q,
                                                 !.ends = @ \cup Ends(q)]),
                 pipe' = [pipe EXCEPT ![q] = 0], UNCHANGED trouble
          PROVE  ProcType' /\ RestType
      <4>1. [Goes(p, "fork1") EXCEPT !.fn = fn, !.pair = q,
                                     !.ends = @ \cup Ends(q)] \in Own(p)
        <5>1. Goes(p, "fork1") \in Own(p)
          BY GoesOwn DEF Places
        <5>2. Ends(q) \subseteq AllEnds
          BY DEF Ends, AllEnds
        <5> QED BY <5>1, <5>2 DEF Own, Process
      <4>2. pipe' \in [Pipes -> 0 .. PipeCap]
        BY <1>2, <3>2, LimitsAssumption
      <4> QED BY <1>2, <3>2, <4>1, <4>2, SetTypes
    <3> QED BY <2>5, <3>1, <3>2 DEF PipeCall, Unused
  <2>6. CASE Fork1(p)
    <3>1. CASE Free = {}
      BY <2>2, <2>6, <3>1 DEF Fork1
    <3>2. CASE Free # {}
      <4>1. p \in Alive /\ Child \in Procs /\ Child # p
        BY <2>6, <3>2, ChildIsFree DEF Fork1, At, Alive, Free
      <4>2. [Goes(p, "fork2") EXCEPT !.kid1 = Child] \in Own(p)
        BY <2>1, <4>1 DEF Own, Process, Places, Goes
      <4>3. Forks(p, "first", [Goes(p, "fork2") EXCEPT !.kid1 = Child])
        BY <2>6, <3>2 DEF Fork1
      <4> QED BY <1>2, <2>6, <3>2, <4>1, <4>2, <4>3, ForkTypes DEF Fork1, Places
    <3> QED BY <3>1, <3>2
  <2>7. CASE Fork2(p)
    <3>1. CASE Free = {}
      BY <2>2, <2>7, <3>1 DEF Fork2
    <3>2. CASE Free # {}
      <4>1. p \in Alive /\ Child \in Procs /\ Child # p
        BY <2>7, <3>2, ChildIsFree DEF Fork2, At, Alive, Free
      <4>2. [Goes(p, "close") EXCEPT !.kid2 = Child] \in Own(p)
        BY <2>1, <4>1 DEF Own, Process, Places, Goes
      <4>3. Forks(p, "second", [Goes(p, "close") EXCEPT !.kid2 = Child])
        BY <2>7, <3>2 DEF Fork2
      <4> QED BY <1>2, <2>7, <3>2, <4>1, <4>2, <4>3, ForkTypes DEF Fork2, Places
    <3> QED BY <3>1, <3>2
  <2>8. CASE First(p)
    <3>1. FirstEnd(r) \in Own(p)
      <4>1. [r EXCEPT !.out = r.pair] \in Own(p)
        BY <2>1 DEF Own, Process, NONE, TTY
      <4> QED BY <4>1, ClosedOwn DEF FirstEnd
    <3>2. /\ [FirstEnd(r) EXCEPT !.pc = "exec"] \in Own(p)
          /\ [FirstEnd(r) EXCEPT !.pc = "pipe", !.back = TRUE] \in Own(p)
      BY <3>1 DEF Own, Process, Places
    <3> QED BY <1>2, <2>8, <3>2, SetTypes DEF First
  <2>9. CASE Second(p)
    <3>1. SecondEnd(r) \in Own(p)
      <4>1. [r EXCEPT !.in = Input(r)] \in Own(p)
        BY <2>1 DEF Own, Process, NONE, TTY, Input
      <4> QED BY <4>1, ClosedOwn DEF SecondEnd
    <3>2. [SecondEnd(r) EXCEPT !.pc = "exec2"] \in Own(p)
      BY <3>1 DEF Own, Process, Places
    <3> QED BY <1>2, <2>9, <3>2, SetTypes DEF Second
  <2>10. CASE Exec(p)
    <3>1. \A reads \in BOOLEAN : Image(r, reads) \in Own(p)
      BY <2>1, ImageOwn
    <3> QED BY <1>2, <2>10, <3>1, SetTypes DEF Exec
  <2>11. CASE ExecFails(p)
    <3>1. Goes(p, "fork2") \in Own(p) /\ Goes(p, "close") \in Own(p)
      BY GoesOwn DEF Places
    <3>2. Exits(p) \/ Set(p, Goes(p, "fork2")) \/ Set(p, Goes(p, "close"))
      BY <2>11 DEF ExecFails
    <3>3. ProcType'
      BY <3>1, <3>2, ExitTypes, SetTypes
    <3> QED BY <1>2, <2>11, <3>3 DEF ExecFails
  <2>12. CASE Close(p)
    <3>1. [Closed(r) EXCEPT !.pc = "wait2"] \in Own(p)
      BY <2>1, ClosedOwn DEF Own, Process, Places
    <3> QED BY <1>2, <2>12, <3>1, SetTypes DEF Close
  <2>13. CASE Wait2(p)
    <3>1. Goes(p, "wait1") \in Own(p)
      BY GoesOwn DEF Places
    <3>2. Waits(p, Awaited(r.kid2), Goes(p, "wait1"))
      BY <2>13 DEF Wait2
    <3> QED BY <1>2, <3>1, <3>2, WaitTypes DEF Waits
  <2>14. CASE Wait1(p)
    <3>1. Return(r) \in Own(p)
      BY <2>1, ReturnOwn
    <3>2. Waits(p, Awaited(r.kid1), Return(r))
      BY <2>14 DEF Wait1
    <3> QED BY <1>2, <3>1, <3>2, WaitTypes DEF Waits
  <2>15. CASE Write(p)
    <3>1. [r EXCEPT !.todo = @ - 1] \in Own(p)
      BY <2>1, <2>15, LimitsAssumption DEF Own, Process, Write
    <3>2. pipe' \in [Pipes -> 0 .. PipeCap]
      BY <1>2, <2>15, LimitsAssumption DEF Write, Full
    <3> QED BY <1>2, <2>15, <3>1, <3>2, SetTypes DEF Write
  <2>16. CASE Finish(p)
    BY <1>2, <2>16, ExitTypes DEF Finish
  <2>17. CASE Read(p)
    <3>1. Filtered(r) \in Own(p)
      BY <2>1, FilteredOwn
    <3> QED BY <1>2, <2>17, <3>1, SetTypes, TakeType DEF Read
  <2>18. CASE TypeLine(p)
    <3>1. Filtered(r) \in Own(p)
      BY <2>1, FilteredOwn
    <3> QED BY <1>2, <2>18, <3>1, SetTypes DEF TypeLine
  <2>19. CASE TypeEnd(p)
    BY <1>2, <2>19, ExitTypes DEF TypeEnd
  <2> QED BY <1>4, <2>3, <2>4, <2>5, <2>6, <2>7, <2>8, <2>9, <2>10, <2>11, <2>12, <2>13,
             <2>14, <2>15, <2>16, <2>17, <2>18, <2>19 DEF Runs, User
<1> QED BY <1>3, <1>4 DEF Next

-----------------------------------------------------------------------------
(* The inductive invariant behind PromptIsClean and OneReader.             *)

\* Where a process holds ends of a pipe besides its standard input and output: both
\* ends of the pipe in fd[], or none, and both before its first fork.
Piping == {"fork1", "fork2", "first", "second", "close"}
EndsOk(r) == /\ r.ends \in {{}, Ends(r.pair)}
             /\ r.pc \notin Piping => r.ends = {}
             /\ r.pc = "fork1" => r.ends = Ends(r.pair)

\* Where a process has children, and which: those in pid1 and pid2, and one child of
\* the command loop.  With its ends closed, a process in front of the second fork is
\* the child of the first one.
Minding == {"fork2", "close", "wait2", "wait1", "wait"}
KidsOk(r, kids) == /\ r.pc \in {"fork2", "wait1"} => kids \subseteq {r.kid1}
                   /\ r.pc \in {"close", "wait2"} => kids \subseteq {r.kid1, r.kid2}
                   /\ r.pc = "wait" => \A k, l \in kids : k = l
                   /\ r.pc \notin Minding => kids = {}
                   /\ r.pc = "fork2" /\ r.ends = {} => kids = {}

\* Who has the terminal at its standard input and will put neither a pipe nor a directory
\* there.  Of all these only the last in the line of children may be without such a child.
Live(r) == r.pc \notin {"gone", "zombie"}
TalksAs(r) == Live(r) /\ r.in = TTY /\ (r.pc = "second" => r.ends = {} /\ r.pair # DIR)
Talks(p) == TalksAs(proc[p])
Leaf(p) == Talks(p) /\ \A k \in Kids(p) : ~Talks(k)

Calm == /\ \A p \in Procs : EndsOk(proc[p])
        /\ \A p \in Procs : KidsOk(proc[p], Kids(p))
        /\ \A p, q \in Procs : Leaf(p) /\ Leaf(q) => p = q

Inv == TypeOK /\ (trouble # "refused" => Calm)

LEMMA InitCalm ==
    ASSUME Init
    PROVE  Inv
<1>1. \A p \in Procs : Gone \in Own(p) /\ [Gone EXCEPT !.pc = "prompt"] \in Own(p)
  BY GoneOwn DEF Own, Process, Places
<1>2. \A p \in Procs : proc[p] \in Own(p)
  BY <1>1 DEF Init
<1>3. proc \in [Procs -> Process] /\ pipe \in [Pipes -> 0 .. PipeCap]
  BY <1>2, LimitsAssumption DEF Init, Own
<1>4. TypeOK
  BY <1>2, <1>3 DEF TypeOK, Own, Init
<1>5. \A p \in Procs : /\ proc[p].pc = IF p = ROOT THEN "prompt" ELSE "gone"
                       /\ proc[p].parent = NONE /\ proc[p].ends = {}
  BY DEF Init, Gone
<1>6. \A p \in Procs : Kids(p) = {}
  BY <1>5, NumbersApart DEF Kids
<1>7. Calm
  BY <1>5, <1>6 DEF Calm, EndsOk, KidsOk, Piping, Minding, Leaf, Talks, TalksAs, Live
<1> QED BY <1>4, <1>7 DEF Inv

\* A step of p on its own record, which leaves the children of all as they are.
LEMMA OwnStep ==
    ASSUME TypeOK, Calm, NEW p \in Procs, NEW r \in Own(p), Set(p, r),
           Live(proc[p]), Live(r), r.parent = proc[p].parent,
           EndsOk(r), KidsOk(r, Kids(p)), TalksAs(r) = Talks(p)
    PROVE  Calm'
<1>1. \A k \in Procs : proc'[k] = IF k = p THEN r ELSE proc[k]
  BY DEF Set, TypeOK
<1>2. \A k \in Procs : Kids(k)' = Kids(k)
  BY <1>1 DEF Kids, Live
<1>3. \A k \in Procs : Talks(k)' = Talks(k)
  BY <1>1 DEF Talks
<1>4. \A k \in Procs : Leaf(k)' = Leaf(k)
  <2>1. \A k \in Procs : Kids(k) \subseteq Procs
    BY DEF Kids
  <2> QED BY <1>2, <1>3, <2>1 DEF Leaf
<1>5. \A k \in Procs : EndsOk(proc'[k])
  BY <1>1 DEF Calm
<1>6. \A k \in Procs : KidsOk(proc'[k], Kids(k)')
  BY <1>1, <1>2 DEF Calm
<1> QED BY <1>4, <1>5, <1>6 DEF Calm

\* p takes the exit status of its child z and goes on as r.
LEMMA ReapStep ==
    ASSUME TypeOK, Calm, NEW p \in Procs, NEW r \in Own(p), NEW z \in Kids(p),
           proc[z].pc = "zombie", proc' = [proc EXCEPT ![p] = r, ![z] = Gone],
           Live(proc[p]), Live(r), r.parent = proc[p].parent,
           EndsOk(r), KidsOk(r, Kids(p) \ {z}), TalksAs(r) = Talks(p)
    PROVE  Calm'
<1>1. z \in Procs /\ z # p /\ proc[z].parent = p
  BY DEF Kids, Live
<1>2. \A k \in Procs : proc'[k] = IF k = z THEN Gone ELSE IF k = p THEN r ELSE proc[k]
  BY <1>1 DEF TypeOK
<1>3. Gone.pc = "gone" /\ Gone.ends = {}
  BY DEF Gone
<1>4. \A k \in Procs : Kids(k)' = Kids(k) \ {z}
  <2>1. \A k, l \in Procs : (l \in Kids(k))' <=> l \in Kids(k) /\ l # z
    BY <1>1, <1>2, <1>3 DEF Kids, Live
  <2>2. \A k \in Procs : Kids(k) \subseteq Procs /\ Kids(k)' \subseteq Procs
    BY DEF Kids
  <2> QED BY <2>1, <2>2
<1>5. \A k \in Procs \ {p} : z \notin Kids(k)
  BY <1>1 DEF Kids
<1>6. \A k \in Procs : Talks(k)' = Talks(k)
  BY <1>2, <1>3 DEF Talks, TalksAs, Live
<1>7. ~Talks(z)
  BY DEF Talks, TalksAs, Live
<1>8. \A k \in Procs : Leaf(k)' = Leaf(k)
  <2>1. \A k \in Procs : Kids(k) \subseteq Procs
    BY DEF Kids
  <2> QED BY <1>4, <1>6, <1>7, <2>1 DEF Leaf
<1>9. Kids(z) = {}
  BY <1>1 DEF Calm, KidsOk, Minding
<1>10. \A k \in Procs : EndsOk(proc'[k])
  BY <1>2, <1>3 DEF Calm, EndsOk, Piping
<1>11. \A k \in Procs : KidsOk(proc'[k], Kids(k)')
  <2>1. KidsOk(Gone, {})
    BY <1>3 DEF KidsOk, Minding
  <2>2. Kids(z)' = {} /\ Kids(p)' = Kids(p) \ {z}
    BY <1>1, <1>4, <1>9
  <2>3. \A k \in Procs \ {p, z} : Kids(k)' = Kids(k)
    BY <1>4, <1>5
  <2> QED BY <1>2, <2>1, <2>2, <2>3 DEF Calm
<1> QED BY <1>8, <1>10, <1>11 DEF Calm

\* wait() and waitpid(): nothing to wait for, or a child taken.
LEMMA WaitStep ==
    ASSUME TypeOK, Calm, NEW p \in Procs, NEW S, NEW r \in Own(p), Waits(p, S, r),
           Live(proc[p]), Live(r), r.parent = proc[p].parent,
           EndsOk(r), TalksAs(r) = Talks(p),
           S \cap Kids(p) = {} => KidsOk(r, Kids(p)),
           \A z \in S \cap Kids(p) : KidsOk(r, Kids(p) \ {z})
    PROVE  Calm'
<1>1. CASE S \cap Kids(p) = {} /\ Set(p, r)
  BY <1>1, OwnStep
<1>2. CASE \E z \in Zombies(S \cap Kids(p)) : proc' = [proc EXCEPT ![p] = r, ![z] = Gone]
  <2>1. PICK z \in S \cap Kids(p) : /\ proc[z].pc = "zombie"
                                   /\ proc' = [proc EXCEPT ![p] = r, ![z] = Gone]
    BY <1>2 DEF Zombies
  <2> QED BY <2>1, ReapStep
<1> QED BY <1>1, <1>2 DEF Waits

\* A process without children ends: its parent becomes the last in the line.
LEMMA ExitStep ==
    ASSUME TypeOK, Calm, NEW p \in Procs, Exits(p), Live(proc[p]), Kids(p) = {}
    PROVE  Calm'
<1> DEFINE e == IF proc[p].parent = NONE THEN Gone
                ELSE [Gone EXCEPT !.pc = "zombie", !.parent = proc[p].parent]
<1>1. \A k \in Procs : proc'[k] = IF k = p THEN e ELSE proc[k]
  BY DEF Exits
<1>2. /\ e.pc \in {"gone", "zombie"} /\ e.ends = {}
      /\ proc[p].parent # NONE => e.pc = "zombie" /\ e.parent = proc[p].parent
      /\ proc[p].parent = NONE => e.pc = "gone"
  BY DEF Gone
<1> HIDE DEF e
<1>3. \A k \in Procs : Kids(k)' = Kids(k)
  <2>1. \A k \in Procs : (p \in Kids(k))' <=> p \in Kids(k)
    BY <1>1, <1>2, NumbersApart DEF Kids, Live
  <2>2. \A k, l \in Procs : l # p => ((l \in Kids(k))' <=> l \in Kids(k))
    BY <1>1 DEF Kids
  <2>3. \A k \in Procs : Kids(k) \subseteq Procs /\ Kids(k)' \subseteq Procs
    BY DEF Kids
  <2> QED BY <2>1, <2>2, <2>3
<1>4. \A k \in Procs \ {p} : Talks(k)' = Talks(k)
  BY <1>1 DEF Talks
<1>5. ~Talks(p)'
  BY <1>1, <1>2 DEF Talks, TalksAs, Live
<1>6. ASSUME NEW x \in Procs, NEW y \in Procs, Leaf(x)', Leaf(y)'
      PROVE  x = y
  <2>1. x # p /\ y # p /\ Talks(x) /\ Talks(y)
    BY <1>4, <1>5, <1>6 DEF Leaf
  <2>2. \A k \in Procs : Kids(k) \subseteq Procs
    BY DEF Kids
  <2>3. /\ \A k \in Kids(x) \ {p} : ~Talks(k)
        /\ \A k \in Kids(y) \ {p} : ~Talks(k)
    BY <1>3, <1>4, <1>6, <2>2 DEF Leaf
  <2>4. CASE ~Talks(p)
    BY <2>1, <2>3, <2>4 DEF Leaf, Calm
  <2>5. CASE Talks(p)
    <3>1. Leaf(p)
      BY <2>5 DEF Leaf
    <3>2. ~Leaf(x) /\ ~Leaf(y)
      BY <2>1, <3>1 DEF Calm
    <3>3. p \in Kids(x) /\ p \in Kids(y)
      BY <2>1, <2>3, <3>2 DEF Leaf
    <3> QED BY <3>3 DEF Kids
  <2> QED BY <2>4, <2>5
<1>7. \A k \in Procs : EndsOk(proc'[k])
  BY <1>1, <1>2 DEF Calm, EndsOk, Piping
<1>8. \A k \in Procs : KidsOk(proc'[k], Kids(k)')
  BY <1>1, <1>2, <1>3 DEF Calm, KidsOk, Minding
<1> QED BY <1>6, <1>7, <1>8 DEF Calm

\* fork() of a process without children, or of one whose child will not talk.
LEMMA ForkStep ==
    ASSUME TypeOK, Calm, NEW p \in Procs, NEW r \in Own(p), NEW pc \in Places,
           Free # {}, Forks(p, pc, r), Live(proc[p]), Live(r), r.parent = proc[p].parent,
           EndsOk(r), KidsOk(r, Kids(p) \cup {Child}), TalksAs(r) = Talks(p),
           pc \notin {"gone", "zombie"}, pc \notin Minding,
           EndsOk([proc[p] EXCEPT !.pc = pc]),
           proc[p].pc # "second",
           pc = "second" => Kids(p) = {} \/ proc[p].ends # {},
           pc # "second" => Kids(p) = {}
    PROVE  Calm'
<1> DEFINE c == [proc[p] EXCEPT !.pc = pc, !.parent = p, !.kid1 = NONE, !.kid2 = NONE]
<1>0. PICK d \in Procs : d = Child
  BY ChildIsFree DEF Free
<1>1. proc[d].pc = "gone" /\ d # p
  BY <1>0, ChildIsFree DEF Free, Live
<1>2. proc[p] \in Process
  BY OwnRecord DEF Own
<1>3. /\ c.pc = pc /\ c.parent = p /\ c.in = proc[p].in
      /\ c.ends = proc[p].ends /\ c.pair = proc[p].pair
  BY <1>2 DEF Process
<1>4. \A k \in Procs : proc'[k] = IF k = d THEN c ELSE IF k = p THEN r ELSE proc[k]
  BY <1>0, <1>1 DEF Forks, TypeOK
<1>5. EndsOk(c)
  <2>1. LET e == [proc[p] EXCEPT !.pc = pc]
        IN  e.pc = pc /\ e.ends = proc[p].ends /\ e.pair = proc[p].pair
    BY <1>2 DEF Process
  <2> QED BY <1>3, <2>1 DEF EndsOk
<1> HIDE DEF c
<1>6. Kids(d) = {}
  BY <1>1 DEF Calm, KidsOk, Minding
<1>7. Kids(p)' = Kids(p) \cup {d}
  BY <1>1, <1>3, <1>4 DEF Kids, Live
<1>8. \A k \in Procs \ {p} : Kids(k)' = Kids(k)
  BY <1>1, <1>3, <1>4 DEF Kids, Live
<1>9. \A k \in Procs \ {d} : Talks(k)' = Talks(k)
  BY <1>4 DEF Talks
<1>10. ~Talks(d)
  BY <1>1 DEF Talks, TalksAs, Live
<1>11. \A k \in Procs \ {p} : d \notin Kids(k)
  BY <1>1 DEF Kids
<1>12. \A k \in Procs : Kids(k) \subseteq Procs \ {d}
  BY <1>1 DEF Kids
<1>13. ASSUME NEW x \in Procs, NEW y \in Procs, Leaf(x)', Leaf(y)'
       PROVE  x = y
  <2>1. CASE ~Talks(d)'
    <3>1. \A k \in Procs : Leaf(k)' => Leaf(k)
      <4>1. \A k \in Procs : Kids(k) \subseteq Kids(k)'
        BY <1>7, <1>8
      <4> QED BY <1>9, <1>12, <2>1, <4>1 DEF Leaf
    <3> QED BY <1>13, <3>1 DEF Calm
  <2>2. CASE Talks(d)'
    <3>1. proc[p].in = TTY /\ (pc = "second" => proc[p].ends = {})
      BY <1>1, <1>3, <1>4, <2>2 DEF Talks, TalksAs
    <3>2. Leaf(p)
      BY <3>1 DEF Leaf, Talks, TalksAs
    <3>3. ~Leaf(p)'
      BY <1>7, <2>2 DEF Leaf
    <3>4. \A k \in Procs \ {p, d} : ~Leaf(k)'
      <4>1. \A k \in Procs \ {p, d} : Leaf(k)' => Leaf(k)
        BY <1>8, <1>9, <1>12 DEF Leaf
      <4> QED BY <3>2, <4>1 DEF Calm
    <3> QED BY <1>13, <3>3, <3>4
  <2> QED BY <2>1, <2>2
<1>14. \A k \in Procs : EndsOk(proc'[k])
  BY <1>4, <1>5 DEF Calm
<1>15. \A k \in Procs : KidsOk(proc'[k], Kids(k)')
  <2>1. KidsOk(c, Kids(d)')
    BY <1>1, <1>3, <1>6, <1>8 DEF KidsOk, Minding
  <2> QED BY <1>0, <1>1, <1>4, <1>7, <1>8, <2>1 DEF Calm
<1> QED BY <1>13, <1>14, <1>15 DEF Calm

\* Steps that move p on, with its descriptors and its children as they are.
LEMMA GoesStep ==
    ASSUME TypeOK, Calm, NEW p \in Procs, NEW pc \in Places, Set(p, Goes(p, pc)),
           Live(proc[p]), pc \notin {"gone", "zombie", "second", "fork1"},
           proc[p].pc # "second",
           pc \notin Piping => proc[p].ends = {},
           KidsOk(Goes(p, pc), Kids(p))
    PROVE  Calm'
<1> DEFINE r == Goes(p, pc)
<1>1. r \in Own(p)
  BY GoesOwn
<1>2. proc[p] \in Process
  BY OwnRecord DEF Own
<1>3. /\ r.pc = pc /\ r.parent = proc[p].parent /\ r.in = proc[p].in
      /\ r.ends = proc[p].ends /\ r.pair = proc[p].pair
  BY <1>2 DEF Goes, Process
<1> HIDE DEF r
<1>4. EndsOk(r)
  BY <1>3 DEF Calm, EndsOk
<1>5. TalksAs(r) = Talks(p)
  BY <1>3 DEF Talks, TalksAs, Live
<1> QED BY <1>1, <1>3, <1>4, <1>5, OwnStep DEF Live, r

\* What a record keeps when it is closed, when the call returns, and when the image is
\* replaced.
LEMMA Fields ==
    ASSUME NEW r \in Process
    PROVE  /\ LET s == Closed(r)
              IN  /\ s.pc = r.pc /\ s.parent = r.parent /\ s.in = r.in
                  /\ s.ends = r.ends \ Ends(r.pair) /\ s.pair = r.pair
                  /\ s.kid1 = r.kid1 /\ s.kid2 = r.kid2
           /\ LET s == Return(r)
              IN  /\ s.pc \in {"fork2", "prompt"} /\ s.parent = r.parent
                  /\ s.in = r.in /\ s.ends = r.ends
           /\ \A reads \in BOOLEAN :
                  LET s == Image(r, reads)
                  IN  s.pc = "run" /\ s.parent = r.parent /\ s.in = r.in /\ s.ends = r.ends
           /\ LET s == Filtered(r)
              IN  /\ s.pc = r.pc /\ s.parent = r.parent
                  /\ s.in = r.in /\ s.ends = r.ends /\ s.pair = r.pair
<1>1. LET s == Closed(r)
      IN  /\ s.pc = r.pc /\ s.parent = r.parent /\ s.in = r.in
          /\ s.ends = r.ends \ Ends(r.pair) /\ s.pair = r.pair
          /\ s.kid1 = r.kid1 /\ s.kid2 = r.kid2
  BY DEF Closed, Process
<1>2. LET s == Return(r)
      IN  /\ s.pc \in {"fork2", "prompt"} /\ s.parent = r.parent
          /\ s.in = r.in /\ s.ends = r.ends
  <2>1. CASE r.back
    BY <2>1 DEF Return, Process
  <2>2. CASE ~r.back
    BY <2>2 DEF Return, Process
  <2> QED BY <2>1, <2>2
<1>3. ASSUME NEW reads \in BOOLEAN
      PROVE  LET s == Image(r, reads)
             IN  s.pc = "run" /\ s.parent = r.parent /\ s.in = r.in /\ s.ends = r.ends
  BY DEF Image, Process
<1>4. LET s == Filtered(r)
      IN  /\ s.pc = r.pc /\ s.parent = r.parent
          /\ s.in = r.in /\ s.ends = r.ends /\ s.pair = r.pair
  BY DEF Filtered, Process
<1> QED BY <1>1, <1>2, <1>3, <1>4

\* A step with no children and no ends open, to a place without either.
LEMMA IdleStep ==
    ASSUME TypeOK, Calm, NEW p \in Procs, NEW r \in Own(p), Set(p, r),
           Live(proc[p]), Kids(p) = {}, Live(r), r.parent = proc[p].parent,
           r.ends = {}, r.pc # "fork1", TalksAs(r) = Talks(p)
    PROVE  Calm'
<1>1. EndsOk(r) /\ KidsOk(r, Kids(p))
  BY DEF EndsOk, KidsOk, Piping
<1> QED BY <1>1, OwnStep

\* Every step keeps Calm, unless it is a call refused.
LEMMA CalmStep ==
    ASSUME TypeOK, Calm, NEW p \in Procs, Runs(p) \/ User(p), trouble' # "refused"
    PROVE  Calm'
<1> DEFINE r == proc[p]
<1>1. r \in Own(p) /\ r \in Process
  BY OwnRecord DEF Own
<1>2. EndsOk(r) /\ KidsOk(r, Kids(p))
  BY DEF Calm
<1>3. r.pc \notin Minding => Kids(p) = {}
  BY <1>2 DEF KidsOk
<1>4. r.pc \notin Piping => r.ends = {}
  BY <1>2 DEF EndsOk
<1>5. ~Refused(p)
  BY DEF Refused
<1>6. ASSUME NEW line \in Lines, Line(p, line) PROVE Calm'
  <2>1. r.pc = "prompt" /\ Live(r) /\ Kids(p) = {} /\ r.ends = {}
    BY <1>3, <1>4, <1>6 DEF Line, At, Live, Minding, Piping
  <2>2. CASE line = "exit"
    BY <1>6, <2>1, <2>2, ExitStep DEF Line
  <2>3. Goes(p, "wait").pc = "wait"
    BY <1>1 DEF Goes, Process
  <2>4. CASE line # "exit" /\ Free = {}
    <3>1. KidsOk(Goes(p, "wait"), Kids(p))
      BY <2>1, <2>3 DEF KidsOk, Minding
    <3>2. Set(p, Goes(p, "wait"))
      BY <1>6, <2>4 DEF Line
    <3> QED BY <2>1, <3>1, <3>2, GoesStep DEF Places
  <2>5. CASE line # "exit" /\ Free # {}
    <3> DEFINE w == Goes(p, "wait")
    <3>1. w.parent = r.parent /\ w.in = r.in /\ w.ends = r.ends /\ w.pair = r.pair
      BY <1>1 DEF Goes, Process
    <3>2. w \in Own(p)
      BY GoesOwn DEF Places
    <3>3. Forks(p, line, w)
      BY <1>6, <2>5 DEF Line
    <3>4. line \in {"simple", "pipe", "pipe3"} /\ line \in Places
      BY <2>5 DEF Lines, Places
    <3> HIDE DEF w
    <3>5. EndsOk(w) /\ KidsOk(w, Kids(p) \cup {Child}) /\ Live(w) /\ TalksAs(w) = Talks(p)
      BY <2>1, <2>3, <3>1 DEF EndsOk, KidsOk, Live, TalksAs, Talks, Minding, w
    <3>6. EndsOk([r EXCEPT !.pc = line])
      BY <1>1, <2>1, <3>4 DEF EndsOk, Process
    <3> QED BY <2>1, <2>5, <3>1, <3>2, <3>3, <3>4, <3>5, <3>6, ForkStep DEF Minding
  <2> QED BY <2>2, <2>4, <2>5
<1>7. CASE Wait(p)
  <2> DEFINE w == Goes(p, "prompt")
  <2>1. r.pc = "wait" /\ Live(r) /\ r.ends = {} /\ Waits(p, Procs, w)
    BY <1>4, <1>7 DEF Wait, At, Live, Piping
  <2>2. /\ w.pc = "prompt" /\ w.parent = r.parent /\ w.in = r.in
        /\ w.ends = r.ends /\ w \in Own(p)
    BY <1>1, GoesOwn DEF Goes, Process, Places
  <2> HIDE DEF w
  <2>3. EndsOk(w) /\ Live(w) /\ TalksAs(w) = Talks(p) /\ KidsOk(w, {})
    BY <2>1, <2>2 DEF EndsOk, Live, TalksAs, Talks, KidsOk
  <2>4. \A z \in Kids(p) : Kids(p) \ {z} = {}
    BY <1>2, <2>1 DEF KidsOk
  <2>5. Procs \cap Kids(p) = Kids(p)
    BY DEF Kids
  <2> QED BY <2>1, <2>2, <2>3, <2>4, <2>5, WaitStep
<1>8. CASE PipeCall(p)
  <2>1. r.pc \in {"pipe", "pipe3"} /\ Live(r) /\ Kids(p) = {} /\ r.ends = {}
    BY <1>3, <1>4, <1>8 DEF PipeCall, At, Live, Minding, Piping
  <2>2. PICK q \in Pipes, fn \in {"pipeIt", "pipeNext"} :
            Set(p, [Goes(p, "fork1") EXCEPT !.fn = fn, !.pair = q, !.ends = @ \cup Ends(q)])
    BY <1>5, <1>8 DEF PipeCall, Unused
  <2> DEFINE g == Goes(p, "fork1")
             w == [g EXCEPT !.fn = fn, !.pair = q, !.ends = @ \cup Ends(q)]
  <2>3. g \in Own(p) /\ g.ends = {} /\ g.parent = r.parent /\ g.in = r.in /\ g.pc = "fork1"
    BY <1>1, <2>1, GoesOwn DEF Goes, Process, Places
  <2>4. Ends(q) \subseteq AllEnds
    BY DEF Ends, AllEnds
  <2> HIDE DEF g
  <2>5. /\ w \in Own(p) /\ w.pc = "fork1" /\ w.parent = r.parent /\ w.in = r.in
        /\ w.ends = Ends(q) /\ w.pair = q
    BY <2>3, <2>4 DEF Own, Process
  <2>6. Set(p, w)
    BY <2>2 DEF g
  <2> HIDE DEF w
  <2>7. EndsOk(w) /\ KidsOk(w, Kids(p)) /\ Live(w) /\ TalksAs(w) = Talks(p)
    BY <2>1, <2>5 DEF EndsOk, KidsOk, Live, TalksAs, Talks, Piping, Minding
  <2> QED BY <2>1, <2>5, <2>6, <2>7, OwnStep
<1>9. CASE Fork1(p)
  <2>1. r.pc = "fork1" /\ Live(r) /\ Kids(p) = {} /\ r.ends = Ends(r.pair)
    BY <1>2, <1>3, <1>9 DEF Fork1, At, Live, Minding, EndsOk
  <2> DEFINE w == [Goes(p, "fork2") EXCEPT !.kid1 = Child]
  <2>2. Free # {} /\ Forks(p, "first", w)
    BY <1>5, <1>9 DEF Fork1
  <2>3. Child \in Procs /\ Child # p
    BY <2>1, <2>2, ChildIsFree DEF Free, Live
  <2>4. /\ w.pc = "fork2" /\ w.parent = r.parent /\ w.in = r.in /\ w.ends = r.ends
        /\ w.pair = r.pair /\ w.kid1 = Child /\ w \in Own(p)
    BY <1>1, <2>3 DEF Goes, Process, Places, Own
  <2>5. Ends(r.pair) # {}
    BY DEF Ends
  <2> HIDE DEF w
  <2>6. EndsOk(w) /\ KidsOk(w, Kids(p) \cup {Child}) /\ Live(w) /\ TalksAs(w) = Talks(p)
    BY <2>1, <2>4, <2>5 DEF EndsOk, KidsOk, Live, TalksAs, Talks, Piping, Minding
  <2>7. EndsOk([r EXCEPT !.pc = "first"])
    BY <1>1, <2>1 DEF EndsOk, Process, Piping
  <2> QED BY <2>1, <2>2, <2>4, <2>6, <2>7, ForkStep DEF Minding, Places
<1>10. CASE Fork2(p)
  <2>1. r.pc = "fork2" /\ Live(r)
    BY <1>10 DEF Fork2, At, Live
  <2> DEFINE w == [Goes(p, "close") EXCEPT !.kid2 = Child]
  <2>2. Free # {} /\ Forks(p, "second", w)
    BY <1>5, <1>10 DEF Fork2
  <2>3. Child \in Procs /\ Child # p
    BY <2>1, <2>2, ChildIsFree DEF Free, Live
  <2>4. /\ w.pc = "close" /\ w.parent = r.parent /\ w.in = r.in /\ w.ends = r.ends
        /\ w.pair = r.pair /\ w.kid1 = r.kid1 /\ w.kid2 = Child /\ w \in Own(p)
    BY <1>1, <2>3 DEF Goes, Process, Places, Own
  <2> HIDE DEF w
  <2>5. EndsOk(w) /\ Live(w) /\ TalksAs(w) = Talks(p)
    BY <1>2, <2>1, <2>4 DEF EndsOk, Live, TalksAs, Talks, Piping
  <2>6. KidsOk(w, Kids(p) \cup {Child})
    BY <1>2, <2>1, <2>4 DEF KidsOk, Minding
  <2>7. EndsOk([r EXCEPT !.pc = "second"])
    BY <1>1, <1>2 DEF EndsOk, Process, Piping
  <2>8. Kids(p) = {} \/ r.ends # {}
    BY <1>2, <2>1 DEF KidsOk
  <2> QED BY <2>1, <2>2, <2>4, <2>5, <2>6, <2>7, <2>8, ForkStep DEF Minding, Places
<1>11. CASE First(p)
  <2>1. r.pc = "first" /\ Live(r) /\ Kids(p) = {}
    BY <1>3, <1>11 DEF First, At, Live, Minding
  <2> DEFINE o == [r EXCEPT !.out = r.pair]
             f == FirstEnd(r)
  <2>2. /\ o \in Own(p) /\ o.parent = r.parent /\ o.in = r.in
        /\ o.ends = r.ends /\ o.pair = r.pair
    BY <1>1 DEF Process, Own, NONE, TTY
  <2>3. f = Closed(o)
    BY DEF FirstEnd
  <2> HIDE DEF o, f
  <2>4. /\ f \in Own(p) /\ f.parent = r.parent /\ f.in = r.in
        /\ f.ends = r.ends \ Ends(r.pair)
    BY <2>2, <2>3, ClosedOwn, Fields DEF Own
  <2>5. f.ends = {}
    BY <1>2, <2>4 DEF EndsOk
  <2>6. ASSUME NEW w \in {[f EXCEPT !.pc = "exec"], [f EXCEPT !.pc = "pipe", !.back = TRUE]},
               Set(p, w)
        PROVE  Calm'
    <3>1. /\ w \in Own(p) /\ w.pc \in {"exec", "pipe"} /\ w.parent = r.parent
          /\ w.in = r.in /\ w.ends = {}
      BY <2>4, <2>5 DEF Own, Process, Places
    <3>2. Live(w) /\ TalksAs(w) = Talks(p)
      BY <2>1, <3>1 DEF Live, TalksAs, Talks
    <3> QED BY <2>1, <2>6, <3>1, <3>2, IdleStep
  <2> QED BY <1>11, <2>6 DEF First, f
<1>12. CASE Second(p)
  <2>1. r.pc = "second" /\ Live(r) /\ Kids(p) = {}
    BY <1>3, <1>12 DEF Second, At, Live, Minding
  <2> DEFINE i == [r EXCEPT !.in = Input(r)]
             f == SecondEnd(r)
             w == [f EXCEPT !.pc = "exec2"]
  <2>2. /\ i \in Own(p) /\ i.parent = r.parent /\ i.ends = r.ends /\ i.pair = r.pair
        /\ i.in = IF r.pair = DIR \/ <<r.pair, "r">> \in r.ends THEN r.pair ELSE r.in
    BY <1>1 DEF Process, Own, NONE, TTY, Input
  <2>3. f = Closed(i)
    BY DEF SecondEnd
  <2> HIDE DEF i, f
  <2>4. /\ f \in Own(p) /\ f.parent = r.parent /\ f.in = i.in
        /\ f.ends = r.ends \ Ends(r.pair)
    BY <2>2, <2>3, ClosedOwn, Fields DEF Own
  <2>5. f.ends = {}
    BY <1>2, <2>4 DEF EndsOk
  <2>6. /\ w \in Own(p) /\ w.pc = "exec2" /\ w.parent = r.parent
        /\ w.in = i.in /\ w.ends = {}
    BY <2>4, <2>5 DEF Own, Process, Places
  <2>7. Set(p, w)
    BY <1>12 DEF Second, f
  <2> HIDE DEF w
  <2>8. TalksAs(w) = Talks(p)
    <3>1. CASE r.ends = {}
      BY <2>1, <2>2, <2>6, <3>1, NumbersApart DEF TalksAs, Talks, Live
    <3>2. CASE r.ends = Ends(r.pair)
      <4>1. <<r.pair, "r">> \in r.ends
        BY <3>2 DEF Ends
      <4>2. r.pair \in Pipes
        BY <1>1, <4>1 DEF Process, AllEnds
      <4>3. i.in # TTY
        BY <2>2, <4>1, <4>2, NumbersApart
      <4>4. r.ends # {}
        BY <4>1
      <4> QED BY <2>1, <2>6, <4>3, <4>4 DEF TalksAs, Talks, Live
    <3> QED BY <1>2, <3>1, <3>2 DEF EndsOk
  <2>9. Live(w)
    BY <2>6 DEF Live
  <2> QED BY <2>1, <2>6, <2>7, <2>8, <2>9, IdleStep
<1>13. CASE Exec(p)
  <2>1. /\ r.pc \in {"simple", "exec", "exec2"} /\ Live(r)
        /\ Kids(p) = {} /\ r.ends = {}
    BY <1>3, <1>4, <1>13 DEF Exec, Live, Minding, Piping
  <2>2. PICK reads \in BOOLEAN : Set(p, Image(r, reads))
    BY <1>13 DEF Exec
  <2> DEFINE w == Image(r, reads)
  <2>3. /\ w \in Own(p) /\ w.pc = "run" /\ w.parent = r.parent
        /\ w.in = r.in /\ w.ends = {}
    BY <1>1, <2>1, ImageOwn, Fields
  <2> HIDE DEF w
  <2>4. Live(w) /\ TalksAs(w) = Talks(p)
    BY <2>1, <2>3 DEF Live, TalksAs, Talks
  <2> QED BY <2>1, <2>2, <2>3, <2>4, IdleStep DEF w
<1>14. CASE ExecFails(p)
  <2>1. /\ r.pc \in {"simple", "exec", "exec2"} /\ Live(r)
        /\ Kids(p) = {} /\ r.ends = {}
    BY <1>3, <1>4, <1>14 DEF ExecFails, At, Live, Minding, Piping
  <2>2. CASE Exits(p)
    BY <2>1, <2>2, ExitStep
  <2>3. ASSUME NEW pc \in {"fork2", "close"}, Set(p, Goes(p, pc)) PROVE Calm'
    <3>1. KidsOk(Goes(p, pc), Kids(p))
      BY <2>1 DEF KidsOk
    <3> QED BY <2>1, <2>3, <3>1, GoesStep DEF Places
  <2> QED BY <1>14, <2>2, <2>3 DEF ExecFails
<1>15. CASE Close(p)
  <2>1. r.pc = "close" /\ Live(r)
    BY <1>15 DEF Close, At, Live
  <2> DEFINE f == Closed(r)
             w == [f EXCEPT !.pc = "wait2"]
  <2>2. /\ f \in Own(p) /\ f.parent = r.parent /\ f.in = r.in
        /\ f.ends = {} /\ f.kid1 = r.kid1 /\ f.kid2 = r.kid2
    BY <1>1, <1>2, ClosedOwn, Fields DEF EndsOk
  <2>3. Set(p, w)
    BY <1>15 DEF Close
  <2> HIDE DEF f
  <2>4. /\ w \in Own(p) /\ w.pc = "wait2" /\ w.parent = r.parent /\ w.in = r.in
        /\ w.ends = {} /\ w.kid1 = r.kid1 /\ w.kid2 = r.kid2
    BY <2>2 DEF Own, Process, Places
  <2> HIDE DEF w
  <2>5. EndsOk(w) /\ KidsOk(w, Kids(p)) /\ Live(w) /\ TalksAs(w) = Talks(p)
    BY <1>2, <2>1, <2>4 DEF EndsOk, KidsOk, Minding, Live, TalksAs, Talks
  <2> QED BY <2>1, <2>3, <2>4, <2>5, OwnStep
<1>16. CASE Wait2(p)
  <2> DEFINE w == Goes(p, "wait1")
             S == Awaited(r.kid2)
  <2>1. r.pc = "wait2" /\ Live(r) /\ r.ends = {} /\ Waits(p, S, w)
    BY <1>4, <1>16 DEF Wait2, At, Live, Piping
  <2>2. /\ w.pc = "wait1" /\ w.parent = r.parent /\ w.in = r.in
        /\ w.ends = r.ends /\ w.kid1 = r.kid1 /\ w \in Own(p)
    BY <1>1, GoesOwn DEF Goes, Process, Places
  <2> HIDE DEF w
  <2>3. EndsOk(w) /\ Live(w) /\ TalksAs(w) = Talks(p)
    BY <2>1, <2>2 DEF EndsOk, Live, TalksAs, Talks
  <2>4. Kids(p) \subseteq {r.kid1, r.kid2} /\ Kids(p) \subseteq Procs
    BY <1>2, <2>1 DEF KidsOk, Kids
  <2>5. S \cap Kids(p) = {} => Kids(p) \subseteq {r.kid1}
    BY <2>4 DEF Awaited
  <2>6. \A z \in S \cap Kids(p) : Kids(p) \ {z} \subseteq {r.kid1}
    BY <2>4, NumbersApart DEF Awaited
  <2>7. \A kids : kids \subseteq {r.kid1} => KidsOk(w, kids)
    BY <2>2 DEF KidsOk, Minding
  <2> QED BY <2>1, <2>2, <2>3, <2>5, <2>6, <2>7, WaitStep
<1>17. CASE Wait1(p)
  <2> DEFINE w == Return(r)
             S == Awaited(r.kid1)
  <2>1. r.pc = "wait1" /\ Live(r) /\ r.ends = {} /\ Waits(p, S, w)
    BY <1>4, <1>17 DEF Wait1, At, Live, Piping
  <2>2. /\ w.pc \in {"fork2", "prompt"} /\ w.parent = r.parent /\ w.in = r.in
        /\ w.ends = r.ends /\ w \in Own(p)
    BY <1>1, ReturnOwn, Fields
  <2> HIDE DEF w
  <2>3. EndsOk(w) /\ Live(w) /\ TalksAs(w) = Talks(p) /\ KidsOk(w, {})
    BY <2>1, <2>2 DEF EndsOk, Live, TalksAs, Talks, KidsOk
  <2>4. Kids(p) \subseteq {r.kid1} /\ Kids(p) \subseteq Procs
    BY <1>2, <2>1 DEF KidsOk, Kids
  <2>5. S \cap Kids(p) = {} => Kids(p) = {}
    BY <2>4 DEF Awaited
  <2>6. \A z \in S \cap Kids(p) : Kids(p) \ {z} = {}
    BY <2>4
  <2> QED BY <2>1, <2>2, <2>3, <2>5, <2>6, WaitStep
<1>18. ASSUME r.pc = "run" PROVE Live(r) /\ Kids(p) = {} /\ r.ends = {}
  BY <1>3, <1>4, <1>18 DEF Live, Minding, Piping
<1>19. CASE Write(p)
  <2> DEFINE w == [r EXCEPT !.todo = @ - 1]
  <2>1. r.pc = "run" /\ Set(p, w)
    BY <1>19 DEF Write, At
  <2>2. /\ w \in Own(p) /\ w.pc = "run" /\ w.parent = r.parent
        /\ w.in = r.in /\ w.ends = {}
    BY <1>1, <1>18, <1>19, <2>1, LimitsAssumption DEF Own, Process, Write
  <2> HIDE DEF w
  <2>3. Live(w) /\ TalksAs(w) = Talks(p)
    BY <2>1, <2>2 DEF Live, TalksAs, Talks
  <2> QED BY <1>18, <2>1, <2>2, <2>3, IdleStep
<1>20. CASE Set(p, Filtered(r)) /\ r.pc = "run"
  <2> DEFINE w == Filtered(r)
  <2>1. /\ w \in Own(p) /\ w.pc = "run" /\ w.parent = r.parent
        /\ w.in = r.in /\ w.ends = {}
    BY <1>1, <1>18, <1>20, FilteredOwn, Fields
  <2>2. Set(p, w)
    BY <1>20
  <2> HIDE DEF w
  <2>3. Live(w) /\ TalksAs(w) = Talks(p)
    BY <1>20, <2>1 DEF Live, TalksAs, Talks
  <2> QED BY <1>18, <1>20, <2>1, <2>2, <2>3, IdleStep
<1>21. CASE Exits(p) /\ r.pc = "run"
  BY <1>18, <1>21, ExitStep
<1>22. Read(p) \/ TypeLine(p) => Set(p, Filtered(r)) /\ r.pc = "run"
  BY DEF Read, TypeLine, Reading, At
<1>23. Finish(p) \/ TypeEnd(p) => Exits(p) /\ r.pc = "run"
  BY DEF Finish, TypeEnd, Reading, At
<1> QED BY <1>6, <1>7, <1>8, <1>9, <1>10, <1>11, <1>12, <1>13, <1>14, <1>15, <1>16, <1>17,
           <1>19, <1>20, <1>21, <1>22, <1>23 DEF Runs, User

-----------------------------------------------------------------------------
(* The theorems.                                                           *)

\* A call that was refused is not forgotten.
LEMMA RefusedStays ==
    ASSUME [Next]_vars, trouble' # "refused"
    PROVE  trouble # "refused"
<1>1. CASE UNCHANGED vars
  BY <1>1 DEF vars
<1>2. ASSUME NEW p \in Procs, Runs(p) \/ User(p) PROVE trouble # "refused"
  <2>1. ~Refused(p)
    BY DEF Refused
  <2>2. ASSUME NEW line \in Lines, Line(p, line) PROVE trouble' = trouble
    BY <2>2 DEF Line
  <2>3. CASE Wait(p) \/ Wait2(p) \/ Wait1(p)
    BY <2>3 DEF Wait, Wait2, Wait1, Waits
  <2>4. CASE PipeCall(p) \/ Fork1(p) \/ Fork2(p)
    BY <2>1, <2>4 DEF PipeCall, Fork1, Fork2
  <2>5. CASE First(p) \/ Second(p) \/ Exec(p) \/ Close(p)
    BY <2>5 DEF First, Second, Exec, Close
  <2>6. CASE ExecFails(p)
    BY <2>6 DEF ExecFails
  <2>7. CASE Write(p) \/ Finish(p) \/ Read(p) \/ TypeLine(p) \/ TypeEnd(p)
    BY <2>7 DEF Write, Finish, Read, TypeLine, TypeEnd
  <2> QED BY <1>2, <2>2, <2>3, <2>4, <2>5, <2>6, <2>7 DEF Runs, User
<1> QED BY <1>1, <1>2 DEF Next

\* The types, and what the processes hold, have as children and share of the
\* terminal while no call was refused, are kept by every step of the shells and of
\* the programs they run: Inv is inductive.
THEOREM ShellInvariant == Spec => []Inv
<1>1. Init => Inv
  BY InitCalm
<1>2. Inv /\ [Next]_vars => Inv'
  <2> SUFFICES ASSUME Inv, [Next]_vars PROVE Inv'
    OBVIOUS
  <2>1. TypeOK /\ TypeOK'
    BY TypeStep DEF Inv
  <2>2. ASSUME trouble' # "refused" PROVE Calm'
    <3>1. Calm
      BY <2>2, RefusedStays DEF Inv
    <3>2. CASE UNCHANGED vars
      <4>1. proc' = proc
        BY <3>2 DEF vars
      <4>2. \A k \in Procs : Kids(k)' = Kids(k)
        BY <4>1 DEF Kids
      <4>3. \A k \in Procs : Leaf(k)' = Leaf(k)
        BY <4>1, <4>2 DEF Leaf, Talks
      <4> QED BY <3>1, <4>1, <4>2, <4>3 DEF Calm
    <3>3. CASE Next
      <4>1. PICK p \in Procs : Runs(p) \/ User(p)
        BY <3>3 DEF Next
      <4> QED BY <2>1, <2>2, <3>1, <4>1, CalmStep
    <3> QED BY <3>2, <3>3
  <2> QED BY <2>1, <2>2 DEF Inv
<1> QED BY <1>1, <1>2, PTL DEF Spec

\* Every process, its descriptors and its variables, and what the pipes hold, have
\* their types: no pipe holds more than fits, and no process awaits itself.
THEOREM ShellTypes == Spec => []TypeOK
<1>1. Inv => TypeOK
  BY DEF Inv
<1> QED BY <1>1, ShellInvariant, PTL

\* A shell that asks for a line has no child and no end of a pipe but its own input
\* and output, however many pipelines it and the shells above it have run.
THEOREM CleanPrompt == Spec => []PromptIsClean
<1>1. Inv => PromptIsClean
  BY DEF Inv, Calm, KidsOk, EndsOk, Minding, Piping, At, PromptIsClean
<1> QED BY <1>1, ShellInvariant, PTL

\* The user never talks to two processes at once: a shell at its prompt and a program
\* that reads have no children, and of the processes at the terminal only one, the
\* last of their line, has none that is at the terminal too.
THEOREM OneAtTerminal == Spec => []OneReader
<1>1. ASSUME Inv, trouble # "refused" PROVE Cardinality(AtTerminal) <= 1
  <2>1. Calm
    BY <1>1 DEF Inv
  <2>2. ASSUME NEW p \in AtTerminal PROVE p \in Procs /\ Leaf(p)
    <3>1. p \in Procs /\ proc[p].in = TTY /\ proc[p].pc \in {"prompt", "run"}
      BY <2>2 DEF AtTerminal, At, Reading
    <3>2. Kids(p) = {}
      BY <2>1, <3>1 DEF Calm, KidsOk, Minding
    <3> QED BY <3>1, <3>2 DEF Leaf, Talks, TalksAs, Live
  <2>3. \A p, q \in AtTerminal : p = q
    BY <2>1, <2>2 DEF Calm
  <2>4. AtTerminal = {} \/ \E p \in AtTerminal : AtTerminal = {p}
    BY <2>3
  <2>5. \A p : Cardinality({p}) = 1
    BY FS_Singleton
  <2>6. Cardinality(AtTerminal) \in {0, 1}
    BY <2>4, <2>5, FS_EmptySet
  <2> QED BY <2>6
<1>2. Inv => OneReader
  BY <1>1 DEF OneReader
<1> QED BY <1>2, ShellInvariant, PTL

-----------------------------------------------------------------------------
(* The inductive invariant behind NoWaitCycle.                             *)

\* The pipes and the two sides of the terminal lie on a line, pos says where, and a
\* process stands between its input and its output.  A child of a pipeline that has not
\* yet done its dup2() stands where it will; the one that has the second half only if
\* it was forked with the pipe open.  left[p] is where the input of p lies; if that is a
\* directory, at which nobody waits, it is where the input lay before.
Slots == 0 .. NPIPE + 1
From(r) == IF r.pc = "second" /\ r.ends # {} THEN r.pair ELSE r.in
To(r) == IF r.pc = "first" THEN r.pair ELSE IF r.out = TTY THEN NPIPE + 1 ELSE r.out

\* A process about to divide what lies between its ends among its children, at fd[].
Splits(r) == r.pc \in {"fork1", "fork2"} /\ r.ends # {}

\* desc[p]: the children of p, their children, and so on.
Tree(desc) ==
    \A p \in Procs :
        /\ Kids(p) \subseteq desc[p]
        /\ p \notin desc[p]
        /\ \A r \in desc[p] : /\ proc[r].pc # "gone"
                              /\ desc[r] \subseteq desc[p]
                              /\ \E k \in Kids(p) : r = k \/ r \in desc[k]

\* Descendants stand inside, all others apart; the children a process in front of its
\* second fork has stand left of its fd[].
StandsWell(pos, left, desc, p) ==
    LET r == proc[p]
    IN  /\ From(r) = DIR \/ left[p] = pos[From(r)]
        /\ left[p] < pos[To(r)]
        /\ r.pc = "first" => r.ends = Ends(r.pair)
        /\ Splits(r) => /\ left[p] < pos[r.pair] /\ pos[r.pair] < pos[To(r)]
                        /\ \A k \in Alive : k \in desc[p] => pos[To(proc[k])] <= pos[r.pair]
StandApart(pos, left, desc, p, k) ==
    /\ k \in desc[p] => /\ left[p] <= left[k]
                        /\ pos[To(proc[k])] <= pos[To(proc[p])]
    /\ \/ p = k \/ k \in desc[p] \/ p \in desc[k]
       \/ pos[To(proc[p])] <= left[k]
       \/ pos[To(proc[k])] <= left[p]
Spans(pos, left, desc) == /\ \A p \in Alive : StandsWell(pos, left, desc, p)
                          /\ \A p, k \in Alive : StandApart(pos, left, desc, p, k)

Ordered == \E pos \in Injection(Slots, Nat), left \in [Procs -> Nat],
              desc \in [Procs -> SUBSET Procs] :
               Tree(desc) /\ Spans(pos, left, desc)

LEMMA SlotTypes ==
    ASSUME NEW r \in Process
    PROVE  From(r) \in Slots /\ To(r) \in Slots /\ r.pair \in Slots
BY LimitsAssumption DEF Process, From, To, Slots, Pipes, TTY, NONE, DIR

LEMMA InitOrdered ==
    ASSUME Init
    PROVE  Ordered
<1> DEFINE pos == [s \in Slots |-> s]
           left == [p \in Procs |-> 0]
           desc == [p \in Procs |-> {}]
<1>1. /\ pos \in Injection(Slots, Nat) /\ left \in [Procs -> Nat]
      /\ desc \in [Procs -> SUBSET Procs]
  BY LimitsAssumption DEF Slots, Injection, IsInjective
<1>2. \A p \in Procs : /\ proc[p].pc = IF p = ROOT THEN "prompt" ELSE "gone"
                       /\ proc[p].parent = NONE /\ proc[p].in = TTY /\ proc[p].out = TTY
  BY DEF Init, Gone
<1>3. \A p \in Procs : Kids(p) = {}
  BY <1>2, NumbersApart DEF Kids
<1>4. Tree(desc)
  BY <1>3 DEF Tree
<1>5. Alive \subseteq {ROOT}
  BY <1>2 DEF Alive
<1>6. \A p \in Alive : From(proc[p]) = 0 /\ To(proc[p]) = NPIPE + 1 /\ ~Splits(proc[p])
                       /\ proc[p].pc # "first" /\ 0 \in Slots /\ NPIPE + 1 \in Slots
  BY <1>2, <1>5, LimitsAssumption DEF From, To, Splits, TTY, Alive, Slots
<1>7. /\ pos[0] = 0 /\ pos[NPIPE + 1] = NPIPE + 1
      /\ \A p \in Alive : left[p] = 0
  BY LimitsAssumption DEF Slots, Alive
<1>8. \A p \in Alive : StandsWell(pos, left, desc, p)
  <2> HIDE DEF pos, left
  <2> QED BY <1>6, <1>7, LimitsAssumption DEF StandsWell
<1>9. \A p, k \in Alive : StandApart(pos, left, desc, p, k)
  BY <1>5 DEF StandApart, Alive
<1> QED BY <1>1, <1>4, <1>8, <1>9 DEF Spans, Ordered

\* A step after which every process stands where it stood, and none of those that have
\* changed is about to divide what is between its ends.
LEMMA Stand ==
    ASSUME NEW pos, NEW left, NEW desc, NEW d, Spans(pos, left, desc),
           ASSUME NEW p \in Alive'
           PROVE  /\ p \in Alive
                  /\ From(proc'[p]) \in {From(proc[p]), DIR} /\ To(proc'[p]) = To(proc[p])
                  /\ Splits(proc'[p]) \/ proc'[p].pc = "first" => proc'[p] = proc[p],
           ASSUME NEW p \in Alive', NEW k \in Alive'
           PROVE  k \in d[p] <=> k \in desc[p]
    PROVE  Spans(pos, left, d)'
<1>1. ASSUME NEW p \in Alive' PROVE StandsWell(pos, left, d, p)'
  <2>1. StandsWell(pos, left, desc, p)
    BY DEF Spans
  <2> QED BY <2>1 DEF StandsWell
<1>2. ASSUME NEW p \in Alive', NEW k \in Alive' PROVE StandApart(pos, left, d, p, k)'
  <2>1. StandApart(pos, left, desc, p, k)
    BY DEF Spans
  <2> QED BY <2>1 DEF StandApart
<1> QED BY <1>1, <1>2 DEF Spans

\* A step of p on its own record.
LEMMA OwnOrdered ==
    ASSUME TypeOK, Ordered, NEW p \in Procs, NEW r \in Own(p), Set(p, r),
           Live(proc[p]), Live(r), r.parent = proc[p].parent,
           From(r) \in {From(proc[p]), DIR}, To(r) = To(proc[p]), ~Splits(r), r.pc # "first"
    PROVE  Ordered'
<1>1. \A k \in Procs : proc'[k] = IF k = p THEN r ELSE proc[k]
  BY DEF Set, TypeOK
<1>2. \A k \in Procs : Kids(k)' = Kids(k)
  BY <1>1 DEF Kids, Live
<1>3. PICK pos \in Injection(Slots, Nat), left \in [Procs -> Nat],
          desc \in [Procs -> SUBSET Procs] :
          Tree(desc) /\ Spans(pos, left, desc)
  BY DEF Ordered
<1>4. Tree(desc)'
  BY <1>1, <1>2, <1>3 DEF Tree, Live
<1>5. Alive' = Alive /\ Alive \subseteq Procs
  BY <1>1 DEF Alive, Live
<1>6. Spans(pos, left, desc)'
  BY <1>1, <1>3, <1>5, Stand
<1> QED BY <1>3, <1>4, <1>6 DEF Ordered

\* The end of z, which has no children, and of which nothing is left.
Without(desc, z) == [p \in Procs |-> desc[p] \ {z}]
LEMMA TreeWithout ==
    ASSUME NEW desc \in [Procs -> SUBSET Procs], Tree(desc), NEW z \in Procs, Kids(z) = {},
           ASSUME NEW p \in Procs PROVE Kids(p)' = Kids(p) \ {z},
           ASSUME NEW p \in Procs \ {z} PROVE proc'[p].pc = "gone" => proc[p].pc = "gone"
    PROVE  /\ Without(desc, z) \in [Procs -> SUBSET Procs]
           /\ Tree(Without(desc, z))'
<1> DEFINE d == Without(desc, z)
<1>1. d \in [Procs -> SUBSET Procs] /\ \A p \in Procs : d[p] = desc[p] \ {z}
  BY DEF Without
<1>2. desc[z] = {}
  BY DEF Tree
<1> HIDE DEF d
<1>3. ASSUME NEW p \in Procs
      PROVE  /\ Kids(p)' \subseteq d[p]
             /\ p \notin d[p]
             /\ \A r \in d[p] : /\ proc'[r].pc # "gone"
                                /\ d[r] \subseteq d[p]
                                /\ \E k \in Kids(p)' : r = k \/ r \in d[k]
  <2>1. Kids(p)' \subseteq d[p] /\ p \notin d[p]
    BY <1>1 DEF Tree
  <2>2. ASSUME NEW r \in d[p]
        PROVE  /\ proc'[r].pc # "gone"
               /\ d[r] \subseteq d[p]
               /\ \E k \in Kids(p)' : r = k \/ r \in d[k]
    <3>1. r \in Procs /\ r # z /\ r \in desc[p]
      BY <1>1
    <3>2. proc'[r].pc # "gone" /\ d[r] \subseteq d[p]
      BY <1>1, <3>1 DEF Tree
    <3>3. PICK k \in Kids(p) : r = k \/ r \in desc[k]
      BY <3>1 DEF Tree
    <3>4. k # z /\ k \in Procs
      BY <1>2, <3>1, <3>3 DEF Kids
    <3>5. k \in Kids(p)'
      BY <3>4
    <3> QED BY <1>1, <3>1, <3>2, <3>3, <3>4, <3>5
  <2> QED BY <2>1, <2>2
<1>4. Tree(d)'
  BY <1>3 DEF Tree
<1> QED BY <1>1, <1>4 DEF d

\* p takes the exit status of its child z and goes on as r.
LEMMA ReapOrdered ==
    ASSUME TypeOK, Calm, Ordered, NEW p \in Procs, NEW r \in Own(p), NEW z \in Kids(p),
           proc[z].pc = "zombie", proc' = [proc EXCEPT ![p] = r, ![z] = Gone],
           Live(proc[p]), Live(r), r.parent = proc[p].parent,
           From(r) \in {From(proc[p]), DIR}, To(r) = To(proc[p]), ~Splits(r), r.pc # "first"
    PROVE  Ordered'
<1>1. z \in Procs /\ z # p /\ proc[z].parent = p
  BY DEF Kids, Live
<1>2. \A k \in Procs : proc'[k] = IF k = z THEN Gone ELSE IF k = p THEN r ELSE proc[k]
  BY <1>1 DEF TypeOK
<1>3. Gone.pc = "gone"
  BY DEF Gone
<1>4. ASSUME NEW k \in Procs PROVE Kids(k)' = Kids(k) \ {z}
  <2>1. \A l \in Procs : (l \in Kids(k))' <=> l \in Kids(k) /\ l # z
    BY <1>1, <1>2, <1>3 DEF Kids, Live
  <2>2. Kids(k) \subseteq Procs /\ Kids(k)' \subseteq Procs
    BY DEF Kids
  <2> QED BY <2>1, <2>2
<1>5. Kids(z) = {}
  BY <1>1 DEF Calm, KidsOk, Minding
<1>6. PICK pos \in Injection(Slots, Nat), left \in [Procs -> Nat],
          desc \in [Procs -> SUBSET Procs] :
          Tree(desc) /\ Spans(pos, left, desc)
  BY DEF Ordered
<1> DEFINE d == Without(desc, z)
<1>7. d \in [Procs -> SUBSET Procs] /\ Tree(d)'
  BY <1>1, <1>2, <1>4, <1>5, <1>6, TreeWithout DEF Live
<1>8. Alive' = Alive /\ Alive \subseteq Procs /\ z \notin Alive
  BY <1>1, <1>2, <1>3 DEF Alive, Live
<1>9. \A k, l \in Alive : l \in d[k] <=> l \in desc[k]
  BY <1>8 DEF Without
<1> HIDE DEF d
<1>10. Spans(pos, left, d)'
  BY <1>2, <1>6, <1>8, <1>9, Stand
<1> QED BY <1>6, <1>7, <1>10 DEF Ordered

LEMMA WaitOrdered ==
    ASSUME TypeOK, Calm, Ordered, NEW p \in Procs, NEW S, NEW r \in Own(p), Waits(p, S, r),
           Live(proc[p]), Live(r), r.parent = proc[p].parent,
           From(r) \in {From(proc[p]), DIR}, To(r) = To(proc[p]), ~Splits(r), r.pc # "first"
    PROVE  Ordered'
<1>1. CASE Set(p, r)
  BY <1>1, OwnOrdered
<1>2. CASE \E z \in Zombies(S \cap Kids(p)) : proc' = [proc EXCEPT ![p] = r, ![z] = Gone]
  <2>1. PICK z \in Kids(p) : /\ proc[z].pc = "zombie"
                             /\ proc' = [proc EXCEPT ![p] = r, ![z] = Gone]
    BY <1>2 DEF Zombies
  <2> QED BY <2>1, ReapOrdered
<1> QED BY <1>1, <1>2 DEF Waits

\* A process without children ends.
LEMMA ExitOrdered ==
    ASSUME TypeOK, Calm, Ordered, NEW p \in Procs, Exits(p), Live(proc[p]), Kids(p) = {}
    PROVE  Ordered'
<1> DEFINE e == IF proc[p].parent = NONE THEN Gone
                ELSE [Gone EXCEPT !.pc = "zombie", !.parent = proc[p].parent]
<1>1. \A k \in Procs : proc'[k] = IF k = p THEN e ELSE proc[k]
  BY DEF Exits
<1>2. /\ e.pc \in {"gone", "zombie"}
      /\ proc[p].parent # NONE => e.pc = "zombie" /\ e.parent = proc[p].parent
      /\ proc[p].parent = NONE => e.pc = "gone"
  BY DEF Gone
<1> HIDE DEF e
<1>3. ASSUME NEW k \in Procs PROVE Kids(k)' = Kids(k)
  <2>1. (p \in Kids(k))' <=> p \in Kids(k)
    BY <1>1, <1>2, NumbersApart DEF Kids, Live
  <2>2. \A l \in Procs : l # p => ((l \in Kids(k))' <=> l \in Kids(k))
    BY <1>1 DEF Kids
  <2>3. Kids(k) \subseteq Procs /\ Kids(k)' \subseteq Procs
    BY DEF Kids
  <2> QED BY <2>1, <2>2, <2>3
<1>4. PICK pos \in Injection(Slots, Nat), left \in [Procs -> Nat],
          desc \in [Procs -> SUBSET Procs] :
          Tree(desc) /\ Spans(pos, left, desc)
  BY DEF Ordered
<1>5. Alive' = Alive \ {p} /\ Alive \subseteq Procs
  BY <1>1, <1>2 DEF Alive
<1>6. CASE proc[p].parent = NONE
  <2> DEFINE d == Without(desc, p)
  <2>1. \A k \in Procs : p \notin Kids(k)
    BY <1>6, NumbersApart DEF Kids
  <2>2. \A k \in Procs : Kids(k)' = Kids(k) \ {p}
    BY <1>3, <2>1
  <2>3. d \in [Procs -> SUBSET Procs] /\ Tree(d)'
    BY <1>1, <1>4, <2>2, TreeWithout
  <2>4. \A k, l \in Alive' : l \in d[k] <=> l \in desc[k]
    BY <1>5 DEF Without
  <2> HIDE DEF d
  <2>5. Spans(pos, left, d)'
    BY <1>1, <1>4, <1>5, <2>4, Stand
  <2> QED BY <1>4, <2>3, <2>5 DEF Ordered
<1>7. CASE proc[p].parent # NONE
  <2>1. Tree(desc)'
    BY <1>1, <1>2, <1>3, <1>4, <1>7 DEF Tree
  <2>2. Spans(pos, left, desc)'
    BY <1>1, <1>4, <1>5, Stand
  <2> QED BY <1>4, <2>1, <2>2 DEF Ordered
<1> QED BY <1>6, <1>7

\* fork(): the child c is a new leaf of the tree below p.
Grown(desc, p, c) == [x \in Procs |-> IF x = p \/ p \in desc[x] THEN desc[x] \cup {c} ELSE desc[x]]
LEMMA TreeGrown ==
    ASSUME NEW desc \in [Procs -> SUBSET Procs], Tree(desc), NEW p \in Procs, NEW c \in Procs,
           c # p, proc[c].pc = "gone", Kids(c) = {}, proc'[c].pc # "gone",
           Kids(p)' = Kids(p) \cup {c},
           ASSUME NEW x \in Procs \ {p} PROVE Kids(x)' = Kids(x),
           ASSUME NEW x \in Procs PROVE proc'[x].pc = "gone" => proc[x].pc = "gone"
    PROVE  /\ Grown(desc, p, c) \in [Procs -> SUBSET Procs]
           /\ Tree(Grown(desc, p, c))'
<1> DEFINE d == Grown(desc, p, c)
<1>1. /\ d \in [Procs -> SUBSET Procs]
      /\ \A x \in Procs : d[x] = IF x = p \/ p \in desc[x] THEN desc[x] \cup {c} ELSE desc[x]
  BY DEF Grown
<1>2. desc[c] = {} /\ \A x \in Procs : c \notin desc[x]
  BY DEF Tree
<1>3. p \notin desc[p]
  BY DEF Tree
<1> HIDE DEF d
<1>4. ASSUME NEW x \in Procs
      PROVE  /\ Kids(x)' \subseteq d[x]
             /\ x \notin d[x]
             /\ \A r \in d[x] : /\ proc'[r].pc # "gone"
                                /\ d[r] \subseteq d[x]
                                /\ \E k \in Kids(x)' : r = k \/ r \in d[k]
  <2>1. Kids(x)' \subseteq d[x]
    BY <1>1 DEF Tree
  <2>2. x \notin d[x]
    BY <1>1, <1>2 DEF Tree
  <2>3. \A k \in Kids(x) : k \in Procs /\ k \in Kids(x)'
    BY DEF Kids
  <2>4. ASSUME NEW r \in d[x], r # c
        PROVE  /\ proc'[r].pc # "gone"
               /\ d[r] \subseteq d[x]
               /\ \E k \in Kids(x)' : r = k \/ r \in d[k]
    <3>1. r \in Procs /\ r \in desc[x]
      BY <1>1, <2>4
    <3>2. proc'[r].pc # "gone" /\ desc[r] \subseteq desc[x]
      BY <3>1 DEF Tree
    <3>3. d[r] \subseteq d[x]
      <4>1. (r = p \/ p \in desc[r]) => p \in desc[x]
        BY <3>1, <3>2
      <4> QED BY <1>1, <3>1, <3>2, <4>1
    <3>4. PICK k \in Kids(x) : r = k \/ r \in desc[k]
      BY <3>1 DEF Tree
    <3> QED BY <1>1, <2>3, <3>2, <3>3, <3>4
  <2>5. ASSUME c \in d[x]
        PROVE  /\ proc'[c].pc # "gone"
               /\ d[c] \subseteq d[x]
               /\ \E k \in Kids(x)' : c = k \/ c \in d[k]
    <3>1. d[c] = {}
      BY <1>1, <1>2
    <3>2. x = p \/ p \in desc[x]
      BY <1>1, <1>2, <2>5
    <3>3. CASE x = p
      BY <3>1, <3>3
    <3>4. CASE p \in desc[x]
      <4>1. PICK k \in Kids(x) : p = k \/ p \in desc[k]
        BY <3>4 DEF Tree
      <4>2. c \in d[k]
        BY <1>1, <2>3, <4>1
      <4> QED BY <2>3, <3>1, <4>2
    <3> QED BY <3>2, <3>3, <3>4
  <2> QED BY <2>1, <2>2, <2>4, <2>5
<1>5. Tree(d)'
  BY <1>4 DEF Tree
<1> QED BY <1>1, <1>5 DEF d

\* Transitivity, on the line.
LEMMA Below ==
    ASSUME NEW a \in Nat, NEW b \in Nat, NEW c \in Nat, a <= b, b <= c
    PROVE  a <= c
OBVIOUS

\* The child as fork() makes it.
Forked(p, pc) == [proc[p] EXCEPT !.pc = pc, !.parent = p, !.kid1 = NONE, !.kid2 = NONE]

LEMMA ForkedFields ==
    ASSUME TypeOK, NEW p \in Procs, NEW pc \in Places
    PROVE  LET c == Forked(p, pc)
           IN  /\ c \in Process /\ c.pc = pc /\ c.parent = p /\ c.ends = proc[p].ends
               /\ c.pair = proc[p].pair /\ c.in = proc[p].in /\ c.out = proc[p].out
<1>1. proc[p] \in Process
  BY OwnRecord DEF Own
<1> QED BY <1>1, NumbersApart DEF Process, Forked

\* p forks a child, which stands between the ends of p and right of the descendants p has;
\* p itself may have come to its second fork, if the child stands left of its fd[].
LEMMA ForkOrdered ==
    ASSUME TypeOK, Calm,
           NEW pos \in Injection(Slots, Nat), NEW left \in [Procs -> Nat],
           NEW desc \in [Procs -> SUBSET Procs], Tree(desc), Spans(pos, left, desc),
           NEW p \in Procs, NEW r \in Own(p), NEW pc \in Places,
           Free # {}, Forks(p, pc, r), Live(proc[p]), Live(r), r.parent = proc[p].parent,
           pc \notin {"gone", "zombie", "fork1", "fork2"}, r.pc # "first",
           From(r) = From(proc[p]), To(r) = To(proc[p]),
           NEW c, c = Forked(p, pc), NEW from \in Nat,
           From(c) = DIR \/ from = pos[From(c)],
           left[p] <= from, from < pos[To(c)], pos[To(c)] <= pos[To(proc[p])],
           \A k \in Alive : k \in desc[p] => pos[To(proc[k])] <= from,
           pc = "first" => proc[p].ends = Ends(proc[p].pair),
           Splits(r) => /\ Splits(proc[p]) /\ r.pair = proc[p].pair
                        /\ pos[To(c)] <= pos[r.pair]
    PROVE  Ordered'
<1>0. PICK n \in Procs : n = Child
  BY ChildIsFree DEF Free
<1>1. proc[n].pc = "gone" /\ n # p
  BY <1>0, ChildIsFree DEF Free, Live
<1>2. c \in Process
  BY ForkedFields
<1>3. c.pc = pc /\ c.parent = p /\ c.ends = proc[p].ends /\ c.pair = proc[p].pair
  BY ForkedFields
<1>4. \A k \in Procs : proc'[k] = IF k = n THEN c ELSE IF k = p THEN r ELSE proc[k]
  BY <1>0, <1>1 DEF Forks, Forked, TypeOK
<1>5. Kids(n) = {}
  BY <1>1 DEF Calm, KidsOk, Minding
<1>6. Kids(p)' = Kids(p) \cup {n}
  BY <1>1, <1>3, <1>4 DEF Kids, Live
<1>7. \A k \in Procs \ {p} : Kids(k)' = Kids(k)
  BY <1>1, <1>3, <1>4 DEF Kids, Live
<1> DEFINE d == Grown(desc, p, n)
           new == [left EXCEPT ![n] = from]
<1>8. d \in [Procs -> SUBSET Procs] /\ Tree(d)'
  BY <1>1, <1>3, <1>4, <1>5, <1>6, <1>7, TreeGrown DEF Live
<1>9. Alive' = Alive \cup {n} /\ Alive \subseteq Procs \ {n} /\ p \in Alive
  BY <1>1, <1>3, <1>4 DEF Alive, Live
<1>10. \A x \in Procs : d[x] = IF x = p \/ p \in desc[x] THEN desc[x] \cup {n} ELSE desc[x]
  BY DEF Grown
<1>11. desc[n] = {} /\ p \notin desc[p] /\ \A x \in Procs : n \notin desc[x]
  BY <1>1, <1>5 DEF Tree
<1>12. /\ \A x \in Alive : /\ From(proc'[x]) = From(proc[x]) /\ To(proc'[x]) = To(proc[x])
                           /\ new[x] = left[x]
       /\ new \in [Procs -> Nat] /\ new[n] = from
  BY <1>4, <1>9
<1> HIDE DEF d, new
<1>13. /\ \A x \in Alive : left[x] \in Nat /\ pos[To(proc[x])] \in Nat
       /\ pos[To(c)] \in Nat
  <2>1. \A x \in Procs : proc[x] \in Process
    BY DEF TypeOK
  <2> QED BY <1>2, <1>9, <2>1, SlotTypes DEF Injection
<1>14. \A x \in Alive : /\ p \in desc[x] => /\ left[x] <= from
                                           /\ pos[To(c)] <= pos[To(proc[x])]
  <2> TAKE x \in Alive
  <2>1. StandApart(pos, left, desc, x, p)
    BY <1>9 DEF Spans
  <2> QED BY <1>9, <1>13, <2>1, Below DEF StandApart
<1>15. ASSUME NEW x \in Alive PROVE StandsWell(pos, new, d, x)'
  <2>1. StandsWell(pos, left, desc, x) /\ StandsWell(pos, left, desc, p)
    BY <1>9 DEF Spans
  <2>2. x \in Procs /\ x # n
    BY <1>9
  <2>3. proc'[n] = c
    BY <1>4
  <2>4. CASE x = p
    <3>1. proc'[p] = r
      BY <1>1, <1>4
    <3>2. Splits(r) => \A k \in Alive' : k \in d[p] => pos[To(proc'[k])] <= pos[r.pair]
      BY <1>9, <1>10, <1>12, <2>1, <2>3 DEF StandsWell
    <3> QED BY <1>9, <1>12, <2>1, <2>4, <3>1, <3>2 DEF StandsWell
  <2>5. CASE x # p
    <3>1. proc'[x] = proc[x]
      BY <1>4, <2>2, <2>5
    <3>2. Splits(proc[x]) => \A k \in Alive' : k \in d[x] => pos[To(proc'[k])] <= pos[proc[x].pair]
      <4> SUFFICES ASSUME Splits(proc[x]), NEW k \in Alive', k \in d[x]
                   PROVE  pos[To(proc'[k])] <= pos[proc[x].pair]
        OBVIOUS
      <4>1. CASE k # n
        BY <1>9, <1>10, <1>12, <2>1, <2>2, <4>1 DEF StandsWell
      <4>2. CASE k = n
        <5>1. p \in desc[x]
          BY <1>10, <1>11, <2>2, <2>5, <4>2
        <5>2. pos[To(proc[p])] <= pos[proc[x].pair]
          BY <1>9, <2>1, <5>1 DEF StandsWell
        <5>3. pos[proc[x].pair] \in Nat
          BY <2>2, SlotTypes DEF TypeOK, Injection
        <5> QED BY <1>9, <1>13, <2>3, <4>2, <5>2, <5>3, Below
      <4> QED BY <4>1, <4>2
    <3> QED BY <1>12, <2>1, <3>1, <3>2 DEF StandsWell
  <2> QED BY <2>4, <2>5
<1>16. StandsWell(pos, new, d, n)'
  <2>1. ~Splits(c) /\ proc'[n] = c
    BY <1>3, <1>4 DEF Splits
  <2> QED BY <1>3, <1>12, <2>1 DEF StandsWell
<1>17. ASSUME NEW x \in Alive, NEW k \in Alive PROVE StandApart(pos, new, d, x, k)'
  <2>1. StandApart(pos, left, desc, x, k)
    BY DEF Spans
  <2>2. (k \in d[x] <=> k \in desc[x]) /\ (x \in d[k] <=> x \in desc[k])
    BY <1>9, <1>10
  <2> QED BY <1>12, <2>1, <2>2 DEF StandApart
<1>18. ASSUME NEW x \in Alive
       PROVE  StandApart(pos, new, d, x, n)' /\ StandApart(pos, new, d, n, x)'
  <2>1. StandApart(pos, left, desc, x, p) /\ StandApart(pos, left, desc, p, x)
    BY <1>9 DEF Spans
  <2>2. x \in Procs /\ x # n /\ proc'[n] = c /\ x \notin d[n]
    BY <1>4, <1>9, <1>10, <1>11
  <2>3. CASE x = p \/ p \in desc[x]
    <3>1. n \in d[x]
      BY <1>10, <2>2, <2>3
    <3>2. left[x] <= from /\ pos[To(c)] <= pos[To(proc[x])]
      BY <1>14, <2>3
    <3> QED BY <1>12, <2>2, <3>1, <3>2 DEF StandApart
  <2>4. CASE x # p /\ p \notin desc[x]
    <3>1. n \notin d[x]
      BY <1>10, <1>11, <2>2, <2>4
    <3>2. \/ pos[To(proc[x])] <= from
          \/ pos[To(c)] <= left[x]
      <4>1. CASE x \in desc[p]
        BY <4>1
      <4>2. CASE pos[To(proc[x])] <= left[p]
        BY <1>9, <1>13, <4>2, Below
      <4>3. CASE pos[To(proc[p])] <= left[x]
        BY <1>9, <1>13, <4>3, Below
      <4> QED BY <2>1, <2>4, <4>1, <4>2, <4>3 DEF StandApart
    <3> QED BY <1>12, <2>2, <3>1, <3>2 DEF StandApart
  <2> QED BY <2>3, <2>4
<1>19. StandApart(pos, new, d, n, n)'
  <2>1. n \notin d[n]
    BY <1>1, <1>10, <1>11
  <2> QED BY <2>1 DEF StandApart
<1>20. Spans(pos, new, d)'
  BY <1>9, <1>15, <1>16, <1>17, <1>18, <1>19 DEF Spans
<1> QED BY <1>8, <1>12, <1>20 DEF Ordered

\* Where a live process stands it holds an end of a pipe.
LEMMA PlacesAreHeld ==
    ASSUME TypeOK, Calm, NEW x \in Alive, NEW q \in Unused,
           proc[x].pc = "first" => proc[x].ends = Ends(proc[x].pair)
    PROVE  /\ From(proc[x]) # q /\ To(proc[x]) # q
           /\ Splits(proc[x]) => proc[x].pair # q
<1> DEFINE r == proc[x]
<1>1. x \in Procs /\ r \in Process /\ q \in Pipes
  BY OwnRecord DEF Own, Alive, Unused
<1>2. <<q, "r">> \notin Held(x) /\ <<q, "w">> \notin Held(x)
  BY DEF Unused, Readers, Writers
<1>3. r.in # q /\ r.out # q
  BY <1>1, <1>2 DEF Held, AllEnds
<1>4. r.ends = Ends(r.pair) => r.pair # q
  BY <1>2 DEF Held, Ends
<1>5. r.ends # {} => r.ends = Ends(r.pair)
  BY <1>1 DEF Calm, EndsOk
<1>6. q # NPIPE + 1
  BY <1>1, LimitsAssumption DEF Pipes
<1> QED BY <1>3, <1>4, <1>5, <1>6 DEF From, To, Splits

\* pipe(): the pipe that p gets is put on the line, right of the input of p; what was left
\* or right of what stays so.
Stretched(pos, at, q) == [t \in Slots |-> IF t = q THEN 2 * at + 1 ELSE 2 * pos[t]]
LEMMA PipeOrdered ==
    ASSUME TypeOK, Calm, Ordered, NEW p \in Procs, NEW q \in Unused, NEW r \in Own(p), Set(p, r),
           Live(proc[p]), proc[p].pc # "first", Kids(p) = {},
           r.pc = "fork1", r.parent = proc[p].parent, r.pair = q,
           From(r) = From(proc[p]), To(r) = To(proc[p])
    PROVE  Ordered'
<1>1. \A k \in Procs : proc'[k] = IF k = p THEN r ELSE proc[k]
  BY DEF Set, TypeOK
<1>2. \A k \in Procs : Kids(k)' = Kids(k)
  BY <1>1 DEF Kids, Live
<1>3. PICK pos \in Injection(Slots, Nat), left \in [Procs -> Nat],
          desc \in [Procs -> SUBSET Procs] :
          Tree(desc) /\ Spans(pos, left, desc)
  BY DEF Ordered
<1>4. Tree(desc)'
  BY <1>1, <1>2, <1>3 DEF Tree, Live
<1>5. Alive' = Alive /\ Alive \subseteq Procs /\ p \in Alive
  BY <1>1 DEF Alive, Live
<1>6. desc[p] = {}
  BY <1>3 DEF Tree
<1> DEFINE s == left[p]
           far == [x \in Procs |-> 2 * left[x]]
<1>7. /\ q \in Slots /\ s \in Nat /\ far \in [Procs -> Nat]
      /\ \A x \in Procs : left[x] \in Nat /\ far[x] = 2 * left[x]
  BY LimitsAssumption DEF Unused, Slots, Pipes
<1> HIDE DEF s, far
<1>8. PICK new \in Injection(Slots, Nat) : /\ new[q] = 2 * s + 1
                                    /\ \A t \in Slots \ {q} : new[t] = 2 * pos[t]
  <2>1. Stretched(pos, s, q) \in Injection(Slots, Nat)
    <3> DEFINE f == Stretched(pos, s, q)
    <3>1. \A t \in Slots : pos[t] \in Nat
      BY <1>3 DEF Injection
    <3>2. f \in [Slots -> Nat]
      BY <1>7, <3>1 DEF Stretched
    <3>3. \A t, u \in Slots : f[t] = f[u] => t = u
      <4> TAKE t, u \in Slots
      <4>1. pos[t] \in Nat /\ pos[u] \in Nat /\ s \in Nat
        BY <1>7, <3>1
      <4>2. pos[t] = pos[u] => t = u
        BY <1>3 DEF Injection, IsInjective
      <4>3. /\ f[t] = IF t = q THEN 2 * s + 1 ELSE 2 * pos[t]
            /\ f[u] = IF u = q THEN 2 * s + 1 ELSE 2 * pos[u]
        BY DEF Stretched
      <4> HIDE DEF f
      <4> QED BY <4>1, <4>2, <4>3
    <3> QED BY <3>2, <3>3 DEF Injection, IsInjective
  <2>2. /\ Stretched(pos, s, q)[q] = 2 * s + 1
        /\ \A t \in Slots \ {q} : Stretched(pos, s, q)[t] = 2 * pos[t]
    BY <1>7 DEF Stretched
  <2> QED BY <2>1, <2>2
<1>9. \A x \in Alive : /\ From(proc[x]) \in Slots \ {q} /\ To(proc[x]) \in Slots \ {q}
                       /\ proc[x].pair \in Slots
                       /\ Splits(proc[x]) => proc[x].pair # q
  <2> TAKE x \in Alive
  <2>1. proc[x].pc = "first" => proc[x].ends = Ends(proc[x].pair)
    BY <1>3 DEF Spans, StandsWell
  <2> QED BY <1>5, <2>1, PlacesAreHeld, SlotTypes DEF TypeOK
<1>10. \A t, u \in Slots \ {q} : /\ pos[t] < pos[u] => new[t] < new[u]
                                 /\ pos[t] <= pos[u] => new[t] <= new[u]
  <2> TAKE t, u \in Slots \ {q}
  <2>1. pos[t] \in Nat /\ pos[u] \in Nat /\ new[t] = 2 * pos[t] /\ new[u] = 2 * pos[u]
    BY <1>3, <1>8 DEF Injection
  <2> QED BY <2>1
<1>11. ASSUME NEW x \in Alive
       PROVE  /\ \A t \in Slots \ {q} : /\ left[x] < pos[t] => far[x] < new[t]
                                        /\ pos[t] <= left[x] => new[t] <= far[x]
                                        /\ left[x] = pos[t] => far[x] = new[t]
              /\ \A k \in Alive : left[x] <= left[k] => far[x] <= far[k]
  <2>1. \A k \in Alive : left[k] \in Nat /\ far[k] = 2 * left[k]
    BY <1>5, <1>7
  <2>2. ASSUME NEW t \in Slots \ {q} PROVE pos[t] \in Nat /\ new[t] = 2 * pos[t]
    BY <1>3, <1>8 DEF Injection
  <2> QED BY <2>1, <2>2
<1>12. ASSUME NEW x \in Alive PROVE StandsWell(new, far, desc, x)'
  <2>1. StandsWell(pos, left, desc, x)
    BY <1>3 DEF Spans
  <2>2. CASE x = p
    <3>1. far[p] < new[q] /\ new[q] < new[To(proc[p])]
      <4> DEFINE t == To(proc[p])
      <4>1. s \in Nat /\ pos[t] \in Nat /\ s < pos[t]
        BY <1>3, <1>5, <1>7, <1>9, <2>1, <2>2 DEF StandsWell, Injection, s
      <4>2. far[p] = 2 * s /\ new[q] = 2 * s + 1 /\ new[t] = 2 * pos[t]
        BY <1>5, <1>7, <1>8, <1>9 DEF s
      <4> QED BY <4>1, <4>2
    <3>2. far[p] < new[To(proc[p])]
      BY <1>5, <1>9, <1>11, <2>1, <2>2 DEF StandsWell
    <3>3. From(proc[p]) = DIR \/ far[p] = new[From(proc[p])]
      BY <1>5, <1>9, <1>11, <2>1, <2>2 DEF StandsWell
    <3> QED BY <1>1, <1>6, <2>2, <3>1, <3>2, <3>3 DEF StandsWell
  <2>3. CASE x # p
    <3>1. proc'[x] = proc[x]
      BY <1>1, <1>5, <2>3
    <3>2. \A k \in Alive : To(proc'[k]) = To(proc[k])
      BY <1>1, <1>5
    <3>3. /\ From(proc[x]) = DIR \/ far[x] = new[From(proc[x])]
          /\ far[x] < new[To(proc[x])]
      <4>1. /\ From(proc[x]) \in Slots \ {q} /\ To(proc[x]) \in Slots \ {q}
            /\ From(proc[x]) = DIR \/ left[x] = pos[From(proc[x])]
            /\ left[x] < pos[To(proc[x])]
        BY <1>9, <2>1 DEF StandsWell
      <4> QED BY <1>11, <4>1
    <3>4. Splits(proc[x]) => /\ far[x] < new[proc[x].pair]
                             /\ new[proc[x].pair] < new[To(proc[x])]
                             /\ \A k \in Alive : k \in desc[x] =>
                                    new[To(proc[k])] <= new[proc[x].pair]
      <4> SUFFICES ASSUME Splits(proc[x])
                   PROVE  /\ far[x] < new[proc[x].pair]
                          /\ new[proc[x].pair] < new[To(proc[x])]
                          /\ \A k \in Alive : k \in desc[x] =>
                                 new[To(proc[k])] <= new[proc[x].pair]
        OBVIOUS
      <4>1. /\ left[x] < pos[proc[x].pair] /\ pos[proc[x].pair] < pos[To(proc[x])]
            /\ \A k \in Alive : k \in desc[x] => pos[To(proc[k])] <= pos[proc[x].pair]
        BY <2>1 DEF StandsWell
      <4>2. proc[x].pair \in Slots \ {q} /\ To(proc[x]) \in Slots \ {q}
        BY <1>9
      <4>3. \A k \in Alive : k \in desc[x] => new[To(proc[k])] <= new[proc[x].pair]
        BY <1>9, <1>10, <1>11, <4>1, <4>2
      <4> QED BY <1>5, <1>10, <1>11, <4>1, <4>2, <4>3
    <3> QED BY <1>5, <2>1, <3>1, <3>2, <3>3, <3>4 DEF StandsWell
  <2> QED BY <2>2, <2>3
<1>13. ASSUME NEW x \in Alive, NEW k \in Alive PROVE StandApart(new, far, desc, x, k)'
  <2>1. StandApart(pos, left, desc, x, k)
    BY <1>3 DEF Spans
  <2>2. \A y \in Alive : From(proc'[y]) = From(proc[y]) /\ To(proc'[y]) = To(proc[y])
    BY <1>1, <1>5
  <2>3. /\ k \in desc[x] => /\ far[x] <= far[k]
                            /\ new[To(proc[k])] <= new[To(proc[x])]
        /\ \/ x = k \/ k \in desc[x] \/ x \in desc[k]
           \/ new[To(proc[x])] <= far[k]
           \/ new[To(proc[k])] <= far[x]
    <3>1. /\ To(proc[x]) \in Slots \ {q} /\ To(proc[k]) \in Slots \ {q}
          /\ x \in Procs /\ k \in Procs
      BY <1>5, <1>9
    <3>2. /\ k \in desc[x] => left[x] <= left[k] /\ pos[To(proc[k])] <= pos[To(proc[x])]
          /\ \/ x = k \/ k \in desc[x] \/ x \in desc[k]
             \/ pos[To(proc[x])] <= left[k]
             \/ pos[To(proc[k])] <= left[x]
      BY <2>1 DEF StandApart
    <3> QED BY <1>10, <1>11, <3>1, <3>2
  <2> QED BY <2>2, <2>3 DEF StandApart
<1>14. Spans(new, far, desc)'
  BY <1>5, <1>12, <1>13 DEF Spans
<1> QED BY <1>3, <1>4, <1>7, <1>8, <1>14 DEF Ordered

\* Which of its standard descriptors a record keeps when it is closed, when the call
\* returns, and when the image is replaced.
LEMMA FieldsOut ==
    ASSUME NEW r \in Process
    PROVE  /\ Closed(r).out = r.out
           /\ Return(r).out = r.out
           /\ \A reads \in BOOLEAN : Image(r, reads).out = r.out
           /\ Filtered(r).out = r.out
<1>1. Return(r).out = r.out
  <2>1. CASE r.back
    BY <2>1 DEF Return, Process
  <2>2. CASE ~r.back
    BY <2>2 DEF Return, Process
  <2> QED BY <2>1, <2>2
<1>2. \A reads \in BOOLEAN : Image(r, reads).out = r.out
  BY DEF Image, Process
<1> QED BY <1>1, <1>2 DEF Closed, Filtered, Process

\* Every step keeps Ordered, unless it is a call refused.
LEMMA OrderedStep ==
    ASSUME TypeOK, Calm, Ordered, NEW p \in Procs, Runs(p) \/ User(p), trouble' # "refused"
    PROVE  Ordered'
<1> DEFINE r == proc[p]
<1>1. r \in Own(p) /\ r \in Process
  BY OwnRecord DEF Own
<1>2. EndsOk(r) /\ KidsOk(r, Kids(p))
  BY DEF Calm
<1>3. r.pc \notin Minding => Kids(p) = {}
  BY <1>2 DEF KidsOk
<1>4. r.pc \notin Piping => r.ends = {}
  BY <1>2 DEF EndsOk
<1>5. ~Refused(p)
  BY DEF Refused
<1>6. PICK pos \in Injection(Slots, Nat), left \in [Procs -> Nat],
          desc \in [Procs -> SUBSET Procs] :
          Tree(desc) /\ Spans(pos, left, desc)
  BY DEF Ordered
<1>7. Live(r) => p \in Alive /\ StandsWell(pos, left, desc, p)
  BY <1>6 DEF Live, Alive, Spans
<1>8. Kids(p) = {} => desc[p] = {}
  BY <1>6 DEF Tree
<1>9. /\ From(r) \in Slots /\ To(r) \in Slots /\ r.pair \in Slots
      /\ left[p] \in Nat /\ pos[To(r)] \in Nat /\ pos[r.pair] \in Nat
  BY <1>1, <1>6, SlotTypes DEF Injection
<1>10. ASSUME NEW pc \in Places \ {"gone", "zombie", "fork1", "fork2", "first", "second"},
              r.pc \notin {"first", "second"}
       PROVE  LET w == Goes(p, pc)
              IN  /\ w \in Own(p) /\ w.pc = pc /\ w.parent = r.parent /\ Live(w)
                  /\ From(w) = From(r) /\ To(w) = To(r) /\ ~Splits(w)
  <2> DEFINE w == Goes(p, pc)
  <2>1. /\ w \in Own(p) /\ w.pc = pc /\ w.parent = r.parent
        /\ w.in = r.in /\ w.out = r.out
    BY <1>1, GoesOwn DEF Goes, Process
  <2> HIDE DEF w
  <2>2. From(w) = From(r) /\ To(w) = To(r) /\ ~Splits(w) /\ Live(w)
    BY <1>10, <2>1 DEF From, To, Splits, Live
  <2> QED BY <2>1, <2>2 DEF w
<1>11. ASSUME NEW line \in Lines, Line(p, line) PROVE Ordered'
  <2>1. r.pc = "prompt" /\ Live(r) /\ Kids(p) = {}
    BY <1>3, <1>11 DEF Line, At, Live, Minding
  <2>2. CASE line = "exit"
    BY <1>11, <2>1, <2>2, ExitOrdered DEF Line
  <2> DEFINE w == Goes(p, "wait")
  <2>3. /\ w \in Own(p) /\ w.pc = "wait" /\ w.parent = r.parent /\ Live(w)
        /\ From(w) = From(r) /\ To(w) = To(r) /\ ~Splits(w)
    BY <1>10, <2>1 DEF Places
  <2>4. CASE line # "exit" /\ Free = {}
    <3>1. Set(p, w)
      BY <1>11, <2>4 DEF Line
    <3> HIDE DEF w
    <3> QED BY <2>1, <2>3, <3>1, OwnOrdered
  <2>5. CASE line # "exit" /\ Free # {}
    <3> DEFINE c == Forked(p, line)
    <3>1. Forks(p, line, w)
      BY <1>11, <2>5 DEF Line
    <3>2. line \in {"simple", "pipe", "pipe3"} /\ line \in Places
      BY <2>5 DEF Lines, Places
    <3>3. c.pc = line /\ c.in = r.in /\ c.out = r.out
      BY <3>2, ForkedFields
    <3> HIDE DEF c, w
    <3>4. From(c) = From(r) /\ To(c) = To(r)
      BY <2>1, <3>2, <3>3 DEF From, To
    <3>5. left[p] < pos[To(r)] /\ (From(r) = DIR \/ left[p] = pos[From(r)])
      BY <1>7, <2>1 DEF StandsWell
    <3>6. \A k \in Alive : k \notin desc[p]
      BY <1>8, <2>1
    <3>7. /\ From(c) = DIR \/ left[p] = pos[From(c)]
          /\ left[p] <= left[p] /\ left[p] < pos[To(c)]
          /\ pos[To(c)] <= pos[To(r)]
      BY <1>9, <3>4, <3>5
    <3>8. /\ line \notin {"gone", "zombie", "fork1", "fork2"} /\ line # "first"
          /\ w.pc # "first"
      BY <2>3, <3>2
    <3>9. c = Forked(p, line)
      BY DEF c
    <3> QED BY <1>6, <1>9, <2>1, <2>3, <2>5, <3>1, <3>2, <3>6, <3>7, <3>8, <3>9, ForkOrdered
  <2> QED BY <2>2, <2>4, <2>5
<1>12. CASE Wait(p)
  <2> DEFINE w == Goes(p, "prompt")
  <2>1. r.pc = "wait" /\ Live(r) /\ Waits(p, Procs, w)
    BY <1>12 DEF Wait, At, Live
  <2>2. /\ w \in Own(p) /\ w.pc = "prompt" /\ w.parent = r.parent /\ Live(w)
        /\ From(w) = From(r) /\ To(w) = To(r) /\ ~Splits(w)
    BY <1>10, <2>1 DEF Places
  <2> HIDE DEF w
  <2> QED BY <2>1, <2>2, WaitOrdered
<1>13. CASE PipeCall(p)
  <2>1. r.pc \in {"pipe", "pipe3"} /\ Live(r) /\ Kids(p) = {} /\ r.ends = {}
    BY <1>3, <1>4, <1>13 DEF PipeCall, At, Live, Minding, Piping
  <2>2. PICK q \in Unused, fn \in {"pipeIt", "pipeNext"} :
            Set(p, [Goes(p, "fork1") EXCEPT !.fn = fn, !.pair = q, !.ends = @ \cup Ends(q)])
    BY <1>5, <1>13 DEF PipeCall
  <2> DEFINE g == Goes(p, "fork1")
             w == [g EXCEPT !.fn = fn, !.pair = q, !.ends = @ \cup Ends(q)]
  <2>3. /\ g \in Own(p) /\ g.ends = {} /\ g.parent = r.parent
        /\ g.in = r.in /\ g.out = r.out /\ g.pc = "fork1"
    BY <1>1, <2>1, GoesOwn DEF Goes, Process, Places
  <2>4. Ends(q) \subseteq AllEnds /\ q \in Pipes
    BY DEF Ends, AllEnds, Unused
  <2> HIDE DEF g
  <2>5. /\ w \in Own(p) /\ w.pc = "fork1" /\ w.parent = r.parent
        /\ w.in = r.in /\ w.out = r.out /\ w.pair = q
    BY <2>3, <2>4 DEF Own, Process
  <2>6. Set(p, w)
    BY <2>2 DEF g
  <2> HIDE DEF w
  <2>7. From(w) = From(r) /\ To(w) = To(r) /\ r.pc # "first"
    BY <2>1, <2>5 DEF From, To
  <2> QED BY <2>1, <2>5, <2>6, <2>7, PipeOrdered
<1>14. CASE Fork1(p)
  <2>1. r.pc = "fork1" /\ Live(r) /\ Kids(p) = {} /\ r.ends = Ends(r.pair)
    BY <1>2, <1>3, <1>14 DEF Fork1, At, Live, Minding, EndsOk
  <2> DEFINE w == [Goes(p, "fork2") EXCEPT !.kid1 = Child]
             c == Forked(p, "first")
  <2>2. Free # {} /\ Forks(p, "first", w)
    BY <1>5, <1>14 DEF Fork1
  <2>3. Child \in Procs /\ Child # p
    BY <2>1, <2>2, ChildIsFree DEF Free, Live
  <2>4. /\ w.pc = "fork2" /\ w.parent = r.parent /\ w.in = r.in /\ w.out = r.out
        /\ w.ends = r.ends /\ w.pair = r.pair /\ w \in Own(p)
    BY <1>1, <2>3 DEF Goes, Process, Places, Own
  <2>5. Splits(r)
    BY <2>1 DEF Splits, Ends
  <2>6. c.pc = "first" /\ c.in = r.in /\ c.pair = r.pair
    BY ForkedFields DEF Places
  <2>7. c = Forked(p, "first")
    OBVIOUS
  <2> HIDE DEF w, c
  <2>8. From(w) = From(r) /\ To(w) = To(r) /\ Live(w)
    BY <2>1, <2>4 DEF From, To, Live
  <2>9. From(c) = From(r) /\ To(c) = r.pair
    BY <2>1, <2>6 DEF From, To
  <2>10. /\ left[p] < pos[r.pair] /\ pos[r.pair] < pos[To(r)]
         /\ From(r) = DIR \/ left[p] = pos[From(r)]
    BY <1>7, <2>1, <2>5 DEF StandsWell
  <2>11. /\ From(c) = DIR \/ left[p] = pos[From(c)]
         /\ left[p] <= left[p] /\ left[p] < pos[To(c)]
         /\ pos[To(c)] <= pos[To(r)] /\ pos[To(c)] <= pos[w.pair]
    BY <1>9, <2>4, <2>9, <2>10
  <2>12. \A k \in Alive : k \notin desc[p]
    BY <1>8, <2>1
  <2> QED BY <1>6, <1>9, <2>1, <2>2, <2>4, <2>5, <2>7, <2>8, <2>11, <2>12, ForkOrdered
          DEF Places
<1>15. CASE Fork2(p)
  <2>1. r.pc = "fork2" /\ Live(r)
    BY <1>15 DEF Fork2, At, Live
  <2> DEFINE w == [Goes(p, "close") EXCEPT !.kid2 = Child]
             c == Forked(p, "second")
  <2>2. Free # {} /\ Forks(p, "second", w)
    BY <1>5, <1>15 DEF Fork2
  <2>3. Child \in Procs /\ Child # p
    BY <2>1, <2>2, ChildIsFree DEF Free, Live
  <2>4. /\ w.pc = "close" /\ w.parent = r.parent /\ w.in = r.in /\ w.out = r.out
        /\ w \in Own(p)
    BY <1>1, <2>3 DEF Goes, Process, Places, Own
  <2>5. c.pc = "second" /\ c.in = r.in /\ c.out = r.out /\ c.pair = r.pair /\ c.ends = r.ends
    BY ForkedFields DEF Places
  <2>6. c = Forked(p, "second")
    OBVIOUS
  <2> HIDE DEF w, c
  <2>7. From(w) = From(r) /\ To(w) = To(r) /\ Live(w) /\ ~Splits(w)
    BY <2>1, <2>4 DEF From, To, Live, Splits
  <2>8. StandsWell(pos, left, desc, p)
    BY <1>7, <2>1
  <2>9. PICK from \in Nat : /\ From(c) = DIR \/ from = pos[From(c)]
                           /\ left[p] <= from /\ from < pos[To(c)]
                           /\ pos[To(c)] <= pos[To(r)]
                           /\ \A k \in Alive : k \in desc[p] => pos[To(proc[k])] <= from
    <3>1. CASE r.ends = {}
      <4>1. From(c) = From(r) /\ To(c) = To(r)
        BY <2>1, <2>5, <3>1 DEF From, To
      <4>2. Kids(p) = {}
        BY <1>2, <2>1, <3>1 DEF KidsOk
      <4> QED BY <1>8, <1>9, <2>8, <4>1, <4>2 DEF StandsWell
    <3>2. CASE r.ends # {}
      <4>1. From(c) = r.pair /\ To(c) = To(r) /\ Splits(r)
        BY <2>1, <2>5, <3>2 DEF From, To, Splits
      <4>2. /\ left[p] < pos[r.pair] /\ pos[r.pair] < pos[To(r)]
            /\ \A k \in Alive : k \in desc[p] => pos[To(proc[k])] <= pos[r.pair]
        BY <2>8, <4>1 DEF StandsWell
      <4> QED BY <1>9, <4>1, <4>2
    <3> QED BY <3>1, <3>2
  <2> QED BY <1>6, <2>1, <2>2, <2>4, <2>6, <2>7, <2>9, ForkOrdered DEF Places
<1>16. CASE First(p)
  <2>1. r.pc = "first" /\ Live(r)
    BY <1>16 DEF First, At, Live
  <2> DEFINE o == [r EXCEPT !.out = r.pair]
             f == FirstEnd(r)
  <2>2. o \in Own(p) /\ o.parent = r.parent /\ o.in = r.in /\ o.out = r.pair
    BY <1>1 DEF Process, Own, NONE, TTY
  <2>3. f = Closed(o)
    BY DEF FirstEnd
  <2>4. r.pair # TTY
    <3>1. r.ends = Ends(r.pair)
      BY <1>7, <2>1 DEF StandsWell
    <3>2. <<r.pair, "r">> \in AllEnds
      BY <1>1, <3>1 DEF Process, Ends
    <3> QED BY <3>2, NumbersApart DEF AllEnds
  <2> HIDE DEF o, f
  <2>5. f \in Own(p) /\ f.parent = r.parent /\ f.in = r.in /\ f.out = r.pair
    BY <2>2, <2>3, ClosedOwn, Fields, FieldsOut DEF Own
  <2>6. ASSUME NEW w \in {[f EXCEPT !.pc = "exec"], [f EXCEPT !.pc = "pipe", !.back = TRUE]},
               Set(p, w)
        PROVE  Ordered'
    <3>1. /\ w \in Own(p) /\ w.pc \in {"exec", "pipe"} /\ w.parent = r.parent
          /\ w.in = r.in /\ w.out = r.pair
      BY <2>5 DEF Own, Process, Places
    <3>2. Live(w) /\ From(w) = From(r) /\ To(w) = To(r) /\ ~Splits(w)
      BY <2>1, <2>4, <3>1 DEF Live, From, To, Splits
    <3> QED BY <2>1, <2>6, <3>1, <3>2, OwnOrdered
  <2> QED BY <1>16, <2>6 DEF First, f
<1>17. CASE Second(p)
  <2>1. r.pc = "second" /\ Live(r)
    BY <1>17 DEF Second, At, Live
  <2> DEFINE i == [r EXCEPT !.in = Input(r)]
             f == SecondEnd(r)
             w == [f EXCEPT !.pc = "exec2"]
  <2>2. /\ i \in Own(p) /\ i.parent = r.parent /\ i.out = r.out
        /\ i.in = IF r.pair = DIR \/ <<r.pair, "r">> \in r.ends THEN r.pair ELSE r.in
    BY <1>1 DEF Process, Own, NONE, TTY, Input
  <2>3. i.in \in {From(r), DIR}
    BY <1>2, <2>1, <2>2 DEF EndsOk, Ends, From
  <2>4. f = Closed(i)
    BY DEF SecondEnd
  <2> HIDE DEF i, f
  <2>5. f \in Own(p) /\ f.parent = r.parent /\ f.in = i.in /\ f.out = r.out
    BY <2>2, <2>4, ClosedOwn, Fields, FieldsOut DEF Own
  <2>6. /\ w \in Own(p) /\ w.pc = "exec2" /\ w.parent = r.parent
        /\ w.in = i.in /\ w.out = r.out
    BY <2>5 DEF Own, Process, Places
  <2>7. Set(p, w)
    BY <1>17 DEF Second, f
  <2> HIDE DEF w
  <2>8. Live(w) /\ From(w) \in {From(r), DIR} /\ To(w) = To(r) /\ ~Splits(w)
    BY <2>1, <2>3, <2>6 DEF Live, From, To, Splits
  <2> QED BY <2>1, <2>6, <2>7, <2>8, OwnOrdered
<1>18. CASE Exec(p)
  <2>1. r.pc \in {"simple", "exec", "exec2"} /\ Live(r)
    BY <1>18 DEF Exec, Live
  <2>2. PICK reads \in BOOLEAN : Set(p, Image(r, reads))
    BY <1>18 DEF Exec
  <2> DEFINE w == Image(r, reads)
  <2>3. /\ w \in Own(p) /\ w.pc = "run" /\ w.parent = r.parent
        /\ w.in = r.in /\ w.out = r.out
    BY <1>1, ImageOwn, Fields, FieldsOut
  <2> HIDE DEF w
  <2>4. Live(w) /\ From(w) = From(r) /\ To(w) = To(r) /\ ~Splits(w)
    BY <2>1, <2>3 DEF Live, From, To, Splits
  <2> QED BY <2>1, <2>2, <2>3, <2>4, OwnOrdered DEF w
<1>19. CASE ExecFails(p)
  <2>1. r.pc \in {"simple", "exec", "exec2"} /\ Live(r) /\ Kids(p) = {} /\ r.ends = {}
    BY <1>3, <1>4, <1>19 DEF ExecFails, At, Live, Minding, Piping
  <2>2. CASE Exits(p)
    BY <2>1, <2>2, ExitOrdered
  <2>3. ASSUME NEW pc \in {"fork2", "close"}, Set(p, Goes(p, pc)) PROVE Ordered'
    <3> DEFINE w == Goes(p, pc)
    <3>1. /\ w \in Own(p) /\ w.pc = pc /\ w.parent = r.parent
          /\ w.in = r.in /\ w.out = r.out /\ w.ends = {}
      BY <1>1, <2>1, GoesOwn DEF Goes, Process, Places
    <3> HIDE DEF w
    <3>2. From(w) = From(r) /\ To(w) = To(r) /\ ~Splits(w) /\ Live(w) /\ w.pc # "first"
      BY <2>1, <3>1 DEF From, To, Splits, Live
    <3> QED BY <2>1, <2>3, <3>1, <3>2, OwnOrdered DEF w
  <2> QED BY <1>19, <2>2, <2>3 DEF ExecFails
<1>20. CASE Close(p)
  <2>1. r.pc = "close" /\ Live(r)
    BY <1>20 DEF Close, At, Live
  <2> DEFINE f == Closed(r)
             w == [f EXCEPT !.pc = "wait2"]
  <2>2. f \in Own(p) /\ f.parent = r.parent /\ f.in = r.in /\ f.out = r.out
    BY <1>1, ClosedOwn, Fields, FieldsOut
  <2>3. Set(p, w)
    BY <1>20 DEF Close
  <2> HIDE DEF f
  <2>4. /\ w \in Own(p) /\ w.pc = "wait2" /\ w.parent = r.parent
        /\ w.in = r.in /\ w.out = r.out
    BY <2>2 DEF Own, Process, Places
  <2> HIDE DEF w
  <2>5. Live(w) /\ From(w) = From(r) /\ To(w) = To(r) /\ ~Splits(w)
    BY <2>1, <2>4 DEF Live, From, To, Splits
  <2> QED BY <2>1, <2>3, <2>4, <2>5, OwnOrdered
<1>21. CASE Wait2(p)
  <2> DEFINE w == Goes(p, "wait1")
             S == Awaited(r.kid2)
  <2>1. r.pc = "wait2" /\ Live(r) /\ Waits(p, S, w)
    BY <1>21 DEF Wait2, At, Live
  <2>2. /\ w \in Own(p) /\ w.pc = "wait1" /\ w.parent = r.parent /\ Live(w)
        /\ From(w) = From(r) /\ To(w) = To(r) /\ ~Splits(w)
    BY <1>10, <2>1 DEF Places
  <2> HIDE DEF w
  <2> QED BY <2>1, <2>2, WaitOrdered
<1>22. CASE Wait1(p)
  <2> DEFINE w == Return(r)
             S == Awaited(r.kid1)
  <2>1. r.pc = "wait1" /\ Live(r) /\ r.ends = {} /\ Waits(p, S, w)
    BY <1>4, <1>22 DEF Wait1, At, Live, Piping
  <2>2. /\ w.pc \in {"fork2", "prompt"} /\ w.parent = r.parent /\ w.in = r.in
        /\ w.out = r.out /\ w.ends = r.ends /\ w \in Own(p)
    BY <1>1, ReturnOwn, Fields, FieldsOut
  <2> HIDE DEF w
  <2>3. Live(w) /\ From(w) = From(r) /\ To(w) = To(r) /\ ~Splits(w) /\ w.pc # "first"
    BY <2>1, <2>2 DEF Live, From, To, Splits
  <2> QED BY <2>1, <2>2, <2>3, WaitOrdered
<1>23. CASE Write(p)
  <2> DEFINE w == [r EXCEPT !.todo = @ - 1]
  <2>1. r.pc = "run" /\ Live(r) /\ Set(p, w)
    BY <1>23 DEF Write, At, Live
  <2>2. /\ w \in Own(p) /\ w.pc = "run" /\ w.parent = r.parent
        /\ w.in = r.in /\ w.out = r.out
    BY <1>1, <1>23, <2>1, LimitsAssumption DEF Own, Process, Write
  <2> HIDE DEF w
  <2>3. Live(w) /\ From(w) = From(r) /\ To(w) = To(r) /\ ~Splits(w)
    BY <2>1, <2>2 DEF Live, From, To, Splits
  <2> QED BY <2>1, <2>2, <2>3, OwnOrdered
<1>24. CASE Set(p, Filtered(r)) /\ r.pc = "run"
  <2> DEFINE w == Filtered(r)
  <2>1. /\ w \in Own(p) /\ w.pc = "run" /\ w.parent = r.parent
        /\ w.in = r.in /\ w.out = r.out
    BY <1>1, <1>24, FilteredOwn, Fields, FieldsOut
  <2>2. Set(p, w) /\ Live(r)
    BY <1>24 DEF Live
  <2> HIDE DEF w
  <2>3. Live(w) /\ From(w) = From(r) /\ To(w) = To(r) /\ ~Splits(w)
    BY <1>24, <2>1 DEF Live, From, To, Splits
  <2> QED BY <1>24, <2>1, <2>2, <2>3, OwnOrdered
<1>25. CASE Exits(p) /\ r.pc = "run"
  <2>1. Live(r) /\ Kids(p) = {}
    BY <1>3, <1>25 DEF Live, Minding
  <2> QED BY <1>25, <2>1, ExitOrdered
<1>26. Read(p) \/ TypeLine(p) => Set(p, Filtered(r)) /\ r.pc = "run"
  BY DEF Read, TypeLine, Reading, At
<1>27. Finish(p) \/ TypeEnd(p) => Exits(p) /\ r.pc = "run"
  BY DEF Finish, TypeEnd, Reading, At
<1> QED BY <1>11, <1>12, <1>13, <1>14, <1>15, <1>16, <1>17, <1>18, <1>19, <1>20, <1>21, <1>22,
           <1>23, <1>24, <1>25, <1>26, <1>27 DEF Runs, User

-----------------------------------------------------------------------------
(* Nobody waits in a circle.                                               *)

\* A relation without circles on some processes has an end: one that leads to none.
LEMMA SomeEnd ==
    ASSUME NEW T, T \subseteq Procs, T # {}, NEW e \in [T -> SUBSET T],
           \A t \in T : t \notin e[t],
           \A t \in T : \A u \in e[t] : e[u] \subseteq e[t]
    PROVE  \E t \in T : e[t] = {}
<1> DEFINE R == StrictSubsetOrdering(Procs)
           Reached == {e[t] : t \in T}
<1>1. IsWellFoundedOn(R, SUBSET Procs)
  <2>1. IsFiniteSet(Procs)
    BY LimitsAssumption, FS_Interval DEF Procs
  <2>2. FiniteSubsetsOf(Procs) = SUBSET Procs
    BY <2>1, FS_FiniteSubsetsOfFinite
  <2>3. IsWellFoundedOn(R, FiniteSubsetsOf(Procs))
    BY <2>1, FS_StrictSubsetOrderingWellFounded
  <2> QED BY <2>2, <2>3
<1>2. Reached # {} /\ Reached \subseteq SUBSET Procs
  OBVIOUS
<1>3. PICK m \in Reached : \A u \in Reached : ~ (<<u, m>> \in R)
  <2> HIDE DEF R, Reached
  <2> QED BY <1>1, <1>2, WFMin
<1>4. PICK t \in T : m = e[t]
  OBVIOUS
<1>5. ASSUME NEW u \in e[t] PROVE FALSE
  <2>1. u \in T /\ e[u] \subseteq e[t] /\ e[u] # e[t]
    OBVIOUS
  <2>2. e[u] \in Reached /\ e[u] \subseteq Procs /\ e[t] \subseteq Procs
    BY <2>1
  <2>3. ~ (<<e[u], e[t]>> \in R)
    BY <1>3, <1>4, <2>2
  <2> QED BY <2>1, <2>2, <2>3 DEF StrictSubsetOrdering
<1> QED BY <1>5

\* Of processes that each have a place, one is the last, and one is the first.
LEMMA Rightmost ==
    ASSUME NEW T, T \subseteq Procs, T # {}, NEW f, \A t \in T : f[t] \in Nat
    PROVE  \E t \in T : \A u \in T : f[u] <= f[t]
<1> DEFINE e == [t \in T |-> {u \in T : f[t] < f[u]}]
<1>1. e \in [T -> SUBSET T]
  OBVIOUS
<1>2. \A t \in T : t \notin e[t]
  OBVIOUS
<1>3. \A t \in T : \A u \in e[t] : e[u] \subseteq e[t]
  OBVIOUS
<1>4. \A t \in T : e[t] = {u \in T : f[t] < f[u]}
  OBVIOUS
<1> HIDE DEF e
<1>5. PICK t \in T : e[t] = {}
  BY <1>1, <1>2, <1>3, SomeEnd
<1>6. \A u \in T : f[u] <= f[t]
  BY <1>4, <1>5
<1> QED BY <1>6

LEMMA Leftmost ==
    ASSUME NEW T, T \subseteq Procs, T # {}, NEW f, \A t \in T : f[t] \in Nat
    PROVE  \E t \in T : \A u \in T : f[t] <= f[u]
<1> DEFINE e == [t \in T |-> {u \in T : f[u] < f[t]}]
<1>1. e \in [T -> SUBSET T]
  OBVIOUS
<1>2. \A t \in T : t \notin e[t]
  OBVIOUS
<1>3. \A t \in T : \A u \in e[t] : e[u] \subseteq e[t]
  OBVIOUS
<1>4. \A t \in T : e[t] = {u \in T : f[u] < f[t]}
  OBVIOUS
<1> HIDE DEF e
<1>5. PICK t \in T : e[t] = {}
  BY <1>1, <1>2, <1>3, SomeEnd
<1>6. \A u \in T : f[t] <= f[u]
  BY <1>4, <1>5
<1> QED BY <1>6

\* Whom a process of S waits for in S: a descendant; or, if it has none, one that ends
\* where it begins, at an empty pipe, or one that begins where it ends, at a pipe that is
\* not empty.
WaitsIn(desc, S, p) ==
    \/ \E k \in S : k \in desc[p]
    \/ /\ desc[p] = {}
       /\ \/ /\ From(proc[p]) # DIR /\ pipe[From(proc[p])] = 0
             /\ \E w \in S : To(proc[w]) = From(proc[p])
          \/ /\ To(proc[p]) # DIR /\ pipe[To(proc[p])] # 0
             /\ \E w \in S : From(proc[w]) = To(proc[p])

\* On the line there is no circle.  Of the processes without descendants the last one
\* waits for its left.  The first of those that do, b, and the last one left of it, a,
\* which waits for its right, are waited for across one another: what b waits for holds
\* a, what a waits for holds b, and neither of these is inside the other or apart from it,
\* unless a and b meet at one pipe, which would be empty and not empty.
LEMMA NoCircle ==
    ASSUME TypeOK, NEW pos \in Injection(Slots, Nat), NEW left \in [Procs -> Nat],
           NEW desc \in [Procs -> SUBSET Procs], Tree(desc), Spans(pos, left, desc),
           NEW S, S \subseteq Alive, S # {},
           \A p \in S : WaitsIn(desc, S, p)
    PROVE  FALSE
<1> DEFINE lo == left
           hi == [p \in Procs |-> pos[To(proc[p])]]
           Tips == {p \in S : desc[p] = {}}
           AsksLeft(p) == /\ From(proc[p]) # DIR /\ pipe[From(proc[p])] = 0
                          /\ \E w \in S : hi[w] = lo[p]
           AsksRight(p) == pipe[To(proc[p])] # 0 /\ \E w \in S : lo[w] = hi[p]
<1>1. S \subseteq Procs /\ S \subseteq Alive
  BY DEF Alive
<1>2. \A p \in Procs : /\ From(proc[p]) \in Slots /\ To(proc[p]) \in Slots
                       /\ hi[p] = pos[To(proc[p])]
                       /\ lo[p] \in Nat /\ hi[p] \in Nat
  BY SlotTypes DEF TypeOK, Injection
<1>3. \A p \in S : lo[p] < hi[p] /\ (From(proc[p]) # DIR => lo[p] = pos[From(proc[p])])
  BY <1>1, <1>2 DEF Spans, StandsWell
<1>4. \A p, k \in S : k \in desc[p] => lo[p] <= lo[k] /\ hi[k] <= hi[p]
  BY <1>1, <1>2 DEF Spans, StandApart
<1>5. \A p, k \in S : \/ p = k \/ k \in desc[p] \/ p \in desc[k]
                      \/ hi[p] <= lo[k] \/ hi[k] <= lo[p]
  BY <1>1, <1>2 DEF Spans, StandApart
<1>6. \A t \in Tips : AsksLeft(t) \/ AsksRight(t)
  <2> TAKE t \in Tips
  <2>1. WaitsIn(desc, S, t) /\ t \in Procs
    BY <1>1
  <2>2. CASE /\ From(proc[t]) # DIR /\ pipe[From(proc[t])] = 0
             /\ \E w \in S : To(proc[w]) = From(proc[t])
    BY <1>1, <1>2, <1>3, <2>1, <2>2
  <2>3. CASE /\ To(proc[t]) # DIR /\ pipe[To(proc[t])] # 0
             /\ \E w \in S : From(proc[w]) = To(proc[t])
    BY <1>1, <1>2, <1>3, <2>1, <2>3
  <2> QED BY <2>1, <2>2, <2>3 DEF WaitsIn
<1>7. ASSUME NEW p \in S PROVE \E t \in Tips : lo[p] <= lo[t] /\ hi[t] <= hi[p]
  <2> DEFINE T == {t \in S : t = p \/ t \in desc[p]}
             e == [t \in T |-> desc[t] \cap T]
  <2>1. \A t \in S : t \notin desc[t] /\ \A u \in desc[t] : desc[u] \subseteq desc[t]
    BY <1>1 DEF Tree
  <2>2. /\ T \subseteq Procs /\ T # {} /\ e \in [T -> SUBSET T]
        /\ \A t \in T : t \notin e[t]
        /\ \A t \in T : \A u \in e[t] : e[u] \subseteq e[t]
    BY <1>1, <2>1
  <2>3. PICK t \in T : e[t] = {}
    <3> HIDE DEF e, T
    <3> QED BY <2>2, SomeEnd
  <2>4. ASSUME NEW k \in S, k \in desc[t] PROVE FALSE
    <3>1. k \in T
      BY <2>1, <2>4
    <3> QED BY <2>3, <2>4, <3>1
  <2>5. desc[t] = {}
    BY <2>4 DEF WaitsIn
  <2>6. t \in Tips /\ (t = p \/ t \in desc[p]) /\ p \in Procs
    BY <1>1, <2>5
  <2> HIDE DEF lo, hi, T, e
  <2> QED BY <1>2, <1>4, <2>6
<1> HIDE DEF lo, hi
<1>8. ASSUME NEW t \in Tips, NEW u \in Tips, t # u PROVE hi[t] <= lo[u] \/ hi[u] <= lo[t]
  BY <1>5, <1>8
<1>9. \E b \in Tips : AsksLeft(b)
  <2>1. Tips # {} /\ Tips \subseteq Procs
    BY <1>1, <1>7
  <2>2. PICK t \in Tips : \A u \in Tips : lo[u] <= lo[t]
    <3> HIDE DEF Tips
    <3> QED BY <1>2, <2>1, Rightmost
  <2>3. ASSUME AsksRight(t) PROVE FALSE
    <3>1. PICK w \in S : lo[w] = hi[t]
      BY <2>3
    <3>2. PICK u \in Tips : lo[w] <= lo[u]
      BY <1>7
    <3> QED BY <1>1, <1>2, <1>3, <2>2, <3>1, <3>2
  <2> QED BY <1>6, <2>3
<1>10. PICK b \in Tips : AsksLeft(b) /\ \A u \in Tips : AsksLeft(u) => lo[b] <= lo[u]
  <2> DEFINE T == {t \in Tips : AsksLeft(t)}
  <2>1. T # {} /\ T \subseteq Procs
    BY <1>1, <1>9
  <2>2. PICK t \in T : \A u \in T : lo[t] <= lo[u]
    <3> HIDE DEF T
    <3> QED BY <1>2, <2>1, Leftmost
  <2> QED BY <2>2
<1>11. PICK w \in S : hi[w] = lo[b]
  BY <1>10
<1>12. PICK v \in Tips : lo[w] <= lo[v] /\ hi[v] <= hi[w]
  BY <1>7
<1>13. PICK a \in Tips : hi[a] <= lo[b] /\ \A u \in Tips : hi[u] <= lo[b] => lo[u] <= lo[a]
  <2> DEFINE T == {t \in Tips : hi[t] <= lo[b]}
  <2>1. T # {} /\ T \subseteq Procs
    BY <1>1, <1>11, <1>12
  <2>2. PICK t \in T : \A u \in T : lo[u] <= lo[t]
    <3> HIDE DEF T
    <3> QED BY <1>2, <2>1, Rightmost
  <2> QED BY <2>2
<1>14. AsksRight(a)
  <2>1. lo[a] < lo[b]
    BY <1>1, <1>2, <1>3, <1>13
  <2>2. ~AsksLeft(a)
    BY <1>1, <1>2, <1>10, <2>1
  <2> QED BY <1>6, <2>2
<1>15. PICK r \in S : lo[r] = hi[a]
  BY <1>14
<1>16. PICK d \in Tips : lo[r] <= lo[d] /\ hi[d] <= hi[r]
  BY <1>7
<1> HIDE DEF AsksLeft, AsksRight
<1>17. /\ a \in S /\ b \in S /\ d \in S /\ v \in S
       /\ a \in Procs /\ b \in Procs /\ d \in Procs /\ v \in Procs /\ r \in Procs /\ w \in Procs
  BY <1>1
<1>18. lo[w] <= lo[a]
  <2>1. lo[v] <= lo[a]
    BY <1>11, <1>12, <1>13
  <2> QED BY <1>2, <1>12, <1>17, <2>1
<1>19. hi[b] <= hi[r]
  <2>1. lo[a] < lo[d]
    BY <1>2, <1>3, <1>15, <1>16, <1>17
  <2>2. lo[b] < hi[d]
    BY <1>2, <1>13, <1>17, <2>1
  <2>3. d = b \/ hi[b] <= lo[d]
    BY <1>2, <1>8, <1>17, <2>2
  <2>4. hi[b] <= hi[d]
    BY <1>2, <1>3, <1>17, <2>3
  <2> QED BY <1>2, <1>16, <1>17, <2>4
<1>20. lo[a] < hi[a] /\ lo[b] < hi[b] /\ hi[a] <= lo[b]
  BY <1>3, <1>13, <1>17
<1>21. hi[a] = lo[b]
  <2>1. /\ lo[a] \in Nat /\ hi[a] \in Nat /\ lo[b] \in Nat /\ hi[b] \in Nat
        /\ lo[r] \in Nat /\ hi[r] \in Nat /\ lo[w] \in Nat /\ hi[w] \in Nat
    BY <1>2, <1>17
  <2>2. w # r
    BY <1>15, <1>18, <1>20, <2>1
  <2>3. r \notin desc[w]
    <3>1. ~ (hi[r] <= hi[w])
      BY <1>11, <1>19, <1>20, <2>1
    <3> QED BY <1>4, <3>1
  <2>4. w \notin desc[r]
    <3>1. ~ (lo[r] <= lo[w])
      BY <1>15, <1>18, <1>20, <2>1
    <3> QED BY <1>4, <3>1
  <2>5. hi[w] <= lo[r] \/ hi[r] <= lo[w]
    BY <1>5, <2>2, <2>3, <2>4
  <2> QED BY <1>11, <1>15, <1>18, <1>19, <1>20, <2>1, <2>5
<1>22. To(proc[a]) = From(proc[b])
  <2>1. pos[To(proc[a])] = pos[From(proc[b])]
    BY <1>2, <1>3, <1>10, <1>17, <1>21 DEF AsksLeft
  <2> QED BY <1>2, <1>17, <2>1 DEF Injection, IsInjective
<1> QED BY <1>10, <1>14, <1>22 DEF AsksLeft, AsksRight

\* A process that waits holds nothing but its standard input and output.
LEMMA WaitersHold ==
    ASSUME TypeOK, Calm, NEW p \in Alive, WaitsFor(p) # {}
    PROVE  /\ proc[p].pc \in {"wait", "wait2", "wait1", "prompt", "run"}
           /\ proc[p].ends = {}
           /\ From(proc[p]) = proc[p].in
           /\ To(proc[p]) = IF proc[p].out = TTY THEN NPIPE + 1 ELSE proc[p].out
<1>1. p \in Procs
  BY DEF Alive
<1>2. proc[p].pc \in {"wait", "wait2", "wait1", "prompt", "run"}
  BY DEF WaitsFor, Reading, At
<1>3. proc[p].ends = {}
  BY <1>1, <1>2 DEF Calm, EndsOk, Piping
<1> QED BY <1>2, <1>3 DEF From, To

\* What the property says of a set of waiting processes is what NoCircle refutes.
LEMMA WaitsMeet ==
    ASSUME TypeOK, Calm, NEW desc \in [Procs -> SUBSET Procs], Tree(desc),
           NEW S, S \subseteq Alive, \A p \in S : WaitsFor(p) # {},
           NEW p \in S, NEW k \in S, k \in WaitsFor(p)
    PROVE  WaitsIn(desc, S, p)
<1> DEFINE r == proc[p]
           Awaits == CASE r.pc = "wait" -> Procs
                       [] r.pc = "wait2" -> Awaited(r.kid2)
                       [] r.pc = "wait1" -> Awaited(r.kid1)
                       [] OTHER -> {}
           kids == Kids(p) \cap Awaits
           asks == (Reading(p) \/ At(p, "prompt")) /\ r.in \in Pipes
<1>1. p \in Procs /\ k \in Procs /\ p \in Alive /\ k \in Alive
  BY DEF Alive
<1>2. /\ From(r) = r.in
      /\ To(r) = IF r.out = TTY THEN NPIPE + 1 ELSE r.out
      /\ proc[k].ends = {}
      /\ From(proc[k]) = proc[k].in
      /\ To(proc[k]) = IF proc[k].out = TTY THEN NPIPE + 1 ELSE proc[k].out
  BY <1>1, WaitersHold
<1>3. Held(k) = {<<proc[k].in, "r">>, <<proc[k].out, "w">>} \cap AllEnds
  BY <1>2 DEF Held
<1>4. r.pc \in {"prompt", "run"} => desc[p] = {}
  BY <1>1 DEF Calm, KidsOk, Minding, Tree
<1>5. \/ k \in Kids(p)
      \/ asks /\ ~HasLine(p) /\ k \in Writers(r.in)
      \/ At(p, "run") /\ r.todo > 0 /\ Full(r.out) /\ k \in Readers(r.out)
  <2>1. WaitsFor(p) = (IF Zombies(kids) = {} THEN kids ELSE {})
                      \cup (IF asks /\ ~HasLine(p) THEN Writers(r.in) ELSE {})
                      \cup (IF At(p, "run") /\ r.todo > 0 /\ Full(r.out)
                            THEN Readers(r.out) ELSE {})
    BY DEF WaitsFor
  <2> HIDE DEF Awaits, asks
  <2> QED BY <2>1
<1>6. CASE k \in Kids(p)
  BY <1>1, <1>6 DEF Tree, WaitsIn
<1>7. CASE asks /\ ~HasLine(p) /\ k \in Writers(r.in)
  <2>1. r.in \in Pipes /\ r.pc \in {"prompt", "run"}
    BY <1>7 DEF Reading, At
  <2>2. pipe[r.in] = 0
    BY <1>7, <2>1, LimitsAssumption DEF HasLine, TypeOK
  <2>3. proc[k].out = r.in
    BY <1>3, <1>7 DEF Writers
  <2>4. To(proc[k]) = From(r)
    BY <1>2, <2>1, <2>3, NumbersApart
  <2> QED BY <1>2, <1>4, <2>1, <2>2, <2>4, NumbersApart DEF WaitsIn
<1>8. CASE At(p, "run") /\ r.todo > 0 /\ Full(r.out) /\ k \in Readers(r.out)
  <2>1. proc[k].in = r.out /\ r.out \in Pipes
    BY <1>3, <1>8 DEF Readers, AllEnds
  <2>2. To(r) = r.out /\ From(proc[k]) = r.out
    BY <1>2, <2>1, NumbersApart
  <2>3. pipe[r.out] # 0
    BY <1>8, LimitsAssumption DEF Full
  <2> QED BY <1>4, <1>8, <2>1, <2>2, <2>3, NumbersApart DEF WaitsIn, At
<1> QED BY <1>5, <1>6, <1>7, <1>8

\* While no call was refused there is such a line: the processes keep it whatever they do.
THEOREM OrderInvariant == Spec => [](trouble # "refused" => Ordered)
<1>1. Init => (trouble # "refused" => Ordered)
  BY InitOrdered
<1>2. Inv /\ (trouble # "refused" => Ordered) /\ [Next]_vars
          => (trouble # "refused" => Ordered)'
  <2> SUFFICES ASSUME Inv, trouble # "refused" => Ordered, [Next]_vars, trouble' # "refused"
               PROVE  Ordered'
    OBVIOUS
  <2>1. TypeOK /\ Calm /\ Ordered
    BY RefusedStays DEF Inv
  <2>2. CASE UNCHANGED vars
    <3>1. proc' = proc
      BY <2>2 DEF vars
    <3>2. PICK pos \in Injection(Slots, Nat), left \in [Procs -> Nat],
          desc \in [Procs -> SUBSET Procs] :
              Tree(desc) /\ Spans(pos, left, desc)
      BY <2>1 DEF Ordered
    <3>3. Tree(desc)'
      BY <3>1, <3>2 DEF Tree, Kids
    <3>4. Spans(pos, left, desc)'
      BY <3>1, <3>2 DEF Spans, StandsWell, StandApart, Alive
    <3> QED BY <3>2, <3>3, <3>4 DEF Ordered
  <2>3. CASE Next
    <3>1. PICK p \in Procs : Runs(p) \/ User(p)
      BY <2>3 DEF Next
    <3> QED BY <2>1, <3>1, OrderedStep
  <2> QED BY <2>2, <2>3
<1> QED BY <1>1, <1>2, ShellInvariant, PTL DEF Spec

\* No processes wait for each other in a circle, for a child, for the end of a pipe or
\* for room in one, however deep shells are nested in pipelines.
THEOREM NobodyWaitsInACircle == Spec => []NoWaitCycle
<1>1. ASSUME Inv, trouble # "refused" => Ordered PROVE NoWaitCycle
  <2> DEFINE waits == [p \in Alive |-> WaitsFor(p)]
  <2>1. ASSUME trouble # "refused", NEW S \in SUBSET {p \in Alive : waits[p] # {}}, S # {},
               \A p \in S : waits[p] \cap S # {}
        PROVE  FALSE
    <3>1. TypeOK /\ Calm /\ Ordered
      BY <1>1, <2>1 DEF Inv
    <3>2. PICK pos \in Injection(Slots, Nat), left \in [Procs -> Nat],
          desc \in [Procs -> SUBSET Procs] :
              Tree(desc) /\ Spans(pos, left, desc)
      BY <3>1 DEF Ordered
    <3>3. S \subseteq Alive /\ \A p \in S : WaitsFor(p) # {} /\ WaitsFor(p) \cap S # {}
      BY <2>1
    <3>4. \A p \in S : WaitsIn(desc, S, p)
      BY <3>1, <3>2, <3>3, WaitsMeet
    <3> QED BY <2>1, <3>1, <3>2, <3>3, <3>4, NoCircle
  <2> QED BY <2>1 DEF NoWaitCycle
<1> QED BY <1>1, ShellInvariant, OrderInvariant, PTL
=============================================================================
