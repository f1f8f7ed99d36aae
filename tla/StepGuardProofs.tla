--------------------------- MODULE StepGuardProofs ---------------------------
(***************************************************************************)
(* For any number of tasks, executions and nested steps: the guard is      *)
(* exact, two steps of one execution never run at the same time, and no    *)
(* snapshot is written over while no task outlives its execution.          *)
(***************************************************************************)
EXTENDS StepGuard, WellFoundedInduction, TLAPS

\* The types of the guard and of what is inside of it.
GuardOK ==
  /\ owner \in [Execution -> Task \cup {NoTask}]
  /\ depth \in [Execution -> Nat]
  /\ inside \in [Execution -> [Task -> Nat]]

\* What one execution's guard says: nobody is inside of a step, or the owner alone is.
Exact(e) ==
  \/ /\ owner[e] = NoTask
     /\ depth[e] = 0
     /\ \A t \in Task : inside[e][t] = 0
  \/ /\ owner[e] \in Task
     /\ depth[e] > 0
     /\ depth[e] = inside[e][owner[e]]
     /\ \A t \in Task : t # owner[e] => inside[e][t] = 0

\* The inductive invariant: GuardIsExact leaves open what other tasks are inside of.
GuardInv == GuardOK /\ \A e \in Execution : Exact(e)

guard == <<owner, depth, inside>>

LEMMA InitGuard == Init => GuardInv
<1>1. SUFFICES ASSUME Init PROVE GuardInv
  OBVIOUS
<1>2. /\ owner = [e \in Execution |-> NoTask]
      /\ depth = [e \in Execution |-> 0]
      /\ inside = [e \in Execution |-> [t \in Task |-> 0]]
  BY <1>1 DEF Init
<1>3. GuardOK
  BY <1>2 DEF GuardOK
<1>4. \A e \in Execution : Exact(e)
  BY <1>2 DEF Exact
<1>. QED BY <1>3, <1>4 DEF GuardInv

\* A task is inside of at most as many steps as its execution's guard counts.
LEMMA WithinDepth ==
  ASSUME GuardInv, NEW e \in Execution, NEW t \in Task
  PROVE  /\ depth[e] \in Nat
         /\ inside[e][t] \in Nat
         /\ inside[e][t] <= depth[e]
<1>1. depth[e] \in Nat /\ inside[e][t] \in Nat
  BY DEF GuardInv, GuardOK
<1>2. Exact(e)
  BY DEF GuardInv
<1>3. CASE owner[e] = NoTask
  BY <1>1, <1>2, <1>3, TaskAssumption DEF Exact, Task
<1>4. CASE owner[e] \in Task /\ owner[e] # NoTask
  <2>1. depth[e] = inside[e][owner[e]] /\ (t # owner[e] => inside[e][t] = 0)
    BY <1>2, <1>4 DEF Exact
  <2>. QED BY <1>1, <2>1
<1>. QED BY <1>1, <1>2, <1>3, <1>4 DEF Exact

\* A step is entered by the owner, or when nobody is.
LEMMA EnterKeeps ==
  ASSUME GuardInv, NEW e \in Execution, NEW t \in Task, Enter(e, t)
  PROVE  GuardInv'
<1>1. t # NoTask
  BY TaskAssumption DEF Task
<1>2. GuardOK'
  BY DEF GuardInv, GuardOK, Enter
<1>3. ASSUME NEW f \in Execution PROVE Exact(f)'
  <2>1. CASE f # e
    BY <2>1 DEF GuardInv, GuardOK, Enter, Exact
  <2>2. CASE f = e
    <3>1. owner'[e] = t /\ depth'[e] = depth[e] + 1
      BY DEF GuardInv, GuardOK, Enter
    <3>2. \A u \in Task : inside'[e][u] = IF u = t THEN inside[e][u] + 1 ELSE inside[e][u]
      BY DEF GuardInv, GuardOK, Enter
    <3>3. depth[e] = inside[e][t] /\ \A u \in Task : u # t => inside[e][u] = 0
      <4>1. Exact(e)
        BY DEF GuardInv
      <4>2. CASE owner[e] = NoTask
        BY <1>1, <4>1, <4>2, TaskAssumption DEF Exact, Task
      <4>3. CASE owner[e] = t
        BY <1>1, <4>1, <4>3 DEF Exact
      <4>. QED BY <4>2, <4>3 DEF Enter, MayEnter
    <3>4. depth[e] \in Nat
      BY DEF GuardInv, GuardOK
    <3>. QED BY <2>2, <3>1, <3>2, <3>3, <3>4 DEF Exact
  <2>. QED BY <2>1, <2>2
<1>. QED BY <1>2, <1>3 DEF GuardInv

\* A task leaves any number of the steps that it is inside of.
LEMMA LeaveKeeps ==
  ASSUME GuardInv, NEW e \in Execution, NEW t \in Task,
         NEW n \in Nat, n <= inside[e][t], Leave(e, t, n)
  PROVE  GuardInv'
<1>1. t # NoTask
  BY TaskAssumption DEF Task
<1>2. /\ depth[e] \in Nat /\ inside[e][t] \in Nat
      /\ n <= depth[e]
  BY WithinDepth
<1>3. GuardOK'
  BY <1>2 DEF GuardInv, GuardOK, Leave
<1>4. ASSUME NEW f \in Execution PROVE Exact(f)'
  <2>1. CASE f # e
    BY <2>1 DEF GuardInv, GuardOK, Leave, Exact
  <2>2. CASE f = e /\ n = depth[e]
    BY <1>1, <2>2 DEF GuardInv, GuardOK, Leave, Exact
  <2>3. CASE f = e /\ n # depth[e]
    <3>1. /\ owner[e] \in Task /\ depth[e] = inside[e][owner[e]]
          /\ \A u \in Task : u # owner[e] => inside[e][u] = 0
      <4>1. Exact(e)
        BY DEF GuardInv
      <4>2. depth[e] # 0
        BY <1>2, <2>3
      <4>. QED BY <4>1, <4>2 DEF Exact
    <3>2. owner' = owner /\ depth'[e] = depth[e] - n
      BY <2>3 DEF GuardInv, GuardOK, Leave
    <3>3. \A u \in Task : inside'[e][u] = IF u = t THEN inside[e][u] - n ELSE inside[e][u]
      BY DEF GuardInv, GuardOK, Leave
    <3>4. CASE t = owner[e]
      BY <1>2, <2>3, <3>1, <3>2, <3>3, <3>4 DEF Exact
    <3>5. CASE t # owner[e]
      <4>1. n = 0 /\ inside[e][t] = 0
        BY <1>2, <3>1, <3>5
      <4>. QED BY <1>2, <2>3, <3>1, <3>2, <3>3, <3>5, <4>1 DEF Exact
    <3>. QED BY <3>4, <3>5
  <2>. QED BY <2>1, <2>2, <2>3
<1>. QED BY <1>3, <1>4 DEF GuardInv

LEMMA StepKeepsGuard ==
  ASSUME GuardInv, [Next]_vars
  PROVE  GuardInv'
<1>1. CASE UNCHANGED guard
  BY <1>1 DEF guard, GuardInv, GuardOK, Exact
<1>2. ASSUME NEW e \in Execution, NEW t \in Task, Enter(e, t)
      PROVE  GuardInv'
  BY <1>2, EnterKeeps
<1>3. ASSUME NEW e \in Execution, NEW t \in Task, Succeed(e, t)
      PROVE  GuardInv'
  <2>1. Leave(e, t, 1) /\ 1 <= inside[e][t]
    BY <1>3 DEF Succeed, GuardInv, GuardOK
  <2>. QED BY <2>1, LeaveKeeps
<1>4. ASSUME NEW e \in Execution, NEW t \in Task, Fail(e, t) \/ Pause(e, t)
      PROVE  GuardInv'
  <2>1. PICK n \in 0..MaxDepth : Raise(e, t, n)
    BY <1>4 DEF Fail, Pause
  <2>2. n \in Nat /\ n <= inside[e][t] /\ Leave(e, t, n)
    BY <2>1 DEF Raise, GuardInv, GuardOK
  <2>. QED BY <2>2, LeaveKeeps
<1>5. ASSUME NEW e \in Execution, NEW c \in Child, Cancel(e, c)
      PROVE  GuardInv'
  <2>1. /\ c \in Task /\ inside[e][c] \in Nat /\ inside[e][c] <= inside[e][c]
        /\ Leave(e, c, inside[e][c])
    BY <1>5 DEF Cancel, GuardInv, GuardOK, Task
  <2>. QED BY <2>1, LeaveKeeps
<1>6. ASSUME NEW e \in Execution, Open(e) \/ FanOut(e) \/ GatherEnds(e)
                                  \/ ClosePaused(e) \/ CloseFinal(e)
      PROVE  UNCHANGED guard
  BY <1>6 DEF Open, FanOut, GatherEnds, ClosePaused, CloseFinal, Closing, context, guard
<1>7. ASSUME NEW e \in Execution, NEW t \in Task, PassGate(e, t) \/ TaskReturns(e, t)
      PROVE  UNCHANGED guard
  BY <1>7 DEF PassGate, TaskReturns, context, guard
<1>8. CASE UNCHANGED vars
  BY <1>1, <1>8 DEF vars, context, guard
<1>. QED BY <1>1, <1>2, <1>3, <1>4, <1>5, <1>6, <1>7, <1>8 DEF Next, TaskNext, Task

LEMMA GuardInvariant == Spec => []GuardInv
<1>. QED BY InitGuard, StepKeepsGuard, PTL DEF Spec

(***************************************************************************)
(* Who may write a snapshot, and where.                                    *)
(***************************************************************************)

Doing == {"absent", "ready", "gathering", "ended", "raised"}

\* Executions follow one another, and only a task that has outlived its own can still run.
Turns ==
  /\ phase \in [Execution -> {"absent", "body", "closed"}]
  /\ pc \in [Execution -> [Task -> Doing]]
  /\ outlived \in BOOLEAN
  /\ \A e \in Execution : phase[e] = "absent" => \A t \in Task : pc[e][t] = "absent"
  /\ \A e \in Execution :
       phase[e] = "closed" =>
         /\ pc[e][Main] = "ended"
         /\ ~outlived => \A c \in Child : pc[e][c] # "ready"
  /\ \A e, f \in Execution : f < e /\ phase[e] # "absent" => phase[f] = "closed"

\* The next index of the execution under way is above everything stored.
Above ==
  /\ DOMAIN snaps \subseteq Index
  /\ nextIndex \in [Execution -> Nat]
  /\ ~outlived =>
       \A e \in Execution : phase[e] = "body" => \A i \in DOMAIN snaps : i < nextIndex[e]

\* The order of the naturals has no infinite descent.
LEMMA LessIsWellFounded == IsWellFoundedOn({ss \in Nat \X Nat : ss[1] < ss[2]}, Nat)
BY NatLessThanWellFounded, SMT DEF OpToRel

\* A set of naturals that is not empty has a least element.
LEMMA LeastExists ==
  ASSUME NEW S \in SUBSET Nat, S # {}
  PROVE  \E n \in S : \A m \in S : n <= m
<1> DEFINE R == {ss \in Nat \X Nat : ss[1] < ss[2]}
<1>1. IsWellFoundedOn(R, Nat)
  BY LessIsWellFounded
<1> HIDE DEF R
<1>2. PICK x \in S : \A y \in S : ~ (<<y, x>> \in R)
  BY <1>1, WFMin, Zenon
<1>3. \A y \in S : ~ (y < x)
  <2> TAKE y \in S
  <2>1. <<y, x>> \in R <=> y < x
    BY DEF R
  <2>. QED BY <1>2, <2>1
<1>. QED BY <1>3

\* What a task does next, of all the tasks.
LEMMA BecomeIs ==
  ASSUME Turns, NEW e \in Execution, NEW t \in Task,
         NEW l \in {"ready", "ended", "raised"}, Become(e, t, l)
  PROVE  /\ pc' \in [Execution -> [Task -> Doing]]
         /\ pc'[e][t] = l
         /\ \A f \in Execution, u \in Task : f # e \/ u # t => pc'[f][u] = pc[f][u]
BY DEF Turns, Become, Doing

\* A task that is ready belongs to the execution under way, or has outlived its own.
LEMMA ReadyIsUnderWay ==
  ASSUME Turns, NEW e \in Execution, NEW t \in Task, pc[e][t] \in {"ready", "gathering"}
  PROVE  /\ phase[e] # "absent"
         /\ t = Main => phase[e] = "body"
         /\ pc[e][t] = "ready" /\ ~outlived => phase[e] = "body"
BY DEF Turns, Task

\* A task goes on or comes to its end.
LEMMA TaskTurns ==
  ASSUME Turns, NEW e \in Execution, NEW t \in Task, pc[e][t] = "ready",
         UNCHANGED <<phase, outlived>>,
         UNCHANGED pc \/ \E l \in {"ended", "raised"} : Become(e, t, l)
  PROVE  Turns'
<1>1. CASE UNCHANGED pc
  BY <1>1 DEF Turns
<1>2. ASSUME NEW l \in {"ended", "raised"}, Become(e, t, l) PROVE Turns'
  <2>1. /\ pc' \in [Execution -> [Task -> Doing]]
        /\ pc'[e][t] = l
        /\ \A f \in Execution, u \in Task : f # e \/ u # t => pc'[f][u] = pc[f][u]
    BY <1>2, BecomeIs
  <2>2. phase[e] # "absent" /\ (t = Main => phase[e] = "body")
    BY ReadyIsUnderWay
  <2>3. \A f \in Execution, u \in Task : pc'[f][u] = "ready" => pc[f][u] = "ready"
    BY <2>1
  <2>4. \A c \in Child : c \in Task
    BY DEF Task
  <2>5. \A f \in Execution : phase[f] = "absent" => \A u \in Task : pc'[f][u] = "absent"
    BY <2>1, <2>2 DEF Turns
  <2>6. \A f \in Execution : phase[f] = "closed" => pc'[f][Main] = "ended"
    BY <2>1, <2>2 DEF Turns, Task
  <2>7. \A f \in Execution : phase[f] = "closed" /\ ~outlived => \A c \in Child : pc'[f][c] # "ready"
    BY <2>3, <2>4 DEF Turns
  <2>. QED BY <2>1, <2>5, <2>6, <2>7 DEF Turns
<1>. QED BY <1>1, <1>2

\* Every step of a task keeps the turns of the others.
LEMMA StepKeepsTurns ==
  ASSUME Turns, [Next]_vars
  PROVE  Turns'
<1>1. ASSUME NEW e \in Execution, Open(e) PROVE Turns'
  <2>1. /\ phase[e] = "absent" /\ phase' = [phase EXCEPT ![e] = "body"]
        /\ \A f \in Execution : f < e => phase[f] = "closed"
        /\ UNCHANGED outlived
    BY <1>1 DEF Open
  <2>2. Main \in Task /\ Become(e, Main, "ready")
    BY <1>1 DEF Open, Task
  <2>3. /\ pc' \in [Execution -> [Task -> Doing]]
        /\ \A f \in Execution, u \in Task : f # e => pc'[f][u] = pc[f][u]
    BY <2>2, BecomeIs
  <2>4. \A f \in Execution : phase'[f] = IF f = e THEN "body" ELSE phase[f]
    BY <2>1 DEF Turns
  <2>5. \A f, g \in Execution : g < f /\ phase'[f] # "absent" => phase'[g] = "closed"
    <3> SUFFICES ASSUME NEW f \in Execution, NEW g \in Execution, g < f, phase'[f] # "absent"
                 PROVE  phase'[g] = "closed"
      OBVIOUS
    <3>1. g # e
      BY <2>1, <2>4 DEF Turns, Execution
    <3>2. phase[g] = "closed"
      BY <2>1, <2>4 DEF Turns
    <3>. QED BY <2>4, <3>1, <3>2
  <2>6. phase' \in [Execution -> {"absent", "body", "closed"}]
    BY <2>1 DEF Turns
  <2>7. \A f \in Execution : phase'[f] = "absent" => \A u \in Task : pc'[f][u] = "absent"
    BY <2>3, <2>4 DEF Turns
  <2>8. \A f \in Execution : phase'[f] = "closed" =>
          /\ pc'[f][Main] = "ended"
          /\ ~outlived' => \A c \in Child : pc'[f][c] # "ready"
    BY <2>1, <2>3, <2>4 DEF Turns, Task
  <2>. QED BY <2>1, <2>3, <2>5, <2>6, <2>7, <2>8 DEF Turns
<1>2. ASSUME NEW e \in Execution, FanOut(e) PROVE Turns'
  <2>1. /\ pc[e][Main] = "ready" /\ UNCHANGED <<phase, outlived>>
        /\ pc' = [pc EXCEPT ![e] = [t \in Task |-> IF t = Main THEN "gathering" ELSE "ready"]]
    BY <1>2 DEF FanOut, context
  <2>2. phase[e] = "body"
    BY <2>1, ReadyIsUnderWay DEF Task
  <2>. QED BY <2>1, <2>2 DEF Turns, Task, Doing
<1>3. ASSUME NEW e \in Execution, GatherEnds(e) PROVE Turns'
  <2>1. /\ pc[e][Main] = "gathering" /\ UNCHANGED <<phase, outlived>>
        /\ Main \in Task /\ Become(e, Main, "ready")
    BY <1>3 DEF GatherEnds, Task
  <2>2. phase[e] = "body"
    BY <2>1, ReadyIsUnderWay
  <2>3. /\ pc' \in [Execution -> [Task -> Doing]]
        /\ \A f \in Execution, u \in Task : f # e => pc'[f][u] = pc[f][u]
    BY <2>1, BecomeIs
  <2>4. \A f \in Execution : phase[f] = "absent" => \A u \in Task : pc'[f][u] = "absent"
    BY <2>2, <2>3 DEF Turns
  <2>5. \A f \in Execution : phase[f] = "closed" =>
          /\ pc'[f][Main] = "ended"
          /\ ~outlived => \A c \in Child : pc'[f][c] # "ready"
    BY <2>2, <2>3 DEF Turns, Task
  <2>. QED BY <2>1, <2>3, <2>4, <2>5 DEF Turns
<1>4. ASSUME NEW e \in Execution, ClosePaused(e) \/ CloseFinal(e) PROVE Turns'
  <2>1. /\ phase[e] = "body" /\ phase' = [phase EXCEPT ![e] = "closed"]
        /\ outlived' = (outlived \/ \E c \in Child : pc[e][c] = "ready")
        /\ Main \in Task /\ Become(e, Main, "ended")
    BY <1>4 DEF ClosePaused, CloseFinal, Closing, Task
  <2>2. /\ pc' \in [Execution -> [Task -> Doing]]
        /\ pc'[e][Main] = "ended"
        /\ \A f \in Execution, u \in Task : f # e \/ u # Main => pc'[f][u] = pc[f][u]
    BY <2>1, BecomeIs
  <2>3. \A c \in Child : c \in Task /\ c # Main
    BY TaskAssumption DEF Task
  <2>4. ~outlived' => ~outlived /\ \A c \in Child : pc'[e][c] # "ready"
    BY <2>1, <2>2, <2>3
  <2>5. \A f \in Execution : phase'[f] = IF f = e THEN "closed" ELSE phase[f]
    BY <2>1 DEF Turns
  <2>6. outlived' \in BOOLEAN /\ phase' \in [Execution -> {"absent", "body", "closed"}]
    BY <2>1 DEF Turns
  <2>7. \A f, g \in Execution : g < f /\ phase'[f] # "absent" => phase'[g] = "closed"
    BY <2>1, <2>5 DEF Turns
  <2>8. ASSUME NEW f \in Execution, f # e, phase[f] = "closed"
        PROVE  /\ pc'[f][Main] = "ended"
               /\ ~outlived' => \A c \in Child : pc'[f][c] # "ready"
    BY <2>1, <2>2, <2>3, <2>4, <2>8 DEF Turns
  <2>9. \A f \in Execution : phase'[f] = "absent" => \A t \in Task : pc'[f][t] = "absent"
    BY <2>1, <2>2, <2>5 DEF Turns
  <2>. QED BY <2>2, <2>4, <2>5, <2>6, <2>7, <2>8, <2>9 DEF Turns
<1>5. ASSUME NEW e \in Execution, NEW t \in Task, TaskNext(e, t) PROVE Turns'
  <2>1. /\ pc[e][t] = "ready" /\ UNCHANGED <<phase, outlived>>
        /\ UNCHANGED pc \/ Become(e, t, "raised")
    BY <1>5 DEF TaskNext, Enter, Succeed, Fail, PassGate, Pause, Raise
  <2>. QED BY <2>1, TaskTurns
<1>6. ASSUME NEW e \in Execution, NEW c \in Child, Cancel(e, c) \/ TaskReturns(e, c)
      PROVE  Turns'
  <2>1. /\ pc[e][c] = "ready" /\ UNCHANGED <<phase, outlived>> /\ c \in Task
        /\ Become(e, c, "ended")
    BY <1>6 DEF Cancel, TaskReturns, Task
  <2>. QED BY <2>1, TaskTurns
<1>7. CASE UNCHANGED vars
  BY <1>7 DEF vars, Turns
<1>. QED BY <1>1, <1>2, <1>3, <1>4, <1>5, <1>6, <1>7 DEF Next

\* A snapshot at the next index of the execution under way is a new one.
LEMMA PutIsNew ==
  ASSUME Turns, Above, NEW e \in Execution, NEW kind, PutSnapshot(e, kind),
         ~outlived => phase[e] = "body", ~outlived' => ~outlived,
         \A f \in Execution : phase'[f] = "body" => phase[f] = "body"
  PROVE  /\ Above'
         /\ ~outlived => \A i \in DOMAIN snaps : i \in DOMAIN snaps' /\ snaps'[i] = snaps[i]
<1> DEFINE n == nextIndex[e]
<1>1. /\ n \in Index /\ n \in Nat
      /\ DOMAIN snaps' = DOMAIN snaps \cup {n}
      /\ \A i \in DOMAIN snaps : i # n => snaps'[i] = snaps[i]
      /\ nextIndex' = [nextIndex EXCEPT ![e] = n + 1]
  BY DEF PutSnapshot, Above
<1>2. /\ DOMAIN snaps' \subseteq Index
      /\ nextIndex' \in [Execution -> Nat]
      /\ nextIndex'[e] = n + 1
  BY <1>1 DEF Above
<1> HIDE DEF n
<1>3. ~outlived => \A i \in DOMAIN snaps : i < n /\ i \in Nat
  BY DEF Above, Index, n
<1>4. ASSUME ~outlived', NEW f \in Execution, phase'[f] = "body", NEW i \in DOMAIN snaps'
      PROVE  i < nextIndex'[f]
  <2>1. ~outlived /\ phase[e] = "body" /\ phase[f] = "body"
    BY <1>4
  <2>2. f = e
    BY <2>1 DEF Turns, Execution
  <2>3. i < n + 1
    BY <1>1, <1>3, <1>4, <2>1
  <2>. QED BY <1>2, <2>2, <2>3
<1>5. Above'
  BY <1>2, <1>4 DEF Above
<1>6. ASSUME ~outlived, NEW i \in DOMAIN snaps
      PROVE  i \in DOMAIN snaps' /\ snaps'[i] = snaps[i]
  <2>1. i # n
    BY <1>1, <1>3, <1>6
  <2>. QED BY <1>1, <2>1
<1>. QED BY <1>5, <1>6

\* A set of indices that is not empty has a greatest one.
LEMMA GreatestIndex ==
  ASSUME NEW S \in SUBSET Index, S # {}
  PROVE  Max(S) \in S /\ \A i \in S : i <= Max(S)
<1> DEFINE down == {MaxSnapshots - i : i \in S}
<1>1. MaxSnapshots \in Nat /\ \A i \in S : i \in Nat /\ MaxSnapshots - i \in Nat
  BY LimitAssumption DEF Index
<1>2. down \in SUBSET Nat /\ down # {}
  BY <1>1
<1>3. PICK d \in down : \A k \in down : d <= k
  <2> HIDE DEF down
  <2>. QED BY <1>2, LeastExists
<1>4. PICK m \in S : d = MaxSnapshots - m
  BY <1>3
<1>5. \A i \in S : m >= i
  <2> TAKE i \in S
  <2>1. MaxSnapshots - m <= MaxSnapshots - i
    BY <1>3, <1>4
  <2>. QED BY <1>1, <2>1
<1>6. \E x \in S : \A y \in S : x >= y
  BY <1>5
<1>7. Max(S) \in S /\ \A y \in S : Max(S) >= y
  BY <1>6 DEF Max
<1>. QED BY <1>1, <1>7

\* The first index of an execution is above everything stored, whoever wrote it.
LEMMA FirstIsAbove ==
  ASSUME Above
  PROVE  FirstIndex \in Nat /\ \A i \in DOMAIN snaps : i < FirstIndex
<1>1. DOMAIN snaps \subseteq Index /\ \A i \in Index : i \in Nat
  BY DEF Above, Index
<1>2. CASE DOMAIN snaps = {}
  BY <1>2 DEF FirstIndex
<1>3. CASE DOMAIN snaps # {}
  <2>1. /\ Max(DOMAIN snaps) \in DOMAIN snaps
        /\ \A i \in DOMAIN snaps : i <= Max(DOMAIN snaps)
    BY <1>1, <1>3, GreatestIndex
  <2>2. FirstIndex = Max(DOMAIN snaps) + 1
    BY <1>3 DEF FirstIndex
  <2>. QED BY <1>1, <2>1, <2>2
<1>. QED BY <1>2, <1>3

\* Every step keeps the next index above, and what is stored as it is.
LEMMA StepKeepsSnapshots ==
  ASSUME Turns, Above, [Next]_vars
  PROVE  /\ Above'
         /\ ~outlived => \A i \in DOMAIN snaps : i \in DOMAIN snaps' /\ snaps'[i] = snaps[i]
<1> DEFINE Kept == \A i \in DOMAIN snaps : i \in DOMAIN snaps' /\ snaps'[i] = snaps[i]
<1>1. ASSUME NEW e \in Execution, Open(e) PROVE Above' /\ Kept
  <2>1. /\ phase' = [phase EXCEPT ![e] = "body"] /\ UNCHANGED <<snaps, outlived>>
        /\ nextIndex' = [nextIndex EXCEPT ![e] = FirstIndex]
        /\ phase[e] = "absent" /\ \A f \in Execution : f < e => phase[f] = "closed"
    BY <1>1 DEF Open
  <2>2. FirstIndex \in Nat /\ \A i \in DOMAIN snaps : i < FirstIndex
    BY FirstIsAbove
  <2>3. \A f \in Execution : phase'[f] = "body" =>
          nextIndex'[f] = IF f = e THEN FirstIndex ELSE nextIndex[f]
    BY <2>1 DEF Above
  <2>4. \A f \in Execution : f # e /\ phase'[f] = "body" => phase[f] = "body"
    BY <2>1 DEF Turns
  <2>. QED BY <2>1, <2>2, <2>3, <2>4 DEF Above
<1>2. ASSUME UNCHANGED <<snaps, nextIndex>>, ~outlived' => ~outlived,
             \A f \in Execution : phase'[f] = "body" => phase[f] = "body"
      PROVE  Above' /\ Kept
  BY <1>2 DEF Above
<1>3. ASSUME NEW e \in Execution, NEW t \in Task, Succeed(e, t) \/ Pause(e, t)
      PROVE  Above' /\ (~outlived => Kept)
  <2>1. /\ \E kind \in {"step", "pause"} : PutSnapshot(e, kind)
        /\ pc[e][t] = "ready" /\ UNCHANGED <<phase, outlived>>
    BY <1>3 DEF Succeed, Pause, Raise
  <2>2. ~outlived => phase[e] = "body"
    BY <2>1, ReadyIsUnderWay
  <2>. QED BY <2>1, <2>2, PutIsNew
<1>4. ASSUME NEW e \in Execution, CloseFinal(e) PROVE Above' /\ (~outlived => Kept)
  <2>1. /\ PutSnapshot(e, "final") /\ phase[e] = "body"
        /\ phase' = [phase EXCEPT ![e] = "closed"]
        /\ outlived' = (outlived \/ \E c \in Child : pc[e][c] = "ready")
    BY <1>4 DEF CloseFinal, Closing
  <2>2. \A f \in Execution : phase'[f] = "body" => phase[f] = "body"
    BY <2>1 DEF Turns
  <2>. QED BY <2>1, <2>2, PutIsNew
<1>5. ASSUME NEW e \in Execution, ClosePaused(e) PROVE Above' /\ Kept
  <2>1. /\ UNCHANGED <<snaps, nextIndex>> /\ phase' = [phase EXCEPT ![e] = "closed"]
        /\ outlived' = (outlived \/ \E c \in Child : pc[e][c] = "ready")
    BY <1>5 DEF ClosePaused, Closing
  <2>2. \A f \in Execution : phase'[f] = "body" => phase[f] = "body"
    BY <2>1 DEF Turns
  <2>. QED BY <1>2, <2>1, <2>2
<1>6. ASSUME NEW e \in Execution, FanOut(e) \/ GatherEnds(e) PROVE Above' /\ Kept
  BY <1>2, <1>6 DEF FanOut, GatherEnds, context
<1>7. ASSUME NEW e \in Execution, NEW t \in Task,
             \/ Enter(e, t) \/ Fail(e, t) \/ PassGate(e, t)
             \/ Cancel(e, t) \/ TaskReturns(e, t)
      PROVE  Above' /\ Kept
  BY <1>2, <1>7 DEF Enter, Fail, PassGate, Cancel, TaskReturns, context
<1>8. CASE UNCHANGED vars
  BY <1>2, <1>8 DEF vars, context
<1>. QED BY <1>1, <1>3, <1>4, <1>5, <1>6, <1>7, <1>8 DEF Next, TaskNext, Task

-------------------------------------------------------------------------------

\* The guard of every execution is free, or held by the one task whose steps run: no
\* error, pause or cancellation leaves it locked.
THEOREM GuardExact == Spec => []GuardIsExact
<1>1. GuardInv => GuardIsExact
  BY TaskAssumption DEF GuardInv, Exact, GuardIsExact, Task
<1>. QED BY <1>1, GuardInvariant, PTL

\* Two tasks of one execution are never inside of steps at the same time.
THEOREM StepsAreSequential == Spec => []OneStepAtATime
<1>1. GuardInv => OneStepAtATime
  BY DEF GuardInv, GuardOK, Exact, OneStepAtATime
<1>. QED BY <1>1, GuardInvariant, PTL
\* As long as no task has outlived its execution, no snapshot is written over: an execution
\* counts on from what is stored, and only one of them is under way.
THEOREM SnapshotsAreKept == Spec => NothingOverwritten
<1> DEFINE Kept == ~outlived =>
                     \A i \in DOMAIN snaps : i \in DOMAIN snaps' /\ snaps'[i] = snaps[i]
<1>1. Init => Turns /\ Above
  <2>1. ASSUME Init PROVE Turns
    BY <2>1 DEF Init, Turns, Execution, Doing
  <2>2. ASSUME Init PROVE Above
    BY <2>2 DEF Init, Above
  <2>. QED BY <2>1, <2>2
<1>2. Turns /\ Above /\ [Next]_vars => Turns' /\ Above' /\ Kept
  BY StepKeepsTurns, StepKeepsSnapshots
<1>. QED BY <1>1, <1>2, PTL DEF Spec, NothingOverwritten
===============================================================================
