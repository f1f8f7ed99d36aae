------------------------------- MODULE StepGuard -------------------------------
(***************************************************************************)
(* The guard that refuses a second concurrent step of one run              *)
(* (core/context.py, step_guard), and what it does not refuse: a workflow  *)
(* body fans out into tasks, one of them fails or pauses the run, the body *)
(* ends, and the run is executed again while a step is still under way.    *)
(*                                                                         *)
(* A task stands for an asyncio task or a thread that carries the run's    *)
(* context.  What a step does between two awaits is one atomic step: the   *)
(* guard and _begin, or _succeed and the leaving of the guard.  Memoised   *)
(* steps and claims are the subject of StepMemo, and the documents in the  *)
(* snapshots that of StateOfRecord: here a snapshot is who wrote it.       *)
(***************************************************************************)
EXTENDS Naturals, FiniteSets, FiniteSetsExt

CONSTANTS
  Child,        \* the tasks that a body fans out into
  Main,         \* the task of the body itself
  NoTask,       \* no task at all
  MaxDepth,     \* bound: steps that call steps
  MaxExecutions,\* bound: executions of the run
  MaxSnapshots  \* bound: snapshot indices in use

ASSUME TaskAssumption == Main \notin Child /\ NoTask \notin Child \cup {Main}
ASSUME LimitAssumption == {MaxDepth, MaxExecutions, MaxSnapshots} \subseteq Nat

VARIABLES
  status,    \* the run record's status
  snaps,     \* the snapshots table: by index, the execution and the occasion
  phase,     \* what has become of each execution
  owner,     \* ctx._step_owner of each execution's context
  depth,     \* ctx._step_depth
  nextIndex, \* ctx._snapshot_index
  paused,    \* ctx.pause is set
  pc,        \* what each task of each execution is doing
  inside,    \* how many steps each task is inside of
  outlived   \* history: a task has outlived its execution

context == <<owner, depth, nextIndex, paused>>
vars == <<status, snaps, phase, context, pc, inside, outlived>>

Task == Child \cup {Main}

Execution == 1..MaxExecutions

Index == 0..(MaxSnapshots - 1)

Init ==
  /\ status = "ABSENT"
  /\ snaps = [i \in {} |-> 0]
  /\ phase = [e \in Execution |-> "absent"]
  /\ owner = [e \in Execution |-> NoTask]
  /\ depth = [e \in Execution |-> 0]
  /\ nextIndex = [e \in Execution |-> 0]
  /\ paused = [e \in Execution |-> FALSE]
  /\ pc = [e \in Execution |-> [t \in Task |-> "absent"]]
  /\ inside = [e \in Execution |-> [t \in Task |-> 0]]
  /\ outlived = FALSE

Become(e, t, l) == pc' = [pc EXCEPT ![e][t] = l]

\* put_snapshot replaces whatever is stored at the index.
PutSnapshot(e, kind) ==
  /\ nextIndex[e] \in Index
  /\ snaps' = [i \in DOMAIN snaps \cup {nextIndex[e]} |->
                 IF i = nextIndex[e] THEN [by |-> e, kind |-> kind] ELSE snaps[i]]
  /\ nextIndex' = [nextIndex EXCEPT ![e] = @ + 1]

\* Mutant: the guard is left on success only.
LeaveKeeping(e, t, n) ==
  /\ inside' = [inside EXCEPT ![e][t] = @ - n]
  /\ UNCHANGED <<owner, depth>>

\* The `finally` of the guard, n times.
Leave(e, t, n) ==
  /\ inside' = [inside EXCEPT ![e][t] = @ - n]
  /\ depth' = [depth EXCEPT ![e] = @ - n]
  /\ owner' = [owner EXCEPT ![e] = IF depth[e] = n THEN NoTask ELSE @]

(***************************************************************************)
(* The run is executed: for the first time, again, or by a resume.         *)
(***************************************************************************)

\* Mutant: every context counts its snapshots from zero.
FirstIndexZero == 0

\* Indices continue above everything already stored.
FirstIndex == IF DOMAIN snaps = {} THEN 0 ELSE Max(DOMAIN snaps) + 1

Open(e) ==
  /\ phase[e] = "absent"
  /\ \A f \in Execution : f < e => phase[f] = "closed"
  /\ phase' = [phase EXCEPT ![e] = "body"]
  /\ status' = "RUNNING"
  /\ nextIndex' = [nextIndex EXCEPT ![e] = FirstIndex]
  /\ Become(e, Main, "ready")
  /\ UNCHANGED <<snaps, owner, depth, paused, inside, outlived>>

\* The body, or a step of it, starts its tasks and awaits them.
FanOut(e) ==
  /\ pc[e][Main] = "ready"
  /\ \A c \in Child : pc[e][c] = "absent"
  /\ pc' = [pc EXCEPT ![e] = [t \in Task |-> IF t = Main THEN "gathering" ELSE "ready"]]
  /\ UNCHANGED <<status, snaps, phase, context, inside, outlived>>

\* The tasks have ended, or the first of them that raised makes gather raise.
GatherEnds(e) ==
  /\ pc[e][Main] = "gathering"
  /\ \/ \A c \in Child : pc[e][c] \in {"ended", "raised"}
     \/ \E c \in Child : pc[e][c] = "raised"
  /\ Become(e, Main, "ready")
  /\ UNCHANGED <<status, snaps, phase, context, inside, outlived>>

\* A task is cancelled by its group, or by the loop that shuts down.
Cancel(e, c) ==
  /\ pc[e][c] = "ready"
  /\ phase[e] = "closed" \/ \E d \in Child : pc[e][d] = "raised"
  /\ Become(e, c, "ended")
  /\ Leave(e, c, inside[e][c])
  /\ UNCHANGED <<status, snaps, phase, nextIndex, paused, outlived>>

(***************************************************************************)
(* The step wrapper.                                                       *)
(***************************************************************************)

\* Mutant: the owner is compared only when the step is nested.
MayEnterNested(e, t) == inside[e][t] > 0 => owner[e] = t

MayEnter(e, t) == owner[e] \in {NoTask, t}

\* The guard lets the task in, and _begin finds the run not paused.
Enter(e, t) ==
  /\ pc[e][t] = "ready"
  /\ inside[e][t] < MaxDepth
  /\ MayEnter(e, t)
  /\ ~paused[e]
  /\ owner' = [owner EXCEPT ![e] = t]
  /\ depth' = [depth EXCEPT ![e] = @ + 1]
  /\ inside' = [inside EXCEPT ![e][t] = @ + 1]
  /\ UNCHANGED <<status, snaps, phase, nextIndex, paused, pc, outlived>>

\* The innermost step returns: _succeed takes its snapshot, and the guard is left.
Succeed(e, t) ==
  /\ pc[e][t] = "ready"
  /\ inside[e][t] > 0
  /\ PutSnapshot(e, "step")
  /\ Leave(e, t, 1)
  /\ UNCHANGED <<status, phase, paused, pc, outlived>>

\* An error passes through n steps of the task; none of them takes a snapshot.  Then it
\* is caught, or it is the end of the task.  A memoised step that returns leaves the
\* guard without a snapshot in the same way.
Raise(e, t, n) ==
  /\ pc[e][t] = "ready"
  /\ n \in 0..inside[e][t]
  /\ Leave(e, t, n)
  /\ \/ UNCHANGED pc
     \/ n = inside[e][t] /\ Become(e, t, "raised")

\* A body raises, or a step that is called raises before its own body runs: the guard
\* refuses another task's step, or _begin finds the run paused.
Fail(e, t) ==
  /\ \E n \in 0..MaxDepth : Raise(e, t, n)
  /\ UNCHANGED <<status, snaps, phase, nextIndex, paused, outlived>>

\* pause() at a gate that a human has decided since an earlier execution asked for it:
\* the execution forgets any pause of its own.
PassGate(e, t) ==
  /\ pc[e][t] = "ready"
  /\ \E i \in DOMAIN snaps : snaps[i].kind = "pause" /\ snaps[i].by < e
  /\ paused' = [paused EXCEPT ![e] = FALSE]
  /\ UNCHANGED <<status, snaps, phase, owner, depth, nextIndex, pc, inside,
                 outlived>>

\* pause() at any other gate, which no guard protects, or the auto-pause of a body that
\* has raised: the boundary is taken and stored, and WorkflowPaused is on its way.
Pause(e, t) ==
  /\ \E n \in 0..MaxDepth : Raise(e, t, n)
  /\ PutSnapshot(e, "pause")
  /\ paused' = [paused EXCEPT ![e] = TRUE]
  /\ status' = "PAUSED"
  /\ UNCHANGED <<phase, outlived>>

TaskReturns(e, c) ==
  /\ pc[e][c] = "ready"
  /\ inside[e][c] = 0
  /\ Become(e, c, "ended")
  /\ UNCHANGED <<status, snaps, phase, context, inside, outlived>>

(***************************************************************************)
(* _close_run.                                                             *)
(***************************************************************************)

Closing(e) ==
  /\ phase[e] = "body"
  /\ pc[e][Main] \in {"ready", "raised"}
  /\ inside[e][Main] = 0
  /\ phase' = [phase EXCEPT ![e] = "closed"]
  /\ Become(e, Main, "ended")
  /\ outlived' = (outlived \/ \E c \in Child : pc[e][c] = "ready")
  /\ UNCHANGED <<owner, depth, paused, inside>>

\* A body that asked to pause and returns, or lets WorkflowPaused through.
ClosePaused(e) ==
  /\ Closing(e)
  /\ paused[e]
  /\ status' = "PAUSED"
  /\ UNCHANGED <<snaps, nextIndex>>

\* A body that returns without having asked to pause, or raises anything else.
CloseFinal(e) ==
  /\ Closing(e)
  /\ pc[e][Main] = "ready" => ~paused[e]
  /\ PutSnapshot(e, "final")
  /\ status' = IF pc[e][Main] = "ready" THEN "COMPLETED" ELSE "FAILED"

-------------------------------------------------------------------------------

TaskNext(e, t) ==
  Enter(e, t) \/ Succeed(e, t) \/ Fail(e, t) \/ PassGate(e, t) \/ Pause(e, t)

Next ==
  \E e \in Execution :
    \/ Open(e) \/ FanOut(e) \/ GatherEnds(e)
    \/ \E t \in Task : TaskNext(e, t)
    \/ \E c \in Child : Cancel(e, c) \/ TaskReturns(e, c)
    \/ ClosePaused(e) \/ CloseFinal(e)

Spec == Init /\ [][Next]_vars

-------------------------------------------------------------------------------

\* limits.md:10, two steps of one execution never run at the same time, however its
\* tasks are started, fail, pause or are cancelled.
OneStepAtATime ==
  \A e \in Execution, t, u \in Task : inside[e][t] > 0 /\ inside[e][u] > 0 => t = u

\* The guard is exact: it is free when no step runs, so that no error, pause or
\* cancellation locks a run out of its own steps, and otherwise it is held by the task
\* whose steps are running, as often as that task is inside of one.
GuardIsExact ==
  \A e \in Execution :
    IF owner[e] = NoTask
      THEN depth[e] = 0 /\ \A t \in Task : inside[e][t] = 0
      ELSE depth[e] > 0 /\ depth[e] = inside[e][owner[e]]

\* context.py:111, "a resumed execution can never write over a snapshot an earlier
\* execution wrote", nor an earlier one over a later one's: unless a task has outlived
\* its execution, whose counter it goes on using.
NothingOverwritten ==
  [][~outlived =>
       \A i \in DOMAIN snaps : i \in DOMAIN snaps' /\ snaps'[i] = snaps[i]]_vars
===============================================================================
