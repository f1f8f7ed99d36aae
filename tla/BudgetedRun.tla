------------------------------ MODULE BudgetedRun ------------------------------
(***************************************************************************)
(* The token budget of one run across its executions: what report_usage    *)
(* adds up and checks (guardrails/budget.py), when the run record gets the *)
(* sum (core/runner.py), and what the breaker makes of a breach            *)
(* (guardrails/breaker.py).                                                *)
(*                                                                         *)
(* ctx.usage and ctx.budget.total are one variable: both start from the    *)
(* record's usage and report_usage adds the same to both.  The cost in     *)
(* dollars is checked in the same way and left out.  A step's body calls a *)
(* model and reports what it was billed; a finished step is memoised.      *)
(*                                                                         *)
(* One body runs at a time (the single-writer contract), but another       *)
(* thread may still hold a record that it read or counted earlier, and put *)
(* it later: an execution that was resumed before it had closed, or a      *)
(* resume() that has yet to store its decision.                            *)
(***************************************************************************)
EXTENDS Naturals, FiniteSets

CONSTANTS
  Steps,        \* number of steps in the workflow body
  Amounts,      \* billable tokens that one model call may take
  Limits,       \* ceilings that an operator may configure: max_token_budget
  MaxExecutions,\* bound: executions of the run
  MaxReports,   \* bound: model calls
  MaxFailures   \* bound: process deaths, and closes whose put_run raises

ASSUME StepsAssumption == Steps \in Nat
ASSUME TokenAssumption == Amounts \subseteq Nat /\ Limits \subseteq Nat
ASSUME LimitAssumption == {MaxExecutions, MaxReports, MaxFailures} \subseteq Nat

VARIABLES
  status,     \* the run record's status
  stored,     \* the run record's usage
  held,       \* the record that another thread has yet to put, if any
  done,       \* the steps that are memoised
  pc,         \* what the process is doing
  at,         \* the step that the body comes to next
  used,       \* ctx.usage and ctx.budget.total
  limit,      \* the ceiling of the engine that executes the run
  action,     \* its hard_budget_action
  warned,     \* the soft warning of this execution has been given
  executions, failures, reports,
  billed,     \* history: what the provider has billed for the run
  lost,       \* history: how much of it the record has lost, or never got
  openedOver, \* history: this execution began above its ceiling
  defied      \* history: this execution caught a breach and went on

engine == <<limit, action>>
counts == <<executions, failures, reports>>
history == <<billed, lost, openedOver, defied>>
budgetVars == <<status, stored, held, done, pc, at, used, engine, warned, counts, history>>

Action == {"PAUSE", "ABORT"}

BudgetInit ==
  /\ status = "ABSENT"
  /\ stored = 0
  /\ held = {}
  /\ done = {}
  /\ pc = "off"
  /\ at = 1
  /\ used = 0
  /\ limit \in Limits
  /\ action \in Action
  /\ warned = FALSE
  /\ executions = 0
  /\ failures = 0
  /\ reports = 0
  /\ billed = 0
  /\ lost = 0
  /\ openedOver = FALSE
  /\ defied = FALSE

\* Mutant: an execution starts to count afresh.
SeedZero == 0

\* The usage that an execution starts from.
Seed == stored

\* The workflow is called, called again, or resumed by an approval, by a process whose
\* operator may have changed the configuration.
OpenRun ==
  /\ pc = "off"
  /\ executions < MaxExecutions
  /\ executions' = executions + 1
  /\ pc' = "body"
  /\ at' = 1
  /\ status' = "RUNNING"
  /\ used' = Seed
  /\ limit' \in Limits
  /\ action' \in Action
  /\ warned' = FALSE
  /\ openedOver' = (stored > limit')
  /\ defied' = FALSE
  /\ UNCHANGED <<stored, held, done, failures, reports, billed, lost>>

BodyUnchanged ==
  UNCHANGED <<status, stored, held, engine, executions, failures, lost, openedOver>>

\* A finished step is skipped, and so are its model calls.
SkipStep ==
  /\ pc = "body"
  /\ at \in done
  /\ at' = at + 1
  /\ UNCHANGED <<done, pc, used, warned, reports, billed, defied>>
  /\ BodyUnchanged

\* Mutant: the usage is checked before it is added.
BreachesBefore(total, amount) == total > limit

\* The hard check: the sum, with the usage just reported, is above the ceiling.
Breaches(total, amount) == total + amount > limit

\* The soft check: soft_budget_threshold, 0.8 of the ceiling.
ReachesThreshold(total) == 5 * total >= 4 * limit

\* The body of a step calls a model and reports; in a retry it does so again.
Report(amount) ==
  /\ pc = "body"
  /\ at \in 1..Steps \ done
  /\ reports < MaxReports
  /\ reports' = reports + 1
  /\ billed' = billed + amount
  /\ used' = used + amount
  /\ IF Breaches(used, amount)
       THEN pc' = "breach" /\ UNCHANGED warned
       ELSE warned' = (warned \/ ReachesThreshold(used')) /\ UNCHANGED pc
  /\ UNCHANGED <<done, at, defied>>
  /\ BodyUnchanged

StepReturns ==
  /\ pc = "body"
  /\ at \in 1..Steps \ done
  /\ done' = done \cup {at}
  /\ at' = at + 1
  /\ UNCHANGED <<pc, used, warned, reports, billed, defied>>
  /\ BodyUnchanged

\* The step fails for a reason of its own, and the workflow goes on without it.
StepFails ==
  /\ pc = "body"
  /\ at \in 1..Steps \ done
  /\ at' = at + 1
  /\ UNCHANGED <<done, pc, used, warned, reports, billed, defied>>
  /\ BodyUnchanged

\* BudgetExceeded is caught: in the body of the step, or by the workflow, for which the
\* step has failed.
Defy ==
  /\ pc = "breach"
  /\ pc' = "body"
  /\ at' \in {at, at + 1}
  /\ defied' = TRUE
  /\ UNCHANGED <<done, used, warned, reports, billed>>
  /\ BodyUnchanged

\* The execution is over: its context is gone.
LeaveRun ==
  /\ pc' = "off"
  /\ at' = 1
  /\ used' = 0
  /\ warned' = FALSE
  /\ openedOver' = FALSE
  /\ defied' = FALSE
  /\ UNCHANGED <<done, engine, executions, reports, billed>>

(***************************************************************************)
(* The record gets the usage: at a suspension, and when the run is closed. *)
(***************************************************************************)

\* Mutant: only a run that completes is charged.
ChargeCompleted(s) == stored' = IF s = "COMPLETED" THEN used ELSE stored

Charge(s) == stored' = used

Put(s) == status' = s /\ Charge(s) /\ UNCHANGED held

SuspendAt(l) ==
  /\ Put("PAUSED")
  /\ pc' = l
  /\ UNCHANGED <<done, at, used, engine, warned, counts, history>>

\* pause() suspends the run.
PauseAtGate == pc = "body" /\ SuspendAt("gate")

\* A step that fails, or a breach whose action is PAUSE, suspends the run outside of the body.
AutoPause ==
  /\ pc = "body" \/ (pc = "breach" /\ action = "PAUSE")
  /\ SuspendAt("paused")

\* The body catches WorkflowPaused and goes on.
SwallowPause ==
  /\ pc = "gate"
  /\ pc' = "body"
  /\ UNCHANGED <<done, at, used, warned, reports, billed, defied>>
  /\ BodyUnchanged

\* What _close_run makes of the execution: a breach that leaves the body fails the run where
\* nothing could be paused, and a body may raise what it caught or another error.
Outcome ==
  CASE pc \in {"gate", "paused"} -> {"PAUSED"}
    [] pc = "breach" -> {"FAILED"}
    [] pc = "body"   -> {"PAUSED", "FAILED", "REJECTED"}
                          \cup (IF at > Steps THEN {"COMPLETED"} ELSE {})

End ==
  /\ pc # "off"
  /\ \E s \in Outcome : Put(s)
  /\ LeaveRun
  /\ UNCHANGED <<failures, lost>>

\* The run is resumed before the execution that suspended it has closed: its close is late,
\* and puts what it has counted.
Overtaken ==
  /\ pc \in {"gate", "paused"}
  /\ held = {}
  /\ held' = {[status |-> "PAUSED", usage |-> used]}
  /\ LeaveRun
  /\ lost' = (lost + used) - stored
  /\ UNCHANGED <<status, stored, failures>>

\* resume() reads the run, to decide later.
ReadPaused ==
  /\ status = "PAUSED"
  /\ held = {}
  /\ \E s \in {"PAUSED", "REJECTED", "RUNNING"} : held' = {[status |-> s, usage |-> stored]}
  /\ UNCHANGED <<status, stored, done, pc, at, used, engine, warned, counts, history>>

\* The record is put, with the usage it has.  Between executions what was stored instead is
\* gone; an execution that is under way still has what it has counted.
PutHeld ==
  /\ \E record \in held :
       /\ status' = record.status
       /\ stored' = record.usage
       /\ lost' = IF pc = "off" THEN (lost + stored) - record.usage ELSE lost
  /\ held' = {}
  /\ UNCHANGED <<done, pc, at, used, engine, warned, counts, billed, openedOver, defied>>

\* The decision is refused, or its thread fails.
DropHeld ==
  /\ held # {}
  /\ held' = {}
  /\ UNCHANGED <<status, stored, done, pc, at, used, engine, warned, counts, history>>

\* put_run of the close raises: what the execution has counted since the last put is gone.
CloseRaises ==
  /\ pc # "off"
  /\ failures < MaxFailures
  /\ failures' = failures + 1
  /\ LeaveRun
  /\ lost' = (lost + used) - stored
  /\ UNCHANGED <<status, stored, held>>

\* The process dies, and every thread of it.
Die ==
  /\ pc # "off" \/ held # {}
  /\ failures < MaxFailures
  /\ failures' = failures + 1
  /\ lost' = IF pc = "off" THEN lost ELSE (lost + used) - stored
  /\ LeaveRun
  /\ held' = {}
  /\ UNCHANGED <<status, stored>>

-------------------------------------------------------------------------------

BudgetNext ==
  \/ OpenRun \/ SkipStep \/ StepReturns \/ StepFails \/ Defy
  \/ \E amount \in Amounts : Report(amount)
  \/ PauseAtGate \/ AutoPause \/ SwallowPause \/ End \/ Overtaken
  \/ ReadPaused \/ PutHeld \/ DropHeld \/ CloseRaises \/ Die

BudgetSpec == BudgetInit /\ [][BudgetNext]_budgetVars

-------------------------------------------------------------------------------

\* Every token that the provider has billed is in the run's usage, unless it was lost in one
\* of three ways: the process died with it, the put_run of the close raised, or a thread put a
\* record over it that it had read or counted before.  No order of retries, failures, pauses,
\* memoised steps and re-executions loses another, or counts one twice.
UsageIsBilled == billed = lost + (IF pc = "off" THEN stored ELSE used)

\* guardrails.md:20, "hard ceiling for billable tokens per run": once the run has been billed
\* more than its ceiling and what the record has lost, the model is not called again, except
\* by a body that catches the breach, and by an execution that somebody has let begin above it.
CeilingHolds ==
  [][\A amount \in Amounts :
       Report(amount) => billed <= limit + lost \/ openedOver \/ defied]_budgetVars

\* 07-cross-sdk-parity.md:253, "an unchanged ceiling re-pauses on the next report": an
\* execution that begins above its ceiling gets one model call, not more, unless it
\* catches the breach.
OneCallAboveCeiling ==
  [][\A amount \in Amounts :
       Report(amount) /\ openedOver /\ ~defied => pc' = "breach"]_budgetVars
===============================================================================
