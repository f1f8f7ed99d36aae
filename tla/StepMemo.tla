------------------------------- MODULE StepMemo -------------------------------
(***************************************************************************)
(* Durable step memoisation: what the @step wrapper of core/decorators.py  *)
(* does to the step records and the idempotency claims in storage, from    *)
(* the call of a step to its return, with retries, failures, pauses inside *)
(* the body, process deaths, and the two operator escape hatches.          *)
(*                                                                         *)
(* A worker is one process or thread that executes the workflow of ONE     *)
(* run.  The documented contract is a single writer per run (one worker);  *)
(* a configuration with two workers asks what the claims still guarantee   *)
(* when a recovery overlaps a run that was not dead.                       *)
(*                                                                         *)
(* A storage call (get_step, put_step, claim_idempotency_key, release...)  *)
(* is one atomic step, as the adapters make it (a lock, or one statement); *)
(* everything between two storage calls is local to the worker.            *)
(***************************************************************************)
EXTENDS Naturals, FiniteSets

CONSTANTS
  Worker,             \* executions of the run that may be alive at once
  Step,               \* durable step ids, "name#n"
  Arg,                \* argument hashes
  NoArg,              \* what an absent record has instead of a hash
  Idempotent,         \* steps declared idempotent=True (the default)
  Opaque,             \* steps whose result has no msgpack encoding
  OperatorReplayable, \* replayability of the results operators supply
  MaxAutoRetries,     \* guardrails.max_auto_retries
  MaxExecutions       \* bound: executions of the run (start, resume, rerun)

ASSUME IdempotentAssumption == Idempotent \subseteq Step
ASSUME OpaqueAssumption == Opaque \subseteq Step
ASSUME NoArgAssumption == NoArg \notin Arg
ASSUME OperatorAssumption == OperatorReplayable \subseteq BOOLEAN
ASSUME BoundsAssumption == MaxAutoRetries \in Nat /\ MaxExecutions \in Nat

VARIABLES
  record,      \* the steps table: one record per step id
  claimed,     \* the idempotency table: the keys that are claimed
  pc,          \* where each worker is
  call,        \* the step id and arguments of its latest call, or NoCall
  seen,        \* the copy of the record that call read (`existing`)
  attempt,     \* the retry counter of the wrapper's loop
  called,      \* step ids already allotted in this execution
  executions,  \* executions started so far
  effects,     \* history: how often the side effect of a key happened
  failed,      \* history: keys whose failure has been recorded
  observed     \* history: the results (by argument hash and ordinal) handed out for a key

vars == <<record, claimed, pc, call, seen, attempt, called, executions,
          effects, failed, observed>>

Key == Step \X Arg

NoCall == <<>>

\* A result as the workflow sees it: the arguments it is for, and its ordinal.
Result == (Arg \cup {NoArg}) \X Nat

Status == {"ABSENT", "RUNNING", "COMPLETED", "FAILED"}

\* `result` is the ordinal of the body run that produced it, 0 for an operator's.
StepRecord == [status : Status, args : Arg \cup {NoArg},
               replayable : BOOLEAN, result : Nat]

NoRecord == [status |-> "ABSENT", args |-> NoArg,
             replayable |-> TRUE, result |-> 0]

Location == {"off", "workflow", "refused", "suspended", "looked",
             "claimed", "body", "failing", "done"}

\* The worker is not inside a step call and its workflow can make another one.
Between == {"workflow", "refused"}

\* The worker is inside a step call.
InStep == {"looked", "claimed", "body", "failing", "done"}

\* Keys whose effect the library promises not to repeat.
Guarded == {k \in Key : k[1] \in Idempotent /\ k[1] \notin Opaque}

\* Mutant: a finished attempt is replayed whatever it was called with.
CompletedAnyArgs(r, a) == r.status = "COMPLETED"

Completed(r, a) == r.status = "COMPLETED" /\ r.args = a

Init ==
  /\ record = [s \in Step |-> NoRecord]
  /\ claimed = {}
  /\ pc = [w \in Worker |-> "off"]
  /\ call = [w \in Worker |-> NoCall]
  /\ seen = [w \in Worker |-> NoRecord]
  /\ attempt = [w \in Worker |-> 0]
  /\ called = [w \in Worker |-> {}]
  /\ executions = 0
  /\ effects = [k \in Key |-> 0]
  /\ failed = {}
  /\ observed = [k \in Key |-> {}]

Goto(w, l) == pc' = [pc EXCEPT ![w] = l]

(***************************************************************************)
(* The life of one execution.                                              *)
(***************************************************************************)

\* A workflow is entered (start, resume or rerun): a fresh RunContext, whose
\* step counters start over.
StartRun(w) ==
  /\ pc[w] = "off"
  /\ executions < MaxExecutions
  /\ executions' = executions + 1
  /\ Goto(w, "workflow")
  /\ UNCHANGED <<record, claimed, call, seen, attempt, called, effects, failed,
                 observed>>

\* The context of an execution is gone with it.
Forget(w) ==
  /\ Goto(w, "off")
  /\ call' = [call EXCEPT ![w] = NoCall]
  /\ seen' = [seen EXCEPT ![w] = NoRecord]
  /\ attempt' = [attempt EXCEPT ![w] = 0]
  /\ called' = [called EXCEPT ![w] = {}]
  /\ UNCHANGED <<record, claimed, executions, effects, failed, observed>>

\* The workflow returns or raises.
EndRun(w) == pc[w] \in Between \cup {"suspended"} /\ Forget(w)

\* The process dies inside a step; nothing of the worker survives it.
Crash(w) == pc[w] \in InStep /\ Forget(w)

(***************************************************************************)
(* _begin: allot the step id, look for a finished attempt, claim, record.  *)
(***************************************************************************)

\* The call reads the record.  A finished attempt with the same arguments and
\* a replayable result is returned at once.
BeginStep(w, s, a) ==
  /\ pc[w] \in Between
  /\ s \notin called[w]
  /\ call' = [call EXCEPT ![w] = <<s, a>>]
  /\ called' = [called EXCEPT ![w] = @ \cup {s}]
  /\ seen' = [seen EXCEPT ![w] = record[s]]
  /\ IF Completed(record[s], a) /\ record[s].replayable
       THEN /\ observed' = [observed EXCEPT ![<<s, a>>] = @ \cup {<<record[s].args, record[s].result>>}]
            /\ Goto(w, "workflow")
       ELSE /\ Goto(w, "looked")
            /\ UNCHANGED observed
  /\ UNCHANGED <<record, claimed, attempt, executions, effects, failed>>

\* A step that is not idempotent, or whose recorded result cannot be replayed,
\* goes on without a claim.
NeedsClaim(w) ==
  call[w][1] \in Idempotent /\ ~Completed(seen[w], call[w][2])

\* Mutant: a failure of the step under any arguments counts as our own.
FailedBeforeAnyArgs(w) == seen[w].status = "FAILED"

\* Mutant: an unfinished attempt counts like a failed one.
FailedOrRunningBefore(w) ==
  seen[w].status \in {"FAILED", "RUNNING"} /\ seen[w].args = call[w][2]

\* The refusal that _begin overrides: a recorded failure of the same call.
FailedBefore(w) == seen[w].status = "FAILED" /\ seen[w].args = call[w][2]

ClaimUnchanged == UNCHANGED <<record, call, seen, attempt, called, executions,
                              effects, failed, observed>>

SkipClaim(w) ==
  /\ pc[w] = "looked"
  /\ ~NeedsClaim(w)
  /\ Goto(w, "claimed")
  /\ UNCHANGED claimed
  /\ ClaimUnchanged

\* Mutant: the claim is a blind upsert instead of an insert-if-absent.
WinClaimUpsert(w) ==
  /\ pc[w] = "looked"
  /\ NeedsClaim(w)
  /\ claimed' = claimed \cup {call[w]}
  /\ Goto(w, "claimed")
  /\ ClaimUnchanged

WinClaim(w) ==
  /\ pc[w] = "looked"
  /\ NeedsClaim(w)
  /\ call[w] \notin claimed
  /\ claimed' = claimed \cup {call[w]}
  /\ Goto(w, "claimed")
  /\ ClaimUnchanged

OverrideClaim(w) ==
  /\ pc[w] = "looked"
  /\ NeedsClaim(w)
  /\ call[w] \in claimed
  /\ FailedBefore(w)
  /\ Goto(w, "claimed")
  /\ UNCHANGED claimed
  /\ ClaimUnchanged

\* ChowkiStorageError, whose text sends the operator to release_step or
\* complete_step of this step.
RefuseClaim(w) ==
  /\ pc[w] = "looked"
  /\ NeedsClaim(w)
  /\ call[w] \in claimed
  /\ ~FailedBefore(w)
  /\ Goto(w, "refused")
  /\ UNCHANGED claimed
  /\ ClaimUnchanged

\* ctx.loops.record raises InfiniteLoopDetected between the claim and the record.
LoopDetected(w) ==
  /\ pc[w] = "claimed"
  /\ Goto(w, "workflow")
  /\ UNCHANGED claimed
  /\ ClaimUnchanged

PutRunning(w) ==
  /\ pc[w] = "claimed"
  /\ record' = [record EXCEPT ![call[w][1]] =
                  [status |-> "RUNNING", args |-> call[w][2],
                   replayable |-> TRUE, result |-> 0]]
  /\ attempt' = [attempt EXCEPT ![w] = 0]
  /\ Goto(w, "body")
  /\ UNCHANGED <<claimed, call, seen, called, executions, effects, failed, observed>>

(***************************************************************************)
(* The wrapper's retry loop around the body.                               *)
(***************************************************************************)

BodyUnchanged == UNCHANGED <<record, claimed, call, seen, called, executions,
                             failed, observed>>

\* The body returns: its side effect has happened.
BodyReturns(w) ==
  /\ pc[w] = "body"
  /\ effects' = [effects EXCEPT ![call[w]] = @ + 1]
  /\ Goto(w, "done")
  /\ UNCHANGED attempt
  /\ BodyUnchanged

\* Mutant: the retry bound is off by one.
BodyRetriesOnceMore(w) ==
  /\ pc[w] = "body"
  /\ attempt[w] <= MaxAutoRetries
  /\ attempt' = [attempt EXCEPT ![w] = @ + 1]
  /\ UNCHANGED <<pc, effects>>
  /\ BodyUnchanged

\* It raises a transient error and the breaker answers RETRY.
BodyRetries(w) ==
  /\ pc[w] = "body"
  /\ attempt[w] < MaxAutoRetries
  /\ attempt' = [attempt EXCEPT ![w] = @ + 1]
  /\ UNCHANGED <<pc, effects>>
  /\ BodyUnchanged

\* It raises and the breaker answers anything else.
BodyFails(w) ==
  /\ pc[w] = "body"
  /\ Goto(w, "failing")
  /\ UNCHANGED <<attempt, effects>>
  /\ BodyUnchanged

\* Control flow leaves the body and the wrapper: the record stays RUNNING and the
\* claim held.  After WorkflowPaused a later step call of this execution only re-raises;
\* a rejection, a refused nested step or a cancellation is the workflow's to catch.
BodyEscapes(w) ==
  /\ pc[w] = "body"
  /\ \E l \in {"suspended", "workflow"} : Goto(w, l)
  /\ UNCHANGED <<attempt, effects>>
  /\ BodyUnchanged

PutFailed(w) ==
  /\ pc[w] = "failing"
  /\ record' = [record EXCEPT ![call[w][1]] =
                  [status |-> "FAILED", args |-> call[w][2],
                   replayable |-> TRUE, result |-> 0]]
  /\ failed' = failed \cup {call[w]}
  /\ Goto(w, "workflow")
  /\ UNCHANGED <<claimed, call, seen, attempt, called, executions, effects, observed>>

\* Mutant: the claim is given up once the step is completed.
PutCompletedReleasing(w) ==
  /\ pc[w] = "done"
  /\ record' = [record EXCEPT ![call[w][1]] =
                  [status |-> "COMPLETED", args |-> call[w][2],
                   replayable |-> call[w][1] \notin Opaque,
                   result |-> effects[call[w]]]]
  /\ claimed' = claimed \ {call[w]}
  /\ Goto(w, "workflow")
  /\ UNCHANGED <<call, seen, attempt, called, executions, effects, failed, observed>>

\* Mutant: the replayable flag of the record is never set.
PutCompletedUnreplayable(w) ==
  /\ pc[w] = "done"
  /\ record' = [record EXCEPT ![call[w][1]] =
                  [status |-> "COMPLETED", args |-> call[w][2],
                   replayable |-> FALSE, result |-> effects[call[w]]]]
  /\ Goto(w, "workflow")
  /\ UNCHANGED <<claimed, call, seen, attempt, called, executions, effects, failed,
                 observed>>

\* _succeed: the record is completed and the result handed to the workflow.
PutCompleted(w) ==
  /\ pc[w] = "done"
  /\ record' = [record EXCEPT ![call[w][1]] =
                  [status |-> "COMPLETED", args |-> call[w][2],
                   replayable |-> call[w][1] \notin Opaque,
                   result |-> effects[call[w]]]]
  /\ observed' = [observed EXCEPT ![call[w]] =
                    @ \cup {<<call[w][2], effects[call[w]]>>}]
  /\ Goto(w, "workflow")
  /\ UNCHANGED <<claimed, call, seen, attempt, called, executions, effects, failed>>

\* The result is a value the encoder rejects (a defect, not a missing encoding),
\* or the write fails: the exception leaves the wrapper before the record.
SucceedRaises(w) ==
  /\ pc[w] = "done"
  /\ Goto(w, "workflow")
  /\ UNCHANGED <<attempt, effects>>
  /\ BodyUnchanged

(***************************************************************************)
(* The operator.  Both hatches are for dead attempts, "only after          *)
(* confirming in the downstream system" what happened: the operator acts   *)
(* while no execution is alive and knows whether the effect happened.      *)
(***************************************************************************)

Quiet == \A w \in Worker : pc[w] = "off"

Recorded(s) == record[s].status # "ABSENT"

ReleaseStep(s) ==
  /\ Quiet
  /\ Recorded(s)
  /\ effects[<<s, record[s].args>>] = 0
  /\ claimed' = claimed \ {<<s, record[s].args>>}
  /\ UNCHANGED <<record, pc, call, seen, attempt, called, executions,
                 effects, failed, observed>>

CompleteStep(s, replayable) ==
  /\ Quiet
  /\ Recorded(s)
  /\ record[s].status # "COMPLETED"
  /\ effects[<<s, record[s].args>>] > 0
  /\ record' = [record EXCEPT ![s] =
                  [status |-> "COMPLETED", args |-> record[s].args,
                   replayable |-> replayable, result |-> 0]]
  /\ UNCHANGED <<claimed, pc, call, seen, attempt, called, executions,
                 effects, failed, observed>>

-------------------------------------------------------------------------------

StepProgress(w) ==
  \/ SkipClaim(w) \/ WinClaim(w) \/ OverrideClaim(w) \/ RefuseClaim(w)
  \/ LoopDetected(w) \/ PutRunning(w)
  \/ BodyReturns(w) \/ BodyRetries(w) \/ BodyFails(w) \/ BodyEscapes(w)
  \/ PutFailed(w) \/ PutCompleted(w) \/ SucceedRaises(w)

WorkerNext(w) ==
  \/ StartRun(w) \/ EndRun(w) \/ Crash(w)
  \/ \E s \in Step, a \in Arg : BeginStep(w, s, a)
  \/ StepProgress(w)

OperatorNext ==
  \E s \in Step :
    \/ ReleaseStep(s)
    \/ \E replayable \in OperatorReplayable : CompleteStep(s, replayable)

Next == (\E w \in Worker : WorkerNext(w)) \/ OperatorNext

Spec == Init /\ [][Next]_vars

-------------------------------------------------------------------------------

\* The types of what is shared: storage, and the history kept about it.
StorageOK ==
  /\ record \in [Step -> StepRecord]
  /\ claimed \subseteq Key
  /\ executions \in 0..MaxExecutions
  /\ effects \in [Key -> Nat]
  /\ failed \subseteq Key
  /\ observed \in [Key -> SUBSET Result]

\* The types of what each worker keeps.
WorkersOK ==
  /\ pc \in [Worker -> Location]
  /\ call \in [Worker -> Key \cup {NoCall}]
  /\ seen \in [Worker -> StepRecord]
  /\ attempt \in [Worker -> 0..MaxAutoRetries]
  /\ called \in [Worker -> SUBSET Step]

\* A worker inside a step has a call.
CallOK == \A w \in Worker : pc[w] \in InStep => call[w] \in Key

\* Every variable has its type.
TypeOK == StorageOK /\ WorkersOK /\ CallOK

\* Whatever crashes, resumes, argument changes and operator actions a run goes
\* through, the side effect of an idempotent step call whose result can be
\* replayed happens at most once.  (Single writer: _begin with its claim, its
\* record and the override of a FAILED one.)
ExactlyOnce == \A k \in Guarded : effects[k] <= 1

\* However many workers execute the run at once, only a key whose failure has
\* been recorded can have its effect repeated: a first attempt is exclusive.
\* (claim_idempotency_key inside _begin.)
FirstAttemptExclusive == \A k \in Guarded : effects[k] > 1 => k \in failed

\* An effect that happened is never again up for claiming: no path, release_step
\* and complete_step included, frees the key of an effect that took place.
EffectKeepsClaim ==
  \A k \in Key : k[1] \in Idempotent /\ effects[k] > 0 => k \in claimed

\* All executions of the run that are handed a result for the same idempotent
\* call are handed the same one, and it is a result of that very call: replay is
\* deterministic.
ReplayStable ==
  \A k \in Guarded : \A x, y \in observed[k] : x = y /\ x[1] = k[2]

\* The record of a completed guarded call is only ever replaced by one of a call
\* with other arguments: a crash, a resume or a retry never reopens it.
CompletedStays ==
  [][\A k \in Guarded :
       Completed(record[k[1]], k[2]) =>
         \/ Completed(record'[k[1]], k[2])
         \/ record'[k[1]].args # k[2]]_vars

\* StepMemo as an implementation of the ledger of the guarded calls.
Ledger == INSTANCE EffectLedger WITH
  Key <- Guarded,
  owned <- claimed \cap Guarded,
  count <- [k \in Guarded |-> effects[k]]

\* The claims, effects and operator actions of a single-writer run are exactly
\* those of the abstract ledger.
ImplementsLedger == Ledger!Spec

===============================================================================
