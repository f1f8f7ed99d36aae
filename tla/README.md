# Specifications of chowki

chowki (`src/python/chowki`) makes a Python workflow durable. A `@workflow` function runs
in the caller's process; its `@step` calls are memoised in storage, so that a run which was
interrupted is executed again from its first line and skips what is done. `pause()` suspends
a run until a human decides it with a single-use token. Guardrails (retries, loop detection,
a token budget) watch the steps.

There is no server and no scheduler: the engine is a library, storage is SQLite or memory,
and "the system" is whatever threads, tasks and processes happen to execute one run. All
that holds a run together are a few records in storage and the order in which they are
written. That order is what these modules model.

All modules are about ONE run; runs share nothing but the storage file.

## The system

| part | state | operations | interacts with |
|---|---|---|---|
| step wrapper, `core/decorators.py` | step records, idempotency claims (storage) | `_begin` (read, claim, record), the retry loop, `_succeed`, `_fail`, `release_step`, `complete_step` | claims and records in storage; snapshot pipeline; guardrails; auto-pause |
| run lifecycle, `core/runner.py` | run record (storage), `RunContext` (memory) | `_open_run`, `_close_run`, `pause`, `_suspend`, `_maybe_auto_pause`, `reissue_token`, `recover_runs` | audit log, snapshots, tokens, gateway |
| human decisions, `core/resume.py` | audit log, run record, `pending_resume_state` (memory) | `resume`/`aresume` = verify, `_decide`, re-invoke; `rerun` | tokens, snapshots, run lifecycle |
| resume tokens, `hitl/tokens.py` | consumed nonces (storage) | `issue`, `verify` | resume |
| snapshot pipeline, `state/pipeline.py`, `state/delta.py` | snapshots (storage), one document and one chain per run (memory) | `snapshot`, `load`, `apply_patch` | every step, pause, decision and close |
| run context, `core/context.py` | guard owner and depth, snapshot counter, step counters | `step_guard`, `next_snapshot_index`, `next_step_id` | every step |
| loop detector, `guardrails/loops.py` | window of recent calls, transitions | `record`, `record_text`, `record_transition`, `_find_cycle` | step wrapper |
| token budget, `guardrails/budget.py` | usage (memory, charged to the run record) | `report_usage` | run lifecycle, breaker |
| breaker, `guardrails/breaker.py` | none | `decide`: retry, fail or pause | step wrapper |
| storage, `storage/*.py` | the tables | one SQL statement or one locked section each | everything |
| redaction, `state/redact.py`, `hitl/audit.py` | none | `redact`, `redact_text`, `redact_patch` | snapshot pipeline, decisions, audit log |
| blob store, `state/blobs.py` | blobs (storage), a cache (memory) | `put`, `get`, `extract_string`, `inline_blobs` | redaction walk, snapshot pipeline |
| approvals: `hitl/gateway.py`, `cli.py`, the endpoints in `src/examples/python` | the gateway handle of the run | `notify`, `confirm`; the requests, buttons and commands that call `resume`, `reissue_token`, `recover_runs` | resume, run lifecycle |
| codec, hashing, encryption | none | pure | snapshot pipeline |
| registry, inspection, telemetry | none that a run depends on | I/O | |

What makes it hard:

* **Re-execution.** Every interruption is answered by running the body again. Each record
  has to be written before, or after, the thing it stands for, and a death may fall between
  any two of them.
* **Stale copies.** `_close_run` and `_decide` write records that they read long before;
  the pipeline diffs against a document that it keeps in memory.
* **Several actors.** A gateway may call `resume` from another thread while the paused
  execution is still closing; two reviewers may hold tokens of the same pause; a recovery may
  overlap a run that was not dead; a body may fan out into tasks that all call steps.
* **Single use.** Claims, nonces and snapshot indices must each be used once.
* **Data that is replayed.** A human's patch is applied when it is decided, and again by each
  later execution.

## The modules

Each module has the part's state as variables and one action per operation, or one action
per storage call where others can come in between. A mutant (a definition whose comment
begins with "Mutant") is a plausible mistake in the definition that follows it; it is used
by no specification and serves to show that a property can fail.

**EffectLedger** is the abstract promise: the effect of a call needs its claim, happens at
most once, and the claim of an effect that happened is never freed.

**StepMemo** is the step wrapper. A worker is an execution of the run; `pc` is between which
two storage calls its latest step call is. `BeginStep` is the read of `_begin`,
`WinClaim`/`OverrideClaim`/`SkipClaim`/`RefuseClaim` are its answers to the claim,
`PutRunning` its record, `Body...` the retry loop, `PutCompleted` and `PutFailed` the two
ends. `LoopDetected` is the guardrail that may raise between claim and record, and
`BodyEscapes` an error that the wrapper does not see through to a record (a pause, a
cancellation). Claims are a set: `claim_idempotency_key` is an insert if absent. Results are
a pair of arguments and an ordinal, so that two runs of a body give results that can be told
apart. With one worker, StepMemo implements EffectLedger on the guarded calls
(`Ledger == INSTANCE EffectLedger WITH ...`).

**RunGate** is the run record, audit log and tokens. A handler is a thread that calls the
workflow or serves a reviewer; `pc` names the function it is in. The body is a row of gates,
and it may fail, breach a guardrail, or catch `WorkflowPaused`: `caught` has the ones it has
caught, which it may raise again at any later point (`RaiseCaught`, a `finally` block that
passes another gate first); `Stray` is the close of an execution by a `WorkflowPaused` that
`ctx.pause` does not have (or not any more). `copy` is the record that
`_open_run` or `_decide` read, and what is later written is made from it, over whatever has
been stored since; the close of a paused execution stores what `ctx.pause` is by then
(`FinalRecord`), and in `CloseUnsaved` the snapshot of a stray close raises. The pause request
of a record that is not PAUSED is left out (`Unpaused`): nothing but the inspection reads it.
Resuming is read, verify (which consumes the nonce), audit, record, persist, open: six
steps that other threads and deaths interleave with. Any of the storage calls may raise
(`CallRaises`, `LoadRaises`, `SnapshotRaises`, `SuspendRaises`): it ends the call, or it is an
error that the body lets out or catches.

**StateOfRecord** is the chain of snapshots and the state. The body is a sequence of
memoised steps that write a field, plain assignments, and gates. `Snapshot` is the pipeline's
choice of a base or a delta; `Loaded` folds the stored chain as `load` does; `Decide` patches
the state and `Seed` is what the next execution starts from. Writes may raise, and the
process may die, at every snapshot. A field's value is a number, and RFC 6902 operations are
add, remove, replace and append.

**StepGuard** is `step_guard` and the snapshot counter, when a body fans out into tasks
that start, nest, fail, pause, are cancelled and may outlive their execution.

**LoopDetector** is the detector of one execution: the step limit and the window of calls
(`Record`), the similarity of consecutive texts with the rows of its edit distance
(`RecordText`), and the repeated hand-offs (`RecordTransition`). A body may catch what the
detector raises and go on with the same detector, so a refused call stays in the window and
a cycle that was found stays in the graph. It EXTENDS **CycleSearch**, which is
`_find_cycle`, one loop iteration per step, on any graph; the order in which a dict yields its
keys is a choice. Only `reset()` concerns more than one of the three tiers, so a behaviour
exercises one of them (`tier`).

**RedactText** has what redaction, blob extraction and a human's patch make of a value. A
text is a sequence of lexemes (prose, a word like password, a credential of a known format, a
random token, a large text, a placeholder, the two prefixes of stored strings), so that the
definitions have the order of the scans, the word boundaries, the limits and the escapes, and
not the characters. **Redaction** is the life of a document: `Snapshot` redacts it and takes
out its large leaves, `PutBlob` and `Dispatch` are the writes, any of which may raise or be
cut off by a death; `Decide` applies a redacted patch to what storage has and audits it,
`Reenter`, `Gate` and `Reopen` are the executions that follow.

**Approvals** is what surrounds a run that waits: requests (`slot`) that carry a token and a
decision, in the order that `aresume` takes them through (read, verify, audit, confirm, save,
open); notifications, answers and confirmations that are lost; tokens that expire; deaths
with requests under way; and the operators' `reissue-token`, of any paused run, `recover` and
`rerun`. A request that executes the workflow is in its body (`Suspend`, `Complete`, `Fail`)
and then in its `Close`: the token is handed out before the execution has closed, and `late`
says that a close has come after what a quicker reviewer has made of the run. What else can
come in between is RunGate's subject.

**BudgetedRun** is the token budget across executions: what `report_usage` adds up, when
the run record is charged (`PauseAtGate`, `AutoPause`, `End`), what a breach ends. One body
runs at a time, as the single-writer contract has it, but `held` is a record that another
thread read or counted earlier and puts later: an execution that was resumed before it had
closed (`Overtaken`), or a `resume()` with its decision still to store (`ReadPaused`).
`CloseRaises` and `Die` are the other two ways to lose usage, and `lost` adds up all three.

**FastPatch** is `apply_patch` on operations of one or two path segments. A document is a
function of its keys, a value is a scalar, a dict or a list, and `work` says which OBJECT a
key of the working document holds: the caller's, a copy that the fast path made, or a value
that is still part of the patch. That is what decides whether an edit reaches something that
the caller can see. One action is one operation; `rfc` is what RFC 6902 makes of the same
operations, as jsonpatch has it.

**MCStepMemo, MCRunGate, MCStateOfRecord, MCStepGuard, MCFastPatch, MCLoopDetector,
MCRedaction, MCApprovals** have the symmetry sets, workflow bodies, texts, patches, documents
and permitted actions of the configurations. BudgetedRun_usage and RunGate_early_token need
no definitions beyond the constants; their configurations name the modules directly.

**StepMemoProofs, RunGateProofs, StateOfRecordProofs, StepGuardProofs, LoopDetectorProofs,
BudgetAndApprovalProofs, FastPatchProofs, RedactionProofs** have the theorems.
BudgetAndApprovalProofs EXTENDS BudgetedRun and Approvals, which share nothing.

## What is checked

All runs are exhaustive at their bounds. Deadlock is checked in Redaction_snapshots, where a
process can always die; in the others a run may end, and every bound stops its model, so a
state without successors is no fault there.

| run | bounds | states | shows |
|---|---|---|---|
| StepMemo_single | 1 worker, 2 steps (one with a result that has no encoding), 2 arguments, 1 retry, 3 executions | 1.4 million | `ExactlyOnce`, `EffectKeepsClaim`, `ReplayStable`, `CompletedStays`, `ImplementsLedger` |
| StepMemo_overlap | 2 workers, 2 steps (one not idempotent), 3 executions | 0.4 million (symmetric) | `FirstAttemptExclusive` |
| RunGate_threads | 2 threads, 2 gates, 2 tokens, 1 start, 2 faults (deaths or storage calls that raise) with a start after each | 2.1 million (symmetric) | `PassedWasAccepted`, `OneDecisionPerToken`, `RestingRunIsSettled`, `PausedCanBeReissued`, `ApprovedGateNeverAsks` |
| StateOfRecord_chain | 4 bodies over 3 fields, 4 patches, chains of 2 deltas, 7 snapshots, 2 starts, 2 decisions, 1 fault (a death or a write that raises) | 0.6 million | `LoadIsCommitted`, `MemoryMatchesStore`, `ReplayIsBounded`, `NothingOverwritten`, `EditReproduced`, `SkippedStepIsInState` |
| StepGuard_tasks | the body and 2 tasks, 2 nested steps, 2 executions, 4 snapshots | 0.5 million (symmetric) | `OneStepAtATime`, `GuardIsExact`, `NothingOverwritten` |
| LoopDetector_calls | 2 calls, a window of 4, 3 repeats, 6 steps; 11 texts over 2 letters, of which 3 letters are compared, 3 in a row, thresholds 1/3 and 2/3, 4 texts; graphs of 3 nodes and 5 hand-offs | 94 thousand | `WindowIsExact`, `SimilarTextsStop`, `CycleIsReal`, `ReturnedIsAcyclic`, and the liveness `RecordReturns` |
| Redaction_snapshots | 17 entries that a body writes, 2 writes, 12 patches, one decision, texts of up to 3 lexemes, blobs above a weight of 4 | 0.38 million | `StoredIsClean`, `RefsResolve`, `LoadRoundTrip`, `DecisionIsOneDocument` |
| Approvals_http | 2 requests at a time, 2 gates (one that may be escalated, one that may be rejected), 1 trouble: a fault (a lost notification or confirmation, a request that raises anywhere, an expiry, a body that raises, or a death) or an extra (an escalation, or a token that is reissued while somebody can answer) | 0.46 million | `ClickCountsOnce`, `WaitingRunIsAnswerable`, and the liveness `ReviewerGetsThrough` |
| FastPatch_values | 2 keys (one holds a dict, the other one nothing, a scalar, a dict or a list of two), segments `-`, `0`, `1`, `2` and a name, patches of 3 operations | 0.5 million | `FastIsRfc`, `BaseUntouched`, `PatchUntouched` |
| BudgetedRun_usage | 2 steps, model calls of 1 or 3 tokens, ceilings of 4 or 6, 4 calls, 3 executions, 1 failure (a death, or a close that raises) | 3.7 million | `UsageIsBilled`, `OneCallAboveCeiling`, `CeilingHolds` |

Why the bounds are enough to be of use:

* StepMemo: a first execution that dies or fails, a second that repeats it, and a third that
  meets what the second has left; two arguments let a record change away and back.
* RunGate: two threads and two tokens are two reviewers of one pause, one reviewer of each
  of two gates, or an escalation raced by the old token; faults may fall at any two
  writes of a decision and of the execution that repeats it.
* StateOfRecord: with chains of two deltas, a body of four instructions that is executed
  twice compacts its chain, and two decisions are two gates edited, or one gate decided
  twice. The real limit of 50 is `MaxDeltas`, a parameter.
* StepGuard: a body that waits, one task that holds the guard, another one that is refused;
  the second execution begins while the first has a task left.
* LoopDetector: a window of 4 with 3 repeats has calls that have just left it and refusals
  that count; texts of up to 4 letters are shorter than, as long as and longer than what is
  compared, at, above and below both thresholds; three nodes have a cycle with a tail, two
  cycles that share a node, a self-loop, and a cycle that is there before a hand-off closes
  another one.
* Redaction: two writes give a document with a sensitive key and another entry, or one
  entry written over another; the entries and patches are chosen by the branches of the code
  (above and below each limit, with and without a boundary, every lookalike, in a string, a
  list, a map, bytes and a key). Everything after the decision is unbounded in length.
* Approvals: two requests at once are two deliveries of a click, two reviewers, a reviewer
  and an operator, or a reviewer and the execution that has yet to close; the second gate is
  where tokens of the first one are stale. Late closes count as no trouble, and are not
  bounded.
* FastPatch: three operations are enough to replace a container that has been copied and to
  edit what replaced it; with indices up to 2, a list of two elements has an index inside,
  one past the end and one further, before and after it has grown or shrunk.
* BudgetedRun: ceilings are reached exactly, passed by one and passed by more, and lowered
  and raised between executions; three executions are one that is overtaken, the one that
  overtakes it, and one that begins with what the late put has left.

**Fairness.** LoopDetector's `DetectorSpec` says that a search, which is
synchronous code, goes on until it returns.

Approvals' `FairSpec` has three assumptions. A request that is being served goes on (weak
fairness of `Serve`; the endpoints await nothing but the run). A reviewer who holds a usable
token clicks on it again and again (strong fairness of `Approve`, because the click is
disabled while both slots are taken). Operators do what the documentation asks of them:
`reissue-token` when nobody holds a token that works, `recover` when a process has died or a
request has left the run RUNNING (weak fairness, as both stay possible until they are done),
and `rerun` of what was recovered (strong fairness, as a place must be free and no decision
under way). That operators wait until nothing is being carried out (`Quiet`) is an assumption
too, of `recover` and `rerun`; `reissue-token` may come at any time, and is bounded only
where somebody could still answer. Nothing is assumed of what gets lost, except that the
bound lets it happen once, and nothing of when an execution closes: `ReviewerGetsThrough` is
that the run ends and STAYS ended, after the last late close.

### Where the code and its documentation part

Two runs check a sentence of the documentation or of a comment and end in a
counterexample, which is the point of them.

* **RunGate_early_token**, `CompletedIsTerminal`. The gateway hands out the token before the
  suspended execution is closed. If the resumed one completes first, the close of the
  suspended one sets the record back to PAUSED.
* **StateOfRecord_lost_delta**, `ReturnedStepLoads`. The pipeline advances its memory before
  it writes. After a write that raises, and whose error the body catches, the next step
  returns normally with a delta that cannot be loaded. docs/user-guide/limits.md:70 promises
  that a step that has returned is committed.

The remaining properties are stated with the condition under which they hold. What the
conditions leave out are departures of the same kind, which no run has of its own:

* A claim whose owner dies, or meets the loop detector, before it has put its record cannot be
  released: `release_step` finds its key by the record (decorators.py:513). The refusal's
  message (decorators.py:261) and docs/research/03-durable-execution.md:106 name `release_step`
  as the way out. StepMemo has these claims, and its properties hold in their presence.
* A gate's recorded patch is applied by every later execution, also to a state that has it
  already (runner.py:354, against the comment at runner.py:347): a `remove` then fails the
  run, an append is doubled. `EditReproduced` is what does hold: fields that every execution
  assigns anew before the gate are reproduced.
* A token that was issued for an earlier gate and never used (the body swallowed that pause,
  or the token was reissued) decides a later pause of the run: `_decide` does not compare the
  token's step id with the pause (resume.py:176). hitl.md:143 says tokens are bound to the
  gate. `PassedWasAccepted` is what does hold: the later gate is not passed by it.
* `PatchUntouched` says "unless exposed": in a patch that edits a container, replaces it and
  edits the replacement, the last edit is made to the patch's own value (delta.py:112), while
  the docstring says that containers are copied before their first mutation. Applied again,
  or handed to jsonpatch after a fallback, the patch has that edit twice; and it is this
  form of an EDIT that the audit log records, and that a later execution applies.
* `FastIsRfc` says "unless upserted": a `replace` of a key or a member that is not there is a
  conflict in RFC 6902 and an addition on the fast path (delta.py:102).
* `FirstAttemptExclusive` says "unless a failure is on record": two overlapping executions
  that both read a FAILED record both override its claim and run the body at once
  (decorators.py:245-252).
* The StepMemo configurations have `OperatorReplayable = {TRUE}`: a result that
  `complete_step` is given and that has no encoding is stored as not replayable, and the next
  execution runs the body of an effect that did happen (decorators.py:544).
* `PausedCanBeReissued` says "unless strayed": a `WorkflowPaused` that `ctx.pause` does not
  have closes its run as PAUSED without a pause request (runner.py:192-196), and
  `reissue_token` refuses such a run (runner.py:521), though its docstring calls it the escape
  hatch of a paused run (runner.py:511). It takes a gate in a `finally` or `except` block that is
  already decided, and clears `ctx.pause` (runner.py:351) with the exception in flight, or the
  `WorkflowPaused` of another workflow that is called from the body. The next execution puts
  it right.
* `RestingRunIsSettled` says "unless abandoned": a run whose arguments could not be encoded
  is left RUNNING, with its decision taken and nobody executing it, when `_stored_call`
  raises (resume.py:359), and so is one whose last write raises (runner.py:190).
* A body that catches the error of a pause's snapshot goes past the gate without a decision,
  and completes: `ctx.pause`, which keeps a body that swallows `WorkflowPaused` from
  completing, is set after the snapshot (runner.py:419). `PassedWasAccepted` is about gates
  that `pause` lets through.
* `LoadIsCommitted`, `MemoryMatchesStore` and `ReplayIsBounded` say "unless a write has
  raised"; see StateOfRecord_lost_delta.
* `SkippedStepIsInState` says "without a death": the COMPLETED record of a step is durable
  before the snapshot of what the step wrote (decorators.py:320-330), so a death in between
  skips the step without its write.
* `EditReproduced` says "decided once": a death between the audit entry and the run record
  lets a reissued token decide the gate again, and both patches are applied
  (resume.py:289-294).
* `NothingOverwritten` of StepGuard says "unless outlived": a task that outlives its
  execution goes on with the counter of its context, and writes where the next execution
  writes (context.py:118).
* `UsageIsBilled` and `CeilingHolds` have `lost`, the usage that is billed and gone. Usage is
  charged to the record when an execution suspends or closes (runner.py:189), so a death
  loses what was counted since; so does a close whose `put_run` raises (runner.py:190, 196,
  205), with nobody dead; and the close of an execution that was resumed before it had
  closed, or a decision made from a record read before, puts an older usage over a newer one
  (runner.py:195). The next execution starts from less than was billed, and may call the
  model above the ceiling by as much, which docs/user-guide/guardrails.md:20 calls a hard
  ceiling.
* A body that swallows `WorkflowPaused` and then falls through a decided gate completes, as
  the gate clears `ctx.pause` (runner.py:351); the comment at runner.py:183 says otherwise.
* The fresh token of an escalation is raised to the caller of `resume`; the gateway is told
  of the decision and not notified again (resume.py:262), as hitl.md:136 says it is.
* Redaction is not idempotent, though docs/features.md:82 and the comments at audit.py:44 and
  resume.py:273 have it so, for two shapes of text: a credential that needs a word boundary
  and gets it only from the placeholder beside it, and the name of a kind in a placeholder
  that is part of a longer key (`private_key` makes that key sensitive). `AtRest` and
  `RestsOp` name them, for a document and for an operation of a patch, and
  `DecisionIsOneDocument` is false without either: a value of the first shape under a key of
  the second has one placeholder in the decided document and another in the replayed one; the
  removal of a key of the first shape is audited with the path of a key that does not exist;
  and a value of the first shape that one operation adds and another one copies to a
  sensitive key has two placeholders, though no such value is left in the decided document,
  which is why `RestsOp` is about the patch and not about what it leaves. A third shape is a configuration with a low
  `entropy_threshold`, which redacts the mask of the scan itself; the model has the default.
* `StoredIsClean` asks for a placeholder under a key that is sensitive as it was written. A key
  that is only sensitive after its redaction (the second shape) has one from the next
  pass on.
* `IsClean` says what is left in the clear: a key with a boundary on neither side, a random
  token in a text above `entropy_max_scan_bytes`, and a random token in a run with a slash,
  which is taken for a path. The last one leaves such a token of a patch's path in the audit
  log (audit.py:49).
* `SimilarTextsStop` says "Consecutive > 1": with `semantic_loop_consecutive` at 1 the tier
  never fires (loops.py:93).
* docs/user-guide/guardrails.md:13 counts steps "per run"; the detector is new in every
  execution (`Reset`).
* `WaitingRunIsAnswerable` says "every token has reached somebody": the new token of an
  escalation is in the answer of `resume`, which the background endpoint and the chat
  (slack_approvals.py:214) have no use for, so it reaches nobody until it is reissued. It says
  "and not late": in the trace of RunGate_early_token the close leaves a run that waits at a
  gate whose only token is spent, though nothing has failed, until the token is reissued.
* `OneStepAtATime` between threads rests on the interpreter: `step_guard` has no lock
  (context.py:132-141), and its check and its assignment are one action of StepGuard. For the
  tasks of one event loop, which change places at an `await` only, that is exact.
* The chat answers "Decision recorded" before anything is (slack_approvals.py:215); a death
  in between loses the click, and the run waits on. The same holds of the background
  endpoint, and a background resume that fails is recorded nowhere.
* `_confirm_gateway` posts the confirmation before the record is put (resume.py:147), and for
  every decision, though slack_approvals.py:91 has it "after a successful resume"; the handle
  is per run, so a late confirmation is posted under the message of a later gate.
* A run that is not paused answers 404 after its nonce has been consumed (resume.py:189), and
  a second click on a token burnt by a failed decision answers "already processed" (409).
* A step that is under way when another task pauses the run takes its snapshot above the
  pause boundary (decorators.py:326).

## What is proved

The proofs hold for every value of the constants: any number of workers, tasks, executions,
nodes, tokens, texts and snapshots. What they assume of the constants is named in the ASSUMEs
of the modules, and TLC evaluates those in the runs: bounds are naturals, the bodies are
sequences of instructions (`BodyAssumption`), patches have one of the four operations
(`PatchAssumption`), the value of an absent field is no number (`FieldAssumption`), the
graph of agents is finite (`NodeAssumption`), texts are sequences of letters
(`TextAssumption`) and the threshold is a fraction (`ThresholdAssumption`). In Redaction, what
a body writes or a patch adds under a key is a leaf, or a map or list of leaves
(`EntryAssumption` and `PatchAssumption` of that module), and limits are naturals
(`LimitAssumption`). Where a theorem needs more, it says so in its ASSUME. Every inductive
invariant was checked by TLC before it was proved.

| property | theorem | along |
|---|---|---|
| StepMemo `TypeOK`, `EffectKeepsClaim`, `FirstAttemptExclusive` | `TypeCorrect`, `EffectsKeepTheirClaim`, `FirstAttemptsExclusive` | `OwnerInv`, `ExclusiveInv` |
| StepMemo `ExactlyOnce`, `ReplayStable`, `CompletedStays`, `ImplementsLedger` | `EffectsHappenOnce`, `ReplaysAgree`, `CompletedCallsStay`, `LedgerImplemented` | `SingleInv`, `ObservedInv` |
| RunGate, its five safety properties | `TokensDecideOnce`, `RestingRunsAreSettled`, `PausesCanBeReissued`, `PassedGatesWereAccepted`, `ApprovedGatesNeverAsk` | `GateInv` |
| StateOfRecord `NothingOverwritten`, `LoadIsCommitted`, `MemoryMatchesStore`, `ReplayIsBounded` | `SnapshotsAreKept`, `StoreLoadsCommitted`, `MemoryIsWhatLoads`, `ReplayStaysBounded` | `Inv` |
| StateOfRecord `SkippedStepIsInState`, `EditReproduced` | `SkippedStepsAreInState`, `EditsAreReproduced` | `KeptInv`, `ReplayInv` |
| StepGuard `GuardIsExact`, `OneStepAtATime`, `NothingOverwritten` | `GuardExact`, `StepsAreSequential`, `SnapshotsAreKept` | `GuardInv`, `Turns`, `Above` |
| LoopDetector `CycleIsReal`, `ReturnedIsAcyclic`, `WindowIsExact`, `SimilarTextsStop` | `DetectorNamesRealCycles`, `ReturnLeavesNoCycle`, `WindowDecides`, `TextsAreComparedExactly` | `DetectorInv` |
| BudgetedRun `UsageIsBilled`, `CeilingHolds`, `OneCallAboveCeiling` | `UsageCharged`, `CeilingIsHard`, `AboveCeilingOnce` | `BudgetInv` |
| Approvals `ClickCountsOnce`, `WaitingRunIsAnswerable` | `ClicksCountOnce`, `WaitingRunsAreAnswerable` | `ClickInv`, `WaitsInv` |
| FastPatch `BaseUntouched`, `PatchUntouched`, `FastIsRfc` | `CallersDocumentUntouched`, `CallersPatchUntouched`, `FastPathIsRfc6902` | `IsolationInv`, `AgreeInv` |
| Redaction `RefsResolve` | `ReferencesResolve` | `RefsInv` |
| Redaction `LoadRoundTrip`, `StoredIsClean` | `LoadGivesTheLiveDocument`, `NothingStoredLeaks` | `DataInv` |
| Redaction `DecisionIsOneDocument` | `DecisionsAreOneDocument` | `DecisionInv` |

**StepMemo** (StepMemoProofs). `TypeCorrect` is `TypeOK`. The rest goes along four
invariants, each of which needs the ones before it:

1. `OwnerInv`, for any number of workers: whoever is past the claim of an idempotent call
   owns it, and a COMPLETED record is evidence that the effect happened. It is what lets
   `SkipClaim` and `release_step` be safe, and gives `EffectsKeepTheirClaim`.
2. `ExclusiveInv`, for any number of workers, about calls that never failed: one holder at a
   time, whose effect has not happened before its body returns. It gives
   `FirstAttemptsExclusive`. Assumption: operators supply results that can be replayed.
3. `SingleInv`, for a single worker: the copy that a call read is still what is stored, the
   record of a call that is under way is RUNNING, and a FAILED record means that the effect
   has not happened. With it the override of a failed claim is safe as well:
   `EffectsHappenOnce` (no guarded effect happens twice), `CompletedCallsStay`, and
   `LedgerImplemented`: every step of StepMemo is a step of EffectLedger or a stutter.
   Assumptions: a single writer, as docs/user-guide/limits.md requires, and the above.
4. `ObservedInv`, under the same assumptions: as long as a step's record has the arguments of
   a call whose result somebody was handed, it is COMPLETED and has that result.
   `ReplaysAgree` follows: later executions are handed what the first one was.

**StepGuard** (StepGuardProofs). `GuardIsExact` speaks of the owner only; `GuardInv` adds
that nobody else is inside of a step, and both `GuardExact` and `StepsAreSequential` follow.
Every way out of a step is one `Leave` of n levels, so one lemma has them all.
`SnapshotsAreKept` needs the order of the executions: `Turns` says that all but the last one
are closed and that nothing of a closed one runs unless it has outlived it, `Above` that the
counter of the one under way is above everything that is stored.

**RunGate** (RunGateProofs), for any number of threads, gates, tokens, deaths and storage calls
that raise. All five
safety properties follow from one invariant, `GateInv`. The properties themselves say
nothing of what a thread holds between two storage calls, and that is what its parts add:
`Issued` (a hand's token has been issued, and so have those that a body has caught), `Control`
(whoever is about to raise `WorkflowPaused` has its pause request; an execution that ends as
paused need not, so the close itself says whether it has strayed),
`Decided` (a token past `verify` is consumed, and in no other such hand and in
no entry), `Followed` (what an execution takes for approved is on record, and what was on
record when it began stays with it until it is past that gate) and `Settled` (whoever made the
record RUNNING is still under way, and a decision is
made of a copy that is paused).

**StateOfRecord** (StateOfRecordProofs), for any bodies, patches, limits and numbers of
snapshots, and every choice of a compaction. Everything about the chain follows from `Inv`:

* `IndexFree`: inside of a call the next index is above everything that is stored, and no
  snapshot is overwritten (`SnapshotsAreKept`), whatever raises or dies.
* `Store`: until a write has raised, the chain that begins at the last base loads to the
  document that was acknowledged last, and so does the pipeline's memory, with its count of
  deltas. A load is a recursive function; the proof shows that the recursion has a solution
  and only one (`IsChain`, by induction along the indices), that a snapshot above the others
  extends it (`With`), and that a delta made by `Diff` applied to what it was made against
  gives the new document.

The other two relate the state to what executions have done:

* `KeptInv`: until something fails, the state has what each recorded step wrote, or a
  reviewer has taken it out, wherever the state is at the moment: in memory, in storage, in
  the audit entry of a decision under way, or in the seed of the execution to come.
* `ReplayInv` follows a field that no step writes. `Arrives` says which values an execution
  can have in it at an instruction: there is a row of values, one for each instruction
  before, that assignments and the patches of decided gates lead through. `Course` is where
  executions stop: at a gate that nobody has decided, and they pass the others. For a field that
  every execution assigns before a gate that was decided once, only one value arrives
  (`ArrivesOnce`), and it is what the reviewer's patch was applied to; deaths and failed
  writes change neither.

**LoopDetector** (LoopDetectorProofs), for all tools, texts, agents and limits, and bodies that
catch what the detector raises. `DetectorInv` has a part for each tier:

* `Calls`: the window is the end of all that was asked, so `WindowDecides`.
* `Texts`: the last texts decide, so `TextsAreComparedExactly`. What `SimilarTextsStop` says
  of similarity is that the cheapest matching that keeps the order has few changes; what the
  code has is two rolling rows of numbers. The rows are the Levenshtein table
  (`IsTable`), and the table is the least cost of a matching (`CostTable`), where a cell
  takes the best of three ways to end a matching; both by induction along the rows.
* `Searches`: `PathInv` says that the path is a walk of repeated transitions and that the
  stack's iterators only hold successors of its nodes; the answer is a suffix of a walk, closed
  by a successor of its last node (`DetectorNamesRealCycles`, and `ReportedCycleIsReal` for a
  single search on any graph). `SearchInv` has the colours: a grey node is on the path, a
  black one has only black successors, and every set of black nodes has one without a
  successor in the set. When the search comes back with nothing, all nodes are black, and a
  closed walk would be such a set (`ReturnLeavesNoCycle`).

**BudgetedRun** (BudgetAndApprovalProofs). `BudgetInv` says, besides `UsageIsBilled`, where the
last check has left a body: under its ceiling, or above it because it began there (`Checked`);
and that nothing stored, counted or held by another thread is more than was billed
(`SumsOK`), so that what is lost is a number. It gives `UsageCharged`, `CeilingIsHard` and
`AboveCeilingOnce`, for all amounts, ceilings, deaths, closes that raise and late puts.

**Approvals** (BudgetAndApprovalProofs), for any number of requests at a time, gates, tokens,
faults, extras and permitted actions. `ClickInv` follows a consumed token: it is with one
request that has yet to record it, or in the record; confirmation and execution come after.
`ClicksCountOnce` is about steps, and holds with every fault. `WaitsInv` is about runs in
which nothing fails: as long as a run waits, and no late close has written its record,
there is a token that is not spent and that no request on its way will waste (one that read
the run before it paused burns its token for a 404), or a decision is being carried out
(`Answerable`). For that, an escalation's new token must be nobody's until its request
answers, and no other request's (`Fresh`), and what a request writes as a pause must be a
gate (`AtGate`).

**FastPatch** (FastPatchProofs). `IsolationInv` is about objects: a key whose container was
copied no longer holds an object of the caller, and holds a value of the patch only if that
is exposed. `CallersDocumentUntouched` and `CallersPatchUntouched` follow, for patches of any
length. `AgreeInv` adds that no two keys hold the same value of the patch (or an edit below
one key would show under the other) and that the working document is what RFC 6902 has; the
list operations are compared element by element, by lemmas about inserting, deleting and
appending. `FastPathIsRfc6902` follows.

**Redaction** (RedactionProofs). `RefsInv` says that a snapshot under way owes storage every
blob that it names and has not put, and that the cache has nothing that storage lacks.
`ReferencesResolve` follows for all documents, entries and patches; what redaction makes of
a document is opaque in that proof, and all that is used of it is that a flight names its
own blobs.

The other three theorems are about the data, and go up along it. `Scanned` is the invariant of
the scan for random tokens: each lexeme of what it has made is a placeholder or a lexeme of
the text, in the same order, and one that stands beside a credential's missing boundary still
has its neighbour, or a placeholder, beside it. The last part is why a pass leaves a text
clean (`RedactTextIs`): both layers judge boundaries by the text before them, and the second
one must not take away what the first one saw. `StoredLeafIs` is the round trip of a leaf,
through all three of its forms (as it is, as a blob, as an escape). `Row` is the loop over the
entries of a dict, in which keys can meet after they are redacted; `EntriesMap` says that
reading values and assigning to keys can change places. `NodeReads` and `NodeIsFine` lift both
facts to one node, and the three levels of `Walk0` to `Walk2` to a document. `DataInv` has what
is left for the run: what is live is a document, through every write, patch, decision and
replay; what is stored is `Strip` of one; the audited patch is one that can be applied, and
is clean. The depth of the documents is the one bound of these theorems that the code does
not have; the lemmas about a node are for values of any depth.

`DecisionsAreOneDocument` needs that redaction comes to rest: a patch is redacted when it is
received, and again for the audit log, and the document that a decision stores is redacted
once more by its snapshot. For a text (`ScanRests`, `TextRests`) this says that a scan leaves
no random run behind. `Placed` follows each position that stays to its place in what the scan
makes: neighbours that stay remain neighbours, so a run that was spared for its slash still
reaches that slash in the scanned text (`NoneIsRandom`). For a dict (`EntriesRest`) it says
that the keys of the first pass are distinct, so that the second one puts each entry where it
is. `NodeRests` and `RedactRests` lift it to documents, and `OpRests` to the operations of a
patch; `RestsText`, `AtRest` and `RestsOp` are the conditions, and exclude just the two shapes
above. `DecisionInv` is the run's part: the reviewed and the decided document and the audited
patch follow from the patch that was sent; the snapshot of a decision is one of the decided
document; and a decision that is done was stored, or changed nothing.

Two things recur in the proofs. Induction over an interval (`UpInduction`) rests on the
library's theorem that a non-empty set of naturals has a least element; the library's own
induction rules take an operator as a parameter, which the provers cannot instantiate. A
recursive function is a CHOOSE to the provers: each one gets a predicate for its recursion, a
lemma that there is a solution, one that there is only one, and one that unfolds it.

Only model-checked: the liveness properties `RecordReturns` and `ReviewerGetsThrough`.
Fairness and ENABLED are out of the prover's reach.

## What is not modelled

* StepMemo: steps that are called inside of steps (the guard's nesting is in StepGuard);
  `complete_step` of a FAILED step whose effect the operator knows to have happened; an
  operator who is wrong about an effect, or acts while an execution is alive.
* RunGate: an EDIT takes the path of an APPROVE, and its patch is in
  StateOfRecord and Redaction. Permitted actions and expiry are in Approvals; a token's
  signature is nowhere.
* StateOfRecord: REJECT and ESCALATE (they leave the state alone, see RunGate); two processes
  with a pipeline each; compaction by bytes is a free choice; `restore()` has no caller in
  the engine; encoding and encryption. Redaction and blobs are in Redaction, with one
  document in the place of the chain.
* LoopDetector: `enabled=False`, the text of warnings, the callbacks; the rounding of floats:
  `1.0 - distance / length` (loops.py:48) is compared with the thresholds (loops.py:99, 104)
  as an exact fraction, and may differ from it where an unusual threshold is met exactly.
* Redaction: the regular expressions and the entropy of a word (which lexeme a word is);
  sets, tuples and keys that are no strings; binary data; documents deeper than three levels;
  reads of a blob that fail; more than one decision.
* Approvals: several runs; patches (a decision may fail for one); the console; HTTP and the
  signatures of the chat.
* Patches: what jsonpatch makes of a patch that the fast path declines; the `in_place`
  argument, which no caller sets; paths of more than two segments.
* Budget: the cost in dollars, which is compared in the same way; two bodies that run at once
  (an execution that was overtaken only closes), and more than one record held at a time.
* Pure functions without state (canonical JSON, hashing, the codec, encryption), I/O (console,
  listings, telemetry), the demonstration in agent_review.py, release scripts, the
  placeholder node package.

PROJECT.json has the list by component.

## Plan

Done: EffectLedger, StepMemo, RunGate, StateOfRecord, StepGuard, CycleSearch, LoopDetector,
BudgetedRun, FastPatch, Redaction, Approvals and eight proof modules, with a theorem for every
safety property. Next:

* A composition of StepMemo and RunGate: that an approval is followed by exactly one
   execution of the step behind the gate, across threads and deaths.
