-------------------------------- MODULE RunGate --------------------------------
(***************************************************************************)
(* Approval gates of one run: opening and closing an execution, pausing at *)
(* a gate, and deciding a pause with a token (core/runner.py,              *)
(* core/resume.py, hitl/tokens.py).                                        *)
(*                                                                         *)
(* A handler is a thread of the one process that serves the run: it runs   *)
(* the workflow, or it serves a reviewer's resume() and then runs the      *)
(* workflow itself.  A storage call is one atomic step; what a handler     *)
(* read before it may be stale when it writes.  The workflow body is the   *)
(* sequence of gates 1..Gates; steps between them are the subject of       *)
(* StepMemo, and the state a decision edits that of the snapshot chain.    *)
(***************************************************************************)
EXTENDS Naturals, Sequences, FiniteSets

CONSTANTS
  Handler,      \* threads of the process
  Gates,        \* number of pause() calls in the workflow body
  MaxTokens,    \* bound: resume tokens issued
  MaxStarts,    \* bound: calls of the workflow or of rerun(), besides one per fault
  MaxFaults     \* bound: process deaths, and storage calls that raise

ASSUME GateAssumption == Gates \in Nat \ {0}
ASSUME LimitAssumption ==
  MaxTokens \in Nat /\ MaxStarts \in Nat /\ MaxFaults \in Nat

VARIABLES
  run,        \* the run record: its status and its pause request's step id
  audit,      \* the audit log
  consumed,   \* consumed nonces, by token
  tokens,     \* tokens issued: the step id that each is bound to
  delivered,  \* tokens that reached a reviewer or a caller
  pending,    \* step ids in engine.pending_resume_state (process memory)
  pc,         \* what each handler is doing
  copy,       \* its copy of the run record, as it was read
  hand,       \* the token and decision that it is serving
  pos,        \* the gate its workflow body comes to next
  resumed,    \* ctx.resumed_step_ids
  ctxPause,   \* ctx.pause
  caught,     \* tokens of the WorkflowPaused that its workflow body has caught
  outcome,    \* how its workflow body ended
  starts, faults,
  abandoned,  \* history: no execution has begun since one was cut off
  strayed,    \* history: nor since one was closed by a WorkflowPaused with ctx.pause clear
  known       \* history: gates that were approved when each execution began

storage == <<run, audit, consumed>>
letters == <<tokens, delivered>>
stack == <<copy, hand, pos, resumed, ctxPause, caught, outcome, known>>
local == <<pc, stack>>
counts == <<starts, faults, abandoned, strayed>>
vars == <<storage, letters, pending, local, counts>>

Gate == 1..Gates

\* The step id of a pause that a guardrail asks for; no pause() of the body has it.
Breach == Gates + 1

NoPause == 0

\* An EDIT takes the same path as an APPROVE; what it does to the state is not
\* modelled here.
Decision == {"APPROVE", "REJECT", "ESCALATE"}

NoHand == [token |-> 0, decision |-> "REJECT"]

\* A record that is not PAUSED.  It may still have the request of an older pause, which
\* only the inspection of a run shows, and which is left out.
Unpaused(s) == [status |-> s, pause |-> NoPause]

Init ==
  /\ run = Unpaused("ABSENT")
  /\ audit = {}
  /\ consumed = {}
  /\ tokens = <<>>
  /\ delivered = {}
  /\ pending = {}
  /\ pc = [h \in Handler |-> "idle"]
  /\ copy = [h \in Handler |-> Unpaused("ABSENT")]
  /\ hand = [h \in Handler |-> NoHand]
  /\ pos = [h \in Handler |-> 1]
  /\ resumed = [h \in Handler |-> {}]
  /\ ctxPause = [h \in Handler |-> NoPause]
  /\ caught = [h \in Handler |-> {}]
  /\ outcome = [h \in Handler |-> "return"]
  /\ starts = 0
  /\ faults = 0
  /\ abandoned = FALSE
  /\ strayed = FALSE
  /\ known = [h \in Handler |-> {}]

\* The gates with an accepting entry in the audit log.
Approved == {a.step : a \in {b \in audit : b.action = "APPROVE"}}

AllIdle == \A h \in Handler : pc[h] = "idle"

Fault == faults < MaxFaults /\ faults' = faults + 1

Goto(h, l) == pc' = [pc EXCEPT ![h] = l]

\* The call is over: what the handler held on its stack is gone.
Leave(h) ==
  /\ Goto(h, "idle")
  /\ copy' = [copy EXCEPT ![h] = Unpaused("ABSENT")]
  /\ hand' = [hand EXCEPT ![h] = NoHand]
  /\ pos' = [pos EXCEPT ![h] = 1]
  /\ resumed' = [resumed EXCEPT ![h] = {}]
  /\ ctxPause' = [ctxPause EXCEPT ![h] = NoPause]
  /\ caught' = [caught EXCEPT ![h] = {}]
  /\ outcome' = [outcome EXCEPT ![h] = "return"]
  /\ known' = [known EXCEPT ![h] = {}]

\* tokens.issue: a fresh nonce, bound to the pause's step id.
Issue(p) ==
  /\ Len(tokens) < MaxTokens
  /\ tokens' = Append(tokens, p)

(***************************************************************************)
(* _open_run                                                               *)
(***************************************************************************)

\* The workflow is called, or rerun() is.  The single-writer contract is the
\* caller's to keep: nobody starts a run that is being executed.
Start(h) ==
  /\ AllIdle
  /\ starts < MaxStarts + faults
  /\ starts' = starts + 1
  /\ Goto(h, "openread")
  /\ UNCHANGED <<storage, letters, pending, stack, faults, abandoned, strayed>>

OpenRead(h) ==
  /\ pc[h] = "openread"
  /\ copy' = [copy EXCEPT ![h] = run]
  /\ known' = [known EXCEPT ![h] = Approved]
  /\ Goto(h, "openput")
  /\ UNCHANGED <<storage, letters, pending, hand, pos, resumed, ctxPause, caught, outcome,
                  counts>>

OpenPut(h) ==
  /\ pc[h] = "openput"
  /\ run' = Unpaused("RUNNING")
  /\ abandoned' = FALSE
  /\ strayed' = FALSE
  /\ Goto(h, "load")
  /\ UNCHANGED <<audit, consumed, letters, pending, stack, starts, faults>>

\* Mutant: only the decision that this process has just taken counts.
LoadPending(h) ==
  /\ pc[h] = "load"
  /\ resumed' = [resumed EXCEPT ![h] = pending]
  /\ pending' = {}
  /\ copy' = [copy EXCEPT ![h] = Unpaused("RUNNING")]
  /\ Goto(h, "body")
  /\ UNCHANGED <<storage, letters, hand, pos, ctxPause, caught, outcome, known, counts>>

\* The gates already decided are those with an accepting audit entry, and the one
\* whose decision this process has just taken.  The copy, which was put as RUNNING, is what
\* _close_run will put again.
Load(h) ==
  /\ pc[h] = "load"
  /\ resumed' = [resumed EXCEPT ![h] = Approved \cup pending]
  /\ pending' = {}
  /\ copy' = [copy EXCEPT ![h] = Unpaused("RUNNING")]
  /\ Goto(h, "body")
  /\ UNCHANGED <<storage, letters, hand, pos, ctxPause, caught, outcome, known, counts>>

\* Mutant: the error goes to the caller and the record is left as it is.
OpenFailsSilently(h) ==
  /\ pc[h] = "load"
  /\ pending = {}
  /\ copy[h].status # "ABSENT"
  /\ Leave(h)
  /\ UNCHANGED <<storage, letters, pending, counts>>

\* The stored state, which is loaded unless this process has the decided one, does
\* not load: the run fails before its body begins.
OpenFails(h) ==
  /\ pc[h] = "load"
  /\ pending = {}
  /\ copy[h].status # "ABSENT"
  /\ run' = Unpaused("FAILED")
  /\ Leave(h)
  /\ UNCHANGED <<audit, consumed, letters, pending, counts>>

(***************************************************************************)
(* The workflow body: pause(), _suspend, _maybe_auto_pause.                *)
(***************************************************************************)

\* pause() at a gate that a human has decided falls through, and forgets any pause
\* this execution has asked for.
PassGate(h) ==
  /\ pc[h] = "body"
  /\ pos[h] \in Gate \cap resumed[h]
  /\ resumed' = [resumed EXCEPT ![h] = @ \ {pos[h]}]
  /\ ctxPause' = [ctxPause EXCEPT ![h] = NoPause]
  /\ pos' = [pos EXCEPT ![h] = @ + 1]
  /\ UNCHANGED <<storage, letters, pending, pc, copy, hand, caught, outcome, known, counts>>

\* The pause boundary: a token for the step id, and ctx.pause.
Suspend(h, p) ==
  /\ Issue(p)
  /\ ctxPause' = [ctxPause EXCEPT ![h] = p]
  /\ hand' = [hand EXCEPT ![h] = [token |-> Len(tokens) + 1, decision |-> "REJECT"]]
  /\ Goto(h, "suspend")
  /\ UNCHANGED <<storage, delivered, pending, copy, pos, resumed, caught, known,
                  counts>>

ReachGate(h) ==
  /\ pc[h] = "body"
  /\ pos[h] \in Gate \ resumed[h]
  /\ Suspend(h, pos[h])
  /\ UNCHANGED outcome

\* A failing step or a guardrail breach whose breaker decision is PAUSE, in an
\* execution that has not asked to pause already.
AutoPause(h) ==
  /\ pc[h] = "body"
  /\ ctxPause[h] = NoPause
  /\ Suspend(h, Breach)
  /\ outcome' = [outcome EXCEPT ![h] = "paused"]

SuspendPut(h) ==
  /\ pc[h] = "suspend"
  /\ run' = [status |-> "PAUSED", pause |-> ctxPause[h]]
  /\ Goto(h, "notify")
  /\ UNCHANGED <<audit, consumed, letters, pending, stack, counts>>

\* gateway.notify hands the token to a reviewer; a gateway that fails is logged.
Notify(h) ==
  /\ pc[h] = "notify"
  /\ delivered' \in {delivered, delivered \cup {hand[h].token}}
  /\ Goto(h, "raised")
  /\ UNCHANGED <<storage, tokens, pending, stack, counts>>

\* The body ends in o: only what _close_run reads is still there.
EndBody(h, o) ==
  /\ outcome' = [outcome EXCEPT ![h] = o]
  /\ pos' = [pos EXCEPT ![h] = 1]
  /\ resumed' = [resumed EXCEPT ![h] = {}]
  /\ caught' = [caught EXCEPT ![h] = {}]
  /\ known' = [known EXCEPT ![h] = {}]
  /\ Goto(h, "close")
  /\ UNCHANGED <<storage, letters, pending, copy, ctxPause, starts, abandoned, strayed>>

\* WorkflowPaused leaves the body; an auto-pause is raised outside of it.
LeavePaused(h) ==
  /\ pc[h] = "raised"
  /\ EndBody(h, "paused")
  /\ UNCHANGED <<hand, faults>>

\* The body catches WorkflowPaused at the gate and carries on: in an except block, or in
\* a finally block that the exception is on its way through.
SwallowPause(h) ==
  /\ pc[h] = "raised"
  /\ outcome[h] # "paused"
  /\ caught' = [caught EXCEPT ![h] = @ \cup {hand[h].token}]
  /\ hand' = [hand EXCEPT ![h] = NoHand]
  /\ pos' = [pos EXCEPT ![h] = @ + 1]
  /\ Goto(h, "body")
  /\ UNCHANGED <<storage, letters, pending, copy, resumed, ctxPause, outcome, known, counts>>

\* A WorkflowPaused that no gate has just raised leaves the body: one caught before, or that
\* of a nested workflow (NoHand: its token is another run's).  Gates that were passed since
\* may have cleared ctx.pause.
RaiseCaught(h) ==
  /\ pc[h] = "body"
  /\ \E t \in caught[h] \cup {NoHand.token} : hand' = [hand EXCEPT ![h].token = t]
  /\ EndBody(h, "paused")
  /\ UNCHANGED faults

Finish(h) ==
  /\ pc[h] = "body"
  /\ pos[h] \notin Gate
  /\ EndBody(h, "return")
  /\ UNCHANGED <<hand, faults>>

\* An exception that is no pause leaves the body.  A HumanRejectedError that the
\* body raises itself closes the run as rejected.
BodyFails(h) ==
  /\ pc[h] = "body"
  /\ \E o \in {"raise", "rejected"} : EndBody(h, o)
  /\ UNCHANGED <<hand, faults>>

-------------------------------------------------------------------------------

\* A WorkflowPaused closes the run as PAUSED with whatever ctx.pause is, none included.
FinalRecord(h) ==
  CASE outcome[h] = "paused" \/ (outcome[h] = "return" /\ ctxPause[h] # NoPause) ->
         [status |-> "PAUSED", pause |-> ctxPause[h]]
    [] outcome[h] = "return" /\ ctxPause[h] = NoPause ->
         Unpaused("COMPLETED")
    [] outcome[h] = "rejected" -> Unpaused("REJECTED")
    [] outcome[h] = "raise"    -> Unpaused("FAILED")

\* A WorkflowPaused carries its token to the caller.
Raised(h) == {t \in {hand[h].token} \ {NoHand.token} : outcome[h] = "paused"}

\* A WorkflowPaused closes an execution whose ctx.pause is clear.
Stray(h) == outcome[h] = "paused" /\ ctxPause[h] = NoPause

\* What _close_run writes over the record that _open_run read.
Close(h) ==
  /\ pc[h] = "close"
  /\ run' = FinalRecord(h)
  /\ delivered' = delivered \cup Raised(h)
  /\ strayed' = Stray(h)
  /\ Leave(h)
  /\ UNCHANGED <<audit, consumed, tokens, pending, starts, faults, abandoned>>

(***************************************************************************)
(* resume(): verify the token, decide, and run the workflow again.         *)
(***************************************************************************)

\* A reviewer presents a token that reached them; the run is read first.
Resume(h, t, d) ==
  /\ pc[h] = "idle"
  /\ t \in delivered
  /\ hand' = [hand EXCEPT ![h] = [token |-> t, decision |-> d]]
  /\ copy' = [copy EXCEPT ![h] = run]
  /\ Goto(h, "verify")
  /\ UNCHANGED <<storage, letters, pending, pos, resumed, ctxPause, caught, outcome, known,
                  counts>>

\* The nonce has been consumed before: ReplayedNonceError.
VerifyReplayed(h) ==
  /\ pc[h] = "verify"
  /\ hand[h].token \in consumed
  /\ Leave(h)
  /\ UNCHANGED <<storage, letters, pending, counts>>

\* Mutant: the nonce is checked but not consumed.
VerifyReadOnly(h) ==
  /\ pc[h] = "verify"
  /\ hand[h].token \notin consumed
  /\ copy[h].status = "PAUSED"
  /\ Goto(h, "decide")
  /\ UNCHANGED <<storage, letters, pending, stack, counts>>

\* The nonce is consumed, and the copy must be of a paused run.
Verify(h) ==
  /\ pc[h] = "verify"
  /\ hand[h].token \notin consumed
  /\ consumed' = consumed \cup {hand[h].token}
  /\ IF copy[h].status = "PAUSED"
       THEN /\ Goto(h, "decide")
            /\ UNCHANGED <<stack>>
       ELSE Leave(h)
  /\ UNCHANGED <<run, audit, letters, pending, counts>>

\* The state cannot be loaded or the patch does not apply: the nonce is burnt.
DecideFails(h) ==
  /\ pc[h] = "decide"
  /\ Leave(h)
  /\ UNCHANGED <<storage, letters, pending, counts>>

\* Mutant: the entry names the gate the run is paused at, not the token's.
EntryOfPause(h) == [step |-> copy[h].pause, action |-> hand[h].decision,
                    token |-> hand[h].token]

\* The audit entry names the step id of the token.
Entry(h) == [step |-> tokens[hand[h].token], action |-> hand[h].decision,
             token |-> hand[h].token]

Decide(h) ==
  /\ pc[h] = "decide"
  /\ hand[h].decision # "ESCALATE"
  /\ audit' = audit \cup {Entry(h)}
  /\ Goto(h, "save")
  /\ UNCHANGED <<run, consumed, letters, pending, stack, counts>>

\* An escalation mints a fresh token for the same step before it is recorded.
DecideEscalate(h) ==
  /\ pc[h] = "decide"
  /\ hand[h].decision = "ESCALATE"
  /\ Issue(tokens[hand[h].token])
  /\ audit' = audit \cup {Entry(h)}
  /\ hand' = [hand EXCEPT ![h].token = Len(tokens) + 1]
  /\ Goto(h, "save")
  /\ UNCHANGED <<run, consumed, delivered, pending, copy, pos, resumed,
                  ctxPause, caught, outcome, known, counts>>

SaveRejected(h) ==
  /\ pc[h] = "save"
  /\ hand[h].decision = "REJECT"
  /\ run' = Unpaused("REJECTED")
  /\ Leave(h)
  /\ UNCHANGED <<audit, consumed, letters, pending, counts>>

\* Mutant: the escalated pause is cleared, as an accepted one is.
SaveEscalatedCleared(h) ==
  /\ pc[h] = "save"
  /\ hand[h].decision = "ESCALATE"
  /\ run' = [copy[h] EXCEPT !.pause = NoPause]
  /\ Leave(h)
  /\ UNCHANGED <<audit, consumed, letters, pending, counts>>

\* The escalated pause is stored with its new reviewers, if the record has one.  The
\* exception hands the new token to the caller of resume; the gateway is told of the
\* decision only.
SaveEscalated(h) ==
  /\ pc[h] = "save"
  /\ hand[h].decision = "ESCALATE"
  /\ run' = IF copy[h].pause # NoPause THEN copy[h] ELSE run
  /\ delivered' = delivered \cup {hand[h].token}
  /\ Leave(h)
  /\ UNCHANGED <<audit, consumed, tokens, pending, counts>>

SaveAccepted(h) ==
  /\ pc[h] = "save"
  /\ hand[h].decision = "APPROVE"
  /\ run' = Unpaused("RUNNING")
  /\ Goto(h, "persist")
  /\ UNCHANGED <<audit, consumed, letters, pending, stack, counts>>

\* The decided state is stored and kept for the execution that follows.
Persist(h) ==
  /\ pc[h] = "persist"
  /\ pending' = {tokens[hand[h].token]}
  /\ hand' = [hand EXCEPT ![h] = NoHand]
  /\ Goto(h, "openread")
  /\ UNCHANGED <<storage, letters, copy, pos, resumed, ctxPause, caught, outcome, known,
                  counts>>

\* _stored_call raises: the workflow needs arguments that are not on record, because
\* they could not be encoded.
InvokeFails(h) ==
  /\ pc[h] = "persist"
  /\ pending' = {tokens[hand[h].token]}
  /\ abandoned' = TRUE
  /\ Leave(h)
  /\ UNCHANGED <<storage, letters, starts, faults, strayed>>

(***************************************************************************)
(* A storage call raises: it has no effect, and the error goes up the      *)
(* stack.  (In the body before a pause is asked for, and in _close_run's   *)
(* snapshot unless the outcome is a pause, it does what BodyFails does.)   *)
(***************************************************************************)

\* Out of resume() or of the workflow: nobody goes on, or takes anything back.  An
\* execution that had begun, or was about to, is cut off.
CallRaises(h) ==
  /\ pc[h] \in {"verify", "save", "persist", "openread", "openput", "close"}
  /\ Fault
  /\ abandoned' = (abandoned \/ pc[h] \notin {"verify", "save"})
  /\ Leave(h)
  /\ UNCHANGED <<storage, letters, pending, starts, strayed>>

\* While _open_run loads: the run fails, and a decided state stays for the next one.
LoadRaises(h) ==
  /\ pc[h] = "load"
  /\ Fault
  /\ run' = Unpaused("FAILED")
  /\ Leave(h)
  /\ UNCHANGED <<audit, consumed, letters, pending, starts, abandoned, strayed>>

\* The snapshot of a pause, and the body catches the error: the gate is behind it, and
\* nothing has asked to pause.
SnapshotRaises(h) ==
  /\ pc[h] = "body"
  /\ pos[h] \in Gate \ resumed[h]
  /\ Fault
  /\ pos' = [pos EXCEPT ![h] = @ + 1]
  /\ UNCHANGED <<storage, letters, pending, pc, copy, hand, resumed, ctxPause, caught,
                 outcome, known, starts, abandoned, strayed>>

\* The record of a pause that ctx.pause already has, which nobody is notified of: the error
\* leaves the body, and fails the run.
SuspendRaises(h) ==
  /\ pc[h] = "suspend"
  /\ Fault
  /\ hand' = [hand EXCEPT ![h] = NoHand]
  /\ EndBody(h, "raise")

\* The same, and the body catches the error: only the close will have the pause.
SwallowRaised(h) ==
  /\ pc[h] = "suspend"
  /\ outcome[h] # "paused"
  /\ Fault
  /\ pos' = [pos EXCEPT ![h] = @ + 1]
  /\ hand' = [hand EXCEPT ![h] = NoHand]
  /\ Goto(h, "body")
  /\ UNCHANGED <<storage, letters, pending, copy, resumed, ctxPause, caught, outcome, known,
                  starts, abandoned, strayed>>

\* The snapshot that _close_run makes when ctx.pause is clear: the run fails, though the
\* WorkflowPaused goes on to the caller.
CloseUnsaved(h) ==
  /\ pc[h] = "close"
  /\ Stray(h)
  /\ Fault
  /\ run' = Unpaused("FAILED")
  /\ delivered' = delivered \cup Raised(h)
  /\ Leave(h)
  /\ UNCHANGED <<audit, consumed, tokens, pending, starts, abandoned, strayed>>

(***************************************************************************)
(* reissue_token, recover_runs, and the death of the process.              *)
(***************************************************************************)

Reissue ==
  /\ run.status = "PAUSED"
  /\ run.pause # NoPause
  /\ Issue(run.pause)
  /\ delivered' = delivered \cup {Len(tokens) + 1}
  /\ UNCHANGED <<storage, pending, local, counts>>

\* On process start, "while no worker is executing runs".
Recover ==
  /\ AllIdle
  /\ run.status = "RUNNING"
  /\ run' = Unpaused("PENDING")
  /\ UNCHANGED <<audit, consumed, letters, pending, local, counts>>

Crash ==
  /\ ~AllIdle
  /\ Fault
  /\ abandoned' = TRUE
  /\ pending' = {}
  /\ pc' = [h \in Handler |-> "idle"]
  /\ copy' = [h \in Handler |-> Unpaused("ABSENT")]
  /\ hand' = [h \in Handler |-> NoHand]
  /\ pos' = [h \in Handler |-> 1]
  /\ resumed' = [h \in Handler |-> {}]
  /\ ctxPause' = [h \in Handler |-> NoPause]
  /\ caught' = [h \in Handler |-> {}]
  /\ outcome' = [h \in Handler |-> "return"]
  /\ known' = [h \in Handler |-> {}]
  /\ UNCHANGED <<storage, letters, starts, strayed>>

-------------------------------------------------------------------------------

\* The steps of a call that is under way.
Progress(h) ==
  \/ OpenRead(h) \/ OpenPut(h) \/ Load(h) \/ OpenFails(h)
  \/ PassGate(h) \/ ReachGate(h) \/ AutoPause(h) \/ SuspendPut(h) \/ Notify(h)
  \/ LeavePaused(h) \/ SwallowPause(h) \/ RaiseCaught(h)
  \/ Finish(h) \/ BodyFails(h) \/ Close(h)
  \/ VerifyReplayed(h) \/ Verify(h)
  \/ DecideFails(h) \/ Decide(h) \/ DecideEscalate(h)
  \/ SaveRejected(h) \/ SaveEscalated(h) \/ SaveAccepted(h)
  \/ Persist(h) \/ InvokeFails(h)
  \/ CallRaises(h) \/ LoadRaises(h) \/ SnapshotRaises(h) \/ SuspendRaises(h)
  \/ SwallowRaised(h) \/ CloseUnsaved(h)

Next ==
  \/ \E h \in Handler :
       \/ Start(h)
       \/ \E t \in delivered, d \in Decision : Resume(h, t, d)
       \/ Progress(h)
  \/ Reissue
  \/ Recover
  \/ Crash

Spec == Init /\ [][Next]_vars

-------------------------------------------------------------------------------

\* A gate is gone through only after somebody approved it with a token that was
\* issued for that very gate and can never be used again.
PassedWasAccepted ==
  [][\A h \in Handler : PassGate(h) =>
       \E a \in audit : /\ a.step = pos[h]
                        /\ a.action = "APPROVE"
                        /\ tokens[a.token] = pos[h]
                        /\ a.token \in consumed]_vars

\* A token decides once: however many handlers are served with it at the same time,
\* the audit log never holds two decisions taken with it.
OneDecisionPerToken ==
  \A a, b \in audit : a.token = b.token => a = b

\* A run that nobody executes is settled, unless the process died under it, a storage
\* call cut it off or resume could not call the workflow: every other call of the workflow,
\* of rerun and of resume that comes to an end has moved the record off RUNNING.
RestingRunIsSettled == AllIdle /\ run.status = "RUNNING" => abandoned

\* A paused run can be moved again: reissue_token finds its pause request, after any order
\* of escalations, stale closes and re-executions.  It does not where a WorkflowPaused that
\* ctx.pause does not have has closed the execution (README, departures), and then until the
\* next one begins.
PausedCanBeReissued == run.status = "PAUSED" /\ run.pause = NoPause => strayed

\* runner.py:111, "the audit log, not this process, is the record of which gates a
\* human has already decided": an execution that began after a gate was approved does
\* not ask for it again, even if the process died between the decision and the
\* execution, or another thread has taken what this process remembers.
ApprovedGateNeverAsks ==
  [][\A h \in Handler : ReachGate(h) => pos[h] \notin known[h]]_vars

\* runner.py:559 counts a COMPLETED run as terminal: it is not paused again but by a
\* new execution.
CompletedIsTerminal ==
  [][run.status = "COMPLETED" => run'.status \in {"COMPLETED", "RUNNING"}]_vars
===============================================================================
