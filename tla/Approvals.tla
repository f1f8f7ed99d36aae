------------------------------- MODULE Approvals -------------------------------
(***************************************************************************)
(* Reviewers who answer the gates of a run through an application: a web   *)
(* endpoint that waits for the run, one that acknowledges and goes on in   *)
(* the background, buttons in a chat, and the command line (examples/      *)
(* python/fastapi_approvals.py and integrations/slack_approvals.py,        *)
(* hitl/gateway.py, cli.py, on top of core/resume.py).  A click may be     *)
(* made, or delivered, any number of times; requests are served            *)
(* concurrently; notifications and answers are lost, and the process dies. *)
(*                                                                         *)
(* The body has gates that it reaches in order.  What happens inside of an *)
(* execution is in RunGate: here an execution opens, is suspended, and     *)
(* closes, and its token may be used before it has closed.                 *)
(***************************************************************************)
EXTENDS Naturals, Sequences

CONSTANTS
  Slot,         \* requests that are served at the same time: a set of numbers
  Gates,        \* how many gates the body has
  Permitted,    \* permitted_actions of each gate
  Decision,     \* what a client may ask for
  MaxTroubles   \* bound: faults, and extras: escalations, and tokens reissued early

VARIABLES
  run,        \* the record: status, and the gate it is paused at, or 0
  token,      \* the tokens issued: the gate and the permitted actions of each
  spent,       \* the nonces consumed
  expired,    \* the tokens whose time is over
  known,      \* the tokens that have reached a reviewer
  handle,     \* there is a gateway handle: a message has been posted
  audit,      \* the decisions on record: token and decision
  confirmed,  \* the tokens whose decision has been confirmed in the channel
  started,    \* history: the tokens whose decision started an execution
  late,       \* history: the record is what a late close has made of it
  slot,       \* the requests being served
  faults, extras  \* how many there have been

runVars == <<run, token, spent, expired, known, handle, audit, confirmed, started, late>>
boundVars == <<faults, extras>>
vars == <<runVars, slot, boundVars>>

Nobody == [pc |-> "free"]

Init ==
  /\ run = [status |-> "PENDING", gate |-> 0]
  /\ token = <<>>
  /\ spent = {} /\ expired = {} /\ known = {}
  /\ handle = FALSE
  /\ audit = {} /\ confirmed = {} /\ started = {}
  /\ late = FALSE
  /\ slot = [s \in Slot |-> Nobody]
  /\ faults = 0 /\ extras = 0

At(s, pc) == slot[s].pc = pc

GoTo(s, pc) == slot' = [slot EXCEPT ![s].pc = pc]

\* The bound allows one more.
Spare == faults + extras < MaxTroubles

Fault == Spare /\ faults' = faults + 1 /\ UNCHANGED extras

Fine == UNCHANGED boundVars

\* TokenIssuer.issue(), for a pause of the run.
TokenOf(gate) == [gate |-> gate, permitted |-> Permitted[gate]]

\* The record is put.  Nothing here reads the pause of a run that is not paused.
Record(status, gate) ==
  /\ run' = [status |-> status, gate |-> IF status = "PAUSED" THEN gate ELSE 0]
  /\ late' = FALSE

\* notify(): the message has the token of the gate, and there is a handle.
Post(t) == known' = known \cup {t} /\ handle' = TRUE

\* An answer that has a token: a client that got an acknowledgement gets no answer.
Told(t) == known' \in {known, known \cup {t}}

-------------------------------------------------------------------------------
(* Requests. *)

Free(s) == At(s, "free") /\ \A x \in Slot : x < s => ~At(x, "free")

\* A click, or one more delivery of it, is served: resume() reads the run before it verifies
\* the token.  The chat and the background endpoint have acknowledged it by now, and hear of no
\* outcome; the inline endpoint and the command line wait for one.
Arrive(s, t, d) ==
  /\ Free(s)
  /\ t \in known
  /\ d = "ESCALATE" => Spare
  /\ slot' = [slot EXCEPT ![s] = [pc |-> "verify", token |-> t, decision |-> d, seen |-> run.gate]]
  /\ extras' = IF d = "ESCALATE" THEN extras + 1 ELSE extras
  /\ UNCHANGED <<runVars, faults>>

\* The request is answered, or its task ends.
Answer(s) == slot' = [slot EXCEPT ![s] = Nobody]

\* Mutant: the nonce is looked up, and nothing consumes it.
VerifyReadOnly(s) ==
  /\ At(s, "verify")
  /\ IF /\ slot[s].token \notin spent \cup expired
        /\ slot[s].decision \in token[slot[s].token].permitted
        /\ slot[s].seen # 0
       THEN GoTo(s, "audit")
       ELSE Answer(s)
  /\ UNCHANGED runVars
  /\ Fine

\* Mutant: the nonce is consumed before the decision is known to be permitted.
VerifyBurns(s) ==
  /\ At(s, "verify")
  /\ LET t == slot[s].token
     IN /\ spent' = IF t \in expired THEN spent ELSE spent \cup {t}
        /\ IF /\ t \notin spent \cup expired
              /\ slot[s].decision \in token[slot[s].token].permitted
              /\ slot[s].seen # 0
             THEN GoTo(s, "audit")
             ELSE Answer(s)
  /\ UNCHANGED <<run, token, expired, known, handle, audit, confirmed, started, late>>
  /\ Fine

\* TokenIssuer.verify(), and then the checks of _decide().  A token whose time is over
\* (410), a decision that is not permitted (401) and a token that was spent (409) change
\* nothing; a run that is not paused is refused (404) after the nonce has been consumed.
Verify(s) ==
  /\ At(s, "verify")
  /\ LET t == slot[s].token
         inForce == t \notin expired /\ slot[s].decision \in token[slot[s].token].permitted
     IN \/ /\ ~inForce \/ t \in spent
           /\ Answer(s)
           /\ UNCHANGED spent
        \/ /\ inForce /\ t \notin spent
           /\ spent' = spent \cup {t}
           /\ IF slot[s].seen # 0 THEN GoTo(s, "audit") ELSE Answer(s)
  /\ UNCHANGED <<run, token, expired, known, handle, audit, confirmed, started, late>>
  /\ Fine

\* The state is loaded, the patch applied and the decision recorded; an escalation has
\* issued its token by then.
AppendAudit(s) ==
  /\ At(s, "audit")
  /\ audit' = audit \cup {[token |-> slot[s].token, decision |-> slot[s].decision]}
  /\ \/ /\ slot[s].decision = "ESCALATE"
        /\ token' = Append(token, [gate |-> token[slot[s].token].gate,
                                   permitted |-> Permitted[slot[s].seen]])
        /\ slot' = [slot EXCEPT ![s] =
                      [pc |-> "confirm", token |-> @.token, decision |-> @.decision,
                       seen |-> @.seen, new |-> Len(token')]]
     \/ /\ slot[s].decision # "ESCALATE"
        /\ GoTo(s, "confirm")
        /\ UNCHANGED token
  /\ UNCHANGED <<run, spent, expired, known, handle, confirmed, started, late>>
  /\ Fine

\* The state does not load, the patch does not apply, or a storage call raises, the close of
\* an execution among them: what the request has done so far stays.
Spoil(s) ==
  /\ ~At(s, "free")
  /\ Answer(s)
  /\ Fault
  /\ UNCHANGED runVars

\* _confirm_gateway(): a message without a handle gets none, and one that cannot be posted
\* is logged.
Confirm(s) ==
  /\ At(s, "confirm")
  /\ GoTo(s, "save")
  /\ \/ /\ handle
        /\ confirmed' = confirmed \cup {slot[s].token}
        /\ Fine
     \/ /\ ~handle
        /\ UNCHANGED confirmed
        /\ Fine
     \/ /\ handle
        /\ UNCHANGED confirmed
        /\ Fault
  /\ UNCHANGED <<run, token, spent, expired, known, handle, audit, started, late>>

\* REJECT ends the run, whatever the record says by now.
SaveRejected(s) ==
  /\ At(s, "save")
  /\ slot[s].decision = "REJECT"
  /\ Record("REJECTED", 0)
  /\ Answer(s)
  /\ UNCHANGED <<token, spent, expired, known, handle, audit, confirmed, started>>
  /\ Fine

\* ESCALATE stores the pause that was read, and answers with the new token.
SaveEscalated(s) ==
  /\ At(s, "save")
  /\ slot[s].decision = "ESCALATE"
  /\ Record("PAUSED", slot[s].seen)
  /\ Answer(s)
  /\ Told(slot[s].new)
  /\ UNCHANGED <<token, spent, expired, handle, audit, confirmed, started>>
  /\ Fine

SaveApproved(s) ==
  /\ At(s, "save")
  /\ slot[s].decision = "APPROVE"
  /\ Record("RUNNING", 0)
  /\ GoTo(s, "open")
  /\ UNCHANGED <<token, spent, expired, known, handle, audit, confirmed, started>>
  /\ Fine

-------------------------------------------------------------------------------
(* Executions. *)

\* The gates that the audit log has as decided.
Approved == {token[a.token].gate : a \in {b \in audit : b.decision = "APPROVE"}}

NextGate(decided) ==
  IF 1..Gates \subseteq decided THEN 0
  ELSE CHOOSE g \in (1..Gates) \ decided : \A h \in (1..Gates) \ decided : g <= h

\* _open_run(), in the request that has decided or in one that reruns the workflow.
Open(s) ==
  /\ At(s, "open")
  /\ Record("RUNNING", 0)
  /\ slot' = [slot EXCEPT ![s] = [pc |-> "body", decided |-> Approved]]
  /\ started' = started \cup ({slot[s].token} \ {0})
  /\ UNCHANGED <<token, spent, expired, known, handle, audit, confirmed>>
  /\ Fine

\* The body reaches a gate that is not decided: the record is put, and the notification has the
\* token.  The notification may fail.
Suspend(s) ==
  LET gate == NextGate(slot[s].decided)
  IN /\ At(s, "body")
     /\ gate # 0
     /\ token' = Append(token, TokenOf(gate))
     /\ Record("PAUSED", gate)
     /\ \/ Post(Len(token')) /\ Fine
        \/ UNCHANGED <<known, handle>> /\ Fault
     /\ slot' = [slot EXCEPT ![s] = [pc |-> "close", token |-> Len(token'), gate |-> gate]]
     /\ UNCHANGED <<spent, expired, audit, confirmed, started>>

\* _close_run() puts the same record again, over whatever a reviewer who was quicker has made
\* of it; the answer has the token too.
Close(s) ==
  LET paused == [status |-> "PAUSED", gate |-> slot[s].gate]
  IN /\ At(s, "close")
     /\ run' = paused
     /\ late' = (late \/ run # paused)
     /\ Told(slot[s].token)
     /\ Answer(s)
     /\ UNCHANGED <<token, spent, expired, handle, audit, confirmed, started>>
     /\ Fine

Complete(s) ==
  /\ At(s, "body")
  /\ NextGate(slot[s].decided) = 0
  /\ Record("COMPLETED", 0)
  /\ Answer(s)
  /\ UNCHANGED <<token, spent, expired, known, handle, audit, confirmed, started>>
  /\ Fine

\* The body raises; no handler of the endpoints is for that.
Fail(s) ==
  /\ At(s, "body")
  /\ Record("FAILED", 0)
  /\ Answer(s)
  /\ Fault
  /\ UNCHANGED <<token, spent, expired, known, handle, audit, confirmed, started>>

-------------------------------------------------------------------------------
(* Operators, time and death. *)

\* No decision is being carried out, and no execution: what operators wait for.
Quiet == \A s \in Slot : slot[s].pc \in {"free", "verify"}

\* resume() takes any token of the run.
Usable == known \ (spent \cup expired)

\* Nobody can answer, and nobody is answering.
NobodyCan == Usable = {} /\ Quiet

\* reissue-token, of any paused run: printed, and posted again.
ReissueToken ==
  /\ run.status = "PAUSED"
  /\ IF NobodyCan THEN UNCHANGED extras
     ELSE Spare /\ extras' = extras + 1
  /\ token' = Append(token, TokenOf(run.gate))
  /\ Post(Len(token'))
  /\ UNCHANGED <<run, spent, expired, audit, confirmed, started, late, slot, faults>>

\* Mutant: only the paused runs count as incomplete.
RecoverPaused ==
  /\ run.status = "PAUSED"
  /\ Quiet
  /\ UNCHANGED vars

\* recover, when a process starts.
Recover ==
  /\ run.status = "RUNNING"
  /\ Quiet
  /\ Record("PENDING", 0)
  /\ UNCHANGED <<token, spent, expired, known, handle, audit, confirmed, started,
                 slot, boundVars>>

\* rerun, of a run that nothing executes; the first execution starts in the same way.
Rerun(s) ==
  /\ Free(s)
  /\ run.status = "PENDING"
  /\ Quiet
  /\ slot' = [slot EXCEPT ![s] = [pc |-> "open", token |-> 0, decision |-> "RERUN"]]
  /\ UNCHANGED <<runVars, boundVars>>

Expire(t) ==
  /\ t \in DOMAIN token \ expired
  /\ expired' = expired \cup {t}
  /\ Fault
  /\ UNCHANGED <<run, token, spent, known, handle, audit, confirmed, started, late, slot>>

\* The tasks in memory, those that were acknowledged among them, are gone.
Crash ==
  /\ \E s \in Slot : ~At(s, "free")
  /\ slot' = [s \in Slot |-> Nobody]
  /\ Fault
  /\ UNCHANGED runVars

Serve(s) ==
  \/ Verify(s) \/ AppendAudit(s) \/ Spoil(s) \/ Confirm(s)
  \/ SaveRejected(s) \/ SaveEscalated(s) \/ SaveApproved(s)
  \/ Open(s) \/ Suspend(s) \/ Close(s) \/ Complete(s) \/ Fail(s)

Next ==
  \/ \E s \in Slot, t \in known, d \in Decision : Arrive(s, t, d)
  \/ \E s \in Slot : Serve(s) \/ Rerun(s)
  \/ ReissueToken
  \/ Recover
  \/ \E t \in DOMAIN token : Expire(t)
  \/ Crash

\* A reviewer who holds a token that can be spent clicks on it.
Approve == \E s \in Slot, t \in Usable : Arrive(s, t, "APPROVE")

Spec == Init /\ [][Next]_vars

\* Requests are served; the reviewer insists; the operators look after the run.
FairSpec ==
  /\ Spec
  /\ \A s \in Slot : WF_vars(Serve(s))
  /\ SF_vars(Approve)
  /\ SF_vars(\E s \in Slot : Rerun(s))
  /\ WF_vars(NobodyCan /\ ReissueToken)
  /\ WF_vars(Recover)

-------------------------------------------------------------------------------

OnRecord == {a.token : a \in audit}

\* However often a click is made and delivered, it is decided, confirmed in the channel and
\* executed once, in that order.
ClickCountsOnce ==
  [][\A s \in Slot :
       /\ AppendAudit(s) => slot[s].token \notin OnRecord
       /\ Confirm(s) => slot[s].token \in OnRecord \ confirmed
       /\ Open(s) => slot[s].token \in {0} \cup (OnRecord \ started)]_vars

\* As long as nothing has failed and every token has reached somebody (an escalation from a
\* channel that does not wait is answered to nobody), a run that waits can be answered: somebody
\* holds a token that has not been spent.  A close that comes late, over what a quicker reviewer
\* has made of the run, leaves it waiting with a token that is spent, until it is reissued.
WaitingRunIsAnswerable ==
  (run.status = "PAUSED" /\ (\A s \in Slot : At(s, "free")) /\ faults = 0 /\ ~late
     /\ known = DOMAIN token) => Usable # {}

\* A run gets past its gates, or ends, and stays so, if its reviewer insists: whatever was lost,
\* burnt, expired, clicked twice or closed late.
ReviewerGetsThrough == <>[](run.status \in {"COMPLETED", "REJECTED", "FAILED"})
===============================================================================
