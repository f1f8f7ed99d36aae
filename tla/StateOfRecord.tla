----------------------------- MODULE StateOfRecord -----------------------------
(***************************************************************************)
(* The durable state of one run: the chain of BASE and DELTA snapshots     *)
(* that the pipeline writes (state/pipeline.py, state/delta.py), the state *)
(* that a re-execution loads from it (core/runner.py), and what a human's  *)
(* EDIT does to both (core/resume.py).                                     *)
(*                                                                         *)
(* One process serves the run and calls its entry points one at a time;    *)
(* tokens and concurrent reviewers are the subject of RunGate, claims that *)
(* of StepMemo.  The workflow body is a sequence of instructions: a        *)
(* memoised step that writes a field of the state in its body, a plain     *)
(* assignment (executed again by every execution) or a gate.  Encoding and *)
(* encryption are invertible and left out; so are redaction, a fixpoint on *)
(* what it stores, and blob extraction, which load undoes.                 *)
(***************************************************************************)
EXTENDS Integers, Sequences, SequencesExt, FiniteSets, FiniteSetsExt

CONSTANTS
  Field,        \* keys of the state
  Absent,       \* what a field that is not in the state has for a value
  Bodies,       \* the workflow bodies: sequences of instructions
  Patches,      \* the patches a reviewer may send with an EDIT
  MaxDeltas,    \* MAX_DELTA_CHAIN
  MaxSnapshots, \* bound: snapshot indices in use
  MaxStarts,    \* bound: calls of the workflow or of rerun()
  MaxDecisions, \* bound: accepted decisions
  MaxFaults     \* bound: process deaths inside a call, and snapshot writes that raise

ASSUME ChainAssumption == MaxDeltas \in Nat \ {0}
ASSUME LimitAssumption ==
  {MaxSnapshots, MaxStarts, MaxDecisions, MaxFaults} \subseteq Nat

\* The values of fields; -1 is left to tell that there is no state at all.
Value == Nat \cup {Absent}

ASSUME FieldAssumption == Field # {} /\ Absent \notin Int

ASSUME BodyAssumption ==
  Bodies \subseteq Seq([kind : {"step", "assign"}, field : Field, value : Nat] \cup
                      [kind : {"gate"}])

ASSUME PatchAssumption ==
  Patches \subseteq [op : {"remove", "append"}, field : Field] \cup
                   [op : {"add", "replace"}, field : Field, value : Nat]

VARIABLES
  body,       \* the workflow
  run,        \* the run record: status, and the position and origin of its pause
  done,       \* the positions whose step record is COMPLETED
  snaps,      \* the snapshots table: envelopes by snapshot index
  audit,      \* accepted decisions: position, patch and the state decided on
  mem,        \* the pipeline's _RunState, or NoMem
  pending,    \* engine.pending_resume_state: position and state, or NoSeed
  pc,         \* what the process is doing
  at,         \* the instruction that the body comes to next
  state,      \* ctx.state; before that, the state that a decision computes
  nextIndex,  \* ctx._snapshot_index
  resumed,    \* ctx.resumed_step_ids
  starts,
  crashes,    \* process deaths inside a call
  raises,     \* snapshot writes that have raised
  committed   \* history: the state of the last snapshot that was acknowledged

storage == <<run, done, snaps, audit>>
context == <<at, state, nextIndex, resumed>>
faults == <<crashes, raises>>
vars == <<body, storage, mem, pending, pc, context, starts, faults, committed>>

Empty == [f \in Field |-> Absent]

\* load raises: a delta does not apply, or there is no base.
Broken == [f \in Field |-> -1]

NoPatch == [op |-> "none"]

NoMem == [doc |-> Broken, deltas |-> 0]

NoSeed == [pos |-> 0, doc |-> Empty]

(***************************************************************************)
(* RFC 6902 patches.                                                       *)
(***************************************************************************)

\* An operation of a reviewer's patch.  "append" is add at "/list/-".  The fast path asks a
\* replacement for nothing that it could replace, see FastPatch.
Applies(p, d) == p.op \in {"remove", "append"} => d[p.field] # Absent

Applied(p, d) ==
  CASE p.op = "none"   -> d
    [] p.op = "remove" -> [d EXCEPT ![p.field] = Absent]
    [] p.op = "append" -> [d EXCEPT ![p.field] = @ + 1]
    [] p.op \in {"add", "replace"} -> [d EXCEPT ![p.field] = p.value]

\* make_patch: an operation for each field that differs.
Diff(before, after) ==
  {[op |-> IF before[f] = Absent THEN "add" ELSE IF after[f] = Absent THEN "remove" ELSE "replace",
    field |-> f, value |-> after[f]] : f \in {g \in Field : before[g] # after[g]}}

\* apply_patch of a delta: its operations are on different fields.
Patched(d, delta) ==
  IF d # Broken /\ \A p \in delta : Applies(p, d)
    THEN [f \in Field |-> IF \E p \in delta : p.field = f
                            THEN (CHOOSE p \in delta : p.field = f).value
                            ELSE d[f]]
    ELSE Broken

(***************************************************************************)
(* The snapshots table.                                                    *)
(***************************************************************************)

Index == 0..(MaxSnapshots - 1)

\* max_snapshot_index + 1.
NewIndex == IF DOMAIN snaps = {} THEN 0 ELSE Max(DOMAIN snaps) + 1

BaseIndices == {i \in DOMAIN snaps : snaps[i].kind = "BASE"}

\* snapshots_for_resume: from the last base on, in the order of their indices.
ForResume == {i \in DOMAIN snaps : BaseIndices # {} => i >= Max(BaseIndices)}

Deltas == Cardinality({i \in ForResume : snaps[i].kind = "DELTA"})

\* The state that load reconstructs from them.
Loaded ==
  LET upTo[i \in -1..(MaxSnapshots - 1)] ==
        IF i = -1 THEN Broken
        ELSE IF i \notin ForResume THEN upTo[i - 1]
        ELSE IF snaps[i].kind = "BASE" THEN snaps[i].doc
        ELSE Patched(upTo[i - 1], snaps[i].delta)
  IN upTo[MaxSnapshots - 1]

(***************************************************************************)
(* snapshot(): memory m before it, state d.                                *)
(***************************************************************************)

Base(d) == [kind |-> "BASE", doc |-> d, delta |-> {}]

Delta(m, d) == [kind |-> "DELTA", doc |-> Empty, delta |-> Diff(m.doc, d)]

\* Mutant: a chain is compacted when it has outgrown its limit.
EnvelopesLate(m, d) ==
  {e \in {Base(d), Delta(m, d)} :
     IF e.kind = "BASE" THEN m = NoMem \/ m.deltas > 0
                        ELSE m # NoMem /\ m.deltas <= MaxDeltas}

\* A delta against the memory, unless there is none or the chain is to be compacted:
\* by its depth or by its bytes, which are free here once there is a delta.
Envelopes(m, d) ==
  {e \in {Base(d), Delta(m, d)} :
     IF e.kind = "BASE" THEN m = NoMem \/ m.deltas > 0
                        ELSE m # NoMem /\ m.deltas < MaxDeltas}

\* Mutant: the document that the next delta starts from is not advanced.
AdvanceBaseOnly(m, e, d) ==
  IF e.kind = "BASE" THEN [doc |-> d, deltas |-> 0]
                     ELSE [doc |-> m.doc, deltas |-> m.deltas + 1]

Advance(m, e, d) ==
  IF e.kind = "BASE" THEN [doc |-> d, deltas |-> 0]
                     ELSE [doc |-> d, deltas |-> m.deltas + 1]

Put(i, e) == snaps' = [j \in DOMAIN snaps \cup {i} |-> IF j = i THEN e ELSE snaps[j]]

\* Memory is advanced, then the envelope is dispatched to storage.
Snapshot(m, d, i) ==
  /\ i \in Index
  /\ \E e \in Envelopes(m, d) :
       /\ mem' = Advance(m, e, d)
       /\ Put(i, e)
  /\ committed' = d

\* The write raises: the memory has been advanced.
SnapshotRaises(m, d, i) ==
  /\ crashes + raises < MaxFaults
  /\ i \in Index
  /\ \E e \in Envelopes(m, d) : mem' = Advance(m, e, d)
  /\ raises' = raises + 1
  /\ UNCHANGED <<snaps, crashes, committed>>

Init ==
  /\ body \in Bodies
  /\ run = [status |-> "ABSENT", pos |-> 0, origin |-> "gate"]
  /\ done = {}
  /\ snaps = <<>>
  /\ audit = <<>>
  /\ mem = NoMem
  /\ pending = NoSeed
  /\ pc = "off"
  /\ at = 1
  /\ state = Empty
  /\ nextIndex = 0
  /\ resumed = {}
  /\ starts = 0
  /\ crashes = 0
  /\ raises = 0
  /\ committed = Empty

Goto(l) == pc' = l

\* The call is over; its RunContext is gone.
Leave ==
  /\ Goto("off")
  /\ at' = 1
  /\ state' = Empty
  /\ nextIndex' = 0
  /\ resumed' = {}

(***************************************************************************)
(* _open_run.                                                              *)
(***************************************************************************)

Start ==
  /\ pc = "off"
  /\ starts < MaxStarts
  /\ starts' = starts + 1
  /\ Goto("open")
  /\ UNCHANGED <<body, storage, mem, pending, context, faults, committed>>

\* Mutant: snapshot indices restart with the ordinals.
FirstIndexZero == 0

\* Indices continue above everything that is stored.
FirstIndex == NewIndex

\* Mutant: the loaded state is not handed to the body.
OpenedEmpty(d) ==
  /\ state' = Empty
  /\ nextIndex' = FirstIndex
  /\ resumed' = {audit[i].pos : i \in DOMAIN audit} \cup ({pending.pos} \ {0})
  /\ pending' = NoSeed
  /\ run' = [run EXCEPT !.status = "RUNNING"]
  /\ Goto("body")
  /\ UNCHANGED <<body, done, snaps, audit, at, starts, faults, committed>>

Opened(d) ==
  /\ state' = d
  /\ nextIndex' = FirstIndex
  /\ resumed' = {audit[i].pos : i \in DOMAIN audit} \cup ({pending.pos} \ {0})
  /\ pending' = NoSeed
  /\ run' = [run EXCEPT !.status = "RUNNING"]
  /\ Goto("body")
  /\ UNCHANGED <<body, done, snaps, audit, at, starts, faults, committed>>

\* The state is what the decision just taken left for this execution.
OpenPending ==
  /\ pc = "open"
  /\ pending # NoSeed
  /\ Opened(pending.doc)
  /\ UNCHANGED mem

\* Or nothing, if the run has no snapshot.
OpenFresh ==
  /\ pc = "open"
  /\ pending = NoSeed
  /\ DOMAIN snaps = {}
  /\ Opened(Empty)
  /\ UNCHANGED mem

\* Or what storage holds.
OpenLoaded ==
  /\ pc = "open"
  /\ pending = NoSeed
  /\ DOMAIN snaps # {}
  /\ Loaded # Broken
  /\ Opened(Loaded)
  /\ mem' = [doc |-> Loaded, deltas |-> Deltas]

\* Which cannot be loaded: the run fails.
OpenFails ==
  /\ pc = "open"
  /\ pending = NoSeed
  /\ DOMAIN snaps # {}
  /\ Loaded = Broken
  /\ run' = [run EXCEPT !.status = "FAILED"]
  /\ mem' = NoMem
  /\ Leave
  /\ UNCHANGED <<body, done, snaps, audit, pending, starts, faults, committed>>

(***************************************************************************)
(* The workflow body.                                                      *)
(***************************************************************************)

AtKind(k) == pc = "body" /\ at <= Len(body) /\ body[at].kind = k

BodyUnchanged == UNCHANGED <<body, run, snaps, audit, mem, pending, nextIndex, resumed,
                             starts, faults, committed>>

Assign ==
  /\ AtKind("assign")
  /\ state' = [state EXCEPT ![body[at].field] = body[at].value]
  /\ at' = at + 1
  /\ UNCHANGED <<pc, done>>
  /\ BodyUnchanged

\* A completed step is memoised: its body, and what it did to the state, is skipped.
SkipStep ==
  /\ AtKind("step")
  /\ at \in done
  /\ at' = at + 1
  /\ UNCHANGED <<pc, done, state>>
  /\ BodyUnchanged

\* The step's body writes the state; _succeed puts the COMPLETED record, and then...
RunStep ==
  /\ AtKind("step")
  /\ at \notin done
  /\ state' = [state EXCEPT ![body[at].field] = body[at].value]
  /\ done' = done \cup {at}
  /\ Goto("snapshot")
  /\ UNCHANGED at
  /\ BodyUnchanged

\* ...takes the snapshot.
StepSnapshot ==
  /\ pc = "snapshot"
  /\ Snapshot(mem, state, nextIndex)
  /\ nextIndex' = nextIndex + 1
  /\ at' = at + 1
  /\ Goto("body")
  /\ UNCHANGED <<body, run, done, audit, pending, state, resumed, starts, faults>>

\* The caller of the step lets the error pass, or catches it.
StepSnapshotRaises ==
  /\ pc = "snapshot"
  /\ SnapshotRaises(mem, state, nextIndex)
  /\ nextIndex' = nextIndex + 1
  /\ at' = at + 1
  /\ \E l \in {"body", "fail"} : Goto(l)
  /\ UNCHANGED <<body, run, done, audit, pending, state, resumed, starts>>

\* Mutant: the recorded patch of a gate is not applied again.
AppliedNever(pos, d) == d

\* resumed_patches: the recorded patches of the gate, one after the other.
AppliedAgain(pos, d) ==
  LET after[i \in 0..Len(audit)] ==
        IF i = 0 THEN d
        ELSE IF audit[i].pos # pos THEN after[i - 1]
        ELSE IF after[i - 1] # Broken /\ Applies(audit[i].patch, after[i - 1])
          THEN Applied(audit[i].patch, after[i - 1])
          ELSE Broken
  IN after[Len(audit)]

PassGate ==
  /\ AtKind("gate")
  /\ at \in resumed
  /\ AppliedAgain(at, state) # Broken
  /\ state' = AppliedAgain(at, state)
  /\ at' = at + 1
  /\ UNCHANGED <<pc, done>>
  /\ BodyUnchanged

\* A recorded patch does not apply to the live state: pause() raises.
GateConflict ==
  /\ AtKind("gate")
  /\ at \in resumed
  /\ AppliedAgain(at, state) = Broken
  /\ Goto("fail")
  /\ UNCHANGED <<at, state, done>>
  /\ BodyUnchanged

\* pause() at an undecided gate, or a step that fails in a way that pauses the run.
Suspend ==
  /\ \/ AtKind("gate") /\ at \notin resumed
     \/ AtKind("step") /\ at \notin done
  /\ Snapshot(mem, state, nextIndex)
  /\ nextIndex' = nextIndex + 1
  /\ Goto("suspend")
  /\ UNCHANGED <<body, run, done, audit, pending, at, state, resumed, starts, faults>>

\* The error leaves pause(); an auto-pause that cannot be stored lets the step's
\* failure stand.
SuspendRaises ==
  /\ \/ AtKind("gate") /\ at \notin resumed
     \/ AtKind("step") /\ at \notin done
  /\ SnapshotRaises(mem, state, nextIndex)
  /\ nextIndex' = nextIndex + 1
  /\ Goto("fail")
  /\ UNCHANGED <<body, run, done, audit, pending, at, state, resumed, starts>>

\* The pause is stored; the close that follows takes no snapshot and keeps the pipeline.
SuspendPut ==
  /\ pc = "suspend"
  /\ run' = [status |-> "PAUSED", pos |-> at,
             origin |-> IF body[at].kind = "gate" THEN "gate" ELSE "auto"]
  /\ Leave
  /\ UNCHANGED <<body, done, snaps, audit, mem, pending, starts, faults, committed>>

\* The body raises.
BodyFails ==
  /\ pc = "body"
  /\ Goto("fail")
  /\ UNCHANGED <<at, state, done>>
  /\ BodyUnchanged

(***************************************************************************)
(* _close_run: a snapshot of the final state, and the final record.        *)
(***************************************************************************)

\* The execution is over: its outcome is what the run's status becomes.
Outcome == IF pc = "fail" THEN "FAILED" ELSE "COMPLETED"

Closing == pc = "fail" \/ (pc = "body" /\ at > Len(body))

CloseSnapshot ==
  /\ Closing
  /\ Snapshot(mem, state, nextIndex)
  /\ Goto(Outcome)
  /\ UNCHANGED <<body, run, done, audit, pending, context, starts, faults>>

CloseSnapshotRaises ==
  /\ Closing
  /\ SnapshotRaises(mem, state, nextIndex)
  /\ Goto("FAILED")
  /\ UNCHANGED <<body, run, done, audit, pending, context, starts>>

ClosePut ==
  /\ pc \in {"COMPLETED", "FAILED"}
  /\ run' = [run EXCEPT !.status = pc]
  /\ mem' = NoMem
  /\ Leave
  /\ UNCHANGED <<body, done, snaps, audit, pending, starts, faults, committed>>

(***************************************************************************)
(* _decide: an APPROVE or an EDIT of the pause.                            *)
(***************************************************************************)

DecideUnchanged == UNCHANGED <<body, done, at, nextIndex, resumed, starts, faults>>

\* The stored state is loaded, the patch applied to it, and the decision audited.
Decide(p) ==
  /\ pc = "off"
  /\ run.status = "PAUSED"
  /\ Len(audit) < MaxDecisions
  /\ Loaded # Broken
  /\ Applies(p, Loaded)
  /\ mem' = [doc |-> Loaded, deltas |-> Deltas]
  /\ state' = Applied(p, Loaded)
  /\ audit' = Append(audit, [pos |-> run.pos, patch |-> p,
                             before |-> Loaded, after |-> Applied(p, Loaded)])
  /\ Goto("decided")
  /\ UNCHANGED <<run, snaps, pending, committed>>
  /\ DecideUnchanged

\* The patch does not apply: the pipeline has been loaded, and the run stays paused.  A
\* load that raises changes nothing at all.
DecideRaises(p) ==
  /\ pc = "off"
  /\ run.status = "PAUSED"
  /\ Len(audit) < MaxDecisions
  /\ Loaded # Broken
  /\ ~Applies(p, Loaded)
  /\ mem' = [doc |-> Loaded, deltas |-> Deltas]
  /\ UNCHANGED <<run, snaps, audit, pending, pc, state, committed>>
  /\ DecideUnchanged

DecideSave ==
  /\ pc = "decided"
  /\ run' = [run EXCEPT !.status = "RUNNING", !.pos = 0]
  /\ Goto("saved")
  /\ UNCHANGED <<snaps, audit, mem, pending, state, committed>>
  /\ DecideUnchanged

\* A gate's decision is replayed from the audit log, so its execution starts from the
\* state that was reviewed; an auto-pause has no gate, so it starts from the decided one.
Seed ==
  [pos |-> Last(audit).pos,
   doc |-> IF run.origin = "gate" THEN Last(audit).before ELSE Last(audit).after]

Resumes ==
  /\ pending' = Seed
  /\ state' = Empty
  /\ Goto("open")

\* The decision changed nothing.
PersistNothing ==
  /\ pc = "saved"
  /\ Last(audit).after = Last(audit).before
  /\ Resumes
  /\ UNCHANGED <<run, snaps, audit, mem, committed>>
  /\ DecideUnchanged

\* Mutant: the pipeline is not dropped, and the boundary's index is used again.
PersistAtBoundary ==
  /\ pc = "saved"
  /\ Last(audit).after # Last(audit).before
  /\ Snapshot(mem, state, NewIndex - 1)
  /\ Resumes
  /\ UNCHANGED <<run, audit>>
  /\ DecideUnchanged

\* _persist_state_of_record: without a pipeline the snapshot is a base, above all others.
Persist ==
  /\ pc = "saved"
  /\ Last(audit).after # Last(audit).before
  /\ Snapshot(NoMem, state, NewIndex)
  /\ Resumes
  /\ UNCHANGED <<run, audit>>
  /\ DecideUnchanged

PersistRaises ==
  /\ pc = "saved"
  /\ Last(audit).after # Last(audit).before
  /\ SnapshotRaises(NoMem, state, NewIndex)
  /\ Leave
  /\ UNCHANGED <<body, run, done, audit, pending, starts>>

(***************************************************************************)
(* The process dies: inside a call, or while it waits for a reviewer.      *)
(***************************************************************************)

Die ==
  /\ mem' = NoMem
  /\ pending' = NoSeed
  /\ Leave
  /\ UNCHANGED <<body, storage, starts, committed>>

Crash ==
  /\ pc # "off"
  /\ crashes + raises < MaxFaults
  /\ crashes' = crashes + 1
  /\ UNCHANGED raises
  /\ Die

Restart ==
  /\ pc = "off"
  /\ mem # NoMem
  /\ UNCHANGED faults
  /\ Die

Next ==
  \/ Start \/ OpenPending \/ OpenFresh \/ OpenLoaded \/ OpenFails
  \/ Assign \/ SkipStep \/ RunStep \/ StepSnapshot \/ StepSnapshotRaises
  \/ PassGate \/ GateConflict \/ Suspend \/ SuspendRaises \/ SuspendPut \/ BodyFails
  \/ CloseSnapshot \/ CloseSnapshotRaises \/ ClosePut
  \/ \E p \in Patches \cup {NoPatch} : Decide(p) \/ DecideRaises(p)
  \/ DecideSave \/ PersistNothing \/ Persist \/ PersistRaises
  \/ Crash \/ Restart

Spec == Init /\ [][Next]_vars

-------------------------------------------------------------------------------

\* Unless a write has raised, the stored chain of bases and deltas can always be loaded,
\* and gives the state of the last snapshot that was acknowledged: a pause, a decision, a
\* compaction or a death at any moment loses nothing that was committed.
LoadIsCommitted == raises = 0 /\ DOMAIN snaps # {} => Loaded = committed

\* limits.md:70, "once @chowki.step finishes execution, its state snapshot and
\* idempotency record are already committed to storage, so a later crash resumes from
\* them": what is stored when a step's snapshot returns loads to the step's state.
ReturnedStepLoads == [][StepSnapshot => Loaded' = state]_vars

\* The document that the pipeline will diff the next state against is the one that a
\* fresh process would rebuild from storage, through pauses, decisions, compactions and
\* restarts.
MemoryMatchesStore == raises = 0 /\ mem # NoMem => mem = [doc |-> Loaded, deltas |-> Deltas]

\* A load never replays more deltas than MAX_DELTA_CHAIN, however many processes have
\* extended the chain.
ReplayIsBounded == raises = 0 => Deltas <= MaxDeltas

\* context.py:111, "a resumed execution can never write over a snapshot an earlier
\* execution wrote", and neither can a decision, whatever has crashed or raised.
NothingOverwritten ==
  [][\A i \in DOMAIN snaps : i \in DOMAIN snaps' /\ snaps'[i] = snaps[i]]_vars

DecidedOnce(pos) == Cardinality({i \in DOMAIN audit : audit[i].pos = pos}) = 1

WrittenBefore(pos, kinds) ==
  {body[i].field : i \in {j \in 1..(pos - 1) : body[j].kind \in kinds}}

\* The fields up to pos that every execution assigns anew, and no step writes.
Reassigned(pos) == WrittenBefore(pos, {"assign"}) \ WrittenBefore(Len(body) + 1, {"step"})

\* The gate that the body is at does not conflict with its only decision if that edits
\* one of these fields, and past the gate these fields are as the decision left them.
Reproduced(fields) ==
  \A i \in DOMAIN audit : audit[i].pos = at =>
    /\ GateConflict => audit[i].patch.field \notin fields
    /\ PassGate => \A f \in fields : state'[f] = audit[i].after[f]

\* runner.py:348, "applying the recorded patch reproduces the state they decided on,
\* deletions included, and it does so at every later gate and every later resume": of a
\* gate that was decided once, and of the fields that every execution assigns anew.
EditReproduced ==
  [][raises = 0 /\ DecidedOnce(at) => Reproduced(Reassigned(at))]_vars

\* hitl.md:17, "state written inside a step survives the pause": without a death or a
\* write that raises, what a memoised step wrote into the state is there for every later
\* execution that skips it, through any pauses and decisions, unless a reviewer has
\* taken it out.
SkippedStepIsInState ==
  [][crashes = 0 /\ raises = 0 /\ SkipStep =>
       \/ state[body[at].field] # Absent
       \/ \E i \in DOMAIN audit : audit[i].after[body[at].field] = Absent]_vars
===============================================================================
