---------------------------- MODULE StepMemoProofs ----------------------------
(***************************************************************************)
(* Theorems about StepMemo, for every value of its constants.              *)
(***************************************************************************)
EXTENDS StepMemo, TLAPS

\* The records that the code writes are records.
LEMMA Records ==
  /\ NoRecord \in StepRecord
  /\ \A st \in Status, a \in Arg, rp \in BOOLEAN, n \in Nat :
       [status |-> st, args |-> a, replayable |-> rp, result |-> n] \in StepRecord
  /\ \A a \in Arg \cup {NoArg}, rp \in BOOLEAN :
       [status |-> "COMPLETED", args |-> a, replayable |-> rp, result |-> 0]
         \in StepRecord
  /\ \A r \in StepRecord : r.args \in Arg \cup {NoArg} /\ r.result \in Nat
  BY DEF StepRecord, NoRecord, Status

\* Keys are pairs of a step and an argument hash.
LEMMA Keys ==
  /\ \A s \in Step, a \in Arg : <<s, a>> \in Key
  /\ \A k \in Key : k[1] \in Step /\ k[2] \in Arg /\ k = <<k[1], k[2]>>
  BY DEF Key

\* What is handed to a workflow is a result.
LEMMA Results ==
  \A a \in Arg \cup {NoArg}, n \in Nat : <<a, n>> \in Result
  BY DEF Result

\* Every reachable state of the step records, the claims and the workers is well
\* typed, whatever the number of workers, steps, arguments and executions.
THEOREM TypeCorrect == Spec => []TypeOK
<1>1. Init => TypeOK
  BY Records, BoundsAssumption
  DEF Init, TypeOK, StorageOK, WorkersOK, CallOK, Location, InStep
<1>2. TypeOK /\ [Next]_vars => TypeOK'
  <2> SUFFICES ASSUME TypeOK, [Next]_vars PROVE TypeOK'
    OBVIOUS
  <2> USE DEF TypeOK
  <2>1. ASSUME NEW w \in Worker, StartRun(w) PROVE TypeOK'
    <3> USE <2>1 DEF StartRun, Goto
    <3>1. StorageOK' BY BoundsAssumption DEF StorageOK
    <3>2. WorkersOK' BY DEF WorkersOK, Location
    <3>3. CallOK' BY DEF CallOK, WorkersOK, InStep
    <3>4. QED BY <3>1, <3>2, <3>3
  <2>2. ASSUME NEW w \in Worker, EndRun(w) \/ Crash(w) PROVE TypeOK'
    <3> USE <2>2 DEF EndRun, Crash, Forget, Goto
    <3>1. StorageOK' BY DEF StorageOK
    <3>2. WorkersOK' BY Records, BoundsAssumption DEF WorkersOK, Location
    <3>3. CallOK' BY DEF CallOK, WorkersOK, InStep
    <3>4. QED BY <3>1, <3>2, <3>3
  <2>3. ASSUME NEW w \in Worker, NEW s \in Step, NEW a \in Arg, BeginStep(w, s, a)
        PROVE TypeOK'
    <3> USE <2>3 DEF BeginStep, Goto
    <3>0. <<s, a>> \in Key BY Keys
    <3>1. <<record[s].args, record[s].result>> \in Result
      BY Records, Results DEF StorageOK
    <3>a. observed' \in [Key -> SUBSET Result]
      BY <3>0, <3>1 DEF StorageOK
    <3>b. StorageOK' BY <3>a DEF StorageOK
    <3>2. WorkersOK' BY <3>0 DEF WorkersOK, StorageOK, Location
    <3>3. CallOK' BY <3>0 DEF CallOK, WorkersOK, InStep
    <3>4. QED BY <3>b, <3>2, <3>3
  <2>4. ASSUME NEW w \in Worker,
               \/ SkipClaim(w) \/ WinClaim(w) \/ OverrideClaim(w) \/ RefuseClaim(w)
               \/ LoopDetected(w)
        PROVE TypeOK'
    <3> USE <2>4 DEF SkipClaim, WinClaim, OverrideClaim, RefuseClaim, LoopDetected,
                     ClaimUnchanged, Goto
    <3>0. call[w] \in Key BY DEF CallOK, InStep
    <3>1. StorageOK' BY <3>0 DEF StorageOK
    <3>2. WorkersOK' BY DEF WorkersOK, Location
    <3>3. CallOK' BY <3>0 DEF CallOK, WorkersOK, InStep
    <3>4. QED BY <3>1, <3>2, <3>3
  <2>5. ASSUME NEW w \in Worker, PutRunning(w) PROVE TypeOK'
    <3> USE <2>5 DEF PutRunning, Goto
    <3>0. call[w] \in Key /\ call[w][1] \in Step /\ call[w][2] \in Arg
      BY Keys DEF CallOK, InStep
    <3>1. StorageOK' BY <3>0, Records DEF StorageOK, Status
    <3>2. WorkersOK' BY BoundsAssumption DEF WorkersOK, Location
    <3>3. CallOK' BY <3>0 DEF CallOK, WorkersOK, InStep
    <3>4. QED BY <3>1, <3>2, <3>3
  <2>6. ASSUME NEW w \in Worker,
               \/ BodyReturns(w) \/ BodyRetries(w) \/ BodyFails(w) \/ BodyEscapes(w)
               \/ SucceedRaises(w)
        PROVE TypeOK'
    <3> USE <2>6 DEF BodyReturns, BodyRetries, BodyFails, BodyEscapes, SucceedRaises,
                     BodyUnchanged, Goto
    <3>0. call[w] \in Key BY DEF CallOK, InStep
    <3>1. StorageOK' BY <3>0 DEF StorageOK
    <3>2. WorkersOK' BY BoundsAssumption DEF WorkersOK, Location
    <3>3. CallOK' BY <3>0 DEF CallOK, WorkersOK, InStep
    <3>4. QED BY <3>1, <3>2, <3>3
  <2>7. ASSUME NEW w \in Worker, PutFailed(w) \/ PutCompleted(w) PROVE TypeOK'
    <3> USE DEF PutFailed, PutCompleted, Goto
    <3>0. call[w] \in Key /\ call[w][1] \in Step /\ call[w][2] \in Arg
      BY <2>7, Keys DEF CallOK, InStep
    <3>a. ASSUME PutFailed(w) PROVE StorageOK'
      <4>1. record' \in [Step -> StepRecord]
        BY <3>0, <3>a, Records DEF StorageOK, Status
      <4>2. QED BY <3>0, <3>a, <4>1 DEF StorageOK
    <3>b. ASSUME PutCompleted(w) PROVE StorageOK'
      <4>1. effects[call[w]] \in Nat BY <3>0 DEF StorageOK
      <4>2. <<call[w][2], effects[call[w]]>> \in Result BY <3>0, <4>1, Results
      <4> DEFINE rp == call[w][1] \notin Opaque
      <4>a. rp \in BOOLEAN OBVIOUS
      <4>b. record' = [record EXCEPT ![call[w][1]] =
                         [status |-> "COMPLETED", args |-> call[w][2],
                          replayable |-> rp, result |-> effects[call[w]]]]
        BY <3>b
      <4> HIDE DEF rp
      <4>3. record' \in [Step -> StepRecord]
        BY <3>0, <4>a, <4>b, <4>1, Records DEF StorageOK, Status
      <4>4. observed' \in [Key -> SUBSET Result]
        BY <3>0, <3>b, <4>2 DEF StorageOK
      <4>5. QED BY <3>b, <4>3, <4>4 DEF StorageOK
    <3>1. StorageOK' BY <3>a, <3>b, <2>7
    <3>2. WorkersOK' BY <2>7 DEF WorkersOK, Location
    <3>3. CallOK' BY <2>7, <3>0 DEF CallOK, WorkersOK, InStep
    <3>4. QED BY <3>1, <3>2, <3>3
  <2>8. ASSUME NEW s \in Step, ReleaseStep(s) PROVE TypeOK'
    BY <2>8 DEF ReleaseStep, StorageOK, WorkersOK, CallOK
  <2>9. ASSUME NEW s \in Step, NEW rp \in OperatorReplayable, CompleteStep(s, rp)
        PROVE TypeOK'
    <3> USE <2>9 DEF CompleteStep
    <3>1. StorageOK'
      BY Records, OperatorAssumption DEF StorageOK, Status
    <3>2. WorkersOK' BY DEF WorkersOK
    <3>3. CallOK' BY DEF CallOK
    <3>4. QED BY <3>1, <3>2, <3>3
  <2>10. CASE UNCHANGED vars
    BY <2>10 DEF vars, StorageOK, WorkersOK, CallOK
  <2>11. QED
    BY <2>1, <2>2, <2>3, <2>4, <2>5, <2>6, <2>7, <2>8, <2>9, <2>10
    DEF Next, WorkerNext, StepProgress, OperatorNext
<1>3. QED
  BY <1>1, <1>2, PTL DEF Spec

-------------------------------------------------------------------------------
(***************************************************************************)
(* Inductive invariants.                                                   *)
(***************************************************************************)

\* Inside the call, past the claim.
Holding == {"claimed", "body", "failing", "done"}

\* For any number of workers.  An effect keeps its claim because whoever reaches
\* the body of an idempotent step owns the claim, and because what lets a call
\* skip the claim, a completed record, is evidence that the effect happened.
OwnerInv ==
  /\ EffectKeepsClaim
  /\ \A w \in Worker :
       pc[w] \in Holding /\ call[w][1] \in Idempotent => call[w] \in claimed
  /\ \A s \in Step : record[s].status # "ABSENT" => record[s].args \in Arg
  /\ \A s \in Step :
       record[s].status = "COMPLETED" => effects[<<s, record[s].args>>] > 0
  /\ \A w \in Worker :
       pc[w] = "looked" /\ Completed(seen[w], call[w][2]) => effects[call[w]] > 0
  /\ \A w \in Worker : pc[w] = "done" => effects[call[w]] > 0

\* For any number of workers, about the guarded keys that never failed: one
\* holder at a time, whose effect has not happened before its body returns.
ExclusiveInv ==
  /\ \A k \in Guarded \ failed : effects[k] <= 1
  /\ \A w \in Worker :
       /\ pc[w] \in {"claimed", "body", "failing"}
       /\ call[w] \in Guarded \ failed
       => effects[call[w]] = 0
  /\ \A v, w \in Worker :
       /\ v # w
       /\ call[v] = call[w]
       /\ pc[v] \in Holding /\ pc[w] \in Holding
       => call[v] \notin Guarded \ failed
  /\ \A s \in Step :
       record[s].status = "FAILED" => <<s, record[s].args>> \in failed
  /\ \A w \in Worker :
       pc[w] = "looked" /\ FailedBefore(w) => call[w] \in failed
  /\ \A s \in Step :
       record[s].status = "COMPLETED" /\ s \notin Opaque => record[s].replayable
  /\ \A w \in Worker :
       pc[w] = "looked" /\ Completed(seen[w], call[w][2]) => call[w][1] \in Opaque

\* For a single worker, about all guarded keys.
SingleInv ==
  /\ ExactlyOnce
  /\ \A w \in Worker :
       pc[w] \in {"looked", "claimed"} => seen[w] = record[call[w][1]]
  /\ \A w \in Worker :
       pc[w] \in {"body", "failing", "done"} =>
         /\ record[call[w][1]].status = "RUNNING"
         /\ record[call[w][1]].args = call[w][2]
  /\ \A w \in Worker :
       pc[w] \in {"claimed", "body", "failing"} /\ call[w] \in Guarded =>
         effects[call[w]] = 0
  /\ \A k \in Guarded :
       record[k[1]].status = "FAILED" /\ record[k[1]].args = k[2] => effects[k] = 0

\* For a single worker, about what has been handed out for a guarded key: nothing but the
\* result that its record has, as long as the record is of this key.
ObservedInv ==
  \A k \in Guarded :
    /\ observed[k] # {} => effects[k] > 0
    /\ \A x, y \in observed[k] : x = y /\ x[1] = k[2]
    /\ record[k[1]].args = k[2] =>
         \A x \in observed[k] :
           /\ record[k[1]].status = "COMPLETED"
           /\ x = <<record[k[1]].args, record[k[1]].result>>

\* OwnerInv is preserved by every step.
LEMMA OwnerStep ==
  ASSUME TypeOK, TypeOK', OwnerInv, [Next]_vars
  PROVE  OwnerInv'
<1> USE DEF OwnerInv, EffectKeepsClaim, TypeOK, StorageOK, WorkersOK, CallOK,
            InStep, Holding, Goto
<1>1. ASSUME NEW w \in Worker, StartRun(w) PROVE OwnerInv'
  BY <1>1 DEF StartRun
<1>2. ASSUME NEW w \in Worker, EndRun(w) \/ Crash(w) PROVE OwnerInv'
  BY <1>2 DEF EndRun, Crash, Forget
<1>3. ASSUME NEW w \in Worker, NEW s \in Step, NEW a \in Arg, BeginStep(w, s, a)
      PROVE OwnerInv'
  BY <1>3 DEF BeginStep, Completed
<1>4. ASSUME NEW w \in Worker, SkipClaim(w) PROVE OwnerInv'
  BY <1>4 DEF SkipClaim, NeedsClaim, ClaimUnchanged
<1>5. ASSUME NEW w \in Worker,
             WinClaim(w) \/ OverrideClaim(w) \/ RefuseClaim(w) \/ LoopDetected(w)
      PROVE OwnerInv'
  BY <1>5 DEF WinClaim, OverrideClaim, RefuseClaim, LoopDetected, ClaimUnchanged
<1>6. ASSUME NEW w \in Worker, PutRunning(w) PROVE OwnerInv'
  BY <1>6, Keys DEF PutRunning
<1>7. ASSUME NEW w \in Worker, BodyReturns(w) PROVE OwnerInv'
  BY <1>7, Keys DEF BodyReturns, BodyUnchanged
<1>8. ASSUME NEW w \in Worker,
             BodyRetries(w) \/ BodyFails(w) \/ BodyEscapes(w) \/ SucceedRaises(w)
      PROVE OwnerInv'
  BY <1>8 DEF BodyRetries, BodyFails, BodyEscapes, SucceedRaises, BodyUnchanged
<1>9. ASSUME NEW w \in Worker, PutFailed(w) PROVE OwnerInv'
  BY <1>9, Keys DEF PutFailed
<1>10. ASSUME NEW w \in Worker, PutCompleted(w) PROVE OwnerInv'
  <2> USE <1>10 DEF PutCompleted
  <2>1. call[w] \in Key /\ call[w][1] \in Step /\ call[w][2] \in Arg
        /\ call[w] = <<call[w][1], call[w][2]>>
    BY Keys
  <2>2. /\ record'[call[w][1]].status = "COMPLETED"
        /\ record'[call[w][1]].args = call[w][2]
        /\ \A s \in Step : s # call[w][1] => record'[s] = record[s]
    BY <2>1
  <2>3. UNCHANGED <<claimed, effects>> /\ effects[call[w]] > 0
    OBVIOUS
  <2>4. pc' = [pc EXCEPT ![w] = "workflow"] /\ UNCHANGED <<call, seen>>
    OBVIOUS
  <2> USE DEF Completed
  <2>5. EffectKeepsClaim' BY ONLY OwnerInv, <2>3 DEF OwnerInv, EffectKeepsClaim
  <2>6. QED BY <2>1, <2>2, <2>3, <2>4, <2>5
<1>11. ASSUME NEW s \in Step, ReleaseStep(s) PROVE OwnerInv'
  <2> USE <1>11 DEF ReleaseStep, Quiet
  <2>1. EffectKeepsClaim' OBVIOUS
  <2>2. \A w \in Worker : pc'[w] = "off" OBVIOUS
  <2>3. QED BY <2>1, <2>2 DEF Completed
<1>12. ASSUME NEW s \in Step, NEW rp \in OperatorReplayable, CompleteStep(s, rp)
       PROVE OwnerInv'
  BY <1>12 DEF CompleteStep, Recorded
<1>13. CASE UNCHANGED vars
  BY <1>13 DEF vars, Completed
<1>14. QED
  BY <1>1, <1>2, <1>3, <1>4, <1>5, <1>6, <1>7, <1>8, <1>9, <1>10, <1>11, <1>12, <1>13
  DEF Next, WorkerNext, StepProgress, OperatorNext

\* Operators supply results that can be replayed.
OperatorSuppliesReplayable == OperatorReplayable \subseteq {TRUE}

\* ExclusiveInv is preserved by every step.
LEMMA ExclusiveStep ==
  ASSUME OperatorSuppliesReplayable,
         TypeOK, TypeOK', OwnerInv, ExclusiveInv, [Next]_vars
  PROVE  ExclusiveInv'
<1> USE DEF ExclusiveInv, TypeOK, StorageOK, WorkersOK, CallOK, InStep, Holding, Goto
<1>0. \A k \in Guarded : k \in Key /\ k[1] \in Idempotent /\ k[1] \notin Opaque
  BY DEF Guarded
<1>1. ASSUME NEW w \in Worker, StartRun(w) PROVE ExclusiveInv'
  BY <1>1 DEF StartRun, Completed, FailedBefore
<1>2. ASSUME NEW w \in Worker, EndRun(w) \/ Crash(w) PROVE ExclusiveInv'
  BY <1>2 DEF EndRun, Crash, Forget, Completed, FailedBefore
<1>3. ASSUME NEW w \in Worker, NEW s \in Step, NEW a \in Arg, BeginStep(w, s, a)
      PROVE ExclusiveInv'
  BY <1>3 DEF BeginStep, Completed, FailedBefore
<1>4. ASSUME NEW w \in Worker, SkipClaim(w) PROVE ExclusiveInv'
  <2>1. call[w] \notin Guarded
    BY <1>0, <1>4 DEF SkipClaim, NeedsClaim
  <2>2. QED
    BY <1>4, <2>1 DEF SkipClaim, ClaimUnchanged, Completed, FailedBefore
<1>5. ASSUME NEW w \in Worker, WinClaim(w) PROVE ExclusiveInv'
  <2>1. call[w] \in Guarded => effects[call[w]] = 0
    BY <1>0, <1>5 DEF WinClaim, OwnerInv, EffectKeepsClaim
  <2>2. \A v \in Worker : pc[v] \in Holding /\ call[v] \in Guarded => call[v] # call[w]
    BY <1>0, <1>5 DEF WinClaim, OwnerInv
  <2>3. QED
    BY <1>5, <2>1, <2>2 DEF WinClaim, ClaimUnchanged, Completed, FailedBefore
<1>6. ASSUME NEW w \in Worker, OverrideClaim(w) PROVE ExclusiveInv'
  <2>1. call[w] \in failed
    BY <1>6 DEF OverrideClaim
  <2>2. QED
    BY <1>6, <2>1 DEF OverrideClaim, ClaimUnchanged, Completed, FailedBefore
<1>7. ASSUME NEW w \in Worker, RefuseClaim(w) \/ LoopDetected(w) PROVE ExclusiveInv'
  BY <1>7 DEF RefuseClaim, LoopDetected, ClaimUnchanged, Completed, FailedBefore
<1>8. ASSUME NEW w \in Worker, PutRunning(w) PROVE ExclusiveInv'
  BY <1>8, Keys DEF PutRunning, Completed, FailedBefore
<1>9. ASSUME NEW w \in Worker, BodyReturns(w) PROVE ExclusiveInv'
  BY <1>0, <1>9, Keys DEF BodyReturns, BodyUnchanged, Completed, FailedBefore
<1>10. ASSUME NEW w \in Worker,
              BodyRetries(w) \/ BodyFails(w) \/ BodyEscapes(w) \/ SucceedRaises(w)
       PROVE ExclusiveInv'
  BY <1>10 DEF BodyRetries, BodyFails, BodyEscapes, SucceedRaises, BodyUnchanged,
               Completed, FailedBefore
<1>11. ASSUME NEW w \in Worker, PutFailed(w) PROVE ExclusiveInv'
  BY <1>11, Keys DEF PutFailed, Completed, FailedBefore
<1>12. ASSUME NEW w \in Worker, PutCompleted(w) PROVE ExclusiveInv'
  <2> USE <1>12 DEF PutCompleted
  <2>1. call[w] \in Key /\ call[w][1] \in Step /\ call[w][2] \in Arg
    BY Keys
  <2>2. /\ record'[call[w][1]].status = "COMPLETED"
        /\ call[w][1] \notin Opaque => record'[call[w][1]].replayable
        /\ \A s \in Step : s # call[w][1] => record'[s] = record[s]
    BY <2>1
  <2>3. /\ pc' = [pc EXCEPT ![w] = "workflow"]
        /\ UNCHANGED <<claimed, effects, failed, call, seen>>
    OBVIOUS
  <2> HIDE <1>12 DEF PutCompleted
  <2>4. QED BY <2>1, <2>2, <2>3 DEF Completed, FailedBefore
<1>13. ASSUME NEW s \in Step, ReleaseStep(s) PROVE ExclusiveInv'
  BY <1>13 DEF ReleaseStep, Completed, FailedBefore
<1>14. ASSUME NEW s \in Step, NEW rp \in OperatorReplayable, CompleteStep(s, rp)
       PROVE ExclusiveInv'
  BY <1>14 DEF CompleteStep, Quiet, Completed, FailedBefore,
               OperatorSuppliesReplayable
<1>15. CASE UNCHANGED vars
  BY <1>15 DEF vars, Completed, FailedBefore
<1>16. QED
  BY <1>1, <1>2, <1>3, <1>4, <1>5, <1>6, <1>7, <1>8, <1>9, <1>10, <1>11, <1>12,
     <1>13, <1>14, <1>15
  DEF Next, WorkerNext, StepProgress, OperatorNext

\* A single worker executes the run, as the documentation requires.
SingleWriter == \A v, w \in Worker : v = w

\* SingleInv is preserved by every step of a single worker.
LEMMA SingleStep ==
  ASSUME SingleWriter, OperatorSuppliesReplayable,
         TypeOK, TypeOK', OwnerInv, ExclusiveInv, SingleInv, [Next]_vars
  PROVE  SingleInv'
<1> USE DEF SingleInv, SingleWriter, ExactlyOnce, TypeOK, StorageOK, WorkersOK, CallOK,
            InStep, Goto
<1>0. \A k \in Guarded : k \in Key /\ k[1] \in Idempotent /\ k[1] \notin Opaque
                         /\ k[1] \in Step /\ k = <<k[1], k[2]>>
  BY Keys DEF Guarded
<1>1. ASSUME NEW w \in Worker, StartRun(w) PROVE SingleInv'
  BY <1>1 DEF StartRun
<1>2. ASSUME NEW w \in Worker, EndRun(w) \/ Crash(w) PROVE SingleInv'
  BY <1>2 DEF EndRun, Crash, Forget
<1>3. ASSUME NEW w \in Worker, NEW s \in Step, NEW a \in Arg, BeginStep(w, s, a)
      PROVE SingleInv'
  BY <1>3 DEF BeginStep
<1>4. ASSUME NEW w \in Worker, SkipClaim(w) PROVE SingleInv'
  <2>1. call[w] \notin Guarded
    BY <1>0, <1>4 DEF SkipClaim, NeedsClaim, ExclusiveInv
  <2>2. QED
    BY <1>4, <2>1 DEF SkipClaim, ClaimUnchanged
<1>5. ASSUME NEW w \in Worker, WinClaim(w) PROVE SingleInv'
  <2>1. call[w] \in Guarded => effects[call[w]] = 0
    BY <1>0, <1>5 DEF WinClaim, OwnerInv, EffectKeepsClaim
  <2>2. QED
    BY <1>5, <2>1 DEF WinClaim, ClaimUnchanged
<1>6. ASSUME NEW w \in Worker, OverrideClaim(w) PROVE SingleInv'
  <2>1. call[w] \in Guarded => effects[call[w]] = 0
    BY <1>6 DEF OverrideClaim, FailedBefore
  <2>2. QED
    BY <1>6, <2>1 DEF OverrideClaim, ClaimUnchanged
<1>7. ASSUME NEW w \in Worker, RefuseClaim(w) \/ LoopDetected(w) PROVE SingleInv'
  BY <1>7 DEF RefuseClaim, LoopDetected, ClaimUnchanged
<1>8. ASSUME NEW w \in Worker, PutRunning(w) PROVE SingleInv'
  BY <1>0, <1>8, Keys DEF PutRunning
<1>9. ASSUME NEW w \in Worker, BodyReturns(w) PROVE SingleInv'
  BY <1>0, <1>9, Keys DEF BodyReturns, BodyUnchanged
<1>10. ASSUME NEW w \in Worker,
              BodyRetries(w) \/ BodyFails(w) \/ BodyEscapes(w) \/ SucceedRaises(w)
       PROVE SingleInv'
  BY <1>10 DEF BodyRetries, BodyFails, BodyEscapes, SucceedRaises, BodyUnchanged
<1>11. ASSUME NEW w \in Worker, PutFailed(w) PROVE SingleInv'
  <2>1. \A k \in Guarded : k[1] = call[w][1] /\ k[2] = call[w][2] => k = call[w]
    BY <1>0, <1>11, Keys DEF PutFailed
  <2>2. QED BY <1>0, <1>11, <2>1, Keys DEF PutFailed
<1>12. ASSUME NEW w \in Worker, PutCompleted(w) PROVE SingleInv'
  <2> USE <1>12 DEF PutCompleted
  <2>1. call[w] \in Key /\ call[w][1] \in Step /\ call[w][2] \in Arg
    BY Keys
  <2>2. /\ record'[call[w][1]].status = "COMPLETED"
        /\ \A s \in Step : s # call[w][1] => record'[s] = record[s]
    BY <2>1
  <2>3. /\ pc' = [pc EXCEPT ![w] = "workflow"]
        /\ UNCHANGED <<claimed, effects, failed, call, seen>>
    OBVIOUS
  <2> HIDE <1>12 DEF PutCompleted
  <2>4. QED BY <1>0, <2>1, <2>2, <2>3
<1>13. ASSUME NEW s \in Step, ReleaseStep(s) PROVE SingleInv'
  BY <1>13 DEF ReleaseStep
<1>14. ASSUME NEW s \in Step, NEW rp \in OperatorReplayable, CompleteStep(s, rp)
       PROVE SingleInv'
  BY <1>0, <1>14 DEF CompleteStep, Quiet
<1>15. CASE UNCHANGED vars
  BY <1>15 DEF vars
<1>16. QED
  BY <1>1, <1>2, <1>3, <1>4, <1>5, <1>6, <1>7, <1>8, <1>9, <1>10, <1>11, <1>12,
     <1>13, <1>14, <1>15
  DEF Next, WorkerNext, StepProgress, OperatorNext

\* ObservedInv is preserved by every step of a single worker.
LEMMA ObservedStep ==
  ASSUME SingleWriter, TypeOK, OwnerInv, SingleInv, ObservedInv, [Next]_vars
  PROVE  ObservedInv'
<1>0. \A k \in Guarded : /\ k \in Key /\ k[1] \in Step /\ k[2] \in Arg
                         /\ k = <<k[1], k[2]>>
  BY Keys DEF Guarded
<1>1. ASSUME UNCHANGED <<record, effects, observed>> PROVE ObservedInv'
  BY <1>1 DEF ObservedInv
<1>2. ASSUME NEW w \in Worker, NEW s \in Step, NEW a \in Arg, BeginStep(w, s, a)
      PROVE  ObservedInv'
  <2>1. /\ UNCHANGED <<record, effects>>
        /\ \/ /\ Completed(record[s], a)
              /\ observed' = [observed EXCEPT ![<<s, a>>] =
                                @ \cup {<<record[s].args, record[s].result>>}]
           \/ UNCHANGED observed
    BY <1>2 DEF BeginStep
  <2>2. SUFFICES ASSUME NEW k \in Guarded, k = <<s, a>>, Completed(record[s], a),
                        observed'[k] = observed[k] \cup {<<record[s].args, record[s].result>>}
                 PROVE  /\ effects[k] > 0
                        /\ \A x \in observed'[k] : x = <<record[s].args, record[s].result>>
    <3>1. CASE UNCHANGED observed
      BY <1>1, <2>1, <3>1
    <3>2. ASSUME Completed(record[s], a),
                 observed' = [observed EXCEPT ![<<s, a>>] =
                                @ \cup {<<record[s].args, record[s].result>>}]
          PROVE  ObservedInv'
      <4>1. \A k \in Guarded : k # <<s, a>> => observed'[k] = observed[k]
        BY <1>0, <3>2 DEF TypeOK, StorageOK
      <4>2. \A k \in Guarded : k = <<s, a>> =>
              observed'[k] = observed[k] \cup {<<record[s].args, record[s].result>>}
        BY <1>0, <3>2 DEF TypeOK, StorageOK
      <4>3. ASSUME NEW k \in Guarded, k = <<s, a>>
            PROVE  /\ effects'[k] > 0
                   /\ \A x \in observed'[k] : x = <<record'[s].args, record'[s].result>>
        BY <2>1, <2>2, <3>2, <4>2, <4>3
      <4>4. record'[s].status = "COMPLETED" /\ record'[s].args = a
        BY <2>1, <3>2 DEF Completed
      <4>. QED BY <2>1, <4>1, <4>3, <4>4 DEF ObservedInv
    <3>. QED BY <2>1, <3>1, <3>2
  <2>3. k[1] = s /\ k[2] = a
    BY <2>2
  <2>4. record[s].status = "COMPLETED" /\ record[s].args = a
    BY <2>2 DEF Completed
  <2>5. effects[k] > 0
    BY <2>2, <2>4 DEF OwnerInv
  <2>6. \A x \in observed[k] : x = <<record[s].args, record[s].result>>
    BY <2>3, <2>4 DEF ObservedInv
  <2>. QED BY <2>2, <2>5, <2>6
<1>3. ASSUME NEW w \in Worker, PutRunning(w) PROVE ObservedInv'
  <2>1. /\ UNCHANGED <<effects, observed>> /\ pc[w] = "claimed"
        /\ call[w] \in Key /\ call[w][1] \in Step
        /\ record'[call[w][1]].args = call[w][2]
        /\ \A s \in Step : s # call[w][1] => record'[s] = record[s]
    BY <1>3, Keys DEF PutRunning, TypeOK, StorageOK, CallOK, InStep
  <2>2. call[w] \in Guarded => observed[call[w]] = {}
    BY <1>0, <2>1 DEF SingleInv, ObservedInv, TypeOK, StorageOK
  <2>3. \A k \in Guarded : k[1] = call[w][1] /\ k[2] = call[w][2] => k = call[w]
    BY <1>0, <2>1, Keys
  <2>4. ASSUME NEW k \in Guarded, record'[k[1]].args = k[2], observed[k] # {}
        PROVE  record'[k[1]] = record[k[1]]
    BY <1>0, <2>1, <2>2, <2>3, <2>4
  <2>. QED BY <2>1, <2>4 DEF ObservedInv
<1>4. ASSUME NEW w \in Worker, BodyReturns(w) PROVE ObservedInv'
  <2>1. /\ UNCHANGED <<record, observed>> /\ call[w] \in Key
        /\ effects' = [effects EXCEPT ![call[w]] = @ + 1]
    BY <1>4 DEF BodyReturns, BodyUnchanged, TypeOK, CallOK, InStep
  <2>2. \A k \in Guarded : effects[k] > 0 => effects'[k] > 0
    BY <1>0, <2>1 DEF TypeOK, StorageOK
  <2>. QED BY <2>1, <2>2 DEF ObservedInv
<1>5. ASSUME NEW w \in Worker, PutFailed(w) PROVE ObservedInv'
  <2>1. /\ UNCHANGED <<effects, observed>> /\ call[w] \in Key /\ call[w][1] \in Step
        /\ record'[call[w][1]].args = call[w][2]
        /\ record[call[w][1]].status = "RUNNING" /\ record[call[w][1]].args = call[w][2]
        /\ \A s \in Step : s # call[w][1] => record'[s] = record[s]
    BY <1>5, Keys DEF PutFailed, TypeOK, StorageOK, CallOK, InStep, SingleInv
  <2>2. ASSUME NEW k \in Guarded, record'[k[1]].args = k[2], observed[k] # {}
        PROVE  record'[k[1]] = record[k[1]]
    BY <1>0, <2>1, <2>2 DEF ObservedInv
  <2>. QED BY <2>1, <2>2 DEF ObservedInv
<1>6. ASSUME NEW w \in Worker, PutCompleted(w) PROVE ObservedInv'
  <2> DEFINE c == call[w]
             got == <<c[2], effects[c]>>
  <2>1. /\ c \in Key /\ c[1] \in Step /\ c[2] \in Arg /\ c = <<c[1], c[2]>>
        /\ UNCHANGED effects
        /\ effects[c] > 0
        /\ record[c[1]].status = "RUNNING" /\ record[c[1]].args = c[2]
    BY <1>6, Keys DEF PutCompleted, TypeOK, CallOK, InStep, SingleInv, OwnerInv
  <2>2. /\ record'[c[1]].status = "COMPLETED" /\ record'[c[1]].args = c[2]
        /\ record'[c[1]].result = effects[c]
        /\ \A s \in Step : s # c[1] => record'[s] = record[s]
    BY <1>6, <2>1 DEF PutCompleted, TypeOK, StorageOK
  <2>3. observed'[c] = observed[c] \cup {got} /\ \A k \in Key : k # c => observed'[k] = observed[k]
    BY <1>6, <2>1 DEF PutCompleted, TypeOK, StorageOK
  <2>4. c \in Guarded => observed[c] = {}
    BY <2>1 DEF ObservedInv
  <2>5. ASSUME NEW k \in Guarded, k # c
        PROVE  /\ observed'[k] = observed[k]
               /\ record'[k[1]].args = k[2] => record'[k[1]] = record[k[1]]
    BY <1>0, <2>1, <2>2, <2>3, <2>5
  <2> HIDE DEF c
  <2>6. c \in Guarded => observed'[c] = {<<record'[c[1]].args, record'[c[1]].result>>}
    BY <2>2, <2>3, <2>4
  <2>. QED BY <1>0, <2>1, <2>2, <2>5, <2>6 DEF ObservedInv
<1>7. ASSUME NEW s \in Step, NEW rp \in OperatorReplayable, CompleteStep(s, rp)
      PROVE  ObservedInv'
  <2>1. /\ UNCHANGED <<effects, observed>>
        /\ record[s].status # "COMPLETED"
        /\ record'[s].args = record[s].args
        /\ \A t \in Step : t # s => record'[t] = record[t]
    BY <1>7 DEF CompleteStep, TypeOK, StorageOK
  <2>2. ASSUME NEW k \in Guarded, record'[k[1]].args = k[2], observed[k] # {}
        PROVE  record'[k[1]] = record[k[1]]
    BY <1>0, <2>1, <2>2 DEF ObservedInv
  <2>. QED BY <2>1, <2>2 DEF ObservedInv
<1>8. QED
  BY <1>1, <1>2, <1>3, <1>4, <1>5, <1>6, <1>7
  DEF Next, WorkerNext, StepProgress, OperatorNext, vars, StartRun, EndRun, Crash, Forget,
      SkipClaim, WinClaim, OverrideClaim, RefuseClaim, LoopDetected, ClaimUnchanged,
      BodyRetries, BodyFails, BodyEscapes, SucceedRaises, BodyUnchanged, ReleaseStep

-------------------------------------------------------------------------------
(***************************************************************************)
(* The results.                                                            *)
(***************************************************************************)

\* The three invariants hold initially.
LEMMA InitInvs == Init => OwnerInv /\ ExclusiveInv /\ SingleInv
<1> SUFFICES ASSUME Init PROVE OwnerInv /\ ExclusiveInv /\ SingleInv
  OBVIOUS
<1> USE DEF Init, NoRecord, Guarded
<1>1. OwnerInv BY DEF OwnerInv, EffectKeepsClaim, Holding
<1>2. ExclusiveInv BY DEF ExclusiveInv, Holding
<1>3. SingleInv BY Keys DEF SingleInv, ExactlyOnce
<1>4. QED BY <1>1, <1>2, <1>3

\* However many workers run it and whatever the operator supplies, the claim of
\* an effect that happened is held for ever (claim_idempotency_key, release_step).
THEOREM EffectsKeepTheirClaim == Spec => []EffectKeepsClaim
<1>1. Init => OwnerInv BY InitInvs
<1>2. TypeOK /\ TypeOK' /\ OwnerInv /\ [Next]_vars => OwnerInv' BY OwnerStep
<1>3. OwnerInv => EffectKeepsClaim BY DEF OwnerInv
<1>4. QED BY <1>1, <1>2, <1>3, TypeCorrect, PTL DEF Spec

\* However many workers execute the run at once, the effect of a guarded call is
\* repeated only after a failure of that call was recorded (_begin's override).
THEOREM FirstAttemptsExclusive ==
  ASSUME OperatorSuppliesReplayable
  PROVE  Spec => []FirstAttemptExclusive
<1>1. Init => OwnerInv /\ ExclusiveInv BY InitInvs
<1>2. TypeOK /\ TypeOK' /\ OwnerInv /\ ExclusiveInv /\ [Next]_vars
      => OwnerInv' /\ ExclusiveInv'
  BY OwnerStep, ExclusiveStep
<1>3. TypeOK /\ ExclusiveInv => FirstAttemptExclusive
  BY DEF ExclusiveInv, FirstAttemptExclusive, TypeOK, StorageOK, Guarded
<1>4. QED BY <1>1, <1>2, <1>3, TypeCorrect, PTL DEF Spec

\* For a single worker the three invariants hold together.
LEMMA SingleWriterInvs ==
  ASSUME SingleWriter, OperatorSuppliesReplayable
  PROVE  Spec => [](TypeOK /\ OwnerInv /\ ExclusiveInv /\ SingleInv)
<1>1. Init => OwnerInv /\ ExclusiveInv /\ SingleInv BY InitInvs
<1>2. TypeOK /\ TypeOK' /\ OwnerInv /\ ExclusiveInv /\ SingleInv /\ [Next]_vars
      => OwnerInv' /\ ExclusiveInv' /\ SingleInv'
  BY OwnerStep, ExclusiveStep, SingleStep
<1>3. QED BY <1>1, <1>2, TypeCorrect, PTL DEF Spec

\* The promise of the idempotent step: with a single writer, through any crashes,
\* resumes, argument changes and operator actions, the effect happens at most once.
THEOREM EffectsHappenOnce ==
  ASSUME SingleWriter, OperatorSuppliesReplayable
  PROVE  Spec => []ExactlyOnce
<1>1. SingleInv => ExactlyOnce BY DEF SingleInv
<1>2. QED BY <1>1, SingleWriterInvs, PTL

\* With a single writer, whatever is interrupted, resumed or completed by the operator, all
\* executions are handed the same result for a guarded call, and it is one of that call.
THEOREM ReplaysAgree ==
  ASSUME SingleWriter, OperatorSuppliesReplayable
  PROVE  Spec => []ReplayStable
<1>1. Init => ObservedInv
  BY Keys DEF Init, ObservedInv, Guarded
<1>2. TypeOK /\ OwnerInv /\ SingleInv /\ ObservedInv /\ [Next]_vars => ObservedInv'
  BY ObservedStep
<1>3. ObservedInv => ReplayStable
  BY DEF ObservedInv, ReplayStable
<1>4. QED BY <1>1, <1>2, <1>3, SingleWriterInvs, PTL DEF Spec

\* With a single writer no step of the code or the operator reopens a completed
\* guarded call; only a call with other arguments replaces its record.
THEOREM CompletedCallsStay ==
  ASSUME SingleWriter, OperatorSuppliesReplayable
  PROVE  Spec => CompletedStays
<1> DEFINE Stays == \A k \in Guarded :
             Completed(record[k[1]], k[2]) =>
               \/ Completed(record'[k[1]], k[2])
               \/ record'[k[1]].args # k[2]
<1>1. TypeOK /\ OwnerInv /\ ExclusiveInv /\ SingleInv /\ [Next]_vars => Stays
  <2> SUFFICES ASSUME TypeOK, OwnerInv, ExclusiveInv, SingleInv, [Next]_vars,
                      NEW k \in Guarded, Completed(record[k[1]], k[2]),
                      record'[k[1]].args = k[2]
               PROVE  Completed(record'[k[1]], k[2])
    OBVIOUS
  <2>0. k \in Key /\ k[1] \in Step /\ k = <<k[1], k[2]>>
    BY Keys DEF Guarded
  <2>1. effects[k] > 0
    BY <2>0 DEF OwnerInv, Completed
  <2>2. ASSUME NEW w \in Worker, PutRunning(w) PROVE record'[k[1]] = record[k[1]]
    <3>1. call[w] \in Key /\ call[w][1] \in Step
      BY <2>2, Keys DEF PutRunning, TypeOK, CallOK, InStep
    <3>2. call[w] # k
      BY <2>1, <2>2 DEF PutRunning, SingleInv
    <3>3. record'[call[w][1]].args = call[w][2]
      BY <2>2, <3>1 DEF PutRunning, TypeOK, StorageOK
    <3>4. call[w][1] # k[1]
      BY <2>0, <3>1, <3>2, <3>3, Keys
    <3>5. QED
      BY <2>0, <2>2, <3>4 DEF PutRunning, TypeOK, StorageOK
  <2>3. ASSUME NEW w \in Worker, PutFailed(w) \/ PutCompleted(w)
        PROVE  record'[k[1]] = record[k[1]]
    <3>1. record[call[w][1]].status = "RUNNING"
      BY <2>3 DEF PutFailed, PutCompleted, SingleInv
    <3>2. call[w][1] # k[1]
      BY <3>1 DEF Completed
    <3>3. QED
      BY <2>0, <2>3, <3>2 DEF PutFailed, PutCompleted, TypeOK, StorageOK
  <2>4. ASSUME NEW s \in Step, NEW rp \in OperatorReplayable, CompleteStep(s, rp)
        PROVE  record'[k[1]] = record[k[1]]
    BY <2>0, <2>4 DEF CompleteStep, Completed, TypeOK, StorageOK
  <2>5. CASE UNCHANGED record
    BY <2>5
  <2>6. QED
    BY <2>2, <2>3, <2>4, <2>5
    DEF Next, WorkerNext, StepProgress, OperatorNext, vars, StartRun, EndRun, Crash,
        Forget, BeginStep, SkipClaim, WinClaim, OverrideClaim, RefuseClaim,
        LoopDetected, ClaimUnchanged, BodyReturns, BodyRetries, BodyFails,
        BodyEscapes, SucceedRaises, BodyUnchanged, ReleaseStep
<1>2. QED BY <1>1, SingleWriterInvs, PTL DEF Spec, CompletedStays

\* With a single writer the claims and effects of a run refine the abstract ledger:
\* claim, then at most one effect, and no claim freed after it.
THEOREM LedgerImplemented ==
  ASSUME SingleWriter, OperatorSuppliesReplayable
  PROVE  Spec => ImplementsLedger
<1>0. \A k \in Guarded : k \in Key /\ k[1] \in Idempotent
  BY DEF Guarded
<1>1. Init => Ledger!Init
  BY <1>0 DEF Init, Ledger!Init
<1>2. TypeOK /\ OwnerInv /\ SingleInv /\ [Next]_vars => [Ledger!Next]_(Ledger!ledger)
  <2> SUFFICES ASSUME TypeOK, OwnerInv, SingleInv, [Next]_vars
               PROVE  Ledger!Next \/ UNCHANGED Ledger!ledger
    OBVIOUS
  <2>1. CASE UNCHANGED <<claimed, effects>>
    BY <2>1 DEF Ledger!ledger
  <2>2. ASSUME NEW w \in Worker, WinClaim(w)
        PROVE  Ledger!Next \/ UNCHANGED Ledger!ledger
    <3>1. CASE call[w] \in Guarded
      <4>1. Ledger!Claim(call[w])
        BY <2>2, <3>1 DEF WinClaim, ClaimUnchanged, Ledger!Claim
      <4>2. QED BY <3>1, <4>1 DEF Ledger!Next
    <3>2. CASE call[w] \notin Guarded
      BY <2>2, <3>2 DEF WinClaim, ClaimUnchanged, Ledger!ledger
    <3>3. QED BY <3>1, <3>2
  <2>3. ASSUME NEW w \in Worker, BodyReturns(w)
        PROVE  Ledger!Next \/ UNCHANGED Ledger!ledger
    <3>1. CASE call[w] \in Guarded
      <4>1. call[w] \in claimed /\ effects[call[w]] = 0
        BY <1>0, <2>3, <3>1 DEF BodyReturns, OwnerInv, SingleInv, Holding
      <4>2. PICK k \in Guarded : k = call[w]
        BY <3>1
      <4>3. Ledger!Happen(k)
        BY <1>0, <2>3, <4>1, <4>2
        DEF BodyReturns, BodyUnchanged, TypeOK, StorageOK, Ledger!Happen
      <4>4. QED BY <4>3 DEF Ledger!Next
    <3>2. CASE call[w] \notin Guarded
      BY <1>0, <2>3, <3>2
      DEF BodyReturns, BodyUnchanged, TypeOK, StorageOK, Ledger!ledger
    <3>3. QED BY <3>1, <3>2
  <2>4. ASSUME NEW s \in Step, ReleaseStep(s)
        PROVE  Ledger!Next \/ UNCHANGED Ledger!ledger
    <3> DEFINE k == <<s, record[s].args>>
    <3>1. claimed' = claimed \ {k} /\ effects[k] = 0 /\ UNCHANGED effects
      BY <2>4 DEF ReleaseStep
    <3> HIDE DEF k
    <3>2. CASE k \in Guarded /\ k \in claimed
      <4>1. Ledger!Free(k)
        BY <3>1, <3>2 DEF Ledger!Free
      <4>2. QED BY <3>2, <4>1 DEF Ledger!Next
    <3>3. CASE k \notin Guarded \/ k \notin claimed
      BY <3>1, <3>3 DEF Ledger!ledger
    <3>4. QED BY <3>2, <3>3
  <2>5. QED
    BY <2>1, <2>2, <2>3, <2>4
    DEF Next, WorkerNext, StepProgress, OperatorNext, vars, StartRun, EndRun, Crash,
        Forget, BeginStep, SkipClaim, OverrideClaim, RefuseClaim,
        LoopDetected, ClaimUnchanged, PutRunning, BodyRetries, BodyFails,
        BodyEscapes, SucceedRaises, BodyUnchanged, PutFailed, PutCompleted,
        CompleteStep
<1>3. QED
  BY <1>1, <1>2, SingleWriterInvs, PTL DEF Spec, ImplementsLedger, Ledger!Spec
===============================================================================
