---------------------------- MODULE RunGateProofs ----------------------------
(***************************************************************************)
(* The safety of the gates, for any number of threads, gates, tokens and   *)
(* faults.  GateInv is the inductive invariant, in six parts: the types,   *)
(* where tokens are (Issued), how far an execution is (Control), what a    *)
(* thread that decides may rely on (Decided), what an execution may take   *)
(* for approved (Followed), and who owes the run its last record           *)
(* (Settled).  Each part has one lemma, with one step per action.          *)
(***************************************************************************)
EXTENDS RunGate, TLAPS

Location == {"idle", "openread", "openput", "load", "body", "suspend", "notify", "raised",
             "close", "verify", "decide", "save", "persist"}

Status == {"ABSENT", "PENDING", "RUNNING", "PAUSED", "COMPLETED", "FAILED", "REJECTED"}

Record == [status : Status, pause : Nat]

Typed ==
  /\ run \in Record
  /\ audit \subseteq [step : Nat, action : Decision, token : Nat]
  /\ tokens \in Seq(Nat)
  /\ pending \subseteq Nat
  /\ pc \in [Handler -> Location]
  /\ copy \in [Handler -> Record]
  /\ hand \in [Handler -> [token : Nat, decision : Decision]]
  /\ pos \in [Handler -> Nat]
  /\ resumed \in [Handler -> SUBSET Nat]
  /\ ctxPause \in [Handler -> Nat]
  /\ caught \in [Handler -> SUBSET Nat]
  /\ outcome \in [Handler -> {"return", "paused", "raise", "rejected"}]
  /\ known \in [Handler -> SUBSET Nat]

\* A handler at one of these places has a token in its hand.
Holding(h) ==
  pc[h] \in {"suspend", "notify", "raised", "verify", "decide", "save", "persist"}

\* Every token that is around has been issued, and for the step of its entry.
Issued ==
  /\ delivered \subseteq DOMAIN tokens
  /\ consumed \subseteq DOMAIN tokens
  /\ \A h \in Handler :
       /\ Holding(h) => hand[h].token \in DOMAIN tokens
       /\ pc[h] = "close" /\ outcome[h] = "paused" => hand[h].token \in DOMAIN tokens \cup {0}
       /\ caught[h] \subseteq DOMAIN tokens
  /\ \A a \in audit : a.token \in DOMAIN tokens /\ a.step = tokens[a.token]

\* Where an execution is, how its body ended, and whether it has asked to pause.
Control ==
  \A h \in Handler :
    /\ pc[h] \notin {"suspend", "notify", "raised", "close"} => outcome[h] = "return"
    /\ pc[h] \in {"suspend", "notify", "raised"} =>
         outcome[h] \in {"return", "paused"} /\ ctxPause[h] # NoPause

\* A token past verify() is consumed, in no other such hand, and in no entry yet.
Decided ==
  /\ \A a \in audit : a.token \in consumed
  /\ \A h \in Handler : pc[h] = "decide" =>
       /\ hand[h].token \in consumed
       /\ \A a \in audit : a.token # hand[h].token
  /\ \A g, h \in Handler :
       pc[g] = "decide" /\ pc[h] = "decide" /\ hand[g].token = hand[h].token => g = h
  /\ OneDecisionPerToken

\* What an execution takes for decided is on record, and it keeps what was on record when
\* it began until it is past it.
Followed ==
  /\ pending \subseteq Approved
  /\ \A h \in Handler :
       /\ pc[h] \in {"save", "persist"} /\ hand[h].decision = "APPROVE" =>
            tokens[hand[h].token] \in Approved
       /\ pc[h] = "persist" => hand[h].decision = "APPROVE"
       /\ resumed[h] \subseteq Approved
       /\ pc[h] \in {"openput", "load"} => known[h] \subseteq Approved
       /\ pc[h] \in {"body", "suspend", "notify", "raised"} =>
            \A g \in known[h] : g < pos[h] \/ g \in resumed[h]

\* A record that is RUNNING is some handler's to settle.
Executing(h) ==
  pc[h] \in {"openread", "openput", "load", "body", "suspend", "notify", "raised", "close",
             "persist"}

Settled ==
  /\ PausedCanBeReissued
  /\ \A h \in Handler :
       pc[h] \in {"decide", "save"} => copy[h].status = "PAUSED"
  /\ run.status = "RUNNING" => abandoned \/ \E h \in Handler : Executing(h)

GateInv == Typed /\ Issued /\ Control /\ Decided /\ Followed /\ Settled

\* Groups of variables and plain constants, expanded everywhere.
USE DEF storage, letters, stack, local, counts, Goto, NoPause, Unpaused, NoHand, Decision, Gate,
        Breach

-------------------------------------------------------------------------------

(* The audit log only grows, and so does what it approves. *)
LEMMA ApprovedGrows ==
  ASSUME audit \subseteq audit'
  PROVE  Approved \subseteq Approved'
BY DEF Approved

(* Approved gates are step ids. *)
LEMMA ApprovedIsGates ==
  ASSUME Typed
  PROVE  Approved \subseteq Nat
BY DEF Approved, Typed

(* The entry of a token that was issued is well formed. *)
LEMMA EntryTyped ==
  ASSUME Typed, NEW h \in Handler, hand[h].token \in DOMAIN tokens
  PROVE  /\ tokens[hand[h].token] \in Nat
         /\ Entry(h) \in [step : Nat, action : Decision, token : Nat]
BY DEF Typed, Entry

(* What _close_run writes is a record, off RUNNING, and PAUSED without a pause request *)
(* only for a stray WorkflowPaused. *)
LEMMA FinalRecordTyped ==
  ASSUME Typed, NEW h \in Handler, pc[h] = "close"
  PROVE  /\ FinalRecord(h) \in Record
         /\ FinalRecord(h).status # "RUNNING"
         /\ FinalRecord(h).status = "PAUSED" /\ FinalRecord(h).pause = NoPause => Stray(h)
<1>1. copy[h] \in Record /\ ctxPause[h] \in Nat
  BY DEF Typed
<1>2. outcome[h] \in {"return", "paused", "raise", "rejected"}
  BY DEF Typed
<1>3. CASE outcome[h] = "paused" \/ (outcome[h] = "return" /\ ctxPause[h] # NoPause)
  BY <1>1, <1>3 DEF FinalRecord, Record, Status, Stray
<1>4. CASE ctxPause[h] = NoPause /\ outcome[h] = "return"
  BY <1>1, <1>4 DEF FinalRecord, Record, Status, Stray
<1>5. CASE outcome[h] \in {"raise", "rejected"}
  BY <1>1, <1>5 DEF FinalRecord, Record, Status, Stray
<1> QED
  BY <1>2, <1>3, <1>4, <1>5

-------------------------------------------------------------------------------

(* Every step keeps the types. *)
LEMMA TypedNext ==
  ASSUME Typed, Issued, Control, [Next]_vars
  PROVE  Typed'
<1>1. CASE UNCHANGED vars
  BY <1>1 DEF vars, Typed, Record, Status, Location
<1>2. ASSUME NEW h \in Handler, Start(h) PROVE Typed'
  BY <1>2 DEF Start, Typed, Record, Status, Location
<1>3. ASSUME NEW h \in Handler, OpenRead(h) PROVE Typed'
  BY <1>3, ApprovedIsGates DEF OpenRead, Typed, Record, Status, Location
<1>4. ASSUME NEW h \in Handler, OpenPut(h) PROVE Typed'
  BY <1>4 DEF OpenPut, Typed, Record, Status, Location
<1>5. ASSUME NEW h \in Handler, Load(h) PROVE Typed'
  BY <1>5, ApprovedIsGates DEF Load, Typed, Record, Status, Location
<1>6. ASSUME NEW h \in Handler, OpenFails(h) PROVE Typed'
  BY <1>6 DEF OpenFails, Leave, Typed, Record, Status, Location
<1>7. ASSUME NEW h \in Handler, PassGate(h) PROVE Typed'
  BY <1>7 DEF PassGate, Typed, Record, Status, Location
<1>8. ASSUME NEW h \in Handler, ReachGate(h) PROVE Typed'
  BY <1>8, GateAssumption DEF ReachGate, Suspend, Issue, Breach, Gate, Typed, Record, Status,
     Location
<1>9. ASSUME NEW h \in Handler, AutoPause(h) PROVE Typed'
  BY <1>9, GateAssumption DEF AutoPause, Suspend, Issue, Breach, Gate, Typed, Record, Status,
     Location
<1>10. ASSUME NEW h \in Handler, SuspendPut(h) PROVE Typed'
  BY <1>10 DEF SuspendPut, Typed, Record, Status, Location
<1>11. ASSUME NEW h \in Handler, Notify(h) PROVE Typed'
  BY <1>11 DEF Notify, Typed, Record, Status, Location
<1>12. ASSUME NEW h \in Handler, LeavePaused(h) PROVE Typed'
  BY <1>12 DEF LeavePaused, EndBody, Typed, Record, Status, Location
<1>13. ASSUME NEW h \in Handler, SwallowPause(h) PROVE Typed'
  BY <1>13 DEF SwallowPause, Typed, Record, Status, Location
<1>14. ASSUME NEW h \in Handler, Finish(h) PROVE Typed'
  BY <1>14 DEF Finish, EndBody, Typed, Record, Status, Location
<1>15. ASSUME NEW h \in Handler, BodyFails(h) PROVE Typed'
  BY <1>15 DEF BodyFails, EndBody, Typed, Record, Status, Location
<1>16. ASSUME NEW h \in Handler, Close(h) PROVE Typed'
  BY <1>16, FinalRecordTyped DEF Close, Leave, Raised, Stray, Typed, Record, Status, Location
<1>17. ASSUME NEW h \in Handler, VerifyReplayed(h) PROVE Typed'
  BY <1>17 DEF VerifyReplayed, Leave, Typed, Record, Status, Location
<1>18. ASSUME NEW h \in Handler, Verify(h) PROVE Typed'
  <2>1. CASE copy[h].status = "PAUSED"
    BY <1>18, <2>1 DEF Verify, Typed, Record, Status, Location
  <2>2. CASE copy[h].status # "PAUSED"
    <3>1. /\ Leave(h) /\ UNCHANGED <<run, audit, letters, pending, counts>>
          /\ consumed' = consumed \cup {hand[h].token}
      BY <1>18, <2>2 DEF Verify
    <3> QED
      BY <1>18, <3>1 DEF Verify, Leave, Typed, Record, Status, Location
  <2> QED
    BY <2>1, <2>2
<1>19. ASSUME NEW h \in Handler, DecideFails(h) PROVE Typed'
  BY <1>19 DEF DecideFails, Leave, Typed, Record, Status, Location
<1>20. ASSUME NEW h \in Handler, Decide(h) PROVE Typed'
  <2>1. Entry(h) \in [step : Nat, action : Decision, token : Nat]
    BY <1>20, EntryTyped DEF Decide, Issued, Holding
  <2> QED
    BY <1>20, <2>1 DEF Decide, Typed, Location
<1>21. ASSUME NEW h \in Handler, DecideEscalate(h) PROVE Typed'
  <2>1. /\ Entry(h) \in [step : Nat, action : Decision, token : Nat]
        /\ tokens[hand[h].token] \in Nat
    BY <1>21, EntryTyped DEF DecideEscalate, Issued, Holding
  <2>2. tokens' \in Seq(Nat) /\ Len(tokens) + 1 \in Nat
    BY <1>21, <2>1 DEF DecideEscalate, Issue, Typed
  <2>3. hand' \in [Handler -> [token : Nat, decision : Decision]]
    BY <1>21, <2>2 DEF DecideEscalate, Typed
  <2> QED
    BY <1>21, <2>1, <2>2, <2>3 DEF DecideEscalate, Typed, Location
<1>22. ASSUME NEW h \in Handler, SaveRejected(h) PROVE Typed'
  BY <1>22 DEF SaveRejected, Leave, Typed, Record, Status, Location
<1>23. ASSUME NEW h \in Handler, SaveEscalated(h) PROVE Typed'
  BY <1>23 DEF SaveEscalated, Leave, Typed, Record, Status, Location
<1>24. ASSUME NEW h \in Handler, SaveAccepted(h) PROVE Typed'
  BY <1>24 DEF SaveAccepted, Typed, Record, Status, Location
<1>25. ASSUME NEW h \in Handler, Persist(h) PROVE Typed'
  <2>1. tokens[hand[h].token] \in Nat
    BY <1>25, EntryTyped DEF Persist, Issued, Holding
  <2> QED
    BY <1>25, <2>1 DEF Persist, Typed, Location
<1>26. ASSUME NEW h \in Handler, InvokeFails(h) PROVE Typed'
  <2>1. tokens[hand[h].token] \in Nat
    BY <1>26, EntryTyped DEF InvokeFails, Issued, Holding
  <2> QED
    BY <1>26, <2>1 DEF InvokeFails, Leave, Typed, Record, Status, Location
<1>27. ASSUME NEW h \in Handler, NEW t \in delivered, NEW d \in Decision, Resume(h, t, d)
      PROVE Typed'
  <2>1. t \in Nat
    BY DEF Issued, Typed
  <2> QED
    BY <1>27, <2>1 DEF Resume, Typed, Location
<1>28. ASSUME Reissue PROVE Typed'
  BY <1>28 DEF Reissue, Issue, Typed, Record, Status, Location
<1>29. ASSUME Recover PROVE Typed'
  BY <1>29 DEF Recover, Typed, Record, Status, Location
<1>30. ASSUME Crash PROVE Typed'
  BY <1>30 DEF Crash, Fault, Typed, Record, Status, Location
<1>31. ASSUME NEW h \in Handler, CallRaises(h) PROVE Typed'
  BY <1>31 DEF CallRaises, Fault, Leave, Typed, Record, Status, Location
<1>32. ASSUME NEW h \in Handler, LoadRaises(h) PROVE Typed'
  BY <1>32 DEF LoadRaises, Fault, Leave, Typed, Record, Status, Location
<1>33. ASSUME NEW h \in Handler, SnapshotRaises(h) PROVE Typed'
  BY <1>33 DEF SnapshotRaises, Fault, Typed, Record, Status, Location
<1>34. ASSUME NEW h \in Handler, SuspendRaises(h) PROVE Typed'
  BY <1>34 DEF SuspendRaises, EndBody, Fault, Typed, Record, Status, Location
<1>35. ASSUME NEW h \in Handler, SwallowRaised(h) PROVE Typed'
  BY <1>35 DEF SwallowRaised, Fault, Typed, Record, Status, Location
<1>36. ASSUME NEW h \in Handler, RaiseCaught(h) PROVE Typed'
  <2>1. PICK t \in caught[h] \cup {0} : hand' = [hand EXCEPT ![h].token = t]
    BY <1>36 DEF RaiseCaught
  <2>2. t \in Nat
    BY <2>1 DEF Typed
  <2>3. hand' \in [Handler -> [token : Nat, decision : Decision]]
    BY <2>1, <2>2 DEF Typed
  <2>4. EndBody(h, "paused")
    BY <1>36 DEF RaiseCaught
  <2> QED
    BY <2>3, <2>4 DEF EndBody, Typed, Record, Status, Location
<1>37. ASSUME NEW h \in Handler, CloseUnsaved(h) PROVE Typed'
  BY <1>37 DEF CloseUnsaved, Raised, Stray, Fault, Leave, Typed, Record, Status, Location
<1> QED
  BY <1>1, <1>2, <1>3, <1>4, <1>5, <1>6, <1>7, <1>8, <1>9, <1>10, <1>11, <1>12, <1>13, <1>14,
     <1>15, <1>16, <1>17, <1>18, <1>19, <1>20, <1>21, <1>22, <1>23, <1>24, <1>25, <1>26, <1>27,
     <1>28, <1>29, <1>30, <1>31, <1>32, <1>33, <1>34, <1>35, <1>36,
     <1>37 DEF Next, Progress

(* Tokens are only appended, and a hand gets one from a delivery or from Issue. *)
LEMMA IssuedNext ==
  ASSUME Typed, Control, Issued, [Next]_vars
  PROVE  Issued'
<1>1. CASE UNCHANGED vars
  BY <1>1 DEF vars, Typed, Location, Control, Issued, Holding
<1>2. ASSUME NEW h \in Handler, Start(h) PROVE Issued'
  BY <1>2 DEF Start, Typed, Location, Control, Issued, Holding
<1>3. ASSUME NEW h \in Handler, OpenRead(h) PROVE Issued'
  BY <1>3 DEF OpenRead, Typed, Location, Control, Issued, Holding
<1>4. ASSUME NEW h \in Handler, OpenPut(h) PROVE Issued'
  BY <1>4 DEF OpenPut, Typed, Location, Control, Issued, Holding
<1>5. ASSUME NEW h \in Handler, Load(h) PROVE Issued'
  BY <1>5 DEF Load, Typed, Location, Control, Issued, Holding
<1>6. ASSUME NEW h \in Handler, OpenFails(h) PROVE Issued'
  BY <1>6 DEF OpenFails, Leave, Typed, Location, Control, Issued, Holding
<1>7. ASSUME NEW h \in Handler, PassGate(h) PROVE Issued'
  BY <1>7 DEF PassGate, Typed, Location, Control, Issued, Holding
<1>8. ASSUME NEW h \in Handler, ReachGate(h) PROVE Issued'
  BY <1>8 DEF ReachGate, Suspend, Issue, Breach, Gate, Typed, Location, Control, Issued, Holding
<1>9. ASSUME NEW h \in Handler, AutoPause(h) PROVE Issued'
  BY <1>9 DEF AutoPause, Suspend, Issue, Breach, Gate, Typed, Location, Control, Issued, Holding
<1>10. ASSUME NEW h \in Handler, SuspendPut(h) PROVE Issued'
  BY <1>10 DEF SuspendPut, Typed, Location, Control, Issued, Holding
<1>11. ASSUME NEW h \in Handler, Notify(h) PROVE Issued'
  BY <1>11 DEF Notify, Typed, Location, Control, Issued, Holding
<1>12. ASSUME NEW h \in Handler, LeavePaused(h) PROVE Issued'
  BY <1>12 DEF LeavePaused, EndBody, Typed, Location, Control, Issued, Holding
<1>13. ASSUME NEW h \in Handler, SwallowPause(h) PROVE Issued'
  BY <1>13 DEF SwallowPause, Typed, Location, Control, Issued, Holding
<1>14. ASSUME NEW h \in Handler, Finish(h) PROVE Issued'
  BY <1>14 DEF Finish, EndBody, Typed, Location, Control, Issued, Holding
<1>15. ASSUME NEW h \in Handler, BodyFails(h) PROVE Issued'
  BY <1>15 DEF BodyFails, EndBody, Typed, Location, Control, Issued, Holding
<1>16. ASSUME NEW h \in Handler, Close(h) PROVE Issued'
  BY <1>16 DEF Close, Leave, Raised, Stray, FinalRecord, Typed, Location, Control, Issued, Holding
<1>17. ASSUME NEW h \in Handler, VerifyReplayed(h) PROVE Issued'
  BY <1>17 DEF VerifyReplayed, Leave, Typed, Location, Control, Issued, Holding
<1>18. ASSUME NEW h \in Handler, Verify(h) PROVE Issued'
  <2>1. CASE copy[h].status = "PAUSED"
    BY <1>18, <2>1 DEF Verify, Typed, Location, Issued, Holding
  <2>2. CASE copy[h].status # "PAUSED"
    <3>1. /\ Leave(h) /\ UNCHANGED <<run, audit, letters, pending, counts>>
          /\ consumed' = consumed \cup {hand[h].token}
      BY <1>18, <2>2 DEF Verify
    <3> QED
      BY <1>18, <3>1 DEF Verify, Leave, Typed, Location, Issued, Holding
  <2> QED
    BY <2>1, <2>2
<1>19. ASSUME NEW h \in Handler, DecideFails(h) PROVE Issued'
  BY <1>19 DEF DecideFails, Leave, Typed, Location, Control, Issued, Holding
<1>20. ASSUME NEW h \in Handler, Decide(h) PROVE Issued'
  BY <1>20 DEF Decide, Entry, Typed, Location, Control, Issued, Holding
<1>21. ASSUME NEW h \in Handler, DecideEscalate(h) PROVE Issued'
  <2>1. /\ DOMAIN tokens \subseteq DOMAIN tokens' /\ Len(tokens) + 1 \in DOMAIN tokens'
        /\ \A t \in DOMAIN tokens : tokens'[t] = tokens[t]
    BY <1>21 DEF DecideEscalate, Issue, Typed
  <2>2. \A a \in audit' : a.token \in DOMAIN tokens /\ a.step = tokens[a.token]
    BY <1>21 DEF DecideEscalate, Entry, Issued, Holding
  <2> QED
    BY <1>21, <2>1, <2>2 DEF DecideEscalate, Typed, Location, Issued, Holding
<1>22. ASSUME NEW h \in Handler, SaveRejected(h) PROVE Issued'
  BY <1>22 DEF SaveRejected, Leave, Typed, Location, Control, Issued, Holding
<1>23. ASSUME NEW h \in Handler, SaveEscalated(h) PROVE Issued'
  BY <1>23 DEF SaveEscalated, Leave, Typed, Location, Control, Issued, Holding
<1>24. ASSUME NEW h \in Handler, SaveAccepted(h) PROVE Issued'
  BY <1>24 DEF SaveAccepted, Typed, Location, Control, Issued, Holding
<1>25. ASSUME NEW h \in Handler, Persist(h) PROVE Issued'
  BY <1>25 DEF Persist, Typed, Location, Control, Issued, Holding
<1>26. ASSUME NEW h \in Handler, InvokeFails(h) PROVE Issued'
  BY <1>26 DEF InvokeFails, Leave, Typed, Location, Control, Issued, Holding
<1>27. ASSUME NEW h \in Handler, NEW t \in delivered, NEW d \in Decision, Resume(h, t, d)
      PROVE Issued'
  BY <1>27 DEF Resume, Typed, Location, Control, Issued, Holding
<1>28. ASSUME Reissue PROVE Issued'
  BY <1>28 DEF Reissue, Issue, Typed, Location, Control, Issued, Holding
<1>29. ASSUME Recover PROVE Issued'
  BY <1>29 DEF Recover, Typed, Location, Control, Issued, Holding
<1>30. ASSUME Crash PROVE Issued'
  BY <1>30 DEF Crash, Fault, Typed, Location, Control, Issued, Holding
<1>31. ASSUME NEW h \in Handler, CallRaises(h) PROVE Issued'
  BY <1>31 DEF CallRaises, Fault, Leave, Typed, Location, Control, Issued, Holding
<1>32. ASSUME NEW h \in Handler, LoadRaises(h) PROVE Issued'
  BY <1>32 DEF LoadRaises, Fault, Leave, Typed, Location, Control, Issued, Holding
<1>33. ASSUME NEW h \in Handler, SnapshotRaises(h) PROVE Issued'
  BY <1>33 DEF SnapshotRaises, Fault, Typed, Location, Control, Issued, Holding
<1>34. ASSUME NEW h \in Handler, SuspendRaises(h) PROVE Issued'
  BY <1>34 DEF SuspendRaises, EndBody, Fault, Typed, Location, Control, Issued, Holding
<1>35. ASSUME NEW h \in Handler, SwallowRaised(h) PROVE Issued'
  BY <1>35 DEF SwallowRaised, Fault, Typed, Location, Control, Issued, Holding
<1>36. ASSUME NEW h \in Handler, RaiseCaught(h) PROVE Issued'
  BY <1>36 DEF RaiseCaught, EndBody, Typed, Location, Control, Issued, Holding
<1>37. ASSUME NEW h \in Handler, CloseUnsaved(h) PROVE Issued'
  BY <1>37 DEF CloseUnsaved, Raised, Stray, Fault, Leave, Typed, Location, Control, Issued, Holding
<1> QED
  BY <1>1, <1>2, <1>3, <1>4, <1>5, <1>6, <1>7, <1>8, <1>9, <1>10, <1>11, <1>12, <1>13, <1>14,
     <1>15, <1>16, <1>17, <1>18, <1>19, <1>20, <1>21, <1>22, <1>23, <1>24, <1>25, <1>26, <1>27,
     <1>28, <1>29, <1>30, <1>31, <1>32, <1>33, <1>34, <1>35, <1>36,
     <1>37 DEF Next, Progress

(* An execution is closed as paused only after it has asked to pause. *)
LEMMA ControlNext ==
  ASSUME Typed, Control, [Next]_vars
  PROVE  Control'
<1>1. CASE UNCHANGED vars
  BY <1>1 DEF vars, Typed, Location, Control, AllIdle
<1>2. ASSUME NEW h \in Handler, Start(h) PROVE Control'
  BY <1>2 DEF Start, Typed, Location, Control, AllIdle
<1>3. ASSUME NEW h \in Handler, OpenRead(h) PROVE Control'
  BY <1>3 DEF OpenRead, Typed, Location, Control, AllIdle
<1>4. ASSUME NEW h \in Handler, OpenPut(h) PROVE Control'
  BY <1>4 DEF OpenPut, Typed, Location, Control, AllIdle
<1>5. ASSUME NEW h \in Handler, Load(h) PROVE Control'
  BY <1>5 DEF Load, Typed, Location, Control, AllIdle
<1>6. ASSUME NEW h \in Handler, OpenFails(h) PROVE Control'
  BY <1>6 DEF OpenFails, Leave, Typed, Location, Control, AllIdle
<1>7. ASSUME NEW h \in Handler, PassGate(h) PROVE Control'
  BY <1>7 DEF PassGate, Typed, Location, Control, AllIdle
<1>8. ASSUME NEW h \in Handler, ReachGate(h) PROVE Control'
  BY <1>8, GateAssumption DEF ReachGate, Suspend, Issue, Breach, Gate, Typed, Location, Control,
     AllIdle
<1>9. ASSUME NEW h \in Handler, AutoPause(h) PROVE Control'
  BY <1>9, GateAssumption DEF AutoPause, Suspend, Issue, Breach, Gate, Typed, Location, Control,
     AllIdle
<1>10. ASSUME NEW h \in Handler, SuspendPut(h) PROVE Control'
  BY <1>10 DEF SuspendPut, Typed, Location, Control, AllIdle
<1>11. ASSUME NEW h \in Handler, Notify(h) PROVE Control'
  BY <1>11 DEF Notify, Typed, Location, Control, AllIdle
<1>12. ASSUME NEW h \in Handler, LeavePaused(h) PROVE Control'
  BY <1>12 DEF LeavePaused, EndBody, Typed, Location, Control, AllIdle
<1>13. ASSUME NEW h \in Handler, SwallowPause(h) PROVE Control'
  BY <1>13 DEF SwallowPause, Typed, Location, Control, AllIdle
<1>14. ASSUME NEW h \in Handler, Finish(h) PROVE Control'
  BY <1>14 DEF Finish, EndBody, Typed, Location, Control, AllIdle
<1>15. ASSUME NEW h \in Handler, BodyFails(h) PROVE Control'
  BY <1>15 DEF BodyFails, EndBody, Typed, Location, Control, AllIdle
<1>16. ASSUME NEW h \in Handler, Close(h) PROVE Control'
  BY <1>16 DEF Close, Leave, Raised, Stray, FinalRecord, Typed, Location, Control, AllIdle
<1>17. ASSUME NEW h \in Handler, VerifyReplayed(h) PROVE Control'
  BY <1>17 DEF VerifyReplayed, Leave, Typed, Location, Control, AllIdle
<1>18. ASSUME NEW h \in Handler, Verify(h) PROVE Control'
  <2>1. CASE copy[h].status = "PAUSED"
    <3>1. pc[h] = "verify" /\ Goto(h, "decide") /\ UNCHANGED stack
      BY <1>18, <2>1 DEF Verify
    <3> QED
      BY <3>1 DEF Goto, stack, Typed, Location, Control
  <2>2. CASE copy[h].status # "PAUSED"
    <3>1. pc[h] = "verify" /\ Leave(h)
      BY <1>18, <2>2 DEF Verify
    <3> QED
      BY <3>1 DEF Leave, Typed, Location, Control
  <2> QED
    BY <2>1, <2>2
<1>19. ASSUME NEW h \in Handler, DecideFails(h) PROVE Control'
  BY <1>19 DEF DecideFails, Leave, Typed, Location, Control, AllIdle
<1>20. ASSUME NEW h \in Handler, Decide(h) PROVE Control'
  BY <1>20 DEF Decide, Entry, Typed, Location, Control, AllIdle
<1>21. ASSUME NEW h \in Handler, DecideEscalate(h) PROVE Control'
  BY <1>21 DEF DecideEscalate, Entry, Issue, Typed, Location, Control, AllIdle
<1>22. ASSUME NEW h \in Handler, SaveRejected(h) PROVE Control'
  BY <1>22 DEF SaveRejected, Leave, Typed, Location, Control, AllIdle
<1>23. ASSUME NEW h \in Handler, SaveEscalated(h) PROVE Control'
  BY <1>23 DEF SaveEscalated, Leave, Typed, Location, Control, AllIdle
<1>24. ASSUME NEW h \in Handler, SaveAccepted(h) PROVE Control'
  BY <1>24 DEF SaveAccepted, Typed, Location, Control, AllIdle
<1>25. ASSUME NEW h \in Handler, Persist(h) PROVE Control'
  BY <1>25 DEF Persist, Typed, Location, Control, AllIdle
<1>26. ASSUME NEW h \in Handler, InvokeFails(h) PROVE Control'
  BY <1>26 DEF InvokeFails, Leave, Typed, Location, Control, AllIdle
<1>27. ASSUME NEW h \in Handler, NEW t \in delivered, NEW d \in Decision, Resume(h, t, d)
      PROVE Control'
  BY <1>27 DEF Resume, Typed, Location, Control, AllIdle
<1>28. ASSUME Reissue PROVE Control'
  BY <1>28 DEF Reissue, Issue, Typed, Location, Control, AllIdle
<1>29. ASSUME Recover PROVE Control'
  BY <1>29 DEF Recover, Typed, Location, Control, AllIdle
<1>30. ASSUME Crash PROVE Control'
  BY <1>30 DEF Crash, Fault, Typed, Location, Control, AllIdle
<1>31. ASSUME NEW h \in Handler, CallRaises(h) PROVE Control'
  BY <1>31 DEF CallRaises, Fault, Leave, Typed, Location, Control, AllIdle
<1>32. ASSUME NEW h \in Handler, LoadRaises(h) PROVE Control'
  BY <1>32 DEF LoadRaises, Fault, Leave, Typed, Location, Control, AllIdle
<1>33. ASSUME NEW h \in Handler, SnapshotRaises(h) PROVE Control'
  BY <1>33 DEF SnapshotRaises, Fault, Typed, Location, Control, AllIdle
<1>34. ASSUME NEW h \in Handler, SuspendRaises(h) PROVE Control'
  BY <1>34 DEF SuspendRaises, EndBody, Fault, Typed, Location, Control, AllIdle
<1>35. ASSUME NEW h \in Handler, SwallowRaised(h) PROVE Control'
  BY <1>35 DEF SwallowRaised, Fault, Typed, Location, Control, AllIdle
<1>36. ASSUME NEW h \in Handler, RaiseCaught(h) PROVE Control'
  BY <1>36 DEF RaiseCaught, EndBody, Typed, Location, Control, AllIdle
<1>37. ASSUME NEW h \in Handler, CloseUnsaved(h) PROVE Control'
  BY <1>37 DEF CloseUnsaved, Raised, Stray, Fault, Leave, Typed, Location, Control, AllIdle
<1> QED
  BY <1>1, <1>2, <1>3, <1>4, <1>5, <1>6, <1>7, <1>8, <1>9, <1>10, <1>11, <1>12, <1>13, <1>14,
     <1>15, <1>16, <1>17, <1>18, <1>19, <1>20, <1>21, <1>22, <1>23, <1>24, <1>25, <1>26, <1>27,
     <1>28, <1>29, <1>30, <1>31, <1>32, <1>33, <1>34, <1>35, <1>36,
     <1>37 DEF Next, Progress

(* Verify consumes the token that it lets pass, so that no second hand passes with it. *)
LEMMA DecidedNext ==
  ASSUME Typed, Issued, Decided, [Next]_vars
  PROVE  Decided'
<1>1. CASE UNCHANGED vars
  BY <1>1 DEF vars, Typed, Location, Issued, Holding, Decided, OneDecisionPerToken
<1>2. ASSUME NEW h \in Handler, Start(h) PROVE Decided'
  BY <1>2 DEF Start, Typed, Location, Issued, Holding, Decided, OneDecisionPerToken
<1>3. ASSUME NEW h \in Handler, OpenRead(h) PROVE Decided'
  BY <1>3 DEF OpenRead, Typed, Location, Issued, Holding, Decided, OneDecisionPerToken
<1>4. ASSUME NEW h \in Handler, OpenPut(h) PROVE Decided'
  BY <1>4 DEF OpenPut, Typed, Location, Issued, Holding, Decided, OneDecisionPerToken
<1>5. ASSUME NEW h \in Handler, Load(h) PROVE Decided'
  BY <1>5 DEF Load, Typed, Location, Issued, Holding, Decided, OneDecisionPerToken
<1>6. ASSUME NEW h \in Handler, OpenFails(h) PROVE Decided'
  BY <1>6 DEF OpenFails, Leave, Typed, Location, Issued, Holding, Decided, OneDecisionPerToken
<1>7. ASSUME NEW h \in Handler, PassGate(h) PROVE Decided'
  BY <1>7 DEF PassGate, Typed, Location, Issued, Holding, Decided,
     OneDecisionPerToken
<1>8. ASSUME NEW h \in Handler, ReachGate(h) PROVE Decided'
  BY <1>8 DEF ReachGate, Suspend, Issue, Breach, Gate, Typed, Location, Issued, Holding, Decided,
     OneDecisionPerToken
<1>9. ASSUME NEW h \in Handler, AutoPause(h) PROVE Decided'
  BY <1>9 DEF AutoPause, Suspend, Issue, Breach, Gate, Typed, Location, Issued, Holding, Decided,
     OneDecisionPerToken
<1>10. ASSUME NEW h \in Handler, SuspendPut(h) PROVE Decided'
  BY <1>10 DEF SuspendPut, Typed, Location, Issued, Holding, Decided, OneDecisionPerToken
<1>11. ASSUME NEW h \in Handler, Notify(h) PROVE Decided'
  BY <1>11 DEF Notify, Typed, Location, Issued, Holding, Decided, OneDecisionPerToken
<1>12. ASSUME NEW h \in Handler, LeavePaused(h) PROVE Decided'
  BY <1>12 DEF LeavePaused, EndBody, Typed, Location, Issued, Holding, Decided,
     OneDecisionPerToken
<1>13. ASSUME NEW h \in Handler, SwallowPause(h) PROVE Decided'
  BY <1>13 DEF SwallowPause, Typed, Location, Issued, Holding, Decided,
     OneDecisionPerToken
<1>14. ASSUME NEW h \in Handler, Finish(h) PROVE Decided'
  BY <1>14 DEF Finish, EndBody, Typed, Location, Issued, Holding, Decided,
     OneDecisionPerToken
<1>15. ASSUME NEW h \in Handler, BodyFails(h) PROVE Decided'
  BY <1>15 DEF BodyFails, EndBody, Typed, Location, Issued, Holding, Decided,
     OneDecisionPerToken
<1>16. ASSUME NEW h \in Handler, Close(h) PROVE Decided'
  BY <1>16 DEF Close, Leave, Raised, Stray, FinalRecord, Typed, Location, Issued, Holding, Decided,
     OneDecisionPerToken
<1>17. ASSUME NEW h \in Handler, VerifyReplayed(h) PROVE Decided'
  BY <1>17 DEF VerifyReplayed, Leave, Typed, Location, Issued, Holding, Decided,
     OneDecisionPerToken
<1>18. ASSUME NEW h \in Handler, Verify(h) PROVE Decided'
  <2>1. /\ consumed' = consumed \cup {hand[h].token}
        /\ hand[h].token \notin consumed
        /\ UNCHANGED audit
        /\ pc[h] = "verify"
        /\ \A g \in Handler : pc'[g] = "decide" => hand'[g] = hand[g] /\ (g = h \/ pc[g] =
           "decide")
    <3>1. CASE copy[h].status = "PAUSED"
      BY <1>18, <3>1 DEF Verify, Typed
    <3>2. CASE copy[h].status # "PAUSED"
      BY <1>18, <3>2 DEF Verify, Leave, Typed
    <3> QED
      BY <3>1, <3>2
  <2>2. \A a \in audit : a.token # hand[h].token
    BY <2>1 DEF Decided
  <2>3. \A g \in Handler : pc[g] = "decide" => hand[g].token # hand[h].token
    BY <2>1 DEF Decided
  <2> QED
    BY <2>1, <2>2, <2>3 DEF Decided, OneDecisionPerToken
<1>19. ASSUME NEW h \in Handler, DecideFails(h) PROVE Decided'
  BY <1>19 DEF DecideFails, Leave, Typed, Location, Issued, Holding, Decided, OneDecisionPerToken
<1>20. ASSUME NEW h \in Handler, Decide(h) PROVE Decided'
  BY <1>20 DEF Decide, Entry, Typed, Location, Issued, Holding, Decided, OneDecisionPerToken
<1>21. ASSUME NEW h \in Handler, DecideEscalate(h) PROVE Decided'
  BY <1>21 DEF DecideEscalate, Entry, Issue, Typed, Location, Issued, Holding, Decided,
     OneDecisionPerToken
<1>22. ASSUME NEW h \in Handler, SaveRejected(h) PROVE Decided'
  BY <1>22 DEF SaveRejected, Leave, Typed, Location, Issued, Holding, Decided, OneDecisionPerToken
<1>23. ASSUME NEW h \in Handler, SaveEscalated(h) PROVE Decided'
  BY <1>23 DEF SaveEscalated, Leave, Typed, Location, Issued, Holding, Decided,
     OneDecisionPerToken
<1>24. ASSUME NEW h \in Handler, SaveAccepted(h) PROVE Decided'
  BY <1>24 DEF SaveAccepted, Typed, Location, Issued, Holding, Decided, OneDecisionPerToken
<1>25. ASSUME NEW h \in Handler, Persist(h) PROVE Decided'
  BY <1>25 DEF Persist, Typed, Location, Issued, Holding, Decided, OneDecisionPerToken
<1>26. ASSUME NEW h \in Handler, InvokeFails(h) PROVE Decided'
  BY <1>26 DEF InvokeFails, Leave, Typed, Location, Issued, Holding, Decided, OneDecisionPerToken
<1>27. ASSUME NEW h \in Handler, NEW t \in delivered, NEW d \in Decision, Resume(h, t, d)
      PROVE Decided'
  BY <1>27 DEF Resume, Typed, Location, Issued, Holding, Decided, OneDecisionPerToken
<1>28. ASSUME Reissue PROVE Decided'
  BY <1>28 DEF Reissue, Issue, Typed, Location, Issued, Holding, Decided, OneDecisionPerToken
<1>29. ASSUME Recover PROVE Decided'
  BY <1>29 DEF Recover, Typed, Location, Issued, Holding, Decided, OneDecisionPerToken
<1>30. ASSUME Crash PROVE Decided'
  BY <1>30 DEF Crash, Fault, Typed, Location, Issued, Holding, Decided, OneDecisionPerToken
<1>31. ASSUME NEW h \in Handler, CallRaises(h) PROVE Decided'
  BY <1>31 DEF CallRaises, Fault, Leave, Typed, Location, Issued, Holding, Decided,
     OneDecisionPerToken
<1>32. ASSUME NEW h \in Handler, LoadRaises(h) PROVE Decided'
  BY <1>32 DEF LoadRaises, Fault, Leave, Typed, Location, Issued, Holding, Decided,
     OneDecisionPerToken
<1>33. ASSUME NEW h \in Handler, SnapshotRaises(h) PROVE Decided'
  BY <1>33 DEF SnapshotRaises, Fault, Typed, Location, Issued, Holding, Decided,
     OneDecisionPerToken
<1>34. ASSUME NEW h \in Handler, SuspendRaises(h) PROVE Decided'
  BY <1>34 DEF SuspendRaises, EndBody, Fault, Typed, Location, Issued, Holding, Decided,
     OneDecisionPerToken
<1>35. ASSUME NEW h \in Handler, SwallowRaised(h) PROVE Decided'
  BY <1>35 DEF SwallowRaised, Fault, Typed, Location, Issued, Holding, Decided,
     OneDecisionPerToken
<1>36. ASSUME NEW h \in Handler, RaiseCaught(h) PROVE Decided'
  BY <1>36 DEF RaiseCaught, EndBody, Typed, Location, Issued, Holding, Decided,
     OneDecisionPerToken
<1>37. ASSUME NEW h \in Handler, CloseUnsaved(h) PROVE Decided'
  BY <1>37 DEF CloseUnsaved, Raised, Stray, Fault, Leave, Typed, Location, Issued, Holding, Decided,
     OneDecisionPerToken
<1> QED
  BY <1>1, <1>2, <1>3, <1>4, <1>5, <1>6, <1>7, <1>8, <1>9, <1>10, <1>11, <1>12, <1>13, <1>14,
     <1>15, <1>16, <1>17, <1>18, <1>19, <1>20, <1>21, <1>22, <1>23, <1>24, <1>25, <1>26, <1>27,
     <1>28, <1>29, <1>30, <1>31, <1>32, <1>33, <1>34, <1>35, <1>36,
     <1>37 DEF Next, Progress

(* Load takes all that is on record; the body goes past a gate in one way or the other. *)
LEMMA FollowedNext ==
  ASSUME Typed, Issued, Followed, [Next]_vars
  PROVE  Followed'
<1>1. CASE UNCHANGED vars
  BY <1>1, ApprovedGrows DEF vars, Typed, Location, Followed
<1>2. ASSUME NEW h \in Handler, Start(h) PROVE Followed'
  BY <1>2, ApprovedGrows DEF Start, Typed, Location, Followed
<1>3. ASSUME NEW h \in Handler, OpenRead(h) PROVE Followed'
  BY <1>3, ApprovedGrows DEF OpenRead, Typed, Location, Followed
<1>4. ASSUME NEW h \in Handler, OpenPut(h) PROVE Followed'
  BY <1>4, ApprovedGrows DEF OpenPut, Typed, Location, Followed
<1>5. ASSUME NEW h \in Handler, Load(h) PROVE Followed'
  BY <1>5, ApprovedGrows DEF Load, Typed, Location, Followed
<1>6. ASSUME NEW h \in Handler, OpenFails(h) PROVE Followed'
  BY <1>6, ApprovedGrows DEF OpenFails, Leave, Typed, Location, Followed
<1>7. ASSUME NEW h \in Handler, PassGate(h) PROVE Followed'
  <2>1. Approved \subseteq Approved'
    BY <1>7, ApprovedGrows DEF PassGate
  <2>2. \A g \in known[h] : g < pos[h] + 1 \/ g \in resumed[h] \ {pos[h]}
    BY <1>7 DEF PassGate, Followed, Typed
  <2> QED
    BY <1>7, <2>1, <2>2 DEF PassGate, Typed, Followed
<1>8. ASSUME NEW h \in Handler, ReachGate(h) PROVE Followed'
  BY <1>8, ApprovedGrows DEF ReachGate, Suspend, Issue, Breach, Gate, Typed, Location, Issued,
     Holding, Followed
<1>9. ASSUME NEW h \in Handler, AutoPause(h) PROVE Followed'
  BY <1>9, ApprovedGrows DEF AutoPause, Suspend, Issue, Breach, Gate, Typed, Location, Issued,
     Holding, Followed
<1>10. ASSUME NEW h \in Handler, SuspendPut(h) PROVE Followed'
  BY <1>10, ApprovedGrows DEF SuspendPut, Typed, Location, Followed
<1>11. ASSUME NEW h \in Handler, Notify(h) PROVE Followed'
  BY <1>11, ApprovedGrows DEF Notify, Typed, Location, Followed
<1>12. ASSUME NEW h \in Handler, LeavePaused(h) PROVE Followed'
  BY <1>12, ApprovedGrows DEF LeavePaused, EndBody, Typed, Location, Followed
<1>13. ASSUME NEW h \in Handler, SwallowPause(h) PROVE Followed'
  <2>1. Approved \subseteq Approved'
    BY <1>13, ApprovedGrows DEF SwallowPause
  <2>2. \A g \in known[h] : g < pos[h] + 1 \/ g \in resumed[h]
    BY <1>13 DEF SwallowPause, Followed, Typed
  <2> QED
    BY <1>13, <2>1, <2>2 DEF SwallowPause, Typed, Followed
<1>14. ASSUME NEW h \in Handler, Finish(h) PROVE Followed'
  BY <1>14, ApprovedGrows DEF Finish, EndBody, Typed, Location, Followed
<1>15. ASSUME NEW h \in Handler, BodyFails(h) PROVE Followed'
  <2>1. PICK o \in {"raise", "rejected"} : EndBody(h, o)
    BY <1>15 DEF BodyFails
  <2>2. Approved \subseteq Approved'
    BY <2>1, ApprovedGrows DEF EndBody
  <2> QED
    BY <1>15, <2>1, <2>2 DEF BodyFails, EndBody, Typed, Location, Followed
<1>16. ASSUME NEW h \in Handler, Close(h) PROVE Followed'
  BY <1>16, ApprovedGrows DEF Close, Leave, Raised, Stray, FinalRecord, Typed, Location, Followed
<1>17. ASSUME NEW h \in Handler, VerifyReplayed(h) PROVE Followed'
  BY <1>17, ApprovedGrows DEF VerifyReplayed, Leave, Typed, Location, Followed
<1>18. ASSUME NEW h \in Handler, Verify(h) PROVE Followed'
  <2>1. CASE copy[h].status = "PAUSED"
    BY <1>18, ApprovedGrows, <2>1 DEF Verify, Typed, Location, Followed
  <2>2. CASE copy[h].status # "PAUSED"
    <3>1. /\ Leave(h) /\ UNCHANGED <<run, audit, letters, pending, counts>>
          /\ consumed' = consumed \cup {hand[h].token}
      BY <1>18, ApprovedGrows, <2>2 DEF Verify
    <3> QED
      BY <1>18, ApprovedGrows, <3>1 DEF Verify, Leave, Typed, Location, Followed
  <2> QED
    BY <2>1, <2>2
<1>19. ASSUME NEW h \in Handler, DecideFails(h) PROVE Followed'
  BY <1>19, ApprovedGrows DEF DecideFails, Leave, Typed, Location, Followed
<1>20. ASSUME NEW h \in Handler, Decide(h) PROVE Followed'
  <2>1. Entry(h) \in audit' /\ Approved \subseteq Approved'
    BY <1>20, ApprovedGrows DEF Decide
  <2>2. hand[h].decision = "APPROVE" => tokens[hand[h].token] \in Approved'
    BY <2>1 DEF Entry, Approved
  <2> QED
    BY <1>20, <2>1, <2>2 DEF Decide, Typed, Location, Followed
<1>21. ASSUME NEW h \in Handler, DecideEscalate(h) PROVE Followed'
  BY <1>21, ApprovedGrows DEF DecideEscalate, Entry, Issue, Typed, Location, Issued, Holding,
     Followed
<1>22. ASSUME NEW h \in Handler, SaveRejected(h) PROVE Followed'
  BY <1>22, ApprovedGrows DEF SaveRejected, Leave, Typed, Location, Followed
<1>23. ASSUME NEW h \in Handler, SaveEscalated(h) PROVE Followed'
  BY <1>23, ApprovedGrows DEF SaveEscalated, Leave, Typed, Location, Followed
<1>24. ASSUME NEW h \in Handler, SaveAccepted(h) PROVE Followed'
  BY <1>24, ApprovedGrows DEF SaveAccepted, Typed, Location, Followed
<1>25. ASSUME NEW h \in Handler, Persist(h) PROVE Followed'
  BY <1>25, ApprovedGrows DEF Persist, Typed, Location, Followed
<1>26. ASSUME NEW h \in Handler, InvokeFails(h) PROVE Followed'
  BY <1>26, ApprovedGrows DEF InvokeFails, Leave, Typed, Location, Followed
<1>27. ASSUME NEW h \in Handler, NEW t \in delivered, NEW d \in Decision, Resume(h, t, d)
      PROVE Followed'
  BY <1>27, ApprovedGrows DEF Resume, Typed, Location, Followed
<1>28. ASSUME Reissue PROVE Followed'
  BY <1>28, ApprovedGrows DEF Reissue, Issue, Typed, Location, Issued, Holding, Followed
<1>29. ASSUME Recover PROVE Followed'
  BY <1>29, ApprovedGrows DEF Recover, Typed, Location, Followed
<1>30. ASSUME Crash PROVE Followed'
  BY <1>30, ApprovedGrows DEF Crash, Fault, Typed, Location, Followed
<1>31. ASSUME NEW h \in Handler, CallRaises(h) PROVE Followed'
  BY <1>31, ApprovedGrows DEF CallRaises, Fault, Leave, Typed, Location, Followed
<1>32. ASSUME NEW h \in Handler, LoadRaises(h) PROVE Followed'
  BY <1>32, ApprovedGrows DEF LoadRaises, Fault, Leave, Typed, Location, Followed
<1>33. ASSUME NEW h \in Handler, SnapshotRaises(h) PROVE Followed'
  <2>1. Approved \subseteq Approved'
    BY <1>33, ApprovedGrows DEF SnapshotRaises
  <2>2. \A g \in known[h] : g < pos[h] + 1 \/ g \in resumed[h]
    BY <1>33 DEF SnapshotRaises, Followed, Typed
  <2> QED
    BY <1>33, <2>1, <2>2 DEF SnapshotRaises, Typed, Followed
<1>34. ASSUME NEW h \in Handler, SuspendRaises(h) PROVE Followed'
  BY <1>34, ApprovedGrows DEF SuspendRaises, EndBody, Fault, Typed, Location, Followed
<1>35. ASSUME NEW h \in Handler, SwallowRaised(h) PROVE Followed'
  <2>1. Approved \subseteq Approved'
    BY <1>35, ApprovedGrows DEF SwallowRaised
  <2>2. \A g \in known[h] : g < pos[h] + 1 \/ g \in resumed[h]
    BY <1>35 DEF SwallowRaised, Followed, Typed
  <2> QED
    BY <1>35, <2>1, <2>2 DEF SwallowRaised, Typed, Followed
<1>36. ASSUME NEW h \in Handler, RaiseCaught(h) PROVE Followed'
  BY <1>36, ApprovedGrows DEF RaiseCaught, EndBody, Typed, Location, Followed
<1>37. ASSUME NEW h \in Handler, CloseUnsaved(h) PROVE Followed'
  BY <1>37, ApprovedGrows DEF CloseUnsaved, Raised, Stray, Fault, Leave, Typed, Location, Followed
<1> QED
  BY <1>1, <1>2, <1>3, <1>4, <1>5, <1>6, <1>7, <1>8, <1>9, <1>10, <1>11, <1>12, <1>13, <1>14,
     <1>15, <1>16, <1>17, <1>18, <1>19, <1>20, <1>21, <1>22, <1>23, <1>24, <1>25, <1>26, <1>27,
     <1>28, <1>29, <1>30, <1>31, <1>32, <1>33, <1>34, <1>35, <1>36,
     <1>37 DEF Next, Progress

(* Whoever makes the record RUNNING goes on, until it writes another status. *)
LEMMA SettledNext ==
  ASSUME Typed, Control, Settled, [Next]_vars
  PROVE  Settled'
<1>1. CASE UNCHANGED vars
  BY <1>1 DEF vars, Typed, Record, Status, Location, Settled, PausedCanBeReissued, Executing,
     Control
<1>2. ASSUME NEW h \in Handler, Start(h) PROVE Settled'
  BY <1>2 DEF Start, Typed, Record, Status, Location, Settled, PausedCanBeReissued, Executing,
     Control
<1>3. ASSUME NEW h \in Handler, OpenRead(h) PROVE Settled'
  BY <1>3 DEF OpenRead, Typed, Record, Status, Location, Settled, PausedCanBeReissued, Executing,
     Control
<1>4. ASSUME NEW h \in Handler, OpenPut(h) PROVE Settled'
  BY <1>4 DEF OpenPut, Typed, Record, Status, Location, Settled, PausedCanBeReissued, Executing,
     Control
<1>5. ASSUME NEW h \in Handler, Load(h) PROVE Settled'
  BY <1>5 DEF Load, Typed, Record, Status, Location, Settled, PausedCanBeReissued, Executing,
     Control
<1>6. ASSUME NEW h \in Handler, OpenFails(h) PROVE Settled'
  BY <1>6 DEF OpenFails, Leave, Typed, Record, Status, Location, Settled, PausedCanBeReissued,
     Executing, Control
<1>7. ASSUME NEW h \in Handler, PassGate(h) PROVE Settled'
  BY <1>7 DEF PassGate, Typed, Record, Status, Location, Settled,
     PausedCanBeReissued, Executing, Control
<1>8. ASSUME NEW h \in Handler, ReachGate(h) PROVE Settled'
  BY <1>8 DEF ReachGate, Suspend, Issue, Breach, Gate, Typed, Record, Status, Location, Settled,
     PausedCanBeReissued, Executing, Control
<1>9. ASSUME NEW h \in Handler, AutoPause(h) PROVE Settled'
  BY <1>9 DEF AutoPause, Suspend, Issue, Breach, Gate, Typed, Record, Status, Location, Settled,
     PausedCanBeReissued, Executing, Control
<1>10. ASSUME NEW h \in Handler, SuspendPut(h) PROVE Settled'
  BY <1>10 DEF SuspendPut, Typed, Record, Status, Location, Settled, PausedCanBeReissued,
     Executing, Control
<1>11. ASSUME NEW h \in Handler, Notify(h) PROVE Settled'
  BY <1>11 DEF Notify, Typed, Record, Status, Location, Settled, PausedCanBeReissued, Executing,
     Control
<1>12. ASSUME NEW h \in Handler, LeavePaused(h) PROVE Settled'
  BY <1>12 DEF LeavePaused, EndBody, Typed, Record, Status, Location, Settled,
     PausedCanBeReissued, Executing, Control
<1>13. ASSUME NEW h \in Handler, SwallowPause(h) PROVE Settled'
  BY <1>13 DEF SwallowPause, Typed, Record, Status, Location, Settled,
     PausedCanBeReissued, Executing, Control
<1>14. ASSUME NEW h \in Handler, Finish(h) PROVE Settled'
  BY <1>14 DEF Finish, EndBody, Typed, Record, Status, Location, Settled,
     PausedCanBeReissued, Executing, Control
<1>15. ASSUME NEW h \in Handler, BodyFails(h) PROVE Settled'
  BY <1>15 DEF BodyFails, EndBody, Typed, Record, Status, Location, Settled,
     PausedCanBeReissued, Executing, Control
<1>16. ASSUME NEW h \in Handler, Close(h) PROVE Settled'
  <2>1. /\ run'.status # "RUNNING"
        /\ run'.status = "PAUSED" /\ run'.pause = NoPause => strayed'
    BY <1>16, FinalRecordTyped DEF Close
  <2> QED
    BY <1>16, <2>1 DEF Close, Leave, Raised, Stray, Typed, Location, Settled, PausedCanBeReissued
<1>17. ASSUME NEW h \in Handler, VerifyReplayed(h) PROVE Settled'
  BY <1>17 DEF VerifyReplayed, Leave, Typed, Record, Status, Location, Settled,
     PausedCanBeReissued, Executing, Control
<1>18. ASSUME NEW h \in Handler, Verify(h) PROVE Settled'
  <2>1. CASE copy[h].status = "PAUSED"
    BY <1>18, <2>1 DEF Verify, Typed, Record, Status, Location, Settled, PausedCanBeReissued,
       Executing, Control
  <2>2. CASE copy[h].status # "PAUSED"
    <3>1. /\ Leave(h) /\ UNCHANGED <<run, audit, letters, pending, counts>>
          /\ consumed' = consumed \cup {hand[h].token}
      BY <1>18, <2>2 DEF Verify
    <3> QED
      BY <1>18, <3>1 DEF Verify, Leave, Typed, Record, Status, Location, Settled,
         PausedCanBeReissued, Executing, Control
  <2> QED
    BY <2>1, <2>2
<1>19. ASSUME NEW h \in Handler, DecideFails(h) PROVE Settled'
  BY <1>19 DEF DecideFails, Leave, Typed, Record, Status, Location, Settled, PausedCanBeReissued,
     Executing, Control
<1>20. ASSUME NEW h \in Handler, Decide(h) PROVE Settled'
  BY <1>20 DEF Decide, Entry, Typed, Record, Status, Location, Settled, PausedCanBeReissued,
     Executing, Control
<1>21. ASSUME NEW h \in Handler, DecideEscalate(h) PROVE Settled'
  BY <1>21 DEF DecideEscalate, Entry, Issue, Typed, Record, Status, Location, Settled,
     PausedCanBeReissued, Executing, Control
<1>22. ASSUME NEW h \in Handler, SaveRejected(h) PROVE Settled'
  BY <1>22 DEF SaveRejected, Leave, Typed, Record, Status, Location, Settled, PausedCanBeReissued,
     Executing, Control
<1>23. ASSUME NEW h \in Handler, SaveEscalated(h) PROVE Settled'
  BY <1>23 DEF SaveEscalated, Leave, Typed, Record, Status, Location, Settled,
     PausedCanBeReissued, Executing, Control
<1>24. ASSUME NEW h \in Handler, SaveAccepted(h) PROVE Settled'
  BY <1>24 DEF SaveAccepted, Typed, Record, Status, Location, Settled, PausedCanBeReissued,
     Executing, Control
<1>25. ASSUME NEW h \in Handler, Persist(h) PROVE Settled'
  BY <1>25 DEF Persist, Typed, Record, Status, Location, Settled, PausedCanBeReissued, Executing,
     Control
<1>26. ASSUME NEW h \in Handler, InvokeFails(h) PROVE Settled'
  BY <1>26 DEF InvokeFails, Leave, Typed, Record, Status, Location, Settled, PausedCanBeReissued,
     Executing, Control
<1>27. ASSUME NEW h \in Handler, NEW t \in delivered, NEW d \in Decision, Resume(h, t, d)
      PROVE Settled'
  BY <1>27 DEF Resume, Typed, Record, Status, Location, Settled, PausedCanBeReissued, Executing,
     Control
<1>28. ASSUME Reissue PROVE Settled'
  BY <1>28 DEF Reissue, Issue, Typed, Record, Status, Location, Settled, PausedCanBeReissued,
     Executing, Control
<1>29. ASSUME Recover PROVE Settled'
  BY <1>29 DEF Recover, Typed, Record, Status, Location, Settled, PausedCanBeReissued, Executing,
     Control
<1>30. ASSUME Crash PROVE Settled'
  BY <1>30 DEF Crash, Fault, Typed, Record, Status, Location, Settled, PausedCanBeReissued,
     Executing,
     Control
<1>31. ASSUME NEW h \in Handler, CallRaises(h) PROVE Settled'
  BY <1>31 DEF CallRaises, Fault, Leave, Typed, Record, Status, Location, Settled,
     PausedCanBeReissued, Executing, Control
<1>32. ASSUME NEW h \in Handler, LoadRaises(h) PROVE Settled'
  BY <1>32 DEF LoadRaises, Fault, Leave, Typed, Record, Status, Location, Settled,
     PausedCanBeReissued, Executing, Control
<1>33. ASSUME NEW h \in Handler, SnapshotRaises(h) PROVE Settled'
  BY <1>33 DEF SnapshotRaises, Fault, Typed, Record, Status, Location, Settled,
     PausedCanBeReissued, Executing, Control
<1>34. ASSUME NEW h \in Handler, SuspendRaises(h) PROVE Settled'
  BY <1>34 DEF SuspendRaises, EndBody, Fault, Typed, Record, Status, Location, Settled,
     PausedCanBeReissued, Executing, Control
<1>35. ASSUME NEW h \in Handler, SwallowRaised(h) PROVE Settled'
  BY <1>35 DEF SwallowRaised, Fault, Typed, Record, Status, Location, Settled,
     PausedCanBeReissued, Executing, Control
<1>36. ASSUME NEW h \in Handler, RaiseCaught(h) PROVE Settled'
  BY <1>36 DEF RaiseCaught, EndBody, Typed, Record, Status, Location, Settled,
     PausedCanBeReissued, Executing, Control
<1>37. ASSUME NEW h \in Handler, CloseUnsaved(h) PROVE Settled'
  BY <1>37 DEF CloseUnsaved, Raised, Stray, Fault, Leave, Typed, Record, Status, Location, Settled,
     PausedCanBeReissued, Executing, Control
<1> QED
  BY <1>1, <1>2, <1>3, <1>4, <1>5, <1>6, <1>7, <1>8, <1>9, <1>10, <1>11, <1>12, <1>13, <1>14,
     <1>15, <1>16, <1>17, <1>18, <1>19, <1>20, <1>21, <1>22, <1>23, <1>24, <1>25, <1>26, <1>27,
     <1>28, <1>29, <1>30, <1>31, <1>32, <1>33, <1>34, <1>35, <1>36,
     <1>37 DEF Next, Progress

-------------------------------------------------------------------------------

(* The six parts hold initially and support each other in every step. *)
LEMMA GateInvariant == Spec => []GateInv
<1>1. Init => GateInv
  <2> SUFFICES ASSUME Init PROVE GateInv
    OBVIOUS
  <2>1. Typed
    BY DEF Init, Typed, Record, Status, Location
  <2>2. Issued /\ Control /\ Decided
    BY DEF Init, Issued, Holding, Control, Decided, OneDecisionPerToken
  <2>3. Followed /\ Settled
    BY DEF Init, Followed, Settled, PausedCanBeReissued
  <2> QED
    BY <2>1, <2>2, <2>3 DEF GateInv
<1>2. GateInv /\ [Next]_vars => GateInv'
  <2> SUFFICES ASSUME GateInv, [Next]_vars PROVE GateInv'
    OBVIOUS
  <2>1. Typed /\ Issued /\ Control /\ Decided /\ Followed /\ Settled
    BY DEF GateInv
  <2>2. Typed' /\ Issued' /\ Control'
    BY <2>1, TypedNext, IssuedNext, ControlNext
  <2>3. Decided' /\ Followed' /\ Settled'
    BY <2>1, DecidedNext, FollowedNext, SettledNext
  <2> QED
    BY <2>2, <2>3 DEF GateInv
<1> QED
  BY <1>1, <1>2, PTL DEF Spec

-------------------------------------------------------------------------------

(* However many threads serve however many clicks, the audit log never has *)
(* two decisions taken with one token (tokens.verify, then _decide).       *)
THEOREM TokensDecideOnce == Spec => []OneDecisionPerToken
<1>1. GateInv => OneDecisionPerToken
  BY DEF GateInv, Decided
<1> QED
  BY <1>1, GateInvariant, PTL

(* A record that is RUNNING has a handler that will settle it, unless the  *)
(* process died, or a storage call or _stored_call cut the execution off:  *)
(* _close_run, _open_run's failure path and _decide leave nothing behind.  *)
THEOREM RestingRunsAreSettled == Spec => []RestingRunIsSettled
<1>1. GateInv => RestingRunIsSettled
  BY DEF GateInv, Settled, RestingRunIsSettled, AllIdle, Executing
<1> QED
  BY <1>1, GateInvariant, PTL

(* No order of stale writes, escalations and closes leaves a PAUSED record *)
(* without the pause request that reissue_token needs, but the close by a  *)
(* WorkflowPaused that ctx.pause does not have.                            *)
THEOREM PausesCanBeReissued == Spec => []PausedCanBeReissued
<1>1. GateInv => PausedCanBeReissued
  BY DEF GateInv, Settled
<1> QED
  BY <1>1, GateInvariant, PTL

(* pause() falls through only at a gate that an audit entry accepts, whose *)
(* token was issued for that gate and is consumed.                         *)
THEOREM PassedGatesWereAccepted == Spec => PassedWasAccepted
<1>1. ASSUME GateInv, NEW h \in Handler, PassGate(h)
      PROVE  \E a \in audit : /\ a.step = pos[h]
                              /\ a.action = "APPROVE"
                              /\ tokens[a.token] = pos[h]
                              /\ a.token \in consumed
  <2>1. pos[h] \in Approved
    BY <1>1 DEF PassGate, GateInv, Followed
  <2>2. PICK a \in audit : a.step = pos[h] /\ a.action = "APPROVE"
    BY <2>1 DEF Approved
  <2>3. tokens[a.token] = a.step /\ a.token \in consumed
    BY <1>1 DEF GateInv, Issued, Decided
  <2> QED
    BY <2>2, <2>3
<1>2. GateInv /\ [Next]_vars =>
        [\A h \in Handler : PassGate(h) =>
           \E a \in audit : /\ a.step = pos[h]
                            /\ a.action = "APPROVE"
                            /\ tokens[a.token] = pos[h]
                            /\ a.token \in consumed]_vars
  BY <1>1
<1> QED
  BY <1>2, GateInvariant, PTL DEF Spec, PassedWasAccepted

(* runner.py:111: an execution that began after a gate was approved does   *)
(* not ask for it, whatever died or was taken by another thread.           *)
THEOREM ApprovedGatesNeverAsk == Spec => ApprovedGateNeverAsks
<1>1. GateInv => \A h \in Handler : ReachGate(h) => pos[h] \notin known[h]
  <2> SUFFICES ASSUME GateInv, NEW h \in Handler, ReachGate(h), pos[h] \in known[h]
               PROVE  FALSE
    OBVIOUS
  <2>1. pc[h] = "body" /\ pos[h] \notin resumed[h]
    BY DEF ReachGate
  <2>2. pos[h] < pos[h] \/ pos[h] \in resumed[h]
    BY <2>1 DEF GateInv, Followed
  <2>3. pos[h] \in Nat
    BY DEF GateInv, Typed
  <2> QED
    BY <2>1, <2>2, <2>3
<1>2. GateInv /\ [Next]_vars => [\A h \in Handler : ReachGate(h) => pos[h] \notin known[h]]_vars
  BY <1>1
<1> QED
  BY <1>2, GateInvariant, PTL DEF Spec, ApprovedGateNeverAsks
=============================================================================
