------------------------ MODULE BudgetAndApprovalProofs ------------------------
(***************************************************************************)
(* Proofs about what surrounds a run.  First BudgetedRun: for any ceilings *)
(* and amounts, and any number of executions, what the run record is       *)
(* charged with, and what its ceiling stops.  Then Approvals: for any      *)
(* number of requests, gates, tokens and faults, what becomes of a         *)
(* reviewer's click, and of a run that waits for one.                      *)
(***************************************************************************)
EXTENDS BudgetedRun, Approvals, TLAPS

\* What there is in the process and in the record has been billed.
SumsOK ==
  /\ stored \in Nat /\ used \in Nat /\ billed \in Nat /\ lost \in Nat
  /\ limit \in Nat
  /\ stored <= billed /\ used <= billed
  /\ \A record \in held : record.usage \in Nat /\ record.usage <= billed

\* A body that has not caught a breach is where the last check left it: under its
\* ceiling, or where an execution that began above it has not reported yet.  A suspension
\* at a gate leaves it there.
Checked ==
  pc \in {"body", "gate"} /\ ~defied => (IF openedOver THEN used > limit ELSE used <= limit)

\* The inductive invariant.
BudgetInv == SumsOK /\ UsageIsBilled /\ Checked

LEMMA InitBudget == BudgetInit => BudgetInv
BY TokenAssumption DEF BudgetInit, BudgetInv, SumsOK, UsageIsBilled, Checked

LEMMA OpenKeeps == ASSUME BudgetInv, OpenRun PROVE BudgetInv'
<1>1. /\ UNCHANGED <<stored, held, billed, lost>>
      /\ pc = "off" /\ pc' = "body" /\ used' = stored /\ limit' \in Nat
  BY TokenAssumption DEF OpenRun, Seed
<1>2. openedOver' <=> stored > limit'
  BY DEF OpenRun
<1>3. SumsOK' /\ UsageIsBilled'
  BY <1>1 DEF BudgetInv, SumsOK, UsageIsBilled
<1>4. Checked'
  <2>1. CASE stored > limit'
    BY <1>1, <1>2, <2>1 DEF Checked
  <2>2. CASE ~(stored > limit')
    <3>1. stored <= limit'
      BY <1>1, <2>2 DEF BudgetInv, SumsOK
    <3>. QED BY <1>1, <1>2, <2>2, <3>1 DEF Checked
  <2>. QED BY <2>1, <2>2
<1>. QED BY <1>3, <1>4 DEF BudgetInv

\* A report that does not breach leaves the sum at or under the ceiling.
LEMMA ReportKeeps ==
  ASSUME BudgetInv, NEW amount \in Amounts, Report(amount)
  PROVE  BudgetInv'
<1>1. /\ amount \in Nat
      /\ billed' = billed + amount /\ used' = used + amount
      /\ pc = "body" /\ pc' \in {"body", "breach"}
      /\ pc' = "body" => ~(used + amount > limit)
      /\ UNCHANGED <<stored, held, limit, lost, openedOver, defied>>
  BY TokenAssumption DEF Report, Breaches, BodyUnchanged, engine
<1>. QED BY <1>1 DEF BudgetInv, SumsOK, UsageIsBilled, Checked

\* The steps of a body that report nothing.
LEMMA BodyKeeps ==
  ASSUME BudgetInv, SkipStep \/ StepReturns \/ StepFails \/ Defy \/ SwallowPause
  PROVE  BudgetInv'
<1>1. /\ UNCHANGED <<stored, held, used, billed, lost, limit, openedOver>>
      /\ pc # "off" /\ pc' = "body"
      /\ defied' \/ (pc \in {"body", "gate"} /\ UNCHANGED defied)
  BY DEF SkipStep, StepReturns, StepFails, Defy, SwallowPause, BodyUnchanged, engine
<1>. QED BY <1>1 DEF BudgetInv, SumsOK, UsageIsBilled, Checked

\* A suspension and a close charge the record with what the execution has used.
LEMMA ChargeKeeps ==
  ASSUME BudgetInv, PauseAtGate \/ AutoPause \/ End
  PROVE  BudgetInv'
<1>1. CASE PauseAtGate \/ AutoPause
  <2>1. /\ UNCHANGED <<held, used, billed, lost, limit, openedOver, defied>>
        /\ pc # "off" /\ pc' \in {"gate", "paused"} /\ stored' = used
        /\ pc' = "gate" => pc = "body"
    BY <1>1 DEF PauseAtGate, AutoPause, SuspendAt, Put, Charge, engine, counts, history
  <2>. QED BY <2>1 DEF BudgetInv, SumsOK, UsageIsBilled, Checked
<1>2. CASE End
  <2>1. /\ UNCHANGED <<held, billed, lost, limit>>
        /\ pc # "off" /\ pc' = "off" /\ stored' = used /\ used' = 0
    BY <1>2 DEF End, LeaveRun, Put, Charge, engine
  <2>. QED BY <2>1 DEF BudgetInv, SumsOK, UsageIsBilled, Checked
<1>. QED BY <1>1, <1>2

\* An execution leaves, and the record stays as it is.
LEMMA LeaveKeeps ==
  ASSUME BudgetInv, Overtaken \/ CloseRaises \/ Die
  PROVE  BudgetInv'
<1>1. /\ UNCHANGED <<stored, billed, limit>> /\ pc' = "off" /\ used' = 0
      /\ lost' = IF pc = "off" THEN lost ELSE (lost + used) - stored
  BY DEF Overtaken, CloseRaises, Die, LeaveRun, engine
<1>2. held' \subseteq held \cup {[status |-> "PAUSED", usage |-> used]}
  BY DEF Overtaken, CloseRaises, Die
<1>3. \A record \in held' : record.usage \in Nat /\ record.usage <= billed
  BY <1>2 DEF BudgetInv, SumsOK
<1>4. lost' \in Nat /\ billed = lost' + stored
  BY <1>1 DEF BudgetInv, SumsOK, UsageIsBilled
<1>. QED BY <1>1, <1>3, <1>4 DEF BudgetInv, SumsOK, UsageIsBilled, Checked

\* Another thread reads the record, puts what it holds, or drops it.
LEMMA HeldKeeps ==
  ASSUME BudgetInv, ReadPaused \/ PutHeld \/ DropHeld
  PROVE  BudgetInv'
<1>1. CASE ReadPaused \/ DropHeld
  <2>1. UNCHANGED <<stored, used, billed, lost, limit, pc, openedOver, defied>>
    BY <1>1 DEF ReadPaused, DropHeld, engine, history
  <2>2. \A record \in held' : record.usage = stored
    BY <1>1 DEF ReadPaused, DropHeld
  <2>. QED BY <2>1, <2>2 DEF BudgetInv, SumsOK, UsageIsBilled, Checked
<1>2. CASE PutHeld
  <2>1. PICK record \in held :
          /\ stored' = record.usage
          /\ lost' = IF pc = "off" THEN (lost + stored) - record.usage ELSE lost
    BY <1>2 DEF PutHeld
  <2>2. held' = {} /\ UNCHANGED <<used, billed, limit, pc, openedOver, defied>>
    BY <1>2 DEF PutHeld, engine
  <2>3. stored' \in Nat /\ stored' <= billed
    BY <2>1 DEF BudgetInv, SumsOK
  <2>4. lost' \in Nat /\ billed = lost' + (IF pc = "off" THEN stored' ELSE used)
    BY <2>1, <2>3 DEF BudgetInv, SumsOK, UsageIsBilled
  <2>. QED BY <2>2, <2>3, <2>4 DEF BudgetInv, SumsOK, UsageIsBilled, Checked
<1>. QED BY <1>1, <1>2

LEMMA StepKeepsBudget == ASSUME BudgetInv, [BudgetNext]_budgetVars PROVE BudgetInv'
<1>1. CASE UNCHANGED budgetVars
  BY <1>1 DEF budgetVars, engine, counts, history, BudgetInv, SumsOK, UsageIsBilled, Checked
<1>. QED BY <1>1, OpenKeeps, ReportKeeps, BodyKeeps, ChargeKeeps, LeaveKeeps, HeldKeeps
         DEF BudgetNext

-------------------------------------------------------------------------------

\* What the provider has billed is in the run's usage, but for what a death, a close that
\* raises or a late put has lost.
THEOREM UsageCharged == BudgetSpec => []UsageIsBilled
<1>1. BudgetInv => UsageIsBilled
  BY DEF BudgetInv
<1>. QED BY <1>1, InitBudget, StepKeepsBudget, PTL DEF BudgetSpec

\* No model call follows the one that breaks the ceiling, which is overshot by no more than
\* what the record has lost.
THEOREM CeilingIsHard == BudgetSpec => CeilingHolds
<1>1. BudgetInv /\ [BudgetNext]_budgetVars =>
        [\A amount \in Amounts :
           Report(amount) => billed <= limit + lost \/ openedOver \/ defied]_budgetVars
  <2>1. SUFFICES ASSUME BudgetInv, NEW amount \in Amounts, Report(amount),
                        ~openedOver, ~defied
                 PROVE  billed <= limit + lost
    OBVIOUS
  <2>2. pc = "body"
    BY <2>1 DEF Report
  <2>3. used <= limit /\ billed = lost + used
    BY <2>1, <2>2 DEF BudgetInv, UsageIsBilled, Checked
  <2>. QED BY <2>1, <2>3 DEF BudgetInv, SumsOK
<1>. QED BY <1>1, InitBudget, StepKeepsBudget, PTL DEF BudgetSpec, CeilingHolds

\* An execution that begins above its ceiling gets one model call.
THEOREM AboveCeilingOnce == BudgetSpec => OneCallAboveCeiling
<1>1. BudgetInv /\ [BudgetNext]_budgetVars =>
        [\A amount \in Amounts :
           Report(amount) /\ openedOver /\ ~defied => pc' = "breach"]_budgetVars
  <2>1. SUFFICES ASSUME BudgetInv, NEW amount \in Amounts, Report(amount),
                        openedOver, ~defied
                 PROVE  pc' = "breach"
    OBVIOUS
  <2>2. pc = "body" /\ amount \in Nat
    BY <2>1, TokenAssumption DEF Report
  <2>3. used + amount > limit
    BY <2>1, <2>2 DEF BudgetInv, SumsOK, Checked
  <2>. QED BY <2>1, <2>3 DEF Report, Breaches
<1>. QED BY <1>1, InitBudget, StepKeepsBudget, PTL DEF BudgetSpec, OneCallAboveCeiling

-------------------------------------------------------------------------------

(***************************************************************************)
(* Approvals: a token is spent once, and is then in one place.             *)
(***************************************************************************)

Reading == {"verify", "audit", "confirm", "save"}

Phases == Reading \cup {"free", "open", "body", "close"}

\* An escalation whose token has been issued and is to be answered.
Escalating(r) == r.pc \in {"confirm", "save"} /\ r.decision = "ESCALATE"

\* What a request carries.
Carries(r) ==
  /\ "pc" \in DOMAIN r
  /\ r.pc \in Phases
  /\ r.pc \in Reading => {"token", "decision", "seen"} \subseteq DOMAIN r /\ r.token \in known
  /\ r.pc = "open" => "token" \in DOMAIN r
  /\ r.pc = "close" => {"token", "gate"} \subseteq DOMAIN r /\ r.token \in DOMAIN token
  /\ Escalating(r) => "new" \in DOMAIN r /\ r.new \in DOMAIN token

ClickTypes ==
  /\ DOMAIN slot = Slot
  /\ slot = [s \in Slot |-> slot[s]]
  /\ \E G : token \in Seq(G)
  /\ known \subseteq DOMAIN token /\ spent \subseteq known
  /\ faults \in Nat
  /\ \A s \in Slot : Carries(slot[s])

\* A request that has spent its token.
Past(r) == r.pc \in {"audit", "confirm", "save"} \/ (r.pc = "open" /\ r.token # 0)

Reached(r) ==
  /\ r.token \in spent \ started
  /\ r.pc = "audit" => r.token \notin OnRecord
  /\ r.pc # "audit" => r.token \in OnRecord
  /\ r.pc = "confirm" => r.token \notin confirmed

\* A token that is spent is in one place: with one request that has yet to record it, or to
\* carry it out, or in the record.
SpentOnce ==
  /\ OnRecord \subseteq spent
  /\ confirmed \cup started \subseteq OnRecord
  /\ \A s, x \in Slot : Past(slot[s]) /\ Past(slot[x]) /\ slot[s].token = slot[x].token => s = x
  /\ \A s \in Slot : Past(slot[s]) => Reached(slot[s])

ClickInv == ClickTypes /\ SpentOnce

LEMMA ClickInvInit == Init => ClickInv
<1> SUFFICES ASSUME Init PROVE ClickInv
  OBVIOUS
<1> USE DEF Init
<1>1. \A s \in Slot : slot[s] = [pc |-> "free"]
  BY DEF Nobody
<1>2. \A s \in Slot : Carries(slot[s])
  BY <1>1 DEF Carries, Phases, Reading, Escalating
<1>3. <<>> \in Seq({})
  OBVIOUS
<1>4. ClickTypes
  BY <1>2, <1>3 DEF ClickTypes
<1>5. SpentOnce
  BY <1>1 DEF SpentOnce, Past, OnRecord
<1> QED BY <1>4, <1>5 DEF ClickInv

\* A request goes on to another phase, and its fields stay.
LEMMA Moved ==
  ASSUME ClickTypes, NEW s \in Slot, NEW pc1, GoTo(s, pc1)
  PROVE  /\ DOMAIN slot' = Slot /\ slot' = [x \in Slot |-> slot'[x]]
         /\ \A x \in Slot \ {s} : slot'[x] = slot[x]
         /\ slot'[s].pc = pc1
         /\ DOMAIN slot'[s] = DOMAIN slot[s]
         /\ "token" \in DOMAIN slot[s] => slot'[s].token = slot[s].token
         /\ "decision" \in DOMAIN slot[s] => slot'[s].decision = slot[s].decision
         /\ "seen" \in DOMAIN slot[s] => slot'[s].seen = slot[s].seen
         /\ "new" \in DOMAIN slot[s] => slot'[s].new = slot[s].new
<1>1. "pc" \in DOMAIN slot[s]
  BY DEF ClickTypes, Carries
<1> QED BY <1>1 DEF GoTo, ClickTypes

\* A request is replaced by another one.
LEMMA Replaced ==
  ASSUME ClickTypes, NEW s \in Slot, NEW r, slot' = [slot EXCEPT ![s] = r]
  PROVE  /\ DOMAIN slot' = Slot /\ slot' = [x \in Slot |-> slot'[x]]
         /\ \A x \in Slot \ {s} : slot'[x] = slot[x]
         /\ slot'[s] = r
BY DEF ClickTypes

\* A request that is answered leaves its place free.
LEMMA Answered ==
  ASSUME ClickTypes, NEW s \in Slot, Answer(s)
  PROVE  /\ DOMAIN slot' = Slot /\ slot' = [x \in Slot |-> slot'[x]]
         /\ \A x \in Slot \ {s} : slot'[x] = slot[x]
         /\ slot'[s].pc = "free"
         /\ Carries(slot[s])' /\ ~Past(slot'[s])
<1>1. slot' = [slot EXCEPT ![s] = [pc |-> "free"]]
  BY DEF Answer, Nobody
<1>2. /\ DOMAIN slot' = Slot /\ slot' = [x \in Slot |-> slot'[x]]
      /\ \A x \in Slot \ {s} : slot'[x] = slot[x]
      /\ slot'[s] = [pc |-> "free"]
  BY <1>1, Replaced
<1>3. Carries(slot[s])' /\ ~Past(slot'[s])
  BY <1>2 DEF Carries, Escalating, Past, Phases, Reading
<1> QED BY <1>2, <1>3

\* A step of one request touches no token but its own, which no other request has spent.
LEMMA SpentStep ==
  ASSUME SpentOnce, NEW s \in Slot, NEW t,
         \A x \in Slot \ {s} : slot'[x] = slot[x],
         \A x \in Slot \ {s} : Past(slot[x]) => slot[x].token # t,
         spent \subseteq spent',
         OnRecord \subseteq OnRecord', OnRecord' \subseteq OnRecord \cup {t},
         confirmed' \subseteq confirmed \cup {t},
         started' \subseteq started \cup {t},
         OnRecord' \subseteq spent', confirmed' \cup started' \subseteq OnRecord',
         Past(slot'[s]) => slot'[s].token = t /\ Reached(slot[s])'
  PROVE  SpentOnce'
<1>1. ASSUME NEW x \in Slot, Past(slot'[x]) PROVE Reached(slot[x])'
  <2>1. CASE x = s
    BY <1>1, <2>1
  <2>2. CASE x # s
    <3>1. slot'[x] = slot[x] /\ Past(slot[x]) /\ slot[x].token # t
      BY <1>1, <2>2
    <3>2. Reached(slot[x])
      BY <3>1 DEF SpentOnce
    <3>. QED BY <3>1, <3>2 DEF Reached
  <2>. QED BY <2>1, <2>2
<1>2. ASSUME NEW x \in Slot, NEW y \in Slot, Past(slot'[x]), Past(slot'[y]),
             slot'[x].token = slot'[y].token
      PROVE  x = y
  <2>1. \A z \in Slot \ {s} : Past(slot'[z]) => slot'[z].token # t
    OBVIOUS
  <2>2. CASE x # s /\ y # s
    BY <1>2, <2>2 DEF SpentOnce
  <2>. QED BY <1>2, <2>1, <2>2
<1>3. \A x \in Slot : Past(slot'[x]) => Reached(slot[x])'
  BY <1>1
<1>4. \A x, y \in Slot :
        Past(slot'[x]) /\ Past(slot'[y]) /\ slot'[x].token = slot'[y].token => x = y
  BY <1>2
<1> QED BY <1>3, <1>4 DEF SpentOnce

\* The types, when one request has moved.
LEMMA TypesStep ==
  ASSUME ClickTypes, NEW s \in Slot,
         DOMAIN slot' = Slot, slot' = [x \in Slot |-> slot'[x]],
         \A x \in Slot \ {s} : slot'[x] = slot[x],
         \E G : token' \in Seq(G), DOMAIN token \subseteq DOMAIN token',
         known \subseteq known', known' \subseteq DOMAIN token', spent' \subseteq known',
         faults' \in Nat,
         Carries(slot[s])'
  PROVE  ClickTypes'
<1>1. \A x \in Slot : Carries(slot[x])'
  <2> TAKE x \in Slot
  <2>1. CASE x # s
    BY <2>1 DEF ClickTypes, Carries, Escalating
  <2>. QED BY <2>1
<1> QED BY <1>1 DEF ClickTypes

\* A request that has spent its token is alone with it.
LEMMA Alone ==
  ASSUME ClickInv, NEW s \in Slot, Past(slot[s]) \/ slot[s].token \notin spent
  PROVE  \A x \in Slot \ {s} : Past(slot[x]) => slot[x].token # slot[s].token
BY DEF ClickInv, SpentOnce, Reached

\* A step of a request, or of an operator, that spends and records nothing.
LEMMA QuietStep ==
  ASSUME ClickInv, NEW s \in Slot,
         DOMAIN slot' = Slot, slot' = [x \in Slot |-> slot'[x]],
         \A x \in Slot \ {s} : slot'[x] = slot[x],
         \E G : token' \in Seq(G), DOMAIN token \subseteq DOMAIN token',
         known \subseteq known', known' \subseteq DOMAIN token',
         UNCHANGED <<audit, confirmed, started, spent>>, faults' \in Nat,
         Carries(slot[s])',
         Past(slot'[s]) => slot'[s].token = slot[s].token /\ Past(slot[s]) /\ Reached(slot[s])'
  PROVE  ClickInv'
<1>1. ClickTypes'
  BY TypesStep DEF ClickInv, ClickTypes
<1>2. OnRecord' = OnRecord
  BY DEF OnRecord
<1>3. SpentOnce'
  <2>1. \A x \in Slot : Past(slot'[x]) => slot'[x].token = slot[x].token /\ Past(slot[x])
    OBVIOUS
  <2>2. \A x \in Slot : Past(slot'[x]) => Reached(slot[x])'
    BY <1>2, <2>1 DEF ClickInv, SpentOnce, Reached
  <2>3. \A x, y \in Slot :
          Past(slot'[x]) /\ Past(slot'[y]) /\ slot'[x].token = slot'[y].token => x = y
    BY <2>1 DEF ClickInv, SpentOnce
  <2>. QED BY <1>2, <2>2, <2>3 DEF ClickInv, SpentOnce
<1>. QED BY <1>1, <1>3 DEF ClickInv

\* A step that is no request's, and neither spends nor records anything.
LEMMA StillStep ==
  ASSUME ClickInv, UNCHANGED <<slot, audit, confirmed, started, spent>>,
         \E G : token' \in Seq(G), DOMAIN token \subseteq DOMAIN token',
         known \subseteq known', known' \subseteq DOMAIN token', faults' \in Nat
  PROVE  ClickInv'
<1>1. \A x \in Slot : Carries(slot[x])'
  BY DEF ClickInv, ClickTypes, Carries, Escalating
<1>2. OnRecord' = OnRecord
  BY DEF OnRecord
<1>3. SpentOnce'
  BY <1>2 DEF ClickInv, SpentOnce, Reached
<1>4. ClickTypes'
  BY <1>1 DEF ClickInv, ClickTypes
<1> QED BY <1>3, <1>4 DEF ClickInv

\* A token that is issued is the next number.
LEMMA IssuedToken ==
  ASSUME \E G : token \in Seq(G), NEW g, token' = Append(token, g)
  PROVE  /\ \E G : token' \in Seq(G)
         /\ DOMAIN token' = DOMAIN token \cup {Len(token')}
         /\ Len(token') \notin DOMAIN token
<1>1. PICK G : token \in Seq(G)
  OBVIOUS
<1>2. token \in Seq(G \cup {g})
  BY <1>1
<1>3. Append(token, g) \in Seq(G \cup {g})
  BY <1>2
<1>4. /\ Len(token) \in Nat /\ DOMAIN token = 1..Len(token)
      /\ Len(token') = Len(token) + 1 /\ DOMAIN token' = 1..(Len(token) + 1)
  BY <1>2
<1> QED BY <1>3, <1>4

\* A step that issues no token.
LEMMA NothingIssued == ASSUME ClickTypes, UNCHANGED token
                       PROVE (\E G : token' \in Seq(G)) /\ DOMAIN token \subseteq DOMAIN token'
BY DEF ClickTypes

\* A click is served: nothing is spent by that.
LEMMA ArriveInv ==
  ASSUME ClickInv, NEW s \in Slot, NEW t \in known, NEW d \in Decision, Arrive(s, t, d)
  PROVE  ClickInv'
<1> DEFINE r == [pc |-> "verify", token |-> t, decision |-> d, seen |-> run.gate]
<1>1. slot' = [slot EXCEPT ![s] = r] /\ UNCHANGED <<runVars, faults>>
  BY DEF Arrive
<1>2. Carries(r) /\ r.pc = "verify"
  BY DEF Carries, Phases, Reading, Escalating, ClickInv, ClickTypes
<1> HIDE DEF r
<1>3. /\ DOMAIN slot' = Slot /\ slot' = [x \in Slot |-> slot'[x]]
      /\ \A x \in Slot \ {s} : slot'[x] = slot[x]
      /\ slot'[s] = r
  BY <1>1, Replaced DEF ClickInv
<1>4. Carries(slot[s])' /\ ~Past(slot'[s])
  BY <1>1, <1>2, <1>3 DEF Carries, Escalating, Past, runVars
<1> QED BY <1>1, <1>3, <1>4, QuietStep, NothingIssued DEF ClickInv, ClickTypes, runVars

\* A request that is answered, after a step that spends and records nothing.
LEMMA AnsweredInv ==
  ASSUME ClickInv, NEW s \in Slot, Answer(s),
         \E G : token' \in Seq(G), DOMAIN token \subseteq DOMAIN token',
         known \subseteq known', known' \subseteq DOMAIN token',
         UNCHANGED <<audit, confirmed, started, spent>>, faults' \in Nat
  PROVE  ClickInv'
BY Answered, QuietStep DEF ClickInv

\* A request whose token is not spent yet spends it, or is refused.
LEMMA VerifyInv ==
  ASSUME ClickInv, NEW s \in Slot, Verify(s)
  PROVE  ClickInv'
<1>1. /\ slot[s].pc = "verify" /\ Carries(slot[s])
      /\ UNCHANGED <<run, token, known, audit, confirmed, started, faults>>
  BY DEF Verify, At, ClickInv, ClickTypes, Fine, boundVars
<1>2. /\ faults' \in Nat
      /\ (\E G : token' \in Seq(G)) /\ DOMAIN token \subseteq DOMAIN token'
      /\ known \subseteq known' /\ known' \subseteq DOMAIN token'
  BY <1>1, NothingIssued DEF ClickInv, ClickTypes
<1>3. CASE Answer(s) /\ UNCHANGED spent
  BY <1>1, <1>2, <1>3, AnsweredInv
<1>4. CASE slot[s].token \notin spent /\ spent' = spent \cup {slot[s].token}
  <2>1. PICK t : t = slot[s].token
    OBVIOUS
  <2>2. t \in known /\ t \notin spent /\ spent' = spent \cup {t}
    BY <1>1, <1>4, <2>1 DEF Carries, Reading
  <2>3. \A x \in Slot \ {s} : Past(slot[x]) => slot[x].token # t
    BY <1>4, <2>1, Alone
  <2>4. OnRecord' = OnRecord
    BY <1>1 DEF OnRecord
  <2>5. /\ DOMAIN slot' = Slot /\ slot' = [x \in Slot |-> slot'[x]]
        /\ \A x \in Slot \ {s} : slot'[x] = slot[x]
        /\ Carries(slot[s])'
        /\ Past(slot'[s]) => slot'[s].token = t /\ slot'[s].pc = "audit"
    <3>1. CASE GoTo(s, "audit")
      <4>1. /\ DOMAIN slot' = Slot /\ slot' = [x \in Slot |-> slot'[x]]
            /\ \A x \in Slot \ {s} : slot'[x] = slot[x]
            /\ slot'[s].pc = "audit"
            /\ DOMAIN slot'[s] = DOMAIN slot[s]
            /\ slot'[s].token = slot[s].token
        BY <1>1, <3>1, Moved DEF ClickInv, Carries, Reading
      <4>2. Carries(slot[s])'
        BY <1>1, <4>1 DEF Carries, Reading, Phases, Escalating
      <4>. QED BY <2>1, <4>1, <4>2
    <3>2. CASE Answer(s)
      BY <3>2, Answered DEF ClickInv
    <3>. QED BY <1>4, <3>1, <3>2 DEF Verify
  <2>6. ClickTypes'
    <3>1. spent' \subseteq known'
      BY <1>1, <2>2 DEF ClickInv, ClickTypes
    <3>. QED BY <1>1, <1>2, <2>5, <3>1, TypesStep DEF ClickInv
  <2>7. t \notin OnRecord /\ t \notin started /\ t \notin confirmed
    BY <2>2 DEF ClickInv, SpentOnce
  <2>8. Past(slot'[s]) => slot'[s].token = t /\ Reached(slot[s])'
    BY <1>1, <2>2, <2>4, <2>5, <2>7 DEF Reached
  <2>9. /\ SpentOnce /\ spent \subseteq spent'
        /\ OnRecord \subseteq OnRecord' /\ OnRecord' \subseteq OnRecord \cup {t}
        /\ confirmed' \subseteq confirmed \cup {t}
        /\ started' \subseteq started \cup {t}
        /\ OnRecord' \subseteq spent' /\ confirmed' \cup started' \subseteq OnRecord'
        /\ \A x \in Slot \ {s} : slot'[x] = slot[x]
    BY <1>1, <2>2, <2>4, <2>5 DEF ClickInv, SpentOnce
  <2>10. SpentOnce'
    BY <2>3, <2>8, <2>9, SpentStep, Zenon
  <2>. QED BY <2>6, <2>10 DEF ClickInv
<1> QED BY <1>3, <1>4 DEF Verify

\* A decision goes on record, with the token that its request has spent.
LEMMA AppendAuditInv ==
  ASSUME ClickInv, NEW s \in Slot, AppendAudit(s)
  PROVE  ClickInv'
<1>1. /\ slot[s].pc = "audit" /\ Carries(slot[s]) /\ Past(slot[s])
      /\ audit' = audit \cup {[token |-> slot[s].token, decision |-> slot[s].decision]}
      /\ UNCHANGED <<run, spent, known, confirmed, started, faults>>
  BY DEF AppendAudit, At, ClickInv, ClickTypes, Fine, boundVars, Past
<1>2. /\ slot[s].token \in spent \ started /\ slot[s].token \notin OnRecord
      /\ slot[s].token \in known
      /\ {"token", "decision", "seen"} \subseteq DOMAIN slot[s]
  BY <1>1 DEF ClickInv, SpentOnce, Reached, Carries, Reading
<1>3. PICK t : t = slot[s].token
  OBVIOUS
<1>4. OnRecord' = OnRecord \cup {t}
  <2> DEFINE e == [token |-> slot[s].token, decision |-> slot[s].decision]
  <2>1. audit' = audit \cup {e} /\ e.token = t
    BY <1>1, <1>3
  <2> HIDE DEF e
  <2>. QED BY <2>1 DEF OnRecord
<1>5. /\ (\E G : token' \in Seq(G)) /\ DOMAIN token \subseteq DOMAIN token'
      /\ DOMAIN slot' = Slot /\ slot' = [x \in Slot |-> slot'[x]]
      /\ \A x \in Slot \ {s} : slot'[x] = slot[x]
      /\ {"pc", "token", "decision", "seen"} \subseteq DOMAIN slot'[s]
      /\ slot'[s].pc = "confirm"
      /\ slot'[s].token = slot[s].token
      /\ slot'[s].decision = "ESCALATE" =>
           "new" \in DOMAIN slot'[s] /\ slot'[s].new \in DOMAIN token'
  <2>1. CASE slot[s].decision = "ESCALATE"
    <3> DEFINE r == [pc |-> "confirm", token |-> slot[s].token, decision |-> slot[s].decision,
                     seen |-> slot[s].seen, new |-> Len(token')]
    <3>1. (\E g : token' = Append(token, g)) /\ slot' = [slot EXCEPT ![s] = r]
      BY <2>1 DEF AppendAudit, ClickInv, ClickTypes
    <3>2. /\ \E G : token' \in Seq(G)
          /\ DOMAIN token' = DOMAIN token \cup {Len(token')}
      BY <3>1, IssuedToken DEF ClickInv, ClickTypes
    <3>3. /\ {"pc", "token", "decision", "seen", "new"} = DOMAIN r
          /\ r.pc = "confirm" /\ r.token = slot[s].token /\ r.new = Len(token')
      OBVIOUS
    <3> HIDE DEF r
    <3>4. /\ DOMAIN slot' = Slot /\ slot' = [x \in Slot |-> slot'[x]]
          /\ \A x \in Slot \ {s} : slot'[x] = slot[x]
          /\ slot'[s] = r
      BY <3>1, Replaced DEF ClickInv
    <3>. QED BY <3>2, <3>3, <3>4
  <2>2. CASE slot[s].decision # "ESCALATE"
    <3>1. GoTo(s, "confirm") /\ UNCHANGED token
      BY <2>2 DEF AppendAudit
    <3>2. (\E G : token' \in Seq(G)) /\ DOMAIN token \subseteq DOMAIN token'
      BY <3>1, NothingIssued DEF ClickInv
    <3>3. /\ DOMAIN slot' = Slot /\ slot' = [x \in Slot |-> slot'[x]]
          /\ \A x \in Slot \ {s} : slot'[x] = slot[x]
          /\ slot'[s].pc = "confirm"
          /\ DOMAIN slot'[s] = DOMAIN slot[s]
          /\ slot'[s].token = slot[s].token
          /\ slot'[s].decision = slot[s].decision
      BY <1>2, <3>1, Moved DEF ClickInv
    <3>4. "pc" \in DOMAIN slot[s]
      BY <1>1 DEF Carries
    <3>. QED BY <1>2, <2>2, <3>2, <3>3, <3>4
  <2>. QED BY <2>1, <2>2
<1>6. Carries(slot[s])'
  BY <1>1, <1>2, <1>5 DEF Carries, Phases, Reading, Escalating
<1>7. ClickTypes'
  <2>1. known' \subseteq DOMAIN token' /\ spent' \subseteq known'
    BY <1>1, <1>5 DEF ClickInv, ClickTypes
  <2>. QED BY <1>1, <1>5, <1>6, <2>1, TypesStep DEF ClickInv, ClickTypes
<1>8. SpentOnce'
  <2>1. \A x \in Slot \ {s} : Past(slot[x]) => slot[x].token # t
    BY <1>1, <1>3, Alone
  <2>2. t \notin confirmed
    BY <1>2, <1>3 DEF ClickInv, SpentOnce
  <2>3. Past(slot'[s]) => slot'[s].token = t /\ Reached(slot[s])'
    BY <1>1, <1>2, <1>3, <1>4, <1>5, <2>2 DEF Reached
  <2>. QED BY <1>1, <1>2, <1>3, <1>4, <1>5, <2>1, <2>3, SpentStep DEF ClickInv, SpentOnce
<1> QED BY <1>7, <1>8 DEF ClickInv

\* A request that goes on to another phase, after a step that spends and records nothing.
LEMMA MovedInv ==
  ASSUME ClickInv, NEW s \in Slot, NEW pc1 \in {"save", "open"}, GoTo(s, pc1),
         slot[s].pc \in {"confirm", "save"},
         UNCHANGED <<token, known, audit, confirmed, started, spent>>, faults' \in Nat
  PROVE  ClickInv'
<1>1. Carries(slot[s]) /\ Past(slot[s]) /\ Reached(slot[s])
      /\ {"token", "decision", "seen"} \subseteq DOMAIN slot[s]
  BY DEF ClickInv, ClickTypes, SpentOnce, Past, Carries, Reading
<1>2. /\ DOMAIN slot' = Slot /\ slot' = [x \in Slot |-> slot'[x]]
      /\ \A x \in Slot \ {s} : slot'[x] = slot[x]
      /\ slot'[s].pc = pc1
      /\ DOMAIN slot'[s] = DOMAIN slot[s]
      /\ slot'[s].token = slot[s].token
      /\ slot'[s].decision = slot[s].decision
      /\ "new" \in DOMAIN slot[s] => slot'[s].new = slot[s].new
  BY <1>1, Moved DEF ClickInv
<1>3. Carries(slot[s])'
  BY <1>1, <1>2 DEF Carries, Phases, Reading, Escalating
<1>4. OnRecord' = OnRecord
  BY DEF OnRecord
<1>5. Reached(slot[s])'
  BY <1>1, <1>2, <1>4 DEF Reached
<1>6. known' \subseteq DOMAIN token' /\ (\E G : token' \in Seq(G))
  BY DEF ClickInv, ClickTypes
<1> QED BY <1>1, <1>2, <1>3, <1>5, <1>6, QuietStep

\* The confirmation is posted under the token that was spent, or is not posted.
LEMMA ConfirmInv ==
  ASSUME ClickInv, NEW s \in Slot, Confirm(s)
  PROVE  ClickInv'
<1>1. /\ slot[s].pc = "confirm" /\ GoTo(s, "save")
      /\ UNCHANGED <<run, token, spent, known, audit, started>>
      /\ faults' \in Nat
  BY DEF Confirm, At, ClickInv, ClickTypes, Fine, Fault, boundVars
<1>2. CASE UNCHANGED confirmed
  BY <1>1, <1>2, MovedInv
<1>3. CASE confirmed' = confirmed \cup {slot[s].token}
  <2>1. /\ Carries(slot[s]) /\ Past(slot[s]) /\ Reached(slot[s])
        /\ {"token", "decision", "seen"} \subseteq DOMAIN slot[s]
    BY <1>1 DEF ClickInv, ClickTypes, SpentOnce, Past, Carries, Reading
  <2>2. PICK t : t = slot[s].token
    OBVIOUS
  <2>3. OnRecord' = OnRecord
    BY <1>1 DEF OnRecord
  <2>4. /\ DOMAIN slot' = Slot /\ slot' = [x \in Slot |-> slot'[x]]
        /\ \A x \in Slot \ {s} : slot'[x] = slot[x]
        /\ slot'[s].pc = "save"
        /\ DOMAIN slot'[s] = DOMAIN slot[s]
        /\ slot'[s].token = slot[s].token
        /\ slot'[s].decision = slot[s].decision
        /\ "new" \in DOMAIN slot[s] => slot'[s].new = slot[s].new
    BY <1>1, <2>1, Moved DEF ClickInv
  <2>5. Carries(slot[s])'
    BY <1>1, <2>1, <2>4 DEF Carries, Phases, Reading, Escalating
  <2>6. ClickTypes'
    BY <1>1, <2>4, <2>5, TypesStep DEF ClickInv, ClickTypes
  <2>7. Past(slot'[s]) => slot'[s].token = t /\ Reached(slot[s])'
    BY <1>1, <2>1, <2>2, <2>3, <2>4 DEF Reached
  <2>8. \A x \in Slot \ {s} : Past(slot[x]) => slot[x].token # t
    BY <2>1, <2>2, Alone
  <2>9. t \in OnRecord /\ t \in spent
    BY <1>1, <2>1, <2>2 DEF Reached
  <2>10. SpentOnce'
    BY <1>1, <1>3, <2>2, <2>3, <2>4, <2>7, <2>8, <2>9, SpentStep DEF ClickInv, SpentOnce
  <2>. QED BY <2>6, <2>10 DEF ClickInv
<1> QED BY <1>2, <1>3 DEF Confirm

\* What ends a request: a storage call that raises, a rejection, an escalation that is answered,
\* and the end of an execution.
LEMMA EndsInv ==
  ASSUME ClickInv, NEW s \in Slot,
         \/ Spoil(s) \/ SaveRejected(s) \/ SaveEscalated(s)
         \/ Close(s) \/ Complete(s) \/ Fail(s)
  PROVE  ClickInv'
<1>1. /\ Answer(s) /\ UNCHANGED <<token, audit, confirmed, started, spent>>
      /\ faults' \in Nat
  BY DEF Spoil, SaveRejected, SaveEscalated, Close, Complete, Fail,
         Fine, Fault, boundVars, runVars, ClickInv, ClickTypes
<1>2. (\E G : token' \in Seq(G)) /\ DOMAIN token \subseteq DOMAIN token'
  BY <1>1, NothingIssued DEF ClickInv
<1>3. Carries(slot[s]) /\ known \subseteq DOMAIN token
  BY DEF ClickInv, ClickTypes
<1>4. known \subseteq known' /\ known' \subseteq DOMAIN token'
  <2>1. CASE Spoil(s) \/ SaveRejected(s) \/ Complete(s) \/ Fail(s)
    BY <1>1, <1>3, <2>1 DEF Spoil, SaveRejected, Complete, Fail, runVars
  <2>2. CASE SaveEscalated(s)
    <3>1. /\ slot[s].pc = "save" /\ slot[s].decision = "ESCALATE"
          /\ known' \in {known, known \cup {slot[s].new}}
      BY <2>2 DEF SaveEscalated, At, Told
    <3>. QED BY <1>1, <1>3, <3>1 DEF Carries, Escalating
  <2>3. CASE Close(s)
    <3>1. slot[s].pc = "close" /\ known' \in {known, known \cup {slot[s].token}}
      BY <2>3 DEF Close, At, Told
    <3>. QED BY <1>1, <1>3, <3>1 DEF Carries
  <2>. QED BY <2>1, <2>2, <2>3
<1> QED BY <1>1, <1>2, <1>4, AnsweredInv

\* An approved request goes on to the execution.
LEMMA SaveApprovedInv ==
  ASSUME ClickInv, NEW s \in Slot, SaveApproved(s)
  PROVE  ClickInv'
<1>1. /\ slot[s].pc = "save" /\ GoTo(s, "open")
      /\ UNCHANGED <<token, known, audit, confirmed, started, spent>> /\ faults' \in Nat
  BY DEF SaveApproved, At, Fine, boundVars, ClickInv, ClickTypes
<1> QED BY <1>1, MovedInv

\* An execution opens, once for the token that it has.
LEMMA OpenInv ==
  ASSUME ClickInv, NEW s \in Slot, Open(s)
  PROVE  ClickInv'
<1> DEFINE r == [pc |-> "body", decided |-> Approved]
<1>1. /\ slot[s].pc = "open"
      /\ slot' = [slot EXCEPT ![s] = r]
      /\ started' = started \cup ({slot[s].token} \ {0})
      /\ UNCHANGED <<token, spent, known, audit, confirmed, faults>>
  BY DEF Open, At, Fine, boundVars
<1>2. r.pc = "body" /\ "pc" \in DOMAIN r
  OBVIOUS
<1> HIDE DEF r
<1>3. /\ DOMAIN slot' = Slot /\ slot' = [x \in Slot |-> slot'[x]]
      /\ \A x \in Slot \ {s} : slot'[x] = slot[x]
      /\ slot'[s] = r
  BY <1>1, Replaced DEF ClickInv
<1>4. Carries(slot[s])' /\ ~Past(slot'[s])
  BY <1>2, <1>3 DEF Carries, Escalating, Past, Phases, Reading
<1>5. /\ faults' \in Nat
      /\ (\E G : token' \in Seq(G)) /\ DOMAIN token \subseteq DOMAIN token'
      /\ known' \subseteq DOMAIN token' /\ known \subseteq known'
      /\ spent' \subseteq known'
  BY <1>1 DEF ClickInv, ClickTypes
<1>6. CASE slot[s].token = 0
  <2>1. UNCHANGED started
    BY <1>1, <1>6
  <2>. QED BY <1>1, <1>3, <1>4, <1>5, <2>1, QuietStep
<1>7. CASE slot[s].token # 0
  <2>1. Past(slot[s]) /\ Reached(slot[s])
    BY <1>1, <1>7 DEF ClickInv, SpentOnce, Past
  <2>2. PICK t : t = slot[s].token
    OBVIOUS
  <2>3. OnRecord' = OnRecord /\ started' \subseteq started \cup {t}
    BY <1>1, <2>2 DEF OnRecord
  <2>4. ClickTypes'
    BY <1>3, <1>4, <1>5, TypesStep DEF ClickInv
  <2>5. \A x \in Slot \ {s} : Past(slot[x]) => slot[x].token # t
    BY <2>1, <2>2, Alone
  <2>6. t \in OnRecord
    BY <1>1, <2>1, <2>2 DEF Reached
  <2>7. /\ SpentOnce /\ spent \subseteq spent'
        /\ OnRecord \subseteq OnRecord' /\ OnRecord' \subseteq OnRecord \cup {t}
        /\ confirmed' \subseteq confirmed \cup {t}
        /\ started' \subseteq started \cup {t}
        /\ OnRecord' \subseteq spent' /\ confirmed' \cup started' \subseteq OnRecord'
        /\ \A x \in Slot \ {s} : slot'[x] = slot[x]
    BY <1>1, <1>3, <2>3, <2>6 DEF ClickInv, SpentOnce
  <2>8. SpentOnce'
    BY <1>4, <2>5, <2>7, SpentStep, Zenon
  <2>. QED BY <2>4, <2>8 DEF ClickInv
<1> QED BY <1>6, <1>7

\* The token of a gate is new: nobody has spent it.
LEMMA SuspendInv ==
  ASSUME ClickInv, NEW s \in Slot, Suspend(s)
  PROVE  ClickInv'
<1> DEFINE gate == NextGate(slot[s].decided)
<1> DEFINE r == [pc |-> "close", token |-> Len(token'), gate |-> gate]
<1>1. /\ \E g : token' = Append(token, g)
      /\ known' \in {known, known \cup {Len(token')}}
      /\ slot' = [slot EXCEPT ![s] = r]
      /\ UNCHANGED <<audit, confirmed, started, spent>>
      /\ faults' \in Nat
  BY DEF Suspend, Fine, Fault, boundVars, Post, ClickInv, ClickTypes
<1>2. r.pc = "close" /\ DOMAIN r = {"pc", "token", "gate"} /\ r.token = Len(token')
  OBVIOUS
<1> HIDE DEF r, gate
<1>3. (\E G : token' \in Seq(G)) /\ DOMAIN token' = DOMAIN token \cup {Len(token')}
  BY <1>1, IssuedToken DEF ClickInv, ClickTypes
<1>4. known \subseteq known' /\ known' \subseteq DOMAIN token'
  BY <1>1, <1>3 DEF ClickInv, ClickTypes
<1>5. /\ DOMAIN slot' = Slot /\ slot' = [x \in Slot |-> slot'[x]]
      /\ \A x \in Slot \ {s} : slot'[x] = slot[x]
      /\ slot'[s] = r
  BY <1>1, Replaced DEF ClickInv
<1>6. Carries(slot[s])' /\ ~Past(slot'[s])
  BY <1>2, <1>3, <1>5 DEF Carries, Escalating, Past, Phases, Reading
<1> QED BY <1>1, <1>3, <1>4, <1>5, <1>6, QuietStep

\* An execution that no token has started.
LEMMA RerunInv ==
  ASSUME ClickInv, NEW s \in Slot, Rerun(s)
  PROVE  ClickInv'
<1> DEFINE r == [pc |-> "open", token |-> 0, decision |-> "RERUN"]
<1>1. slot' = [slot EXCEPT ![s] = r] /\ UNCHANGED <<runVars, faults>>
  BY DEF Rerun, boundVars
<1>2. /\ {"pc", "token", "decision"} \subseteq DOMAIN r
      /\ r.pc = "open" /\ r.token = 0
  OBVIOUS
<1> HIDE DEF r
<1>3. /\ DOMAIN slot' = Slot /\ slot' = [x \in Slot |-> slot'[x]]
      /\ \A x \in Slot \ {s} : slot'[x] = slot[x]
      /\ slot'[s] = r
  BY <1>1, Replaced DEF ClickInv
<1>4. Carries(slot[s])' /\ ~Past(slot'[s])
  BY <1>2, <1>3 DEF Carries, Escalating, Past, Phases, Reading
<1> QED BY <1>1, <1>3, <1>4, QuietStep, NothingIssued DEF ClickInv, ClickTypes, runVars

\* The operators, and time, spend nothing.
LEMMA OperatorsInv ==
  ASSUME ClickInv,
         \/ ReissueToken \/ Recover
         \/ \E t \in DOMAIN token : Expire(t)
         \/ UNCHANGED vars
  PROVE  ClickInv'
<1>1. CASE ReissueToken
  <2>1. /\ \E g : token' = Append(token, g)
        /\ known' = known \cup {Len(token')}
        /\ UNCHANGED <<slot, audit, confirmed, started, spent, faults>>
    BY <1>1 DEF ReissueToken, Post
  <2>2. (\E G : token' \in Seq(G)) /\ DOMAIN token' = DOMAIN token \cup {Len(token')}
    BY <2>1, IssuedToken DEF ClickInv, ClickTypes
  <2>. QED BY <2>1, <2>2, StillStep DEF ClickInv, ClickTypes
<1>2. CASE Recover \/ (\E t \in DOMAIN token : Expire(t)) \/ UNCHANGED vars
  <2>1. UNCHANGED <<token, known, slot, audit, confirmed, started, spent>> /\ faults' \in Nat
    BY <1>2 DEF Recover, Expire, Fault, boundVars, vars, runVars, ClickInv, ClickTypes
  <2>. QED BY <2>1, StillStep, NothingIssued DEF ClickInv, ClickTypes
<1> QED BY <1>1, <1>2

\* The requests under way are gone, and nobody repeats them.
LEMMA CrashInv == ASSUME ClickInv, Crash PROVE ClickInv'
<1>1. /\ slot' = [s \in Slot |-> [pc |-> "free"]]
      /\ UNCHANGED runVars /\ faults' \in Nat
  BY DEF Crash, Fault, Nobody, ClickInv, ClickTypes
<1>2. \A s \in Slot : Carries(slot[s])' /\ ~Past(slot'[s])
  BY <1>1 DEF Carries, Escalating, Past, Phases, Reading
<1>3. ClickTypes'
  BY <1>1, <1>2 DEF ClickInv, ClickTypes, runVars
<1>4. OnRecord' = OnRecord
  BY <1>1 DEF OnRecord, runVars
<1>5. SpentOnce'
  BY <1>1, <1>2, <1>4 DEF ClickInv, SpentOnce, runVars
<1> QED BY <1>3, <1>5 DEF ClickInv

LEMMA ClickInvNext == ClickInv /\ [Next]_vars => ClickInv'
<1> SUFFICES ASSUME ClickInv, [Next]_vars PROVE ClickInv'
  OBVIOUS
<1>1. CASE UNCHANGED vars
  BY <1>1, OperatorsInv
<1>2. ASSUME NEW s \in Slot, NEW t \in known, NEW d \in Decision, Arrive(s, t, d)
      PROVE ClickInv'
  BY <1>2, ArriveInv
<1>3. ASSUME NEW s \in Slot, Serve(s) \/ Rerun(s) PROVE ClickInv'
  BY <1>3, VerifyInv, AppendAuditInv, ConfirmInv, EndsInv, SaveApprovedInv, OpenInv, SuspendInv,
     RerunInv DEF Serve
<1>4. CASE ReissueToken \/ Recover \/ \E t \in DOMAIN token : Expire(t)
  BY <1>4, OperatorsInv
<1>5. CASE Crash
  BY <1>5, CrashInv
<1> QED BY <1>1, <1>2, <1>3, <1>4, <1>5 DEF Next

\* However often a click is made and delivered, whatever fails, is lost or dies: it is decided,
\* confirmed in the channel and executed at most once, in that order.
THEOREM ClicksCountOnce == Spec => ClickCountsOnce
<1> DEFINE Once(s) ==
             /\ AppendAudit(s) => slot[s].token \notin OnRecord
             /\ Confirm(s) => slot[s].token \in OnRecord \ confirmed
             /\ Open(s) => slot[s].token \in {0} \cup (OnRecord \ started)
<1>1. ASSUME ClickInv, NEW s \in Slot PROVE Once(s)
  <2>1. Past(slot[s]) => Reached(slot[s])
    BY <1>1 DEF ClickInv, SpentOnce
  <2>. QED BY <2>1 DEF AppendAudit, Confirm, Open, At, Past, Reached
<1>2. ClickInv => \A s \in Slot : Once(s)
  BY <1>1
<1>3. ClickInv /\ [Next]_vars => [\A s \in Slot : Once(s)]_vars
  BY <1>2
<1> QED BY ClickInvInit, ClickInvNext, <1>3, PTL DEF Spec, ClickCountsOnce

-------------------------------------------------------------------------------

(***************************************************************************)
(* Approvals: while nothing fails, a run that waits can be answered, or a  *)
(* decision about it is on its way.                                        *)
(***************************************************************************)

\* A decision that is being carried out.
Deciding(r) == r.pc \in {"audit", "confirm", "save"}

\* Somebody can answer, once the tokens have reached somebody, and no request on the way will
\* waste the answer; or a decision is being carried out.
Answerable ==
  \/ \E t \in DOMAIN token \ spent :
       \A x \in Slot : slot[x].pc = "verify" /\ slot[x].token = t => slot[x].seen # 0
  \/ \E x \in Slot : Deciding(slot[x])

\* The token of an escalation is nobody's yet, and no other request answers with it.
Fresh(s) ==
  Escalating(slot[s]) =>
    /\ slot[s].new \notin known
    /\ \A x \in Slot \ {s} :
         /\ Escalating(slot[x]) => slot[x].new # slot[s].new
         /\ slot[x].pc = "close" => slot[x].token # slot[s].new

\* What a request makes of the record, or has read in it, is a gate.
AtGate(r) ==
  /\ Deciding(r) => r.seen # 0
  /\ r.pc = "close" => r.gate # 0

WaitsInv ==
  /\ faults = 0 => expired = {}
  /\ run.status = "PAUSED" => run.gate # 0
  /\ \A s \in Slot : AtGate(slot[s]) /\ Fresh(s)
  /\ faults = 0 /\ run.status = "PAUSED" /\ ~late => Answerable

LEMMA WaitsInit == Init => WaitsInv
<1> SUFFICES ASSUME Init PROVE WaitsInv
  OBVIOUS
<1>1. \A x \in Slot : slot[x] = [pc |-> "free"]
  BY DEF Init, Nobody
<1>2. \A x \in Slot : slot[x].pc = "free"
  BY <1>1
<1>3. run.status # "PAUSED" /\ expired = {}
  BY DEF Init
<1> QED BY <1>2, <1>3 DEF WaitsInv, AtGate, Deciding, Fresh, Escalating

\* A step of one request, which makes known no token that another is to answer with.
LEMMA WaitsStep ==
  ASSUME WaitsInv, NEW s \in Slot,
         \A x \in Slot \ {s} : slot'[x] = slot[x],
         faults' = 0 => expired' = {},
         run'.status = "PAUSED" => run'.gate # 0,
         AtGate(slot'[s]),
         \A x \in Slot \ {s} :
           Escalating(slot[x]) =>
             /\ slot[x].new \in known' => slot[x].new \in known
             /\ slot'[s].pc = "close" => slot'[s].token # slot[x].new,
         Fresh(s)',
         faults' = 0 /\ run'.status = "PAUSED" /\ ~late' => Answerable'
  PROVE  WaitsInv'
<1>1. ASSUME NEW x \in Slot \ {s} PROVE AtGate(slot'[x]) /\ Fresh(x)'
  <2>1. slot'[x] = slot[x] /\ AtGate(slot[x]) /\ Fresh(x)
    BY DEF WaitsInv
  <2>2. ASSUME Escalating(slot[x]), NEW y \in Slot \ {x}
        PROVE  /\ Escalating(slot'[y]) => slot'[y].new # slot[x].new
               /\ slot'[y].pc = "close" => slot'[y].token # slot[x].new
    <3>1. CASE y = s
      <4>1. Escalating(slot'[s]) => slot'[s].new # slot[x].new
        BY <2>1, <2>2 DEF Fresh
      <4>. QED BY <2>2, <3>1, <4>1
    <3>2. CASE y # s
      BY <2>1, <2>2, <3>2 DEF Fresh
    <3>. QED BY <3>1, <3>2
  <2>3. Escalating(slot[x]) => slot[x].new \notin known'
    BY <2>1 DEF Fresh
  <2>. QED BY <2>1, <2>2, <2>3 DEF Fresh
<1>2. \A x \in Slot : AtGate(slot'[x]) /\ Fresh(x)'
  BY <1>1
<1> QED BY <1>2 DEF WaitsInv, AtGate, Deciding

\* A request that ends or starts an execution, or is answered, with no decision on its way.
LEMMA WaitsIdle ==
  ASSUME WaitsInv, NEW s \in Slot,
         \A x \in Slot \ {s} : slot'[x] = slot[x],
         slot'[s].pc \in {"free", "open", "body"},
         faults' = 0 => expired' = {},
         run'.status = "PAUSED" => run'.gate # 0,
         \A x \in Slot \ {s} :
           Escalating(slot[x]) => (slot[x].new \in known' => slot[x].new \in known),
         faults' = 0 /\ run'.status = "PAUSED" /\ ~late' => Answerable'
  PROVE  WaitsInv'
<1>1. AtGate(slot'[s]) /\ slot'[s].pc # "close"
  BY DEF AtGate, Deciding
<1>2. Fresh(s)'
  BY DEF Fresh, Escalating
<1> QED BY <1>1, <1>2, WaitsStep

\* The run that is read is waiting at a gate, so that the click does not waste its token.
LEMMA ArriveWaits ==
  ASSUME ClickInv, WaitsInv, NEW s \in Slot, NEW t \in known, NEW d \in Decision,
         Arrive(s, t, d)
  PROVE  WaitsInv'
<1> DEFINE r == [pc |-> "verify", token |-> t, decision |-> d, seen |-> run.gate]
<1>1. /\ slot[s].pc = "free" /\ slot' = [slot EXCEPT ![s] = r]
      /\ UNCHANGED <<run, token, spent, expired, known, late, faults>>
  BY DEF Arrive, Free, At, runVars
<1>2. r.pc = "verify" /\ r.seen = run.gate
  OBVIOUS
<1> HIDE DEF r
<1>3. (\A x \in Slot \ {s} : slot'[x] = slot[x]) /\ slot'[s] = r
  BY <1>1, Replaced DEF ClickInv
<1>4. AtGate(slot'[s]) /\ slot'[s].pc # "close"
  BY <1>2, <1>3 DEF AtGate, Deciding
<1>5. Fresh(s)'
  BY <1>2, <1>3 DEF Fresh, Escalating
<1>6. ASSUME faults' = 0, run'.status = "PAUSED", ~late' PROVE Answerable'
  <2>1. Answerable /\ run.gate # 0
    BY <1>1, <1>6 DEF WaitsInv
  <2>2. \A x \in Slot : Deciding(slot[x]) => Deciding(slot'[x])
    BY <1>1, <1>3 DEF Deciding
  <2>3. \A u : (\A x \in Slot : slot[x].pc = "verify" /\ slot[x].token = u => slot[x].seen # 0)
                 => \A x \in Slot : slot'[x].pc = "verify" /\ slot'[x].token = u
                                      => slot'[x].seen # 0
    BY <1>2, <1>3, <2>1
  <2>. QED BY <1>1, <2>1, <2>2, <2>3 DEF Answerable
<1>7. (faults' = 0 => expired' = {}) /\ (run'.status = "PAUSED" => run'.gate # 0)
  BY <1>1 DEF WaitsInv
<1> QED BY <1>1, <1>3, <1>4, <1>5, <1>6, <1>7, WaitsStep

\* A nonce is wasted by a request that has read a run that was not waiting.
LEMMA VerifyWaits ==
  ASSUME ClickInv, WaitsInv, NEW s \in Slot, Verify(s)
  PROVE  WaitsInv'
<1>1. /\ slot[s].pc = "verify" /\ Carries(slot[s])
      /\ {"token", "decision", "seen"} \subseteq DOMAIN slot[s]
      /\ UNCHANGED <<run, token, known, expired, late, faults>>
  BY DEF Verify, At, ClickInv, ClickTypes, Fine, boundVars, Carries, Reading
<1>2. (faults' = 0 => expired' = {}) /\ (run'.status = "PAUSED" => run'.gate # 0)
  BY <1>1 DEF WaitsInv
<1>3. CASE Answer(s) /\ (spent' = spent \/ (slot[s].seen = 0 /\ spent' = spent \cup {slot[s].token}))
  <2>1. (\A x \in Slot \ {s} : slot'[x] = slot[x]) /\ slot'[s].pc = "free"
    BY <1>3, Answered DEF ClickInv
  <2>2. ASSUME faults' = 0, run'.status = "PAUSED", ~late' PROVE Answerable'
    <3>1. Answerable
      BY <1>1, <2>2 DEF WaitsInv
    <3>2. \A x \in Slot : Deciding(slot[x]) => Deciding(slot'[x])
      BY <1>1, <2>1 DEF Deciding
    <3>3. ASSUME NEW t \in DOMAIN token \ spent,
                 \A x \in Slot : slot[x].pc = "verify" /\ slot[x].token = t => slot[x].seen # 0
          PROVE  /\ t \notin spent'
                 /\ \A x \in Slot : slot'[x].pc = "verify" /\ slot'[x].token = t
                                      => slot'[x].seen # 0
      BY <1>1, <1>3, <2>1, <3>3
    <3>. QED BY <1>1, <3>1, <3>2, <3>3 DEF Answerable
  <2>. QED BY <1>1, <1>2, <2>1, <2>2, WaitsIdle
<1>4. CASE GoTo(s, "audit") /\ slot[s].seen # 0
  <2>1. /\ \A x \in Slot \ {s} : slot'[x] = slot[x]
        /\ slot'[s].pc = "audit" /\ slot'[s].seen = slot[s].seen
    BY <1>1, <1>4, Moved DEF ClickInv
  <2>2. AtGate(slot'[s]) /\ slot'[s].pc # "close" /\ Deciding(slot'[s])
    BY <1>4, <2>1 DEF AtGate, Deciding
  <2>3. Fresh(s)' /\ Answerable'
    BY <2>1, <2>2 DEF Fresh, Escalating, Answerable
  <2>. QED BY <1>1, <1>2, <2>1, <2>2, <2>3, WaitsStep
<1> QED BY <1>3, <1>4 DEF Verify

\* An escalation issues a token that nobody has.
LEMMA AppendAuditWaits ==
  ASSUME ClickInv, WaitsInv, NEW s \in Slot, AppendAudit(s)
  PROVE  WaitsInv'
<1>1. /\ slot[s].pc = "audit" /\ Carries(slot[s])
      /\ {"token", "decision", "seen"} \subseteq DOMAIN slot[s] /\ slot[s].seen # 0
      /\ UNCHANGED <<run, known, spent, expired, late, faults>>
  BY DEF AppendAudit, At, ClickInv, ClickTypes, Fine, boundVars, Carries, Reading,
         WaitsInv, AtGate, Deciding
<1>2. (faults' = 0 => expired' = {}) /\ (run'.status = "PAUSED" => run'.gate # 0)
  BY <1>1 DEF WaitsInv
<1>3. /\ \A x \in Slot \ {s} : slot'[x] = slot[x]
      /\ slot'[s].pc = "confirm" /\ slot'[s].seen = slot[s].seen
      /\ slot'[s].decision = slot[s].decision
      /\ slot'[s].decision = "ESCALATE" => slot'[s].new \notin DOMAIN token
  <2>1. CASE slot[s].decision = "ESCALATE"
    <3> DEFINE r == [pc |-> "confirm", token |-> slot[s].token, decision |-> slot[s].decision,
                     seen |-> slot[s].seen, new |-> Len(token')]
    <3>1. (\E g : token' = Append(token, g)) /\ slot' = [slot EXCEPT ![s] = r]
      BY <2>1 DEF AppendAudit, ClickInv, ClickTypes
    <3>2. Len(token') \notin DOMAIN token
      BY <3>1, IssuedToken DEF ClickInv, ClickTypes
    <3>3. /\ r.pc = "confirm" /\ r.decision = slot[s].decision
          /\ r.seen = slot[s].seen /\ r.new = Len(token')
      OBVIOUS
    <3> HIDE DEF r
    <3>4. (\A x \in Slot \ {s} : slot'[x] = slot[x]) /\ slot'[s] = r
      BY <3>1, Replaced DEF ClickInv
    <3>. QED BY <3>2, <3>3, <3>4
  <2>2. CASE slot[s].decision # "ESCALATE"
    <3>1. GoTo(s, "confirm")
      BY <2>2 DEF AppendAudit
    <3>. QED BY <1>1, <2>2, <3>1, Moved DEF ClickInv
  <2>. QED BY <2>1, <2>2
<1>4. AtGate(slot'[s]) /\ slot'[s].pc # "close" /\ Deciding(slot'[s])
  BY <1>1, <1>3 DEF AtGate, Deciding
<1>5. Fresh(s)'
  <2>1. \A x \in Slot : /\ Escalating(slot[x]) => slot[x].new \in DOMAIN token
                        /\ slot[x].pc = "close" => slot[x].token \in DOMAIN token
    BY DEF ClickInv, ClickTypes, Carries
  <2>. QED BY <1>1, <1>3, <2>1 DEF Fresh, Escalating, ClickInv, ClickTypes
<1> QED BY <1>1, <1>2, <1>3, <1>4, <1>5, WaitsStep DEF Answerable

\* A confirmation changes nothing of the run.
LEMMA ConfirmWaits ==
  ASSUME ClickInv, WaitsInv, NEW s \in Slot, Confirm(s)
  PROVE  WaitsInv'
<1>1. /\ slot[s].pc = "confirm" /\ Carries(slot[s]) /\ GoTo(s, "save")
      /\ {"token", "decision", "seen"} \subseteq DOMAIN slot[s] /\ slot[s].seen # 0
      /\ UNCHANGED <<run, token, known, spent, expired, late>>
      /\ faults' = 0 => faults = 0
  BY DEF Confirm, At, ClickInv, ClickTypes, Fine, Fault, boundVars, Carries, Reading,
         WaitsInv, AtGate, Deciding
<1>2. (faults' = 0 => expired' = {}) /\ (run'.status = "PAUSED" => run'.gate # 0)
  BY <1>1 DEF WaitsInv
<1>3. /\ \A x \in Slot \ {s} : slot'[x] = slot[x]
      /\ slot'[s].pc = "save" /\ slot'[s].seen = slot[s].seen
      /\ slot'[s].decision = slot[s].decision
      /\ "new" \in DOMAIN slot[s] => slot'[s].new = slot[s].new
  BY <1>1, Moved DEF ClickInv
<1>4. AtGate(slot'[s]) /\ slot'[s].pc # "close" /\ Deciding(slot'[s])
  BY <1>1, <1>3 DEF AtGate, Deciding
<1>5. Fresh(s)'
  <2>1. Escalating(slot'[s]) => Escalating(slot[s]) /\ slot'[s].new = slot[s].new
    BY <1>1, <1>3 DEF Escalating, Carries
  <2>2. Fresh(s)
    BY DEF WaitsInv
  <2>. QED BY <1>1, <1>3, <2>1, <2>2 DEF Fresh
<1> QED BY <1>1, <1>2, <1>3, <1>4, <1>5, WaitsStep DEF Answerable

\* A decision that ends the pause, and an execution that opens or ends.
LEMMA MoveOnWaits ==
  ASSUME ClickInv, WaitsInv, NEW s \in Slot,
         SaveRejected(s) \/ SaveApproved(s) \/ Open(s) \/ Complete(s)
  PROVE  WaitsInv'
<1>1. UNCHANGED <<known, expired, faults>> /\ run'.status # "PAUSED"
  BY DEF SaveRejected, SaveApproved, Open, Complete, Fine, boundVars, Record
<1>2. (\A x \in Slot \ {s} : slot'[x] = slot[x]) /\ slot'[s].pc \in {"free", "open", "body"}
  <2>1. CASE SaveApproved(s)
    BY <2>1, Moved DEF SaveApproved, ClickInv
  <2>2. CASE Open(s)
    <3> DEFINE r == [pc |-> "body", decided |-> Approved]
    <3>1. slot' = [slot EXCEPT ![s] = r]
      BY <2>2 DEF Open
    <3>2. r.pc = "body"
      OBVIOUS
    <3> HIDE DEF r
    <3>. QED BY <3>1, <3>2, Replaced DEF ClickInv
  <2>3. CASE SaveRejected(s) \/ Complete(s)
    BY <2>3, Answered DEF SaveRejected, Complete, ClickInv
  <2>. QED BY <2>1, <2>2, <2>3
<1>3. faults' = 0 => expired' = {}
  BY <1>1 DEF WaitsInv
<1> QED BY <1>1, <1>2, <1>3, WaitsIdle

\* The pause that was read is stored again: the new token can answer it.
LEMMA SaveEscalatedWaits ==
  ASSUME ClickInv, WaitsInv, NEW s \in Slot, SaveEscalated(s)
  PROVE  WaitsInv'
<1>1. /\ slot[s].pc = "save" /\ slot[s].decision = "ESCALATE" /\ Answer(s)
      /\ run' = [status |-> "PAUSED", gate |-> slot[s].seen]
      /\ known' \in {known, known \cup {slot[s].new}}
      /\ UNCHANGED <<token, spent, expired, faults>>
  BY DEF SaveEscalated, At, Told, Fine, boundVars, Record
<1>2. (\A x \in Slot \ {s} : slot'[x] = slot[x]) /\ slot'[s].pc = "free"
  BY <1>1, Answered DEF ClickInv
<1>3. Escalating(slot[s]) /\ Fresh(s) /\ slot[s].seen # 0
  BY <1>1 DEF Escalating, WaitsInv, AtGate, Deciding
<1>4. slot[s].new \in DOMAIN token \ spent /\ slot[s].new \notin known
  BY <1>3 DEF Fresh, ClickInv, ClickTypes, Carries
<1>5. \A x \in Slot : slot[x].pc = "verify" => slot[x].token # slot[s].new
  BY <1>4 DEF ClickInv, ClickTypes, Carries, Reading
<1>6. Answerable'
  <2>1. \A x \in Slot : slot'[x].pc = "verify" => slot'[x].token # slot[s].new
    BY <1>2, <1>5
  <2>. QED BY <1>1, <1>4, <2>1 DEF Answerable
<1>7. \A x \in Slot \ {s} : Escalating(slot[x]) => slot[x].new # slot[s].new
  BY <1>3 DEF Fresh
<1>8. (faults' = 0 => expired' = {}) /\ (run'.status = "PAUSED" => run'.gate # 0)
  BY <1>1, <1>3 DEF WaitsInv
<1> QED BY <1>1, <1>2, <1>6, <1>7, <1>8, WaitsIdle

\* The body reaches a gate: its token can answer it, and no request has that token yet.
LEMMA SuspendWaits ==
  ASSUME ClickInv, WaitsInv, NEW s \in Slot, Suspend(s)
  PROVE  WaitsInv'
<1> DEFINE gate == NextGate(slot[s].decided)
<1> DEFINE r == [pc |-> "close", token |-> Len(token'), gate |-> gate]
<1>1. /\ gate # 0 /\ \E g : token' = Append(token, g)
      /\ run' = [status |-> "PAUSED", gate |-> gate]
      /\ known' \in {known, known \cup {Len(token')}}
      /\ slot' = [slot EXCEPT ![s] = r]
      /\ UNCHANGED <<spent, expired>>
      /\ faults' = 0 => faults = 0
  BY DEF Suspend, Record, Fine, Fault, boundVars, Post, ClickInv, ClickTypes
<1>2. r.pc = "close" /\ r.token = Len(token') /\ r.gate = gate
  OBVIOUS
<1> HIDE DEF r, gate
<1>3. DOMAIN token' = DOMAIN token \cup {Len(token')} /\ Len(token') \notin DOMAIN token
  BY <1>1, IssuedToken DEF ClickInv, ClickTypes
<1>4. (\A x \in Slot \ {s} : slot'[x] = slot[x]) /\ slot'[s] = r
  BY <1>1, Replaced DEF ClickInv
<1>5. AtGate(slot'[s]) /\ slot'[s].pc = "close" /\ slot'[s].token = Len(token')
  BY <1>1, <1>2, <1>4 DEF AtGate, Deciding
<1>6. Fresh(s)'
  BY <1>5 DEF Fresh, Escalating
<1>7. \A x \in Slot : /\ Escalating(slot[x]) => slot[x].new # Len(token')
                      /\ slot[x].pc = "verify" => slot[x].token # Len(token')
  BY <1>3 DEF ClickInv, ClickTypes, Carries, Reading
<1>8. Answerable'
  <2>1. \A x \in Slot : slot'[x].pc = "verify" => slot'[x].token # Len(token')
    BY <1>4, <1>5, <1>7
  <2>2. Len(token') \in DOMAIN token' \ spent'
    BY <1>1, <1>3 DEF ClickInv, ClickTypes
  <2>. QED BY <2>1, <2>2 DEF Answerable
<1>9. (faults' = 0 => expired' = {}) /\ (run'.status = "PAUSED" => run'.gate # 0)
  BY <1>1 DEF WaitsInv
<1> QED BY <1>1, <1>4, <1>5, <1>6, <1>7, <1>8, <1>9, WaitsStep

\* A close that is not late puts the record that is there.
LEMMA CloseWaits ==
  ASSUME ClickInv, WaitsInv, NEW s \in Slot, Close(s)
  PROVE  WaitsInv'
<1>1. /\ slot[s].pc = "close" /\ Answer(s)
      /\ run' = [status |-> "PAUSED", gate |-> slot[s].gate]
      /\ ~late' => ~late /\ run = run'
      /\ known' \in {known, known \cup {slot[s].token}}
      /\ UNCHANGED <<token, spent, expired, faults>>
  BY DEF Close, At, Told, Fine, boundVars
<1>2. (\A x \in Slot \ {s} : slot'[x] = slot[x]) /\ slot'[s].pc = "free"
  BY <1>1, Answered DEF ClickInv
<1>3. ASSUME faults' = 0, run'.status = "PAUSED", ~late' PROVE Answerable'
  <2>1. Answerable
    BY <1>1, <1>3 DEF WaitsInv
  <2>2. \A x \in Slot : /\ Deciding(slot[x]) => Deciding(slot'[x])
                        /\ slot'[x].pc = "verify" => slot'[x] = slot[x]
    BY <1>1, <1>2 DEF Deciding
  <2>3. \A u : (\A x \in Slot : slot[x].pc = "verify" /\ slot[x].token = u => slot[x].seen # 0)
                 => \A x \in Slot : slot'[x].pc = "verify" /\ slot'[x].token = u
                                      => slot'[x].seen # 0
    BY <2>2
  <2>. QED BY <1>1, <2>1, <2>2, <2>3 DEF Answerable
<1>4. \A x \in Slot \ {s} : Escalating(slot[x]) => slot[x].new # slot[s].token
  BY <1>1 DEF WaitsInv, Fresh
<1>5. (faults' = 0 => expired' = {}) /\ (run'.status = "PAUSED" => run'.gate # 0)
  BY <1>1 DEF WaitsInv, AtGate
<1> QED BY <1>1, <1>2, <1>3, <1>4, <1>5, WaitsIdle

\* A request that is spoilt, and a body that raises, are faults.
LEMMA SpoiltWaits ==
  ASSUME ClickInv, WaitsInv, NEW s \in Slot, Spoil(s) \/ Fail(s)
  PROVE  WaitsInv'
<1>1. /\ Answer(s) /\ faults' # 0 /\ UNCHANGED known
      /\ run' = run \/ run'.status # "PAUSED"
  BY DEF Spoil, Fail, Fault, runVars, Record, ClickInv, ClickTypes
<1>2. (\A x \in Slot \ {s} : slot'[x] = slot[x]) /\ slot'[s].pc = "free"
  BY <1>1, Answered DEF ClickInv
<1>3. run'.status = "PAUSED" => run'.gate # 0
  BY <1>1 DEF WaitsInv
<1> QED BY <1>1, <1>2, <1>3, WaitsIdle

\* A rerun takes a run that does not wait.
LEMMA RerunWaits ==
  ASSUME ClickInv, WaitsInv, NEW s \in Slot, Rerun(s)
  PROVE  WaitsInv'
<1> DEFINE r == [pc |-> "open", token |-> 0, decision |-> "RERUN"]
<1>1. /\ slot' = [slot EXCEPT ![s] = r] /\ run.status = "PENDING"
      /\ UNCHANGED <<run, known, expired, faults>>
  BY DEF Rerun, boundVars, runVars
<1>2. r.pc = "open"
  OBVIOUS
<1> HIDE DEF r
<1>3. (\A x \in Slot \ {s} : slot'[x] = slot[x]) /\ slot'[s].pc = "open"
  BY <1>1, <1>2, Replaced DEF ClickInv
<1>4. run'.status # "PAUSED" /\ (faults' = 0 => expired' = {})
  BY <1>1 DEF WaitsInv
<1> QED BY <1>1, <1>3, <1>4, WaitsIdle

\* Operators and time leave the requests alone; a token that is reissued is one more.
LEMMA OperatorsWaits ==
  ASSUME ClickInv, WaitsInv,
         \/ ReissueToken \/ Recover
         \/ \E t \in DOMAIN token : Expire(t)
         \/ UNCHANGED vars
  PROVE  WaitsInv'
<1>1. CASE ReissueToken
  <2>1. /\ \E g : token' = Append(token, g)
        /\ known' = known \cup {Len(token')}
        /\ UNCHANGED <<run, slot, spent, expired, late, faults>>
    BY <1>1 DEF ReissueToken, Post
  <2>2. DOMAIN token' = DOMAIN token \cup {Len(token')} /\ Len(token') \notin DOMAIN token
    BY <2>1, IssuedToken DEF ClickInv, ClickTypes
  <2>3. Answerable => Answerable'
    BY <2>1, <2>2 DEF Answerable, Deciding
  <2>4. \A s \in Slot : Escalating(slot[s]) => slot[s].new # Len(token')
    BY <2>2 DEF ClickInv, ClickTypes, Carries
  <2>5. \A s \in Slot : Fresh(s)'
    BY <2>1, <2>4 DEF WaitsInv, Fresh, Escalating
  <2>. QED BY <2>1, <2>3, <2>5 DEF WaitsInv, AtGate, Deciding
<1>2. CASE Recover \/ UNCHANGED vars
  <2>1. /\ UNCHANGED <<token, known, slot, spent, expired, faults>>
        /\ UNCHANGED <<run, late>> \/ run'.status # "PAUSED"
    BY <1>2 DEF Recover, Record, boundVars, vars, runVars
  <2>2. (\A s \in Slot : Fresh(s)') /\ Answerable' = Answerable
    BY <2>1 DEF WaitsInv, Fresh, Escalating, Answerable, Deciding
  <2>. QED BY <2>1, <2>2 DEF WaitsInv, AtGate, Deciding
<1>3. CASE \E t \in DOMAIN token : Expire(t)
  <2>1. UNCHANGED <<run, known, slot>> /\ faults' # 0
    BY <1>3 DEF Expire, Fault, ClickInv, ClickTypes
  <2>2. \A s \in Slot : Fresh(s)'
    BY <2>1 DEF WaitsInv, Fresh, Escalating
  <2>. QED BY <2>1, <2>2 DEF WaitsInv, AtGate, Deciding
<1> QED BY <1>1, <1>2, <1>3

LEMMA CrashWaits == ASSUME ClickInv, WaitsInv, Crash PROVE WaitsInv'
<1>1. /\ slot' = [s \in Slot |-> [pc |-> "free"]]
      /\ UNCHANGED run /\ faults' # 0
  BY DEF Crash, Fault, Nobody, runVars, ClickInv, ClickTypes
<1>2. \A s \in Slot : slot'[s].pc = "free"
  BY <1>1
<1> QED BY <1>1, <1>2 DEF WaitsInv, AtGate, Deciding, Fresh, Escalating

LEMMA WaitsNext == ClickInv /\ WaitsInv /\ [Next]_vars => WaitsInv'
<1> SUFFICES ASSUME ClickInv, WaitsInv, [Next]_vars PROVE WaitsInv'
  OBVIOUS
<1>1. CASE UNCHANGED vars
  BY <1>1, OperatorsWaits
<1>2. ASSUME NEW s \in Slot, NEW t \in known, NEW d \in Decision, Arrive(s, t, d)
      PROVE WaitsInv'
  BY <1>2, ArriveWaits
<1>3. ASSUME NEW s \in Slot, Serve(s) \/ Rerun(s) PROVE WaitsInv'
  BY <1>3, VerifyWaits, AppendAuditWaits, ConfirmWaits, MoveOnWaits, SaveEscalatedWaits,
     SuspendWaits, CloseWaits, SpoiltWaits, RerunWaits DEF Serve
<1>4. CASE ReissueToken \/ Recover \/ \E t \in DOMAIN token : Expire(t)
  BY <1>4, OperatorsWaits
<1>5. CASE Crash
  BY <1>5, CrashWaits
<1> QED BY <1>1, <1>2, <1>3, <1>4, <1>5 DEF Next

\* As long as nothing has failed and every token has reached somebody, a run that waits, and that
\* no late close has written, can be answered: no order of clicks, escalations, tokens reissued
\* early and reruns leaves it without a usable token.
THEOREM WaitingRunsAreAnswerable == Spec => []WaitingRunIsAnswerable
<1>1. ClickInv /\ WaitsInv => WaitingRunIsAnswerable
  <2> SUFFICES ASSUME ClickInv, WaitsInv, run.status = "PAUSED", faults = 0, ~late,
                      \A s \in Slot : slot[s].pc = "free", known = DOMAIN token
               PROVE  Usable # {}
    BY DEF WaitingRunIsAnswerable, At
  <2>1. PICK t : t \in DOMAIN token \ spent
    BY DEF WaitsInv, Answerable, Deciding
  <2>. QED BY <2>1 DEF Usable, WaitsInv
<1> QED BY ClickInvInit, ClickInvNext, WaitsInit, WaitsNext, <1>1, PTL DEF Spec
===============================================================================
