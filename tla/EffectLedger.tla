----------------------------- MODULE EffectLedger -----------------------------
(***************************************************************************)
(* What the claims of core/decorators.py promise for the guarded calls of  *)
(* a run: the effect of a call needs its claim, happens at most once, and  *)
(* the claim of an effect that happened is never given up.  StepMemo       *)
(* implements this ledger when a single worker executes the run.           *)
(***************************************************************************)
EXTENDS Naturals

CONSTANT Key   \* the calls whose effect must not be repeated

VARIABLES
  owned,       \* calls whose key is claimed
  count        \* how often the effect of each call has happened

ledger == <<owned, count>>

Init == owned = {} /\ count = [k \in Key |-> 0]

Claim(k) ==
  /\ k \notin owned
  /\ owned' = owned \cup {k}
  /\ UNCHANGED count

Happen(k) ==
  /\ k \in owned
  /\ count[k] = 0
  /\ count' = [count EXCEPT ![k] = 1]
  /\ UNCHANGED owned

\* Only an operator who knows that the effect did not happen frees a claim.
Free(k) ==
  /\ k \in owned
  /\ count[k] = 0
  /\ owned' = owned \ {k}
  /\ UNCHANGED count

Next == \E k \in Key : Claim(k) \/ Happen(k) \/ Free(k)

Spec == Init /\ [][Next]_ledger
===============================================================================
