------------------------------ MODULE MCStepMemo ------------------------------
(***************************************************************************)
(* The instances of StepMemo that TLC checks.                              *)
(***************************************************************************)
EXTENDS StepMemo, TLC

\* Workers are interchangeable, and so are argument hashes.
Symmetry == Permutations(Worker) \cup Permutations(Arg)

===============================================================================
