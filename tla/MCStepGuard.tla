------------------------------ MODULE MCStepGuard ------------------------------
(***************************************************************************)
(* The instances of StepGuard that TLC checks.                             *)
(***************************************************************************)
EXTENDS StepGuard, TLC

\* The tasks of a fan-out are interchangeable.
Symmetry == Permutations(Child)

===============================================================================
