------------------------------- MODULE MCRunGate -------------------------------
(***************************************************************************)
(* The instance of RunGate whose safety TLC checks.                        *)
(***************************************************************************)
EXTENDS RunGate, TLC

\* Threads are interchangeable.
Symmetry == Permutations(Handler)

===============================================================================
