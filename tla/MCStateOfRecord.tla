---------------------------- MODULE MCStateOfRecord ----------------------------
(***************************************************************************)
(* The workflow bodies and patches that TLC checks StateOfRecord with.     *)
(***************************************************************************)
EXTENDS StateOfRecord

Step(f) == [kind |-> "step", field |-> f, value |-> 1]

Set(f, v) == [kind |-> "assign", field |-> f, value |-> v]

Gate == [kind |-> "gate"]

\* The proposal is assigned from a step's result, the form of the quickstart.
AssigningBodies == {<<Set("a", 1), Gate, Set("b", 1), Gate>>,
                    <<Set("a", 1), Gate, Set("b", 1), Step("c"), Gate>>}

\* The state is written inside of the steps, the form of hitl.md:15-18.
SteppingBodies == {<<Step("a"), Gate, Step("b"), Gate>>,
                   <<Step("a"), Step("b"), Step("c"), Set("a", 2)>>}

AllBodies == AssigningBodies \cup SteppingBodies

PatchA == {[op |-> "remove", field |-> "a"],
           [op |-> "append", field |-> "a"],
           [op |-> "replace", field |-> "a", value |-> 3],
           [op |-> "add", field |-> "a", value |-> 0]}

NoEdit == {}

===============================================================================
