------------------------------ MODULE MCFastPatch ------------------------------
(***************************************************************************)
(* The documents and path segments that TLC checks FastPatch with.         *)
(***************************************************************************)
EXTENDS FastPatch

Segments == {"-", "0", "1", "2", "x"}

\* "x" stands for every segment that is no index: a name, a sign, a leading zero.
Indices == [s \in Segments |-> CASE s = "0" -> 0 [] s = "1" -> 1 [] s = "2" -> 2 [] OTHER -> 3]

Dict(members) == [kind |-> "dict", members |-> [s \in Segments |-> IF s \in members THEN "v" ELSE Absent]]

List(n) == [kind |-> "list", elements |-> [i \in 1..n |-> "v"]]

\* One key holds nothing, a scalar, a dict or a list, the other one a dict.
SmallDocuments ==
  {d \in [Key -> {None, [kind |-> "scalar", scalar |-> "v"], Dict({"x", "0"}), List(2)}] :
     d["b"] = Dict({"x", "0"})}

===============================================================================
