------------------------------ MODULE CycleSearch ------------------------------
(***************************************************************************)
(* The search for a delegation cycle (guardrails/loops.py, _find_cycle): a *)
(* depth-first search with an explicit stack of neighbour iterators.  One  *)
(* iteration of its loops is one step.  The order in which a dict or an    *)
(* iterator yields nodes is the order in which transitions were recorded,  *)
(* which can be any: it is a choice here.                                  *)
(***************************************************************************)
EXTENDS Naturals, Sequences, FiniteSets

CONSTANT Node

ASSUME NodeAssumption == IsFiniteSet(Node)

VARIABLES
  adj,     \* the repeated transitions: the successors of each node
  color,   \* 0: not seen, 1: on the path, 2: finished
  path,    \* the nodes from the start node to the current one
  stack,   \* the same nodes, with what their iterators have left
  answer   \* what the search returns: a cycle, or that there is none

vars == <<adj, color, path, stack, answer>>

Searching == <<>>

NoCycle == <<"none">>

Frame == [node : Node, rest : SUBSET Node]

Init ==
  /\ adj \in [Node -> SUBSET Node]
  /\ color = [n \in Node |-> 0]
  /\ path = <<>>
  /\ stack = <<>>
  /\ answer = Searching

Top == stack[Len(stack)]

\* n becomes the current node, above the frames that are left.
Push(frames, n) ==
  /\ color' = [color EXCEPT ![n] = 1]
  /\ path' = Append(path, n)
  /\ stack' = Append(frames, [node |-> n, rest |-> adj[n]])
  /\ UNCHANGED <<adj, answer>>

\* The keys of adj are the nodes that a transition leaves from.
Start(n) ==
  /\ answer = Searching
  /\ stack = <<>>
  /\ adj[n] # {}
  /\ color[n] = 0
  /\ Push(stack, n)

\* The iterator of the current node yields n; the frames once it has.
Yield(n) ==
  /\ answer = Searching
  /\ stack # <<>>
  /\ n \in Top.rest

Yielded(n) == [stack EXCEPT ![Len(stack)].rest = @ \ {n}]

Descend(n) ==
  /\ Yield(n)
  /\ color[n] = 0
  /\ Push(Yielded(n), n)

\* n is on the path: the path from there on, and back to n, is a cycle.
Close(n) ==
  /\ Yield(n)
  /\ color[n] = 1
  /\ \E i \in DOMAIN path :
       /\ path[i] = n
       /\ \A j \in 1..(i - 1) : path[j] # n
       /\ answer' = Append(SubSeq(path, i, Len(path)), n)
  /\ UNCHANGED <<adj, color, path, stack>>

\* n is finished already.
Skip(n) ==
  /\ Yield(n)
  /\ color[n] = 2
  /\ stack' = Yielded(n)
  /\ UNCHANGED <<adj, color, path, answer>>

\* Mutant: a node that is left is open to be searched again.
BacktrackWhite ==
  /\ answer = Searching
  /\ stack # <<>>
  /\ Top.rest = {}
  /\ color' = [color EXCEPT ![Top.node] = 0]
  /\ path' = SubSeq(path, 1, Len(path) - 1)
  /\ stack' = SubSeq(stack, 1, Len(stack) - 1)
  /\ UNCHANGED <<adj, answer>>

\* Mutant: the path is not shortened with the stack.
BacktrackStack ==
  /\ answer = Searching
  /\ stack # <<>>
  /\ Top.rest = {}
  /\ color' = [color EXCEPT ![Top.node] = 2]
  /\ stack' = SubSeq(stack, 1, Len(stack) - 1)
  /\ UNCHANGED <<adj, path, answer>>

\* The iterator of the current node is exhausted.
Backtrack ==
  /\ answer = Searching
  /\ stack # <<>>
  /\ Top.rest = {}
  /\ color' = [color EXCEPT ![Top.node] = 2]
  /\ path' = SubSeq(path, 1, Len(path) - 1)
  /\ stack' = SubSeq(stack, 1, Len(stack) - 1)
  /\ UNCHANGED <<adj, answer>>

\* Every node that a transition leaves from has been seen.
GiveUp ==
  /\ answer = Searching
  /\ stack = <<>>
  /\ \A n \in Node : adj[n] # {} => color[n] # 0
  /\ answer' = NoCycle
  /\ UNCHANGED <<adj, color, path, stack>>

Step ==
  \/ \E n \in Node : Start(n) \/ Descend(n) \/ Close(n) \/ Skip(n)
  \/ Backtrack
  \/ GiveUp

Spec == Init /\ [][Step]_vars

-------------------------------------------------------------------------------

Found == answer \notin {Searching, NoCycle}

\* A sequence of repeated transitions.
IsWalk(s) == \A i \in 1..(Len(s) - 1) : s[i + 1] \in adj[s[i]]

\* The text of the InfiniteLoopDetected is true: the cycle that it names leads from a
\* node back to that node, and every hand-off of it has been recorded repeatedly.
CycleIsReal ==
  Found => /\ Len(answer) > 1
           /\ answer[1] = answer[Len(answer)]
           /\ IsWalk(answer)

\* The nodes that are reached from a set of nodes in one or more transitions.
Reached(from) ==
  LET within[k \in 0..Cardinality(Node)] ==
        IF k = 0 THEN UNION {adj[n] : n \in from}
        ELSE within[k - 1] \cup UNION {adj[n] : n \in within[k - 1]}
  IN within[Cardinality(Node)]
===============================================================================
