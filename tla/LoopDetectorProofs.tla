-------------------------- MODULE LoopDetectorProofs --------------------------
(***************************************************************************)
(* For every set of nodes, calls and texts, and every limit: a cycle that  *)
(* the detector reports is a cycle of repeated transitions, a call that    *)
(* returns leaves no such cycle, and a call is stopped exactly if the      *)
(* window of the last calls says so.                                       *)
(***************************************************************************)
EXTENDS LoopDetector, SequenceTheorems, FunctionTheorems, FiniteSetTheorems,
        WellFoundedInduction, TLAPS

\* The types of the graph, the path and the stack.
SearchOK ==
  /\ adj \in [Node -> SUBSET Node]
  /\ path \in Seq(Node)
  /\ stack \in Seq(Frame)

\* The stack holds the nodes of the path, with successors of theirs that are left.
InStep ==
  /\ Len(path) = Len(stack)
  /\ \A i \in 1..Len(stack) : stack[i].node = path[i] /\ stack[i].rest \subseteq adj[path[i]]

\* The inductive invariant: the path is a walk, which is what makes its end a cycle.
PathInv == SearchOK /\ InStep /\ IsWalk(path) /\ CycleIsReal

LEMMA InitPath == Init => PathInv
<1>1. SUFFICES ASSUME Init PROVE PathInv
  OBVIOUS
<1>2. /\ adj \in [Node -> SUBSET Node]
      /\ path = <<>> /\ stack = <<>> /\ answer = <<>>
  BY <1>1 DEF Init, Searching
<1>3. SearchOK /\ InStep
  BY <1>2 DEF SearchOK, InStep
<1>4. IsWalk(path)
  BY <1>2 DEF IsWalk
<1>5. CycleIsReal
  BY <1>2 DEF CycleIsReal, Found, Searching
<1>. QED BY <1>3, <1>4, <1>5 DEF PathInv

\* A walk goes on to a successor of its last node.
LEMMA WalkExtends ==
  ASSUME NEW s \in Seq(Node), NEW n \in Node, IsWalk(s),
         s # <<>> => n \in adj[s[Len(s)]]
  PROVE  IsWalk(Append(s, n))
<1>1. SUFFICES ASSUME NEW i \in 1..Len(s)
               PROVE  Append(s, n)[i + 1] \in adj[Append(s, n)[i]]
  BY DEF IsWalk
<1>2. Append(s, n)[i] = s[i] /\ Len(s) \in Nat /\ s # <<>>
  BY <1>1
<1>3. CASE i = Len(s)
  <2>1. Append(s, n)[i + 1] = n
    BY <1>3
  <2>. QED BY <1>2, <1>3, <2>1
<1>4. CASE i # Len(s)
  <2>1. i \in 1..(Len(s) - 1) /\ i + 1 \in 1..Len(s)
    BY <1>1, <1>2, <1>4
  <2>2. Append(s, n)[i + 1] = s[i + 1]
    BY <2>1
  <2>. QED BY <1>2, <2>1, <2>2 DEF IsWalk
<1>. QED BY <1>3, <1>4

\* A stretch of a walk is a walk.
LEMMA WalkStretch ==
  ASSUME NEW s \in Seq(Node), NEW i \in 1..Len(s), NEW k \in 0..Len(s), i <= k + 1, IsWalk(s)
  PROVE  /\ SubSeq(s, i, k) \in Seq(Node)
         /\ Len(SubSeq(s, i, k)) = k - i + 1
         /\ \A j \in 1..(k - i + 1) : SubSeq(s, i, k)[j] = s[i + j - 1]
         /\ IsWalk(SubSeq(s, i, k))
<1>1. /\ SubSeq(s, i, k) \in Seq(Node)
      /\ Len(SubSeq(s, i, k)) = k - i + 1
      /\ \A j \in 1..(k - i + 1) : SubSeq(s, i, k)[j] = s[i + j - 1]
  OBVIOUS
<1>2. ASSUME NEW j \in 1..(k - i + 1 - 1)
      PROVE  SubSeq(s, i, k)[j + 1] \in adj[SubSeq(s, i, k)[j]]
  <2>1. /\ i + j - 1 \in 1..(Len(s) - 1)
        /\ j \in 1..(k - i + 1) /\ j + 1 \in 1..(k - i + 1)
        /\ i + (j + 1) - 1 = (i + j - 1) + 1
    OBVIOUS
  <2>2. s[(i + j - 1) + 1] \in adj[s[i + j - 1]]
    BY <2>1 DEF IsWalk
  <2>. QED BY <1>1, <2>1, <2>2
<1>. QED BY <1>1, <1>2 DEF IsWalk

\* What a frame is when its iterator has yielded n.
LEMMA FrameYields ==
  ASSUME NEW g \in Frame, NEW n
  PROVE  [g EXCEPT !.rest = @ \ {n}] = [node |-> g.node, rest |-> g.rest \ {n}]
BY DEF Frame

\* The frames with n yielded are as many as before, and no frame's rest has grown.
LEMMA YieldedKeeps ==
  ASSUME SearchOK, InStep, NEW n \in Node, stack # <<>>
  PROVE  /\ Yielded(n) \in Seq(Frame)
         /\ Len(Yielded(n)) = Len(stack)
         /\ \A i \in 1..Len(stack) : /\ Yielded(n)[i].node = path[i]
                                     /\ Yielded(n)[i].rest \subseteq adj[path[i]]
         /\ \A i \in 1..Len(stack) :
              Yielded(n)[i].rest = IF i = Len(stack) THEN stack[i].rest \ {n} ELSE stack[i].rest
<1> DEFINE f == [node |-> Top.node, rest |-> Top.rest \ {n}]
<1>1. stack \in Seq(Frame) /\ Len(stack) \in 1..Len(stack)
  BY DEF SearchOK
<1>2. Top \in Frame
  BY <1>1 DEF Top
<1>3. f \in Frame /\ f.node = Top.node /\ f.rest = Top.rest \ {n}
  BY <1>2 DEF Frame
<1>4. Yielded(n) = [stack EXCEPT ![Len(stack)] = f]
  BY <1>2, FrameYields DEF Yielded, Top
<1> HIDE DEF f
<1>5. /\ Yielded(n) \in Seq(Frame)
      /\ Len(Yielded(n)) = Len(stack)
      /\ \A i \in 1..Len(stack) : Yielded(n)[i] = IF i = Len(stack) THEN f ELSE stack[i]
  BY <1>1, <1>3, <1>4, ExceptSeq
<1>6. Top.node = path[Len(stack)] /\ Top.rest \subseteq adj[path[Len(stack)]]
  BY <1>1 DEF InStep, Top
<1>7. \A i \in 1..Len(stack) :
        Yielded(n)[i].rest = IF i = Len(stack) THEN stack[i].rest \ {n} ELSE stack[i].rest
  BY <1>3, <1>5 DEF Top
<1>. QED BY <1>3, <1>5, <1>6, <1>7 DEF InStep

\* What Start and Descend have in common: n goes on top of frames that match the path.
LEMMA PushKeeps ==
  ASSUME PathInv, NEW n \in Node, NEW frames \in Seq(Frame), answer = Searching,
         Len(frames) = Len(path),
         \A i \in 1..Len(frames) : /\ frames[i].node = path[i]
                                   /\ frames[i].rest \subseteq adj[path[i]],
         path # <<>> => n \in adj[path[Len(path)]],
         Push(frames, n)
  PROVE  PathInv'
<1>1. /\ adj' = adj /\ answer' = answer
      /\ path' = Append(path, n)
      /\ stack' = Append(frames, [node |-> n, rest |-> adj[n]])
  BY DEF Push
<1>2. [node |-> n, rest |-> adj[n]] \in Frame
  BY DEF PathInv, SearchOK, Frame
<1>3. SearchOK'
  BY <1>1, <1>2 DEF PathInv, SearchOK
<1>4. InStep'
  <2>1. path \in Seq(Node)
    BY DEF PathInv, SearchOK
  <2>2. Len(path') = Len(path) + 1 /\ Len(stack') = Len(path) + 1
    BY <1>1, <2>1
  <2>3. ASSUME NEW i \in 1..(Len(path) + 1)
        PROVE  stack'[i].node = path'[i] /\ stack'[i].rest \subseteq adj[path'[i]]
    <3>1. CASE i = Len(path) + 1
      <4>1. path'[i] = n /\ stack'[i] = [node |-> n, rest |-> adj[n]]
        BY <1>1, <2>1, <3>1
      <4>. QED BY <4>1
    <3>2. CASE i \in 1..Len(path)
      <4>1. path'[i] = path[i] /\ stack'[i] = frames[i]
        BY <1>1, <2>1, <3>2
      <4>. QED BY <3>2, <4>1
    <3>. QED BY <2>1, <2>3, <3>1, <3>2
  <2>. QED BY <1>1, <2>2, <2>3 DEF InStep
<1>5. IsWalk(path)'
  <2>1. IsWalk(Append(path, n))
    BY WalkExtends DEF PathInv, SearchOK
  <2>. QED BY <1>1, <2>1 DEF IsWalk
<1>6. CycleIsReal'
  BY <1>1 DEF CycleIsReal, Found
<1>. QED BY <1>3, <1>4, <1>5, <1>6 DEF PathInv

LEMMA StartKeeps ==
  ASSUME PathInv, NEW n \in Node, Start(n)
  PROVE  PathInv'
<1>1. stack = <<>> /\ path = <<>> /\ stack \in Seq(Frame) /\ Len(stack) = Len(path)
  BY DEF Start, PathInv, SearchOK, InStep
<1>2. answer = Searching /\ Push(stack, n)
  BY DEF Start
<1>3. \A i \in 1..Len(stack) : /\ stack[i].node = path[i]
                                /\ stack[i].rest \subseteq adj[path[i]]
  BY DEF PathInv, InStep
<1>. QED BY <1>1, <1>2, <1>3, PushKeeps

LEMMA DescendKeeps ==
  ASSUME PathInv, NEW n \in Node, Descend(n)
  PROVE  PathInv'
<1>1. stack # <<>> /\ n \in Top.rest /\ answer = Searching /\ Push(Yielded(n), n)
  BY DEF Descend, Yield
<1>2. n \in adj[path[Len(path)]]
  BY <1>1 DEF PathInv, SearchOK, InStep, Top
<1>3. /\ Yielded(n) \in Seq(Frame)
      /\ Len(Yielded(n)) = Len(path)
      /\ \A i \in 1..Len(Yielded(n)) : /\ Yielded(n)[i].node = path[i]
                                       /\ Yielded(n)[i].rest \subseteq adj[path[i]]
  BY <1>1, YieldedKeeps DEF PathInv, InStep
<1>. QED BY <1>1, <1>2, <1>3, PushKeeps

LEMMA CloseKeeps ==
  ASSUME PathInv, NEW n \in Node, Close(n)
  PROVE  PathInv' /\ Len(answer') # 1
<1>1. PICK i \in DOMAIN path :
        path[i] = n /\ answer' = Append(SubSeq(path, i, Len(path)), n)
  BY DEF Close
<1>2. /\ UNCHANGED <<adj, color, path, stack>>
      /\ stack # <<>> /\ n \in Top.rest
  BY DEF Close, Yield
<1>3. SearchOK' /\ InStep' /\ IsWalk(path)'
  BY <1>2 DEF PathInv, SearchOK, InStep, IsWalk
<1>4. path \in Seq(Node) /\ i \in 1..Len(path) /\ Len(path) \in Nat
  BY <1>1 DEF PathInv, SearchOK
<1>5. n \in adj[path[Len(path)]]
  BY <1>2 DEF PathInv, SearchOK, InStep, Top
<1> DEFINE tail == SubSeq(path, i, Len(path))
<1>6. /\ tail \in Seq(Node)
      /\ Len(tail) = Len(path) - i + 1
      /\ \A j \in 1..(Len(path) - i + 1) : tail[j] = path[i + j - 1]
      /\ IsWalk(tail)
  BY <1>4, WalkStretch DEF PathInv
<1>7. /\ tail # <<>>
      /\ tail[1] = n
      /\ tail[Len(tail)] = path[Len(path)]
  <2>1. \A l \in Nat : \A j \in 1..l : /\ l - j + 1 \in 1..l /\ 1 \in 1..(l - j + 1)
                                      /\ l - j + 1 \in 1..(l - j + 1)
                                      /\ j + 1 - 1 = j /\ j + (l - j + 1) - 1 = l
    OBVIOUS
  <2>2. Len(tail) # 0 /\ tail[1] = path[i]
    BY <1>4, <1>6, <2>1
  <2>3. tail[Len(tail)] = path[Len(path)]
    BY <1>4, <1>6, <2>1
  <2>4. tail # <<>>
    BY <2>2, EmptySeq
  <2>. QED BY <1>1, <2>2, <2>3, <2>4
<1> HIDE DEF tail
<1>8. IsWalk(Append(tail, n))
  BY <1>5, <1>6, <1>7, WalkExtends
<1>9. /\ Len(Append(tail, n)) > 1 /\ Len(Append(tail, n)) # 1
      /\ Append(tail, n)[1] = n
      /\ Append(tail, n)[Len(Append(tail, n))] = n
  <2>1. Len(tail) \in Nat \ {0}
    BY <1>6, <1>7, EmptySeq
  <2>2. /\ Len(Append(tail, n)) = Len(tail) + 1
        /\ Append(tail, n)[Len(tail) + 1] = n
        /\ \A j \in 1..Len(tail) : Append(tail, n)[j] = tail[j]
    BY <1>6, AppendProperties
  <2>. QED BY <1>7, <2>1, <2>2
<1>10. answer' = Append(tail, n) /\ adj' = adj
  BY <1>1, <1>2 DEF tail
<1>11. CycleIsReal'
  BY <1>8, <1>9, <1>10 DEF CycleIsReal, IsWalk
<1>. QED BY <1>3, <1>9, <1>10, <1>11 DEF PathInv

LEMMA SkipKeeps ==
  ASSUME PathInv, NEW n \in Node, Skip(n)
  PROVE  PathInv'
<1>1. stack # <<>> /\ stack' = Yielded(n) /\ UNCHANGED <<adj, path, answer>>
  BY DEF Skip, Yield
<1>2. /\ Yielded(n) \in Seq(Frame)
      /\ Len(Yielded(n)) = Len(stack)
      /\ \A i \in 1..Len(stack) : /\ Yielded(n)[i].node = path[i]
                                  /\ Yielded(n)[i].rest \subseteq adj[path[i]]
  BY <1>1, YieldedKeeps DEF PathInv
<1>. QED BY <1>1, <1>2 DEF PathInv, SearchOK, InStep, IsWalk, CycleIsReal, Found

LEMMA BacktrackKeeps ==
  ASSUME PathInv, Backtrack
  PROVE  PathInv'
<1>1. /\ stack # <<>> /\ UNCHANGED <<adj, answer>>
      /\ path' = SubSeq(path, 1, Len(path) - 1)
      /\ stack' = SubSeq(stack, 1, Len(stack) - 1)
  BY DEF Backtrack
<1>2. /\ path \in Seq(Node) /\ stack \in Seq(Frame)
      /\ Len(path) = Len(stack) /\ Len(path) \in Nat \ {0}
  BY <1>1 DEF PathInv, SearchOK, InStep
<1>3. /\ path' \in Seq(Node)
      /\ Len(path') = Len(path) - 1
      /\ \A j \in 1..(Len(path) - 1) : path'[j] = path[j]
      /\ IsWalk(path')
  BY <1>1, <1>2, WalkStretch DEF PathInv
<1>4. /\ stack' \in Seq(Frame)
      /\ Len(stack') = Len(path) - 1
      /\ \A j \in 1..(Len(path) - 1) : stack'[j] = stack[j]
  BY <1>1, <1>2
<1>5. InStep'
  BY <1>1, <1>2, <1>3, <1>4 DEF PathInv, InStep
<1>. QED BY <1>1, <1>3, <1>4, <1>5 DEF PathInv, SearchOK, IsWalk, CycleIsReal, Found

LEMMA StepKeepsPath ==
  ASSUME PathInv, [Step]_vars
  PROVE  PathInv'
<1>1. CASE GiveUp
  BY <1>1 DEF GiveUp, PathInv, SearchOK, InStep, IsWalk, CycleIsReal, Found
<1>2. CASE UNCHANGED vars
  BY <1>2 DEF vars, PathInv, SearchOK, InStep, IsWalk, CycleIsReal, Found
<1>. QED BY <1>1, <1>2, StartKeeps, DescendKeeps, CloseKeeps, SkipKeeps, BacktrackKeeps
         DEF Step

(***************************************************************************)
(* What the colours mean.                                                  *)
(***************************************************************************)

\* The path has every node that is being searched, once.
Gray ==
  /\ \A n \in Node : color[n] = 1 <=> \E i \in 1..Len(path) : path[i] = n
  /\ \A i, j \in 1..Len(path) : path[i] = path[j] => i = j

Finished == {n \in Node : color[n] = 2}

\* A finished node leads to finished nodes only.
Closed == \A n \in Finished : adj[n] \subseteq Finished

\* So does what the iterators have yielded, but for the next node of the path.
Explored ==
  \A i \in 1..Len(stack) : \A m \in adj[path[i]] \ stack[i].rest :
    m \in Finished \/ (i < Len(path) /\ m = path[i + 1])

\* From no node of a set B is there an endless walk in B: a set of them that is not empty
\* has one that leads out of it.  This says without paths that B has no cycle.
Ends(B) == \A S \in SUBSET B : S # {} => \E n \in S : adj[n] \cap S = {}

\* The inductive invariant of a search: among the finished nodes there is no cycle.
SearchInv ==
  /\ color \in [Node -> {0, 1, 2}]
  /\ Gray /\ Closed /\ Explored
  /\ Ends(Finished)
  /\ answer = NoCycle => Ends(Node)

\* The first steps of a search.
LEMMA FreshSearchInv ==
  ASSUME FreshSearch
  PROVE  SearchInv'
<1>1. color' = [n \in Node |-> 0] /\ path' = <<>> /\ stack' = <<>> /\ answer' = <<>>
  BY DEF FreshSearch, Searching
<1>2. Finished' = {}
  BY <1>1 DEF Finished
<1>3. Gray' /\ Explored'
  BY <1>1 DEF Gray, Explored
<1>4. Closed' /\ Ends(Finished)'
  BY <1>2 DEF Closed, Ends
<1>5. answer' # NoCycle'
  BY <1>1 DEF NoCycle
<1>. QED BY <1>1, <1>3, <1>4, <1>5 DEF SearchInv

\* A search begins with one grey node.
LEMMA StartSearch ==
  ASSUME PathInv, SearchInv, NEW n \in Node, Start(n)
  PROVE  SearchInv'
<1>1. /\ color[n] = 0 /\ adj' = adj /\ answer' = answer /\ answer = Searching
      /\ color' = [color EXCEPT ![n] = 1]
      /\ path' = Append(path, n) /\ stack' = Append(stack, [node |-> n, rest |-> adj[n]])
      /\ stack = <<>> /\ path = <<>>
  BY DEF Start, Push, PathInv, SearchOK, InStep
<1>2. path' = <<n>> /\ stack' = <<[node |-> n, rest |-> adj[n]]>>
  BY <1>1
<1>3. Finished' = Finished
  BY <1>1 DEF Finished, SearchInv
<1>4. color' \in [Node -> {0, 1, 2}]
  BY <1>1 DEF SearchInv
<1>5. Gray'
  <2>1. \A m \in Node : color[m] # 1
    BY <1>1 DEF SearchInv, Gray
  <2>. QED BY <1>1, <1>2, <2>1 DEF Gray, SearchInv
<1>6. Explored'
  <2>1. Len(stack') = 1 /\ path'[1] = n /\ stack'[1].rest = adj'[n]
    BY <1>1, <1>2
  <2>. QED BY <2>1 DEF Explored
<1>7. Closed' /\ Ends(Finished)'
  BY <1>1, <1>3 DEF SearchInv, Closed, Ends
<1>8. answer' # NoCycle'
  BY <1>1 DEF Searching, NoCycle
<1>. QED BY <1>4, <1>5, <1>6, <1>7, <1>8 DEF SearchInv

\* A node that is entered is grey, and its own successors are still to be looked at.
LEMMA DescendSearch ==
  ASSUME PathInv, SearchInv, NEW n \in Node, Descend(n)
  PROVE  SearchInv'
<1>1. /\ color[n] = 0 /\ adj' = adj /\ answer' = answer /\ answer = Searching
      /\ color' = [color EXCEPT ![n] = 1]
      /\ path' = Append(path, n)
      /\ stack' = Append(Yielded(n), [node |-> n, rest |-> adj[n]])
      /\ stack # <<>> /\ n \in Top.rest
  BY DEF Descend, Yield, Push
<1>2. /\ path \in Seq(Node) /\ stack \in Seq(Frame)
      /\ Len(path) = Len(stack) /\ Len(path) \in Nat \ {0}
  BY <1>1 DEF PathInv, SearchOK, InStep
<1>3. Finished' = Finished /\ n \notin Finished
  BY <1>1 DEF Finished, SearchInv
<1>4. color' \in [Node -> {0, 1, 2}]
  BY <1>1 DEF SearchInv
<1>5. /\ Len(path') = Len(path) + 1 /\ path'[Len(path) + 1] = n
      /\ \A i \in 1..Len(path) : path'[i] = path[i] /\ path[i] \in Node
  BY <1>1, <1>2, AppendProperties
<1>6. \A i \in 1..Len(path) : path[i] # n
  BY <1>1 DEF SearchInv, Gray
<1>7. Gray'
  <2>1. ASSUME NEW m \in Node
        PROVE  color'[m] = 1 <=> \E i \in 1..Len(path') : path'[i] = m
    <3>1. CASE m = n
      <4>1. Len(path) + 1 \in 1..Len(path')
        BY <1>2, <1>5
      <4>. QED BY <1>1, <1>5, <3>1, <4>1 DEF SearchInv
    <3>2. CASE m # n
      <4>1. color'[m] = color[m]
        BY <1>1, <3>2 DEF SearchInv
      <4>2. (\E i \in 1..Len(path') : path'[i] = m) <=> (\E i \in 1..Len(path) : path[i] = m)
        BY <1>2, <1>5, <3>2
      <4>. QED BY <4>1, <4>2 DEF SearchInv, Gray
    <3>. QED BY <3>1, <3>2
  <2>2. ASSUME NEW i \in 1..Len(path'), NEW j \in 1..Len(path'), path'[i] = path'[j]
        PROVE  i = j
    <3>1. \A k \in 1..Len(path') : k = Len(path) + 1 \/ k \in 1..Len(path)
      BY <1>2, <1>5
    <3>2. \A k, l \in 1..Len(path) : path[k] = path[l] => k = l
      BY DEF SearchInv, Gray
    <3>. QED BY <1>5, <1>6, <2>2, <3>1, <3>2
  <2>. QED BY <2>1, <2>2 DEF Gray
<1>8. Explored'
  <2>1. \A i \in 1..Len(stack) :
          Yielded(n)[i].rest = IF i = Len(stack) THEN stack[i].rest \ {n} ELSE stack[i].rest
    BY <1>1, YieldedKeeps DEF PathInv
  <2>2. /\ Yielded(n) \in Seq(Frame) /\ Len(Yielded(n)) = Len(stack)
    BY <1>1, YieldedKeeps DEF PathInv
  <2>3. [node |-> n, rest |-> adj[n]] \in Frame
    BY DEF PathInv, SearchOK, Frame
  <2>4. /\ Len(stack') = Len(stack) + 1
        /\ stack'[Len(stack) + 1] = [node |-> n, rest |-> adj[n]]
        /\ \A i \in 1..Len(stack) : stack'[i] = Yielded(n)[i]
    BY <1>1, <2>2, <2>3, AppendProperties
  <2>5. SUFFICES ASSUME NEW i \in 1..Len(stack'), NEW m \in adj'[path'[i]] \ stack'[i].rest
                 PROVE  m \in Finished' \/ (i < Len(path') /\ m = path'[i + 1])
    BY DEF Explored
  <2>6. CASE i = Len(stack) + 1
    <3>1. path'[i] = n /\ stack'[i].rest = adj[n]
      BY <1>2, <1>5, <2>4, <2>6
    <3>. QED BY <1>1, <2>5, <3>1
  <2>7. CASE i \in 1..Len(stack) /\ m = n /\ i = Len(stack)
    BY <1>2, <1>5, <2>7
  <2>8. CASE i \in 1..Len(stack) /\ ~(m = n /\ i = Len(stack))
    <3>1. m \in adj[path[i]] \ stack[i].rest
      BY <1>1, <1>2, <1>5, <2>1, <2>4, <2>5, <2>8
    <3>2. m \in Finished \/ (i < Len(path) /\ m = path[i + 1])
      BY <2>8, <3>1 DEF SearchInv, Explored
    <3>3. i < Len(path) => i + 1 \in 1..Len(path) /\ i < Len(path')
      BY <1>2, <1>5, <2>8
    <3>. QED BY <1>3, <1>5, <3>2, <3>3
  <2>. QED BY <1>2, <2>4, <2>5, <2>6, <2>7, <2>8
<1>9. Closed' /\ Ends(Finished)'
  BY <1>1, <1>3 DEF SearchInv, Closed, Ends
<1>10. answer' # NoCycle'
  BY <1>1 DEF Searching, NoCycle
<1>. QED BY <1>4, <1>7, <1>8, <1>9, <1>10 DEF SearchInv

\* The search that has found a cycle claims nothing of the colours.
LEMMA CloseSearch ==
  ASSUME PathInv, SearchInv, NEW n \in Node, Close(n)
  PROVE  SearchInv'
<1>1. UNCHANGED <<adj, color, path, stack>> /\ Len(answer') # 1
  BY CloseKeeps DEF Close
<1>2. answer' # NoCycle'
  <2>1. Len(<<"none">>) = 1 /\ Len(answer') # 1
    BY <1>1
  <2>. QED BY <2>1, Zenon DEF NoCycle
<1>3. Finished' = Finished
  BY <1>1 DEF Finished
<1>. QED BY <1>1, <1>2, <1>3 DEF SearchInv, Gray, Closed, Explored, Ends

\* A successor that is passed over is black already.
LEMMA SkipSearch ==
  ASSUME PathInv, SearchInv, NEW n \in Node, Skip(n)
  PROVE  SearchInv'
<1>1. /\ UNCHANGED <<adj, color, path, answer>> /\ stack' = Yielded(n)
      /\ n \in Finished /\ stack # <<>>
  BY DEF Skip, Yield, Finished
<1>2. Finished' = Finished
  BY <1>1 DEF Finished
<1>3. /\ Len(stack') = Len(stack)
      /\ \A i \in 1..Len(stack) :
           stack'[i].rest = IF i = Len(stack) THEN stack[i].rest \ {n} ELSE stack[i].rest
  BY <1>1, YieldedKeeps DEF PathInv
<1>4. Explored'
  <2>1. SUFFICES ASSUME NEW i \in 1..Len(stack), NEW m \in adj[path[i]] \ stack'[i].rest
                 PROVE  m \in Finished \/ (i < Len(path) /\ m = path[i + 1])
    BY <1>1, <1>2, <1>3 DEF Explored
  <2>2. CASE m = n
    BY <1>1, <2>2
  <2>3. CASE m # n
    <3>1. m \in adj[path[i]] \ stack[i].rest
      BY <1>3, <2>1, <2>3
    <3>. QED BY <3>1 DEF SearchInv, Explored
  <2>. QED BY <2>2, <2>3
<1>5. Gray' /\ Closed' /\ Ends(Finished)'
  BY <1>1, <1>2 DEF SearchInv, Gray, Closed, Ends
<1>. QED BY <1>1, <1>4, <1>5 DEF SearchInv, Ends, NoCycle

\* A node that leads to finished nodes only does not close a cycle with them.
LEMMA EndsExtends ==
  ASSUME adj \in [Node -> SUBSET Node], NEW B \in SUBSET Node, NEW n \in Node, n \notin B,
         \A m \in B : adj[m] \subseteq B, adj[n] \subseteq B, Ends(B)
  PROVE  Ends(B \cup {n})
<1>1. SUFFICES ASSUME NEW S \in SUBSET (B \cup {n}), S # {}
               PROVE  \E m \in S : adj[m] \cap S = {}
  BY DEF Ends
<1>2. CASE S \cap B = {}
  <2>1. S = {n}
    BY <1>1, <1>2
  <2>. QED BY <2>1
<1>3. CASE S \cap B # {}
  <2>1. PICK m \in S \cap B : adj[m] \cap (S \cap B) = {}
    BY <1>3 DEF Ends
  <2>2. adj[m] \subseteq B
    BY <2>1
  <2>. QED BY <2>1, <2>2
<1>. QED BY <1>2, <1>3

\* A node that is left has only black successors.
LEMMA BacktrackSearch ==
  ASSUME PathInv, SearchInv, Backtrack
  PROVE  SearchInv'
<1> DEFINE n == path[Len(path)]
<1>1. /\ stack # <<>> /\ UNCHANGED <<adj, answer>> /\ answer = Searching /\ Top.rest = {}
      /\ color' = [color EXCEPT ![Top.node] = 2]
      /\ path' = SubSeq(path, 1, Len(path) - 1)
      /\ stack' = SubSeq(stack, 1, Len(stack) - 1)
  BY DEF Backtrack
<1>2. /\ path \in Seq(Node) /\ stack \in Seq(Frame)
      /\ Len(path) = Len(stack) /\ Len(path) \in Nat \ {0}
      /\ adj \in [Node -> SUBSET Node]
  BY <1>1 DEF PathInv, SearchOK, InStep
<1>3. /\ Len(path') = Len(path) - 1
      /\ \A j \in 1..(Len(path) - 1) : path'[j] = path[j]
  BY <1>1, <1>2, WalkStretch DEF PathInv
<1>4. /\ Len(stack') = Len(path) - 1
      /\ \A j \in 1..(Len(path) - 1) : stack'[j] = stack[j]
  BY <1>1, <1>2
<1>5. Top.node = n /\ n \in Node /\ stack[Len(path)].rest = {} /\ Len(path) \in 1..Len(path)
  BY <1>1, <1>2 DEF PathInv, InStep, Top
<1>6. color[n] = 1
  BY <1>5 DEF SearchInv, Gray
<1>7. \A m \in Node : color'[m] = IF m = n THEN 2 ELSE color[m]
  BY <1>1, <1>5 DEF SearchInv
<1>8. Finished' = Finished \cup {n} /\ n \notin Finished
  BY <1>5, <1>6, <1>7 DEF Finished
<1>9. adj[n] \subseteq Finished
  BY <1>2, <1>5 DEF SearchInv, Explored
<1>10. color' \in [Node -> {0, 1, 2}]
  BY <1>1, <1>5 DEF SearchInv
<1>11. Gray'
  <2>1. \A i, j \in 1..Len(path) : path[i] = path[j] => i = j
    BY DEF SearchInv, Gray
  <2>2. \A i \in 1..Len(path) : i # Len(path) => path[i] # n
    BY <1>5, <2>1
  <2>3. \A i \in 1..Len(path) : i = Len(path) \/ i \in 1..Len(path')
    BY <1>2, <1>3
  <2>4. 1..Len(path') \subseteq 1..Len(path) /\ \A i \in 1..Len(path') : i # Len(path)
    BY <1>2, <1>3
  <2>5. ASSUME NEW m \in Node
        PROVE  color'[m] = 1 <=> \E i \in 1..Len(path') : path'[i] = m
    <3>1. color[m] = 1 <=> \E i \in 1..Len(path) : path[i] = m
      BY DEF SearchInv, Gray
    <3>2. CASE m = n
      BY <1>3, <1>7, <2>2, <2>4, <3>2
    <3>3. CASE m # n
      BY <1>3, <1>7, <2>3, <2>4, <3>1, <3>3
    <3>. QED BY <3>2, <3>3
  <2>. QED BY <1>3, <2>1, <2>4, <2>5 DEF Gray
<1>12. Explored'
  <2>1. SUFFICES ASSUME NEW i \in 1..(Len(path) - 1), NEW m \in adj[path[i]] \ stack[i].rest
                 PROVE  m \in Finished \cup {n} \/ (i < Len(path) - 1 /\ m = path'[i + 1])
    BY <1>1, <1>3, <1>4, <1>8 DEF Explored
  <2>2. i \in 1..Len(stack)
    BY <1>2
  <2>3. m \in Finished \/ m = path[i + 1]
    BY <2>1, <2>2 DEF SearchInv, Explored
  <2>4. CASE m = path[i + 1] /\ i = Len(path) - 1
    <3>1. i + 1 = Len(path)
      BY <1>2, <2>4
    <3>. QED BY <2>4, <3>1
  <2>5. CASE m = path[i + 1] /\ i # Len(path) - 1
    <3>1. i + 1 \in 1..(Len(path) - 1) /\ i < Len(path) - 1
      BY <1>2, <2>5
    <3>. QED BY <1>3, <2>5, <3>1
  <2>. QED BY <2>3, <2>4, <2>5
<1>13. Closed'
  BY <1>1, <1>8, <1>9 DEF SearchInv, Closed
<1>14. Ends(Finished)'
  <2>1. Finished \in SUBSET Node
    BY DEF Finished
  <2> HIDE DEF n
  <2>2. Ends(Finished \cup {n})
    BY <1>2, <1>5, <1>8, <1>9, <2>1, EndsExtends DEF SearchInv, Closed
  <2>. QED BY <1>1, <1>8, <2>2 DEF Ends
<1>15. answer' # NoCycle'
  BY <1>1 DEF Searching, NoCycle
<1>. QED BY <1>10, <1>11, <1>12, <1>13, <1>14, <1>15 DEF SearchInv

\* The search gives up when every node with a successor is finished.
LEMMA GiveUpSearch ==
  ASSUME PathInv, SearchInv, GiveUp
  PROVE  SearchInv'
<1>1. /\ stack = <<>> /\ path = <<>>
      /\ \A n \in Node : adj[n] # {} => color[n] # 0
      /\ UNCHANGED <<adj, color, path, stack>>
  BY DEF GiveUp, PathInv, SearchOK, InStep
<1>2. \A n \in Node : adj[n] # {} => n \in Finished
  BY <1>1 DEF SearchInv, Gray, Finished
<1>3. Ends(Node)
  <2>1. SUFFICES ASSUME NEW S \in SUBSET Node, S # {}
                 PROVE  \E n \in S : adj[n] \cap S = {}
    BY DEF Ends
  <2>2. CASE \E n \in S : adj[n] = {}
    BY <2>2
  <2>3. CASE S \subseteq Finished
    BY <2>1, <2>3 DEF SearchInv, Ends
  <2>. QED BY <1>2, <2>2, <2>3
<1>4. Finished' = Finished
  BY <1>1 DEF Finished
<1>. QED BY <1>1, <1>3, <1>4 DEF SearchInv, Gray, Closed, Explored, Ends

\* Every iteration of the search keeps the colours.
LEMMA StepKeepsSearch ==
  ASSUME PathInv, SearchInv, Step
  PROVE  SearchInv'
BY StartSearch, DescendSearch, CloseSearch, SkipSearch, BacktrackSearch, GiveUpSearch DEF Step

(***************************************************************************)
(* Induction over an interval of integers, from the library's least        *)
(* element of a well-founded set.                                          *)
(***************************************************************************)

\* The order of the naturals has no infinite descent.
LEMMA LessIsWellFounded == IsWellFoundedOn({ss \in Nat \X Nat : ss[1] < ss[2]}, Nat)
BY NatLessThanWellFounded, SMT DEF OpToRel

\* A set of naturals that is not empty has a least element.
LEMMA LeastExists ==
  ASSUME NEW S \in SUBSET Nat, S # {}
  PROVE  \E n \in S : \A m \in S : n <= m
<1> DEFINE R == {ss \in Nat \X Nat : ss[1] < ss[2]}
<1>1. IsWellFoundedOn(R, Nat)
  BY LessIsWellFounded
<1> HIDE DEF R
<1>2. PICK x \in S : \A y \in S : ~ (<<y, x>> \in R)
  BY <1>1, WFMin, Zenon
<1>3. \A y \in S : ~ (y < x)
  <2> TAKE y \in S
  <2>1. <<y, x>> \in R <=> y < x
    BY DEF R
  <2>. QED BY <1>2, <2>1
<1>. QED BY <1>3

\* Induction from a to b: what holds of a, and of n + 1 if of n, holds up to b.
LEMMA UpInduction ==
  ASSUME NEW a \in Int, NEW b \in Int, NEW S,
         a \in S, \A n \in a..(b - 1) : n \in S => n + 1 \in S
  PROVE  \A n \in a..b : n \in S
<1> DEFINE Out == {k \in Nat : a + k <= b /\ a + k \notin S}
<1>1. SUFFICES ASSUME Out # {} PROVE FALSE
  <2>1. ASSUME NEW n \in a..b, n \notin S PROVE FALSE
    <3>1. n - a \in Nat /\ a + (n - a) = n
      BY <2>1
    <3>2. n - a \in Out
      BY <2>1, <3>1
    <3>. QED BY <1>1, <3>2
  <2>. QED BY <2>1
<1>2. PICK k \in Out : \A m \in Out : k <= m
  BY <1>1, LeastExists
<1>3. k # 0
  BY <1>2
<1>4. k - 1 \in Nat /\ k - 1 \notin Out
  BY <1>2, <1>3
<1>5. a + (k - 1) \in S /\ a + (k - 1) \in a..(b - 1)
  BY <1>2, <1>4
<1>6. a + (k - 1) + 1 = a + k
  BY <1>2
<1>. QED BY <1>2, <1>5, <1>6

(***************************************************************************)
(* Reached, and what it is for a node to be reached from itself.           *)
(***************************************************************************)

\* The successors of a set of nodes.
After(from) == UNION {adj[n] : n \in from}

IsReach(from, g) ==
  g = [k \in 0..Cardinality(Node) |->
         IF k = 0 THEN After(from)
         ELSE g[k - 1] \cup After(g[k - 1])]

Reach(from) == CHOOSE g : IsReach(from, g)

\* Membership in them.
LEMMA AfterHas ==
  ASSUME NEW from, NEW z
  PROVE  z \in After(from) <=> \E y \in from : z \in adj[y]
BY DEF After

\* The recursion has a solution.
LEMMA ReachExists ==
  ASSUME NEW from
  PROVE  IsReach(from, Reach(from))
<1> DEFINE val(g, k) == IF k = 0 THEN After(from)
                        ELSE g[k - 1] \cup After(g[k - 1])
           upTo(n, g) == g = [k \in 0..n |-> val(g, k)]
           S == {n \in Nat : \E g : upTo(n, g)}
<1>0. Cardinality(Node) \in Nat
  BY NodeAssumption, FS_CardinalityType
<1>1. 0 \in S
  <2> DEFINE g == [k \in 0..0 |-> After(from)]
  <2>1. \A k \in 0..0 : val(g, k) = After(from)
    OBVIOUS
  <2>2. upTo(0, g)
    BY <2>1
  <2> HIDE DEF upTo, g
  <2>. QED BY <2>2
<1>2. ASSUME NEW n \in 0..(Cardinality(Node) - 1), n \in S PROVE n + 1 \in S
  <2>1. PICK g : upTo(n, g)
    BY <1>2
  <2> DEFINE h == [k \in 0..(n + 1) |-> IF k = n + 1 THEN val(g, k) ELSE g[k]]
  <2>2. n \in Nat /\ n + 1 \in Nat
    OBVIOUS
  <2>3. ASSUME NEW k \in 0..(n + 1) PROVE h[k] = val(h, k)
    <3>1. CASE k = 0
      <4>1. h[k] = g[k] /\ g[k] = val(g, k)
        BY <2>1, <2>2, <3>1
      <4>. QED BY <3>1, <4>1
    <3>2. CASE k # 0
      <4>1. k - 1 \in 0..n
        BY <2>2, <2>3, <3>2
      <4>2. h[k - 1] = g[k - 1]
        BY <2>2, <4>1
      <4>3. val(h, k) = val(g, k)
        BY <3>2, <4>2
      <4>4. h[k] = val(g, k)
        <5> HIDE DEF val
        <5>1. k = n + 1 \/ k \in 0..n
          BY <2>2, <2>3
        <5>2. k \in 0..n => g[k] = val(g, k)
          BY <2>1
        <5>. QED BY <2>3, <5>1, <5>2
      <4>. QED BY <4>3, <4>4
    <3>. QED BY <3>1, <3>2
  <2>4. h = [k \in 0..(n + 1) |-> val(h, k)]
    <3> HIDE DEF val
    <3>. QED BY <2>3
  <2>5. upTo(n + 1, h)
    BY <2>4
  <2> HIDE DEF upTo, h
  <2>. QED BY <2>2, <2>5
<1>3. Cardinality(Node) \in S
  <2> HIDE DEF S
  <2>0. 0 \in Int /\ Cardinality(Node) \in Int
    BY <1>0
  <2>1. \A n \in 0..Cardinality(Node) : n \in S
    BY <1>1, <1>2, <2>0, UpInduction
  <2>. QED BY <1>0, <2>1
<1>4. \E g : IsReach(from, g)
  BY <1>3 DEF IsReach
<1>. QED BY <1>4 DEF Reach

\* The recursion, one transition at a time.
LEMMA ReachStep ==
  ASSUME NEW from, NEW k \in 0..Cardinality(Node)
  PROVE  Reach(from)[k] = IF k = 0 THEN After(from)
                          ELSE Reach(from)[k - 1] \cup After(Reach(from)[k - 1])
<1> DEFINE g == Reach(from)
<1>1. IsReach(from, g)
  BY ReachExists
<1> HIDE DEF g
<1>2. g[k] = IF k = 0 THEN After(from)
             ELSE g[k - 1] \cup After(g[k - 1])
  BY <1>1 DEF IsReach
<1>. QED BY <1>2 DEF g

\* The same, seen from the transition before.
LEMMA ReachNext ==
  ASSUME NEW from, NEW n \in 0..(Cardinality(Node) - 1)
  PROVE  Reach(from)[n + 1] = Reach(from)[n] \cup After(Reach(from)[n])
<1> DEFINE k == n + 1
<1>1. k \in 0..Cardinality(Node) /\ k # 0 /\ n = k - 1
  BY NodeAssumption, FS_CardinalityType
<1> HIDE DEF k
<1>2. Reach(from)[k] = Reach(from)[k - 1] \cup After(Reach(from)[k - 1])
  BY <1>1, ReachStep
<1>3. Reach(from)[k] = Reach(from)[n] \cup After(Reach(from)[n])
  BY <1>1, <1>2, Zenon
<1>. QED BY <1>3 DEF k

\* What is reached at once is reached.
LEMMA ReachGrows ==
  ASSUME NEW from
  PROVE  \A k \in 0..Cardinality(Node) : Reach(from)[0] \subseteq Reach(from)[k]
<1> DEFINE S == {k \in Int : Reach(from)[0] \subseteq Reach(from)[k]}
<1>0. Cardinality(Node) \in Int /\ 0 \in Int
  BY NodeAssumption, FS_CardinalityType
<1>1. 0 \in S
  OBVIOUS
<1>2. ASSUME NEW n \in 0..(Cardinality(Node) - 1), n \in S PROVE n + 1 \in S
  <2>1. n + 1 \in 0..Cardinality(Node) /\ n + 1 # 0 /\ n + 1 - 1 = n /\ n + 1 \in Int
    BY <1>0
  <2>2. Reach(from)[n] \subseteq Reach(from)[n + 1]
    BY ReachNext
  <2>. QED BY <1>2, <2>1, <2>2
<1>3. \A n \in 0..Cardinality(Node) : n \in S
  <2> HIDE DEF S
  <2>. QED BY <1>0, <1>1, <1>2, UpInduction
<1>. QED BY <1>3

\* What a node reaches is a successor of it, or reached from one.
LEMMA ReachSplits ==
  ASSUME NEW m \in Node
  PROVE  \A k \in 0..Cardinality(Node) :
           Reach({m})[k] \subseteq adj[m] \cup UNION {Reach({x})[k] : x \in adj[m]}
<1> DEFINE S == {k \in Int :
                   Reach({m})[k] \subseteq adj[m] \cup UNION {Reach({x})[k] : x \in adj[m]}}
<1>0. Cardinality(Node) \in Int /\ 0 \in Int /\ 0 \in 0..Cardinality(Node)
  BY NodeAssumption, FS_CardinalityType
<1>1. 0 \in S
  <2>1. Reach({m})[0] = After({m})
    BY <1>0, ReachStep
  <2>2. \A z \in After({m}) : z \in adj[m]
    BY AfterHas
  <2>. QED BY <1>0, <2>1, <2>2
<1>2. ASSUME NEW n \in 0..(Cardinality(Node) - 1), n \in S PROVE n + 1 \in S
  <2>1. n + 1 \in 0..Cardinality(Node) /\ n + 1 # 0 /\ n + 1 - 1 = n /\ n + 1 \in Int
    BY <1>0
  <2>2. ASSUME NEW x PROVE Reach({x})[n + 1] = Reach({x})[n] \cup After(Reach({x})[n])
    BY ReachNext
  <2>3. ASSUME NEW z \in Reach({m})[n + 1]
        PROVE  z \in adj[m] \/ \E x \in adj[m] : z \in Reach({x})[n + 1]
    <3>1. CASE z \in Reach({m})[n]
      <4>1. z \in adj[m] \/ \E x \in adj[m] : z \in Reach({x})[n]
        BY <1>2, <3>1
      <4>. QED BY <2>2, <4>1
    <3>2. CASE \E y \in Reach({m})[n] : z \in adj[y]
      <4>1. PICK y \in Reach({m})[n] : z \in adj[y]
        BY <3>2
      <4>2. y \in adj[m] \/ \E x \in adj[m] : y \in Reach({x})[n]
        BY <1>2
      <4>3. CASE y \in adj[m]
        <5>1. Reach({y})[0] = After({y})
          BY <1>0, ReachStep
        <5>2. Reach({y})[0] \subseteq Reach({y})[n + 1]
          BY <2>1, ReachGrows
        <5>3. z \in After({y})
          BY <4>1, AfterHas
        <5>. QED BY <4>3, <5>1, <5>2, <5>3
      <4>4. CASE \E x \in adj[m] : y \in Reach({x})[n]
        <5>1. PICK x \in adj[m] : y \in Reach({x})[n]
          BY <4>4
        <5>2. z \in After(Reach({x})[n])
          BY <4>1, <5>1, AfterHas
        <5>. QED BY <2>2, <5>1, <5>2
      <4>. QED BY <4>2, <4>3, <4>4
    <3>3. z \in Reach({m})[n] \/ z \in After(Reach({m})[n])
      BY <2>2, <2>3
    <3>. QED BY <3>1, <3>2, <3>3, AfterHas
  <2>. QED BY <2>1, <2>3
<1>3. \A n \in 0..Cardinality(Node) : n \in S
  <2> HIDE DEF S
  <2>. QED BY <1>0, <1>1, <1>2, UpInduction
<1>. QED BY <1>3

\* If there is no endless walk, then no node is reached from itself.
LEMMA EndsIsAcyclic ==
  ASSUME adj \in [Node -> SUBSET Node], Ends(Node)
  PROVE  \A n \in Node : n \notin Reached({n})
<1> DEFINE N == Cardinality(Node)
<1>0. N \in 0..N
  BY NodeAssumption, FS_CardinalityType
<1>1. \A m : Reached({m}) = Reach({m})[N]
  BY DEF Reached, Reach, IsReach, After
<1> HIDE DEF N
<1>2. SUFFICES ASSUME NEW n \in Node, n \in Reached({n}) PROVE FALSE
  OBVIOUS
<1> DEFINE S == {m \in Node : n \in Reached({m})}
<1>3. PICK m \in S : adj[m] \cap S = {}
  <2>1. S \in SUBSET Node /\ S # {}
    BY <1>2
  <2> HIDE DEF S
  <2>. QED BY <2>1 DEF Ends
<1>4. n \in adj[m] \/ \E x \in adj[m] : n \in Reached({x})
  <2>1. n \in Reach({m})[N]
    BY <1>1, <1>3
  <2>2. Reach({m})[N] \subseteq adj[m] \cup UNION {Reach({x})[N] : x \in adj[m]}
    <3>1. m \in Node
      BY <1>3
    <3>2. \A k \in 0..N :
            Reach({m})[k] \subseteq adj[m] \cup UNION {Reach({x})[k] : x \in adj[m]}
      BY <3>1, ReachSplits, Zenon DEF N
    <3> HIDE DEF S
    <3>. QED BY <1>0, <3>2, Zenon
  <2>3. n \in adj[m] \/ \E x \in adj[m] : n \in Reach({x})[N]
    BY <2>1, <2>2
  <2>. QED BY <1>1, <2>3
<1>5. adj[m] \subseteq Node
  BY <1>3
<1>6. n \in S
  BY <1>2
<1>. QED BY <1>3, <1>4, <1>5, <1>6

(***************************************************************************)
(* The window of the last calls, or of the last texts.                     *)
(***************************************************************************)

\* What the last n elements of a sequence are.
LEMMA LastOfIs ==
  ASSUME NEW T, NEW s \in Seq(T), NEW n \in Nat, NEW l \in Nat,
         l = IF Len(s) > n THEN n ELSE Len(s)
  PROVE  /\ LastOf(s, n) \in Seq(T)
         /\ Len(LastOf(s, n)) = l
         /\ \A i \in 1..l : LastOf(s, n)[i] = s[Len(s) - l + i]
<1> DEFINE m == IF Len(s) > n THEN Len(s) - n + 1 ELSE 1
<1>1. Len(s) \in Nat /\ m \in Int /\ Len(s) - m + 1 = l /\ m >= 1 /\ (m <= Len(s) \/ l = 0)
  OBVIOUS
<1>2. \A i \in m..Len(s) : s[i] \in T
  BY <1>1
<1>3. /\ SubSeq(s, m, Len(s)) \in Seq(T)
      /\ Len(SubSeq(s, m, Len(s))) = IF m <= Len(s) THEN Len(s) - m + 1 ELSE 0
      /\ \A i \in 1..(Len(s) - m + 1) : SubSeq(s, m, Len(s))[i] = s[m + i - 1]
  <2> HIDE DEF m
  <2>. QED BY <1>1, <1>2, SubSeqProperties
<1>4. LastOf(s, n) = SubSeq(s, m, Len(s))
  BY DEF LastOf
<1>5. \A i \in 1..l : m + i - 1 = Len(s) - l + i
  BY <1>1
<1> HIDE DEF m
<1>. QED BY <1>1, <1>3, <1>4, <1>5

\* Appending to a deque with a maxlen keeps the last elements of everything appended.
LEMMA SlideLast ==
  ASSUME NEW T, NEW s \in Seq(T), NEW x \in T, NEW n \in Nat
  PROVE  Slide(LastOf(s, n), x, n) = LastOf(Append(s, x), n)
<1> DEFINE l == IF Len(s) > n THEN n ELSE Len(s)
           k == IF Len(s) + 1 > n THEN n ELSE Len(s) + 1
           w == LastOf(s, n)
           all == Append(w, x)
           long == Append(s, x)
<1>1. /\ Len(s) \in Nat /\ l \in Nat /\ k \in Nat
      /\ k = IF Len(s) + 1 > n THEN n ELSE Len(s) + 1
      /\ k = IF l + 1 > n THEN n ELSE l + 1
      /\ \/ l = n /\ k = n /\ l <= Len(s)
         \/ l = Len(s) /\ k = l + 1
  OBVIOUS
<1>2. w \in Seq(T) /\ Len(w) = l /\ \A i \in 1..l : w[i] = s[Len(s) - l + i]
  <2> HIDE DEF w
  <2>1. l = IF Len(s) > n THEN n ELSE Len(s)
    OBVIOUS
  <2> HIDE DEF l
  <2>. QED BY <1>1, <2>1, LastOfIs DEF w
<1>3. /\ long \in Seq(T) /\ Len(long) = Len(s) + 1
      /\ long[Len(s) + 1] = x /\ \A i \in 1..Len(s) : long[i] = s[i]
  BY AppendProperties
<1>4. /\ LastOf(long, n) \in Seq(T)
      /\ Len(LastOf(long, n)) = k
      /\ \A i \in 1..k : LastOf(long, n)[i] = long[Len(s) + 1 - k + i]
  <2> HIDE DEF long, k
  <2>1. k = IF Len(long) > n THEN n ELSE Len(long)
    BY <1>1, <1>3
  <2>2. /\ LastOf(long, n) \in Seq(T)
        /\ Len(LastOf(long, n)) = k
        /\ \A i \in 1..k : LastOf(long, n)[i] = long[Len(long) - k + i]
    BY <1>1, <1>3, <2>1, LastOfIs
  <2>. QED BY <1>3, <2>2
<1> HIDE DEF w, k, l
<1>5. /\ all \in Seq(T) /\ Len(all) = l + 1
      /\ all[l + 1] = x /\ \A i \in 1..l : all[i] = w[i]
  BY <1>2, AppendProperties
<1>6. Slide(w, x, n) = LastOf(all, n)
  BY DEF Slide, LastOf
<1>7. k = IF Len(all) > n THEN n ELSE Len(all)
  BY <1>1, <1>5
<1>8. /\ LastOf(all, n) \in Seq(T)
      /\ Len(LastOf(all, n)) = k
      /\ \A i \in 1..k : LastOf(all, n)[i] = all[l + 1 - k + i]
  <2> HIDE DEF all
  <2>1. /\ LastOf(all, n) \in Seq(T)
        /\ Len(LastOf(all, n)) = k
        /\ \A i \in 1..k : LastOf(all, n)[i] = all[Len(all) - k + i]
    <3>1. k \in Nat
      BY <1>1
    <3>. QED BY <1>5, <1>7, <3>1, LastOfIs
  <2>2. ASSUME NEW i \in 1..k PROVE LastOf(all, n)[i] = all[l + 1 - k + i]
    <3>1. Len(all) - k + i = l + 1 - k + i
      <4>1. l \in Nat /\ k \in Nat /\ Len(all) = l + 1
        BY <1>1, <1>5
      <4>. QED BY <4>1
    <3>2. LastOf(all, n)[i] = all[Len(all) - k + i]
      BY <2>1
    <3>. QED BY <3>1, <3>2
  <2>. QED BY <2>1, <2>2
<1>9. ASSUME NEW i \in 1..k PROVE LastOf(all, n)[i] = LastOf(long, n)[i]
  <2>1. LastOf(all, n)[i] = all[l + 1 - k + i] /\ LastOf(long, n)[i] = long[Len(s) + 1 - k + i]
    BY <1>4, <1>8
  <2>2. CASE i = k
    <3>1. l + 1 - k + i = l + 1 /\ Len(s) + 1 - k + i = Len(s) + 1
      <4>1. l \in Nat /\ k \in Nat /\ Len(s) \in Nat
        BY <1>1
      <4>. QED BY <2>2, <4>1
    <3>. QED BY <1>3, <1>5, <2>1, <3>1
  <2>3. CASE i # k
    <3>1. /\ l + 1 - k + i \in 1..l
          /\ Len(s) + 1 - k + i \in 1..Len(s)
          /\ Len(s) - l + (l + 1 - k + i) = Len(s) + 1 - k + i
      BY <1>1, <2>3
    <3>2. all[l + 1 - k + i] = s[Len(s) + 1 - k + i]
      BY <1>2, <1>5, <3>1
    <3>. QED BY <1>3, <2>1, <3>1, <3>2
  <2>. QED BY <2>2, <2>3
<1> HIDE DEF all, long
<1>10. LastOf(all, n) = LastOf(long, n)
  BY <1>4, <1>8, <1>9, SeqEqual
<1>. QED BY <1>6, <1>10 DEF w, long

(***************************************************************************)
(* The edit distance: what the two rolling rows compute is the cost of the *)
(* cheapest matching of the letters.                                       *)
(***************************************************************************)

\* The least of a set of naturals is in it.
LEMMA LeastIs ==
  ASSUME NEW S \in SUBSET Nat, S # {}
  PROVE  Least(S) \in S /\ \A y \in S : Least(S) <= y
<1>1. \E x \in S : \A y \in S : x <= y
  BY LeastExists
<1>. QED BY <1>1 DEF Least

\* It is any value that is in the set and below the others.
LEMMA LeastIsOne ==
  ASSUME NEW S \in SUBSET Nat, NEW v \in S, \A y \in S : v <= y
  PROVE  Least(S) = v
<1>1. Least(S) \in S /\ \A y \in S : Least(S) <= y
  BY LeastIs
<1>2. Least(S) \in Nat /\ v \in Nat /\ Least(S) <= v /\ v <= Least(S)
  BY <1>1
<1>. QED BY <1>2

Differ(x, y) == IF x = y THEN 0 ELSE 1

\* The three ways to end an edit: a letter of b more, a letter of a more, a pair of letters.
Ways(E, a, b, i, j) ==
  {E[i][j - 1] + 1, E[i - 1][j] + 1, E[i - 1][j - 1] + Differ(a[i], b[j])}

\* A table of all the entries that the rows ever have.
IsTable(E, a, b) ==
  /\ E \in [0..Len(a) -> [0..Len(b) -> Nat]]
  /\ \A i \in 0..Len(a) : E[i][0] = i
  /\ \A j \in 0..Len(b) : E[0][j] = j
  /\ \A i \in 1..Len(a), j \in 1..Len(b) : E[i][j] = Least(Ways(E, a, b, i, j))

IsRow(g, previous, a, letter, j) ==
  g = [i \in 0..Len(a) |->
        IF i = 0 THEN j
        ELSE Least({previous[i] + 1, g[i - 1] + 1,
                    previous[i - 1] + (IF a[i] = letter THEN 0 ELSE 1)})]

\* The row for a letter of b is a column of the table.
LEMMA RowOfTable ==
  ASSUME NEW A, NEW a \in Seq(A), NEW b \in Seq(A), NEW E, IsTable(E, a, b),
         NEW j \in 1..Len(b)
  PROVE  NextRow([i \in 0..Len(a) |-> E[i][j - 1]], a, b[j], j) = [i \in 0..Len(a) |-> E[i][j]]
<1> DEFINE old == [i \in 0..Len(a) |-> E[i][j - 1]]
           new == [i \in 0..Len(a) |-> E[i][j]]
           Row(g) == IsRow(g, old, a, b[j], j)
<1>1. Len(a) \in Nat /\ Len(b) \in Nat
  OBVIOUS
<1>2. NextRow(old, a, b[j], j) = CHOOSE g : Row(g)
  BY DEF NextRow, IsRow
<1>3. \A i \in 1..Len(a) :
         new[i] = Least({old[i] + 1, new[i - 1] + 1,
                         old[i - 1] + (IF a[i] = b[j] THEN 0 ELSE 1)})
  <2> TAKE i \in 1..Len(a)
  <2>1. /\ i \in 0..Len(a) /\ i - 1 \in 0..Len(a)
        /\ new[i] = E[i][j] /\ new[i - 1] = E[i - 1][j]
        /\ old[i] = E[i][j - 1] /\ old[i - 1] = E[i - 1][j - 1]
    BY <1>1
  <2>2. E[i][j] = Least(Ways(E, a, b, i, j))
    BY DEF IsTable
  <2> HIDE DEF old, new
  <2>. QED BY <2>1, <2>2 DEF Ways, Differ
<1>4. new[0] = j
  BY <1>1 DEF IsTable
<1>5. Row(new)
  <2> DEFINE made == [i \in 0..Len(a) |->
                       IF i = 0 THEN j
                       ELSE Least({old[i] + 1, new[i - 1] + 1,
                                   old[i - 1] + (IF a[i] = b[j] THEN 0 ELSE 1)})]
  <2>1. \A i \in 0..Len(a) : new[i] = made[i]
    <3> TAKE i \in 0..Len(a)
    <3>1. CASE i = 0
      <4>1. made[0] = j
        BY <1>1
      <4> HIDE DEF new, made
      <4>. QED BY <1>4, <3>1, <4>1
    <3>2. CASE i # 0
      <4>1. i \in 1..Len(a)
        BY <3>2
      <4> HIDE DEF new, old
      <4>. QED BY <1>3, <3>2, <4>1
    <3>. QED BY <3>1, <3>2
  <2>2. new = [i \in 0..Len(a) |-> new[i]] /\ made = [i \in 0..Len(a) |-> made[i]]
    OBVIOUS
  <2>3. new = made
    <3> HIDE DEF new, made
    <3>. QED BY <2>1, <2>2
  <2>. QED BY <2>3 DEF IsRow
<1>6. ASSUME NEW g, Row(g) PROVE g = new
  <2> DEFINE Same == {i \in 0..Len(a) : g[i] = new[i]}
  <2>1. g = [i \in 0..Len(a) |-> g[i]]
    BY <1>6 DEF IsRow
  <2>2. g[0] = j
    BY <1>1, <1>6 DEF IsRow
  <2>7. \A x \in 1..Len(a) : g[x] = Least({old[x] + 1, g[x - 1] + 1,
                                         old[x - 1] + (IF a[x] = b[j] THEN 0 ELSE 1)})
    <3> TAKE x \in 1..Len(a)
    <3>1. x \in 0..Len(a) /\ x # 0
      OBVIOUS
    <3> HIDE DEF old
    <3>. QED BY <1>6, <3>1, Zenon DEF IsRow
  <2>3. 0 \in Same
    <3> HIDE DEF new
    <3>. QED BY <1>1, <1>4, <2>2
  <2>4. ASSUME NEW i \in 0..(Len(a) - 1), i \in Same PROVE i + 1 \in Same
    <3>1. i + 1 \in 1..Len(a) /\ i + 1 \in 0..Len(a) /\ i + 1 # 0 /\ i + 1 - 1 = i
      BY <1>1
    <3>2. g[i + 1] = Least({old[i + 1] + 1, g[i + 1 - 1] + 1,
                            old[i + 1 - 1] + (IF a[i + 1] = b[j] THEN 0 ELSE 1)})
      <4> HIDE DEF old
      <4>. QED BY <2>7, <3>1
    <3>3. g[i + 1 - 1] = new[i + 1 - 1]
      <4> HIDE DEF new
      <4>. QED BY <2>4, <3>1
    <3>4. new[i + 1] = Least({old[i + 1] + 1, new[i + 1 - 1] + 1,
                              old[i + 1 - 1] + (IF a[i + 1] = b[j] THEN 0 ELSE 1)})
      <4> HIDE DEF new, old
      <4>. QED BY <1>3, <3>1
    <3> HIDE DEF new, old
    <3>5. g[i + 1] = new[i + 1]
      BY <3>2, <3>3, <3>4, Zenon
    <3>. QED BY <3>1, <3>5
  <2>5. \A i \in 0..Len(a) : i \in Same
    <3>1. \A i \in 0..(Len(a) - 1) : i \in Same => i + 1 \in Same
      BY <2>4
    <3> HIDE DEF Same
    <3>2. 0 \in Int /\ Len(a) \in Int
      BY <1>1
    <3>. QED BY <2>3, <3>1, <3>2, UpInduction, Zenon
  <2>6. new = [i \in 0..Len(a) |-> new[i]]
    OBVIOUS
  <2> HIDE DEF new
  <2>. QED BY <2>1, <2>5, <2>6
<1> HIDE DEF Row, new, old
<1>7. (CHOOSE g : Row(g)) = new
  BY <1>5, <1>6
<1>. QED BY <1>2, <1>7 DEF old, new

IsRows(r, a, b) ==
  r = [j \in 0..Len(b) |-> IF j = 0 THEN [i \in 0..Len(a) |-> i]
                           ELSE NextRow(r[j - 1], a, b[j], j)]

\* The last entry of the last row is that of the table.
LEMMA DistanceOfTable ==
  ASSUME NEW A, NEW a \in Seq(A), NEW b \in Seq(A), NEW E, IsTable(E, a, b)
  PROVE  Distance(a, b) = E[Len(a)][Len(b)]
<1> DEFINE col(j) == [i \in 0..Len(a) |-> E[i][j]]
           all == [j \in 0..Len(b) |-> col(j)]
           first == [i \in 0..Len(a) |-> i]
           Rows(r) == IsRows(r, a, b)
<1>1. Len(a) \in Nat /\ Len(b) \in Nat
  OBVIOUS
<1>2. Distance(a, b) = (CHOOSE r : Rows(r))[Len(b)][Len(a)]
  BY DEF Distance, IsRows
<1>3. col(0) = first
  BY DEF IsTable
<1>4. \A j \in 1..Len(b) : col(j) = NextRow(col(j - 1), a, b[j], j)
  BY RowOfTable
<1>5. \A j \in 0..Len(b) : all[j] = col(j)
  OBVIOUS
<1> HIDE DEF col, first
<1>6. Rows(all)
  <2> DEFINE made == [j \in 0..Len(b) |-> IF j = 0 THEN first
                                         ELSE NextRow(all[j - 1], a, b[j], j)]
  <2>1. \A j \in 0..Len(b) : all[j] = made[j]
    <3> TAKE j \in 0..Len(b)
    <3>1. made[j] = IF j = 0 THEN first ELSE NextRow(all[j - 1], a, b[j], j)
      <4> HIDE DEF all
      <4>. QED BY Zenon
    <3> HIDE DEF made, all
    <3>2. CASE j = 0
      BY <1>3, <1>5, <3>1, <3>2
    <3>3. CASE j # 0
      <4>1. j \in 1..Len(b) /\ j - 1 \in 0..Len(b)
        BY <1>1, <3>3
      <4>2. all[j - 1] = col(j - 1)
        BY <1>5, <4>1
      <4>. QED BY <1>4, <1>5, <3>1, <3>3, <4>1, <4>2
    <3>. QED BY <3>2, <3>3
  <2>2. all = made
    <3>1. all = [j \in 0..Len(b) |-> all[j]] /\ made = [j \in 0..Len(b) |-> made[j]]
      OBVIOUS
    <3> HIDE DEF all, made
    <3>. QED BY <2>1, <3>1
  <2>. QED BY <2>2, Zenon DEF IsRows, first
<1>7. ASSUME NEW r, Rows(r) PROVE r = all
  <2> DEFINE Same == {j \in 0..Len(b) : r[j] = all[j]}
  <2>1. r = [j \in 0..Len(b) |-> r[j]] /\ all = [j \in 0..Len(b) |-> all[j]]
    BY <1>7 DEF IsRows
  <2>2. \A j \in 0..Len(b) : r[j] = IF j = 0 THEN first ELSE NextRow(r[j - 1], a, b[j], j)
    BY <1>7, Zenon DEF IsRows, first
  <2> HIDE DEF all, Rows
  <2>3. 0 \in Same
    BY <1>1, <1>3, <1>5, <2>2
  <2>4. \A j \in 0..(Len(b) - 1) : j \in Same => j + 1 \in Same
    <3> TAKE j \in 0..(Len(b) - 1)
    <3>1. SUFFICES ASSUME j \in Same PROVE j + 1 \in Same
      OBVIOUS
    <3>2. /\ j + 1 \in 1..Len(b) /\ j + 1 \in 0..Len(b) /\ j \in 0..Len(b)
          /\ j + 1 # 0 /\ j + 1 - 1 = j
      BY <1>1
    <3>3. r[j + 1] = NextRow(r[j], a, b[j + 1], j + 1)
      BY <2>2, <3>2
    <3>4. all[j + 1] = NextRow(all[j], a, b[j + 1], j + 1)
      BY <1>4, <1>5, <3>2
    <3>5. r[j] = all[j]
      BY <3>1
    <3>6. r[j + 1] = all[j + 1]
      BY <3>3, <3>4, <3>5, Zenon
    <3>. QED BY <3>2, <3>6
  <2>5. \A j \in 0..Len(b) : j \in Same
    <3>1. 0 \in Int /\ Len(b) \in Int
      BY <1>1
    <3> HIDE DEF Same
    <3>. QED BY <2>3, <2>4, <3>1, UpInduction, Zenon
  <2>. QED BY <2>1, <2>5
<1>8. (CHOOSE r : Rows(r)) = all
  <2> HIDE DEF Rows, all
  <2>. QED BY <1>6, <1>7
<1>9. Distance(a, b) = all[Len(b)][Len(a)]
  <2> HIDE DEF Rows, all
  <2>. QED BY <1>2, <1>8
<1>. QED BY <1>1, <1>9 DEF col

\* The table of the texts in the other order.
LEMMA TableTurns ==
  ASSUME NEW A, NEW a \in Seq(A), NEW b \in Seq(A), NEW E, IsTable(E, a, b)
  PROVE  IsTable([j \in 0..Len(b) |-> [i \in 0..Len(a) |-> E[i][j]]], b, a)
<1> DEFINE F == [j \in 0..Len(b) |-> [i \in 0..Len(a) |-> E[i][j]]]
<1>1. \A i \in 0..Len(a), j \in 0..Len(b) : F[j][i] = E[i][j]
  OBVIOUS
<1>2. F \in [0..Len(b) -> [0..Len(a) -> Nat]]
  BY DEF IsTable
<1>3. Len(a) \in Nat /\ Len(b) \in Nat
  OBVIOUS
<1> HIDE DEF F
<1>4. (\A j \in 0..Len(b) : F[j][0] = j) /\ (\A i \in 0..Len(a) : F[0][i] = i)
  <2>1. 0 \in 0..Len(a) /\ 0 \in 0..Len(b)
    BY <1>3
  <2>2. (\A j \in 0..Len(b) : F[j][0] = E[0][j]) /\ (\A i \in 0..Len(a) : F[0][i] = E[i][0])
    BY <1>1, <2>1
  <2>. QED BY <2>2 DEF IsTable
<1>5. ASSUME NEW j \in 1..Len(b), NEW i \in 1..Len(a)
      PROVE  F[j][i] = Least(Ways(F, b, a, j, i))
  <2>1. i \in 0..Len(a) /\ i - 1 \in 0..Len(a) /\ j \in 0..Len(b) /\ j - 1 \in 0..Len(b)
    BY <1>3
  <2>2. /\ F[j][i] = E[i][j] /\ F[j][i - 1] = E[i - 1][j]
        /\ F[j - 1][i] = E[i][j - 1] /\ F[j - 1][i - 1] = E[i - 1][j - 1]
    BY <1>1, <2>1
  <2>3. Differ(b[j], a[i]) = Differ(a[i], b[j])
    BY DEF Differ
  <2>4. Ways(F, b, a, j, i) = Ways(E, a, b, i, j)
    BY <2>2, <2>3 DEF Ways
  <2>. QED BY <2>2, <2>4 DEF IsTable
<1>. QED BY <1>2, <1>4, <1>5 DEF IsTable, F

Cost(m, s, t, i, j) == Cardinality(Changed(m, s, t)) + i + j - 2 * Cardinality(m)

Costs(s, t, i, j) == {Cost(m, s, t, i, j) : m \in Matchings(i, j)}

\* The costs of the cheapest matchings of the beginnings of two texts.
CostTable(s, t) == [i \in 0..Len(s) |-> [j \in 0..Len(t) |-> Least(Costs(s, t, i, j))]]

\* A matching is a finite set of pairs of numbers.
LEMMA MatchingPairs ==
  ASSUME NEW i \in Nat, NEW j \in Nat, NEW m \in Matchings(i, j)
  PROVE  /\ IsFiniteSet(m) /\ m \subseteq (1..i) \X (1..j)
         /\ \A p \in m : p = <<p[1], p[2]>> /\ p[1] \in 1..i /\ p[2] \in 1..j
<1>1. m \subseteq (1..i) \X (1..j)
  BY DEF Matchings
<1>2. IsFiniteSet(1..i) /\ IsFiniteSet(1..j)
  BY FS_Interval
<1>3. IsFiniteSet((1..i) \X (1..j))
  BY <1>2, FS_Product
<1>. QED BY <1>1, <1>3, FS_Subset

\* It has no more pairs than either text has letters, and pairs that change are some of them.
LEMMA MatchingSize ==
  ASSUME NEW s, NEW t, NEW i \in Nat, NEW j \in Nat, NEW m \in Matchings(i, j)
  PROVE  /\ Cardinality(m) \in Nat /\ Cardinality(m) <= i /\ Cardinality(m) <= j
         /\ IsFiniteSet(Changed(m, s, t))
         /\ Cardinality(Changed(m, s, t)) \in Nat
<1>1. IsFiniteSet(m) /\ Cardinality(m) \in Nat
  BY MatchingPairs, FS_CardinalityType
<1>2. \A p, q \in m : p[1] = q[1] \/ p[2] = q[2] => p = q
  BY MatchingPairs DEF Matchings, IsMatching
<1>3. Cardinality(m) <= i
  <2> DEFINE f == [p \in m |-> p[1]]
  <2>1. f \in [m -> 1..i] /\ \A p, q \in m : f[p] = f[q] => p = q
    BY <1>2, MatchingPairs
  <2> HIDE DEF f
  <2>2. f \in Injection(m, 1..i)
    BY <2>1, Fun_IsInj
  <2>3. IsFiniteSet(1..i) /\ Cardinality(1..i) = i
    BY FS_Interval
  <2>. QED BY <2>2, <2>3, FS_Injection
<1>4. Cardinality(m) <= j
  <2> DEFINE f == [p \in m |-> p[2]]
  <2>1. f \in [m -> 1..j] /\ \A p, q \in m : f[p] = f[q] => p = q
    BY <1>2, MatchingPairs
  <2> HIDE DEF f
  <2>2. f \in Injection(m, 1..j)
    BY <2>1, Fun_IsInj
  <2>3. IsFiniteSet(1..j) /\ Cardinality(1..j) = j
    BY FS_Interval
  <2>. QED BY <2>2, <2>3, FS_Injection
<1>5. IsFiniteSet(Changed(m, s, t))
  <2>1. Changed(m, s, t) \subseteq m
    BY DEF Changed
  <2>. QED BY <1>1, <2>1, FS_Subset
<1>. QED BY <1>1, <1>3, <1>4, <1>5, FS_CardinalityType

\* There is a cheapest one.
LEMMA CostsAreNat ==
  ASSUME NEW s, NEW t, NEW i \in Nat, NEW j \in Nat
  PROVE  /\ \A m \in Matchings(i, j) : Cost(m, s, t, i, j) \in Nat
         /\ Least(Costs(s, t, i, j)) \in Nat
         /\ \E m \in Matchings(i, j) : Least(Costs(s, t, i, j)) = Cost(m, s, t, i, j)
         /\ \A m \in Matchings(i, j) : Least(Costs(s, t, i, j)) <= Cost(m, s, t, i, j)
<1>1. \A m \in Matchings(i, j) : Cost(m, s, t, i, j) \in Nat
  <2> TAKE m \in Matchings(i, j)
  <2>1. /\ Cardinality(m) \in Nat /\ Cardinality(m) <= i /\ Cardinality(m) <= j
        /\ Cardinality(Changed(m, s, t)) \in Nat
    BY MatchingSize
  <2>. QED BY <2>1 DEF Cost
<1>2. Costs(s, t, i, j) \subseteq Nat
  BY <1>1 DEF Costs
<1>3. {} \in Matchings(i, j)
  BY DEF Matchings, IsMatching
<1>4. Costs(s, t, i, j) # {}
  BY <1>3 DEF Costs
<1>5. /\ Least(Costs(s, t, i, j)) \in Costs(s, t, i, j)
      /\ \A y \in Costs(s, t, i, j) : Least(Costs(s, t, i, j)) <= y
  BY <1>2, <1>4, LeastIs
<1>. QED BY <1>1, <1>2, <1>5 DEF Costs

\* A matching of shorter texts, with a letter more in one of them.
LEMMA OneMore ==
  ASSUME NEW s, NEW t, NEW i \in Nat, NEW j \in Nat, NEW m \in Matchings(i, j)
  PROVE  /\ m \in Matchings(i + 1, j)
         /\ m \in Matchings(i, j + 1)
         /\ Cost(m, s, t, i + 1, j) = Cost(m, s, t, i, j) + 1
         /\ Cost(m, s, t, i, j + 1) = Cost(m, s, t, i, j) + 1
<1>1. m \subseteq (1..(i + 1)) \X (1..j) /\ m \subseteq (1..i) \X (1..(j + 1))
  BY DEF Matchings
<1>2. Cardinality(m) \in Nat /\ Cardinality(Changed(m, s, t)) \in Nat
  BY MatchingSize
<1>. QED BY <1>1, <1>2 DEF Matchings, Cost

\* A matching of shorter texts, with a pair of letters more.
LEMMA OnePair ==
  ASSUME NEW s, NEW t, NEW i \in Nat, NEW j \in Nat, NEW m \in Matchings(i, j)
  PROVE  /\ m \cup {<<i + 1, j + 1>>} \in Matchings(i + 1, j + 1)
         /\ Cost(m \cup {<<i + 1, j + 1>>}, s, t, i + 1, j + 1) =
              Cost(m, s, t, i, j) + Differ(s[i + 1], t[j + 1])
<1> DEFINE x == <<i + 1, j + 1>>
           more == m \cup {x}
<1>1. \A p \in m : p[1] \in 1..i /\ p[2] \in 1..j
  BY MatchingPairs
<1>2. x[1] = i + 1 /\ x[2] = j + 1 /\ x \notin m
  BY <1>1
<1>3. more \subseteq (1..(i + 1)) \X (1..(j + 1))
  BY DEF Matchings
<1>4. IsMatching(more)
  <2> HIDE DEF x
  <2>1. SUFFICES ASSUME NEW p \in more, NEW q \in more
                 PROVE  (p[1] < q[1] <=> p[2] < q[2]) /\ (p[1] = q[1] <=> p[2] = q[2])
    BY DEF IsMatching
  <2>2. CASE p \in m /\ q \in m
    BY <2>2 DEF Matchings, IsMatching
  <2>. QED BY <1>1, <1>2, <2>2
<1>5. Cardinality(more) = Cardinality(m) + 1
  <2> HIDE DEF x
  <2>. QED BY <1>2, MatchingPairs, FS_AddElement
<1>6. Cardinality(Changed(more, s, t)) =
        Cardinality(Changed(m, s, t)) + Differ(s[i + 1], t[j + 1])
  <2>1. x \notin Changed(m, s, t) /\ IsFiniteSet(Changed(m, s, t))
    BY <1>2, MatchingSize DEF Changed
  <2>0. Cardinality(Changed(m, s, t)) \in Nat
    BY MatchingSize
  <2> HIDE DEF x
  <2>2. CASE s[i + 1] = t[j + 1]
    <3>1. Changed(more, s, t) = Changed(m, s, t)
      BY <1>2, <2>2 DEF Changed
    <3>. QED BY <2>0, <2>2, <3>1 DEF Differ
  <2>3. CASE s[i + 1] # t[j + 1]
    <3>1. Changed(more, s, t) = Changed(m, s, t) \cup {x}
      BY <1>2, <2>3 DEF Changed
    <3>2. Cardinality(Changed(m, s, t) \cup {x}) = Cardinality(Changed(m, s, t)) + 1
      BY <2>1, FS_AddElement
    <3>. QED BY <2>3, <3>1, <3>2 DEF Differ
  <2>. QED BY <2>2, <2>3
<1>7. more \in Matchings(i + 1, j + 1)
  BY <1>3, <1>4 DEF Matchings
<1>8. /\ Cardinality(m) \in Nat /\ Cardinality(Changed(m, s, t)) \in Nat
      /\ Differ(s[i + 1], t[j + 1]) \in Nat
  BY MatchingSize DEF Differ
<1> HIDE DEF more
<1>9. Cost(more, s, t, i + 1, j + 1) = Cost(m, s, t, i, j) + Differ(s[i + 1], t[j + 1])
  BY <1>5, <1>6, <1>8 DEF Cost
<1>. QED BY <1>7, <1>9 DEF more

\* Every matching comes from one of shorter texts in one of the three ways.
LEMMA OneLess ==
  ASSUME NEW i \in Nat, NEW j \in Nat, NEW m \in Matchings(i + 1, j + 1)
  PROVE  \/ m \in Matchings(i, j + 1)
         \/ m \in Matchings(i + 1, j)
         \/ \E k \in Matchings(i, j) : m = k \cup {<<i + 1, j + 1>>}
<1>1. \A p \in m : p = <<p[1], p[2]>> /\ p[1] \in 1..(i + 1) /\ p[2] \in 1..(j + 1)
  BY MatchingPairs
<1>2. IsMatching(m)
  BY DEF Matchings
<1>3. CASE \A p \in m : p[1] # i + 1
  <2>1. \A p \in m : p[1] \in 1..i
    BY <1>1, <1>3
  <2>2. m \subseteq (1..i) \X (1..(j + 1))
    BY <1>1, <2>1
  <2>. QED BY <1>2, <2>2 DEF Matchings
<1>4. CASE \A p \in m : p[2] # j + 1
  <2>1. \A p \in m : p[2] \in 1..j
    BY <1>1, <1>4
  <2>2. m \subseteq (1..(i + 1)) \X (1..j)
    BY <1>1, <2>1
  <2>. QED BY <1>2, <2>2 DEF Matchings
<1>5. ASSUME NEW p \in m, p[1] = i + 1, NEW q \in m, q[2] = j + 1
      PROVE  \E k \in Matchings(i, j) : m = k \cup {<<i + 1, j + 1>>}
  <2>1. p[2] = j + 1
    BY <1>1, <1>2, <1>5 DEF IsMatching
  <2>2. p = <<i + 1, j + 1>>
    BY <1>1, <1>5, <2>1
  <2> DEFINE k == m \ {p}
  <2>3. \A r \in k : r[1] \in 1..i /\ r[2] \in 1..j
    <3> TAKE r \in k
    <3>1. r \in m /\ r # p /\ r = <<r[1], r[2]>> /\ r[1] \in 1..(i + 1) /\ r[2] \in 1..(j + 1)
      BY <1>1
    <3>2. r[1] = p[1] <=> r[2] = p[2]
      BY <1>2, <3>1 DEF IsMatching
    <3>3. r[1] # i + 1 /\ r[2] # j + 1
      BY <1>5, <2>1, <2>2, <3>1, <3>2
    <3>. QED BY <3>1, <3>3
  <2>4. k \subseteq (1..i) \X (1..j)
    BY <1>1, <2>3
  <2>5. IsMatching(k)
    BY <1>2 DEF IsMatching
  <2>6. k \in Matchings(i, j)
    BY <2>4, <2>5 DEF Matchings
  <2>. QED BY <2>2, <2>6
<1>. QED BY <1>3, <1>4, <1>5

\* The only matching with an empty text is the empty one.
LEMMA CostOfNone ==
  ASSUME NEW s, NEW t, NEW i \in Nat
  PROVE  Least(Costs(s, t, i, 0)) = i /\ Least(Costs(s, t, 0, i)) = i
<1>1. 1..0 = {} /\ (1..i) \X {} = {} /\ {} \X (1..i) = {}
  OBVIOUS
<1>2. Matchings(i, 0) = {{}} /\ Matchings(0, i) = {{}}
  BY <1>1 DEF Matchings, IsMatching
<1>3. Cardinality(Changed({}, s, t)) = 0 /\ Cardinality({}) = 0
  <2>1. Changed({}, s, t) = {}
    BY DEF Changed
  <2>. QED BY <2>1, FS_EmptySet
<1>4. Cost({}, s, t, i, 0) = i /\ Cost({}, s, t, 0, i) = i
  BY <1>3 DEF Cost
<1>5. \E m \in Matchings(i, 0) : Least(Costs(s, t, i, 0)) = Cost(m, s, t, i, 0)
  BY CostsAreNat
<1>6. \E m \in Matchings(0, i) : Least(Costs(s, t, 0, i)) = Cost(m, s, t, 0, i)
  BY CostsAreNat
<1>. QED BY <1>2, <1>4, <1>5, <1>6

\* The cheapest matching is the cheapest of the three ways.
LEMMA CostStep ==
  ASSUME NEW A, NEW s \in Seq(A), NEW t \in Seq(A), NEW i \in Nat, NEW j \in Nat
  PROVE  Least(Costs(s, t, i + 1, j + 1)) =
           Least({Least(Costs(s, t, i + 1, j)) + 1, Least(Costs(s, t, i, j + 1)) + 1,
                  Least(Costs(s, t, i, j)) + Differ(s[i + 1], t[j + 1])})
<1> DEFINE v == Least(Costs(s, t, i + 1, j + 1))
           x == Least(Costs(s, t, i + 1, j))
           y == Least(Costs(s, t, i, j + 1))
           z == Least(Costs(s, t, i, j))
           d == Differ(s[i + 1], t[j + 1])
<1>1. i + 1 \in Nat /\ j + 1 \in Nat
  OBVIOUS
<1>2. /\ v \in Nat /\ x \in Nat /\ y \in Nat /\ z \in Nat /\ d \in Nat
  BY <1>1, CostsAreNat DEF Differ
<1>3. v <= x + 1
  <2>1. PICK m \in Matchings(i + 1, j) : x = Cost(m, s, t, i + 1, j)
    BY <1>1, CostsAreNat
  <2>2. /\ m \in Matchings(i + 1, j + 1)
        /\ Cost(m, s, t, i + 1, j + 1) = Cost(m, s, t, i + 1, j) + 1
    BY <1>1, OneMore
  <2>3. v <= Cost(m, s, t, i + 1, j + 1)
    BY <1>1, <2>2, CostsAreNat
  <2> HIDE DEF v, x
  <2>. QED BY <2>1, <2>2, <2>3
<1>4. v <= y + 1
  <2>1. PICK m \in Matchings(i, j + 1) : y = Cost(m, s, t, i, j + 1)
    BY <1>1, CostsAreNat
  <2>2. /\ m \in Matchings(i + 1, j + 1)
        /\ Cost(m, s, t, i + 1, j + 1) = Cost(m, s, t, i, j + 1) + 1
    BY <1>1, OneMore
  <2>3. v <= Cost(m, s, t, i + 1, j + 1)
    BY <1>1, <2>2, CostsAreNat
  <2> HIDE DEF v, y
  <2>. QED BY <2>1, <2>2, <2>3
<1>5. v <= z + d
  <2>1. PICK m \in Matchings(i, j) : z = Cost(m, s, t, i, j)
    BY CostsAreNat
  <2> DEFINE more == m \cup {<<i + 1, j + 1>>}
  <2>2. /\ more \in Matchings(i + 1, j + 1)
        /\ Cost(more, s, t, i + 1, j + 1) = Cost(m, s, t, i, j) + d
    BY OnePair
  <2> HIDE DEF more
  <2>3. v <= Cost(more, s, t, i + 1, j + 1)
    BY <1>1, <2>2, CostsAreNat
  <2> HIDE DEF v, z, d
  <2>. QED BY <2>1, <2>2, <2>3
<1>6. x + 1 <= v \/ y + 1 <= v \/ z + d <= v
  <2>1. PICK m \in Matchings(i + 1, j + 1) : v = Cost(m, s, t, i + 1, j + 1)
    BY <1>1, CostsAreNat
  <2>2. CASE m \in Matchings(i, j + 1)
    <3>1. y <= Cost(m, s, t, i, j + 1)
      BY <1>1, <2>2, CostsAreNat
    <3>2. Cost(m, s, t, i + 1, j + 1) = Cost(m, s, t, i, j + 1) + 1
      BY <1>1, <2>2, OneMore
    <3>3. Cost(m, s, t, i, j + 1) \in Nat
      BY <1>1, <2>2, CostsAreNat
    <3> HIDE DEF v, y
    <3>. QED BY <1>2, <2>1, <3>1, <3>2, <3>3
  <2>3. CASE m \in Matchings(i + 1, j)
    <3>1. x <= Cost(m, s, t, i + 1, j)
      BY <1>1, <2>3, CostsAreNat
    <3>2. Cost(m, s, t, i + 1, j + 1) = Cost(m, s, t, i + 1, j) + 1
      BY <1>1, <2>3, OneMore
    <3>3. Cost(m, s, t, i + 1, j) \in Nat
      BY <1>1, <2>3, CostsAreNat
    <3> HIDE DEF v, x
    <3>. QED BY <1>2, <2>1, <3>1, <3>2, <3>3
  <2>4. ASSUME NEW k \in Matchings(i, j), m = k \cup {<<i + 1, j + 1>>} PROVE z + d <= v
    <3>1. z <= Cost(k, s, t, i, j)
      BY CostsAreNat
    <3>2. Cost(m, s, t, i + 1, j + 1) = Cost(k, s, t, i, j) + d
      BY <2>4, OnePair
    <3>3. Cost(k, s, t, i, j) \in Nat
      BY CostsAreNat
    <3> HIDE DEF v, z, d
    <3>. QED BY <1>2, <2>1, <3>1, <3>2, <3>3
  <2> HIDE DEF v, x, y, z, d
  <2>. QED BY <2>2, <2>3, <2>4, OneLess
<1> HIDE DEF v, x, y, z, d
<1> DEFINE ways == {x + 1, y + 1, z + d}
<1>7. ways \subseteq Nat /\ v \in ways /\ \A w \in ways : v <= w
  BY <1>2, <1>3, <1>4, <1>5, <1>6
<1>8. Least(ways) = v
  <2> HIDE DEF ways
  <2>. QED BY <1>7, LeastIsOne
<1>. QED BY <1>8 DEF v, x, y, z, d

\* So the costs are a table that the rows compute.
LEMMA CostTableIs ==
  ASSUME NEW A, NEW s \in Seq(A), NEW t \in Seq(A)
  PROVE  IsTable(CostTable(s, t), s, t)
<1> DEFINE E == CostTable(s, t)
<1>1. Len(s) \in Nat /\ Len(t) \in Nat
  OBVIOUS
<1>2. \A i \in 0..Len(s), j \in 0..Len(t) : E[i][j] = Least(Costs(s, t, i, j))
  BY DEF CostTable
<1>3. E \in [0..Len(s) -> [0..Len(t) -> Nat]]
  <2>1. ASSUME NEW i \in 0..Len(s), NEW j \in 0..Len(t)
        PROVE  Least(Costs(s, t, i, j)) \in Nat
    <3>1. i \in Nat /\ j \in Nat
      BY <1>1
    <3>. QED BY <3>1, CostsAreNat
  <2>. QED BY <2>1 DEF CostTable
<1> HIDE DEF E
<1>4. \A i \in 0..Len(s) : E[i][0] = i
  <2>1. 0 \in 0..Len(t)
    BY <1>1
  <2>. QED BY <1>1, <1>2, <2>1, CostOfNone
<1>5. \A j \in 0..Len(t) : E[0][j] = j
  <2>1. 0 \in 0..Len(s)
    BY <1>1
  <2>. QED BY <1>1, <1>2, <2>1, CostOfNone
<1>6. ASSUME NEW i \in 1..Len(s), NEW j \in 1..Len(t)
      PROVE  E[i][j] = Least(Ways(E, s, t, i, j))
  <2>1. PICK h \in Nat, k \in Nat : i = h + 1 /\ j = k + 1
    <3>1. i - 1 \in Nat /\ j - 1 \in Nat /\ i = (i - 1) + 1 /\ j = (j - 1) + 1
      BY <1>1
    <3>. QED BY <3>1
  <2>2. /\ h \in 0..Len(s) /\ h + 1 \in 0..Len(s) /\ k \in 0..Len(t) /\ k + 1 \in 0..Len(t)
        /\ i - 1 = h /\ j - 1 = k
    BY <1>1, <2>1
  <2>3. /\ E[i][j] = Least(Costs(s, t, h + 1, k + 1))
        /\ E[i][j - 1] = Least(Costs(s, t, h + 1, k))
        /\ E[i - 1][j] = Least(Costs(s, t, h, k + 1))
        /\ E[i - 1][j - 1] = Least(Costs(s, t, h, k))
    BY <1>2, <2>1, <2>2
  <2>4. Least(Costs(s, t, h + 1, k + 1)) =
           Least({Least(Costs(s, t, h + 1, k)) + 1, Least(Costs(s, t, h, k + 1)) + 1,
                  Least(Costs(s, t, h, k)) + Differ(s[h + 1], t[k + 1])})
    BY CostStep
  <2>. QED BY <2>1, <2>3, <2>4 DEF Ways
<1>. QED BY <1>3, <1>4, <1>5, <1>6 DEF IsTable, E

\* Whichever of the two texts makes the rows, they give the cost of the cheapest matching.
LEMMA RowsGiveTheCost ==
  ASSUME NEW A, NEW s \in Seq(A), NEW t \in Seq(A)
  PROVE  /\ Distance(s, t) = Least(Costs(s, t, Len(s), Len(t)))
         /\ Distance(t, s) = Least(Costs(s, t, Len(s), Len(t)))
<1> DEFINE E == CostTable(s, t)
           F == [j \in 0..Len(t) |-> [i \in 0..Len(s) |-> E[i][j]]]
<1>1. Len(s) \in 0..Len(s) /\ Len(t) \in 0..Len(t)
  OBVIOUS
<1>2. E[Len(s)][Len(t)] = Least(Costs(s, t, Len(s), Len(t)))
  BY <1>1 DEF CostTable
<1>3. F[Len(t)][Len(s)] = E[Len(s)][Len(t)]
  <2> HIDE DEF E
  <2>. QED BY <1>1
<1>4. IsTable(E, s, t)
  BY CostTableIs
<1>5. IsTable(F, t, s)
  <2> HIDE DEF E
  <2>. QED BY <1>4, TableTurns
<1> HIDE DEF E, F
<1>6. Distance(s, t) = E[Len(s)][Len(t)]
  BY <1>4, DistanceOfTable
<1>7. Distance(t, s) = F[Len(t)][Len(s)]
  BY <1>5, DistanceOfTable
<1>. QED BY <1>2, <1>3, <1>6, <1>7

\* A text costs nothing to make from itself: every letter is matched with itself.
LEMMA SameCostsNothing ==
  ASSUME NEW s, NEW n \in Nat
  PROVE  Least(Costs(s, s, n, n)) = 0
<1> DEFINE m == {<<k, k>> : k \in 1..n}
           f == [k \in 1..n |-> <<k, k>>]
<1>1. m \in Matchings(n, n)
  BY DEF Matchings, IsMatching
<1>2. Cardinality(m) = n
  <2>1. /\ f \in [1..n -> m] /\ (\A k, l \in 1..n : f[k] = f[l] => k = l)
        /\ \A p \in m : \E k \in 1..n : f[k] = p
    OBVIOUS
  <2> HIDE DEF f, m
  <2>2. f \in Bijection(1..n, m)
    BY <2>1, Fun_IsBij, Fun_IsSurj
  <2>3. IsFiniteSet(1..n) /\ Cardinality(1..n) = n
    BY FS_Interval
  <2>4. ExistsBijection(1..n, m)
    BY <2>2 DEF ExistsBijection
  <2>. QED BY <2>3, <2>4, FS_Bijection
<1>3. Changed(m, s, s) = {}
  BY DEF Changed
<1> HIDE DEF m
<1>4. Cost(m, s, s, n, n) = 0
  BY <1>2, <1>3, FS_EmptySet DEF Cost
<1>5. Least(Costs(s, s, n, n)) \in Nat /\ Least(Costs(s, s, n, n)) <= 0
  BY <1>1, <1>4, CostsAreNat
<1>. QED BY <1>5

\* What is compared of a text.
LEMMA CappedIs == ASSUME NEW x \in Text PROVE Capped(x) \in Seq(Letter)
<1>1. x \in Seq(Letter) /\ Len(x) \in Nat /\ SemMax \in Nat
  BY TextAssumption, LimitAssumption
<1> DEFINE k == IF Len(x) > SemMax THEN SemMax ELSE Len(x)
<1>2. k \in 0..Len(x)
  BY <1>1
<1> HIDE DEF k
<1>3. \A i \in 1..k : x[i] \in Letter
  BY <1>1, <1>2
<1>4. SubSeq(x, 1, k) \in Seq(Letter)
  BY <1>1, <1>2, <1>3, SubSeqProperties
<1>. QED BY <1>4 DEF Capped, k

\* Two texts are similar by the rows exactly if they are near by the edit distance.
LEMMA SimilarIsNear ==
  ASSUME NEW a \in Text, NEW b \in Text
  PROVE  Similar(a, b, Pause) <=> Near(a, b)
<1> DEFINE s == Capped(a)
           t == Capped(b)
           most == Longer(s, t)
           cost == Least(Costs(s, t, Len(s), Len(t)))
<1>1. s \in Seq(Letter) /\ t \in Seq(Letter)
  BY CappedIs
<1>2. EditDistance[s][t] = cost
  BY DEF EditDistance, Costs, Cost
<1>3. Near(a, b) <=> IF most = 0 THEN Pause[2] >= Pause[1]
                     ELSE (most - cost) * Pause[2] >= Pause[1] * most
  BY <1>2 DEF Near
<1>4. Similar(a, b, Pause) <=>
        IF s = t THEN Pause[2] >= Pause[1]
        ELSE (most - (IF Len(s) > Len(t) THEN Distance(t, s) ELSE Distance(s, t)))
               * Pause[2] >= Pause[1] * most
  BY DEF Similar
<1> HIDE DEF s, t, most
<1>5. (IF Len(s) > Len(t) THEN Distance(t, s) ELSE Distance(s, t)) = cost
  BY <1>1, RowsGiveTheCost
<1>6. most \in Nat /\ (most = 0 => Len(s) = 0 /\ Len(t) = 0)
  BY <1>1 DEF most, Longer
<1>7. most = 0 => s = t
  BY <1>1, <1>6, SeqEqual
<1>8. s = t => cost = 0
  BY <1>1, SameCostsNothing
<1>9. CASE s # t
  BY <1>3, <1>4, <1>5, <1>7, <1>9
<1>10. CASE s = t /\ most = 0
  BY <1>3, <1>4, <1>10
<1>11. CASE s = t /\ most # 0
  <2> DEFINE p == Pause[1]
             q == Pause[2]
  <2>1. p \in Int /\ q \in Int
    BY ThresholdAssumption
  <2>2. Similar(a, b, Pause) <=> q >= p
    BY <1>4, <1>11
  <2>3. Near(a, b) <=> (most - 0) * q >= p * most
    BY <1>3, <1>8, <1>11
  <2> HIDE DEF p, q
  <2>4. most > 0 => (most * q >= p * most <=> q >= p)
    BY <1>6, <2>1
  <2>. QED BY <1>6, <1>11, <2>1, <2>2, <2>3, <2>4
<1>. QED BY <1>9, <1>10, <1>11

(***************************************************************************)
(* The detector: its three tiers, and the invariant that relates what they *)
(* keep to everything that they have been told.                            *)
(***************************************************************************)

\* Below the limit, the window is the last signatures of the execution.
Calls ==
  /\ asked \in Seq(Call)
  /\ steps = Len(asked)
  /\ steps <= MaxSteps => window = LastOf(asked, Window)
  /\ WindowIsExact

\* So are the texts, and they alone decide.
Texts ==
  /\ told \in Seq(Text)
  /\ texts = LastOf(told, Consecutive)
  /\ tier = "text" =>
       (verdict = "similar" <=>
          Len(texts) >= 2 /\ Len(texts) >= Consecutive /\ AllSimilar(texts, Pause))

\* A search begins with fresh locals, and what it leaves has no cycle unless it raises.
Searches ==
  /\ PathInv
  /\ verdict = "busy" => tier = "agent" /\ SearchInv
  /\ (tier = "agent" /\ verdict = "ok") => Ends(Node)

DetectorInv == Calls /\ Texts /\ Searches

\* A new detector, or one that has been reset.
Blank ==
  /\ steps = 0 /\ window = <<>> /\ asked = <<>> /\ texts = <<>> /\ told = <<>>
  /\ adj = [n \in Node |-> {}] /\ path = <<>> /\ stack = <<>> /\ answer = NoCycle
  /\ verdict = "ok"

\* A detector that has just been made satisfies the invariant.
LEMMA BlankInv == Blank => DetectorInv
<1>0. SUFFICES ASSUME Blank PROVE DetectorInv
  OBVIOUS
<1>1. \A n \in Nat : LastOf(<<>>, n) = <<>>
  <2> TAKE n \in Nat
  <2>1. Len(<<>>) = 0 /\ ~ (Len(<<>>) > n)
    OBVIOUS
  <2>2. LastOf(<<>>, n) = SubSeq(<<>>, 1, 0)
    BY <2>1 DEF LastOf
  <2>. QED BY <2>2
<1>2. Calls
  BY <1>0, <1>1, LimitAssumption DEF Blank, Calls, WindowIsExact
<1>3. Texts
  BY <1>0, <1>1, LimitAssumption DEF Blank, Texts
<1>4. PathInv
  BY <1>0 DEF Blank, PathInv, SearchOK, InStep, IsWalk, CycleIsReal, Found
<1>5. Ends(Node)
  BY <1>0 DEF Blank, Ends
<1>. QED BY <1>0, <1>2, <1>3, <1>4, <1>5 DEF Blank, Searches, DetectorInv

\* The state and the next one agree on a tier: what is said of it stays true.
LEMMA CallsStay ==
  ASSUME Calls, UNCHANGED <<toolVars, tier>>, tier = "tool" => UNCHANGED verdict
  PROVE  Calls'
BY DEF Calls, WindowIsExact, toolVars

\* What is not about texts leaves the texts alone.
LEMMA TextsStay ==
  ASSUME Texts, UNCHANGED <<textVars, tier>>, tier = "text" => UNCHANGED verdict
  PROVE  Texts'
BY DEF Texts, textVars, AllSimilar

\* What is not about hand-offs leaves the searches alone.
LEMMA SearchesStay ==
  ASSUME Searches, UNCHANGED <<searchVars, tier>>, tier = "agent" => UNCHANGED verdict,
         verdict' # "busy" \/ UNCHANGED verdict
  PROVE  Searches'
<1>1. PathInv'
  BY DEF Searches, searchVars, PathInv, SearchOK, InStep, IsWalk, CycleIsReal, Found
<1>2. SearchInv => SearchInv'
  BY DEF searchVars, SearchInv, Gray, Closed, Explored, Ends, Finished
<1>3. Ends(Node) => Ends(Node)'
  BY DEF searchVars, Ends
<1>. QED BY <1>1, <1>2, <1>3 DEF Searches

\* A tool call.
LEMMA RecordInv ==
  ASSUME DetectorInv, NEW sig \in Call, Record(sig)
  PROVE  DetectorInv'
<1>1. /\ tier = "tool" /\ UNCHANGED <<tier, textVars, searchVars>>
      /\ steps' = steps + 1 /\ asked' = Append(asked, sig)
      /\ asked \in Seq(Call) /\ steps = Len(asked)
      /\ steps <= MaxSteps => window = LastOf(asked, Window)
      /\ IF steps' > MaxSteps
           THEN verdict' = "limit" /\ UNCHANGED window
           ELSE /\ window' = Slide(window, sig, Window)
                /\ verdict' = IF Count(window', sig) >= Repeats THEN "repeated" ELSE "ok"
  BY DEF Record, Idle, DetectorInv, Calls
<1>2. verdict' # "busy"
  BY <1>1
<1>3. Texts' /\ Searches'
  BY <1>1, <1>2, TextsStay, SearchesStay DEF DetectorInv
<1>4. /\ asked' \in Seq(Call) /\ Len(asked') = Len(asked) + 1 /\ steps' = Len(asked')
      /\ asked'[Len(asked')] = sig
  BY <1>1
<1>5. steps' <= MaxSteps => window' = LastOf(asked', Window)
  <2>1. SUFFICES ASSUME steps' <= MaxSteps PROVE window' = LastOf(asked', Window)
    OBVIOUS
  <2>2. window' = Slide(window, sig, Window) /\ window = LastOf(asked, Window)
    BY <1>1, <2>1, LimitAssumption
  <2>. QED BY <1>1, <2>2, SlideLast, LimitAssumption
<1>6. Last(asked') = sig
  BY <1>4 DEF Last
<1>7. WindowIsExact'
  <2>1. CASE steps' > MaxSteps
    BY <1>1, <1>4, <2>1 DEF WindowIsExact
  <2>2. CASE ~ (steps' > MaxSteps)
    <3>1. /\ steps' <= MaxSteps /\ ~ (Len(asked') > MaxSteps)
          /\ verdict' = IF Count(window', sig) >= Repeats THEN "repeated" ELSE "ok"
      BY <1>1, <1>4, <2>2, LimitAssumption
    <3>2. verdict' = IF Count(LastOf(asked', Window), Last(asked')) >= Repeats
                       THEN "repeated" ELSE "ok"
      BY <1>5, <1>6, <3>1
    <3>. QED BY <3>1, <3>2 DEF WindowIsExact
  <2>. QED BY <2>1, <2>2
<1>. QED BY <1>3, <1>4, <1>5, <1>7 DEF DetectorInv, Calls

\* A text.
LEMMA RecordTextInv ==
  ASSUME DetectorInv, NEW text \in Text, RecordText(text)
  PROVE  DetectorInv'
<1>1. /\ tier = "text" /\ UNCHANGED <<tier, toolVars, searchVars>>
      /\ told' = Append(told, text) /\ told \in Seq(Text)
      /\ texts = LastOf(told, Consecutive)
      /\ texts' = Slide(texts, text, Consecutive)
      /\ verdict' = IF /\ Len(texts') >= 2 /\ Len(texts') >= Consecutive
                       /\ AllSimilar(texts', Pause)
                      THEN "similar" ELSE "ok"
  BY DEF RecordText, Idle, DetectorInv, Texts
<1>2. Calls' /\ Searches'
  BY <1>1, CallsStay, SearchesStay DEF DetectorInv
<1>3. told' \in Seq(Text)
  BY <1>1
<1>4. texts' = LastOf(told', Consecutive)
  BY <1>1, SlideLast, LimitAssumption
<1>. QED BY <1>1, <1>2, <1>3, <1>4 DEF DetectorInv, Texts

\* A hand-off that adds nothing to the graph leaves the last search's findings as they are.
LEMMA RecordTransitionInv ==
  ASSUME DetectorInv, NEW src \in Node, NEW dst \in Node, RecordTransition(src, dst)
  PROVE  DetectorInv'
<1>1. /\ tier = "agent" /\ UNCHANGED <<tier, toolVars, textVars>>
      /\ adj' = Counted(src, dst)
      /\ PathInv
  BY DEF RecordTransition, Idle, DetectorInv, Searches
<1>2. Calls' /\ Texts'
  BY <1>1, CallsStay, TextsStay DEF DetectorInv
<1>3. adj' \in [Node -> SUBSET Node] /\ (adj' = adj \/ dst \in adj'[src])
  BY <1>1 DEF Counted, PathInv, SearchOK
<1>4. CASE FreshSearch /\ verdict' = "busy"
  <2>1. path' = <<>> /\ stack' = <<>> /\ answer' = Searching
    BY <1>4 DEF FreshSearch
  <2>2. PathInv'
    BY <1>3, <2>1 DEF PathInv, SearchOK, InStep, IsWalk, CycleIsReal, Found
  <2>. QED BY <1>1, <1>2, <1>4, <2>2, FreshSearchInv DEF DetectorInv, Searches
<1>5. CASE /\ \A n \in Node : adj'[n] = {}
           /\ verdict' = "ok"
           /\ UNCHANGED <<color, path, stack, answer>>
  <2>1. adj' = adj
    BY <1>3, <1>5
  <2>2. PathInv'
    BY <1>1, <1>5, <2>1 DEF PathInv, SearchOK, InStep, IsWalk, CycleIsReal, Found
  <2>3. Ends(Node)'
    BY <1>5 DEF Ends
  <2>. QED BY <1>2, <1>5, <2>2, <2>3 DEF DetectorInv, Searches
<1>. QED BY <1>4, <1>5 DEF RecordTransition

\* An iteration of the search for a cycle.
LEMMA SearchStepInv ==
  ASSUME DetectorInv, Search
  PROVE  DetectorInv'
<1>1. /\ verdict = "busy" /\ Step /\ UNCHANGED <<tier, toolVars, textVars, verdict>>
      /\ tier = "agent" /\ PathInv /\ SearchInv
  BY DEF Search, DetectorInv, Searches
<1>2. PathInv' /\ SearchInv'
  BY <1>1, StepKeepsPath, StepKeepsSearch
<1>3. Calls' /\ Texts'
  BY <1>1, CallsStay, TextsStay DEF DetectorInv
<1>. QED BY <1>1, <1>2, <1>3 DEF DetectorInv, Searches

\* A search that raises nothing has given up, and then every node is finished.
LEMMA CheckedInv ==
  ASSUME DetectorInv, Checked
  PROVE  DetectorInv'
<1>1. /\ verdict = "busy" /\ UNCHANGED <<tier, toolVars, textVars, searchVars>>
      /\ answer # Searching /\ verdict' = IF Found THEN "cycle" ELSE "ok"
      /\ tier = "agent" /\ PathInv /\ SearchInv
  BY DEF Checked, DetectorInv, Searches
<1>2. PathInv'
  BY <1>1 DEF searchVars, PathInv, SearchOK, InStep, IsWalk, CycleIsReal, Found
<1>3. verdict' = "ok" => Ends(Node)'
  <2>1. verdict' = "ok" => Ends(Node)
    BY <1>1 DEF Found, SearchInv
  <2>. QED BY <1>1, <2>1 DEF Ends, searchVars
<1>4. Calls' /\ Texts'
  BY <1>1, CallsStay, TextsStay DEF DetectorInv
<1>. QED BY <1>1, <1>2, <1>3, <1>4 DEF DetectorInv, Searches

\* The texts that are kept say what the edit distance of everything told says.
LEMMA TextsDecide == Texts => SimilarTextsStop
<1>1. SUFFICES ASSUME Texts, tier = "text"
               PROVE  (verdict = "similar") <=>
                        /\ Len(told) >= Consecutive
                        /\ Consecutive > 1
                        /\ \A i \in 1..(Consecutive - 1) :
                             Near(LastOf(told, Consecutive)[i], LastOf(told, Consecutive)[i + 1])
  BY DEF SimilarTextsStop
<1>2. /\ told \in Seq(Text) /\ texts = LastOf(told, Consecutive) /\ Consecutive \in Nat
      /\ verdict = "similar" <=>
           Len(texts) >= 2 /\ Len(texts) >= Consecutive /\ AllSimilar(texts, Pause)
  BY <1>1, LimitAssumption DEF Texts
<1> DEFINE l == IF Len(told) > Consecutive THEN Consecutive ELSE Len(told)
<1>3. texts \in Seq(Text) /\ Len(texts) = l
  <2>1. l \in Nat
    BY <1>2
  <2>2. l = IF Len(told) > Consecutive THEN Consecutive ELSE Len(told)
    OBVIOUS
  <2> HIDE DEF l
  <2>. QED BY <1>2, <2>1, <2>2, LastOfIs
<1>4. Len(texts) >= 2 /\ Len(texts) >= Consecutive <=>
        Len(told) >= Consecutive /\ Consecutive > 1 /\ Len(texts) = Consecutive
  BY <1>2, <1>3
<1>5. (Len(texts) = Consecutive /\ Consecutive > 1) =>
         \A i \in 1..(Consecutive - 1) :
           Similar(texts[i], texts[i + 1], Pause) <=> Near(texts[i], texts[i + 1])
  <2>1. SUFFICES ASSUME Len(texts) = Consecutive, NEW i \in 1..(Consecutive - 1)
                 PROVE  Similar(texts[i], texts[i + 1], Pause) <=> Near(texts[i], texts[i + 1])
    OBVIOUS
  <2>2. i \in 1..Len(texts) /\ i + 1 \in 1..Len(texts)
    BY <1>2, <2>1
  <2>3. texts[i] \in Text /\ texts[i + 1] \in Text
    BY <1>3, <2>2
  <2>. QED BY <2>3, SimilarIsNear
<1>6. Len(told) >= Consecutive => Len(texts) = Consecutive
  BY <1>2, <1>3
<1> HIDE DEF l
<1>7. Len(texts) = Consecutive /\ Consecutive > 1 =>
        (AllSimilar(texts, Pause) <=>
           \A i \in 1..(Consecutive - 1) : Near(texts[i], texts[i + 1]))
  BY <1>5 DEF AllSimilar
<1>. QED BY <1>2, <1>4, <1>6, <1>7

\* Every operation of the detector keeps the invariant.
THEOREM DetectorInvariant == DetectorSpec => []DetectorInv
<1>1. DetectorInit => Blank
  BY DEF DetectorInit, Blank
<1>2. DetectorInv /\ [DetectorNext]_detectorVars => DetectorInv' \/ Blank'
  <2>1. SUFFICES ASSUME DetectorInv, [DetectorNext]_detectorVars
                 PROVE  DetectorInv' \/ Blank'
    OBVIOUS
  <2>2. CASE UNCHANGED detectorVars
    BY <2>1, <2>2, CallsStay, TextsStay, SearchesStay DEF detectorVars, DetectorInv
  <2>3. CASE Reset
    BY <2>3 DEF Reset, Blank
  <2>. QED BY <2>1, <2>2, <2>3, RecordInv, RecordTextInv, RecordTransitionInv,
              SearchStepInv, CheckedInv DEF DetectorNext
<1>. QED BY <1>1, <1>2, BlankInv, PTL DEF DetectorSpec

-------------------------------------------------------------------------------

\* The cycle that InfiniteLoopDetected names leads back to where it begins, and every
\* hand-off of it is a repeated transition.
THEOREM ReportedCycleIsReal == Spec => []CycleIsReal
<1>1. PathInv => CycleIsReal
  BY DEF PathInv
<1>. QED BY <1>1, InitPath, StepKeepsPath, PTL DEF Spec

\* So does the cycle that any call of a detector names, whatever it has been told before.
THEOREM DetectorNamesRealCycles == DetectorSpec => []CycleIsReal
<1>1. DetectorInv => CycleIsReal
  BY DEF DetectorInv, Searches, PathInv
<1>. QED BY <1>1, DetectorInvariant, PTL

\* record_transition() that returns leaves no cycle among the hand-offs made twice.
THEOREM ReturnLeavesNoCycle == DetectorSpec => []ReturnedIsAcyclic
<1>1. DetectorInv => ReturnedIsAcyclic
  BY EndsIsAcyclic DEF DetectorInv, Searches, PathInv, SearchOK, ReturnedIsAcyclic
<1>. QED BY <1>1, DetectorInvariant, PTL

\* record() stops a call exactly if the step limit or the last calls say so.
THEOREM WindowDecides == DetectorSpec => []WindowIsExact
<1>1. DetectorInv => WindowIsExact
  BY DEF DetectorInv, Calls
<1>. QED BY <1>1, DetectorInvariant, PTL

\* record_text() stops a text exactly if the last texts are near by the edit distance: the
\* rolling rows compute it, whichever of two texts is the shorter.
THEOREM TextsAreComparedExactly == DetectorSpec => []SimilarTextsStop
<1>1. DetectorInv => SimilarTextsStop
  BY TextsDecide DEF DetectorInv
<1>. QED BY <1>1, DetectorInvariant, PTL
===============================================================================
