-------------------------- MODULE StateOfRecordProofs --------------------------
(***************************************************************************)
(* For every workflow body, patch, chain limit and number of snapshots:    *)
(* no stored snapshot is overwritten, and unless a write raises, what is   *)
(* stored loads to the state that was committed last, is what the pipeline *)
(* diffs against, and is at most MAX_DELTA_CHAIN deltas long.  Later       *)
(* executions find in the state what a step that they skip wrote there,    *)
(* and what the reviewer of a gate made of what they assign anew.          *)
(***************************************************************************)
EXTENDS StateOfRecord, FiniteSetTheorems, WellFoundedInduction, TLAPS

(***************************************************************************)
(* Induction over an interval of integers, from the library's least        *)
(* element of a well-founded set.                                          *)
(***************************************************************************)

\* The order of the naturals has no infinite descent.
LEMMA LessIsWellFounded == IsWellFoundedOn({ss \in Nat \X Nat : ss[1] < ss[2]}, Nat)
BY NatLessThanWellFounded, SMT DEF OpToRel

\* A set of naturals that is not empty has a least element.
LEMMA LeastExists ==
  ASSUME NEW S \in SUBSET Nat, S # {}
  PROVE  \E n \in S : \A m \in S : n <= m
<1> DEFINE R == {ss \in Nat \X Nat : ss[1] < ss[2]}
<1>1. IsWellFoundedOn(R, Nat)
  BY LessIsWellFounded
<1> HIDE DEF R
<1>2. PICK x \in S : \A y \in S : ~ (<<y, x>> \in R)
  BY <1>1, WFMin, Zenon
<1>3. \A y \in S : ~ (y < x)
  <2> TAKE y \in S
  <2>1. <<y, x>> \in R <=> y < x
    BY DEF R
  <2>. QED BY <1>2, <2>1
<1>. QED BY <1>3

\* Induction from a to b: what holds of a, and of n + 1 if of n, holds up to b.
LEMMA UpInduction ==
  ASSUME NEW a \in Int, NEW b \in Int, NEW S,
         a \in S, \A n \in a..(b - 1) : n \in S => n + 1 \in S
  PROVE  \A n \in a..b : n \in S
<1> DEFINE Out == {k \in Nat : a + k <= b /\ a + k \notin S}
<1>1. SUFFICES ASSUME Out # {} PROVE FALSE
  <2>1. ASSUME NEW n \in a..b, n \notin S PROVE FALSE
    <3>1. n - a \in Nat /\ a + (n - a) = n
      BY <2>1
    <3>2. n - a \in Out
      BY <2>1, <3>1
    <3>. QED BY <1>1, <3>2
  <2>. QED BY <2>1
<1>2. PICK k \in Out : \A m \in Out : k <= m
  BY <1>1, LeastExists
<1>3. k # 0
  BY <1>2
<1>4. k - 1 \in Nat /\ k - 1 \notin Out
  BY <1>2, <1>3
<1>5. a + (k - 1) \in S /\ a + (k - 1) \in a..(b - 1)
  BY <1>2, <1>4
<1>6. a + (k - 1) + 1 = a + k
  BY <1>2
<1>. QED BY <1>2, <1>5, <1>6

\* The greatest of some indices.
LEMMA MaxIsGreatest ==
  ASSUME NEW S \in SUBSET Index, S # {}
  PROVE  Max(S) \in S /\ \A i \in S : i <= Max(S)
<1>1. MaxSnapshots \in Nat
  BY LimitAssumption
<1> DEFINE Below == {MaxSnapshots - i : i \in S}
<1>2. Below \in SUBSET Nat /\ Below # {}
  <2>1. PICK i \in S : TRUE
    OBVIOUS
  <2>2. MaxSnapshots - i \in Below
    BY <2>1
  <2>3. \A j \in Index : MaxSnapshots - j \in Nat
    BY <1>1 DEF Index
  <2>. QED BY <2>2, <2>3
<1>3. PICK k \in Below : \A m \in Below : k <= m
  BY <1>2, LeastExists
<1>4. PICK i \in S : k = MaxSnapshots - i
  BY <1>3
<1>5. \A j \in S : i >= j
  <2> TAKE j \in S
  <2>1. MaxSnapshots - i <= MaxSnapshots - j
    BY <1>3, <1>4
  <2>. QED BY <1>1, <2>1 DEF Index
<1>6. \E x \in S : \A y \in S : x >= y
  BY <1>5
<1>7. Max(S) \in S /\ \A y \in S : Max(S) >= y
  BY <1>6, Zenon DEF Max
<1>. QED BY <1>7 DEF Index

(***************************************************************************)
(* What load reconstructs from a table T.                                  *)
(***************************************************************************)

Doc == [Field -> Value]

Operation == [op : {"add", "remove", "replace"}, field : Field, value : Value]

Envelope == [kind : {"BASE", "DELTA"}, doc : Doc, delta : SUBSET Operation]

Top == MaxSnapshots - 1

\* The snapshots of T from its last base on.
Resume(T) == {i \in DOMAIN T : \A j \in DOMAIN T : T[j].kind = "BASE" => j <= i}

\* The state after each of the indices.
IsChain(T, g) ==
  g = [i \in -1..Top |->
         IF i = -1 THEN Broken
         ELSE IF i \notin Resume(T) THEN g[i - 1]
         ELSE IF T[i].kind = "BASE" THEN T[i].doc
         ELSE Patched(g[i - 1], T[i].delta)]

Chain(T) == CHOOSE g : IsChain(T, g)

Replay(T) == Chain(T)[Top]

ReplayDeltas(T) == Cardinality({i \in Resume(T) : T[i].kind = "DELTA"})

\* The bound on the indices is a natural number.
LEMMA TopIsInt == Top \in Int /\ -1 \in Int /\ -1 <= Top /\ Index = 0..Top
BY LimitAssumption DEF Top, Index

\* What the chain says of the last index of an interval is all that its recursion needs.
LEMMA ChainExists ==
  ASSUME NEW T
  PROVE  IsChain(T, Chain(T))
<1> DEFINE val(g, i) == IF i = -1 THEN Broken
                        ELSE IF i \notin Resume(T) THEN g[i - 1]
                        ELSE IF T[i].kind = "BASE" THEN T[i].doc
                        ELSE Patched(g[i - 1], T[i].delta)
           upTo(n, g) == g = [i \in -1..n |-> val(g, i)]
           S == {n \in Int : \E g : upTo(n, g)}
<1>1. -1 \in S
  <2> DEFINE g == [i \in -1..-1 |-> Broken]
  <2>1. \A i \in -1..-1 : val(g, i) = Broken
    OBVIOUS
  <2>2. upTo(-1, g)
    BY <2>1
  <2> HIDE DEF upTo, g
  <2>. QED BY <2>2
<1>2. ASSUME NEW n \in -1..(Top - 1), n \in S PROVE n + 1 \in S
  <2>1. PICK g : upTo(n, g)
    BY <1>2
  <2> DEFINE h == [i \in -1..(n + 1) |-> IF i = n + 1 THEN val(g, i) ELSE g[i]]
  <2>2. n \in Int /\ n + 1 \in Int /\ n >= -1
    BY TopIsInt
  <2>3. ASSUME NEW i \in -1..(n + 1) PROVE h[i] = val(h, i)
    <3>1. CASE i = -1
      <4>1. h[i] = g[i] /\ g[i] = val(g, i)
        BY <2>1, <2>2, <3>1
      <4>. QED BY <3>1, <4>1
    <3>2. CASE i # -1
      <4>1. i - 1 \in -1..n
        BY <2>2, <2>3, <3>2
      <4>2. h[i - 1] = g[i - 1]
        BY <2>2, <4>1
      <4>3. val(h, i) = val(g, i)
        BY <3>2, <4>2
      <4>4. h[i] = val(g, i)
        BY <2>1, <2>2, <2>3
      <4>. QED BY <4>3, <4>4
    <3>. QED BY <3>1, <3>2
  <2>4. h = [i \in -1..(n + 1) |-> val(h, i)]
    <3> HIDE DEF val
    <3>. QED BY <2>3
  <2>5. upTo(n + 1, h)
    BY <2>4
  <2> HIDE DEF upTo, h
  <2>. QED BY <2>2, <2>5
<1>3. Top \in S
  <2> HIDE DEF S
  <2>1. Top \in -1..Top
    BY TopIsInt
  <2>2. \A n \in -1..Top : n \in S
    BY <1>1, <1>2, TopIsInt, UpInduction
  <2>. QED BY <2>1, <2>2
<1>4. \E g : IsChain(T, g)
  BY <1>3 DEF IsChain
<1>. QED BY <1>4 DEF Chain

\* The recursion, one index at a time.
LEMMA ChainStep ==
  ASSUME NEW T, NEW i \in -1..Top
  PROVE  Chain(T)[i] = IF i = -1 THEN Broken
                       ELSE IF i \notin Resume(T) THEN Chain(T)[i - 1]
                       ELSE IF T[i].kind = "BASE" THEN T[i].doc
                       ELSE Patched(Chain(T)[i - 1], T[i].delta)
<1> DEFINE g == Chain(T)
<1>1. IsChain(T, g)
  BY ChainExists
<1> HIDE DEF g
<1>2. g[i] = IF i = -1 THEN Broken
             ELSE IF i \notin Resume(T) THEN g[i - 1]
             ELSE IF T[i].kind = "BASE" THEN T[i].doc
             ELSE Patched(g[i - 1], T[i].delta)
  BY <1>1 DEF IsChain
<1>. QED BY <1>2 DEF g

\* Indices that the replay does not use leave the state alone.
LEMMA ChainHolds ==
  ASSUME NEW T, NEW k \in -1..Top, \A i \in (k + 1)..Top : i \notin Resume(T)
  PROVE  Replay(T) = Chain(T)[k]
<1> DEFINE S == {n \in Int : Chain(T)[n] = Chain(T)[k]}
<1>0. k \in Int
  BY TopIsInt
<1>1. k \in S
  BY <1>0
<1>2. ASSUME NEW n \in k..(Top - 1), n \in S PROVE n + 1 \in S
  <2>1. n + 1 \in -1..Top /\ n + 1 # -1 /\ n + 1 \in (k + 1)..Top /\ n + 1 - 1 = n
    BY TopIsInt
  <2>2. Chain(T)[n + 1] = Chain(T)[n]
    BY <2>1, ChainStep
  <2>. QED BY <1>2, <2>1, <2>2
<1>3. Top \in S
  <2> HIDE DEF S
  <2>1. Top \in k..Top
    BY TopIsInt
  <2>2. \A n \in k..Top : n \in S
    BY <1>0, <1>1, <1>2, TopIsInt, UpInduction
  <2>. QED BY <2>1, <2>2
<1>. QED BY <1>3 DEF Replay

\* Tables that agree up to k give the same state there.
LEMMA ChainSame ==
  ASSUME NEW T, NEW U, NEW k \in -1..Top,
         \A i \in 0..k : /\ i \in Resume(T) <=> i \in Resume(U)
                         /\ i \in Resume(T) => T[i] = U[i]
  PROVE  Chain(T)[k] = Chain(U)[k]
<1> DEFINE S == {n \in Int : Chain(T)[n] = Chain(U)[n]}
<1>0. k \in Int /\ -1 \in -1..Top
  BY TopIsInt
<1>1. -1 \in S
  BY <1>0, ChainStep
<1>2. ASSUME NEW n \in -1..(k - 1), n \in S PROVE n + 1 \in S
  <2>1. n + 1 \in -1..Top /\ n + 1 # -1 /\ n + 1 \in 0..k /\ n + 1 - 1 = n
    BY TopIsInt
  <2>2. Chain(T)[n] = Chain(U)[n]
    BY <1>2
  <2>3. Chain(T)[n + 1] = IF n + 1 \notin Resume(T) THEN Chain(T)[n]
                          ELSE IF T[n + 1].kind = "BASE" THEN T[n + 1].doc
                          ELSE Patched(Chain(T)[n], T[n + 1].delta)
    BY <2>1, ChainStep
  <2>4. Chain(U)[n + 1] = IF n + 1 \notin Resume(U) THEN Chain(U)[n]
                          ELSE IF U[n + 1].kind = "BASE" THEN U[n + 1].doc
                          ELSE Patched(Chain(U)[n], U[n + 1].delta)
    BY <2>1, ChainStep
  <2>. QED BY <2>1, <2>2, <2>3, <2>4
<1>3. k \in S
  <2> HIDE DEF S
  <2>1. k \in -1..k
    BY <1>0
  <2>2. \A n \in -1..k : n \in S
    BY <1>0, <1>1, <1>2, UpInduction
  <2>. QED BY <2>1, <2>2
<1>. QED BY <1>3

\* The table with e put at i.
With(T, i, e) == [j \in DOMAIN T \cup {i} |-> IF j = i THEN e ELSE T[j]]

\* A base above all other snapshots is all that is replayed.
LEMMA ReplayBase ==
  ASSUME NEW T, DOMAIN T \subseteq Index, NEW i \in Index, \A j \in DOMAIN T : j < i,
         NEW e, e.kind = "BASE"
  PROVE  /\ Replay(With(T, i, e)) = e.doc
         /\ ReplayDeltas(With(T, i, e)) = 0
<1> DEFINE U == With(T, i, e)
<1>1. DOMAIN U = DOMAIN T \cup {i} /\ U[i] = e /\ DOMAIN U \subseteq Int
  BY TopIsInt DEF With
<1>2. \A j \in DOMAIN U : j <= i /\ (j # i => j < i)
  BY <1>1, TopIsInt
<1> HIDE DEF U
<1>3. Resume(U) = {i}
  <2>1. i \in Resume(U)
    BY <1>1, <1>2 DEF Resume
  <2>2. ASSUME NEW j \in Resume(U) PROVE j = i
    <3>1. j \in DOMAIN U /\ i <= j
      BY <1>1 DEF Resume
    <3>. QED BY <1>1, <1>2, <3>1
  <2>. QED BY <2>1, <2>2
<1>4. Chain(U)[i] = e.doc
  <2>1. i \in -1..Top /\ i # -1 /\ i \in Resume(U)
    BY <1>3, TopIsInt
  <2>. QED BY <1>1, <2>1, ChainStep
<1>5. Replay(U) = Chain(U)[i]
  <2>1. i \in -1..Top /\ \A j \in (i + 1)..Top : j \notin Resume(U)
    BY <1>3, TopIsInt
  <2>. QED BY <2>1, ChainHolds
<1>6. ReplayDeltas(U) = 0
  <2>1. {j \in Resume(U) : U[j].kind = "DELTA"} = {}
    BY <1>1, <1>3
  <2>. QED BY <2>1, FS_EmptySet DEF ReplayDeltas
<1>. QED BY <1>4, <1>5, <1>6 DEF U

\* A delta above all other snapshots is applied to what they replay to.
LEMMA ReplayDelta ==
  ASSUME NEW T, DOMAIN T \subseteq Index, NEW i \in Index, \A j \in DOMAIN T : j < i,
         NEW e, e.kind = "DELTA"
  PROVE  /\ Replay(With(T, i, e)) = Patched(Replay(T), e.delta)
         /\ ReplayDeltas(With(T, i, e)) = ReplayDeltas(T) + 1
<1> DEFINE U == With(T, i, e)
<1>1. /\ DOMAIN U = DOMAIN T \cup {i} /\ U[i] = e
      /\ \A j \in DOMAIN T : U[j] = T[j]
      /\ i \notin DOMAIN T
  BY TopIsInt DEF With
<1> HIDE DEF U
<1>2. Resume(U) = Resume(T) \cup {i}
  <2>1. \A j \in DOMAIN T : j \in Resume(U) <=> j \in Resume(T)
    BY <1>1 DEF Resume
  <2>2. i \in Resume(U)
    BY <1>1, TopIsInt DEF Resume
  <2>3. Resume(U) \subseteq DOMAIN T \cup {i} /\ Resume(T) \subseteq DOMAIN T
    BY <1>1 DEF Resume
  <2>. QED BY <2>1, <2>2, <2>3
<1>3. Resume(T) \subseteq DOMAIN T
  BY DEF Resume
<1>4. i \in -1..Top /\ i - 1 \in -1..Top /\ i # -1 /\ i \in Int
  BY TopIsInt
<1>5. Chain(U)[i] = Patched(Chain(U)[i - 1], e.delta)
  BY <1>1, <1>2, <1>4, ChainStep
<1>6. Chain(T)[i - 1] = Chain(U)[i - 1]
  <2>1. \A j \in 0..(i - 1) : j # i
    BY <1>4
  <2>2. \A j \in 0..(i - 1) : j \in Resume(T) <=> j \in Resume(U)
    BY <1>2, <2>1
  <2>3. \A j \in 0..(i - 1) : j \in Resume(T) => T[j] = U[j]
    BY <1>1, <1>3
  <2>. QED BY <1>4, <2>2, <2>3, ChainSame
<1>7. Replay(T) = Chain(T)[i - 1]
  <2>1. \A j \in (i - 1 + 1)..Top : j \notin Resume(T)
    BY <1>3, <1>4, TopIsInt
  <2>. QED BY <1>4, <2>1, ChainHolds
<1>8. Replay(U) = Chain(U)[i]
  <2>1. \A j \in (i + 1)..Top : j \notin Resume(U)
    BY <1>2, <1>3, <1>4, TopIsInt
  <2>. QED BY <1>4, <2>1, ChainHolds
<1>9. ReplayDeltas(U) = ReplayDeltas(T) + 1
  <2> DEFINE D == {j \in Resume(T) : T[j].kind = "DELTA"}
  <2>1. {j \in Resume(U) : U[j].kind = "DELTA"} = D \cup {i}
    BY <1>1, <1>2, <1>3
  <2>2. D \subseteq Index /\ i \notin D
    BY <1>1, <1>3
  <2>3. IsFiniteSet(D)
    <3>1. IsFiniteSet(Index)
      BY FS_Interval, TopIsInt
    <3>. QED BY <2>2, <3>1, FS_Subset
  <2> HIDE DEF D
  <2>4. Cardinality(D \cup {i}) = Cardinality(D) + 1
    BY <2>2, <2>3, FS_AddElement
  <2>. QED BY <2>1, <2>4 DEF ReplayDeltas, D
<1>. QED BY <1>5, <1>6, <1>7, <1>8, <1>9 DEF U

\* No state that a run can have is the one that stands for a load that raises.
LEMMA DocIsNotBroken == \A d \in Doc : d # Broken
<1> TAKE d \in Doc
<1>1. PICK f \in Field : TRUE
  BY FieldAssumption
<1>2. d[f] \in Value /\ Broken[f] = -1 /\ -1 \notin Value
  BY FieldAssumption DEF Doc, Broken, Value
<1>. QED BY <1>2

\* What make_patch gives for two states are operations on fields.
LEMMA DiffIsOperations ==
  ASSUME NEW d \in Doc, NEW e \in Doc
  PROVE  Diff(d, e) \in SUBSET Operation
<1>1. \A f \in Field : e[f] \in Value
  BY DEF Doc
<1>2. SUFFICES ASSUME NEW p \in Diff(d, e) PROVE p \in Operation
  OBVIOUS
<1> DEFINE op(f) == IF d[f] = Absent THEN "add" ELSE IF e[f] = Absent THEN "remove"
                                                                      ELSE "replace"
<1>3. \A f \in Field : op(f) \in {"add", "remove", "replace"}
  OBVIOUS
<1>4. Diff(d, e) = {[op |-> op(f), field |-> f, value |-> e[f]] :
                      f \in {g \in Field : d[g] # e[g]}}
  BY DEF Diff
<1>5. PICK f \in Field : p = [op |-> op(f), field |-> f, value |-> e[f]]
  BY <1>2, <1>4, Zenon
<1> HIDE DEF op
<1>. QED BY <1>1, <1>3, <1>5 DEF Operation

\* Applying the difference of two states to the first gives the second.
LEMMA PatchedDiff ==
  ASSUME NEW d \in Doc, NEW e \in Doc
  PROVE  Patched(d, Diff(d, e)) = e
<1> DEFINE diff == Diff(d, e)
           chosen(f) == CHOOSE p \in diff : p.field = f
<1>1. \A p \in diff : /\ p.field \in Field /\ d[p.field] # e[p.field]
                      /\ p.value = e[p.field]
                      /\ p.op = IF d[p.field] = Absent THEN "add"
                                ELSE IF e[p.field] = Absent THEN "remove" ELSE "replace"
  BY DEF Diff
<1>2. ASSUME NEW f \in Field, d[f] # e[f] PROVE \E p \in diff : p.field = f
  <2> DEFINE p == [op |-> IF d[f] = Absent THEN "add" ELSE IF e[f] = Absent THEN "remove"
                                                                           ELSE "replace",
                   field |-> f, value |-> e[f]]
  <2>1. p \in diff
    BY <1>2, Zenon DEF Diff
  <2>2. p.field = f
    OBVIOUS
  <2>. QED BY <2>1, <2>2
<1>3. \A p \in diff : Applies(p, d)
  BY <1>1 DEF Applies
<1>4. d # Broken
  BY DocIsNotBroken
<1>5. Patched(d, diff) = [f \in Field |-> IF \E p \in diff : p.field = f
                                            THEN chosen(f).value ELSE d[f]]
  BY <1>3, <1>4 DEF Patched
<1>6. ASSUME NEW f \in Field
      PROVE  (IF \E p \in diff : p.field = f THEN chosen(f).value ELSE d[f]) = e[f]
  <2>1. CASE \E p \in diff : p.field = f
    <3>1. chosen(f) \in diff /\ chosen(f).field = f
      BY <2>1
    <3> HIDE DEF diff, chosen
    <3>. QED BY <1>1, <2>1, <3>1
  <2>2. CASE ~ \E p \in diff : p.field = f
    BY <1>2, <2>2
  <2>. QED BY <2>1, <2>2
<1>7. e = [f \in Field |-> e[f]]
  BY DEF Doc
<1> HIDE DEF chosen, diff
<1>8. Patched(d, diff) = [f \in Field |-> e[f]]
  BY <1>5, <1>6
<1>. QED BY <1>7, <1>8 DEF diff

(***************************************************************************)
(* The types of what is loaded and patched.                                *)
(***************************************************************************)

\* A delta leads from a state to a state, or fails.
LEMMA PatchedType ==
  ASSUME NEW d \in Doc \cup {Broken}, NEW delta \in SUBSET Operation
  PROVE  Patched(d, delta) \in Doc \cup {Broken}
<1> DEFINE chosen(f) == CHOOSE p \in delta : p.field = f
           new(f) == IF \E p \in delta : p.field = f THEN chosen(f).value ELSE d[f]
<1>1. CASE d # Broken /\ \A p \in delta : Applies(p, d)
  <2>1. ASSUME NEW f \in Field PROVE new(f) \in Value
    <3>1. CASE \E p \in delta : p.field = f
      <4>1. chosen(f) \in delta
        BY <3>1
      <4> HIDE DEF chosen
      <4>2. chosen(f).value \in Value
        BY <4>1 DEF Operation
      <4>. QED BY <3>1, <4>2
    <3>2. CASE ~ \E p \in delta : p.field = f
      BY <1>1, <3>2 DEF Doc
    <3>. QED BY <3>1, <3>2
  <2>2. Patched(d, delta) = [f \in Field |-> new(f)]
    BY <1>1 DEF Patched
  <2> HIDE DEF new
  <2>. QED BY <2>1, <2>2 DEF Doc
<1>2. CASE ~(d # Broken /\ \A p \in delta : Applies(p, d))
  BY <1>2 DEF Patched
<1>. QED BY <1>1, <1>2

\* A table of envelopes loads to a state, or fails.
LEMMA ReplayType ==
  ASSUME NEW T, DOMAIN T \subseteq Index, \A i \in DOMAIN T : T[i] \in Envelope
  PROVE  Replay(T) \in Doc \cup {Broken} /\ ReplayDeltas(T) \in Nat
<1> DEFINE S == {n \in Int : Chain(T)[n] \in Doc \cup {Broken}}
<1>1. -1 \in S
  <2>1. -1 \in -1..Top
    BY TopIsInt
  <2>. QED BY <2>1, ChainStep
<1>2. ASSUME NEW n \in -1..(Top - 1), n \in S PROVE n + 1 \in S
  <2>1. n + 1 \in -1..Top /\ n + 1 # -1 /\ n + 1 - 1 = n
    BY TopIsInt
  <2>2. Chain(T)[n + 1] = IF n + 1 \notin Resume(T) THEN Chain(T)[n]
                          ELSE IF T[n + 1].kind = "BASE" THEN T[n + 1].doc
                          ELSE Patched(Chain(T)[n], T[n + 1].delta)
    BY <2>1, ChainStep
  <2>3. n + 1 \in Resume(T) => T[n + 1].doc \in Doc /\ T[n + 1].delta \in SUBSET Operation
    BY DEF Resume, Envelope
  <2>4. Chain(T)[n] \in Doc \cup {Broken}
    BY <1>2
  <2>. QED BY <2>1, <2>2, <2>3, <2>4, PatchedType
<1>3. Top \in S
  <2> HIDE DEF S
  <2>1. Top \in -1..Top
    BY TopIsInt
  <2>2. \A n \in -1..Top : n \in S
    BY <1>1, <1>2, TopIsInt, UpInduction
  <2>. QED BY <2>1, <2>2
<1>4. ReplayDeltas(T) \in Nat
  <2>1. IsFiniteSet(Index)
    BY FS_Interval, TopIsInt
  <2>2. {i \in Resume(T) : T[i].kind = "DELTA"} \subseteq Index
    BY DEF Resume
  <2>. QED BY <2>1, <2>2, FS_Subset, FS_CardinalityType DEF ReplayDeltas
<1>. QED BY <1>3, <1>4 DEF Replay

\* "From the last base on", said without the greatest of the bases.
LEMMA ResumeIs ==
  ASSUME NEW T, DOMAIN T \subseteq Index, NEW B, B = {i \in DOMAIN T : T[i].kind = "BASE"}
  PROVE  {i \in DOMAIN T : B # {} => i >= Max(B)} = Resume(T)
<1>1. CASE B = {}
  BY <1>1 DEF Resume
<1>2. CASE B # {}
  <2>1. B \in SUBSET Index /\ B \subseteq DOMAIN T
    OBVIOUS
  <2>2. Max(B) \in B /\ \A i \in B : i <= Max(B)
    BY <1>2, <2>1, MaxIsGreatest
  <2>3. ASSUME NEW i \in DOMAIN T PROVE i >= Max(B) <=> \A j \in B : j <= i
    <3>1. i \in Int /\ Max(B) \in Int /\ B \subseteq Int
      BY <2>1, <2>2, TopIsInt
    <3>. QED BY <2>2, <3>1
  <2>4. \A i \in DOMAIN T : i \in Resume(T) <=> \A j \in B : j <= i
    BY DEF Resume
  <2>5. Resume(T) \subseteq DOMAIN T
    BY DEF Resume
  <2>. QED BY <1>2, <2>3, <2>4, <2>5
<1>. QED BY <1>1, <1>2

\* load() replays the snapshots table.
LEMMA LoadedIs ==
  ASSUME DOMAIN snaps \subseteq Index
  PROVE  Loaded = Replay(snaps) /\ Deltas = ReplayDeltas(snaps)
<1>1. ForResume = Resume(snaps)
  BY ResumeIs DEF ForResume, BaseIndices
<1>2. Loaded = Replay(snaps)
  BY <1>1 DEF Loaded, Replay, Chain, IsChain, Top
<1>. QED BY <1>1, <1>2 DEF Deltas, ReplayDeltas

\* And so it does after a step.
LEMMA LoadedIsNext ==
  ASSUME DOMAIN snaps' \subseteq Index
  PROVE  Loaded' = Replay(snaps') /\ Deltas' = ReplayDeltas(snaps')
<1>1. ForResume' = Resume(snaps')
  BY ResumeIs DEF ForResume, BaseIndices
<1>2. Loaded' = Replay(snaps')
  BY <1>1 DEF Loaded, Replay, Chain, IsChain, Top
<1>. QED BY <1>1, <1>2 DEF Deltas, ReplayDeltas

(***************************************************************************)
(* A gate's recorded patches.                                              *)
(***************************************************************************)

Patching == Patches \cup {NoPatch}

Decision == [pos : Nat, patch : Patching, before : Doc, after : Doc]

\* Patches are operations on fields.
LEMMA PatchingIs ==
  ASSUME NEW p \in Patching
  PROVE  \/ p = NoPatch /\ p.op = "none"
         \/ p.op \in {"remove", "append"} /\ p.field \in Field
         \/ p.op \in {"add", "replace"} /\ p.field \in Field /\ p.value \in Nat
BY PatchAssumption DEF Patching, NoPatch

\* A patch that applies to a state leads to a state.
LEMMA AppliedType ==
  ASSUME NEW p \in Patching, NEW d \in Doc, Applies(p, d)
  PROVE  Applied(p, d) \in Doc
<1>1. CASE p.op = "none"
  BY <1>1 DEF Applied
<1>2. CASE p.op = "remove" /\ p.field \in Field
  <2>1. Applied(p, d) = [d EXCEPT ![p.field] = Absent]
    BY <1>2 DEF Applied
  <2>. QED BY <1>2, <2>1 DEF Doc, Value
<1>3. CASE p.op = "append" /\ p.field \in Field
  <2>1. Applied(p, d) = [d EXCEPT ![p.field] = d[p.field] + 1]
    BY <1>3 DEF Applied
  <2>2. d[p.field] \in Nat
    BY <1>3 DEF Applies, Doc, Value
  <2>. QED BY <1>3, <2>1, <2>2 DEF Doc, Value
<1>4. CASE p.op \in {"add", "replace"} /\ p.field \in Field /\ p.value \in Nat
  <2>1. Applied(p, d) = [d EXCEPT ![p.field] = p.value]
    BY <1>4 DEF Applied
  <2>. QED BY <1>4, <2>1 DEF Doc, Value
<1>. QED BY <1>1, <1>2, <1>3, <1>4, PatchingIs

\* The state after each of the decisions of A, for the gate at pos and the state d.
IsAgain(A, pos, d, g) ==
  g = [i \in 0..Len(A) |->
         IF i = 0 THEN d
         ELSE IF A[i].pos # pos THEN g[i - 1]
         ELSE IF g[i - 1] # Broken /\ Applies(A[i].patch, g[i - 1])
           THEN Applied(A[i].patch, g[i - 1])
           ELSE Broken]

Again(A, pos, d) == CHOOSE g : IsAgain(A, pos, d, g)

\* The recursion has a solution.
LEMMA AgainExists ==
  ASSUME NEW A, Len(A) \in Nat, NEW pos, NEW d
  PROVE  IsAgain(A, pos, d, Again(A, pos, d))
<1> DEFINE val(g, i) == IF i = 0 THEN d
                        ELSE IF A[i].pos # pos THEN g[i - 1]
                        ELSE IF g[i - 1] # Broken /\ Applies(A[i].patch, g[i - 1])
                          THEN Applied(A[i].patch, g[i - 1])
                          ELSE Broken
           upTo(n, g) == g = [i \in 0..n |-> val(g, i)]
           S == {n \in Nat : \E g : upTo(n, g)}
<1>1. 0 \in S
  <2> DEFINE g == [i \in 0..0 |-> d]
  <2>1. \A i \in 0..0 : val(g, i) = d
    OBVIOUS
  <2>2. upTo(0, g)
    BY <2>1
  <2> HIDE DEF upTo, g
  <2>. QED BY <2>2
<1>2. ASSUME NEW n \in 0..(Len(A) - 1), n \in S PROVE n + 1 \in S
  <2>1. PICK g : upTo(n, g)
    BY <1>2
  <2> DEFINE h == [i \in 0..(n + 1) |-> IF i = n + 1 THEN val(g, i) ELSE g[i]]
  <2>2. n \in Nat /\ n + 1 \in Nat
    OBVIOUS
  <2>3. ASSUME NEW i \in 0..(n + 1) PROVE h[i] = val(h, i)
    <3>1. CASE i = 0
      <4>1. h[i] = g[i] /\ g[i] = val(g, i)
        BY <2>1, <2>2, <3>1
      <4>. QED BY <3>1, <4>1
    <3>2. CASE i # 0
      <4>1. i - 1 \in 0..n
        BY <2>2, <2>3, <3>2
      <4>2. h[i - 1] = g[i - 1]
        BY <2>2, <4>1
      <4>3. val(h, i) = val(g, i)
        BY <3>2, <4>2
      <4>4. h[i] = val(g, i)
        BY <2>1, <2>2, <2>3
      <4>. QED BY <4>3, <4>4
    <3>. QED BY <3>1, <3>2
  <2>4. h = [i \in 0..(n + 1) |-> val(h, i)]
    <3> HIDE DEF val
    <3>. QED BY <2>3
  <2>5. upTo(n + 1, h)
    BY <2>4
  <2> HIDE DEF upTo, h
  <2>. QED BY <2>2, <2>5
<1>3. Len(A) \in S
  <2> HIDE DEF S
  <2>0. 0 \in Int /\ Len(A) \in Int
    OBVIOUS
  <2>1. \A n \in 0..Len(A) : n \in S
    BY <1>1, <1>2, <2>0, UpInduction
  <2>. QED BY <2>1
<1>4. \E g : IsAgain(A, pos, d, g)
  BY <1>3 DEF IsAgain
<1>. QED BY <1>4 DEF Again

\* The recursion, one decision at a time.
LEMMA AgainStep ==
  ASSUME NEW A, Len(A) \in Nat, NEW pos, NEW d, NEW i \in 0..Len(A)
  PROVE  Again(A, pos, d)[i] =
           IF i = 0 THEN d
           ELSE IF A[i].pos # pos THEN Again(A, pos, d)[i - 1]
           ELSE IF Again(A, pos, d)[i - 1] # Broken /\ Applies(A[i].patch, Again(A, pos, d)[i - 1])
             THEN Applied(A[i].patch, Again(A, pos, d)[i - 1])
             ELSE Broken
<1> DEFINE g == Again(A, pos, d)
<1>1. IsAgain(A, pos, d, g)
  BY AgainExists
<1> HIDE DEF g
<1>2. g[i] = IF i = 0 THEN d
             ELSE IF A[i].pos # pos THEN g[i - 1]
             ELSE IF g[i - 1] # Broken /\ Applies(A[i].patch, g[i - 1])
               THEN Applied(A[i].patch, g[i - 1])
               ELSE Broken
  BY <1>1 DEF IsAgain
<1>. QED BY <1>2 DEF g

\* A gate's patches lead from a state to a state, or fail.
LEMMA AgainType ==
  ASSUME NEW A \in Seq(Decision), NEW pos, NEW d \in Doc
  PROVE  \A i \in 0..Len(A) : Again(A, pos, d)[i] \in Doc \cup {Broken}
<1> DEFINE g == Again(A, pos, d)
           S == {n \in Nat : g[n] \in Doc \cup {Broken}}
<1>0. Len(A) \in Nat
  OBVIOUS
<1>1. 0 \in S
  BY <1>0, AgainStep
<1>2. ASSUME NEW n \in 0..(Len(A) - 1), n \in S PROVE n + 1 \in S
  <2>1. n + 1 \in 1..Len(A) /\ n + 1 \in Nat /\ n + 1 # 0 /\ n + 1 - 1 = n
    OBVIOUS
  <2>2. g[n + 1] = IF A[n + 1].pos # pos THEN g[n]
                   ELSE IF g[n] # Broken /\ Applies(A[n + 1].patch, g[n])
                     THEN Applied(A[n + 1].patch, g[n])
                     ELSE Broken
    <3>1. n + 1 \in 0..Len(A)
      BY <2>1
    <3>. QED BY <1>0, <2>1, <3>1, AgainStep
  <2>3. A[n + 1].patch \in Patching
    <3>1. A[n + 1] \in Decision
      BY <2>1
    <3>. QED BY <3>1 DEF Decision
  <2>4. g[n] \in Doc \cup {Broken}
    BY <1>2
  <2> HIDE DEF g
  <2>5. g[n + 1] \in Doc \cup {Broken}
    BY <2>2, <2>3, <2>4, AppliedType
  <2>. QED BY <2>1, <2>5
<1>3. \A n \in 0..Len(A) : n \in S
  <2> HIDE DEF S
  <2>1. 0 \in Int /\ Len(A) \in Int
    BY <1>0
  <2>. QED BY <1>1, <1>2, <2>1, UpInduction
<1>. QED BY <1>3

\* What resumed_patches does to the live state.
LEMMA AppliedAgainIs ==
  ASSUME NEW pos, NEW d
  PROVE  AppliedAgain(pos, d) = Again(audit, pos, d)[Len(audit)]
BY DEF AppliedAgain, Again, IsAgain

(***************************************************************************)
(* The inductive invariant.                                                *)
(***************************************************************************)

Mem == [doc : Doc, deltas : Nat]

Label == {"off", "open", "body", "snapshot", "suspend", "fail", "COMPLETED", "FAILED",
          "decided", "saved"}

TypeOK ==
  /\ body \in Bodies
  /\ run.pos \in Nat
  /\ DOMAIN snaps \subseteq Index /\ \A i \in DOMAIN snaps : snaps[i] \in Envelope
  /\ audit \in Seq(Decision)
  /\ mem \in Mem \cup {NoMem}
  /\ pending.pos \in Nat /\ pending.doc \in Doc
  /\ pc \in Label
  /\ at \in Nat \ {0}
  /\ state \in Doc
  /\ nextIndex \in Nat
  /\ {crashes, raises} \subseteq Nat
  /\ committed \in Doc

\* The next snapshot of an execution goes above everything that is stored.
IndexFree == pc \in {"body", "snapshot", "fail"} => \A i \in DOMAIN snaps : i < nextIndex

\* A decision that is being carried out has been audited.
Audited == pc \in {"decided", "saved"} => audit # <<>>

\* Unless a write has raised: the store loads to what was committed last, the pipeline's
\* memory is what a load would give it, and the chain is within its limit.
Store ==
  raises = 0 =>
    /\ DOMAIN snaps # {} => Loaded = committed
    /\ mem # NoMem => DOMAIN snaps # {} /\ mem = [doc |-> Loaded, deltas |-> Deltas]
    /\ Deltas <= MaxDeltas

Inv == TypeOK /\ IndexFree /\ Audited /\ Store

\* A run without a state is not one with some state.
LEMMA EmptyIsDoc == Empty \in Doc
BY DEF Empty, Doc, Value

\* Memory is never taken for none.
LEMMA MemIsNotNoMem == \A m \in Mem : m # NoMem
BY DocIsNotBroken DEF Mem, NoMem

\* What is loaded is a state, unless the load raises, as it does if nothing is stored.
LEMMA LoadedType ==
  ASSUME TypeOK
  PROVE  /\ Loaded \in Doc \cup {Broken}
         /\ Deltas \in Nat
         /\ DOMAIN snaps = {} => Loaded = Broken /\ Deltas = 0
<1>1. Loaded = Replay(snaps) /\ Deltas = ReplayDeltas(snaps)
  BY LoadedIs DEF TypeOK
<1>2. Replay(snaps) \in Doc \cup {Broken} /\ ReplayDeltas(snaps) \in Nat
  BY ReplayType DEF TypeOK
<1>3. ASSUME DOMAIN snaps = {} PROVE Replay(snaps) = Broken /\ ReplayDeltas(snaps) = 0
  <2>1. Resume(snaps) = {}
    BY <1>3 DEF Resume
  <2>2. -1 \in -1..Top
    BY TopIsInt
  <2>3. Replay(snaps) = Broken
    BY <2>1, <2>2, ChainHolds, ChainStep
  <2>4. ReplayDeltas(snaps) = 0
    <3>1. {i \in Resume(snaps) : snaps[i].kind = "DELTA"} = {}
      BY <2>1
    <3>. QED BY <3>1, FS_EmptySet DEF ReplayDeltas
  <2>. QED BY <2>3, <2>4
<1>. QED BY <1>1, <1>2, <1>3

\* The index of a new execution, or of a decision, is above everything that is stored.
LEMMA NewIndexIsFree ==
  ASSUME TypeOK
  PROVE  NewIndex \in Nat /\ \A i \in DOMAIN snaps : i < NewIndex
<1>1. DOMAIN snaps \in SUBSET Index
  BY DEF TypeOK
<1>2. CASE DOMAIN snaps = {}
  BY <1>2 DEF NewIndex
<1>3. CASE DOMAIN snaps # {}
  <2>1. /\ Max(DOMAIN snaps) \in DOMAIN snaps
        /\ \A i \in DOMAIN snaps : i <= Max(DOMAIN snaps)
    BY <1>1, <1>3, MaxIsGreatest
  <2>2. Max(DOMAIN snaps) \in Nat /\ DOMAIN snaps \subseteq Nat
    BY <1>1, <2>1, TopIsInt
  <2>3. NewIndex = Max(DOMAIN snaps) + 1
    BY <1>3 DEF NewIndex
  <2>. QED BY <2>1, <2>2, <2>3
<1>. QED BY <1>2, <1>3

\* A snapshot above everything that is stored: nothing is overwritten, and if the memory was
\* what a load would give, so it is after it, and the load gives the state of the snapshot.
LEMMA SnapshotKeeps ==
  ASSUME TypeOK, NEW m \in Mem \cup {NoMem}, NEW d \in Doc, NEW i,
         \A j \in DOMAIN snaps : j < i, Snapshot(m, d, i)
  PROVE  /\ i \in Index
         /\ DOMAIN snaps' = DOMAIN snaps \cup {i}
         /\ \A j \in DOMAIN snaps : snaps'[j] = snaps[j]
         /\ \A j \in DOMAIN snaps' : snaps'[j] \in Envelope
         /\ mem' \in Mem
         /\ committed' = d
         /\ (m # NoMem => m = [doc |-> Loaded, deltas |-> Deltas]) =>
              /\ Loaded' = d
              /\ mem' = [doc |-> Loaded', deltas |-> Deltas']
              /\ Deltas' <= MaxDeltas
<1>1. PICK e \in Envelopes(m, d) : mem' = Advance(m, e, d) /\ Put(i, e)
  BY DEF Snapshot
<1>2. i \in Index /\ committed' = d
  BY DEF Snapshot
<1>3. snaps' = With(snaps, i, e)
  BY <1>1 DEF Put, With
<1>4. DOMAIN snaps \subseteq Index /\ \A j \in DOMAIN snaps : snaps[j] \in Envelope
  BY DEF TypeOK
<1>5. i \notin DOMAIN snaps
  BY <1>2, TopIsInt
<1>6. DOMAIN snaps' = DOMAIN snaps \cup {i} /\ \A j \in DOMAIN snaps : snaps'[j] = snaps[j]
  BY <1>3, <1>5 DEF With
<1>7. snaps'[i] = e
  BY <1>3 DEF With
<1>8. DOMAIN snaps' \subseteq Index
  BY <1>2, <1>4, <1>6
<1>9. Loaded = Replay(snaps) /\ Deltas = ReplayDeltas(snaps)
  BY <1>4, LoadedIs
<1>10. Loaded' = Replay(snaps') /\ Deltas' = ReplayDeltas(snaps')
  BY <1>8, LoadedIsNext
<1>11. CASE e.kind = "BASE"
  <2>1. e = Base(d)
    BY <1>1, <1>11 DEF Envelopes, Delta
  <2>2. e.doc = d /\ e \in Envelope
    BY <2>1 DEF Base, Envelope
  <2>3. Replay(snaps') = d /\ ReplayDeltas(snaps') = 0
    BY <1>2, <1>3, <1>4, <1>11, <2>2, ReplayBase
  <2>4. mem' = [doc |-> d, deltas |-> 0]
    BY <1>1, <1>11 DEF Advance
  <2>5. mem' \in Mem
    BY <2>4 DEF Mem
  <2>6. 0 <= MaxDeltas
    BY ChainAssumption
  <2>. QED BY <1>2, <1>4, <1>6, <1>7, <1>10, <2>2, <2>3, <2>4, <2>5, <2>6
<1>12. CASE e.kind # "BASE"
  <2>1. e = Delta(m, d) /\ m # NoMem /\ m.deltas < MaxDeltas
    BY <1>1, <1>12 DEF Envelopes, Base
  <2>2. m \in Mem /\ m.doc \in Doc /\ m.deltas \in Nat
    BY <2>1 DEF Mem
  <2>3. e.kind = "DELTA" /\ e.delta = Diff(m.doc, d)
    BY <2>1 DEF Delta
  <2>4. e \in Envelope
    BY <2>1, <2>2, DiffIsOperations, EmptyIsDoc DEF Delta, Envelope
  <2>5. /\ Replay(snaps') = Patched(Replay(snaps), Diff(m.doc, d))
        /\ ReplayDeltas(snaps') = ReplayDeltas(snaps) + 1
    BY <1>2, <1>3, <1>4, <2>3, ReplayDelta
  <2>6. mem' = [doc |-> d, deltas |-> m.deltas + 1]
    BY <1>1, <1>12 DEF Advance
  <2>7. mem' \in Mem
    BY <2>2, <2>6 DEF Mem
  <2>8. ASSUME m = [doc |-> Loaded, deltas |-> Deltas]
        PROVE  /\ Loaded' = d
               /\ mem' = [doc |-> Loaded', deltas |-> Deltas']
               /\ Deltas' <= MaxDeltas
    <3>1. m.doc = Replay(snaps) /\ m.deltas = ReplayDeltas(snaps)
      BY <1>9, <2>8
    <3>2. Replay(snaps') = d
      BY <2>2, <2>5, <3>1, PatchedDiff
    <3>3. ReplayDeltas(snaps') = m.deltas + 1
      BY <2>5, <3>1
    <3>4. m.deltas + 1 <= MaxDeltas
      BY <2>1, <2>2, ChainAssumption
    <3>. QED BY <1>10, <2>6, <3>2, <3>3, <3>4
  <2>. QED BY <1>2, <1>4, <1>6, <1>7, <2>1, <2>4, <2>7, <2>8
<1>. QED BY <1>11, <1>12

\* A snapshot whose write raises leaves the store as it is, and something in the memory.
LEMMA SnapshotRaisesKeeps ==
  ASSUME TypeOK, NEW m \in Mem \cup {NoMem}, NEW d \in Doc, NEW i, SnapshotRaises(m, d, i)
  PROVE  /\ UNCHANGED <<snaps, crashes, committed>>
         /\ raises' \in Nat \ {0}
         /\ mem' \in Mem
<1>1. PICK e \in Envelopes(m, d) : mem' = Advance(m, e, d)
  BY DEF SnapshotRaises
<1>2. UNCHANGED <<snaps, crashes, committed>> /\ raises' = raises + 1
  BY DEF SnapshotRaises
<1>3. raises' \in Nat \ {0}
  BY <1>2 DEF TypeOK
<1>4. CASE e.kind = "BASE"
  <2>1. mem' = [doc |-> d, deltas |-> 0]
    BY <1>1, <1>4 DEF Advance
  <2>. QED BY <1>2, <1>3, <2>1 DEF Mem
<1>5. CASE e.kind # "BASE"
  <2>1. m \in Mem
    BY <1>1, <1>5 DEF Envelopes, Base
  <2>2. mem' = [doc |-> d, deltas |-> m.deltas + 1]
    BY <1>1, <1>5 DEF Advance
  <2>3. m.deltas + 1 \in Nat
    BY <2>1 DEF Mem
  <2>. QED BY <1>2, <1>3, <2>2, <2>3 DEF Mem
<1>. QED BY <1>4, <1>5

\* A step that leaves the table alone leaves what it loads to.
LEMMA LoadedSame ==
  ASSUME UNCHANGED snaps
  PROVE  Loaded' = Loaded /\ Deltas' = Deltas
BY DEF Loaded, Deltas, ForResume, BaseIndices

\* A step that takes no snapshot keeps the store and the memory together, if it leaves the
\* memory, drops it or loads it.
LEMMA StoreStays ==
  ASSUME Inv, UNCHANGED <<snaps, committed, raises>>,
         mem' \in {mem, NoMem}
           \/ (mem' = [doc |-> Loaded, deltas |-> Deltas] /\ DOMAIN snaps # {})
  PROVE  Store'
<1>1. Loaded' = Loaded /\ Deltas' = Deltas
  BY LoadedSame
<1>2. NoMem' = NoMem
  BY DEF NoMem
<1>. QED BY <1>1, <1>2 DEF Inv, Store

\* So does a snapshot above everything that is stored.
LEMMA StoreAfterSnapshot ==
  ASSUME Inv, NEW m \in {mem, NoMem}, NEW d \in Doc, NEW i,
         \A j \in DOMAIN snaps : j < i, Snapshot(m, d, i), UNCHANGED raises
  PROVE  Store'
<1>1. m \in Mem \cup {NoMem}
  BY DEF Inv, TypeOK
<1>2. raises = 0 => (m # NoMem => m = [doc |-> Loaded, deltas |-> Deltas])
  BY DEF Inv, Store
<1>3. /\ i \in DOMAIN snaps'
      /\ committed' = d
      /\ (m # NoMem => m = [doc |-> Loaded, deltas |-> Deltas]) =>
           Loaded' = d /\ mem' = [doc |-> Loaded', deltas |-> Deltas'] /\ Deltas' <= MaxDeltas
  BY <1>1, SnapshotKeeps DEF Inv
<1>. QED BY <1>2, <1>3 DEF Store

\* And once a write has raised there is nothing to keep.
LEMMA StoreAfterRaise ==
  ASSUME TypeOK, NEW m \in Mem \cup {NoMem}, NEW d \in Doc, NEW i, SnapshotRaises(m, d, i)
  PROVE  Store'
BY SnapshotRaisesKeeps DEF Store

\* The initial state.
LEMMA InitInv == Init => Inv
<1>1. SUFFICES ASSUME Init PROVE Inv
  OBVIOUS
<1>2. snaps = <<>> /\ DOMAIN snaps = {}
  BY <1>1 DEF Init
<1>3. TypeOK
  BY <1>1, <1>2, EmptyIsDoc DEF Init, TypeOK, NoSeed, Label
<1>4. IndexFree /\ Audited
  BY <1>1 DEF Init, IndexFree, Audited
<1>5. Store
  BY <1>1, <1>2, <1>3, LoadedType, ChainAssumption DEF Init, Store
<1>. QED BY <1>3, <1>4, <1>5 DEF Inv

(***************************************************************************)
(* Opening a run.                                                          *)
(***************************************************************************)

\* An execution that begins has read nothing yet.
LEMMA StartInv == ASSUME Inv, Start PROVE Inv'
<1>1. TypeOK' /\ IndexFree' /\ Audited'
  BY DEF Start, Inv, TypeOK, IndexFree, Audited, Goto, storage, context, faults, Label
<1>2. Store'
  BY StoreStays DEF Start, storage, faults
<1>. QED BY <1>1, <1>2 DEF Inv

\* What the ways to open a run have in common.
LEMMA OpenedTypes ==
  ASSUME Inv, NEW d \in Doc, Opened(d), mem' \in Mem \cup {NoMem}
  PROVE  TypeOK' /\ IndexFree' /\ Audited' /\ UNCHANGED <<snaps, committed, raises>>
<1>1. /\ UNCHANGED <<body, done, snaps, audit, at, starts, faults, committed>>
      /\ state' = d /\ nextIndex' = NewIndex /\ pending' = NoSeed /\ pc' = "body"
      /\ run'.pos = run.pos
  <2>1. run' = [run EXCEPT !.status = "RUNNING"]
    BY DEF Opened
  <2>2. run'.pos = run.pos
    BY <2>1
  <2>. QED BY <2>2 DEF Opened, FirstIndex, Goto
<1>2. NewIndex \in Nat /\ \A i \in DOMAIN snaps : i < NewIndex
  BY NewIndexIsFree DEF Inv
<1>3. NoSeed.pos \in Nat /\ NoSeed.doc \in Doc
  BY EmptyIsDoc DEF NoSeed
<1>4. TypeOK'
  BY <1>1, <1>2, <1>3 DEF Inv, TypeOK, faults, Label
<1>. QED BY <1>1, <1>2, <1>4 DEF IndexFree, Audited, faults

\* What an execution opens with is what storage loads to.
LEMMA OpenInv ==
  ASSUME Inv, OpenPending \/ OpenFresh \/ OpenLoaded
  PROVE  Inv'
<1>1. CASE OpenPending
  <2>1. Opened(pending.doc) /\ mem' = mem /\ pending.doc \in Doc /\ mem' \in Mem \cup {NoMem}
    BY <1>1 DEF OpenPending, Inv, TypeOK
  <2>2. TypeOK' /\ IndexFree' /\ Audited' /\ UNCHANGED <<snaps, committed, raises>>
    BY <2>1, OpenedTypes
  <2>. QED BY <2>1, <2>2, StoreStays DEF Inv
<1>2. CASE OpenFresh
  <2>1. Opened(Empty) /\ mem' = mem /\ Empty \in Doc /\ mem' \in Mem \cup {NoMem}
    BY <1>2, EmptyIsDoc DEF OpenFresh, Inv, TypeOK
  <2>2. TypeOK' /\ IndexFree' /\ Audited' /\ UNCHANGED <<snaps, committed, raises>>
    BY <2>1, OpenedTypes
  <2>. QED BY <2>1, <2>2, StoreStays DEF Inv
<1>3. CASE OpenLoaded
  <2>1. Opened(Loaded) /\ mem' = [doc |-> Loaded, deltas |-> Deltas] /\ DOMAIN snaps # {}
    BY <1>3 DEF OpenLoaded
  <2>2. Loaded \in Doc /\ mem' \in Mem
    BY <1>3, <2>1, LoadedType DEF OpenLoaded, Inv, Mem
  <2>3. TypeOK' /\ IndexFree' /\ Audited' /\ UNCHANGED <<snaps, committed, raises>>
    BY <2>1, <2>2, OpenedTypes
  <2>. QED BY <2>1, <2>3, StoreStays DEF Inv
<1>. QED BY <1>1, <1>2, <1>3

\* What leaving a call leaves.
LEMMA LeaveIs ==
  ASSUME Leave
  PROVE  pc' = "off" /\ at' = 1 /\ state' \in Doc /\ nextIndex' \in Nat
BY EmptyIsDoc DEF Leave, Goto

\* An execution whose state does not load leaves storage as it was.
LEMMA OpenFailsInv == ASSUME Inv, OpenFails PROVE Inv'
<1>1. /\ UNCHANGED <<body, done, snaps, audit, pending, starts, faults, committed>>
      /\ mem' = NoMem /\ run'.pos = run.pos /\ Leave
  <2>1. run' = [run EXCEPT !.status = "FAILED"]
    BY DEF OpenFails
  <2>2. run'.pos = run.pos
    BY <2>1
  <2>. QED BY <2>2 DEF OpenFails
<1>2. TypeOK' /\ IndexFree' /\ Audited'
  BY <1>1, LeaveIs DEF Inv, TypeOK, IndexFree, Audited, faults, Label
<1>3. Store'
  BY <1>1, StoreStays DEF faults
<1>. QED BY <1>2, <1>3 DEF Inv

(***************************************************************************)
(* The workflow body.                                                      *)
(***************************************************************************)

\* A step or an assignment writes a value into a field.
LEMMA WriteType ==
  ASSUME TypeOK, at <= Len(body), body[at].kind \in {"step", "assign"}
  PROVE  [state EXCEPT ![body[at].field] = body[at].value] \in Doc
<1> DEFINE Writing == [kind : {"step", "assign"}, field : Field, value : Nat]
           Waiting == [kind : {"gate"}]
<1>1. body \in Seq(Writing \cup Waiting)
  BY BodyAssumption DEF TypeOK
<1>2. at \in 1..Len(body)
  BY <1>1 DEF TypeOK
<1>3. body[at] \in Writing \cup Waiting
  <2> HIDE DEF Writing, Waiting
  <2>. QED BY <1>1, <1>2
<1>4. body[at].field \in Field /\ body[at].value \in Nat
  BY <1>3
<1>. QED BY <1>4 DEF TypeOK, Doc, Value

\* The instructions that take no snapshot.
LEMMA BodyInv ==
  ASSUME Inv, Assign \/ SkipStep \/ RunStep \/ PassGate \/ GateConflict \/ BodyFails
  PROVE  Inv'
<1>1. BodyUnchanged
  BY DEF Assign, SkipStep, RunStep, PassGate, GateConflict, BodyFails
<1>2. pc = "body" /\ pc' \in {"body", "snapshot", "fail"}
  BY DEF Assign, SkipStep, RunStep, PassGate, GateConflict, BodyFails, AtKind, Goto
<1>3. at' \in Nat \ {0}
  <2>1. at' = at \/ at' = at + 1
    BY DEF Assign, SkipStep, RunStep, PassGate, GateConflict, BodyFails
  <2>. QED BY <2>1 DEF Inv, TypeOK
<1>4. state' \in Doc
  <2>1. CASE Assign \/ RunStep
    BY <2>1, WriteType DEF Assign, RunStep, AtKind, Inv
  <2>2. CASE SkipStep \/ GateConflict \/ BodyFails
    BY <2>2 DEF SkipStep, GateConflict, BodyFails, Inv, TypeOK
  <2>3. CASE PassGate
    <3>1. state' = Again(audit, at, state)[Len(audit)] /\ state' # Broken
      BY <2>3, AppliedAgainIs DEF PassGate
    <3>2. Len(audit) \in 0..Len(audit) /\ audit \in Seq(Decision) /\ state \in Doc
      BY DEF Inv, TypeOK
    <3>3. Again(audit, at, state)[Len(audit)] \in Doc \cup {Broken}
      BY <3>2, AgainType
    <3>. QED BY <3>1, <3>3
  <2>. QED BY <2>1, <2>2, <2>3
<1>5. TypeOK'
  BY <1>1, <1>2, <1>3, <1>4 DEF Inv, TypeOK, BodyUnchanged, faults, Label
<1>6. IndexFree' /\ Audited'
  BY <1>1, <1>2 DEF Inv, IndexFree, Audited, BodyUnchanged
<1>7. Store'
  BY <1>1, StoreStays DEF BodyUnchanged, faults
<1>. QED BY <1>5, <1>6, <1>7 DEF Inv

\* The snapshots that an execution takes, at its own next index.
LEMMA ExecutionSnapshots ==
  ASSUME Inv, StepSnapshot \/ Suspend \/ CloseSnapshot
  PROVE  /\ Inv'
         /\ \A j \in DOMAIN snaps : j \in DOMAIN snaps' /\ snaps'[j] = snaps[j]
<1>1. /\ Snapshot(mem, state, nextIndex)
      /\ pc \in {"body", "snapshot", "fail"}
      /\ UNCHANGED <<body, run, audit, pending, state, crashes, raises>>
  BY DEF StepSnapshot, Suspend, CloseSnapshot, Closing, AtKind, context, faults
<1>2. /\ nextIndex' \in {nextIndex, nextIndex + 1}
      /\ pc' \in {"body", "snapshot", "fail"} => nextIndex' = nextIndex + 1
      /\ pc' \in {"body", "suspend", "FAILED", "COMPLETED"}
      /\ at' \in {at, at + 1}
  BY DEF StepSnapshot, Suspend, CloseSnapshot, Goto, Outcome, context
<1>3. /\ \A j \in DOMAIN snaps : j < nextIndex
      /\ mem \in Mem \cup {NoMem} /\ state \in Doc /\ TypeOK
  BY <1>1 DEF Inv, IndexFree, TypeOK
<1>4. /\ nextIndex \in Index
      /\ DOMAIN snaps' = DOMAIN snaps \cup {nextIndex}
      /\ \A j \in DOMAIN snaps : snaps'[j] = snaps[j]
      /\ \A j \in DOMAIN snaps' : snaps'[j] \in Envelope
      /\ mem' \in Mem /\ committed' \in Doc
  BY <1>1, <1>3, SnapshotKeeps
<1>5. TypeOK'
  <2>1. nextIndex' \in Nat /\ at' \in Nat \ {0} /\ pc' \in Label
    BY <1>2, <1>3 DEF TypeOK, Label
  <2>2. DOMAIN snaps' \subseteq Index
    BY <1>3, <1>4 DEF TypeOK
  <2>. QED BY <1>1, <1>3, <1>4, <2>1, <2>2 DEF TypeOK
<1>6. IndexFree'
  <2>1. \A j \in DOMAIN snaps' : j <= nextIndex
    BY <1>3, <1>4, TopIsInt DEF TypeOK
  <2>2. DOMAIN snaps' \subseteq Int /\ nextIndex \in Nat
    BY <1>3, <1>4, TopIsInt DEF TypeOK
  <2>. QED BY <1>2, <2>1, <2>2 DEF IndexFree
<1>7. Audited'
  BY <1>2 DEF Audited
<1>8. Store'
  BY <1>1, <1>3, StoreAfterSnapshot
<1>. QED BY <1>4, <1>5, <1>6, <1>7, <1>8 DEF Inv

\* Those whose write raises.
LEMMA ExecutionRaises ==
  ASSUME Inv, StepSnapshotRaises \/ SuspendRaises \/ CloseSnapshotRaises
  PROVE  Inv' /\ UNCHANGED snaps
<1>1. /\ SnapshotRaises(mem, state, nextIndex)
      /\ pc \in {"body", "snapshot", "fail"}
      /\ UNCHANGED <<body, run, audit, pending, state>>
  BY DEF StepSnapshotRaises, SuspendRaises, CloseSnapshotRaises, Closing, AtKind, context
<1>2. /\ nextIndex' \in {nextIndex, nextIndex + 1}
      /\ pc' \in {"body", "fail", "FAILED"}
      /\ at' \in {at, at + 1}
  BY DEF StepSnapshotRaises, SuspendRaises, CloseSnapshotRaises, Goto, context
<1>3. /\ \A j \in DOMAIN snaps : j < nextIndex
      /\ mem \in Mem \cup {NoMem} /\ state \in Doc /\ TypeOK
  BY <1>1 DEF Inv, IndexFree, TypeOK
<1>4. UNCHANGED <<snaps, crashes, committed>> /\ raises' \in Nat \ {0} /\ mem' \in Mem
  BY <1>1, <1>3, SnapshotRaisesKeeps
<1>5. TypeOK'
  <2>1. nextIndex' \in Nat /\ at' \in Nat \ {0} /\ pc' \in Label
    BY <1>2, <1>3 DEF TypeOK, Label
  <2>. QED BY <1>1, <1>3, <1>4, <2>1 DEF TypeOK
<1>6. IndexFree'
  <2>1. DOMAIN snaps \subseteq Int /\ nextIndex \in Nat
    BY <1>3, TopIsInt DEF TypeOK
  <2>. QED BY <1>2, <1>3, <1>4, <2>1 DEF IndexFree
<1>7. Audited'
  BY <1>2 DEF Audited
<1>8. Store'
  BY <1>1, <1>3, StoreAfterRaise
<1>. QED BY <1>4, <1>5, <1>6, <1>7, <1>8 DEF Inv

\* The records that end a call.
LEMMA PutInv == ASSUME Inv, SuspendPut \/ ClosePut PROVE Inv'
<1>1. UNCHANGED <<body, done, snaps, audit, pending, starts, faults, committed>> /\ Leave
  BY DEF SuspendPut, ClosePut
<1>2. mem' \in {mem, NoMem}
  BY DEF SuspendPut, ClosePut
<1>3. run'.pos \in Nat
  <2>1. CASE SuspendPut
    <3>1. run'.pos = at
      BY <2>1 DEF SuspendPut
    <3>. QED BY <3>1 DEF Inv, TypeOK
  <2>2. CASE ClosePut
    <3>1. run' = [run EXCEPT !.status = pc]
      BY <2>2 DEF ClosePut
    <3>2. run'.pos = run.pos
      BY <3>1
    <3>. QED BY <3>2 DEF Inv, TypeOK
  <2>. QED BY <2>1, <2>2
<1>4. TypeOK' /\ IndexFree' /\ Audited'
  BY <1>1, <1>2, <1>3, LeaveIs DEF Inv, TypeOK, IndexFree, Audited, faults, Label
<1>5. Store'
  BY <1>1, <1>2, StoreStays DEF faults
<1>. QED BY <1>4, <1>5 DEF Inv

(***************************************************************************)
(* Decisions and deaths.                                                   *)
(***************************************************************************)

\* The decision just taken is the last one of the audit log.
LEMMA LastDecision ==
  ASSUME TypeOK, audit # <<>>
  PROVE  Last(audit).pos \in Nat /\ Last(audit).before \in Doc /\ Last(audit).after \in Doc
<1>1. audit \in Seq(Decision) /\ Len(audit) \in 1..Len(audit)
  BY DEF TypeOK
<1>2. Last(audit) \in Decision
  BY <1>1 DEF Last
<1>. QED BY <1>2 DEF Decision

\* An edit is made of what storage loads to.
LEMMA DecideInv ==
  ASSUME Inv, NEW p \in Patching, Decide(p)
  PROVE  Inv'
<1> DEFINE d == [pos |-> run.pos, patch |-> p, before |-> Loaded,
                 after |-> Applied(p, Loaded)]
<1>1. /\ UNCHANGED <<body, run, snaps, pending, at, nextIndex, starts, faults, committed>>
      /\ mem' = [doc |-> Loaded, deltas |-> Deltas]
      /\ state' = Applied(p, Loaded) /\ audit' = Append(audit, d) /\ pc' = "decided"
      /\ Loaded # Broken /\ Applies(p, Loaded)
  BY DEF Decide, DecideUnchanged, Goto
<1>2. Loaded \in Doc /\ Deltas \in Nat /\ DOMAIN snaps # {}
  BY <1>1, LoadedType DEF Inv
<1>3. Applied(p, Loaded) \in Doc
  BY <1>1, <1>2, AppliedType
<1>4. d \in Decision
  BY <1>2, <1>3 DEF Decision, Inv, TypeOK
<1> HIDE DEF d
<1>5. audit' \in Seq(Decision) /\ audit' # <<>>
  BY <1>1, <1>4 DEF Inv, TypeOK
<1>6. mem' \in Mem
  BY <1>1, <1>2 DEF Mem
<1>7. TypeOK' /\ IndexFree' /\ Audited'
  BY <1>1, <1>3, <1>5, <1>6 DEF Inv, TypeOK, IndexFree, Audited, faults, Label
<1>8. Store'
  BY <1>1, <1>2, StoreStays DEF faults
<1>. QED BY <1>7, <1>8 DEF Inv

\* A decision whose snapshot raises.
LEMMA DecideRaisesInv ==
  ASSUME Inv, NEW p \in Patching, DecideRaises(p)
  PROVE  Inv'
<1>1. /\ UNCHANGED <<body, run, snaps, audit, pending, pc, state, committed, at, nextIndex,
                     starts, faults>>
      /\ mem' = [doc |-> Loaded, deltas |-> Deltas] /\ Loaded # Broken
  BY DEF DecideRaises, DecideUnchanged
<1>2. Loaded \in Doc /\ Deltas \in Nat /\ DOMAIN snaps # {}
  BY <1>1, LoadedType DEF Inv
<1>3. mem' \in Mem
  BY <1>1, <1>2 DEF Mem
<1>4. TypeOK' /\ IndexFree' /\ Audited'
  BY <1>1, <1>3 DEF Inv, TypeOK, IndexFree, Audited, faults
<1>5. Store'
  BY <1>1, <1>2, StoreStays DEF faults
<1>. QED BY <1>4, <1>5 DEF Inv

\* The record of a decision says nothing of the state.
LEMMA DecideSaveInv == ASSUME Inv, DecideSave PROVE Inv'
<1>1. /\ UNCHANGED <<body, snaps, audit, mem, pending, state, committed, at, nextIndex,
                     starts, faults>>
      /\ pc = "decided" /\ pc' = "saved"
  BY DEF DecideSave, DecideUnchanged, Goto
<1>2. run'.pos = 0
  <2>1. run' = [run EXCEPT !.status = "RUNNING", !.pos = 0]
    BY DEF DecideSave
  <2>. QED BY <2>1
<1>3. TypeOK' /\ IndexFree' /\ Audited'
  BY <1>1, <1>2 DEF Inv, TypeOK, IndexFree, Audited, faults, Label
<1>4. Store'
  BY <1>1, StoreStays DEF faults
<1>. QED BY <1>3, <1>4 DEF Inv

\* What the execution that follows a decision starts from is a state.
LEMMA SeedType ==
  ASSUME TypeOK, audit # <<>>
  PROVE  Seed.pos \in Nat /\ Seed.doc \in Doc
BY LastDecision DEF Seed

\* A decision that has changed nothing.
LEMMA PersistNothingInv == ASSUME Inv, PersistNothing PROVE Inv'
<1>1. /\ UNCHANGED <<body, run, snaps, audit, mem, committed, at, nextIndex, starts, faults>>
      /\ pending' = Seed /\ state' = Empty /\ pc' = "open" /\ pc = "saved"
  BY DEF PersistNothing, DecideUnchanged, Resumes, Goto
<1>2. Seed.pos \in Nat /\ Seed.doc \in Doc
  BY <1>1, SeedType DEF Inv, Audited
<1>3. TypeOK' /\ IndexFree' /\ Audited'
  BY <1>1, <1>2, EmptyIsDoc DEF Inv, TypeOK, IndexFree, Audited, faults, Label
<1>4. Store'
  BY <1>1, StoreStays DEF faults
<1>. QED BY <1>3, <1>4 DEF Inv

\* The snapshot of a decision goes above everything that is stored, too.
LEMMA PersistInv ==
  ASSUME Inv, Persist
  PROVE  /\ Inv'
         /\ \A j \in DOMAIN snaps : j \in DOMAIN snaps' /\ snaps'[j] = snaps[j]
<1>1. /\ UNCHANGED <<body, run, audit, at, nextIndex, starts, crashes, raises>>
      /\ Snapshot(NoMem, state, NewIndex)
      /\ pending' = Seed /\ state' = Empty /\ pc' = "open" /\ pc = "saved"
  BY DEF Persist, DecideUnchanged, Resumes, Goto, faults
<1>2. Seed.pos \in Nat /\ Seed.doc \in Doc
  BY <1>1, SeedType DEF Inv, Audited
<1>3. TypeOK /\ state \in Doc /\ \A j \in DOMAIN snaps : j < NewIndex
  BY NewIndexIsFree DEF Inv, TypeOK
<1>4. /\ NewIndex \in Index
      /\ DOMAIN snaps' = DOMAIN snaps \cup {NewIndex}
      /\ \A j \in DOMAIN snaps : snaps'[j] = snaps[j]
      /\ \A j \in DOMAIN snaps' : snaps'[j] \in Envelope
      /\ mem' \in Mem /\ committed' \in Doc
  BY <1>1, <1>3, SnapshotKeeps
<1>5. DOMAIN snaps' \subseteq Index
  BY <1>3, <1>4 DEF TypeOK
<1>6. TypeOK'
  BY <1>1, <1>2, <1>3, <1>4, <1>5, EmptyIsDoc DEF TypeOK, Label
<1>7. IndexFree' /\ Audited'
  BY <1>1 DEF IndexFree, Audited
<1>8. Store'
  BY <1>1, <1>3, StoreAfterSnapshot
<1>. QED BY <1>4, <1>6, <1>7, <1>8 DEF Inv

\* A write that raises is counted, and the rest is promised until then.
LEMMA PersistRaisesInv ==
  ASSUME Inv, PersistRaises
  PROVE  Inv' /\ UNCHANGED snaps
<1>1. /\ UNCHANGED <<body, run, audit, pending, starts>>
      /\ SnapshotRaises(NoMem, state, NewIndex) /\ Leave
  BY DEF PersistRaises
<1>2. TypeOK /\ state \in Doc
  BY DEF Inv, TypeOK
<1>3. UNCHANGED <<snaps, crashes, committed>> /\ raises' \in Nat \ {0} /\ mem' \in Mem
  BY <1>1, <1>2, SnapshotRaisesKeeps
<1>4. TypeOK' /\ IndexFree' /\ Audited'
  BY <1>1, <1>2, <1>3, LeaveIs DEF TypeOK, IndexFree, Audited, Label
<1>5. Store'
  BY <1>1, <1>2, StoreAfterRaise
<1>. QED BY <1>3, <1>4, <1>5 DEF Inv

\* What dies with the process is not promised; what is stored stays.
LEMMA DieInv == ASSUME Inv, Crash \/ Restart PROVE Inv' /\ UNCHANGED snaps
<1>1. /\ UNCHANGED <<body, run, done, snaps, audit, starts, committed, raises>>
      /\ mem' = NoMem /\ pending' = NoSeed /\ Leave
  BY DEF Crash, Restart, Die, storage, faults
<1>2. crashes' \in Nat
  BY DEF Crash, Restart, Inv, TypeOK, faults
<1>3. TypeOK' /\ IndexFree' /\ Audited'
  BY <1>1, <1>2, LeaveIs, EmptyIsDoc DEF Inv, TypeOK, IndexFree, Audited, NoSeed, Label
<1>4. Store'
  BY <1>1, StoreStays
<1>. QED BY <1>1, <1>3, <1>4 DEF Inv

\* A stuttering step.
LEMMA StutterInv == ASSUME Inv, UNCHANGED vars PROVE Inv'
<1>1. UNCHANGED <<body, run, done, snaps, audit, mem, pending, pc, at, state, nextIndex,
                  crashes, raises, committed>>
  BY DEF vars, storage, context, faults
<1>2. TypeOK' /\ IndexFree' /\ Audited'
  BY <1>1 DEF Inv, TypeOK, IndexFree, Audited
<1>3. Store'
  BY <1>1, StoreStays
<1>. QED BY <1>2, <1>3 DEF Inv

-------------------------------------------------------------------------------

\* Every step keeps the invariant and every snapshot that there is.
LEMMA NextInv ==
  ASSUME Inv, [Next]_vars
  PROVE  /\ Inv'
         /\ \A i \in DOMAIN snaps : i \in DOMAIN snaps' /\ snaps'[i] = snaps[i]
<1>1. CASE Start
  BY <1>1, StartInv DEF Start, storage
<1>2. CASE OpenPending \/ OpenFresh \/ OpenLoaded
  BY <1>2, OpenInv DEF OpenPending, OpenFresh, OpenLoaded, Opened
<1>3. CASE OpenFails
  BY <1>3, OpenFailsInv DEF OpenFails
<1>4. CASE Assign \/ SkipStep \/ RunStep \/ PassGate \/ GateConflict \/ BodyFails
  BY <1>4, BodyInv
     DEF Assign, SkipStep, RunStep, PassGate, GateConflict, BodyFails, BodyUnchanged
<1>5. CASE StepSnapshot \/ Suspend \/ CloseSnapshot
  BY <1>5, ExecutionSnapshots
<1>6. CASE StepSnapshotRaises \/ SuspendRaises \/ CloseSnapshotRaises
  BY <1>6, ExecutionRaises
<1>7. CASE SuspendPut \/ ClosePut
  BY <1>7, PutInv DEF SuspendPut, ClosePut
<1>8. CASE \E p \in Patches \cup {NoPatch} : Decide(p) \/ DecideRaises(p)
  BY <1>8, DecideInv, DecideRaisesInv DEF Decide, DecideRaises, Patching
<1>9. CASE DecideSave
  BY <1>9, DecideSaveInv DEF DecideSave
<1>10. CASE PersistNothing
  BY <1>10, PersistNothingInv DEF PersistNothing
<1>11. CASE Persist
  BY <1>11, PersistInv
<1>12. CASE PersistRaises
  BY <1>12, PersistRaisesInv
<1>13. CASE Crash \/ Restart
  BY <1>13, DieInv
<1>14. CASE UNCHANGED vars
  BY <1>14, StutterInv DEF vars, storage
<1>. QED BY <1>1, <1>2, <1>3, <1>4, <1>5, <1>6, <1>7, <1>8, <1>9, <1>10, <1>11, <1>12,
            <1>13, <1>14 DEF Next

\* The invariant, for every workflow, patch and bound.
THEOREM StoreInvariant == Spec => []Inv
BY InitInv, NextInv, PTL DEF Spec

\* A snapshot that has been written stays as it is, whatever crashes or raises: neither a
\* resumed execution nor a decision writes over it.
THEOREM SnapshotsAreKept == Spec => NothingOverwritten
<1>1. Inv /\ [Next]_vars =>
        [\A i \in DOMAIN snaps : i \in DOMAIN snaps' /\ snaps'[i] = snaps[i]]_vars
  BY NextInv
<1>. QED BY <1>1, StoreInvariant, PTL DEF Spec, NothingOverwritten

\* Unless a write raises, what is stored loads to the state committed last.
THEOREM StoreLoadsCommitted == Spec => []LoadIsCommitted
<1>1. Inv => LoadIsCommitted
  BY DEF Inv, Store, LoadIsCommitted
<1>. QED BY <1>1, StoreInvariant, PTL

\* Unless a write raises, the pipeline diffs against what a fresh process would load.
THEOREM MemoryIsWhatLoads == Spec => []MemoryMatchesStore
<1>1. Inv => MemoryMatchesStore
  BY DEF Inv, Store, MemoryMatchesStore
<1>. QED BY <1>1, StoreInvariant, PTL

\* Unless a write raises, a load replays at most MAX_DELTA_CHAIN deltas.
THEOREM ReplayStaysBounded == Spec => []ReplayIsBounded
<1>1. Inv => ReplayIsBounded
  BY DEF Inv, Store, ReplayIsBounded
<1>. QED BY <1>1, StoreInvariant, PTL

(***************************************************************************)
(* What later executions find in the state of what earlier ones wrote, and *)
(* of what a reviewer made of it.                                          *)
(***************************************************************************)

\* The same, from each decision to the next.
LEMMA AgainNext ==
  ASSUME NEW A, Len(A) \in Nat, NEW pos, NEW d, NEW n \in 0..(Len(A) - 1)
  PROVE  Again(A, pos, d)[n + 1] =
           IF A[n + 1].pos # pos THEN Again(A, pos, d)[n]
           ELSE IF Again(A, pos, d)[n] # Broken /\ Applies(A[n + 1].patch, Again(A, pos, d)[n])
             THEN Applied(A[n + 1].patch, Again(A, pos, d)[n])
             ELSE Broken
<1>1. PICK i \in 0..Len(A) : i = n + 1 /\ i # 0 /\ i - 1 = n
  OBVIOUS
<1>2. Again(A, pos, d)[i] =
        IF A[i].pos # pos THEN Again(A, pos, d)[i - 1]
        ELSE IF Again(A, pos, d)[i - 1] # Broken /\ Applies(A[i].patch, Again(A, pos, d)[i - 1])
          THEN Applied(A[i].patch, Again(A, pos, d)[i - 1])
          ELSE Broken
  BY <1>1, AgainStep
<1>. QED BY <1>1, <1>2

\* One decision that belongs to another gate makes no difference to this one.
LEMMA AgainAppend ==
  ASSUME NEW A, A \in Seq(Decision), NEW r \in Decision, NEW pos, r.pos # pos, NEW d
  PROVE  Again(Append(A, r), pos, d)[Len(Append(A, r))] = Again(A, pos, d)[Len(A)]
<1> DEFINE B == Append(A, r)
           S == {n \in Nat : Again(B, pos, d)[n] = Again(A, pos, d)[n]}
<1>1. /\ Len(A) \in Nat /\ Len(B) = Len(A) + 1 /\ Len(B) \in Nat /\ B[Len(A) + 1] = r
      /\ \A i \in 1..Len(A) : B[i] = A[i]
  OBVIOUS
<1> HIDE DEF B
<1>2. 0 \in S
  <2>1. 0 \in 0..Len(A) /\ 0 \in 0..Len(B)
    BY <1>1
  <2>. QED BY <1>1, <2>1, AgainStep
<1>3. ASSUME NEW n \in 0..(Len(A) - 1), n \in S PROVE n + 1 \in S
  <2>1. n \in 0..(Len(B) - 1) /\ n + 1 \in 1..Len(A) /\ n + 1 \in Nat
    BY <1>1
  <2>2. B[n + 1] = A[n + 1] /\ Again(B, pos, d)[n] = Again(A, pos, d)[n]
    BY <1>1, <1>3, <2>1
  <2>3. Again(A, pos, d)[n + 1] =
          IF A[n + 1].pos # pos THEN Again(A, pos, d)[n]
          ELSE IF Again(A, pos, d)[n] # Broken /\ Applies(A[n + 1].patch, Again(A, pos, d)[n])
            THEN Applied(A[n + 1].patch, Again(A, pos, d)[n])
            ELSE Broken
    BY <1>1, <2>1, AgainNext
  <2>4. Again(B, pos, d)[n + 1] =
          IF B[n + 1].pos # pos THEN Again(B, pos, d)[n]
          ELSE IF Again(B, pos, d)[n] # Broken /\ Applies(B[n + 1].patch, Again(B, pos, d)[n])
            THEN Applied(B[n + 1].patch, Again(B, pos, d)[n])
            ELSE Broken
    BY <1>1, <2>1, AgainNext
  <2>. QED BY <2>1, <2>2, <2>3, <2>4
<1>4. Len(A) \in S
  <2> HIDE DEF S
  <2>1. 0 \in Int /\ Len(A) \in Int /\ Len(A) \in 0..Len(A)
    BY <1>1
  <2>2. \A n \in 0..Len(A) : n \in S
    BY <1>2, <1>3, <2>1, UpInduction
  <2>. QED BY <2>1, <2>2
<1>5. Again(B, pos, d)[Len(A) + 1] = Again(B, pos, d)[Len(A)]
  <2>1. PICK n \in 0..(Len(B) - 1) : n = Len(A)
    BY <1>1
  <2>2. Again(B, pos, d)[n + 1] =
          IF B[n + 1].pos # pos THEN Again(B, pos, d)[n]
          ELSE IF Again(B, pos, d)[n] # Broken /\ Applies(B[n + 1].patch, Again(B, pos, d)[n])
            THEN Applied(B[n + 1].patch, Again(B, pos, d)[n])
            ELSE Broken
    BY <1>1, AgainNext
  <2>3. B[n + 1].pos # pos
    BY <1>1, <2>1
  <2>. QED BY <2>1, <2>2, <2>3
<1>. QED BY <1>1, <1>4, <1>5 DEF B

\* What a patch makes of a field depends on that field only.
LEMMA AppliedField ==
  ASSUME NEW p \in Patching, NEW d \in Doc, NEW e \in Doc, NEW f \in Field, d[f] = e[f]
  PROVE  Applied(p, d)[f] = Applied(p, e)[f]
<1>1. CASE p.op = "none"
  BY <1>1 DEF Applied
<1>2. CASE p.op = "remove" /\ p.field \in Field
  <2>1. /\ Applied(p, d) = [d EXCEPT ![p.field] = Absent]
        /\ Applied(p, e) = [e EXCEPT ![p.field] = Absent]
    BY <1>2 DEF Applied
  <2>. QED BY <2>1 DEF Doc
<1>3. CASE p.op = "append" /\ p.field \in Field
  <2>1. /\ Applied(p, d) = [d EXCEPT ![p.field] = d[p.field] + 1]
        /\ Applied(p, e) = [e EXCEPT ![p.field] = e[p.field] + 1]
    BY <1>3 DEF Applied
  <2>. QED BY <2>1 DEF Doc
<1>4. CASE p.op \in {"add", "replace"} /\ p.field \in Field
  <2>1. /\ Applied(p, d) = [d EXCEPT ![p.field] = p.value]
        /\ Applied(p, e) = [e EXCEPT ![p.field] = p.value]
    BY <1>4 DEF Applied
  <2>. QED BY <2>1 DEF Doc
<1>. QED BY <1>1, <1>2, <1>3, <1>4, PatchingIs

\* Only an edit of a field takes it out, and then it takes it out of any state.
LEMMA AppliedAbsent ==
  ASSUME NEW p \in Patching, NEW d \in Doc, NEW e \in Doc, NEW f \in Field,
         Applies(p, d), d[f] # Absent, Applied(p, d)[f] = Absent
  PROVE  Applied(p, e)[f] = Absent
<1>1. CASE p.op = "none"
  BY <1>1 DEF Applied
<1>2. CASE p.op = "remove" /\ p.field \in Field
  <2>1. /\ Applied(p, d) = [d EXCEPT ![p.field] = Absent]
        /\ Applied(p, e) = [e EXCEPT ![p.field] = Absent]
    BY <1>2 DEF Applied
  <2>. QED BY <2>1 DEF Doc
<1>3. CASE p.op = "append" /\ p.field \in Field
  <2>1. Applied(p, d) = [d EXCEPT ![p.field] = d[p.field] + 1]
    BY <1>3 DEF Applied
  <2>2. d[p.field] \in Nat
    BY <1>3 DEF Applies, Doc, Value
  <2>3. d[p.field] + 1 # Absent
    <3>1. d[p.field] + 1 \in Int
      BY <2>2
    <3>. QED BY <3>1, FieldAssumption
  <2>. QED BY <2>1, <2>3 DEF Doc
<1>4. CASE p.op \in {"add", "replace"} /\ p.field \in Field /\ p.value \in Nat
  <2>1. Applied(p, d) = [d EXCEPT ![p.field] = p.value]
    BY <1>4 DEF Applied
  <2>2. p.value # Absent
    <3>1. p.value \in Int
      BY <1>4
    <3>. QED BY <3>1, FieldAssumption
  <2>. QED BY <2>1, <2>2 DEF Doc
<1>. QED BY <1>1, <1>2, <1>3, <1>4, PatchingIs

\* A decision of the log, and what its patch made of the state that was reviewed.
Edits(A) ==
  \A i \in DOMAIN A : /\ Applies(A[i].patch, A[i].before)
                      /\ A[i].after = Applied(A[i].patch, A[i].before)

\* A reviewer has taken f out of the state.
TakenOut(A, f) == \E i \in DOMAIN A : A[i].after[f] = Absent

\* A gate's patches leave a field in the state, unless a reviewer has taken it out.
LEMMA AgainKeeps ==
  ASSUME NEW A \in Seq(Decision), Edits(A), NEW pos, NEW d \in Doc, NEW f \in Field,
         d[f] # Absent, Again(A, pos, d)[Len(A)] # Broken
  PROVE  Again(A, pos, d)[Len(A)][f] # Absent \/ TakenOut(A, f)
<1> DEFINE g == Again(A, pos, d)
           S == {n \in Nat : g[n] # Broken => g[n][f] # Absent \/ TakenOut(A, f)}
<1>0. Len(A) \in Nat /\ DOMAIN A = 1..Len(A)
  OBVIOUS
<1>1. 0 \in S
  <2>1. 0 \in 0..Len(A)
    BY <1>0
  <2>. QED BY <1>0, <2>1, AgainStep
<1>2. ASSUME NEW n \in 0..(Len(A) - 1), n \in S PROVE n + 1 \in S
  <2>1. n + 1 \in 1..Len(A) /\ n + 1 \in Nat /\ n + 1 # 0 /\ n + 1 - 1 = n /\ n \in 0..Len(A)
    BY <1>0
  <2>2. g[n + 1] = IF A[n + 1].pos # pos THEN g[n]
                   ELSE IF g[n] # Broken /\ Applies(A[n + 1].patch, g[n])
                     THEN Applied(A[n + 1].patch, g[n])
                     ELSE Broken
    <3>1. n + 1 \in 0..Len(A)
      BY <2>1
    <3>. QED BY <1>0, <2>1, <3>1, AgainStep
  <2>3. A[n + 1].patch \in Patching /\ A[n + 1].before \in Doc
    <3>1. A[n + 1] \in Decision
      BY <2>1
    <3>. QED BY <3>1 DEF Decision
  <2>4. g[n] \in Doc \cup {Broken}
    BY <2>1, AgainType
  <2>5. A[n + 1].after = Applied(A[n + 1].patch, A[n + 1].before) /\ n + 1 \in DOMAIN A
    BY <1>0, <2>1 DEF Edits
  <2>6. g[n] # Broken => g[n][f] # Absent \/ TakenOut(A, f)
    BY <1>2
  <2> HIDE DEF g
  <2>7. ASSUME g[n + 1] # Broken, ~TakenOut(A, f) PROVE g[n + 1][f] # Absent
    <3>1. CASE A[n + 1].pos # pos
      BY <2>2, <2>6, <2>7, <3>1
    <3>2. CASE A[n + 1].pos = pos
      <4>1. /\ g[n] # Broken /\ Applies(A[n + 1].patch, g[n])
            /\ g[n + 1] = Applied(A[n + 1].patch, g[n])
        BY <2>2, <2>7, <3>2
      <4>2. g[n] \in Doc /\ g[n][f] # Absent
        BY <2>4, <2>6, <2>7, <4>1
      <4>3. A[n + 1].after[f] # Absent
        BY <2>5, <2>7 DEF TakenOut
      <4>. QED BY <2>3, <2>5, <4>1, <4>2, <4>3, AppliedAbsent
    <3>. QED BY <3>1, <3>2
  <2>. QED BY <2>1, <2>7
<1>3. \A n \in 0..Len(A) : n \in S
  <2> HIDE DEF S
  <2>1. 0 \in Int /\ Len(A) \in Int
    BY <1>0
  <2>. QED BY <1>1, <1>2, <2>1, UpInduction
<1>4. Len(A) \in 0..Len(A)
  BY <1>0
<1>. QED BY <1>3, <1>4

\* What a gate's patches make of a field depends on that field only.
LEMMA AgainField ==
  ASSUME NEW A \in Seq(Decision), NEW pos, NEW d \in Doc, NEW e \in Doc, NEW f \in Field,
         d[f] = e[f],
         Again(A, pos, d)[Len(A)] # Broken, Again(A, pos, e)[Len(A)] # Broken
  PROVE  Again(A, pos, d)[Len(A)][f] = Again(A, pos, e)[Len(A)][f]
<1> DEFINE g == Again(A, pos, d)
           h == Again(A, pos, e)
           S == {n \in Nat : g[n] # Broken /\ h[n] # Broken => g[n][f] = h[n][f]}
<1>0. Len(A) \in Nat
  OBVIOUS
<1>1. 0 \in S
  <2>1. 0 \in 0..Len(A)
    BY <1>0
  <2>. QED BY <1>0, <2>1, AgainStep
<1>2. ASSUME NEW n \in 0..(Len(A) - 1), n \in S PROVE n + 1 \in S
  <2>1. n + 1 \in 1..Len(A) /\ n + 1 \in Nat /\ n + 1 # 0 /\ n + 1 - 1 = n /\ n \in 0..Len(A)
    BY <1>0
  <2>2. n + 1 \in 0..Len(A)
    BY <2>1
  <2>3. g[n + 1] = IF A[n + 1].pos # pos THEN g[n]
                   ELSE IF g[n] # Broken /\ Applies(A[n + 1].patch, g[n])
                     THEN Applied(A[n + 1].patch, g[n])
                     ELSE Broken
    BY <1>0, <2>1, <2>2, AgainStep
  <2>4. h[n + 1] = IF A[n + 1].pos # pos THEN h[n]
                   ELSE IF h[n] # Broken /\ Applies(A[n + 1].patch, h[n])
                     THEN Applied(A[n + 1].patch, h[n])
                     ELSE Broken
    BY <1>0, <2>1, <2>2, AgainStep
  <2>5. A[n + 1].patch \in Patching
    <3>1. A[n + 1] \in Decision
      BY <2>1
    <3>. QED BY <3>1 DEF Decision
  <2>6. g[n] \in Doc \cup {Broken} /\ h[n] \in Doc \cup {Broken}
    BY <2>1, AgainType
  <2>7. g[n] # Broken /\ h[n] # Broken => g[n][f] = h[n][f]
    BY <1>2
  <2> HIDE DEF g, h
  <2>8. ASSUME g[n + 1] # Broken, h[n + 1] # Broken PROVE g[n + 1][f] = h[n + 1][f]
    <3>1. CASE A[n + 1].pos # pos
      BY <2>3, <2>4, <2>7, <2>8, <3>1
    <3>2. CASE A[n + 1].pos = pos
      <4>1. /\ g[n] # Broken /\ g[n + 1] = Applied(A[n + 1].patch, g[n])
            /\ h[n] # Broken /\ h[n + 1] = Applied(A[n + 1].patch, h[n])
        BY <2>3, <2>4, <2>8, <3>2
      <4>. QED BY <2>5, <2>6, <2>7, <4>1, AppliedField
    <3>. QED BY <3>1, <3>2
  <2>. QED BY <2>1, <2>8
<1>3. \A n \in 0..Len(A) : n \in S
  <2> HIDE DEF S
  <2>1. 0 \in Int /\ Len(A) \in Int
    BY <1>0
  <2>. QED BY <1>1, <1>2, <2>1, UpInduction
<1>4. Len(A) \in 0..Len(A)
  BY <1>0
<1>. QED BY <1>3, <1>4

\* A gate that was decided once has one patch.
LEMMA AgainOnce ==
  ASSUME NEW A \in Seq(Decision), NEW pos, NEW d \in Doc, NEW i \in DOMAIN A,
         \A j \in DOMAIN A : A[j].pos = pos <=> j = i
  PROVE  Again(A, pos, d)[Len(A)] = IF Applies(A[i].patch, d) THEN Applied(A[i].patch, d)
                                                             ELSE Broken
<1> DEFINE g == Again(A, pos, d)
           Before == {n \in Nat : g[n] = d}
           After == {n \in Nat : g[n] = IF Applies(A[i].patch, d) THEN Applied(A[i].patch, d)
                                                                 ELSE Broken}
<1>0. Len(A) \in Nat /\ DOMAIN A = 1..Len(A) /\ i \in 1..Len(A)
  OBVIOUS
<1>1. ASSUME NEW n \in 0..(Len(A) - 1), n + 1 # i PROVE g[n + 1] = g[n]
  <2>1. n + 1 \in 0..Len(A) /\ n + 1 # 0 /\ n + 1 - 1 = n /\ n + 1 \in DOMAIN A
    BY <1>0
  <2>2. A[n + 1].pos # pos
    BY <1>1, <2>1
  <2>. QED BY <1>0, <2>1, <2>2, AgainStep
<1>2. i - 1 \in Before
  <2>1. 0 \in Before
    <3>1. 0 \in 0..Len(A)
      BY <1>0
    <3>. QED BY <1>0, <3>1, AgainStep
  <2>2. ASSUME NEW n \in 0..(i - 1 - 1), n \in Before PROVE n + 1 \in Before
    <3>1. n \in 0..(Len(A) - 1) /\ n + 1 # i /\ n + 1 \in Nat
      BY <1>0
    <3>2. g[n + 1] = g[n]
      BY <1>1, <3>1
    <3> HIDE DEF g
    <3>. QED BY <2>2, <3>1, <3>2
  <2> HIDE DEF Before
  <2>3. 0 \in Int /\ i - 1 \in Int /\ i - 1 \in 0..(i - 1)
    BY <1>0
  <2>4. \A n \in 0..(i - 1) : n \in Before
    BY <2>1, <2>2, <2>3, UpInduction
  <2>. QED BY <2>3, <2>4
<1>3. i \in After
  <2>1. i \in 0..Len(A) /\ i # 0 /\ i \in Nat
    BY <1>0
  <2>2. g[i] = IF g[i - 1] # Broken /\ Applies(A[i].patch, g[i - 1])
                 THEN Applied(A[i].patch, g[i - 1])
                 ELSE Broken
    BY <1>0, <2>1, AgainStep
  <2>3. g[i - 1] = d /\ d # Broken
    BY <1>2, DocIsNotBroken
  <2> HIDE DEF g
  <2>. QED BY <2>1, <2>2, <2>3
<1>4. ASSUME NEW n \in i..(Len(A) - 1), n \in After PROVE n + 1 \in After
  <2>1. n \in 0..(Len(A) - 1) /\ n + 1 # i /\ n + 1 \in Nat
    BY <1>0
  <2>2. g[n + 1] = g[n]
    BY <1>1, <2>1
  <2> HIDE DEF g
  <2>. QED BY <1>4, <2>1, <2>2
<1>5. Len(A) \in After
  <2> HIDE DEF After
  <2>1. i \in Int /\ Len(A) \in Int /\ Len(A) \in i..Len(A)
    BY <1>0
  <2>2. \A n \in i..Len(A) : n \in After
    BY <1>3, <1>4, <2>1, UpInduction
  <2>. QED BY <2>1, <2>2
<1>. QED BY <1>5

(***************************************************************************)
(* What a memoised step wrote into the state.                              *)
(***************************************************************************)

\* The instructions of a body.
LEMMA InstructionIs ==
  ASSUME TypeOK, NEW p \in 1..Len(body)
  PROVE  /\ body[p].kind \in {"step", "assign", "gate"}
         /\ body[p].kind \in {"step", "assign"} => body[p].field \in Field /\ body[p].value \in Nat
<1> DEFINE Writing == [kind : {"step", "assign"}, field : Field, value : Nat]
           Waiting == [kind : {"gate"}]
<1>1. body \in Seq(Writing \cup Waiting)
  BY BodyAssumption DEF TypeOK
<1>2. body[p] \in Writing \cup Waiting
  <2> HIDE DEF Writing, Waiting
  <2>. QED BY <1>1
<1>. QED BY <1>2

\* A record of a step is there for a step only, and an audited edit is what its patch makes of
\* the state that was reviewed.
Recorded ==
  /\ \A p \in done : p \in 1..Len(body) /\ body[p].kind = "step"
  /\ Edits(audit)

\* The state d has what the steps D of the body B wrote, or a reviewer has taken it out.
Wrote(B, D, A, d) == \A p \in D : d[B[p].field] # Absent \/ TakenOut(A, B[p].field)

Has(d) == Wrote(body, done, audit, d)

Executing == {"body", "snapshot", "fail"}

\* Until something fails: the state that the run goes on with has what its steps wrote,
\* wherever it is held at the moment.
Kept ==
  crashes = 0 /\ raises = 0 =>
    /\ pc \in Executing => Has(state)
    /\ pc \notin Executing /\ DOMAIN snaps = {} => done = {}
    /\ pc \notin Executing /\ DOMAIN snaps # {} => Has(committed)
    /\ pc \in {"decided", "saved"} =>
         /\ state = Last(audit).after
         /\ Has(Last(audit).before)
         /\ Has(Last(audit).after)
    /\ pending # NoSeed => pc = "open" /\ Has(pending.doc)

KeptInv == Recorded /\ Kept

\* A write of a field leaves what other steps wrote, and makes a step's own field present.
LEMMA WroteField ==
  ASSUME TypeOK, Recorded, NEW p \in 1..Len(body), body[p].kind \in {"step", "assign"},
         NEW D, D \subseteq done \cup {p}, \A q \in D : q # p => q \in done,
         Has(state)
  PROVE  Wrote(body, D, audit, [state EXCEPT ![body[p].field] = body[p].value])
<1> DEFINE d == [state EXCEPT ![body[p].field] = body[p].value]
<1>1. body[p].field \in Field /\ body[p].value \in Nat /\ state \in Doc
  BY InstructionIs DEF TypeOK
<1>2. body[p].value # Absent
  <2>1. body[p].value \in Int
    BY <1>1
  <2>. QED BY <2>1, FieldAssumption
<1>3. \A f \in Field : d[f] = IF f = body[p].field THEN body[p].value ELSE state[f]
  BY <1>1 DEF Doc
<1> HIDE DEF d
<1>4. ASSUME NEW q \in D PROVE d[body[q].field] # Absent \/ TakenOut(audit, body[q].field)
  <2>1. CASE q = p
    BY <1>1, <1>2, <1>3, <2>1
  <2>2. CASE q # p
    <3>1. q \in done
      BY <2>2
    <3>2. body[q].field \in Field
      BY <3>1, InstructionIs DEF Recorded
    <3>3. state[body[q].field] # Absent \/ TakenOut(audit, body[q].field)
      BY <3>1 DEF Has, Wrote
    <3>. QED BY <1>2, <1>3, <3>2, <3>3
  <2>. QED BY <2>1, <2>2
<1>. QED BY <1>4 DEF Wrote, d

\* One more decision leaves what the state has.
LEMMA WroteAppend ==
  ASSUME NEW B, NEW D, NEW A \in Seq(Decision), NEW r \in Decision, NEW d, Wrote(B, D, A, d)
  PROVE  Wrote(B, D, Append(A, r), d)
<1>1. \A i \in DOMAIN A : i \in DOMAIN Append(A, r) /\ Append(A, r)[i] = A[i]
  OBVIOUS
<1>2. ASSUME NEW f, TakenOut(A, f) PROVE TakenOut(Append(A, r), f)
  BY <1>1, <1>2 DEF TakenOut
<1>. QED BY <1>2 DEF Wrote

\* An edit takes out what it says.
LEMMA WroteEdited ==
  ASSUME TypeOK, Recorded, NEW d \in Doc, Has(d), NEW r \in Decision, r.before = d
  PROVE  Wrote(body, done, Append(audit, r), r.after)
<1>1. audit \in Seq(Decision)
  BY DEF TypeOK
<1>2. Len(audit) + 1 \in DOMAIN Append(audit, r) /\ Append(audit, r)[Len(audit) + 1] = r
  BY <1>1
<1>3. ASSUME NEW f, r.after[f] = Absent PROVE TakenOut(Append(audit, r), f)
  BY <1>2, <1>3 DEF TakenOut
<1>. QED BY <1>3 DEF Wrote

\* The log grows by an edit.
LEMMA EditsAppend ==
  ASSUME NEW A \in Seq(Decision), Edits(A), NEW r \in Decision, Applies(r.patch, r.before),
         r.after = Applied(r.patch, r.before)
  PROVE  Edits(Append(A, r))
<1> DEFINE B == Append(A, r)
<1>1. DOMAIN B = DOMAIN A \cup {Len(A) + 1} /\ B[Len(A) + 1] = r
  OBVIOUS
<1>2. \A i \in DOMAIN A : B[i] = A[i]
  OBVIOUS
<1> HIDE DEF B
<1>3. ASSUME NEW i \in DOMAIN B
      PROVE  Applies(B[i].patch, B[i].before) /\ B[i].after = Applied(B[i].patch, B[i].before)
  <2>1. CASE i \in DOMAIN A
    BY <1>2, <2>1 DEF Edits
  <2>2. CASE i \notin DOMAIN A
    BY <1>1, <2>2
  <2>. QED BY <2>1, <2>2
<1>. QED BY <1>3 DEF Edits, B

\* A step that leaves what is recorded.
LEMMA RecordedSame ==
  ASSUME Recorded, UNCHANGED <<body, done, audit>>
  PROVE  Recorded' /\ \A d : Has(d) => Wrote(body', done', audit', d)
BY DEF Recorded, Has

\* A run that has not started has nothing to keep.
LEMMA InitKept == Init => KeptInv
<1>1. SUFFICES ASSUME Init PROVE KeptInv
  OBVIOUS
<1>2. done = {} /\ audit = <<>> /\ snaps = <<>> /\ pending = NoSeed /\ pc = "off"
  BY <1>1 DEF Init
<1>. QED BY <1>2 DEF KeptInv, Recorded, Kept, Edits, Executing

\* The ways into an execution.
LEMMA KeptOpen ==
  ASSUME Inv, KeptInv, Start \/ OpenPending \/ OpenFresh \/ OpenLoaded \/ OpenFails
  PROVE  KeptInv'
<1>1. UNCHANGED <<body, done, audit, snaps, crashes, raises, committed>>
  BY DEF Start, OpenPending, OpenFresh, OpenLoaded, Opened, OpenFails, storage, faults
<1>2. Recorded' /\ \A d : Has(d) => Wrote(body', done', audit', d)
  BY <1>1, RecordedSame DEF KeptInv
<1>3. Kept'
  <2>1. SUFFICES ASSUME crashes = 0, raises = 0 PROVE Kept'
    BY <1>1 DEF Kept
  <2>2. Kept /\ crashes = 0 /\ raises = 0
    BY <2>1 DEF KeptInv
  <2>3. CASE Start
    <3>1. pc = "off" /\ pc' = "open" /\ pending' = pending
      BY <2>3 DEF Start, Goto
    <3>. QED BY <1>1, <1>2, <2>2, <3>1 DEF Kept, Has, Executing
  <2>4. CASE OpenFails
    <3>1. pc = "open" /\ pc' = "off" /\ pending' = pending /\ pending = NoSeed
      BY <2>4 DEF OpenFails, Leave, Goto
    <3>. QED BY <1>1, <1>2, <2>2, <3>1 DEF Kept, Has, Executing, NoSeed
  <2>5. CASE OpenPending \/ OpenFresh \/ OpenLoaded
    <3>1. pc = "open" /\ pc' = "body" /\ pending' = NoSeed
      BY <2>5 DEF OpenPending, OpenFresh, OpenLoaded, Opened, Goto
    <3>2. Has(state')
      <4>1. CASE OpenPending
        BY <2>2, <4>1 DEF OpenPending, Opened, Kept
      <4>2. CASE OpenFresh
        <5>1. done = {}
          BY <2>2, <3>1, <4>2 DEF OpenFresh, Kept, Executing
        <5>. QED BY <5>1 DEF Has, Wrote
      <4>3. CASE OpenLoaded
        <5>1. state' = committed /\ DOMAIN snaps # {}
          BY <2>1, <4>3 DEF OpenLoaded, Opened, Inv, Store
        <5>. QED BY <2>2, <3>1, <5>1 DEF Kept, Executing
      <4>. QED BY <2>5, <4>1, <4>2, <4>3
    <3>. QED BY <1>2, <3>1, <3>2 DEF Kept, Has, Executing, NoSeed
  <2>. QED BY <2>3, <2>4, <2>5
<1>. QED BY <1>2, <1>3 DEF KeptInv

\* The body.
LEMMA KeptBody ==
  ASSUME Inv, KeptInv, Assign \/ SkipStep \/ RunStep \/ PassGate \/ GateConflict \/ BodyFails
  PROVE  KeptInv'
<1>1. BodyUnchanged
  BY DEF Assign, SkipStep, RunStep, PassGate, GateConflict, BodyFails
<1>2. pc = "body" /\ pc' \in Executing
  BY DEF Assign, SkipStep, RunStep, PassGate, GateConflict, BodyFails, AtKind, Goto, Executing
<1>3. TypeOK /\ Recorded /\ state \in Doc /\ audit \in Seq(Decision) /\ at \in Nat \ {0}
  BY DEF Inv, TypeOK, KeptInv
<1>4. Recorded'
  <2>1. CASE RunStep
    <3>1. at \in 1..Len(body) /\ body[at].kind = "step" /\ done' = done \cup {at}
      BY <1>3, <2>1 DEF RunStep, AtKind, TypeOK
    <3>2. UNCHANGED <<body, audit>>
      BY <1>1 DEF BodyUnchanged
    <3>. QED BY <1>3, <3>1, <3>2 DEF Recorded
  <2>2. CASE ~RunStep
    <3>1. UNCHANGED <<body, done, audit>>
      BY <1>1, <2>2 DEF BodyUnchanged, Assign, SkipStep, PassGate, GateConflict, BodyFails
    <3>. QED BY <1>3, <3>1, RecordedSame
  <2>. QED BY <2>1, <2>2
<1>5. ASSUME crashes = 0, raises = 0 PROVE Wrote(body, done', audit, state')
  <2>1. Has(state) /\ pending = NoSeed
    BY <1>2, <1>5 DEF KeptInv, Kept, Executing
  <2>2. CASE Assign
    <3>1. /\ at \in 1..Len(body) /\ body[at].kind = "assign" /\ done' = done
          /\ state' = [state EXCEPT ![body[at].field] = body[at].value]
      BY <1>3, <2>2 DEF Assign, AtKind, TypeOK
    <3>. QED BY <1>3, <2>1, <3>1, WroteField
  <2>3. CASE RunStep
    <3>1. /\ at \in 1..Len(body) /\ body[at].kind = "step" /\ done' = done \cup {at}
          /\ state' = [state EXCEPT ![body[at].field] = body[at].value]
      BY <1>3, <2>3 DEF RunStep, AtKind, TypeOK
    <3>. QED BY <1>3, <2>1, <3>1, WroteField
  <2>4. CASE SkipStep \/ GateConflict \/ BodyFails
    <3>1. UNCHANGED <<done, state>>
      BY <2>4 DEF SkipStep, GateConflict, BodyFails
    <3>. QED BY <2>1, <3>1 DEF Has
  <2>5. CASE PassGate
    <3>1. state' = Again(audit, at, state)[Len(audit)] /\ state' # Broken /\ done' = done
      BY <2>5, AppliedAgainIs DEF PassGate
    <3>2. ASSUME NEW p \in done
          PROVE  state'[body[p].field] # Absent \/ TakenOut(audit, body[p].field)
      <4>1. body[p].field \in Field
        BY <1>3, InstructionIs DEF Recorded
      <4>2. state[body[p].field] # Absent \/ TakenOut(audit, body[p].field)
        BY <2>1 DEF Has, Wrote
      <4>3. Edits(audit)
        BY <1>3 DEF Recorded
      <4>. QED BY <1>3, <3>1, <4>1, <4>2, <4>3, AgainKeeps
    <3>. QED BY <3>1, <3>2 DEF Wrote
  <2>. QED BY <2>2, <2>3, <2>4, <2>5
<1>6. Kept'
  <2>1. UNCHANGED <<body, audit, crashes, raises, pending>>
    BY <1>1 DEF BodyUnchanged, faults
  <2>2. crashes = 0 /\ raises = 0 => pending = NoSeed
    BY <1>2 DEF KeptInv, Kept
  <2>. QED BY <1>2, <1>5, <2>1, <2>2 DEF Kept, Has, Executing, NoSeed
<1>. QED BY <1>4, <1>6 DEF KeptInv

\* A snapshot commits the state.
LEMMA KeptSnapshot ==
  ASSUME Inv, KeptInv, StepSnapshot \/ Suspend \/ CloseSnapshot
  PROVE  KeptInv'
<1>1. /\ Snapshot(mem, state, nextIndex)
      /\ pc \in Executing
      /\ UNCHANGED <<body, done, audit, pending, state, crashes, raises>>
  BY DEF StepSnapshot, Suspend, CloseSnapshot, Closing, AtKind, context, faults, Executing
<1>2. pc' \in {"body", "suspend", "FAILED", "COMPLETED"}
  BY DEF StepSnapshot, Suspend, CloseSnapshot, Goto, Outcome
<1>3. committed' = state /\ DOMAIN snaps' # {}
  <2>1. nextIndex \in DOMAIN snaps'
    BY <1>1 DEF Snapshot, Put
  <2>. QED BY <1>1, <2>1 DEF Snapshot
<1>4. Recorded' /\ \A d : Has(d) => Wrote(body', done', audit', d)
  BY <1>1, RecordedSame DEF KeptInv
<1>5. Kept'
  <2>1. crashes = 0 /\ raises = 0 => Has(state) /\ pending = NoSeed
    BY <1>1 DEF KeptInv, Kept, Executing
  <2>. QED BY <1>1, <1>2, <1>3, <1>4, <2>1 DEF Kept, Has, Executing, NoSeed
<1>. QED BY <1>4, <1>5 DEF KeptInv

\* The records that end a call.
LEMMA KeptPut ==
  ASSUME KeptInv, SuspendPut \/ ClosePut
  PROVE  KeptInv'
<1>1. /\ UNCHANGED <<body, done, audit, snaps, pending, crashes, raises, committed>>
      /\ pc \in {"suspend", "COMPLETED", "FAILED"} /\ pc' = "off"
  BY DEF SuspendPut, ClosePut, Leave, Goto, faults
<1>2. Recorded' /\ \A d : Has(d) => Wrote(body', done', audit', d)
  BY <1>1, RecordedSame DEF KeptInv
<1>. QED BY <1>1, <1>2 DEF KeptInv, Kept, Has, Executing, NoSeed

\* After a fault nothing is promised.
LEMMA KeptFault ==
  ASSUME Inv, KeptInv,
         \/ StepSnapshotRaises \/ SuspendRaises \/ CloseSnapshotRaises \/ PersistRaises
         \/ Crash
  PROVE  KeptInv'
<1>1. UNCHANGED <<body, done, audit>>
  BY DEF StepSnapshotRaises, SuspendRaises, CloseSnapshotRaises, PersistRaises, Crash, Die, storage
<1>2. Recorded'
  BY <1>1, RecordedSame DEF KeptInv
<1>3. crashes' # 0 \/ raises' # 0
  <2>1. crashes \in Nat /\ raises \in Nat
    BY DEF Inv, TypeOK
  <2>2. crashes' = crashes + 1 \/ raises' = raises + 1
    BY DEF StepSnapshotRaises, SuspendRaises, CloseSnapshotRaises, PersistRaises, SnapshotRaises, Crash
  <2>. QED BY <2>1, <2>2
<1>. QED BY <1>2, <1>3 DEF KeptInv, Kept

\* A decision is made of what was committed, which has what the steps wrote.
LEMMA KeptDecide ==
  ASSUME Inv, KeptInv, NEW p \in Patching, Decide(p)
  PROVE  KeptInv'
<1> DEFINE r == [pos |-> run.pos, patch |-> p, before |-> Loaded,
                 after |-> Applied(p, Loaded)]
<1>1. /\ UNCHANGED <<body, done, snaps, pending, crashes, raises, committed>>
      /\ state' = Applied(p, Loaded) /\ audit' = Append(audit, r)
      /\ pc = "off" /\ pc' = "decided"
      /\ Loaded # Broken /\ Applies(p, Loaded)
  BY DEF Decide, DecideUnchanged, Goto, faults
<1>2. Loaded \in Doc /\ DOMAIN snaps # {}
  BY <1>1, LoadedType DEF Inv
<1>3. r \in Decision
  <2>1. Applied(p, Loaded) \in Doc
    BY <1>1, <1>2, AppliedType
  <2>. QED BY <1>2, <2>1 DEF Decision, Inv, TypeOK
<1>4. /\ r.before = Loaded /\ r.after = state' /\ Applies(r.patch, r.before)
      /\ r.after = Applied(r.patch, r.before)
  BY <1>1
<1> HIDE DEF r
<1>5. audit \in Seq(Decision) /\ TypeOK /\ Recorded
  BY DEF Inv, TypeOK, KeptInv
<1>6. Last(audit') = r
  BY <1>1, <1>3, <1>5 DEF Last
<1>7. Recorded'
  BY <1>1, <1>3, <1>4, <1>5, EditsAppend DEF Recorded
<1>8. ASSUME crashes = 0, raises = 0
      PROVE  /\ Wrote(body, done, audit', committed)
             /\ Wrote(body, done, audit', r.after)
             /\ r.before = committed /\ pending = NoSeed
  <2>1. Has(committed) /\ Loaded = committed /\ pending = NoSeed
    BY <1>1, <1>2, <1>8 DEF KeptInv, Kept, Inv, Store, Executing
  <2>2. Wrote(body, done, audit', committed)
    BY <1>1, <1>3, <1>5, <2>1, WroteAppend DEF Has
  <2>3. Wrote(body, done, audit', r.after)
    BY <1>1, <1>2, <1>3, <1>4, <1>5, <2>1, WroteEdited
  <2>. QED BY <1>4, <2>1, <2>2, <2>3
<1>9. Kept'
  BY <1>1, <1>2, <1>4, <1>6, <1>8 DEF Kept, Has, Executing, NoSeed
<1>. QED BY <1>7, <1>9 DEF KeptInv

\* And what it leaves is what is persisted, or what the next execution starts from.
LEMMA KeptResume ==
  ASSUME Inv, KeptInv, DecideSave \/ PersistNothing \/ Persist
  PROVE  KeptInv'
<1>1. UNCHANGED <<body, done, audit, crashes, raises>> /\ pc \in {"decided", "saved"}
  BY DEF DecideSave, PersistNothing, Persist, DecideUnchanged, faults
<1>2. Recorded' /\ \A d : Has(d) => Wrote(body', done', audit', d)
  BY <1>1, RecordedSame DEF KeptInv
<1>3. Kept'
  <2>1. SUFFICES ASSUME crashes = 0, raises = 0 PROVE Kept'
    BY <1>1 DEF Kept
  <2>2. /\ state = Last(audit).after /\ Has(Last(audit).before) /\ Has(Last(audit).after)
        /\ DOMAIN snaps = {} => done = {}
        /\ DOMAIN snaps # {} => Has(committed)
        /\ pending = NoSeed
    BY <1>1, <2>1 DEF KeptInv, Kept, Executing
  <2>3. CASE DecideSave
    <3>1. UNCHANGED <<snaps, pending, state, committed>> /\ pc' = "saved"
      BY <2>3 DEF DecideSave, Goto
    <3>. QED BY <1>1, <1>2, <2>2, <3>1 DEF Kept, Has, Executing, NoSeed
  <2>4. Has(Seed.doc)
    BY <2>2 DEF Seed
  <2>5. CASE PersistNothing
    <3>1. UNCHANGED <<snaps, committed>> /\ pc' = "open" /\ pending' = Seed
      BY <2>5 DEF PersistNothing, Resumes, Goto
    <3>. QED BY <1>1, <1>2, <2>2, <2>4, <3>1 DEF Kept, Has, Executing
  <2>6. CASE Persist
    <3>1. pc' = "open" /\ pending' = Seed /\ committed' = state /\ NewIndex \in DOMAIN snaps'
      BY <2>6 DEF Persist, Resumes, Goto, Snapshot, Put
    <3>. QED BY <1>2, <2>2, <2>4, <3>1 DEF Kept, Has, Executing
  <2>. QED BY <2>3, <2>5, <2>6
<1>. QED BY <1>2, <1>3 DEF KeptInv

\* Steps that leave storage alone.
LEMMA KeptIdle ==
  ASSUME KeptInv, (\E p \in Patching : DecideRaises(p)) \/ Restart \/ UNCHANGED vars
  PROVE  KeptInv'
<1>1. /\ UNCHANGED <<body, done, audit, snaps, crashes, raises, committed, pc>>
      /\ state' = state \/ pc = "off"
      /\ pending' \in {pending, NoSeed}
  BY DEF DecideRaises, DecideUnchanged, Restart, Die, Leave, Goto, vars, storage, context, faults
<1>2. Recorded' /\ \A d : Has(d) => Wrote(body', done', audit', d)
  BY <1>1, RecordedSame DEF KeptInv
<1>. QED BY <1>1, <1>2 DEF KeptInv, Kept, Has, Executing, NoSeed

\* Every step.
LEMMA NextKept ==
  ASSUME Inv, KeptInv, [Next]_vars
  PROVE  KeptInv'
<1>1. CASE Start \/ OpenPending \/ OpenFresh \/ OpenLoaded \/ OpenFails
  BY <1>1, KeptOpen
<1>2. CASE Assign \/ SkipStep \/ RunStep \/ PassGate \/ GateConflict \/ BodyFails
  BY <1>2, KeptBody
<1>3. CASE StepSnapshot \/ Suspend \/ CloseSnapshot
  BY <1>3, KeptSnapshot
<1>4. CASE SuspendPut \/ ClosePut
  BY <1>4, KeptPut
<1>5. CASE \/ StepSnapshotRaises \/ SuspendRaises \/ CloseSnapshotRaises \/ PersistRaises
           \/ Crash
  BY <1>5, KeptFault
<1>6. CASE \E p \in Patches \cup {NoPatch} : Decide(p) \/ DecideRaises(p)
  BY <1>6, KeptDecide, KeptIdle DEF Patching
<1>7. CASE DecideSave \/ PersistNothing \/ Persist
  BY <1>7, KeptResume
<1>8. CASE Restart \/ UNCHANGED vars
  BY <1>8, KeptIdle
<1>. QED BY <1>1, <1>2, <1>3, <1>4, <1>5, <1>6, <1>7, <1>8 DEF Next

\* Until something fails, a step that is skipped finds in the state what it wrote there.
THEOREM SkippedStepsAreInState == Spec => SkippedStepIsInState
<1>1. Spec => []KeptInv
  BY InitKept, NextKept, StoreInvariant, PTL DEF Spec
<1>2. KeptInv /\ [Next]_vars =>
        [crashes = 0 /\ raises = 0 /\ SkipStep =>
           \/ state[body[at].field] # Absent
           \/ \E i \in DOMAIN audit : audit[i].after[body[at].field] = Absent]_vars
  BY DEF KeptInv, Kept, SkipStep, AtKind, Executing, Has, Wrote, TakenOut
<1>. QED BY <1>1, <1>2, PTL DEF Spec, SkippedStepIsInState

(***************************************************************************)
(* Where an execution is, and which gates it has passed to get there.      *)
(***************************************************************************)

Record == [status : {"ABSENT", "RUNNING", "PAUSED", "FAILED", "COMPLETED"}, pos : Nat,
           origin : {"gate", "auto"}]

DecidedAt(A) == {A[i].pos : i \in DOMAIN A}

\* All gates before pos have been decided.
GatesBefore(B, A, pos) == \A g \in 1..(pos - 1) : B[g].kind = "gate" => g \in DecidedAt(A)

\* An execution passes the gates that have been decided, and no others; so the gate that a run
\* is paused at is beyond all that was ever decided.
Course ==
  /\ run \in Record
  /\ pending.pos \in DecidedAt(audit) \cup {0}
  /\ pc \in {"off", "open", "decided", "saved"} => at = 1
  /\ pc \in {"body", "snapshot", "suspend"} =>
       resumed = DecidedAt(audit) /\ GatesBefore(body, audit, at)
  /\ pc = "snapshot" => at \in 1..Len(body) /\ body[at].kind = "step"
  /\ pc = "suspend" =>
       at \in 1..Len(body) /\ (body[at].kind = "gate" => at \notin DecidedAt(audit))
  /\ run.status = "PAUSED" =>
       /\ pc \in {"off", "open", "decided"}
       /\ run.pos \in 1..Len(body)
       /\ GatesBefore(body, audit, run.pos)
       /\ body[run.pos].kind = "gate" => \A i \in DOMAIN audit : audit[i].pos <= run.pos
  /\ \A i \in DOMAIN audit :
       audit[i].pos \in 1..Len(body) /\ GatesBefore(body, audit, audit[i].pos)

\* A status is put into the run record.
LEMMA StatusIs ==
  ASSUME run \in Record, NEW s \in {"RUNNING", "FAILED", "COMPLETED"}
  PROVE  /\ [run EXCEPT !.status = s] \in Record /\ [run EXCEPT !.status = s].status = s
         /\ [run EXCEPT !.status = s, !.pos = 0] \in Record
         /\ [run EXCEPT !.status = s, !.pos = 0].status = s
BY DEF Record

\* No gate has been passed, and nothing is pending.
LEMMA InitCourse == Init => Course
<1>1. SUFFICES ASSUME Init PROVE Course
  OBVIOUS
<1>2. /\ run = [status |-> "ABSENT", pos |-> 0, origin |-> "gate"] /\ audit = <<>>
      /\ pending = NoSeed /\ pc = "off" /\ at = 1
  BY <1>1 DEF Init
<1>. QED BY <1>2 DEF Course, Record, NoSeed

\* An execution begins with all that is decided, before its first instruction.
LEMMA CourseOpen ==
  ASSUME Inv, Course, OpenPending \/ OpenFresh \/ OpenLoaded \/ OpenFails
  PROVE  Course' /\ run'.status # "PAUSED"
<1>1. CASE OpenFails
  <2>1. /\ UNCHANGED <<body, audit, pending>> /\ pc' = "off" /\ at' = 1
        /\ run' = [run EXCEPT !.status = "FAILED"]
    BY <1>1 DEF OpenFails, Leave, Goto
  <2>2. run' \in Record /\ run'.status = "FAILED"
    BY <2>1, StatusIs DEF Course
  <2>. QED BY <2>1, <2>2 DEF Course
<1>2. CASE OpenPending \/ OpenFresh \/ OpenLoaded
  <2>1. /\ UNCHANGED <<body, audit, at>> /\ pending' = NoSeed /\ pc = "open" /\ pc' = "body"
        /\ resumed' = {audit[i].pos : i \in DOMAIN audit} \cup ({pending.pos} \ {0})
        /\ run' = [run EXCEPT !.status = "RUNNING"]
    BY <1>2 DEF OpenPending, OpenFresh, OpenLoaded, Opened, Goto
  <2>2. run' \in Record /\ run'.status = "RUNNING"
    BY <2>1, StatusIs DEF Course
  <2>3. resumed' = DecidedAt(audit)
    BY <2>1 DEF Course, DecidedAt
  <2>4. at' = 1 /\ GatesBefore(body, audit, at')
    BY <2>1 DEF Course, GatesBefore
  <2>5. NoSeed.pos = 0
    BY DEF NoSeed
  <2>. QED BY <2>1, <2>2, <2>3, <2>4, <2>5 DEF Course
<1>. QED BY <1>1, <1>2

\* One instruction further.
LEMMA GatesNext ==
  ASSUME TypeOK, GatesBefore(body, audit, at), body[at].kind = "gate" => at \in DecidedAt(audit)
  PROVE  GatesBefore(body, audit, at + 1)
<1>1. PICK next \in Nat : next = at + 1
  BY DEF TypeOK
<1>2. ASSUME NEW g \in 1..(next - 1), body[g].kind = "gate" PROVE g \in DecidedAt(audit)
  <2>1. g \in 1..(at - 1) \/ g = at
    BY <1>1 DEF TypeOK
  <2>. QED BY <1>2, <2>1 DEF GatesBefore
<1>3. GatesBefore(body, audit, next)
  BY <1>2 DEF GatesBefore
<1>. QED BY <1>1, <1>3

\* It goes past a gate only if that has been decided, and suspends only if it has not.
LEMMA CourseBody ==
  ASSUME Inv, Course,
         \/ Assign \/ SkipStep \/ RunStep \/ PassGate \/ GateConflict \/ BodyFails
         \/ StepSnapshot \/ StepSnapshotRaises \/ Suspend \/ SuspendRaises
         \/ CloseSnapshot \/ CloseSnapshotRaises
  PROVE  Course' /\ run' = run /\ run.status # "PAUSED"
<1>1. /\ UNCHANGED <<body, run, audit, pending, resumed>>
      /\ pc \in {"body", "snapshot", "fail"}
      /\ pc' \in {"body", "snapshot", "suspend", "fail", "COMPLETED", "FAILED"}
      /\ pc = "fail" => pc' \in {"COMPLETED", "FAILED"}
  BY DEF Assign, SkipStep, RunStep, PassGate, GateConflict, BodyFails, StepSnapshot,
         StepSnapshotRaises, Suspend, SuspendRaises, CloseSnapshot, CloseSnapshotRaises,
         BodyUnchanged, AtKind, Goto, Closing, Outcome, context
<1>2. run.status # "PAUSED"
  BY <1>1 DEF Course
<1>3. TypeOK /\ at \in Nat \ {0}
  BY DEF Inv, TypeOK
<1>4. /\ pc' \in {"body", "snapshot", "suspend"} => GatesBefore(body, audit, at')
      /\ pc' = "snapshot" => at' \in 1..Len(body) /\ body[at'].kind = "step"
      /\ pc' = "suspend" =>
           at' \in 1..Len(body) /\ (body[at'].kind = "gate" => at' \notin DecidedAt(audit))
  <2>1. CASE Assign \/ SkipStep \/ PassGate
    <3>1. /\ at' = at + 1 /\ pc = "body" /\ pc' = "body"
          /\ body[at].kind = "gate" => at \in resumed
      BY <2>1 DEF Assign, SkipStep, PassGate, AtKind
    <3>2. GatesBefore(body, audit, at + 1)
      BY <1>3, <3>1, GatesNext DEF Course
    <3>. QED BY <3>1, <3>2
  <2>2. CASE StepSnapshot \/ StepSnapshotRaises
    <3>1. at' = at + 1 /\ pc = "snapshot" /\ pc' \in {"body", "fail"} /\ body[at].kind = "step"
      BY <2>2 DEF StepSnapshot, StepSnapshotRaises, Goto, Course
    <3>2. GatesBefore(body, audit, at + 1)
      BY <1>3, <3>1, GatesNext DEF Course
    <3>. QED BY <3>1, <3>2
  <2>3. CASE RunStep
    <3>1. at' = at /\ pc = "body" /\ pc' = "snapshot" /\ at <= Len(body) /\ body[at].kind = "step"
      BY <2>3 DEF RunStep, AtKind, Goto
    <3>2. Len(body) \in Nat
      BY BodyAssumption DEF Inv, TypeOK
    <3>. QED BY <1>3, <3>1, <3>2 DEF Course
  <2>4. CASE Suspend
    <3>1. /\ at' = at /\ pc = "body" /\ pc' = "suspend" /\ at <= Len(body)
          /\ body[at].kind = "gate" => at \notin resumed
      BY <2>4 DEF Suspend, AtKind, Goto
    <3>2. Len(body) \in Nat
      BY BodyAssumption DEF Inv, TypeOK
    <3>. QED BY <1>3, <3>1, <3>2 DEF Course
  <2>5. CASE GateConflict \/ BodyFails \/ SuspendRaises \/ CloseSnapshot \/ CloseSnapshotRaises
    <3>1. pc' \in {"fail", "COMPLETED", "FAILED"}
      BY <2>5 DEF GateConflict, BodyFails, SuspendRaises, CloseSnapshot, CloseSnapshotRaises,
                  Goto, Outcome
    <3>. QED BY <3>1
  <2>. QED BY <2>1, <2>2, <2>3, <2>4, <2>5
<1>5. resumed = DecidedAt(audit) \/ pc' \notin {"body", "snapshot", "suspend"}
  BY <1>1 DEF Course
<1>. QED BY <1>1, <1>2, <1>4, <1>5 DEF Course

\* The gate that a run is paused at is beyond all that was decided.
LEMMA CourseSuspendPut ==
  ASSUME Inv, Course, SuspendPut
  PROVE  Course'
<1>1. /\ UNCHANGED <<body, audit, pending>> /\ pc = "suspend" /\ pc' = "off" /\ at' = 1
      /\ run' = [status |-> "PAUSED", pos |-> at,
                 origin |-> IF body[at].kind = "gate" THEN "gate" ELSE "auto"]
  BY DEF SuspendPut, Leave, Goto
<1>2. at \in 1..Len(body) /\ at \in Nat
  BY <1>1 DEF Course, Inv, TypeOK
<1>3. run' \in Record /\ run'.pos = at
  BY <1>1, <1>2 DEF Record
<1>4. ASSUME body[at].kind = "gate", NEW i \in DOMAIN audit PROVE audit[i].pos <= at
  <2>1. at \notin DecidedAt(audit)
    BY <1>1, <1>4 DEF Course
  <2>2. audit[i].pos \in 1..Len(body) /\ GatesBefore(body, audit, audit[i].pos)
    BY DEF Course
  <2>3. Len(body) \in Nat
    BY BodyAssumption DEF Inv, TypeOK
  <2>4. at \notin 1..(audit[i].pos - 1)
    BY <1>4, <2>1, <2>2 DEF GatesBefore
  <2>. QED BY <1>2, <2>2, <2>3, <2>4
<1>. QED BY <1>1, <1>2, <1>3, <1>4 DEF Course

\* A run that is closed is not paused.
LEMMA CourseClosePut ==
  ASSUME Inv, Course, ClosePut
  PROVE  Course' /\ run'.status # "PAUSED"
<1>1. /\ UNCHANGED <<body, audit, pending>> /\ pc \in {"COMPLETED", "FAILED"} /\ pc' = "off"
      /\ at' = 1 /\ run' = [run EXCEPT !.status = pc]
  BY DEF ClosePut, Leave, Goto
<1>2. run' \in Record /\ run'.status = pc
  BY <1>1, StatusIs DEF Course
<1>. QED BY <1>1, <1>2 DEF Course

\* A decision is of the place where the run is paused.
LEMMA CourseDecide ==
  ASSUME Inv, Course, NEW p \in Patching, Decide(p)
  PROVE  /\ Course'
         /\ \E r \in Decision :
              /\ audit' = Append(audit, r)
              /\ r.pos = run.pos /\ r.before = Loaded
              /\ run.status = "PAUSED" /\ DOMAIN snaps # {}
<1> DEFINE r == [pos |-> run.pos, patch |-> p, before |-> Loaded,
                 after |-> Applied(p, Loaded)]
<1>1. /\ UNCHANGED <<body, run, pending, at>> /\ run.status = "PAUSED"
      /\ audit' = Append(audit, r) /\ pc = "off" /\ pc' = "decided"
      /\ Loaded # Broken /\ Applies(p, Loaded)
  BY DEF Decide, DecideUnchanged, Goto
<1>2. Loaded \in Doc /\ DOMAIN snaps # {}
  BY <1>1, LoadedType DEF Inv
<1>3. r \in Decision
  <2>1. Applied(p, Loaded) \in Doc
    BY <1>1, <1>2, AppliedType
  <2>. QED BY <1>2, <2>1 DEF Decision, Inv, TypeOK
<1>4. r.before = Loaded /\ r.pos = run.pos
  OBVIOUS
<1> HIDE DEF r
<1>5. audit \in Seq(Decision)
  BY DEF Inv, TypeOK
<1>6. /\ DOMAIN audit' = DOMAIN audit \cup {Len(audit) + 1}
      /\ \A i \in DOMAIN audit : audit'[i] = audit[i]
      /\ audit'[Len(audit) + 1] = r
  BY <1>1, <1>3, <1>5
<1>7. \A i \in DOMAIN audit' : i \in DOMAIN audit \/ audit'[i] = r
  BY <1>6
<1>8. DecidedAt(audit) \subseteq DecidedAt(audit')
  BY <1>6 DEF DecidedAt
<1>9. \A pos : GatesBefore(body, audit, pos) => GatesBefore(body, audit', pos)
  BY <1>8 DEF GatesBefore
<1>10. /\ run.pos \in 1..Len(body) /\ GatesBefore(body, audit', run.pos)
       /\ body[run.pos].kind = "gate" => \A i \in DOMAIN audit' : audit'[i].pos <= run.pos
  <2>1. run.pos \in 1..Len(body) /\ GatesBefore(body, audit', run.pos) /\ run.pos \in Nat
    BY <1>1, <1>9 DEF Course, Inv, TypeOK
  <2>2. ASSUME body[run.pos].kind = "gate", NEW i \in DOMAIN audit'
        PROVE  audit'[i].pos <= run.pos
    <3>1. CASE i \in DOMAIN audit
      BY <1>1, <1>6, <2>2, <3>1 DEF Course
    <3>2. CASE audit'[i] = r
      BY <1>4, <2>1, <3>2
    <3>. QED BY <1>7, <3>1, <3>2
  <2>. QED BY <2>1, <2>2
<1>11. ASSUME NEW i \in DOMAIN audit'
       PROVE  audit'[i].pos \in 1..Len(body) /\ GatesBefore(body, audit', audit'[i].pos)
  <2>1. CASE i \in DOMAIN audit
    BY <1>6, <1>9, <2>1 DEF Course
  <2>2. CASE audit'[i] = r
    BY <1>4, <1>10, <2>2
  <2>. QED BY <1>7, <2>1, <2>2
<1>12. pending'.pos \in DecidedAt(audit') \cup {0}
  BY <1>1, <1>8 DEF Course
<1>13. Course'
  BY <1>1, <1>10, <1>11, <1>12 DEF Course
<1>. QED BY <1>1, <1>2, <1>3, <1>4, <1>13

\* Nor is one whose decision is being carried out, which the next execution knows of.
LEMMA CourseResume ==
  ASSUME Inv, Course, DecideSave \/ PersistNothing \/ Persist \/ PersistRaises
  PROVE  Course' /\ run'.status # "PAUSED"
<1>1. UNCHANGED <<body, audit>> /\ at' = 1
  BY DEF DecideSave, PersistNothing, Persist, PersistRaises, DecideUnchanged, Leave, Course
<1>2. CASE DecideSave
  <2>1. /\ pending' = pending /\ pc' = "saved"
        /\ run' = [run EXCEPT !.status = "RUNNING", !.pos = 0]
    BY <1>2 DEF DecideSave, Goto
  <2>2. run' \in Record /\ run'.status = "RUNNING"
    BY <2>1, StatusIs DEF Course
  <2>. QED BY <1>1, <2>1, <2>2 DEF Course
<1>3. CASE PersistNothing \/ Persist
  <2>1. pending' = Seed /\ pc = "saved" /\ pc' = "open" /\ run' = run
    BY <1>3 DEF PersistNothing, Persist, Resumes, Goto
  <2>2. Seed.pos \in DecidedAt(audit)
    <3>1. audit \in Seq(Decision) /\ audit # <<>>
      BY <2>1 DEF Inv, TypeOK, Audited
    <3>2. Len(audit) \in DOMAIN audit /\ Last(audit) = audit[Len(audit)]
      BY <3>1 DEF Last
    <3>3. Seed.pos = Last(audit).pos
      BY DEF Seed
    <3>. QED BY <3>2, <3>3 DEF DecidedAt
  <2>. QED BY <1>1, <2>1, <2>2 DEF Course
<1>4. CASE PersistRaises
  <2>1. pending' = pending /\ pc = "saved" /\ pc' = "off" /\ run' = run
    BY <1>4 DEF PersistRaises, Leave, Goto
  <2>. QED BY <1>1, <2>1 DEF Course
<1>. QED BY <1>2, <1>3, <1>4

\* The other steps.
LEMMA CourseIdle ==
  ASSUME Course,
         \/ (\E p \in Patching : DecideRaises(p)) \/ Start \/ Crash \/ Restart \/ UNCHANGED vars
  PROVE  Course' /\ UNCHANGED <<body, audit, run, committed>>
<1>1. UNCHANGED <<body, audit, run, committed>> /\ pending' \in {pending, NoSeed}
  BY DEF DecideRaises, DecideUnchanged, Start, Crash, Restart, Die, vars, storage
<1>2. \/ pc' = "off" /\ at' = 1
      \/ pc = "off" /\ pc' \in {"off", "open"} /\ at' = at
      \/ UNCHANGED <<pc, at, resumed>>
  BY DEF DecideRaises, DecideUnchanged, Start, Crash, Restart, Die, Leave, Goto, vars, context
<1>3. NoSeed.pos = 0
  BY DEF NoSeed
<1>4. run.status = "PAUSED" => pc' \in {"off", "open", "decided"}
  BY <1>2 DEF Course
<1>5. pc' \in {"off", "open", "decided", "saved"} => at' = 1
  BY <1>2 DEF Course
<1>6. pc' \in {"body", "snapshot", "suspend"} => UNCHANGED <<pc, at, resumed>>
  BY <1>2
<1>. QED BY <1>1, <1>3, <1>4, <1>5, <1>6 DEF Course

\* Every step.
LEMMA NextCourse ==
  ASSUME Inv, Course, [Next]_vars
  PROVE  Course'
<1>1. CASE OpenPending \/ OpenFresh \/ OpenLoaded \/ OpenFails
  BY <1>1, CourseOpen
<1>2. CASE \/ Assign \/ SkipStep \/ RunStep \/ PassGate \/ GateConflict \/ BodyFails
           \/ StepSnapshot \/ StepSnapshotRaises \/ Suspend \/ SuspendRaises
           \/ CloseSnapshot \/ CloseSnapshotRaises
  BY <1>2, CourseBody
<1>3. CASE SuspendPut
  BY <1>3, CourseSuspendPut
<1>4. CASE ClosePut
  BY <1>4, CourseClosePut
<1>5. CASE \E p \in Patches \cup {NoPatch} : Decide(p) \/ DecideRaises(p)
  BY <1>5, CourseDecide, CourseIdle DEF Patching
<1>6. CASE DecideSave \/ PersistNothing \/ Persist \/ PersistRaises
  BY <1>6, CourseResume
<1>7. CASE Start \/ Crash \/ Restart \/ UNCHANGED vars
  BY <1>7, CourseIdle
<1>. QED BY <1>1, <1>2, <1>3, <1>4, <1>5, <1>6, <1>7 DEF Next

(***************************************************************************)
(* The values that plain assignments and decided gates give a field.       *)
(***************************************************************************)

\* The fields that no step writes.
Plain(B) == {f \in Field : \A i \in 1..Len(B) : B[i].kind = "step" => B[i].field # f}

\* Instruction k of the body B takes f from u to v, with the decisions A.
Leads(B, A, f, k, u, v) ==
  IF B[k].kind = "assign" /\ B[k].field = f THEN v = B[k].value
  ELSE IF B[k].kind = "gate"
    THEN \E d, e \in Doc : d[f] = u /\ e[f] = v /\ Again(A, k, d)[Len(A)] = e
    ELSE v = u

\* An execution that comes to pos has v in f there.
Arrives(B, A, f, pos, v) ==
  \E w : w[pos] = v /\ \A k \in 1..(pos - 1) : Leads(B, A, f, k, w[k], w[k + 1])

\* It begins with anything.
LEMMA ArrivesFirst == \A B, A, f, v : Arrives(B, A, f, 1, v)
<1> TAKE B, A, f, v
<1> DEFINE w == [k \in {1} |-> v]
<1>1. w[1] = v /\ 1..(1 - 1) = {}
  OBVIOUS
<1> HIDE DEF w
<1>. QED BY <1>1 DEF Arrives

\* One instruction further.
LEMMA ArrivesNext ==
  ASSUME NEW B, NEW A, NEW f, NEW pos \in Nat \ {0}, NEW next, next = pos + 1, NEW u, NEW v,
         Arrives(B, A, f, pos, u), Leads(B, A, f, pos, u, v)
  PROVE  Arrives(B, A, f, next, v)
<1>1. PICK w : w[pos] = u /\ \A k \in 1..(pos - 1) : Leads(B, A, f, k, w[k], w[k + 1])
  BY DEF Arrives
<1> DEFINE x == [k \in 1..next |-> IF k = next THEN v ELSE w[k]]
<1>2. x[next] = v /\ \A k \in 1..pos : x[k] = w[k]
  OBVIOUS
<1> HIDE DEF x
<1>3. ASSUME NEW k \in 1..(next - 1) PROVE Leads(B, A, f, k, x[k], x[k + 1])
  <2>1. CASE k = pos
    <3>1. x[k] = u /\ x[k + 1] = v
      BY <1>1, <1>2, <2>1
    <3>. QED BY <2>1, <3>1
  <2>2. CASE k # pos
    <3>1. k \in 1..(pos - 1) /\ x[k] = w[k] /\ x[k + 1] = w[k + 1]
      BY <1>2, <2>2
    <3>2. Leads(B, A, f, k, w[k], w[k + 1])
      BY <1>1, <3>1
    <3>. QED BY <3>1, <3>2
  <2>. QED BY <2>1, <2>2
<1>. QED BY <1>2, <1>3 DEF Arrives

\* A decision of no gate on the way makes no difference.
LEMMA ArrivesAppend ==
  ASSUME NEW B, NEW A \in Seq(Decision), NEW r \in Decision, NEW f, NEW pos, NEW v,
         Arrives(B, A, f, pos, v), \A k \in 1..(pos - 1) : B[k].kind = "gate" => k # r.pos
  PROVE  Arrives(B, Append(A, r), f, pos, v)
<1>1. PICK w : w[pos] = v /\ \A k \in 1..(pos - 1) : Leads(B, A, f, k, w[k], w[k + 1])
  BY DEF Arrives
<1>2. ASSUME NEW k \in 1..(pos - 1) PROVE Leads(B, Append(A, r), f, k, w[k], w[k + 1])
  <2>1. Leads(B, A, f, k, w[k], w[k + 1])
    BY <1>1
  <2>2. CASE B[k].kind = "gate"
    <3>1. r.pos # k
      BY <2>2
    <3>2. \A d : Again(Append(A, r), k, d)[Len(Append(A, r))] = Again(A, k, d)[Len(A)]
      BY <3>1, AgainAppend
    <3>. QED BY <2>1, <2>2, <3>2 DEF Leads
  <2>3. CASE B[k].kind # "gate"
    BY <2>1, <2>3 DEF Leads
  <2>. QED BY <2>2, <2>3
<1>. QED BY <1>1, <1>2 DEF Arrives

\* And after an assignment there is one value that it can have.
LEMMA ArrivesOnce ==
  ASSUME NEW B, NEW A \in Seq(Decision), NEW f \in Field, NEW pos \in Nat, NEW u, NEW v,
         Arrives(B, A, f, pos, u), Arrives(B, A, f, pos, v),
         NEW j \in 1..(pos - 1), B[j].kind = "assign", B[j].field = f
  PROVE  u = v
<1>1. PICK w : w[pos] = u /\ \A k \in 1..(pos - 1) : Leads(B, A, f, k, w[k], w[k + 1])
  BY DEF Arrives
<1>2. PICK x : x[pos] = v /\ \A k \in 1..(pos - 1) : Leads(B, A, f, k, x[k], x[k + 1])
  BY DEF Arrives
<1> DEFINE S == {n \in Int : w[n] = x[n]}
<1>3. j + 1 \in S
  <2>1. Leads(B, A, f, j, w[j], w[j + 1]) /\ Leads(B, A, f, j, x[j], x[j + 1])
    BY <1>1, <1>2
  <2>2. w[j + 1] = B[j].value /\ x[j + 1] = B[j].value
    BY <2>1 DEF Leads
  <2>. QED BY <2>2
<1>4. ASSUME NEW n \in (j + 1)..(pos - 1), n \in S PROVE n + 1 \in S
  <2>1. n \in 1..(pos - 1) /\ n \in Int /\ n + 1 \in Int
    OBVIOUS
  <2>2. Leads(B, A, f, n, w[n], w[n + 1]) /\ Leads(B, A, f, n, x[n], x[n + 1]) /\ w[n] = x[n]
    BY <1>1, <1>2, <1>4, <2>1
  <2>3. CASE B[n].kind = "assign" /\ B[n].field = f
    BY <2>1, <2>2, <2>3 DEF Leads
  <2>4. CASE ~(B[n].kind = "assign" /\ B[n].field = f) /\ B[n].kind = "gate"
    <3>1. PICK d \in Doc, e \in Doc :
            d[f] = w[n] /\ e[f] = w[n + 1] /\ Again(A, n, d)[Len(A)] = e
      BY <2>2, <2>4 DEF Leads
    <3>2. PICK dd \in Doc, ee \in Doc :
            dd[f] = x[n] /\ ee[f] = x[n + 1] /\ Again(A, n, dd)[Len(A)] = ee
      BY <2>2, <2>4 DEF Leads
    <3>3. d[f] = dd[f] /\ e # Broken /\ ee # Broken
      BY <2>2, <3>1, <3>2, DocIsNotBroken
    <3>4. e[f] = ee[f]
      BY <3>1, <3>2, <3>3, AgainField
    <3>. QED BY <2>1, <3>1, <3>2, <3>4
  <2>5. CASE ~(B[n].kind = "assign" /\ B[n].field = f) /\ B[n].kind # "gate"
    BY <2>1, <2>2, <2>5 DEF Leads
  <2>. QED BY <2>3, <2>4, <2>5
<1>5. pos \in S
  <2> HIDE DEF S
  <2>1. j + 1 \in Int /\ pos \in Int /\ pos \in (j + 1)..pos
    OBVIOUS
  <2>2. \A n \in (j + 1)..pos : n \in S
    BY <1>3, <1>4, <2>1, UpInduction
  <2>. QED BY <2>1, <2>2
<1>. QED BY <1>1, <1>2, <1>5

\* An execution that comes to pos may have the state d there, in the fields that no step writes.
ArrivesAll(B, A, pos, d) == \A f \in Plain(B) : Arrives(B, A, f, pos, d[f])

\* Until a write raises: the state of an execution, the state that a paused run has committed
\* and the states that reviewers have decided on are those of executions that came there.
Traces ==
  raises = 0 =>
    /\ pc \in {"body", "snapshot"} => ArrivesAll(body, audit, at, state)
    /\ pc = "suspend" => ArrivesAll(body, audit, at, committed)
    /\ run.status = "PAUSED" => ArrivesAll(body, audit, run.pos, committed)
    /\ \A i \in DOMAIN audit : ArrivesAll(body, audit, audit[i].pos, audit[i].before)

ReplayInv == Recorded /\ Course /\ Traces

\* Nothing has been executed.
LEMMA InitTraces == Init => Traces
BY DEF Init, Traces

\* A step after which nothing is traced that was not before.
LEMMA TracesSame ==
  ASSUME Traces, UNCHANGED <<body, audit>>, raises' = raises,
         pc' \in {"body", "snapshot"} /\ raises = 0 => ArrivesAll(body, audit, at', state'),
         pc' = "suspend" /\ raises = 0 => ArrivesAll(body, audit, at', committed'),
         run'.status = "PAUSED" /\ raises = 0 => ArrivesAll(body, audit, run'.pos, committed')
  PROVE  Traces'
BY DEF Traces

\* An execution that begins may have anything in a field.
LEMMA TracesOpen ==
  ASSUME Inv, Course, Traces, OpenPending \/ OpenFresh \/ OpenLoaded \/ OpenFails
  PROVE  Traces'
<1>1. UNCHANGED <<body, audit, raises>> /\ run'.status # "PAUSED"
  BY CourseOpen
     DEF OpenPending, OpenFresh, OpenLoaded, Opened, OpenFails, faults
<1>2. pc' = "off" \/ (pc' = "body" /\ at' = 1)
  BY DEF OpenPending, OpenFresh, OpenLoaded, Opened, OpenFails, Leave, Goto, Course
<1>3. at' = 1 => ArrivesAll(body, audit, at', state')
  BY ArrivesFirst DEF ArrivesAll
<1>. QED BY <1>1, <1>2, <1>3, TracesSame

\* The body's instructions, each as Leads has it.
LEMMA TracesBody ==
  ASSUME Inv, Inv', Course, Traces,
         \/ Assign \/ SkipStep \/ RunStep \/ PassGate \/ GateConflict \/ BodyFails
         \/ StepSnapshot \/ Suspend \/ CloseSnapshot
  PROVE  Traces'
<1>1. UNCHANGED <<body, audit, raises, run>> /\ run'.status # "PAUSED"
  BY CourseBody
     DEF Assign, SkipStep, RunStep, PassGate, GateConflict, BodyFails, StepSnapshot, Suspend,
         CloseSnapshot, BodyUnchanged, faults
<1>2. TypeOK /\ at \in Nat \ {0} /\ state \in Doc /\ state' \in Doc
  BY DEF Inv, TypeOK
<1>3. Len(body) \in Nat
  BY BodyAssumption DEF Inv, TypeOK
<1>4. CASE Assign \/ SkipStep \/ PassGate
  <2>1. /\ pc = "body" /\ pc' = "body" /\ at' = at + 1 /\ at \in 1..Len(body)
    BY <1>2, <1>3, <1>4 DEF Assign, SkipStep, PassGate, AtKind
  <2>2. ASSUME NEW f \in Plain(body) PROVE Leads(body, audit, f, at, state[f], state'[f])
    <3>1. f \in Field
      BY DEF Plain
    <3>2. CASE Assign
      <4>1. /\ body[at].kind = "assign" /\ body[at].field \in Field
            /\ state' = [state EXCEPT ![body[at].field] = body[at].value]
        BY <1>2, <2>1, <3>2, InstructionIs DEF Assign, AtKind
      <4>2. state'[f] = IF f = body[at].field THEN body[at].value ELSE state[f]
        BY <1>2, <3>1, <4>1 DEF Doc
      <4>. QED BY <4>1, <4>2 DEF Leads
    <3>3. CASE SkipStep
      <4>1. body[at].kind = "step" /\ state' = state
        BY <3>3 DEF SkipStep, AtKind
      <4>. QED BY <4>1 DEF Leads
    <3>4. CASE PassGate
      <4>1. body[at].kind = "gate" /\ Again(audit, at, state)[Len(audit)] = state'
        BY <3>4, AppliedAgainIs DEF PassGate, AtKind
      <4>. QED BY <1>2, <4>1 DEF Leads
    <3>. QED BY <1>4, <3>2, <3>3, <3>4
  <2>3. ASSUME raises = 0 PROVE ArrivesAll(body, audit, at', state')
    <3>1. ArrivesAll(body, audit, at, state)
      BY <2>1, <2>3 DEF Traces
    <3>2. ASSUME NEW f \in Plain(body) PROVE Arrives(body, audit, f, at', state'[f])
      <4>1. Arrives(body, audit, f, at, state[f]) /\ Leads(body, audit, f, at, state[f], state'[f])
        BY <2>2, <3>1 DEF ArrivesAll
      <4>2. PICK next, v : next = at' /\ v = state'[f]
        OBVIOUS
      <4>3. next = at + 1 /\ Leads(body, audit, f, at, state[f], v)
        BY <2>1, <4>1, <4>2
      <4>4. Arrives(body, audit, f, next, v)
        BY <1>2, <4>1, <4>3, ArrivesNext
      <4>. QED BY <4>2, <4>4
    <3>. QED BY <3>2 DEF ArrivesAll
  <2>. QED BY <1>1, <2>1, <2>3, TracesSame
<1>5. CASE RunStep
  <2>1. /\ pc = "body" /\ pc' = "snapshot" /\ at' = at /\ at \in 1..Len(body)
        /\ body[at].kind = "step"
        /\ state' = [state EXCEPT ![body[at].field] = body[at].value]
    BY <1>2, <1>3, <1>5 DEF RunStep, AtKind, Goto
  <2>2. ASSUME NEW f \in Plain(body) PROVE state'[f] = state[f]
    <3>1. f \in Field /\ f # body[at].field
      BY <2>1 DEF Plain
    <3>. QED BY <1>2, <2>1, <3>1 DEF Doc
  <2>3. raises = 0 => ArrivesAll(body, audit, at', state')
    BY <2>1, <2>2 DEF Traces, ArrivesAll
  <2>. QED BY <1>1, <2>1, <2>3, TracesSame
<1>6. CASE StepSnapshot
  <2>1. /\ pc = "snapshot" /\ pc' = "body" /\ at' = at + 1 /\ state' = state
        /\ body[at].kind = "step"
    BY <1>6 DEF StepSnapshot, Goto, Course
  <2>2. ASSUME raises = 0, NEW f \in Plain(body) PROVE Arrives(body, audit, f, at', state[f])
    <3>1. Arrives(body, audit, f, at, state[f]) /\ Leads(body, audit, f, at, state[f], state[f])
      BY <2>1, <2>2 DEF Traces, ArrivesAll, Leads
    <3>2. PICK next : next = at'
      OBVIOUS
    <3>3. Arrives(body, audit, f, next, state[f])
      BY <1>2, <2>1, <3>1, <3>2, ArrivesNext
    <3>. QED BY <3>2, <3>3
  <2>3. raises = 0 => ArrivesAll(body, audit, at', state')
    BY <2>1, <2>2 DEF ArrivesAll
  <2>. QED BY <1>1, <2>1, <2>3, TracesSame
<1>7. CASE Suspend
  <2>1. pc = "body" /\ pc' = "suspend" /\ at' = at /\ committed' = state
    BY <1>7 DEF Suspend, AtKind, Goto, Snapshot
  <2>2. raises = 0 => ArrivesAll(body, audit, at', committed')
    BY <2>1 DEF Traces
  <2>. QED BY <1>1, <2>1, <2>2, TracesSame
<1>8. CASE GateConflict \/ BodyFails \/ CloseSnapshot
  <2>1. pc' \in {"fail", "COMPLETED", "FAILED"}
    BY <1>8 DEF GateConflict, BodyFails, CloseSnapshot, Goto, Outcome
  <2>. QED BY <1>1, <2>1, TracesSame
<1>. QED BY <1>4, <1>5, <1>6, <1>7, <1>8

\* The record of a pause names the place of the snapshot that was just taken.
LEMMA TracesPut ==
  ASSUME Inv, Course, Traces, SuspendPut \/ ClosePut
  PROVE  Traces'
<1>1. UNCHANGED <<body, audit, raises, committed>> /\ pc' = "off"
  BY DEF SuspendPut, ClosePut, Leave, Goto, faults
<1>2. CASE SuspendPut
  <2>1. pc = "suspend" /\ run'.pos = at
    BY <1>2 DEF SuspendPut
  <2>. QED BY <1>1, <2>1, TracesSame DEF Traces
<1>3. CASE ClosePut
  <2>1. run'.status # "PAUSED"
    BY <1>3, CourseClosePut
  <2>. QED BY <1>1, <2>1, TracesSame
<1>. QED BY <1>2, <1>3

\* A decision is of what the paused run has committed, and of no gate before it.
LEMMA TracesDecide ==
  ASSUME Inv, Course, Traces, NEW p \in Patching, Decide(p)
  PROVE  Traces'
<1>1. PICK r \in Decision :
        /\ audit' = Append(audit, r)
        /\ r.pos = run.pos /\ r.before = Loaded
        /\ run.status = "PAUSED" /\ DOMAIN snaps # {}
  BY CourseDecide
<1>2. UNCHANGED <<body, run, committed, raises>> /\ pc' = "decided"
  BY DEF Decide, DecideUnchanged, Goto, faults
<1>3. audit \in Seq(Decision) /\ run.pos \in Nat
  BY DEF Inv, TypeOK
<1>4. SUFFICES ASSUME raises = 0 PROVE Traces'
  BY <1>2 DEF Traces
<1>5. Loaded = committed
  BY <1>1, <1>4 DEF Inv, Store
<1>6. ASSUME NEW pos, NEW d, ArrivesAll(body, audit, pos, d),
             \A k \in 1..(pos - 1) : body[k].kind = "gate" => k # run.pos
      PROVE  ArrivesAll(body, audit', pos, d)
  <2>1. \A k \in 1..(pos - 1) : body[k].kind = "gate" => k # r.pos
    BY <1>1, <1>6
  <2>2. ASSUME NEW f \in Plain(body) PROVE Arrives(body, Append(audit, r), f, pos, d[f])
    <3>1. Arrives(body, audit, f, pos, d[f])
      BY <1>6 DEF ArrivesAll
    <3>. QED BY <1>3, <2>1, <3>1, ArrivesAppend
  <2>. QED BY <1>1, <2>2 DEF ArrivesAll
<1>7. ArrivesAll(body, audit', run.pos, committed)
  <2>1. ArrivesAll(body, audit, run.pos, committed)
    BY <1>1, <1>4 DEF Traces
  <2>2. \A k \in 1..(run.pos - 1) : k # run.pos
    BY <1>3
  <2>. QED BY <1>6, <2>1, <2>2
<1>8. ASSUME NEW i \in DOMAIN audit
      PROVE  ArrivesAll(body, audit', audit[i].pos, audit[i].before)
  <2>1. ArrivesAll(body, audit, audit[i].pos, audit[i].before)
    BY <1>4 DEF Traces
  <2>2. audit[i].pos \in 1..Len(body) /\ Len(body) \in Nat
    BY BodyAssumption DEF Course, Inv, TypeOK
  <2>3. ASSUME NEW k \in 1..(audit[i].pos - 1), body[k].kind = "gate" PROVE k # run.pos
    <3>1. body[run.pos].kind = "gate" => audit[i].pos <= run.pos
      BY <1>1 DEF Course
    <3>2. k < audit[i].pos
      BY <2>2
    <3>. QED BY <1>3, <2>2, <2>3, <3>1, <3>2
  <2>. QED BY <1>6, <2>1, <2>3
<1>9. ASSUME NEW i \in DOMAIN audit'
      PROVE  ArrivesAll(body, audit', audit'[i].pos, audit'[i].before)
  <2>1. (i \in DOMAIN audit /\ audit'[i] = audit[i]) \/ audit'[i] = r
    BY <1>1, <1>3
  <2>2. CASE i \in DOMAIN audit /\ audit'[i] = audit[i]
    BY <1>8, <2>2
  <2>3. CASE audit'[i] = r
    BY <1>1, <1>5, <1>7, <2>3
  <2>. QED BY <2>1, <2>2, <2>3
<1>. QED BY <1>2, <1>7, <1>9 DEF Traces

\* Steps after which the run is not paused, or is as it was.
LEMMA TracesIdle ==
  ASSUME Inv, Course, Traces,
         \/ (\E p \in Patching : DecideRaises(p)) \/ Start \/ Crash \/ Restart \/ UNCHANGED vars
         \/ DecideSave \/ PersistNothing \/ Persist
  PROVE  Traces'
<1>1. CASE DecideSave \/ PersistNothing \/ Persist
  <2>1. UNCHANGED <<body, audit, raises>> /\ pc' \in {"saved", "open"}
    BY <1>1 DEF DecideSave, PersistNothing, Persist, DecideUnchanged, Resumes, Goto, faults
  <2>2. run'.status # "PAUSED"
    BY <1>1, CourseResume
  <2>. QED BY <2>1, <2>2, TracesSame
<1>2. CASE \/ (\E p \in Patching : DecideRaises(p)) \/ Start \/ Crash \/ Restart
           \/ UNCHANGED vars
  <2>1. UNCHANGED <<body, audit, run, committed>>
    BY <1>2, CourseIdle
  <2>2. raises' = raises
    BY <1>2 DEF DecideRaises, DecideUnchanged, Start, Crash, Restart, vars, faults
  <2>3. pc' \in {"off", "open"} \/ UNCHANGED <<pc, at, state>>
    BY <1>2 DEF DecideRaises, DecideUnchanged, Start, Crash, Restart, Die, Leave, Goto, vars,
                context
  <2>. QED BY <2>1, <2>2, <2>3, TracesSame DEF Traces
<1>. QED BY <1>1, <1>2

\* After a write that raises nothing is promised.
LEMMA TracesFault ==
  ASSUME Inv, StepSnapshotRaises \/ SuspendRaises \/ CloseSnapshotRaises \/ PersistRaises
  PROVE  Traces'
<1>1. raises' = raises + 1 /\ raises \in Nat
  BY DEF StepSnapshotRaises, SuspendRaises, CloseSnapshotRaises, PersistRaises, SnapshotRaises,
         Inv, TypeOK
<1>. QED BY <1>1 DEF Traces

\* Every step.
LEMMA NextTraces ==
  ASSUME Inv, Inv', Course, Traces, [Next]_vars
  PROVE  Traces'
<1>1. CASE OpenPending \/ OpenFresh \/ OpenLoaded \/ OpenFails
  BY <1>1, TracesOpen
<1>2. CASE \/ Assign \/ SkipStep \/ RunStep \/ PassGate \/ GateConflict \/ BodyFails
           \/ StepSnapshot \/ Suspend \/ CloseSnapshot
  BY <1>2, TracesBody
<1>3. CASE SuspendPut \/ ClosePut
  BY <1>3, TracesPut
<1>4. CASE \E p \in Patches \cup {NoPatch} : Decide(p) \/ DecideRaises(p)
  BY <1>4, TracesDecide, TracesIdle DEF Patching
<1>5. CASE \/ Start \/ Crash \/ Restart \/ UNCHANGED vars
           \/ DecideSave \/ PersistNothing \/ Persist
  BY <1>5, TracesIdle
<1>6. CASE StepSnapshotRaises \/ SuspendRaises \/ CloseSnapshotRaises \/ PersistRaises
  BY <1>6, TracesFault
<1>. QED BY <1>1, <1>2, <1>3, <1>4, <1>5, <1>6 DEF Next

\* A gate that was decided once has one entry.
LEMMA OneDecision ==
  ASSUME TypeOK, NEW pos, DecidedOnce(pos), NEW i \in DOMAIN audit, audit[i].pos = pos
  PROVE  \A j \in DOMAIN audit : audit[j].pos = pos <=> j = i
<1> DEFINE S == {j \in DOMAIN audit : audit[j].pos = pos}
<1>1. DOMAIN audit = 1..Len(audit) /\ Len(audit) \in Nat
  BY DEF TypeOK
<1>2. IsFiniteSet(S)
  <2>1. IsFiniteSet(1..Len(audit))
    BY <1>1, FS_Interval
  <2>. QED BY <1>1, <2>1, FS_Subset
<1>3. Cardinality(S) = 1
  BY DEF DecidedOnce
<1>4. i \in S
  OBVIOUS
<1> HIDE DEF S
<1>5. \E x : S = {x}
  BY <1>2, <1>3, FS_Singleton
<1>6. S = {i}
  BY <1>4, <1>5
<1>. QED BY <1>6 DEF S

\* At a gate that was decided once, the state of an execution is, in the fields that every
\* execution assigns anew, the one that was decided on.
LEMMA StepReproduces ==
  ASSUME Inv, ReplayInv, raises = 0, DecidedOnce(at)
  PROVE  Reproduced(Reassigned(at))
<1>1. SUFFICES ASSUME NEW i \in DOMAIN audit, audit[i].pos = at, GateConflict \/ PassGate
               PROVE  /\ GateConflict => audit[i].patch.field \notin Reassigned(at)
                      /\ PassGate => \A f \in Reassigned(at) : state'[f] = audit[i].after[f]
  BY DEF Reproduced
<1> DEFINE p == audit[i].patch
           b == audit[i].before
<1>2. /\ pc = "body" /\ TypeOK /\ at \in Nat /\ state \in Doc /\ audit \in Seq(Decision)
      /\ p \in Patching /\ b \in Doc
  <2>1. audit[i] \in Decision
    BY DEF Inv, TypeOK
  <2>. QED BY <1>1, <2>1 DEF PassGate, GateConflict, AtKind, Inv, TypeOK, Decision
<1>3. Applies(p, b) /\ audit[i].after = Applied(p, b)
  BY DEF ReplayInv, Recorded, Edits
<1>4. /\ AppliedAgain(at, state) = IF Applies(p, state) THEN Applied(p, state) ELSE Broken
  <2>1. \A j \in DOMAIN audit : audit[j].pos = at <=> j = i
    BY <1>1, <1>2, OneDecision
  <2>2. AppliedAgain(at, state) = Again(audit, at, state)[Len(audit)]
    BY AppliedAgainIs
  <2>. QED BY <1>2, <2>1, <2>2, AgainOnce
<1>5. ArrivesAll(body, audit, at, state) /\ ArrivesAll(body, audit, at, b)
  BY <1>1, <1>2 DEF ReplayInv, Traces
<1>6. ASSUME NEW f \in Reassigned(at) PROVE f \in Field /\ state[f] = b[f]
  <2>1. Len(body) \in Nat
    BY BodyAssumption DEF Inv, TypeOK
  <2>2. PICK j \in 1..(at - 1) : body[j].kind = "assign" /\ body[j].field = f
    BY <1>6 DEF Reassigned, WrittenBefore
  <2>3. \A k \in 1..(Len(body) + 1 - 1) : body[k].kind = "step" => body[k].field # f
    BY <1>6 DEF Reassigned, WrittenBefore
  <2>4. f \in Field
    <3>1. GateConflict \/ PassGate => at <= Len(body)
      BY DEF GateConflict, PassGate, AtKind
    <3>2. j \in 1..Len(body)
      BY <1>1, <1>2, <2>1, <3>1
    <3>. QED BY <1>2, <2>2, <3>2, InstructionIs
  <2>5. f \in Plain(body)
    BY <2>1, <2>3, <2>4 DEF Plain
  <2>6. Arrives(body, audit, f, at, state[f]) /\ Arrives(body, audit, f, at, b[f])
    BY <1>5, <2>5 DEF ArrivesAll
  <2>. QED BY <1>2, <2>2, <2>4, <2>6, ArrivesOnce
<1> HIDE DEF p, b
<1>7. ASSUME GateConflict PROVE p.field \notin Reassigned(at)
  <2>1. ~Applies(p, state)
    <3>1. AppliedAgain(at, state) = Broken
      BY <1>7 DEF GateConflict
    <3>2. Applies(p, state) => Applied(p, state) # Broken
      BY <1>2, AppliedType, DocIsNotBroken
    <3>. QED BY <1>4, <3>1, <3>2
  <2>2. state[p.field] # b[p.field]
    BY <1>3, <2>1 DEF Applies
  <2>. QED BY <1>6, <2>2
<1>8. ASSUME PassGate, NEW f \in Reassigned(at) PROVE state'[f] = audit[i].after[f]
  <2>1. state' = Applied(p, state)
    BY <1>4, <1>8 DEF PassGate
  <2>2. f \in Field /\ state[f] = b[f]
    BY <1>6
  <2>3. Applied(p, state)[f] = Applied(p, b)[f]
    BY <1>2, <2>2, AppliedField
  <2>. QED BY <1>3, <2>1, <2>3
<1>. QED BY <1>7, <1>8 DEF p

\* Every later execution reproduces, at a gate that was decided once, the state that the
\* reviewer left in the fields that every execution assigns anew.
THEOREM EditsAreReproduced == Spec => EditReproduced
<1>1. Spec => []KeptInv
  BY InitKept, NextKept, StoreInvariant, PTL DEF Spec
<1>2. KeptInv => Recorded
  BY DEF KeptInv
<1>3. Spec => []Course
  BY InitCourse, NextCourse, StoreInvariant, PTL DEF Spec
<1>4. Spec => []Traces
  BY <1>3, InitTraces, NextTraces, StoreInvariant, PTL DEF Spec
<1>5. Inv /\ Recorded /\ Course /\ Traces /\ [Next]_vars =>
        [raises = 0 /\ DecidedOnce(at) => Reproduced(Reassigned(at))]_vars
  BY StepReproduces DEF ReplayInv
<1>. QED BY <1>1, <1>2, <1>3, <1>4, <1>5, StoreInvariant, PTL DEF Spec, EditReproduced

================================================================================
