---------------------------- MODULE RedactionProofs ----------------------------
(***************************************************************************)
(* For any keys, values, patches and limits: what is stored reads as the   *)
(* live document, redacted; it is clean; its references resolve; and a     *)
(* decision is about one document.                                         *)
(*                                                                         *)
(* The proofs go up along the data.  A scan of a text has an invariant     *)
(* over its positions (Scanned, Placed); the entries of a dict are a       *)
(* recursion over the dict (Row); one node of a value has what its members *)
(* have become (Becomes, ReadBy, Remakes); a value is a node at each of    *)
(* the three depths of a document (Walk0 to Walk2).  The run has two       *)
(* invariants: what is live is a document, and what is stored is Strip of  *)
(* one (DataInv); and what is on record of a decision follows from the     *)
(* patch that was sent (DecisionInv).                                      *)
(***************************************************************************)
EXTENDS Redaction, SequenceTheorems, FiniteSetTheorems, WellFoundedInduction, TLAPS

(***************************************************************************)
(* Induction over an interval of integers, from the library's least        *)
(* element of a well-founded set.                                          *)
(***************************************************************************)

\* The order of the naturals has no infinite descent.
LEMMA LessIsWellFounded == IsWellFoundedOn({ss \in Nat \X Nat : ss[1] < ss[2]}, Nat)
BY NatLessThanWellFounded, SMT DEF OpToRel

\* A set of naturals that is not empty has a least element.
LEMMA LeastExists ==
  ASSUME NEW S \in SUBSET Nat, S # {}
  PROVE  \E n \in S : \A m \in S : n <= m
<1> DEFINE R == {ss \in Nat \X Nat : ss[1] < ss[2]}
<1>1. IsWellFoundedOn(R, Nat)
  BY LessIsWellFounded
<1> HIDE DEF R
<1>2. PICK x \in S : \A y \in S : ~ (<<y, x>> \in R)
  BY <1>1, WFMin, Zenon
<1>3. \A y \in S : ~ (y < x)
  <2> TAKE y \in S
  <2>1. <<y, x>> \in R <=> y < x
    BY DEF R
  <2>. QED BY <1>2, <2>1
<1>. QED BY <1>3

\* Induction from a to b: what holds of a, and of n + 1 if of n, holds up to b.
LEMMA UpInduction ==
  ASSUME NEW a \in Int, NEW b \in Int, NEW S,
         a \in S, \A n \in a..(b - 1) : n \in S => n + 1 \in S
  PROVE  \A n \in a..b : n \in S
<1> DEFINE Out == {k \in Nat : a + k <= b /\ a + k \notin S}
<1>1. SUFFICES ASSUME Out # {} PROVE FALSE
  <2>1. ASSUME NEW n \in a..b, n \notin S PROVE FALSE
    <3>1. n - a \in Nat /\ a + (n - a) = n
      BY <2>1
    <3>2. n - a \in Out
      BY <2>1, <3>1
    <3>. QED BY <1>1, <3>2
  <2>. QED BY <2>1
<1>2. PICK k \in Out : \A m \in Out : k <= m
  BY <1>1, LeastExists
<1>3. k # 0
  BY <1>2
<1>4. k - 1 \in Nat /\ k - 1 \notin Out
  BY <1>2, <1>3
<1>5. a + (k - 1) \in S /\ a + (k - 1) \in a..(b - 1)
  BY <1>2, <1>4
<1>6. a + (k - 1) + 1 = a + k
  BY <1>2
<1>. QED BY <1>2, <1>5, <1>6

(***************************************************************************)
(* Texts: what a scan for random tokens leaves.                            *)
(***************************************************************************)

\* FlattenSeq's recursion.
IsLaid(p, g) == g = [i \in 1..Len(p) |-> IF i = 1 THEN p[i] ELSE g[i - 1] \o p[i]]

Laid(p) == CHOOSE g : IsLaid(p, g)

\* The recursion has a solution.
LEMMA LaidExists ==
  ASSUME NEW p, Len(p) \in Nat
  PROVE  IsLaid(p, Laid(p))
<1> DEFINE val(g, i) == IF i = 1 THEN p[i] ELSE g[i - 1] \o p[i]
           upTo(n, g) == g = [i \in 1..n |-> val(g, i)]
           S == {n \in Nat : \E g : upTo(n, g)}
<1>1. 0 \in S
  <2> DEFINE g == [i \in 1..0 |-> 0]
  <2>1. upTo(0, g)
    OBVIOUS
  <2> HIDE DEF upTo, g
  <2>. QED BY <2>1
<1>2. ASSUME NEW n \in 0..(Len(p) - 1), n \in S PROVE n + 1 \in S
  <2>1. PICK g : upTo(n, g)
    BY <1>2
  <2> DEFINE h == [i \in 1..(n + 1) |-> IF i = n + 1 THEN val(g, i) ELSE g[i]]
  <2>2. n \in Nat /\ n + 1 \in Nat
    OBVIOUS
  <2>3. ASSUME NEW i \in 1..(n + 1) PROVE h[i] = val(h, i)
    <3>1. h[i] = val(g, i)
      <4> HIDE DEF val
      <4>1. i # n + 1 => i \in 1..n
        BY <2>2
      <4>2. \A k \in 1..n : g[k] = val(g, k)
        BY <2>1
      <4>. QED BY <4>1, <4>2
    <3>2. CASE i = 1
      BY <3>1, <3>2
    <3>3. CASE i # 1
      <4>1. i - 1 \in 1..n
        BY <2>2, <2>3, <3>3
      <4>2. h[i - 1] = g[i - 1]
        BY <2>2, <4>1
      <4>. QED BY <3>1, <3>3, <4>2
    <3>. QED BY <3>2, <3>3
  <2>4. h = [i \in 1..(n + 1) |-> val(h, i)]
    <3> HIDE DEF val
    <3>. QED BY <2>3
  <2>5. upTo(n + 1, h)
    BY <2>4
  <2> HIDE DEF upTo, h
  <2>. QED BY <2>2, <2>5
<1>3. Len(p) \in S
  <2> HIDE DEF S
  <2>0. 0 \in Int /\ Len(p) \in Int
    OBVIOUS
  <2>1. \A n \in 0..Len(p) : n \in S
    BY <1>1, <1>2, <2>0, UpInduction
  <2>. QED BY <2>1
<1>4. \E g : IsLaid(p, g)
  BY <1>3 DEF IsLaid
<1>. QED BY <1>4 DEF Laid

\* One piece after another.
LEMMA LaidStep ==
  ASSUME NEW p, Len(p) \in Nat, NEW i \in 1..Len(p)
  PROVE  Laid(p)[i] = IF i = 1 THEN p[i] ELSE Laid(p)[i - 1] \o p[i]
<1> DEFINE g == Laid(p)
<1>1. IsLaid(p, g)
  BY LaidExists
<1> HIDE DEF g
<1>2. g[i] = IF i = 1 THEN p[i] ELSE g[i - 1] \o p[i]
  BY <1>1 DEF IsLaid
<1>. QED BY <1>2 DEF g

LEMMA FlattenIsLaid ==
  ASSUME NEW p, Len(p) # 0
  PROVE  FlattenSeq(p) = Laid(p)[Len(p)]
BY DEF FlattenSeq, Laid, IsLaid

\* Candidates side by side are in one run.
LEMMA RunsJoin ==
  ASSUME NEW S, NEW t \in Seq(S), NEW p \in 2..Len(t), IsCandidate(t[p - 1]), IsCandidate(t[p])
  PROVE  Run(t, p - 1) = Run(t, p)
<1> DEFINE c == {k \in 1..Len(t) : IsCandidate(t[k])}
<1>1. \A k \in 1..Len(t) : IsCandidate(t[k]) <=> k \in c
  OBVIOUS
<1>2. \A i : Run(t, i) = {j \in 1..Len(t) : \A k \in 1..Len(t) :
                            (i <= k /\ k <= j) \/ (j <= k /\ k <= i) => k \in c}
  BY <1>1 DEF Run
<1>3. p - 1 \in c /\ p \in c /\ c \subseteq 1..Len(t) /\ p \in Int /\ Len(t) \in Int
  OBVIOUS
<1> HIDE DEF c
<1>4. ASSUME NEW j \in 1..Len(t)
      PROVE  (\A k \in 1..Len(t) : (p - 1 <= k /\ k <= j) \/ (j <= k /\ k <= p - 1) => k \in c)
         <=> (\A k \in 1..Len(t) : (p <= k /\ k <= j) \/ (j <= k /\ k <= p) => k \in c)
  <2>1. ASSUME NEW k \in 1..Len(t),
               \A l \in 1..Len(t) : (p - 1 <= l /\ l <= j) \/ (j <= l /\ l <= p - 1) => l \in c,
               (p <= k /\ k <= j) \/ (j <= k /\ k <= p)
        PROVE  k \in c
    BY <1>3, <2>1
  <2>2. ASSUME NEW k \in 1..Len(t),
               \A l \in 1..Len(t) : (p <= l /\ l <= j) \/ (j <= l /\ l <= p) => l \in c,
               (p - 1 <= k /\ k <= j) \/ (j <= k /\ k <= p - 1)
        PROVE  k \in c
    BY <1>3, <2>2
  <2>. QED BY <2>1, <2>2
<1>. QED BY <1>2, <1>4

\* What is next to a candidate that stays also stays.
LEMMA NeighboursStay ==
  ASSUME NEW S, NEW t \in Seq(S), NEW p \in 2..Len(t)
  PROVE  /\ IsCandidate(t[p]) /\ ~IsRandom(t, p) => ~IsRandom(t, p - 1)
         /\ IsCandidate(t[p - 1]) /\ ~IsRandom(t, p - 1) => ~IsRandom(t, p)
<1>1. ASSUME NEW i \in 1..Len(t), ~IsCandidate(t[i]) PROVE ~IsRandom(t, i)
  <2>1. Run(t, i) = {}
    BY <1>1 DEF Run
  <2>. QED BY <2>1 DEF IsRandom
<1>2. CASE IsCandidate(t[p - 1]) /\ IsCandidate(t[p])
  <2>1. Run(t, p - 1) = Run(t, p)
    BY <1>2, RunsJoin
  <2>. QED BY <2>1 DEF IsRandom
<1>3. CASE ~(IsCandidate(t[p - 1]) /\ IsCandidate(t[p]))
  <2>1. p \in 1..Len(t) /\ p - 1 \in 1..Len(t)
    OBVIOUS
  <2>. QED BY <1>1, <1>3, <2>1
<1>. QED BY <1>2, <1>3

\* What replaces a random run that begins at position i.
Span(t, i) == Placeholder("entropy", SubSeq(t, i, Max(Run(t, i))))

Lexemes(t) == ToSet(t) \cup {Span(t, i) : i \in 1..Len(t)}

Pieces(t) == [i \in DOMAIN t |-> Sublayer2(t, i)]

Scan(t) == FlattenSeq(Pieces(t))

\* Of the first n positions of t a scan has made u, where position q was p, and is beside
\* what p was beside.
From(t, n, u, q, p) ==
  /\ u[q] = t[p] /\ ~IsRandom(t, p)
  /\ IsCandidate(t[p]) =>
       /\ p > 1 => q > 1 /\ u[q - 1] = t[p - 1]
       /\ p < n => q < Len(u) /\ u[q + 1] = t[p + 1]
       /\ p = n => q = Len(u)

\* Of the first n positions of t a scan has made u.
Scanned(t, n, u) ==
  /\ u \in Seq(Lexemes(t)) /\ Len(u) \in 1..n
  /\ \A q \in 1..Len(u) : Kind(u[q]) = "redacted" \/ \E p \in q..n : From(t, n, u, q, p)
  /\ \A p \in 1..n : ~IsRandom(t, p) => \E q \in 1..Len(u) : u[q] = t[p]
  /\ ~IsRandom(t, n) => u[Len(u)] = t[n]

\* A piece has one lexeme at most, and the first one has one.
LEMMA PieceIs ==
  ASSUME NEW S, NEW t \in Seq(S), NEW i \in 1..Len(t)
  PROVE  /\ ~IsRandom(t, i) => Sublayer2(t, i) = <<t[i]>>
         /\ IsRandom(t, i) =>
              \/ i # 1 /\ Sublayer2(t, i) = <<>>
              \/ Sublayer2(t, i) = <<Span(t, i)>>
         /\ t[i] \in Lexemes(t) /\ Span(t, i) \in Lexemes(t)
         /\ Kind(Span(t, i)) = "redacted"
<1>1. 0 \notin Run(t, 1)
  BY DEF Run
<1>2. t[i] \in Lexemes(t) /\ Span(t, i) \in Lexemes(t)
  BY DEF Lexemes, ToSet
<1>3. Kind(Span(t, i)) = "redacted"
  BY DEF Span, Kind, Placeholder
<1>. QED BY <1>1, <1>2, <1>3 DEF Sublayer2, Span

\* A piece of one lexeme more.
LEMMA ScanTakes ==
  ASSUME NEW S, NEW t \in Seq(S), NEW n \in 1..(Len(t) - 1), NEW u, Scanned(t, n, u),
         NEW x \in Lexemes(t),
         IF IsRandom(t, n + 1) THEN Kind(x) = "redacted" ELSE x = t[n + 1]
  PROVE  Scanned(t, n + 1, u \o <<x>>)
<1> DEFINE w == u \o <<x>>
           R == {p \in 1..Len(t) : IsRandom(t, p)}
           C == {p \in 1..Len(t) : IsCandidate(t[p])}
<1>1. u \in Seq(Lexemes(t)) /\ Len(u) \in 1..n
  BY DEF Scanned
<1>2. /\ w \in Seq(Lexemes(t)) /\ Len(w) = Len(u) + 1
      /\ \A q \in 1..Len(u) : w[q] = u[q]
      /\ w[Len(u) + 1] = x
  BY <1>1
<1>3. n + 1 \in 2..Len(t) /\ n \in 1..Len(t) /\ n + 1 - 1 = n /\ n \in Nat
  OBVIOUS
<1>4. /\ n \in C /\ n \notin R => n + 1 \notin R
      /\ n + 1 \in C /\ n + 1 \notin R => n \notin R
  <2>1. PICK m : m = n + 1
    OBVIOUS
  <2>2. m \in 2..Len(t) /\ m - 1 = n
    BY <1>3, <2>1
  <2>3. /\ IsCandidate(t[m]) /\ ~IsRandom(t, m) => ~IsRandom(t, m - 1)
        /\ IsCandidate(t[m - 1]) /\ ~IsRandom(t, m - 1) => ~IsRandom(t, m)
    BY <2>2, NeighboursStay
  <2>. QED BY <1>3, <2>1, <2>2, <2>3
<1>5. \A p \in 1..Len(t) : (IsRandom(t, p) <=> p \in R) /\ (IsCandidate(t[p]) <=> p \in C)
  OBVIOUS
<1>6. n + 1 \notin R => x = t[n + 1]
  BY <1>3, <1>5
<1>7. n + 1 \in R => Kind(x) = "redacted"
  BY <1>3, <1>5
<1> HIDE DEF w, R, C
<1>8. ~IsRandom(t, n) => u[Len(u)] = t[n]
  BY DEF Scanned
<1>9. ASSUME NEW q \in 1..Len(u), NEW p \in q..n, From(t, n, u, q, p)
      PROVE  From(t, n + 1, w, q, p)
  <2>1. p \in 1..n /\ p \in 1..Len(t) /\ q \in Nat
    BY <1>1, <1>3
  <2>2. w[q] = t[p] /\ p \notin R
    BY <1>2, <1>5, <1>9, <2>1 DEF From
  <2>3. ASSUME p \in C, p > 1 PROVE q > 1 /\ w[q - 1] = t[p - 1]
    <3>1. q > 1 /\ u[q - 1] = t[p - 1]
      BY <1>5, <1>9, <2>1, <2>3 DEF From
    <3>2. q - 1 \in 1..Len(u)
      BY <1>1, <3>1
    <3>. QED BY <1>2, <3>1, <3>2
  <2>4. ASSUME p \in C, p < n + 1 PROVE q < Len(w) /\ w[q + 1] = t[p + 1]
    <3>1. CASE p < n
      <4>1. q < Len(u) /\ u[q + 1] = t[p + 1]
        BY <1>5, <1>9, <2>1, <2>4, <3>1 DEF From
      <4>2. q + 1 \in 1..Len(u)
        BY <1>1, <4>1
      <4>. QED BY <1>1, <1>2, <4>1, <4>2
    <3>2. CASE p = n
      <4>1. q = Len(u)
        BY <1>5, <1>9, <2>1, <2>4, <3>2 DEF From
      <4>2. x = t[p + 1]
        BY <1>4, <1>6, <2>2, <2>4, <3>2
      <4>. QED BY <1>1, <1>2, <4>1, <4>2
    <3>. QED BY <1>3, <2>1, <2>4, <3>1, <3>2
  <2>5. p # n + 1
    BY <1>3, <2>1
  <2>. QED BY <1>5, <2>1, <2>2, <2>3, <2>4, <2>5 DEF From
<1>10. ASSUME n + 1 \notin R PROVE From(t, n + 1, w, Len(u) + 1, n + 1)
  <2>1. w[Len(u) + 1] = t[n + 1] /\ ~IsRandom(t, n + 1)
    BY <1>2, <1>3, <1>5, <1>6, <1>10
  <2>2. ASSUME n + 1 \in C PROVE w[Len(u) + 1 - 1] = t[n + 1 - 1]
    <3>1. ~IsRandom(t, n)
      BY <1>3, <1>4, <1>5, <1>10, <2>2
    <3>2. Len(u) \in 1..Len(u) /\ Len(u) + 1 - 1 = Len(u)
      BY <1>1
    <3>. QED BY <1>2, <1>3, <1>8, <3>1, <3>2
  <2>3. Len(u) + 1 > 1 /\ ~(n + 1 < n + 1) /\ Len(u) + 1 = Len(w)
    BY <1>1, <1>2, <1>3
  <2>. QED BY <1>3, <1>5, <2>1, <2>2, <2>3 DEF From
<1>11. ASSUME NEW q \in 1..Len(w)
       PROVE  Kind(w[q]) = "redacted" \/ \E p \in q..(n + 1) : From(t, n + 1, w, q, p)
  <2>1. CASE q \in 1..Len(u)
    <3>1. Kind(u[q]) = "redacted" \/ \E p \in q..n : From(t, n, u, q, p)
      BY <2>1 DEF Scanned
    <3>2. ASSUME NEW p \in q..n, From(t, n, u, q, p)
          PROVE  p \in q..(n + 1) /\ From(t, n + 1, w, q, p)
      BY <1>3, <1>9, <2>1, <3>2
    <3>. QED BY <1>2, <2>1, <3>1, <3>2
  <2>2. CASE q = Len(u) + 1
    <3>1. CASE n + 1 \in R
      BY <1>2, <1>7, <2>2, <3>1
    <3>2. CASE n + 1 \notin R
      <4>1. n + 1 \in q..(n + 1)
        BY <1>1, <1>3, <2>2
      <4>2. From(t, n + 1, w, q, n + 1)
        BY <1>10, <2>2, <3>2
      <4>. QED BY <4>1, <4>2
    <3>. QED BY <3>1, <3>2
  <2>. QED BY <1>1, <1>2, <2>1, <2>2
<1>12. ASSUME NEW p \in 1..(n + 1), ~IsRandom(t, p) PROVE \E q \in 1..Len(w) : w[q] = t[p]
  <2>1. CASE p \in 1..n
    <3>1. PICK q \in 1..Len(u) : u[q] = t[p]
      BY <1>12, <2>1 DEF Scanned
    <3>2. q \in 1..Len(w)
      BY <1>1, <1>2
    <3>. QED BY <1>2, <3>1, <3>2
  <2>2. CASE p = n + 1
    <3>1. p \notin R
      BY <1>3, <1>5, <1>12, <2>2
    <3>2. Len(u) + 1 \in 1..Len(w)
      BY <1>1, <1>2
    <3>. QED BY <1>2, <1>6, <2>2, <3>1, <3>2
  <2>. QED BY <1>3, <2>1, <2>2
<1>13. ~IsRandom(t, n + 1) => w[Len(w)] = t[n + 1]
  BY <1>2, <1>3, <1>5, <1>6
<1>14. Len(w) \in 1..(n + 1)
  BY <1>1, <1>2
<1>15. Scanned(t, n + 1, w)
  BY <1>2, <1>11, <1>12, <1>13, <1>14 DEF Scanned
<1>. QED BY <1>15 DEF w

\* A piece that is empty.
LEMMA ScanDrops ==
  ASSUME NEW S, NEW t \in Seq(S), NEW n \in 1..(Len(t) - 1), NEW u, Scanned(t, n, u),
         IsRandom(t, n + 1)
  PROVE  Scanned(t, n + 1, u)
<1>1. u \in Seq(Lexemes(t)) /\ Len(u) \in 1..n /\ n \in Nat
  BY DEF Scanned
<1>2. PICK m : m = n + 1
  OBVIOUS
<1>3. m \in 2..Len(t) /\ m - 1 = n /\ IsRandom(t, m)
  BY <1>2
<1>4. ~(IsCandidate(t[n]) /\ ~IsRandom(t, n))
  <2>1. IsCandidate(t[m - 1]) /\ ~IsRandom(t, m - 1) => ~IsRandom(t, m)
    BY <1>3, NeighboursStay
  <2>. QED BY <1>3, <2>1
<1>5. ASSUME NEW q \in 1..Len(u), NEW p \in q..n, From(t, n, u, q, p)
      PROVE  From(t, m, u, q, p)
  <2>1. p \in Nat /\ p <= n /\ p # m
    BY <1>1, <1>2
  <2>2. p = n => ~IsCandidate(t[p])
    BY <1>4, <1>5 DEF From
  <2>. QED BY <1>5, <2>1, <2>2 DEF From
<1>6. ASSUME NEW q \in 1..Len(u)
      PROVE  Kind(u[q]) = "redacted" \/ \E p \in q..m : From(t, m, u, q, p)
  <2>1. \A p \in q..n : p \in q..m
    BY <1>1, <1>2
  <2>2. Kind(u[q]) = "redacted" \/ \E p \in q..n : From(t, n, u, q, p)
    BY DEF Scanned
  <2>. QED BY <1>5, <2>1, <2>2
<1>7. ASSUME NEW p \in 1..m, ~IsRandom(t, p) PROVE \E q \in 1..Len(u) : u[q] = t[p]
  <2>1. p \in 1..n
    BY <1>1, <1>2, <1>3, <1>7
  <2>. QED BY <1>7, <2>1 DEF Scanned
<1>8. Len(u) \in 1..m
  BY <1>1, <1>2
<1>9. Scanned(t, m, u)
  BY <1>1, <1>3, <1>6, <1>7, <1>8 DEF Scanned
<1>. QED BY <1>2, <1>9

\* The first piece.
LEMMA ScanBegins ==
  ASSUME NEW S, NEW t \in Seq(S), Len(t) >= 1
  PROVE  Scanned(t, 1, Sublayer2(t, 1))
<1>0. 1 \in 1..Len(t)
  OBVIOUS
<1>1. PICK x \in Lexemes(t) :
        /\ Sublayer2(t, 1) = <<x>>
        /\ IF IsRandom(t, 1) THEN Kind(x) = "redacted" ELSE x = t[1]
  BY <1>0, PieceIs
<1>2. <<x>> \in Seq(Lexemes(t)) /\ Len(<<x>>) = 1 /\ <<x>>[1] = x
  OBVIOUS
<1>3. ASSUME ~IsRandom(t, 1) PROVE From(t, 1, <<x>>, 1, 1)
  BY <1>1, <1>2, <1>3 DEF From
<1>4. 1..1 = {1}
  OBVIOUS
<1>5. ASSUME NEW q \in 1..1 PROVE Kind(<<x>>[q]) = "redacted" \/ \E p \in q..1 : From(t, 1, <<x>>, q, p)
  <2>1. q = 1 /\ 1 \in q..1
    OBVIOUS
  <2>. QED BY <1>1, <1>2, <1>3, <2>1
<1>6. ASSUME NEW p \in 1..1, ~IsRandom(t, p) PROVE \E q \in 1..1 : <<x>>[q] = t[p]
  BY <1>1, <1>2, <1>6
<1>7. ~IsRandom(t, 1) => <<x>>[1] = t[1]
  BY <1>1, <1>2
<1>8. Scanned(t, 1, <<x>>)
  BY <1>2, <1>5, <1>6, <1>7 DEF Scanned
<1>. QED BY <1>1, <1>8

\* A scan comes to the end of the text.
LEMMA ScanIs ==
  ASSUME NEW S, NEW t \in Seq(S), t # <<>>
  PROVE  Scanned(t, Len(t), Scan(t))
<1> DEFINE P == Pieces(t)
           g == Laid(P)
           G == {n \in Nat : n \in 1..Len(t) /\ Scanned(t, n, g[n])}
<1>1. /\ Len(t) \in Nat /\ Len(t) >= 1
      /\ DOMAIN P = 1..Len(t) /\ Len(P) = Len(t)
      /\ \A i \in 1..Len(t) : P[i] = Sublayer2(t, i)
  <2>1. Len(t) \in Nat /\ Len(t) >= 1 /\ DOMAIN t = 1..Len(t)
    BY EmptySeq
  <2>2. P = [i \in 1..Len(t) |-> Sublayer2(t, i)]
    BY <2>1 DEF Pieces
  <2>. QED BY <2>1, <2>2
<1> HIDE DEF P
<1>2. \A i \in 1..Len(t) : g[i] = IF i = 1 THEN Sublayer2(t, 1) ELSE g[i - 1] \o Sublayer2(t, i)
  BY <1>1, LaidStep
<1> HIDE DEF g
<1>3. 1 \in G
  BY <1>1, <1>2, ScanBegins
<1>4. ASSUME NEW n \in 1..(Len(t) - 1), n \in G PROVE n + 1 \in G
  <2>1. PICK m : m = n + 1
    OBVIOUS
  <2>2. m \in 1..Len(t) /\ m # 1 /\ m - 1 = n /\ m \in Nat
    BY <1>1, <2>1
  <2>3. g[m] = g[n] \o Sublayer2(t, m)
    BY <1>2, <2>2
  <2>4. Scanned(t, n, g[n])
    BY <1>4
  <2>5. /\ ~IsRandom(t, m) => Sublayer2(t, m) = <<t[m]>>
        /\ IsRandom(t, m) => Sublayer2(t, m) = <<>> \/ Sublayer2(t, m) = <<Span(t, m)>>
        /\ t[m] \in Lexemes(t) /\ Span(t, m) \in Lexemes(t) /\ Kind(Span(t, m)) = "redacted"
    BY <2>2, PieceIs
  <2>6. CASE Sublayer2(t, m) = <<>>
    <3>1. g[n] \o <<>> = g[n]
      BY <2>4 DEF Scanned
    <3>2. IsRandom(t, m)
      BY <2>5, <2>6
    <3>3. Scanned(t, m, g[n])
      BY <2>1, <2>4, <3>2, ScanDrops
    <3>. QED BY <2>2, <2>1, <2>3, <2>6, <3>1, <3>3
  <2>7. ASSUME NEW x \in Lexemes(t), Sublayer2(t, m) = <<x>>,
               IF IsRandom(t, m) THEN Kind(x) = "redacted" ELSE x = t[m]
        PROVE  n + 1 \in G
    <3>1. Scanned(t, m, g[n] \o <<x>>)
      BY <2>1, <2>4, <2>7, ScanTakes
    <3>. QED BY <2>1, <2>2, <2>3, <2>7, <3>1
  <2>. QED BY <2>5, <2>6, <2>7
<1>5. Len(t) \in G
  <2> HIDE DEF G
  <2>1. 1 \in Int /\ Len(t) \in Int
    BY <1>1
  <2>2. \A n \in 1..Len(t) : n \in G
    BY <1>3, <1>4, <2>1, UpInduction
  <2>. QED BY <1>1, <2>2
<1>6. Scan(t) = g[Len(t)]
  BY <1>1, FlattenIsLaid DEF Scan, P, g
<1>. QED BY <1>5, <1>6

(***************************************************************************)
(* Texts: what redaction leaves of one.                                    *)
(***************************************************************************)

\* The indices of a text.
LEMMA TextIs ==
  ASSUME NEW text, IsText(text)
  PROVE  /\ text \in Seq(ToSet(text))
         /\ Len(text) \in Nat
         /\ DOMAIN text = 1..Len(text)
         /\ \A i \in 1..Len(text) : Kind(text[i]) # "blob"
BY DEF IsText

\* A sequence without a reference is a text.
LEMMA IsTextFrom ==
  ASSUME NEW S, NEW t \in Seq(S), \A i \in 1..Len(t) : Kind(t[i]) # "blob"
  PROVE  IsText(t)
<1>1. DOMAIN t = 1..Len(t) /\ Len(t) \in Nat
  OBVIOUS
<1>2. \A i \in 1..Len(t) : t[i] \in ToSet(t)
  BY <1>1 DEF ToSet
<1>3. t \in Seq(ToSet(t))
  BY <1>1, <1>2
<1>. QED BY <1>1, <1>3 DEF IsText

\* The first layer takes the known formats, but for a key without a boundary.
LEMMA Layer1Is ==
  ASSUME NEW text, IsText(text)
  PROVE  LET t == Layer1(text)
             N == 1..Len(text)
         IN /\ t \in Seq({t[i] : i \in N}) /\ Len(t) = Len(text)
            /\ \A i \in N : t[i] = text[i] \/ Kind(t[i]) = "redacted"
            /\ \A i \in N : Kind(t[i]) \notin {"openai", "pem", "blob"}
            /\ \A i \in N : Kind(t[i]) = "aws" =>
                 \E j \in {i - 1, i + 1} \cap N : WordAt(t, j) \/ Kind(t[j]) = "redacted"
<1> DEFINE t == Layer1(text)
           N == 1..Len(text)
<1>1. Len(text) \in Nat /\ DOMAIN text = N /\ \A i \in N : Kind(text[i]) # "blob"
  BY TextIs
<1>2. t = [i \in N |-> IF Matches(text, i) THEN Placeholder(Kind(text[i]), <<text[i]>>)
                                           ELSE text[i]]
  BY <1>1 DEF Layer1
<1>3. \A a, b : Kind(Placeholder(a, b)) = "redacted"
  BY DEF Kind, Placeholder
<1>4. \A i \in N : IF Matches(text, i) THEN Kind(t[i]) = "redacted" ELSE t[i] = text[i]
  BY <1>2, <1>3
<1>5. DOMAIN t = N
  BY <1>2
<1> HIDE DEF t
<1>6. t \in Seq({t[i] : i \in N}) /\ Len(t) = Len(text)
  <2>1. t \in [N -> {t[i] : i \in N}]
    <3>1. t = [i \in N |-> t[i]]
      BY <1>2, <1>5
    <3>. QED BY <3>1
  <2>2. t \in Seq({t[i] : i \in N})
    BY <1>1, <2>1, SeqDef
  <2>3. Len(t) \in Nat /\ DOMAIN t = 1..Len(t)
    BY <2>2, LenProperties
  <2>. QED BY <1>1, <1>5, <2>2, <2>3
<1>7. \A i \in N : Kind(t[i]) \notin {"openai", "pem", "blob"}
  BY <1>1, <1>4 DEF Matches
<1>8. ASSUME NEW i \in N, Kind(t[i]) = "aws"
      PROVE  \E j \in {i - 1, i + 1} \cap N : WordAt(t, j) \/ Kind(t[j]) = "redacted"
  <2>1. Kind(text[i]) = "aws" /\ ~Matches(text, i)
    BY <1>4, <1>8
  <2>2. PICK j \in {i - 1, i + 1} : WordAt(text, j)
    BY <2>1 DEF Matches
  <2>3. j \in N
    BY <1>1, <2>2 DEF WordAt
  <2>4. CASE Matches(text, j)
    BY <1>4, <2>3, <2>4
  <2>5. CASE ~Matches(text, j)
    <3>1. t[j] = text[j]
      BY <1>4, <2>3, <2>5
    <3>. QED BY <1>1, <1>5, <2>2, <2>3, <3>1 DEF WordAt
  <2>. QED BY <2>3, <2>4, <2>5
<1>9. \A i \in N : t[i] = text[i] \/ Kind(t[i]) = "redacted"
  BY <1>4
<1>. QED BY <1>6, <1>7, <1>8, <1>9 DEF t

\* What a scan leaves is what it was given, but for random tokens, and as clean as that.
LEMMA ScanCleans ==
  ASSUME NEW S, NEW t \in Seq(S), t # <<>>,
         \A i \in 1..Len(t) : Kind(t[i]) \notin {"openai", "pem", "blob"},
         \A i \in 1..Len(t) : Kind(t[i]) = "aws" =>
           \E j \in {i - 1, i + 1} \cap (1..Len(t)) : WordAt(t, j) \/ Kind(t[j]) = "redacted"
  PROVE  /\ IsText(Scan(t)) /\ Scan(t) # <<>> /\ IsClean(Scan(t))
         /\ \A q \in 1..Len(Scan(t)) :
              Kind(Scan(t)[q]) = "redacted" \/ \E p \in q..Len(t) : Scan(t)[q] = t[p]
<1> DEFINE u == Scan(t)
           n == Len(t)
<1>1. Scanned(t, n, u)
  BY ScanIs
<1> HIDE DEF u
<1>2. /\ u \in Seq(Lexemes(t)) /\ Len(u) \in 1..n
      /\ \A q \in 1..Len(u) : Kind(u[q]) = "redacted" \/ \E p \in q..n : From(t, n, u, q, p)
      /\ \A p \in 1..n : ~IsRandom(t, p) => \E q \in 1..Len(u) : u[q] = t[p]
  BY <1>1 DEF Scanned
<1>3. n \in Nat /\ DOMAIN t = 1..n /\ DOMAIN u = 1..Len(u) /\ Len(u) \in Nat
  BY <1>2
<1>4. \A q \in 1..Len(u) : Kind(u[q]) = "redacted" \/ \E p \in q..n : u[q] = t[p]
  BY <1>2 DEF From
<1>5. \A q \in 1..Len(u) : Kind(u[q]) \notin {"openai", "pem", "blob"}
  <2>1. ASSUME NEW q \in 1..Len(u), NEW p \in q..n PROVE p \in 1..n
    BY <1>3
  <2>. QED BY <1>4, <2>1
<1>6. IsText(u)
  BY <1>2, <1>5, IsTextFrom
<1>7. ASSUME NEW q \in 1..Len(u), Kind(u[q]) = "aws"
      PROVE  \E j \in {q - 1, q + 1} :
               WordAt(u, j) \/ (j \in DOMAIN u /\ Kind(u[j]) = "redacted")
  <2>1. PICK p \in q..n : From(t, n, u, q, p)
    BY <1>2, <1>7
  <2>2. p \in 1..n
    BY <1>3
  <2>3. u[q] = t[p] /\ IsCandidate(t[p])
    BY <1>7, <2>1 DEF From, IsCandidate
  <2>4. /\ p > 1 => q > 1 /\ u[q - 1] = t[p - 1]
        /\ p < n => q < Len(u) /\ u[q + 1] = t[p + 1]
    BY <2>1, <2>3 DEF From
  <2>5. PICK j \in {p - 1, p + 1} \cap (1..n) : WordAt(t, j) \/ Kind(t[j]) = "redacted"
    BY <1>7, <2>2, <2>3
  <2>6. ASSUME NEW l \in {q - 1, q + 1} \cap (1..Len(u)), u[l] = t[j]
        PROVE  WordAt(u, l) \/ (l \in DOMAIN u /\ Kind(u[l]) = "redacted")
    BY <1>3, <2>5, <2>6 DEF WordAt
  <2>7. CASE j = p - 1
    <3>1. q > 1 /\ u[q - 1] = t[p - 1]
      BY <2>2, <2>4, <2>5, <2>7
    <3>2. q - 1 \in 1..Len(u)
      BY <1>3, <3>1
    <3>. QED BY <2>6, <2>7, <3>1, <3>2
  <2>8. CASE j = p + 1
    <3>1. q < Len(u) /\ u[q + 1] = t[p + 1]
      BY <1>3, <2>2, <2>4, <2>5, <2>8
    <3>2. q + 1 \in 1..Len(u)
      BY <1>3, <3>1
    <3>. QED BY <2>6, <2>8, <3>1, <3>2
  <2>. QED BY <2>5, <2>7, <2>8
<1>8. ASSUME NEW q \in 1..Len(u), Kind(u[q]) = "entropy" PROVE Holds(u, "slash")
  <2>1. PICK p \in q..n : From(t, n, u, q, p)
    BY <1>2, <1>8
  <2>2. p \in 1..n /\ Kind(t[p]) = "entropy" /\ ~IsRandom(t, p)
    <3>1. u[q] = t[p] /\ ~IsRandom(t, p)
      BY <2>1 DEF From
    <3>. QED BY <1>3, <1>8, <3>1
  <2>3. \A i \in 1..n : IsCandidate(t[i]) => i \in Run(t, i)
    <3>1. \A i, k \in 1..n : (i <= k /\ k <= i) \/ (i <= k /\ k <= i) => k = i
      BY <1>3
    <3>. QED BY <1>3, <3>1 DEF Run
  <2>4. p \in Run(t, p)
    BY <2>2, <2>3 DEF IsCandidate
  <2>5. PICK j \in Run(t, p) : Kind(t[j]) = "slash"
    BY <2>2, <2>4 DEF IsRandom
  <2>6. j \in 1..n /\ j \in Run(t, j)
    BY <1>3, <2>3, <2>5 DEF Run, IsCandidate
  <2>7. ~IsRandom(t, j)
    BY <2>5, <2>6 DEF IsRandom
  <2>. QED BY <1>2, <1>3, <2>5, <2>6, <2>7 DEF Holds
<1>9. IsClean(u)
  BY <1>3, <1>5, <1>7, <1>8 DEF IsClean
<1>10. u # <<>>
  BY <1>2
<1>. QED BY <1>4, <1>6, <1>9, <1>10 DEF u

\* redact_text leaves no credential, makes nothing of nothing only, and makes up no words.
LEMMA RedactTextIs ==
  ASSUME NEW text, IsText(text)
  PROVE  LET r == RedactText(text)
         IN /\ IsText(r) /\ IsClean(r)
            /\ text # <<>> => r # <<>>
            /\ \A q \in 1..Len(r) :
                 Kind(r[q]) = "redacted" \/ \E p \in q..Len(text) : r[q] = text[p]
<1> DEFINE t == Layer1(text)
           r == RedactText(text)
<1>1. Len(text) \in Nat
  BY TextIs
<1>2. /\ t \in Seq({t[i] : i \in 1..Len(text)}) /\ Len(t) = Len(text)
      /\ \A i \in 1..Len(text) : t[i] = text[i] \/ Kind(t[i]) = "redacted"
      /\ \A i \in 1..Len(text) : Kind(t[i]) \notin {"openai", "pem", "blob"}
      /\ \A i \in 1..Len(text) : Kind(t[i]) = "aws" =>
           \E j \in {i - 1, i + 1} \cap (1..Len(text)) : WordAt(t, j) \/ Kind(t[j]) = "redacted"
  BY Layer1Is
<1>3. r = IF Weight(t) > MaxScan THEN t ELSE Scan(t)
  BY DEF RedactText, Layer2, Scan, Pieces
<1> HIDE DEF t, r
<1>4. IsText(t)
  BY <1>2, IsTextFrom
<1>5. text # <<>> => t # <<>>
  <2>1. text # <<>> => Len(text) # 0
    BY DEF IsText
  <2>. QED BY <1>2, <2>1
<1>6. DOMAIN t = 1..Len(text)
  BY <1>2
<1>7. CASE r = t /\ (Weight(t) > MaxScan \/ t = <<>>)
  <2>1. IsClean(t)
    <3>1. ASSUME NEW i \in DOMAIN t, Kind(t[i]) = "aws"
          PROVE  \E j \in {i - 1, i + 1} :
                   WordAt(t, j) \/ (j \in DOMAIN t /\ Kind(t[j]) = "redacted")
      BY <1>2, <1>6, <3>1
    <3>2. \A i \in DOMAIN t : Weight(t) > MaxScan
      BY <1>7
    <3>. QED BY <1>2, <1>6, <3>1, <3>2 DEF IsClean
  <2>2. ASSUME NEW q \in 1..Len(t)
        PROVE  Kind(t[q]) = "redacted" \/ \E p \in q..Len(text) : t[q] = text[p]
    <3>1. q \in q..Len(text) /\ q \in 1..Len(text)
      BY <1>1, <1>2
    <3>. QED BY <1>2, <3>1
  <2>. QED BY <1>4, <1>5, <1>7, <2>1, <2>2 DEF r
<1>8. CASE r = Scan(t) /\ t # <<>>
  <2>1. /\ IsText(r) /\ r # <<>> /\ IsClean(r)
        /\ \A q \in 1..Len(r) :
             Kind(r[q]) = "redacted" \/ \E p \in q..Len(t) : r[q] = t[p]
    BY <1>2, <1>8, ScanCleans
  <2>2. ASSUME NEW q \in 1..Len(r)
        PROVE  Kind(r[q]) = "redacted" \/ \E p \in q..Len(text) : r[q] = text[p]
    <3>1. Len(r) \in Nat
      BY <2>1, TextIs
    <3>2. \A p \in q..Len(text) : p \in 1..Len(text)
      BY <1>1, <3>1
    <3>. QED BY <1>2, <2>1, <3>2
  <2>. QED BY <2>1, <2>2 DEF r
<1>9. t = <<>> => Scan(t) = <<>>
  <2>1. ASSUME t = <<>> PROVE Len(Pieces(t)) = 0 /\ Pieces(t) = <<>>
    BY <2>1 DEF Pieces
  <2>. QED BY <2>1 DEF Scan, FlattenSeq
<1>. QED BY <1>3, <1>7, <1>8, <1>9

\* A placeholder is left alone.
LEMMA PlaceholderStays ==
  ASSUME NEW x, Kind(x) = "redacted"
  PROVE  RedactText(<<x>>) = <<x>> /\ ~Inert(<<x>>)
<1> DEFINE t == <<x>>
<1>1. DOMAIN t = {1} /\ t[1] = x /\ Len(t) = 1 /\ t \in Seq({x})
  OBVIOUS
<1>2. ~Matches(t, 1)
  BY <1>1 DEF Matches
<1>3. Layer1(t) = [i \in {1} |-> x]
  BY <1>1, <1>2 DEF Layer1
<1>4. Layer1(t) = t
  BY <1>3
<1>5. ~Inert(t)
  BY <1>1 DEF Inert
<1>6. Sublayer2(t, 1) = t
  <2>1. Run(t, 1) = {}
    BY <1>1 DEF Run, IsCandidate
  <2>2. ~IsRandom(t, 1)
    BY <2>1 DEF IsRandom
  <2>. QED BY <1>1, <2>2 DEF Sublayer2
<1> DEFINE P == [i \in DOMAIN t |-> Sublayer2(t, i)]
<1>7. FlattenSeq(P) = t
  <2>1. P = [i \in 1..1 |-> t]
    BY <1>1, <1>6
  <2>2. Len(P) = 1 /\ P[1] = t
    BY <2>1
  <2> HIDE DEF P
  <2>3. Laid(P)[1] = P[1]
    BY <2>2, LaidStep
  <2>4. Len(P) # 0
    BY <2>2
  <2>5. FlattenSeq(P) = Laid(P)[Len(P)]
    BY <2>4, FlattenIsLaid
  <2>. QED BY <2>2, <2>3, <2>5
<1>8. Layer2(t) = t
  BY <1>7 DEF Layer2
<1>. QED BY <1>4, <1>5, <1>8 DEF RedactText

\* The same for a leaf, of which an inert one is left as it is.
LEMMA RedactLeafIs ==
  ASSUME NEW text, IsText(text)
  PROVE  LET r == RedactLeaf(text)
         IN /\ IsText(r) /\ IsClean(r)
            /\ text # <<>> => r # <<>>
            /\ \A q \in 1..Len(r) :
                 Kind(r[q]) = "redacted" \/ \E p \in q..Len(text) : r[q] = text[p]
<1>1. Len(text) \in Nat /\ DOMAIN text = 1..Len(text)
  BY TextIs
<1>2. CASE Inert(text)
  <2>1. RedactLeaf(text) = text
    BY <1>2 DEF RedactLeaf
  <2>2. IsClean(text)
    BY <1>2 DEF Inert, IsClean
  <2>3. \A q \in 1..Len(text) : q \in q..Len(text)
    BY <1>1
  <2>. QED BY <2>1, <2>2, <2>3
<1>3. CASE ~Inert(text)
  <2>1. RedactLeaf(text) = RedactText(text)
    BY <1>3 DEF RedactLeaf
  <2>. QED BY <2>1, RedactTextIs
<1>. QED BY <1>2, <1>3

\* What is one lexeme at each position.
LEMMA FlattenOnes ==
  ASSUME NEW S, NEW u \in Seq(S), NEW P, P = [i \in DOMAIN u |-> <<u[i]>>]
  PROVE  FlattenSeq(P) = u
<1> DEFINE g == Laid(P)
           n == Len(u)
           G == {m \in Nat : m \in 1..n /\ g[m] \in Seq(S) /\ Len(g[m]) = m
                              /\ \A i \in 1..m : g[m][i] = u[i]}
<1>1. n \in Nat /\ DOMAIN u = 1..n /\ \A i \in 1..n : u[i] \in S
  OBVIOUS
<1>2. DOMAIN P = 1..n /\ Len(P) = n /\ \A i \in 1..n : P[i] = <<u[i]>>
  BY <1>1
<1>3. CASE n = 0
  <2>1. u = <<>> /\ P = <<>>
    BY <1>1, <1>2, <1>3
  <2>. QED BY <2>1 DEF FlattenSeq
<1>4. CASE n # 0
  <2>1. \A i \in 1..n : g[i] = IF i = 1 THEN <<u[1]>> ELSE g[i - 1] \o <<u[i]>>
    <3>1. \A i \in 1..Len(P) : g[i] = IF i = 1 THEN P[i] ELSE g[i - 1] \o P[i]
      BY <1>1, <1>2, LaidStep
    <3> HIDE DEF g
    <3>. QED BY <1>2, <3>1
  <2> HIDE DEF g, n
  <2>2. 1 \in G
    <3>1. 1 \in 1..n /\ u[1] \in S /\ g[1] = <<u[1]>>
      BY <1>1, <1>4, <2>1
    <3>2. <<u[1]>> \in Seq(S) /\ Len(<<u[1]>>) = 1 /\ <<u[1]>>[1] = u[1] /\ 1..1 = {1}
      BY <3>1
    <3>. QED BY <3>1, <3>2
  <2>3. ASSUME NEW m \in 1..(n - 1), m \in G PROVE m + 1 \in G
    <3>1. PICK k : k = m + 1
      OBVIOUS
    <3>2. k \in 1..n /\ k # 1 /\ k - 1 = m /\ k \in Nat
      BY <1>1, <3>1
    <3>3. g[k] = g[m] \o <<u[k]>>
      BY <2>1, <3>2
    <3>4. g[m] \in Seq(S) /\ Len(g[m]) = m /\ \A i \in 1..m : g[m][i] = u[i]
      BY <2>3
    <3>5. <<u[k]>> \in Seq(S)
      BY <1>1, <3>2
    <3>6. g[k] \in Seq(S) /\ Len(g[k]) = k /\ \A i \in 1..k : g[k][i] = u[i]
      BY <3>1, <3>2, <3>3, <3>4, <3>5
    <3>. QED BY <3>1, <3>2, <3>6
  <2>4. n \in G
    <3> HIDE DEF G
    <3>1. 1 \in Int /\ n \in Int
      BY <1>1
    <3>2. \A m \in 1..n : m \in G
      BY <2>2, <2>3, <3>1, UpInduction
    <3>. QED BY <1>1, <1>4, <3>2
  <2>5. g[n] = u
    BY <1>1, <2>4, <1>1 DEF n
  <2>. QED BY <1>2, <1>4, <2>5, FlattenIsLaid DEF g
<1>. QED BY <1>3, <1>4

\* Of the first n positions of t a scan has made u, of which the first l[p] lexemes come
\* from the first p positions.
Placed(t, n, u, l) ==
  /\ u \in Seq(Lexemes(t)) /\ l[n] = Len(u) /\ Len(u) >= 1
  /\ \A p \in 1..n : l[p] \in 1..Len(u)
  /\ \A p \in 1..n : ~IsRandom(t, p) => u[l[p]] = t[p]
  /\ \A p \in 2..n : ~IsRandom(t, p) => l[p] = l[p - 1] + 1
  /\ \A q \in 1..Len(u) : Kind(u[q]) = "redacted" \/ \E p \in 1..n : ~IsRandom(t, p) /\ l[p] = q

LEMMA PlacedTakes ==
  ASSUME NEW S, NEW t \in Seq(S), NEW n \in 1..(Len(t) - 1), NEW u, NEW l, Placed(t, n, u, l),
         NEW m, m = n + 1, l[m] = Len(u) + 1, NEW x \in Lexemes(t),
         IF IsRandom(t, m) THEN Kind(x) = "redacted" ELSE x = t[m]
  PROVE  Placed(t, m, u \o <<x>>, l)
<1> DEFINE w == u \o <<x>>
<1>1. /\ u \in Seq(Lexemes(t)) /\ l[n] = Len(u) /\ Len(u) \in Nat /\ Len(u) >= 1
      /\ \A p \in 1..n : l[p] \in 1..Len(u)
  BY DEF Placed
<1>2. /\ w \in Seq(Lexemes(t)) /\ Len(w) = Len(u) + 1
      /\ \A q \in 1..Len(u) : w[q] = u[q]
      /\ w[Len(u) + 1] = x
  BY <1>1
<1> HIDE DEF w
<1>3. m \in Nat /\ m - 1 = n /\ 1..m = 1..n \cup {m} /\ 2..m = 2..n \cup {m} /\ Len(w) = l[m]
  BY <1>2
<1>4. \A p \in 1..m : l[p] \in 1..Len(w)
  BY <1>1, <1>2, <1>3
<1>5. \A p \in 1..m : ~IsRandom(t, p) => w[l[p]] = t[p]
  BY <1>1, <1>2, <1>3 DEF Placed
<1>6. \A p \in 2..m : ~IsRandom(t, p) => l[p] = l[p - 1] + 1
  BY <1>1, <1>2, <1>3 DEF Placed
<1>7. ASSUME NEW q \in 1..Len(w)
      PROVE  Kind(w[q]) = "redacted" \/ \E p \in 1..m : ~IsRandom(t, p) /\ l[p] = q
  <2>1. CASE q = Len(w)
    BY <1>2, <1>3, <2>1
  <2>2. CASE q \in 1..Len(u)
    BY <1>2, <1>3, <2>2 DEF Placed
  <2>. QED BY <1>1, <1>2, <2>1, <2>2
<1>8. Placed(t, m, w, l)
  BY <1>1, <1>2, <1>3, <1>4, <1>5, <1>6, <1>7 DEF Placed
<1>. QED BY <1>8 DEF w

LEMMA PlacedDrops ==
  ASSUME NEW S, NEW t \in Seq(S), NEW n \in 1..(Len(t) - 1), NEW u, NEW l, Placed(t, n, u, l),
         NEW m, m = n + 1, l[m] = Len(u), IsRandom(t, m)
  PROVE  Placed(t, m, u, l)
<1>1. m \in Nat /\ 1..m = 1..n \cup {m} /\ 2..m = 2..n \cup {m} /\ Len(u) \in Nat
  BY DEF Placed
<1>2. \A p \in 1..m : l[p] \in 1..Len(u)
  BY <1>1 DEF Placed
<1>3. \A q \in 1..Len(u) : Kind(u[q]) = "redacted" \/ \E p \in 1..m : ~IsRandom(t, p) /\ l[p] = q
  BY <1>1 DEF Placed
<1>. QED BY <1>1, <1>2, <1>3 DEF Placed

LEMMA ScanPlaces ==
  ASSUME NEW S, NEW t \in Seq(S), t # <<>>
  PROVE  \E l : Placed(t, Len(t), Scan(t), l)
<1> DEFINE P == Pieces(t)
           g == Laid(P)
           l == [p \in 1..Len(t) |-> Len(g[p])]
           G == {n \in Nat : n \in 1..Len(t) /\ Placed(t, n, g[n], l)}
<1>1. /\ Len(t) \in Nat /\ Len(t) >= 1
      /\ DOMAIN P = 1..Len(t) /\ Len(P) = Len(t)
      /\ \A i \in 1..Len(t) : P[i] = Sublayer2(t, i)
  <2>1. Len(t) \in Nat /\ Len(t) >= 1 /\ DOMAIN t = 1..Len(t)
    BY EmptySeq
  <2>2. P = [i \in 1..Len(t) |-> Sublayer2(t, i)]
    BY <2>1 DEF Pieces
  <2>. QED BY <2>1, <2>2
<1> HIDE DEF P
<1>2. \A i \in 1..Len(t) : g[i] = IF i = 1 THEN Sublayer2(t, 1) ELSE g[i - 1] \o Sublayer2(t, i)
  BY <1>1, LaidStep
<1> HIDE DEF g
<1>3. 1 \in G
  <2>1. 1 \in 1..Len(t) /\ l[1] = Len(g[1]) /\ g[1] = Sublayer2(t, 1)
    BY <1>1, <1>2
  <2>2. PICK x \in Lexemes(t) :
          /\ Sublayer2(t, 1) = <<x>>
          /\ IF IsRandom(t, 1) THEN Kind(x) = "redacted" ELSE x = t[1]
    BY <2>1, PieceIs
  <2>3. <<x>> \in Seq(Lexemes(t)) /\ Len(<<x>>) = 1 /\ <<x>>[1] = x
    OBVIOUS
  <2>4. 1..1 = {1} /\ 2..1 = {}
    OBVIOUS
  <2> HIDE DEF l
  <2>5. Placed(t, 1, <<x>>, l)
    <3>1. l[1] = 1 /\ 1 \in 1..1
      BY <2>1, <2>2, <2>3
    <3>2. PICK u : u = <<x>>
      OBVIOUS
    <3>3. /\ u \in Seq(Lexemes(t)) /\ Len(u) = 1 /\ u[1] = x
          /\ IF IsRandom(t, 1) THEN Kind(x) = "redacted" ELSE x = t[1]
      BY <2>2, <2>3, <3>2
    <3>4. Placed(t, 1, u, l)
      BY <2>4, <3>1, <3>3 DEF Placed
    <3>. QED BY <3>2, <3>4
  <2>. QED BY <2>1, <2>2, <2>5
<1>4. ASSUME NEW n \in 1..(Len(t) - 1), n \in G PROVE n + 1 \in G
  <2>1. PICK m : m = n + 1
    OBVIOUS
  <2>2. m \in 1..Len(t) /\ m # 1 /\ m - 1 = n /\ m \in Nat
    BY <1>1, <2>1
  <2>3. g[m] = g[n] \o Sublayer2(t, m) /\ l[m] = Len(g[m])
    BY <1>2, <2>2
  <2> HIDE DEF l
  <2>4. Placed(t, n, g[n], l) /\ g[n] \in Seq(Lexemes(t))
    BY <1>4 DEF Placed
  <2>5. /\ ~IsRandom(t, m) => Sublayer2(t, m) = <<t[m]>>
        /\ IsRandom(t, m) => Sublayer2(t, m) = <<>> \/ Sublayer2(t, m) = <<Span(t, m)>>
        /\ t[m] \in Lexemes(t) /\ Span(t, m) \in Lexemes(t) /\ Kind(Span(t, m)) = "redacted"
    BY <2>2, PieceIs
  <2>6. CASE Sublayer2(t, m) = <<>>
    <3>1. g[n] \o <<>> = g[n]
      BY <2>4
    <3>2. IsRandom(t, m)
      BY <2>5, <2>6
    <3>3. l[m] = Len(g[n])
      BY <2>3, <2>6, <3>1
    <3>4. Placed(t, m, g[n], l)
      BY <2>1, <2>4, <3>2, <3>3, PlacedDrops
    <3>. QED BY <2>1, <2>2, <2>3, <2>6, <3>1, <3>4
  <2>7. ASSUME NEW x \in Lexemes(t), Sublayer2(t, m) = <<x>>,
               IF IsRandom(t, m) THEN Kind(x) = "redacted" ELSE x = t[m]
        PROVE  n + 1 \in G
    <3>1. Len(g[n] \o <<x>>) = Len(g[n]) + 1
      BY <2>4, <2>7
    <3>2. l[m] = Len(g[n]) + 1
      BY <2>3, <2>7, <3>1
    <3>3. Placed(t, m, g[n] \o <<x>>, l)
      BY <2>1, <2>4, <2>7, <3>2, PlacedTakes
    <3>. QED BY <2>1, <2>2, <2>3, <2>7, <3>3
  <2>. QED BY <2>5, <2>6, <2>7
<1>5. Len(t) \in G
  <2> HIDE DEF G
  <2>1. 1 \in Int /\ Len(t) \in Int
    BY <1>1
  <2>2. \A n \in 1..Len(t) : n \in G
    BY <1>3, <1>4, <2>1, UpInduction
  <2>. QED BY <1>1, <2>2
<1>6. Scan(t) = g[Len(t)]
  BY <1>1, FlattenIsLaid DEF Scan, P, g
<1>. QED BY <1>5, <1>6

\* Positions between i and j, on either side.
Between(i, j, k) == (i <= k /\ k <= j) \/ (j <= k /\ k <= i)

LEMMA RunIs ==
  ASSUME NEW S, NEW t \in Seq(S)
  PROVE  \A i, j : j \in Run(t, i) <=>
           j \in 1..Len(t) /\ \A k \in 1..Len(t) : Between(i, j, k) => IsCandidate(t[k])
BY DEF Run, Between

\* A scan leaves no random run.
LEMMA NoneIsRandom ==
  ASSUME NEW S, NEW t \in Seq(S), NEW T, NEW u \in Seq(T), NEW l, Placed(t, Len(t), u, l)
  PROVE  \A q \in 1..Len(u) : ~IsRandom(u, q)
<1> DEFINE n == Len(t)
<1>1. /\ n \in Nat /\ Len(u) \in Nat
      /\ \A p \in 1..n : l[p] \in 1..Len(u)
      /\ \A p \in 1..n : ~IsRandom(t, p) => u[l[p]] = t[p]
      /\ \A p \in 2..n : ~IsRandom(t, p) => l[p] = l[p - 1] + 1
      /\ \A q \in 1..Len(u) : Kind(u[q]) = "redacted" \/ \E p \in 1..n : ~IsRandom(t, p) /\ l[p] = q
  BY DEF Placed
<1> HIDE DEF n
<1>2. SUFFICES ASSUME NEW q \in 1..Len(u), NEW j \in Run(u, q), Kind(u[j]) = "entropy",
                      \A m \in Run(u, q) : Kind(u[m]) # "slash"
               PROVE  FALSE
  BY DEF IsRandom
<1>3. j \in 1..Len(u) /\ \A k \in 1..Len(u) : Between(q, j, k) => IsCandidate(u[k])
  BY RunIs
<1>4. PICK p \in 1..n : ~IsRandom(t, p) /\ l[p] = j /\ u[j] = t[p]
  BY <1>1, <1>2, <1>3
<1>5. IsCandidate(t[p])
  BY <1>2, <1>4 DEF IsCandidate
<1>6. PICK m \in Run(t, p) : Kind(t[m]) = "slash"
  <2>1. p \in Run(t, p)
    <3>1. \A k \in 1..Len(t) : Between(p, p, k) => k = p
      BY <1>4 DEF Between, n
    <3>. QED BY <1>4, <1>5, <3>1, RunIs DEF n
  <2>. QED BY <1>2, <1>4, <2>1 DEF IsRandom
<1>7. m \in 1..n /\ \A k \in 1..n : Between(p, m, k) => IsCandidate(t[k])
  BY RunIs DEF n
\* Where the text's run goes, u's does.
<1>8. PICK i : i \in 1..Len(u) /\ Kind(u[i]) = "slash"
               /\ \A k \in 1..Len(u) : Between(j, i, k) => IsCandidate(u[k])
  <2>1. CASE p <= m
    <3> DEFINE R == {k \in 1..n : ~IsRandom(t, k) /\ l[k] = j + (k - p)}
    <3>1. p \in R
      BY <1>1, <1>3, <1>4
    <3>2. ASSUME NEW k \in p..(m - 1), k \in R PROVE k + 1 \in R
      <4>1. PICK h : h = k + 1
        OBVIOUS
      <4>2. h \in 2..n /\ h \in 1..n /\ h - 1 = k /\ k \in 1..n /\ k \in Int
        BY <1>1, <1>4, <1>7, <4>1
      <4>3. IsCandidate(t[h - 1])
        BY <1>4, <1>7, <2>1, <4>2 DEF Between
      <4>4. ~IsRandom(t, h)
        BY <3>2, <4>2, <4>3, NeighboursStay DEF n
      <4>5. l[h] = l[h - 1] + 1
        BY <1>1, <4>2, <4>4
      <4>6. l[h] = j + (h - p)
        BY <1>3, <1>4, <3>2, <4>1, <4>2, <4>5
      <4>. QED BY <4>1, <4>2, <4>4, <4>6
    <3>3. \A k \in p..m : k \in R
      <4> HIDE DEF R
      <4>1. p \in Int /\ m \in Int
        BY <1>4, <1>7
      <4>. QED BY <3>1, <3>2, <4>1, UpInduction
    <3>4. \A k \in p..m : k \in 1..n /\ l[k] = j + (k - p) /\ u[l[k]] = t[k] /\ l[k] \in 1..Len(u)
      BY <1>1, <3>3
    <3>5. ASSUME NEW x \in 1..Len(u), Between(j, l[m], x) PROVE IsCandidate(u[x])
      <4>1. PICK k : k = p + (x - j)
        OBVIOUS
      <4>2. m \in p..m /\ l[m] = j + (m - p)
        BY <1>4, <1>7, <2>1, <3>4
      <4>3. k \in p..m /\ j + (k - p) = x
        BY <1>3, <1>4, <1>7, <2>1, <3>5, <4>1, <4>2 DEF Between
      <4>4. u[x] = t[k] /\ k \in 1..n
        BY <3>4, <4>3
      <4>5. IsCandidate(t[k])
        BY <1>4, <1>7, <2>1, <4>3, <4>4 DEF Between
      <4>. QED BY <4>4, <4>5
    <3>6. m \in p..m
      BY <1>4, <1>7, <2>1
    <3>. QED BY <1>6, <3>4, <3>5, <3>6
  <2>2. CASE m <= p
    <3> DEFINE R == {k \in Nat : p - k \in 1..n /\ ~IsRandom(t, p - k) /\ l[p - k] = j - k}
    <3>1. 0 \in R
      <4>1. p - 0 = p /\ j - 0 = j
        BY <1>3, <1>4
      <4>. QED BY <1>4, <4>1
    <3>2. ASSUME NEW k \in 0..(p - m - 1), k \in R PROVE k + 1 \in R
      <4>1. PICK h : h = p - k
        OBVIOUS
      <4>2. h \in 2..n /\ h \in 1..n /\ h - 1 = p - (k + 1) /\ h - 1 \in 1..n /\ k + 1 \in Nat
        BY <1>1, <1>4, <1>7, <3>2, <4>1
      <4>3. IsCandidate(t[h])
        BY <1>4, <1>7, <2>2, <3>2, <4>1, <4>2 DEF Between
      <4>4. ~IsRandom(t, h) /\ l[h] = j - k
        BY <3>2, <4>1
      <4>5. ~IsRandom(t, h - 1)
        BY <4>2, <4>3, <4>4, NeighboursStay DEF n
      <4>6. l[h] = l[h - 1] + 1 /\ l[h - 1] \in 1..Len(u)
        BY <1>1, <4>2, <4>4
      <4>7. l[h - 1] = j - (k + 1)
        BY <1>1, <1>3, <3>2, <4>4, <4>6
      <4>. QED BY <4>2, <4>5, <4>7
    <3>3. \A k \in 0..(p - m) : k \in R
      <4> HIDE DEF R
      <4>1. 0 \in Int /\ p - m \in Int
        BY <1>4, <1>7
      <4>. QED BY <3>1, <3>2, <4>1, UpInduction
    <3>4. ASSUME NEW k \in m..p
          PROVE  k \in 1..n /\ l[k] = j - (p - k) /\ u[l[k]] = t[k] /\ l[k] \in 1..Len(u)
      <4>1. PICK h : h = p - k
        OBVIOUS
      <4>2. h \in 0..(p - m) /\ p - h = k
        BY <1>4, <1>7, <2>2, <4>1
      <4>3. k \in 1..n /\ ~IsRandom(t, k) /\ l[k] = j - h
        BY <3>3, <4>2
      <4>. QED BY <1>1, <4>1, <4>3
    <3>5. ASSUME NEW x \in 1..Len(u), Between(j, l[m], x) PROVE IsCandidate(u[x])
      <4>1. PICK k : k = p - (j - x)
        OBVIOUS
      <4>2. m \in m..p /\ l[m] = j - (p - m)
        BY <1>4, <1>7, <2>2, <3>4
      <4>3. k \in m..p /\ j - (p - k) = x
        BY <1>3, <1>4, <1>7, <2>2, <3>5, <4>1, <4>2 DEF Between
      <4>4. u[x] = t[k] /\ k \in 1..n
        BY <3>4, <4>3
      <4>5. IsCandidate(t[k])
        BY <1>4, <1>7, <2>2, <4>3, <4>4 DEF Between
      <4>. QED BY <4>4, <4>5
    <3>6. m \in m..p
      BY <1>4, <1>7, <2>2
    <3>. QED BY <1>6, <3>4, <3>5, <3>6
  <2>3. p \in Int /\ m \in Int
    BY <1>4, <1>7
  <2>. QED BY <2>1, <2>2, <2>3
<1>9. i \in Run(u, q)
  <2>1. ASSUME NEW k \in 1..Len(u), Between(q, i, k) PROVE Between(q, j, k) \/ Between(j, i, k)
    BY <1>1, <1>3, <1>8, <2>1 DEF Between
  <2>2. \A k \in 1..Len(u) : Between(q, i, k) => IsCandidate(u[k])
    BY <1>3, <1>8, <2>1
  <2>. QED BY <1>8, <2>2, RunIs
<1>. QED BY <1>2, <1>8, <1>9

\* What a scan leaves, another one leaves.
LEMMA ScanRests ==
  ASSUME NEW S, NEW t \in Seq(S), t # <<>>
  PROVE  Scan(Scan(t)) = Scan(t)
<1> DEFINE u == Scan(t)
<1>1. PICK l : Placed(t, Len(t), u, l)
  BY ScanPlaces
<1>2. u \in Seq(Lexemes(t))
  BY <1>1 DEF Placed
<1> HIDE DEF u
<1>3. DOMAIN u = 1..Len(u)
  BY <1>2
<1>4. \A q \in 1..Len(u) : Sublayer2(u, q) = <<u[q]>>
  BY <1>1, <1>2, NoneIsRandom DEF Sublayer2
<1>5. Pieces(u) = [i \in DOMAIN u |-> <<u[i]>>]
  BY <1>3, <1>4 DEF Pieces
<1>6. Scan(u) = u
  BY <1>2, <1>5, FlattenOnes DEF Scan
<1>. QED BY <1>6 DEF u

\* One pass of redaction is enough for a text, if it leaves no credential that needs a
\* boundary.
LEMMA TextRests ==
  ASSUME NEW text, IsText(text), RestsText(RedactText(text))
  PROVE  RedactText(RedactText(text)) = RedactText(text)
<1> DEFINE t == Layer1(text)
           r == RedactText(text)
<1>1. IsText(r) /\ IsClean(r)
  BY RedactTextIs
<1>2. t \in Seq({t[i] : i \in 1..Len(text)})
  BY Layer1Is
<1>3. \A x : Layer2(x) = IF Weight(x) > MaxScan THEN x ELSE Scan(x)
  BY DEF Layer2, Scan, Pieces
<1>4. r = Layer2(t) /\ RedactText(r) = Layer2(Layer1(r))
  BY DEF RedactText
<1> SUFFICES RedactText(r) = r
  OBVIOUS
<1> HIDE DEF t, r
<1>5. Layer1(r) = r
  <2>1. \A i \in DOMAIN r : ~Matches(r, i)
    BY <1>1 DEF Matches, IsClean, RestsText, Holds, r
  <2>2. Layer1(r) = [i \in DOMAIN r |-> r[i]]
    BY <2>1 DEF Layer1
  <2>3. r = [i \in DOMAIN r |-> r[i]]
    BY <1>1 DEF IsText
  <2>. QED BY <2>2, <2>3
<1>6. CASE Weight(r) > MaxScan
  BY <1>3, <1>4, <1>5, <1>6
<1>7. CASE ~(Weight(r) > MaxScan)
  <2>1. r = Scan(t)
    BY <1>3, <1>4, <1>7
  <2>2. RedactText(r) = Scan(r)
    BY <1>3, <1>4, <1>5, <1>7
  <2>3. CASE t # <<>>
    BY <1>2, <2>1, <2>2, <2>3, ScanRests
  <2>4. CASE t = <<>>
    <3>1. Pieces(<<>>) = <<>>
      BY DEF Pieces
    <3>2. Scan(<<>>) = <<>>
      BY <3>1 DEF Scan, FlattenSeq
    <3>. QED BY <2>1, <2>2, <2>4, <3>2
  <2>. QED BY <2>3, <2>4
<1>. QED BY <1>6, <1>7

\* The same for a leaf and for a key.
LEMMA LeafTextRests ==
  ASSUME NEW text, IsText(text)
  PROVE  /\ RestsText(RedactLeaf(text)) => RedactLeaf(RedactLeaf(text)) = RedactLeaf(text)
         /\ RestsText(NewKey(text)) => NewKey(NewKey(text)) = NewKey(text)
<1>1. ASSUME RestsText(RedactLeaf(text)) PROVE RedactLeaf(RedactLeaf(text)) = RedactLeaf(text)
  <2>1. CASE Inert(text)
    BY <2>1 DEF RedactLeaf
  <2>2. CASE ~Inert(text)
    <3> DEFINE r == RedactText(text)
    <3>1. RedactLeaf(text) = r
      BY <2>2 DEF RedactLeaf
    <3>2. RedactText(r) = r
      BY <1>1, <3>1, TextRests
    <3> HIDE DEF r
    <3>3. RedactLeaf(r) = r
      BY <3>2 DEF RedactLeaf
    <3>. QED BY <3>1, <3>3
  <2>. QED BY <2>1, <2>2
<1>2. ASSUME RestsText(NewKey(text)) PROVE NewKey(NewKey(text)) = NewKey(text)
  <2>1. CASE IsPlaceholder(text)
    BY <2>1 DEF NewKey
  <2>2. CASE ~IsPlaceholder(text)
    <3> DEFINE r == RedactText(text)
    <3>1. NewKey(text) = r
      BY <2>2 DEF NewKey
    <3>2. RedactText(r) = r
      BY <1>2, <3>1, TextRests
    <3> HIDE DEF r
    <3>3. NewKey(r) = r
      BY <3>2 DEF NewKey
    <3>. QED BY <3>1, <3>3
  <2>. QED BY <2>1, <2>2
<1>. QED BY <1>1, <1>2

\* An escape weighs more than what it stands for.
LEMMA EscapeWeighs ==
  ASSUME NEW S, NEW r \in Seq(S), NEW e, Len(e) = Len(r) + 1, DOMAIN e = 1..(Len(r) + 1),
         \A i \in 1..Len(r) : e[i + 1] = r[i]
  PROVE  Weight(r) \in Nat /\ Weight(e) \in Nat /\ Weight(e) >= Weight(r)
<1> DEFINE R == {i \in DOMAIN r : Kind(r[i]) \in {"big", "pem"}}
           E == {i \in DOMAIN e : Kind(e[i]) \in {"big", "pem"}}
           f == [i \in R |-> i + 1]
<1>1. Len(r) \in Nat /\ DOMAIN r = 1..Len(r)
  OBVIOUS
<1>2. IsFiniteSet(R) /\ IsFiniteSet(E)
  <2>1. IsFiniteSet(1..Len(r)) /\ IsFiniteSet(1..(Len(r) + 1))
    <3>1. Len(r) \in Int /\ Len(r) + 1 \in Int /\ 1 \in Int
      BY <1>1
    <3>. QED BY <3>1, FS_Interval
  <2>2. R \in SUBSET (1..Len(r)) /\ E \in SUBSET (1..(Len(r) + 1))
    BY <1>1
  <2> HIDE DEF R, E
  <2>. QED BY <2>1, <2>2, FS_Subset
<1>3. f \in Injection(R, E)
  <2>1. \A i \in R : i + 1 \in E
    BY <1>1
  <2>2. R \subseteq Nat
    BY <1>1
  <2> HIDE DEF R, E
  <2>3. f \in [R -> E]
    BY <2>1
  <2>4. \A a, b \in R : f[a] = f[b] => a = b
    BY <2>2
  <2> HIDE DEF f
  <2>. QED BY <2>3, <2>4 DEF Injection, IsInjective
<1> HIDE DEF R, E, f
<1>4. Cardinality(R) <= Cardinality(E) /\ Cardinality(R) \in Nat /\ Cardinality(E) \in Nat
  BY <1>2, <1>3, FS_Injection, FS_CardinalityType
<1>5. Weight(r) = Len(r) + 4 * Cardinality(R) /\ Weight(e) = Len(r) + 1 + 4 * Cardinality(E)
  BY DEF Weight, R, E
<1>. QED BY <1>1, <1>4, <1>5

\* An escape is as clean as what it stands for, and is taken off.
LEMMA EscapeIs ==
  ASSUME NEW r, IsText(r), IsClean(r)
  PROVE  LET e == <<<<"literal">>>> \o r
         IN e # <<>> /\ Kind(e[1]) = "literal" /\ Tail(e) = r /\ IsClean(e)
<1> DEFINE e == <<<<"literal">>>> \o r
           L == ToSet(r) \cup {<<"literal">>}
<1>1. r \in Seq(ToSet(r)) /\ Len(r) \in Nat /\ DOMAIN r = 1..Len(r)
  BY TextIs
<1>2. r \in Seq(L) /\ <<<<"literal">>>> \in Seq(L)
  <2> DEFINE T == ToSet(r)
  <2>1. r \in Seq(T) /\ L = T \cup {<<"literal">>}
    BY <1>1
  <2> HIDE DEF T, L
  <2>. QED BY <2>1
<1> HIDE DEF L
<1>3. /\ e \in Seq(L) /\ Len(e) = Len(r) + 1
      /\ e[1] = <<"literal">>
      /\ \A i \in 1..Len(r) : e[i + 1] = r[i]
  BY <1>1, <1>2
<1> HIDE DEF e
<1>4. DOMAIN e = 1..(Len(r) + 1)
  BY <1>1, <1>3
<1>5. e # <<>> /\ Kind(e[1]) = "literal"
  BY <1>1, <1>3 DEF Kind
<1>6. Tail(e) = r
  <2>1. /\ Tail(e) \in Seq(L) /\ Len(Tail(e)) = Len(e) - 1
        /\ \A i \in 1..Len(Tail(e)) : Tail(e)[i] = e[i + 1]
    BY <1>3, <1>5, HeadTailProperties
  <2>2. Len(Tail(e)) = Len(r)
    BY <1>1, <1>3, <2>1
  <2>. QED BY <1>2, <1>3, <2>1, <2>2, SeqEqual
<1>7. IsClean(e)
  <2>1. ASSUME NEW j \in DOMAIN e, j # 1
        PROVE  j - 1 \in DOMAIN r /\ e[j] = r[j - 1]
    <3>1. j - 1 \in 1..Len(r) /\ j - 1 + 1 = j
      BY <1>1, <1>4, <2>1
    <3>. QED BY <1>1, <1>3, <3>1
  <2>2. ASSUME NEW k \in DOMAIN r PROVE k + 1 \in DOMAIN e /\ e[k + 1] = r[k]
    BY <1>1, <1>3, <1>4
  <2>3. Kind(e[1]) \notin {"openai", "pem", "aws", "entropy"}
    BY <1>5
  <2>4. ASSUME NEW j \in DOMAIN e, Kind(e[j]) = "aws"
        PROVE  \E k \in {j - 1, j + 1} :
                 WordAt(e, k) \/ (k \in DOMAIN e /\ Kind(e[k]) = "redacted")
    <3>1. j - 1 \in DOMAIN r /\ Kind(r[j - 1]) = "aws"
      BY <2>1, <2>3, <2>4
    <3>2. PICK l \in {j - 1 - 1, j - 1 + 1} :
                 WordAt(r, l) \/ (l \in DOMAIN r /\ Kind(r[l]) = "redacted")
      BY <3>1 DEF IsClean
    <3>3. l \in DOMAIN r
      BY <3>2 DEF WordAt
    <3>4. l + 1 \in {j - 1, j + 1}
      BY <1>1, <1>4, <3>2, <3>3
    <3>5. l + 1 \in DOMAIN e /\ e[l + 1] = r[l]
      BY <2>2, <3>3
    <3>6. WordAt(e, l + 1) \/ (l + 1 \in DOMAIN e /\ Kind(e[l + 1]) = "redacted")
      BY <3>2, <3>5 DEF WordAt
    <3>. QED BY <3>4, <3>6
  <2>5. ASSUME NEW j \in DOMAIN e, Kind(e[j]) = "entropy"
        PROVE  Weight(e) > MaxScan \/ Holds(e, "slash")
    <3>1. j - 1 \in DOMAIN r /\ Kind(r[j - 1]) = "entropy"
      BY <2>1, <2>3, <2>5
    <3>2. CASE Weight(r) > MaxScan
      <4>1. Weight(r) \in Nat /\ Weight(e) \in Nat /\ Weight(e) >= Weight(r)
        BY <1>1, <1>3, <1>4, EscapeWeighs
      <4>2. MaxScan \in Nat
        BY LimitAssumption
      <4>. QED BY <3>2, <4>1, <4>2
    <3>3. CASE Holds(r, "slash")
      BY <2>2, <3>3 DEF Holds
    <3>. QED BY <3>1, <3>2, <3>3 DEF IsClean
  <2>6. ASSUME NEW j \in DOMAIN e PROVE Kind(e[j]) \notin {"openai", "pem"}
    <3>1. CASE j = 1
      BY <2>3, <3>1
    <3>2. CASE j # 1
      BY <2>1, <3>2 DEF IsClean
    <3>. QED BY <3>1, <3>2
  <2>. QED BY <2>4, <2>5, <2>6 DEF IsClean
<1>. QED BY <1>5, <1>6, <1>7 DEF e

\* A text of storage: it is clean, and so is the blob that it stands for.
Fine(text) ==
  /\ IsCleanOrBlob(text)
  /\ text # <<>> /\ Kind(text[1]) = "blob" => IsClean(text[1][2])

\* A clean text without a reference is fine.
LEMMA CleanIsFine ==
  ASSUME NEW text, IsText(text), IsClean(text)
  PROVE  Fine(text)
<1>1. text # <<>> => 1 \in DOMAIN text
  BY DEF IsText
<1>. QED BY <1>1 DEF Fine, IsCleanOrBlob, IsText

\* A stored leaf reads as the redacted leaf, and is fine.
LEMMA StoredLeafIs ==
  ASSUME NEW text, IsText(text)
  PROVE  /\ ReadText(StoredLeaf(text)) = RedactLeaf(text)
         /\ Fine(StoredLeaf(text))
<1> DEFINE r == RedactLeaf(text)
           s == StoredLeaf(text)
<1>1. IsText(r) /\ IsClean(r) /\ (r # <<>> => 1 \in DOMAIN r)
  BY RedactLeafIs DEF IsText
<1>2. \/ s = <<<<"blob", r>>>>
      \/ s = r /\ (r # <<>> => Kind(r[1]) \notin {"ref", "literal"})
      \/ s = <<<<"literal">>>> \o r
  <2>1. CASE Inert(text)
    <3>1. r = text /\ s = ByWeight(text)
      BY <2>1 DEF RedactLeaf, StoredLeaf
    <3>2. text # <<>> => Kind(text[1]) \notin {"ref", "literal"}
      BY <1>1, <2>1, <3>1 DEF Inert
    <3>. QED BY <3>1, <3>2 DEF ByWeight
  <2>2. CASE ~Inert(text)
    <3>1. r = RedactText(text) /\ s = Extract(RedactText(text))
      BY <2>2 DEF RedactLeaf, StoredLeaf
    <3> HIDE DEF r, s
    <3>2. s = Extract(r)
      BY <3>1
    <3>. QED BY <3>2 DEF Extract, ByWeight
  <2>. QED BY <2>1, <2>2
<1> HIDE DEF r, s
<1>3. CASE s = <<<<"blob", r>>>>
  <2>1. s # <<>> /\ Kind(s[1]) = "blob" /\ s[1][2] = r
    BY <1>3 DEF Kind
  <2>. QED BY <1>1, <2>1 DEF ReadText, Fine, IsCleanOrBlob, r, s
<1>4. CASE s = r /\ (r # <<>> => Kind(r[1]) \notin {"ref", "literal"})
  <2>1. r # <<>> => Kind(r[1]) # "blob"
    BY <1>1 DEF IsText
  <2>2. ReadText(r) = r
    BY <1>4, <2>1 DEF ReadText
  <2>. QED BY <1>1, <1>4, <2>2, CleanIsFine DEF r, s
<1>5. CASE s = <<<<"literal">>>> \o r
  <2>1. s # <<>> /\ Kind(s[1]) = "literal" /\ Tail(s) = r /\ IsClean(s)
    BY <1>1, <1>5, EscapeIs
  <2>. QED BY <1>1, <2>1 DEF ReadText, Fine, IsCleanOrBlob, r, s
<1>. QED BY <1>2, <1>3, <1>4, <1>5

(***************************************************************************)
(* Entries: what redaction makes of a dict.                                *)
(***************************************************************************)

\* The n-th entry of a dict, redacted.
NewEntry(entries, below, n) ==
  <<NewKey(entries[n][1]),
    IF IsSensitive(entries[n][1]) THEN KeyName(entries[n][2]) ELSE below[n]>>

NewEntries(entries, below) == {NewEntry(entries, below, n) : n \in 1..Len(entries)}

IsRow(entries, below, g) ==
  g = [n \in 0..Len(entries) |->
         IF n = 0 THEN <<>>
         ELSE Put(g[n - 1], NewKey(entries[n][1]),
                  IF IsSensitive(entries[n][1]) THEN KeyName(entries[n][2]) ELSE below[n])]

Row(entries, below) == CHOOSE g : IsRow(entries, below, g)

\* The recursion has a solution.
LEMMA RowExists ==
  ASSUME NEW entries, Len(entries) \in Nat, NEW below
  PROVE  IsRow(entries, below, Row(entries, below))
<1> DEFINE val(g, n) == IF n = 0 THEN <<>>
                        ELSE Put(g[n - 1], NewKey(entries[n][1]),
                                 IF IsSensitive(entries[n][1]) THEN KeyName(entries[n][2])
                                                               ELSE below[n])
           upTo(n, g) == g = [i \in 0..n |-> val(g, i)]
           S == {n \in Nat : \E g : upTo(n, g)}
<1>1. 0 \in S
  <2> DEFINE g == [i \in 0..0 |-> <<>>]
  <2>1. \A i \in 0..0 : val(g, i) = <<>>
    OBVIOUS
  <2>2. upTo(0, g)
    BY <2>1
  <2> HIDE DEF upTo, g
  <2>. QED BY <2>2
<1>2. ASSUME NEW n \in 0..(Len(entries) - 1), n \in S PROVE n + 1 \in S
  <2>1. PICK g : upTo(n, g)
    BY <1>2
  <2> DEFINE h == [i \in 0..(n + 1) |-> IF i = n + 1 THEN val(g, i) ELSE g[i]]
  <2>2. n \in Nat /\ n + 1 \in Nat
    OBVIOUS
  <2>3. ASSUME NEW i \in 0..(n + 1) PROVE h[i] = val(h, i)
    <3>1. h[i] = val(g, i)
      <4> HIDE DEF val
      <4>1. i # n + 1 => i \in 0..n
        BY <2>2
      <4>2. \A k \in 0..n : g[k] = val(g, k)
        BY <2>1
      <4>. QED BY <4>1, <4>2
    <3>2. CASE i = 0
      BY <3>1, <3>2
    <3>3. CASE i # 0
      <4>1. i - 1 \in 0..n
        BY <2>2, <2>3, <3>3
      <4>2. h[i - 1] = g[i - 1]
        BY <2>2, <4>1
      <4>. QED BY <3>1, <3>3, <4>2
    <3>. QED BY <3>2, <3>3
  <2>4. h = [i \in 0..(n + 1) |-> val(h, i)]
    <3> HIDE DEF val
    <3>. QED BY <2>3
  <2>5. upTo(n + 1, h)
    BY <2>4
  <2> HIDE DEF upTo, h
  <2>. QED BY <2>2, <2>5
<1>3. Len(entries) \in S
  <2> HIDE DEF S
  <2>0. 0 \in Int /\ Len(entries) \in Int
    OBVIOUS
  <2>1. \A n \in 0..Len(entries) : n \in S
    BY <1>1, <1>2, <2>0, UpInduction
  <2>. QED BY <2>1
<1>4. \E g : IsRow(entries, below, g)
  BY <1>3 DEF IsRow
<1>. QED BY <1>4 DEF Row

\* One entry after another.
LEMMA RowStep ==
  ASSUME NEW entries, Len(entries) \in Nat, NEW below
  PROVE  /\ Row(entries, below)[0] = <<>>
         /\ \A n \in 1..Len(entries) :
              Row(entries, below)[n] =
                Put(Row(entries, below)[n - 1], NewEntry(entries, below, n)[1],
                    NewEntry(entries, below, n)[2])
         /\ RedactEntries(entries, below) = Row(entries, below)[Len(entries)]
<1> DEFINE g == Row(entries, below)
<1>1. IsRow(entries, below, g)
  BY RowExists
<1>2. RedactEntries(entries, below) = g[Len(entries)]
  BY DEF RedactEntries, Row, IsRow
<1> HIDE DEF g
<1>3. g[0] = <<>>
  BY <1>1 DEF IsRow
<1>4. ASSUME NEW n \in 1..Len(entries)
      PROVE  g[n] = Put(g[n - 1], NewEntry(entries, below, n)[1], NewEntry(entries, below, n)[2])
  <2>1. n \in 0..Len(entries) /\ n # 0
    OBVIOUS
  <2>2. g[n] = Put(g[n - 1], NewKey(entries[n][1]),
                   IF IsSensitive(entries[n][1]) THEN KeyName(entries[n][2]) ELSE below[n])
    BY <1>1, <2>1 DEF IsRow
  <2>. QED BY <2>2 DEF NewEntry
<1>. QED BY <1>2, <1>3, <1>4 DEF g

\* An assignment to a key leaves the other entries.
LEMMA PutType ==
  ASSUME NEW P, NEW E \in Seq(P), NEW k, NEW v, <<k, v>> \in P
  PROVE  Put(E, k, v) \in Seq(P)
<1>1. CASE \E i \in DOMAIN E : E[i][1] = k
  <2>1. Put(E, k, v) = [i \in DOMAIN E |-> IF E[i][1] = k THEN <<k, v>> ELSE E[i]]
    BY <1>1 DEF Put
  <2>2. DOMAIN E = 1..Len(E) /\ Len(E) \in Nat /\ \A i \in 1..Len(E) : E[i] \in P
    OBVIOUS
  <2> DEFINE F == [i \in 1..Len(E) |-> IF E[i][1] = k THEN <<k, v>> ELSE E[i]]
  <2>3. F \in [1..Len(E) -> P]
    BY <2>2
  <2> HIDE DEF F
  <2>4. F \in Seq(P)
    BY <2>2, <2>3, SeqDef
  <2>. QED BY <2>1, <2>2, <2>4 DEF F
<1>2. CASE ~ \E i \in DOMAIN E : E[i][1] = k
  <2>1. Put(E, k, v) = Append(E, <<k, v>>)
    BY <1>2 DEF Put
  <2>. QED BY <2>1
<1>. QED BY <1>1, <1>2

\* Each entry of the result is one of the dict's, redacted.
LEMMA RowType ==
  ASSUME NEW entries, Len(entries) \in Nat, NEW below
  PROVE  \A n \in 0..Len(entries) : Row(entries, below)[n] \in Seq(NewEntries(entries, below))
<1> DEFINE g == Row(entries, below)
           P == NewEntries(entries, below)
           S == {n \in Nat : g[n] \in Seq(P)}
<1>1. 0 \in S
  <2>1. g[0] = <<>>
    BY RowStep
  <2> HIDE DEF g, P
  <2>2. g[0] \in Seq(P)
    BY <2>1
  <2>. QED BY <2>2
<1>2. ASSUME NEW n \in 0..(Len(entries) - 1), n \in S PROVE n + 1 \in S
  <2>1. PICK m : m = n + 1
    OBVIOUS
  <2>2. m \in 1..Len(entries) /\ m - 1 = n /\ m \in Nat
    BY <2>1
  <2> DEFINE e == NewEntry(entries, below, m)
  <2>3. g[m] = Put(g[n], e[1], e[2])
    BY <2>2, RowStep
  <2>4. <<e[1], e[2]>> \in P
    <3>1. e = <<e[1], e[2]>>
      BY DEF NewEntry
    <3>2. e \in P
      BY <2>2 DEF NewEntries
    <3>. QED BY <3>1, <3>2
  <2>5. g[n] \in Seq(P)
    BY <1>2
  <2> HIDE DEF g, P, e
  <2>6. g[m] \in Seq(P)
    BY <2>3, <2>4, <2>5, PutType
  <2>. QED BY <2>1, <2>2, <2>6
<1>3. \A n \in 0..Len(entries) : n \in S
  <2> HIDE DEF S
  <2>1. 0 \in Int /\ Len(entries) \in Int
    OBVIOUS
  <2>. QED BY <1>1, <1>2, <2>1, UpInduction
<1>. QED BY <1>3

LEMMA EntriesAre ==
  ASSUME NEW entries, Len(entries) \in Nat, NEW below
  PROVE  RedactEntries(entries, below) \in Seq(NewEntries(entries, below))
<1>1. Len(entries) \in 0..Len(entries)
  OBVIOUS
<1>. QED BY <1>1, RowStep, RowType

\* No key comes twice.
Distinct(E) == \A i, j \in DOMAIN E : E[i][1] = E[j][1] => i = j

LEMMA PutKeepsDistinct ==
  ASSUME NEW P, NEW E \in Seq(P), Distinct(E), NEW k, NEW v
  PROVE  Distinct(Put(E, k, v))
<1> DEFINE F == Put(E, k, v)
<1>1. DOMAIN E = 1..Len(E) /\ Len(E) \in Nat
  OBVIOUS
<1>2. CASE \E i \in DOMAIN E : E[i][1] = k
  <2>1. F = [i \in DOMAIN E |-> IF E[i][1] = k THEN <<k, v>> ELSE E[i]]
    BY <1>2 DEF Put
  <2>2. DOMAIN F = DOMAIN E /\ \A i \in DOMAIN E : F[i][1] = E[i][1]
    BY <2>1
  <2> HIDE DEF F
  <2>3. Distinct(F)
    BY <2>2 DEF Distinct
  <2>. QED BY <2>3 DEF F
<1>3. CASE ~ \E i \in DOMAIN E : E[i][1] = k
  <2>1. F = Append(E, <<k, v>>)
    BY <1>3 DEF Put
  <2>2. /\ DOMAIN F = 1..(Len(E) + 1) /\ F[Len(E) + 1] = <<k, v>>
        /\ \A i \in 1..Len(E) : F[i] = E[i]
    BY <1>1, <2>1
  <2> HIDE DEF F
  <2>3. \A i \in DOMAIN F : i \in DOMAIN E \/ i = Len(E) + 1
    BY <1>1, <2>2
  <2>4. F[Len(E) + 1][1] = k
    BY <2>2
  <2>5. Distinct(F)
    BY <1>1, <1>3, <2>2, <2>3, <2>4 DEF Distinct
  <2>. QED BY <2>5 DEF F
<1>. QED BY <1>2, <1>3

\* The dict that redaction makes has no key twice.
LEMMA EntriesAreDistinct ==
  ASSUME NEW entries, Len(entries) \in Nat, NEW below
  PROVE  Distinct(RedactEntries(entries, below))
<1> DEFINE g == Row(entries, below)
           S == {n \in Nat : Distinct(g[n])}
<1>1. 0 \in S
  <2>1. g[0] = <<>>
    BY RowStep
  <2> HIDE DEF g
  <2>2. Distinct(g[0])
    BY <2>1 DEF Distinct
  <2>. QED BY <2>2
<1>2. ASSUME NEW n \in 0..(Len(entries) - 1), n \in S PROVE n + 1 \in S
  <2>1. PICK m : m = n + 1
    OBVIOUS
  <2>2. m \in 1..Len(entries) /\ m - 1 = n /\ m \in Nat /\ n \in 0..Len(entries)
    BY <2>1
  <2> DEFINE e == NewEntry(entries, below, m)
             P == NewEntries(entries, below)
  <2>3. g[m] = Put(g[n], e[1], e[2])
    BY <2>2, RowStep
  <2>4. g[n] \in Seq(P) /\ Distinct(g[n])
    BY <1>2, <2>2, RowType
  <2> HIDE DEF g, e, P
  <2>5. Distinct(g[m])
    BY <2>3, <2>4, PutKeepsDistinct
  <2>. QED BY <2>1, <2>2, <2>5
<1>3. Len(entries) \in S
  <2> HIDE DEF S
  <2>1. 0 \in Int /\ Len(entries) \in Int /\ Len(entries) \in 0..Len(entries)
    OBVIOUS
  <2>2. \A n \in 0..Len(entries) : n \in S
    BY <1>1, <1>2, <2>1, UpInduction
  <2>. QED BY <2>1, <2>2
<1>. QED BY <1>3, RowStep

\* A dict that no entry of changes stays as it is.
LEMMA EntriesRest ==
  ASSUME NEW P, \A x \in P : x = <<x[1], x[2]>>, NEW E \in Seq(P), Distinct(E), NEW below,
         \A n \in 1..Len(E) : NewEntry(E, below, n) = E[n]
  PROVE  RedactEntries(E, below) = E
<1> DEFINE g == Row(E, below)
           S == {n \in Nat : n \in 0..Len(E) /\ g[n] \in Seq(P) /\ Len(g[n]) = n
                               /\ \A i \in 1..n : g[n][i] = E[i]}
<1>1. /\ Len(E) \in Nat /\ DOMAIN E = 1..Len(E)
      /\ \A i \in 1..Len(E) : E[i] \in P /\ E[i] = <<E[i][1], E[i][2]>>
  OBVIOUS
<1>2. g[0] = <<>>
  BY <1>1, RowStep
<1>3. \A n \in 1..Len(E) : g[n] = Put(g[n - 1], E[n][1], E[n][2])
  BY <1>1, RowStep
<1>4. RedactEntries(E, below) = g[Len(E)]
  BY <1>1, RowStep
<1> HIDE DEF g
<1>5. 0 \in S
  <2>1. <<>> \in Seq(P) /\ Len(<<>>) = 0 /\ 0 \in 0..Len(E) /\ 1..0 = {}
    BY <1>1
  <2>. QED BY <1>2, <2>1
<1>6. ASSUME NEW n \in 0..(Len(E) - 1), n \in S PROVE n + 1 \in S
  <2>1. PICK m : m = n + 1
    OBVIOUS
  <2>2. m \in 1..Len(E) /\ m - 1 = n /\ m \in Nat /\ m \in 0..Len(E)
    BY <1>1, <2>1
  <2>3. g[n] \in Seq(P) /\ Len(g[n]) = n /\ \A i \in 1..n : g[n][i] = E[i]
    BY <1>6
  <2>4. g[m] = Put(g[n], E[m][1], E[m][2])
    BY <1>3, <2>2
  <2>5. DOMAIN g[n] = 1..n
    BY <2>3
  <2>6. ~ \E i \in DOMAIN g[n] : g[n][i][1] = E[m][1]
    <3>1. ASSUME NEW i \in 1..n PROVE g[n][i][1] # E[m][1]
      <4>1. i \in DOMAIN E /\ m \in DOMAIN E /\ i # m
        BY <1>1, <2>1, <2>2
      <4>2. g[n][i] = E[i]
        BY <2>3
      <4>. QED BY <4>1, <4>2 DEF Distinct
    <3>. QED BY <2>5, <3>1
  <2>7. g[m] = Append(g[n], E[m])
    <3>1. E[m] = <<E[m][1], E[m][2]>>
      BY <1>1, <2>2
    <3>. QED BY <2>4, <2>6, <3>1 DEF Put
  <2>8. g[m] \in Seq(P) /\ Len(g[m]) = m /\ \A i \in 1..m : g[m][i] = E[i]
    BY <1>1, <2>1, <2>2, <2>3, <2>7
  <2>. QED BY <2>1, <2>2, <2>8
<1>7. Len(E) \in S
  <2> HIDE DEF S
  <2>1. 0 \in Int /\ Len(E) \in Int /\ Len(E) \in 0..Len(E)
    BY <1>1
  <2>2. \A n \in 0..Len(E) : n \in S
    BY <1>5, <1>6, <2>1, UpInduction
  <2>. QED BY <2>1, <2>2
<1>8. g[Len(E)] = E
  <2>1. PICK F : F = g[Len(E)]
    OBVIOUS
  <2>2. F \in Seq(P) /\ Len(F) = Len(E) /\ \A i \in 1..Len(E) : F[i] = E[i]
    BY <1>7, <2>1
  <2>. QED BY <2>1, <2>2, SeqEqual
<1>. QED BY <1>4, <1>8

\* The entries E with g applied to their values.
Mapped(E, g) == [i \in DOMAIN E |-> <<E[i][1], g[E[i][2]]>>]

\* To map the values and to assign is to assign and to map the values.
LEMMA PutMapped ==
  ASSUME NEW P, \A x \in P : x = <<x[1], x[2]>>, NEW E \in Seq(P), NEW k, NEW v, NEW g
  PROVE  Mapped(Put(E, k, v), g) = Put(Mapped(E, g), k, g[v])
<1> DEFINE M == Mapped(E, g)
<1>1. Len(E) \in Nat /\ DOMAIN E = 1..Len(E)
  OBVIOUS
<1>2. /\ DOMAIN M = 1..Len(E)
      /\ \A i \in 1..Len(E) : M[i] = <<E[i][1], g[E[i][2]]>> /\ M[i][1] = E[i][1]
  BY <1>1 DEF Mapped
<1>3. M \in Seq({M[i] : i \in 1..Len(E)}) /\ Len(M) = Len(E)
  <2>1. M = [i \in 1..Len(E) |-> <<E[i][1], g[E[i][2]]>>]
    BY <1>1 DEF Mapped
  <2> HIDE DEF M
  <2>2. M \in [1..Len(E) -> {M[i] : i \in 1..Len(E)}]
    BY <1>2, <2>1
  <2>3. M \in Seq({M[i] : i \in 1..Len(E)})
    BY <1>1, <2>2, SeqDef
  <2>. QED BY <1>1, <1>2, <2>3, LenProperties
<1>4. CASE \E i \in DOMAIN E : E[i][1] = k
  <2>1. Put(E, k, v) = [i \in 1..Len(E) |-> IF E[i][1] = k THEN <<k, v>> ELSE E[i]]
    BY <1>1, <1>4 DEF Put
  <2>2. Put(M, k, g[v]) = [i \in 1..Len(E) |-> IF M[i][1] = k THEN <<k, g[v]>> ELSE M[i]]
    <3> HIDE DEF M
    <3>. QED BY <1>1, <1>2, <1>4 DEF Put
  <2>3. ASSUME NEW i \in 1..Len(E)
        PROVE  <<Put(E, k, v)[i][1], g[Put(E, k, v)[i][2]]>> = Put(M, k, g[v])[i]
    <3> HIDE DEF M
    <3>1. CASE E[i][1] = k
      BY <1>2, <2>1, <2>2, <3>1
    <3>2. CASE E[i][1] # k
      BY <1>2, <2>1, <2>2, <3>2
    <3>. QED BY <3>1, <3>2
  <2>4. DOMAIN Put(E, k, v) = 1..Len(E)
    BY <2>1
  <2>5. Mapped(Put(E, k, v), g) =
          [i \in 1..Len(E) |-> <<Put(E, k, v)[i][1], g[Put(E, k, v)[i][2]]>>]
    BY <2>4 DEF Mapped
  <2> HIDE DEF M
  <2>6. Put(M, k, g[v]) = [i \in 1..Len(E) |-> Put(M, k, g[v])[i]]
    BY <2>2
  <2>7. Mapped(Put(E, k, v), g) = Put(M, k, g[v])
    BY <2>3, <2>5, <2>6
  <2>. QED BY <2>7 DEF M
<1>5. CASE ~ \E i \in DOMAIN E : E[i][1] = k
  <2>1. Put(E, k, v) = Append(E, <<k, v>>)
    BY <1>5 DEF Put
  <2>2. Put(M, k, g[v]) = Append(M, <<k, g[v]>>)
    <3> HIDE DEF M
    <3>. QED BY <1>1, <1>2, <1>5 DEF Put
  <2> DEFINE A == Append(E, <<k, v>>)
             B == Append(M, <<k, g[v]>>)
             n == Len(E)
  <2>3. /\ DOMAIN A = 1..(n + 1)
        /\ \A i \in 1..n : A[i] = E[i]
        /\ A[n + 1] = <<k, v>>
    <3>1. E \in Seq(P \cup {<<k, v>>})
      BY SeqMonotonic
    <3>. QED BY <1>1, <3>1, AppendProperties, LenProperties
  <2>4. /\ B = [i \in 1..(n + 1) |-> IF i = n + 1 THEN <<k, g[v]>> ELSE M[i]]
    <3> HIDE DEF M
    <3> DEFINE Q == {M[i] : i \in 1..n} \cup {<<k, g[v]>>}
    <3>1. M \in Seq(Q)
      BY <1>3, SeqMonotonic
    <3> HIDE DEF Q
    <3>2. <<k, g[v]>> \in Q
      BY DEF Q
    <3>. QED BY <1>1, <1>3, <3>1, <3>2
  <2>5. Mapped(A, g) = [i \in 1..(n + 1) |-> <<A[i][1], g[A[i][2]]>>]
    BY <2>3 DEF Mapped
  <2> HIDE DEF A, B, M
  <2>6. ASSUME NEW i \in 1..(n + 1) PROVE <<A[i][1], g[A[i][2]]>> = B[i]
    <3>1. CASE i = n + 1
      BY <1>1, <2>3, <2>4, <3>1
    <3>2. CASE i # n + 1
      <4>1. i \in 1..n
        BY <1>1, <3>2
      <4>. QED BY <1>2, <2>3, <2>4, <3>2, <4>1
    <3>. QED BY <3>1, <3>2
  <2>7. Mapped(A, g) = B
    BY <2>4, <2>5, <2>6
  <2>8. Mapped(Put(E, k, v), g) = Put(M, k, g[v])
    BY <2>1, <2>2, <2>7 DEF A, B
  <2>. QED BY <2>8 DEF M
<1>. QED BY <1>4, <1>5

\* If g leads from the values of s to those of r, it does so after the entries are redacted.
LEMMA EntriesMap ==
  ASSUME NEW entries, Len(entries) \in Nat, NEW s, NEW r, NEW g,
         \A n \in 1..Len(entries) :
           /\ g[s[n]] = r[n]
           /\ g[KeyName(entries[n][2])] = KeyName(entries[n][2])
  PROVE  Mapped(RedactEntries(entries, s), g) = RedactEntries(entries, r)
<1> DEFINE a == Row(entries, s)
           b == Row(entries, r)
           P == NewEntries(entries, s)
           S == {n \in Nat : n \in 0..Len(entries) /\ Mapped(a[n], g) = b[n]}
<1>1. 0 \in S
  <2>1. a[0] = <<>> /\ b[0] = <<>>
    BY RowStep
  <2> HIDE DEF a, b
  <2>2. Mapped(<<>>, g) = <<>>
    BY DEF Mapped
  <2>. QED BY <2>1, <2>2
<1>2. ASSUME NEW n \in 0..(Len(entries) - 1), n \in S PROVE n + 1 \in S
  <2>1. PICK m : m = n + 1
    OBVIOUS
  <2>2. m \in 1..Len(entries) /\ m - 1 = n /\ m \in Nat /\ n \in 0..Len(entries)
    BY <2>1
  <2> DEFINE x == NewEntry(entries, s, m)
             y == NewEntry(entries, r, m)
  <2>3. a[m] = Put(a[n], x[1], x[2]) /\ b[m] = Put(b[n], y[1], y[2])
    BY <2>2, RowStep
  <2>4. y[1] = x[1] /\ y[2] = g[x[2]]
    BY <2>2 DEF NewEntry
  <2>5. a[n] \in Seq(P)
    BY <2>2, RowType
  <2>6. \A z \in P : z = <<z[1], z[2]>>
    BY DEF NewEntries, NewEntry
  <2>7. Mapped(a[n], g) = b[n]
    BY <1>2
  <2> HIDE DEF a, b, P, x, y
  <2>8. Mapped(Put(a[n], x[1], x[2]), g) = Put(Mapped(a[n], g), x[1], g[x[2]])
    BY <2>5, <2>6, PutMapped
  <2>9. Mapped(a[m], g) = b[m]
    BY <2>3, <2>4, <2>7, <2>8
  <2>. QED BY <2>1, <2>2, <2>9
<1>3. Len(entries) \in S
  <2> HIDE DEF S
  <2>1. 0 \in Int /\ Len(entries) \in Int
    OBVIOUS
  <2>2. \A n \in 0..Len(entries) : n \in S
    BY <1>1, <1>2, <2>1, UpInduction
  <2>. QED BY <2>2
<1>4. RedactEntries(entries, s) = a[Len(entries)] /\ RedactEntries(entries, r) = b[Len(entries)]
  BY RowStep
<1>. QED BY <1>3, <1>4

(***************************************************************************)
(* One node of a value.                                                    *)
(***************************************************************************)

\* What is indexed from 1 is a sequence.
LEMMA IndexedIsSeq ==
  ASSUME NEW n \in Nat, NEW s, s = [i \in 1..n |-> s[i]]
  PROVE  s \in Seq(ToSet(s)) /\ Len(s) = n /\ DOMAIN s = 1..n
<1>1. DOMAIN s = 1..n
  OBVIOUS
<1>2. s \in [1..n -> ToSet(s)]
  BY <1>1 DEF ToSet
<1>3. s \in Seq(ToSet(s))
  BY <1>2, SeqDef
<1>. QED BY <1>1, <1>3, LenProperties

LEMMA SeqIs ==
  ASSUME NEW S, NEW E \in Seq(S)
  PROVE  /\ E \in Seq(ToSet(E))
         /\ Len(E) \in Nat /\ DOMAIN E = 1..Len(E)
         /\ \A i \in 1..Len(E) : E[i] \in S
<1>1. Len(E) \in Nat /\ DOMAIN E = 1..Len(E) /\ \A i \in 1..Len(E) : E[i] \in S
  OBVIOUS
<1>2. E = [i \in 1..Len(E) |-> E[i]]
  OBVIOUS
<1>. QED BY <1>1, <1>2, IndexedIsSeq

\* The forms of a node.
LEMMA NodeIs ==
  ASSUME NEW v, IsNode(v)
  PROVE  /\ v = <<v[1], v[2]>>
         /\ \/ v[1] \in {"string", "bytes"} /\ IsText(v[2]) /\ Children(v) = <<>>
            \/ v[1] = "list" /\ v[2] \in Seq(ToSet(v[2])) /\ Children(v) = v[2]
            \/ /\ v[1] = "map" /\ v[2] \in Seq(ToSet(v[2]))
               /\ Children(v) = [i \in DOMAIN v[2] |-> v[2][i][2]]
               /\ \A i \in DOMAIN v[2] :
                    v[2][i] = <<v[2][i][1], v[2][i][2]>> /\ IsText(v[2][i][1])
         /\ v[1] \in {"list", "map"} =>
              Len(v[2]) \in Nat /\ DOMAIN v[2] = 1..Len(v[2]) /\ DOMAIN Children(v) = DOMAIN v[2]
BY DEF IsNode, Children

\* A key is clean, and has a sensitive word only when the one that was written did.
LEMMA NewKeyIs ==
  ASSUME NEW k, IsText(k)
  PROVE  /\ IsText(NewKey(k)) /\ IsClean(NewKey(k))
         /\ Holds(NewKey(k), "sensitive") => IsSensitive(k)
<1>1. CASE IsPlaceholder(k)
  <2>1. NewKey(k) = k /\ Len(k) = 1 /\ Kind(k[1]) = "redacted" /\ DOMAIN k = {1}
    BY <1>1 DEF NewKey, IsPlaceholder, IsText
  <2>. QED BY <2>1 DEF IsClean, Holds
<1>2. CASE ~IsPlaceholder(k)
  <2>1. NewKey(k) = RedactText(k)
    BY <1>2 DEF NewKey
  <2> DEFINE r == RedactText(k)
  <2>2. /\ IsText(r) /\ IsClean(r)
        /\ \A q \in 1..Len(r) :
             Kind(r[q]) = "redacted" \/ \E p \in q..Len(k) : r[q] = k[p]
    BY RedactTextIs
  <2> HIDE DEF r
  <2>3. ASSUME NEW q \in DOMAIN r, Kind(r[q]) = "sensitive" PROVE IsSensitive(k)
    <3>1. DOMAIN r = 1..Len(r) /\ Len(r) \in Nat /\ DOMAIN k = 1..Len(k) /\ Len(k) \in Nat
      BY <2>2, TextIs
    <3>2. PICK p \in q..Len(k) : r[q] = k[p]
      BY <2>2, <2>3, <3>1
    <3>3. p \in DOMAIN k
      BY <3>1
    <3>. QED BY <1>2, <2>3, <3>2, <3>3 DEF IsSensitive
  <2>. QED BY <2>1, <2>2, <2>3 DEF Holds, r
<1>. QED BY <1>1, <1>2

\* The value under a sensitive key is a leaf that reading leaves as it is.
LEMMA KeyNameIs ==
  ASSUME NEW c, IsNode(c)
  PROVE  LET k == KeyName(c)
         IN /\ IsLeaf(k) /\ IsRedacted(k) /\ k[1] = "string" /\ Fine(k[2])
            /\ \A below : ReadNode(k, below) = k
<1> DEFINE k == KeyName(c)
<1>1. k = <<"string", k[2]>> /\ IsText(k[2]) /\ IsPlaceholder(k[2])
  <2>1. CASE IsRedacted(c)
    <3>1. k = c /\ c[1] = "string" /\ IsPlaceholder(c[2])
      BY <2>1 DEF KeyName, IsRedacted
    <3>. QED BY <3>1, NodeIs
  <2>2. CASE ~IsRedacted(c)
    <3> DEFINE x == Placeholder("key_name", c)
    <3>1. k = <<"string", <<x>>>> /\ Kind(x) = "redacted"
      BY <2>2 DEF KeyName, Placeholder, Kind
    <3> HIDE DEF x, k
    <3>2. <<x>> \in Seq({x}) /\ Len(<<x>>) = 1 /\ <<x>>[1] = x
      OBVIOUS
    <3>3. \A i \in 1..Len(<<x>>) : Kind(<<x>>[i]) # "blob"
      BY <3>1, <3>2
    <3>4. IsText(<<x>>)
      BY <3>2, <3>3, IsTextFrom
    <3>. QED BY <3>1, <3>2, <3>4 DEF IsPlaceholder
  <2>. QED BY <2>1, <2>2
<1> HIDE DEF k
<1>2. k[1] = "string" /\ IsRedacted(k)
  BY <1>1 DEF IsRedacted
<1>3. IsLeaf(k)
  BY <1>1, <1>2 DEF IsLeaf, IsNode, Children
<1>4. Len(k[2]) = 1 /\ DOMAIN k[2] = {1} /\ k[2] # <<>> /\ Kind(k[2][1]) = "redacted"
  BY <1>1 DEF IsPlaceholder, IsText
<1>5. Fine(k[2])
  <2>1. IsClean(k[2])
    BY <1>4 DEF IsClean
  <2>. QED BY <1>1, <2>1, CleanIsFine
<1>6. ReadText(k[2]) = k[2]
  BY <1>4 DEF ReadText
<1>7. \A below : ReadNode(k, below) = k
  BY <1>1, <1>2, <1>6 DEF ReadNode
<1>. QED BY <1>2, <1>3, <1>5, <1>7 DEF k

\* A sequence with an element for each member of v.
PerMember(v, s) == s = [i \in DOMAIN Children(v) |-> s[i]]

\* What becomes of a node v whose members become those of s: the members of w are these,
\* or stand under a sensitive key.
Becomes(v, s, w) ==
  /\ w = <<v[1], w[2]>> /\ w[1] = v[1]
  /\ \A i \in DOMAIN Children(w) :
       \E n \in DOMAIN Children(v) : Children(w)[i] \in {s[n], KeyName(Children(v)[n])}
  /\ w[1] \in {"string", "bytes"} => Fine(w[2])
  /\ w[1] = "list" => w[2] = s
  /\ w[1] = "map" =>
       /\ w[2] \in Seq(ToSet(w[2]))
       /\ \A i \in DOMAIN w[2] : \E n \in DOMAIN v[2] : w[2][i] = NewEntry(v[2], s, n)

LEMMA NewNodeIs ==
  ASSUME NEW v, IsNode(v), NEW b \in BOOLEAN, NEW s, PerMember(v, s)
  PROVE  Becomes(v, s, RedactNode(v, b, s))
<1> DEFINE w == RedactNode(v, b, s)
           c == Children(v)
<1>1. CASE v[1] \in {"string", "bytes"}
  <2>1. IsText(v[2])
    BY <1>1, NodeIs
  <2>2. /\ w = <<v[1], w[2]>> /\ w[1] = v[1]
        /\ \/ w[2] = StoredLeaf(v[2])
           \/ w[2] = RedactLeaf(v[2])
           \/ w[2] = RedactText(v[2])
    BY <1>1 DEF RedactNode
  <2>3. Fine(StoredLeaf(v[2])) /\ Fine(RedactLeaf(v[2])) /\ Fine(RedactText(v[2]))
    BY <2>1, StoredLeafIs, RedactLeafIs, RedactTextIs, CleanIsFine
  <2> HIDE DEF w
  <2>4. Children(w) = <<>>
    BY <1>1, <2>2 DEF Children
  <2>5. Becomes(v, s, w)
    BY <1>1, <2>2, <2>3, <2>4 DEF Becomes
  <2>. QED BY <2>5 DEF w
<1>2. CASE v[1] = "list"
  <2>1. w = <<"list", s>>
    BY <1>2 DEF RedactNode
  <2>2. Children(w) = s
    BY <2>1 DEF Children
  <2>3. DOMAIN s = DOMAIN c
    BY DEF PerMember
  <2> HIDE DEF w
  <2>4. Becomes(v, s, w)
    BY <1>2, <2>1, <2>2, <2>3 DEF Becomes
  <2>. QED BY <2>4 DEF w
<1>3. CASE v[1] = "map"
  <2>1. /\ Len(v[2]) \in Nat /\ DOMAIN v[2] = 1..Len(v[2]) /\ DOMAIN c = DOMAIN v[2]
        /\ \A n \in DOMAIN v[2] : c[n] = v[2][n][2]
    BY <1>3, NodeIs
  <2>2. w = <<"map", RedactEntries(v[2], s)>>
    BY <1>3 DEF RedactNode
  <2>3. w[2] \in Seq(NewEntries(v[2], s))
    BY <2>1, <2>2, EntriesAre
  <2> HIDE DEF w, c
  <2>4. w[2] \in Seq(ToSet(w[2])) /\ \A i \in DOMAIN w[2] : w[2][i] \in NewEntries(v[2], s)
    BY <2>3, SeqIs
  <2>5. \A i \in DOMAIN w[2] : \E n \in DOMAIN v[2] : w[2][i] = NewEntry(v[2], s, n)
    BY <2>1, <2>4 DEF NewEntries
  <2>6. ASSUME NEW i \in DOMAIN Children(w)
        PROVE  \E n \in DOMAIN c : Children(w)[i] \in {s[n], KeyName(c[n])}
    <3>1. Children(w) = [j \in DOMAIN w[2] |-> w[2][j][2]]
      BY <2>2 DEF Children
    <3>2. i \in DOMAIN w[2] /\ Children(w)[i] = w[2][i][2]
      BY <2>6, <3>1
    <3>3. PICK n \in DOMAIN v[2] : w[2][i] = NewEntry(v[2], s, n)
      BY <2>5, <3>2
    <3>4. w[2][i][2] \in {s[n], KeyName(v[2][n][2])}
      BY <3>3 DEF NewEntry
    <3>. QED BY <2>1, <3>2, <3>3, <3>4
  <2>7. Becomes(v, s, w)
    BY <1>3, <2>2, <2>4, <2>5, <2>6 DEF Becomes, c
  <2>. QED BY <2>7 DEF w
<1>. QED BY <1>1, <1>2, <1>3, NodeIs

\* Redaction leaves a value one.
LEMMA NodeStays ==
  ASSUME NEW v, IsNode(v), NEW s, PerMember(v, s)
  PROVE  IsNode(RedactNode(v, FALSE, s))
<1> DEFINE w == RedactNode(v, FALSE, s)
<1>1. CASE v[1] = "string"
  <2>1. w = <<"string", RedactLeaf(v[2])>>
    BY <1>1 DEF RedactNode
  <2>2. IsText(RedactLeaf(v[2]))
    BY <1>1, NodeIs, RedactLeafIs
  <2> HIDE DEF w
  <2>3. IsNode(w)
    BY <2>1, <2>2 DEF IsNode
  <2>. QED BY <2>3 DEF w
<1>2. CASE v[1] = "bytes"
  <2>1. w = <<"bytes", RedactText(v[2])>>
    BY <1>2 DEF RedactNode
  <2>2. IsText(RedactText(v[2]))
    BY <1>2, NodeIs, RedactTextIs
  <2> HIDE DEF w
  <2>3. IsNode(w)
    BY <2>1, <2>2 DEF IsNode
  <2>. QED BY <2>3 DEF w
<1>3. CASE v[1] = "list"
  <2>1. w = <<"list", s>>
    BY <1>3 DEF RedactNode
  <2>2. Len(v[2]) \in Nat /\ DOMAIN Children(v) = 1..Len(v[2])
    BY <1>3, NodeIs
  <2>3. s = [i \in 1..Len(v[2]) |-> s[i]]
    BY <2>2 DEF PerMember
  <2>4. s \in Seq(ToSet(s))
    BY <2>2, <2>3, IndexedIsSeq
  <2> HIDE DEF w
  <2>5. IsNode(w)
    BY <2>1, <2>4 DEF IsNode
  <2>. QED BY <2>5 DEF w
<1>4. CASE v[1] = "map"
  <2>1. Becomes(v, s, w)
    BY NewNodeIs, FALSE \in BOOLEAN
  <2> HIDE DEF w
  <2>2. w[2] \in Seq(ToSet(w[2])) /\ w = <<"map", w[2]>>
    BY <1>4, <2>1 DEF Becomes
  <2>3. ASSUME NEW i \in DOMAIN w[2]
        PROVE  w[2][i] = <<w[2][i][1], w[2][i][2]>> /\ IsText(w[2][i][1])
    <3>1. PICK n \in DOMAIN v[2] : w[2][i] = NewEntry(v[2], s, n)
      BY <1>4, <2>1 DEF Becomes
    <3>2. IsText(v[2][n][1])
      BY <1>4, NodeIs
    <3>3. IsText(NewKey(v[2][n][1]))
      BY <3>2, NewKeyIs
    <3>. QED BY <3>1, <3>3 DEF NewEntry
  <2>4. IsNode(w)
    BY <2>2, <2>3 DEF IsNode
  <2>. QED BY <2>4 DEF w
<1>. QED BY <1>1, <1>2, <1>3, <1>4, NodeIs

RestsKey(key) == RestsText(key) /\ (~IsSensitive(key) \/ Holds(key, "sensitive"))

\* A node, without its members, that another pass leaves as it is.
RestsNode(w) ==
  /\ w[1] \in {"string", "bytes"} => RestsText(w[2])
  /\ w[1] = "map" => \A i \in DOMAIN w[2] : RestsKey(w[2][i][1])

LEMMA KeyNameIsRedacted ==
  ASSUME NEW c
  PROVE  IsRedacted(KeyName(c))
<1>1. CASE IsRedacted(c)
  BY <1>1 DEF KeyName
<1>2. CASE ~IsRedacted(c)
  <2> DEFINE x == Placeholder("key_name", c)
  <2>1. KeyName(c) = <<"string", <<x>>>> /\ Kind(x) = "redacted"
    BY <1>2 DEF KeyName, Placeholder, Kind
  <2> HIDE DEF x
  <2>2. Len(<<x>>) = 1 /\ <<x>>[1] = x
    OBVIOUS
  <2>. QED BY <2>1, <2>2 DEF IsRedacted, IsPlaceholder
<1>. QED BY <1>1, <1>2

\* Redaction leaves a placeholder.
LEMMA PlaceholderNodeStays ==
  ASSUME NEW c, IsNode(c), IsRedacted(c)
  PROVE  \A below : RedactNode(c, FALSE, below) = c
<1>1. c = <<"string", c[2]>> /\ Len(c[2]) = 1 /\ Kind(c[2][1]) = "redacted" /\ IsText(c[2])
  BY NodeIs DEF IsRedacted, IsPlaceholder
<1>2. PICK x : x = c[2][1]
  OBVIOUS
<1>3. c[2] = <<x>>
  BY <1>1, <1>2, TextIs
<1>4. RedactLeaf(<<x>>) = <<x>>
  BY <1>1, <1>2, PlaceholderStays DEF RedactLeaf
<1>. QED BY <1>1, <1>3, <1>4 DEF RedactNode

\* w is what redaction makes of the node v, with members that become those of s.
Remakes(v, s, w) == w = RedactNode(v, FALSE, s)

\* What redaction has made of a node, with members that stay, stays.
LEMMA NodeRests ==
  ASSUME NEW v, IsNode(v), NEW s, PerMember(v, s), NEW w, Remakes(v, s, w),
         RestsNode(w), NEW r, PerMember(w, r),
         \A i \in DOMAIN Children(w) : r[i] = Children(w)[i]
  PROVE  Remakes(w, r, w)
<1>1. CASE v[1] = "string"
  <2>0. PICK x : x = RedactLeaf(v[2])
    OBVIOUS
  <2>1. w = <<"string", x>>
    BY <1>1, <2>0 DEF Remakes, RedactNode
  <2>2. IsText(v[2])
    BY <1>1, NodeIs
  <2>3. RestsText(x)
    BY <2>1 DEF RestsNode
  <2>4. RedactLeaf(x) = x
    BY <2>0, <2>2, <2>3, LeafTextRests
  <2>5. RedactNode(w, FALSE, r) = <<"string", RedactLeaf(x)>>
    <3>1. w[1] = "string" /\ w[2] = x
      BY <2>1
    <3>. QED BY <3>1 DEF RedactNode
  <2>. QED BY <2>1, <2>4, <2>5 DEF Remakes
<1>2. CASE v[1] = "bytes"
  <2>0. PICK x : x = RedactText(v[2])
    OBVIOUS
  <2>1. w = <<"bytes", x>>
    BY <1>2, <2>0 DEF Remakes, RedactNode
  <2>2. IsText(v[2])
    BY <1>2, NodeIs
  <2>3. RestsText(x)
    BY <2>1 DEF RestsNode
  <2>4. RedactText(x) = x
    BY <2>0, <2>2, <2>3, TextRests
  <2>5. RedactNode(w, FALSE, r) = <<"bytes", RedactText(x)>>
    <3>1. w[1] = "bytes" /\ w[2] = x
      BY <2>1
    <3>. QED BY <3>1 DEF RedactNode
  <2>. QED BY <2>1, <2>4, <2>5 DEF Remakes
<1>3. CASE v[1] = "list"
  <2>0. w = <<"list", s>>
    BY <1>3 DEF Remakes, RedactNode
  <2>1. w[1] = "list" /\ w[2] = s /\ Children(w) = s
    BY <2>0 DEF Children
  <2>2. DOMAIN s = DOMAIN Children(v) /\ s = [i \in DOMAIN s |-> s[i]]
    BY DEF PerMember
  <2>3. r = [i \in DOMAIN s |-> r[i]] /\ \A i \in DOMAIN s : r[i] = s[i]
    BY <2>1 DEF PerMember
  <2>4. r = s
    BY <2>2, <2>3
  <2>5. RedactNode(w, FALSE, r) = <<"list", r>>
    BY <2>1 DEF Remakes, RedactNode
  <2>. QED BY <2>0, <2>4, <2>5 DEF Remakes
<1>4. CASE v[1] = "map"
  <2> DEFINE E == RedactEntries(v[2], s)
             P == NewEntries(v[2], s)
  <2>1. /\ Len(v[2]) \in Nat /\ DOMAIN v[2] = 1..Len(v[2])
        /\ \A n \in DOMAIN v[2] : IsText(v[2][n][1])
    BY <1>4, NodeIs
  <2>2. w = <<"map", E>>
    BY <1>4 DEF Remakes, RedactNode
  <2>3. E \in Seq(P) /\ Distinct(E) /\ \A x \in P : x = <<x[1], x[2]>>
    BY <2>1, EntriesAre, EntriesAreDistinct DEF NewEntries, NewEntry
  <2>4. \A x \in P : \E n \in DOMAIN v[2] : x = NewEntry(v[2], s, n)
    BY <2>1 DEF NewEntries
  <2> HIDE DEF E, P
  <2>5. /\ DOMAIN E = 1..Len(E) /\ Children(w) = [i \in DOMAIN E |-> E[i][2]]
        /\ \A i \in 1..Len(E) : E[i] \in P
    BY <2>2, <2>3 DEF Children
  <2>6. ASSUME NEW i \in 1..Len(E) PROVE NewEntry(E, r, i) = E[i]
    <3>1. PICK n \in DOMAIN v[2] : E[i] = NewEntry(v[2], s, n)
      BY <2>4, <2>5
    <3>0. PICK key : key = v[2][n][1]
      OBVIOUS
    <3>2. E[i] = <<E[i][1], E[i][2]>> /\ E[i][1] = NewKey(key) /\ IsText(key)
      BY <2>1, <3>0, <3>1 DEF NewEntry
    <3>3. RestsKey(E[i][1])
      <4>1. w[1] = "map" /\ w[2] = E
        BY <2>2
      <4>. QED BY <2>5, <4>1 DEF RestsNode
    <3>4. NewKey(E[i][1]) = E[i][1]
      BY <3>2, <3>3, LeafTextRests DEF RestsKey
    <3>5. ASSUME IsSensitive(E[i][1]) PROVE KeyName(E[i][2]) = E[i][2]
      <4>1. Holds(NewKey(key), "sensitive")
        BY <3>2, <3>3, <3>5 DEF RestsKey
      <4>2. IsSensitive(key)
        BY <3>2, <4>1, NewKeyIs
      <4>3. E[i][2] = KeyName(v[2][n][2])
        BY <3>0, <3>1, <4>2 DEF NewEntry
      <4>4. IsRedacted(KeyName(v[2][n][2]))
        BY KeyNameIsRedacted
      <4>. QED BY <4>3, <4>4 DEF KeyName
    <3>6. r[i] = E[i][2]
      BY <2>5
    <3>. QED BY <3>2, <3>4, <3>5, <3>6 DEF NewEntry
  <2>7. RedactEntries(E, r) = E
    BY <2>3, <2>6, EntriesRest
  <2>8. RedactNode(w, FALSE, r) = <<"map", RedactEntries(E, r)>>
    <3>1. w[1] = "map" /\ w[2] = E
      BY <2>2
    <3>. QED BY <3>1 DEF RedactNode
  <2>. QED BY <2>2, <2>7, <2>8 DEF Remakes
<1>. QED BY <1>1, <1>2, <1>3, <1>4, NodeIs

\* A value whose members are as those of a document.
Deep(v) == IsNode(v) /\ \A i \in DOMAIN Children(v) : IsNested(Children(v)[i])

LEMMA DepthIs ==
  ASSUME NEW v
  PROVE  /\ IsLeaf(v) => IsNested(v)
         /\ IsNested(v) => Deep(v)
         /\ IsDocument(v) => Deep(v) /\ v[1] = "map"
<1>1. ASSUME NEW x, IsLeaf(x) PROVE IsNested(x)
  BY <1>1 DEF IsLeaf, IsNested
<1>. QED BY <1>1 DEF IsNested, Deep, IsDocument

LEMMA LeafStays ==
  ASSUME NEW v, IsLeaf(v), NEW b \in BOOLEAN
  PROVE  LET w == RedactNode(v, b, <<>>)
         IN Becomes(v, <<>>, w) /\ Children(w) = <<>> /\ (~b => IsLeaf(w))
<1> DEFINE w == RedactNode(v, b, <<>>)
<1>1. IsNode(v) /\ Children(v) = <<>>
  BY DEF IsLeaf
<1>2. PerMember(v, <<>>)
  BY <1>1 DEF PerMember
<1>3. Becomes(v, <<>>, w)
  BY <1>1, <1>2, NewNodeIs
<1>4. ~b => IsNode(w)
  BY <1>1, <1>2, NodeStays
<1> HIDE DEF w
<1>5. \A i \in DOMAIN Children(w) : FALSE
  BY <1>1, <1>3 DEF Becomes
<1>6. Children(w) = <<>>
  <2>1. CASE w[1] \in {"string", "bytes"}
    BY <2>1 DEF Children
  <2>2. CASE w[1] = "list"
    BY <1>3, <2>2 DEF Children, Becomes
  <2>3. CASE w[1] = "map"
    <3>1. w[2] \in Seq(ToSet(w[2])) /\ Children(w) = [i \in DOMAIN w[2] |-> w[2][i][2]]
      BY <1>3, <2>3 DEF Children, Becomes
    <3>2. w[2] = <<>>
      BY <1>5, <3>1
    <3>. QED BY <3>1, <3>2
  <2>. QED BY <1>1, <1>3, <2>1, <2>2, <2>3, NodeIs DEF Becomes
<1>7. ~b => IsLeaf(w)
  BY <1>4, <1>6 DEF IsLeaf
<1>. QED BY <1>3, <1>6, <1>7 DEF w

LEMMA NestedStays ==
  ASSUME NEW v, IsNode(v), NEW s, PerMember(v, s)
  PROVE  LET w == RedactNode(v, FALSE, s)
         IN /\ (\A n \in DOMAIN Children(v) : IsLeaf(s[n]) /\ IsNode(Children(v)[n])) => IsNested(w)
            /\ (\A n \in DOMAIN Children(v) : IsNested(s[n]) /\ IsNode(Children(v)[n])) => Deep(w)
<1> DEFINE w == RedactNode(v, FALSE, s)
           c == Children(v)
<1>1. IsNode(w)
  BY NodeStays
<1>2. Becomes(v, s, w)
  BY NewNodeIs, FALSE \in BOOLEAN
<1>3. \A x : IsNode(x) => IsLeaf(KeyName(x)) /\ IsNested(KeyName(x))
  BY KeyNameIs, DepthIs
<1> HIDE DEF w, c
<1>4. ASSUME \A n \in DOMAIN c : IsLeaf(s[n]) /\ IsNode(c[n]) PROVE IsNested(w)
  BY <1>1, <1>2, <1>3, <1>4 DEF IsNested, Becomes, c
<1>5. ASSUME \A n \in DOMAIN c : IsNested(s[n]) /\ IsNode(c[n]) PROVE Deep(w)
  BY <1>1, <1>2, <1>3, <1>5 DEF Deep, Becomes, c
<1>. QED BY <1>4, <1>5 DEF w, c

\* A node whose members are read by g.
ReadBy(w, g) == ReadNode(w, [i \in DOMAIN Children(w) |-> g[Children(w)[i]]])

\* From the elements of s, g leads to those of r.
Leads(v, s, r, g) ==
  \A n \in DOMAIN Children(v) :
    /\ g[s[n]] = r[n]
    /\ g[KeyName(Children(v)[n])] = KeyName(Children(v)[n])

\* If g reads the members, then the stored node reads as the redacted one.
LEMMA NodeReads ==
  ASSUME NEW v, IsNode(v),
         NEW s, PerMember(v, s),
         NEW r, PerMember(v, r),
         NEW g,
         Leads(v, s, r, g)
  PROVE  ReadBy(RedactNode(v, TRUE, s), g) = RedactNode(v, FALSE, r)
<1> DEFINE w == RedactNode(v, TRUE, s)
           below == [i \in DOMAIN Children(w) |-> g[Children(w)[i]]]
<1>1. CASE v[1] = "string"
  <2>1. w = <<"string", StoredLeaf(v[2])>> /\ RedactNode(v, FALSE, r) = <<"string", RedactLeaf(v[2])>>
    BY <1>1 DEF RedactNode
  <2>2. ReadText(StoredLeaf(v[2])) = RedactLeaf(v[2])
    BY <1>1, NodeIs, StoredLeafIs
  <2> HIDE DEF w, below, ReadBy
  <2>3. ReadNode(w, below) = <<"string", RedactLeaf(v[2])>>
    BY <2>1, <2>2 DEF ReadNode
  <2>. QED BY <2>1, <2>3 DEF w, below, ReadBy
<1>2. CASE v[1] = "bytes"
  <2>1. w = <<"bytes", RedactText(v[2])>> /\ RedactNode(v, FALSE, r) = <<"bytes", RedactText(v[2])>>
    BY <1>2 DEF RedactNode
  <2> HIDE DEF w, below, ReadBy
  <2>2. ReadNode(w, below) = w
    BY <2>1 DEF ReadNode
  <2>. QED BY <2>1, <2>2 DEF w, below, ReadBy
<1>3. CASE v[1] = "list"
  <2>1. w = <<"list", s>> /\ RedactNode(v, FALSE, r) = <<"list", r>>
    BY <1>3 DEF RedactNode
  <2> HIDE DEF w
  <2>2. Children(w) = s
    BY <2>1 DEF Children
  <2>3. DOMAIN s = DOMAIN Children(v)
    BY DEF PerMember
  <2>4. below = r
    BY <2>2, <2>3 DEF PerMember, Leads
  <2> HIDE DEF w, below, ReadBy
  <2>5. ReadNode(w, below) = <<"list", r>>
    BY <2>1, <2>4 DEF ReadNode
  <2>. QED BY <2>1, <2>5 DEF w, below, ReadBy
<1>4. CASE v[1] = "map"
  <2> DEFINE E == RedactEntries(v[2], s)
  <2>1. w = <<"map", E>> /\ RedactNode(v, FALSE, r) = <<"map", RedactEntries(v[2], r)>>
    BY <1>4 DEF RedactNode
  <2>2. /\ Len(v[2]) \in Nat /\ DOMAIN v[2] = 1..Len(v[2]) /\ DOMAIN Children(v) = DOMAIN v[2]
        /\ \A n \in DOMAIN v[2] : Children(v)[n] = v[2][n][2]
    BY <1>4, NodeIs
  <2>3. \A n \in 1..Len(v[2]) : g[s[n]] = r[n] /\ g[KeyName(v[2][n][2])] = KeyName(v[2][n][2])
    BY <2>2 DEF Leads
  <2>4. Mapped(E, g) = RedactEntries(v[2], r)
    <3>1. PICK e : e = v[2]
      OBVIOUS
    <3>2. Len(e) \in Nat
      BY <2>2, <3>1
    <3>3. \A n \in 1..Len(e) : g[s[n]] = r[n] /\ g[KeyName(e[n][2])] = KeyName(e[n][2])
      BY <2>3, <3>1
    <3>4. Mapped(RedactEntries(e, s), g) = RedactEntries(e, r)
      BY <3>2, <3>3, EntriesMap
    <3>. QED BY <3>1, <3>4
  <2> HIDE DEF w, E
  <2>5. Children(w) = [i \in DOMAIN E |-> E[i][2]]
    BY <2>1 DEF Children
  <2>6. below = [i \in DOMAIN E |-> g[E[i][2]]]
    BY <2>5
  <2> HIDE DEF below
  <2>7. ReadNode(w, below) = <<"map", [i \in DOMAIN below |-> <<w[2][i][1], below[i]>>]>>
    BY <2>1 DEF ReadNode
  <2>8. [i \in DOMAIN below |-> <<w[2][i][1], below[i]>>] = Mapped(E, g)
    BY <2>1, <2>6 DEF Mapped
  <2>9. ReadNode(w, below) = RedactNode(v, FALSE, r)
    BY <2>1, <2>4, <2>7, <2>8
  <2>. QED BY <2>9 DEF w, below, ReadBy
<1>. QED BY <1>1, <1>2, <1>3, <1>4, NodeIs

(***************************************************************************)
(* Whole values, to the depth of a document.                               *)
(***************************************************************************)

\* The walk of redaction, and the walk of reading, at each depth.
Walk0(b, v) == RedactNode(v, b, Children(v))

Walk1(b, v) == RedactNode(v, b, [i \in DOMAIN Children(v) |-> Walk0(b, Children(v)[i])])

Walk2(b, v) == RedactNode(v, b, [i \in DOMAIN Children(v) |-> Walk1(b, Children(v)[i])])

Read0(v) == ReadNode(v, Children(v))

Read1(v) == ReadNode(v, [i \in DOMAIN Children(v) |-> Read0(Children(v)[i])])

Read2(v) == ReadNode(v, [i \in DOMAIN Children(v) |-> Read1(Children(v)[i])])

LEMMA WalksAre ==
  ASSUME NEW v
  PROVE  Strip(v) = Walk2(TRUE, v) /\ Redact(v) = Walk2(FALSE, v) /\ Inline(v) = Read2(v)
BY DEF Strip, Redact, Inline, BottomUp, Walk0, Walk1, Walk2, Read0, Read1, Read2

\* At each depth, a stored value reads as the redacted one.
LEMMA LeafReads ==
  ASSUME NEW v, IsLeaf(v)
  PROVE  Read0(Walk0(TRUE, v)) = Walk0(FALSE, v)
<1>1. IsNode(v) /\ Children(v) = <<>>
  BY DEF IsLeaf
<1> DEFINE w == RedactNode(v, TRUE, <<>>)
           below == [i \in DOMAIN Children(w) |-> <<>>[Children(w)[i]]]
<1>2. PerMember(v, <<>>)
  BY <1>1 DEF PerMember
<1>3. Leads(v, <<>>, <<>>, <<>>)
  BY <1>1 DEF Leads
<1>4. ReadNode(w, below) = RedactNode(v, FALSE, <<>>)
  <2>1. ReadBy(w, <<>>) = RedactNode(v, FALSE, <<>>)
    BY <1>1, <1>2, <1>3, NodeReads
  <2>. QED BY <2>1 DEF ReadBy
<1>5. Children(w) = <<>>
  BY LeafStays, TRUE \in BOOLEAN
<1> HIDE DEF w
<1>6. below = <<>>
  BY <1>5
<1>7. Walk0(TRUE, v) = w /\ Walk0(FALSE, v) = RedactNode(v, FALSE, <<>>)
  BY <1>1 DEF Walk0, w
<1>. QED BY <1>4, <1>5, <1>6, <1>7 DEF Read0

LEMMA NestedReads ==
  ASSUME NEW v, IsNested(v)
  PROVE  Read1(Walk1(TRUE, v)) = Walk1(FALSE, v)
<1> DEFINE c == Children(v)
           s == [i \in DOMAIN c |-> Walk0(TRUE, c[i])]
           r == [i \in DOMAIN c |-> Walk0(FALSE, c[i])]
           w == RedactNode(v, TRUE, s)
           X == {s[n] : n \in DOMAIN c} \cup {KeyName(c[n]) : n \in DOMAIN c}
           g == [x \in X |-> Read0(x)]
           below == [i \in DOMAIN Children(w) |-> g[Children(w)[i]]]
<1>1. IsNode(v) /\ \A n \in DOMAIN c : IsLeaf(c[n])
  BY DEF IsNested
<1>2. PerMember(v, s) /\ PerMember(v, r)
  BY DEF PerMember
<1>3. Leads(v, s, r, g)
  <2> SUFFICES ASSUME NEW n \in DOMAIN c
               PROVE  g[s[n]] = r[n] /\ g[KeyName(c[n])] = KeyName(c[n])
    BY DEF Leads
  <2>1. s[n] \in X /\ KeyName(c[n]) \in X
    OBVIOUS
  <2>2. Read0(s[n]) = r[n]
    BY <1>1, LeafReads
  <2>3. Read0(KeyName(c[n])) = KeyName(c[n])
    BY <1>1, KeyNameIs DEF Read0, IsLeaf
  <2> HIDE DEF X
  <2>. QED BY <2>1, <2>2, <2>3
<1>4. Becomes(v, s, w)
  BY <1>1, <1>2, NewNodeIs, TRUE \in BOOLEAN
<1>5. ReadNode(w, below) = RedactNode(v, FALSE, r)
  <2> HIDE DEF s, r, g
  <2>1. ReadBy(w, g) = RedactNode(v, FALSE, r)
    BY <1>1, <1>2, <1>3, NodeReads
  <2>. QED BY <2>1 DEF ReadBy
<1> HIDE DEF w, s
<1>6. below = [i \in DOMAIN Children(w) |-> Read0(Children(w)[i])]
  <2>1. \A i \in DOMAIN Children(w) : Children(w)[i] \in X
    BY <1>4 DEF Becomes
  <2> HIDE DEF X
  <2>. QED BY <2>1
<1> HIDE DEF below
<1>7. Walk1(TRUE, v) = w
  BY DEF Walk1, w, s
<1>8. Walk1(FALSE, v) = RedactNode(v, FALSE, r)
  BY DEF Walk1
<1>. QED BY <1>5, <1>6, <1>7, <1>8 DEF Read1

LEMMA DeepReads ==
  ASSUME NEW v, Deep(v)
  PROVE  Read2(Walk2(TRUE, v)) = Walk2(FALSE, v)
<1> DEFINE c == Children(v)
           s == [i \in DOMAIN c |-> Walk1(TRUE, c[i])]
           r == [i \in DOMAIN c |-> Walk1(FALSE, c[i])]
           w == RedactNode(v, TRUE, s)
           X == {s[n] : n \in DOMAIN c} \cup {KeyName(c[n]) : n \in DOMAIN c}
           g == [x \in X |-> Read1(x)]
           below == [i \in DOMAIN Children(w) |-> g[Children(w)[i]]]
<1>1. IsNode(v) /\ \A n \in DOMAIN c : IsNested(c[n])
  BY DEF Deep
<1>2. PerMember(v, s) /\ PerMember(v, r)
  BY DEF PerMember
<1>3. Leads(v, s, r, g)
  <2> SUFFICES ASSUME NEW n \in DOMAIN c
               PROVE  g[s[n]] = r[n] /\ g[KeyName(c[n])] = KeyName(c[n])
    BY DEF Leads
  <2>1. s[n] \in X /\ KeyName(c[n]) \in X
    OBVIOUS
  <2>2. Read1(s[n]) = r[n]
    BY <1>1, NestedReads
  <2>3. Read1(KeyName(c[n])) = KeyName(c[n])
    BY <1>1, KeyNameIs DEF Read1, IsNested
  <2> HIDE DEF X
  <2>. QED BY <2>1, <2>2, <2>3
<1>4. Becomes(v, s, w)
  BY <1>1, <1>2, NewNodeIs, TRUE \in BOOLEAN
<1>5. ReadNode(w, below) = RedactNode(v, FALSE, r)
  <2> HIDE DEF s, r, g
  <2>1. ReadBy(w, g) = RedactNode(v, FALSE, r)
    BY <1>1, <1>2, <1>3, NodeReads
  <2>. QED BY <2>1 DEF ReadBy
<1> HIDE DEF w, s
<1>6. below = [i \in DOMAIN Children(w) |-> Read1(Children(w)[i])]
  <2>1. \A i \in DOMAIN Children(w) : Children(w)[i] \in X
    BY <1>4 DEF Becomes
  <2> HIDE DEF X
  <2>. QED BY <2>1
<1> HIDE DEF below
<1>7. Walk2(TRUE, v) = w
  BY DEF Walk2, w, s
<1>8. Walk2(FALSE, v) = RedactNode(v, FALSE, r)
  BY DEF Walk2
<1>. QED BY <1>5, <1>6, <1>7, <1>8 DEF Read2

\* What storage has of a document reads as the redacted document.
LEMMA StoredReads ==
  ASSUME NEW v, Deep(v)
  PROVE  Inline(Strip(v)) = Redact(v)
<1>1. Strip(v) = Walk2(TRUE, v) /\ Redact(v) = Walk2(FALSE, v)
  BY WalksAre
<1>2. Inline(Walk2(TRUE, v)) = Read2(Walk2(TRUE, v))
  BY WalksAre
<1>. QED BY <1>1, <1>2, DeepReads

\* Redaction leaves a value as deep as it was.
LEMMA RedactStays ==
  ASSUME NEW v
  PROVE  /\ IsNested(v) => IsNested(Redact(v))
         /\ IsDocument(v) => IsDocument(Redact(v))
<1>1. ASSUME NEW x, IsLeaf(x) PROVE IsLeaf(Walk0(FALSE, x)) /\ IsLeaf(Walk1(FALSE, x))
  <2>1. Children(x) = <<>>
    BY <1>1 DEF IsLeaf
  <2>2. Walk0(FALSE, x) = RedactNode(x, FALSE, <<>>) /\ Walk1(FALSE, x) = RedactNode(x, FALSE, <<>>)
    BY <2>1 DEF Walk0, Walk1
  <2>3. IsLeaf(RedactNode(x, FALSE, <<>>))
    BY <1>1, LeafStays, FALSE \in BOOLEAN
  <2>. QED BY <2>2, <2>3
<1>2. ASSUME NEW x, IsNested(x) PROVE IsNested(Walk1(FALSE, x)) /\ IsNested(Walk2(FALSE, x))
  <2> DEFINE c == Children(x)
             s == [i \in DOMAIN c |-> Walk0(FALSE, c[i])]
             t == [i \in DOMAIN c |-> Walk1(FALSE, c[i])]
  <2>1. IsNode(x) /\ \A n \in DOMAIN c : IsLeaf(c[n]) /\ IsNode(c[n])
    BY <1>2 DEF IsNested, IsLeaf
  <2>2. PerMember(x, s) /\ PerMember(x, t)
    BY DEF PerMember
  <2>3. \A n \in DOMAIN c : IsLeaf(s[n]) /\ IsLeaf(t[n])
    BY <1>1, <2>1
  <2>4. Walk1(FALSE, x) = RedactNode(x, FALSE, s) /\ Walk2(FALSE, x) = RedactNode(x, FALSE, t)
    BY DEF Walk1, Walk2
  <2> HIDE DEF s, t
  <2>. QED BY <2>1, <2>2, <2>3, <2>4, NestedStays
<1>3. ASSUME IsDocument(v) PROVE IsDocument(Walk2(FALSE, v))
  <2> DEFINE c == Children(v)
             s == [i \in DOMAIN c |-> Walk1(FALSE, c[i])]
             w == Walk2(FALSE, v)
  <2>1. IsNode(v) /\ v[1] = "map" /\ \A n \in DOMAIN c : IsNested(c[n]) /\ IsNode(c[n])
    BY <1>3 DEF IsDocument, IsNested
  <2>2. PerMember(v, s)
    BY DEF PerMember
  <2>3. \A n \in DOMAIN c : IsNested(s[n])
    BY <1>2, <2>1
  <2>4. w = RedactNode(v, FALSE, s)
    BY DEF Walk2
  <2> HIDE DEF s, w
  <2>5. Deep(w)
    BY <2>1, <2>2, <2>3, <2>4, NestedStays
  <2>6. w[1] = "map"
    BY <2>1, <2>4 DEF RedactNode
  <2>7. IsDocument(w)
    BY <2>5, <2>6 DEF IsDocument, Deep
  <2>. QED BY <2>7 DEF w
<1>. QED BY <1>2, <1>3, WalksAre

(***************************************************************************)
(* What the walk leaves is clean.                                          *)
(***************************************************************************)

\* The texts of a value, at each depth.
NodeLeaves(node, below) ==
  IF node[1] \in {"string", "bytes"} THEN {node[2]} ELSE UNION Range(below)

NodeKeys(node, below) ==
  (IF node[1] = "map" THEN {node[2][i][1] : i \in DOMAIN node[2]} ELSE {})
    \cup UNION Range(below)

Leaves0(v) == NodeLeaves(v, Children(v))
Leaves1(v) == NodeLeaves(v, [i \in DOMAIN Children(v) |-> Leaves0(Children(v)[i])])
Leaves2(v) == NodeLeaves(v, [i \in DOMAIN Children(v) |-> Leaves1(Children(v)[i])])

Keys0(v) == NodeKeys(v, Children(v))
Keys1(v) == NodeKeys(v, [i \in DOMAIN Children(v) |-> Keys0(Children(v)[i])])
Keys2(v) == NodeKeys(v, [i \in DOMAIN Children(v) |-> Keys1(Children(v)[i])])

LEMMA TextsAre ==
  ASSUME NEW v
  PROVE  Leaves(v) = Leaves2(v) /\ Keys(v) = Keys2(v)
<1>1. Leaves(v) = Leaves2(v)
  BY DEF Leaves, BottomUp, Leaves0, Leaves1, Leaves2, NodeLeaves
<1>2. Keys(v) = Keys2(v)
  BY DEF Keys, BottomUp, Keys0, Keys1, Keys2, NodeKeys
<1>. QED BY <1>1, <1>2

AllFine(texts) == \A text \in texts : Fine(text)

\* A node is fine when its members are.
LEMMA NodeIsFine ==
  ASSUME NEW v, IsNode(v), NEW s, NEW w, Becomes(v, s, w),
         NEW L, \A i \in DOMAIN L : AllFine(L[i]),
         NEW K, \A i \in DOMAIN K : AllFine(K[i])
  PROVE  AllFine(NodeLeaves(w, L) \cup NodeKeys(w, K))
<1>1. ASSUME NEW text \in NodeLeaves(w, L) PROVE Fine(text)
  BY <1>1 DEF NodeLeaves, Range, AllFine, Becomes
<1>2. ASSUME NEW text \in NodeKeys(w, K) PROVE Fine(text)
  <2>1. CASE text \in UNION Range(K)
    BY <2>1 DEF Range, AllFine
  <2>2. CASE text \notin UNION Range(K)
    <3>1. w[1] = "map" /\ v[1] = "map"
      BY <1>2, <2>2 DEF NodeKeys, Becomes
    <3>2. PICK i \in DOMAIN w[2] : text = w[2][i][1]
      BY <1>2, <2>2, <3>1 DEF NodeKeys
    <3>3. PICK n \in DOMAIN v[2] : w[2][i] = NewEntry(v[2], s, n)
      BY <3>1 DEF Becomes
    <3>4. text = NewKey(v[2][n][1])
      BY <3>2, <3>3 DEF NewEntry
    <3>5. IsText(v[2][n][1])
      BY <3>1, NodeIs
    <3>6. IsText(text) /\ IsClean(text)
      BY <3>4, <3>5, NewKeyIs
    <3>. QED BY <3>6, CleanIsFine
  <2>. QED BY <2>1, <2>2
<1>. QED BY <1>1, <1>2 DEF AllFine

\* So is what stands under a sensitive key.
LEMMA KeyNameIsFine ==
  ASSUME NEW c, IsNode(c)
  PROVE  LET k == KeyName(c)
         IN AllFine(Leaves0(k) \cup Keys0(k)) /\ AllFine(Leaves1(k) \cup Keys1(k))
<1> DEFINE k == KeyName(c)
<1>1. IsLeaf(k) /\ k[1] = "string" /\ Fine(k[2])
  BY KeyNameIs
<1> HIDE DEF k
<1>2. Children(k) = <<>>
  BY <1>1 DEF IsLeaf
<1>3. \A b : DOMAIN b = {} => NodeLeaves(k, b) = {k[2]} /\ NodeKeys(k, b) = {}
  BY <1>1 DEF NodeLeaves, NodeKeys, Range
<1>4. DOMAIN Children(k) = {}
  BY <1>2
<1>5. Leaves0(k) = {k[2]} /\ Keys0(k) = {}
  BY <1>3, <1>4 DEF Leaves0, Keys0
<1>6. Leaves1(k) = {k[2]} /\ Keys1(k) = {}
  BY <1>3, <1>4 DEF Leaves1, Keys1
<1>. QED BY <1>1, <1>5, <1>6 DEF AllFine, k

LEMMA LeafIsFine ==
  ASSUME NEW v, IsLeaf(v), NEW b \in BOOLEAN
  PROVE  LET w == Walk0(b, v) IN AllFine(Leaves0(w) \cup Keys0(w))
<1> DEFINE w == Walk0(b, v)
<1>1. IsNode(v) /\ Children(v) = <<>>
  BY DEF IsLeaf
<1>2. w = RedactNode(v, b, <<>>)
  BY <1>1 DEF Walk0
<1>3. Becomes(v, <<>>, w) /\ Children(w) = <<>>
  BY <1>2, LeafStays
<1> HIDE DEF w
<1>4. \A i \in DOMAIN Children(w) : AllFine(Children(w)[i])
  BY <1>3
<1>5. AllFine(NodeLeaves(w, Children(w)) \cup NodeKeys(w, Children(w)))
  BY <1>1, <1>3, <1>4, NodeIsFine
<1>. QED BY <1>5 DEF Leaves0, Keys0, w

\* A node, as the walk makes it of one that is not a leaf.
LEMMA WalkBecomes ==
  ASSUME NEW v, IsNode(v), NEW b \in BOOLEAN
  PROVE  /\ Becomes(v, [i \in DOMAIN Children(v) |-> Walk0(b, Children(v)[i])], Walk1(b, v))
         /\ Becomes(v, [i \in DOMAIN Children(v) |-> Walk1(b, Children(v)[i])], Walk2(b, v))
<1> DEFINE s == [i \in DOMAIN Children(v) |-> Walk0(b, Children(v)[i])]
           t == [i \in DOMAIN Children(v) |-> Walk1(b, Children(v)[i])]
<1>1. PerMember(v, s) /\ PerMember(v, t)
  BY DEF PerMember
<1>2. Walk1(b, v) = RedactNode(v, b, s) /\ Walk2(b, v) = RedactNode(v, b, t)
  BY DEF Walk1, Walk2
<1> HIDE DEF s, t
<1>3. Becomes(v, s, Walk1(b, v)) /\ Becomes(v, t, Walk2(b, v))
  BY <1>1, <1>2, NewNodeIs
<1>. QED BY <1>3 DEF s, t

LEMMA NestedIsFine ==
  ASSUME NEW v, IsNested(v), NEW b \in BOOLEAN
  PROVE  LET w == Walk1(b, v) IN AllFine(Leaves1(w) \cup Keys1(w))
<1> DEFINE c == Children(v)
           s == [i \in DOMAIN c |-> Walk0(b, c[i])]
           w == Walk1(b, v)
           d == Children(w)
           L == [i \in DOMAIN d |-> Leaves0(d[i])]
           K == [i \in DOMAIN d |-> Keys0(d[i])]
<1>1. IsNode(v) /\ \A n \in DOMAIN c : IsLeaf(c[n]) /\ IsNode(c[n])
  BY DEF IsNested, IsLeaf
<1>2. Becomes(v, s, w)
  BY <1>1, WalkBecomes
<1> HIDE DEF w
<1>3. ASSUME NEW i \in DOMAIN d PROVE AllFine(Leaves0(d[i]) \cup Keys0(d[i]))
  <2>1. PICK n \in DOMAIN c : d[i] \in {s[n], KeyName(c[n])}
    BY <1>2 DEF Becomes
  <2>2. CASE d[i] = s[n]
    <3>1. d[i] = Walk0(b, c[n])
      BY <2>2
    <3>. QED BY <1>1, <3>1, LeafIsFine
  <2>3. CASE d[i] = KeyName(c[n])
    BY <1>1, <2>3, KeyNameIsFine
  <2>. QED BY <2>1, <2>2, <2>3
<1>4. (\A i \in DOMAIN L : AllFine(L[i])) /\ (\A i \in DOMAIN K : AllFine(K[i]))
  BY <1>3 DEF AllFine
<1> HIDE DEF L, K, s
<1>5. AllFine(NodeLeaves(w, L) \cup NodeKeys(w, K))
  BY <1>1, <1>2, <1>4, NodeIsFine
<1>. QED BY <1>5 DEF Leaves1, Keys1, L, K, w

LEMMA DeepIsFine ==
  ASSUME NEW v, Deep(v), NEW b \in BOOLEAN
  PROVE  LET w == Walk2(b, v) IN AllFine(Leaves(w) \cup Keys(w))
<1> DEFINE c == Children(v)
           s == [i \in DOMAIN c |-> Walk1(b, c[i])]
           w == Walk2(b, v)
           d == Children(w)
           L == [i \in DOMAIN d |-> Leaves1(d[i])]
           K == [i \in DOMAIN d |-> Keys1(d[i])]
<1>1. IsNode(v) /\ \A n \in DOMAIN c : IsNested(c[n]) /\ IsNode(c[n])
  BY DEF Deep, IsNested
<1>2. Becomes(v, s, w)
  BY <1>1, WalkBecomes
<1> HIDE DEF w
<1>3. ASSUME NEW i \in DOMAIN d PROVE AllFine(Leaves1(d[i]) \cup Keys1(d[i]))
  <2>1. PICK n \in DOMAIN c : d[i] \in {s[n], KeyName(c[n])}
    BY <1>2 DEF Becomes
  <2>2. CASE d[i] = s[n]
    <3>1. d[i] = Walk1(b, c[n])
      BY <2>2
    <3>. QED BY <1>1, <3>1, NestedIsFine
  <2>3. CASE d[i] = KeyName(c[n])
    BY <1>1, <2>3, KeyNameIsFine
  <2>. QED BY <2>1, <2>2, <2>3
<1>4. (\A i \in DOMAIN L : AllFine(L[i])) /\ (\A i \in DOMAIN K : AllFine(K[i]))
  BY <1>3 DEF AllFine
<1> HIDE DEF L, K, s
<1>5. AllFine(NodeLeaves(w, L) \cup NodeKeys(w, K))
  BY <1>1, <1>2, <1>4, NodeIsFine
<1>6. AllFine(Leaves2(w) \cup Keys2(w))
  BY <1>5 DEF Leaves2, Keys2, L, K
<1>. QED BY <1>6, TextsAre DEF w

\* A sensitive key has a placeholder under it.
LEMMA NodeNamesSecrets ==
  ASSUME NEW v, IsNode(v), NEW s, NEW w, Becomes(v, s, w)
  PROVE  SecretsNamed(w)
<1> SUFFICES ASSUME w[1] = "map", NEW i \in DOMAIN w[2], Holds(w[2][i][1], "sensitive")
             PROVE  IsRedacted(w[2][i][2])
  BY DEF SecretsNamed
<1>1. v[1] = "map"
  BY DEF Becomes
<1>2. PICK n \in DOMAIN v[2] : w[2][i] = NewEntry(v[2], s, n)
  BY DEF Becomes
<1>3. IsText(v[2][n][1])
  BY <1>1, NodeIs
<1>4. w[2][i][1] = NewKey(v[2][n][1])
  BY <1>2 DEF NewEntry
<1>5. IsSensitive(v[2][n][1])
  BY <1>3, <1>4, NewKeyIs
<1>6. w[2][i][2] = KeyName(v[2][n][2])
  BY <1>2, <1>5 DEF NewEntry
<1>7. ASSUME NEW c PROVE IsRedacted(KeyName(c))
  <2>1. CASE IsRedacted(c)
    BY <2>1 DEF KeyName
  <2>2. CASE ~IsRedacted(c)
    <3> DEFINE x == Placeholder("key_name", c)
    <3>1. KeyName(c) = <<"string", <<x>>>> /\ Kind(x) = "redacted"
      BY <2>2 DEF KeyName, Placeholder, Kind
    <3> HIDE DEF x
    <3>2. Len(<<x>>) = 1 /\ <<x>>[1] = x
      OBVIOUS
    <3>. QED BY <3>1, <3>2 DEF IsRedacted, IsPlaceholder
  <2>. QED BY <2>1, <2>2
<1>. QED BY <1>6, <1>7

\* What is stored, or shown, or audited, is clean, and so are its blobs.
LEMMA WalkIsClean ==
  ASSUME NEW v, Deep(v), NEW b \in BOOLEAN
  PROVE  LET w == Walk2(b, v) IN IsCleanValue(w) /\ \A content \in Blobs(w) : IsClean(content)
<1> DEFINE c == Children(v)
           s == [i \in DOMAIN c |-> Walk1(b, c[i])]
           w == Walk2(b, v)
<1>1. IsNode(v) /\ \A n \in DOMAIN c : IsNode(c[n])
  BY DEF Deep, IsNested
<1>2. Becomes(v, s, w)
  BY <1>1, WalkBecomes
<1>3. AllFine(Leaves(w) \cup Keys(w))
  BY DeepIsFine
<1> HIDE DEF w
<1>4. SecretsNamed(w)
  BY <1>1, <1>2, NodeNamesSecrets
<1>5. ASSUME NEW i \in DOMAIN Children(w) PROVE SecretsNamed(Children(w)[i])
  <2>1. PICK n \in DOMAIN c : Children(w)[i] \in {s[n], KeyName(c[n])}
    BY <1>2 DEF Becomes
  <2>2. CASE Children(w)[i] = s[n]
    <3>1. Children(w)[i] = Walk1(b, c[n])
      BY <2>2
    <3>. QED BY <1>1, <3>1, WalkBecomes, NodeNamesSecrets
  <2>3. CASE Children(w)[i] = KeyName(c[n])
    <3>1. KeyName(c[n])[1] = "string"
      BY <1>1, KeyNameIs
    <3>. QED BY <2>3, <3>1 DEF SecretsNamed
  <2>. QED BY <2>1, <2>2, <2>3
<1>6. \A content \in Blobs(w) : IsClean(content)
  BY <1>3 DEF Blobs, AllFine, Fine
<1>7. \A text \in Leaves(w) \cup Keys(w) : IsCleanOrBlob(text)
  BY <1>3 DEF AllFine, Fine
<1>8. IsCleanValue(w)
  BY <1>4, <1>5, <1>7 DEF IsCleanValue
<1>. QED BY <1>6, <1>8 DEF w

(***************************************************************************)
(* A second pass of redaction.                                             *)
(***************************************************************************)

\* Texts and keys that another pass leaves as they are.
AllRest(L, K) == (\A text \in L : RestsText(text)) /\ (\A key \in K : RestsKey(key))

LEMMA RestsBelow ==
  ASSUME NEW w, NEW L, NEW K, DOMAIN L = DOMAIN Children(w), DOMAIN K = DOMAIN Children(w),
         AllRest(NodeLeaves(w, L), NodeKeys(w, K))
  PROVE  RestsNode(w) /\ \A i \in DOMAIN Children(w) : AllRest(L[i], K[i])
<1>1. w[1] \in {"string", "bytes"} => Children(w) = <<>> /\ NodeLeaves(w, L) = {w[2]}
  BY DEF Children, NodeLeaves
<1>2. w[1] \notin {"string", "bytes"} => \A i \in DOMAIN L : L[i] \subseteq NodeLeaves(w, L)
  BY DEF NodeLeaves, Range
<1>3. \A i \in DOMAIN K : K[i] \subseteq NodeKeys(w, K)
  BY DEF NodeKeys, Range
<1>4. RestsNode(w)
  BY <1>1 DEF RestsNode, AllRest, NodeKeys
<1>5. ASSUME NEW i \in DOMAIN Children(w) PROVE AllRest(L[i], K[i])
  BY <1>1, <1>2, <1>3, <1>5 DEF AllRest
<1>. QED BY <1>4, <1>5

LEMMA LeafRests ==
  ASSUME NEW v, IsLeaf(v), NEW w, w = Walk0(FALSE, v), AllRest(Leaves0(w), Keys0(w))
  PROVE  Walk0(FALSE, w) = w
<1>1. IsNode(v) /\ Children(v) = <<>> /\ w = RedactNode(v, FALSE, <<>>)
  BY DEF IsLeaf, Walk0
<1>2. Children(w) = <<>>
  BY <1>1, LeafStays, FALSE \in BOOLEAN
<1>3. RestsNode(w)
  <2>1. PICK c : c = Children(w)
    OBVIOUS
  <2>2. AllRest(NodeLeaves(w, c), NodeKeys(w, c)) /\ DOMAIN c = DOMAIN Children(w)
    BY <2>1 DEF Leaves0, Keys0
  <2>. QED BY <2>2, RestsBelow
<1>4. PerMember(v, <<>>) /\ PerMember(w, <<>>)
  <2>1. \A x : Children(x) = <<>> => PerMember(x, <<>>)
    BY DEF PerMember
  <2>. QED BY <1>1, <1>2, <2>1
<1>5. RedactNode(w, FALSE, <<>>) = w
  BY <1>1, <1>2, <1>3, <1>4, NodeRests DEF Remakes
<1>. QED BY <1>2, <1>5 DEF Walk0

LEMMA NestedRests ==
  ASSUME NEW v, IsNested(v), NEW w, w = Walk1(FALSE, v), AllRest(Leaves1(w), Keys1(w))
  PROVE  Walk1(FALSE, w) = w
<1> DEFINE c == Children(v)
           s == [i \in DOMAIN c |-> Walk0(FALSE, c[i])]
           d == Children(w)
           r == [i \in DOMAIN d |-> Walk0(FALSE, d[i])]
           L == [i \in DOMAIN d |-> Leaves0(d[i])]
           K == [i \in DOMAIN d |-> Keys0(d[i])]
<1>1. IsNode(v) /\ \A n \in DOMAIN c : IsLeaf(c[n]) /\ IsNode(c[n])
  BY DEF IsNested, IsLeaf
<1>2. Becomes(v, s, w)
  BY <1>1, WalkBecomes, FALSE \in BOOLEAN
<1>3. w = RedactNode(v, FALSE, s) /\ PerMember(v, s) /\ PerMember(w, r)
  BY DEF Walk1, PerMember
<1>4. RestsNode(w) /\ \A i \in DOMAIN d : AllRest(Leaves0(d[i]), Keys0(d[i]))
  <2>1. AllRest(NodeLeaves(w, L), NodeKeys(w, K)) /\ DOMAIN L = DOMAIN d /\ DOMAIN K = DOMAIN d
    BY DEF Leaves1, Keys1
  <2>2. \A i \in DOMAIN d : L[i] = Leaves0(d[i]) /\ K[i] = Keys0(d[i])
    OBVIOUS
  <2> HIDE DEF L, K
  <2>. QED BY <2>1, <2>2, RestsBelow
<1>5. ASSUME NEW i \in DOMAIN d PROVE Walk0(FALSE, d[i]) = d[i]
  <2>1. PICK n \in DOMAIN c : d[i] \in {s[n], KeyName(c[n])}
    BY <1>2 DEF Becomes
  <2>2. CASE d[i] = s[n]
    <3>1. d[i] = Walk0(FALSE, c[n])
      BY <2>2
    <3>. QED BY <1>1, <1>4, <3>1, LeafRests
  <2>3. CASE d[i] = KeyName(c[n])
    <3>1. IsNode(d[i]) /\ IsRedacted(d[i])
      BY <1>1, <2>3, KeyNameIs DEF IsLeaf
    <3>. QED BY <3>1, PlaceholderNodeStays DEF Walk0
  <2>. QED BY <2>1, <2>2, <2>3
<1>6. Walk1(FALSE, w) = RedactNode(w, FALSE, r) /\ \A i \in DOMAIN d : r[i] = d[i]
  BY <1>5 DEF Walk1
<1> HIDE DEF s, r
<1>. QED BY <1>1, <1>3, <1>4, <1>6, NodeRests DEF Remakes

\* A value that rests after one pass stays.
LEMMA RedactRests ==
  ASSUME NEW v, Deep(v), AtRest(Redact(v))
  PROVE  Redact(Redact(v)) = Redact(v)
<1> DEFINE c == Children(v)
           s == [i \in DOMAIN c |-> Walk1(FALSE, c[i])]
<1>0. PICK w : w = Walk2(FALSE, v)
  OBVIOUS
<1> DEFINE d == Children(w)
           r == [i \in DOMAIN d |-> Walk1(FALSE, d[i])]
           L == [i \in DOMAIN d |-> Leaves1(d[i])]
           K == [i \in DOMAIN d |-> Keys1(d[i])]
<1>1. IsNode(v) /\ \A n \in DOMAIN c : IsNested(c[n]) /\ IsNode(c[n])
  BY DEF Deep, IsNested
<1>2. Becomes(v, s, w)
  BY <1>0, <1>1, WalkBecomes, FALSE \in BOOLEAN
<1>3. w = RedactNode(v, FALSE, s) /\ PerMember(v, s) /\ PerMember(w, r)
  BY <1>0 DEF Walk2, PerMember
<1>4. RestsNode(w) /\ \A i \in DOMAIN d : AllRest(Leaves1(d[i]), Keys1(d[i]))
  <2>0. AllRest(Leaves(w), Keys(w))
    BY <1>0, WalksAre DEF AtRest, AllRest, RestsKey
  <2>1. AllRest(NodeLeaves(w, L), NodeKeys(w, K)) /\ DOMAIN L = DOMAIN d /\ DOMAIN K = DOMAIN d
    BY <2>0, TextsAre DEF Leaves2, Keys2
  <2>2. \A i \in DOMAIN d : L[i] = Leaves1(d[i]) /\ K[i] = Keys1(d[i])
    OBVIOUS
  <2> HIDE DEF L, K
  <2>. QED BY <2>1, <2>2, RestsBelow
<1>5. ASSUME NEW i \in DOMAIN d PROVE Walk1(FALSE, d[i]) = d[i]
  <2>1. PICK n \in DOMAIN c : d[i] \in {s[n], KeyName(c[n])}
    BY <1>2 DEF Becomes
  <2>2. CASE d[i] = s[n]
    <3>1. d[i] = Walk1(FALSE, c[n])
      BY <2>2
    <3>. QED BY <1>1, <1>4, <3>1, NestedRests
  <2>3. CASE d[i] = KeyName(c[n])
    <3>1. IsNode(d[i]) /\ IsRedacted(d[i])
      BY <1>1, <2>3, KeyNameIs DEF IsLeaf
    <3>. QED BY <3>1, PlaceholderNodeStays DEF Walk1
  <2>. QED BY <2>1, <2>2, <2>3
<1>6. Walk2(FALSE, w) = RedactNode(w, FALSE, r) /\ \A i \in DOMAIN d : r[i] = d[i]
  BY <1>5 DEF Walk2
<1>7. Walk2(FALSE, w) = w
  <2> HIDE DEF s, r
  <2>. QED BY <1>1, <1>3, <1>4, <1>6, NodeRests DEF Remakes
<1>8. Redact(w) = Walk2(FALSE, w)
  BY WalksAre
<1>. QED BY <1>0, <1>7, <1>8, WalksAre

(***************************************************************************)
(* Documents, and what patches make of them.                               *)
(***************************************************************************)

IsEntry(x) == x = <<x[1], x[2]>> /\ IsText(x[1]) /\ IsNested(x[2])

LEMMA DocumentIs ==
  ASSUME NEW d, IsDocument(d)
  PROVE  d = <<"map", d[2]>> /\ d[2] \in Seq(ToSet(d[2])) /\ \A x \in ToSet(d[2]) : IsEntry(x)
<1>1. d[1] = "map" /\ IsNode(d) /\ \A i \in DOMAIN Children(d) : IsNested(Children(d)[i])
  BY DEF IsDocument
<1>2. /\ d = <<"map", d[2]>> /\ d[2] \in Seq(ToSet(d[2]))
      /\ \A i \in DOMAIN d[2] : d[2][i] = <<d[2][i][1], d[2][i][2]>> /\ IsText(d[2][i][1])
      /\ Children(d) = [i \in DOMAIN d[2] |-> d[2][i][2]]
  BY <1>1, NodeIs
<1>3. \A i \in DOMAIN d[2] : IsEntry(d[2][i])
  BY <1>1, <1>2 DEF IsEntry
<1>. QED BY <1>2, <1>3 DEF ToSet

LEMMA DocumentFrom ==
  ASSUME NEW P, \A x \in P : IsEntry(x), NEW E \in Seq(P)
  PROVE  IsDocument(<<"map", E>>)
<1> DEFINE d == <<"map", E>>
<1>1. d = <<d[1], d[2]>> /\ d[1] = "map" /\ d[2] = E
  OBVIOUS
<1> HIDE DEF d
<1>2. E \in Seq(ToSet(E)) /\ DOMAIN E = 1..Len(E) /\ \A i \in 1..Len(E) : E[i] \in P
  BY SeqIs
<1>3. \A i \in DOMAIN E : E[i] = <<E[i][1], E[i][2]>> /\ IsText(E[i][1]) /\ IsNested(E[i][2])
  BY <1>2 DEF IsEntry
<1>4. IsNode(d)
  BY <1>1, <1>2, <1>3 DEF IsNode
<1>5. Children(d) = [i \in DOMAIN E |-> E[i][2]]
  BY <1>1 DEF Children
<1>6. IsDocument(d)
  BY <1>1, <1>3, <1>4, <1>5 DEF IsDocument
<1>. QED BY <1>6 DEF d

\* An assignment to a key.
LEMMA PutKeepsDocument ==
  ASSUME NEW d, IsDocument(d), NEW k, IsText(k), NEW v, IsNested(v)
  PROVE  IsDocument(<<"map", Put(d[2], k, v)>>)
<1> DEFINE P == ToSet(d[2]) \cup {<<k, v>>}
<1>1. d[2] \in Seq(ToSet(d[2])) /\ \A x \in ToSet(d[2]) : IsEntry(x)
  BY DocumentIs
<1>2. \A x \in P : IsEntry(x)
  <2>1. IsEntry(<<k, v>>)
    BY DEF IsEntry
  <2>. QED BY <1>1, <2>1
<1>3. d[2] \in Seq(P) /\ <<k, v>> \in P
  BY <1>1, SeqMonotonic
<1> HIDE DEF P
<1>4. Put(d[2], k, v) \in Seq(P)
  BY <1>3, PutType
<1>. QED BY <1>2, <1>4, DocumentFrom

LEMMA TailIsText ==
  ASSUME NEW t, IsText(t), t # <<>>
  PROVE  /\ IsText(Tail(t)) /\ DOMAIN Tail(t) = 1..(Len(t) - 1) /\ Len(t) \in Nat
         /\ \A i \in 1..(Len(t) - 1) : Tail(t)[i] = t[i + 1]
<1>1. t \in Seq(ToSet(t)) /\ Len(t) \in Nat /\ \A i \in 1..Len(t) : Kind(t[i]) # "blob"
  BY TextIs
<1>2. /\ Tail(t) \in Seq(ToSet(t)) /\ Len(Tail(t)) = Len(t) - 1
      /\ \A i \in 1..(Len(t) - 1) : Tail(t)[i] = t[i + 1]
  BY <1>1
<1>3. \A i \in 1..Len(Tail(t)) : Kind(Tail(t)[i]) # "blob"
  <2> SUFFICES ASSUME NEW i \in 1..Len(Tail(t)) PROVE Kind(Tail(t)[i]) # "blob"
    OBVIOUS
  <2>1. PICK j : j = i + 1
    OBVIOUS
  <2>2. j \in 1..Len(t) /\ Tail(t)[i] = t[j]
    BY <1>1, <1>2, <2>1
  <2>. QED BY <1>1, <2>2
<1>4. IsText(Tail(t))
  BY <1>2, <1>3, IsTextFrom
<1>5. DOMAIN Tail(t) = 1..(Len(t) - 1)
  BY <1>2
<1>. QED BY <1>1, <1>2, <1>4, <1>5

\* One operation that fits leaves a document.
LEMMA ApplyOpIs ==
  ASSUME NEW d, IsDocument(d), NEW op, IsOp(op), Fits(d, op)
  PROVE  IsDocument(ApplyOp(d, op))
<1>1. IsText(PointerKey(op[2]))
  BY TailIsText DEF IsOp, PointerKey
<1>2. d[2] \in Seq(ToSet(d[2])) /\ \A x \in ToSet(d[2]) : IsEntry(x)
  BY DocumentIs
<1>3. CASE op[1] = "add"
  <2>1. IsNested(op[3])
    BY <1>3 DEF IsOp
  <2>2. ApplyOp(d, op) = <<"map", Put(d[2], PointerKey(op[2]), op[3])>>
    BY <1>3 DEF ApplyOp
  <2>. QED BY <1>1, <2>1, <2>2, PutKeepsDocument
<1>4. CASE op[1] = "remove"
  <2> DEFINE i == Position(d, op[2])
             E == d[2]
  <2>1. ApplyOp(d, op) = <<"map", RemoveAt(E, i)>>
    BY <1>4 DEF ApplyOp
  <2>2. i \in DOMAIN E
    BY <1>4 DEF Fits, Has, Position
  <2> HIDE DEF i, E
  <2>3. E \in Seq(ToSet(E)) /\ i \in 1..Len(E) /\ Len(E) \in Nat
    BY <1>2, <2>2 DEF E
  <2>4. SubSeq(E, 1, i - 1) \in Seq(ToSet(E)) /\ SubSeq(E, i + 1, Len(E)) \in Seq(ToSet(E))
    BY <2>3, SubSeqProperties
  <2>5. RemoveAt(E, i) \in Seq(ToSet(E))
    BY <2>4 DEF RemoveAt
  <2>. QED BY <1>2, <2>1, <2>5, DocumentFrom DEF E
<1>5. CASE op[1] = "copy"
  <2> DEFINE i == Position(d, op[3])
  <2>1. ApplyOp(d, op) = <<"map", Put(d[2], PointerKey(op[2]), d[2][i][2])>>
    BY <1>5 DEF ApplyOp
  <2>2. i \in DOMAIN d[2]
    BY <1>5 DEF Fits, Has, Position
  <2> HIDE DEF i
  <2>3. IsNested(d[2][i][2])
    BY <1>2, <2>2 DEF ToSet, IsEntry
  <2>. QED BY <1>1, <2>1, <2>3, PutKeepsDocument
<1>. QED BY <1>3, <1>4, <1>5 DEF IsOp

\* The document after each operation.
AreStates(d, patch, g) ==
  g = [n \in 0..Len(patch) |->
         IF n = 0 THEN d
         ELSE IF g[n - 1] # Failed /\ Fits(g[n - 1], patch[n])
           THEN ApplyOp(g[n - 1], patch[n])
           ELSE Failed]

States(d, patch) == CHOOSE g : AreStates(d, patch, g)

LEMMA StatesExist ==
  ASSUME NEW d, NEW patch, Len(patch) \in Nat
  PROVE  AreStates(d, patch, States(d, patch))
<1> DEFINE val(g, n) == IF n = 0 THEN d
                        ELSE IF g[n - 1] # Failed /\ Fits(g[n - 1], patch[n])
                          THEN ApplyOp(g[n - 1], patch[n])
                          ELSE Failed
           upTo(n, g) == g = [i \in 0..n |-> val(g, i)]
           S == {n \in Nat : \E g : upTo(n, g)}
<1>1. 0 \in S
  <2> DEFINE g == [i \in 0..0 |-> d]
  <2>1. \A i \in 0..0 : val(g, i) = d
    OBVIOUS
  <2>2. upTo(0, g)
    BY <2>1
  <2> HIDE DEF upTo, g
  <2>. QED BY <2>2
<1>2. ASSUME NEW n \in 0..(Len(patch) - 1), n \in S PROVE n + 1 \in S
  <2>1. PICK g : upTo(n, g)
    BY <1>2
  <2> DEFINE h == [i \in 0..(n + 1) |-> IF i = n + 1 THEN val(g, i) ELSE g[i]]
  <2>2. n \in Nat /\ n + 1 \in Nat
    OBVIOUS
  <2>3. ASSUME NEW i \in 0..(n + 1) PROVE h[i] = val(h, i)
    <3>1. h[i] = val(g, i)
      <4> HIDE DEF val
      <4>1. i # n + 1 => i \in 0..n
        BY <2>2
      <4>2. \A k \in 0..n : g[k] = val(g, k)
        BY <2>1
      <4>. QED BY <4>1, <4>2
    <3>2. CASE i = 0
      BY <3>1, <3>2
    <3>3. CASE i # 0
      <4>1. i - 1 \in 0..n
        BY <2>2, <2>3, <3>3
      <4>2. h[i - 1] = g[i - 1]
        BY <2>2, <4>1
      <4>. QED BY <3>1, <3>3, <4>2
    <3>. QED BY <3>2, <3>3
  <2>4. h = [i \in 0..(n + 1) |-> val(h, i)]
    <3> HIDE DEF val
    <3>. QED BY <2>3
  <2>5. upTo(n + 1, h)
    BY <2>4
  <2> HIDE DEF upTo, h
  <2>. QED BY <2>2, <2>5
<1>3. Len(patch) \in S
  <2> HIDE DEF S
  <2>0. 0 \in Int /\ Len(patch) \in Int
    OBVIOUS
  <2>1. \A n \in 0..Len(patch) : n \in S
    BY <1>1, <1>2, <2>0, UpInduction
  <2>. QED BY <2>1
<1>4. \E g : AreStates(d, patch, g)
  BY <1>3 DEF AreStates
<1>. QED BY <1>4 DEF States

\* A patch leaves a document, or fails.
LEMMA ApplyPatchIs ==
  ASSUME NEW d, IsDocument(d), NEW patch, IsPatch(patch)
  PROVE  ApplyPatch(d, patch) # Failed => IsDocument(ApplyPatch(d, patch))
<1>0. Len(patch) \in Nat /\ DOMAIN patch = 1..Len(patch) /\ \A n \in 1..Len(patch) : IsOp(patch[n])
  BY DEF IsPatch
<1> DEFINE g == States(d, patch)
           S == {n \in Nat : g[n] # Failed => IsDocument(g[n])}
<1>1. AreStates(d, patch, g)
  BY <1>0, StatesExist
<1>2. ApplyPatch(d, patch) = g[Len(patch)]
  BY DEF ApplyPatch, States, AreStates
<1> HIDE DEF g
<1>3. 0 \in S
  <2>1. g[0] = d
    BY <1>0, <1>1 DEF AreStates
  <2>. QED BY <2>1
<1>4. ASSUME NEW n \in 0..(Len(patch) - 1), n \in S PROVE n + 1 \in S
  <2>1. PICK m : m = n + 1
    OBVIOUS
  <2>2. m \in 0..Len(patch) /\ m # 0 /\ m \in 1..Len(patch) /\ m - 1 = n /\ m \in Nat
    BY <1>0, <2>1
  <2>3. g[m] = IF g[n] # Failed /\ Fits(g[n], patch[m]) THEN ApplyOp(g[n], patch[m]) ELSE Failed
    BY <1>1, <2>2 DEF AreStates
  <2>4. CASE g[n] # Failed /\ Fits(g[n], patch[m])
    <3>1. IsDocument(g[n]) /\ IsOp(patch[m])
      BY <1>0, <1>4, <2>2, <2>4
    <3>2. IsDocument(g[m])
      BY <2>3, <2>4, <3>1, ApplyOpIs
    <3>. QED BY <2>1, <2>2, <3>2
  <2>5. CASE ~(g[n] # Failed /\ Fits(g[n], patch[m]))
    BY <2>1, <2>2, <2>3, <2>5
  <2>. QED BY <2>4, <2>5
<1>5. \A n \in 0..Len(patch) : n \in S
  <2> HIDE DEF S
  <2>1. 0 \in Int /\ Len(patch) \in Int
    BY <1>0
  <2>. QED BY <1>3, <1>4, <2>1, UpInduction
<1>. QED BY <1>0, <1>2, <1>5

\* The value of an operation of redact_patch().
ValueOf(op) ==
  RedactEntries(<<<<PointerKey(op[2]), op[3]>>>>, <<Redact(op[3])>>)[1][2]

LEMMA ValueIs ==
  ASSUME NEW op
  PROVE  ValueOf(op) = IF IsSensitive(PointerKey(op[2])) THEN KeyName(op[3]) ELSE Redact(op[3])
<1> DEFINE entries == <<<<PointerKey(op[2]), op[3]>>>>
           below == <<Redact(op[3])>>
<1>1. Len(entries) = 1 /\ entries[1] = <<PointerKey(op[2]), op[3]>> /\ below[1] = Redact(op[3])
  OBVIOUS
<1>2. ValueOf(op) = RedactEntries(entries, below)[1][2]
  BY DEF ValueOf
<1> HIDE DEF entries, below
<1> DEFINE e == NewEntry(entries, below, 1)
<1>3. RedactEntries(entries, below) = Put(<<>>, e[1], e[2])
  <2>1. Len(entries) \in Nat /\ 1 \in 1..Len(entries) /\ 1 - 1 = 0
    BY <1>1
  <2>2. Row(entries, below)[1] = Put(Row(entries, below)[1 - 1], e[1], e[2])
    BY <2>1, RowStep
  <2>3. Row(entries, below)[0] = <<>>
    BY <2>1, RowStep
  <2>4. RedactEntries(entries, below) = Row(entries, below)[1]
    BY <1>1, <2>1, RowStep
  <2> HIDE DEF e
  <2>. QED BY <2>1, <2>2, <2>3, <2>4
<1>4. e[2] = IF IsSensitive(PointerKey(op[2])) THEN KeyName(op[3]) ELSE Redact(op[3])
  <2>1. e[2] = IF IsSensitive(entries[1][1]) THEN KeyName(entries[1][2]) ELSE below[1]
    BY DEF NewEntry
  <2>2. entries[1][1] = PointerKey(op[2]) /\ entries[1][2] = op[3]
    BY <1>1
  <2>. QED BY <1>1, <2>1, <2>2
<1> HIDE DEF e
<1>5. Put(<<>>, e[1], e[2]) = <<<<e[1], e[2]>>>>
  BY DEF Put
<1>6. ValueOf(op) = e[2]
  BY <1>2, <1>3, <1>5
<1>. QED BY <1>4, <1>6

\* An operation that is made of another one's has the same kind, redacted paths, and the
\* value that it was given.
LEMMA PathsAre ==
  ASSUME NEW op, IsOp(op), NEW v
  PROVE  LET o == RedactPaths(op, v)
         IN /\ o[1] = op[1] /\ o[2] = RedactLeaf(op[2])
            /\ op[1] = "add" => o[3] = v
            /\ op[1] = "copy" => o[3] = RedactLeaf(op[3])
            /\ (op[1] = "add" => IsNested(v)) => IsOp(o)
            /\ IsClean(o[2])
<1> DEFINE o == RedactPaths(op, v)
<1>1. /\ o[1] = op[1] /\ o[2] = RedactLeaf(op[2])
      /\ op[1] = "add" => o[3] = v
      /\ op[1] = "copy" => o[3] = RedactLeaf(op[3])
  BY DEF RedactPaths, IsOp
<1> HIDE DEF o
<1>2. /\ IsText(o[2]) /\ o[2] # <<>> /\ IsClean(o[2])
      /\ op[1] = "copy" => IsText(o[3]) /\ o[3] # <<>>
  BY <1>1, RedactLeafIs DEF IsOp
<1>3. (op[1] = "add" => IsNested(v)) => IsOp(o)
  BY <1>1, <1>2 DEF IsOp
<1>. QED BY <1>1, <1>2, <1>3 DEF o

\* A redacted path has a sensitive word in its key only if the path has.
LEMMA PathKeepsSensitive ==
  ASSUME NEW p, IsText(p), p # <<>>
  PROVE  Holds(PointerKey(RedactLeaf(p)), "sensitive") => Holds(PointerKey(p), "sensitive")
<1> DEFINE r == RedactLeaf(p)
<1>1. /\ IsText(r) /\ r # <<>>
      /\ \A q \in 1..Len(r) :
           Kind(r[q]) = "redacted" \/ \E k \in q..Len(p) : r[q] = p[k]
  BY RedactLeafIs
<1> HIDE DEF r
<1>2. /\ DOMAIN Tail(r) = 1..(Len(r) - 1) /\ Len(r) \in Nat
      /\ \A i \in 1..(Len(r) - 1) : Tail(r)[i] = r[i + 1]
  BY <1>1, TailIsText
<1>3. /\ DOMAIN Tail(p) = 1..(Len(p) - 1) /\ Len(p) \in Nat
      /\ \A i \in 1..(Len(p) - 1) : Tail(p)[i] = p[i + 1]
  BY TailIsText
<1>4. ASSUME NEW i \in DOMAIN Tail(r), Kind(Tail(r)[i]) = "sensitive"
      PROVE  \E j \in DOMAIN Tail(p) : Kind(Tail(p)[j]) = "sensitive"
  <2>1. PICK q : q = i + 1
    OBVIOUS
  <2>2. q \in 1..Len(r) /\ q >= 2 /\ Kind(r[q]) = "sensitive"
    BY <1>2, <1>4, <2>1
  <2>3. PICK k \in q..Len(p) : r[q] = p[k]
    BY <1>1, <2>2
  <2>4. PICK j : j = k - 1
    OBVIOUS
  <2>5. j \in 1..(Len(p) - 1) /\ j + 1 = k
    BY <1>2, <1>3, <2>2, <2>3, <2>4
  <2>6. Tail(p)[j] = p[k]
    BY <1>3, <2>5
  <2>. QED BY <1>3, <2>2, <2>3, <2>5, <2>6
<1>. QED BY <1>4 DEF Holds, PointerKey, r

\* An operation of the audit log: it is one, it is clean, and under a sensitive key its
\* value is a placeholder.
IsCleanOp(op) ==
  /\ IsClean(op[2])
  /\ op[1] = "add" =>
       /\ IsCleanValue(op[3])
       /\ Holds(PointerKey(op[2]), "sensitive") => IsRedacted(op[3])

LEMMA RedactedStays ==
  ASSUME NEW c, IsNode(c), IsRedacted(c)
  PROVE  Redact(c) = c
BY PlaceholderNodeStays, WalksAre DEF Walk2

LEMMA OpIsAudited ==
  ASSUME NEW op, IsOp(op)
  PROVE  /\ IsOp(RedactOp(op))
         /\ IsOp(AuditedOp(RedactOp(op)))
         /\ IsCleanOp(AuditedOp(RedactOp(op)))
<1> DEFINE o == RedactOp(op)
           a == AuditedOp(o)
           v == ValueOf(op)
           u == IF op[1] = "add" THEN v ELSE <<>>
           t == IF o[1] = "add" THEN Redact(o[3]) ELSE <<>>
<1>1. o = RedactPaths(op, u)
  BY DEF RedactOp, ValueOf
<1>2. a = RedactPaths(o, t)
  BY DEF AuditedOp
<1>3. ASSUME op[1] = "add"
      PROVE  IsNested(v) /\ (IsSensitive(PointerKey(op[2])) => IsRedacted(v))
  <2>1. IsNested(op[3]) /\ IsNode(op[3])
    BY <1>3 DEF IsOp, IsNested
  <2>2. IsNested(KeyName(op[3])) /\ IsRedacted(KeyName(op[3]))
    BY <2>1, KeyNameIs, DepthIs
  <2>3. IsNested(Redact(op[3]))
    BY <2>1, RedactStays
  <2> HIDE DEF v
  <2>4. v = IF IsSensitive(PointerKey(op[2])) THEN KeyName(op[3]) ELSE Redact(op[3])
    BY ValueIs DEF v
  <2>. QED BY <2>2, <2>3, <2>4
<1> HIDE DEF o, a, v
<1>4. /\ o[1] = op[1] /\ o[2] = RedactLeaf(op[2]) /\ IsOp(o)
      /\ op[1] = "add" => o[3] = v
  <2>1. op[1] = "add" => IsNested(u) /\ u = v
    BY <1>3
  <2> HIDE DEF u
  <2>. QED BY <1>1, <2>1, PathsAre
<1>5. o[1] = "add" => IsNested(Redact(o[3]))
  BY <1>3, <1>4, RedactStays
<1>6. /\ a[1] = o[1] /\ a[2] = RedactLeaf(o[2]) /\ IsOp(a) /\ IsClean(a[2])
      /\ o[1] = "add" => a[3] = Redact(o[3])
  <2>1. o[1] = "add" => IsNested(t) /\ t = Redact(o[3])
    BY <1>5
  <2> HIDE DEF t
  <2>. QED BY <1>2, <1>4, <2>1, PathsAre
<1>7. ASSUME a[1] = "add"
      PROVE  IsCleanValue(a[3]) /\ (Holds(PointerKey(a[2]), "sensitive") => IsRedacted(a[3]))
  <2>1. op[1] = "add" /\ a[3] = Redact(v) /\ IsNested(v) /\ IsNode(v)
    BY <1>3, <1>4, <1>6, <1>7 DEF IsNested
  <2>2. IsCleanValue(Redact(v))
    BY <2>1, WalksAre, WalkIsClean, DepthIs, FALSE \in BOOLEAN
  <2>3. ASSUME Holds(PointerKey(a[2]), "sensitive") PROVE IsRedacted(a[3])
    <3>1. IsText(op[2]) /\ op[2] # <<>> /\ IsText(o[2]) /\ o[2] # <<>>
      BY <1>4 DEF IsOp
    <3>2. Holds(PointerKey(o[2]), "sensitive")
      BY <1>6, <2>3, <3>1, PathKeepsSensitive
    <3>3. Holds(PointerKey(op[2]), "sensitive")
      BY <1>4, <3>1, <3>2, PathKeepsSensitive
    <3>4. IsSensitive(PointerKey(op[2]))
      <4>1. PICK k : k = PointerKey(op[2])
        OBVIOUS
      <4>2. PICK i \in DOMAIN k : Kind(k[i]) = "sensitive"
        BY <3>3, <4>1 DEF Holds
      <4>3. IsText(k) /\ DOMAIN k = 1..Len(k) /\ Len(k) \in Nat
        BY <3>1, <4>1, TailIsText, TextIs DEF PointerKey
      <4>4. ~IsPlaceholder(k)
        BY <4>2, <4>3 DEF IsPlaceholder
      <4>. QED BY <4>1, <4>2, <4>4 DEF IsSensitive
    <3>. QED BY <1>3, <2>1, <3>4, RedactedStays
  <2>. QED BY <2>1, <2>2, <2>3
<1>8. IsCleanOp(a)
  BY <1>6, <1>7 DEF IsCleanOp
<1>. QED BY <1>4, <1>6, <1>8 DEF o, a

LEMMA PatchIsAudited ==
  ASSUME NEW patch, IsPatch(patch)
  PROVE  /\ IsPatch(RedactPatch(patch))
         /\ LET a == AuditedPatch(RedactPatch(patch))
            IN IsPatch(a) /\ \A i \in DOMAIN a : IsCleanOp(a[i])
<1> DEFINE r == RedactPatch(patch)
           a == AuditedPatch(r)
           n == Len(patch)
<1>1. n \in Nat /\ DOMAIN patch = 1..n /\ \A i \in 1..n : IsOp(patch[i])
  BY DEF IsPatch
<1>2. r = [i \in 1..n |-> RedactOp(patch[i])]
  BY <1>1 DEF RedactPatch
<1>3. a = [i \in 1..n |-> AuditedOp(r[i])]
  BY <1>2 DEF AuditedPatch
<1> HIDE DEF r, a, n
<1>4. \A i \in 1..n : IsOp(r[i]) /\ IsOp(a[i]) /\ IsCleanOp(a[i])
  BY <1>1, <1>2, <1>3, OpIsAudited
<1>5. r \in Seq(ToSet(r)) /\ DOMAIN r = 1..n /\ a \in Seq(ToSet(a)) /\ DOMAIN a = 1..n
  <2>1. r = [i \in 1..n |-> r[i]] /\ a = [i \in 1..n |-> a[i]]
    BY <1>2, <1>3
  <2>. QED BY <1>1, <2>1, IndexedIsSeq
<1>6. IsPatch(r) /\ IsPatch(a) /\ \A i \in DOMAIN a : IsCleanOp(a[i])
  BY <1>4, <1>5 DEF IsPatch
<1>. QED BY <1>6 DEF r, a

\* An operation that comes to rest is audited as it is.
LEMMA OpRests ==
  ASSUME NEW op, IsOp(op), RestsOp(op)
  PROVE  AuditedOp(RedactOp(op)) = RedactOp(op)
<1> DEFINE v == IF op[1] = "add" THEN ValueOf(op) ELSE <<>>
<1>1. PICK o : o = RedactOp(op)
  OBVIOUS
<1>2. o = RedactPaths(op, v)
  BY <1>1 DEF RedactOp, ValueOf
<1>3. /\ o[1] = op[1] /\ o[2] = RedactLeaf(op[2])
      /\ op[1] = "add" => o[3] = v
      /\ op[1] = "copy" => o[3] = RedactLeaf(op[3])
  <2> HIDE DEF v
  <2>. QED BY <1>2, PathsAre
<1>4. IsText(op[2]) /\ (op[1] = "copy" => IsText(op[3]))
  BY DEF IsOp
<1>5. RedactLeaf(o[2]) = o[2]
  BY <1>3, <1>4, LeafTextRests DEF RestsOp
<1>6. ASSUME op[1] = "add" PROVE Redact(o[3]) = o[3]
  <2>1. IsNested(op[3]) /\ IsNode(op[3]) /\ Deep(op[3])
    BY <1>6, DepthIs DEF IsOp, IsNested
  <2>2. o[3] = IF IsSensitive(PointerKey(op[2])) THEN KeyName(op[3]) ELSE Redact(op[3])
    BY <1>3, <1>6, ValueIs
  <2>3. CASE IsSensitive(PointerKey(op[2]))
    BY <2>1, <2>2, <2>3, KeyNameIs, RedactedStays DEF IsLeaf
  <2>4. CASE ~IsSensitive(PointerKey(op[2]))
    BY <1>6, <2>1, <2>2, <2>4, RedactRests DEF RestsOp
  <2>. QED BY <2>3, <2>4
<1> HIDE DEF v
<1>7. CASE op[1] = "add"
  <2>1. o = <<"add", o[2], o[3]>>
    BY <1>2, <1>3, <1>7 DEF RedactPaths
  <2>2. AuditedOp(o) = <<"add", RedactLeaf(o[2]), Redact(o[3])>>
    BY <1>3, <1>7 DEF AuditedOp, RedactPaths
  <2>. QED BY <1>1, <1>5, <1>6, <1>7, <2>1, <2>2
<1>8. CASE op[1] = "remove"
  <2>1. o = <<"remove", o[2]>>
    BY <1>2, <1>3, <1>8 DEF RedactPaths
  <2>2. AuditedOp(o) = <<"remove", RedactLeaf(o[2])>>
    BY <1>3, <1>8 DEF AuditedOp, RedactPaths
  <2>. QED BY <1>1, <1>5, <2>1, <2>2
<1>9. CASE op[1] = "copy"
  <2>1. o = <<"copy", o[2], o[3]>>
    BY <1>2, <1>3, <1>9 DEF RedactPaths
  <2>2. AuditedOp(o) = <<"copy", RedactLeaf(o[2]), RedactLeaf(o[3])>>
    BY <1>3, <1>9 DEF AuditedOp, RedactPaths
  <2>3. RedactLeaf(o[3]) = o[3]
    BY <1>3, <1>4, <1>9, LeafTextRests DEF RestsOp
  <2>. QED BY <1>1, <1>5, <2>1, <2>2, <2>3
<1>. QED BY <1>7, <1>8, <1>9 DEF IsOp

\* So is a patch.
LEMMA PatchRests ==
  ASSUME NEW patch, IsPatch(patch), \A op \in ToSet(patch) : RestsOp(op)
  PROVE  AuditedPatch(RedactPatch(patch)) = RedactPatch(patch)
<1>1. \A i \in DOMAIN patch : IsOp(patch[i]) /\ RestsOp(patch[i])
  BY DEF IsPatch, ToSet
<1>2. PICK r : r = RedactPatch(patch)
  OBVIOUS
<1>3. r = [i \in DOMAIN patch |-> RedactOp(patch[i])]
  BY <1>2 DEF RedactPatch
<1>4. DOMAIN r = DOMAIN patch /\ \A i \in DOMAIN patch : AuditedOp(r[i]) = r[i]
  BY <1>1, <1>3, OpRests
<1>5. AuditedPatch(r) = [i \in DOMAIN patch |-> r[i]]
  BY <1>4 DEF AuditedPatch
<1>. QED BY <1>2, <1>3, <1>5

(***************************************************************************)
(* The run: what is live is a document, and what is stored is what         *)
(* redaction makes of the document that was live.                          *)
(***************************************************************************)

\* A body, or a replay up to its gate, has a document.
LiveInv == phase \in {"run", "replay"} => IsDocument(doc)

\* A snapshot under way.
FlightInv ==
  flight # <<>> =>
    LET f == flight[1]
    IN /\ {"live", "doc", "todo", "purpose"} \subseteq DOMAIN f
       /\ IsDocument(f.live) /\ f.doc = Strip(f.live) /\ f.todo \subseteq Blobs(f.doc)
       /\ f.purpose \in {"step", "pause", "decide"}
       /\ f.purpose = "step" => phase = "run"
       /\ f.purpose = "decide" => IsDocument(reviewed)

StoredInv == stored # Nothing \/ phase = "paused" => IsDocument(saved) /\ stored = Strip(saved)

DecidedInv == phase = "decided" => IsDocument(reviewed)

AuditInv == IsPatch(audit) /\ \A i \in DOMAIN audit : IsCleanOp(audit[i])

DurableInv == \A content \in durable : IsClean(content)

DataInv == LiveInv /\ FlightInv /\ StoredInv /\ DecidedInv /\ AuditInv /\ DurableInv

LEMMA EmptyIsDocument == IsDocument(EmptyDoc)
<1>1. <<>> \in Seq({}) /\ \A x \in {} : IsEntry(x)
  OBVIOUS
<1>. QED BY <1>1, DocumentFrom DEF EmptyDoc

LEMMA DataInvInit == Init => DataInv
<1> SUFFICES ASSUME Init PROVE DataInv
  OBVIOUS
<1>1. IsPatch(<<>>) /\ \A i \in DOMAIN <<>> : IsCleanOp(<<>>[i])
  BY DEF IsPatch
<1>. QED BY <1>1, EmptyIsDocument
     DEF Init, DataInv, LiveInv, FlightInv, StoredInv, DecidedInv, AuditInv, DurableInv

\* A snapshot that starts.
LEMMA FlightIs ==
  ASSUME NEW live, IsDocument(live), NEW purpose
  PROVE  LET f == Flight(live, purpose)[1]
         IN /\ {"live", "doc", "todo", "purpose"} \subseteq DOMAIN f
            /\ IsDocument(f.live) /\ f.doc = Strip(f.live) /\ f.todo \subseteq Blobs(f.doc)
            /\ f.purpose = purpose
<1> DEFINE d == Strip(live)
           b == Blobs(d)
<1>1. d = Strip(live) /\ b = Blobs(d)
  OBVIOUS
<1>2. Flight(live, purpose) = <<[live |-> live, doc |-> d, todo |-> b, purpose |-> purpose]>>
  BY DEF Flight
<1> HIDE DEF d, b
<1>. QED BY <1>1, <1>2

\* Reading what is stored gives the document that was live, redacted.
LEMMA StoredIs ==
  ASSUME NEW live, IsDocument(live)
  PROVE  /\ Inline(Strip(live)) = Redact(live) /\ IsDocument(Redact(live))
         /\ IsCleanValue(Strip(live))
         /\ \A content \in Blobs(Strip(live)) : IsClean(content)
<1>1. Deep(live)
  BY DepthIs
<1>. QED BY <1>1, StoredReads, RedactStays, WalksAre, WalkIsClean, TRUE \in BOOLEAN

LEMMA DataInvWrite ==
  ASSUME DataInv, NEW entry \in Entry, Write(entry[1], entry[2])
  PROVE  DataInv'
<1>1. IsDocument(doc) /\ IsText(entry[1]) /\ IsNested(entry[2])
  BY EntryAssumption DEF DataInv, LiveInv, Write
<1>2. doc' = <<"map", Put(doc[2], entry[1], entry[2])>>
  BY DEF Write, record
<1>3. IsDocument(doc')
  BY <1>1, <1>2, PutKeepsDocument
<1>4. UNCHANGED <<phase, flight, stored, durable, reviewed, audit, saved>> /\ flight = <<>>
  BY DEF Write, record
<1>. QED BY <1>3, <1>4
     DEF DataInv, LiveInv, FlightInv, StoredInv, DecidedInv, AuditInv, DurableInv

LEMMA DataInvSnapshot ==
  ASSUME DataInv, NEW purpose \in {"step", "pause"}, Snapshot(purpose)
  PROVE  DataInv'
<1>1. /\ phase = "run" /\ IsDocument(doc)
      /\ flight' = Flight(doc, purpose)
      /\ UNCHANGED <<phase, doc, stored, durable, reviewed, audit, saved>>
  BY DEF Snapshot, record, DataInv, LiveInv
<1>2. /\ {"live", "doc", "todo", "purpose"} \subseteq DOMAIN flight'[1]
      /\ IsDocument(flight'[1].live) /\ flight'[1].doc = Strip(flight'[1].live)
      /\ flight'[1].todo \subseteq Blobs(flight'[1].doc)
      /\ flight'[1].purpose = purpose
  BY <1>1, FlightIs
<1>3. FlightInv'
  BY <1>1, <1>2 DEF FlightInv
<1>. QED BY <1>1, <1>3
     DEF DataInv, LiveInv, StoredInv, DecidedInv, AuditInv, DurableInv

LEMMA DataInvPutBlob ==
  ASSUME DataInv, flight # <<>>, NEW content \in flight[1].todo, PutBlob(content)
  PROVE  DataInv'
<1> DEFINE f == flight[1]
           h == flight'[1]
<1>1. /\ flight' = <<[f EXCEPT !.todo = @ \ {content}]>>
      /\ durable' \subseteq durable \cup {content}
      /\ UNCHANGED <<phase, doc, stored, reviewed, audit, saved>>
  BY DEF PutBlob, record
<1>2. /\ {"live", "doc", "todo", "purpose"} \subseteq DOMAIN f
      /\ IsDocument(f.live) /\ f.doc = Strip(f.live) /\ f.todo \subseteq Blobs(f.doc)
      /\ f.purpose \in {"step", "pause", "decide"}
      /\ f.purpose = "step" => phase = "run"
      /\ f.purpose = "decide" => IsDocument(reviewed)
  BY DEF DataInv, FlightInv
<1>3. /\ DOMAIN h = DOMAIN f /\ h.live = f.live /\ h.doc = f.doc /\ h.purpose = f.purpose
      /\ h.todo = f.todo \ {content}
  BY <1>1, <1>2
<1>4. IsClean(content)
  BY <1>2, StoredIs
<1> HIDE DEF f, h
<1>5. FlightInv'
  BY <1>1, <1>2, <1>3 DEF FlightInv, h
<1>6. DurableInv'
  BY <1>1, <1>4 DEF DataInv, DurableInv
<1>. QED BY <1>1, <1>5, <1>6 DEF DataInv, LiveInv, StoredInv, DecidedInv, AuditInv

LEMMA DataInvDispatch ==
  ASSUME DataInv, Dispatch
  PROVE  DataInv'
<1> DEFINE f == flight[1]
<1>1. /\ IsDocument(f.live) /\ f.doc = Strip(f.live)
      /\ f.purpose \in {"step", "pause", "decide"}
      /\ f.purpose = "step" => phase = "run"
      /\ f.purpose = "decide" => IsDocument(reviewed)
  BY DEF DataInv, FlightInv, Dispatch
<1>2. /\ flight' = <<>> /\ stored' = f.doc /\ saved' = f.live
      /\ f.purpose = "step" => phase' = "run" /\ doc' = doc
      /\ f.purpose = "pause" => phase' = "paused"
      /\ f.purpose = "decide" => phase' = "decided"
      /\ UNCHANGED <<durable, reviewed, audit>>
  BY DEF Dispatch, record
<1> HIDE DEF f
<1>3. LiveInv' /\ DecidedInv'
  BY <1>1, <1>2 DEF DataInv, LiveInv, DecidedInv
<1>4. StoredInv'
  BY <1>1, <1>2 DEF StoredInv
<1>. QED BY <1>2, <1>3, <1>4 DEF DataInv, FlightInv, AuditInv, DurableInv

LEMMA DataInvDecide ==
  ASSUME DataInv, NEW patch \in Patch, Decide(patch)
  PROVE  DataInv'
<1> DEFINE shown == Inline(stored)
           request == RedactPatch(patch)
           state == ApplyPatch(shown, request)
           next == Redact(state)
<1>1. /\ phase = "paused" /\ state # Failed
      /\ reviewed' = shown /\ decided' = next /\ audit' = AuditedPatch(request)
      /\ \/ phase' = "decided" /\ flight' = <<>>
         \/ phase' = phase /\ flight' = Flight(decided', "decide")
      /\ UNCHANGED <<doc, stored, durable, saved>>
  BY DEF Decide, record
<1>2. IsPatch(patch)
  BY PatchAssumption
<1>3. IsPatch(request) /\ IsPatch(audit') /\ \A i \in DOMAIN audit' : IsCleanOp(audit'[i])
  BY <1>1, <1>2, PatchIsAudited
<1>4. IsDocument(shown)
  BY <1>1, StoredIs DEF DataInv, StoredInv
<1> HIDE DEF shown, request
<1>5. IsDocument(state)
  BY <1>1, <1>3, <1>4, ApplyPatchIs
<1> HIDE DEF state
<1>6. IsDocument(next)
  BY <1>5, RedactStays
<1> HIDE DEF next
<1>7. IsDocument(reviewed') /\ IsDocument(decided')
  BY <1>1, <1>4, <1>6
<1>8. FlightInv'
  <2>1. CASE flight' = <<>>
    BY <2>1 DEF FlightInv
  <2>2. CASE flight' = Flight(decided', "decide")
    <3>1. /\ {"live", "doc", "todo", "purpose"} \subseteq DOMAIN flight'[1]
          /\ IsDocument(flight'[1].live) /\ flight'[1].doc = Strip(flight'[1].live)
          /\ flight'[1].todo \subseteq Blobs(flight'[1].doc)
          /\ flight'[1].purpose = "decide"
      BY <1>7, <2>2, FlightIs
    <3>. QED BY <1>7, <3>1 DEF FlightInv
  <2>. QED BY <1>1, <2>1, <2>2
<1>9. LiveInv' /\ StoredInv' /\ DecidedInv' /\ DurableInv'
  BY <1>1, <1>7 DEF DataInv, LiveInv, StoredInv, DecidedInv, DurableInv
<1>. QED BY <1>3, <1>8, <1>9 DEF DataInv, AuditInv

LEMMA DataInvNext == DataInv /\ [Next]_vars => DataInv'
<1> SUFFICES ASSUME DataInv, [Next]_vars PROVE DataInv'
  OBVIOUS
<1>1. CASE \E entry \in Entry : Write(entry[1], entry[2])
  BY <1>1, DataInvWrite
<1>2. CASE \E purpose \in {"step", "pause"} : Snapshot(purpose)
  BY <1>2, DataInvSnapshot
<1>3. CASE flight # <<>> /\ \E content \in flight[1].todo : PutBlob(content)
  BY <1>3, DataInvPutBlob
<1>4. CASE Dispatch
  BY <1>4, DataInvDispatch
<1>5. CASE WriteRaises
  BY <1>5 DEF WriteRaises, record, DataInv, LiveInv, FlightInv, StoredInv, DecidedInv, AuditInv, DurableInv
<1>6. CASE \E patch \in Patch : Decide(patch)
  BY <1>6, DataInvDecide
<1>7. CASE Reenter
  BY <1>7 DEF Reenter, record, DataInv, LiveInv, FlightInv, StoredInv, DecidedInv, AuditInv, DurableInv
<1>8. CASE Gate
  <2> DEFINE state == ApplyPatch(doc, audit)
  <2>1. /\ phase = "replay"
        /\ \/ state # Failed /\ doc' = state /\ phase' = "run"
           \/ phase' = "dead"
        /\ UNCHANGED <<flight, stored, durable, reviewed, audit, saved>>
    BY <1>8 DEF Gate, record
  <2>2. state # Failed => IsDocument(state)
    BY <2>1, ApplyPatchIs DEF DataInv, LiveInv, AuditInv
  <2> HIDE DEF state
  <2>3. LiveInv'
    BY <2>1, <2>2 DEF LiveInv
  <2>. QED BY <2>1, <2>3
       DEF DataInv, FlightInv, StoredInv, DecidedInv, AuditInv, DurableInv
<1>9. CASE Crash
  BY <1>9 DEF Crash, record, DataInv, LiveInv, FlightInv, StoredInv, DecidedInv, AuditInv, DurableInv
<1>10. CASE Reopen
  <2>1. IsDocument(doc')
    <3>1. stored = Nothing => doc' = EmptyDoc
      BY <1>10 DEF Reopen
    <3>2. stored # Nothing => doc' = Inline(stored)
      BY <1>10 DEF Reopen
    <3>3. stored # Nothing => IsDocument(Inline(stored))
      BY StoredIs DEF DataInv, StoredInv
    <3>. QED BY <3>1, <3>2, <3>3, EmptyIsDocument
  <2>. QED BY <1>10, <2>1
       DEF Reopen, record, DataInv, LiveInv, FlightInv, StoredInv, DecidedInv, AuditInv, DurableInv
<1>11. CASE UNCHANGED vars
  BY <1>11
     DEF vars, record, DataInv, LiveInv, FlightInv, StoredInv, DecidedInv, AuditInv, DurableInv
<1>. QED BY <1>1, <1>2, <1>3, <1>4, <1>5, <1>6, <1>7, <1>8, <1>9, <1>10, <1>11 DEF Next

\* What is read back from storage is the live document, redacted, and nothing else: for any
\* values to the depth of the model, any patches, failures and limits, a string that looks
\* like a reference or like an escape comes back as it was.
THEOREM LoadGivesTheLiveDocument == Spec => []LoadRoundTrip
<1>1. DataInv => LoadRoundTrip
  BY StoredIs DEF DataInv, StoredInv, LoadRoundTrip
<1>. QED BY DataInvInit, DataInvNext, <1>1, PTL DEF Spec

\* redact.py:1 to 5, for the same values, patches, failures and limits: no credential of a
\* known format is in what is stored of a run's state, in its blobs or in its audit log,
\* and nothing but a placeholder under a sensitive key.
THEOREM NothingStoredLeaks == Spec => []StoredIsClean
<1>1. ASSUME DataInv PROVE StoredIsClean
  <2>1. stored # Nothing => IsCleanValue(stored)
    BY <1>1, StoredIs DEF DataInv, StoredInv
  <2>2. \A content \in durable : IsClean(content)
    BY <1>1 DEF DataInv, DurableInv
  <2>3. \A i \in DOMAIN audit : IsCleanOp(audit[i])
    BY <1>1 DEF DataInv, AuditInv
  <2>. QED BY <2>1, <2>2, <2>3 DEF StoredIsClean, IsCleanOp
<1>. QED BY DataInvInit, DataInvNext, <1>1, PTL DEF Spec

(***************************************************************************)
(* References: the order of the writes.                                    *)
(***************************************************************************)

\* What the cache holds is in storage; a snapshot under way has put, or has yet to put, each
\* of its blobs; and a document that can be read has all of them.  A run that is paused has
\* stored one.
RefsInv ==
  /\ cache \subseteq durable
  /\ flight # <<>> =>
       /\ {"doc", "todo"} \subseteq DOMAIN flight[1]
       /\ Blobs(flight[1].doc) \subseteq durable \cup flight[1].todo
  /\ (stored # Nothing \/ phase = "paused") => Blobs(stored) \subseteq durable

LEMMA RefsInvInit == Init => RefsInv
BY DEF Init, RefsInv

\* A snapshot that starts owes all of its blobs.
LEMMA FlightOwesItsBlobs ==
  ASSUME NEW live, NEW purpose
  PROVE  LET f == Flight(live, purpose)[1]
         IN /\ {"doc", "todo"} \subseteq DOMAIN f
            /\ Blobs(f.doc) \subseteq f.todo
<1> DEFINE d == Strip(live)
           b == Blobs(d)
<1> HIDE DEF d, b
<1>1. Flight(live, purpose) = <<[live |-> live, doc |-> d, todo |-> b, purpose |-> purpose]>>
  BY DEF Flight, d, b
<1>2. b = Blobs(d)
  BY DEF b
<1> QED BY <1>1, <1>2

LEMMA RefsInvNext == RefsInv /\ [Next]_vars => RefsInv'
<1> SUFFICES ASSUME RefsInv, [Next]_vars PROVE RefsInv'
  OBVIOUS
<1>1. CASE \E entry \in Entry : Write(entry[1], entry[2])
  BY <1>1 DEF RefsInv, Write
<1>2. ASSUME NEW purpose \in {"step", "pause"}, Snapshot(purpose) PROVE RefsInv'
  BY <1>2, FlightOwesItsBlobs DEF RefsInv, Snapshot
<1>3. ASSUME flight # <<>>, NEW content \in flight[1].todo, PutBlob(content) PROVE RefsInv'
  <2>1. flight' = <<[flight[1] EXCEPT !.todo = @ \ {content}]>>
    BY <1>3 DEF PutBlob
  <2>2. /\ {"doc", "todo"} \subseteq DOMAIN flight'[1]
        /\ flight'[1].doc = flight[1].doc
        /\ flight'[1].todo = flight[1].todo \ {content}
    BY <1>3, <2>1 DEF RefsInv
  <2>3. durable' = durable \cup {content} /\ cache' = cache \cup {content}
    BY <1>3 DEF PutBlob, RefsInv
  <2>4. UNCHANGED <<stored, phase>>
    BY <1>3 DEF PutBlob
  <2>5. Blobs(flight'[1].doc) \subseteq durable' \cup flight'[1].todo
    BY <1>3, <2>2, <2>3 DEF RefsInv
  <2>6. (stored # Nothing \/ phase = "paused")' => (Blobs(stored) \subseteq durable)'
    BY <2>3, <2>4 DEF RefsInv
  <2> QED BY <2>2, <2>3, <2>5, <2>6 DEF RefsInv
<1>4. CASE Dispatch
  <2>1. flight' = <<>> /\ stored' = flight[1].doc /\ UNCHANGED <<durable, cache>>
    BY <1>4 DEF Dispatch
  <2>2. Blobs(stored') \subseteq durable'
    BY <1>4, <2>1 DEF Dispatch, RefsInv
  <2> QED BY <2>1, <2>2 DEF RefsInv
<1>5. CASE WriteRaises
  BY <1>5 DEF RefsInv, WriteRaises
<1>6. ASSUME NEW patch \in Patch, Decide(patch) PROVE RefsInv'
  <2> DEFINE next == Redact(ApplyPatch(Inline(stored), RedactPatch(patch)))
  <2>1. /\ phase = "paused"
        /\ cache' = cache \cup Blobs(stored)
        /\ UNCHANGED <<stored, durable>>
        /\ decided' = next
        /\ \/ phase' = "decided" /\ flight' = <<>>
           \/ phase' = phase /\ flight' = Flight(decided', "decide")
    BY <1>6 DEF Decide
  <2> HIDE DEF next
  <2>2. cache' \subseteq durable' /\ Blobs(stored') \subseteq durable'
    BY <2>1 DEF RefsInv
  <2> QED BY <2>1, <2>2, FlightOwesItsBlobs DEF RefsInv
<1>7. CASE Reenter
  BY <1>7 DEF RefsInv, Reenter
<1>8. CASE Gate
  BY <1>8 DEF RefsInv, Gate
<1>9. CASE Crash
  BY <1>9 DEF RefsInv, Crash
<1>10. CASE Reopen
  BY <1>10 DEF RefsInv, Reopen
<1>11. CASE UNCHANGED vars
  BY <1>11 DEF RefsInv, vars
<1> QED BY <1>1, <1>2, <1>3, <1>4, <1>5, <1>6, <1>7, <1>8, <1>9, <1>10, <1>11 DEF Next

\* blobs.py:39 for any keys, values, patches and thresholds: however writes, failures,
\* deaths, reads and edits follow each other, a document in storage refers only to blobs
\* that are in storage.
THEOREM ReferencesResolve == Spec => []RefsResolve
<1>1. RefsInv => RefsResolve
  BY DEF RefsInv, RefsResolve
<1> QED BY RefsInvInit, RefsInvNext, <1>1, PTL DEF Spec

(***************************************************************************)
(* Decisions: what is on record, and what of it is in storage.             *)
(***************************************************************************)

\* The record is that of the decision to apply patch.
Taken(patch) ==
  LET state == ApplyPatch(reviewed, RedactPatch(patch))
  IN /\ IsPatch(patch) /\ IsDocument(reviewed) /\ state # Failed
     /\ decided = Redact(state)
     /\ audit = AuditedPatch(RedactPatch(patch))

SentInv == \A i \in DOMAIN sent : Taken(sent[i])

\* The snapshot that a decision starts is one of the document that was decided on.
DecidesInv ==
  flight # <<>> /\ flight[1].purpose = "decide" => DOMAIN sent # {} /\ flight[1].live = decided

\* When the decision is done, storage has had this document already, or has it now.
ArrivedInv ==
  phase = "decided" =>
    /\ DOMAIN sent # {}
    /\ SameHash(Inline(stored), decided) \/ stored = Strip(decided)

DecisionInv == SentInv /\ DecidesInv /\ ArrivedInv

LEMMA DecisionInvInit == Init => DecisionInv
BY DEF Init, DecisionInv, SentInv, DecidesInv, ArrivedInv

\* The record stays.
LEMMA RecordStays ==
  ASSUME DecisionInv, record' = record
  PROVE  SentInv' /\ (DOMAIN sent # {} => DOMAIN sent' # {}) /\ decided' = decided
<1>1. UNCHANGED <<reviewed, decided, sent, audit>>
  BY DEF record
<1>. QED BY <1>1 DEF DecisionInv, SentInv, Taken

LEMMA DecisionInvDecide ==
  ASSUME DataInv, DecisionInv, NEW patch \in Patch, Decide(patch)
  PROVE  DecisionInv'
<1> DEFINE shown == Inline(stored)
           state == ApplyPatch(shown, RedactPatch(patch))
<1>1. /\ phase = "paused" /\ state # Failed
      /\ reviewed' = shown /\ decided' = Redact(state)
      /\ audit' = AuditedPatch(RedactPatch(patch))
      /\ sent' = <<patch>>
      /\ \/ phase' = "decided" /\ flight' = <<>> /\ SameHash(decided', shown)
         \/ phase' = "paused" /\ flight' = Flight(decided', "decide")
      /\ stored' = stored
  BY DEF Decide
<1>2. IsPatch(patch)
  BY PatchAssumption
<1>3. IsDocument(shown)
  BY <1>1, StoredIs DEF DataInv, StoredInv
<1>4. DOMAIN sent' = {1} /\ sent'[1] = patch
  BY <1>1
<1>5. SentInv'
  <2>1. Taken(patch)'
    BY <1>1, <1>2, <1>3 DEF Taken
  <2>. QED BY <1>4, <2>1 DEF SentInv
<1> HIDE DEF state
<1>6. DecidesInv'
  <2>1. CASE flight' = <<>>
    BY <2>1 DEF DecidesInv
  <2>2. CASE flight' = Flight(decided', "decide")
    <3>1. flight'[1].live = decided'
      BY <2>2 DEF Flight
    <3>. QED BY <1>4, <3>1 DEF DecidesInv
  <2>. QED BY <1>1, <2>1, <2>2
<1>7. ArrivedInv'
  <2>1. phase' = "decided" => SameHash(decided', Inline(stored'))
    BY <1>1
  <2>2. \A a, b : SameHash(a, b) => SameHash(b, a)
    BY DEF SameHash
  <2>. QED BY <1>4, <2>1, <2>2 DEF ArrivedInv
<1>. QED BY <1>5, <1>6, <1>7 DEF DecisionInv

LEMMA DecisionInvNext == DataInv /\ DecisionInv /\ [Next]_vars => DecisionInv'
<1> SUFFICES ASSUME DataInv, DecisionInv, [Next]_vars PROVE DecisionInv'
  OBVIOUS
<1>1. CASE \E entry \in Entry : Write(entry[1], entry[2])
  <2>1. record' = record /\ UNCHANGED <<flight, stored, phase>>
    BY <1>1 DEF Write
  <2>. QED BY <2>1, RecordStays DEF DecisionInv, DecidesInv, ArrivedInv
<1>2. ASSUME NEW purpose \in {"step", "pause"}, Snapshot(purpose) PROVE DecisionInv'
  <2>1. record' = record /\ flight' = Flight(doc, purpose) /\ UNCHANGED <<stored, phase>>
    BY <1>2 DEF Snapshot
  <2>2. flight'[1].purpose # "decide"
    BY <2>1 DEF Flight
  <2>. QED BY <2>1, <2>2, RecordStays DEF DecisionInv, DecidesInv, ArrivedInv
<1>3. ASSUME flight # <<>>, NEW content \in flight[1].todo, PutBlob(content) PROVE DecisionInv'
  <2>1. /\ record' = record /\ UNCHANGED <<stored, phase>>
        /\ flight' = <<[flight[1] EXCEPT !.todo = @ \ {content}]>>
    BY <1>3 DEF PutBlob
  <2>2. {"live", "purpose"} \subseteq DOMAIN flight[1]
    BY <1>3 DEF DataInv, FlightInv
  <2>3. flight'[1].live = flight[1].live /\ flight'[1].purpose = flight[1].purpose
    BY <2>1, <2>2
  <2>. QED BY <1>3, <2>1, <2>3, RecordStays DEF DecisionInv, DecidesInv, ArrivedInv
<1>4. CASE Dispatch
  <2> DEFINE f == flight[1]
  <2>1. /\ record' = record /\ flight # <<>> /\ flight' = <<>> /\ stored' = f.doc
        /\ f.purpose = "step" => phase' = "run"
        /\ f.purpose = "pause" => phase' = "paused"
    BY <1>4 DEF Dispatch
  <2>2. f.purpose \in {"step", "pause", "decide"} /\ f.doc = Strip(f.live)
    BY <2>1 DEF DataInv, FlightInv
  <2>3. f.purpose = "decide" => DOMAIN sent # {} /\ f.live = decided
    BY <2>1 DEF DecisionInv, DecidesInv
  <2> HIDE DEF f
  <2>4. ArrivedInv'
    BY <2>1, <2>2, <2>3, RecordStays DEF ArrivedInv
  <2>. QED BY <2>1, <2>4, RecordStays DEF DecisionInv, DecidesInv
<1>5. CASE WriteRaises
  <2>1. record' = record /\ flight' = <<>> /\ stored' = stored /\ phase' \in {"dead", phase}
    BY <1>5 DEF WriteRaises
  <2>. QED BY <2>1, RecordStays DEF DecisionInv, DecidesInv, ArrivedInv
<1>6. CASE \E patch \in Patch : Decide(patch)
  BY <1>6, DecisionInvDecide
<1>7. CASE Reenter \/ Gate
  <2>1. /\ record' = record /\ UNCHANGED <<flight, stored>> /\ phase' # "decided"
    BY <1>7 DEF Reenter, Gate
  <2>. QED BY <2>1, RecordStays DEF DecisionInv, DecidesInv, ArrivedInv
<1>8. CASE Crash
  <2>1. record' = record /\ flight' = <<>> /\ phase' # "decided"
    BY <1>8 DEF Crash
  <2>. QED BY <2>1, RecordStays DEF DecisionInv, DecidesInv, ArrivedInv
<1>9. CASE Reopen
  <2>1. record' = record /\ UNCHANGED <<flight, stored>> /\ phase' # "decided"
    BY <1>9 DEF Reopen
  <2>. QED BY <2>1, RecordStays DEF DecisionInv, DecidesInv, ArrivedInv
<1>10. CASE UNCHANGED vars
  <2>1. record' = record /\ UNCHANGED <<flight, stored, phase>>
    BY <1>10 DEF vars
  <2>. QED BY <2>1, RecordStays DEF DecisionInv, DecidesInv, ArrivedInv
<1>. QED BY <1>1, <1>2, <1>3, <1>4, <1>5, <1>6, <1>7, <1>8, <1>9, <1>10 DEF Next

\* resume.py:263 for any keys, values, patches and limits: when nothing in the patch is one
\* of the shapes that a second pass of redaction still changes, then what was decided on,
\* and hashed as state_hash_after, is what the audited patch makes of the state that was
\* reviewed; and when the decision is done and the document is at rest, storage has it,
\* whether it was stored for the decision or was there before.
THEOREM DecisionsAreOneDocument == Spec => []DecisionIsOneDocument
<1>1. ASSUME DecisionInv, NEW i \in DOMAIN sent, \A op \in ToSet(sent[i]) : RestsOp(op)
      PROVE  ApplyPatch(reviewed, audit) # Failed
             /\ SameHash(Redact(ApplyPatch(reviewed, audit)), decided)
  <2>1. Taken(sent[i])
    BY <1>1 DEF DecisionInv, SentInv
  <2>2. audit = RedactPatch(sent[i])
    BY <1>1, <2>1, PatchRests DEF Taken
  <2>. QED BY <2>1, <2>2 DEF Taken, SameHash
<1>2. ASSUME DecisionInv, phase = "decided", AtRest(decided)
      PROVE  SameHash(Inline(stored), decided)
  <2>1. CASE stored = Strip(decided)
    <3>1. PICK i \in DOMAIN sent : Taken(sent[i])
      BY <1>2 DEF DecisionInv, SentInv, ArrivedInv
    <3>2. PICK state : IsDocument(state) /\ decided = Redact(state)
      <4>1. IsPatch(RedactPatch(sent[i]))
        BY <3>1, PatchIsAudited DEF Taken
      <4>. QED BY <3>1, <4>1, ApplyPatchIs DEF Taken
    <3>3. Redact(decided) = decided
      BY <1>2, <3>2, DepthIs, RedactRests
    <3>4. Inline(stored) = Redact(decided)
      BY <2>1, <3>2, StoredIs
    <3>. QED BY <3>3, <3>4 DEF SameHash
  <2>. QED BY <1>2, <2>1 DEF DecisionInv, ArrivedInv
<1>3. DecisionInv => DecisionIsOneDocument
  BY <1>1, <1>2 DEF DecisionIsOneDocument
<1>. QED BY DataInvInit, DataInvNext, DecisionInvInit, DecisionInvNext, <1>3, PTL DEF Spec
===============================================================================
