----------------------------- MODULE LoopDetector -----------------------------
(***************************************************************************)
(* The loop detector of one execution (guardrails/loops.py): the step      *)
(* limit and the window of recent calls, the similarity of consecutive     *)
(* texts, and the cycles of repeated hand-offs, whose search CycleSearch   *)
(* has step by step.  A body may catch what the detector raises and go on. *)
(* The tiers share nothing but reset(): a behaviour exercises one of them. *)
(***************************************************************************)
EXTENDS CycleSearch, Integers, SequencesExt

CONSTANTS
  Call,         \* signatures: a tool name with its arguments, hashed
  MaxSteps,     \* max_steps_per_run
  Window,       \* tool_loop_window_size
  Repeats,      \* tool_loop_max_repeats
  Letter,       \* characters
  Text,         \* texts: sequences of letters
  SemMax,       \* _SEM_MAX: the letters of a text that are compared
  Consecutive,  \* semantic_loop_consecutive
  Pause, Warn,  \* the thresholds of similarity: <<numerator, denominator>>
  MaxTold,      \* bound: the texts of an execution
  MaxEdges      \* bound: the different hand-offs of an execution

ASSUME LimitAssumption == {MaxSteps, Window, SemMax, Consecutive} \subseteq Nat

ASSUME TextAssumption == Text \subseteq Seq(Letter)

ASSUME ThresholdAssumption == Pause[1] \in Int /\ Pause[2] \in Nat \ {0}

VARIABLES
  tier,      \* the tier that this behaviour exercises
  steps,     \* the calls recorded, the refused ones too
  window,    \* _window: the last signatures
  texts,     \* _texts: the last texts
  warnings,  \* how many warnings there are
  seen,      \* the hand-offs of _edge_counts; adj has those counted twice or more
  verdict,   \* what the last call did: returned, raised, or is searching ("busy")
  asked,     \* history: every signature that this execution recorded
  told       \* history: every text

toolVars == <<steps, window, asked>>
textVars == <<texts, warnings, told>>
searchVars == <<adj, color, path, stack, answer>>
detectorVars == <<tier, toolVars, textVars, seen, searchVars, verdict>>

DetectorInit ==
  /\ tier \in {"tool", "text", "agent"}
  /\ steps = 0 /\ window = <<>> /\ asked = <<>>
  /\ texts = <<>> /\ warnings = 0 /\ told = <<>>
  /\ seen = {} /\ adj = [n \in Node |-> {}]
  /\ color = [n \in Node |-> 0] /\ path = <<>> /\ stack = <<>> /\ answer = NoCycle
  /\ verdict = "ok"

\* Mutant: the deque has no maxlen.
SlideNever(s, x, maxlen) == Append(s, x)

\* A deque with a maxlen, after an append.
Slide(s, x, maxlen) ==
  LET all == Append(s, x)
  IN SubSeq(all, IF Len(all) > maxlen THEN Len(all) - maxlen + 1 ELSE 1, Len(all))

Count(s, x) == Cardinality({i \in DOMAIN s : s[i] = x})

Idle(t) == tier = t /\ verdict # "busy"

\* record(): the step limit first, and then the window, which has this call.  One call
\* above the limit is enough: every later one is refused in the same way.
Record(sig) ==
  /\ Idle("tool")
  /\ steps <= MaxSteps
  /\ steps' = steps + 1
  /\ asked' = Append(asked, sig)
  /\ IF steps' > MaxSteps
       THEN verdict' = "limit" /\ UNCHANGED window
       ELSE /\ window' = Slide(window, sig, Window)
            /\ verdict' = IF Count(window', sig) >= Repeats THEN "repeated" ELSE "ok"
  /\ UNCHANGED <<tier, textVars, seen, searchVars>>

-------------------------------------------------------------------------------
(* The similarity of two texts. *)

Least(S) == CHOOSE x \in S : \A y \in S : x <= y

Capped(s) == SubSeq(s, 1, IF Len(s) > SemMax THEN SemMax ELSE Len(s))

Longer(a, b) == IF Len(a) > Len(b) THEN Len(a) ELSE Len(b)

\* Mutant: a substitution costs as much as a deletion and an insertion.
NextRowNoSubstitution(previous, a, letter, j) ==
  LET current[i \in 0..Len(a)] ==
        IF i = 0 THEN j
        ELSE IF a[i] = letter THEN previous[i - 1]
        ELSE Least({previous[i] + 1, current[i - 1] + 1})
  IN current

\* The next of the two rolling rows: the entries for a letter of b, the j-th.
NextRow(previous, a, letter, j) ==
  LET current[i \in 0..Len(a)] ==
        IF i = 0 THEN j
        ELSE Least({previous[i] + 1, current[i - 1] + 1,
                    previous[i - 1] + (IF a[i] = letter THEN 0 ELSE 1)})
  IN current

Distance(a, b) ==
  LET rows[j \in 0..Len(b)] == IF j = 0 THEN [i \in 0..Len(a) |-> i]
                               ELSE NextRow(rows[j - 1], a, b[j], j)
  IN rows[Len(b)][Len(a)]

\* normalized_levenshtein(a, b) >= threshold.  Equal texts have similarity 1, and the
\* shorter text makes the rows.
Similar(a, b, threshold) ==
  LET s == Capped(a)
      t == Capped(b)
      most == Longer(s, t)
      dist == IF Len(s) > Len(t) THEN Distance(t, s) ELSE Distance(s, t)
  IN IF s = t THEN threshold[2] >= threshold[1]
     ELSE (most - dist) * threshold[2] >= threshold[1] * most

AllSimilar(s, threshold) == \A i \in 1..(Len(s) - 1) : Similar(s[i], s[i + 1], threshold)

\* record_text().  A window of a single text is never long enough.
RecordText(text) ==
  /\ Idle("text")
  /\ Len(told) < MaxTold
  /\ told' = Append(told, text)
  /\ texts' = Slide(texts, text, Consecutive)
  /\ LET enough == Len(texts') >= 2 /\ Len(texts') >= Consecutive
         stop == enough /\ AllSimilar(texts', Pause)
     IN /\ verdict' = IF stop THEN "similar" ELSE "ok"
        /\ warnings' = IF enough /\ ~stop /\ AllSimilar(texts', Warn) THEN warnings + 1
                                                                      ELSE warnings
  /\ UNCHANGED <<tier, toolVars, seen, searchVars>>

-------------------------------------------------------------------------------
(* The cycles of repeated hand-offs. *)

\* The graph, with a hand-off that is counted for the second time or more.
Counted(src, dst) ==
  IF <<src, dst>> \in seen THEN [adj EXCEPT ![src] = @ \cup {dst}] ELSE adj

\* Mutant: the colours of the last search are kept.
FreshSearchOldColors ==
  /\ path' = <<>>
  /\ stack' = <<>>
  /\ answer' = Searching
  /\ UNCHANGED color

\* The locals of _find_cycle are new in every call.
FreshSearch ==
  /\ color' = [n \in Node |-> 0]
  /\ path' = <<>>
  /\ stack' = <<>>
  /\ answer' = Searching

\* record_transition(), up to the search: there is none while no hand-off is repeated.
RecordTransition(src, dst) ==
  /\ Idle("agent")
  /\ <<src, dst>> \in seen \/ Cardinality(seen) < MaxEdges
  /\ seen' = seen \cup {<<src, dst>>}
  /\ adj' = Counted(src, dst)
  /\ \/ /\ \E n \in Node : adj'[n] # {}
        /\ FreshSearch
        /\ verdict' = "busy"
     \/ /\ \A n \in Node : adj'[n] = {}
        /\ verdict' = "ok"
        /\ UNCHANGED <<color, path, stack, answer>>
  /\ UNCHANGED <<tier, toolVars, textVars>>

Search ==
  /\ verdict = "busy"
  /\ Step
  /\ UNCHANGED <<tier, toolVars, textVars, seen, verdict>>

\* _check_cycles() raises for a cycle and returns otherwise.
Checked ==
  /\ verdict = "busy"
  /\ answer # Searching
  /\ verdict' = IF Found THEN "cycle" ELSE "ok"
  /\ UNCHANGED <<tier, toolVars, textVars, seen, searchVars>>

\* The next execution of the run: its context makes a detector, and the run resets it.
Reset ==
  /\ verdict # "busy"
  /\ steps' = 0 /\ window' = <<>> /\ asked' = <<>>
  /\ texts' = <<>> /\ warnings' = 0 /\ told' = <<>>
  /\ seen' = {} /\ adj' = [n \in Node |-> {}]
  /\ color' = [n \in Node |-> 0] /\ path' = <<>> /\ stack' = <<>> /\ answer' = NoCycle
  /\ verdict' = "ok"
  /\ UNCHANGED tier

DetectorNext ==
  \/ \E sig \in Call : Record(sig)
  \/ \E text \in Text : RecordText(text)
  \/ \E src, dst \in Node : RecordTransition(src, dst)
  \/ Search
  \/ Checked
  \/ Reset

\* A search is synchronous code: it goes on until it returns.
DetectorSpec ==
  DetectorInit /\ [][DetectorNext]_detectorVars /\ WF_detectorVars(Search \/ Checked)

-------------------------------------------------------------------------------

LastOf(s, n) == SubSeq(s, IF Len(s) > n THEN Len(s) - n + 1 ELSE 1, Len(s))

\* guardrails.md:32, "the same signature appears tool_loop_max_repeats times inside the
\* window": a call within the step limit is stopped exactly if it is the same as Repeats - 1
\* of the Window - 1 calls before it, caught refusals among them, and never by older ones.
WindowIsExact ==
  (tier = "tool" /\ asked # <<>>) =>
    verdict = IF Len(asked) > MaxSteps THEN "limit"
              ELSE IF Count(LastOf(asked, Window), Last(asked)) >= Repeats THEN "repeated"
              ELSE "ok"

\* A matching of letters of a with letters of b that keeps their order.
IsMatching(m) ==
  \A p, q \in m : (p[1] < q[1] <=> p[2] < q[2]) /\ (p[1] = q[1] <=> p[2] = q[2])

Matchings(n, k) == {m \in SUBSET ((1..n) \X (1..k)) : IsMatching(m)}

Changed(m, s, t) == {p \in m : s[p[1]] # t[p[2]]}

\* The edit distance without rows: the cheapest matching, where a matched pair costs one if
\* its letters differ, and so does every letter that is not matched.
EditDistance ==
  [s \in {Capped(x) : x \in Text} |-> [t \in {Capped(x) : x \in Text} |->
     Least({Cardinality(Changed(m, s, t)) + Len(s) + Len(t) - 2 * Cardinality(m) :
            m \in Matchings(Len(s), Len(t))})]]

\* The share of the longer text that is not edited; two empty texts are the same text.
Near(s, t) ==
  LET most == Longer(Capped(s), Capped(t))
  IN IF most = 0 THEN Pause[2] >= Pause[1]
     ELSE (most - EditDistance[Capped(s)][Capped(t)]) * Pause[2] >= Pause[1] * most

\* guardrails.md:48, "if every similarity reaches semantic_loop_pause_threshold": a text is
\* stopped exactly if the last Consecutive texts are neighbours by the edit distance; older
\* texts, and texts that were stopped before, make no difference.
SimilarTextsStop ==
  tier = "text" =>
    ((verdict = "similar") <=>
       /\ Len(told) >= Consecutive
       /\ Consecutive > 1
       /\ LET recent == LastOf(told, Consecutive)
          IN \A i \in 1..(Consecutive - 1) : Near(recent[i], recent[i + 1]))

\* guardrails.md:62, "a cycle among those repeated edges raises": a call that returns
\* leaves no cycle among the hand-offs that have been made twice, whatever the earlier
\* searches of the same detector found.
ReturnedIsAcyclic ==
  (tier = "agent" /\ verdict = "ok") => \A n \in Node : n \notin Reached({n})

\* A call of record_transition comes back, whatever the graph and the order of its nodes.
RecordReturns == verdict = "busy" ~> verdict # "busy"
===============================================================================
