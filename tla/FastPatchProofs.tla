---------------------------- MODULE FastPatchProofs ----------------------------
(***************************************************************************)
(* Proofs about FastPatch: for every patch and every document, the fast    *)
(* path changes nothing of the caller's, and makes what RFC 6902 makes.    *)
(***************************************************************************)
EXTENDS FastPatch, TLAPS

LEMMA OpFields ==
  ASSUME NEW o \in Op
  PROVE  /\ o.key \in Key
         /\ o.op \in {"add", "replace", "remove"}
         /\ o.seg \in Segment \cup {Whole}
         /\ o.value \in Value \cup {None}
         /\ o.seg # Whole /\ o.op # "remove" => o.value.scalar \in Scalar
         /\ o.seg = Whole /\ o.op # "remove" => o.value \in Value
         /\ o.op = "remove" => o.value = None
<1>0. EmptyDict \in DictValue /\ EmptyList \in ListValue
  <2>1. [t \in Segment |-> Absent] \in [Segment -> Scalar \cup {Absent}]
    OBVIOUS
  <2>2. <<>> \in Seq(Scalar)
    OBVIOUS
  <2> QED BY <2>1, <2>2 DEF EmptyDict, EmptyList, DictValue, ListValue
<1>1. CASE o \in [op : {"add", "replace"}, key : Key, seg : {Whole},
                  value : ScalarValue \cup {EmptyDict, EmptyList}]
  BY <1>0, <1>1 DEF Value
<1>2. CASE o \in [op : {"add", "replace"}, key : Key, seg : Segment, value : ScalarValue]
  <2>1. o.value \in ScalarValue
    BY <1>2
  <2>2. o.value.scalar \in Scalar
    BY <2>1 DEF ScalarValue
  <2>3. o.seg # Whole
    BY <1>2, PathAssumption
  <2> QED BY <1>2, <2>1, <2>2, <2>3 DEF Value
<1>3. CASE o \in [op : {"remove"}, key : Key, seg : {Whole} \cup Segment, value : {None}]
  BY <1>3
<1> QED BY <1>1, <1>2, <1>3 DEF Op

LEMMA KindOfValue ==
  ASSUME NEW v \in Value \cup {None}
  PROVE  /\ v.kind = "dict" => v \in DictValue
         /\ v.kind = "list" => v \in ListValue
BY DEF Value, ScalarValue, DictValue, ListValue, None

-------------------------------------------------------------------------------

(***************************************************************************)
(* Types.                                                                  *)
(***************************************************************************)

LEMMA InsertIsList ==
  ASSUME NEW s \in Seq(Scalar), NEW i \in 0..Len(s), NEW x \in Scalar
  PROVE  Insert(s, i, x) \in Seq(Scalar)
<1>1. SubSeq(s, 1, i) \in Seq(Scalar) /\ SubSeq(s, i + 1, Len(s)) \in Seq(Scalar)
  OBVIOUS
<1>2. <<x>> \in Seq(Scalar)
  OBVIOUS
<1> QED BY <1>1, <1>2 DEF Insert

LEMMA DeleteIsList ==
  ASSUME NEW s \in Seq(Scalar), NEW i \in 0..(Len(s) - 1)
  PROVE  Delete(s, i) \in Seq(Scalar)
<1>1. SubSeq(s, 1, i) \in Seq(Scalar) /\ SubSeq(s, i + 2, Len(s)) \in Seq(Scalar)
  OBVIOUS
<1> QED BY <1>1 DEF Delete

LEMMA EditedListIsList ==
  ASSUME NEW o \in Op, o.seg # Whole, NEW s \in Seq(Scalar), IndexFits(o, s)
  PROVE  EditedList(o, s) \in Seq(Scalar)
<1>1. CASE o.seg = "-"
  BY <1>1, OpFields DEF EditedList, IndexFits
<1>2. CASE o.seg # "-"
  <2>0. o.seg \in Segment /\ IndexOf[o.seg] \in Nat
    BY OpFields, SegmentAssumption
  <2>1. CASE o.op = "add"
    <3>1. IndexOf[o.seg] \in 0..Len(s)
      BY <1>2, <2>0, <2>1 DEF IndexFits
    <3> QED BY <1>2, <2>1, <3>1, OpFields, InsertIsList DEF EditedList
  <2>2. CASE o.op = "replace"
    <3>1. IndexOf[o.seg] + 1 \in 1..Len(s)
      BY <1>2, <2>0, <2>2 DEF IndexFits
    <3> QED BY <1>2, <2>2, <3>1, OpFields DEF EditedList
  <2>3. CASE o.op = "remove"
    <3>1. IndexOf[o.seg] \in 0..(Len(s) - 1)
      BY <1>2, <2>0, <2>3 DEF IndexFits
    <3> QED BY <1>2, <2>3, <3>1, DeleteIsList DEF EditedList
  <2> QED BY <2>1, <2>2, <2>3, OpFields
<1> QED BY <1>1, <1>2

LEMMA EditedIsValue ==
  ASSUME NEW o \in Op, o.seg # Whole, NEW v \in Value \cup {None},
         v.kind \in {"dict", "list"},
         v.kind = "list" => IndexFits(o, v.elements)
  PROVE  Edited(o, v) \in Value
<1>1. CASE v.kind = "dict"
  <2>1. v \in DictValue
    BY <1>1, KindOfValue
  <2> DEFINE x == IF o.op = "remove" THEN Absent ELSE o.value.scalar
             m == [v.members EXCEPT ![o.seg] = x]
  <2>2. x \in Scalar \cup {Absent}
    BY OpFields
  <2>3. Edited(o, v) = [kind |-> "dict", members |-> m]
    BY <1>1, <2>1 DEF Edited, DictValue
  <2>4. m \in [Segment -> Scalar \cup {Absent}]
    <3>1. v.members \in [Segment -> Scalar \cup {Absent}]
      BY <2>1 DEF DictValue
    <3> HIDE DEF x
    <3> QED BY <2>2, <3>1
  <2> HIDE DEF m
  <2> QED BY <2>3, <2>4 DEF DictValue, Value
<1>2. CASE v.kind = "list"
  <2>1. v \in ListValue
    BY <1>2, KindOfValue
  <2>2. EditedList(o, v.elements) \in Seq(Scalar)
    BY <1>2, <2>1, EditedListIsList DEF ListValue
  <2>3. Edited(o, v) = [kind |-> "list", elements |-> EditedList(o, v.elements)]
    BY <1>2, <2>1 DEF Edited, ListValue
  <2> QED BY <2>2, <2>3 DEF ListValue, Value
<1> QED BY <1>1, <1>2

-------------------------------------------------------------------------------

(***************************************************************************)
(* The fast path changes nothing of the caller's.                          *)
(***************************************************************************)

\* What is stored is typed, and a key that holds a value of the patch holds one of an
\* operation that has been received.
Stored ==
  /\ given \in [Key -> Value \cup {None}]
  /\ base \in [Key -> Value \cup {None}]
  /\ copies \in [Key -> Value \cup {None}]
  /\ patch \in Seq(Op)
  /\ held \in Seq(Value \cup {None})
  /\ Len(held) = Len(patch)
  /\ work \in [Key -> Place]
  /\ copied \subseteq Key
  /\ exposed \subseteq 1..Len(patch)
  /\ \A k \in Key : work[k].at = "patch" => work[k].n \in 1..Len(patch)

\* A key whose parent has been copied does not hold an object of the caller, and it holds
\* a value of the patch only if that has taken the place of the copy.
CopiedHolds ==
  \A k \in copied : /\ work[k].at # "base"
                    /\ work[k].at = "patch" => work[k].n \in exposed

IsolationInv == Stored /\ BaseUntouched /\ CopiedHolds /\ PatchUntouched

LEMMA ContentIsValue ==
  ASSUME Stored, NEW k \in Key
  PROVE  Content(k) \in Value \cup {None}
<1>1. work[k] \in Place
  BY DEF Stored
<1>2. work[k].at = "patch" => held[work[k].n] \in Value \cup {None}
  BY DEF Stored
<1>3. work[k].at \in {"none", "base", "copy", "patch"}
  BY <1>1 DEF Place
<1> QED BY <1>2, <1>3 DEF Stored, Content, ValueAt

LEMMA InitIsolation ==
  ASSUME Init
  PROVE  IsolationInv
<1>1. \A k \in Key : work[k] \in Place /\ work[k].at # "patch"
  BY DEF Init, At, Place
<1>2. given \in [Key -> Value \cup {None}]
  BY DocumentsAssumption DEF Init
<1>3. work \in [Key -> Place]
  BY <1>1 DEF Init
<1>4. patch = <<>> /\ held = <<>> /\ Len(patch) = 0 /\ exposed = {} /\ copied = {}
  BY DEF Init
<1>5. copies \in [Key -> Value \cup {None}]
  BY DEF Init
<1> QED BY <1>1, <1>2, <1>3, <1>4, <1>5 DEF Init, IsolationInv, Stored, BaseUntouched,
        CopiedHolds, PatchUntouched

\* The patch and the values that it holds grow together.
LEMMA Received ==
  ASSUME Stored, NEW o \in Op, patch' = Append(patch, o),
         NEW h \in Seq(Value \cup {None}), Len(h) = Len(held), held' = Append(h, o.value)
  PROVE  /\ patch' \in Seq(Op) /\ held' \in Seq(Value \cup {None})
         /\ Len(patch') = Len(patch) + 1 /\ Len(held') = Len(patch')
         /\ Len(patch) \in Nat
         /\ \A i \in 1..Len(patch) : patch'[i] = patch[i] /\ held'[i] = h[i]
         /\ patch'[Len(patch) + 1] = o /\ held'[Len(patch) + 1] = o.value
<1>1. o.value \in Value \cup {None}
  BY OpFields
<1> QED BY <1>1 DEF Stored

LEMMA StoredAgain ==
  ASSUME Stored, NEW o \in Op, patch' = Append(patch, o), UNCHANGED given,
         NEW h \in Seq(Value \cup {None}), Len(h) = Len(held), held' = Append(h, o.value),
         base' \in [Key -> Value \cup {None}], copies' \in [Key -> Value \cup {None}],
         work' \in [Key -> Place], copied' \subseteq Key,
         exposed' \subseteq exposed \cup {Len(patch) + 1},
         \A k \in Key : work'[k].at = "patch" => work'[k].n \in 1..(Len(patch) + 1)
  PROVE  Stored'
<1>1. /\ patch' \in Seq(Op) /\ held' \in Seq(Value \cup {None})
      /\ Len(patch') = Len(patch) + 1 /\ Len(held') = Len(patch')
      /\ Len(patch) \in Nat
  BY Received
<1>2. exposed' \subseteq 1..Len(patch')
  <2>1. exposed \subseteq 1..Len(patch)
    BY DEF Stored
  <2> QED BY <1>1, <2>1
<1>3. \A k \in Key : work'[k].at = "patch" => work'[k].n \in 1..Len(patch')
  BY <1>1
<1>4. given' \in [Key -> Value \cup {None}]
  BY DEF Stored
<1> QED BY <1>1, <1>2, <1>3, <1>4 DEF Stored

LEMMA RemoveKeyIsolated ==
  ASSUME IsolationInv, NEW o \in Op, RemoveKey(o)
  PROVE  IsolationInv'
<1>0. Stored
  BY DEF IsolationInv
<1>1. At("none") \in Place /\ At("none").at = "none"
  BY DEF At, Place
<1>2. work' = [work EXCEPT ![o.key] = At("none")] /\ o.key \in Key
  BY OpFields DEF RemoveKey
<1>3. patch' = Append(patch, o) /\ held' = Append(held, o.value)
  BY DEF RemoveKey, Receive
<1>4. /\ Len(patch') = Len(patch) + 1 /\ Len(patch) \in Nat
      /\ \A i \in 1..Len(patch) : patch'[i] = patch[i] /\ held'[i] = held[i]
      /\ patch'[Len(patch) + 1] = o /\ held'[Len(patch) + 1] = o.value
      /\ patch' \in Seq(Op)
  BY <1>0, <1>3, Received DEF Stored
<1>5. UNCHANGED <<given, base, copies, copied, exposed>>
  BY DEF RemoveKey, Receive
<1>6. work' \in [Key -> Place] /\ \A k \in Key : work'[k].at # "none" => work'[k] = work[k]
  BY <1>0, <1>1, <1>2 DEF Stored
<1>7. Stored'
  <2>1. \A k \in Key : work'[k].at = "patch" => work'[k].n \in 1..(Len(patch) + 1)
    BY <1>0, <1>4, <1>6 DEF Stored
  <2> QED BY <1>0, <1>3, <1>5, <1>6, <2>1, StoredAgain DEF Stored
<1>8. CopiedHolds'
  BY <1>0, <1>5, <1>6 DEF IsolationInv, Stored, CopiedHolds
<1>9. PatchUntouched'
  BY <1>0, <1>4, <1>5 DEF IsolationInv, Stored, PatchUntouched
<1> QED BY <1>5, <1>7, <1>8, <1>9 DEF IsolationInv, BaseUntouched

LEMMA SetKeyIsolated ==
  ASSUME IsolationInv, NEW o \in Op, SetKey(o)
  PROVE  IsolationInv'
<1>0. Stored
  BY DEF IsolationInv
<1>2. work' = [work EXCEPT ![o.key] = HeldNow] /\ o.key \in Key
  BY OpFields DEF SetKey
<1>3. patch' = Append(patch, o) /\ held' = Append(held, o.value)
  BY DEF SetKey, Receive
<1>4. /\ Len(patch') = Len(patch) + 1 /\ Len(patch) \in Nat
      /\ \A i \in 1..Len(patch) : patch'[i] = patch[i] /\ held'[i] = held[i]
      /\ patch'[Len(patch) + 1] = o /\ held'[Len(patch) + 1] = o.value
      /\ patch' \in Seq(Op)
  BY <1>0, <1>3, Received DEF Stored
<1>1. HeldNow \in Place /\ HeldNow.at = "patch" /\ HeldNow.n = Len(patch) + 1
  BY <1>4 DEF HeldNow, Place
<1>5. UNCHANGED <<given, base, copies, copied>>
  BY DEF SetKey, Receive, CopiedAfterSet
<1>6. exposed' = IF o.key \in copied THEN exposed \cup {Len(patch) + 1} ELSE exposed
  BY DEF SetKey
<1>7. /\ work' \in [Key -> Place] /\ work'[o.key] = HeldNow
      /\ \A k \in Key \ {o.key} : work'[k] = work[k]
  BY <1>0, <1>1, <1>2 DEF Stored
<1>8. Stored'
  <2>1. ASSUME NEW k \in Key, work'[k].at = "patch"
        PROVE  work'[k].n \in 1..(Len(patch) + 1)
    <3>1. CASE k = o.key
      BY <1>1, <1>4, <1>7, <3>1
    <3>2. CASE k # o.key
      <4>1. work[k].n \in 1..Len(patch)
        BY <1>0, <1>7, <2>1, <3>2 DEF Stored
      <4> QED BY <1>4, <1>7, <3>2, <4>1
    <3> QED BY <3>1, <3>2
  <2> QED BY <1>0, <1>3, <1>5, <1>6, <1>7, <2>1, StoredAgain DEF Stored
<1>9. CopiedHolds'
  <2>1. SUFFICES ASSUME NEW k \in copied
                 PROVE  /\ work'[k].at # "base"
                        /\ work'[k].at = "patch" => work'[k].n \in exposed'
    BY <1>5 DEF CopiedHolds
  <2>2. k \in Key
    BY <1>0, <2>1 DEF Stored
  <2>3. CASE k = o.key
    BY <1>1, <1>6, <1>7, <2>1, <2>3
  <2>4. CASE k # o.key
    BY <1>6, <1>7, <2>1, <2>2, <2>4 DEF IsolationInv, CopiedHolds
  <2> QED BY <2>3, <2>4
<1>10. PatchUntouched'
  <2>1. SUFFICES ASSUME NEW i \in 1..(Len(patch) + 1), i \notin exposed'
                 PROVE  held'[i] = patch'[i].value
    BY <1>4 DEF PatchUntouched
  <2>2. CASE i = Len(patch) + 1
    BY <1>4, <2>2
  <2>3. CASE i # Len(patch) + 1
    <3>1. i \in 1..Len(patch) /\ i \notin exposed
      BY <1>4, <1>6, <2>1, <2>3
    <3>2. held[i] = patch[i].value
      BY <1>0, <3>1 DEF IsolationInv, PatchUntouched, Stored
    <3> QED BY <1>4, <3>1, <3>2
  <2> QED BY <2>2, <2>3
<1> QED BY <1>5, <1>8, <1>9, <1>10 DEF IsolationInv, BaseUntouched

LEMMA EditBelowIsolated ==
  ASSUME IsolationInv, NEW o \in Op, EditBelow(o)
  PROVE  IsolationInv'
<1> DEFINE p == Owned(o.key)
           v == Edited(o, Content(o.key))
           h == IF p.at = "patch" THEN [held EXCEPT ![p.n] = v] ELSE held
<1>0. Stored
  BY DEF IsolationInv
<1>1. o.key \in Key /\ o.seg # Whole
  BY OpFields DEF EditBelow
<1>2. v \in Value
  <2>1. Content(o.key) \in Value \cup {None}
    BY <1>0, <1>1, ContentIsValue
  <2>2. /\ Content(o.key).kind \in {"dict", "list"}
        /\ Content(o.key).kind = "list" => IndexFits(o, Content(o.key).elements)
    BY <1>1 DEF EditBelow, Handles
  <2> QED BY <1>1, <2>1, <2>2, EditedIsValue
<1>3. /\ p \in Place
      /\ p.at # "base"
      /\ p.at = "patch" => /\ o.key \in copied /\ p = work[o.key]
                           /\ p.n \in 1..Len(patch) /\ p.n \in exposed
  <2>1. CASE o.key \in copied
    BY <1>0, <1>1, <2>1 DEF IsolationInv, Stored, CopiedHolds, Owned
  <2>2. CASE o.key \notin copied
    BY <2>2 DEF Owned, At, Place
  <2> QED BY <2>1, <2>2
<1>4. h \in Seq(Value \cup {None}) /\ Len(h) = Len(held)
  <2> HIDE DEF p, v
  <2> QED BY <1>0, <1>2, <1>3 DEF Stored
<1>5. /\ UNCHANGED <<given, base, exposed>>
      /\ copies' = (IF p.at = "copy" THEN [copies EXCEPT ![o.key] = v] ELSE copies)
      /\ held' = Append(h, o.value)
      /\ patch' = Append(patch, o)
      /\ work' = [work EXCEPT ![o.key] = p]
      /\ copied' = copied \cup {o.key}
  BY <1>3 DEF EditBelow, Receive, StoreAt
<1>6. \A i \in 1..Len(patch) : i \notin exposed => h[i] = held[i]
  <2> HIDE DEF p, v
  <2> QED BY <1>0, <1>3 DEF Stored
<1> HIDE DEF p, v, h
<1>7. /\ Len(patch') = Len(patch) + 1 /\ Len(patch) \in Nat
      /\ \A i \in 1..Len(patch) : patch'[i] = patch[i] /\ held'[i] = h[i]
      /\ patch'[Len(patch) + 1] = o /\ held'[Len(patch) + 1] = o.value
      /\ patch' \in Seq(Op)
  BY <1>0, <1>4, <1>5, Received DEF Stored
<1>8. /\ work' \in [Key -> Place] /\ work'[o.key] = p
      /\ \A k \in Key \ {o.key} : work'[k] = work[k]
  BY <1>0, <1>1, <1>3, <1>5 DEF Stored
<1>9. copies' \in [Key -> Value \cup {None}]
  BY <1>0, <1>1, <1>2, <1>5 DEF Stored
<1>10. Stored'
  <2>1. ASSUME NEW k \in Key, work'[k].at = "patch"
        PROVE  work'[k].n \in 1..(Len(patch) + 1)
    <3>1. CASE k = o.key
      BY <1>3, <1>7, <1>8, <2>1, <3>1
    <3>2. CASE k # o.key
      <4>1. work[k].n \in 1..Len(patch)
        BY <1>0, <1>8, <2>1, <3>2 DEF Stored
      <4> QED BY <1>7, <1>8, <3>2, <4>1
    <3> QED BY <3>1, <3>2
  <2>2. base' \in [Key -> Value \cup {None}] /\ copied' \subseteq Key
    BY <1>0, <1>1, <1>5 DEF Stored
  <2> QED BY <1>0, <1>4, <1>5, <1>8, <1>9, <2>1, <2>2, StoredAgain
<1>11. CopiedHolds'
  <2>1. SUFFICES ASSUME NEW k \in copied \cup {o.key}
                 PROVE  /\ work'[k].at # "base"
                        /\ work'[k].at = "patch" => work'[k].n \in exposed
    BY <1>5 DEF CopiedHolds
  <2>2. CASE k = o.key
    BY <1>3, <1>8, <2>2
  <2>3. CASE k # o.key
    <3>1. k \in copied /\ k \in Key
      BY <1>0, <2>1, <2>3 DEF Stored
    <3> QED BY <1>8, <2>3, <3>1 DEF IsolationInv, CopiedHolds
  <2> QED BY <2>2, <2>3
<1>12. PatchUntouched'
  <2>1. SUFFICES ASSUME NEW i \in 1..(Len(patch) + 1), i \notin exposed
                 PROVE  held'[i] = patch'[i].value
    <3>1. DOMAIN patch' = 1..(Len(patch) + 1)
      BY <1>7
    <3>2. exposed' = exposed
      BY <1>5
    <3> QED BY <2>1, <3>1, <3>2 DEF PatchUntouched
  <2>2. CASE i = Len(patch) + 1
    BY <1>7, <2>2
  <2>3. CASE i # Len(patch) + 1
    <3>1. i \in 1..Len(patch)
      BY <1>7, <2>1, <2>3
    <3>2. held[i] = patch[i].value
      BY <1>0, <2>1, <3>1 DEF IsolationInv, PatchUntouched, Stored
    <3> QED BY <1>6, <1>7, <2>1, <3>1, <3>2
  <2> QED BY <2>2, <2>3
<1> QED BY <1>5, <1>10, <1>11, <1>12 DEF IsolationInv, BaseUntouched

LEMMA UnchangedIsolated ==
  ASSUME IsolationInv, UNCHANGED <<given, base, copies, patch, held, work, copied, exposed>>
  PROVE  IsolationInv'
BY DEF IsolationInv, Stored, BaseUntouched, CopiedHolds, PatchUntouched

LEMMA StepIsolated ==
  ASSUME IsolationInv, [Next]_vars
  PROVE  IsolationInv'
<1>1. ASSUME NEW o \in Op, RemoveKey(o) PROVE IsolationInv'
  BY <1>1, RemoveKeyIsolated
<1>2. ASSUME NEW o \in Op, SetKey(o) PROVE IsolationInv'
  BY <1>2, SetKeyIsolated
<1>3. ASSUME NEW o \in Op, EditBelow(o) PROVE IsolationInv'
  BY <1>3, EditBelowIsolated
<1>4. CASE Decline
  BY <1>4, UnchangedIsolated DEF Decline, caller
<1>5. CASE UNCHANGED vars
  BY <1>5, UnchangedIsolated DEF vars, caller
<1> QED BY <1>1, <1>2, <1>3, <1>4, <1>5 DEF Next

LEMMA IsolationHolds == Spec => []IsolationInv
<1>1. Init => IsolationInv
  BY InitIsolation
<1>2. IsolationInv /\ [Next]_vars => IsolationInv'
  BY StepIsolated
<1> QED BY <1>1, <1>2, PTL DEF Spec

\* Whatever the patch, and wherever in it the fast path gives up, the caller's document is
\* what it was: jsonpatch gets a document that nothing has touched.
THEOREM CallersDocumentUntouched == Spec => []BaseUntouched
<1>1. IsolationInv => BaseUntouched
  BY DEF IsolationInv
<1> QED BY <1>1, IsolationHolds, PTL

\* A value of the patch is changed only if it has taken the place of a copied container.
THEOREM CallersPatchUntouched == Spec => []PatchUntouched
<1>1. IsolationInv => PatchUntouched
  BY DEF IsolationInv
<1> QED BY <1>1, IsolationHolds, PTL

-------------------------------------------------------------------------------

(***************************************************************************)
(* The fast path is RFC 6902.                                              *)
(***************************************************************************)

LEMMA SameList ==
  ASSUME NEW s \in Seq(Scalar), NEW t \in Seq(Scalar), Len(s) = Len(t),
         \A j \in 1..Len(s) : s[j] = t[j]
  PROVE  s = t
OBVIOUS

LEMMA Joined ==
  ASSUME NEW a \in Seq(Scalar), NEW b \in Seq(Scalar)
  PROVE  /\ (a \o b) \in Seq(Scalar)
         /\ Len(a \o b) = Len(a) + Len(b)
         /\ \A j \in 1..(Len(a) + Len(b)) : (a \o b)[j] = IF j <= Len(a) THEN a[j] ELSE b[j - Len(a)]
OBVIOUS

LEMMA InsertElements ==
  ASSUME NEW s \in Seq(Scalar), NEW i \in 0..Len(s), NEW x \in Scalar
  PROVE  Insert(s, i, x) = [j \in 1..(Len(s) + 1) |-> IF j <= i THEN s[j]
                                                     ELSE IF j = i + 1 THEN x ELSE s[j - 1]]
<1> DEFINE a == SubSeq(s, 1, i)
           b == SubSeq(s, i + 1, Len(s))
           t == [j \in 1..(Len(s) + 1) |-> IF j <= i THEN s[j] ELSE IF j = i + 1 THEN x ELSE s[j - 1]]
<1>1. a \in Seq(Scalar) /\ Len(a) = i /\ \A j \in 1..i : a[j] = s[j]
  OBVIOUS
<1>2. b \in Seq(Scalar) /\ Len(b) = Len(s) - i /\ \A j \in 1..(Len(s) - i) : b[j] = s[i + j]
  OBVIOUS
<1>3. \A j \in 1..(Len(s) + 1) : t[j] \in Scalar
  OBVIOUS
<1>4. t \in Seq(Scalar) /\ Len(t) = Len(s) + 1
  BY <1>3
<1> HIDE DEF a, b
<1>5. (a \o <<x>>) \in Seq(Scalar) /\ Len(a \o <<x>>) = i + 1
      /\ (\A j \in 1..i : (a \o <<x>>)[j] = s[j]) /\ (a \o <<x>>)[i + 1] = x
  BY <1>1
<1> DEFINE c == a \o <<x>>
<1> HIDE DEF c
<1> DEFINE d == c \o b
<1>6. /\ d \in Seq(Scalar) /\ Len(d) = Len(s) + 1
      /\ \A j \in 1..(Len(s) + 1) : d[j] = IF j <= i + 1 THEN c[j] ELSE b[j - (i + 1)]
  <2>1. c \in Seq(Scalar) /\ Len(c) = i + 1
    BY <1>5 DEF c
  <2>2. /\ d \in Seq(Scalar)
        /\ Len(d) = Len(c) + Len(b)
        /\ \A j \in 1..(Len(c) + Len(b)) : d[j] = IF j <= Len(c) THEN c[j] ELSE b[j - Len(c)]
    BY <1>2, <2>1, Joined, Zenon
  <2> HIDE DEF d
  <2>3. Len(c) + Len(b) = Len(s) + 1
    BY <1>2, <2>1
  <2> QED BY <2>1, <2>2, <2>3
<1> HIDE DEF d
<1>7. ASSUME NEW j \in 1..(Len(s) + 1)
      PROVE  d[j] = t[j]
  <2>1. CASE j <= i
    <3>1. c[j] = s[j]
      BY <1>5, <2>1 DEF c
    <3> QED BY <1>6, <2>1, <3>1
  <2>2. CASE j = i + 1
    <3>1. c[i + 1] = x
      BY <1>5 DEF c
    <3> QED BY <1>6, <2>2, <3>1
  <2>3. CASE j > i + 1
    <3>1. d[j] = b[j - (i + 1)]
      BY <1>6, <2>3
    <3>2. j - (i + 1) \in 1..(Len(s) - i) /\ i + (j - (i + 1)) = j - 1
      BY <2>3
    <3>3. b[j - (i + 1)] = s[j - 1]
      BY <1>2, <3>2
    <3> QED BY <2>3, <3>1, <3>3
  <2> QED BY <2>1, <2>2, <2>3
<1> HIDE DEF t
<1>8. d = t
  BY <1>4, <1>6, <1>7, SameList
<1> QED BY <1>8 DEF Insert, a, b, c, d, t

LEMMA DeleteElements ==
  ASSUME NEW s \in Seq(Scalar), NEW i \in 0..(Len(s) - 1)
  PROVE  Delete(s, i) = [j \in 1..(Len(s) - 1) |-> IF j <= i THEN s[j] ELSE s[j + 1]]
<1> DEFINE a == SubSeq(s, 1, i)
           b == SubSeq(s, i + 2, Len(s))
           t == [j \in 1..(Len(s) - 1) |-> IF j <= i THEN s[j] ELSE s[j + 1]]
<1>1. a \in Seq(Scalar) /\ Len(a) = i /\ \A j \in 1..i : a[j] = s[j]
  OBVIOUS
<1>2. b \in Seq(Scalar) /\ Len(b) = Len(s) - i - 1
      /\ \A j \in 1..(Len(s) - i - 1) : b[j] = s[i + 1 + j]
  OBVIOUS
<1>3. \A j \in 1..(Len(s) - 1) : t[j] \in Scalar
  OBVIOUS
<1>4. t \in Seq(Scalar) /\ Len(t) = Len(s) - 1
  BY <1>3
<1> HIDE DEF a, b
<1> DEFINE d == a \o b
<1>6. /\ d \in Seq(Scalar) /\ Len(d) = Len(s) - 1
      /\ \A j \in 1..(Len(s) - 1) : d[j] = IF j <= i THEN a[j] ELSE b[j - i]
  <2>1. /\ d \in Seq(Scalar)
        /\ Len(d) = Len(a) + Len(b)
        /\ \A j \in 1..(Len(a) + Len(b)) : d[j] = IF j <= Len(a) THEN a[j] ELSE b[j - Len(a)]
    BY <1>1, <1>2, Joined, Zenon
  <2> HIDE DEF d
  <2>2. Len(a) + Len(b) = Len(s) - 1
    BY <1>1, <1>2
  <2> QED BY <1>1, <2>1, <2>2
<1> HIDE DEF d
<1>7. ASSUME NEW j \in 1..(Len(s) - 1)
      PROVE  d[j] = t[j]
  <2>1. CASE j <= i
    BY <1>1, <1>6, <2>1
  <2>2. CASE j > i
    <3>1. d[j] = b[j - i]
      BY <1>6, <2>2
    <3>2. j - i \in 1..(Len(s) - i - 1) /\ i + 1 + (j - i) = j + 1
      BY <2>2
    <3>3. b[j - i] = s[j + 1]
      BY <1>2, <3>2
    <3> QED BY <2>2, <3>1, <3>3
  <2> QED BY <2>1, <2>2
<1> HIDE DEF t
<1>8. d = t
  BY <1>4, <1>6, <1>7, SameList
<1> QED BY <1>8 DEF Delete, a, b, d, t

LEMMA ElementsAgree ==
  ASSUME NEW o \in Op, o.seg # Whole, NEW s \in Seq(Scalar), IndexFits(o, s)
  PROVE  EditedList(o, s) = RfcElement(o, RfcIndex(o, s), s)
<1>0. Len(s) \in Nat
  OBVIOUS
<1>1. CASE o.seg = "-"
  <2>1. o.op = "add" /\ o.value.scalar \in Scalar
    BY <1>1, OpFields DEF IndexFits
  <2> DEFINE x == o.value.scalar
             t == [j \in 1..(Len(s) + 1) |-> IF j <= Len(s) THEN s[j]
                                            ELSE IF j = Len(s) + 1 THEN x ELSE s[j - 1]]
  <2>2. EditedList(o, s) = Append(s, x) /\ RfcElement(o, RfcIndex(o, s), s) = t
    BY <1>1, <2>1 DEF EditedList, RfcElement, RfcIndex
  <2>3. Append(s, x) \in Seq(Scalar) /\ Len(Append(s, x)) = Len(s) + 1
        /\ \A j \in 1..(Len(s) + 1) : Append(s, x)[j] = t[j]
    BY <2>1
  <2>4. t \in Seq(Scalar) /\ Len(t) = Len(s) + 1
    <3>1. \A j \in 1..(Len(s) + 1) : t[j] \in Scalar
      BY <2>1
    <3> QED BY <1>0, <3>1
  <2> HIDE DEF t
  <2>5. Append(s, x) = t
    BY <2>3, <2>4, SameList
  <2> QED BY <2>2, <2>5
<1>2. CASE o.seg # "-"
  <2>0. o.seg \in Segment /\ IndexOf[o.seg] \in Nat /\ RfcIndex(o, s) = IndexOf[o.seg]
    BY <1>2, OpFields, SegmentAssumption DEF RfcIndex
  <2>1. CASE o.op = "add"
    <3>1. IndexOf[o.seg] \in 0..Len(s) /\ o.value.scalar \in Scalar
      BY <1>0, <1>2, <2>0, <2>1, OpFields DEF IndexFits
    <3> QED BY <1>2, <2>0, <2>1, <3>1, InsertElements DEF EditedList, RfcElement
  <2>2. CASE o.op = "replace"
    <3>1. IndexOf[o.seg] + 1 \in 1..Len(s) /\ o.value.scalar \in Scalar
      BY <1>0, <1>2, <2>0, <2>2, OpFields DEF IndexFits
    <3> DEFINE i == IndexOf[o.seg]
               x == o.value.scalar
               t == [j \in 1..Len(s) |-> IF j = i + 1 THEN x ELSE s[j]]
               e == [s EXCEPT ![i + 1] = x]
    <3>2. EditedList(o, s) = e /\ RfcElement(o, RfcIndex(o, s), s) = t
      BY <1>2, <2>0, <2>2 DEF EditedList, RfcElement
    <3>3. e \in Seq(Scalar) /\ Len(e) = Len(s) /\ \A j \in 1..Len(s) : e[j] = t[j]
      BY <3>1
    <3>4. t \in Seq(Scalar) /\ Len(t) = Len(s)
      <4>1. \A j \in 1..Len(s) : t[j] \in Scalar
        BY <3>1
      <4> QED BY <1>0, <4>1
    <3> HIDE DEF t, e
    <3>5. e = t
      BY <3>3, <3>4, SameList
    <3> QED BY <3>2, <3>5
  <2>3. CASE o.op = "remove"
    <3>1. IndexOf[o.seg] \in 0..(Len(s) - 1)
      BY <1>0, <1>2, <2>0, <2>3 DEF IndexFits
    <3> QED BY <1>2, <2>0, <2>3, <3>1, DeleteElements DEF EditedList, RfcElement
  <2> QED BY <2>1, <2>2, <2>3, OpFields
<1> QED BY <1>1, <1>2

\* An edit below a key that the fast path makes is the one of RFC 6902, unless it replaces
\* a member that is not there.
LEMMA EditsAgree ==
  ASSUME NEW o \in Op, o.seg # Whole, NEW v \in Value \cup {None},
         v.kind \in {"dict", "list"},
         v.kind = "dict" => (o.op # "add" => v.members[o.seg] # Absent),
         v.kind = "list" => IndexFits(o, v.elements)
  PROVE  RfcAllows(o, v) /\ RfcValue(o, v) = Edited(o, v)
<1>1. CASE v.kind = "dict"
  BY <1>1 DEF RfcAllows, RfcValue, RfcMember, Edited
<1>2. CASE v.kind = "list"
  <2>1. v \in ListValue /\ v.elements \in Seq(Scalar)
    BY <1>2, KindOfValue DEF ListValue
  <2>2. EditedList(o, v.elements) = RfcElement(o, RfcIndex(o, v.elements), v.elements)
    BY <1>2, <2>1, ElementsAgree
  <2>3. RfcValue(o, v) = Edited(o, v)
    BY <1>2, <2>2 DEF RfcValue, Edited
  <2>4. RfcAllows(o, v)
    <3>1. Len(v.elements) \in Nat
      BY <2>1
    <3>2. IndexFits(o, v.elements)
      BY <1>2
    <3>3. RfcAllows(o, v) <=> /\ o.seg = "-" \/ IndexOf[o.seg] <= MaxIndex
                             /\ RfcIndex(o, v.elements)
                                  < Len(v.elements) + (IF o.op = "add" THEN 1 ELSE 0)
      BY <1>2 DEF RfcAllows
    <3> HIDE DEF RfcAllows
    <3>4. CASE o.seg = "-"
      <4>1. o.op = "add" /\ RfcIndex(o, v.elements) = Len(v.elements)
        BY <3>2, <3>4 DEF IndexFits, RfcIndex
      <4> QED BY <3>1, <3>3, <3>4, <4>1
    <3>5. CASE o.seg # "-"
      BY <3>2, <3>3, <3>5 DEF IndexFits, RfcIndex
    <3> QED BY <3>4, <3>5
  <2> QED BY <2>3, <2>4
<1> QED BY <1>1, <1>2

\* A key that holds an object holds a value.
Filled == \A k \in Key : work[k].at # "none" => Content(k) \in Value

\* No two keys hold the same value of the patch: an edit below one is not seen at another.
Apart == \A j, k \in Key : work[j].at = "patch" /\ work[j] = work[k] => j = k

Agrees == phase = "fast" /\ ~upserted => rfc = [k \in Key |-> Content(k)]

AgreeInv == IsolationInv /\ Filled /\ Apart /\ Agrees

LEMMA Kinds ==
  /\ None \notin Value
  /\ \A v \in Value \cup {None} : v.kind # "conflict"
BY DEF Value, ScalarValue, DictValue, ListValue, None

LEMMA RfcIsDocument ==
  ASSUME Stored, rfc = [k \in Key |-> Content(k)]
  PROVE  rfc # Conflict
<1>1. PICK k \in Key : TRUE
  BY KeyAssumption
<1>2. rfc[k].kind # "conflict"
  BY ContentIsValue, Kinds
<1> QED BY <1>1, <1>2 DEF Conflict

\* Both documents change at the operation's key, and to the same value.
LEMMA AgreesAgain ==
  ASSUME AgreeInv, NEW o \in Op, rfc' = RfcApply(o, rfc),
         phase = "fast", ~upserted,
         RfcAllows(o, Content(o.key)),
         \A k \in Key : Content(k)' = IF k = o.key THEN RfcValue(o, Content(o.key)) ELSE Content(k)
  PROVE  rfc' = [k \in Key |-> Content(k)']
<1>1. rfc = [k \in Key |-> Content(k)] /\ o.key \in Key
  BY OpFields DEF AgreeInv, Agrees
<1>2. rfc # Conflict
  BY <1>1, RfcIsDocument DEF AgreeInv, IsolationInv
<1>3. rfc[o.key] = Content(o.key)
  BY <1>1
<1>4. rfc' = [rfc EXCEPT ![o.key] = RfcValue(o, Content(o.key))]
  BY <1>2, <1>3 DEF RfcApply
<1> QED BY <1>1, <1>4

LEMMA ContentKept ==
  ASSUME Stored, NEW k \in Key, work'[k] = work[k], base'[k] = base[k],
         work[k].at = "copy" => copies'[k] = copies[k],
         work[k].at = "patch" => held'[work[k].n] = held[work[k].n]
  PROVE  Content(k)' = Content(k)
<1>1. work[k].at \in {"none", "base", "copy", "patch"}
  BY DEF Stored, Place
<1> QED BY <1>1 DEF Content, ValueAt

LEMMA InitAgrees ==
  ASSUME Init
  PROVE  AgreeInv
<1>1. IsolationInv
  BY InitIsolation
<1>2. ASSUME NEW k \in Key
      PROVE  /\ work[k].at = IF given[k] = None THEN "none" ELSE "base"
             /\ Content(k) = given[k]
  <2>1. work[k] = At(IF given[k] = None THEN "none" ELSE "base") /\ base = given
    BY DEF Init
  <2> QED BY <2>1 DEF At, Content, ValueAt
<1>3. Filled
  BY <1>1, <1>2 DEF Filled, IsolationInv, Stored
<1>4. Apart
  BY <1>2 DEF Apart
<1>5. Agrees
  <2>1. rfc = given /\ given \in [Key -> Value \cup {None}]
    BY <1>1 DEF Init, IsolationInv, Stored
  <2> QED BY <1>2, <2>1 DEF Agrees
<1> QED BY <1>1, <1>3, <1>4, <1>5 DEF AgreeInv

LEMMA RemoveKeyAgrees ==
  ASSUME AgreeInv, NEW o \in Op, RemoveKey(o)
  PROVE  AgreeInv'
<1>0. Stored /\ IsolationInv /\ IsolationInv' /\ o.key \in Key
  BY RemoveKeyIsolated, OpFields DEF AgreeInv, IsolationInv
<1>1. /\ o.seg = Whole /\ o.op = "remove" /\ o.value = None
      /\ work[o.key].at # "none" /\ phase = "fast"
  BY OpFields DEF RemoveKey, Handles
<1>2. /\ UNCHANGED <<base, copies, phase, upserted>>
      /\ rfc' = RfcApply(o, rfc)
      /\ patch' = Append(patch, o) /\ held' = Append(held, o.value)
  BY DEF RemoveKey, Receive
<1>3. /\ work'[o.key].at = "none"
      /\ \A k \in Key \ {o.key} : work'[k] = work[k]
  BY <1>0 DEF RemoveKey, Stored, At
<1>4. \A i \in 1..Len(patch) : held'[i] = held[i]
  BY <1>0, <1>2, Received DEF Stored
<1>5. ASSUME NEW k \in Key
      PROVE  Content(k)' = IF k = o.key THEN None ELSE Content(k)
  <2>1. CASE k = o.key
    BY <1>3, <2>1 DEF Content, ValueAt
  <2>2. CASE k # o.key
    <3>1. work[k].at = "patch" => held'[work[k].n] = held[work[k].n]
      BY <1>0, <1>4 DEF Stored
    <3> QED BY <1>0, <1>2, <1>3, <2>2, <3>1, ContentKept
  <2> QED BY <2>1, <2>2
<1>6. Filled'
  BY <1>3, <1>5 DEF AgreeInv, Filled
<1>7. Apart'
  BY <1>3 DEF AgreeInv, Apart
<1>8. Agrees'
  <2>1. SUFFICES ASSUME ~upserted PROVE rfc' = [k \in Key |-> Content(k)']
    BY <1>2 DEF Agrees
  <2>2. RfcAllows(o, Content(o.key)) /\ RfcValue(o, Content(o.key)) = None
    BY <1>0, <1>1, Kinds DEF AgreeInv, Filled, RfcAllows, RfcValue
  <2> QED BY <1>1, <1>2, <1>5, <2>1, <2>2, AgreesAgain
<1> QED BY <1>0, <1>6, <1>7, <1>8 DEF AgreeInv

LEMMA SetKeyAgrees ==
  ASSUME AgreeInv, NEW o \in Op, SetKey(o)
  PROVE  AgreeInv'
<1>0. Stored /\ IsolationInv /\ IsolationInv' /\ o.key \in Key
  BY SetKeyIsolated, OpFields DEF AgreeInv, IsolationInv
<1>1. o.seg = Whole /\ o.op \in {"add", "replace"} /\ o.value \in Value /\ phase = "fast"
  BY OpFields DEF SetKey
<1>2. /\ UNCHANGED <<base, copies, phase>>
      /\ upserted' = (upserted \/ (o.op = "replace" /\ work[o.key].at = "none"))
      /\ rfc' = RfcApply(o, rfc)
      /\ patch' = Append(patch, o) /\ held' = Append(held, o.value)
  BY DEF SetKey, Receive
<1>3. /\ work'[o.key] = HeldNow
      /\ \A k \in Key \ {o.key} : work'[k] = work[k]
  BY <1>0 DEF SetKey, Stored
<1>4. /\ \A i \in 1..Len(patch) : held'[i] = held[i]
      /\ held'[Len(patch) + 1] = o.value /\ Len(patch) \in Nat
  BY <1>0, <1>2, Received DEF Stored
<1>5. HeldNow.at = "patch" /\ HeldNow.n = Len(patch) + 1
  BY DEF HeldNow
<1>6. ASSUME NEW k \in Key
      PROVE  Content(k)' = IF k = o.key THEN o.value ELSE Content(k)
  <2>1. CASE k = o.key
    BY <1>3, <1>4, <1>5, <2>1 DEF Content, ValueAt
  <2>2. CASE k # o.key
    <3>1. work[k].at = "patch" => held'[work[k].n] = held[work[k].n]
      BY <1>0, <1>4 DEF Stored
    <3> QED BY <1>0, <1>2, <1>3, <2>2, <3>1, ContentKept
  <2> QED BY <2>1, <2>2
<1>7. Filled'
  BY <1>1, <1>3, <1>6 DEF AgreeInv, Filled
<1>8. Apart'
  <2>1. ASSUME NEW k \in Key, work[k].at = "patch" PROVE work[k] # HeldNow
    BY <1>0, <1>4, <1>5, <2>1 DEF Stored
  <2>2. SUFFICES ASSUME NEW j \in Key, NEW k \in Key, work'[j].at = "patch", work'[j] = work'[k]
                 PROVE  j = k
    BY DEF Apart
  <2>3. CASE j # o.key /\ k # o.key
    BY <1>3, <2>2, <2>3 DEF AgreeInv, Apart
  <2>4. CASE j = o.key \/ k = o.key
    BY <1>3, <1>5, <2>1, <2>2, <2>4
  <2> QED BY <2>3, <2>4
<1>9. Agrees'
  <2>1. SUFFICES ASSUME ~upserted' PROVE rfc' = [k \in Key |-> Content(k)']
    BY DEF Agrees
  <2>2. ~upserted /\ (o.op = "replace" => work[o.key].at # "none")
    BY <1>2, <2>1
  <2>3. RfcAllows(o, Content(o.key)) /\ RfcValue(o, Content(o.key)) = o.value
    BY <1>0, <1>1, <2>2, Kinds DEF AgreeInv, Filled, RfcAllows, RfcValue
  <2> QED BY <1>1, <1>2, <1>6, <2>2, <2>3, AgreesAgain
<1> QED BY <1>0, <1>7, <1>8, <1>9 DEF AgreeInv

LEMMA EditBelowAgrees ==
  ASSUME AgreeInv, NEW o \in Op, EditBelow(o)
  PROVE  AgreeInv'
<1> DEFINE p == Owned(o.key)
           v == Edited(o, Content(o.key))
           h == IF p.at = "patch" THEN [held EXCEPT ![p.n] = v] ELSE held
<1>0. Stored /\ IsolationInv /\ IsolationInv' /\ o.key \in Key
  BY EditBelowIsolated, OpFields DEF AgreeInv, IsolationInv
<1>1. o.seg # Whole /\ phase = "fast"
  BY DEF EditBelow
<1>2. /\ Content(o.key) \in Value \cup {None}
      /\ Content(o.key).kind \in {"dict", "list"}
      /\ Content(o.key).kind = "list" => IndexFits(o, Content(o.key).elements)
      /\ Content(o.key).kind = "dict" => (o.op = "remove" => Content(o.key).members[o.seg] # Absent)
  BY <1>0, <1>1, ContentIsValue DEF EditBelow, Handles
<1>3. v \in Value
  BY <1>1, <1>2, EditedIsValue
<1>4. /\ work[o.key].at # "none"
      /\ p.at \in {"copy", "patch"}
      /\ p.at = "patch" => p = work[o.key] /\ p.n \in 1..Len(patch)
  <2>1. work[o.key].at # "none"
    BY <1>2 DEF Content, ValueAt, None
  <2>2. work[o.key].at \in {"none", "base", "copy", "patch"}
    BY <1>0 DEF Stored, Place
  <2>3. CASE o.key \in copied
    BY <1>0, <2>1, <2>2, <2>3 DEF IsolationInv, Stored, CopiedHolds, Owned
  <2>4. CASE o.key \notin copied
    BY <2>1, <2>4 DEF Owned, At
  <2> QED BY <2>1, <2>3, <2>4
<1>5. /\ UNCHANGED <<base, phase>>
      /\ copies' = (IF p.at = "copy" THEN [copies EXCEPT ![o.key] = v] ELSE copies)
      /\ held' = Append(h, o.value)
      /\ patch' = Append(patch, o)
      /\ work' = [work EXCEPT ![o.key] = p]
      /\ rfc' = RfcApply(o, rfc)
  BY <1>4 DEF EditBelow, Receive, StoreAt
<1>6. upserted' = (upserted \/ (/\ Content(o.key).kind = "dict"
                               /\ o.op = "replace"
                               /\ Content(o.key).members[o.seg] = Absent))
  BY DEF EditBelow
<1> HIDE DEF p
<1>7. /\ h \in Seq(Value \cup {None}) /\ Len(h) = Len(held)
      /\ p.at = "patch" => h[p.n] = v
      /\ \A i \in 1..Len(patch) : p.at = "patch" => (i # p.n => h[i] = held[i])
      /\ p.at # "patch" => h = held
  <2> HIDE DEF v
  <2> QED BY <1>0, <1>3, <1>4 DEF Stored
<1> HIDE DEF v, h
<1>8. \A i \in 1..Len(patch) : held'[i] = h[i]
  BY <1>0, <1>5, <1>7, Received DEF Stored
<1>9. /\ work'[o.key] = p
      /\ \A k \in Key \ {o.key} : work'[k] = work[k]
      /\ p.at = "copy" => copies'[o.key] = v
      /\ \A k \in Key \ {o.key} : copies'[k] = copies[k]
  BY <1>0, <1>5 DEF Stored
<1>10. ASSUME NEW k \in Key
       PROVE  Content(k)' = IF k = o.key THEN v ELSE Content(k)
  <2>1. CASE k = o.key
    BY <1>4, <1>7, <1>8, <1>9, <2>1 DEF Content, ValueAt
  <2>2. CASE k # o.key
    <3>1. ASSUME work[k].at = "patch" PROVE held'[work[k].n] = held[work[k].n]
      <4>1. work[k].n \in 1..Len(patch)
        BY <1>0, <3>1 DEF Stored
      <4>2. CASE p.at = "patch"
        <5>1. work[k] # p
          BY <1>0, <1>4, <2>2, <3>1, <4>2 DEF AgreeInv, Apart
        <5>2. work[k] \in Place /\ p \in Place
          BY <1>0, <1>4, <4>2 DEF Stored
        <5>3. work[k].n # p.n
          BY <3>1, <4>2, <5>1, <5>2 DEF Place
        <5> QED BY <1>7, <1>8, <4>1, <4>2, <5>3
      <4>3. CASE p.at # "patch"
        BY <1>7, <1>8, <4>1, <4>3
      <4> QED BY <4>2, <4>3
    <3> QED BY <1>0, <1>5, <1>9, <2>2, <3>1, ContentKept
  <2> QED BY <2>1, <2>2
<1>11. Filled'
  BY <1>3, <1>9, <1>10 DEF AgreeInv, Filled
<1>12. Apart'
  <2>1. SUFFICES ASSUME NEW j \in Key, NEW k \in Key, work'[j].at = "patch", work'[j] = work'[k]
                 PROVE  j = k
    BY DEF Apart
  <2>2. ASSUME NEW l \in Key, work'[l].at = "patch" PROVE work'[l] = work[l]
    BY <1>4, <1>9, <2>2
  <2> QED BY <2>1, <2>2 DEF AgreeInv, Apart
<1>13. Agrees'
  <2>1. SUFFICES ASSUME ~upserted' PROVE rfc' = [k \in Key |-> Content(k)']
    BY DEF Agrees
  <2>2. ~upserted /\ (Content(o.key).kind = "dict" => (o.op # "add" => Content(o.key).members[o.seg] # Absent))
    BY <1>2, <1>6, <2>1, OpFields
  <2>3. RfcAllows(o, Content(o.key)) /\ RfcValue(o, Content(o.key)) = v
    BY <1>1, <1>2, <2>2, EditsAgree DEF v
  <2> QED BY <1>1, <1>5, <1>10, <2>2, <2>3, AgreesAgain
<1> QED BY <1>0, <1>11, <1>12, <1>13 DEF AgreeInv

LEMMA StepAgrees ==
  ASSUME AgreeInv, [Next]_vars
  PROVE  AgreeInv'
<1>1. ASSUME NEW o \in Op, RemoveKey(o) PROVE AgreeInv'
  BY <1>1, RemoveKeyAgrees
<1>2. ASSUME NEW o \in Op, SetKey(o) PROVE AgreeInv'
  BY <1>2, SetKeyAgrees
<1>3. ASSUME NEW o \in Op, EditBelow(o) PROVE AgreeInv'
  BY <1>3, EditBelowAgrees
<1>4. ASSUME UNCHANGED <<given, base, copies, patch, held, work, copied, rfc, upserted, exposed>>,
             phase' # "fast" \/ UNCHANGED phase
      PROVE  AgreeInv'
  <2>1. IsolationInv'
    BY <1>4, UnchangedIsolated DEF AgreeInv
  <2>2. \A k \in Key : Content(k)' = Content(k)
    BY <1>4 DEF Content, ValueAt
  <2>3. Filled' /\ Apart'
    BY <1>4, <2>2 DEF AgreeInv, Filled, Apart
  <2>4. Agrees'
    BY <1>4, <2>2 DEF AgreeInv, Agrees
  <2> QED BY <2>1, <2>3, <2>4 DEF AgreeInv
<1>5. CASE Decline
  BY <1>4, <1>5 DEF Decline, caller
<1>6. CASE UNCHANGED vars
  BY <1>4, <1>6 DEF vars, caller
<1> QED BY <1>1, <1>2, <1>3, <1>5, <1>6 DEF Next

\* For every document and patch: as long as the fast path has not replaced what was not
\* there, it has made the document that RFC 6902 makes.
THEOREM FastPathIsRfc6902 == Spec => []FastIsRfc
<1>1. Init => AgreeInv
  BY InitAgrees
<1>2. AgreeInv /\ [Next]_vars => AgreeInv'
  BY StepAgrees
<1>3. AgreeInv => FastIsRfc
  BY RfcIsDocument DEF AgreeInv, IsolationInv, Agrees, FastIsRfc
<1> QED BY <1>1, <1>2, <1>3, PTL DEF Spec
===============================================================================
