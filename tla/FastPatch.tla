------------------------------- MODULE FastPatch -------------------------------
(***************************************************************************)
(* apply_patch (state/delta.py): the fast path for operations that are one *)
(* or two segments deep, and jsonpatch for everything else.                *)
(*                                                                         *)
(* The fast path works on a shallow copy of the document, so the question  *)
(* is which object a key holds: the caller's, a copy, or a value that is   *)
(* still part of the patch.  A document is a function of its keys; a value *)
(* is a scalar, a dict of scalars or a list of scalars.  The operations    *)
(* come one by one, and RFC 6902 is applied beside them.                   *)
(***************************************************************************)
EXTENDS Naturals, Sequences

CONSTANTS
  Key,      \* keys of the document
  Segment,  \* second segments of a path
  Scalar,   \* scalar values
  Absent,   \* no value
  MaxIndex, \* bound: array indices in paths
  IndexOf,  \* _array_index: what a segment denotes in a list; above MaxIndex: nothing
  MaxOps,   \* bound: operations of a patch
  Documents \* the documents that a patch is applied to

\* "-" is the segment that appends.
ASSUME SegmentAssumption ==
  /\ "-" \in Segment
  /\ MaxIndex \in Nat
  /\ IndexOf \in [Segment -> 0..(MaxIndex + 1)]
  /\ IndexOf["-"] = MaxIndex + 1

ASSUME ScalarAssumption == Absent \notin Scalar

ASSUME KeyAssumption == Key # {}

ASSUME OpsAssumption == MaxOps \in Nat

None == [kind |-> "none"]

ScalarValue == [kind : {"scalar"}, scalar : Scalar]

DictValue == [kind : {"dict"}, members : [Segment -> Scalar \cup {Absent}]]

ListValue == [kind : {"list"}, elements : Seq(Scalar)]

Value == ScalarValue \cup DictValue \cup ListValue

ASSUME DocumentsAssumption == Documents \subseteq [Key -> Value \cup {None}]

\* The path "/key", and the path "/key/segment".
Whole == "whole"

ASSUME PathAssumption == Whole \notin Segment

\* Values that operations carry; a second segment is given a scalar.
EmptyDict == [kind |-> "dict", members |-> [s \in Segment |-> Absent]]

EmptyList == [kind |-> "list", elements |-> <<>>]

Op ==
  [op : {"add", "replace"}, key : Key, seg : {Whole}, value : ScalarValue \cup {EmptyDict, EmptyList}]
    \cup [op : {"add", "replace"}, key : Key, seg : Segment, value : ScalarValue]
    \cup [op : {"remove"}, key : Key, seg : {Whole} \cup Segment, value : {None}]

VARIABLES
  given,    \* the document as the caller gave it
  base,     \* the caller's objects
  copies,   \* the copies that the fast path has made
  patch,    \* the patch as the caller gave it
  held,     \* the values that the patch holds
  work,     \* which object a key of the working document holds
  copied,   \* the parents that have been copied
  phase,    \* who applies the patch
  rfc,      \* history: what RFC 6902 gives
  upserted, \* history: a replacement has been made of nothing
  exposed   \* history: values of the patch that took the place of a copy

caller == <<given, base>>
vars == <<caller, copies, patch, held, work, copied, phase, rfc, upserted, exposed>>

Place == [at : {"none", "base", "copy"}, n : {0}] \cup [at : {"patch"}, n : Nat \ {0}]

At(p) == [at |-> p, n |-> 0]

\* The value that a place of key k holds.
ValueAt(k, p) ==
  CASE p.at = "none"  -> None
    [] p.at = "base"  -> base[k]
    [] p.at = "copy"  -> copies[k]
    [] p.at = "patch" -> held[p.n]

Content(k) == ValueAt(k, work[k])

Init ==
  /\ given \in Documents
  /\ base = given
  /\ copies = [k \in Key |-> None]
  /\ patch = <<>>
  /\ held = <<>>
  /\ work = [k \in Key |-> At(IF given[k] = None THEN "none" ELSE "base")]
  /\ copied = {}
  /\ phase = "fast"
  /\ rfc = given
  /\ upserted = FALSE
  /\ exposed = {}

(***************************************************************************)
(* RFC 6902, as jsonpatch has it.                                          *)
(***************************************************************************)

\* No document: the patch conflicts with the document.
Conflict == [k \in Key |-> [kind |-> "conflict"]]

RfcMember(o, d) == [d EXCEPT !.members[o.seg] = IF o.op = "remove" THEN Absent ELSE o.value.scalar]

\* The list with, or without, an element at index i.
RfcElement(o, i, s) ==
  CASE o.op = "add"     -> [j \in 1..(Len(s) + 1) |-> IF j <= i THEN s[j]
                                                     ELSE IF j = i + 1 THEN o.value.scalar
                                                     ELSE s[j - 1]]
    [] o.op = "replace" -> [j \in 1..Len(s) |-> IF j = i + 1 THEN o.value.scalar ELSE s[j]]
    [] o.op = "remove"  -> [j \in 1..(Len(s) - 1) |-> IF j <= i THEN s[j] ELSE s[j + 1]]

RfcIndex(o, s) == IF o.seg = "-" THEN Len(s) ELSE IndexOf[o.seg]

\* The operation's target exists; an addition may name one past the last element.
RfcAllows(o, v) ==
  IF o.seg = Whole THEN o.op # "add" => v # None
  ELSE CASE v.kind = "dict" -> o.op # "add" => v.members[o.seg] # Absent
         [] v.kind = "list" -> /\ o.seg = "-" \/ IndexOf[o.seg] <= MaxIndex
                               /\ RfcIndex(o, v.elements) < Len(v.elements) + (IF o.op = "add" THEN 1 ELSE 0)
         [] OTHER -> FALSE

RfcValue(o, v) ==
  IF o.seg = Whole THEN o.value
  ELSE IF v.kind = "dict" THEN RfcMember(o, v)
  ELSE [v EXCEPT !.elements = RfcElement(o, RfcIndex(o, v.elements), v.elements)]

RfcApply(o, d) ==
  IF d # Conflict /\ RfcAllows(o, d[o.key])
    THEN [d EXCEPT ![o.key] = RfcValue(o, d[o.key])]
    ELSE Conflict

(***************************************************************************)
(* The fast path.                                                          *)
(***************************************************************************)

\* Mutant: a replacement may name one past the last element.
IndexFitsLoosely(o, s) == IF o.seg = "-" THEN o.op = "add" ELSE IndexOf[o.seg] <= Len(s)

IndexFits(o, s) ==
  IF o.seg = "-" THEN o.op = "add"
  ELSE /\ IndexOf[o.seg] <= MaxIndex
       /\ IndexOf[o.seg] < Len(s) + (IF o.op = "add" THEN 1 ELSE 0)

\* The operation, validated against the working document.  A replacement of a whole
\* value, or of a member of a dict, is not asked whether there is anything to replace.
Handles(o) ==
  IF o.seg = Whole THEN o.op = "remove" => work[o.key].at # "none"
  ELSE CASE Content(o.key).kind = "dict" -> o.op = "remove" => Content(o.key).members[o.seg] # Absent
         [] Content(o.key).kind = "list" -> IndexFits(o, Content(o.key).elements)
         [] OTHER -> FALSE

Insert(s, i, x) == SubSeq(s, 1, i) \o <<x>> \o SubSeq(s, i + 1, Len(s))

Delete(s, i) == SubSeq(s, 1, i) \o SubSeq(s, i + 2, Len(s))

EditedList(o, s) ==
  IF o.seg = "-" THEN Append(s, o.value.scalar)
  ELSE CASE o.op = "add"     -> Insert(s, IndexOf[o.seg], o.value.scalar)
         [] o.op = "replace" -> [s EXCEPT ![IndexOf[o.seg] + 1] = o.value.scalar]
         [] o.op = "remove"  -> Delete(s, IndexOf[o.seg])

Edited(o, v) ==
  IF v.kind = "dict"
    THEN [v EXCEPT !.members[o.seg] = IF o.op = "remove" THEN Absent ELSE o.value.scalar]
    ELSE [v EXCEPT !.elements = EditedList(o, v.elements)]

\* What the operation does beside the working document.
Receive(o) ==
  /\ Len(patch) < MaxOps
  /\ patch' = Append(patch, o)
  /\ rfc' = RfcApply(o, rfc)
  /\ UNCHANGED given

\* A key is removed.
RemoveKey(o) ==
  /\ phase = "fast" /\ Handles(o)
  /\ o.seg = Whole /\ o.op = "remove"
  /\ Receive(o)
  /\ held' = Append(held, o.value)
  /\ work' = [work EXCEPT ![o.key] = At("none")]
  /\ UNCHANGED <<base, copies, copied, phase, upserted, exposed>>

\* Mutant: a parent that a patch has put there is taken for a copy.
CopiedBySet(o) == copied \cup {o.key}

CopiedAfterSet(o) == copied

\* The value that the patch holds for the operation that is being applied.
HeldNow == [at |-> "patch", n |-> Len(patch) + 1]

\* A key is set: it holds the value that the patch holds.
SetKey(o) ==
  /\ phase = "fast" /\ Handles(o)
  /\ o.seg = Whole /\ o.op \in {"add", "replace"}
  /\ Receive(o)
  /\ held' = Append(held, o.value)
  /\ work' = [work EXCEPT ![o.key] = HeldNow]
  /\ copied' = CopiedAfterSet(o)
  /\ upserted' = (upserted \/ (o.op = "replace" /\ work[o.key].at = "none"))
  /\ exposed' = IF o.key \in copied THEN exposed \cup {Len(patch) + 1} ELSE exposed
  /\ UNCHANGED <<base, copies, phase>>

\* Mutant: the first mutation copies nothing.
OwnedBase(k) == work[k]

\* The object that a mutation below key k is made to: a copy, made before the first one.
Owned(k) == IF k \in copied THEN work[k] ELSE At("copy")

\* The value v is stored at a place of key k; the patch gets one more operation.
StoreAt(k, p, v, o) ==
  /\ base' = IF p.at = "base" THEN [base EXCEPT ![k] = v] ELSE base
  /\ copies' = IF p.at = "copy" THEN [copies EXCEPT ![k] = v] ELSE copies
  /\ held' = Append(IF p.at = "patch" THEN [held EXCEPT ![p.n] = v] ELSE held, o.value)

\* A member of a dict, or an element of a list, is set or removed.
EditBelow(o) ==
  /\ phase = "fast" /\ Handles(o)
  /\ o.seg # Whole
  /\ Receive(o)
  /\ StoreAt(o.key, Owned(o.key), Edited(o, Content(o.key)), o)
  /\ work' = [work EXCEPT ![o.key] = Owned(o.key)]
  /\ copied' = copied \cup {o.key}
  /\ upserted' = \/ upserted
                 \/ /\ Content(o.key).kind = "dict"
                    /\ o.op = "replace"
                    /\ Content(o.key).members[o.seg] = Absent
  /\ UNCHANGED <<phase, exposed>>

\* The operation conflicts with the working document, or it is none of the fast path: it
\* moves, copies or tests, its path is deeper or has an escape.  The fast path returns
\* False, what it has done is dropped, and jsonpatch applies the whole patch to a copy of
\* the caller's document.
Decline ==
  /\ phase = "fast"
  /\ Len(patch) < MaxOps
  /\ phase' = "jsonpatch"
  /\ UNCHANGED <<caller, copies, patch, held, work, copied, rfc, upserted, exposed>>

-------------------------------------------------------------------------------

Next ==
  \/ \E o \in Op : RemoveKey(o) \/ SetKey(o) \/ EditBelow(o)
  \/ Decline

Spec == Init /\ [][Next]_vars

-------------------------------------------------------------------------------

\* The document that the fast path has made is the one that RFC 6902 makes of the
\* operations so far, none of which conflicts: no removal of what an earlier operation
\* removed, no index that an earlier operation shifted away, no replacement at "-" or one
\* past the end.  The exception is a replacement of nothing, taken for an addition.
FastIsRfc == phase = "fast" /\ ~upserted => rfc # Conflict /\ [k \in Key |-> Content(k)] = rfc

\* delta.py:76, "Containers reached from work are copied before their first mutation":
\* the document that the caller has given is never changed, so that jsonpatch gets a
\* document that nothing has touched, and a state that was reviewed can be hashed again.
BaseUntouched == base = given

\* The patch that the caller has given, which the audit log records after it was applied,
\* is not changed either, unless one of its values has taken the place of a container that
\* had been copied: such a value is edited in place.
PatchUntouched == \A i \in DOMAIN patch \ exposed : held[i] = patch[i].value
===============================================================================
