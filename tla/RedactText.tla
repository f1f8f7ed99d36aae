------------------------------ MODULE RedactText ------------------------------
(***************************************************************************)
(* What the redactor and the blob extraction make of a JSON value, and     *)
(* what a human's patch makes of a document (state/redact.py,              *)
(* state/blobs.py, hitl/audit.py).                                         *)
(*                                                                         *)
(* A text is a sequence of lexemes, and a lexeme is a tuple that begins    *)
(* with its kind: "word" and "space" are prose, "sensitive" is a word like *)
(* password, "big" is prose longer than the limits, "slash" a slash.       *)
(* "openai", "aws" and "pem" are credentials of a known format, "entropy"  *)
(* is a random token.  "ref" and "literal" are the two prefixes that mark  *)
(* stored strings, "blob" is a reference to its content, and "redacted" is *)
(* a placeholder: it names its secret, as its HMAC does.                   *)
(*                                                                         *)
(* A value is a pair of its type and its content: a string, bytes, a list, *)
(* or a map, which is a sequence of entries in the order of insertion.     *)
(***************************************************************************)
EXTENDS Naturals, SequencesExt

CONSTANTS
  BlobThreshold,  \* blob_threshold_bytes, in the units of Weight
  MaxScan         \* entropy_max_scan_bytes

ASSUME LimitAssumption == {BlobThreshold, MaxScan} \subseteq Nat

Kind(lexeme) == lexeme[1]

Placeholder(kind, secret) == <<"redacted", kind, secret>>

IsPlaceholder(text) == Len(text) = 1 /\ Kind(text[1]) = "redacted"

-------------------------------------------------------------------------------
(* redact_text().  A placeholder is masked during a scan, so both layers   *)
(* pass over it, and to a neighbour it looks like punctuation.             *)

\* A character that \b counts as part of a word is next to position i.
WordAt(text, i) ==
  i \in DOMAIN text /\ Kind(text[i]) \in {"word", "sensitive", "entropy", "aws", "openai"}

\* "sk-..." needs no boundary; "AKIA..." needs one on both sides.
Matches(text, i) ==
  \/ Kind(text[i]) \in {"openai", "pem"}
  \/ Kind(text[i]) = "aws" /\ ~WordAt(text, i - 1) /\ ~WordAt(text, i + 1)

\* Layer 1 replaces the known formats.  Boundaries are those of the text before it.
Layer1(text) ==
  [i \in DOMAIN text |->
     IF Matches(text, i) THEN Placeholder(Kind(text[i]), <<text[i]>>) ELSE text[i]]

\* The characters of _candidate_re.
IsCandidate(lexeme) ==
  Kind(lexeme) \in {"word", "sensitive", "entropy", "aws", "openai", "slash"}

\* The match of _candidate_re around position i: a maximal run of them.
Run(text, i) ==
  {j \in DOMAIN text : \A k \in DOMAIN text :
     (i <= k /\ k <= j) \/ (j <= k /\ k <= i) => IsCandidate(text[k])}

Holds(text, kind) == \E i \in DOMAIN text : Kind(text[i]) = kind

\* A run with a slash is taken for a path.
IsRandom(text, i) ==
  /\ \E j \in Run(text, i) : Kind(text[j]) = "entropy"
  /\ \A j \in Run(text, i) : Kind(text[j]) # "slash"

\* _sub_layer2(): what becomes of position i, where a random run is replaced at its start.
Sublayer2(text, i) ==
  IF ~IsRandom(text, i) THEN <<text[i]>>
  ELSE IF i - 1 \in Run(text, i) THEN <<>>
  ELSE <<Placeholder("entropy", SubSeq(text, i, Max(Run(text, i))))>>

Weight(text) == Len(text) + 4 * Cardinality({i \in DOMAIN text : Kind(text[i]) \in {"big", "pem"}})

\* Layer 2 scans texts up to a length for random tokens.
Layer2(text) ==
  IF Weight(text) > MaxScan
    THEN text
    ELSE FlattenSeq([i \in DOMAIN text |-> Sublayer2(text, i)])

RedactText(text) == Layer2(Layer1(text))

\* The screen of _redact_leaf(): a text without any of the sixteen characters.
Inert(text) ==
  \A i \in DOMAIN text : Kind(text[i]) \in {"word", "space", "sensitive", "big"}

\* A leaf, of which a large one becomes a reference and one that looks like a stored
\* string is escaped.  What is inert has neither prefix: only its size is asked for.
RedactLeaf(text) == IF Inert(text) THEN text ELSE RedactText(text)

ByWeight(text) == IF Weight(text) > BlobThreshold THEN <<<<"blob", text>>>> ELSE text

\* Mutant: only the references are escaped, not what looks like an escape.
ExtractUnescaped(text) ==
  IF text # <<>> /\ Kind(text[1]) = "ref" THEN <<<<"literal">>>> \o text ELSE ByWeight(text)

Extract(text) ==
  IF text # <<>> /\ Kind(text[1]) \in {"ref", "literal"}
    THEN <<<<"literal">>>> \o text
    ELSE ByWeight(text)

\* Mutant: a large leaf is extracted before it is redacted.
StoredLeafUnredacted(text) ==
  IF Weight(text) > BlobThreshold THEN ByWeight(text) ELSE Extract(RedactLeaf(text))

StoredLeaf(text) == IF Inert(text) THEN ByWeight(text) ELSE Extract(RedactText(text))

-------------------------------------------------------------------------------
(* redact() walks a value; so does the extraction and the reading of blobs. *)

\* The members of a list, or the values of a map.
Children(value) ==
  CASE value[1] = "list" -> value[2]
    [] value[1] = "map"  -> [i \in DOMAIN value[2] |-> value[2][i][2]]
    [] OTHER -> <<>>

\* A text that a user may write: what looks like a reference is a "ref", not a "blob".
IsText(text) ==
  /\ text \in Seq(ToSet(text))
  /\ \A i \in DOMAIN text : Kind(text[i]) # "blob"

\* A value, but for its members.
IsNode(value) ==
  /\ value = <<value[1], value[2]>>
  /\ \/ value[1] \in {"string", "bytes"} /\ IsText(value[2])
     \/ value[1] = "list" /\ value[2] \in Seq(ToSet(value[2]))
     \/ /\ value[1] = "map"
        /\ value[2] \in Seq(ToSet(value[2]))
        /\ \A i \in DOMAIN value[2] :
             value[2][i] = <<value[2][i][1], value[2][i][2]>> /\ IsText(value[2][i][1])

IsLeaf(value) == IsNode(value) /\ Children(value) = <<>>

\* What a document may have under a key: to this depth are its values modelled.
IsNested(value) == IsNode(value) /\ \A i \in DOMAIN Children(value) : IsLeaf(Children(value)[i])

IsDocument(value) ==
  value[1] = "map" /\ IsNode(value) /\ \A i \in DOMAIN Children(value) : IsNested(Children(value)[i])

\* Node(v, below) of a value, below what is made of its children: to the depth that the
\* documents have.
BottomUp(value, Node(_, _)) ==
  LET Deepest(v) == Node(v, Children(v))
      Inner(v) == Node(v, [i \in DOMAIN Children(v) |-> Deepest(Children(v)[i])])
  IN Node(value, [i \in DOMAIN Children(value) |-> Inner(Children(value)[i])])

\* new_dict[key] = value: a key that is there keeps its place.
Put(entries, key, value) ==
  IF \E i \in DOMAIN entries : entries[i][1] = key
    THEN [i \in DOMAIN entries |-> IF entries[i][1] = key THEN <<key, value>> ELSE entries[i]]
    ELSE Append(entries, <<key, value>>)

NewKey(key) == IF IsPlaceholder(key) THEN key ELSE RedactText(key)

\* _SENSITIVE_KEY finds password, and the name of a kind in a placeholder that is only a
\* part of the key: of the kinds here, private_key has such a name.
IsSensitive(key) ==
  /\ ~IsPlaceholder(key)
  /\ \E i \in DOMAIN key :
       Kind(key[i]) = "sensitive" \/ (Kind(key[i]) = "redacted" /\ key[i][2] = "pem")

IsRedacted(value) == value[1] = "string" /\ IsPlaceholder(value[2])

\* The value under a sensitive key.
KeyName(value) ==
  IF IsRedacted(value) THEN value ELSE <<"string", <<Placeholder("key_name", value)>>>>

\* The entries of a dict, whose values were redacted to those in below.
RedactEntries(entries, below) ==
  LET done[n \in 0..Len(entries)] ==
        IF n = 0 THEN <<>>
        ELSE Put(done[n - 1], NewKey(entries[n][1]),
                 IF IsSensitive(entries[n][1]) THEN KeyName(entries[n][2]) ELSE below[n])
  IN done[Len(entries)]

RedactNode(value, stores, below) ==
  CASE value[1] = "string" ->
         <<"string", IF stores THEN StoredLeaf(value[2]) ELSE RedactLeaf(value[2])>>
    [] value[1] = "bytes"  -> <<"bytes", RedactText(value[2])>>
    [] value[1] = "list"   -> <<"list", below>>
    [] value[1] = "map"    -> <<"map", RedactEntries(value[2], below)>>

Redact(value) == BottomUp(value, LAMBDA node, below : RedactNode(node, FALSE, below))

\* redact() with a blob store: what a snapshot stores.
Strip(value) == BottomUp(value, LAMBDA node, below : RedactNode(node, TRUE, below))

-------------------------------------------------------------------------------
(* Reading a stored document. *)

\* An escape is taken off; a reference is followed.
ReadText(text) ==
  IF text = <<>> THEN text
  ELSE CASE Kind(text[1]) = "literal" -> Tail(text)
         [] Kind(text[1]) = "blob" -> text[1][2]
         [] Kind(text[1]) = "ref" -> <<<<"missing">>>>
         [] OTHER -> text

ReadNode(value, below) ==
  CASE value[1] = "string" -> <<"string", ReadText(value[2])>>
    [] value[1] = "bytes"  -> value
    [] value[1] = "list"   -> <<"list", below>>
    [] value[1] = "map"    -> <<"map", [i \in DOMAIN below |-> <<value[2][i][1], below[i]>>]>>

\* inline_blobs(), when every blob is found; what the user wrote and looks like a reference
\* is none.
Inline(value) == BottomUp(value, ReadNode)

\* The texts that a value is made of: its leaves, and its keys.
Leaves(value) ==
  BottomUp(value, LAMBDA node, below :
                    IF node[1] \in {"string", "bytes"} THEN {node[2]} ELSE UNION Range(below))

Keys(value) ==
  BottomUp(value, LAMBDA node, below :
                    (IF node[1] = "map" THEN {node[2][i][1] : i \in DOMAIN node[2]} ELSE {})
                      \cup UNION Range(below))

\* The blobs that the references in a value stand for, by their content.
Blobs(value) ==
  {text[1][2] : text \in {t \in Leaves(value) : t # <<>> /\ Kind(t[1]) = "blob"}}

-------------------------------------------------------------------------------
(* A human's patch: a sequence of operations on the entries of a document. *)
(* The path of an entry is a slash and its key.                            *)

PointerKey(path) == Tail(path)

Has(doc, path) == \E i \in DOMAIN doc[2] : doc[2][i][1] = PointerKey(path)

Position(doc, path) == CHOOSE i \in DOMAIN doc[2] : doc[2][i][1] = PointerKey(path)

\* An operation is <<"add", path, value>>, <<"remove", path>> or <<"copy", path, from>>.
Fits(doc, op) ==
  CASE op[1] = "add" -> TRUE
    [] op[1] = "remove" -> Has(doc, op[2])
    [] op[1] = "copy" -> Has(doc, op[3])

ApplyOp(doc, op) ==
  CASE op[1] = "add" -> <<"map", Put(doc[2], PointerKey(op[2]), op[3])>>
    [] op[1] = "remove" -> <<"map", RemoveAt(doc[2], Position(doc, op[2]))>>
    [] op[1] = "copy" ->
         <<"map", Put(doc[2], PointerKey(op[2]), doc[2][Position(doc, op[3])][2])>>

IsOp(op) ==
  /\ op[1] \in {"add", "remove", "copy"}
  /\ IsText(op[2]) /\ op[2] # <<>>
  /\ op[1] = "add" => IsNested(op[3])
  /\ op[1] = "copy" => IsText(op[3]) /\ op[3] # <<>>

IsPatch(patch) == patch \in Seq(ToSet(patch)) /\ \A i \in DOMAIN patch : IsOp(patch[i])

Failed == <<"failed">>

\* apply_patch(): all operations or none.
ApplyPatch(doc, patch) ==
  LET state[n \in 0..Len(patch)] ==
        IF n = 0 THEN doc
        ELSE IF state[n - 1] # Failed /\ Fits(state[n - 1], patch[n])
          THEN ApplyOp(state[n - 1], patch[n])
          ELSE Failed
  IN state[Len(patch)]

\* An operation whose value, if it has one, is replaced.
RedactPaths(op, value) ==
  CASE op[1] = "add" -> <<"add", RedactLeaf(op[2]), value>>
    [] op[1] = "remove" -> <<"remove", RedactLeaf(op[2])>>
    [] op[1] = "copy" -> <<"copy", RedactLeaf(op[2]), RedactLeaf(op[3])>>

\* AuditLog.append() redacts the record that it is given: in its list of operations, a
\* value is under the key "value".
AuditedOp(op) == RedactPaths(op, IF op[1] = "add" THEN Redact(op[3]) ELSE <<>>)

\* redact_patch(): a value is redacted under the key that it is destined for.
RedactOp(op) ==
  RedactPaths(op, IF op[1] = "add"
                    THEN RedactEntries(<<<<PointerKey(op[2]), op[3]>>>>, <<Redact(op[3])>>)[1][2]
                    ELSE <<>>)

RedactPatch(patch) == [i \in DOMAIN patch |-> RedactOp(patch[i])]

AuditedPatch(patch) == [i \in DOMAIN patch |-> AuditedOp(patch[i])]
===============================================================================
