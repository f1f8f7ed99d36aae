------------------------------- MODULE Redaction -------------------------------
(***************************************************************************)
(* The state of a run on its way to storage and back: a snapshot is        *)
(* redacted, its large leaves become blobs, and then the envelope is       *)
(* written; a reviewer is shown what was stored and edits it; the edit is  *)
(* audited, stored as the state of record, and applied again at the gate.  *)
(* Writes fail and the process dies in between.                            *)
(* RedactText has what the single steps make of the data.  The chain of    *)
(* bases and deltas, with its indices and its memory, is in StateOfRecord: *)
(* here a snapshot is the document that storage holds after it.            *)
(***************************************************************************)
EXTENDS RedactText

CONSTANTS
  Entry,     \* the keys, with a value, that a body may write
  Patch,     \* the patches that a reviewer may send
  MaxWrites  \* bound: the writes of the body

ASSUME EntryAssumption == \A entry \in Entry : IsText(entry[1]) /\ IsNested(entry[2])
ASSUME PatchAssumption == \A patch \in Patch : IsPatch(patch)

VARIABLES
  phase,     \* "run", "paused", "decided", "replay" up to the gate, or "dead"
  doc,       \* ctx.state
  flight,    \* the snapshot under way, if any, with the blobs it has yet to put
  stored,    \* the document in storage
  durable,   \* the blobs in storage
  cache,     \* the blobs that the process's BlobStore holds
  reviewed,  \* what the reviewer was shown
  decided,   \* the document whose hash is state_hash_after
  sent,      \* the patch of the decision, once one is taken
  audit,     \* the patch in the audit log
  saved,     \* history: the live document of the snapshot in storage
  writes     \* how often the body has written

\* A decision, on record.
record == <<reviewed, decided, sent, audit>>

vars == <<phase, doc, flight, stored, durable, cache, record, saved, writes>>

EmptyDoc == <<"map", <<>>>>

Nothing == <<"nothing">>

Init ==
  /\ phase = "run"
  /\ doc = EmptyDoc
  /\ flight = <<>>
  /\ stored = Nothing
  /\ durable = {}
  /\ cache = {}
  /\ reviewed = Nothing
  /\ decided = Nothing
  /\ sent = <<>>
  /\ audit = <<>>
  /\ saved = Nothing
  /\ writes = 0

\* The body assigns to a key of its state, before the gate of a replay too.
Write(key, value) ==
  /\ phase \in {"run", "replay"}
  /\ flight = <<>>
  /\ writes < MaxWrites
  /\ writes' = writes + 1
  /\ doc' = <<"map", Put(doc[2], key, value)>>
  /\ UNCHANGED <<phase, flight, stored, durable, cache, record, saved>>

\* snapshot() of a live document; the blobs go out one by one, in the order of the walk,
\* which can be any.
Flight(live, purpose) ==
  <<[live |-> live, doc |-> Strip(live), todo |-> Blobs(Strip(live)), purpose |-> purpose]>>

\* A step has returned, or the body has reached a gate that is not decided.
Snapshot(purpose) ==
  /\ phase = "run"
  /\ flight = <<>>
  /\ flight' = Flight(doc, purpose)
  /\ UNCHANGED <<phase, doc, stored, durable, cache, record, saved, writes>>

\* BlobStore.put(): storage first, and not at all for what is in the cache.
PutBlob(content) ==
  /\ flight # <<>>
  /\ content \in flight[1].todo
  /\ flight' = <<[flight[1] EXCEPT !.todo = @ \ {content}]>>
  /\ durable' = IF content \in cache THEN durable ELSE durable \cup {content}
  /\ cache' = cache \cup {content}
  /\ UNCHANGED <<phase, doc, stored, record, saved, writes>>

\* The write of the envelope, after the walk has put every blob.
Dispatch ==
  /\ flight # <<>>
  /\ flight[1].todo = {}
  /\ flight' = <<>>
  /\ stored' = flight[1].doc
  /\ saved' = flight[1].live
  /\ phase' = CASE flight[1].purpose = "step" -> "run"
                [] flight[1].purpose = "pause" -> "paused"
                [] flight[1].purpose = "decide" -> "decided"
  /\ doc' = IF flight[1].purpose = "pause" THEN Nothing ELSE doc
  /\ UNCHANGED <<durable, cache, record, writes>>

\* Mutant: the cache gets the blob before storage refuses it.
WriteRaisesCached ==
  /\ flight # <<>>
  /\ cache' = cache \cup flight[1].todo
  /\ flight' = <<>>
  /\ phase' = IF flight[1].purpose = "decide" THEN "dead" ELSE phase
  /\ UNCHANGED <<doc, stored, durable, record, saved, writes>>

\* The write of a blob or of the envelope raises.  A body may catch it and go on; out of
\* resume() it leaves a decided run that nobody executes.
WriteRaises ==
  /\ flight # <<>>
  /\ flight' = <<>>
  /\ phase' = IF flight[1].purpose = "decide" THEN "dead" ELSE phase
  /\ UNCHANGED <<doc, stored, durable, cache, record, saved, writes>>

\* Equal content_hash: the order of the entries is not part of it.
SameHash(a, b) == a[1] = b[1] /\ ToSet(a[2]) = ToSet(b[2])

\* EDIT, with a patch that applies to what storage holds (one that does not leaves the run
\* paused).  The entry is audited before the state is stored, if that has changed at all.
\* Bound: one decision.
Decide(patch) ==
  /\ phase = "paused"
  /\ sent = <<>>
  /\ sent' = <<patch>>
  /\ LET shown == Inline(stored)
         state == ApplyPatch(shown, RedactPatch(patch))
     IN /\ state # Failed
        /\ reviewed' = shown
        /\ decided' = Redact(state)
        /\ audit' = AuditedPatch(RedactPatch(patch))
        /\ IF SameHash(decided', shown)
             THEN phase' = "decided" /\ flight' = <<>>
             ELSE phase' = phase /\ flight' = Flight(decided', "decide")
  /\ cache' = cache \cup Blobs(stored)
  /\ UNCHANGED <<doc, stored, durable, saved, writes>>

\* The execution that the decision starts is seeded with what the reviewer was shown.
Reenter ==
  /\ phase = "decided"
  /\ phase' = "replay"
  /\ doc' = reviewed
  /\ UNCHANGED <<flight, stored, durable, cache, record, saved, writes>>

\* The gate applies the audited patch; one that fails is the end of the execution.
Gate ==
  /\ phase = "replay"
  /\ LET state == ApplyPatch(doc, audit)
     IN \/ /\ state # Failed
           /\ doc' = state
           /\ phase' = "run"
        \/ /\ state = Failed
           /\ doc' = Nothing
           /\ phase' = "dead"
  /\ UNCHANGED <<flight, stored, durable, cache, record, saved, writes>>

\* The process dies.  A run that is paused on record stays paused.
Crash ==
  /\ phase # "dead"
  /\ phase' = IF phase = "paused" /\ flight = <<>> THEN "paused" ELSE "dead"
  /\ doc' = Nothing
  /\ flight' = <<>>
  /\ cache' = {}
  /\ UNCHANGED <<stored, durable, record, saved, writes>>

\* A later execution opens with what storage holds, and replays up to a decided gate.
Reopen ==
  /\ phase = "dead"
  /\ phase' = IF sent = <<>> THEN "run" ELSE "replay"
  /\ doc' = IF stored = Nothing THEN EmptyDoc ELSE Inline(stored)
  /\ cache' = cache \cup (IF stored = Nothing THEN {} ELSE Blobs(stored))
  /\ UNCHANGED <<flight, stored, durable, record, saved, writes>>

Next ==
  \/ \E entry \in Entry : Write(entry[1], entry[2])
  \/ \E purpose \in {"step", "pause"} : Snapshot(purpose)
  \/ flight # <<>> /\ \E content \in flight[1].todo : PutBlob(content)
  \/ Dispatch
  \/ WriteRaises
  \/ \E patch \in Patch : Decide(patch)
  \/ Reenter
  \/ Gate
  \/ Crash
  \/ Reopen

Spec == Init /\ [][Next]_vars

-------------------------------------------------------------------------------

\* No credential is left in a text, with three exceptions that the code makes: a key that
\* needs boundaries and has none in the text as it was written, a random token in a text
\* above the limit of the scan, and one in a run that is taken for a path.
IsClean(text) ==
  \A i \in DOMAIN text :
    /\ Kind(text[i]) \notin {"openai", "pem"}
    /\ Kind(text[i]) = "aws" =>
         \E j \in {i - 1, i + 1} : WordAt(text, j) \/ (j \in DOMAIN text /\ Kind(text[j]) = "redacted")
    /\ Kind(text[i]) = "entropy" => Weight(text) > MaxScan \/ Holds(text, "slash")

\* What is under a sensitive key is a placeholder.
SecretsNamed(value) ==
  value[1] = "map" =>
    \A i \in DOMAIN value[2] :
      Holds(value[2][i][1], "sensitive") => IsRedacted(value[2][i][2])

\* So is a text that has become a blob.
IsCleanOrBlob(text) ==
  IsClean(text) \/ (text # <<>> /\ Kind(text[1]) = "blob" /\ IsClean(text[1][2]))

IsCleanValue(value) ==
  /\ \A text \in Leaves(value) \cup Keys(value) : IsCleanOrBlob(text)
  /\ SecretsNamed(value)
  /\ \A i \in DOMAIN Children(value) : SecretsNamed(Children(value)[i])

\* redact.py:1 to 5: storage never has a credential of the run's state, in an envelope, in
\* a blob (extraction comes after redaction) or in the audit log, where an operation has
\* the value under another key than the state has it.
StoredIsClean ==
  /\ stored # Nothing => IsCleanValue(stored)
  /\ \A content \in durable : IsClean(content)
  /\ \A i \in DOMAIN audit :
       /\ IsClean(audit[i][2])
       /\ audit[i][1] = "add" =>
            /\ IsCleanValue(audit[i][3])
            /\ Holds(PointerKey(audit[i][2]), "sensitive") => IsRedacted(audit[i][3])

\* blobs.py:39, "a blob is always at least as durable as any snapshot that references it":
\* whatever was written, refused or cached before, every reference in storage resolves for
\* a fresh process.
RefsResolve == stored # Nothing => Blobs(stored) \subseteq durable

\* What is read back from storage is the live document, redacted, and nothing else: a
\* string that looks like a reference or like an escape comes back as it was.
LoadRoundTrip == stored # Nothing => Inline(stored) = Redact(saved)

\* Redaction comes to rest after one pass, except for the two shapes of text where a
\* second pass finds more than the first: a credential that needs a boundary and gets it
\* from a placeholder, and the name of a kind in a placeholder within a longer key.
RestsText(text) == ~Holds(text, "aws")

AtRest(value) ==
  /\ \A text \in Leaves(value) \cup Keys(value) : RestsText(text)
  /\ \A key \in Keys(value) : ~IsSensitive(key) \/ Holds(key, "sensitive")

\* So does that of an operation.  What is added under a sensitive key is a placeholder.
RestsOp(op) ==
  /\ RestsText(RedactLeaf(op[2]))
  /\ op[1] = "copy" => RestsText(RedactLeaf(op[3]))
  /\ op[1] = "add" => IsSensitive(PointerKey(op[2])) \/ AtRest(Redact(op[3]))

\* resume.py:263, "state_hash_after described a document no replay could rebuild", which
\* must not happen: what was decided on is what the audited patch makes of the state that
\* was reviewed, and it is the document that storage has when the decision is done.
DecisionIsOneDocument ==
  /\ \A i \in DOMAIN sent :
       (\A op \in ToSet(sent[i]) : RestsOp(op)) =>
         LET rebuilt == ApplyPatch(reviewed, audit)
         IN rebuilt # Failed /\ SameHash(Redact(rebuilt), decided)
  /\ phase = "decided" /\ AtRest(decided) => SameHash(Inline(stored), decided)
===============================================================================
