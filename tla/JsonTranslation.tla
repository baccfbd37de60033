--------------------------- MODULE JsonTranslation ---------------------------
(***************************************************************************)
(* The JSON branch of translate_files (translation_client.py 146-167) and  *)
(* _translate_json_chunks (208-282) at the level of values, for one target *)
(* catalogue translated again and again: a first run creates it, later    *)
(* runs update it incrementally and the bootstrap writes the result back   *)
(* (website/hack/i18n/bootstrap.py 169-173 and 194-221), and the developer *)
(* edits the source catalogue between runs.                                *)
(*                                                                         *)
(* Documents are ordered objects over character keys (JsonFlatten).  The   *)
(* model answers a chunk with every value translated by Translate and the  *)
(* keys unchanged, or not at all (None or invalid JSON: the chunk is       *)
(* dropped), or the call raises ConnectionError.                           *)
(***************************************************************************)
EXTENDS JsonFlatten, FiniteSets

CONSTANTS
    Sources,     \* source catalogues the developer may write
    StrLeaves,   \* leaves that are str or list (sent for translation)
    Translate,   \* leaf -> its translation
    ChunkSize,   \* chunk_size of _translate_json_chunks
    MaxRetries,  \* MAX_RETRIES
    MaxRuns,     \* bound on the number of runs
    NoFile,      \* the target catalogue does not exist yet
    Human        \* a translation fixed by hand in the target catalogue

Sep == <<".", ".", ".">>   \* seperator (line 217)

VARIABLES
    source, target,   \* the two catalogues on disk
    pc,               \* "idle", "plan", "chunks"
    attempt,          \* retry attempt of the current run
    items,            \* items_to_translate, in the order they are sent
    other,            \* other_items (line 224, updated at 233)
    pos,              \* items already sent
    results,          \* flat_translated_results
    answered,         \* every chunk of this attempt was answered
    calls,            \* model calls made in the current run
    runs,
    lastOutcome,      \* "none", "written", "skipped"
    settled,          \* target was written from the current source by an
                      \* attempt in which every chunk was answered
    startSettled,     \* settled when the current run started
    startTarget       \* target when the current run started

vars == <<source, target, pc, attempt, items, other, pos, results, answered,
          calls, runs, lastOutcome, settled, startSettled, startTarget>>

IsStr(v) == v \in StrLeaves

\* items_to_translate_all and other_items (lines 223-224), keeping the order.
StrItems(d) == SelectSeq(d, LAMBDA p : IsStr(p[2]))
OtherItems(d) == SelectSeq(d, LAMBDA p : ~IsStr(p[2]))

\* A value of the flat dict for each key of ks, in that order.
Pick(d, ks) == [i \in DOMAIN ks |-> <<ks[i], Get(d, ks[i])>>]

\* `if existing_target_data:` - a missing file or an empty object is falsy.
Incremental == target # NoFile /\ target # <<>>

\* Mutant: the top-level keys are taken from the existing catalogue, when
\* there is one, instead of from the source.
ReorderByTarget(nested) ==
    LET order == IF target \in {NoFile, <<>>} THEN source ELSE target
    IN  Pick(nested, SelectSeq([i \in DOMAIN order |-> order[i][1]],
                               LAMBDA k : HasKey(nested, k)))

\* Lines 157-164: keep the source's top-level keys, in the source's order.
Reorder(nested) ==
    Pick(nested, SelectSeq([i \in DOMAIN source |-> source[i][1]],
                           LAMBDA k : HasKey(nested, k)))

TypeOK ==
    /\ pc \in {"idle", "plan", "chunks"}
    /\ source \in Sources
    /\ attempt \in 1..MaxRetries
    /\ pos \in 0..Len(items)
    /\ answered \in BOOLEAN /\ settled \in BOOLEAN /\ startSettled \in BOOLEAN
    /\ runs \in 0..MaxRuns
    /\ lastOutcome \in {"none", "written", "skipped"}

Init ==
    /\ source \in Sources
    /\ target = NoFile
    /\ pc = "idle"
    /\ attempt = 1 /\ items = <<>> /\ other = <<>> /\ pos = 0 /\ results = <<>>
    /\ answered = TRUE /\ calls = 0 /\ runs = 0
    /\ lastOutcome = "none" /\ settled = FALSE /\ startSettled = FALSE
    /\ startTarget = NoFile

\* The developer edits the source catalogue between runs.
EditSource(s) ==
    /\ pc = "idle" /\ s # source
    /\ source' = s /\ settled' = FALSE
    /\ UNCHANGED <<target, pc, attempt, items, other, pos, results, answered,
                   calls, runs, lastOutcome, startSettled, startTarget>>

\* A translator fixes one translated string of the target by hand.
EditTarget(k) ==
    /\ pc = "idle" /\ target \notin {NoFile, TypeError}
    /\ LET flat == Flatten(target, Sep)
       IN /\ k \in Keys(StrItems(flat))
          /\ target' = Unflatten(Put(flat, k, Human), Sep)
    /\ UNCHANGED <<source, pc, attempt, items, other, pos, results, answered,
                   calls, runs, lastOutcome, settled, startSettled, startTarget>>

\* The bootstrap calls translate_files for this catalogue.
StartRun ==
    /\ pc = "idle" /\ runs < MaxRuns
    /\ pc' = "plan" /\ attempt' = 1 /\ calls' = 0 /\ runs' = runs + 1
    /\ startSettled' = settled /\ startTarget' = target
    /\ UNCHANGED <<source, target, items, other, pos, results, answered,
                   lastOutcome, settled>>

(***************************************************************************)
(* Lines 146-156 and 217-241: parse both catalogues, flatten them, and     *)
(* choose the items to send: every str/list leaf, or in incremental mode   *)
(* those whose key is missing from the target, in the iteration order of   *)
(* the set missing_keys, which is arbitrary.                               *)
(***************************************************************************)
\* Mutant: the existing translations are not merged into other_items.
CarriedNone(nonStr, flatTarget) == nonStr

\* Line 233: other_items.update(flat_target_data) keeps existing leaves.
Carried(nonStr, flatTarget) == PutAll(nonStr, flatTarget)

\* Mutant: every string leaf is sent again in incremental mode.
SendOrdersAll(all, missing) == {all}

\* Lines 230-231: the missing keys, in any iteration order of the set.
SendOrders(all, missing) == {Pick(all, order) : order \in SetToSeqs(missing)}

Plan ==
    /\ pc = "plan"
    /\ LET flatSource == Flatten(source, Sep)
           all == StrItems(flatSource)
           nonStr == OtherItems(flatSource)
           flatTarget == Flatten(target, Sep)
           missing == Keys(all) \ Keys(flatTarget)
       IN IF Incremental
          THEN /\ items' \in SendOrders(all, missing)
               /\ other' = Carried(nonStr, flatTarget)
          ELSE /\ items' = all
               /\ other' = nonStr
    /\ pc' = "chunks" /\ pos' = 0 /\ results' = <<>> /\ answered' = TRUE
    /\ UNCHANGED <<source, target, attempt, calls, runs, lastOutcome, settled,
                   startSettled, startTarget>>

\* Mutant: range(1, MAX_RETRIES + 2), one attempt too many.
MayRetryOffByOne == attempt <= MaxRetries

\* Line 197: another attempt remains while attempt < MAX_RETRIES.
MayRetry == attempt < MaxRetries

\* Lines 195-202: retry the language, or skip it after the last attempt.
RetryOrSkip ==
    IF MayRetry
    THEN pc' = "plan" /\ attempt' = attempt + 1 /\ UNCHANGED lastOutcome
    ELSE pc' = "idle" /\ lastOutcome' = "skipped" /\ UNCHANGED attempt

(***************************************************************************)
(* Lines 254-275: send the next chunk.  A valid answer is merged into      *)
(* flat_translated_results; None or invalid JSON drops the chunk; a        *)
(* ConnectionError escapes to the retry loop.                              *)
(***************************************************************************)
SendChunk(outcome) ==
    /\ pc = "chunks" /\ pos < Len(items)
    /\ LET n == IF Len(items) - pos < ChunkSize THEN Len(items) - pos ELSE ChunkSize
           chunk == SubSeq(items, pos + 1, pos + n)
       IN /\ calls' = calls + 1
          /\ CASE outcome = "ok" ->
                    /\ results' = PutAll(results, [i \in DOMAIN chunk |-> <<chunk[i][1], Translate[chunk[i][2]]>>])
                    /\ pos' = pos + n /\ UNCHANGED <<answered, pc, attempt, lastOutcome>>
               [] outcome = "dropped" ->
                    /\ pos' = pos + n /\ answered' = FALSE
                    /\ UNCHANGED <<results, pc, attempt, lastOutcome>>
               [] outcome = "raise" ->
                    /\ RetryOrSkip /\ UNCHANGED <<results, pos, answered>>
    /\ UNCHANGED <<source, target, items, other, runs, settled, startSettled, startTarget>>

(***************************************************************************)
(* Lines 277-282 and 157-167, then the bootstrap's write: merge, unflatten *)
(* (TypeError escapes to the retry loop), reorder the top-level keys, and  *)
(* write the catalogue.                                                    *)
(***************************************************************************)
Merge ==
    /\ pc = "chunks" /\ pos = Len(items)
    /\ LET nested == Unflatten(PutAll(other, results), Sep)
       IN IF nested = TypeError
          THEN RetryOrSkip /\ UNCHANGED <<target, settled>>
          ELSE /\ target' = Reorder(nested)
               /\ settled' = answered
               /\ pc' = "idle" /\ lastOutcome' = "written"
               /\ UNCHANGED attempt
    /\ UNCHANGED <<source, items, other, pos, results, answered, calls, runs,
                   startSettled, startTarget>>

Next ==
    \/ \E s \in Sources : EditSource(s)
    \/ \E k \in Keys(Flatten(source, Sep)) : EditTarget(k)
    \/ StartRun
    \/ Plan
    \/ \E outcome \in {"ok", "dropped", "raise"} : SendChunk(outcome)
    \/ Merge

Spec == Init /\ [][Next]_vars /\ WF_vars(Next)

(***************************************************************************)
(* The specification's idempotence claim: once a run has written the      *)
(* catalogue from the current source with every chunk answered, the next  *)
(* run makes no model call and writes the same content (hand-fixed        *)
(* translations included).                                                 *)
(***************************************************************************)
RerunIsIdempotent ==
    [][ (startSettled /\ pc # "idle" /\ pc' = "idle")
          => lastOutcome' = "written" /\ calls' = 0 /\ target' = startTarget ]_vars

(***************************************************************************)
(* Incremental mode carries existing translations through: an update that *)
(* writes the catalogue keeps every translated leaf, hand-fixed ones       *)
(* included, whose key the source still has as a string.                  *)
(***************************************************************************)
TranslationsKept ==
    [][ (Merge /\ lastOutcome' = "written" /\ Incremental) =>
          \A p \in Range(Flatten(target, Sep)) :
              p[1] \in Keys(StrItems(Flatten(source, Sep)))
                  => p \in Range(Flatten(target', Sep)) ]_vars

(***************************************************************************)
(* Spec section 4.6: a chunk answered with None or invalid JSON is        *)
(* dropped (lines 265-273) and the catalogue is still written without its *)
(* leaves.  The next incremental run sends exactly the missing leaves, so *)
(* once a run has written the catalogue with every chunk answered, every  *)
(* leaf of the current source is in it, whatever earlier runs dropped,     *)
(* the source edits in between, and the top-level reordering.             *)
(***************************************************************************)
CompleteRunFillsCatalogue ==
    (pc = "idle" /\ settled) =>
        Keys(Flatten(source, Sep)) \subseteq Keys(Flatten(target, Sep))

(***************************************************************************)
(* Spec sections 1 and 2: the tool incrementally updates stale variants.   *)
(* Once a run has written the catalogue from the current source with every *)
(* chunk answered, each string leaf the source still has holds the        *)
(* translation of the source's current text, or a translator's fix.        *)
(***************************************************************************)
TranslationsCurrent ==
    (pc = "idle" /\ settled) =>
        LET flatSource == Flatten(source, Sep)
        IN \A p \in Range(Flatten(target, Sep)) :
              p[1] \in Keys(StrItems(flatSource))
                  => p[2] \in {Translate[Get(flatSource, p[1])], Human}

=============================================================================
