-------------------------- MODULE TranslationClient --------------------------
(***************************************************************************)
(* translate_files of crater-website/hack/i18n/translation_client.py: one *)
(* call, translating one source file into each target language in turn.  *)
(* A target gets up to MaxRetries attempts.  A JSON source is flattened,  *)
(* its string leaves (minus those an existing translation already has)   *)
(* are sent in chunks of ChunkSize, and the answers are merged with the   *)
(* existing translation; a text source is sent whole and the answer must *)
(* start with a front-matter block holding a title.                      *)
(*                                                                         *)
(* Data abstraction.  A JSON document is its set of flattened leaf keys;  *)
(* TopOf gives each leaf's top-level key.  A result records, per leaf,   *)
(* where its value came from: "fresh" (this run's model answer), "kept"  *)
(* (the existing translation) or "copied" (a non-string source leaf).    *)
(* Each model call answers with one of a few outcomes chosen by \E.      *)
(***************************************************************************)
EXTENDS Naturals, FiniteSets, Sequences, SequencesExt

CONSTANTS
    Keys,        \* flattened leaf keys
    TopOf,       \* leaf key -> its top-level key
    MaxRetries,  \* MAX_RETRIES
    ChunkSize,   \* chunk_size of _translate_json_chunks
    Calls,       \* the argument tuples translate_files may receive
    NoContent,   \* a target file that is missing or empty (falsy content)
    Unreadable   \* an existing target whose read raises other than
                 \* FileNotFoundError (PermissionError, UnicodeDecodeError)

ASSUME MaxRetries \in Nat \ {0} /\ ChunkSize \in Nat \ {0}

VARIABLES
    call,       \* the arguments of this call
    pc,         \* position in translate_files
    i,          \* index of the current target language
    target,     \* existing_target_content of the current language
    attempt,    \* the retry loop's attempt number
    items,      \* the leaves to translate, in iteration order
    pos,        \* loop index into items
    chunk,      \* the chunk being filled
    sent,       \* chunks sent to the model in this attempt
    received,   \* leaves the model answered in this attempt
    results,    \* final_results: lang -> translated document
    written,    \* target files overwritten (write_to_existing_files)
    skipped,    \* languages given up after MaxRetries failed attempts
    llmCalls    \* number of _call_llm_api calls made

vars == <<call, pc, i, target, attempt, items, pos, chunk, sent, received,
          results, written, skipped, llmCalls>>

Lang == call.targets[i]
SourceTops == {TopOf[k] : k \in call.source.keys}

\* existing_target_data is truthy: a parsed, non-empty mapping.
HasExisting == target # NoContent /\ target.keys # {}

\* Mutant: the existing translation is ignored when choosing what to send.
ItemsToTranslateAll == call.source.strKeys

\* _translate_json_chunks lines 223-236: string leaves, minus those the
\* existing translation already holds.
ItemsToTranslate ==
    IF HasExisting THEN call.source.strKeys \ target.keys
                   ELSE call.source.strKeys

(***************************************************************************)
(* _translate_json_chunks lines 277-280 and translate_files lines 157-164: *)
(* other_items (non-string source leaves) updated by the existing          *)
(* translation, then by this run's answers; only leaves under a top-level  *)
(* key of the source survive the reordering.                              *)
(***************************************************************************)
\* Mutant: the top-level keys are not filtered by the source's, so a leaf
\* of a top-level key the source dropped survives.
ReorderedNoFilter(ks) == ks

\* translate_files lines 157-164: only the top-level keys of the source are
\* copied, in its order, into final_ordered_json.
Reordered(ks) == {k \in ks : TopOf[k] \in SourceTops}

MergedJson ==
    LET others == (call.source.keys \ call.source.strKeys)
                    \cup (IF HasExisting THEN target.keys ELSE {})
        final  == Reordered(others \cup received)
    IN  [k \in final |-> IF k \in received THEN "fresh"
                         ELSE IF HasExisting /\ k \in target.keys THEN "kept"
                         ELSE "copied"]

TypeOK ==
    /\ pc \in {"read", "locale", "attempt", "chunks", "text", "store",
               "failed", "returned", "returned_none", "raised"}
    /\ i \in 1..(Len(call.targets) + 1)
    /\ attempt \in 1..MaxRetries
    /\ pos \in 1..(Len(items) + 1)
    /\ chunk \subseteq Keys /\ received \subseteq Keys
    /\ \A l \in DOMAIN results :
          /\ DOMAIN results[l] \subseteq Keys
          /\ \A k \in DOMAIN results[l] : results[l][k] \in {"fresh", "kept", "copied"}
    /\ written \subseteq DOMAIN results
    /\ llmCalls \in Nat

Init ==
    /\ call \in Calls
    /\ pc = "read"
    /\ i = 1
    /\ target = NoContent
    /\ attempt = 1
    /\ items = << >>
    /\ pos = 1
    /\ chunk = {}
    /\ sent = << >>
    /\ received = {}
    /\ results = << >>
    /\ written = {}
    /\ skipped = {}
    /\ llmCalls = 0

\* Lines 114-125: a missing source returns None, any other read error {}.
ReadSource ==
    /\ pc = "read"
    /\ pc' = CASE call.source.read = "ok"      -> "locale"
               [] call.source.read = "missing" -> "returned_none"
               [] OTHER                        -> "returned"
    /\ UNCHANGED <<call, i, target, attempt, items, pos, chunk, sent, received,
                   results, written, skipped, llmCalls>>

\* Lines 129-142: the next target; in incremental mode its existing file is
\* read, a missing one giving None.  Only FileNotFoundError is caught, so
\* any other read error raises out of translate_files.
StartLocale ==
    /\ pc = "locale"
    /\ i <= Len(call.targets)
    /\ target' = IF call.incremental THEN call.existing[call.targets[i]]
                                     ELSE NoContent
    /\ attempt' = 1
    /\ pc' = IF target' = Unreadable THEN "raised" ELSE "attempt"
    /\ UNCHANGED <<call, i, items, pos, chunk, sent, received, results,
                   written, skipped, llmCalls>>

ReturnResults ==
    /\ pc = "locale"
    /\ i > Len(call.targets)
    /\ pc' = "returned"
    /\ UNCHANGED <<call, i, target, attempt, items, pos, chunk, sent, received,
                   results, written, skipped, llmCalls>>

(***************************************************************************)
(* Lines 145-156 and 219-241: the JSON branch parses the source and the   *)
(* existing translation (an invalid one raises) and lists the leaves to   *)
(* send; the text branch goes straight to the model.                      *)
(***************************************************************************)
BeginAttempt ==
    /\ pc = "attempt"
    /\ IF ~call.json
         THEN /\ pc' = "text"
              /\ UNCHANGED <<items, pos, chunk, sent, received>>
         ELSE IF ~call.source.valid \/ (target # NoContent /\ ~target.valid)
         THEN /\ pc' = "failed"
              /\ UNCHANGED <<items, pos, chunk, sent, received>>
         ELSE /\ items' = SetToSeq(ItemsToTranslate)
              /\ pos' = 1
              /\ chunk' = {}
              /\ sent' = << >>
              /\ received' = {}
              /\ pc' = "chunks"
    /\ UNCHANGED <<call, i, target, attempt, results, written, skipped, llmCalls>>

(***************************************************************************)
(* _call_llm_api (lines 47-87), for what its callers tell apart.  The     *)
(* exchange fails to connect (ConnectionError is re-raised), fails in     *)
(* another way (an HTTP error status, a body without                      *)
(* choices[0].message.content, any other exception: printed, None), or    *)
(* returns the message content.  The content is a reasoning block or not, *)
(* then a body; everything up to "</think>" is cut off and the rest       *)
(* stripped, so a reasoning block with nothing after it gives "".          *)
(***************************************************************************)
Exchanges == {"ok", "connection_error", "http_error", "bad_body", "other_error"}

Contents(bodies) == [think : BOOLEAN, body : bodies]

CallLlmApi(exchange, content) ==
    CASE exchange = "connection_error" -> "raise"
      [] exchange = "ok"               -> content.body
      [] OTHER                         -> "none"

\* Bodies of a chunk answer: a JSON object with the chunk's keys, text that
\* is not JSON (prose, a fenced block), JSON that is not an object, nothing.
ChunkBodies == {"object", "not_json", "array", ""}

\* Bodies of a text answer: a document opening with a ---/title:/--- front
\* matter (one that is only the front matter ends in "---" once stripped,
\* and lines 177-178 give it back its newline), prose, nothing.
TextBodies == {"front_matter", "prose", ""}

\* _translate_plain_text (lines 285-325): the prompt depends on whether an
\* old translation exists; the reply, None turned into "", is returned.
PlainText(reply) == IF reply = "none" THEN "" ELSE reply

\* Lines 176-184: the front-matter pattern must match the start.
HasFrontMatter(text) == text = "front_matter"

(***************************************************************************)
(* Lines 254-275, one loop iteration: the item joins the chunk, and the   *)
(* chunk is sent when it is full or the item is the last one.  A None, "" *)
(* or unparsable answer drops the chunk; a connection error, or JSON that *)
(* is not an object (dict.update raises), ends the attempt.               *)
(***************************************************************************)
\* Mutant: a chunk is sent only when full, so a last partial chunk never is.
FlushDueFullOnly(c) == Cardinality(c) >= ChunkSize

FlushDue(c) == Cardinality(c) >= ChunkSize \/ pos = Len(items)

AddToChunk ==
    /\ pc = "chunks"
    /\ pos <= Len(items)
    /\ ~FlushDue(chunk \cup {items[pos]})
    /\ chunk' = chunk \cup {items[pos]}
    /\ pos' = pos + 1
    /\ UNCHANGED <<call, pc, i, target, attempt, items, sent, received,
                   results, written, skipped, llmCalls>>

SendChunk ==
    /\ pc = "chunks"
    /\ pos <= Len(items)
    /\ LET full == chunk \cup {items[pos]} IN
       /\ FlushDue(full)
       /\ sent' = Append(sent, full)
       /\ llmCalls' = llmCalls + 1
       /\ \E ex \in Exchanges, c \in Contents(ChunkBodies) :
            LET reply == CallLlmApi(ex, c) IN
            CASE reply = "object" ->
                   /\ received' = received \cup full
                   /\ chunk' = {} /\ pos' = pos + 1 /\ UNCHANGED pc
              [] reply \in {"none", "", "not_json"} ->
                   /\ chunk' = {} /\ pos' = pos + 1
                   /\ UNCHANGED <<pc, received>>
              [] reply \in {"raise", "array"} ->
                   /\ pc' = "failed"
                   /\ UNCHANGED <<chunk, pos, received>>
    /\ UNCHANGED <<call, i, target, attempt, items, results, written, skipped>>

\* Lines 157-167: the merged, reordered document becomes the result.
MergeJson ==
    /\ pc = "chunks"
    /\ pos > Len(items)
    /\ results' = [l \in DOMAIN results \cup {Lang} |->
                     IF l = Lang THEN MergedJson ELSE results[l]]
    /\ pc' = "store"
    /\ UNCHANGED <<call, i, target, attempt, items, pos, chunk, sent, received,
                   written, skipped, llmCalls>>

(***************************************************************************)
(* Lines 170-186 and 285-325: one model call; an empty or prose answer    *)
(* fails the front-matter check and raises, as does a connection error.  *)
(***************************************************************************)
TranslateText ==
    /\ pc = "text"
    /\ llmCalls' = llmCalls + 1
    /\ \E ex \in Exchanges, c \in Contents(TextBodies) :
         LET reply == CallLlmApi(ex, c) IN
         IF reply # "raise" /\ HasFrontMatter(PlainText(reply))
         THEN /\ results' = [l \in DOMAIN results \cup {Lang} |->
                               IF l = Lang THEN [k \in {} |-> "fresh"] ELSE results[l]]
              /\ pc' = "store"
         ELSE /\ pc' = "failed"
              /\ UNCHANGED results
    /\ UNCHANGED <<call, i, target, attempt, items, pos, chunk, sent, received,
                   written, skipped>>

(***************************************************************************)
(* Lines 188-194: in incremental write mode the result is written over   *)
(* the target file (a failing write raises); then the loop breaks.       *)
(***************************************************************************)
StoreResult ==
    /\ pc = "store"
    /\ IF call.incremental /\ call.write
         THEN \/ /\ written' = written \cup {Lang}
                 /\ i' = i + 1 /\ pc' = "locale"
              \/ /\ pc' = "failed"
                 /\ UNCHANGED <<i, written>>
         ELSE /\ i' = i + 1 /\ pc' = "locale"
              /\ UNCHANGED written
    /\ UNCHANGED <<call, target, attempt, items, pos, chunk, sent, received,
                   results, skipped, llmCalls>>

\* Mutant: range(1, MAX_RETRIES + 2), one attempt too many.
MayRetryOffByOne == attempt <= MaxRetries

\* Line 197: another attempt remains while attempt < MAX_RETRIES.
MayRetry == attempt < MaxRetries

\* Line 144: the next iteration of range(1, MAX_RETRIES + 1).
NextAttempt == attempt + 1

\* Lines 195-202: another attempt after a pause, or the language is skipped.
RetryOrSkip ==
    /\ pc = "failed"
    /\ \/ /\ MayRetry
          /\ attempt' = NextAttempt
          /\ pc' = "attempt"
          /\ UNCHANGED <<i, skipped>>
       \/ /\ ~MayRetry
          /\ skipped' = skipped \cup {Lang}
          /\ i' = i + 1
          /\ pc' = "locale"
          /\ UNCHANGED attempt
    /\ UNCHANGED <<call, target, items, pos, chunk, sent, received, results,
                   written, llmCalls>>

Next ==
    \/ ReadSource
    \/ StartLocale
    \/ ReturnResults
    \/ BeginAttempt
    \/ AddToChunk
    \/ SendChunk
    \/ MergeJson
    \/ TranslateText
    \/ StoreResult
    \/ RetryOrSkip

\* One thread; every model call returns or raises within its 720 s timeout.
Spec == Init /\ [][Next]_vars /\ WF_vars(Next)

(***************************************************************************)
(* Properties                                                              *)
(***************************************************************************)

\* Spec section 4.6: when the chunk loop of _translate_json_chunks (lines
\* 254-275) has run to the end, every leaf to translate went to the model in
\* exactly one chunk, and no chunk was empty or larger than ChunkSize.
ChunksCoverItems ==
    (pc = "chunks" /\ pos > Len(items)) =>
        /\ chunk = {}
        /\ UNION {sent[j] : j \in 1..Len(sent)} = {items[j] : j \in 1..Len(items)}
        /\ \A j \in 1..Len(sent) :
              sent[j] # {} /\ Cardinality(sent[j]) <= ChunkSize
        /\ \A j1, j2 \in 1..Len(sent) : j1 # j2 => sent[j1] \cap sent[j2] = {}

\* Spec section 4.6 (incremental mode): a leaf an existing, non-empty
\* translation already holds is never sent to the model again, and a
\* language's result carries every such leaf under a top-level key of the
\* source unchanged (ItemsToTranslate and MergedJson).
IncrementalKeepsTranslations ==
    /\ (pc = "chunks" /\ HasExisting) =>
          \A j \in 1..Len(sent) : sent[j] \cap target.keys = {}
    /\ \A l \in DOMAIN results :
          LET old == call.existing[l] IN
          (call.json /\ call.incremental /\ old # NoContent /\ old.keys # {}) =>
             \A k \in old.keys : TopOf[k] \in SourceTops => results[l][k] = "kept"

(***************************************************************************)
(* Refinement: translate_files implements TranslateFiles.  A language     *)
(* counts as dealt with once the loop has moved past it (i); only the     *)
(* results of those languages are visible, since MergeJson stores a       *)
(* result one step before StoreResult moves on.                           *)
(***************************************************************************)
Finished == {call.targets[j] : j \in 1..(i - 1)}

AbsResults == [l \in DOMAIN results \cap Finished |-> results[l]]

AbsStatus == IF pc \in {"returned", "returned_none", "raised"} THEN pc ELSE "running"

Abstract == INSTANCE TranslateFiles
    WITH done <- i - 1, results <- AbsResults, status <- AbsStatus

\* Spec sections 4.6, 4.8 and 7 as a whole: every behaviour of
\* translate_files (retries, chunking, merging, reordering) is one of
\* TranslateFiles, so each language ends translated with an allowed
\* document or skipped, and, by the abstract fairness, the call returns
\* (retries are bounded and each language is visited once).  A call that
\* raises ("raised") is no behaviour of TranslateFiles.
ImplementsTranslateFiles == Abstract!Spec

=============================================================================
