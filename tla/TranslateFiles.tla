---------------------------- MODULE TranslateFiles ----------------------------
(***************************************************************************)
(* What translate_files (translation_client.py) promises its callers,      *)
(* spec sections 4.6 and 4.8, with retries, chunks and model calls hidden: *)
(* a missing source gives None and an unreadable one {}; otherwise each    *)
(* target language, in order, is either translated or skipped, and the    *)
(* call returns.  A translated JSON document holds, per leaf, where its    *)
(* value came from (as in TranslationClient): every leaf of the existing   *)
(* translation under a top-level key of the source is kept, every          *)
(* non-string source leaf it lacks is copied, and any of the string leaves *)
(* it lacks may come back fresh (a dropped chunk leaves them out).  A      *)
(* translated text document carries no leaves.                             *)
(***************************************************************************)
EXTENDS Naturals, Sequences

CONSTANTS Keys, TopOf, Calls, NoContent

VARIABLES
    call,     \* the arguments of the call
    done,     \* how many target languages have been dealt with
    results,  \* lang -> translated document
    skipped,  \* languages given up
    status    \* "running", "returned" or "returned_none"

absVars == <<call, done, results, skipped, status>>

Lang == call.targets[done + 1]
SourceTops == {TopOf[k] : k \in call.source.keys}

\* The existing translation the call takes into account for language l.
Existing(l) == IF call.incremental THEN call.existing[l] ELSE NoContent

\* Leaves of a usable, non-empty existing translation.
OldKeys(l) ==
    IF Existing(l) # NoContent /\ Existing(l).keys # {} THEN Existing(l).keys ELSE {}

\* A JSON target can only be translated from parsable documents.
Translatable(l) ==
    call.json => call.source.valid /\ (Existing(l) = NoContent \/ Existing(l).valid)

\* The documents a successful translation of language l may produce.
Allowed(l) ==
    IF ~call.json THEN {[k \in {} |-> "fresh"]}
    ELSE LET old     == OldKeys(l)
             kept    == {k \in old : TopOf[k] \in SourceTops}
             copied  == (call.source.keys \ call.source.strKeys) \ old
             missing == call.source.strKeys \ old
         IN { [k \in kept \cup copied \cup fresh |->
                  IF k \in fresh THEN "fresh" ELSE IF k \in kept THEN "kept" ELSE "copied"] :
                fresh \in SUBSET missing }

Init ==
    /\ call \in Calls
    /\ done = 0 /\ results = << >> /\ skipped = {} /\ status = "running"

ReturnNone ==
    /\ status = "running" /\ done = 0 /\ call.source.read = "missing"
    /\ status' = "returned_none"
    /\ UNCHANGED <<call, done, results, skipped>>

ReadError ==
    /\ status = "running" /\ done = 0 /\ call.source.read = "error"
    /\ status' = "returned"
    /\ UNCHANGED <<call, done, results, skipped>>

Translate ==
    /\ status = "running" /\ call.source.read = "ok"
    /\ done < Len(call.targets) /\ Translatable(Lang)
    /\ \E d \in Allowed(Lang) :
          results' = [l \in DOMAIN results \cup {Lang} |-> IF l = Lang THEN d ELSE results[l]]
    /\ done' = done + 1
    /\ UNCHANGED <<call, skipped, status>>

Skip ==
    /\ status = "running" /\ call.source.read = "ok"
    /\ done < Len(call.targets)
    /\ skipped' = skipped \cup {Lang}
    /\ done' = done + 1
    /\ UNCHANGED <<call, results, status>>

Return ==
    /\ status = "running" /\ call.source.read = "ok"
    /\ done = Len(call.targets)
    /\ status' = "returned"
    /\ UNCHANGED <<call, done, results, skipped>>

Next == ReturnNone \/ ReadError \/ Translate \/ Skip \/ Return

Spec == Init /\ [][Next]_absVars /\ WF_absVars(Next)

=============================================================================
