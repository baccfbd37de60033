------------------------ MODULE MCTranslationClient ------------------------
(***************************************************************************)
(* Calls of translate_files over a three-leaf source: k1 and k2 under one *)
(* top-level key, k3 under another, k2 possibly a number; k4 is a leaf   *)
(* only an old translation has, under a top-level key the source dropped. *)
(* Chunks hold two leaves so a source of three needs a full and a partial *)
(* chunk; MAX_RETRIES keeps its value 3.                                  *)
(***************************************************************************)
EXTENDS TranslationClient

CONSTANTS k1, k2, k3, k4

MCKeys == {k1, k2, k3, k4}
MCTopOf == (k1 :> "t1") @@ (k2 :> "t1") @@ (k3 :> "t2") @@ (k4 :> "t3")

Sources ==
    {[read |-> "ok", valid |-> v, keys |-> {k1, k2, k3}, strKeys |-> s] :
        v \in BOOLEAN, s \in {{k1, k2, k3}, {k1, k3}}}

BrokenSources ==
    {[read |-> r, valid |-> TRUE, keys |-> {k1, k2, k3}, strKeys |-> {k1, k2, k3}] :
        r \in {"missing", "error"}}

\* Contents an existing target file can have.
ExistingContents ==
    {NoContent, [valid |-> FALSE, keys |-> {}]} \cup
    {[valid |-> TRUE, keys |-> ks] : ks \in {{}, {k1}, {k1, k2, k3}, {k1, k4}}}

TargetLists == {<< "zh" >>, << "zh", "ja" >>}

CallsWith(write) ==
    {[json |-> TRUE, incremental |-> TRUE, write |-> write, targets |-> ts,
      source |-> src, existing |-> ex] :
        ts \in TargetLists, src \in Sources, ex \in [{"zh", "ja"} -> ExistingContents]}
    \cup
    {[json |-> j, incremental |-> inc, write |-> write, targets |-> ts,
      source |-> src, existing |-> [l \in {"zh", "ja"} |-> NoContent]] :
        j \in BOOLEAN, inc \in BOOLEAN, ts \in TargetLists,
        src \in Sources \cup BrokenSources}

\* The calls the bootstraps can complete.  crater-website's update call
\* (bootstrap.py 240-248) sets write_to_existing_files but raises TypeError
\* before translate_files runs; only the demonstration __main__ of
\* translation_client.py (334-346) reaches write-back, and it is not
\* modelled.  Existing targets are readable or missing.
MCCalls == CallsWith(FALSE)

\* An unreadable target: it has no content the code could parse.
MCUnreadable == [valid |-> FALSE, keys |-> {}, unreadable |-> TRUE]

\* Incremental calls whose existing targets may also be unreadable.
MCCallsUnreadable ==
    {[json |-> TRUE, incremental |-> TRUE, write |-> FALSE, targets |-> ts,
      source |-> src, existing |-> ex] :
        ts \in TargetLists, src \in Sources,
        ex \in [{"zh", "ja"} -> {NoContent, MCUnreadable}]}

=============================================================================
