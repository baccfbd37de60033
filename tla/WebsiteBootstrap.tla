-------------------------- MODULE WebsiteBootstrap --------------------------
(***************************************************************************)
(* main(update_existing) of website/hack/i18n/bootstrap.py, run again and  *)
(* again on one content tree: scan the tree into document families, pick  *)
(* a source per family (the default variant, else the first one found),   *)
(* and either create the missing locale variants (create mode) or         *)
(* translate the existing ones again (update mode) through translate_files.*)
(* A developer may add content files between runs, and a run may be      *)
(* terminated from outside at any point (spec section 5), also while a    *)
(* file is being written: open(path, 'w') has truncated it and the        *)
(* buffered content is lost, so the file is left torn (empty or cut off). *)
(*                                                                         *)
(* translate_files is abstracted to the subset of the requested locales    *)
(* it returns: a locale is absent when its retries are exhausted.  Paths  *)
(* and family keys are those of FileNames.                                 *)
(***************************************************************************)
EXTENDS FileNames, FiniteSets, SequencesExt

CONSTANTS
    ScanRoots,     \* SCAN_DIRECTORIES: content/docs and messages
    Universe,      \* paths a developer may add
    InitialTrees,  \* content trees the first run may start from
    Modes,         \* values main() may be called with for update_existing
    SupportedLocales, \* the locales of config.ts in declaration order
    MaxRuns,       \* bound on the number of runs
    MaxKills,      \* bound on the number of runs terminated from outside
    NoFamily       \* no family is being processed

VARIABLES
    pc,           \* "idle" between runs, "scan", "families", "translate",
                  \* "write"
    tree,         \* the set of paths on disk
    update,       \* update_existing of the current or last run
    docFamilies,  \* doc_families: prefix -> (lang -> path)
    pending,      \* families of the step-2 loop not yet visited
    cur,          \* the family being processed and its plan
    toWrite,      \* returned locales not written yet, in write order
    torn,         \* paths left torn by a run killed while writing them
    runs,         \* runs started
    kills,        \* runs terminated from outside
    clean,        \* every locale requested in this run was returned
    prevClean     \* the last run was a create run with clean = TRUE, and
                  \* the tree has not been edited since

vars == <<pc, tree, update, docFamilies, pending, cur, toWrite, torn, runs, kills, clean, prevClean>>

UnderRoot(path) == \E r \in ScanRoots : IsPrefix(r, path) /\ Len(path) > Len(r)

\* Files os.walk visits and the extension filter of line 116 keeps.
Scannable(t) == {p \in t : UnderRoot(p) /\ IsContentFile(p)}

Prefix(p) == GetPathPrefixAndLang(p)[1]
Lang(p)   == GetPathPrefixAndLang(p)[2]

TypeOK ==
    /\ pc \in {"idle", "scan", "families", "translate", "write"}
    /\ toWrite \in Seq(Locales) /\ torn \subseteq tree
    /\ update \in BOOLEAN /\ clean \in BOOLEAN /\ prevClean \in BOOLEAN
    /\ pending \subseteq DOMAIN docFamilies
    /\ runs \in 0..MaxRuns /\ kills \in 0..MaxKills
    /\ cur # NoFamily =>
          /\ cur.prefix \in DOMAIN docFamilies
          /\ cur.src \in DOMAIN docFamilies[cur.prefix]
          /\ cur.targets \subseteq Locales \ {cur.src}

Init ==
    /\ pc = "idle"
    /\ tree \in InitialTrees
    /\ update \in Modes
    /\ docFamilies = << >> /\ pending = {} /\ cur = NoFamily
    /\ toWrite = << >> /\ torn = {}
    /\ runs = 0 /\ kills = 0 /\ clean = TRUE /\ prevClean = FALSE

\* A developer adds a content file between runs.
AddFile(p) ==
    /\ pc = "idle" /\ p \notin tree
    /\ tree' = tree \cup {p}
    /\ prevClean' = FALSE
    /\ UNCHANGED <<pc, update, docFamilies, pending, cur, toWrite, torn, runs, kills, clean>>

\* __main__ calls main(update_existing=UPDATE_MODE).
StartRun(mode) ==
    /\ pc = "idle" /\ runs < MaxRuns
    /\ pc' = "scan" /\ update' = mode /\ runs' = runs + 1 /\ clean' = TRUE
    /\ UNCHANGED <<tree, docFamilies, pending, cur, toWrite, torn, kills, prevClean>>

(***************************************************************************)
(* Step 1 (lines 109-127): every scanned file is filed under its prefix   *)
(* and language; two files with the same prefix and language overwrite   *)
(* each other in walk order, so the survivor is any one of them.          *)
(***************************************************************************)
Scan ==
    /\ pc = "scan"
    /\ LET files == Scannable(tree)
       IN  \E survivors \in SUBSET files :
             /\ \A p \in files : \E q \in survivors :
                    GetPathPrefixAndLang(q) = GetPathPrefixAndLang(p)
             /\ \A p, q \in survivors :
                    GetPathPrefixAndLang(p) = GetPathPrefixAndLang(q) => p = q
             /\ docFamilies' =
                  [k \in {Prefix(p) : p \in files} |->
                     [l \in {Lang(p) : p \in {q \in survivors : Prefix(q) = k}} |->
                        CHOOSE p \in survivors : GetPathPrefixAndLang(p) = <<k, l>>]]
    /\ pending' = DOMAIN docFamilies'
    /\ pc' = "families"
    /\ UNCHANGED <<tree, update, cur, toWrite, torn, runs, kills, clean, prevClean>>

(***************************************************************************)
(* Lines 135-149 and 177: the default variant is the source, else the     *)
(* first variant in dict order (walk order: any of them).  Update mode    *)
(* targets the other existing variants, create mode the missing locales.  *)
(***************************************************************************)
\* Mutant: update mode also targets the source's own locale.
UpdateTargetsWithSource(fm, src) == {l \in Locales : l \in DOMAIN fm}

UpdateTargets(fm, src) == {l \in Locales : l \in DOMAIN fm /\ l # src}

PlanFamily(k) ==
    /\ pc = "families" /\ k \in pending
    /\ LET fm == docFamilies[k]
       IN \E src \in IF Default \in DOMAIN fm THEN {Default} ELSE DOMAIN fm :
            cur' = [prefix  |-> k,
                    src     |-> src,
                    srcPath |-> fm[src],
                    targets |-> IF update THEN UpdateTargets(fm, src)
                                ELSE {l \in Locales : l \notin DOMAIN fm}]
    /\ pending' = pending \ {k}
    /\ pc' = "translate"
    /\ UNCHANGED <<tree, update, docFamilies, toWrite, torn, runs, kills, clean, prevClean>>

\* Lines 150-152 and 178-180: nothing to translate, `continue`.
SkipFamily ==
    /\ pc = "translate" /\ cur.targets = {}
    /\ pc' = "families" /\ cur' = NoFamily
    /\ UNCHANGED <<tree, update, docFamilies, pending, toWrite, torn, runs, kills, clean, prevClean>>

(***************************************************************************)
(* Lines 158-164 (update) and 185-191 (create): one translate_files call, *)
(* which returns any subset of the requested locales, in the order of     *)
(* target_langs, itself the order of supported_locales (lines 147, 177).  *)
(***************************************************************************)
Translate ==
    /\ pc = "translate" /\ cur.targets # {}
    /\ \E ok \in SUBSET cur.targets :
         /\ toWrite' = SelectSeq(SupportedLocales, LAMBDA l : l \in ok)
         /\ clean' = (clean /\ ok = cur.targets)
    /\ pc' = "write"
    /\ UNCHANGED <<tree, update, docFamilies, pending, cur, torn, runs, kills, prevClean>>

\* The file a returned locale is written to: files_map[lang] in update mode
\* (line 168), the creation path in create mode (lines 196-214).
TargetPath(l) ==
    IF update THEN docFamilies[cur.prefix][l]
    ELSE CreationTargetPath(cur.prefix, l, cur.srcPath)

(***************************************************************************)
(* Lines 166-171 and 193-221: write one returned locale, making parent    *)
(* directories and overwriting whatever is there, which repairs a torn    *)
(* file at that path.                                                      *)
(***************************************************************************)
WriteFile ==
    /\ pc = "write" /\ toWrite # << >>
    /\ tree' = tree \cup {TargetPath(Head(toWrite))}
    /\ torn' = torn \ {TargetPath(Head(toWrite))}
    /\ toWrite' = Tail(toWrite)
    /\ UNCHANGED <<pc, update, docFamilies, pending, cur, runs, kills, clean, prevClean>>

EndWrites ==
    /\ pc = "write" /\ toWrite = << >>
    /\ pc' = "families" /\ cur' = NoFamily
    /\ UNCHANGED <<tree, update, docFamilies, pending, toWrite, torn, runs, kills, clean, prevClean>>

(***************************************************************************)
(* The run is terminated from outside (spec section 5); what it held in  *)
(* memory is gone.  Killed while writing a locale, the file at its path  *)
(* exists but is torn.  A kill in "scan" or "translate" leaves the same   *)
(* disk as one in the "families" step before or after it.                 *)
(***************************************************************************)
Kill ==
    /\ pc \in {"families", "write"} /\ kills < MaxKills
    /\ \/ UNCHANGED <<tree, torn>>
       \/ /\ pc = "write" /\ toWrite # << >>
          /\ tree' = tree \cup {TargetPath(Head(toWrite))}
          /\ torn' = torn \cup {TargetPath(Head(toWrite))}
    /\ pc' = "idle" /\ cur' = NoFamily /\ pending' = {} /\ toWrite' = << >>
    /\ docFamilies' = << >> /\ clean' = TRUE
    /\ prevClean' = FALSE /\ kills' = kills + 1
    /\ UNCHANGED <<update, runs>>

EndRun ==
    /\ pc = "families" /\ pending = {}
    /\ pc' = "idle"
    /\ prevClean' = (~update /\ clean)
    /\ docFamilies' = << >>    \* main() returns: its locals are gone
    /\ UNCHANGED <<tree, update, pending, cur, toWrite, torn, runs, kills, clean>>

Next ==
    \/ \E p \in Universe : AddFile(p)
    \/ \E mode \in Modes : StartRun(mode)
    \/ Scan
    \/ \E k \in DOMAIN docFamilies : PlanFamily(k)
    \/ SkipFamily
    \/ Translate
    \/ WriteFile
    \/ EndWrites
    \/ Kill
    \/ EndRun

Spec == Init /\ [][Next]_vars /\ WF_vars(Next)

(***************************************************************************)
(* Re-running on unchanged input re-creates nothing (spec section 5): a    *)
(* create run that follows a create run in which every requested locale   *)
(* was returned, with no edit in between, finds no missing locale in any  *)
(* family, because every file the first run created is filed back under   *)
(* the family and locale it was created for.                               *)
(***************************************************************************)
CreateRunsConverge ==
    (pc = "translate" /\ ~update /\ prevClean) => cur.targets = {}

(***************************************************************************)
(* Re-running after an external termination is safe (spec section 5): a   *)
(* create run in which every requested locale was returned leaves no file  *)
(* torn by an earlier killed run.  Create mode targets only the locales   *)
(* that have no file (line 177), and a torn file is one.                   *)
(***************************************************************************)
KilledRunsRepaired ==
    (pc = "idle" /\ prevClean) => torn = {}

=============================================================================
