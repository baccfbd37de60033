----------------------------- MODULE Bootstrap -----------------------------
(***************************************************************************)
(* main() of crater-website/hack/i18n/bootstrap.py: scan the content tree *)
(* into document families, filter them by the --changed-files argument   *)
(* and its cached diffs, pick a source of truth per family, then create  *)
(* the missing locale variants and update the existing ones through      *)
(* translation_client.translate_files.                                    *)
(*                                                                         *)
(* The script is single-threaded; each action is one step of main() in   *)
(* program order.  translate_files is abstracted to what its caller can   *)
(* observe: the subset of requested locales it returns (a locale is      *)
(* absent after its retries are exhausted).                               *)
(***************************************************************************)
EXTENDS FileNames, FiniteSets

CONSTANTS
    ScanRoots,      \* SCAN_DIRECTORIES, as paths
    Universe,       \* the paths that may exist in the content tree
    InitialTrees,   \* the content trees a run may start from
    ChangeArgs,     \* values of --changed-files: NoArg or path -> diff
    NoArg,          \* --changed-files absent (or "")
    NoDiff,         \* no cached .diff file for a changed path (a new file)
    NoFamily        \* no family is being processed

(***************************************************************************)
(* A cached diff is a sequence of lines.  is_meaningful_diff looks only   *)
(* at a line's first character and whether the rest is blank after      *)
(* strip(), so a line is abstracted to its kind in the unified diff and  *)
(* whether its content is blank.  Header lines ("--- a/f", "+++ b/f",   *)
(* "@@ ... @@", "diff --git ...") never have blank rests.                *)
(***************************************************************************)
LineKinds == {"gitcmd", "oldhdr", "newhdr", "hunk", "ctx", "add", "del"}
DiffLine == [kind : LineKinds, blank : BOOLEAN]

FirstChar == [gitcmd |-> "d", oldhdr |-> "-", newhdr |-> "+", hunk |-> "@",
              ctx |-> " ", add |-> "+", del |-> "-"]

RestIsBlank(line) == line.kind \in {"ctx", "add", "del"} /\ line.blank

\* bootstrap.py lines 58-66.
IsMeaningfulDiff(diff) ==
    \E i \in 1..Len(diff) :
        /\ FirstChar[diff[i].kind] \in {"+", "-"}
        /\ ~RestIsBlank(diff[i])

VARIABLES
    pc,            \* position in main()
    tree,          \* the set of paths on disk
    changeArg,     \* args.changed_files with the diff cache it names
    docFamilies,   \* doc_families: prefix -> (lang -> path)
    changedFiles,  \* changed_files_list
    pending,       \* families of the step-3 loop not yet visited
    cur,           \* the family being processed and its plan
    conflicts,     \* families skipped with a conflict report
    written        \* files written by the run, with where they came from

vars == <<pc, tree, changeArg, docFamilies, changedFiles, pending, cur,
          conflicts, written>>

UnderRoot(path) == \E r \in ScanRoots : IsPrefix(r, path) /\ Len(path) > Len(r)

\* Files os.walk visits and the extension filter keeps.
Scannable(t) == {p \in t : UnderRoot(p) /\ IsContentFile(p)}

Prefix(p) == GetPathPrefixAndLang(p)[1]
Lang(p)   == GetPathPrefixAndLang(p)[2]

\* Locales of family k whose file is in changed_files_list (line 181).
ChangedLangs(k) ==
    {l \in DOMAIN docFamilies[k] : docFamilies[k][l] \in changedFiles}

TypeOK ==
    /\ pc \in {"scan", "changes", "families", "create", "update",
               "done", "nothing_to_do", "crashed"}
    /\ tree \subseteq Seq(Seq(STRING))
    /\ changeArg \in ChangeArgs
    /\ \A k \in DOMAIN docFamilies :
          docFamilies[k] \in [DOMAIN docFamilies[k] -> tree]
    /\ changedFiles \subseteq Universe
    /\ pending \subseteq DOMAIN docFamilies
    /\ conflicts \subseteq DOMAIN docFamilies
    /\ \/ cur = NoFamily
       \/ /\ cur.prefix \in DOMAIN docFamilies
          /\ cur.src \in Locales
          /\ cur.creates \subseteq Locales
          /\ cur.updates \subseteq Locales
    /\ \A w \in written : w.lang \in Locales /\ w.src \in Locales

Init ==
    /\ pc = "scan"
    /\ tree \in InitialTrees
    /\ changeArg \in ChangeArgs
    /\ docFamilies = << >>
    /\ changedFiles = {}
    /\ pending = {}
    /\ cur = NoFamily
    /\ conflicts = {}
    /\ written = {}

(***************************************************************************)
(* Step 1 (lines 126-135): every scanned file is filed under its prefix  *)
(* and language.  Two files with the same prefix and language overwrite  *)
(* each other in walk order, which the file system decides: the survivor *)
(* is any one of them.                                                   *)
(***************************************************************************)
Scan ==
    /\ pc = "scan"
    /\ LET files == Scannable(tree)
           keys  == {Prefix(p) : p \in files}
       IN  \E survivors \in SUBSET files :
             /\ \A p \in files : \E q \in survivors :
                    GetPathPrefixAndLang(q) = GetPathPrefixAndLang(p)
             /\ \A p, q \in survivors :
                    GetPathPrefixAndLang(p) = GetPathPrefixAndLang(q) => p = q
             /\ docFamilies' =
                  [k \in keys |->
                     [l \in {Lang(p) : p \in {q \in survivors : Prefix(q) = k}} |->
                        CHOOSE p \in survivors : GetPathPrefixAndLang(p) = <<k, l>>]]
    /\ pc' = "changes"
    /\ UNCHANGED <<tree, changeArg, changedFiles, pending, cur, conflicts, written>>

(***************************************************************************)
(* Lines 138-173: with --changed-files, a path whose cached diff is not  *)
(* meaningful is dropped; a path with no cached diff (a new file) or an  *)
(* unreadable one stays.  Only families holding a changed path remain;   *)
(* if none does the script exits 0.  Without the argument every family  *)
(* is processed.                                                          *)
(***************************************************************************)
\* Mutant: the families to visit are taken from the changed paths instead of
\* filtering the scanned families.
AffectedFromPaths(cf) == {Prefix(p) : p \in cf}

\* Line 168: the scanned families holding a changed path.
Affected(cf) ==
    {k \in DOMAIN docFamilies : \E l \in DOMAIN docFamilies[k] : docFamilies[k][l] \in cf}

LoadChanges ==
    /\ pc = "changes"
    /\ IF changeArg = NoArg
         THEN /\ changedFiles' = {}
              /\ pending' = DOMAIN docFamilies
              /\ pc' = "families"
         ELSE LET cf == {p \in DOMAIN changeArg :
                           changeArg[p] = NoDiff \/ IsMeaningfulDiff(changeArg[p])}
                  affected == Affected(cf)
              IN  /\ changedFiles' = cf
                  /\ pending' = affected
                  /\ pc' = IF affected = {} THEN "nothing_to_do" ELSE "families"
    /\ UNCHANGED <<tree, changeArg, docFamilies, cur, conflicts, written>>

(***************************************************************************)
(* Lines 192-195: several non-default variants changed and the default   *)
(* did not: the family is skipped with an error report.                  *)
(***************************************************************************)
SkipConflict(k) ==
    /\ pc = "families"
    /\ k \in pending
    /\ Default \notin ChangedLangs(k)
    /\ Cardinality(ChangedLangs(k)) > 1
    /\ pending' = pending \ {k}
    /\ conflicts' = conflicts \cup {k}
    /\ UNCHANGED <<pc, tree, changeArg, docFamilies, changedFiles, cur, written>>

(***************************************************************************)
(* Lines 180-213: the source of truth, then the create and update sets.  *)
(* The fallback without a default variant takes the first language in   *)
(* dict order, i.e. walk order: any variant.                             *)
(***************************************************************************)
\* Mutant: any changed variant is taken as the source before the default is
\* considered.
SourceChoicesAnyChanged(k) ==
    LET fm  == docFamilies[k]
        fcf == ChangedLangs(k)
    IN  IF fcf # {} THEN fcf
        ELSE IF Default \in DOMAIN fm THEN {Default}
        ELSE DOMAIN fm

SourceChoices(k) ==
    LET fm  == docFamilies[k]
        fcf == ChangedLangs(k)
    IN  IF Default \in fcf THEN {Default}
        ELSE IF Cardinality(fcf) = 1 THEN fcf
        ELSE IF Default \in DOMAIN fm THEN {Default}
        ELSE DOMAIN fm

PlanFamily(k) ==
    /\ pc = "families"
    /\ k \in pending
    /\ ~(Default \notin ChangedLangs(k) /\ Cardinality(ChangedLangs(k)) > 1)
    /\ \E src \in SourceChoices(k) :
         LET fm == docFamilies[k] IN
         cur' = [prefix  |-> k,
                 src     |-> src,
                 srcPath |-> fm[src],
                 creates |-> {l \in Locales : l \notin DOMAIN fm},
                 updates |-> {l \in Locales : l \in DOMAIN fm /\ l # src}]
    /\ pending' = pending \ {k}
    /\ pc' = "create"
    /\ UNCHANGED <<tree, changeArg, docFamilies, changedFiles, conflicts, written>>

(***************************************************************************)
(* Lines 217-235: one full-translation call for the missing locales; each *)
(* returned locale is written at its creation path (directories made as   *)
(* needed, an existing file overwritten).  With no missing locale there   *)
(* is no call and ok is empty.                                            *)
(***************************************************************************)
CreateMissing ==
    /\ pc = "create"
    /\ \E ok \in SUBSET cur.creates :
         LET target(l) == CreationTargetPath(cur.prefix, l, cur.srcPath) IN
         /\ tree' = tree \cup {target(l) : l \in ok}
         /\ written' = written \cup
              {[path |-> target(l), family |-> cur.prefix, lang |-> l,
                src |-> cur.src, existed |-> target(l) \in tree] : l \in ok}
    /\ pc' = "update"
    /\ UNCHANGED <<changeArg, docFamilies, changedFiles, pending, cur, conflicts>>

(***************************************************************************)
(* Lines 237-248: the update call passes diff_content_map, a keyword that *)
(* translation_client.translate_files does not declare, so the call       *)
(* raises TypeError before translating anything; nothing catches it and   *)
(* the script ends.                                                        *)
(***************************************************************************)
UpdateExisting ==
    /\ pc = "update"
    /\ cur.updates # {}
    /\ pc' = "crashed"
    /\ UNCHANGED <<tree, changeArg, docFamilies, changedFiles, pending, cur,
                   conflicts, written>>

FinishFamily ==
    /\ pc = "update"
    /\ cur.updates = {}
    /\ cur' = NoFamily
    /\ pc' = "families"
    /\ UNCHANGED <<tree, changeArg, docFamilies, changedFiles, pending,
                   conflicts, written>>

EndLoop ==
    /\ pc = "families"
    /\ pending = {}
    /\ pc' = "done"
    /\ UNCHANGED <<tree, changeArg, docFamilies, changedFiles, pending, cur,
                   conflicts, written>>

Next ==
    \/ Scan
    \/ LoadChanges
    \/ \E k \in DOMAIN docFamilies : SkipConflict(k)
    \/ \E k \in DOMAIN docFamilies : PlanFamily(k)
    \/ CreateMissing
    \/ UpdateExisting
    \/ FinishFamily
    \/ EndLoop

\* The script runs to its end unless killed: each step is local computation
\* or a blocking call bounded by its 720 s timeout.
Spec == Init /\ [][Next]_vars /\ WF_vars(Next)

(***************************************************************************)
(* Properties                                                              *)
(***************************************************************************)

\* Spec section 4.5 and the round-trip law of section 8: a created locale
\* variant (CreateMissing, bootstrap.py lines 227-234) is a new file, lies
\* under a scanned directory so the next run finds it, and is filed by
\* get_path_prefix_and_lang under the family and locale it was created for.
CreatedFilesStayInFamily ==
    \A w \in written :
        /\ ~w.existed
        /\ UnderRoot(w.path)
        /\ GetPathPrefixAndLang(w.path) = << w.family, w.lang >>

\* Spec section 4.3: every file the run writes is translated from a source
\* the source-of-truth policy allows (PlanFamily, lines 180-207): never for
\* a family whose edits conflict, from the default variant whenever it was
\* edited, and from an edited variant whenever the family has one.
WritesFollowSourcePolicy ==
    \A w \in written :
        LET fcf == ChangedLangs(w.family) IN
        /\ ~(Default \notin fcf /\ Cardinality(fcf) > 1)
        /\ Default \in fcf => w.src = Default
        /\ fcf # {} => w.src \in fcf

\* Spec section 7: nothing recoverable aborts the run; every run reaches
\* the end of main() (UpdateExisting is where it can stop early).
RunCompletes == <>(pc \in {"done", "nothing_to_do"})

\* What the spec means by a meaningful change: an added or removed content
\* line (not a header line) that is not blank.
ContentChanged(diff) ==
    \E i \in 1..Len(diff) : diff[i].kind \in {"add", "del"} /\ ~diff[i].blank

\* Spec section 8: a path whose cached diff only adds or removes blank lines
\* is dropped from changed_files_list by LoadChanges (lines 154-161).
BlankDiffIgnored ==
    \A p \in changedFiles : changeArg[p] = NoDiff \/ ContentChanged(changeArg[p])

=============================================================================
