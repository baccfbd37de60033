-------------------------- MODULE FormatTranslation --------------------------
(***************************************************************************)
(* frontend/hack/format_translation.py: process_folder and its main, run   *)
(* again and again on the same catalogues (by a developer in format mode,  *)
(* by CI with --check), with edits of the files in between.               *)
(*                                                                         *)
(* A file's text is abstracted to the JSON object it parses to and whether *)
(* it is laid out exactly as json.dumps(..., indent=2) lays that object    *)
(* out ("canonical"), up to surrounding whitespace, which the check mode   *)
(* strips; or to Invalid, text json.loads rejects.                         *)
(***************************************************************************)
EXTENDS JsonFlatten, FiniteSets

CONSTANTS
    Paths,      \* the translation.json files under src/i18n
    Contents,   \* possible file contents
    Invalid,    \* content that is not JSON
    MaxRuns     \* bound on the number of runs of the script

VARIABLES
    files,      \* path -> content
    pc,         \* "idle" between runs, "running" inside process_folder
    checkOnly,  \* --check given to the current or last run
    pending,    \* files os.walk has not reached yet in this run
    failed,     \* failed_files of this run
    lastExit,   \* how the last run ended: "none", "ok", "fail", "crash"
    runs,       \* number of runs started
    formatted   \* files whose content was last written by a format run

vars == <<files, pc, checkOnly, pending, failed, lastExit, runs, formatted>>

\* The text format mode writes: the sorted flat object, dumped.
Formatted(doc) == [doc |-> FormatTranslationContent(doc), canonical |-> TRUE]

\* The comparison of line 42: original_content.strip() == formatted.strip().
IsFormatted(c) == c = Formatted(c.doc)

Init ==
    /\ files \in [Paths -> Contents]
    /\ pc = "idle"
    /\ checkOnly = FALSE
    /\ pending = {} /\ failed = {} /\ formatted = {}
    /\ lastExit = "none"
    /\ runs = 0

\* A developer edits a catalogue between runs.
Edit(p, c) ==
    /\ pc = "idle"
    /\ files' = [files EXCEPT ![p] = c]
    /\ formatted' = formatted \ {p}
    /\ UNCHANGED <<pc, checkOnly, pending, failed, lastExit, runs>>

\* main (53-60): parse --check and call process_folder on src/i18n.
Start(check) ==
    /\ pc = "idle" /\ runs < MaxRuns
    /\ pc' = "running" /\ checkOnly' = check
    /\ pending' = Paths /\ failed' = {}
    /\ runs' = runs + 1
    /\ UNCHANGED <<files, lastExit, formatted>>

(***************************************************************************)
(* One translation.json reached by os.walk (lines 27-49).  json.loads on   *)
(* invalid text raises, nothing catches it, and the script dies.  Check   *)
(* mode records the file when its text differs from the formatted text;   *)
(* format mode writes the formatted text back.                             *)
(***************************************************************************)
ProcessFile(p) ==
    /\ pc = "running" /\ p \in pending
    /\ pending' = pending \ {p}
    /\ IF files[p] = Invalid
       THEN /\ pc' = "idle" /\ lastExit' = "crash"
            /\ UNCHANGED <<files, failed, formatted>>
       ELSE IF checkOnly
       THEN /\ failed' = IF IsFormatted(files[p]) THEN failed ELSE failed \cup {p}
            /\ UNCHANGED <<pc, lastExit, files, formatted>>
       ELSE /\ files' = [files EXCEPT ![p] = Formatted(files[p].doc)]
            /\ formatted' = formatted \cup {p}
            /\ UNCHANGED <<pc, lastExit, failed>>
    /\ UNCHANGED <<checkOnly, runs>>

\* main (62-75): in check mode, exit 1 when a file failed.
Finish ==
    /\ pc = "running" /\ pending = {}
    /\ pc' = "idle"
    /\ lastExit' = IF checkOnly /\ failed # {} THEN "fail" ELSE "ok"
    /\ UNCHANGED <<files, checkOnly, pending, failed, runs, formatted>>

Next ==
    \/ \E p \in Paths, c \in Contents : Edit(p, c)
    \/ \E check \in BOOLEAN : Start(check)
    \/ \E p \in Paths : ProcessFile(p)
    \/ Finish

Spec == Init /\ [][Next]_vars /\ WF_vars(Next)

(***************************************************************************)
(* Formatting is idempotent as the check sees it: a --check run never     *)
(* reports a file whose content was last written by a format run, whatever *)
(* nesting, key order or dotted keys the file had before.                  *)
(***************************************************************************)
FormattedFilesPassCheck == checkOnly => failed \cap formatted = {}

=============================================================================
