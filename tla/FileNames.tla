----------------------------- MODULE FileNames -----------------------------
(***************************************************************************)
(* The filename convention of the i18n bootstrap script                   *)
(* (crater-website/hack/i18n/bootstrap.py): how a content file is mapped  *)
(* to a locale-independent family key and a locale, and the inverse used  *)
(* when a missing locale variant is created.                               *)
(*                                                                         *)
(* Data abstraction.  A path is a sequence of names (its directory         *)
(* components followed by the file name).  A name is the sequence of its  *)
(* dot-separated parts, so "index.zh.mdx" is <<"index","zh","mdx">>.  The  *)
(* family key, a string in the code, is the sequence of names it spells:  *)
(* str(dir / "index") and str(dir) are both sequences of names, and two   *)
(* keys are the same string exactly when the sequences are equal.          *)
(***************************************************************************)
EXTENDS Sequences, SequencesExt

CONSTANTS
    Locales,    \* keys of supportedLocales in src/i18n/config.ts
    Default     \* defaultLocale in src/i18n/config.ts

ASSUME Default \in Locales

\* File extensions the scan accepts: file.endswith(('.mdx', '.json', '.md')).
ContentExts == {"mdx", "json", "md"}

\* pathlib: Path.parent, Path.stem (name without its last suffix), Path.suffix.
Parent(path) == Front(path)
FileName(path) == Last(path)
StemOf(path) == Front(FileName(path))
SuffixOf(path) == Last(FileName(path))

\* The scan's filter (bootstrap.py line 131).
IsContentFile(path) ==
    /\ Len(FileName(path)) >= 2
    /\ SuffixOf(path) \in ContentExts

(***************************************************************************)
(* get_path_prefix_and_lang: the three patterns in their code order.       *)
(*  1. 'name.lang' : the stem has more than one part and its last part is  *)
(*     a supported locale; the key is dir / the other parts.               *)
(*  2. 'lang'      : the whole stem is a supported locale; the key is dir. *)
(*  3. otherwise the file is in the default locale; the key is dir / stem. *)
(* The result is <<prefix, lang>>.                                         *)
(***************************************************************************)
GetPathPrefixAndLang(path) ==
    LET dir  == Parent(path)
        stem == StemOf(path)
    IN  IF Len(stem) > 1 /\ Last(stem) \in Locales
          THEN << dir \o << Front(stem) >>, Last(stem) >>
        ELSE IF Len(stem) = 1 /\ stem[1] \in Locales
          THEN << dir, stem[1] >>
        ELSE << dir \o << stem >>, Default >>

(***************************************************************************)
(* The path a created locale variant is written to (bootstrap.py           *)
(* lines 228-232): a sibling "lang.ext" in the family directory when the  *)
(* source's stem is itself a locale code, otherwise the string             *)
(* f"{prefix}.{lang}{suffix}", or f"{prefix}{suffix}" for the default      *)
(* locale.  Appending text to str(prefix) extends its last name.           *)
(***************************************************************************)
ExtendLastName(prefix, parts) ==
    [prefix EXCEPT ![Len(prefix)] = @ \o parts]

\* Mutant: every created file is named f"{prefix}.{lang}{suffix}", as before
\* the sibling case for 'lang.json' catalogues was added.
CreationTargetPathNoSibling(prefix, lang, sourcePath) ==
    IF lang # Default
      THEN ExtendLastName(prefix, << lang, SuffixOf(sourcePath) >>)
      ELSE ExtendLastName(prefix, << SuffixOf(sourcePath) >>)

CreationTargetPath(prefix, lang, sourcePath) ==
    LET suffix == SuffixOf(sourcePath)
        stem   == StemOf(sourcePath)
    IN  IF Len(stem) = 1 /\ stem[1] \in Locales
          THEN prefix \o << << lang, suffix >> >>
        ELSE IF lang # Default
          THEN ExtendLastName(prefix, << lang, suffix >>)
        ELSE ExtendLastName(prefix, << suffix >>)

=============================================================================
