------------------------------- MODULE Squoosh -------------------------------
(***************************************************************************)
(* website/hack/squoosh_images.py: one run of main() over a content        *)
(* directory.  Step 1-3 scan the images and the image references of the    *)
(* Markdown files and may delete unused images; step 4 converts every     *)
(* referenced image to .webp and deletes the original; step 5 rewrites    *)
(* the references in every Markdown file by substring replacement.        *)
(*                                                                         *)
(* An image path is a directory (a sequence of directory names), a name   *)
(* and an extension; an image file holds a picture, and the .webp written *)
(* from it holds the same picture.  A reference is the text inside         *)
(* ![...](...): a prefix ("./", "../", "/" or none), a directory, a name  *)
(* and an extension, spelled out character by character where substring   *)
(* matching can see it.  A Markdown file keeps one slot per reference it   *)
(* had when the run started.                                               *)
(***************************************************************************)
EXTENDS Sequences, SequencesExt, FiniteSets

CONSTANTS
    Dirs,           \* directories under content/, as sequences of names
    Names,          \* image names, as sequences of characters
    Exts,           \* image extensions, including "webp"
    InitialImages,  \* possible initial contents: image path -> picture or None
    Mds,            \* the Markdown files
    MdDir,          \* Markdown file -> its directory
    MdRefs,         \* Markdown file -> the references it contains
    None,           \* no file at this path
    Outside         \* a reference that leaves content/

ImagePaths == [dir : Dirs, name : Names, ext : Exts]

DotSlash == <<".", "/">>
DotDotSlash == <<".", ".", "/">>
Slash == <<"/">>

VARIABLES
    files,       \* image path -> picture, or None
    initial,     \* files when the run started
    content,     \* Markdown file -> (original reference -> current text)
    pc,          \* "scan", "compress", "rewrite", "done", "crashed"
    imageRefs,   \* image_refs: resolved key -> reference strings
    toCompress,  \* keys of image_refs step 4 has not reached yet
    conversion,  \* keys of conversion_map
    pendingMd,   \* Markdown files step 5 has not reached yet
    tornMd       \* Markdown files emptied by a kill inside their write

vars == <<files, initial, content, pc, imageRefs, toCompress, conversion, pendingMd, tornMd>>

\* The text of a reference, as substring matching sees it.
DirText(d) == FoldLeft(LAMBDA acc, n : acc \o n \o Slash, <<>>, d)
Text(r) == r.prefix \o DirText(r.dir) \o r.name \o <<".", r.ext>>

\* os.path.normpath(os.path.join(md_rel_dir, ref)) for "./" and "../".
JoinRel(mdDir, r) ==
    LET base == IF r.prefix = DotSlash THEN mdDir ELSE Front(mdDir)
    IN IF (r.prefix = DotDotSlash /\ mdDir = <<>>) \/ base \o r.dir \notin Dirs
       THEN Outside
       ELSE [dir |-> base \o r.dir, name |-> r.name, ext |-> r.ext]

\* Lines 55-63: relative references are joined to the file's directory;
\* every other reference is taken from content/ after lstrip('/').
CodeResolve(mdDir, r) ==
    IF r.prefix \in {DotSlash, DotDotSlash} THEN JoinRel(mdDir, r)
    ELSE [dir |-> r.dir, name |-> r.name, ext |-> r.ext]

\* How Markdown resolves a reference: a path without "/" is relative too.
RenderResolve(mdDir, r) ==
    IF r.prefix = <<>> THEN JoinRel(mdDir, [r EXCEPT !.prefix = DotSlash])
    ELSE CodeResolve(mdDir, r)

Exists(p) == p # Outside /\ files[p] # None

\* compress_image saves the picture at splitext(path)[0] + ".webp".
WebpPath(p) == [p EXCEPT !.ext = "webp"]

\* new_ref = ref_str.rsplit('.', 1)[0] + '.webp'
NewRef(r) == [r EXCEPT !.ext = "webp"]

TypeOK ==
    /\ files \in [ImagePaths -> Range(initial) \cup {None}]
    /\ pc \in {"scan", "compress", "rewrite", "done", "crashed"}
    /\ conversion \subseteq ImagePaths
    /\ pendingMd \subseteq Mds /\ tornMd \subseteq Mds

Init ==
    /\ files \in InitialImages
    /\ initial = files
    /\ content = [m \in Mds |-> [r \in MdRefs[m] |-> r]]
    /\ pc = "scan"
    /\ imageRefs = <<>> /\ toCompress = {} /\ conversion = {} /\ pendingMd = {}
    /\ tornMd = {}

(***************************************************************************)
(* Steps 1-3 (lines 96-123, find_all_images and extract_image_refs): the   *)
(* images that no reference resolves to are unused; they are deleted when *)
(* --delete-unused is given or the user answers "y".                       *)
(***************************************************************************)
Scan ==
    /\ pc = "scan"
    /\ LET keys == UNION {{CodeResolve(MdDir[m], r) : r \in MdRefs[m]} : m \in Mds}
           unused == {p \in ImagePaths : files[p] # None} \ keys
       IN /\ imageRefs' = [k \in keys |->
                              {r \in UNION {MdRefs[m] : m \in Mds} :
                                  \E m \in Mds : r \in MdRefs[m] /\ CodeResolve(MdDir[m], r) = k}]
          /\ toCompress' = keys
          /\ \E doDelete \in BOOLEAN :
                files' = [p \in ImagePaths |-> IF doDelete /\ p \in unused THEN None ELSE files[p]]
    /\ pc' = "compress"
    /\ UNCHANGED <<initial, content, conversion, pendingMd, tornMd>>

(***************************************************************************)
(* Step 4 (lines 126-148), one key of image_refs in dict order: .webp      *)
(* images are skipped; compress_image fails on a missing or unreadable     *)
(* image; otherwise the .webp is saved next to it, over any file of that   *)
(* name, and the original is deleted.                                      *)
(***************************************************************************)
\* Mutant: .webp images are not skipped, so a .webp is "converted" onto
\* itself and then deleted.
ConvertibleNoWebpSkip(k) == Exists(k)

\* Lines 130-131: .webp keys are skipped; the others must exist to convert.
Convertible(k) == k # Outside /\ k.ext # "webp" /\ Exists(k)

\* Mutant: the original is deleted whether or not compress_image returned
\* a path (os.remove outside `if webp_path`).
ConvertedRemoveAlways(k, ok) ==
    IF ok THEN [files EXCEPT ![WebpPath(k)] = files[k], ![k] = None]
          ELSE [files EXCEPT ![k] = None]

\* Lines 134-147: a successful compress_image saves the .webp over any file
\* of that name and the original is removed; a failure changes nothing.
Converted(k, ok) ==
    IF ok THEN [files EXCEPT ![WebpPath(k)] = files[k], ![k] = None]
          ELSE files

\* Mutant: the key enters conversion_map whatever compress_image returned.
RecordedAlways(k, ok) == conversion \cup {k}

\* Lines 140-142: conversion_map records the key only for a returned path.
Recorded(k, ok) == IF ok THEN conversion \cup {k} ELSE conversion

Compress(k) ==
    /\ pc = "compress" /\ k \in toCompress
    /\ toCompress' = toCompress \ {k}
    /\ \E ok \in BOOLEAN :
          LET returned == Convertible(k) /\ ok
          IN  /\ files' = Converted(k, returned)
              /\ conversion' = Recorded(k, returned)
    /\ UNCHANGED <<initial, content, pc, imageRefs, pendingMd, tornMd>>

EndCompress ==
    /\ pc = "compress" /\ toCompress = {}
    /\ IF conversion # {}
       THEN pc' = "rewrite" /\ pendingMd' = Mds
       ELSE pc' = "done" /\ UNCHANGED pendingMd
    /\ UNCHANGED <<files, initial, content, imageRefs, toCompress, conversion, tornMd>>

(***************************************************************************)
(* Step 5 (lines 151-177), one Markdown file: for every converted image   *)
(* and every string it was referenced by, anywhere in the file, replace   *)
(* that string by the string with its extension changed to .webp.  A      *)
(* reference string ends in its extension, so an occurrence is a suffix   *)
(* of a reference, and replacing it changes that reference's extension.   *)
(***************************************************************************)
Replaced(m, r) ==
    \E k \in conversion : \E s \in imageRefs[k] : IsSuffix(Text(s), Text(content[m][r]))

\* Line 174: the file is written back only when a replacement happened.
Updated(m) == \E r \in DOMAIN content[m] : Replaced(m, r)

Rewrite(m) ==
    /\ pc = "rewrite" /\ m \in pendingMd
    /\ pendingMd' = pendingMd \ {m}
    /\ content' = [content EXCEPT ![m] =
          [r \in DOMAIN @ |-> IF Replaced(m, r) THEN NewRef(@[r]) ELSE @[r]]]
    /\ UNCHANGED <<files, initial, pc, imageRefs, toCompress, conversion, tornMd>>

EndRewrite ==
    /\ pc = "rewrite" /\ pendingMd = {}
    /\ pc' = "done"
    /\ UNCHANGED <<files, initial, content, imageRefs, toCompress, conversion, pendingMd, tornMd>>

(***************************************************************************)
(* The process is killed (Ctrl-C, a full disk, an exception of PIL or of  *)
(* os.remove) somewhere in steps 4 and 5.  Nothing is kept in memory, so  *)
(* the disk is left as it is: the originals converted so far are deleted  *)
(* and the Markdown files not yet reached still reference them.  Killed   *)
(* inside the write of a file step 5 updates (lines 175-176: open(md, 'w') *)
(* has truncated it), that file is left empty.                             *)
(***************************************************************************)
Crash ==
    /\ pc \in {"compress", "rewrite"}
    /\ pc' = "crashed"
    /\ \/ UNCHANGED tornMd
       \/ \E m \in pendingMd : pc = "rewrite" /\ Updated(m) /\ tornMd' = tornMd \cup {m}
    /\ UNCHANGED <<files, initial, content, imageRefs, toCompress, conversion, pendingMd>>

Next ==
    \/ Scan
    \/ \E k \in DOMAIN imageRefs : Compress(k)
    \/ EndCompress
    \/ \E m \in Mds : Rewrite(m)
    \/ EndRewrite
    \/ Crash

Spec == Init /\ [][Next]_vars /\ WF_vars(Next)

(***************************************************************************)
(* After the run, every reference that showed a picture before it still   *)
(* shows the same picture: the image it now resolves to exists and holds  *)
(* that picture, converted or not.                                         *)
(***************************************************************************)
RefsStayValid ==
    pc = "done" =>
        \A m \in Mds : \A r \in MdRefs[m] :
            LET before == RenderResolve(MdDir[m], r)
                after == RenderResolve(MdDir[m], content[m][r])
            IN (before # Outside /\ initial[before] # None)
                => (after # Outside /\ files[after] = initial[before])

(***************************************************************************)
(* Whenever the run stops, completed or killed in steps 4-5, no picture a  *)
(* reference of a Markdown file that still has its text showed is lost,   *)
(* and each such reference is repaired by at most                          *)
(* changing its extension to .webp: the reference as it now reads, or its *)
(* .webp form, resolves to a file holding the picture.  This relies on    *)
(* compress_image saving the .webp before the original is deleted, and on *)
(* step 5 rewriting only references of converted images.                  *)
(***************************************************************************)
RefsRecoverable ==
    \A m \in Mds \ tornMd : \A r \in MdRefs[m] :
        LET before == RenderResolve(MdDir[m], r)
            holds(ref) == LET p == RenderResolve(MdDir[m], ref)
                          IN p # Outside /\ files[p] = initial[before]
        IN (before # Outside /\ initial[before] # None)
             => holds(content[m][r]) \/ holds(NewRef(content[m][r]))

=============================================================================
