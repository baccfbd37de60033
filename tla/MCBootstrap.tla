---------------------------- MODULE MCBootstrap ----------------------------
(***************************************************************************)
(* Model values for Bootstrap: two scan roots ("docs" and "msgs"), three  *)
(* locales with "en" the default, and a content tree drawn from the file  *)
(* names the site really uses: index.mdx / index.<lang>.mdx pages,        *)
(* meta.<lang>.json sidebars and <lang>.json message catalogues.           *)
(***************************************************************************)
EXTENDS Bootstrap

MCLocales == {"en", "zh", "ja"}

DocsRoot == << << "docs" >> >>
MsgsRoot == << << "msgs" >> >>
MCScanRoots == {DocsRoot, MsgsRoot}

IndexEn       == DocsRoot \o << << "index", "mdx" >> >>
IndexEnDotted == DocsRoot \o << << "index", "en", "mdx" >> >>
IndexZh       == DocsRoot \o << << "index", "zh", "mdx" >> >>
IndexJa       == DocsRoot \o << << "index", "ja", "mdx" >> >>
MetaJa        == DocsRoot \o << << "meta", "ja", "json" >> >>
MsgEn         == MsgsRoot \o << << "en", "json" >> >>
MsgZh         == MsgsRoot \o << << "zh", "json" >> >>

MCUniverse == {IndexEn, IndexEnDotted, IndexZh, IndexJa, MetaJa, MsgEn, MsgZh}
MCInitialTrees == SUBSET MCUniverse

\* Diff lines and the diff shapes the cache can hold.
L(k, b) == [kind |-> k, blank |-> b]
GitHeader == << L("gitcmd", FALSE), L("oldhdr", FALSE), L("newhdr", FALSE) >>
Hunk == << L("hunk", FALSE), L("ctx", FALSE) >>
TextEdit      == GitHeader \o Hunk \o << L("del", FALSE), L("add", FALSE) >>
BlankEditBare == Hunk \o << L("add", TRUE) >>
BlankEditGit  == GitHeader \o Hunk \o << L("add", TRUE) >>

ChangeCandidates == {IndexEn, IndexZh, IndexJa, MsgZh}

ArgsOver(paths, diffs) ==
    {NoArg} \cup UNION {[P -> diffs] : P \in SUBSET paths}

MCChangeArgs == ArgsOver(ChangeCandidates, {NoDiff, TextEdit, BlankEditBare})

\* Diffs as `git diff` writes them, headers included.
MCChangeArgsGit == ArgsOver(ChangeCandidates, {NoDiff, BlankEditGit})

=============================================================================
