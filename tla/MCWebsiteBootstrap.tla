------------------------- MODULE MCWebsiteBootstrap -------------------------
(***************************************************************************)
(* Model values for WebsiteBootstrap: the two scan roots, three locales   *)
(* with "en" the default, and the file names the site uses: index.mdx /   *)
(* index.<lang>.mdx pages, meta.<lang>.json sidebars and <lang>.json      *)
(* message catalogues.                                                     *)
(***************************************************************************)
EXTENDS WebsiteBootstrap

MCLocales == {"en", "zh", "ja"}
MCSupportedLocales == << "en", "zh", "ja" >>

DocsRoot == << <<"content">>, <<"docs">> >>
MsgsRoot == << <<"messages">> >>
MCScanRoots == {DocsRoot, MsgsRoot}

IndexEn       == DocsRoot \o << << "index", "mdx" >> >>
IndexEnDotted == DocsRoot \o << << "index", "en", "mdx" >> >>
IndexZh       == DocsRoot \o << << "index", "zh", "mdx" >> >>
MetaJa        == DocsRoot \o << << "meta", "ja", "json" >> >>
MsgZh         == MsgsRoot \o << << "zh", "json" >> >>

MCUniverse == {IndexEn, IndexEnDotted, IndexZh, MetaJa, MsgZh}
MCInitialTrees == SUBSET MCUniverse

=============================================================================
