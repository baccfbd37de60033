------------------------------ MODULE MCSquoosh ------------------------------
(***************************************************************************)
(* Content trees for Squoosh: content/ and one subdirectory d/, image      *)
(* names a and b, and a Markdown file in each directory.  Each tree is a   *)
(* set of images (any subset of them may be present) and the references   *)
(* of the two Markdown files.                                              *)
(***************************************************************************)
EXTENDS Squoosh

CONSTANTS R, D, P1, P2, P3, P4

MCDirs == {<<>>, <<"d">>}
MCNames == {<<"a">>, <<"b">>}
MCExts == {"png", "jpg", "webp"}
MCMds == {R, D}
MCMdDir == [m \in MCMds |-> IF m = R THEN <<>> ELSE <<"d">>]

Img(dir, name, ext) == [dir |-> dir, name |-> name, ext |-> ext]
Ref(prefix, dir, name, ext) == [prefix |-> prefix, dir |-> dir, name |-> name, ext |-> ext]

\* Every subset of the images of pics (path -> picture) may be on disk.
ImagesFrom(pics) ==
    { [p \in ImagePaths |-> IF p \in present THEN pics[p] ELSE None] :
        present \in SUBSET DOMAIN pics }

(***************************************************************************)
(* The documentation's conventions: names differ between directories, a   *)
(* reference without a prefix only appears at the top, and one image of  *)
(* d/ is used nowhere.  content/index.md shows a.png, d/b.png, b.webp and *)
(* ../b.png, which lies outside content/; d/page.md shows b.png and       *)
(* content/a.png in two spellings.                                         *)
(***************************************************************************)
Conventional ==
    (Img(<<>>, <<"a">>, "png") :> P1) @@ (Img(<<"d">>, <<"b">>, "png") :> P2)
    @@ (Img(<<>>, <<"b">>, "webp") :> P3) @@ (Img(<<"d">>, <<"a">>, "jpg") :> P4)

MCImages == ImagesFrom(Conventional)

MCRefs ==
    (R :> {Ref(DotSlash, <<>>, <<"a">>, "png"), Ref(Slash, <<"d">>, <<"b">>, "png"),
           Ref(<<>>, <<>>, <<"b">>, "webp"), Ref(DotDotSlash, <<>>, <<"b">>, "png")})
    @@ (D :> {Ref(DotSlash, <<>>, <<"b">>, "png"), Ref(DotDotSlash, <<>>, <<"a">>, "png"),
              Ref(Slash, <<>>, <<"a">>, "png")})

\* a.png and d/a.png, each shown as ./a.png by the file next to it.
SharedImages ==
    ImagesFrom((Img(<<>>, <<"a">>, "png") :> P1) @@ (Img(<<"d">>, <<"a">>, "png") :> P2))
SharedRefs ==
    (R :> {Ref(DotSlash, <<>>, <<"a">>, "png")}) @@ (D :> {Ref(DotSlash, <<>>, <<"a">>, "png")})

=============================================================================
