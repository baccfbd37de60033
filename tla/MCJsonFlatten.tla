---------------------------- MODULE MCJsonFlatten ----------------------------
(***************************************************************************)
(* Bounded check of the pure helpers against reference definitions: the   *)
(* flatten/unflatten operators, and get_i18n_config.  One step hands the   *)
(* helpers one input, the way _translate_json_chunks hands each source and *)
(* target document to the JSON helpers and main() hands config.ts to the  *)
(* loader; the invariants relate the helper's result to its input.        *)
(***************************************************************************)
EXTENDS JsonFlatten, I18nConfig

CONSTANTS x

VARIABLES doc, config

vars == <<doc, config>>

MCLeaves == {x}
MCCharOrder == <<".", "a", "b">>

\* Keys: the empty key, two plain keys, a key with a leading and one with a
\* trailing dot.
MCKeySet == {<<>>, <<"a">>, <<"b">>, <<".", "a">>, <<"a", ".">>}

\* Objects of at most two distinct keys, nested at most two levels deep.
ObjectsOver(vals) ==
    {o \in UNION {[1..n -> MCKeySet \X vals] : n \in 0..2} :
        \A i, j \in DOMAIN o : i # j => o[i][1] # o[j][1]}

MCDocs == ObjectsOver(MCLeaves \cup ObjectsOver(MCLeaves))

Sep == <<".", ".", ".">>     \* seperator in _translate_json_chunks
Seps == {Sep, <<".">>}       \* and the '.' of the formatter

(***************************************************************************)
(* config.ts files, rendered from the registry they declare and a layout: *)
(* whether defaultLocale carries a type (the form line 77 expects) or is   *)
(* missing, whether supportedLocales is there, which declaration comes    *)
(* first, and whether another object literal follows the locales.  Keys   *)
(* are bare identifiers, as TypeScript allows for \w+ codes.              *)
(***************************************************************************)
Codes == {"en", "zh", "ja"}
NameOf == [c \in Codes |-> CASE c = "en" -> "English"
                             [] c = "zh" -> "Simplified Chinese"
                             [] OTHER    -> "Japanese"]

MCNonWord == {"Simplified Chinese"}

Sp == Tok("sp", "")
Nl == Tok("nl", "")
Other(text) == Tok("other", text)

DefaultDecl(c) ==
    CASE c.dflt = "typed" ->
           << Other("export const"), Sp, Tok("id", "defaultLocale"), Tok("colon", ""), Sp,
              Other("Locale"), Sp, Tok("eq", ""), Sp, Tok("str", c.default), Other(";"), Nl >>
      [] OTHER -> << >>

Entry(code) ==
    << Nl, Sp, Tok("id", code), Tok("colon", ""), Sp, Tok("str", NameOf[code]), Other(",") >>

LocalesDecl(c) ==
    IF c.block = "absent" THEN << >>
    ELSE << Other("export const"), Sp, Tok("id", "supportedLocales"), Sp, Tok("eq", ""), Sp,
            Tok("lbrace", "") >>
         \o FoldLeft(LAMBDA acc, code : acc \o Entry(code), << >>, c.codes)
         \o << Nl, Tok("rbrace", ""), Other(" as const;"), Nl >>

\* export const localeLabels = { en: 'EN' }
Trailer(c) ==
    IF ~c.trailer THEN << >>
    ELSE << Other("export const"), Sp, Tok("id", "localeLabels"), Sp, Tok("eq", ""), Sp,
            Tok("lbrace", ""), Sp, Tok("id", "en"), Tok("colon", ""), Sp, Tok("str", "EN"), Sp,
            Tok("rbrace", ""), Nl >>

Render(c) ==
    [exists |-> c.exists,
     text   |-> IF c.defaultFirst THEN DefaultDecl(c) \o LocalesDecl(c) \o Trailer(c)
                                  ELSE LocalesDecl(c) \o DefaultDecl(c) \o Trailer(c)]

MCConfigs ==
    [exists : BOOLEAN, dflt : {"typed", "absent"}, block : {"plain", "absent"},
     defaultFirst : BOOLEAN, trailer : BOOLEAN, default : Codes,
     codes : UNION {SetToSeqs(s) : s \in SUBSET Codes \ {{}}}]

\* The registry a config declares, and what the specification (section 6)
\* asks of the loader: a missing file or a missing key is fatal.
Declared(c) ==
    IF ~c.exists \/ c.dflt = "absent" \/ c.block = "absent" THEN ConfigError
    ELSE [exited  |-> FALSE, default |-> c.default,
          locales |-> [code \in Range(c.codes) |-> NameOf[code]]]

NoConfig == [exists |-> FALSE, dflt |-> "absent", block |-> "absent", defaultFirst |-> TRUE,
             trailer |-> FALSE, default |-> "en", codes |-> << >>]

\* One call of a helper: from no input, take any document or any config.
Init == doc = <<>> /\ config = NoConfig

Next ==
    /\ doc = <<>> /\ config = NoConfig
    /\ \/ \E d \in MCDocs : doc' = d /\ UNCHANGED config
       \/ \E c \in MCConfigs : config' = c /\ UNCHANGED doc

Spec == Init /\ [][Next]_vars

TypeOK == doc \in MCDocs /\ config \in MCConfigs \cup {NoConfig}

(***************************************************************************)
(* Reference definitions: a path joined with a separator, and a dict      *)
(* compared the way Python compares dicts (order of keys ignored).         *)
(***************************************************************************)
JoinPath(path, sep) == FoldLeft(LAMBDA acc, k : acc \o sep \o k, Head(path), Tail(path))

RefFlatten(v, sep) == { <<JoinPath(lp[1], sep), lp[2]>> : lp \in LeafPaths(v) }

RECURSIVE AsMap(_)
AsMap(v) == IF IsLeaf(v) THEN v ELSE [k \in Keys(v) |-> AsMap(Get(v, k))]

RECURSIVE AllKeys(_), HasEmptyObject(_)
AllKeys(v) == IF IsLeaf(v) THEN {} ELSE Keys(v) \cup UNION {AllKeys(p[2]) : p \in Range(v)}
HasEmptyObject(v) == ~IsLeaf(v) /\ (v = <<>> \/ \E p \in Range(v) : HasEmptyObject(p[2]))

HasSubstring(s, sep) == \E i \in 1..Len(s) : i + Len(sep) - 1 <= Len(s) /\ OccursAt(s, sep, i)

\* Joined keys that cannot be confused with each other.
Unambiguous(v, sep) ==
    /\ <<>> \notin AllKeys(v)
    /\ \A p, q \in LeafPaths(v) : JoinPath(p[1], sep) = JoinPath(q[1], sep) => p = q

(***************************************************************************)
(* flatten_json / _flatten_json store every leaf under its key path joined *)
(* with the separator, whenever no key is empty and no two paths join to   *)
(* the same string.                                                        *)
(***************************************************************************)
FlattenMatchesReference ==
    \A sep \in Seps :
        Unambiguous(doc, sep) => Range(Flatten(doc, sep)) = RefFlatten(doc, sep)

RoundTrip(v) ==
    LET back == Unflatten(Flatten(v, Sep), Sep)
    IN back # TypeError /\ AsMap(back) = AsMap(v)

(***************************************************************************)
(* _unflatten_json inverts _flatten_json in _translate_json_chunks for     *)
(* every object with non-empty keys that neither contain '...' nor end in  *)
(* '.', and without empty nested objects.                                  *)
(***************************************************************************)
RoundTripForPlainKeys ==
    (/\ <<>> \notin AllKeys(doc)
     /\ \A k \in AllKeys(doc) : ~HasSubstring(k, Sep) /\ Last(k) # "."
     /\ ~HasEmptyObject(doc))
    => RoundTrip(doc)

(***************************************************************************)
(* The round-trip law of the translation client's specification:          *)
(* unflatten(flatten(x)) == x for every x whose keys never contain the     *)
(* separator sequence.                                                     *)
(***************************************************************************)
RoundTripLaw ==
    (\A k \in AllKeys(doc) : ~HasSubstring(k, Sep)) => RoundTrip(doc)

(***************************************************************************)
(* get_i18n_config returns the default locale and the locale map that     *)
(* config.ts declares, and exits exactly when the file or one of the two  *)
(* declarations is missing: the first '}' ends the locale map, so an     *)
(* object literal after it adds nothing, whichever declaration comes first.*)
(***************************************************************************)
ConfigLoadedAsDeclared == GetI18nConfig(Render(config)) = Declared(config)

=============================================================================
