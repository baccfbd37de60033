----------------------------- MODULE JsonFlatten -----------------------------
(***************************************************************************)
(* The JSON key-path helpers of the i18n tooling, as pure operators:       *)
(*   _flatten_json / _unflatten_json (translation_client.py, separator     *)
(*   '...' when called from _translate_json_chunks), and flatten_json and  *)
(*   the sorted dump of format_translation.py (separator '.').            *)
(*                                                                         *)
(* A JSON object is a Python dict, so it is ORDERED: it is modelled as a   *)
(* sequence of <<key, value>> pairs with distinct keys.  A value is a leaf *)
(* (a member of Leaves: string, number, list...) or an object.  A key is a *)
(* sequence of characters, because the properties are about how keys are   *)
(* joined and split on a separator.                                        *)
(***************************************************************************)
EXTENDS Naturals, Sequences, SequencesExt

CONSTANTS
    Leaves,      \* leaf values (model values)
    CharOrder,   \* the key alphabet as a sequence, in code-point order
    TypeError    \* the exception raised when a path runs through a leaf

IsLeaf(v) == v \in Leaves

\* Python dict helpers: `k in d`, `d[k]`, and `d[k] = v`, which keeps the
\* position of an existing key and appends a new one.
Keys(d) == {d[i][1] : i \in DOMAIN d}

HasKey(d, k) == k \in Keys(d)

Get(d, k) == (CHOOSE p \in Range(d) : p[1] = k)[2]

Put(d, k, v) ==
    IF HasKey(d, k)
    THEN [i \in DOMAIN d |-> IF d[i][1] = k THEN <<k, v>> ELSE d[i]]
    ELSE Append(d, <<k, v>>)

\* Successive assignments of a list of pairs into a dict.
PutAll(d, pairs) == FoldLeft(LAMBDA acc, p : Put(acc, p[1], p[2]), d, pairs)

(***************************************************************************)
(* _flatten_json (translation_client.py 12-28): new_key is                 *)
(* prefix + separator + key when the prefix is a non-empty string, else    *)
(* the key; every non-dict value is stored at its prefix.                  *)
(***************************************************************************)
\* Mutant: the separator is added even to an empty prefix.
NewKeyAlwaysJoin(prefix, key, sep) == prefix \o sep \o key

NewKey(prefix, key, sep) == IF prefix # <<>> THEN prefix \o sep \o key ELSE key

RECURSIVE FlattenPairs(_, _, _)
FlattenPairs(v, prefix, sep) ==
    IF IsLeaf(v) THEN << <<prefix, v>> >>
    ELSE FoldLeft(LAMBDA acc, p : acc \o FlattenPairs(p[2], NewKey(prefix, p[1], sep), sep),
                  <<>>, v)

Flatten(obj, sep) == PutAll(<<>>, FlattenPairs(obj, <<>>, sep))

(***************************************************************************)
(* str.split(sep) with a non-empty separator: split at the leftmost        *)
(* occurrence, then continue after it.                                     *)
(***************************************************************************)
OccursAt(s, sep, i) == SubSeq(s, i, i + Len(sep) - 1) = sep

RECURSIVE Split(_, _)
Split(s, sep) ==
    LET hits == {i \in 1..Len(s) : i + Len(sep) - 1 <= Len(s) /\ OccursAt(s, sep, i)}
    IN IF hits = {} THEN <<s>>
       ELSE LET i == Min(hits)
            IN << SubSeq(s, 1, i - 1) >> \o Split(SubSeq(s, i + Len(sep), Len(s)), sep)

(***************************************************************************)
(* The inner loop of _unflatten_json (translation_client.py 37-44): walk   *)
(* parts[:-1], creating {} where a part is missing, then assign the last   *)
(* part.  Walking into a leaf raises TypeError (a str, list or number does *)
(* not support item assignment).                                           *)
(***************************************************************************)
\* Mutant: `d[part] = {}` without the `if part not in d` test.
RECURSIVE SetPathNoReuse(_, _, _)
SetPathNoReuse(d, parts, v) ==
    IF d = TypeError THEN TypeError
    ELSE IF Len(parts) = 1 THEN Put(d, parts[1], v)
    ELSE Put(d, Head(parts), SetPathNoReuse(<<>>, Tail(parts), v))

\* Mutant: a missing part raises KeyError instead of creating {}.
RECURSIVE SetPathNoCreate(_, _, _)
SetPathNoCreate(d, parts, v) ==
    IF d = TypeError THEN TypeError
    ELSE IF Len(parts) = 1 THEN Put(d, parts[1], v)
    ELSE LET k == Head(parts)
             sub == IF ~HasKey(d, k) \/ IsLeaf(Get(d, k)) THEN TypeError
                    ELSE SetPathNoCreate(Get(d, k), Tail(parts), v)
         IN IF sub = TypeError THEN TypeError ELSE Put(d, k, sub)

RECURSIVE SetPath(_, _, _)
SetPath(d, parts, v) ==
    IF d = TypeError THEN TypeError
    ELSE IF Len(parts) = 1 THEN Put(d, parts[1], v)
    ELSE LET k == Head(parts)
             sub == IF ~HasKey(d, k) THEN SetPath(<<>>, Tail(parts), v)
                    ELSE IF IsLeaf(Get(d, k)) THEN TypeError
                    ELSE SetPath(Get(d, k), Tail(parts), v)
         IN IF sub = TypeError THEN TypeError ELSE Put(d, k, sub)

Unflatten(flat, sep) ==
    FoldLeft(LAMBDA acc, p : SetPath(acc, Split(p[1], sep), p[2]), <<>>, flat)

(***************************************************************************)
(* format_translation.py: flatten_json (6-14) joins with '.', and          *)
(* format_translation_content (16-21) sorts the items by key.  Keys are    *)
(* compared as Python compares strings, character by character.            *)
(***************************************************************************)
FlattenJson(y) == Flatten(y, <<".">>)

CharRank(c) == CHOOSE i \in DOMAIN CharOrder : CharOrder[i] = c

RECURSIVE KeyLess(_, _)
KeyLess(k1, k2) ==
    \/ k1 = <<>> /\ k2 # <<>>
    \/ /\ k1 # <<>> /\ k2 # <<>>
       /\ \/ CharRank(Head(k1)) < CharRank(Head(k2))
          \/ Head(k1) = Head(k2) /\ KeyLess(Tail(k1), Tail(k2))

FormatTranslationContent(data) ==
    SetToSortSeq(Range(FlattenJson(data)), LAMBDA p, q : KeyLess(p[1], q[1]))

(***************************************************************************)
(* Reference definition: the leaf paths of a value, each a sequence of     *)
(* keys with the leaf stored there.                                        *)
(***************************************************************************)
RECURSIVE LeafPaths(_)
LeafPaths(v) ==
    IF IsLeaf(v) THEN { << <<>>, v >> }
    ELSE UNION { { << <<p[1]>> \o lp[1], lp[2] >> : lp \in LeafPaths(p[2]) } : p \in Range(v) }

=============================================================================
