------------------------------ MODULE I18nConfig ------------------------------
(***************************************************************************)
(* get_i18n_config (crater-website/hack/i18n/bootstrap.py lines 68-93; the *)
(* website bootstrap, lines 46-72, is the same code): read                 *)
(* src/i18n/config.ts and take the default locale and the locale map out *)
(* of it with three regular expressions.                                   *)
(*                                                                         *)
(* The text is a sequence of lexical tokens, split where the patterns      *)
(* look: an identifier (\w+), a quoted string, ':', '=', '{', '}', a      *)
(* space, a newline, and any other text (type names, ';', keywords).  A   *)
(* string's content is kept; whether it is \w+ is given by NonWord.        *)
(***************************************************************************)
EXTENDS Naturals, Sequences, SequencesExt

CONSTANTS
    NonWord    \* string contents holding a character outside \w ("zh-CN")

Tok(kind, text) == [kind |-> kind, text |-> text]

Blank == {"sp", "nl"}    \* what \s matches

\* The first token after position j that \s* does not swallow.
SkipSpace(t, j) ==
    LET rest == {k \in (j + 1)..Len(t) : t[k].kind \notin Blank}
    IN  IF rest = {} THEN Len(t) + 1 ELSE CHOOSE k \in rest : \A m \in rest : k <= m

IsTok(t, k, kind) == k \in 1..Len(t) /\ t[k].kind = kind

\* ['"](\w+)['"] at position k.
IsWordString(t, k) == IsTok(t, k, "str") /\ t[k].text \notin NonWord

(***************************************************************************)
(* Line 77: defaultLocale:.*=\s*['"](\w+)['"].  The match starts at the   *)
(* leftmost "defaultLocale:" from which it can succeed; the greedy .*     *)
(* stays on that line and takes the last '=' on it that is followed by a  *)
(* quoted word.                                                            *)
(***************************************************************************)
DefaultEnds(t, i) ==
    IF IsTok(t, i, "id") /\ t[i].text = "defaultLocale" /\ IsTok(t, i + 1, "colon")
    THEN {j \in (i + 2)..Len(t) :
            /\ t[j].kind = "eq"
            /\ \A m \in (i + 2)..j : t[m].kind # "nl"
            /\ IsWordString(t, SkipSpace(t, j))}
    ELSE {}

DefaultStarts(t) == {i \in DOMAIN t : DefaultEnds(t, i) # {}}

DefaultLocaleMatch(t) ==
    LET i == CHOOSE s \in DefaultStarts(t) : \A m \in DefaultStarts(t) : s <= m
        j == CHOOSE e \in DefaultEnds(t, i) : \A m \in DefaultEnds(t, i) : e >= m
    IN  t[SkipSpace(t, j)].text

(***************************************************************************)
(* Line 83: supportedLocales\s*=\s*{(.*?)} with DOTALL: the tokens after  *)
(* the '{' up to the first '}' after it.                                   *)
(***************************************************************************)
LocalesBrace(t, i) == SkipSpace(t, SkipSpace(t, i))

LocalesOpen(t, i) ==
    /\ IsTok(t, i, "id") /\ t[i].text = "supportedLocales"
    /\ IsTok(t, SkipSpace(t, i), "eq")
    /\ IsTok(t, LocalesBrace(t, i), "lbrace")
    /\ \E e \in DOMAIN t : e > LocalesBrace(t, i) /\ t[e].kind = "rbrace"

LocalesStarts(t) == {i \in DOMAIN t : LocalesOpen(t, i)}

\* Mutant: a greedy (.*) runs to the last '}' of the file.
BodyEndGreedy(t, b) ==
    CHOOSE r \in (b + 1)..Len(t) :
        t[r].kind = "rbrace" /\ \A m \in (r + 1)..Len(t) : t[m].kind # "rbrace"

\* The non-greedy (.*?) stops at the first '}' after the '{' at b.
BodyEnd(t, b) ==
    CHOOSE r \in (b + 1)..Len(t) :
        t[r].kind = "rbrace" /\ \A m \in (b + 1)..(r - 1) : t[m].kind # "rbrace"

LocalesMatch(t) ==
    LET i == CHOOSE s \in LocalesStarts(t) : \A m \in LocalesStarts(t) : s <= m
        b == LocalesBrace(t, i)
    IN  SubSeq(t, b + 1, BodyEnd(t, b) - 1)

(***************************************************************************)
(* Lines 89-90: re.findall(r"(\w+):\s*['\"](.*?)['\"]") over that body,   *)
(* in order, and a dict built from the pairs, a later key overriding an   *)
(* earlier one.  A quoted key does not match (\w+ must touch the ':').    *)
(***************************************************************************)
LocalePairs(body) ==
    LET at == SelectSeq([k \in DOMAIN body |-> k],
                LAMBDA k : /\ body[k].kind = "id" /\ IsTok(body, k + 1, "colon")
                           /\ IsTok(body, SkipSpace(body, k + 1), "str"))
    IN  [n \in DOMAIN at |-> << body[at[n]].text, body[SkipSpace(body, at[n] + 1)].text >>]

LocalesMap(pairs) ==
    [c \in {p[1] : p \in Range(pairs)} |->
        pairs[CHOOSE n \in DOMAIN pairs :
                 pairs[n][1] = c /\ \A m \in DOMAIN pairs : pairs[m][1] = c => m <= n][2]]

\* sys.exit(1) (lines 72-75, 78-80 and 84-86).
ConfigError == [exited |-> TRUE, default |-> "", locales |-> << >>]

\* The whole function: a missing file or a pattern that finds nothing exits.
GetI18nConfig(file) ==
    IF ~file.exists \/ DefaultStarts(file.text) = {} \/ LocalesStarts(file.text) = {}
    THEN ConfigError
    ELSE [exited  |-> FALSE,
          default |-> DefaultLocaleMatch(file.text),
          locales |-> LocalesMap(LocalePairs(LocalesMatch(file.text)))]

=============================================================================
