------------------------- MODULE MCJsonTranslation --------------------------
EXTENDS JsonTranslation

CONSTANTS Str, Trans, Num, Str2, Trans2

A == <<"a">>
B == <<"b">>

MCLeaves == {Str, Trans, Num, Human, Str2, Trans2}
MCStrLeaves == {Str, Trans, Human, Str2, Trans2}
MCTranslate == [v \in MCStrLeaves |-> CASE v = Str -> Trans [] v = Str2 -> Trans2 [] OTHER -> v]
MCCharOrder == <<".", "a", "b">>

\* Source catalogues: a nested object with a string and a number; the
\* nested object removed; the nested object reordered with a new string
\* where the number was.
S0 == << <<A, Str>>, <<B, << <<A, Str>>, <<B, Num>> >> >> >>
S1 == << <<A, Str>> >>
S3 == << <<B, << <<B, Str>>, <<A, Str>> >> >>, <<A, Str>> >>
MCSources == {S0, S1, S3}

\* The developer rewords the string at a: S0 and S0 with a's text changed.
S0Reworded == << <<A, Str2>>, <<B, << <<A, Str>>, <<B, Num>> >> >> >>
MCSourcesReworded == {S0, S0Reworded}

=============================================================================
