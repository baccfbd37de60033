------------------------- MODULE MCFormatTranslation -------------------------
EXTENDS FormatTranslation

CONSTANTS x, y, p1, p2

MCLeaves == {x, y}
MCCharOrder == <<".", "a", "b">>
MCPaths == {p1, p2}

A == <<"a">>
B == <<"b">>
AdotB == <<"a", ".", "b">>

\* Catalogues: flat and sorted, flat in the wrong order, nested, nested
\* next to a dotted key it flattens onto, and with an empty object.
Flat     == << <<A, x>>, <<B, y>> >>
Unsorted == << <<B, y>>, <<A, x>> >>
Nested   == << <<A, << <<B, x>> >> >>, <<B, y>> >>
Collide  == << <<A, << <<B, x>> >> >>, <<AdotB, y>> >>
EmptyObj == << <<A, << >> >>, <<B, y>> >>

MCDocs == {Flat, Unsorted, Nested, Collide, EmptyObj}

MCContents == [doc : MCDocs, canonical : BOOLEAN] \cup {Invalid}
=============================================================================
