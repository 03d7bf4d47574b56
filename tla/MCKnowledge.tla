---------------------------- MODULE MCKnowledge ----------------------------
(* An instance of Knowledge for TLC. *)
EXTENDS Knowledge, TLC

CONSTANTS d1, d2, q1

TwoDocs  == {d1, d2}
OneQuery == {q1}

\* The letters of a text are their positions, so that none can stand for another.
Shapes == UNION {[1 .. n -> BOOLEAN] : n \in {0, 4}}
TextOf(shape) == [i \in DOMAIN shape |-> IF shape[i] THEN i ELSE NL]

Paragraph  == <<1, 2>>
Paragraphs == <<1, 2, 3, 4, NL, 6, 7, NL, 9>>
TooLong    == <<1, 2, 3, 4, 5, 6>>

\* The rulers: dashes, and equals signs in three lengths.
Dash   == 20
Equals == 21
FourRulers == <<<<Dash, Dash>>, <<Equals, Equals, Equals>>, <<Equals>>, <<Equals, Equals>>>>
Ruled == {<<1, 2, Dash, Dash, 5>>, <<1, 2, Equals, Equals, 5>>, <<1, 2, NL, NL, 5>>,
          <<NL, 2, 3, NL, NL>>}

\* One document has any short text or a longer one, of paragraphs that fit or do not, or one
\* with a ruler or an empty line; the other is a paragraph.
SomeTexts == (d1 :> {TextOf(s) : s \in Shapes}
                      \cup Ruled \cup {Paragraphs, TooLong, <<1, NL, 3, 4, 5, 6, 7, 8>>})
               @@ (d2 :> {Paragraph})
=============================================================================
