------------------------------- MODULE MCTrie -------------------------------
(***************************************************************************)
(* Small dictionaries and texts over the codes 4, 5, 6, so that slots below *)
(* the codes exist, as the slots 2 .. 96 do below the code of 'a'.          *)
(***************************************************************************)
EXTENDS TrieProps

\* The code decides the width: 6 stands for a Hangul syllable, 0 for an accented letter.
Ch(c)      == [code |-> c, width |-> CASE c = 6 -> 3 [] c = 0 -> 2 [] OTHER -> 1]
Word(cs)   == [i \in DOMAIN cs |-> Ch(cs[i])]
List(ws)   == [i \in DOMAIN ws |-> Word(ws[i])]

\* Nested of one another, branching, a single chain, three-byte characters, an unsupported one.
Nested   == List(<< <<4, 5>>, <<5>>, <<4, 5, 6>> >>)
Overlaps   == List(<< <<4, 4, 5>>, <<4, 5, 4>> >>)
Line       == List(<< <<5, 6, 5, 6, 4>> >>)
WideWord   == << <<Ch(4), Ch(6)>>, <<Ch(6)>> >>
Branching  == List(<< <<4, 4, 4>>, <<4, 5, 6>>, <<5>> >>)
Bushy      == List(<< <<4, 4>>, <<4, 5>>, <<4, 6, 5>>, <<5, 4>>, <<6, 6>> >>)
Infix      == List(<< <<4, 5, 6>>, <<5>> >>)
Gap        == List(<< <<4>>, <<6, 5>>, <<6, 4>> >>)
Long       == List(<< <<4, 5, 6, 5, 4, 6, 4>>, <<5, 6, 6, 4>>, <<6, 4, 5>> >>)
BadWord    == << <<Ch(4)>>, <<Ch(5), Ch(0)>> >>
JunkWord   == << <<Ch(4), Junk>>, <<Ch(5), Ch(4)>> >>

AllWords   == {Nested, Overlaps, Line, WideWord, Branching, Bushy, Infix, Gap, Long, BadWord, JunkWord}
AllTexts ==
  {Word(t) : t \in UNION {[1 .. n -> {4, 5, 6}] : n \in 0 .. 4}}
  \cup {Word(<<4, 5, 6, 5, 4, 6, 4>>), Word(<<4, 5, 4, 5, 6>>), Word(<<5, 6, 5, 6, 4>>),
        <<Ch(4), Ch(6), Ch(6)>>, <<Ch(4), Junk, Ch(5)>>, <<Junk, Ch(5)>>,
        <<Ch(4), Ch(0), Ch(5)>>}
=============================================================================
