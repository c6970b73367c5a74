------------------------------- MODULE MCCodecs -------------------------------
(***************************************************************************)
(* Three small programs, one for each way the gateway looks at bytes: the  *)
(* codes of characters, matches in a text, and the entries of a document.  *)
(* They share nothing; a behaviour is about one of them.                   *)
(***************************************************************************)
EXTENDS CharWalk, MatchedText, DocumentRewrite

VARIABLES
  part,  \* "character", "text" or "document"
  input  \* a text with what the regex may find, and what trie and server did

Nothing == [text |-> <<>>, words |-> <<>>, byTrie |-> <<>>, answer |-> <<>>]

MCChar  == {"a", "ga", "smile"}
MCBytes == [c \in MCChar |-> IF c = "a" THEN 1 ELSE IF c = "ga" THEN 3 ELSE 4]

(* Alternations, one of words that overlap and one with a longer word last. *)
Expressions == {<<>>, <<<<"a">>>>, <<<<"a", "ga">>, <<"ga", "a">>>>, <<<<"ga">>, <<"ga", "ga">>>>}

(* The trie reports matches by their ends, and none within another.        *)
Spans(text) == {x \in (1 .. Len(text)) \X (2 .. Len(text) + 1) : x[1] < x[2]}
TrieFinds(text) ==
  {<<>>} \cup {<<Match(text, x[1], x[2])>> : x \in Spans(text)}
  \cup {<<Match(text, x[1][1], x[1][2]), Match(text, x[2][1], x[2][2])>> :
          x \in {y \in Spans(text) \X Spans(text) : y[1][1] < y[2][1] /\ y[1][2] < y[2][2]}}

(* Also what is no span, and what does not end in the text.                *)
ServerFinds(text) ==
  {<<>>} \cup {<<[start |-> i, end |-> j]>> : i, j \in 0 .. Len(text) + 1}

MCInputs ==
  UNION {[text : {t}, words : Expressions, byTrie : TrieFinds(t), answer : ServerFinds(t)] :
           t \in UNION {[1 .. n -> MCChar] : n \in 0 .. 3}}

FirstArchive == <<"text", "flagged", "image">>
MCArchive ==
  {FirstArchive, <<"other", "image", "text", "flagged">>, <<"flagged", "other", "text">>}

Init ==
  /\ part \in {"character", "text", "document"}
  /\ CharInit
  /\ input \in IF part = "text" THEN Inputs ELSE {Nothing}
  /\ RewriteInit
  /\ part # "document" => type = "docx" /\ entries = FirstArchive

Next ==
  \/ part = "character" /\ CharNext /\ UNCHANGED <<part, input, rewriteVars>>
  \/ part = "document" /\ RewriteNext /\ UNCHANGED <<part, ch, input>>

Spec == Init /\ [][Next]_<<part, ch, input, rewriteVars>>

(* Rules and server censor whole characters, those they found and no other. *)
CensoredAreFound == CensorIsExact(input.text, input.words, input.byTrie, input.answer)

(* The labelling dialog shows the sentence, with its labels on the words.  *)
SentencesShowText == SentenceIsText(input.text, input.words, input.byTrie)
=============================================================================
