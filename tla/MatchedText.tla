----------------------------- MODULE MatchedText -----------------------------
(***************************************************************************)
(* Where the words of a text were found, in three measures: the trie and   *)
(* the regex count bytes, the deep learning server counts characters, the  *)
(* labelling dialog counts the UTF-16 units of Qt.  A text is a sequence   *)
(* of characters; bytes and units are counted from 0, as the code does.    *)
(***************************************************************************)
EXTENDS Integers, SequencesExt

CONSTANTS
  Char,   \* the characters that occur
  Bytes,  \* the length of a character in UTF-8
  Inputs  \* a text, what the regex looks for, and what trie and server found

ASSUME WidthAssumption == Bytes \in [Char -> 1 .. 4]

(* What stands for all that follows the text in the document.              *)
Beyond == "all that follows"
ASSUME BeyondAssumption == Beyond \notin Char

(* QString stores a character of four bytes as a surrogate pair.  (What is  *)
(* beyond the text is not measured.)                                       *)
Units ==
  [c \in Char \cup {Beyond} |-> IF c = Beyond THEN 0 ELSE IF Bytes[c] = 4 THEN 2 ELSE 1]

Total(weight, text) ==
  LET total[i \in 0 .. Len(text)] ==
        IF i = 0 THEN 0 ELSE total[i - 1] + weight[text[i]]
  IN  total[Len(text)]

SizeOf(text)   == Total(Bytes, text)
LengthOf(text) == Total(Units, text)

(* MatchedInfo of the characters from .. to - 1.                           *)
Match(text, from, to) ==
  [index |-> SizeOf(SubSeq(text, 1, from - 1)), size |-> SizeOf(SubSeq(text, from, to - 1))]

(* The trie reports some characters that follow one another, all at         *)
(* boundaries of characters; the server any two numbers.                   *)
IsMatch(m, text) ==
  \E from \in 1 .. Len(text) : \E to \in from + 1 .. Len(text) + 1 : m = Match(text, from, to)

IsInput(x) ==
  /\ x.text \in Seq(Char)
  /\ x.words \in Seq(Seq(Char) \ {<<>>})
  /\ x.byTrie \in Seq([index : Nat, size : Nat])
  /\ \A n \in DOMAIN x.byTrie : IsMatch(x.byTrie[n], x.text)
  /\ x.answer \in Seq([start : Nat, end : Nat])

ASSUME InputsAssumption == \A x \in Inputs : IsInput(x)

-----------------------------------------------------------------------------
StartsAt(text, i, word) ==
  i + Len(word) <= Len(text) + 1 /\ \A j \in DOMAIN word : text[i + j - 1] = word[j]

(* RegexSearch: the first place where a word of the alternation starts,    *)
(* with the first alternative that does, and on from behind it.  (None of  *)
(* the page's expressions matches the empty text, which would go on for    *)
(* ever.)                                                                  *)
MutBehind(i, word) == i + 1
Behind(i, word)    == i + Len(word)

RegexSearch(text, words) ==
  LET At(i) == {k \in DOMAIN words : StartsAt(text, i, words[k])}
      found[i \in 1 .. Len(text) + 1] ==
        IF i > Len(text) THEN <<>>
        ELSE IF At(i) = {} THEN found[i + 1]
        ELSE LET word == words[Min(At(i))]
             IN  <<Match(text, i, i + Len(word))>> \o found[Behind(i, word)]
  IN  found[1]

(* get_string_matched_info_by_rule: not sorted.                            *)
ByRule(text, words, byTrie) == RegexSearch(text, words) \o byTrie

-----------------------------------------------------------------------------
(* build_char_to_byte_map: where each character starts, and the end.       *)
MutCharToByte(text) ==
  [n \in 0 .. Len(text) |-> LengthOf(SubSeq(text, 1, n))]
CharToByte(text) ==
  [n \in 0 .. Len(text) |-> SizeOf(SubSeq(text, 1, n))]

(* get_string_matched_info_by_dl: of the server's answer, what is empty or *)
(* ends outside of the text is left out.                                   *)
ByServer(text, answer) ==
  LET map == CharToByte(text)
      found[n \in 0 .. Len(answer)] ==
        IF n = 0 THEN <<>>
        ELSE LET a == answer[n]
             IN  IF a.start < a.end /\ a.end \in DOMAIN map
                   THEN Append(found[n - 1],
                          [index |-> map[a.start], size |-> map[a.end] - map[a.start]])
                   ELSE found[n - 1]
  IN  found[Len(answer)]

(* censor: the bytes that become "*".                                      *)
Censored(matches) ==
  UNION {matches[n].index .. matches[n].index + matches[n].size - 1 : n \in DOMAIN matches}

-----------------------------------------------------------------------------
(* QString::fromUtf8 of the bytes from .. to - 1, all at boundaries of     *)
(* characters.  A negative length stands for "up to the NUL": the rest of  *)
(* the document.                                                           *)
CharAt(text, byte) ==
  CHOOSE i \in 1 .. Len(text) + 1 : SizeOf(SubSeq(text, 1, i - 1)) = byte

FromUtf8(text, from, to) ==
  IF to < from
    THEN Append(SubSeq(text, CharAt(text, from), Len(text)), Beyond)
    ELSE SubSeq(text, CharAt(text, from), CharAt(text, to) - 1)

(* processMatchedTextSpan: the text before each match, the match with its  *)
(* label, and the rest.                                                    *)
Sentence(text, matches) ==
  LET shown[n \in 0 .. Len(matches)] ==
        IF n = 0 THEN [text |-> <<>>, pos |-> 0, labels |-> <<>>]
        ELSE LET s == shown[n - 1]
                 m == matches[n]
                 before == s.text \o FromUtf8(text, s.pos, m.index)
                 after  == before \o FromUtf8(text, m.index, m.index + m.size)
             IN  [text |-> after, pos |-> m.index + m.size,
                  labels |-> Append(s.labels,
                               [start |-> LengthOf(before), end |-> LengthOf(after)])]
      last == shown[Len(matches)]
  IN  [text |-> last.text \o FromUtf8(text, last.pos, SizeOf(text)), labels |-> last.labels]

(* A text that ends in a match as long as itself is no sentence.           *)
IsLeftOut(text, matches) == matches # <<>> /\ Last(matches).size = SizeOf(text)

-----------------------------------------------------------------------------
(* The bytes of character i.                                               *)
BytesOf(text, i) == Censored(<<Match(text, i, i + 1)>>)

(* Every character is censored whole or not at all: the first one of every *)
(* occurrence of a word of the regex, all that the trie or the server have *)
(* named, and none but those and what belongs to an occurrence.            *)
CensorIsExact(text, words, byTrie, answer) ==
  LET censored == Censored(ByRule(text, words, byTrie) \o ByServer(text, answer))
      Hidden(i) == BytesOf(text, i) \subseteq censored
      Occurs(i) == {k \in DOMAIN words : StartsAt(text, i, words[k])}
      Named(i) ==
        \/ BytesOf(text, i) \subseteq Censored(byTrie)
        \/ \E n \in DOMAIN answer :
             answer[n].start < i /\ i <= answer[n].end /\ answer[n].end <= Len(text)
  IN  /\ censored \subseteq 0 .. SizeOf(text) - 1
      /\ \A i \in DOMAIN text :
           /\ Hidden(i) \/ BytesOf(text, i) \cap censored = {}
           /\ Occurs(i) # {} \/ Named(i) => Hidden(i)
           /\ Hidden(i) => \/ Named(i)
                           \/ \E j \in 1 .. i : \E k \in Occurs(j) : i < j + Len(words[k])

InOrder(matches) ==
  \A n \in 1 .. Len(matches) - 1 :
    matches[n].index + matches[n].size <= matches[n + 1].index

(* What the dialog shows is the text, with a label on the characters of    *)
(* each match, if the matches are in order; they are when the trie found   *)
(* none.  (A match of the trie behind or across the last one of the regex, *)
(* or across another of its own, appends the rest of the document.)  What  *)
(* is left out is all to be censored.                                      *)
SentenceIsText(text, words, byTrie) ==
  LET matches == ByRule(text, words, byTrie)
      s == Sentence(text, matches)
      In(i, n) == BytesOf(text, i) \subseteq Censored(<<matches[n]>>)
      Labelled(i, n) ==
        LET unit == LengthOf(SubSeq(text, 1, i - 1))
        IN  s.labels[n].start <= unit /\ unit < s.labels[n].end
  IN  /\ byTrie = <<>> => InOrder(matches)
      /\ InOrder(matches) =>
           /\ s.text = text
           /\ \A i \in DOMAIN text, n \in DOMAIN matches : Labelled(i, n) <=> In(i, n)
      /\ IsLeftOut(text, matches) => \A i \in DOMAIN text : BytesOf(text, i) \subseteq Censored(matches)
=============================================================================
