----------------------------- MODULE PatternTrie -----------------------------
(***************************************************************************)
(* The pointer trie DoubleArrayTrie::build makes of the patterns before it  *)
(* lays it out in arrays (DoubleArrayTrie.hpp 163-268).  A Trie node is the *)
(* sequence of codes that leads to it, so child_node_map_ is "append the    *)
(* code"; the fail links and the matched sizes are functions on the nodes.  *)
(*                                                                          *)
(* A pattern or a text is a sequence of characters.  A character has the    *)
(* code char_code gives it (0 when the trie does not support it, or when a  *)
(* pattern ends within it) and its number of bytes; a Junk byte is one that *)
(* no UTF-8 character starts with, or one of a character a text ends        *)
(* within, which search passes over byte by byte.                           *)
(***************************************************************************)
EXTENDS Integers, SequencesExt

CONSTANT Code                        \* the nonzero codes that occur

ASSUME CodeAssumption == Code \subseteq Nat \ {0}

Junk      == [code |-> -1, width |-> 1]
Character == [code : Code \cup {0}, width : 1 .. 4] \cup {Junk}
Root      == <<>>

(* pattern_string.size() / _search_string.size(): bytes, Junk included.     *)
Bytes(string) ==
  LET bytes[i \in 0 .. Len(string)] ==
        IF i = 0 THEN 0 ELSE bytes[i - 1] + string[i].width
  IN  bytes[Len(string)]

(* The path build walks for a pattern: a Junk byte is skipped (211-213).    *)
Path(pattern) ==
  LET path[i \in 0 .. Len(pattern)] ==
        IF i = 0 THEN Root
        ELSE IF pattern[i] = Junk THEN path[i - 1]
        ELSE Append(path[i - 1], pattern[i].code)
  IN  path[Len(pattern)]

(* build throws on a truncated or an unsupported character (192-220).       *)
Unsupported(pattern) == \E i \in DOMAIN pattern : pattern[i].code = 0

NodesOf(words) == {Root} \cup UNION {Prefixes(Path(words[i])) : i \in DOMAIN words}

ChildCodes(nodes, n) == {c \in Code : Append(n, c) \in nodes}

(* matched_size_ as the first pass leaves it: the last pattern that ends at *)
(* the node writes its size (234).                                          *)
OwnSize(words, n) ==
  LET ending == {i \in DOMAIN words : Path(words[i]) = n}
  IN  IF ending = {} THEN 0 ELSE Bytes(words[Max(ending)])

(* fail_node_ (249-263): from the parent's fail node, up the fail links to  *)
(* a node that has a child for the last code, or to the root.  Breadth      *)
(* first, the shorter nodes have their links.                               *)
FailNode(nodes) ==
  LET fail[n \in nodes] ==
        IF Len(n) <= 1 THEN Root
        ELSE LET c == Last(n)
                 dest[d \in {m \in nodes : Len(m) < Len(n)}] ==
                   IF d # Root /\ Append(d, c) \notin nodes THEN dest[fail[d]] ELSE d
                 stop == dest[fail[Front(n)]]
             IN  IF Append(stop, c) \in nodes THEN Append(stop, c) ELSE stop
  IN  fail

(* matched_size_ after the breadth-first pass (264).  The children of the   *)
(* root are queued without the pass.                                        *)
MutMatchedSize(words, nodes) == [n \in nodes |-> OwnSize(words, n)]
MatchedSize(words, nodes) ==
  LET fail == FailNode(nodes)
      matched[n \in nodes] ==
        IF Len(n) <= 1 THEN OwnSize(words, n)
        ELSE Max({OwnSize(words, n), matched[fail[n]]})
  IN  matched

-----------------------------------------------------------------------------
(* What a search is for, without a trie: the bytes of the text that belong  *)
(* to an occurrence of a pattern.  Bytes are numbered from 0.               *)
Occurs(pattern, text, k) ==
  /\ Path(pattern) # <<>>
  /\ k + Len(pattern) <= Len(text)
  /\ \A i \in DOMAIN pattern : text[k + i].code = pattern[i].code

BytesToCensor(words, text) ==
  UNION { UNION { Bytes(SubSeq(text, 1, k)) .. Bytes(SubSeq(text, 1, k + Len(words[i]))) - 1
                  : k \in {k \in 0 .. Len(text) : Occurs(words[i], text, k)} }
          : i \in DOMAIN words }

Clean(string) == \A i \in DOMAIN string : string[i] # Junk
=============================================================================
