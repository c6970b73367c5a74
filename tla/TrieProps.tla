------------------------------ MODULE TrieProps ------------------------------
(***************************************************************************)
(* What DoubleArrayTrie promises, as properties of its steps.               *)
(***************************************************************************)
EXTENDS DoubleArrayTrie

Building == {"visit", "dense", "chain"}

Built      == pc \in {"ready", "search"} /\ "thrown" \notin damage
Undamaged  == damage = {}
SearchDone == pc = "search" /\ search.at > Len(search.text)

Found == UNION {m.index .. m.index + m.size - 1 : m \in Range(search.found)}
CleanWords == \A i \in DOMAIN words : Clean(words[i])

(* Two nodes never share a slot, also where base 0 makes the code place     *)
(* children twice; only a chain that holds slot 0 can break it.             *)
SlotsDistinct ==
  "leftover" \notin damage =>
    \A m, n \in nodes : slot[m] # 0 /\ slot[m] = slot[n] => m = n

-----------------------------------------------------------------------------
(* What every step of a build keeps, and SlotsDistinct and TriesStayInside  *)
(* follow from: the arrays have their length, the queues hold slots a node  *)
(* may start its children at, every frame is a node below the root that has *)
(* its slot, and a node that has a slot is seen as taken there.             *)
Orderly  == "leftover" \notin damage
Choosing == pc \in {"dense", "chain"}

ArraysShaped ==
  /\ capacity \in Nat /\ capacity > MaxCode
  /\ base \in [Slots -> Int] /\ check \in [Slots -> Slots]
  /\ Root \in nodes /\ slot \in [nodes -> Slots]

QueuesInRange ==
  /\ chain \in Seq(0 .. MaxChain(capacity)) /\ dense \in Seq(0 .. MaxChain(capacity))
  /\ left \in Nat /\ (pc = "chain" => left <= Len(chain))
  /\ pc \notin Building \cup {"crashed"} => dense = <<>>
  /\ pc \in Building /\ Orderly =>
       /\ \A i \in DOMAIN chain : chain[i] # 0
       /\ \A i \in DOMAIN dense : dense[i] # 0

FrameOK(f) ==
  /\ f.node \in nodes /\ f.node \in Seq(Code)
  /\ f.child \in 0 .. Cardinality(ChildCodes(nodes, f.node))
  /\ f.vec \in Seq(ChildCodes(nodes, f.node))
  /\ Orderly => slot[f.node] # 0

ChildrenPlaced(f) ==
  Orderly => \A j \in DOMAIN f.vec : slot[Append(f.node, f.vec[j])] # 0

StackShaped ==
  /\ stack \in Seq([node : Seq(Code), child : Nat, vec : Seq(Code)])
  /\ pc \notin Building \cup {"crashed"} => stack = <<>>
  /\ \A i \in DOMAIN stack : FrameOK(stack[i])
  /\ \A i \in DOMAIN stack : i < Len(stack) \/ pc = "visit" => ChildrenPlaced(stack[i])

VecReady ==
  Choosing =>
    /\ stack # <<>>
    /\ Frame.child < Len(Frame.vec) /\ Frame.child < Cardinality(Kids)
    /\ \A i \in DOMAIN Frame.vec : Frame.vec[1] <= Frame.vec[i]

PlacedApart ==
  /\ "thrown" \in damage => nodes = {Root} /\ pc \in {"ready", "search"}
  /\ Orderly /\ "thrown" \notin damage =>
       \A n \in nodes : slot[n] # 0 => check[slot[n]] # 0
  /\ SlotsDistinct

LayoutInv == ArraysShaped /\ QueuesInRange /\ StackShaped /\ VecReady /\ PlacedApart

-----------------------------------------------------------------------------
(* What a build that nothing went wrong before or in also keeps, and        *)
(* OrderlyBuildsEnd and ArraysAreTheTrie follow from.  The stack is the     *)
(* path to the node the build is at.  A node is ahead of a frame if it lies *)
(* below the frame's node, behind a child the build has yet to descend to.  *)
Seen(f)     == {f.vec[k] : k \in 1 .. f.child}
Ahead(f, n) == IsStrictPrefix(f.node, n) /\ n[Len(f.node) + 1] \notin Seen(f)
Waiting(i)  == stack[i].vec = <<>> \/ (Choosing /\ i = Len(stack))

PrefixesAreNodes == nodes \subseteq Seq(Code) /\ \A n \in nodes : Prefixes(n) \subseteq nodes

StackIsPath ==
  \A i, j \in DOMAIN stack :
    /\ Len(stack[i].node) = i - 1
    /\ i < j => stack[j].node[i] \in Seen(stack[i])

(* curr_child_vec is empty, or has each child once.                         *)
VecsAreKids ==
  /\ \A i \in DOMAIN stack :
       /\ stack[i].child <= Len(stack[i].vec)
       /\ stack[i].vec # <<>> =>
            /\ IsInjective(stack[i].vec)
            /\ Len(stack[i].vec) = Cardinality(ChildCodes(nodes, stack[i].node))
            /\ Range(stack[i].vec) = ChildCodes(nodes, stack[i].node)
       /\ base[slot[stack[i].node]] # 0 => stack[i].vec # <<>>
  /\ Choosing => Frame.child = 0 /\ base[Index] = 0

(* What has no slot yet is ahead; and what is ahead has no slot, unless it  *)
(* is a child of a frame whose children were placed.                        *)
UnplacedIsAhead ==
  /\ \A n \in nodes : slot[n] = 0 => \E i \in DOMAIN stack : Ahead(stack[i], n)
  /\ \A i \in DOMAIN stack : \A n \in nodes :
       Ahead(stack[i], n) => /\ slot[n] # 0 => base[slot[n]] = 0
                             /\ Len(n) > i \/ Waiting(i) => slot[n] = 0

(* A slot in use is that of a node, which lies where its parent's base says. *)
SlotsAreNodes ==
  /\ slot[Root] = k_root_index_
  /\ \A n \in nodes \ {Root} : slot[n] # 0 =>
       /\ slot[Front(n)] # 0 /\ check[slot[n]] = slot[Front(n)]
       /\ slot[n] = base[slot[Front(n)]] + Last(n)
  /\ \A s \in Slots : /\ base[s] # 0 => check[s] # 0
                      /\ check[s] # 0 => \E n \in nodes : slot[n] = s /\ s # 0

FailLinksWritten ==
  pc \in {"ready", "search"} =>
    \A n \in nodes \ {Root} : failLink[slot[n]] = slot[FailNode(nodes)[n]]

BuildInv ==
  Undamaged => /\ pc # "crashed" /\ PrefixesAreNodes /\ StackIsPath /\ VecsAreKids
               /\ UnplacedIsAhead /\ SlotsAreNodes /\ FailLinksWritten

-----------------------------------------------------------------------------
(* What such a build and the searches after it keep, and SearchIsExact      *)
(* follows from.  A node that has a slot has its matched size there, and a  *)
(* code leads nowhere but the root to the root.                             *)
OutputsWritten ==
  /\ words \in Dictionaries \cup {<<>>} /\ nodes = NodesOf(words)
  /\ \A i \in DOMAIN words : ~Unsupported(words[i])
  /\ DOMAIN output = Slots /\ output[k_root_index_] = 0
  /\ check[k_root_index_] = k_root_index_
  /\ \A n \in nodes \ {Root} :
       slot[n] # 0 => output[slot[n]] = MatchedSize(words, nodes)[n]

OutputsInv == Undamaged => OutputsWritten

(* s is how n ends.                                                         *)
Ends(s, n) ==
  Len(s) <= Len(n) /\ \A j \in 1 .. Len(s) : s[j] = n[Len(n) - Len(s) + j]

(* The search is at a node that the characters read end with; and so does   *)
(* that node with every node they end with, but those the next character    *)
(* cannot be added to.                                                      *)
Read  == SubSeq(search.text, 1, search.at - 1)
At(n) ==
  /\ search.curr = slot[n] /\ Ends(n, Path(Read))
  /\ \A m \in nodes : Ends(m, Path(Read)) =>
       Ends(m, n) \/ (Reading /\ Char # Junk /\ Append(m, Char.code) \notin nodes)

WalkInv ==
  Undamaged /\ pc = "search" =>
    /\ search.text \in Texts /\ search.at \in 1 .. Len(search.text) + 1
    /\ \E n \in nodes : At(n)

(* What decoding well-formed UTF-8 gives: a code has one width.             *)
Alike(p, r) ==
  \A i \in DOMAIN p : \A j \in DOMAIN r : p[i].code = r[j].code => p[i].width = r[j].width

WellFormed ==
  /\ \A i \in DOMAIN words : Alike(words[i], search.text)
  /\ Bytes(search.text) <= Wrap

(* The matches so far hold the bytes of the occurrences read so far.        *)
Match == [index : Nat, size : Nat \ {0}]
InMatches(found, x) ==
  \E i \in DOMAIN found : found[i].index <= x /\ x < found[i].index + found[i].size

EndHere(ws, t, e, x) ==
  \E i \in DOMAIN ws :
    /\ Len(ws[i]) <= e /\ Occurs(ws[i], t, e - Len(ws[i]))
    /\ Bytes(SubSeq(t, 1, e - Len(ws[i]))) <= x /\ x < Bytes(SubSeq(t, 1, e))

MatchesTo(ws, found, t, e) ==
  /\ found \in Seq(Match)
  /\ \A i \in DOMAIN found : found[i].index + found[i].size <= Bytes(SubSeq(t, 1, e))
  /\ Clean(t) =>
       \A x \in 0 .. Bytes(t) :
         InMatches(found, x) <=> \E k \in 1 .. e : EndHere(ws, t, k, x)

MatchInv ==
  Undamaged /\ pc = "search" /\ CleanWords /\ WellFormed =>
    MatchesTo(words, search.found, search.text, search.at - 1)

-----------------------------------------------------------------------------
(* The arrays are the pointer trie: two nodes never share a slot, and from  *)
(* the slot of a node a code leads to the slot of its child, to nothing     *)
(* when it has none, and the fail link to the slot of its fail node.  (The  *)
(* root is its own parent in check: a code may lead it to itself, which     *)
(* leaves the search where it is.)                                          *)
ArraysAreTheTrie ==
  Built /\ Undamaged =>
    LET fail == FailNode(nodes)
        leads(s, c) ==
          base[s] + c \in Slots \ {k_root_index_} /\ check[base[s] + c] = s
    IN  /\ \A m, n \in nodes : slot[m] = slot[n] => m = n
        /\ \A n \in nodes : \A c \in Code :
             /\ leads(slot[n], c) <=> Append(n, c) \in nodes
             /\ leads(slot[n], c) => slot[Append(n, c)] = base[slot[n]] + c
        /\ \A n \in nodes \ {Root} : failLink[slot[n]] = slot[fail[n]]

(* Every byte the caller will overwrite lies in the text, Junk bytes in the *)
(* text included.  (Not so in the arrays of a node that was placed twice: a *)
(* code may lead to the first slot of a child with a wider one.)            *)
FoundInText ==
  pc = "search" /\ CleanWords => Found \subseteq 0 .. Bytes(search.text) - 1

(* A search finds the bytes of every occurrence of a pattern and no others, *)
(* though it reports one match per end position at most and merges them;    *)
(* before it is done it has found bytes of the text only.                   *)
SearchIsExact ==
  Undamaged /\ WellFormed =>
    /\ FoundInText
    /\ SearchDone /\ CleanWords /\ Clean(search.text) =>
         Found = BytesToCensor(words, search.text)

(* The same without the condition on how the arrays were made.              *)
SearchFindsEveryWord ==
  SearchDone /\ Built /\ damage \subseteq {"relocated"} /\ CleanWords /\ Clean(search.text) =>
    BytesToCensor(words, search.text) \subseteq Found

(* Every child slot the placing loop may try lies in the arrays: empty_node *)
(* checks its index, the writes that follow do not.                         *)
TriesStayInside ==
  pc = "chain" /\ left > 0 =>
    \A i \in DOMAIN Frame.vec : Head(chain) - MinCode + Frame.vec[i] \in Slots

(* An orderly build never reaches the read past the end of curr_child_vec.  *)
OrderlyBuildsEnd == pc = "crashed" => ~Undamaged

(* Placing ends.  So does a search, unless the build before it ran on the   *)
(* slots an exception had left in the chain.                                *)
BuildEnds  == pc \in Building ~> pc \notin Building
SearchEnds == pc = "search" /\ "leftover" \notin damage ~> pc # "search"
TrieEnds   == BuildEnds /\ SearchEnds
=============================================================================
