--------------------------- MODULE DoubleArrayTrie ---------------------------
(***************************************************************************)
(* DoubleArrayTrie: the Aho-Corasick automaton of the prohibited words, in  *)
(* two arrays.  Node s moves on code c to base[s] + c when check there is   *)
(* s.  The state is the members of the class (DoubleArrayTrie.hpp 129-140), *)
(* the locals of build while it lays the nodes out, and the locals of one   *)
(* search.  A rebuild excludes searches (FilteringInterface takes           *)
(* trie_mutex_ exclusively), so one control variable drives both.           *)
(***************************************************************************)
EXTENDS PatternTrie

CONSTANTS
  MaxCode,          \* k_max_val_of_char_code_
  BlockSize,        \* k_block_size_
  Increase,         \* k_map_increase_size_
  Dictionaries,     \* the pattern lists rebuild may be given
  Texts,            \* the strings search may be given
  MaxThrows         \* how many rebuilds may throw (bound)

ASSUME SizesAssumption ==
  /\ MaxCode \in Nat \ {0} /\ \A c \in Code : c <= MaxCode
  /\ BlockSize \in Nat \ {0}
  /\ Increase \in Nat \ {0}
  /\ MaxThrows \in Nat

ASSUME InputsAssumption ==
  Dictionaries \subseteq Seq(Seq(Character)) /\ Texts \subseteq Seq(Character)

VARIABLES
  capacity,       \* element_capacity_; map_size_ is capacity \div BlockSize
  base, check, failLink, output,     \* the four arrays, 0 .. capacity - 1
  used, blockFails,                  \* per block: nodes placed, failed tries
  chain, dense,                      \* chain_queue_, dense_chain_queue_
  words,          \* the patterns of the last rebuild
  nodes, slot,    \* the pointer trie and dat_index_ of its nodes
  stack,          \* set_index_entry_stk, top last
  left,           \* iterations the chain loop of get_proper_base has left
  pc,             \* where the code is
  search,         \* the locals of search
  damage          \* history: what went wrong since the arrays were last right

arrays   == <<base, check, failLink, output>>
blocks   == <<used, blockFails>>
queues   == <<chain, dense>>
pointers == <<words, nodes>>
vars == <<capacity, arrays, blocks, queues, pointers, slot, stack, left, pc, search, damage>>

k_root_index_ == 1
Threshold     == BlockSize \div 2    \* both block thresholds
Slots         == 0 .. capacity - 1
Block(s)      == s \div BlockSize    \* get_block_index
Empty(s)      == check[s] = 0        \* empty_node
Sparse(s)     == used[Block(s)] < Threshold /\ blockFails[Block(s)] < Threshold

(* max_chain_node_index: beyond it a child could fall outside the arrays.   *)
MaxChain(cap) == IF cap > MaxCode THEN cap - MaxCode ELSE 0

(* What reserve_trie makes of a capacity: it adds a step, and goes on while *)
(* no slot is left for the chain.                                           *)
Step == Increase * BlockSize
Grown(cap) ==
  {cap + k * Step : k \in {k \in 1 .. MaxCode + 1 :
     /\ cap + k * Step > MaxCode
     /\ k > 1 => cap + (k - 1) * Step <= MaxCode}}

Zeros(size) == [i \in 0 .. size - 1 |-> 0]
Numbers(from, to) == [i \in 1 .. to - from + 1 |-> from + i - 1]
Extended(array, size) ==
  [i \in 0 .. size - 1 |-> IF i \in DOMAIN array THEN array[i] ELSE 0]

NoSearch == [text |-> <<>>, at |-> 1, curr |-> k_root_index_, found |-> <<>>]

(* The constructor: reserve_trie, drop slot 0 from the chain, and build for *)
(* the empty pattern, which places the root and empties the queues.         *)
Init ==
  \E cap \in Grown(0) :
      /\ capacity = cap
      /\ base = Zeros(cap) /\ failLink = Zeros(cap) /\ output = Zeros(cap)
      /\ check = [Zeros(cap) EXCEPT ![k_root_index_] = 1]
      /\ used = [Zeros(cap \div BlockSize) EXCEPT ![0] = 1]
      /\ blockFails = Zeros(cap \div BlockSize)
      /\ chain = <<>> /\ dense = <<>>
      /\ words = <<>> /\ nodes = {Root} /\ slot = [n \in {Root} |-> k_root_index_]
      /\ stack = <<>> /\ left = 0
      /\ pc = "ready" /\ search = NoSearch /\ damage = {}

-----------------------------------------------------------------------------
(* rebuild: erase_all, then the part of build that fills the pointer trie.  *)
(* erase_all refills the chain behind whatever an earlier exception left in *)
(* it and drops the first slot only.                                        *)
MutErasedBase == base
ErasedBase == Zeros(capacity)

Erase(unplaced) ==
  LET slots == Zeros(capacity)
      empty == Zeros(capacity \div BlockSize)
  IN
  /\ base' = ErasedBase /\ failLink' = slots /\ output' = slots
  /\ check' = IF unplaced THEN slots ELSE [slots EXCEPT ![k_root_index_] = 1]
  /\ blockFails' = empty
  /\ used' = IF unplaced THEN empty ELSE [empty EXCEPT ![0] = 1]
  /\ chain' = Tail(chain \o Numbers(0, MaxChain(capacity)))

Rebuild(ws) ==
  /\ pc = "ready"
  /\ \A i \in DOMAIN ws : ~Unsupported(ws[i])
  /\ Erase(FALSE)
  /\ words' = ws /\ nodes' = NodesOf(ws)
  /\ slot' = [[n \in nodes' |-> 0] EXCEPT ![Root] = k_root_index_]
  /\ stack' = <<[node |-> Root, child |-> 0, vec |-> <<>>]>>
  /\ pc' = "visit" /\ search' = NoSearch
  /\ damage' = IF chain = <<>> THEN {} ELSE {"leftover"}
  /\ UNCHANGED <<capacity, dense, left>>

(* build throws at an unsupported character: the arrays are erased, not     *)
(* even the root is placed, and the chain stays full.                       *)
RebuildThrows(ws) ==
  /\ pc = "ready"
  /\ \E i \in DOMAIN ws : Unsupported(ws[i])
  /\ Len(chain) < MaxThrows * (MaxChain(capacity) + 1)
  /\ Erase(TRUE)
  /\ words' = ws /\ nodes' = {Root} /\ slot' = [n \in {Root} |-> k_root_index_]
  /\ search' = NoSearch /\ damage' = {"thrown"}
  /\ UNCHANGED <<capacity, dense, stack, left, pc>>

-----------------------------------------------------------------------------
Frame == Last(stack)
Index == slot[Frame.node]
Kids  == ChildCodes(nodes, Frame.node)
Top(frame) == Front(stack) \o <<frame>>
Child(code) == [node |-> Append(Frame.node, code), child |-> 0, vec |-> <<>>]

(* The else branch of the placing loop (333-336).                           *)
PopNode ==
  /\ pc = "visit" /\ stack # <<>>
  /\ Frame.child = Cardinality(Kids)
  /\ stack' = Front(stack)
  /\ UNCHANGED <<capacity, arrays, blocks, queues, pointers, slot, left, pc, search, damage>>

(* curr_child_vec after the children were appended to it and sorted.        *)
Count(vec, c) == Cardinality({i \in DOMAIN vec : vec[i] = c})
Collected(vec) ==
  {v \in [1 .. Len(vec) + Cardinality(Kids) -> Kids] :
     /\ \A c \in Kids : Count(v, c) = Count(vec, c) + 1
     /\ \A i, j \in DOMAIN v : i <= j => v[i] <= v[j]}

(* base 0 reads as "not placed yet" (293-309): the children are collected,  *)
(* also when they were placed at base 0 before, and then for a second time. *)
CollectChildren ==
  /\ pc = "visit" /\ stack # <<>>
  /\ Frame.child # Cardinality(Kids)
  /\ base[Index] = 0
  /\ \E v \in Collected(Frame.vec) : stack' = Top([Frame EXCEPT !.vec = v])
  /\ pc' = "dense"
  /\ damage' = IF Frame.vec = <<>> THEN damage ELSE damage \cup {"relocated"}
  /\ UNCHANGED <<capacity, arrays, blocks, queues, pointers, slot, left, search>>

(* The next child (325-330).  Reading past the end of curr_child_vec is     *)
(* undefined; the program is not followed any further.                      *)
Descend ==
  /\ pc = "visit" /\ stack # <<>>
  /\ Frame.child # Cardinality(Kids)
  /\ base[Index] # 0
  /\ IF Frame.child < Len(Frame.vec)
       THEN /\ stack' = Append(Top([Frame EXCEPT !.child = @ + 1]),
                               Child(Frame.vec[Frame.child + 1]))
            /\ pc' = pc
       ELSE pc' = "crashed" /\ stack' = stack
  /\ UNCHANGED <<capacity, arrays, blocks, queues, pointers, slot, left, search, damage>>

(* Lines 311-330: the base is set, the children take their slots, and the   *)
(* same iteration goes on to the next child.                                *)
Place(b) ==
  LET vec  == Frame.vec
      took == {b + vec[i] : i \in DOMAIN vec}
      code(s) == s - b
      times(k) == Cardinality({i \in DOMAIN vec : Block(b + vec[i]) = k})
      matched == MatchedSize(words, nodes)
  IN  /\ base'   = [base EXCEPT ![Index] = b]
      /\ check'  = [s \in Slots |-> IF s \in took THEN Index ELSE check[s]]
      /\ output' = [s \in Slots |-> IF s \in took
                                      THEN matched[Append(Frame.node, code(s))]
                                      ELSE output[s]]
      /\ slot'   = [n \in nodes |-> IF \E i \in DOMAIN vec : n = Append(Frame.node, vec[i])
                                      THEN b + Last(n) ELSE slot[n]]
      /\ used'   = [k \in DOMAIN used |-> used[k] + times(k)]
      /\ stack'  = Append(Top([Frame EXCEPT !.child = @ + 1]), Child(vec[Frame.child + 1]))
      /\ pc'     = "visit"
      /\ UNCHANGED <<capacity, failLink, pointers, search, damage>>

MinCode == Frame.vec[1]              \* vec is sorted

(* get_proper_base, a step per iteration of its loops.  A single child may  *)
(* take a slot that was given up as dense (222-234).                        *)
TryDense ==
  /\ pc = "dense" /\ Len(Frame.vec) = 1 /\ dense # <<>>
  /\ dense' = Tail(dense)
  /\ UNCHANGED <<chain, blockFails, left>>
  /\ IF Empty(Head(dense))
       THEN Place(Head(dense) - MinCode)
       ELSE UNCHANGED <<capacity, arrays, used, pointers, slot, stack, pc, search, damage>>

StartChain ==
  /\ pc = "dense" /\ (Len(Frame.vec) = 1 => dense = <<>>)
  /\ left' = Len(chain) /\ pc' = "chain"
  /\ UNCHANGED <<capacity, arrays, blocks, queues, pointers, slot, stack, search, damage>>

SkipTaken ==
  /\ pc = "chain" /\ left > 0 /\ ~Empty(Head(chain))
  /\ chain' = Tail(chain) /\ left' = left - 1
  /\ UNCHANGED <<capacity, arrays, blocks, dense, pointers, slot, stack, pc, search, damage>>

GiveUpDense ==
  /\ pc = "chain" /\ left > 0 /\ Empty(Head(chain)) /\ ~Sparse(Head(chain))
  /\ chain' = Tail(chain) /\ left' = left - 1
  /\ dense' = Append(dense, Head(chain))
  /\ UNCHANGED <<capacity, arrays, blocks, pointers, slot, stack, pc, search, damage>>

MutFits(b) == Empty(b + MinCode)
Fits(b) == \A i \in DOMAIN Frame.vec : Empty(b + Frame.vec[i])

TryChain ==
  LET s == Head(chain)
      b == s - MinCode
      k == Block(s)
  IN  /\ pc = "chain" /\ left > 0 /\ Empty(s) /\ Sparse(s)
      /\ left' = left - 1 /\ dense' = dense
      /\ IF Fits(b)
           THEN /\ chain' = Tail(chain)
                /\ blockFails' = [blockFails EXCEPT ![k] = 0]
                /\ Place(b)
           ELSE /\ chain' = Append(Tail(chain), s)
                /\ blockFails' = [blockFails EXCEPT ![k] = IF @ < Threshold THEN @ + 1 ELSE @]
                /\ UNCHANGED <<capacity, arrays, used, pointers, slot, stack, pc, search, damage>>

(* reserve_trie: longer arrays, more chain, and half of every fail count.   *)
Reserve ==
  \E cap \in Grown(capacity) :
      /\ pc = "chain" /\ left = 0
      /\ capacity' = cap
      /\ base' = Extended(base, cap) /\ check' = Extended(check, cap)
      /\ failLink' = Extended(failLink, cap) /\ output' = Extended(output, cap)
      /\ used' = Extended(used, cap \div BlockSize)
      /\ blockFails' = [k \in DOMAIN used' |->
                          Extended(blockFails, cap \div BlockSize)[k] \div 2]
      /\ chain' = chain \o Numbers(MaxChain(capacity), MaxChain(cap))
      /\ pc' = "dense"
      /\ UNCHANGED <<dense, pointers, slot, stack, left, search, damage>>

(* After the last pop: the queues are emptied and the fail links written    *)
(* breadth first (339-363).  Nodes that share a slot write it one after the *)
(* other; siblings come in any order.                                       *)
FinishBuild ==
  LET fail == FailNode(nodes)
      owners(s) == {n \in nodes \ {Root} : slot[n] = s}
      last(s)   == {n \in owners(s) : \A m \in owners(s) : Len(m) <= Len(n)}
      links(s)  == {slot[fail[n]] : n \in last(s)}
      contested == {s \in Slots : Cardinality(links(s)) > 1}
  IN  /\ pc = "visit" /\ stack = <<>>
      /\ chain' = <<>> /\ dense' = <<>>
      /\ \E h \in [contested -> Slots] :
           /\ \A s \in contested : h[s] \in links(s)
           /\ failLink' = [s \in Slots |-> IF s \in contested THEN h[s]
                                          ELSE IF links(s) = {} THEN failLink[s]
                                          ELSE CHOOSE l \in links(s) : TRUE]
      /\ pc' = "ready"
      /\ UNCHANGED <<capacity, base, check, output, blocks, pointers, slot, stack, left, search, damage>>

-----------------------------------------------------------------------------
(* search, a step per iteration of its loops.                               *)
BeginSearch(t) ==
  /\ pc = "ready"
  /\ pc' = "search" /\ search' = [NoSearch EXCEPT !.text = t]
  /\ UNCHANGED <<capacity, arrays, blocks, queues, pointers, slot, stack, left, damage>>

Reading  == pc = "search" /\ search.at <= Len(search.text)
Char     == search.text[search.at]
NextNode == base[search.curr] + Char.code       \* a negative sum wraps beyond the arrays
MutAtRoot == FALSE
AtRoot   == search.curr = k_root_index_
Hit      == NextNode \in Slots /\ check[NextNode] = search.curr

SkipJunk ==
  /\ Reading /\ Char = Junk
  /\ search' = [search EXCEPT !.at = @ + 1]
  /\ UNCHANGED <<capacity, arrays, blocks, queues, pointers, slot, stack, left, pc, damage>>

FollowFail ==
  /\ Reading /\ Char # Junk
  /\ ~AtRoot /\ ~Hit
  /\ search' = [search EXCEPT !.curr = failLink[@]]
  /\ UNCHANGED <<capacity, arrays, blocks, queues, pointers, slot, stack, left, pc, damage>>

(* size_t arithmetic; 2^30 stands for 2^64, what matters is that a negative *)
(* start index becomes a very large one.                                    *)
Wrap     == 1073741824
SizeT(n) == n % Wrap

(* The index a match starts at (72), from the first byte of its last        *)
(* character.                                                               *)
Start(here, width, size) == SizeT(here + (width - 1) - (size - 1))

(* A match replaces the one before it when it covers it (69-102).  Its own  *)
(* end is taken at the first byte of its last character.                    *)
Recorded(found, here, width, size) ==
  LET new   == [index |-> Start(here, width, size), size |-> size]
      front == Last(found)
  IN  IF /\ found # <<>>
         /\ new.index <= front.index
         /\ here >= SizeT(front.index + front.size - 1)
        THEN Append(Front(found), new)
        ELSE Append(found, new)

Consume ==
  LET curr == IF Hit THEN NextNode ELSE search.curr
      here == Bytes(SubSeq(search.text, 1, search.at - 1))
  IN  /\ Reading /\ Char # Junk
      /\ AtRoot \/ Hit
      /\ search' = [search EXCEPT
                      !.at = @ + 1,
                      !.curr = curr,
                      !.found = IF output[curr] = 0 THEN @
                                ELSE Recorded(@, here, Char.width, output[curr])]
      /\ UNCHANGED <<capacity, arrays, blocks, queues, pointers, slot, stack, left, pc, damage>>

EndSearch ==
  /\ pc = "search" /\ search.at > Len(search.text)
  /\ pc' = "ready" /\ search' = NoSearch
  /\ UNCHANGED <<capacity, arrays, blocks, queues, pointers, slot, stack, left, damage>>

-----------------------------------------------------------------------------
BuildStep ==
  \/ PopNode \/ CollectChildren \/ Descend
  \/ TryDense \/ StartChain \/ SkipTaken \/ GiveUpDense \/ TryChain \/ Reserve
  \/ FinishBuild

SearchStep == SkipJunk \/ FollowFail \/ Consume \/ EndSearch

Next ==
  \/ \E ws \in Dictionaries : Rebuild(ws) \/ RebuildThrows(ws)
  \/ \E t \in Texts : BeginSearch(t)
  \/ BuildStep
  \/ SearchStep

Spec     == Init /\ [][Next]_vars
(* rebuild and search run to their end once called.                         *)
FairSpec == Spec /\ WF_vars(BuildStep) /\ WF_vars(SearchStep)
=============================================================================
