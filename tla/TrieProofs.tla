------------------------------ MODULE TrieProofs ------------------------------
(***************************************************************************)
(* What every step of a build of the trie keeps (LayoutInv of TrieProps)    *)
(* and what it keeps when nothing goes wrong (BuildInv), for every          *)
(* dictionary, every text and every size of the arrays: the arrays become   *)
(* the pointer trie.  What the searches after it keep (OutputsInv, WalkInv  *)
(* and MatchInv): they find the bytes of the words and no others.           *)
(***************************************************************************)
EXTENDS TrieProps, SequenceFacts, FiniteSetTheorems

LEMMA TopElement ==
  ASSUME NEW F, NEW s \in Seq(F), s # <<>>
  PROVE  /\ Len(s) \in Nat \ {0} /\ Last(s) = s[Len(s)] /\ Last(s) \in F
         /\ Front(s) \in Seq(F) /\ Len(Front(s)) = Len(s) - 1
         /\ \A i \in 1 .. Len(s) - 1 : Front(s)[i] = s[i]
  <1>1. Len(s) \in Nat \ {0} /\ Len(s) - 1 \in 0 .. Len(s)
    OBVIOUS
  <1>2. s[Len(s)] \in F
    BY <1>1
  <1> QED
    BY <1>1, <1>2, SubSeqElements DEF Front, Last

LEMMA Pushed ==
  ASSUME NEW F, NEW s \in Seq(F), NEW f \in F
  PROVE  /\ Append(s, f) \in Seq(F) /\ Len(Append(s, f)) = Len(s) + 1
         /\ \A i \in 1 .. Len(s) : Append(s, f)[i] = s[i]
         /\ Append(s, f)[Len(s) + 1] = f
         /\ Last(Append(s, f)) = f /\ Append(s, f) # <<>>
  BY DEF Last

LEMMA TopReplaced ==
  ASSUME NEW F, NEW s \in Seq(F), s # <<>>, NEW f \in F
  PROVE  /\ Front(s) \o <<f>> \in Seq(F) /\ Len(Front(s) \o <<f>>) = Len(s)
         /\ \A i \in 1 .. Len(s) - 1 : (Front(s) \o <<f>>)[i] = s[i]
         /\ (Front(s) \o <<f>>)[Len(s)] = f
         /\ Last(Front(s) \o <<f>>) = f
  <1> DEFINE front == Front(s)
  <1>1. /\ Len(s) \in Nat \ {0} /\ front \in Seq(F) /\ Len(front) = Len(s) - 1
        /\ \A i \in 1 .. Len(s) - 1 : front[i] = s[i]
    BY TopElement
  <1> HIDE DEF front
  <1>2. <<f>> \in Seq(F) /\ Len(<<f>>) = 1 /\ <<f>>[1] = f
    OBVIOUS
  <1>3. /\ front \o <<f>> \in Seq(F) /\ Len(front \o <<f>>) = Len(s)
        /\ \A i \in 1 .. Len(s) - 1 : (front \o <<f>>)[i] = s[i]
        /\ (front \o <<f>>)[Len(s)] = f
    BY <1>1, <1>2, ConcatElements
  <1> QED
    BY <1>1, <1>3 DEF front, Last

LEMMA Taken ==
  ASSUME NEW F, NEW s \in Seq(F), s # <<>>
  PROVE  /\ Head(s) = s[1] /\ Head(s) \in F
         /\ Tail(s) \in Seq(F) /\ Len(Tail(s)) = Len(s) - 1
         /\ \A i \in 1 .. Len(s) - 1 : Tail(s)[i] = s[i + 1]
  OBVIOUS

LEMMA NumbersElements ==
  ASSUME NEW from \in Nat, NEW to \in Nat, from <= to
  PROVE  /\ Numbers(from, to) \in Seq(from .. to)
         /\ Len(Numbers(from, to)) = to - from + 1
         /\ \A i \in 1 .. to - from + 1 : Numbers(from, to)[i] = from + i - 1
  <1>1. to - from + 1 \in Nat /\ \A i \in 1 .. to - from + 1 : from + i - 1 \in from .. to
    OBVIOUS
  <1> QED
    BY <1>1 DEF Numbers

LEMMA GrownIsLarger ==
  ASSUME NEW old \in Nat, NEW cap \in Grown(old)
  PROVE  cap \in Nat /\ cap > MaxCode /\ cap > old /\ cap >= 2
  <1>1. PICK k \in 1 .. MaxCode + 1 : cap = old + k * Step /\ old + k * Step > MaxCode
    BY DEF Grown
  <1>2. Step \in Nat \ {0}
    BY SizesAssumption, SMTT(10) DEF Step
  <1>3. k * Step \in Nat \ {0}
    BY <1>2, SizesAssumption, SMTT(10)
  <1> QED
    BY <1>1, <1>3, SizesAssumption

LEMMA CodesAreNumbers ==
  /\ \A c \in Code : c \in 1 .. MaxCode
  /\ \A set : \A n : /\ ChildCodes(set, n) \subseteq Code
                     /\ IsFiniteSet(ChildCodes(set, n))
                     /\ Cardinality(ChildCodes(set, n)) \in Nat
  <1>1. \A c \in Code : c \in 1 .. MaxCode
    BY CodeAssumption, SizesAssumption
  <1>2. IsFiniteSet(1 .. MaxCode)
    BY SizesAssumption, FS_Interval
  <1>3. ASSUME NEW set, NEW n
        PROVE  /\ ChildCodes(set, n) \subseteq Code
               /\ IsFiniteSet(ChildCodes(set, n))
               /\ Cardinality(ChildCodes(set, n)) \in Nat
    <2>1. ChildCodes(set, n) \subseteq Code
      BY DEF ChildCodes
    <2>2. IsFiniteSet(ChildCodes(set, n))
      BY <2>1, <1>1, <1>2, FS_Subset
    <2> QED
      BY <2>1, <2>2, FS_CardinalityType
  <1> QED
    BY <1>1, <1>3

-----------------------------------------------------------------------------
(* Frames are judged by the pointer trie, the slots and the damage only.    *)
LEMMA FramesKept ==
  ASSUME UNCHANGED <<nodes, slot, damage>>
  PROVE  \A f : /\ FrameOK(f)' <=> FrameOK(f)
                /\ ChildrenPlaced(f)' <=> ChildrenPlaced(f)
  BY DEF FrameOK, ChildrenPlaced, ChildCodes, Orderly

LEMMA PlacedKept ==
  ASSUME UNCHANGED <<nodes, slot, damage, check>>, PlacedApart,
         pc' = pc \/ pc' \in {"ready", "search"} \/ "thrown" \notin damage
  PROVE  PlacedApart'
  BY DEF PlacedApart, Orderly, SlotsDistinct

LEMMA ArraysKept ==
  ASSUME UNCHANGED <<capacity, base, check, nodes, slot>>, ArraysShaped
  PROVE  ArraysShaped'
  BY DEF ArraysShaped, Slots

(* What the layout says when the code is at a place of the build.           *)
LEMMA Unthrown ==
  ASSUME LayoutInv, pc \in Building
  PROVE  "thrown" \notin damage
  BY DEF LayoutInv, PlacedApart, Building

LEMMA TopFrame ==
  ASSUME LayoutInv, stack # <<>>
  PROVE  /\ stack \in Seq([node : Seq(Code), child : Nat, vec : Seq(Code)])
         /\ Frame \in [node : Seq(Code), child : Nat, vec : Seq(Code)]
         /\ Len(stack) \in Nat \ {0} /\ Frame = stack[Len(stack)]
         /\ FrameOK(Frame)
         /\ pc = "visit" => ChildrenPlaced(Frame)
         /\ Front(stack) \in Seq([node : Seq(Code), child : Nat, vec : Seq(Code)])
         /\ Len(Front(stack)) = Len(stack) - 1
         /\ \A i \in 1 .. Len(stack) - 1 : /\ Front(stack)[i] = stack[i]
                                           /\ FrameOK(stack[i]) /\ ChildrenPlaced(stack[i])
  <1>1. stack \in Seq([node : Seq(Code), child : Nat, vec : Seq(Code)])
    BY DEF LayoutInv, StackShaped
  <1>2. /\ \A i \in 1 .. Len(stack) : FrameOK(stack[i])
        /\ \A i \in 1 .. Len(stack) : i < Len(stack) \/ pc = "visit" => ChildrenPlaced(stack[i])
    BY <1>1 DEF LayoutInv, StackShaped
  <1>3. /\ Len(stack) \in Nat \ {0} /\ Frame = stack[Len(stack)]
        /\ Frame \in [node : Seq(Code), child : Nat, vec : Seq(Code)]
        /\ Front(stack) \in Seq([node : Seq(Code), child : Nat, vec : Seq(Code)])
        /\ Len(Front(stack)) = Len(stack) - 1
        /\ \A i \in 1 .. Len(stack) - 1 : Front(stack)[i] = stack[i]
    BY <1>1, TopElement DEF Frame
  <1>4. FrameOK(stack[Len(stack)]) /\ (pc = "visit" => ChildrenPlaced(stack[Len(stack)]))
    BY <1>2, <1>3
  <1>5. FrameOK(Frame) /\ (pc = "visit" => ChildrenPlaced(Frame))
    BY <1>3, <1>4
  <1>6. \A i \in 1 .. Len(stack) - 1 : FrameOK(stack[i]) /\ ChildrenPlaced(stack[i])
    BY <1>2, <1>3
  <1> QED
    BY <1>1, <1>3, <1>5, <1>6

(* Nothing of the layout changes.                                           *)
LEMMA LayoutKept ==
  ASSUME LayoutInv, UNCHANGED <<capacity, base, check, chain, dense, nodes, slot, stack, left, damage>>,
         pc' = pc \/ (pc \in {"ready", "search"} /\ pc' \in {"ready", "search"})
  PROVE  LayoutInv'
  <1>1. ArraysShaped' /\ PlacedApart'
    BY ArraysKept, PlacedKept DEF LayoutInv
  <1>2. QueuesInRange'
    BY DEF LayoutInv, QueuesInRange, Building, Orderly, MaxChain
  <1>3. StackShaped'
    BY FramesKept DEF LayoutInv, StackShaped, Building
  <1>4. VecReady'
    BY DEF LayoutInv, VecReady, Choosing, Frame, Kids, ChildCodes
  <1> QED
    BY <1>1, <1>2, <1>3, <1>4 DEF LayoutInv

FrameSet == [node : Seq(Code), child : Nat, vec : Seq(Code)]

(* The stack after its top was replaced by f and g was pushed on it.        *)
LEMMA StackPushed ==
  ASSUME NEW old \in Seq(FrameSet), old # <<>>, NEW f \in FrameSet, NEW g \in FrameSet,
         stack' = Append(Front(old) \o <<f>>, g), pc' = "visit",
         FrameOK(f)', ChildrenPlaced(f)', FrameOK(g)', ChildrenPlaced(g)',
         \A i \in 1 .. Len(old) - 1 : FrameOK(old[i])' /\ ChildrenPlaced(old[i])'
  PROVE  StackShaped'
  <1> DEFINE top == Front(old) \o <<f>>
  <1>1. /\ Len(old) \in Nat \ {0} /\ top \in Seq(FrameSet) /\ Len(top) = Len(old)
        /\ \A i \in 1 .. Len(old) - 1 : top[i] = old[i]
        /\ top[Len(old)] = f
    BY TopReplaced
  <1> HIDE DEF top
  <1>2. /\ stack' \in Seq(FrameSet) /\ Len(stack') = Len(old) + 1
        /\ \A i \in 1 .. Len(old) : stack'[i] = top[i]
        /\ stack'[Len(old) + 1] = g
    BY <1>1, Pushed DEF top
  <1>3. ASSUME NEW i \in 1 .. Len(old) + 1
        PROVE  FrameOK(stack[i])' /\ ChildrenPlaced(stack[i])'
    <2>1. CASE i <= Len(old) - 1
      <3>1. stack'[i] = old[i] /\ i \in 1 .. Len(old) - 1
        BY <1>1, <1>2, <2>1
      <3>2. FrameOK(old[i])' /\ ChildrenPlaced(old[i])'
        BY <3>1
      <3> QED
        BY <3>1, <3>2
    <2>2. CASE i = Len(old)
      <3>1. stack'[i] = f
        BY <1>1, <1>2, <2>2
      <3> QED
        BY <3>1
    <2>3. CASE i = Len(old) + 1
      <3>1. stack'[i] = g
        BY <1>2, <2>3
      <3> QED
        BY <3>1
    <2>4. i <= Len(old) - 1 \/ i = Len(old) \/ i = Len(old) + 1
      BY <1>1
    <2> QED
      BY ONLY <2>1, <2>2, <2>3, <2>4
  <1>4. DOMAIN stack' = 1 .. Len(old) + 1
    BY <1>2
  <1>5. \A i \in DOMAIN stack' : FrameOK(stack[i])' /\ ChildrenPlaced(stack[i])'
    BY <1>3, <1>4
  <1> QED
    BY <1>2, <1>5 DEF StackShaped, FrameSet, Building

-----------------------------------------------------------------------------
LEMMA InitLayout == Init => LayoutInv
  <1> SUFFICES ASSUME Init PROVE LayoutInv
    OBVIOUS
  <1>1. capacity \in Nat /\ capacity > MaxCode /\ capacity >= 2 /\ 1 \in Slots
    BY GrownIsLarger DEF Init, Slots
  <1>2. /\ nodes = {Root} /\ slot = [n \in {Root} |-> 1]
        /\ chain = <<>> /\ dense = <<>> /\ stack = <<>> /\ left = 0
        /\ pc = "ready" /\ damage = {}
    BY DEF Init, k_root_index_
  <1>2a. Zeros(capacity) = [i \in Slots |-> 0]
    BY DEF Zeros, Slots
  <1>2b. base = [i \in Slots |-> 0] /\ check = [i \in Slots |-> IF i = 1 THEN 1 ELSE 0]
    BY <1>1, <1>2a DEF Init, k_root_index_
  <1>3. ArraysShaped
    BY <1>1, <1>2, <1>2b DEF ArraysShaped, Slots
  <1>4. QueuesInRange
    BY <1>2 DEF QueuesInRange, Building
  <1>5. StackShaped /\ VecReady
    BY <1>2 DEF StackShaped, VecReady, Choosing
  <1>6. PlacedApart
    BY <1>1, <1>2, <1>2b DEF PlacedApart, SlotsDistinct
  <1> QED
    BY <1>3, <1>4, <1>5, <1>6 DEF LayoutInv

LEMMA RefilledChain ==
  ASSUME ArraysShaped, QueuesInRange
  PROVE  /\ Tail(chain \o Numbers(0, MaxChain(capacity))) \in Seq(0 .. MaxChain(capacity))
         /\ chain = <<>> =>
              \A i \in DOMAIN Tail(chain \o Numbers(0, MaxChain(capacity))) :
                Tail(chain \o Numbers(0, MaxChain(capacity)))[i] # 0
  <1> DEFINE M == MaxChain(capacity)
             all == Numbers(0, M)
  <1>1. M \in Nat
    BY SizesAssumption DEF MaxChain, ArraysShaped
  <1>2. /\ all \in Seq(0 .. M) /\ Len(all) = M + 1
        /\ \A i \in 1 .. M + 1 : all[i] = i - 1
    <2>1. 0 \in Nat /\ 0 <= M /\ M - 0 + 1 = M + 1 /\ \A i \in 1 .. M + 1 : 0 + i - 1 = i - 1
      BY <1>1
    <2> HIDE DEF M
    <2>2. /\ all \in Seq(0 .. M) /\ Len(all) = M - 0 + 1
          /\ \A i \in 1 .. M - 0 + 1 : all[i] = 0 + i - 1
      BY <2>1, <1>1, NumbersElements
    <2> QED
      BY <2>1, <2>2
  <1>3. chain \in Seq(0 .. M)
    BY DEF QueuesInRange
  <1> HIDE DEF M, all
  <1>4. chain \o all \in Seq(0 .. M) /\ Len(chain \o all) = Len(chain) + Len(all)
    BY <1>2, <1>3, ConcatElements
  <1>5. chain \o all # <<>>
    BY <1>1, <1>2, <1>3, <1>4
  <1>6. Tail(chain \o all) \in Seq(0 .. M)
    BY <1>4, <1>5, Taken
  <1>7. ASSUME chain = <<>> PROVE \A i \in DOMAIN Tail(chain \o all) : Tail(chain \o all)[i] # 0
    <2>1. chain \o all = all /\ all # <<>>
      BY <1>2, <1>7, <1>1
    <2>2. Tail(all) \in Seq(0 .. M) /\ Len(Tail(all)) = M /\ \A i \in 1 .. M : Tail(all)[i] = i
      BY <1>1, <1>2, <2>1, Taken
    <2>3. DOMAIN Tail(all) = 1 .. M
      BY <2>2, <1>1
    <2>4. ASSUME NEW i \in 1 .. M PROVE Tail(all)[i] # 0
      <3>1. Tail(all)[i] = i
        BY <2>2
      <3>2. i # 0
        BY <1>1
      <3> QED
        BY <3>1, <3>2
    <2> QED
      BY <2>1, <2>3, <2>4
  <1> QED
    BY <1>6, <1>7 DEF M, all

LEMMA RebuildLayout ==
  ASSUME LayoutInv, NEW ws \in Dictionaries, Rebuild(ws)
  PROVE  LayoutInv'
  <1>1. /\ capacity \in Nat /\ capacity > MaxCode /\ capacity >= 2 /\ 1 \in Slots
        /\ dense = <<>> /\ left \in Nat
    BY SizesAssumption DEF LayoutInv, ArraysShaped, QueuesInRange, Rebuild, Building, Slots
  <1>2. Zeros(capacity) = [i \in Slots |-> 0]
    BY DEF Zeros, Slots
  <1>3. /\ capacity' = capacity /\ dense' = dense /\ left' = left
        /\ nodes' = NodesOf(ws) /\ pc' = "visit"
        /\ stack' = <<[node |-> Root, child |-> 0, vec |-> <<>>]>>
        /\ damage' = IF chain = <<>> THEN {} ELSE {"leftover"}
        /\ slot' = [[n \in nodes' |-> 0] EXCEPT ![Root] = 1]
        /\ base' = Zeros(capacity)
        /\ check' = [Zeros(capacity) EXCEPT ![1] = 1]
        /\ chain' = Tail(chain \o Numbers(0, MaxChain(capacity)))
    BY DEF Rebuild, Erase, ErasedBase, k_root_index_
  <1>4. Root \in nodes'
    BY <1>3 DEF NodesOf
  <1>5. slot' = [n \in nodes' |-> IF n = Root THEN 1 ELSE 0]
    BY <1>3, <1>4
  <1>6. /\ base' = [i \in Slots |-> 0]
        /\ check' = [i \in Slots |-> IF i = 1 THEN 1 ELSE 0]
    BY <1>1, <1>2, <1>3
  <1>7. ArraysShaped'
    BY <1>1, <1>3, <1>4, <1>5, <1>6 DEF ArraysShaped, Slots
  <1>8. QueuesInRange'
    <2>1. Orderly' => chain = <<>>
      BY <1>3 DEF Orderly
    <2> QED
      BY <1>1, <1>3, <2>1, RefilledChain DEF LayoutInv, QueuesInRange, MaxChain
  <1>9. StackShaped'
    <2> DEFINE f == [node |-> Root, child |-> 0, vec |-> <<>>]
    <2>1. f \in FrameSet
      BY DEF FrameSet, Root
    <2>2. FrameOK(f)'
      <3>1. 0 \in 0 .. Cardinality(ChildCodes(nodes, Root))'
        BY CodesAreNumbers
      <3>2. slot'[Root] = 1
        BY <1>4, <1>5
      <3> QED
        BY <1>4, <3>1, <3>2 DEF FrameOK, Root
    <2>3. ChildrenPlaced(f)'
      BY DEF ChildrenPlaced
    <2>4. stack' = <<f>> /\ DOMAIN stack' = {1} /\ stack'[1] = f
      BY <1>3
    <2> HIDE DEF f
    <2>5. \A i \in DOMAIN stack' : FrameOK(stack[i])' /\ ChildrenPlaced(stack[i])'
      BY <2>2, <2>3, <2>4
    <2> QED
      BY <1>3, <2>1, <2>4, <2>5 DEF StackShaped, FrameSet, Building
  <1>10. VecReady'
    BY <1>3 DEF VecReady, Choosing
  <1>11. PlacedApart'
    BY <1>1, <1>3, <1>5, <1>6 DEF PlacedApart, SlotsDistinct
  <1> QED
    BY <1>7, <1>8, <1>9, <1>10, <1>11 DEF LayoutInv

LEMMA RebuildThrowsLayout ==
  ASSUME LayoutInv, NEW ws \in Dictionaries, RebuildThrows(ws)
  PROVE  LayoutInv'
  <1>1. /\ capacity \in Nat /\ capacity > MaxCode /\ 1 \in Slots
        /\ dense = <<>> /\ left \in Nat /\ stack = <<>> /\ pc = "ready"
    BY SizesAssumption
    DEF LayoutInv, ArraysShaped, QueuesInRange, StackShaped, RebuildThrows, Building, Slots
  <1>2. /\ capacity' = capacity /\ dense' = dense /\ left' = left
        /\ nodes' = {Root} /\ pc' = "ready" /\ stack' = <<>> /\ damage' = {"thrown"}
        /\ slot' = [n \in {Root} |-> 1]
        /\ base' = Zeros(capacity) /\ check' = Zeros(capacity)
        /\ chain' = Tail(chain \o Numbers(0, MaxChain(capacity)))
    BY <1>1 DEF RebuildThrows, Erase, ErasedBase, k_root_index_
  <1>3. Zeros(capacity) = [i \in Slots |-> 0]
    BY DEF Zeros, Slots
  <1>4. ArraysShaped'
    BY <1>1, <1>2, <1>3 DEF ArraysShaped, Slots
  <1>5. QueuesInRange'
    BY <1>1, <1>2, RefilledChain DEF LayoutInv, QueuesInRange, MaxChain, Building
  <1>6. StackShaped' /\ VecReady'
    BY <1>2 DEF StackShaped, VecReady, Choosing
  <1>7. PlacedApart'
    BY <1>2 DEF PlacedApart, SlotsDistinct
  <1> QED
    BY <1>4, <1>5, <1>6, <1>7 DEF LayoutInv

LEMMA PopNodeLayout ==
  ASSUME LayoutInv, PopNode
  PROVE  LayoutInv'
  <1>1. /\ pc = "visit" /\ pc' = "visit" /\ stack # <<>> /\ stack' = Front(stack)
        /\ UNCHANGED <<capacity, base, check, chain, dense, nodes, slot, left, damage>>
    BY DEF PopNode, arrays, queues, pointers
  <1>2. ArraysShaped' /\ PlacedApart'
    BY <1>1, ArraysKept, PlacedKept DEF LayoutInv
  <1>3. QueuesInRange' /\ VecReady'
    BY <1>1 DEF LayoutInv, QueuesInRange, Building, Orderly, MaxChain, VecReady, Choosing
  <1>4. StackShaped'
    <2> PICK old : old = stack
      OBVIOUS
    <2>1. /\ Front(old) \in Seq(FrameSet) /\ Len(Front(old)) = Len(old) - 1
          /\ Len(old) \in Nat
          /\ \A i \in 1 .. Len(old) - 1 : /\ Front(old)[i] = old[i]
                                          /\ FrameOK(old[i]) /\ ChildrenPlaced(old[i])
      BY <1>1, TopFrame DEF FrameSet
    <2>2. \A i \in 1 .. Len(old) - 1 : FrameOK(old[i])' /\ ChildrenPlaced(old[i])'
      BY <1>1, <2>1, FramesKept
    <2>3. DOMAIN stack' = 1 .. Len(old) - 1
      BY <1>1, <2>1
    <2>4. ASSUME NEW i \in DOMAIN stack' PROVE FrameOK(stack[i])' /\ ChildrenPlaced(stack[i])'
      <3>1. i \in 1 .. Len(old) - 1 /\ stack'[i] = old[i]
        BY <1>1, <2>1, <2>3
      <3>2. FrameOK(old[i])' /\ ChildrenPlaced(old[i])'
        BY <2>2, <3>1
      <3> QED
        BY <3>1, <3>2
    <2> QED
      BY <1>1, <2>1, <2>4 DEF StackShaped, FrameSet, Building
  <1> QED
    BY <1>2, <1>3, <1>4 DEF LayoutInv

LEMMA CollectChildrenLayout ==
  ASSUME LayoutInv, CollectChildren
  PROVE  LayoutInv'
  <1>1. PICK v \in Collected(Frame.vec) : stack' = Top([Frame EXCEPT !.vec = v])
    BY DEF CollectChildren
  <1>2. /\ pc = "visit" /\ pc' = "dense" /\ stack # <<>> /\ Frame.child # Cardinality(Kids)
        /\ UNCHANGED <<capacity, base, check, chain, dense, nodes, slot, left>>
        /\ Orderly' <=> Orderly
        /\ "thrown" \notin damage /\ "thrown" \notin damage'
    BY Unthrown DEF CollectChildren, arrays, queues, pointers, Orderly, Building
  <1> PICK old, node, child, vec :
         /\ old = stack /\ node = Frame.node /\ child = Frame.child /\ vec = Frame.vec
    OBVIOUS
  <1> DEFINE kids == ChildCodes(nodes, node)
  <1>3. /\ old \in Seq(FrameSet) /\ Len(old) \in Nat \ {0}
        /\ node \in Seq(Code) /\ child \in Nat /\ vec \in Seq(Code)
        /\ Frame = [node |-> node, child |-> child, vec |-> vec]
        /\ FrameOK(Frame) /\ old # <<>>
        /\ \A i \in 1 .. Len(old) - 1 : FrameOK(old[i]) /\ ChildrenPlaced(old[i])
    BY <1>2, TopFrame DEF FrameSet
  <1>4. /\ node \in nodes /\ child \in 0 .. Cardinality(kids) /\ vec \in Seq(kids)
        /\ Orderly => slot[node] # 0
        /\ Kids = kids
    BY <1>3 DEF FrameOK, Kids
  <1>5. Cardinality(kids) \in Nat /\ kids \subseteq Code
    BY CodesAreNumbers
  <1>6. child < Cardinality(kids)
    BY <1>2, <1>4, <1>5
  <1> HIDE DEF kids
  <1>7. /\ v \in Seq(kids) /\ Len(v) = Len(vec) + Cardinality(kids)
        /\ \A i, j \in DOMAIN v : i <= j => v[i] <= v[j]
    <2>1. /\ v \in [1 .. Len(vec) + Cardinality(kids) -> kids]
          /\ \A i, j \in DOMAIN v : i <= j => v[i] <= v[j]
      BY <1>1, <1>4 DEF Collected
    <2>2. Len(vec) + Cardinality(kids) \in Nat
      BY <1>3, <1>5
    <2> QED
      BY <2>1, <2>2
  <1>8. v \in Seq(Code) /\ Len(v) > child /\ DOMAIN v = 1 .. Len(v) /\ Len(v) \in Nat
    BY <1>3, <1>5, <1>6, <1>7
  <1> DEFINE f == [node |-> node, child |-> child, vec |-> v]
             R == FrameSet
  <1>9. f \in R /\ stack' = Front(old) \o <<f>>
    <2>1. f \in R
      BY <1>3, <1>8 DEF FrameSet
    <2>2. [Frame EXCEPT !.vec = v] = f
      BY <1>3
    <2> QED
      BY <1>1, <2>1, <2>2 DEF Top
  <1>10. /\ f.node = node /\ f.child = child /\ f.vec = v
    OBVIOUS
  <1> HIDE DEF f, R
  <1>11. /\ stack' \in Seq(R) /\ Len(stack') = Len(old) /\ stack' # <<>>
         /\ \A i \in 1 .. Len(old) - 1 : stack'[i] = old[i]
         /\ stack'[Len(old)] = f /\ Frame' = f
    <2>1. /\ Front(old) \o <<f>> \in Seq(R) /\ Len(Front(old) \o <<f>>) = Len(old)
          /\ \A i \in 1 .. Len(old) - 1 : (Front(old) \o <<f>>)[i] = old[i]
          /\ (Front(old) \o <<f>>)[Len(old)] = f
          /\ Last(Front(old) \o <<f>>) = f
      BY <1>3, <1>9, TopReplaced DEF R
    <2>2. (Front(old) \o <<f>>) # <<>>
      BY <2>1, <1>3
    <2> QED
      BY <1>9, <2>1, <2>2 DEF Frame
  <1>12. FrameOK(f)'
    BY <1>2, <1>3, <1>4, <1>7, <1>10 DEF FrameOK, ChildCodes, kids
  <1>13. \A i \in 1 .. Len(old) - 1 : FrameOK(old[i])' /\ ChildrenPlaced(old[i])'
    BY <1>2, <1>3 DEF FrameOK, ChildrenPlaced, ChildCodes
  <1>14. StackShaped'
    <2>1. DOMAIN stack' = 1 .. Len(old)
      BY <1>11
    <2>2. ASSUME NEW i \in DOMAIN stack'
          PROVE  FrameOK(stack[i])' /\ (i < Len(stack') => ChildrenPlaced(stack[i])')
      <3>1. CASE i < Len(old)
        <4>1. i \in 1 .. Len(old) - 1 /\ stack'[i] = old[i]
          BY <1>3, <1>11, <2>1, <3>1
        <4>2. FrameOK(old[i])' /\ ChildrenPlaced(old[i])'
          BY <1>13, <4>1
        <4> QED
          BY <4>1, <4>2
      <3>2. CASE i = Len(old)
        <4>1. stack'[i] = f /\ ~(i < Len(stack'))
          BY <1>3, <1>11, <3>2
        <4> QED
          BY <4>1, <1>12
      <3>3. i < Len(old) \/ i = Len(old)
        BY <1>3, <2>1
      <3> QED
        BY ONLY <3>1, <3>2, <3>3
    <2> QED
      BY <1>2, <1>11, <2>2 DEF StackShaped, R, FrameSet, Building
  <1>15. VecReady'
    <2>1. Kids' = kids
      BY <1>2, <1>10, <1>11 DEF Kids, ChildCodes, kids
    <2>2. \A i \in DOMAIN v : v[1] <= v[i]
      BY <1>7, <1>8
    <2> QED
      BY <1>6, <1>8, <1>10, <1>11, <2>1, <2>2 DEF VecReady
  <1>16. ArraysShaped' /\ QueuesInRange'
    BY <1>2, ArraysKept DEF LayoutInv, QueuesInRange, MaxChain, Building
  <1>17. PlacedApart'
    BY <1>2 DEF LayoutInv, PlacedApart, SlotsDistinct, Orderly
  <1> QED
    BY <1>14, <1>15, <1>16, <1>17 DEF LayoutInv

LEMMA DescendLayout ==
  ASSUME LayoutInv, Descend
  PROVE  LayoutInv'
  <1>1. /\ pc = "visit" /\ stack # <<>> /\ Frame.child # Cardinality(Kids)
        /\ UNCHANGED <<capacity, base, check, chain, dense, nodes, slot, left, damage>>
        /\ "thrown" \notin damage
    BY Unthrown DEF Descend, arrays, queues, pointers, Building
  <1>2. ArraysShaped' /\ PlacedApart'
    BY <1>1, ArraysKept, PlacedKept DEF LayoutInv
  <1>3. CASE Frame.child < Len(Frame.vec)
    <2>1. /\ stack' = Append(Top([Frame EXCEPT !.child = @ + 1]), Child(Frame.vec[Frame.child + 1]))
          /\ pc' = "visit"
      BY <1>1, <1>3 DEF Descend
    <2> PICK old, node, child, vec :
         /\ old = stack /\ node = Frame.node /\ child = Frame.child /\ vec = Frame.vec
      OBVIOUS
    <2> DEFINE kids == ChildCodes(nodes, node)
               c == vec[child + 1]
    <2>2. /\ old \in Seq(FrameSet) /\ old # <<>>
          /\ node \in Seq(Code) /\ child \in Nat /\ vec \in Seq(Code)
          /\ Frame = [node |-> node, child |-> child, vec |-> vec]
          /\ FrameOK(Frame) /\ ChildrenPlaced(Frame)
          /\ \A i \in 1 .. Len(old) - 1 : FrameOK(old[i]) /\ ChildrenPlaced(old[i])
      BY <1>1, TopFrame DEF FrameSet
    <2>3. /\ node \in nodes /\ child \in 0 .. Cardinality(kids) /\ vec \in Seq(kids)
          /\ Orderly => slot[node] # 0
          /\ Orderly => \A j \in DOMAIN vec : slot[Append(node, vec[j])] # 0
          /\ Kids = kids
      BY <2>2 DEF FrameOK, ChildrenPlaced, Kids
    <2>4. Cardinality(kids) \in Nat /\ kids \subseteq Code
      BY CodesAreNumbers
    <2>5. child < Cardinality(kids) /\ child < Len(vec) /\ child + 1 \in DOMAIN vec
      BY <1>1, <1>3, <2>2, <2>3, <2>4
    <2>6. /\ c \in kids /\ c \in Code
      BY <2>3, <2>4, <2>5
    <2>7. Append(node, c) \in nodes /\ Append(node, c) \in Seq(Code)
      BY <2>2, <2>6 DEF ChildCodes
    <2> HIDE DEF kids
    <2> DEFINE f == [node |-> node, child |-> child + 1, vec |-> vec]
               g == [node |-> Append(node, c), child |-> 0, vec |-> <<>>]
    <2>8. f \in FrameSet /\ g \in FrameSet
      BY <2>2, <2>7 DEF FrameSet
    <2>9. stack' = Append(Front(old) \o <<f>>, g)
      <3>1. [Frame EXCEPT !.child = @ + 1] = f
        BY <2>2
      <3>2. Frame.node = node /\ Frame.vec[Frame.child + 1] = c
        BY <2>2
      <3> QED
        BY <2>1, <3>1, <3>2 DEF Top, Child
    <2>10. FrameOK(f)' /\ ChildrenPlaced(f)'
      BY <1>1, <2>2, <2>3, <2>4, <2>5 DEF FrameOK, ChildrenPlaced, ChildCodes, Orderly, kids
    <2>11. FrameOK(g)' /\ ChildrenPlaced(g)'
      <3>1. Cardinality(ChildCodes(nodes, Append(node, c))) \in Nat
        BY CodesAreNumbers
      <3>2. /\ Append(node, c) \in nodes'
            /\ 0 \in 0 .. Cardinality(ChildCodes(nodes', Append(node, c)))
        BY <1>1, <2>7, <3>1
      <3>3. Orderly' => slot'[Append(node, c)] # 0
        BY <1>1, <2>3, <2>5 DEF Orderly
      <3> QED
        BY <2>7, <3>2, <3>3 DEF FrameOK, ChildrenPlaced
    <2>12. \A i \in 1 .. Len(old) - 1 : FrameOK(old[i])' /\ ChildrenPlaced(old[i])'
      BY <1>1, <2>2, FramesKept
    <2>13. StackShaped'
      <3> HIDE DEF f, g
      <3> QED
        BY <2>1, <2>2, <2>8, <2>9, <2>10, <2>11, <2>12, StackPushed
    <2>14. QueuesInRange' /\ VecReady'
      BY <1>1, <2>1
      DEF LayoutInv, QueuesInRange, Building, Orderly, MaxChain, VecReady, Choosing
    <2> QED
      BY <1>2, <2>13, <2>14 DEF LayoutInv
  <1>4. CASE ~(Frame.child < Len(Frame.vec))
    <2>1. stack' = stack /\ pc' = "crashed"
      BY <1>1, <1>4 DEF Descend
    <2>2. QueuesInRange' /\ VecReady'
      BY <1>1, <2>1
      DEF LayoutInv, QueuesInRange, Building, Orderly, MaxChain, VecReady, Choosing
    <2>3. StackShaped'
      BY <1>1, <2>1, FramesKept DEF LayoutInv, StackShaped
    <2> QED
      BY <1>2, <2>2, <2>3 DEF LayoutInv
  <1> QED
    BY <1>3, <1>4

LEMMA StartChainLayout ==
  ASSUME LayoutInv, StartChain
  PROVE  LayoutInv'
  <1>1. /\ pc = "dense" /\ pc' = "chain" /\ left' = Len(chain)
        /\ UNCHANGED <<capacity, base, check, chain, dense, nodes, slot, stack, damage>>
        /\ "thrown" \notin damage
    BY Unthrown DEF StartChain, arrays, queues, pointers, Building
  <1>2. ArraysShaped' /\ PlacedApart'
    BY <1>1, ArraysKept, PlacedKept DEF LayoutInv
  <1>3. QueuesInRange'
    BY <1>1 DEF LayoutInv, QueuesInRange, Building, Orderly, MaxChain
  <1>4. StackShaped' /\ VecReady'
    BY <1>1, FramesKept
    DEF LayoutInv, StackShaped, Building, VecReady, Choosing, Frame, Kids, ChildCodes
  <1> QED
    BY <1>2, <1>3, <1>4 DEF LayoutInv

(* The queues change, the rest of the layout does not.                      *)
LEMMA QueuesMoved ==
  ASSUME LayoutInv, pc \in {"dense", "chain"}, QueuesInRange',
         UNCHANGED <<capacity, base, check, nodes, slot, stack, damage, pc>>
  PROVE  LayoutInv'
  <1>1. ArraysShaped' /\ PlacedApart'
    BY ArraysKept, PlacedKept DEF LayoutInv
  <1>2. StackShaped' /\ VecReady'
    BY FramesKept
    DEF LayoutInv, StackShaped, Building, VecReady, Choosing, Frame, Kids, ChildCodes
  <1> QED
    BY <1>1, <1>2 DEF LayoutInv

LEMMA SkipTakenLayout ==
  ASSUME LayoutInv, SkipTaken
  PROVE  LayoutInv'
  <1>1. /\ pc = "chain" /\ left > 0 /\ chain' = Tail(chain) /\ left' = left - 1
        /\ UNCHANGED <<capacity, base, check, dense, nodes, slot, stack, damage, pc>>
    BY DEF SkipTaken, arrays, pointers
  <1>2. /\ chain \in Seq(0 .. MaxChain(capacity)) /\ chain # <<>> /\ left \in Nat
        /\ left <= Len(chain)
    BY <1>1 DEF LayoutInv, QueuesInRange
  <1>3. /\ Tail(chain) \in Seq(0 .. MaxChain(capacity)) /\ Len(Tail(chain)) = Len(chain) - 1
        /\ \A i \in 1 .. Len(chain) - 1 : Tail(chain)[i] = chain[i + 1]
    BY <1>2, Taken
  <1>4. \A i \in DOMAIN chain' : i + 1 \in DOMAIN chain /\ chain'[i] = chain[i + 1]
    BY <1>1, <1>2, <1>3
  <1>5. QueuesInRange'
    BY <1>1, <1>2, <1>3, <1>4 DEF LayoutInv, QueuesInRange, Building, Orderly, MaxChain
  <1> QED
    BY <1>1, <1>5, QueuesMoved

(* The first slot of a queue, and the queue without it.                     *)
LEMMA ChainHead ==
  ASSUME LayoutInv, pc = "chain", left > 0
  PROVE  /\ chain \in Seq(0 .. MaxChain(capacity)) /\ chain # <<>> /\ left \in Nat
         /\ left <= Len(chain) /\ Head(chain) \in 0 .. MaxChain(capacity)
         /\ Orderly => Head(chain) # 0
         /\ Tail(chain) \in Seq(0 .. MaxChain(capacity)) /\ Len(Tail(chain)) = Len(chain) - 1
         /\ Orderly => \A i \in DOMAIN Tail(chain) : Tail(chain)[i] # 0
  <1>1. /\ chain \in Seq(0 .. MaxChain(capacity)) /\ chain # <<>> /\ left \in Nat
        /\ left <= Len(chain)
        /\ Orderly => \A i \in 1 .. Len(chain) : chain[i] # 0
    BY DEF LayoutInv, QueuesInRange, Building
  <1>2. /\ Head(chain) = chain[1] /\ Head(chain) \in 0 .. MaxChain(capacity)
        /\ Tail(chain) \in Seq(0 .. MaxChain(capacity)) /\ Len(Tail(chain)) = Len(chain) - 1
        /\ \A i \in 1 .. Len(chain) - 1 : Tail(chain)[i] = chain[i + 1]
    BY <1>1, Taken
  <1>3. DOMAIN Tail(chain) = 1 .. Len(chain) - 1 /\ 1 \in 1 .. Len(chain)
    BY <1>1, <1>2
  <1>4. ASSUME Orderly, NEW i \in DOMAIN Tail(chain) PROVE Tail(chain)[i] # 0
    <2>1. i + 1 \in 1 .. Len(chain)
      BY <1>1, <1>3
    <2> QED
      BY <1>1, <1>2, <1>3, <1>4, <2>1
  <1> QED
    BY <1>1, <1>2, <1>3, <1>4

LEMMA DenseHead ==
  ASSUME LayoutInv, pc = "dense", dense # <<>>
  PROVE  /\ Head(dense) \in 0 .. MaxChain(capacity)
         /\ Orderly => Head(dense) # 0
         /\ Tail(dense) \in Seq(0 .. MaxChain(capacity))
         /\ Orderly => \A i \in DOMAIN Tail(dense) : Tail(dense)[i] # 0
  <1>1. /\ dense \in Seq(0 .. MaxChain(capacity))
        /\ Orderly => \A i \in 1 .. Len(dense) : dense[i] # 0
    BY DEF LayoutInv, QueuesInRange, Building
  <1>2. /\ Head(dense) = dense[1] /\ Head(dense) \in 0 .. MaxChain(capacity)
        /\ Tail(dense) \in Seq(0 .. MaxChain(capacity)) /\ Len(Tail(dense)) = Len(dense) - 1
        /\ \A i \in 1 .. Len(dense) - 1 : Tail(dense)[i] = dense[i + 1]
    BY <1>1, Taken
  <1>3. /\ DOMAIN Tail(dense) = 1 .. Len(dense) - 1 /\ 1 \in 1 .. Len(dense)
        /\ Len(dense) \in Nat
    BY <1>1, <1>2
  <1>4. ASSUME Orderly, NEW i \in DOMAIN Tail(dense) PROVE Tail(dense)[i] # 0
    <2>1. i + 1 \in 1 .. Len(dense)
      BY <1>3
    <2> QED
      BY <1>1, <1>2, <1>3, <1>4, <2>1
  <1> QED
    BY <1>1, <1>2, <1>3, <1>4

(* A slot of a queue leaves room for every child of the frame: MaxChain     *)
(* slots end where the largest code would still fit.                        *)
LEMMA TriedSlots ==
  ASSUME LayoutInv, Choosing, NEW s \in 0 .. MaxChain(capacity)
  PROVE  /\ MinCode \in Nat
         /\ \A i \in DOMAIN Frame.vec : /\ Frame.vec[i] \in Nat
                                        /\ s - MinCode + Frame.vec[i] \in Slots
                                        /\ s - MinCode + Frame.vec[i] >= s
  <1>1. /\ Frame.vec \in Seq(Code) /\ Len(Frame.vec) > 0
        /\ \A i \in DOMAIN Frame.vec : Frame.vec[1] <= Frame.vec[i]
    <2>1. stack # <<>> /\ Frame.child < Len(Frame.vec)
      BY DEF LayoutInv, VecReady
    <2>2. Frame \in FrameSet
      BY <2>1, TopFrame DEF FrameSet
    <2>3. Frame.vec \in Seq(Code) /\ Frame.child \in Nat
      BY <2>2 DEF FrameSet
    <2> QED
      BY <2>1, <2>3 DEF LayoutInv, VecReady
  <1> PICK vec : vec = Frame.vec
    OBVIOUS
  <1>2. /\ \A i \in DOMAIN vec : vec[i] \in 1 .. MaxCode /\ vec[1] <= vec[i]
        /\ 1 \in DOMAIN vec
    BY <1>1, CodesAreNumbers
  <1>3. capacity \in Nat /\ capacity > MaxCode /\ MaxChain(capacity) = capacity - MaxCode
    BY DEF LayoutInv, ArraysShaped, MaxChain
  <1>4. MinCode = vec[1] /\ vec[1] \in 1 .. MaxCode
    BY <1>2 DEF MinCode
  <1>5. s \in Nat /\ s <= capacity - MaxCode
    BY <1>3, SizesAssumption
  <1>6. ASSUME NEW i \in DOMAIN vec
        PROVE  vec[i] \in Nat /\ s - MinCode + vec[i] \in Slots /\ s - MinCode + vec[i] >= s
    <2>1. vec[i] \in 1 .. MaxCode /\ vec[1] <= vec[i]
      BY <1>2
    <2> QED
      BY <2>1, <1>3, <1>4, <1>5, SizesAssumption DEF Slots
  <1> QED
    BY <1>4, <1>6

LEMMA GiveUpDenseLayout ==
  ASSUME LayoutInv, GiveUpDense
  PROVE  LayoutInv'
  <1>1. /\ pc = "chain" /\ left > 0 /\ chain' = Tail(chain) /\ left' = left - 1
        /\ dense' = Append(dense, Head(chain))
        /\ UNCHANGED <<capacity, base, check, nodes, slot, stack, damage, pc>>
    BY DEF GiveUpDense, arrays, pointers
  <1>2. /\ dense \in Seq(0 .. MaxChain(capacity)) /\ Head(chain) \in 0 .. MaxChain(capacity)
        /\ Orderly => /\ \A i \in 1 .. Len(dense) : dense[i] # 0
                      /\ Head(chain) # 0
    BY <1>1, ChainHead DEF LayoutInv, QueuesInRange, Building
  <1>3. /\ dense' \in Seq(0 .. MaxChain(capacity)) /\ Len(dense') = Len(dense) + 1
        /\ \A i \in 1 .. Len(dense) : dense'[i] = dense[i]
        /\ dense'[Len(dense) + 1] = Head(chain)
    BY <1>1, <1>2, Pushed
  <1>4. Orderly => \A i \in DOMAIN dense' : dense'[i] # 0
    BY <1>2, <1>3
  <1>5. QueuesInRange'
    BY <1>1, <1>3, <1>4, ChainHead DEF QueuesInRange, Building, Orderly, MaxChain
  <1> QED
    BY <1>1, <1>5, QueuesMoved

(* Every child finds an empty slot when the base is b.                      *)
FitsAt(b) ==
  /\ b \in Int
  /\ \A i \in DOMAIN Frame.vec : /\ b + Frame.vec[i] \in Slots
                                 /\ Empty(b + Frame.vec[i])
                                 /\ Orderly => b + Frame.vec[i] # 0

(* The children are placed at b, in slots that were empty: no slot of       *)
(* another node is among them, since its check is not 0.                    *)
LEMMA PlaceLayout ==
  ASSUME LayoutInv, pc \in {"dense", "chain"}, NEW b, FitsAt(b), Place(b), QueuesInRange'
  PROVE  LayoutInv'
  <1> USE DEF FitsAt
  <1> PICK old, node, child, vec, at :
       /\ old = stack /\ node = Frame.node /\ child = Frame.child /\ vec = Frame.vec
       /\ at = Index
    OBVIOUS
  <1> DEFINE kids == ChildCodes(nodes, node)
             c == vec[child + 1]
             f == [node |-> node, child |-> child + 1, vec |-> vec]
             g == [node |-> Append(node, c), child |-> 0, vec |-> <<>>]
             took == {b + vec[i] : i \in DOMAIN vec}
             isChild(n) == \E i \in DOMAIN vec : n = Append(node, vec[i])
  <1>1. /\ stack # <<>> /\ Frame.child < Len(Frame.vec) /\ Frame.child < Cardinality(Kids)
        /\ "thrown" \notin damage
    BY Unthrown DEF LayoutInv, VecReady, Choosing, Building
  <1>2. /\ old \in Seq(FrameSet) /\ old # <<>>
        /\ node \in Seq(Code) /\ child \in Nat /\ vec \in Seq(Code)
        /\ Frame = [node |-> node, child |-> child, vec |-> vec]
        /\ FrameOK(Frame)
        /\ \A i \in 1 .. Len(old) - 1 : FrameOK(old[i]) /\ ChildrenPlaced(old[i])
    BY <1>1, TopFrame DEF FrameSet
  <1>3. /\ node \in nodes /\ child \in 0 .. Cardinality(kids) /\ vec \in Seq(kids)
        /\ Orderly => slot[node] # 0
        /\ Kids = kids /\ at = slot[node] /\ at \in Slots
    BY <1>2 DEF FrameOK, Kids, Index, LayoutInv, ArraysShaped
  <1>4. Cardinality(kids) \in Nat /\ kids \subseteq Code
    BY CodesAreNumbers
  <1>5. child < Cardinality(kids) /\ child + 1 \in DOMAIN vec
    BY <1>1, <1>2, <1>3, <1>4
  <1>6. ASSUME NEW i \in DOMAIN vec
        PROVE  /\ vec[i] \in kids /\ vec[i] \in Nat
               /\ Append(node, vec[i]) \in nodes /\ Append(node, vec[i]) \in Seq(Code)
               /\ Last(Append(node, vec[i])) = vec[i]
               /\ b + vec[i] \in Slots /\ check[b + vec[i]] = 0
               /\ Orderly => b + vec[i] # 0
    <2>1. vec[i] \in kids /\ vec[i] \in Code
      BY <1>3, <1>4
    <2>2. Append(node, vec[i]) \in nodes /\ vec[i] \in Nat
      BY <2>1, CodesAreNumbers, SizesAssumption DEF ChildCodes
    <2>3. Append(node, vec[i]) \in Seq(Code) /\ Last(Append(node, vec[i])) = vec[i]
      BY <2>1, <1>2, Pushed
    <2> QED
      BY <2>1, <2>2, <2>3 DEF Empty
  <1> HIDE DEF kids
  <1>7. /\ UNCHANGED <<capacity, nodes, damage>> /\ pc' = "visit"
        /\ base' = [base EXCEPT ![at] = b]
        /\ check' = [s \in Slots |-> IF s \in took THEN at ELSE check[s]]
        /\ slot' = [n \in nodes |-> IF isChild(n) THEN b + Last(n) ELSE slot[n]]
        /\ stack' = Append(Top([Frame EXCEPT !.child = @ + 1]), Child(vec[child + 1]))
    BY DEF Place, pointers
  <1> HIDE DEF took, isChild
  <1>8. \A n \in nodes : isChild(n) =>
          /\ slot'[n] \in took /\ slot'[n] \in Slots /\ check[slot'[n]] = 0
          /\ n = Append(node, slot'[n] - b)
          /\ Orderly => slot'[n] # 0
    <2> SUFFICES ASSUME NEW n \in nodes, isChild(n)
                 PROVE  /\ slot'[n] \in took /\ slot'[n] \in Slots /\ check[slot'[n]] = 0
                        /\ n = Append(node, slot'[n] - b)
                        /\ Orderly => slot'[n] # 0
      OBVIOUS
    <2>1. PICK i \in DOMAIN vec : n = Append(node, vec[i])
      BY DEF isChild
    <2>2. slot'[n] = b + vec[i] /\ (b + vec[i]) - b = vec[i]
      BY <1>6, <1>7, <2>1
    <2> QED
      BY <1>6, <2>1, <2>2 DEF took
  <1>9. \A n \in nodes : ~isChild(n) => slot'[n] = slot[n]
    BY <1>7
  <1>10. ArraysShaped'
    <2>1. base' \in [Slots -> Int] /\ check' \in [Slots -> Slots]
      BY <1>3, <1>7 DEF LayoutInv, ArraysShaped
    <2>2. slot' \in [nodes -> Slots]
      BY <1>7, <1>8, <1>9 DEF LayoutInv, ArraysShaped
    <2> QED
      BY <1>7, <2>1, <2>2 DEF LayoutInv, ArraysShaped, Slots
  <1>11. \A n \in nodes : Orderly /\ slot[n] # 0 => slot'[n] # 0
    BY <1>8, <1>9
  <1>12. StackShaped'
    <2>1. f \in FrameSet /\ g \in FrameSet
      <3>1. child + 1 \in Nat /\ Append(node, c) \in Seq(Code) /\ <<>> \in Seq(Code)
        BY <1>2, <1>5, <1>6
      <3> QED
        BY <1>2, <3>1 DEF FrameSet
    <2>2. stack' = Append(Front(old) \o <<f>>, g)
      <3>1. [Frame EXCEPT !.child = @ + 1] = f
        BY <1>2
      <3>2. Child(vec[child + 1]) = g
        BY <1>2 DEF Child
      <3> QED
        BY <1>7, <3>1, <3>2 DEF Top
    <2>3. FrameOK(f)'
      BY <1>2, <1>3, <1>4, <1>5, <1>7, <1>11 DEF FrameOK, ChildCodes, Orderly, kids
    <2>4. ASSUME NEW j \in DOMAIN vec, Orderly PROVE slot'[Append(node, vec[j])] # 0
      <3>1. Append(node, vec[j]) \in nodes /\ isChild(Append(node, vec[j]))
        BY <1>6 DEF isChild
      <3> QED
        BY <1>8, <2>4, <3>1
    <2>5. ChildrenPlaced(f)'
      BY <1>7, <2>4 DEF ChildrenPlaced, Orderly
    <2>6. FrameOK(g)' /\ ChildrenPlaced(g)'
      <3>1. Cardinality(ChildCodes(nodes', Append(node, c))) \in Nat
        BY CodesAreNumbers
      <3>2. Append(node, c) \in nodes' /\ Append(node, c) \in Seq(Code)
        BY <1>5, <1>6, <1>7
      <3>3. Orderly' => slot'[Append(node, c)] # 0
        BY <1>5, <1>7, <2>4 DEF Orderly
      <3> QED
        BY <3>1, <3>2, <3>3 DEF FrameOK, ChildrenPlaced
    <2>7. ASSUME NEW i \in 1 .. Len(old) - 1 PROVE FrameOK(old[i])' /\ ChildrenPlaced(old[i])'
      <3> PICK h : h = old[i]
        OBVIOUS
      <3>1. FrameOK(h) /\ ChildrenPlaced(h)
        BY <1>2
      <3>2. FrameOK(h)'
        BY <1>7, <1>11, <3>1 DEF FrameOK, ChildCodes, Orderly
      <3>3. ASSUME NEW j \in DOMAIN h.vec, Orderly PROVE slot'[Append(h.node, h.vec[j])] # 0
        <4>1. Append(h.node, h.vec[j]) \in nodes
          BY <3>1 DEF FrameOK, ChildCodes
        <4>2. slot[Append(h.node, h.vec[j])] # 0
          BY <3>1, <3>3 DEF ChildrenPlaced
        <4> QED
          BY <1>11, <3>3, <4>1, <4>2
      <3>4. ChildrenPlaced(h)'
        BY <1>7, <3>3 DEF ChildrenPlaced, Orderly
      <3> QED
        BY <3>2, <3>4
    <2> HIDE DEF f, g
    <2> QED
      BY <1>2, <1>7, <2>1, <2>2, <2>3, <2>5, <2>6, <2>7, StackPushed
  <1>13. VecReady'
    BY <1>7 DEF VecReady, Choosing
  <1>14. PlacedApart'
    <2>1. ASSUME Orderly, NEW n \in nodes, slot'[n] # 0 PROVE check'[slot'[n]] # 0
      <3>1. CASE isChild(n)
        BY <1>3, <1>7, <1>8, <2>1, <3>1
      <3>2. CASE ~isChild(n)
        <4>1. slot'[n] = slot[n] /\ slot[n] \in Slots /\ check[slot[n]] # 0
          BY <1>1, <1>9, <2>1, <3>2 DEF LayoutInv, ArraysShaped, PlacedApart
        <4> QED
          BY <1>3, <1>7, <2>1, <4>1
      <3> QED
        BY <3>1, <3>2
    <2>2. ASSUME Orderly, NEW m \in nodes, NEW n \in nodes, slot'[m] # 0, slot'[m] = slot'[n]
          PROVE  m = n
      <3>1. CASE isChild(m) /\ isChild(n)
        BY <1>8, <2>2, <3>1
      <3>2. CASE ~isChild(m) /\ ~isChild(n)
        BY <1>9, <2>2, <3>2 DEF LayoutInv, PlacedApart, SlotsDistinct, Orderly
      <3>3. CASE isChild(m) /\ ~isChild(n)
        BY <1>1, <1>8, <1>9, <2>2, <3>3 DEF LayoutInv, PlacedApart
      <3>4. CASE ~isChild(m) /\ isChild(n)
        BY <1>1, <1>8, <1>9, <2>2, <3>4 DEF LayoutInv, PlacedApart
      <3> QED
        BY <3>1, <3>2, <3>3, <3>4
    <2> QED
      BY <1>1, <1>7, <2>1, <2>2 DEF PlacedApart, SlotsDistinct, Orderly
  <1> QED
    BY <1>10, <1>12, <1>13, <1>14 DEF LayoutInv

LEMMA DenseFits ==
  ASSUME LayoutInv, pc = "dense", Len(Frame.vec) = 1, dense # <<>>, Empty(Head(dense)),
         NEW b, b = Head(dense) - MinCode
  PROVE  FitsAt(b)
  <1>1. Choosing /\ Head(dense) \in 0 .. MaxChain(capacity) /\ MinCode \in Nat
    BY DenseHead, TriedSlots DEF Choosing
  <1>2. b \in Int
    BY <1>1
  <1>3. ASSUME NEW i \in DOMAIN Frame.vec
        PROVE  /\ b + Frame.vec[i] \in Slots /\ Empty(b + Frame.vec[i])
               /\ Orderly => b + Frame.vec[i] # 0
    <2>1. Frame.vec[i] = MinCode
      <3>1. Frame.vec \in Seq(Code)
        BY TopFrame, <1>1 DEF LayoutInv, VecReady
      <3> QED
        BY <3>1 DEF MinCode
    <2>2. b + Frame.vec[i] = Head(dense)
      BY <1>1, <2>1
    <2>3. b + Frame.vec[i] \in Slots
      BY <1>1, TriedSlots
    <2> QED
      BY <2>2, <2>3, DenseHead
  <1> QED
    BY <1>2, <1>3 DEF FitsAt

LEMMA ChainFits ==
  ASSUME LayoutInv, pc = "chain", left > 0, NEW b, b = Head(chain) - MinCode, Fits(b)
  PROVE  FitsAt(b)
  <1> PICK s : s = Head(chain)
    OBVIOUS
  <1>1. Choosing /\ s \in 0 .. MaxChain(capacity) /\ (Orderly => s # 0) /\ s \in Nat
    BY ChainHead, SizesAssumption DEF Choosing, LayoutInv, ArraysShaped, MaxChain
  <1>2. b \in Int
    BY <1>1, TriedSlots
  <1>3. ASSUME NEW i \in DOMAIN Frame.vec
        PROVE  /\ b + Frame.vec[i] \in Slots /\ Empty(b + Frame.vec[i])
               /\ Orderly => b + Frame.vec[i] # 0
    <2>1. /\ Frame.vec[i] \in Nat /\ b + Frame.vec[i] \in Slots
          /\ b + Frame.vec[i] >= s
      BY <1>1, TriedSlots
    <2>2. Empty(b + Frame.vec[i])
      BY DEF Fits
    <2>3. Orderly => b + Frame.vec[i] # 0
      BY <1>1, <1>2, <2>1
    <2> QED
      BY <2>1, <2>2, <2>3
  <1> QED
    BY <1>2, <1>3 DEF FitsAt

LEMMA TryDenseLayout ==
  ASSUME LayoutInv, TryDense
  PROVE  LayoutInv'
  <1>1. /\ pc = "dense" /\ Len(Frame.vec) = 1 /\ dense # <<>> /\ dense' = Tail(dense)
        /\ chain' = chain /\ left' = left
    BY DEF TryDense
  <1>2. CASE Empty(Head(dense))
    <2> PICK b : b = Head(dense) - MinCode
      OBVIOUS
    <2>1. Place(b)
      BY <1>2 DEF TryDense
    <2>2. FitsAt(b)
      BY <1>1, <1>2, DenseFits
    <2>3. QueuesInRange'
      BY <1>1, <2>1, DenseHead
      DEF Place, LayoutInv, QueuesInRange, Building, Orderly, MaxChain
    <2> QED
      BY <1>1, <2>1, <2>2, <2>3, PlaceLayout
  <1>3. CASE ~Empty(Head(dense))
    <2>1. UNCHANGED <<capacity, base, check, nodes, slot, stack, damage, pc>>
      BY <1>3 DEF TryDense, arrays, pointers
    <2>2. QueuesInRange'
      BY <1>1, <2>1, DenseHead DEF LayoutInv, QueuesInRange, Building, Orderly, MaxChain
    <2> QED
      BY <1>1, <2>1, <2>2, QueuesMoved
  <1> QED
    BY <1>2, <1>3

LEMMA TryChainLayout ==
  ASSUME LayoutInv, TryChain
  PROVE  LayoutInv'
  <1>1. /\ pc = "chain" /\ left > 0 /\ left' = left - 1 /\ dense' = dense
        /\ Choosing
    BY DEF TryChain, Choosing
  <1> PICK s : s = Head(chain)
    OBVIOUS
  <1> PICK b : b = s - MinCode
    OBVIOUS
  <1>2. /\ s \in 0 .. MaxChain(capacity) /\ (Orderly => s # 0)
        /\ chain \in Seq(0 .. MaxChain(capacity)) /\ left \in Nat /\ left <= Len(chain)
        /\ Tail(chain) \in Seq(0 .. MaxChain(capacity)) /\ Len(Tail(chain)) = Len(chain) - 1
        /\ Orderly => \A i \in DOMAIN Tail(chain) : Tail(chain)[i] # 0
    BY <1>1, ChainHead
  <1>4. CASE Fits(b)
    <2>1. Place(b) /\ chain' = Tail(chain)
      BY <1>4 DEF TryChain
    <2>2. FitsAt(b)
      BY <1>1, <1>4, ChainFits
    <2>3. QueuesInRange'
      BY <1>1, <1>2, <2>1
      DEF Place, LayoutInv, QueuesInRange, Building, Orderly, MaxChain
    <2> QED
      BY <1>1, <2>1, <2>2, <2>3, PlaceLayout
  <1>5. CASE ~Fits(b)
    <2>1. /\ chain' = Append(Tail(chain), s)
          /\ UNCHANGED <<capacity, base, check, nodes, slot, stack, damage, pc>>
      BY <1>5 DEF TryChain, arrays, pointers
    <2>2. /\ chain' \in Seq(0 .. MaxChain(capacity)) /\ Len(chain') = Len(Tail(chain)) + 1
          /\ \A i \in 1 .. Len(Tail(chain)) : chain'[i] = Tail(chain)[i]
          /\ chain'[Len(Tail(chain)) + 1] = s
      BY <1>2, <2>1, Pushed
    <2>3. Orderly => \A i \in DOMAIN chain' : chain'[i] # 0
      <3> PICK rest, longer : rest = Tail(chain) /\ longer = chain'
        OBVIOUS
      <3>1. /\ rest \in Seq(0 .. MaxChain(capacity))
            /\ longer \in Seq(0 .. MaxChain(capacity)) /\ Len(longer) = Len(rest) + 1
            /\ \A i \in 1 .. Len(rest) : longer[i] = rest[i]
            /\ longer[Len(rest) + 1] = s
        BY <1>2, <2>2
      <3>2. Orderly => s # 0 /\ \A i \in DOMAIN rest : rest[i] # 0
        BY <1>2
      <3>3. Orderly => \A i \in DOMAIN longer : longer[i] # 0
        BY <3>1, <3>2
      <3> QED
        BY <3>3
    <2>4. left' \in Nat /\ left' <= Len(chain')
      BY <1>1, <1>2, <2>2
    <2>5. QueuesInRange'
      BY <1>1, <2>1, <2>2, <2>3, <2>4
      DEF LayoutInv, QueuesInRange, Building, Orderly, MaxChain
    <2> QED
      BY <1>1, <2>1, <2>5, QueuesMoved
  <1> QED
    BY <1>4, <1>5

LEMMA ReserveLayout ==
  ASSUME LayoutInv, Reserve
  PROVE  LayoutInv'
  <1>1. PICK cap \in Grown(capacity) :
          /\ capacity' = cap
          /\ base' = Extended(base, cap) /\ check' = Extended(check, cap)
          /\ chain' = chain \o Numbers(MaxChain(capacity), MaxChain(cap))
    BY DEF Reserve
  <1>2. /\ pc = "chain" /\ left = 0 /\ pc' = "dense"
        /\ UNCHANGED <<dense, nodes, slot, stack, left, damage>>
        /\ "thrown" \notin damage
    BY Unthrown DEF Reserve, pointers, Building
  <1>3. /\ capacity \in Nat /\ capacity > MaxCode
        /\ cap \in Nat /\ cap > MaxCode /\ cap > capacity
        /\ MaxChain(capacity) = capacity - MaxCode /\ MaxChain(cap) = cap - MaxCode
        /\ Slots' = 0 .. cap - 1 /\ Slots \subseteq Slots'
    <2>1. capacity \in Nat /\ capacity > MaxCode
      BY DEF LayoutInv, ArraysShaped
    <2>2. cap \in Nat /\ cap > MaxCode /\ cap > capacity
      BY <2>1, GrownIsLarger
    <2>3. MaxChain(capacity) = capacity - MaxCode /\ MaxChain(cap) = cap - MaxCode
      BY <2>1, <2>2 DEF MaxChain
    <2>4. Slots' = 0 .. cap - 1 /\ Slots = 0 .. capacity - 1
      BY <1>1 DEF Slots
    <2>5. Slots \subseteq Slots'
      BY <2>1, <2>2, <2>4
    <2> QED
      BY <2>1, <2>2, <2>3, <2>4, <2>5
  <1>4. /\ base \in [Slots -> Int] /\ check \in [Slots -> Slots]
        /\ Root \in nodes /\ slot \in [nodes -> Slots]
    BY DEF LayoutInv, ArraysShaped
  <1>5. /\ base' = [i \in Slots' |-> IF i \in Slots THEN base[i] ELSE 0]
        /\ check' = [i \in Slots' |-> IF i \in Slots THEN check[i] ELSE 0]
    BY <1>1, <1>3, <1>4 DEF Extended
  <1>6. ArraysShaped'
    <2>1. 0 \in Slots'
      BY <1>3
    <2>2. base' \in [Slots' -> Int] /\ check' \in [Slots' -> Slots']
      <3> PICK S, T : S = Slots /\ T = Slots'
        OBVIOUS
      <3>1. \A i \in S : base[i] \in Int /\ check[i] \in T
        BY <1>3, <1>4
      <3>2. 0 \in T /\ base' = [i \in T |-> IF i \in S THEN base[i] ELSE 0]
            /\ check' = [i \in T |-> IF i \in S THEN check[i] ELSE 0]
        BY <1>5, <2>1
      <3>3. base' \in [T -> Int] /\ check' \in [T -> T]
        BY <3>1, <3>2
      <3> QED
        BY <3>3
    <2> QED
      BY <1>1, <1>2, <1>3, <1>4, <2>2 DEF ArraysShaped
  <1>7. QueuesInRange'
    <2> DEFINE more == Numbers(MaxChain(capacity), MaxChain(cap))
               M == MaxChain(capacity)
               N == MaxChain(cap)
    <2>1. M \in Nat \ {0} /\ N \in Nat /\ M <= N /\ MaxChain(capacity') = N
      BY <1>1, <1>3, SizesAssumption
    <2>2. /\ more \in Seq(M .. N) /\ Len(more) = N - M + 1
          /\ \A i \in 1 .. N - M + 1 : more[i] = M + i - 1
      BY <2>1, NumbersElements
    <2> HIDE DEF more, M, N
    <2>3. more \in Seq(0 .. N) /\ \A i \in 1 .. Len(more) : more[i] # 0
      BY <2>1, <2>2
    <2>4. /\ chain \in Seq(0 .. M) /\ dense \in Seq(0 .. M) /\ left \in Nat
          /\ Orderly => /\ \A i \in 1 .. Len(chain) : chain[i] # 0
                        /\ \A i \in DOMAIN dense : dense[i] # 0
      BY <1>2 DEF LayoutInv, QueuesInRange, M, Building
    <2>5. chain \in Seq(0 .. N) /\ dense \in Seq(0 .. N)
      BY <2>1, <2>4
    <2>6. /\ chain \o more \in Seq(0 .. N) /\ Len(chain \o more) = Len(chain) + Len(more)
          /\ \A i \in 1 .. Len(chain) : (chain \o more)[i] = chain[i]
          /\ \A i \in Len(chain) + 1 .. Len(chain) + Len(more) :
               (chain \o more)[i] = more[i - Len(chain)]
      BY <2>3, <2>5, ConcatElements
    <2>7. chain' = chain \o more
      BY <1>1 DEF more
    <2>8. ASSUME Orderly, NEW i \in DOMAIN (chain \o more) PROVE (chain \o more)[i] # 0
      <3>1. i \in 1 .. Len(chain) + Len(more) /\ Len(chain) \in Nat /\ Len(more) \in Nat
        BY <2>3, <2>5, <2>6
      <3>2. CASE i <= Len(chain)
        BY <2>4, <2>6, <2>8, <3>1, <3>2
      <3>3. CASE i > Len(chain)
        <4>1. /\ i - Len(chain) \in 1 .. Len(more)
              /\ i \in Len(chain) + 1 .. Len(chain) + Len(more)
          BY <3>1, <3>3
        <4> QED
          BY <2>3, <2>6, <4>1
      <3> QED
        BY <3>1, <3>2, <3>3
    <2> QED
      BY <1>2, <2>1, <2>4, <2>5, <2>6, <2>7, <2>8 DEF QueuesInRange, Building, Orderly
  <1>8. StackShaped' /\ VecReady'
    BY <1>2, FramesKept
    DEF LayoutInv, StackShaped, Building, VecReady, Choosing, Frame, Kids, ChildCodes
  <1>9. PlacedApart'
    <2>1. ASSUME NEW n \in nodes PROVE check'[slot[n]] = check[slot[n]]
      BY <1>3, <1>4, <1>5
    <2> QED
      BY <1>2, <2>1 DEF LayoutInv, PlacedApart, SlotsDistinct, Orderly
  <1> QED
    BY <1>6, <1>7, <1>8, <1>9 DEF LayoutInv

LEMMA FinishBuildLayout ==
  ASSUME LayoutInv, FinishBuild
  PROVE  LayoutInv'
  <1>1. /\ pc = "visit" /\ stack = <<>> /\ pc' = "ready"
        /\ chain' = <<>> /\ dense' = <<>>
        /\ UNCHANGED <<capacity, base, check, nodes, slot, stack, left, damage>>
    BY DEF FinishBuild, pointers
  <1>2. ArraysShaped' /\ PlacedApart'
    BY <1>1, ArraysKept, PlacedKept DEF LayoutInv
  <1>3. QueuesInRange'
    BY <1>1 DEF LayoutInv, QueuesInRange, Building
  <1>4. StackShaped' /\ VecReady'
    BY <1>1 DEF StackShaped, VecReady, Choosing
  <1> QED
    BY <1>2, <1>3, <1>4 DEF LayoutInv

LEMMA SearchLayout ==
  ASSUME LayoutInv, (\E t \in Texts : BeginSearch(t)) \/ SearchStep
  PROVE  LayoutInv'
  <1>1. /\ UNCHANGED <<capacity, base, check, chain, dense, nodes, slot, stack, left, damage>>
        /\ pc' = pc \/ (pc \in {"ready", "search"} /\ pc' \in {"ready", "search"})
    BY DEF BeginSearch, SearchStep, SkipJunk, FollowFail, Consume, EndSearch, Reading,
           arrays, queues, pointers
  <1> QED
    BY <1>1, LayoutKept

LEMMA StepLayout == LayoutInv /\ [Next]_vars => LayoutInv'
  <1> SUFFICES ASSUME LayoutInv, [Next]_vars PROVE LayoutInv'
    OBVIOUS
  <1>1. CASE UNCHANGED vars
    BY <1>1, LayoutKept DEF vars, arrays, queues, pointers
  <1>2. ASSUME NEW ws \in Dictionaries, Rebuild(ws) \/ RebuildThrows(ws) PROVE LayoutInv'
    BY <1>2, RebuildLayout, RebuildThrowsLayout
  <1>3. CASE (\E t \in Texts : BeginSearch(t)) \/ SearchStep
    BY <1>3, SearchLayout
  <1>4. CASE BuildStep
    BY <1>4, PopNodeLayout, CollectChildrenLayout, DescendLayout, TryDenseLayout,
       StartChainLayout, SkipTakenLayout, GiveUpDenseLayout, TryChainLayout, ReserveLayout,
       FinishBuildLayout DEF BuildStep
  <1> QED
    BY <1>1, <1>2, <1>3, <1>4 DEF Next

-----------------------------------------------------------------------------
(* The layout of the arrays, the queues and the placing stack survives      *)
(* every sequence of builds, failed builds and searches.                    *)
THEOREM LayoutCorrect == Spec => []LayoutInv
  BY InitLayout, StepLayout, PTL DEF Spec

(* No two nodes of the trie get the same slot, whatever the dictionary, as  *)
(* long as no build threw before: placing a node never writes over another, *)
(* also where base 0 makes it place children twice.                         *)
THEOREM SlotsDistinctCorrect == Spec => []SlotsDistinct
  <1>1. LayoutInv => SlotsDistinct
    BY DEF LayoutInv, PlacedApart
  <1> QED
    BY <1>1, LayoutCorrect, PTL

(* get_proper_base only ever tries slots inside the arrays, for every size  *)
(* of block and of growth: the writes behind empty_node need no check.      *)
THEOREM TriesStayInsideCorrect == Spec => []TriesStayInside
  <1>1. LayoutInv => TriesStayInside
    <2> SUFFICES ASSUME LayoutInv, pc = "chain", left > 0, NEW i \in DOMAIN Frame.vec
                 PROVE  Head(chain) - MinCode + Frame.vec[i] \in Slots
      BY DEF TriesStayInside
    <2>1. Choosing /\ Head(chain) \in 0 .. MaxChain(capacity)
      BY ChainHead DEF Choosing
    <2> QED
      BY <2>1, TriedSlots
  <1> QED
    BY <1>1, LayoutCorrect, PTL

-----------------------------------------------------------------------------
(* The nodes of the pointer trie.                                          *)

LEMMA TakenApart ==
  ASSUME NEW F, NEW s \in Seq(F), s # <<>>
  PROVE  /\ Front(s) \in Seq(F) /\ Last(s) \in F /\ s = Append(Front(s), Last(s))
         /\ Len(s) \in Nat \ {0} /\ Len(Front(s)) = Len(s) - 1
  <1> DEFINE p == Front(s)
             c == Last(s)
             m == Append(p, c)
  <1>1. /\ Len(s) \in Nat \ {0} /\ c = s[Len(s)] /\ c \in F
        /\ p \in Seq(F) /\ Len(p) = Len(s) - 1
        /\ \A i \in 1 .. Len(s) - 1 : p[i] = s[i]
    BY TopElement
  <1> HIDE DEF p, c
  <1>2. /\ m \in Seq(F) /\ Len(m) = Len(p) + 1
        /\ \A i \in 1 .. Len(p) : m[i] = p[i]
        /\ m[Len(p) + 1] = c
    BY <1>1, Pushed
  <1> HIDE DEF m
  <1>3. \A i \in 1 .. Len(s) : i \in 1 .. Len(s) - 1 \/ i = Len(s)
    BY <1>1
  <1>4. Len(m) = Len(s) /\ \A i \in 1 .. Len(s) : s[i] = m[i]
    BY <1>1, <1>2, <1>3
  <1>5. s = m
    BY <1>2, <1>4, SeqEqual
  <1> QED
    BY <1>1, <1>5 DEF p, c, m

LEMMA CharacterTyped ==
  ASSUME NEW c \in Character
  PROVE  /\ c.code \in Int /\ c.width \in 1 .. 4
         /\ c = Junk <=> c.code = -1
         /\ c # Junk => c.code \in Code \cup {0}
  <1>1. CASE c = Junk
    BY <1>1, CodeAssumption DEF Junk
  <1>2. CASE c # Junk
    <2>1. c.code \in Code \cup {0} /\ c.width \in 1 .. 4
      BY <1>2 DEF Character
    <2>2. c.code \in Int /\ c.code # -1
      <3> PICK code : code = c.code
        OBVIOUS
      <3>1. code \in Nat
        <4>1. \A d \in Code : d \in Nat
          BY CodeAssumption
        <4>2. code = 0 \/ code \in Code
          BY <2>1
        <4> QED
          BY <4>1, <4>2
      <3>2. code \in Int /\ code # -1
        BY <3>1
      <3> QED
        BY <3>2
    <2> QED
      BY ONLY <1>2, <2>1, <2>2
  <1> QED
    BY <1>1, <1>2

-----------------------------------------------------------------------------
(* The loop of Path, after each character.                                 *)
PathBy(w, f) ==
  /\ f[0] = Root
  /\ \A i \in 1 .. Len(w) :
       f[i] = IF w[i] = Junk THEN f[i - 1] ELSE Append(f[i - 1], w[i].code)

LEMMA PathIsOne ==
  ASSUME NEW w \in Seq(Character), NEW f, PathBy(w, f), NEW g, PathBy(w, g)
  PROVE  \A i \in 0 .. Len(w) : f[i] = g[i]
  <1> DEFINE T == {n \in Nat : n <= Len(w) => f[n] = g[n]}
  <1>1. 0 \in T
    BY DEF PathBy
  <1>2. ASSUME NEW n \in Nat, n \in T PROVE n + 1 \in T
    <2> SUFFICES ASSUME n + 1 <= Len(w) PROVE f[n + 1] = g[n + 1]
      OBVIOUS
    <2>1. n + 1 \in 1 .. Len(w) /\ (n + 1) - 1 = n /\ f[n] = g[n]
      BY <1>2
    <2> QED
      BY <2>1 DEF PathBy
  <1>3. Nat \subseteq T
    <2> HIDE DEF T
    <2> QED
      BY <1>1, <1>2, Induction
  <1> QED
    BY <1>3

LEMMA PathLoop ==
  ASSUME NEW w \in Seq(Character)
  PROVE  \E f : /\ PathBy(w, f) /\ f[Len(w)] = Path(w)
                /\ \A i \in 0 .. Len(w) : f[i] \in Seq(Int)
  <1> DEFINE step == [p \in Nat \X Seq(Int) |->
                        IF p[1] \in DOMAIN w /\ w[p[1]] # Junk THEN Append(p[2], w[p[1]].code) ELSE p[2]]
             rec(path) == [i \in 0 .. Len(w) |->
                IF i = 0 THEN Root
                ELSE IF w[i] = Junk THEN path[i - 1]
                ELSE Append(path[i - 1], w[i].code)]
             read == CHOOSE path : path = rec(path)
  <1>1. \A i \in DOMAIN w : w[i].code \in Int
    BY CharacterTyped
  <1>2. \A i \in Nat : \A v \in Seq(Int) : step[<<i, v>>] \in Seq(Int)
    BY <1>1
  <1>3. Root \in Seq(Int) /\ Len(w) \in Nat
    BY DEF Root
  <1>4. PICK h : StepByStep(h, Seq(Int), Root, step, Len(w))
    <2> HIDE DEF step
    <2> QED
      BY <1>2, <1>3, StepwiseFunction
  <1> DEFINE f == [i \in 0 .. Len(w) |-> h[i]]
  <1>5. f[0] = Root /\ \A i \in 0 .. Len(w) : f[i] = h[i] /\ f[i] \in Seq(Int)
    <2> HIDE DEF step
    <2> QED
      BY <1>3, <1>4 DEF StepByStep
  <1>6. ASSUME NEW i \in 1 .. Len(w)
        PROVE  f[i] = IF w[i] = Junk THEN f[i - 1] ELSE Append(f[i - 1], w[i].code)
    <2>1. i \in Nat /\ i \in DOMAIN w /\ i - 1 \in 0 .. Len(w) /\ i \in 0 .. Len(w)
      OBVIOUS
    <2>2. f[i - 1] \in Seq(Int) /\ f[i] = h[i] /\ f[i - 1] = h[i - 1]
      <3> HIDE DEF f
      <3> QED
        BY <1>5, <2>1
    <2> HIDE DEF f
    <2>3. f[i] = step[<<i, f[i - 1]>>]
      <3> HIDE DEF step
      <3> QED
        BY <1>4, <2>2 DEF StepByStep
    <2>4. <<i, f[i - 1]>> \in Nat \X Seq(Int)
      BY <2>1, <2>2
    <2>5. step[<<i, f[i - 1]>>] =
            IF w[i] = Junk THEN f[i - 1] ELSE Append(f[i - 1], w[i].code)
      BY <2>1, <2>4
    <2> QED
      BY <2>3, <2>5
  <1>7. PathBy(w, f)
    <2> HIDE DEF f
    <2> QED
      BY <1>5, <1>6 DEF PathBy
  <1>8. f = rec(f)
    <2>1. f = [i \in 0 .. Len(w) |-> f[i]]
      OBVIOUS
    <2> HIDE DEF f
    <2>2. \A i \in 0 .. Len(w) : i = 0 \/ i \in 1 .. Len(w)
      OBVIOUS
    <2> QED
      BY <1>5, <1>6, <2>1, <2>2
  <1> HIDE DEF f
  <1>9. read = rec(read)
    BY <1>8
  <1> HIDE DEF read
  <1>10. PathBy(w, read)
    <2>1. \A i \in 0 .. Len(w) : read[i] = rec(read)[i]
      BY <1>9
    <2>2. 0 \in 0 .. Len(w) /\ \A i \in 1 .. Len(w) : i \in 0 .. Len(w) /\ i # 0
      BY <1>3
    <2> QED
      BY <2>1, <2>2 DEF PathBy
  <1>11. Path(w) = read[Len(w)]
    BY DEF Path, read
  <1>12. read[Len(w)] = f[Len(w)]
    <2>1. Len(w) \in 0 .. Len(w)
      BY <1>3
    <2> QED
      BY <1>7, <1>10, <2>1, PathIsOne
  <1> QED
    BY <1>5, <1>7, <1>11, <1>12

(* Path, a character at a time.                                            *)
LEMMA PathStep ==
  /\ Path(<<>>) = Root
  /\ \A w \in Seq(Character) : Path(w) \in Seq(Int)
  /\ \A w \in Seq(Character) : \A c \in Character :
       Path(Append(w, c)) = IF c = Junk THEN Path(w) ELSE Append(Path(w), c.code)
  <1>1. Path(<<>>) = Root
    <2>1. <<>> \in Seq(Character) /\ Len(<<>>) = 0
      OBVIOUS
    <2> QED
      BY <2>1, PathLoop DEF PathBy
  <1>2. ASSUME NEW w \in Seq(Character) PROVE Path(w) \in Seq(Int)
    <2>1. Len(w) \in 0 .. Len(w)
      OBVIOUS
    <2> QED
      BY <2>1, PathLoop
  <1>3. ASSUME NEW w \in Seq(Character), NEW c \in Character
        PROVE  Path(Append(w, c)) = IF c = Junk THEN Path(w) ELSE Append(Path(w), c.code)
    <2> DEFINE x == Append(w, c)
    <2>1. /\ x \in Seq(Character) /\ Len(x) = Len(w) + 1 /\ Len(w) \in Nat
          /\ \A i \in 1 .. Len(w) : x[i] = w[i]
          /\ x[Len(w) + 1] = c
      BY Pushed
    <2> HIDE DEF x
    <2>2. PICK f : PathBy(x, f) /\ f[Len(x)] = Path(x)
      BY <2>1, PathLoop
    <2>3. PICK g : PathBy(w, g) /\ g[Len(w)] = Path(w)
      BY PathLoop
    <2>4. PathBy(w, f)
      <3>1. \A i \in 1 .. Len(w) : i \in 1 .. Len(x)
        BY <2>1
      <3> QED
        BY <2>1, <2>2, <3>1 DEF PathBy
    <2>5. f[Len(w)] = Path(w)
      <3>1. Len(w) \in 0 .. Len(w)
        BY <2>1
      <3> QED
        BY <2>3, <2>4, <3>1, PathIsOne
    <2>6. Len(w) + 1 \in 1 .. Len(x) /\ (Len(w) + 1) - 1 = Len(w)
      BY <2>1
    <2>7. f[Len(w) + 1] = IF c = Junk THEN f[Len(w)] ELSE Append(f[Len(w)], c.code)
      BY <2>1, <2>2, <2>6 DEF PathBy
    <2> QED
      BY <2>1, <2>2, <2>5, <2>7 DEF x
  <1> QED
    BY <1>1, <1>2, <1>3

-----------------------------------------------------------------------------
(* The same for Bytes.                                                     *)
BytesBy(w, f) ==
  f[0] = 0 /\ \A i \in 1 .. Len(w) : f[i] = f[i - 1] + w[i].width

LEMMA BytesIsOne ==
  ASSUME NEW w \in Seq(Character), NEW f, BytesBy(w, f), NEW g, BytesBy(w, g)
  PROVE  \A i \in 0 .. Len(w) : f[i] = g[i]
  <1> DEFINE T == {n \in Nat : n <= Len(w) => f[n] = g[n]}
  <1>1. 0 \in T
    BY DEF BytesBy
  <1>2. ASSUME NEW n \in Nat, n \in T PROVE n + 1 \in T
    <2> SUFFICES ASSUME n + 1 <= Len(w) PROVE f[n + 1] = g[n + 1]
      OBVIOUS
    <2>1. n + 1 \in 1 .. Len(w) /\ (n + 1) - 1 = n /\ f[n] = g[n]
      BY <1>2
    <2> QED
      BY <2>1 DEF BytesBy
  <1>3. Nat \subseteq T
    <2> HIDE DEF T
    <2> QED
      BY <1>1, <1>2, Induction
  <1> QED
    BY <1>3

LEMMA BytesLoop ==
  ASSUME NEW w \in Seq(Character)
  PROVE  \E f : /\ BytesBy(w, f) /\ f[Len(w)] = Bytes(w)
                /\ \A i \in 0 .. Len(w) : f[i] \in Nat
  <1> DEFINE step == [p \in Nat \X Nat |->
                        IF p[1] \in DOMAIN w THEN p[2] + w[p[1]].width ELSE p[2]]
             rec(bytes) == [i \in 0 .. Len(w) |->
                IF i = 0 THEN 0 ELSE bytes[i - 1] + w[i].width]
             read == CHOOSE bytes : bytes = rec(bytes)
  <1>1. \A i \in DOMAIN w : w[i].width \in 1 .. 4
    BY CharacterTyped
  <1>2. \A i \in Nat : \A v \in Nat : step[<<i, v>>] \in Nat
    BY <1>1
  <1>3. 0 \in Nat /\ Len(w) \in Nat
    OBVIOUS
  <1>4. PICK h : StepByStep(h, Nat, 0, step, Len(w))
    <2> HIDE DEF step
    <2> QED
      BY <1>2, <1>3, StepwiseFunction
  <1> DEFINE f == [i \in 0 .. Len(w) |-> h[i]]
  <1>5. f[0] = 0 /\ \A i \in 0 .. Len(w) : f[i] = h[i] /\ f[i] \in Nat
    <2> HIDE DEF step
    <2> QED
      BY <1>3, <1>4 DEF StepByStep
  <1>6. ASSUME NEW i \in 1 .. Len(w) PROVE f[i] = f[i - 1] + w[i].width
    <2>1. i \in Nat /\ i \in DOMAIN w /\ i - 1 \in 0 .. Len(w) /\ i \in 0 .. Len(w)
      OBVIOUS
    <2>2. f[i - 1] \in Nat /\ f[i] = h[i] /\ f[i - 1] = h[i - 1]
      <3> HIDE DEF f
      <3> QED
        BY <1>5, <2>1
    <2> HIDE DEF f
    <2>3. f[i] = step[<<i, f[i - 1]>>]
      <3> HIDE DEF step
      <3> QED
        BY <1>4, <2>2 DEF StepByStep
    <2>4. <<i, f[i - 1]>> \in Nat \X Nat
      BY <2>1, <2>2
    <2>5. step[<<i, f[i - 1]>>] = f[i - 1] + w[i].width
      BY <2>1, <2>4
    <2> QED
      BY <2>3, <2>5
  <1>7. BytesBy(w, f)
    <2> HIDE DEF f
    <2> QED
      BY <1>5, <1>6 DEF BytesBy
  <1>8. f = rec(f)
    <2>1. f = [i \in 0 .. Len(w) |-> f[i]]
      OBVIOUS
    <2> HIDE DEF f
    <2>2. \A i \in 0 .. Len(w) : i = 0 \/ i \in 1 .. Len(w)
      OBVIOUS
    <2> QED
      BY <1>5, <1>6, <2>1, <2>2
  <1> HIDE DEF f
  <1>9. read = rec(read)
    BY <1>8
  <1> HIDE DEF read
  <1>10. BytesBy(w, read)
    <2>1. \A i \in 0 .. Len(w) : read[i] = rec(read)[i]
      BY <1>9
    <2>2. 0 \in 0 .. Len(w) /\ \A i \in 1 .. Len(w) : i \in 0 .. Len(w) /\ i # 0
      BY <1>3
    <2> QED
      BY <2>1, <2>2 DEF BytesBy
  <1>11. Bytes(w) = read[Len(w)]
    BY DEF Bytes, read
  <1>12. read[Len(w)] = f[Len(w)]
    <2>1. Len(w) \in 0 .. Len(w)
      BY <1>3
    <2> QED
      BY <1>7, <1>10, <2>1, BytesIsOne
  <1> QED
    BY <1>5, <1>7, <1>11, <1>12

(* Bytes, a character at a time.                                           *)
LEMMA BytesStep ==
  /\ Bytes(<<>>) = 0
  /\ \A w \in Seq(Character) : Bytes(w) \in Nat
  /\ \A w \in Seq(Character) : \A c \in Character :
       Bytes(Append(w, c)) = Bytes(w) + c.width
  <1>1. Bytes(<<>>) = 0
    <2>1. <<>> \in Seq(Character) /\ Len(<<>>) = 0
      OBVIOUS
    <2> QED
      BY <2>1, BytesLoop DEF BytesBy
  <1>2. ASSUME NEW w \in Seq(Character) PROVE Bytes(w) \in Nat
    <2>1. Len(w) \in 0 .. Len(w)
      OBVIOUS
    <2> QED
      BY <2>1, BytesLoop
  <1>3. ASSUME NEW w \in Seq(Character), NEW c \in Character
        PROVE  Bytes(Append(w, c)) = Bytes(w) + c.width
    <2> DEFINE x == Append(w, c)
    <2>1. /\ x \in Seq(Character) /\ Len(x) = Len(w) + 1 /\ Len(w) \in Nat
          /\ \A i \in 1 .. Len(w) : x[i] = w[i]
          /\ x[Len(w) + 1] = c
      BY Pushed
    <2> HIDE DEF x
    <2>2. PICK f : BytesBy(x, f) /\ f[Len(x)] = Bytes(x)
      BY <2>1, BytesLoop
    <2>3. PICK g : BytesBy(w, g) /\ g[Len(w)] = Bytes(w)
      BY BytesLoop
    <2>4. BytesBy(w, f)
      <3>1. \A i \in 1 .. Len(w) : i \in 1 .. Len(x)
        BY <2>1
      <3> QED
        BY <2>1, <2>2, <3>1 DEF BytesBy
    <2>5. f[Len(w)] = Bytes(w)
      <3>1. Len(w) \in 0 .. Len(w)
        BY <2>1
      <3> QED
        BY <2>3, <2>4, <3>1, BytesIsOne
    <2>6. Len(w) + 1 \in 1 .. Len(x) /\ (Len(w) + 1) - 1 = Len(w)
      BY <2>1
    <2>7. f[Len(w) + 1] = f[Len(w)] + c.width
      BY <2>1, <2>2, <2>6 DEF BytesBy
    <2> QED
      BY <2>1, <2>2, <2>5, <2>7 DEF x
  <1> QED
    BY <1>1, <1>2, <1>3

(* The path build walks for a supported pattern consists of codes.          *)
LEMMA PathTyped ==
  ASSUME NEW w \in Seq(Character), ~Unsupported(w)
  PROVE  Path(w) \in Seq(Code)
  <1>1. PICK f : PathBy(w, f) /\ f[Len(w)] = Path(w)
    BY PathLoop
  <1>2. \A i \in 1 .. Len(w) : w[i] = Junk \/ w[i].code \in Code
    BY DEF Unsupported, Character
  <1> DEFINE T == {n \in Nat : n <= Len(w) => f[n] \in Seq(Code)}
  <1>3. 0 \in T
    <2>1. f[0] = <<>> /\ <<>> \in Seq(Code)
      BY <1>1 DEF PathBy, Root
    <2>2. f[0] \in Seq(Code)
      BY ONLY <2>1
    <2> QED
      BY ONLY <2>2
  <1>4. ASSUME NEW n \in Nat, n \in T PROVE n + 1 \in T
    <2> SUFFICES ASSUME n + 1 <= Len(w) PROVE f[n + 1] \in Seq(Code)
      OBVIOUS
    <2>1. n + 1 \in 1 .. Len(w) /\ (n + 1) - 1 = n /\ f[n] \in Seq(Code)
      BY <1>4
    <2>2. f[n + 1] = IF w[n + 1] = Junk THEN f[n] ELSE Append(f[n], w[n + 1].code)
      BY <1>1, <2>1 DEF PathBy
    <2> QED
      BY <1>2, <2>1, <2>2
  <1>5. Nat \subseteq T
    <2> HIDE DEF T
    <2> QED
      BY <1>3, <1>4, Induction
  <1> QED
    BY <1>1, <1>5

LEMMA PrefixElements ==
  ASSUME NEW s \in Seq(Code), NEW n \in Seq(Code)
  PROVE  IsPrefix(s, n) <=> Len(s) <= Len(n) /\ \A k \in 1 .. Len(s) : n[k] = s[k]
  <1>1. CASE Len(s) <= Len(n)
    <2>1. Len(s) \in 0 .. Len(s) /\ Len(s) \in 0 .. Len(n)
      BY <1>1
    <2>2. /\ SubSeq(s, 1, Len(s)) \in Seq(Code) /\ Len(SubSeq(s, 1, Len(s))) = Len(s)
          /\ \A k \in 1 .. Len(s) : SubSeq(s, 1, Len(s))[k] = s[k]
      BY <2>1, SubSeqElements
    <2>3. /\ SubSeq(n, 1, Len(s)) \in Seq(Code) /\ Len(SubSeq(n, 1, Len(s))) = Len(s)
          /\ \A k \in 1 .. Len(s) : SubSeq(n, 1, Len(s))[k] = n[k]
      BY <2>1, SubSeqElements
    <2>4. SubSeq(s, 1, Len(s)) = SubSeq(n, 1, Len(s))
            <=> \A k \in 1 .. Len(s) : n[k] = s[k]
      BY <2>2, <2>3, SeqEqual
    <2> QED
      BY <1>1, <2>4 DEF IsPrefix
  <1>2. CASE ~(Len(s) <= Len(n))
    BY <1>2 DEF IsPrefix
  <1> QED
    BY <1>1, <1>2

LEMMA AheadElements ==
  ASSUME NEW f \in FrameSet, NEW n \in Seq(Code)
  PROVE  Ahead(f, n) <=> /\ Len(n) > Len(f.node)
                         /\ \A k \in 1 .. Len(f.node) : n[k] = f.node[k]
                         /\ n[Len(f.node) + 1] \notin Seen(f)
  <1>1. f.node \in Seq(Code) /\ Len(f.node) \in Nat /\ Len(n) \in Nat
    BY DEF FrameSet
  <1>2. (\A k \in 1 .. Len(f.node) : n[k] = f.node[k]) /\ Len(n) = Len(f.node) => f.node = n
    BY <1>1, SeqEqual
  <1>3. f.node = n => Len(n) = Len(f.node)
    OBVIOUS
  <1>4. IsPrefix(f.node, n)
          <=> Len(f.node) <= Len(n) /\ \A k \in 1 .. Len(f.node) : n[k] = f.node[k]
    BY <1>1, PrefixElements
  <1> QED
    BY <1>1, <1>2, <1>3, <1>4 DEF Ahead, IsStrictPrefix

(* Descending to child c of a frame: what was ahead of it is c's node, or   *)
(* ahead of c's node, or still ahead of the frame.                          *)
LEMMA AheadSplits ==
  ASSUME NEW node \in Seq(Code), NEW vec \in Seq(Code), NEW child \in Nat,
         child < Len(vec), IsInjective(vec),
         NEW f, f = [node |-> node, child |-> child, vec |-> vec],
         NEW c, c = vec[child + 1],
         NEW g, g = [node |-> node, child |-> child + 1, vec |-> vec],
         NEW h, h = [node |-> Append(node, c), child |-> 0, vec |-> <<>>],
         NEW n \in Seq(Code)
  PROVE  /\ f \in FrameSet /\ g \in FrameSet /\ h \in FrameSet
         /\ Seen(g) = Seen(f) \cup {c}
         /\ Ahead(g, n) => Ahead(f, n)
         /\ Ahead(h, n) => Ahead(f, n) /\ Len(n) > Len(node) + 1
         /\ Ahead(f, n) => Ahead(g, n) \/ Ahead(h, n) \/ n = Append(node, c)
  <1>1. /\ c \in Code /\ child + 1 \in DOMAIN vec /\ child + 1 \in Nat
        /\ Len(node) \in Nat /\ Len(n) \in Nat /\ DOMAIN vec = 1 .. Len(vec)
    OBVIOUS
  <1>2. /\ Append(node, c) \in Seq(Code) /\ Len(Append(node, c)) = Len(node) + 1
        /\ \A k \in 1 .. Len(node) : Append(node, c)[k] = node[k]
        /\ Append(node, c)[Len(node) + 1] = c
    BY <1>1, Pushed
  <1>3. f \in FrameSet /\ g \in FrameSet /\ h \in FrameSet
    BY <1>1, <1>2 DEF FrameSet
  <1>4. Seen(g) = Seen(f) \cup {c}
    <2>1. 1 .. child + 1 = (1 .. child) \cup {child + 1}
      OBVIOUS
    <2> QED
      BY <2>1 DEF Seen
  <1>5. c \notin Seen(f)
    <2> SUFFICES ASSUME NEW k \in 1 .. child, vec[k] = c PROVE FALSE
      BY DEF Seen
    <2>1. k \in DOMAIN vec /\ k # child + 1
      BY <1>1
    <2> QED
      BY <1>1, <2>1 DEF IsInjective
  <1>6. Seen(h) = {}
    BY DEF Seen
  <1>7. f.node = node /\ g.node = node /\ h.node = Append(node, c)
    OBVIOUS
  <1>8. Ahead(f, n) <=> /\ Len(n) > Len(node)
                        /\ \A k \in 1 .. Len(node) : n[k] = node[k]
                        /\ n[Len(node) + 1] \notin Seen(f)
    <2>1. Ahead(f, n) <=> /\ Len(n) > Len(f.node)
                          /\ \A k \in 1 .. Len(f.node) : n[k] = f.node[k]
                          /\ n[Len(f.node) + 1] \notin Seen(f)
      BY <1>3, AheadElements
    <2> QED
      BY ONLY <1>7, <2>1
  <1>9. Ahead(g, n) <=> /\ Len(n) > Len(node)
                        /\ \A k \in 1 .. Len(node) : n[k] = node[k]
                        /\ n[Len(node) + 1] \notin Seen(f) \cup {c}
    <2>1. Ahead(g, n) <=> /\ Len(n) > Len(g.node)
                          /\ \A k \in 1 .. Len(g.node) : n[k] = g.node[k]
                          /\ n[Len(g.node) + 1] \notin Seen(g)
      BY <1>3, AheadElements
    <2> QED
      BY ONLY <1>4, <1>7, <2>1
  <1>10. Ahead(h, n) <=> /\ Len(n) > Len(node) + 1
                         /\ \A k \in 1 .. Len(node) + 1 : n[k] = Append(node, c)[k]
    <2> PICK m : m = Append(node, c)
      OBVIOUS
    <2>1. h.node = m /\ Len(m) = Len(node) + 1
      BY <1>2, <1>7
    <2>2. Ahead(h, n) <=> /\ Len(n) > Len(m) /\ \A k \in 1 .. Len(m) : n[k] = m[k]
                          /\ n[Len(m) + 1] \notin Seen(h)
      <3>1. Ahead(h, n) <=> /\ Len(n) > Len(h.node)
                            /\ \A k \in 1 .. Len(h.node) : n[k] = h.node[k]
                            /\ n[Len(h.node) + 1] \notin Seen(h)
        BY <1>3, AheadElements
      <3> QED
        BY ONLY <2>1, <3>1
    <2> QED
      BY <1>6, <2>1, <2>2
  <1>11. (\A k \in 1 .. Len(node) + 1 : n[k] = Append(node, c)[k])
           <=> n[Len(node) + 1] = c /\ \A k \in 1 .. Len(node) : n[k] = node[k]
    <2>1. \A k : k \in 1 .. Len(node) + 1 <=> k \in 1 .. Len(node) \/ k = Len(node) + 1
      BY <1>1
    <2> QED
      BY <1>2, <2>1
  <1>12. /\ Len(n) = Len(node) + 1
         /\ \A k \in 1 .. Len(node) + 1 : n[k] = Append(node, c)[k]
         => n = Append(node, c)
    <2> PICK m : m = Append(node, c)
      OBVIOUS
    <2>1. /\ m \in Seq(Code) /\ Len(m) = Len(node) + 1
          /\ Len(n) = Len(m) /\ (\A k \in 1 .. Len(m) : n[k] = m[k]) => n = m
      BY <1>2, SeqEqual
    <2> QED
      BY <2>1
  <1>13. Ahead(f, n) => Ahead(g, n) \/ Ahead(h, n) \/ n = Append(node, c)
    <2> SUFFICES ASSUME Ahead(f, n), n[Len(node) + 1] = c, ~(Len(n) > Len(node) + 1)
                 PROVE  n = Append(node, c)
      BY <1>8, <1>9, <1>10, <1>11
    <2>1. Len(n) = Len(node) + 1
      BY <1>1, <1>8
    <2> QED
      BY <1>8, <1>11, <1>12, <2>1
  <1>14. Ahead(h, n) => Ahead(f, n) /\ Len(n) > Len(node) + 1
    BY <1>1, <1>5, <1>8, <1>10, <1>11
  <1> QED
    BY <1>3, <1>4, <1>8, <1>9, <1>13, <1>14

LEMMA PrefixesOfPrefix ==
  ASSUME NEW p \in Seq(Code), NEW n \in Prefixes(p)
  PROVE  n \in Seq(Code) /\ Prefixes(n) \subseteq Prefixes(p)
  <1>1. PICK l \in 0 .. Len(p) : n = SubSeq(p, 1, l)
    BY DEF Prefixes
  <1>2. /\ n \in Seq(Code) /\ Len(n) = l
        /\ \A i \in 1 .. l : n[i] = p[i]
    BY <1>1, SubSeqElements
  <1>3. ASSUME NEW m \in Prefixes(n) PROVE m \in Prefixes(p)
    <2>1. PICK k \in 0 .. Len(n) : m = SubSeq(n, 1, k)
      BY DEF Prefixes
    <2>2. /\ m \in Seq(Code) /\ Len(m) = k
          /\ \A i \in 1 .. k : m[i] = n[i]
      BY <1>2, <2>1, SubSeqElements
    <2>3. k \in 0 .. Len(p) /\ k <= l
      BY <1>1, <1>2
    <2>4. /\ SubSeq(p, 1, k) \in Seq(Code) /\ Len(SubSeq(p, 1, k)) = k
          /\ \A i \in 1 .. k : SubSeq(p, 1, k)[i] = p[i]
      BY <2>3, SubSeqElements
    <2>5. \A i \in 1 .. k : m[i] = SubSeq(p, 1, k)[i]
      <3>1. \A i \in 1 .. k : i \in 1 .. l
        BY <2>3
      <3> QED
        BY <1>2, <2>2, <2>4, <3>1
    <2>6. m = SubSeq(p, 1, k)
      BY <2>2, <2>4, <2>5, SeqEqual
    <2> QED
      BY <2>3, <2>6 DEF Prefixes
  <1> QED
    BY <1>2, <1>3

LEMMA NodesOfWords ==
  ASSUME NEW ws \in Dictionaries, \A i \in DOMAIN ws : ~Unsupported(ws[i])
  PROVE  /\ Root \in NodesOf(ws) /\ NodesOf(ws) \subseteq Seq(Code)
         /\ \A n \in NodesOf(ws) : Prefixes(n) \subseteq NodesOf(ws)
  <1>1. Root \in Seq(Code) /\ Prefixes(Root) = {Root}
    <2>1. Root \in Seq(Code) /\ Len(Root) = 0 /\ 0 .. 0 = {0}
      BY DEF Root
    <2>2. Prefixes(Root) = {SubSeq(Root, 1, 0)}
      BY <2>1 DEF Prefixes
    <2>3. SubSeq(Root, 1, 0) = Root
      BY <2>1, SubSeqElements DEF Root
    <2> QED
      BY <2>1, <2>2, <2>3
  <1>2. ASSUME NEW i \in DOMAIN ws PROVE Path(ws[i]) \in Seq(Code)
    <2>1. ws[i] \in Seq(Character)
      BY InputsAssumption
    <2> QED
      BY <2>1, PathTyped
  <1>3. ASSUME NEW n \in NodesOf(ws)
        PROVE  n \in Seq(Code) /\ Prefixes(n) \subseteq NodesOf(ws)
    <2>1. CASE n = Root
      BY <1>1, <2>1
    <2>2. CASE n # Root
      <3>1. PICK i \in DOMAIN ws : n \in Prefixes(Path(ws[i]))
        BY <2>2 DEF NodesOf
      <3>2. n \in Seq(Code) /\ Prefixes(n) \subseteq Prefixes(Path(ws[i]))
        BY <1>2, <3>1, PrefixesOfPrefix
      <3> QED
        BY <3>2 DEF NodesOf
    <2> QED
      BY <2>1, <2>2
  <1> QED
    BY <1>3 DEF NodesOf

LEMMA NodeAndParent ==
  ASSUME PrefixesAreNodes, NEW n \in nodes, n # Root
  PROVE  /\ n \in Seq(Code) /\ Len(n) \in Nat \ {0}
         /\ Front(n) \in nodes /\ Front(n) \in Seq(Code) /\ Last(n) \in Code
         /\ Len(Front(n)) = Len(n) - 1 /\ n = Append(Front(n), Last(n))
         /\ Last(n) \in ChildCodes(nodes, Front(n))
  <1>1. n \in Seq(Code) /\ n # <<>>
    BY DEF PrefixesAreNodes, Root
  <1>2. /\ Len(n) \in Nat \ {0} /\ Last(n) = n[Len(n)] /\ Last(n) \in Code
        /\ Front(n) \in Seq(Code) /\ Len(Front(n)) = Len(n) - 1
        /\ \A i \in 1 .. Len(n) - 1 : Front(n)[i] = n[i]
    BY <1>1, TopElement
  <1>3. Front(n) \in nodes
    <2>1. Len(n) - 1 \in 0 .. Len(n) /\ Front(n) = SubSeq(n, 1, Len(n) - 1)
      BY <1>2 DEF Front
    <2> QED
      BY <2>1 DEF PrefixesAreNodes, Prefixes
  <1> DEFINE m == Append(Front(n), Last(n))
  <1>4. /\ m \in Seq(Code) /\ Len(m) = Len(n)
        /\ \A i \in 1 .. Len(n) - 1 : m[i] = n[i]
        /\ m[Len(n)] = n[Len(n)]
    BY <1>2, Pushed
  <1>5. n = m
    <2> HIDE DEF m
    <2>1. \A i \in 1 .. Len(n) : i \in 1 .. Len(n) - 1 \/ i = Len(n)
      BY <1>2
    <2>2. \A i \in 1 .. Len(n) : n[i] = m[i]
      BY <1>4, <2>1
    <2> QED
      BY <1>1, <1>4, <2>2, SeqEqual
  <1> QED
    BY <1>1, <1>2, <1>3, <1>5 DEF ChildCodes

(* The child for a code, and what it says of its parent.                    *)
LEMMA NodeAndChild ==
  ASSUME NEW node \in Seq(Code), NEW c \in Code
  PROVE  /\ Append(node, c) \in Seq(Code) /\ Append(node, c) # Root
         /\ Front(Append(node, c)) = node /\ Last(Append(node, c)) = c
         /\ Len(Append(node, c)) = Len(node) + 1
  <1> DEFINE m == Append(node, c)
  <1>1. /\ m \in Seq(Code) /\ Len(m) = Len(node) + 1 /\ m # <<>>
        /\ \A i \in 1 .. Len(node) : m[i] = node[i]
        /\ Last(m) = c
    BY Pushed
  <1> HIDE DEF m
  <1>2. /\ Front(m) \in Seq(Code) /\ Len(Front(m)) = Len(m) - 1
        /\ \A i \in 1 .. Len(m) - 1 : Front(m)[i] = m[i]
    BY <1>1, TopElement
  <1>3. Front(m) = node
    <2>1. Len(Front(m)) = Len(node) /\ Len(node) \in Nat /\ Len(m) - 1 = Len(node)
      BY <1>1, <1>2
    <2>2. \A i \in 1 .. Len(node) : Front(m)[i] = node[i]
      BY <1>1, <1>2, <2>1
    <2> QED
      BY <1>2, <2>1, <2>2, SeqEqual
  <1> QED
    BY <1>1, <1>3 DEF m, Root

-----------------------------------------------------------------------------
(* Steps that leave the nodes where they are.                              *)

LEMMA Undisturbed ==
  ASSUME Undamaged
  PROVE  Orderly /\ "thrown" \notin damage
  BY DEF Undamaged, Orderly

LEMMA BuildKept ==
  ASSUME LayoutInv, BuildInv,
         UNCHANGED <<capacity, base, check, failLink, nodes, slot, stack, damage>>,
         \/ pc' = pc
         \/ pc \in {"ready", "search"} /\ pc' \in {"ready", "search"}
         \/ pc \in {"dense", "chain"} /\ pc' \in {"dense", "chain"}
  PROVE  BuildInv'
  <1> SUFFICES ASSUME Undamaged'
               PROVE  /\ (pc # "crashed")' /\ PrefixesAreNodes' /\ StackIsPath' /\ VecsAreKids'
                      /\ UnplacedIsAhead' /\ SlotsAreNodes' /\ FailLinksWritten'
    BY DEF BuildInv
  <1>1. /\ pc # "crashed" /\ PrefixesAreNodes /\ StackIsPath /\ VecsAreKids
        /\ UnplacedIsAhead /\ SlotsAreNodes /\ FailLinksWritten
    BY DEF BuildInv, Undamaged
  <1>2. PrefixesAreNodes' /\ StackIsPath'
    BY <1>1 DEF PrefixesAreNodes, StackIsPath
  <1>3. Choosing' <=> Choosing
    BY DEF Choosing
  <1>4. VecsAreKids'
    BY <1>1, <1>3 DEF VecsAreKids, ChildCodes, Frame, Index
  <1>5. UnplacedIsAhead'
    BY <1>1, <1>3 DEF UnplacedIsAhead, Waiting
  <1>6. SlotsAreNodes'
    BY <1>1 DEF SlotsAreNodes, Slots
  <1>7. FailLinksWritten' /\ pc' # "crashed"
    BY <1>1 DEF FailLinksWritten
  <1> QED
    BY <1>2, <1>4, <1>5, <1>6, <1>7

LEMMA InitBuild == Init => BuildInv
  <1> SUFFICES ASSUME Init PROVE BuildInv
    OBVIOUS
  <1>1. PICK cap \in Grown(0) :
          /\ capacity = cap /\ base = Zeros(cap)
          /\ check = [Zeros(cap) EXCEPT ![k_root_index_] = 1]
    BY DEF Init
  <1>2. /\ nodes = {Root} /\ slot = [n \in {Root} |-> k_root_index_]
        /\ stack = <<>> /\ pc = "ready"
    BY DEF Init
  <1>3. cap \in Nat /\ cap >= 2
    BY GrownIsLarger
  <1>4. Root \in Seq(Code) /\ Prefixes(Root) = {Root}
    <2>1. Root \in Seq(Code) /\ Len(Root) = 0 /\ 0 .. 0 = {0}
      BY DEF Root
    <2>2. Prefixes(Root) = {SubSeq(Root, 1, 0)}
      BY <2>1 DEF Prefixes
    <2>3. SubSeq(Root, 1, 0) = Root
      BY <2>1, SubSeqElements DEF Root
    <2> QED
      BY <2>1, <2>2, <2>3
  <1>5. PrefixesAreNodes /\ StackIsPath
    BY <1>2, <1>4 DEF PrefixesAreNodes, StackIsPath
  <1>6. VecsAreKids /\ UnplacedIsAhead
    BY <1>2 DEF VecsAreKids, UnplacedIsAhead, Choosing, k_root_index_
  <1>7. SlotsAreNodes
    <2>1. /\ Slots = 0 .. cap - 1 /\ base = [s \in Slots |-> 0]
          /\ check = [s \in Slots |-> IF s = 1 THEN 1 ELSE 0]
      BY <1>1, <1>3 DEF Slots, Zeros, k_root_index_
    <2> QED
      BY <1>2, <2>1 DEF SlotsAreNodes, k_root_index_
  <1>8. FailLinksWritten
    BY <1>2 DEF FailLinksWritten
  <1> QED
    BY <1>2, <1>5, <1>6, <1>7, <1>8 DEF BuildInv

LEMMA RebuildBuild ==
  ASSUME LayoutInv, NEW ws \in Dictionaries, Rebuild(ws)
  PROVE  BuildInv'
  <1> DEFINE root == [node |-> Root, child |-> 0, vec |-> <<>>]
  <1>1. /\ \A i \in DOMAIN ws : ~Unsupported(ws[i])
        /\ base' = Zeros(capacity)
        /\ check' = [Zeros(capacity) EXCEPT ![k_root_index_] = 1]
        /\ nodes' = NodesOf(ws)
        /\ slot' = [[n \in nodes' |-> 0] EXCEPT ![Root] = k_root_index_]
        /\ stack' = <<root>>
        /\ pc' = "visit" /\ capacity' = capacity
    BY DEF Rebuild, Erase, ErasedBase
  <1>2. capacity \in Nat /\ capacity >= 2
    BY SizesAssumption DEF LayoutInv, ArraysShaped
  <1>3. /\ Root \in nodes' /\ nodes' \subseteq Seq(Code)
        /\ \A n \in nodes' : Prefixes(n) \subseteq nodes'
    BY <1>1, NodesOfWords
  <1>4. /\ slot'[Root] = 1 /\ \A n \in nodes' \ {Root} : slot'[n] = 0
    BY <1>1, <1>3 DEF k_root_index_
  <1>5. /\ Slots' = 0 .. capacity - 1 /\ base' = [s \in Slots' |-> 0]
        /\ check' = [s \in Slots' |-> IF s = 1 THEN 1 ELSE 0]
    BY <1>1, <1>2 DEF Slots, Zeros, k_root_index_
  <1>6. /\ root \in FrameSet /\ root.node = Root /\ root.child = 0 /\ root.vec = <<>>
        /\ Len(Root) = 0 /\ Seen(root) = {}
    BY DEF FrameSet, Root, Seen
  <1> HIDE DEF root
  <1>7. DOMAIN stack' = {1} /\ stack'[1] = root
    BY <1>1
  <1>8. \A n \in nodes' : Ahead(root, n) <=> n # Root
    <2> SUFFICES ASSUME NEW n \in Seq(Code) PROVE Ahead(root, n) <=> n # Root
      BY <1>3
    <2>1. Ahead(root, n) <=> Len(n) > 0
      BY <1>6, AheadElements
    <2> QED
      BY <2>1 DEF Root
  <1>9. PrefixesAreNodes' /\ StackIsPath'
    BY <1>3, <1>6, <1>7 DEF PrefixesAreNodes, StackIsPath
  <1>10. VecsAreKids'
    <2>1. base'[1] = 0
      BY <1>2, <1>5
    <2>2. ~Choosing'
      BY <1>1 DEF Choosing
    <2> QED
      BY <1>4, <1>6, <1>7, <2>1, <2>2 DEF VecsAreKids
  <1>11. UnplacedIsAhead'
    BY <1>4, <1>7, <1>8 DEF UnplacedIsAhead
  <1>12. SlotsAreNodes'
    BY <1>3, <1>4, <1>5 DEF SlotsAreNodes, k_root_index_
  <1>13. FailLinksWritten' /\ pc' # "crashed"
    BY <1>1 DEF FailLinksWritten
  <1> QED
    BY <1>9, <1>10, <1>11, <1>12, <1>13 DEF BuildInv

LEMMA ReserveBuild ==
  ASSUME LayoutInv, BuildInv, Reserve
  PROVE  BuildInv'
  <1> SUFFICES ASSUME Undamaged'
               PROVE  /\ (pc # "crashed")' /\ PrefixesAreNodes' /\ StackIsPath' /\ VecsAreKids'
                      /\ UnplacedIsAhead' /\ SlotsAreNodes' /\ FailLinksWritten'
    BY DEF BuildInv
  <1>1. PICK cap \in Grown(capacity) :
          /\ capacity' = cap
          /\ base' = Extended(base, cap) /\ check' = Extended(check, cap)
    BY DEF Reserve
  <1>2. /\ pc = "chain" /\ pc' = "dense"
        /\ UNCHANGED <<nodes, slot, stack, damage>>
    BY DEF Reserve, pointers
  <1>3. /\ pc # "crashed" /\ PrefixesAreNodes /\ StackIsPath /\ VecsAreKids
        /\ UnplacedIsAhead /\ SlotsAreNodes
    BY <1>2 DEF BuildInv, Undamaged
  <1>4. /\ capacity \in Nat /\ cap \in Nat /\ cap > capacity
        /\ base \in [Slots -> Int] /\ check \in [Slots -> Slots]
        /\ slot \in [nodes -> Slots] /\ Slots = 0 .. capacity - 1
    BY GrownIsLarger DEF LayoutInv, ArraysShaped, Slots
  <1>5. /\ Slots' = 0 .. cap - 1 /\ Slots \subseteq Slots'
        /\ base' = [s \in Slots' |-> IF s \in Slots THEN base[s] ELSE 0]
        /\ check' = [s \in Slots' |-> IF s \in Slots THEN check[s] ELSE 0]
    BY <1>1, <1>4 DEF Slots, Extended
  <1>6. /\ \A n \in nodes : base'[slot[n]] = base[slot[n]] /\ check'[slot[n]] = check[slot[n]]
        /\ \A s \in Slots' : base'[s] # 0 \/ check'[s] # 0 =>
             s \in Slots /\ base'[s] = base[s] /\ check'[s] = check[s]
    BY <1>4, <1>5
  <1>7. PrefixesAreNodes' /\ StackIsPath'
    BY <1>2, <1>3 DEF PrefixesAreNodes, StackIsPath
  <1>8. Choosing' /\ Choosing
    BY <1>2 DEF Choosing
  <1>9. \A i \in DOMAIN stack : stack[i].node \in nodes
    BY DEF LayoutInv, StackShaped, FrameOK
  <1>10. VecsAreKids'
    <2>1. Frame' = Frame /\ Index' = Index /\ \A n : ChildCodes(nodes, n)' = ChildCodes(nodes, n)
      BY <1>2 DEF Frame, Index, ChildCodes
    <2>2. Index = slot[Frame.node] /\ Frame.node \in nodes
      BY <1>8, TopFrame DEF Index, LayoutInv, VecReady, FrameOK
    <2>3. base'[Index] = base[Index]
      BY <1>6, <2>2
    <2> QED
      BY <1>2, <1>3, <1>6, <1>8, <1>9, <2>1, <2>3 DEF VecsAreKids
  <1>11. UnplacedIsAhead'
    BY <1>2, <1>3, <1>6, <1>8 DEF UnplacedIsAhead, Waiting
  <1>12. SlotsAreNodes'
    <2>1. ASSUME NEW n \in nodes \ {Root}, slot[n] # 0
          PROVE  /\ slot[Front(n)] # 0 /\ check'[slot[n]] = slot[Front(n)]
                 /\ slot[n] = base'[slot[Front(n)]] + Last(n)
      <3>1. Front(n) \in nodes
        BY <1>3, NodeAndParent
      <3> QED
        BY <1>3, <1>6, <2>1, <3>1 DEF SlotsAreNodes
    <2> QED
      BY <1>2, <1>3, <1>6, <2>1 DEF SlotsAreNodes
  <1> QED
    BY <1>2, <1>7, <1>10, <1>11, <1>12 DEF FailLinksWritten

LEMMA SearchBuild ==
  ASSUME LayoutInv, BuildInv, (\E t \in Texts : BeginSearch(t)) \/ SearchStep
  PROVE  BuildInv'
  <1>1. /\ UNCHANGED <<capacity, base, check, failLink, nodes, slot, stack, damage>>
        /\ pc' = pc \/ (pc \in {"ready", "search"} /\ pc' \in {"ready", "search"})
    BY DEF BeginSearch, SearchStep, SkipJunk, FollowFail, Consume, EndSearch, Reading,
           arrays, queues, pointers
  <1> QED
    BY <1>1, BuildKept

-----------------------------------------------------------------------------
(* Steps that move along the nodes.                                        *)

(* The frame on top, in a build nothing went wrong in.                      *)
LEMMA TopOfPath ==
  ASSUME LayoutInv, BuildInv, Undamaged, stack # <<>>
  PROVE  /\ Frame \in FrameSet /\ Frame.node \in nodes /\ slot[Frame.node] # 0
         /\ Len(stack) \in Nat \ {0} /\ Frame = stack[Len(stack)]
         /\ Len(Frame.node) = Len(stack) - 1
         /\ Frame.child <= Len(Frame.vec)
         /\ Frame.vec # <<>> =>
              /\ IsInjective(Frame.vec) /\ Range(Frame.vec) = Kids
              /\ Len(Frame.vec) = Cardinality(Kids)
         /\ base[Index] # 0 => Frame.vec # <<>>
         /\ \A n \in nodes : Ahead(Frame, n) =>
              /\ slot[n] # 0 => base[slot[n]] = 0
              /\ \/ Len(n) > Len(stack) \/ Frame.vec = <<>> \/ Choosing
                 => slot[n] = 0
  <1>1. /\ Len(stack) \in Nat \ {0} /\ Frame = stack[Len(stack)] /\ Frame \in FrameSet
        /\ FrameOK(Frame) /\ Len(stack) \in DOMAIN stack
    BY TopFrame DEF FrameSet
  <1>2. StackIsPath /\ VecsAreKids /\ UnplacedIsAhead
    BY DEF BuildInv
  <1>3. Frame.node \in nodes /\ slot[Frame.node] # 0
    BY <1>1, Undisturbed DEF FrameOK
  <1>4. /\ Len(Frame.node) = Len(stack) - 1
        /\ Frame.child <= Len(Frame.vec)
        /\ Frame.vec # <<>> =>
             /\ IsInjective(Frame.vec) /\ Range(Frame.vec) = Kids
             /\ Len(Frame.vec) = Cardinality(Kids)
        /\ base[Index] # 0 => Frame.vec # <<>>
    BY <1>1, <1>2 DEF StackIsPath, VecsAreKids, Kids, Index
  <1>5. \A n \in nodes : Ahead(Frame, n) =>
          /\ slot[n] # 0 => base[slot[n]] = 0
          /\ \/ Len(n) > Len(stack) \/ Frame.vec = <<>> \/ Choosing
             => slot[n] = 0
    BY <1>1, <1>2 DEF UnplacedIsAhead, Waiting
  <1> QED
    BY <1>1, <1>3, <1>4, <1>5

(* What is ahead of a frame lies behind a child of its node.                *)
LEMMA AheadHasChild ==
  ASSUME PrefixesAreNodes, NEW f \in FrameSet, NEW n \in nodes, Ahead(f, n)
  PROVE  n[Len(f.node) + 1] \in ChildCodes(nodes, f.node)
  <1> PICK node : node = f.node
    OBVIOUS
  <1>1. n \in Seq(Code) /\ node \in Seq(Code)
    BY DEF PrefixesAreNodes, FrameSet
  <1>2. Len(n) > Len(node) /\ \A k \in 1 .. Len(node) : n[k] = node[k]
    BY <1>1, AheadElements
  <1> PICK l : l = Len(node) + 1
    OBVIOUS
  <1>3. l \in 0 .. Len(n) /\ l \in 1 .. Len(n) /\ n[l] \in Code /\ Len(node) \in Nat
    BY <1>1, <1>2
  <1>4. /\ SubSeq(n, 1, l) \in Seq(Code) /\ Len(SubSeq(n, 1, l)) = l
        /\ \A i \in 1 .. l : SubSeq(n, 1, l)[i] = n[i]
    BY <1>1, <1>3, SubSeqElements
  <1>5. SubSeq(n, 1, l) \in nodes
    BY <1>3 DEF PrefixesAreNodes, Prefixes
  <1>6. Append(node, n[l]) = SubSeq(n, 1, l)
    <2> PICK m, t : m = Append(node, n[l]) /\ t = SubSeq(n, 1, l)
      OBVIOUS
    <2>1. /\ m \in Seq(Code) /\ Len(m) = l /\ m[l] = n[l]
          /\ \A i \in 1 .. Len(node) : m[i] = node[i]
      BY <1>1, <1>3, Pushed
    <2>2. t \in Seq(Code) /\ Len(t) = l /\ \A i \in 1 .. l : t[i] = n[i]
      BY <1>4
    <2>3. ASSUME NEW i \in 1 .. l PROVE m[i] = t[i]
      <3>1. i = l \/ i \in 1 .. Len(node)
        BY <1>3
      <3> QED
        BY <1>2, <2>1, <2>2, <3>1
    <2> QED
      BY <2>1, <2>2, <2>3, SeqEqual
  <1> QED
    BY <1>3, <1>5, <1>6 DEF ChildCodes

LEMMA PopNodeBuild ==
  ASSUME LayoutInv, BuildInv, PopNode
  PROVE  BuildInv'
  <1> SUFFICES ASSUME Undamaged'
               PROVE  /\ (pc # "crashed")' /\ PrefixesAreNodes' /\ StackIsPath' /\ VecsAreKids'
                      /\ UnplacedIsAhead' /\ SlotsAreNodes' /\ FailLinksWritten'
    BY DEF BuildInv
  <1>1. /\ pc = "visit" /\ pc' = "visit" /\ stack # <<>> /\ stack' = Front(stack)
        /\ Frame.child = Cardinality(Kids)
        /\ UNCHANGED <<capacity, base, check, nodes, slot, damage>>
    BY DEF PopNode, arrays, pointers
  <1>2. /\ Undamaged /\ PrefixesAreNodes /\ StackIsPath /\ VecsAreKids
        /\ UnplacedIsAhead /\ SlotsAreNodes
    BY <1>1 DEF BuildInv, Undamaged
  <1> PICK old, L : old = stack /\ L = Len(old)
    OBVIOUS
  <1>3. /\ L \in Nat \ {0} /\ DOMAIN old = 1 .. L /\ Frame = old[L] /\ Frame \in FrameSet
        /\ DOMAIN stack' = 1 .. L - 1 /\ \A i \in 1 .. L - 1 : stack'[i] = old[i]
        /\ Len(stack') = L - 1
    BY <1>1, TopFrame DEF FrameSet
  <1>4. ~Choosing /\ ~Choosing'
    BY <1>1 DEF Choosing
  <1>5. PrefixesAreNodes' /\ SlotsAreNodes' /\ FailLinksWritten'
    BY <1>1, <1>2 DEF PrefixesAreNodes, SlotsAreNodes, FailLinksWritten, Slots
  <1>6. StackIsPath' /\ VecsAreKids'
    <2>1. \A i \in DOMAIN stack' : i \in DOMAIN stack /\ stack'[i] = stack[i]
      BY <1>3
    <2>2. StackIsPath'
      <3>1. ASSUME NEW i \in DOMAIN stack', NEW j \in DOMAIN stack'
            PROVE  /\ Len(stack'[i].node) = i - 1
                   /\ i < j => stack'[j].node[i] \in Seen(stack'[i])
        BY <1>2, <2>1 DEF StackIsPath
      <3> QED
        BY <3>1 DEF StackIsPath, Seen
    <2>3. ASSUME NEW i \in DOMAIN stack'
          PROVE  /\ stack'[i].child <= Len(stack'[i].vec)
                 /\ stack'[i].vec # <<>> =>
                      /\ IsInjective(stack'[i].vec)
                      /\ Len(stack'[i].vec) = Cardinality(ChildCodes(nodes, stack'[i].node))
                      /\ Range(stack'[i].vec) = ChildCodes(nodes, stack'[i].node)
                 /\ base[slot[stack'[i].node]] # 0 => stack'[i].vec # <<>>
      BY <1>2, <2>1 DEF VecsAreKids
    <2> QED
      BY <1>1, <1>4, <2>2, <2>3 DEF VecsAreKids
  <1>7. ASSUME NEW n \in nodes, Ahead(Frame, n) PROVE FALSE
    <2> PICK node, child, vec, c :
          /\ node = Frame.node /\ child = Frame.child /\ vec = Frame.vec
          /\ c = n[Len(Frame.node) + 1]
      OBVIOUS
    <2>1. c \in Kids /\ c \notin Seen(Frame)
      BY <1>2, <1>3, <1>7, AheadHasChild DEF Ahead, Kids
    <2>2. Cardinality(Kids) \in Nat /\ IsFiniteSet(Kids) /\ Cardinality(Kids) # 0
      BY <2>1, CodesAreNumbers, FS_EmptySet DEF Kids
    <2>3. /\ child = Cardinality(Kids) /\ child <= Len(vec) /\ vec \in Seq(Code)
          /\ vec # <<>> => Range(vec) = Kids /\ Len(vec) = Cardinality(Kids)
      BY <1>1, <1>2, <1>3, TopOfPath DEF FrameSet
    <2>4. vec # <<>>
      BY <2>2, <2>3
    <2>5. Seen(Frame) = Range(vec)
      BY <2>3, <2>4 DEF Seen, Range
    <2> QED
      BY <2>1, <2>3, <2>4, <2>5
  <1>8. UnplacedIsAhead'
    <2>1. ASSUME NEW n \in nodes, slot[n] = 0 PROVE \E i \in 1 .. L - 1 : Ahead(old[i], n)
      <3>1. PICK i \in 1 .. L : Ahead(old[i], n)
        BY <1>2, <1>3, <2>1 DEF UnplacedIsAhead
      <3>2. i # L
        BY <1>3, <1>7, <3>1
      <3>3. i \in 1 .. L - 1
        BY <1>3, <3>2
      <3> QED
        BY <3>1, <3>3
    <2>2. ASSUME NEW i \in 1 .. L - 1, NEW n \in nodes, Ahead(old[i], n)
          PROVE  /\ slot[n] # 0 => base[slot[n]] = 0
                 /\ Len(n) > i \/ old[i].vec = <<>> => slot[n] = 0
      <3>1. i \in DOMAIN stack
        BY <1>3
      <3> QED
        BY <1>2, <2>2, <3>1 DEF UnplacedIsAhead, Waiting
    <2> QED
      BY <1>1, <1>3, <1>4, <2>1, <2>2 DEF UnplacedIsAhead, Waiting
  <1> QED
    BY <1>1, <1>5, <1>6, <1>8

LEMMA RebuildThrowsBuild ==
  ASSUME NEW ws \in Dictionaries, RebuildThrows(ws)
  PROVE  BuildInv'
  BY DEF RebuildThrows, BuildInv, Undamaged

(* The children of a node, collected for the first time.                    *)
LEMMA CollectedOnce ==
  ASSUME NEW kids \in SUBSET Code, NEW v \in [1 .. Cardinality(kids) -> kids],
         Cardinality(kids) \in Nat,
         \A c \in kids : Count(v, c) = 1
  PROVE  IsInjective(v) /\ Range(v) = kids
  <1>1. ASSUME NEW c \in kids
        PROVE  \E k : {i \in DOMAIN v : v[i] = c} = {k}
    <2> DEFINE S == {i \in DOMAIN v : v[i] = c}
    <2>1. IsFiniteSet(1 .. Cardinality(kids)) /\ S \subseteq 1 .. Cardinality(kids)
      BY FS_Interval
    <2>2. IsFiniteSet(S) /\ Cardinality(S) = 1
      BY <2>1, FS_Subset DEF Count
    <2> HIDE DEF S
    <2>3. \E k : S = {k}
      BY <2>2, FS_Singleton
    <2> QED
      BY <2>3 DEF S
  <1>2. ASSUME NEW i \in DOMAIN v, NEW j \in DOMAIN v, v[i] = v[j] PROVE i = j
    <2>1. v[i] \in kids
      OBVIOUS
    <2>2. PICK k : {l \in DOMAIN v : v[l] = v[i]} = {k}
      BY <1>1, <2>1
    <2>3. i \in {k} /\ j \in {k}
      BY <1>2, <2>2
    <2> QED
      BY <2>3
  <1>3. ASSUME NEW c \in kids PROVE \E i \in DOMAIN v : v[i] = c
    <2>1. PICK k : {l \in DOMAIN v : v[l] = c} = {k}
      BY <1>1
    <2>2. k \in {l \in DOMAIN v : v[l] = c}
      BY <2>1
    <2> QED
      BY <2>2
  <1> QED
    BY <1>2, <1>3 DEF IsInjective, Range

LEMMA CollectChildrenBuild ==
  ASSUME LayoutInv, BuildInv, CollectChildren
  PROVE  BuildInv'
  <1> SUFFICES ASSUME Undamaged'
               PROVE  /\ (pc # "crashed")' /\ PrefixesAreNodes' /\ StackIsPath' /\ VecsAreKids'
                      /\ UnplacedIsAhead' /\ SlotsAreNodes' /\ FailLinksWritten'
    BY DEF BuildInv
  <1>1. /\ pc = "visit" /\ pc' = "dense" /\ stack # <<>> /\ base[Index] = 0
        /\ Frame.vec = <<>> /\ damage = {}
        /\ UNCHANGED <<capacity, base, check, nodes, slot>>
    BY DEF CollectChildren, arrays, pointers, Undamaged
  <1>2. /\ Undamaged /\ PrefixesAreNodes /\ StackIsPath /\ VecsAreKids
        /\ UnplacedIsAhead /\ SlotsAreNodes
    BY <1>1 DEF BuildInv, Undamaged
  <1>3. PICK v \in Collected(<<>>) : stack' = Top([Frame EXCEPT !.vec = v])
    BY <1>1 DEF CollectChildren
  <1> PICK old, L, node, kids :
        old = stack /\ L = Len(stack) /\ node = Frame.node /\ kids = Kids
    OBVIOUS
  <1>4. /\ old \in Seq(FrameSet) /\ L \in Nat \ {0} /\ DOMAIN old = 1 .. L
        /\ Frame = old[L] /\ node \in Seq(Code) /\ Frame.child = 0 /\ old # <<>>
        /\ Frame = [node |-> node, child |-> 0, vec |-> <<>>]
    <2>1. /\ old \in Seq(FrameSet) /\ L \in Nat \ {0} /\ DOMAIN old = 1 .. L
          /\ Frame = old[L] /\ Frame \in FrameSet /\ old # <<>>
      BY <1>1, TopFrame DEF FrameSet
    <2>2. Frame.child <= Len(Frame.vec) /\ Len(Frame.vec) = 0
      BY <1>1, <1>2, TopOfPath
    <2>3. node \in Seq(Code) /\ Frame.child \in Nat
      BY <2>1 DEF FrameSet
    <2>4. Frame.child = 0
      BY <2>2, <2>3
    <2> QED
      BY <1>1, <2>1, <2>3, <2>4 DEF FrameSet
  <1>5. kids \subseteq Code /\ kids = ChildCodes(nodes, node) /\ Cardinality(kids) \in Nat
    BY CodesAreNumbers DEF Kids
  <1>6. v \in [1 .. Cardinality(kids) -> kids] /\ \A c \in kids : Count(v, c) = 1
    <2>1. ASSUME NEW c PROVE Count(<<>>, c) = 0
      <3>1. {i \in DOMAIN <<>> : <<>>[i] = c} = {}
        OBVIOUS
      <3> QED
        BY <3>1, FS_EmptySet DEF Count
    <2>2. Len(<<>>) + Cardinality(kids) = Cardinality(kids)
      BY <1>5
    <2> QED
      BY <1>3, <2>1, <2>2 DEF Collected
  <1>7. /\ v \in Seq(kids) /\ v \in Seq(Code) /\ Len(v) = Cardinality(kids)
        /\ IsInjective(v) /\ Range(v) = kids
    BY <1>5, <1>6, CollectedOnce
  <1> PICK f : f = [node |-> node, child |-> 0, vec |-> v]
    OBVIOUS
  <1>8. /\ f \in FrameSet /\ stack' = Front(old) \o <<f>>
        /\ f.node = node /\ f.child = 0 /\ f.vec = v
    <2>1. [Frame EXCEPT !.vec = v] = f
      BY <1>4
    <2>2. stack' = Front(old) \o <<f>>
      BY <1>3, <2>1 DEF Top
    <2>3. f \in FrameSet
      BY <1>4, <1>7 DEF FrameSet
    <2> QED
      BY <2>2, <2>3
  <1>9. /\ DOMAIN stack' = 1 .. L /\ Len(stack') = L /\ Frame' = f
        /\ \A i \in 1 .. L - 1 : stack'[i] = old[i]
        /\ stack'[L] = f
    BY <1>4, <1>8, TopReplaced DEF Frame
  <1>10. Seen(f) = Seen(old[L]) /\ \A n : Ahead(f, n) <=> Ahead(old[L], n)
    <2>1. Seen(f) = {} /\ Seen(old[L]) = {}
      BY <1>4, <1>8 DEF Seen
    <2> QED
      BY <1>4, <1>8, <2>1 DEF Ahead
  <1>11. ASSUME NEW i \in 1 .. L
         PROVE  /\ stack'[i].node = old[i].node /\ Seen(stack'[i]) = Seen(old[i])
                /\ \A n : Ahead(stack'[i], n) <=> Ahead(old[i], n)
                /\ i # L => stack'[i] = old[i]
    <2>1. CASE i = L
      <3>1. stack'[i] = f /\ old[i].node = node
        BY <1>4, <1>9, <2>1
      <3> QED
        BY ONLY <1>8, <1>10, <2>1, <3>1
    <2>2. CASE i # L
      <3>1. i \in 1 .. L - 1
        BY <1>4, <2>2
      <3>2. stack'[i] = old[i]
        BY <1>9, <3>1
      <3> QED
        BY <2>2, <3>2
    <2> QED
      BY <2>1, <2>2
  <1>12. Choosing'
    BY <1>1 DEF Choosing
  <1>13. StackIsPath'
    <2>1. ASSUME NEW i \in 1 .. L, NEW j \in 1 .. L
          PROVE  /\ Len(stack'[i].node) = i - 1
                 /\ i < j => stack'[j].node[i] \in Seen(stack'[i])
      BY <1>2, <1>4, <1>11 DEF StackIsPath
    <2> QED
      BY <1>9, <2>1 DEF StackIsPath, Seen
  <1>14. VecsAreKids'
    <2>1. ASSUME NEW i \in 1 .. L
          PROVE  /\ stack'[i].child <= Len(stack'[i].vec)
                 /\ stack'[i].vec # <<>> =>
                      /\ IsInjective(stack'[i].vec)
                      /\ Len(stack'[i].vec) = Cardinality(ChildCodes(nodes, stack'[i].node))
                      /\ Range(stack'[i].vec) = ChildCodes(nodes, stack'[i].node)
                 /\ base[slot[stack'[i].node]] # 0 => stack'[i].vec # <<>>
      <3>1. CASE i = L
        BY <1>1, <1>5, <1>7, <1>8, <1>9, <3>1 DEF Index
      <3>2. CASE i # L
        BY <1>2, <1>4, <1>11, <3>2 DEF VecsAreKids
      <3> QED
        BY <3>1, <3>2
    <2>2. Frame'.child = 0 /\ base'[Index'] = 0
      BY <1>1, <1>8, <1>9 DEF Index
    <2> QED
      BY <1>1, <1>9, <2>1, <2>2 DEF VecsAreKids
  <1>15. UnplacedIsAhead'
    <2>1. ASSUME NEW n \in nodes, slot[n] = 0 PROVE \E i \in 1 .. L : Ahead(stack'[i], n)
      BY <1>2, <1>4, <1>11, <2>1 DEF UnplacedIsAhead
    <2>2. ASSUME NEW i \in 1 .. L, NEW n \in nodes, Ahead(stack'[i], n)
          PROVE  /\ slot[n] # 0 => base[slot[n]] = 0
                 /\ Len(n) > i \/ Waiting(i)' => slot[n] = 0
      <3>1. /\ Ahead(old[i], n) /\ i \in DOMAIN stack
            /\ Waiting(i)' => Waiting(i)
        BY <1>1, <1>4, <1>9, <1>11, <2>2 DEF Waiting
      <3> QED
        BY <1>2, <3>1 DEF UnplacedIsAhead
    <2> QED
      BY <1>1, <1>9, <2>1, <2>2 DEF UnplacedIsAhead
  <1>16. PrefixesAreNodes' /\ SlotsAreNodes' /\ FailLinksWritten'
    BY <1>1, <1>2 DEF PrefixesAreNodes, SlotsAreNodes, FailLinksWritten, Slots
  <1> QED
    BY <1>1, <1>13, <1>14, <1>15, <1>16

(* A step to the next child c of the frame f on top: g takes its place, and *)
(* h, the frame of the child, goes on top.                                  *)
MovesOn(old, L, f, c, g, h) ==
  /\ old = stack /\ L = Len(old) /\ f = Frame
  /\ f.child < Len(f.vec) /\ c = f.vec[f.child + 1]
  /\ g = [node |-> f.node, child |-> f.child + 1, vec |-> f.vec]
  /\ h = [node |-> Append(f.node, c), child |-> 0, vec |-> <<>>]
  /\ stack' = Append(Top([Frame EXCEPT !.child = @ + 1]), h)
  /\ nodes' = nodes /\ pc' = "visit"

LEMMA PathPushed ==
  ASSUME LayoutInv, BuildInv, Undamaged, stack # <<>>, PrefixesAreNodes,
         NEW old, NEW L, NEW f, NEW c, NEW g, NEW h, MovesOn(old, L, f, c, g, h),
         base'[slot'[Append(f.node, c)]] = 0,
         \A i \in 1 .. L - 1 : base'[slot'[old[i].node]] = base[slot[old[i].node]]
  PROVE  /\ old \in Seq(FrameSet) /\ L \in Nat \ {0} /\ DOMAIN old = 1 .. L /\ f = old[L]
         /\ DOMAIN stack' = 1 .. L + 1 /\ stack'[L] = g /\ stack'[L + 1] = h
         /\ \A i \in 1 .. L - 1 : stack'[i] = old[i]
         /\ StackIsPath' /\ VecsAreKids'
  <1> USE DEF MovesOn
  <1>1. /\ old \in Seq(FrameSet) /\ old # <<>> /\ L \in Nat \ {0} /\ DOMAIN old = 1 .. L
        /\ f = old[L] /\ f \in FrameSet /\ old = stack
    BY TopFrame DEF FrameSet
  <1> PICK node, child, vec : node = f.node /\ child = f.child /\ vec = f.vec
    OBVIOUS
  <1>2. /\ node \in Seq(Code) /\ child \in Nat /\ vec \in Seq(Code)
        /\ f = [node |-> node, child |-> child, vec |-> vec]
    BY <1>1 DEF FrameSet
  <1>3. /\ Len(node) = L - 1 /\ child < Len(vec) /\ vec # <<>>
        /\ IsInjective(vec) /\ Range(vec) = ChildCodes(nodes, node)
        /\ Len(vec) = Cardinality(ChildCodes(nodes, node))
    <2>1. /\ Len(Frame.node) = Len(stack) - 1
          /\ Frame.vec # <<>> =>
              /\ IsInjective(Frame.vec) /\ Range(Frame.vec) = Kids
              /\ Len(Frame.vec) = Cardinality(Kids)
      BY TopOfPath
    <2>2. vec # <<>>
      BY <1>2
    <2> QED
      BY <2>1, <2>2 DEF Kids
  <1>4. /\ c = vec[child + 1] /\ c \in Code /\ child + 1 \in DOMAIN vec
        /\ Append(node, c) \in Seq(Code) /\ Len(Append(node, c)) = L
        /\ \A i \in 1 .. L - 1 : Append(node, c)[i] = node[i]
        /\ Append(node, c)[L] = c
    <2>1. c = vec[child + 1] /\ c \in Code /\ child + 1 \in DOMAIN vec
      BY <1>2
    <2> QED
      BY <1>1, <1>2, <1>3, <2>1, Pushed
  <1>5. /\ g = [node |-> node, child |-> child + 1, vec |-> vec] /\ g \in FrameSet
        /\ h = [node |-> Append(node, c), child |-> 0, vec |-> <<>>] /\ h \in FrameSet
        /\ c \in Seen(g)
    <2>1. child + 1 \in Nat /\ <<>> \in Seq(Code)
      BY <1>2
    <2>2. child + 1 \in 1 .. child + 1
      BY <1>2
    <2> QED
      BY <1>2, <1>4, <2>1, <2>2 DEF FrameSet, Seen
  <1> PICK top : top = Front(old) \o <<g>>
    OBVIOUS
  <1>6. /\ top \in Seq(FrameSet) /\ Len(top) = L
        /\ \A i \in 1 .. L - 1 : top[i] = old[i]
        /\ top[L] = g
    BY <1>1, <1>5, TopReplaced
  <1>7. stack' = Append(top, h)
    <2>1. [Frame EXCEPT !.child = @ + 1] = g
      BY <1>2, <1>5
    <2> QED
      BY <2>1 DEF Top
  <1>8. /\ DOMAIN stack' = 1 .. L + 1 /\ stack'[L] = g /\ stack'[L + 1] = h
        /\ \A i \in 1 .. L - 1 : stack'[i] = old[i]
    <2>1. /\ stack' \in Seq(FrameSet) /\ Len(stack') = L + 1
          /\ \A i \in 1 .. L : stack'[i] = top[i]
          /\ stack'[L + 1] = h
      <3> PICK new : new = Append(top, h)
        OBVIOUS
      <3>1. /\ new \in Seq(FrameSet) /\ Len(new) = Len(top) + 1
            /\ \A i \in 1 .. Len(top) : new[i] = top[i]
            /\ new[Len(top) + 1] = h
        BY <1>5, <1>6, Pushed
      <3>2. stack' = new
        BY <1>7
      <3> QED
        BY ONLY <1>6, <3>1, <3>2
    <2>2. L \in 1 .. L /\ \A i \in 1 .. L - 1 : i \in 1 .. L
      BY <1>1
    <2> QED
      BY ONLY <1>6, <2>1, <2>2
  <1>9. /\ StackIsPath /\ VecsAreKids
    BY DEF BuildInv
  <1>10. \A i : i \in 1 .. L + 1 => i \in 1 .. L - 1 \/ i = L \/ i = L + 1
    BY <1>1
  <1>11. ASSUME NEW i \in 1 .. L + 1
         PROVE  Len(stack'[i].node) = i - 1
    <2>1. CASE i \in 1 .. L - 1
      <3>1. stack'[i] = old[i] /\ i \in DOMAIN stack
        BY ONLY <1>1, <1>8, <2>1
      <3>2. Len(stack[i].node) = i - 1
        BY ONLY <1>9, <3>1 DEF StackIsPath
      <3> QED
        BY ONLY <1>1, <3>1, <3>2
    <2>2. CASE i = L
      <3>1. stack'[i] = g /\ g.node = node
        BY ONLY <1>5, <1>8, <2>2
      <3> QED
        BY ONLY <1>3, <2>2, <3>1
    <2>3. CASE i = L + 1
      <3>1. stack'[i] = h /\ h.node = Append(node, c)
        BY ONLY <1>5, <1>8, <2>3
      <3> QED
        BY ONLY <1>1, <1>4, <2>3, <3>1
    <2> QED
      BY <1>10, <2>1, <2>2, <2>3
  <1>12. ASSUME NEW i \in 1 .. L + 1, NEW j \in 1 .. L + 1, i < j
         PROVE  stack'[j].node[i] \in Seen(stack'[i])
    <2>1. CASE i = L
      <3>1. j = L + 1
        BY <1>1, <1>12, <2>1
      <3> QED
        BY <1>4, <1>5, <1>8, <2>1, <3>1
    <2>2. CASE i \in 1 .. L - 1
      <3>1. stack'[i] = old[i]
        BY <1>8, <2>2
      <3>2. CASE j \in 1 .. L - 1
        BY ONLY <1>1, <1>8, <1>9, <1>12, <3>1, <3>2 DEF StackIsPath
      <3>3. i \in 1 .. L /\ L \in 1 .. L /\ i < L
        BY <1>1, <2>2
      <3>4. node[i] \in Seen(old[i])
        BY <1>1, <1>9, <3>3 DEF StackIsPath
      <3>5. CASE j = L
        BY <1>5, <1>8, <3>1, <3>4, <3>5
      <3>6. CASE j = L + 1
        BY <1>4, <1>5, <1>8, <2>2, <3>1, <3>4, <3>6
      <3> QED
        BY <1>10, <3>2, <3>5, <3>6
    <2>3. i # L + 1
      BY <1>1, <1>12
    <2> QED
      BY <1>10, <2>1, <2>2, <2>3
  <1>13. StackIsPath'
    BY ONLY <1>8, <1>11, <1>12 DEF StackIsPath, Seen
  <1>14. ASSUME NEW i \in 1 .. L + 1
         PROVE  /\ stack'[i].child <= Len(stack'[i].vec)
                /\ stack'[i].vec # <<>> =>
                     /\ IsInjective(stack'[i].vec)
                     /\ Len(stack'[i].vec) = Cardinality(ChildCodes(nodes, stack'[i].node))
                     /\ Range(stack'[i].vec) = ChildCodes(nodes, stack'[i].node)
                /\ base'[slot'[stack'[i].node]] # 0 => stack'[i].vec # <<>>
    <2>1. CASE i \in 1 .. L - 1
      <3>1. stack'[i] = old[i] /\ i \in DOMAIN stack
        BY ONLY <1>1, <1>8, <2>1
      <3> QED
        BY <1>9, <2>1, <3>1 DEF VecsAreKids
    <2>2. CASE i = L
      <3>1. child + 1 <= Len(vec)
        BY <1>2, <1>3
      <3>2. stack'[i] = g /\ g.node = node /\ g.child = child + 1 /\ g.vec = vec
        BY ONLY <1>5, <1>8, <2>2
      <3> QED
        BY ONLY <1>3, <3>1, <3>2
    <2>3. CASE i = L + 1
      <3>1. stack'[i] = h /\ h.node = Append(node, c) /\ h.child = 0 /\ h.vec = <<>>
        BY ONLY <1>5, <1>8, <2>3
      <3>2. base'[slot'[Append(node, c)]] = 0
        OBVIOUS
      <3>3. 0 <= Len(<<>>)
        OBVIOUS
      <3> QED
        BY ONLY <3>1, <3>2, <3>3
    <2> QED
      BY <1>10, <2>1, <2>2, <2>3
  <1>15. VecsAreKids'
    <2>1. nodes' = nodes /\ pc' = "visit"
      OBVIOUS
    <2> QED
      BY ONLY <1>8, <1>14, <2>1 DEF VecsAreKids, Choosing
  <1> QED
    BY <1>1, <1>8, <1>13, <1>15

LEMMA DescendBuild ==
  ASSUME LayoutInv, BuildInv, Descend
  PROVE  BuildInv'
  <1> SUFFICES ASSUME Undamaged'
               PROVE  /\ (pc # "crashed")' /\ PrefixesAreNodes' /\ StackIsPath' /\ VecsAreKids'
                      /\ UnplacedIsAhead' /\ SlotsAreNodes' /\ FailLinksWritten'
    BY DEF BuildInv
  <1>1. /\ pc = "visit" /\ stack # <<>> /\ base[Index] # 0
        /\ Frame.child # Cardinality(Kids)
        /\ UNCHANGED <<capacity, base, check, nodes, slot, damage>>
    BY DEF Descend, arrays, pointers
  <1>2. /\ Undamaged /\ PrefixesAreNodes /\ StackIsPath /\ VecsAreKids
        /\ UnplacedIsAhead /\ SlotsAreNodes
    BY <1>1 DEF BuildInv, Undamaged
  <1>3. PrefixesAreNodes' /\ SlotsAreNodes'
    BY <1>1, <1>2 DEF PrefixesAreNodes, SlotsAreNodes, Slots
  <1> PICK old, L, f, node, child, vec :
        /\ old = stack /\ L = Len(old) /\ f = Frame
        /\ node = f.node /\ child = f.child /\ vec = f.vec
    OBVIOUS
  <1>4. /\ node \in Seq(Code) /\ child \in Nat /\ vec \in Seq(Code) /\ node \in nodes
        /\ f = [node |-> node, child |-> child, vec |-> vec]
        /\ child <= Len(vec) /\ vec # <<>> /\ IsInjective(vec) /\ Range(vec) = Kids
        /\ Len(vec) = Cardinality(Kids) /\ Len(node) = L - 1 /\ L \in Nat \ {0}
        /\ old \in Seq(FrameSet)
    <2>1. f \in FrameSet
      BY <1>1, <1>2, TopOfPath
    <2>2. node \in Seq(Code) /\ child \in Nat /\ vec \in Seq(Code)
          /\ f = [node |-> node, child |-> child, vec |-> vec]
      BY <2>1 DEF FrameSet
    <2>3. old \in Seq(FrameSet)
      BY <1>1, TopFrame DEF FrameSet
    <2> QED
      BY <1>1, <1>2, <2>2, <2>3, TopOfPath
  <1>5. child < Len(vec)
    BY <1>1, <1>4
  <1> PICK c, g, h :
        /\ c = vec[child + 1]
        /\ g = [node |-> node, child |-> child + 1, vec |-> vec]
        /\ h = [node |-> Append(node, c), child |-> 0, vec |-> <<>>]
    OBVIOUS
  <1>6. /\ c \in Code /\ c \in Kids /\ Append(node, c) \in nodes
        /\ slot[Append(node, c)] # 0 /\ c \notin Seen(f)
    <2>1. child + 1 \in DOMAIN vec
      BY <1>4, <1>5
    <2>2. c \in Range(vec) /\ c \in Code
      BY <1>4, <2>1 DEF Range
    <2>3. c \in Kids /\ Append(node, c) \in nodes
      BY <1>4, <2>2 DEF Kids, ChildCodes
    <2>4. slot[Append(node, c)] # 0
      <3>1. ChildrenPlaced(Frame) /\ Orderly
        BY <1>1, <1>2, TopFrame, Undisturbed
      <3> QED
        BY <2>1, <3>1 DEF ChildrenPlaced
    <2>5. c \notin Seen(f)
      BY <1>4, <1>5, <2>1 DEF Seen, IsInjective
    <2> QED
      BY <2>2, <2>3, <2>4, <2>5
  <1>7. Ahead(f, Append(node, c))
    <2> PICK m : m = Append(node, c)
      OBVIOUS
    <2>1. /\ m \in Seq(Code) /\ Len(m) = Len(node) + 1 /\ m[Len(node) + 1] = c
          /\ \A k \in 1 .. Len(node) : m[k] = node[k]
      BY <1>4, <1>6, Pushed
    <2>2. f \in FrameSet /\ f.node = node
      BY <1>4 DEF FrameSet
    <2>3. Ahead(f, m) <=> /\ Len(m) > Len(f.node)
                          /\ \A k \in 1 .. Len(f.node) : m[k] = f.node[k]
                          /\ m[Len(f.node) + 1] \notin Seen(f)
      BY <2>1, <2>2, AheadElements
    <2> QED
      BY <1>4, <1>6, <2>1, <2>2, <2>3
  <1>8. base[slot[Append(node, c)]] = 0
    BY <1>1, <1>2, <1>6, <1>7, TopOfPath
  <1>9. /\ pc' = "visit"
        /\ stack' = Append(Top([Frame EXCEPT !.child = @ + 1]), h)
    BY <1>1, <1>5 DEF Descend, Child
  <1>10. /\ DOMAIN old = 1 .. L /\ f = old[L]
         /\ DOMAIN stack' = 1 .. L + 1 /\ stack'[L] = g /\ stack'[L + 1] = h
         /\ \A i \in 1 .. L - 1 : stack'[i] = old[i]
         /\ StackIsPath' /\ VecsAreKids'
    <2>1. /\ base'[slot'[Append(node, c)]] = 0
          /\ \A i \in 1 .. L - 1 : base'[slot'[old[i].node]] = base[slot[old[i].node]]
      BY <1>1, <1>8
    <2>2. /\ MovesOn(old, L, f, c, g, h)
          /\ base'[slot'[Append(f.node, c)]] = 0
      BY <1>1, <1>5, <1>9, <2>1 DEF MovesOn
    <2> QED
      <3>1. LayoutInv /\ BuildInv /\ Undamaged /\ stack # <<>> /\ PrefixesAreNodes
        BY <1>1, <1>2
      <3>2. ASSUME NEW i \in 1 .. L - 1
            PROVE  base'[slot'[old[i].node]] = base[slot[old[i].node]]
        BY <2>1
      <3> QED
        BY ONLY <2>2, <3>1, <3>2, PathPushed
  <1>11. ASSUME NEW n \in nodes
         PROVE  /\ Ahead(g, n) => Ahead(f, n)
                /\ Ahead(h, n) => Ahead(f, n) /\ Len(n) > L
                /\ Ahead(f, n) => Ahead(g, n) \/ Ahead(h, n) \/ n = Append(node, c)
    <2>1. n \in Seq(Code) /\ Len(node) + 1 = L
      BY <1>2, <1>4 DEF PrefixesAreNodes
    <2>2. /\ f = [node |-> node, child |-> child, vec |-> vec]
          /\ node \in Seq(Code) /\ vec \in Seq(Code) /\ child \in Nat
          /\ IsInjective(vec) /\ child < Len(vec) /\ c = vec[child + 1]
          /\ g = [node |-> node, child |-> child + 1, vec |-> vec]
          /\ h = [node |-> Append(node, c), child |-> 0, vec |-> <<>>]
      BY <1>4, <1>5
    <2>3. /\ Ahead(g, n) => Ahead(f, n)
          /\ Ahead(h, n) => Ahead(f, n) /\ Len(n) > Len(node) + 1
          /\ Ahead(f, n) => Ahead(g, n) \/ Ahead(h, n) \/ n = Append(node, c)
      BY ONLY <2>1, <2>2, AheadSplits
    <2> QED
      BY <2>1, <2>3
  <1>12. UnplacedIsAhead'
    <2>1. ASSUME NEW n \in nodes, slot[n] = 0
          PROVE  \E i \in 1 .. L + 1 : Ahead(stack'[i], n)
      <3>1. PICK i \in 1 .. L : Ahead(old[i], n)
        BY <1>2, <1>10, <2>1 DEF UnplacedIsAhead
      <3>2. CASE i = L
        <4>1. Ahead(g, n) \/ Ahead(h, n)
          BY <1>6, <1>10, <1>11, <2>1, <3>1, <3>2
        <4>2. L \in 1 .. L + 1 /\ L + 1 \in 1 .. L + 1
          BY <1>4
        <4> QED
          BY <1>10, <4>1, <4>2
      <3>3. CASE i # L
        <4>1. i \in 1 .. L - 1 /\ i \in 1 .. L + 1
          BY <1>4, <3>3
        <4> QED
          BY <1>10, <3>1, <4>1
      <3> QED
        BY <3>2, <3>3
    <2>2. ASSUME NEW i \in 1 .. L + 1, NEW n \in nodes, Ahead(stack'[i], n)
          PROVE  /\ slot[n] # 0 => base[slot[n]] = 0
                 /\ Len(n) > i \/ stack'[i].vec = <<>> => slot[n] = 0
      <3>0. /\ Ahead(f, n) => /\ slot[n] # 0 => base[slot[n]] = 0
                              /\ Len(n) > L => slot[n] = 0
        BY <1>1, <1>2, TopOfPath
      <3>1. CASE i = L
        <4>1. Ahead(f, n) /\ stack'[i].vec = vec
          BY <1>10, <1>11, <2>2, <3>1
        <4> QED
          BY <1>4, <3>0, <3>1, <4>1
      <3>2. CASE i = L + 1
        <4>1. Ahead(f, n) /\ Len(n) > L
          BY <1>10, <1>11, <2>2, <3>2
        <4> QED
          BY <3>0, <4>1
      <3>3. CASE i \in 1 .. L - 1
        <4>1. i \in DOMAIN stack /\ stack'[i] = stack[i]
          BY <1>4, <1>10, <3>3
        <4> QED
          BY <1>2, <2>2, <4>1 DEF UnplacedIsAhead, Waiting
      <3>4. i \in 1 .. L - 1 \/ i = L \/ i = L + 1
        BY <1>4
      <3> QED
        BY <3>1, <3>2, <3>3, <3>4
    <2>3. ~Choosing'
      BY <1>9 DEF Choosing
    <2> QED
      BY <1>1, <1>10, <2>1, <2>2, <2>3 DEF UnplacedIsAhead, Waiting
  <1> QED
    BY <1>3, <1>9, <1>10, <1>12 DEF FailLinksWritten

(* The children are placed at b: what was ahead of the frame on top had no  *)
(* slot, so its children get theirs now and no other node changes.          *)
LEMMA PlaceBuild ==
  ASSUME LayoutInv, BuildInv, pc \in {"dense", "chain"}, NEW b, FitsAt(b), Place(b)
  PROVE  BuildInv'
  <1> SUFFICES ASSUME Undamaged'
               PROVE  /\ (pc # "crashed")' /\ PrefixesAreNodes' /\ StackIsPath' /\ VecsAreKids'
                      /\ UnplacedIsAhead' /\ SlotsAreNodes' /\ FailLinksWritten'
    BY DEF BuildInv
  <1> PICK old, L, f, node, vec, at :
        /\ old = stack /\ L = Len(old) /\ f = Frame
        /\ node = f.node /\ vec = f.vec /\ at = Index
    OBVIOUS
  <1> DEFINE took == {b + vec[i] : i \in DOMAIN vec}
             isChild(n) == \E i \in DOMAIN vec : n = Append(node, vec[i])
  <1>1. /\ base' = [base EXCEPT ![at] = b]
        /\ check' = [s \in Slots |-> IF s \in took THEN at ELSE check[s]]
        /\ slot' = [n \in nodes |-> IF isChild(n) THEN b + Last(n) ELSE slot[n]]
        /\ stack' = Append(Top([Frame EXCEPT !.child = @ + 1]), Child(vec[Frame.child + 1]))
        /\ pc' = "visit" /\ UNCHANGED <<capacity, nodes, damage>>
    BY DEF Place, pointers
  <1> HIDE DEF took, isChild
  <1>2. /\ Undamaged /\ PrefixesAreNodes /\ StackIsPath /\ VecsAreKids
        /\ UnplacedIsAhead /\ SlotsAreNodes /\ Choosing
    BY <1>1 DEF BuildInv, Undamaged, Choosing
  <1>3. /\ stack # <<>> /\ Frame.child < Len(Frame.vec) /\ Frame.child = 0
    BY <1>2 DEF LayoutInv, VecReady, VecsAreKids
  <1>4. /\ f \in FrameSet /\ node \in Seq(Code) /\ node \in nodes /\ vec \in Seq(Code)
        /\ f = [node |-> node, child |-> 0, vec |-> vec] /\ vec # <<>>
        /\ IsInjective(vec) /\ Range(vec) = ChildCodes(nodes, node)
        /\ Len(node) = L - 1 /\ L \in Nat \ {0} /\ slot[node] # 0
        /\ old \in Seq(FrameSet) /\ DOMAIN old = 1 .. L /\ f = old[L]
    <2>1. /\ f \in FrameSet /\ node \in nodes /\ slot[node] # 0 /\ L \in Nat \ {0}
          /\ Len(node) = L - 1
          /\ vec # <<>> => IsInjective(vec) /\ Range(vec) = Kids
      BY <1>2, <1>3, TopOfPath
    <2>2. node \in Seq(Code) /\ vec \in Seq(Code) /\ f.child \in Nat
          /\ f = [node |-> node, child |-> 0, vec |-> vec]
      BY <1>3, <2>1 DEF FrameSet
    <2>3. vec # <<>>
      BY <1>3, <2>2
    <2>4. old \in Seq(FrameSet) /\ DOMAIN old = 1 .. L /\ f = old[L]
      BY <1>3, TopFrame DEF FrameSet
    <2> QED
      BY <2>1, <2>2, <2>3, <2>4 DEF Kids
  <1>5. /\ at = slot[node] /\ at \in Slots /\ at # 0 /\ check[at] # 0 /\ b \in Int
        /\ base \in [Slots -> Int] /\ check \in [Slots -> Slots] /\ slot \in [nodes -> Slots]
        /\ Orderly /\ "thrown" \notin damage
    BY <1>2, <1>4, Undisturbed DEF Index, LayoutInv, ArraysShaped, PlacedApart, FitsAt
  <1>6. ASSUME NEW n \in nodes
        PROVE  /\ slot[n] # 0 => check[slot[n]] # 0
               /\ slot[n] = at => n = node
    BY <1>4, <1>5 DEF LayoutInv, PlacedApart, SlotsDistinct, Orderly
  <1>7. ASSUME NEW n \in nodes, isChild(n)
        PROVE  /\ n \in Seq(Code) /\ n # Root /\ Front(n) = node /\ Len(n) = L
               /\ \A k \in 1 .. L - 1 : n[k] = node[k]
               /\ slot'[n] = b + Last(n) /\ slot'[n] \in took /\ slot'[n] \in Slots
               /\ slot'[n] # 0 /\ check[slot'[n]] = 0 /\ base[slot'[n]] = 0
               /\ slot[n] = 0
    <2>1. PICK i \in DOMAIN vec : n = Append(node, vec[i])
      BY <1>7 DEF isChild
    <2> PICK d : d = vec[i]
      OBVIOUS
    <2>2. d \in Code /\ b + d \in took /\ b + d \in Slots /\ check[b + d] = 0 /\ b + d # 0
      BY <1>4, <1>5 DEF took, FitsAt, Empty
    <2>3. /\ n \in Seq(Code) /\ n # Root /\ Front(n) = node /\ Last(n) = d
          /\ Len(n) = Len(node) + 1
      BY <1>4, <2>1, <2>2, NodeAndChild
    <2>4. /\ \A k \in 1 .. Len(node) : n[k] = node[k]
          /\ n[Len(node) + 1] = d
      BY <1>4, <2>1, <2>2, Pushed
    <2>5. slot'[n] = b + d
      BY <1>1, <1>7, <2>3
    <2>6. base[b + d] = 0
      BY <1>2, <2>2 DEF SlotsAreNodes
    <2>7. Len(node) \in Nat /\ Len(node) + 1 = L
      BY <1>4
    <2>8. Seen(f) = {}
      BY <1>4 DEF Seen
    <2>9. Ahead(f, n)
      <3>1. f.node = node
        OBVIOUS
      <3>2. Ahead(f, n) <=> /\ Len(n) > Len(f.node)
                            /\ \A k \in 1 .. Len(f.node) : n[k] = f.node[k]
                            /\ n[Len(f.node) + 1] \notin Seen(f)
        BY <1>4, <2>3, AheadElements
      <3> QED
        BY <2>3, <2>4, <2>7, <2>8, <3>1, <3>2
    <2>10. slot[n] = 0
      BY <1>2, <1>3, <2>9, TopOfPath
    <2> QED
      BY <2>2, <2>3, <2>4, <2>5, <2>6, <2>7, <2>10
  <1>8. ASSUME NEW n \in nodes, ~isChild(n) PROVE slot'[n] = slot[n]
    BY <1>1, <1>8
  <1>9. ASSUME NEW n \in nodes, slot[n] # 0
        PROVE  /\ slot'[n] = slot[n] /\ slot[n] \notin took
               /\ check'[slot[n]] = check[slot[n]]
               /\ n # node => base'[slot[n]] = base[slot[n]]
    <2>1. ~isChild(n)
      BY <1>7, <1>9
    <2>2. slot[n] \notin took
      <3>1. \A s \in took : check[s] = 0
        BY <1>4 DEF took, FitsAt, Empty
      <3> QED
        BY <1>6, <1>9, <3>1
    <2>3. slot[n] \in Slots
      BY <1>5
    <2>4. n # node => base'[slot[n]] = base[slot[n]]
      BY <1>1, <1>5, <1>6, <2>3
    <2> QED
      BY <1>1, <1>8, <2>1, <2>2, <2>3, <2>4
  <1>10. PrefixesAreNodes'
    BY <1>1, <1>2 DEF PrefixesAreNodes
  <1>11. SlotsAreNodes'
    <2>1. slot'[Root] = k_root_index_
      BY <1>2, <1>9 DEF SlotsAreNodes, k_root_index_, LayoutInv, ArraysShaped
    <2>2. ASSUME NEW n \in nodes \ {Root}, slot'[n] # 0
          PROVE  /\ slot'[Front(n)] # 0 /\ check'[slot'[n]] = slot'[Front(n)]
                 /\ slot'[n] = base'[slot'[Front(n)]] + Last(n)
      <3>1. CASE isChild(n)
        <4>1. slot'[node] = at /\ base'[at] = b
          BY <1>1, <1>4, <1>5, <1>9
        <4>2. check'[slot'[n]] = at
          BY <1>1, <1>7, <3>1
        <4> QED
          BY <1>5, <1>7, <3>1, <4>1, <4>2
      <3>2. CASE ~isChild(n)
        <4> PICK p : p = Front(n)
          OBVIOUS
        <4>1. slot'[n] = slot[n] /\ slot[n] # 0
          BY <1>8, <2>2, <3>2
        <4>2. /\ p \in nodes /\ n = Append(p, Last(n)) /\ Last(n) \in ChildCodes(nodes, p)
          BY <1>2, NodeAndParent
        <4>3. slot[p] # 0 /\ check[slot[n]] = slot[p] /\ slot[n] = base[slot[p]] + Last(n)
          BY <1>2, <4>1 DEF SlotsAreNodes
        <4>4. p # node
          <5> SUFFICES ASSUME p = node PROVE FALSE
            OBVIOUS
          <5>1. Last(n) \in Range(vec)
            BY <1>4, <4>2
          <5>2. isChild(n)
            BY <4>2, <5>1 DEF isChild, Range
          <5> QED
            BY <3>2, <5>2
        <4>5. slot'[p] = slot[p] /\ base'[slot[p]] = base[slot[p]]
          BY <1>9, <4>2, <4>3, <4>4
        <4>6. check'[slot[n]] = check[slot[n]]
          BY <1>9, <4>1
        <4> QED
          BY <4>1, <4>3, <4>5, <4>6
      <3> QED
        BY <3>1, <3>2
    <2>3. ASSUME NEW s \in Slots
          PROVE  /\ base'[s] # 0 => check'[s] # 0
                 /\ check'[s] # 0 => \E n \in nodes : slot'[n] = s /\ s # 0
      <3>1. CASE s \in took
        <4>1. PICK i \in DOMAIN vec : s = b + vec[i]
          BY <3>1 DEF took
        <4>2. vec[i] \in Range(vec) /\ vec[i] \in Code
          BY <1>4 DEF Range
        <4>3. Append(node, vec[i]) \in nodes /\ isChild(Append(node, vec[i]))
          BY <1>4, <4>2 DEF ChildCodes, isChild
        <4>4. Last(Append(node, vec[i])) = vec[i]
          BY <1>4, <4>2, NodeAndChild
        <4>5. slot'[Append(node, vec[i])] = s /\ s # 0
          BY <1>7, <4>1, <4>3, <4>4
        <4>6. check'[s] = at
          BY <1>1, <3>1
        <4> QED
          BY <1>5, <4>3, <4>5, <4>6
      <3>2. CASE s \notin took
        <4>1. check'[s] = check[s]
          BY <1>1, <3>2
        <4>2. base'[s] = IF s = at THEN b ELSE base[s]
          BY <1>1, <1>5
        <4>3. base'[s] # 0 => check'[s] # 0
          BY <1>2, <1>5, <4>1, <4>2 DEF SlotsAreNodes
        <4>4. ASSUME check[s] # 0 PROVE \E n \in nodes : slot'[n] = s /\ s # 0
          <5>1. PICK n \in nodes : slot[n] = s /\ s # 0
            BY <1>2, <4>4 DEF SlotsAreNodes
          <5> QED
            BY <1>9, <5>1
        <4> QED
          BY <4>1, <4>3, <4>4
      <3> QED
        BY <3>1, <3>2
    <2> QED
      BY <1>1, <2>1, <2>2, <2>3 DEF SlotsAreNodes, Slots
  <1> PICK c, g, h :
        /\ c = f.vec[f.child + 1]
        /\ g = [node |-> f.node, child |-> f.child + 1, vec |-> f.vec]
        /\ h = [node |-> Append(f.node, c), child |-> 0, vec |-> <<>>]
    OBVIOUS
  <1>12. /\ c = vec[0 + 1] /\ c \in Code /\ Append(node, c) \in nodes
         /\ isChild(Append(node, c)) /\ 0 < Len(vec)
         /\ g = [node |-> node, child |-> 0 + 1, vec |-> vec]
         /\ h = [node |-> Append(node, c), child |-> 0, vec |-> <<>>]
    <2>1. c = vec[0 + 1] /\ 1 \in DOMAIN vec /\ 0 + 1 = 1 /\ 0 < Len(vec)
      BY <1>4
    <2>2. c \in Range(vec) /\ c \in Code
      BY <1>4, <2>1 DEF Range
    <2>3. Append(node, c) \in nodes /\ isChild(Append(node, c))
      BY <1>4, <2>1, <2>2 DEF ChildCodes, isChild
    <2> QED
      BY <1>4, <2>1, <2>2, <2>3
  <1>13. ASSUME NEW i \in 1 .. L - 1
         PROVE  /\ i \in DOMAIN stack /\ node[i] \in Seen(old[i])
                /\ old[i].node \in nodes /\ Len(old[i].node) = i - 1
                /\ slot[old[i].node] # 0 /\ old[i] \in FrameSet
    <2>1. /\ i \in DOMAIN stack /\ L \in DOMAIN stack /\ i < L
      BY <1>4
    <2>2. node[i] \in Seen(old[i]) /\ Len(old[i].node) = i - 1
      BY <1>2, <1>4, <2>1 DEF StackIsPath
    <2>3. FrameOK(stack[i])
      BY <2>1 DEF LayoutInv, StackShaped
    <2>4. old[i] \in FrameSet
      BY <1>4, <2>1
    <2> QED
      BY <1>5, <2>1, <2>2, <2>3, <2>4 DEF FrameOK
  <1>14. /\ DOMAIN stack' = 1 .. L + 1 /\ stack'[L] = g /\ stack'[L + 1] = h
         /\ \A i \in 1 .. L - 1 : stack'[i] = old[i]
         /\ StackIsPath' /\ VecsAreKids'
    <2>1. MovesOn(old, L, f, c, g, h)
      BY <1>1, <1>3 DEF MovesOn, Child
    <2>2. base'[slot'[Append(f.node, c)]] = 0
      <3> PICK n : n = Append(node, c)
        OBVIOUS
      <3>1. n \in nodes /\ isChild(n)
        BY <1>12
      <3>2. base[slot'[n]] = 0 /\ slot'[n] # at /\ slot'[n] \in Slots
        BY <1>5, <1>7, <3>1
      <3>3. base'[slot'[n]] = 0
        BY <1>1, <1>5, <3>2
      <3> QED
        BY <3>3
    <2>3. ASSUME NEW i \in 1 .. L - 1
          PROVE  base'[slot'[old[i].node]] = base[slot[old[i].node]]
      <3>1. old[i].node # node
        BY <1>4, <1>13
      <3> QED
        BY <1>9, <1>13, <3>1
    <2>4. LayoutInv /\ BuildInv /\ Undamaged /\ stack # <<>> /\ PrefixesAreNodes
      BY <1>2, <1>3
    <2> QED
      BY ONLY <2>1, <2>2, <2>3, <2>4, PathPushed
  <1>15. ASSUME NEW n \in nodes
         PROVE  /\ Ahead(g, n) => Ahead(f, n)
                /\ Ahead(h, n) => Ahead(f, n) /\ Len(n) > L
                /\ Ahead(f, n) => Ahead(g, n) \/ Ahead(h, n) \/ n = Append(node, c)
                /\ Ahead(f, n) => slot[n] = 0
    <2>1. n \in Seq(Code) /\ Len(node) + 1 = L
      BY <1>2, <1>4 DEF PrefixesAreNodes
    <2> PICK child : child = 0
      OBVIOUS
    <2>2. /\ f = [node |-> node, child |-> child, vec |-> vec]
          /\ node \in Seq(Code) /\ vec \in Seq(Code) /\ child \in Nat
          /\ IsInjective(vec) /\ child < Len(vec) /\ c = vec[child + 1]
          /\ g = [node |-> node, child |-> child + 1, vec |-> vec]
          /\ h = [node |-> Append(node, c), child |-> 0, vec |-> <<>>]
      BY <1>4, <1>12
    <2>3. /\ Ahead(g, n) => Ahead(f, n)
          /\ Ahead(h, n) => Ahead(f, n) /\ Len(n) > Len(node) + 1
          /\ Ahead(f, n) => Ahead(g, n) \/ Ahead(h, n) \/ n = Append(node, c)
      BY ONLY <2>1, <2>2, AheadSplits
    <2>4. Ahead(f, n) => slot[n] = 0
      BY <1>2, <1>3, TopOfPath
    <2> QED
      BY <2>1, <2>3, <2>4
  <1>16. ASSUME NEW n \in nodes, slot'[n] = 0
         PROVE  \E i \in 1 .. L + 1 : Ahead(stack'[i], n)
    <2>1. ~isChild(n) /\ slot[n] = 0
      BY <1>7, <1>8, <1>16
    <2>2. PICK i \in 1 .. L : Ahead(old[i], n)
      BY <1>2, <1>4, <2>1 DEF UnplacedIsAhead
    <2>3. CASE i = L
      <3>1. Ahead(g, n) \/ Ahead(h, n)
        BY <1>4, <1>12, <1>15, <2>1, <2>2, <2>3
      <3>2. L \in 1 .. L + 1 /\ L + 1 \in 1 .. L + 1
        BY <1>4
      <3> QED
        BY <1>14, <3>1, <3>2
    <2>4. CASE i # L
      <3>1. i \in 1 .. L - 1 /\ i \in 1 .. L + 1
        BY <1>4, <2>4
      <3> QED
        BY <1>14, <2>2, <3>1
    <2> QED
      BY <2>3, <2>4
  <1>17. ASSUME NEW i \in 1 .. L + 1, NEW n \in nodes, Ahead(stack'[i], n)
         PROVE  /\ slot'[n] # 0 => base'[slot'[n]] = 0
                /\ Len(n) > i \/ stack'[i].vec = <<>> => slot'[n] = 0
    <2>1. ASSUME isChild(n) PROVE base'[slot'[n]] = 0
      <3>1. base[slot'[n]] = 0 /\ slot'[n] # at /\ slot'[n] \in Slots
        BY <1>5, <1>7, <2>1
      <3> QED
        BY <1>1, <1>5, <3>1
    <2>2. CASE i = L
      <3>1. slot[n] = 0 /\ stack'[i].vec # <<>>
        BY <1>4, <1>12, <1>14, <1>15, <1>17, <2>2
      <3>2. CASE isChild(n)
        BY <1>4, <1>7, <2>1, <2>2, <3>1, <3>2
      <3>3. CASE ~isChild(n)
        BY <1>8, <3>1, <3>3
      <3> QED
        BY <3>2, <3>3
    <2>3. CASE i = L + 1
      <3>1. slot[n] = 0 /\ Len(n) > L
        BY <1>14, <1>15, <1>17, <2>3
      <3>2. ~isChild(n)
        BY <1>4, <1>7, <3>1
      <3> QED
        BY <1>8, <3>1, <3>2
    <2>4. CASE i \in 1 .. L - 1
      <3>1. i \in DOMAIN stack /\ stack'[i] = stack[i] /\ stack[i] \in FrameSet
            /\ node[i] \in Seen(stack[i]) /\ Len(stack[i].node) + 1 = i
        BY <1>13, <1>14, <2>4
      <3>2. /\ slot[n] # 0 => base[slot[n]] = 0
            /\ Len(n) > i \/ stack[i].vec = <<>> => slot[n] = 0
        BY <1>2, <1>17, <3>1 DEF UnplacedIsAhead, Waiting
      <3>3. n[i] # node[i]
        BY <1>17, <3>1 DEF Ahead
      <3>4. n # node /\ ~isChild(n)
        BY <1>7, <2>4, <3>3
      <3>5. slot'[n] = slot[n]
        BY <1>8, <3>4
      <3>6. slot[n] # 0 => base'[slot[n]] = base[slot[n]]
        BY <1>9, <3>4
      <3> QED
        BY <3>1, <3>2, <3>5, <3>6
    <2>5. i \in 1 .. L - 1 \/ i = L \/ i = L + 1
      BY <1>4
    <2> QED
      BY <2>2, <2>3, <2>4, <2>5
  <1>18. UnplacedIsAhead'
    <2>1. ~Choosing'
      BY <1>1 DEF Choosing
    <2>2. nodes' = nodes
      BY <1>1
    <2> QED
      BY ONLY <1>14, <1>16, <1>17, <2>1, <2>2 DEF UnplacedIsAhead, Waiting
  <1> QED
    BY <1>1, <1>10, <1>11, <1>14, <1>18 DEF FailLinksWritten

LEMMA ChoosingBuild ==
  ASSUME LayoutInv, BuildInv, TryDense \/ StartChain \/ SkipTaken \/ GiveUpDense \/ TryChain
  PROVE  BuildInv'
  <1>1. CASE TryDense
    <2>1. CASE Empty(Head(dense))
      <3> PICK b : b = Head(dense) - MinCode
        OBVIOUS
      <3>1. Place(b) /\ pc = "dense" /\ Len(Frame.vec) = 1 /\ dense # <<>>
        BY <1>1, <2>1 DEF TryDense
      <3>2. FitsAt(b)
        BY <2>1, <3>1, DenseFits
      <3> QED
        BY <3>1, <3>2, PlaceBuild
    <2>2. CASE ~Empty(Head(dense))
      <3>1. UNCHANGED <<capacity, base, check, failLink, nodes, slot, stack, damage, pc>>
        BY <1>1, <2>2 DEF TryDense, arrays, pointers
      <3> QED
        BY <3>1, BuildKept
    <2> QED
      BY <2>1, <2>2
  <1>2. CASE TryChain
    <2> PICK b : b = Head(chain) - MinCode
      OBVIOUS
    <2>1. CASE Fits(b)
      <3>1. Place(b) /\ pc = "chain" /\ left > 0
        BY <1>2, <2>1 DEF TryChain
      <3>2. FitsAt(b)
        BY <2>1, <3>1, ChainFits
      <3> QED
        BY <3>1, <3>2, PlaceBuild
    <2>2. CASE ~Fits(b)
      <3>1. UNCHANGED <<capacity, base, check, failLink, nodes, slot, stack, damage, pc>>
        BY <1>2, <2>2 DEF TryChain, arrays, pointers
      <3> QED
        BY <3>1, BuildKept
    <2> QED
      BY <2>1, <2>2
  <1>3. CASE StartChain \/ SkipTaken \/ GiveUpDense
    <2>1. /\ UNCHANGED <<capacity, base, check, failLink, nodes, slot, stack, damage>>
          /\ pc' = pc \/ (pc \in {"dense", "chain"} /\ pc' \in {"dense", "chain"})
      BY <1>3 DEF StartChain, SkipTaken, GiveUpDense, arrays, pointers
    <2> QED
      BY <2>1, BuildKept
  <1> QED
    BY <1>1, <1>2, <1>3

(* The last pop: with the stack empty nothing is left to place, so every    *)
(* node has a slot of its own and writes its own fail link there.           *)
LEMMA FinishBuildBuild ==
  ASSUME LayoutInv, BuildInv, FinishBuild
  PROVE  BuildInv'
  <1> SUFFICES ASSUME Undamaged'
               PROVE  /\ (pc # "crashed")' /\ PrefixesAreNodes' /\ StackIsPath' /\ VecsAreKids'
                      /\ UnplacedIsAhead' /\ SlotsAreNodes' /\ FailLinksWritten'
    BY DEF BuildInv
  <1>1. /\ pc = "visit" /\ pc' = "ready" /\ stack = <<>>
        /\ UNCHANGED <<capacity, base, check, nodes, slot, stack, damage>>
    BY DEF FinishBuild, pointers
  <1>2. /\ Undamaged /\ PrefixesAreNodes /\ UnplacedIsAhead /\ SlotsAreNodes
    BY <1>1 DEF BuildInv, Undamaged
  <1> DEFINE fail == FailNode(nodes)
             owners(s) == {n \in nodes \ {Root} : slot[n] = s}
             last(s)   == {n \in owners(s) : \A m \in owners(s) : Len(m) <= Len(n)}
             links(s)  == {slot[fail[n]] : n \in last(s)}
             contested == {s \in Slots : Cardinality(links(s)) > 1}
  <1>3. PICK h \in [contested -> Slots] :
          failLink' = [s \in Slots |-> IF s \in contested THEN h[s]
                                       ELSE IF links(s) = {} THEN failLink[s]
                                       ELSE CHOOSE l \in links(s) : TRUE]
    BY DEF FinishBuild
  <1> HIDE DEF fail
  <1>4. ASSUME NEW n \in nodes \ {Root}
        PROVE  failLink'[slot[n]] = slot[fail[n]]
    <2>1. slot[n] # 0 /\ slot[n] \in Slots
      BY <1>1, <1>2 DEF UnplacedIsAhead, LayoutInv, ArraysShaped
    <2>2. owners(slot[n]) = {n}
      BY <1>2, <2>1, Undisturbed DEF LayoutInv, PlacedApart, SlotsDistinct, Orderly
    <2>3. Len(n) <= Len(n)
      BY <1>2 DEF PrefixesAreNodes
    <2> HIDE DEF owners
    <2>4. last(slot[n]) = {n}
      BY <2>2, <2>3
    <2> HIDE DEF last
    <2>5. links(slot[n]) = {slot[fail[n]]}
      BY <2>4
    <2>6. Cardinality(links(slot[n])) = 1
      BY <2>5, FS_Singleton
    <2> HIDE DEF links
    <2>7. slot[n] \notin contested
      BY <2>6
    <2> HIDE DEF contested
    <2> QED
      BY <1>3, <2>1, <2>5, <2>7
  <1>5. FailLinksWritten'
    BY <1>1, <1>4 DEF FailLinksWritten, fail
  <1>6. StackIsPath' /\ VecsAreKids' /\ UnplacedIsAhead'
    <2>1. DOMAIN stack' = {} /\ ~Choosing'
      BY <1>1 DEF Choosing
    <2>2. \A n \in nodes : slot[n] # 0
      BY <1>1, <1>2 DEF UnplacedIsAhead
    <2> QED
      BY <1>1, <2>1, <2>2 DEF StackIsPath, VecsAreKids, UnplacedIsAhead
  <1> QED
    BY <1>1, <1>2, <1>5, <1>6 DEF PrefixesAreNodes, SlotsAreNodes, Slots

LEMMA StepBuild == LayoutInv /\ BuildInv /\ [Next]_vars => BuildInv'
  <1> SUFFICES ASSUME LayoutInv, BuildInv, [Next]_vars PROVE BuildInv'
    OBVIOUS
  <1>1. CASE \E ws \in Dictionaries : Rebuild(ws) \/ RebuildThrows(ws)
    BY <1>1, RebuildBuild, RebuildThrowsBuild
  <1>2. CASE (\E t \in Texts : BeginSearch(t)) \/ SearchStep
    BY <1>2, SearchBuild
  <1>3. CASE BuildStep
    BY <1>3, PopNodeBuild, CollectChildrenBuild, DescendBuild, ChoosingBuild,
       ReserveBuild, FinishBuildBuild DEF BuildStep
  <1>4. CASE UNCHANGED vars
    <2>1. UNCHANGED <<capacity, base, check, failLink, nodes, slot, stack, damage, pc>>
      BY <1>4 DEF vars, arrays, pointers
    <2> QED
      BY <2>1, BuildKept
  <1> QED
    BY <1>1, <1>2, <1>3, <1>4 DEF Next

(* A build that nothing went wrong before or in works down the path it      *)
(* keeps on its stack; what it has passed has its slot, and every slot in   *)
(* use is that of a node.                                                   *)
THEOREM BuildCorrect == Spec => []BuildInv
  <1>1. Spec => [](LayoutInv /\ BuildInv)
    BY InitLayout, InitBuild, StepLayout, StepBuild, PTL DEF Spec
  <1> QED
    BY <1>1, PTL

(* So it never reads past the end of curr_child_vec.                        *)
THEOREM OrderlyBuildsEndCorrect == Spec => []OrderlyBuildsEnd
  <1>1. BuildInv => OrderlyBuildsEnd
    BY DEF BuildInv, OrderlyBuildsEnd
  <1> QED
    BY <1>1, BuildCorrect, PTL

(* And when it is done, the arrays are the pointer trie: each code leads    *)
(* where the trie has a child for it and nowhere else, and the fail links   *)
(* are those of the trie.                                                   *)
THEOREM ArraysCorrect == Spec => []ArraysAreTheTrie
  <1>1. LayoutInv /\ BuildInv => ArraysAreTheTrie
    <2> SUFFICES ASSUME LayoutInv, BuildInv, Built, Undamaged
                 PROVE  /\ \A m, n \in nodes : slot[m] = slot[n] => m = n
                        /\ \A n \in nodes : \A c \in Code :
                             LET leads == /\ base[slot[n]] + c \in Slots \ {k_root_index_}
                                          /\ check[base[slot[n]] + c] = slot[n]
                             IN  /\ leads <=> Append(n, c) \in nodes
                                 /\ leads => slot[Append(n, c)] = base[slot[n]] + c
                        /\ \A n \in nodes \ {Root} :
                             failLink[slot[n]] = slot[FailNode(nodes)[n]]
      BY DEF ArraysAreTheTrie
    <2>1. /\ PrefixesAreNodes /\ UnplacedIsAhead /\ SlotsAreNodes /\ FailLinksWritten
          /\ stack = <<>> /\ Root \in nodes /\ slot \in [nodes -> Slots]
          /\ base \in [Slots -> Int] /\ capacity \in Nat
      BY DEF BuildInv, Built, Building, LayoutInv, StackShaped, ArraysShaped
    <2>2. \A n \in nodes : slot[n] # 0 /\ slot[n] \in Slots
      BY <2>1 DEF UnplacedIsAhead
    <2>3. \A m, n \in nodes : slot[m] = slot[n] => m = n
      BY <2>2, Undisturbed DEF LayoutInv, PlacedApart, SlotsDistinct, Orderly
    <2>4. \A n \in nodes \ {Root} : failLink[slot[n]] = slot[FailNode(nodes)[n]]
      BY <2>1 DEF FailLinksWritten, Built
    <2>5. ASSUME NEW n \in nodes, NEW c \in Code, NEW s, s = base[slot[n]] + c
          PROVE  /\ s \in Slots \ {k_root_index_} /\ check[s] = slot[n]
                      <=> Append(n, c) \in nodes
                 /\ Append(n, c) \in nodes => slot[Append(n, c)] = s
      <3> PICK m : m = Append(n, c)
        OBVIOUS
      <3>1. m \in Seq(Code) /\ m # Root /\ Front(m) = n /\ Last(m) = c
        BY <2>1, NodeAndChild DEF PrefixesAreNodes
      <3>2. ASSUME m \in nodes
            PROVE  s \in Slots \ {k_root_index_} /\ check[s] = slot[n] /\ slot[m] = s
        <4>1. slot[m] = s /\ check[slot[m]] = slot[n]
          BY <2>1, <2>2, <2>5, <3>1, <3>2 DEF SlotsAreNodes
        <4>2. slot[m] # k_root_index_
          BY <2>1, <2>3, <3>1, <3>2 DEF SlotsAreNodes
        <4> QED
          BY <2>2, <3>2, <4>1, <4>2
      <3>3. ASSUME s \in Slots \ {k_root_index_}, check[s] = slot[n] PROVE m \in nodes
        <4>1. PICK p \in nodes : slot[p] = s
          BY <2>1, <2>2, <3>3 DEF SlotsAreNodes
        <4>2. p # Root
          BY <2>1, <3>3, <4>1 DEF SlotsAreNodes
        <4>3. /\ Front(p) \in nodes /\ p = Append(Front(p), Last(p)) /\ Last(p) \in Code
          BY <2>1, <4>2, NodeAndParent
        <4>4. check[s] = slot[Front(p)] /\ s = base[slot[Front(p)]] + Last(p)
          BY <2>1, <2>2, <4>1, <4>2 DEF SlotsAreNodes
        <4>5. Front(p) = n
          BY <2>3, <3>3, <4>3, <4>4
        <4>6. Last(p) = c
          <5>1. base[slot[n]] \in Int /\ c \in Nat /\ Last(p) \in Nat
            BY <2>1, <2>2, <4>3, CodeAssumption
          <5> QED
            BY <2>5, <4>4, <4>5, <5>1
        <4> QED
          BY <4>1, <4>3, <4>5, <4>6
      <3> QED
        BY <3>2, <3>3
    <2> QED
      BY <2>3, <2>4, <2>5
  <1>2. Spec => [](LayoutInv /\ BuildInv)
    BY LayoutCorrect, BuildCorrect, PTL
  <1> QED
    BY <1>1, <1>2, PTL

-----------------------------------------------------------------------------
(* Sequences that end with one another.                                    *)

LEMMA EndsItself ==
  ASSUME NEW C, NEW n \in Seq(C) PROVE Ends(n, n) /\ Ends(<<>>, n)
  BY DEF Ends

LEMMA EndsTwice ==
  ASSUME NEW C, NEW r \in Seq(C), NEW s \in Seq(C), NEW t \in Seq(C), Ends(s, t)
  PROVE  /\ Ends(r, s) => Ends(r, t)
         /\ Ends(r, t) /\ Len(r) <= Len(s) => Ends(r, s)
         /\ Len(s) = Len(t) => s = t
  <1>1. Len(r) \in Nat /\ Len(s) \in Nat /\ Len(t) \in Nat /\ Len(s) <= Len(t)
    BY DEF Ends
  <1>2. \A j \in 1 .. Len(s) : s[j] = t[Len(t) - Len(s) + j]
    BY DEF Ends
  <1>3. ASSUME Len(r) <= Len(s), NEW j \in 1 .. Len(r)
        PROVE  s[Len(s) - Len(r) + j] = t[Len(t) - Len(r) + j]
    <2>1. /\ Len(s) - Len(r) + j \in 1 .. Len(s)
          /\ Len(t) - Len(s) + (Len(s) - Len(r) + j) = Len(t) - Len(r) + j
      BY <1>1, <1>3
    <2> QED
      BY <1>2, <2>1
  <1>4. Ends(r, s) => Ends(r, t)
    BY <1>1, <1>3 DEF Ends
  <1>5. Ends(r, t) /\ Len(r) <= Len(s) => Ends(r, s)
    BY <1>1, <1>3 DEF Ends
  <1>6. Len(s) = Len(t) => s = t
    BY <1>1, <1>2, SeqEqual
  <1> QED
    BY <1>4, <1>5, <1>6

LEMMA EndsAppend ==
  ASSUME NEW C, NEW s \in Seq(C), NEW t \in Seq(C), NEW c \in C, NEW d \in C
  PROVE  Ends(Append(s, c), Append(t, d)) <=> c = d /\ Ends(s, t)
  <1> DEFINE p == Append(s, c)
             q == Append(t, d)
  <1>1. /\ Len(p) = Len(s) + 1 /\ p[Len(s) + 1] = c
        /\ \A j \in 1 .. Len(s) : p[j] = s[j]
    BY AppendProperties
  <1>2. /\ Len(q) = Len(t) + 1 /\ q[Len(t) + 1] = d
        /\ \A j \in 1 .. Len(t) : q[j] = t[j]
    BY AppendProperties
  <1> HIDE DEF p, q
  <1>3. Len(s) \in Nat /\ Len(t) \in Nat
    OBVIOUS
  <1>4. ASSUME Ends(p, q) PROVE c = d /\ Ends(s, t)
    <2>1. Len(s) <= Len(t)
      BY <1>1, <1>2, <1>3, <1>4 DEF Ends
    <2>2. \A j \in 1 .. Len(s) + 1 : p[j] = q[Len(t) - Len(s) + j]
      <3>1. \A j \in 1 .. Len(p) : p[j] = q[Len(q) - Len(p) + j]
        BY ONLY <1>4 DEF Ends
      <3>2. Len(p) = Len(s) + 1 /\ Len(q) - Len(p) = Len(t) - Len(s)
        BY <1>1, <1>2, <1>3
      <3> QED
        BY ONLY <3>1, <3>2
    <2>3. c = d
      BY <1>1, <1>2, <1>3, <2>2
    <2>4. ASSUME NEW j \in 1 .. Len(s) PROVE s[j] = t[Len(t) - Len(s) + j]
      <3>1. j \in 1 .. Len(s) + 1 /\ Len(t) - Len(s) + j \in 1 .. Len(t)
        BY <1>3, <2>1
      <3> QED
        BY <1>1, <1>2, <2>2, <3>1
    <2> QED
      BY <2>1, <2>3, <2>4 DEF Ends
  <1>5. ASSUME c = d, Ends(s, t) PROVE Ends(p, q)
    <2>1. Len(s) <= Len(t) /\ \A j \in 1 .. Len(s) : s[j] = t[Len(t) - Len(s) + j]
      BY <1>5 DEF Ends
    <2>2. ASSUME NEW j \in 1 .. Len(s) + 1 PROVE p[j] = q[Len(t) - Len(s) + j]
      <3>1. CASE j = Len(s) + 1
        <4>1. Len(t) - Len(s) + j = Len(t) + 1
          BY <1>3, <3>1
        <4> QED
          BY <1>1, <1>2, <1>5, <3>1, <4>1
      <3>2. CASE j # Len(s) + 1
        <4>1. j \in 1 .. Len(s) /\ Len(t) - Len(s) + j \in 1 .. Len(t)
          BY <1>3, <2>1, <3>2
        <4> QED
          BY <1>1, <1>2, <2>1, <4>1
      <3> QED
        BY <3>1, <3>2
    <2>3. Len(q) - Len(p) = Len(t) - Len(s) /\ Len(p) <= Len(q)
      BY <1>1, <1>2, <1>3, <2>1
    <2> QED
      BY <1>1, <2>2, <2>3 DEF Ends
  <1> QED
    BY <1>4, <1>5 DEF p, q

-----------------------------------------------------------------------------
LEMMA GreatestElement ==
  ASSUME NEW k \in Nat, NEW T, T \subseteq 0 .. k, T # {}
  PROVE  \E m \in T : \A i \in T : i <= m
  <1> DEFINE U == {k - i : i \in T}
  <1>1. U \subseteq Nat /\ U # {}
    OBVIOUS
  <1>2. PICK u \in U : \A i \in U : u <= i
    <2> HIDE DEF U
    <2> QED
      BY <1>1, LeastElement
  <1>3. PICK m \in T : u = k - m
    BY <1>2
  <1>4. ASSUME NEW i \in T PROVE i <= m
    <2>1. k - i \in U /\ i \in Nat /\ m \in Nat
      OBVIOUS
    <2> QED
      BY <1>2, <1>3, <2>1
  <1> QED
    BY <1>3, <1>4

(* A set of nodes as the trie has it.                                      *)
IsTree(N) ==
  /\ N \subseteq Seq(Code) /\ <<>> \in N
  /\ \A n \in N : n # <<>> => /\ Front(n) \in N /\ Last(n) \in Code
                              /\ Len(Front(n)) = Len(n) - 1 /\ Len(n) \in Nat \ {0}
                              /\ n = Append(Front(n), Last(n))

(* Of the nodes of a set that n ends with, the longest.                     *)
IsLongest(e, n, S) ==
  e \in S /\ Ends(e, n) /\ \A m \in S : Ends(m, n) => Ends(m, e)

LEMMA LongestExists ==
  ASSUME NEW n \in Seq(Code), NEW S, S \subseteq Seq(Code), <<>> \in S
  PROVE  \E e : IsLongest(e, n, S)
  <1> DEFINE T == {l \in 0 .. Len(n) : \E m \in S : Ends(m, n) /\ Len(m) = l}
  <1>1. Ends(<<>>, n) /\ Len(<<>>) = 0 /\ Len(n) \in Nat
    BY EndsItself
  <1>2. 0 \in T
    BY <1>1
  <1>3. PICK l \in T : \A i \in T : i <= l
    <2> HIDE DEF T
    <2>1. T # {} /\ Len(n) \in Nat
      BY <1>1, <1>2
    <2>2. T \subseteq 0 .. Len(n)
      BY DEF T
    <2> QED
      BY <2>1, <2>2, GreatestElement
  <1>4. PICK e \in S : Ends(e, n) /\ Len(e) = l
    BY <1>3
  <1>5. ASSUME NEW m \in S, Ends(m, n) PROVE Ends(m, e)
    <2>1. Len(m) \in T
      BY <1>5 DEF Ends
    <2>2. Len(m) <= Len(e)
      BY <1>3, <1>4, <2>1
    <2> QED
      BY <1>4, <1>5, <2>2, EndsTwice
  <1> QED
    BY <1>4, <1>5 DEF IsLongest

LEMMA LongestIsOne ==
  ASSUME NEW n \in Seq(Code), NEW S, S \subseteq Seq(Code),
         NEW d, IsLongest(d, n, S), NEW e, IsLongest(e, n, S)
  PROVE  d = e
  <1>1. d \in Seq(Code) /\ e \in Seq(Code) /\ Ends(d, e) /\ Ends(e, d)
    BY DEF IsLongest
  <1>2. Len(d) = Len(e)
    BY <1>1 DEF Ends
  <1> QED
    BY <1>1, <1>2, EndsTwice

-----------------------------------------------------------------------------
(* The fail nodes: FailNode leads every node to the longest node it ends    *)
(* with but itself.                                                        *)

(* The candidates for the node a search goes on from when it has read c at  *)
(* d, and the longest of them.                                             *)
Bases(N, c) == {m \in N : m = <<>> \/ Append(m, c) \in N}

(* The longest node that n ends with and that is not n.                     *)
Linked(N, f) ==
  /\ f = [n \in N |-> f[n]] /\ f[<<>>] = <<>>
  /\ \A n \in N : n # <<>> => IsLongest(f[n], n, N \ {n})

LEMMA LinkedExists ==
  ASSUME NEW N, IsTree(N) PROVE \E f : Linked(N, f)
  <1> DEFINE f == [n \in N |-> IF n = <<>> THEN <<>> ELSE CHOOSE e : IsLongest(e, n, N \ {n})]
  <1>1. ASSUME NEW n \in N, n # <<>> PROVE IsLongest(f[n], n, N \ {n})
    <2>1. \E e : IsLongest(e, n, N \ {n})
      BY <1>1, LongestExists DEF IsTree
    <2> QED
      BY <1>1, <2>1
  <1>2. f[<<>>] = <<>> /\ f = [n \in N |-> f[n]]
    BY DEF IsTree
  <1> HIDE DEF f
  <1>3. Linked(N, f)
    BY <1>1, <1>2 DEF Linked
  <1> QED
    BY <1>3

LEMMA LinksAreShorter ==
  ASSUME NEW N, IsTree(N), NEW f, Linked(N, f), NEW n \in N, n # <<>>
  PROVE  /\ f[n] \in N /\ Len(f[n]) \in Nat /\ Len(n) \in Nat /\ Len(f[n]) < Len(n)
         /\ Ends(f[n], n)
  <1>1. f[n] \in N \ {n} /\ Ends(f[n], n)
    BY DEF Linked, IsLongest
  <1>2. f[n] \in Seq(Code) /\ n \in Seq(Code)
    BY <1>1 DEF IsTree
  <1>3. Len(f[n]) # Len(n)
    BY <1>1, <1>2, EndsTwice
  <1>4. Len(f[n]) \in Nat /\ Len(n) \in Nat
    BY <1>2
  <1>5. Len(f[n]) <= Len(n)
    BY <1>1 DEF Ends
  <1> QED
    BY <1>1, <1>3, <1>4, <1>5

(* Up the links from d to a node that has a child for c: dest of FailNode,  *)
(* on the nodes shorter than k.                                            *)
Shorter(N, k) == {m \in N : Len(m) < k}
Dest(N, f, c, k, dest) ==
  dest = [d \in Shorter(N, k) |->
            IF d # Root /\ Append(d, c) \notin N THEN dest[f[d]] ELSE d]

(* Only links of shorter nodes are looked at.                               *)
LEMMA DestIsLongest ==
  ASSUME NEW N, IsTree(N), NEW f, Linked(N, f), NEW c, NEW k \in Nat,
         NEW h, \A d \in Shorter(N, k) : h[d] = f[d]
  PROVE  LET dest == CHOOSE dest : Dest(N, h, c, k, dest)
         IN  \A d \in Shorter(N, k) : IsLongest(dest[d], d, Bases(N, c))
  <1> DEFINE S == Bases(N, c)
             rec(dest) == [d \in Shorter(N, k) |->
                IF d # Root /\ Append(d, c) \notin N THEN dest[h[d]] ELSE d]
             long == [d \in Shorter(N, k) |-> CHOOSE e : IsLongest(e, d, S)]
             dest == CHOOSE dest : Dest(N, h, c, k, dest)
  <1>1. S \subseteq Seq(Code) /\ <<>> \in S /\ N \subseteq Seq(Code)
    BY DEF IsTree, Bases
  <1>2. ASSUME NEW d \in Shorter(N, k) PROVE IsLongest(long[d], d, S)
    <2>1. d \in Seq(Code)
      BY <1>1 DEF Shorter
    <2>2. \E e : IsLongest(e, d, S)
      BY <1>1, <2>1, LongestExists
    <2> QED
      BY <2>2
  <1> HIDE DEF S
  <1>3. ASSUME NEW d \in Shorter(N, k), d # Root, Append(d, c) \notin N
        PROVE  /\ h[d] \in Shorter(N, k) /\ Len(h[d]) < Len(d)
               /\ \A e : IsLongest(e, h[d], S) => IsLongest(e, d, S)
    <2>1. d \in N /\ d # <<>> /\ h[d] = f[d] /\ Len(d) < k
      BY <1>3 DEF Shorter, Root
    <2>2. /\ f[d] \in N /\ Len(f[d]) \in Nat /\ Len(d) \in Nat /\ Len(f[d]) < Len(d)
          /\ Ends(f[d], d)
      BY <2>1, LinksAreShorter
    <2>3. ASSUME NEW e, IsLongest(e, f[d], S) PROVE IsLongest(e, d, S)
      <3>1. e \in S /\ e \in Seq(Code) /\ d \in Seq(Code) /\ f[d] \in Seq(Code)
        BY <1>1, <2>1, <2>2, <2>3 DEF IsLongest
      <3>2. Ends(e, d)
        BY <2>2, <2>3, <3>1, EndsTwice DEF IsLongest
      <3>3. ASSUME NEW m \in S, Ends(m, d) PROVE Ends(m, e)
        <4>1. m # d /\ m \in N
          BY <1>3, <2>1, <3>3 DEF S, Bases
        <4>2. Ends(m, f[d])
          BY <2>1, <3>3, <4>1 DEF Linked, IsLongest
        <4> QED
          BY <2>3, <4>2 DEF IsLongest
      <3> QED
        BY <3>1, <3>2, <3>3 DEF IsLongest
    <2> QED
      BY <2>1, <2>2, <2>3 DEF Shorter
  <1>4. ASSUME NEW d \in Shorter(N, k), d = Root \/ Append(d, c) \in N
        PROVE  IsLongest(d, d, S)
    <2>1. d \in S /\ d \in Seq(Code)
      BY <1>1, <1>4 DEF S, Bases, Shorter, Root
    <2> QED
      BY <2>1, EndsItself DEF IsLongest
  <1>5. long = rec(long)
    <2>1. ASSUME NEW d \in Shorter(N, k)
          PROVE  long[d] = IF d # Root /\ Append(d, c) \notin N THEN long[h[d]] ELSE d
      <3> HIDE DEF long
      <3>1. d \in Seq(Code)
        BY <1>1 DEF Shorter
      <3>2. CASE d # Root /\ Append(d, c) \notin N
        <4>1. IsLongest(long[h[d]], d, S)
          BY <1>2, <1>3, <3>2
        <4>2. long[d] = long[h[d]]
          BY <1>1, <1>2, <3>1, <4>1, LongestIsOne
        <4> QED
          BY <3>2, <4>2
      <3>3. CASE ~(d # Root /\ Append(d, c) \notin N)
        <4>1. IsLongest(d, d, S)
          BY <1>4, <3>3
        <4>2. long[d] = d
          BY <1>1, <1>2, <3>1, <4>1, LongestIsOne
        <4> QED
          BY <3>3, <4>2
      <3> QED
        BY <3>2, <3>3
    <2>2. long = [d \in Shorter(N, k) |-> long[d]]
      OBVIOUS
    <2> HIDE DEF long
    <2> QED
      BY <2>1, <2>2
  <1> HIDE DEF long
  <1>6. Dest(N, h, c, k, dest)
    <2>1. Dest(N, h, c, k, long)
      BY <1>5 DEF Dest
    <2> QED
      BY <2>1
  <1> HIDE DEF dest
  <1> DEFINE T == {l \in Nat : \A d \in Shorter(N, k) : Len(d) < l => IsLongest(dest[d], d, S)}
  <1>7. \A d \in Shorter(N, k) : Len(d) \in Nat /\ Len(d) < k
    BY <1>1 DEF Shorter
  <1>8. 0 \in T
    BY <1>7
  <1>9. ASSUME NEW l \in Nat, l \in T PROVE l + 1 \in T
    <2> SUFFICES ASSUME NEW d \in Shorter(N, k), Len(d) < l + 1 PROVE IsLongest(dest[d], d, S)
      OBVIOUS
    <2>1. dest[d] = IF d # Root /\ Append(d, c) \notin N THEN dest[h[d]] ELSE d
      BY <1>6 DEF Dest
    <2>2. CASE d # Root /\ Append(d, c) \notin N
      <3>1. h[d] \in Shorter(N, k) /\ Len(h[d]) < l
        BY <1>3, <1>7, <2>2
      <3>2. IsLongest(dest[h[d]], h[d], S)
        BY <1>9, <3>1
      <3> QED
        BY <1>3, <2>1, <2>2, <3>2
    <2>3. CASE ~(d # Root /\ Append(d, c) \notin N)
      BY <1>4, <2>1, <2>3
    <2> QED
      BY <2>2, <2>3
  <1>10. Nat \subseteq T
    <2> HIDE DEF T
    <2> QED
      BY <1>8, <1>9, Induction
  <1>11. k \in T
    BY <1>10
  <1> QED
    BY <1>7, <1>11 DEF S, dest

(* The fail node of a node is the longest node it ends with but itself.     *)
LEMMA ParentLink ==
  ASSUME NEW N, IsTree(N), NEW f, Linked(N, f), NEW n \in N, Len(n) > 1,
         NEW stop, IsLongest(stop, f[Front(n)], Bases(N, Last(n)))
  PROVE  f[n] = IF Append(stop, Last(n)) \in N THEN Append(stop, Last(n)) ELSE stop
  <1> DEFINE p == Front(n)
             c == Last(n)
             e == IF Append(stop, c) \in N THEN Append(stop, c) ELSE stop
  <1>1. /\ p \in N /\ c \in Code /\ n = Append(p, c) /\ n # <<>> /\ p # <<>>
        /\ Len(n) = Len(p) + 1 /\ Len(p) \in Nat
    <2>1. n # <<>>
      OBVIOUS
    <2> QED
      BY <2>1 DEF IsTree
  <1> HIDE DEF p, c
  <1>2. /\ f[p] \in N /\ Len(f[p]) \in Nat /\ Len(f[p]) < Len(p) /\ Ends(f[p], p)
    BY <1>1, LinksAreShorter
  <1>3. /\ stop \in N /\ (stop = <<>> \/ Append(stop, c) \in N) /\ Ends(stop, f[p])
        /\ \A m \in Bases(N, c) : Ends(m, f[p]) => Ends(m, stop)
    BY DEF IsLongest, Bases, IsTree, p, c
  <1>4. /\ N \subseteq Seq(Code) /\ p \in Seq(Code) /\ n \in Seq(Code)
        /\ f[p] \in Seq(Code) /\ stop \in Seq(Code) /\ Len(stop) \in Nat
    BY <1>1, <1>2, <1>3 DEF IsTree
  <1>5. Ends(stop, p) /\ Len(stop) < Len(p)
    <2>1. Len(stop) <= Len(f[p])
      BY <1>3 DEF Ends
    <2> QED
      BY <1>1, <1>2, <1>3, <1>4, <2>1, EndsTwice
  <1>6. ASSUME NEW m \in N \ {n}, Ends(m, n)
        PROVE  m = <<>> \/ (Append(stop, c) \in N /\ Ends(m, Append(stop, c)))
    <2> SUFFICES ASSUME m # <<>> PROVE Append(stop, c) \in N /\ Ends(m, Append(stop, c))
      OBVIOUS
    <2>1. /\ Front(m) \in N /\ Last(m) \in Code /\ m = Append(Front(m), Last(m))
          /\ Front(m) \in Seq(Code)
      BY <1>4 DEF IsTree
    <2> PICK q, d : q = Front(m) /\ d = Last(m)
      OBVIOUS
    <2>9. q \in Seq(Code) /\ d \in Code /\ m = Append(q, d)
      BY <2>1
    <2>10. Ends(Append(q, d), Append(p, c))
      BY <1>1, <1>6, <2>9
    <2>11. d = c /\ Ends(q, p)
      BY ONLY <1>1, <1>4, <2>9, <2>10, EndsAppend
    <2>2. Last(m) = c /\ Ends(Front(m), p)
      BY <2>11
    <2>3. Front(m) # p
      BY <1>1, <1>6, <2>1, <2>2
    <2>4. Ends(Front(m), f[p])
      BY <1>1, <2>1, <2>2, <2>3 DEF Linked, IsLongest
    <2>5. Ends(Front(m), stop)
      BY <1>3, <2>1, <2>2, <2>4 DEF Bases
    <2>6. Ends(m, Append(stop, c))
      <3>1. Ends(q, stop) /\ d = c
        BY <2>2, <2>5
      <3>2. Ends(Append(q, d), Append(stop, c))
        BY ONLY <1>1, <1>4, <2>9, <3>1, EndsAppend
      <3> QED
        BY <2>9, <3>2
    <2>7. Append(stop, c) \in N
      <3> SUFFICES ASSUME stop = <<>> PROVE Append(stop, c) \in N
        BY <1>3
      <3>1. Len(Front(m)) <= 0 /\ Len(Front(m)) \in Nat
        BY <2>1, <2>5 DEF Ends
      <3>2. Front(m) = <<>>
        BY <2>1, <3>1
      <3> QED
        BY <2>1, <2>2, <3>2
    <2> QED
      BY <2>6, <2>7
  <1>7. IsLongest(e, n, N \ {n})
    <2>1. e \in N /\ e \in Seq(Code)
      BY <1>3, <1>4
    <2>2. Ends(e, n) /\ Len(e) < Len(n)
      <3>1. CASE Append(stop, c) \in N
        <4>1. e = Append(stop, c)
          BY <3>1
        <4>2. Ends(e, n) /\ Len(e) = Len(stop) + 1
          BY <1>1, <1>4, <1>5, <4>1, EndsAppend
        <4> QED
          BY <1>1, <1>4, <1>5, <4>2
      <3>2. CASE Append(stop, c) \notin N
        <4>1. e = <<>>
          BY <1>3, <3>2
        <4>2. Ends(<<>>, n) /\ Len(<<>>) = 0
          BY <1>4, EndsItself
        <4>3. Len(n) > 0
          BY <1>1
        <4> QED
          BY <4>1, <4>2, <4>3
      <3> QED
        BY <3>1, <3>2
    <2>3. ASSUME NEW m \in N \ {n}, Ends(m, n) PROVE Ends(m, e)
      BY <1>6, <2>1, <2>3, EndsItself
    <2>4. e # n
      BY <1>1, <2>2
    <2> HIDE DEF e
    <2> QED
      BY <2>1, <2>2, <2>3, <2>4 DEF IsLongest
  <1>8. IsLongest(f[n], n, N \ {n})
    BY <1>1 DEF Linked
  <1>9. f[n] = e
    <2> HIDE DEF e
    <2>1. N \ {n} \subseteq Seq(Code)
      BY <1>4
    <2> QED
      BY <1>4, <1>7, <1>8, <2>1, LongestIsOne
  <1> QED
    BY <1>9 DEF p, c

(* What FailNode says of a node, given the links of the shorter ones.       *)
FailRec(N, h, n) ==
  IF Len(n) <= 1 THEN Root
  ELSE LET c == Last(n)
           dest == CHOOSE dest : Dest(N, h, c, Len(n), dest)
           stop == dest[h[Front(n)]]
       IN  IF Append(stop, c) \in N THEN Append(stop, c) ELSE stop

LEMMA FailRecIsLink ==
  ASSUME NEW N, IsTree(N), NEW f, Linked(N, f), NEW n \in N,
         NEW h, \A d \in Shorter(N, Len(n)) : h[d] = f[d]
  PROVE  FailRec(N, h, n) = f[n]
  <1>1. n \in Seq(Code) /\ Len(n) \in Nat
    BY DEF IsTree
  <1>2. CASE Len(n) <= 1
    <2>1. n = <<>> \/ Len(n) = 1
      BY <1>1, <1>2
    <2>2. ASSUME n # <<>> PROVE f[n] = <<>>
      <3>1. f[n] \in N /\ Len(f[n]) \in Nat /\ Len(f[n]) < Len(n) /\ f[n] \in Seq(Code)
        BY <2>2, LinksAreShorter DEF IsTree
      <3> QED
        BY <1>1, <1>2, <3>1
    <2> QED
      BY <1>2, <2>2 DEF FailRec, Linked, Root
  <1>3. CASE Len(n) > 1
    <2> DEFINE c == Last(n)
               dest == CHOOSE dest : Dest(N, h, c, Len(n), dest)
    <2>1. /\ Front(n) \in N /\ Front(n) # <<>> /\ Len(Front(n)) < Len(n)
          /\ Len(Front(n)) \in Nat
      <3>1. n # <<>>
        BY <1>3
      <3>2. Front(n) \in N /\ Len(Front(n)) = Len(n) - 1
        BY <3>1 DEF IsTree
      <3> QED
        BY <1>1, <1>3, <3>2
    <2>2. h[Front(n)] = f[Front(n)]
      BY <2>1 DEF Shorter
    <2>3. f[Front(n)] \in Shorter(N, Len(n))
      <3>1. /\ f[Front(n)] \in N /\ Len(f[Front(n)]) \in Nat
            /\ Len(f[Front(n)]) < Len(Front(n))
        BY <2>1, LinksAreShorter
      <3> QED
        BY <1>1, <2>1, <3>1 DEF Shorter
    <2>4. IsLongest(dest[f[Front(n)]], f[Front(n)], Bases(N, c))
      BY <1>1, <2>3, DestIsLongest
    <2> HIDE DEF dest
    <2>5. f[n] = IF Append(dest[f[Front(n)]], c) \in N THEN Append(dest[f[Front(n)]], c)
                 ELSE dest[f[Front(n)]]
      BY <1>3, <2>4, ParentLink
    <2>6. ~(Len(n) <= 1)
      BY <1>1, <1>3
    <2> QED
      BY <2>2, <2>5, <2>6 DEF FailRec, dest
  <1> QED
    BY <1>1, <1>2, <1>3

LEMMA FailNodesAreLinks ==
  ASSUME NEW N, IsTree(N) PROVE Linked(N, FailNode(N))
  <1>1. PICK f : Linked(N, f)
    BY LinkedExists
  <1> DEFINE rec(fail) == fail = [n \in N |-> FailRec(N, fail, n)]
             g == CHOOSE fail : rec(fail)
  <1>2. FailNode(N) = g
    BY DEF FailNode, FailRec, Dest, Shorter
  <1>3. rec(f)
    <2>1. \A n \in N : f[n] = FailRec(N, f, n)
      BY <1>1, FailRecIsLink
    <2>2. f = [n \in N |-> f[n]]
      BY <1>1 DEF Linked
    <2> QED
      BY <2>1, <2>2
  <1>4. rec(g)
    BY <1>3
  <1> HIDE DEF g
  <1>5. \A n \in N : Len(n) \in Nat
    BY DEF IsTree
  <1> DEFINE T == {l \in Nat : \A n \in N : Len(n) < l => g[n] = f[n]}
  <1>6. 0 \in T
    BY <1>5
  <1>7. ASSUME NEW l \in Nat, l \in T PROVE l + 1 \in T
    <2> SUFFICES ASSUME NEW n \in N, Len(n) < l + 1 PROVE g[n] = f[n]
      OBVIOUS
    <2>1. \A d \in Shorter(N, Len(n)) : g[d] = f[d]
      BY <1>5, <1>7 DEF Shorter
    <2>2. FailRec(N, g, n) = f[n]
      BY <1>1, <2>1, FailRecIsLink
    <2>3. g[n] = FailRec(N, g, n)
      BY <1>4
    <2> QED
      BY <2>2, <2>3
  <1>8. Nat \subseteq T
    <2> HIDE DEF T
    <2> QED
      BY <1>6, <1>7, Induction
  <1>9. \A n \in N : g[n] = f[n]
    <2> TAKE n \in N
    <2>1. Len(n) + 1 \in T
      BY <1>5, <1>8
    <2> QED
      BY <1>5, <2>1
  <1>10. g = f
    BY <1>1, <1>4, <1>9 DEF Linked
  <1> QED
    BY <1>1, <1>2, <1>10

-----------------------------------------------------------------------------
(* The bytes of a text and the path of its end.                            *)

LEMMA PrefixNext ==
  ASSUME NEW F, NEW t \in Seq(F), NEW e \in 0 .. Len(t)
  PROVE  /\ e < Len(t) => SubSeq(t, 1, e + 1) = Append(SubSeq(t, 1, e), t[e + 1])
         /\ SubSeq(t, 1, Len(t)) = t
         /\ \A k \in 0 .. e : SubSeq(SubSeq(t, 1, e), 1, k) = SubSeq(t, 1, k)
  <1>1. /\ SubSeq(t, 1, e) \in Seq(F) /\ Len(SubSeq(t, 1, e)) = e
        /\ \A i \in 1 .. e : SubSeq(t, 1, e)[i] = t[i]
    BY SubSeqElements
  <1>2. ASSUME e < Len(t)
        PROVE  SubSeq(t, 1, e + 1) = Append(SubSeq(t, 1, e), t[e + 1])
    <2> DEFINE p == SubSeq(t, 1, e)
               q == SubSeq(t, 1, e + 1)
    <2>1. e + 1 \in 0 .. Len(t) /\ t[e + 1] \in F /\ e \in Nat
      BY <1>2
    <2>2. q \in Seq(F) /\ Len(q) = e + 1 /\ \A i \in 1 .. e + 1 : q[i] = t[i]
      BY <2>1, SubSeqElements
    <2> HIDE DEF p, q
    <2>3. p \in Seq(F) /\ Len(p) = e /\ \A i \in 1 .. e : p[i] = t[i]
      BY <1>1 DEF p
    <2> DEFINE m == Append(p, t[e + 1])
    <2>4. /\ m \in Seq(F) /\ Len(m) = e + 1 /\ m[e + 1] = t[e + 1]
          /\ \A i \in 1 .. e : m[i] = t[i]
      BY <2>1, <2>3, Pushed
    <2> HIDE DEF m
    <2>5. \A i \in 1 .. e + 1 : i \in 1 .. e \/ i = e + 1
      BY <2>1
    <2>6. \A i \in 1 .. e + 1 : q[i] = m[i]
      BY <2>2, <2>4, <2>5
    <2>7. q = m
      BY <2>2, <2>4, <2>6, SeqEqual
    <2> QED
      BY <2>7 DEF p, q, m
  <1>3. SubSeq(t, 1, Len(t)) = t
    <2>1. Len(t) \in 0 .. Len(t)
      OBVIOUS
    <2>2. /\ SubSeq(t, 1, Len(t)) \in Seq(F) /\ Len(SubSeq(t, 1, Len(t))) = Len(t)
          /\ \A i \in 1 .. Len(t) : SubSeq(t, 1, Len(t))[i] = t[i]
      BY <2>1, SubSeqElements
    <2> QED
      BY <2>2, SeqEqual
  <1>4. ASSUME NEW k \in 0 .. e PROVE SubSeq(SubSeq(t, 1, e), 1, k) = SubSeq(t, 1, k)
    <2> DEFINE p == SubSeq(t, 1, e)
               q == SubSeq(p, 1, k)
               r == SubSeq(t, 1, k)
    <2>1. k \in 0 .. Len(t) /\ k \in Nat /\ k <= e
      OBVIOUS
    <2>2. r \in Seq(F) /\ Len(r) = k /\ \A i \in 1 .. k : r[i] = t[i]
      BY <2>1, SubSeqElements
    <2> HIDE DEF p, r
    <2>3. p \in Seq(F) /\ Len(p) = e /\ \A i \in 1 .. e : p[i] = t[i]
      BY <1>1 DEF p
    <2>4. q \in Seq(F) /\ Len(q) = k /\ \A i \in 1 .. k : q[i] = p[i]
      BY <2>3, SubSeqElements
    <2> HIDE DEF q
    <2>5. \A i \in 1 .. k : q[i] = r[i]
      BY <2>1, <2>2, <2>3, <2>4
    <2>6. q = r
      BY <2>2, <2>4, <2>5, SeqEqual
    <2> QED
      BY <2>6 DEF p, q, r
  <1> QED
    BY <1>2, <1>3, <1>4

(* The path of a string without Junk has the codes of its characters.       *)
LEMMA CleanPath ==
  ASSUME NEW w \in Seq(Character), Clean(w)
  PROVE  /\ Path(w) \in Seq(Int) /\ Len(Path(w)) = Len(w)
         /\ \A i \in 1 .. Len(w) : Path(w)[i] = w[i].code
  <1>1. PICK f : /\ PathBy(w, f) /\ f[Len(w)] = Path(w)
                 /\ \A i \in 0 .. Len(w) : f[i] \in Seq(Int)
    BY PathLoop
  <1> DEFINE T == {n \in Nat : n <= Len(w) => /\ Len(f[n]) = n
                                              /\ \A i \in 1 .. n : f[n][i] = w[i].code}
  <1>2. 0 \in T
    BY <1>1 DEF PathBy, Root
  <1>3. ASSUME NEW n \in Nat, n \in T PROVE n + 1 \in T
    <2> SUFFICES ASSUME n + 1 <= Len(w)
                 PROVE  /\ Len(f[n + 1]) = n + 1
                        /\ \A i \in 1 .. n + 1 : f[n + 1][i] = w[i].code
      OBVIOUS
    <2>1. /\ n + 1 \in 1 .. Len(w) /\ (n + 1) - 1 = n /\ n \in 0 .. Len(w)
          /\ Len(f[n]) = n /\ \A i \in 1 .. n : f[n][i] = w[i].code
      BY <1>3
    <2>2. w[n + 1] # Junk /\ w[n + 1].code \in Int
      BY <2>1, CharacterTyped DEF Clean
    <2>3. f[n + 1] = Append(f[n], w[n + 1].code)
      BY <1>1, <2>1, <2>2 DEF PathBy
    <2> PICK p, c : p = f[n] /\ c = w[n + 1].code
      OBVIOUS
    <2>4. p \in Seq(Int) /\ c \in Int
      BY <1>1, <2>1, <2>2
    <2>5. /\ Len(Append(p, c)) = Len(p) + 1 /\ Append(p, c)[Len(p) + 1] = c
          /\ \A i \in 1 .. Len(p) : Append(p, c)[i] = p[i]
      BY <2>4, Pushed
    <2>6. \A i \in 1 .. n + 1 : i \in 1 .. n \/ i = n + 1
      OBVIOUS
    <2> QED
      BY <2>1, <2>3, <2>5, <2>6
  <1>4. Nat \subseteq T
    <2> HIDE DEF T
    <2> QED
      BY <1>2, <1>3, Induction
  <1>5. Len(w) \in T /\ Len(w) \in 0 .. Len(w)
    BY <1>4
  <1> QED
    BY <1>1, <1>5

LEMMA BytesGrow ==
  ASSUME NEW t \in Seq(Character), NEW e \in 0 .. Len(t)
  PROVE  /\ Bytes(SubSeq(t, 1, e)) \in Nat
         /\ e < Len(t) => /\ Bytes(SubSeq(t, 1, e + 1)) = Bytes(SubSeq(t, 1, e)) + t[e + 1].width
                          /\ t[e + 1].width \in 1 .. 4
         /\ \A k \in 0 .. e : /\ Bytes(SubSeq(t, 1, k)) \in Nat
                              /\ Bytes(SubSeq(t, 1, k)) <= Bytes(SubSeq(t, 1, e))
  <1>1. \A i \in 0 .. Len(t) : SubSeq(t, 1, i) \in Seq(Character)
    BY SubSeqElements
  <1>2. \A i \in 0 .. Len(t) : Bytes(SubSeq(t, 1, i)) \in Nat
    BY <1>1, BytesStep
  <1>3. ASSUME NEW i \in 0 .. Len(t), i < Len(t)
        PROVE  /\ Bytes(SubSeq(t, 1, i + 1)) = Bytes(SubSeq(t, 1, i)) + t[i + 1].width
               /\ t[i + 1].width \in 1 .. 4
    <2>1. t[i + 1] \in Character
      BY <1>3
    <2>2. SubSeq(t, 1, i + 1) = Append(SubSeq(t, 1, i), t[i + 1])
      BY <1>3, PrefixNext
    <2>3. t[i + 1].width \in 1 .. 4
      BY <2>1, CharacterTyped
    <2> QED
      BY <1>1, <2>1, <2>2, <2>3, BytesStep
  <1> DEFINE T == {n \in Nat : n <= Len(t) =>
                    \A k \in 0 .. n : Bytes(SubSeq(t, 1, k)) <= Bytes(SubSeq(t, 1, n))}
  <1>4. 0 \in T
    <2>1. 0 \in 0 .. Len(t) /\ \A k \in 0 .. 0 : k = 0
      OBVIOUS
    <2> QED
      BY <1>2, <2>1
  <1>5. ASSUME NEW n \in Nat, n \in T PROVE n + 1 \in T
    <2> SUFFICES ASSUME n + 1 <= Len(t), NEW k \in 0 .. n + 1
                 PROVE  Bytes(SubSeq(t, 1, k)) <= Bytes(SubSeq(t, 1, n + 1))
      OBVIOUS
    <2>1. n \in 0 .. Len(t) /\ n < Len(t) /\ k \in 0 .. Len(t) /\ n + 1 \in 0 .. Len(t)
      OBVIOUS
    <2>2. Bytes(SubSeq(t, 1, n)) <= Bytes(SubSeq(t, 1, n + 1))
      <3>1. /\ Bytes(SubSeq(t, 1, n + 1)) = Bytes(SubSeq(t, 1, n)) + t[n + 1].width
            /\ t[n + 1].width \in 1 .. 4 /\ Bytes(SubSeq(t, 1, n)) \in Nat
        BY <1>2, <1>3, <2>1
      <3> QED
        BY ONLY <3>1
    <2>3. CASE k = n + 1
      BY <1>2, <2>1, <2>3
    <2>4. CASE k # n + 1
      <3>1. k \in 0 .. n
        BY <2>4
      <3>2. Bytes(SubSeq(t, 1, k)) <= Bytes(SubSeq(t, 1, n))
        BY <1>5, <2>1, <3>1
      <3> QED
        BY <1>2, <2>1, <2>2, <3>2
    <2> QED
      BY <2>3, <2>4
  <1>6. Nat \subseteq T
    <2> HIDE DEF T
    <2> QED
      BY <1>4, <1>5, Induction
  <1>7. e \in T /\ \A k \in 0 .. e : k \in 0 .. Len(t)
    BY <1>6
  <1> QED
    BY <1>2, <1>3, <1>7

(* A pattern at the end of a text is as long as what it ends.               *)
EndOK(p, r) ==
  /\ Bytes(p) <= Bytes(r)
  /\ Clean(r) => /\ Len(p) <= Len(r)
                 /\ Bytes(SubSeq(r, 1, Len(r) - Len(p))) = Bytes(r) - Bytes(p)

LEMMA EndOfText ==
  ASSUME NEW p \in Seq(Character), Clean(p), NEW r \in Seq(Character), Alike(p, r),
         Ends(Path(p), Path(r))
  PROVE  EndOK(p, r)
  <1> DEFINE T == {l \in Nat : \A q, s \in Seq(Character) :
                     Len(s) = l /\ Clean(q) /\ Alike(q, s) /\ Ends(Path(q), Path(s)) => EndOK(q, s)}
  <1>1. ASSUME NEW s \in Seq(Character) PROVE EndOK(<<>>, s)
    <2>1. Bytes(s) \in Nat /\ Bytes(<<>>) = 0 /\ Len(<<>>) = 0 /\ Len(s) \in Nat
      BY BytesStep
    <2>2. SubSeq(s, 1, Len(s)) = s
      <3>1. 0 \in 0 .. Len(s)
        BY <2>1
      <3> QED
        BY <3>1, PrefixNext
    <2>3. Len(<<>>) <= Len(s) /\ Len(s) - Len(<<>>) = Len(s)
      BY <2>1
    <2>4. Bytes(<<>>) <= Bytes(s) /\ Bytes(s) - Bytes(<<>>) = Bytes(s)
      BY <2>1
    <2>5. Bytes(SubSeq(s, 1, Len(s) - Len(<<>>))) = Bytes(s) - Bytes(<<>>)
      BY ONLY <2>2, <2>3, <2>4
    <2> QED
      BY ONLY <2>3, <2>4, <2>5 DEF EndOK
  <1>2. 0 \in T
    <2> SUFFICES ASSUME NEW q \in Seq(Character), NEW s \in Seq(Character), Len(s) = 0,
                        Clean(q), Ends(Path(q), Path(s))
                 PROVE  EndOK(q, s)
      OBVIOUS
    <2>1. s = <<>> /\ Path(<<>>) = <<>>
      BY PathStep DEF Root
    <2>2. Len(q) = 0
      <3>1. Len(Path(q)) = Len(q) /\ Len(q) \in Nat
        BY CleanPath
      <3>2. Len(Path(q)) <= 0
        BY <2>1 DEF Ends
      <3> QED
        BY <3>1, <3>2
    <2>3. q = <<>>
      BY <2>2
    <2> QED
      BY <1>1, <2>3
  <1>3. ASSUME NEW l \in Nat, l \in T PROVE l + 1 \in T
    <2> SUFFICES ASSUME NEW q \in Seq(Character), NEW s \in Seq(Character), Len(s) = l + 1,
                        Clean(q), Alike(q, s), Ends(Path(q), Path(s))
                 PROVE  EndOK(q, s)
      OBVIOUS
    <2>1. CASE q = <<>>
      BY <1>1, <2>1
    <2>2. CASE q # <<>>
      <3>1. PICK o, d : o \in Seq(Character) /\ d \in Character /\ q = Append(o, d)
        <4>1. /\ Front(q) \in Seq(Character) /\ Last(q) \in Character
              /\ q = Append(Front(q), Last(q))
          BY ONLY <2>2, q \in Seq(Character), TakenApart
        <4> QED
          BY ONLY <4>1
      <3>2. PICK t, c : /\ t \in Seq(Character) /\ c \in Character /\ s = Append(t, c)
                        /\ Len(t) = l
        <4>1. s # <<>>
          OBVIOUS
        <4>2. /\ Front(s) \in Seq(Character) /\ Last(s) \in Character
              /\ s = Append(Front(s), Last(s)) /\ Len(Front(s)) = Len(s) - 1
          BY ONLY <4>1, s \in Seq(Character), TakenApart
        <4>3. Len(s) - 1 = l
          OBVIOUS
        <4> QED
          BY ONLY <4>2, <4>3
      <3>3. /\ Len(q) = Len(o) + 1 /\ Len(o) \in Nat /\ q[Len(q)] = d
            /\ \A i \in 1 .. Len(o) : q[i] = o[i]
        BY <3>1, Pushed
      <3>4. /\ s[Len(s)] = c /\ \A i \in 1 .. Len(t) : s[i] = t[i]
        BY <3>2, Pushed
      <3>5. Bytes(q) = Bytes(o) + d.width /\ Bytes(s) = Bytes(t) + c.width
        BY <3>1, <3>2, BytesStep
      <3>6. /\ Bytes(o) \in Nat /\ Bytes(t) \in Nat /\ d.width \in 1 .. 4 /\ c.width \in 1 .. 4
        BY <3>1, <3>2, BytesStep, CharacterTyped
      <3>7. d # Junk /\ Clean(o)
        <4>1. Len(q) \in DOMAIN q /\ \A i \in DOMAIN o : i \in DOMAIN q /\ q[i] = o[i]
          BY <3>1, <3>3
        <4> QED
          BY <3>3, <4>1 DEF Clean
      <3>8. Alike(q, t) /\ Alike(o, t) /\ (d.code = c.code => d.width = c.width)
        <4>1. /\ \A i \in DOMAIN o : i \in DOMAIN q /\ q[i] = o[i]
              /\ \A j \in DOMAIN t : j \in DOMAIN s /\ s[j] = t[j]
              /\ Len(q) \in DOMAIN q /\ Len(s) \in DOMAIN s
          BY <3>1, <3>2, <3>3, <3>4
        <4>2. Alike(q, t)
          BY <4>1 DEF Alike
        <4>4. Alike(o, t)
          BY ONLY <4>1, <4>2 DEF Alike
        <4>3. q[Len(q)].code = s[Len(s)].code => q[Len(q)].width = s[Len(s)].width
          BY <4>1 DEF Alike
        <4> QED
          BY <3>3, <3>4, <4>2, <4>3, <4>4
      <3>9. CASE c = Junk
        <4>1. Path(s) = Path(t)
          BY <3>2, <3>9, PathStep
        <4>2. EndOK(q, t)
          BY <1>3, <3>2, <3>8, <4>1
        <4>3. ~Clean(s)
          <5>1. Len(s) \in DOMAIN s
            OBVIOUS
          <5> QED
            BY <3>4, <3>9, <5>1 DEF Clean
        <4>4. Bytes(q) <= Bytes(t) /\ Bytes(q) \in Nat
          BY <3>5, <3>6, <4>2 DEF EndOK
        <4>5. Bytes(q) <= Bytes(s)
          BY ONLY <3>5, <3>6, <4>4
        <4> QED
          BY ONLY <4>3, <4>5 DEF EndOK
      <3>10. CASE c # Junk
        <4>1. Path(s) = Append(Path(t), c.code) /\ Path(q) = Append(Path(o), d.code)
          BY <3>1, <3>2, <3>7, <3>10, PathStep
        <4>2. /\ Path(t) \in Seq(Int) /\ Path(o) \in Seq(Int) /\ c.code \in Int /\ d.code \in Int
          BY <3>1, <3>2, PathStep, CharacterTyped
        <4>3. d.code = c.code /\ Ends(Path(o), Path(t))
          <5> PICK a, b, x, y : a = Path(o) /\ b = Path(t) /\ x = d.code /\ y = c.code
            OBVIOUS
          <5>1. a \in Seq(Int) /\ b \in Seq(Int) /\ x \in Int /\ y \in Int
            BY <4>2
          <5>2. Ends(Append(a, x), Append(b, y))
            BY <4>1
          <5>3. x = y /\ Ends(a, b)
            BY ONLY <5>1, <5>2, EndsAppend
          <5> QED
            BY <5>3
        <4>4. EndOK(o, t)
          BY <1>3, <3>1, <3>2, <3>7, <3>8, <4>3
        <4>5. d.width = c.width
          BY <3>8, <4>3
        <4>6. Bytes(q) <= Bytes(s)
          BY <3>5, <3>6, <4>4, <4>5 DEF EndOK
        <4>7. ASSUME Clean(s)
              PROVE  /\ Len(q) <= Len(s)
                     /\ Bytes(SubSeq(s, 1, Len(s) - Len(q))) = Bytes(s) - Bytes(q)
          <5>1. Clean(t)
            BY <3>2, <3>4, <4>7 DEF Clean
          <5>2. /\ Len(o) <= Len(t)
                /\ Bytes(SubSeq(t, 1, Len(t) - Len(o))) = Bytes(t) - Bytes(o)
            BY <4>4, <5>1 DEF EndOK
          <5>3. /\ Len(s) - Len(q) = Len(t) - Len(o) /\ Len(t) - Len(o) \in 0 .. Len(t)
                /\ Len(t) \in 0 .. Len(s) /\ Len(q) <= Len(s)
            BY <3>2, <3>3, <5>2
          <5>4. SubSeq(s, 1, Len(t)) = t
            <6>1. SubSeq(s, 1, Len(t)) \in Seq(Character) /\ Len(SubSeq(s, 1, Len(t))) = Len(t)
                  /\ \A i \in 1 .. Len(t) : SubSeq(s, 1, Len(t))[i] = s[i]
              BY <5>3, SubSeqElements
            <6> QED
              BY <3>2, <3>4, <6>1, SeqEqual
          <5>5. SubSeq(s, 1, Len(t) - Len(o)) = SubSeq(t, 1, Len(t) - Len(o))
            BY <5>3, <5>4, PrefixNext
          <5>6. Bytes(s) - Bytes(q) = Bytes(t) - Bytes(o)
            BY <3>5, <3>6, <4>5
          <5>7. Bytes(SubSeq(s, 1, Len(s) - Len(q))) = Bytes(SubSeq(t, 1, Len(t) - Len(o)))
            BY ONLY <5>3, <5>5
          <5> QED
            BY ONLY <5>2, <5>3, <5>6, <5>7
        <4> QED
          BY <4>6, <4>7 DEF EndOK
      <3> QED
        BY <3>9, <3>10
    <2> QED
      BY <2>1, <2>2
  <1>4. Nat \subseteq T
    <2> HIDE DEF T
    <2> QED
      BY <1>2, <1>3, Induction
  <1>5. Len(r) \in T
    BY <1>4
  <1> QED
    BY <1>5

-----------------------------------------------------------------------------
(* The matched sizes: that of the longest word a node ends with.           *)

LEMMA OwnSizeOfWord ==
  ASSUME NEW ws \in Seq(Seq(Character)), NEW n
  PROVE  /\ OwnSize(ws, n) \in Nat
         /\ \A i \in DOMAIN ws : Path(ws[i]) = n =>
              \E j \in DOMAIN ws : Path(ws[j]) = n /\ OwnSize(ws, n) = Bytes(ws[j])
         /\ OwnSize(ws, n) # 0 =>
              \E j \in DOMAIN ws : Path(ws[j]) = n /\ OwnSize(ws, n) = Bytes(ws[j])
  <1> DEFINE ending == {i \in DOMAIN ws : Path(ws[i]) = n}
  <1>1. CASE ending = {}
    <2>1. OwnSize(ws, n) = 0
      BY <1>1 DEF OwnSize
    <2> QED
      BY <1>1, <2>1
  <1>2. CASE ending # {}
    <2>1. OwnSize(ws, n) = Bytes(ws[Max(ending)])
      BY <1>2 DEF OwnSize
    <2>2. ending \subseteq 0 .. Len(ws) /\ Len(ws) \in Nat
      OBVIOUS
    <2> HIDE DEF ending
    <2>3. PICK m \in ending : \A i \in ending : i <= m
      BY <1>2, <2>2, GreatestElement
    <2>4. \A i \in ending : m >= i
      BY <2>2, <2>3
    <2>5. Max(ending) \in ending
      BY <2>4 DEF Max
    <2>6. /\ Max(ending) \in DOMAIN ws /\ Path(ws[Max(ending)]) = n
          /\ ws[Max(ending)] \in Seq(Character)
      BY <2>5 DEF ending
    <2> QED
      BY <2>1, <2>6, BytesStep
  <1> QED
    BY <1>1, <1>2

LEMMA GreaterOfTwo ==
  ASSUME NEW a \in Nat, NEW b \in Nat
  PROVE  Max({a, b}) = IF a >= b THEN a ELSE b
  BY DEF Max

(* v is the most that a word ending at a suffix of n has for its size.      *)
IsMost(ws, N, v, n) ==
  /\ v \in Nat /\ \E s \in N : Ends(s, n) /\ v = OwnSize(ws, s)
  /\ \A s \in N : Ends(s, n) => OwnSize(ws, s) <= v

AllClean(ws) == \A i \in DOMAIN ws : Clean(ws[i])

LEMMA MostOfRoot ==
  ASSUME NEW ws \in Seq(Seq(Character)), AllClean(ws), NEW N, IsTree(N)
  PROVE  OwnSize(ws, Root) = 0 /\ IsMost(ws, N, 0, Root)
  <1>1. OwnSize(ws, Root) = 0
    <2> SUFFICES ASSUME OwnSize(ws, Root) # 0 PROVE FALSE
      OBVIOUS
    <2>1. PICK j \in DOMAIN ws : Path(ws[j]) = Root /\ OwnSize(ws, Root) = Bytes(ws[j])
      BY OwnSizeOfWord
    <2>2. ws[j] \in Seq(Character) /\ Clean(ws[j])
      BY DEF AllClean
    <2>3. Len(ws[j]) = 0
      <3>1. Len(Path(ws[j])) = Len(ws[j])
        BY <2>2, CleanPath
      <3> QED
        BY <2>1, <3>1 DEF Root
    <2>4. ws[j] = <<>>
      BY <2>2, <2>3
    <2> QED
      BY <2>1, <2>4, BytesStep
  <1>2. ASSUME NEW s \in N, Ends(s, Root) PROVE s = Root
    <2>1. s \in Seq(Code) /\ Len(s) <= 0
      BY <1>2 DEF Ends, IsTree, Root
    <2> QED
      BY <2>1 DEF Root
  <1>3. Root \in N /\ Ends(Root, Root)
    BY DEF IsTree, Ends, Root
  <1> QED
    BY <1>1, <1>2, <1>3 DEF IsMost

LEMMA MostOfNode ==
  ASSUME NEW ws \in Seq(Seq(Character)), NEW N, IsTree(N), NEW f, Linked(N, f),
         NEW n \in N, n # <<>>, NEW v, IsMost(ws, N, v, f[n])
  PROVE  IsMost(ws, N, Max({OwnSize(ws, n), v}), n)
  <1>1. OwnSize(ws, n) \in Nat /\ v \in Nat
    BY OwnSizeOfWord DEF IsMost
  <1> DEFINE m == Max({OwnSize(ws, n), v})
  <1>2. m = IF OwnSize(ws, n) >= v THEN OwnSize(ws, n) ELSE v
    BY <1>1, GreaterOfTwo
  <1> HIDE DEF m
  <1>3. m \in Nat /\ OwnSize(ws, n) <= m /\ v <= m /\ (m = OwnSize(ws, n) \/ m = v)
    BY <1>1, <1>2
  <1>4. /\ f[n] \in N /\ f[n] \in Seq(Code) /\ n \in Seq(Code) /\ Ends(f[n], n)
        /\ \A s \in N \ {n} : Ends(s, n) => Ends(s, f[n])
    BY LinksAreShorter DEF IsTree, Linked, IsLongest
  <1>5. \A s \in N : Ends(s, f[n]) => Ends(s, n)
    BY <1>4, EndsTwice DEF IsTree
  <1>6. Ends(n, n)
    BY <1>4, EndsItself
  <1>7. \E s \in N : Ends(s, n) /\ m = OwnSize(ws, s)
    BY <1>3, <1>5, <1>6 DEF IsMost
  <1>8. ASSUME NEW s \in N, Ends(s, n) PROVE OwnSize(ws, s) <= m
    <2>1. OwnSize(ws, s) \in Nat
      BY OwnSizeOfWord
    <2>2. CASE s = n
      BY <1>3, <2>2
    <2>3. CASE s # n
      <3>1. OwnSize(ws, s) <= v
        BY <1>4, <1>8, <2>3 DEF IsMost
      <3> QED
        BY <1>1, <1>3, <2>1, <3>1
    <2> QED
      BY <2>2, <2>3
  <1> QED
    BY <1>3, <1>7, <1>8 DEF IsMost, m

MatchedRec(ws, f, matched, n) ==
  IF Len(n) <= 1 THEN OwnSize(ws, n) ELSE Max({OwnSize(ws, n), matched[f[n]]})

(* One step of the breadth-first pass.                                     *)
LEMMA MatchedRecIsMost ==
  ASSUME NEW ws \in Seq(Seq(Character)), AllClean(ws), NEW N, IsTree(N),
         NEW f, Linked(N, f), NEW n \in N,
         NEW h, \A d \in N : Len(d) < Len(n) => IsMost(ws, N, h[d], d)
  PROVE  IsMost(ws, N, MatchedRec(ws, f, h, n), n)
  <1>1. n \in Seq(Code) /\ Len(n) \in Nat
    BY DEF IsTree
  <1>2. CASE n = Root
    <2>1. Len(n) <= 1
      BY <1>2 DEF Root
    <2> QED
      BY <1>2, <2>1, MostOfRoot DEF MatchedRec
  <1>3. CASE n # Root
    <2>1. /\ f[n] \in N /\ Len(f[n]) \in Nat /\ Len(f[n]) < Len(n) /\ f[n] \in Seq(Code)
      BY <1>3, LinksAreShorter DEF IsTree, Root
    <2>2. CASE Len(n) <= 1
      <3>1. f[n] = Root
        BY <1>1, <2>1, <2>2 DEF Root
      <3>2. IsMost(ws, N, 0, f[n])
        BY <3>1, MostOfRoot
      <3>3. Max({OwnSize(ws, n), 0}) = OwnSize(ws, n)
        BY OwnSizeOfWord, GreaterOfTwo
      <3>4. IsMost(ws, N, Max({OwnSize(ws, n), 0}), n)
        BY <1>3, <3>2, MostOfNode DEF Root
      <3> QED
        BY <2>2, <3>3, <3>4 DEF MatchedRec
    <2>3. CASE ~(Len(n) <= 1)
      <3>1. IsMost(ws, N, h[f[n]], f[n])
        BY <2>1
      <3>2. IsMost(ws, N, Max({OwnSize(ws, n), h[f[n]]}), n)
        BY <1>3, <3>1, MostOfNode DEF Root
      <3> QED
        BY <2>3, <3>2 DEF MatchedRec
    <2> QED
      BY <2>2, <2>3
  <1> QED
    BY <1>2, <1>3

(* The size a match at a node reports is that of the longest word a suffix  *)
(* of the node's path spells.                                              *)
LEMMA MatchedSizeIsMost ==
  ASSUME NEW ws \in Seq(Seq(Character)), AllClean(ws), NEW N, IsTree(N)
  PROVE  \A n \in N : IsMost(ws, N, MatchedSize(ws, N)[n], n)
  <1> DEFINE f == FailNode(N)
             rec(matched) == matched = [n \in N |->
                IF Len(n) <= 1 THEN OwnSize(ws, n)
                ELSE Max({OwnSize(ws, n), matched[f[n]]})]
             g == CHOOSE matched : rec(matched)
  <1>1. Linked(N, f)
    BY FailNodesAreLinks
  <1>2. MatchedSize(ws, N) = g
    BY DEF MatchedSize
  <1> HIDE DEF f
  <1>3. \A n \in N : Len(n) \in Nat
    BY DEF IsTree
  <1> DEFINE most == [n \in N |-> CHOOSE v : IsMost(ws, N, v, n)]
  <1>4. \A n \in N : \A v, w : IsMost(ws, N, v, n) /\ IsMost(ws, N, w, n) => v = w
    BY DEF IsMost
  <1>5. \A n \in N : IsMost(ws, N, most[n], n)
    <2> DEFINE T == {l \in Nat : \A n \in N : Len(n) < l => IsMost(ws, N, most[n], n)}
    <2>1. 0 \in T
      BY <1>3
    <2>2. ASSUME NEW l \in Nat, l \in T PROVE l + 1 \in T
      <3> SUFFICES ASSUME NEW n \in N, Len(n) < l + 1 PROVE IsMost(ws, N, most[n], n)
        OBVIOUS
      <3>1. \A d \in N : Len(d) < Len(n) => IsMost(ws, N, most[d], d)
        BY <1>3, <2>2
      <3>2. IsMost(ws, N, MatchedRec(ws, f, most, n), n)
        <4> HIDE DEF most
        <4> QED
          BY <1>1, <3>1, MatchedRecIsMost
      <3> QED
        BY <3>2
    <2>3. Nat \subseteq T
      <3> HIDE DEF T
      <3> QED
        BY <2>1, <2>2, Induction
    <2> QED
      <3> TAKE n \in N
      <3>1. Len(n) + 1 \in T
        BY <1>3, <2>3
      <3> QED
        BY <1>3, <3>1
  <1>6. rec(most)
    <2>1. ASSUME NEW n \in N PROVE most[n] = MatchedRec(ws, f, most, n)
      <3> HIDE DEF most
      <3>1. IsMost(ws, N, MatchedRec(ws, f, most, n), n)
        BY <1>1, <1>5, MatchedRecIsMost
      <3> QED
        BY <1>4, <1>5, <3>1
    <2>2. most = [n \in N |-> most[n]]
      OBVIOUS
    <2> HIDE DEF most
    <2> QED
      BY <2>1, <2>2 DEF MatchedRec
  <1>7. rec(g)
    BY <1>6
  <1> HIDE DEF g, most
  <1>8. \A n \in N : g[n] = MatchedRec(ws, f, g, n)
    BY <1>7 DEF MatchedRec
  <1> DEFINE T == {l \in Nat : \A n \in N : Len(n) < l => IsMost(ws, N, g[n], n)}
  <1>9. 0 \in T
    BY <1>3
  <1>10. ASSUME NEW l \in Nat, l \in T PROVE l + 1 \in T
    <2> SUFFICES ASSUME NEW n \in N, Len(n) < l + 1 PROVE IsMost(ws, N, g[n], n)
      OBVIOUS
    <2>1. \A d \in N : Len(d) < Len(n) => IsMost(ws, N, g[d], d)
      BY <1>3, <1>10
    <2>2. IsMost(ws, N, MatchedRec(ws, f, g, n), n)
      BY <1>1, <2>1, MatchedRecIsMost
    <2> QED
      BY <1>8, <2>2
  <1>11. Nat \subseteq T
    <2> HIDE DEF T
    <2> QED
      BY <1>9, <1>10, Induction
  <1>12. ASSUME NEW n \in N PROVE IsMost(ws, N, g[n], n)
    <2>1. Len(n) + 1 \in T
      BY <1>3, <1>11
    <2> QED
      BY <1>3, <2>1
  <1> QED
    BY <1>2, <1>12

(* A word occurs where its path ends that of the text before.               *)
LEMMA OccursIsEnd ==
  ASSUME NEW p \in Seq(Character), Clean(p), NEW t \in Seq(Character), Clean(t),
         NEW e \in 0 .. Len(t)
  PROVE  Path(p) # Root /\ Ends(Path(p), Path(SubSeq(t, 1, e)))
           <=> Len(p) <= e /\ Occurs(p, t, e - Len(p))
  <1> DEFINE r == SubSeq(t, 1, e)
  <1>1. r \in Seq(Character) /\ Len(r) = e /\ \A i \in 1 .. e : r[i] = t[i]
    BY SubSeqElements
  <1>2. Clean(r)
    BY <1>1 DEF Clean
  <1> HIDE DEF r
  <1>3. /\ Path(p) \in Seq(Int) /\ Len(Path(p)) = Len(p) /\ Len(p) \in Nat
        /\ \A i \in 1 .. Len(p) : Path(p)[i] = p[i].code
    BY CleanPath
  <1>4. /\ Path(r) \in Seq(Int) /\ Len(Path(r)) = e
        /\ \A i \in 1 .. e : Path(r)[i] = t[i].code
    BY <1>1, <1>2, CleanPath
  <1>5. ASSUME Len(p) <= e, NEW i \in 1 .. Len(p)
        PROVE  Path(p)[i] = Path(r)[e - Len(p) + i] <=> t[e - Len(p) + i].code = p[i].code
    <2>1. e - Len(p) + i \in 1 .. e
      BY <1>3, <1>5
    <2> QED
      BY <1>3, <1>4, <2>1
  <1>6. Ends(Path(p), Path(r)) <=>
          Len(p) <= e /\ \A i \in 1 .. Len(p) : t[e - Len(p) + i].code = p[i].code
    BY <1>3, <1>4, <1>5 DEF Ends
  <1>7. /\ DOMAIN p = 1 .. Len(p) /\ (e - Len(p)) + Len(p) <= Len(t)
    BY <1>3
  <1> QED
    BY <1>6, <1>7 DEF Occurs, Root, r

(* What was said of the words holds of the longest node the text ends with. *)
OneWidth(ws, t) == \A i \in DOMAIN ws : Alike(ws[i], t)

LEMMA AlikeBefore ==
  ASSUME NEW p, NEW t, NEW r, Alike(p, t), \A j \in DOMAIN r : j \in DOMAIN t /\ r[j] = t[j]
  PROVE  Alike(p, r)
  <1> SUFFICES ASSUME NEW i \in DOMAIN p, NEW j \in DOMAIN r, p[i].code = r[j].code
               PROVE  p[i].width = r[j].width
    BY DEF Alike
  <1>1. j \in DOMAIN t /\ r[j] = t[j]
    OBVIOUS
  <1>2. p[i].code = t[j].code
    BY <1>1
  <1>3. p[i].width = t[j].width
    BY <1>1, <1>2 DEF Alike
  <1> QED
    BY <1>1, <1>3

Holds(ws, N) == \A i \in DOMAIN ws : Path(ws[i]) \in N

LEMMA SizeOfMatch ==
  ASSUME NEW ws \in Seq(Seq(Character)), AllClean(ws), NEW N, IsTree(N), Holds(ws, N),
         NEW t \in Seq(Character), OneWidth(ws, t), NEW e \in 0 .. Len(t),
         NEW n \in N, Ends(n, Path(SubSeq(t, 1, e)))
  PROVE  /\ MatchedSize(ws, N)[n] \in Nat
         /\ MatchedSize(ws, N)[n] <= Bytes(SubSeq(t, 1, e))
         /\ MatchedSize(ws, N)[n] # 0 =>
              \E j \in DOMAIN ws : /\ Path(ws[j]) # Root
                                   /\ Ends(Path(ws[j]), Path(SubSeq(t, 1, e)))
                                   /\ MatchedSize(ws, N)[n] = Bytes(ws[j])
  <1> DEFINE r == SubSeq(t, 1, e)
             size == MatchedSize(ws, N)[n]
  <1>1. r \in Seq(Character) /\ Len(r) = e /\ \A i \in 1 .. e : r[i] = t[i]
    BY SubSeqElements
  <1> HIDE DEF r, size
  <1>2. IsMost(ws, N, size, n)
    BY MatchedSizeIsMost DEF size
  <1>3. PICK s \in N : Ends(s, n) /\ size = OwnSize(ws, s)
    BY <1>2 DEF IsMost
  <1>4. size \in Nat /\ Bytes(r) \in Nat
    BY <1>1, <1>2, BytesStep DEF IsMost
  <1>5. ASSUME size # 0
        PROVE  /\ size <= Bytes(r)
               /\ \E j \in DOMAIN ws : /\ Path(ws[j]) # Root /\ Ends(Path(ws[j]), Path(r))
                                       /\ size = Bytes(ws[j])
    <2>1. PICK j \in DOMAIN ws : Path(ws[j]) = s /\ size = Bytes(ws[j])
      BY <1>3, <1>5, OwnSizeOfWord
    <2>2. s # Root
      BY <1>3, <1>5, MostOfRoot
    <2>3. Ends(s, Path(r))
      <3>1. s \in Seq(Int) /\ n \in Seq(Int) /\ Path(r) \in Seq(Int)
        <4>1. s \in Seq(Code) /\ n \in Seq(Code)
          BY DEF IsTree
        <4>2. \A x \in Seq(Code) : x \in Seq(Int)
          BY CodesAreNumbers
        <4> QED
          BY <1>1, <4>1, <4>2, PathStep
      <3>2. Ends(n, Path(r))
        BY DEF r
      <3> QED
        BY <1>3, <3>1, <3>2, EndsTwice
    <2>4. ws[j] \in Seq(Character) /\ Clean(ws[j]) /\ Alike(ws[j], r)
      <3>1. ws[j] \in Seq(Character) /\ Clean(ws[j]) /\ Alike(ws[j], t)
        BY DEF AllClean, OneWidth
      <3>2. \A i \in DOMAIN r : i \in DOMAIN t /\ r[i] = t[i]
        BY <1>1
      <3> QED
        BY <3>1, <3>2, AlikeBefore
    <2>5. EndOK(ws[j], r)
      BY <1>1, <2>1, <2>3, <2>4, EndOfText
    <2> QED
      BY <2>1, <2>2, <2>3, <2>5 DEF EndOK
  <1> QED
    BY <1>4, <1>5 DEF r, size

LEMMA BytesOfMatch ==
  ASSUME NEW ws \in Seq(Seq(Character)), AllClean(ws), NEW N, IsTree(N), Holds(ws, N),
         NEW t \in Seq(Character), Clean(t), OneWidth(ws, t), NEW e \in 0 .. Len(t),
         NEW n \in N, Ends(n, Path(SubSeq(t, 1, e))),
         \A m \in N : Ends(m, Path(SubSeq(t, 1, e))) => Ends(m, n),
         NEW x \in Int
  PROVE  EndHere(ws, t, e, x)
           <=> x \in Bytes(SubSeq(t, 1, e)) - MatchedSize(ws, N)[n] .. Bytes(SubSeq(t, 1, e)) - 1
  <1> DEFINE r == SubSeq(t, 1, e)
             size == MatchedSize(ws, N)[n]
  <1>1. /\ r \in Seq(Character) /\ Len(r) = e /\ \A i \in 1 .. e : r[i] = t[i]
        /\ Bytes(r) \in Nat
    BY SubSeqElements, BytesStep
  <1>2. Clean(r)
    BY <1>1 DEF Clean
  <1>3. size \in Nat
    BY SizeOfMatch
  <1>4. \A i \in DOMAIN ws : /\ ws[i] \in Seq(Character) /\ Clean(ws[i]) /\ Alike(ws[i], r)
                             /\ Len(ws[i]) \in Nat /\ Bytes(ws[i]) \in Nat
    <2> SUFFICES ASSUME NEW i \in DOMAIN ws
                 PROVE  /\ ws[i] \in Seq(Character) /\ Clean(ws[i]) /\ Alike(ws[i], r)
                        /\ Len(ws[i]) \in Nat /\ Bytes(ws[i]) \in Nat
      OBVIOUS
    <2>1. ws[i] \in Seq(Character) /\ Clean(ws[i]) /\ Alike(ws[i], t)
      BY DEF AllClean, OneWidth
    <2> HIDE DEF r
    <2>2. \A j \in DOMAIN r : j \in DOMAIN t /\ r[j] = t[j]
      BY <1>1
    <2> QED
      BY <2>1, <2>2, BytesStep, AlikeBefore
  <1>5. ASSUME NEW i \in DOMAIN ws, Ends(Path(ws[i]), Path(r))
        PROVE  /\ Len(ws[i]) <= e
               /\ Bytes(SubSeq(t, 1, e - Len(ws[i]))) = Bytes(r) - Bytes(ws[i])
    <2>1. EndOK(ws[i], r)
      <3> HIDE DEF r
      <3> QED
        BY <1>1, <1>4, <1>5, EndOfText
    <2>2. /\ Len(ws[i]) <= e
          /\ Bytes(SubSeq(r, 1, e - Len(ws[i]))) = Bytes(r) - Bytes(ws[i])
      <3> HIDE DEF r
      <3> QED
        BY <1>1, <1>2, <2>1 DEF EndOK
    <2>3. e - Len(ws[i]) \in 0 .. e
      BY <1>4, <2>2
    <2>4. SubSeq(r, 1, e - Len(ws[i])) = SubSeq(t, 1, e - Len(ws[i]))
      BY <2>3, PrefixNext
    <2> QED
      BY ONLY <2>2, <2>4
  <1>6. ASSUME NEW i \in DOMAIN ws
        PROVE  Path(ws[i]) # Root /\ Ends(Path(ws[i]), Path(r))
                 <=> Len(ws[i]) <= e /\ Occurs(ws[i], t, e - Len(ws[i]))
    BY <1>4, OccursIsEnd
  <1> HIDE DEF r, size
  <1>7. ASSUME EndHere(ws, t, e, x) PROVE x \in Bytes(r) - size .. Bytes(r) - 1
    <2>1. PICK i \in DOMAIN ws :
            /\ Len(ws[i]) <= e /\ Occurs(ws[i], t, e - Len(ws[i]))
            /\ Bytes(SubSeq(t, 1, e - Len(ws[i]))) <= x /\ x < Bytes(r)
      BY <1>7 DEF EndHere, r
    <2>2. Path(ws[i]) # Root /\ Ends(Path(ws[i]), Path(r))
      BY <1>6, <2>1
    <2>3. Path(ws[i]) \in N /\ Ends(Path(ws[i]), n)
      BY <2>2 DEF Holds, r
    <2>4. OwnSize(ws, Path(ws[i])) <= size
      BY <2>3, MatchedSizeIsMost DEF IsMost, size
    <2>5. PICK j \in DOMAIN ws : /\ Path(ws[j]) = Path(ws[i])
                                 /\ OwnSize(ws, Path(ws[i])) = Bytes(ws[j])
      BY OwnSizeOfWord
    <2>6. Len(ws[j]) = Len(ws[i])
      BY <1>4, <2>5, CleanPath
    <2>7. Bytes(ws[j]) = Bytes(ws[i])
      <3>1. /\ Bytes(SubSeq(t, 1, e - Len(ws[i]))) = Bytes(r) - Bytes(ws[i])
            /\ Bytes(SubSeq(t, 1, e - Len(ws[j]))) = Bytes(r) - Bytes(ws[j])
        BY <1>5, <2>2, <2>5
      <3> QED
        BY <1>1, <1>4, <2>6, <3>1
    <2>8. Bytes(r) - Bytes(ws[i]) <= x
      BY <1>5, <2>1, <2>2
    <2> QED
      BY <1>1, <1>3, <1>4, <2>1, <2>4, <2>5, <2>7, <2>8
  <1>8. ASSUME x \in Bytes(r) - size .. Bytes(r) - 1 PROVE EndHere(ws, t, e, x)
    <2>1. size # 0
      BY <1>1, <1>3, <1>8
    <2>2. PICK j \in DOMAIN ws : /\ Path(ws[j]) # Root /\ Ends(Path(ws[j]), Path(r))
                                 /\ size = Bytes(ws[j])
      BY <2>1, SizeOfMatch DEF r, size
    <2>3. Len(ws[j]) <= e /\ Occurs(ws[j], t, e - Len(ws[j]))
      BY <1>6, <2>2
    <2>4. Bytes(SubSeq(t, 1, e - Len(ws[j]))) = Bytes(r) - size
      BY <1>5, <2>2
    <2>5. Bytes(SubSeq(t, 1, e - Len(ws[j]))) <= x /\ x < Bytes(r)
      BY <1>1, <1>3, <1>8, <2>4
    <2> QED
      BY <2>3, <2>5 DEF EndHere, r
  <1> QED
    BY <1>7, <1>8 DEF r, size

-----------------------------------------------------------------------------
(* The matches of a search.                                                *)

(* x is a byte of a match.                                                 *)
InMatch(m, x) == m.index <= x /\ x < m.index + m.size

LEMMA SizeTIsSmall ==
  /\ Wrap \in Nat \ {0}
  /\ \A n \in 0 .. Wrap - 1 : SizeT(n) = n
  <1>1. Wrap \in Nat \ {0}
    BY SMTT(10) DEF Wrap
  <1>2. \A n \in 0 .. Wrap - 1 : n % Wrap = n
    BY <1>1, SMTT(20)
  <1> QED
    BY <1>1, <1>2, SMTT(10) DEF SizeT

LEMMA MatchesOfAppend ==
  ASSUME NEW found \in Seq(Match), NEW m \in Match, NEW x
  PROVE  InMatches(Append(found, m), x) <=> InMatches(found, x) \/ InMatch(m, x)
  <1> DEFINE g == Append(found, m)
  <1>1. /\ g \in Seq(Match) /\ Len(g) = Len(found) + 1 /\ g[Len(found) + 1] = m
        /\ \A i \in 1 .. Len(found) : g[i] = found[i]
    BY Pushed
  <1> HIDE DEF g
  <1>2. /\ DOMAIN g = 1 .. Len(found) + 1 /\ DOMAIN found = 1 .. Len(found)
        /\ \A i \in 1 .. Len(found) + 1 : i \in 1 .. Len(found) \/ i = Len(found) + 1
        /\ \A i \in 1 .. Len(found) : i \in 1 .. Len(found) + 1
        /\ Len(found) + 1 \in 1 .. Len(found) + 1
    BY <1>1
  <1>3. InMatches(g, x) <=> InMatches(found, x) \/ InMatch(m, x)
    BY <1>1, <1>2 DEF InMatches, InMatch
  <1> QED
    BY <1>3 DEF g

(* A match that replaces the one before it covers that one.                 *)
LEMMA RecordedKeeps ==
  ASSUME NEW found \in Seq(Match), NEW here \in Nat, NEW width \in 1 .. 4,
         NEW size \in 1 .. here + width, here + width <= Wrap,
         \A i \in DOMAIN found : found[i].index + found[i].size <= here
  PROVE  LET g == Recorded(found, here, width, size)
         IN  /\ g \in Seq(Match)
             /\ \A i \in DOMAIN g : g[i].index + g[i].size <= here + width
             /\ \A x \in Int : InMatches(g, x) <=> \/ InMatches(found, x)
                                                   \/ x \in here + width - size .. here + width - 1
  <1> DEFINE new   == [index |-> Start(here, width, size), size |-> size]
             front == Last(found)
             g     == Recorded(found, here, width, size)
  <1>1. Start(here, width, size) = here + width - size
    <2>1. here + (width - 1) - (size - 1) = here + width - size
      OBVIOUS
    <2>2. here + width - size \in 0 .. Wrap - 1
      BY SizeTIsSmall
    <2> QED
      BY <2>1, <2>2, SizeTIsSmall DEF Start
  <1>2. /\ new \in Match /\ new.index = here + width - size /\ new.size = size
        /\ new.index + new.size = here + width
    BY <1>1 DEF Match
  <1>3. \A x \in Int : InMatch(new, x) <=> x \in here + width - size .. here + width - 1
    BY <1>2 DEF InMatch
  <1>4. g = IF /\ found # <<>>
               /\ new.index <= front.index
               /\ here >= SizeT(front.index + front.size - 1)
              THEN Append(Front(found), new) ELSE Append(found, new)
    BY DEF Recorded
  <1> HIDE DEF new, front, g
  <1>5. ASSUME NEW s \in Seq(Match), g = Append(s, new),
               \A i \in DOMAIN s : s[i].index + s[i].size <= here
        PROVE  /\ g \in Seq(Match)
               /\ \A i \in DOMAIN g : g[i].index + g[i].size <= here + width
    <2>1. /\ g \in Seq(Match) /\ Len(g) = Len(s) + 1 /\ g[Len(s) + 1] = new
          /\ \A i \in 1 .. Len(s) : g[i] = s[i]
      BY <1>2, <1>5, Pushed
    <2>2. ASSUME NEW i \in 1 .. Len(s) + 1 PROVE g[i].index + g[i].size <= here + width
      <3>1. CASE i = Len(s) + 1
        BY <1>2, <2>1, <3>1
      <3>2. CASE i # Len(s) + 1
        <4>1. i \in DOMAIN s /\ g[i] = s[i] /\ s[i] \in Match
          BY <2>1, <3>2
        <4>2. s[i].index + s[i].size <= here /\ s[i].index + s[i].size \in Nat
          BY <1>5, <4>1 DEF Match
        <4> QED
          BY <4>1, <4>2
      <3> QED
        BY <3>1, <3>2
    <2> QED
      BY <2>1, <2>2
  <1>6. CASE g = Append(found, new)
    <2>1. \A x : InMatches(g, x) <=> InMatches(found, x) \/ InMatch(new, x)
      BY <1>2, <1>6, MatchesOfAppend
    <2>2. \A x \in Int : InMatches(g, x) <=> \/ InMatches(found, x)
                                             \/ x \in here + width - size .. here + width - 1
      BY <1>3, <2>1
    <2> QED
      BY <1>5, <1>6, <2>2 DEF g
  <1>7. CASE g # Append(found, new)
    <2>1. /\ found # <<>> /\ new.index <= front.index /\ g = Append(Front(found), new)
      BY <1>4, <1>7
    <2>2. /\ Front(found) \in Seq(Match) /\ front \in Match /\ found = Append(Front(found), front)
          /\ Len(found) \in Nat \ {0} /\ Len(Front(found)) = Len(found) - 1
          /\ front = found[Len(found)]
          /\ \A i \in 1 .. Len(found) - 1 : Front(found)[i] = found[i]
      BY <2>1, TakenApart, TopElement DEF front
    <2> PICK s : s = Front(found)
      OBVIOUS
    <2>3. s \in Seq(Match) /\ found = Append(s, front) /\ g = Append(s, new)
      BY <2>1, <2>2
    <2>4. \A i \in DOMAIN s : s[i].index + s[i].size <= here
      <3> SUFFICES ASSUME NEW i \in DOMAIN s PROVE s[i].index + s[i].size <= here
        OBVIOUS
      <3>1. i \in 1 .. Len(found) - 1 /\ i \in DOMAIN found /\ s[i] = found[i]
        BY <2>2
      <3> QED
        BY <3>1
    <2>5. front.index + front.size <= here /\ front.index \in Nat /\ front.size \in Nat
      <3>1. Len(found) \in DOMAIN found
        BY <2>2
      <3> QED
        BY <2>2, <3>1 DEF Match
    <2>6. ASSUME NEW x \in Int, InMatch(front, x) PROVE InMatch(new, x)
      BY <1>2, <2>1, <2>5, <2>6 DEF InMatch
    <2>7. \A x : /\ InMatches(g, x) <=> InMatches(s, x) \/ InMatch(new, x)
                 /\ InMatches(found, x) <=> InMatches(s, x) \/ InMatch(front, x)
      BY <1>2, <2>2, <2>3, MatchesOfAppend
    <2>8. \A x \in Int : InMatches(g, x) <=> \/ InMatches(found, x)
                                             \/ x \in here + width - size .. here + width - 1
      BY <1>3, <2>6, <2>7
    <2> QED
      BY <1>5, <2>3, <2>4, <2>8 DEF g
  <1> QED
    BY <1>6, <1>7

-----------------------------------------------------------------------------
(* The sizes are where the nodes are (OutputsInv).                         *)

LEMMA InitOutputs == Init => OutputsInv
  <1> SUFFICES ASSUME Init PROVE OutputsWritten
    BY DEF OutputsInv
  <1>1. PICK cap \in Grown(0) :
          /\ capacity = cap /\ output = Zeros(cap)
          /\ check = [Zeros(cap) EXCEPT ![k_root_index_] = 1]
    BY DEF Init
  <1>2. words = <<>> /\ nodes = {Root}
    BY DEF Init
  <1>3. cap \in Nat /\ cap >= 2
    BY GrownIsLarger
  <1>4. DOMAIN output = Slots /\ output[k_root_index_] = 0 /\ check[k_root_index_] = k_root_index_
    BY <1>1, <1>3 DEF Slots, Zeros, k_root_index_
  <1>5. DOMAIN words = {} /\ NodesOf(words) = {Root}
    BY <1>2 DEF NodesOf
  <1> QED
    BY <1>2, <1>4, <1>5 DEF OutputsWritten

LEMMA OutputsKept ==
  ASSUME OutputsInv, UNCHANGED <<capacity, check, output, words, nodes, slot, damage>>
  PROVE  OutputsInv'
  BY DEF OutputsInv, OutputsWritten, Undamaged, Slots

LEMMA RebuildOutputs ==
  ASSUME LayoutInv, NEW ws \in Dictionaries, Rebuild(ws)
  PROVE  OutputsInv'
  <1>1. /\ \A i \in DOMAIN ws : ~Unsupported(ws[i])
        /\ output' = Zeros(capacity)
        /\ check' = [Zeros(capacity) EXCEPT ![k_root_index_] = 1]
        /\ words' = ws /\ nodes' = NodesOf(ws)
        /\ slot' = [[n \in nodes' |-> 0] EXCEPT ![Root] = k_root_index_]
        /\ capacity' = capacity
    BY DEF Rebuild, Erase
  <1>2. capacity \in Nat /\ capacity >= 2
    BY SizesAssumption DEF LayoutInv, ArraysShaped
  <1>3. \A n \in nodes' \ {Root} : slot'[n] = 0
    BY <1>1
  <1>4. /\ (DOMAIN output = Slots)' /\ output'[k_root_index_] = 0
        /\ check'[k_root_index_] = k_root_index_
    BY <1>1, <1>2 DEF Slots, Zeros, k_root_index_
  <1> QED
    BY <1>1, <1>3, <1>4 DEF OutputsInv, OutputsWritten

LEMMA ReserveOutputs ==
  ASSUME LayoutInv, OutputsInv, Reserve
  PROVE  OutputsInv'
  <1> SUFFICES ASSUME Undamaged' PROVE OutputsWritten'
    BY DEF OutputsInv
  <1>1. PICK cap \in Grown(capacity) :
          /\ capacity' = cap
          /\ output' = Extended(output, cap) /\ check' = Extended(check, cap)
    BY DEF Reserve
  <1>2. UNCHANGED <<words, nodes, slot, damage>>
    BY DEF Reserve, pointers
  <1>3. OutputsWritten
    BY <1>2 DEF OutputsInv, Undamaged
  <1>4. /\ capacity \in Nat /\ capacity >= 2 /\ cap \in Nat /\ cap > capacity
        /\ check \in [Slots -> Slots] /\ slot \in [nodes -> Slots] /\ Slots = 0 .. capacity - 1
    <2>1. /\ capacity \in Nat /\ capacity > MaxCode
          /\ check \in [Slots -> Slots] /\ slot \in [nodes -> Slots]
      BY DEF LayoutInv, ArraysShaped
    <2>2. capacity >= 2
      BY <2>1, SizesAssumption
    <2>3. cap \in Nat /\ cap > capacity
      BY <2>1, GrownIsLarger
    <2> QED
      BY <2>1, <2>2, <2>3 DEF Slots
  <1>5. /\ (DOMAIN output = Slots)'
        /\ \A s \in Slots : output'[s] = output[s] /\ check'[s] = check[s]
    BY <1>1, <1>3, <1>4 DEF Slots, Extended, OutputsWritten
  <1>6. k_root_index_ \in Slots
    BY <1>4 DEF k_root_index_
  <1>7. \A n \in nodes : slot[n] \in Slots
    BY <1>4
  <1> QED
    BY <1>2, <1>3, <1>5, <1>6, <1>7 DEF OutputsWritten

(* A child takes its size with its slot.                                   *)
LEMMA PlaceOutputs ==
  ASSUME LayoutInv, BuildInv, OutputsInv, pc \in {"dense", "chain"}, NEW b, FitsAt(b), Place(b)
  PROVE  OutputsInv'
  <1> SUFFICES ASSUME Undamaged' PROVE OutputsWritten'
    BY DEF OutputsInv
  <1> PICK node, vec, at, matched :
        /\ node = Frame.node /\ vec = Frame.vec /\ at = Index
        /\ matched = MatchedSize(words, nodes)
    OBVIOUS
  <1> DEFINE took == {b + vec[i] : i \in DOMAIN vec}
             isChild(n) == \E i \in DOMAIN vec : n = Append(node, vec[i])
  <1>1. /\ check' = [s \in Slots |-> IF s \in took THEN at ELSE check[s]]
        /\ output' = [s \in Slots |-> IF s \in took THEN matched[Append(node, s - b)]
                                      ELSE output[s]]
        /\ slot' = [n \in nodes |-> IF isChild(n) THEN b + Last(n) ELSE slot[n]]
        /\ UNCHANGED <<capacity, words, nodes, damage>>
    BY DEF Place, pointers
  <1> HIDE DEF took, isChild
  <1>2. Undamaged /\ Choosing
    BY <1>1 DEF Undamaged, Choosing
  <1>3. /\ OutputsWritten /\ PrefixesAreNodes /\ SlotsAreNodes
        /\ \A n \in nodes : slot[n] # 0 => check[slot[n]] # 0
        /\ slot \in [nodes -> Slots] /\ Slots' = Slots
    BY <1>1, <1>2, Undisturbed
    DEF OutputsInv, BuildInv, LayoutInv, PlacedApart, ArraysShaped, Slots
  <1>4. stack # <<>> /\ node \in Seq(Code) /\ vec \in Seq(Code)
    <2>1. stack # <<>>
      BY <1>2 DEF LayoutInv, VecReady
    <2> QED
      BY <2>1, TopFrame
  <1>5. \A s \in took : s \in Slots /\ check[s] = 0
    BY DEF took, FitsAt, Empty
  <1>6. ASSUME NEW n \in nodes, slot[n] # 0, ~isChild(n)
        PROVE  /\ slot'[n] = slot[n] /\ output'[slot[n]] = output[slot[n]]
               /\ check'[slot[n]] = check[slot[n]]
    BY <1>1, <1>3, <1>5, <1>6
  <1>7. ASSUME NEW n \in nodes, isChild(n)
        PROVE  n # Root /\ output'[slot'[n]] = matched[n]
    <2>1. PICK i \in DOMAIN vec : n = Append(node, vec[i])
      BY <1>7 DEF isChild
    <2> PICK d : d = vec[i]
      OBVIOUS
    <2>2. d \in Code /\ d \in Int /\ b \in Int /\ b + d \in took /\ b + d \in Slots
      BY <1>4, <1>5, CodesAreNumbers DEF took, FitsAt
    <2>3. n # Root /\ Last(n) = d
      BY <1>4, <2>1, <2>2, NodeAndChild
    <2>4. slot'[n] = b + d /\ (b + d) - b = d
      BY <1>1, <1>7, <2>2, <2>3
    <2> QED
      BY <1>1, <2>1, <2>2, <2>3, <2>4
  <1>8. output'[k_root_index_] = 0 /\ check'[k_root_index_] = k_root_index_
    <2>1. Root \in nodes /\ slot[Root] = k_root_index_ /\ slot[Root] # 0 /\ ~isChild(Root)
      BY <1>3, <1>7 DEF SlotsAreNodes, LayoutInv, ArraysShaped, k_root_index_
    <2> QED
      BY <1>3, <1>6, <2>1 DEF OutputsWritten
  <1>9. ASSUME NEW n \in nodes \ {Root}, slot'[n] # 0 PROVE output'[slot'[n]] = matched[n]
    <2>1. CASE isChild(n)
      BY <1>7, <2>1
    <2>2. CASE ~isChild(n)
      <3>1. slot'[n] = slot[n]
        BY <1>1, <2>2
      <3> QED
        BY <1>3, <1>6, <1>9, <2>2, <3>1 DEF OutputsWritten
    <2> QED
      BY <2>1, <2>2
  <1>10. DOMAIN output' = Slots'
    BY <1>1, <1>3
  <1> QED
    BY <1>1, <1>3, <1>8, <1>9, <1>10 DEF OutputsWritten

LEMMA StepOutputs == LayoutInv /\ BuildInv /\ OutputsInv /\ [Next]_vars => OutputsInv'
  <1> SUFFICES ASSUME LayoutInv, BuildInv, OutputsInv, [Next]_vars PROVE OutputsInv'
    OBVIOUS
  <1>1. CASE \E ws \in Dictionaries : Rebuild(ws)
    BY <1>1, RebuildOutputs
  <1>2. CASE \E ws \in Dictionaries : RebuildThrows(ws)
    BY <1>2 DEF RebuildThrows, OutputsInv, Undamaged
  <1>3. CASE TryDense /\ Empty(Head(dense))
    <2> PICK b : b = Head(dense) - MinCode
      OBVIOUS
    <2>1. Place(b) /\ pc = "dense" /\ Len(Frame.vec) = 1 /\ dense # <<>>
      BY <1>3 DEF TryDense
    <2> QED
      BY <1>3, <2>1, DenseFits, PlaceOutputs
  <1>4. CASE TryChain /\ Fits(Head(chain) - MinCode)
    <2> PICK b : b = Head(chain) - MinCode
      OBVIOUS
    <2>1. Place(b) /\ pc = "chain" /\ left > 0 /\ Fits(b)
      BY <1>4 DEF TryChain
    <2> QED
      BY <2>1, ChainFits, PlaceOutputs
  <1>5. CASE Reserve
    BY <1>5, ReserveOutputs
  <1>6. CASE CollectChildren
    BY <1>6 DEF CollectChildren, OutputsInv, OutputsWritten, Undamaged, Slots, arrays, pointers
  <1>7. CASE \/ TryDense /\ ~Empty(Head(dense))
             \/ TryChain /\ ~Fits(Head(chain) - MinCode)
             \/ PopNode \/ Descend \/ StartChain \/ SkipTaken \/ GiveUpDense \/ FinishBuild
             \/ (\E t \in Texts : BeginSearch(t)) \/ SearchStep
             \/ UNCHANGED vars
    <2>1. UNCHANGED <<capacity, check, output, words, nodes, slot, damage>>
      BY <1>7 DEF TryDense, TryChain, PopNode, Descend, StartChain, SkipTaken, GiveUpDense,
         FinishBuild, BeginSearch, SearchStep, SkipJunk, FollowFail, Consume, EndSearch, vars,
         arrays, blocks, queues, pointers
    <2> QED
      BY <2>1, OutputsKept
  <1> QED
    BY <1>1, <1>2, <1>3, <1>4, <1>5, <1>6, <1>7 DEF Next, BuildStep

-----------------------------------------------------------------------------
(* The search walks the trie (WalkInv).                                    *)

(* What the invariants say of the trie while it is searched.                *)
LEMMA Searched ==
  ASSUME LayoutInv, BuildInv, OutputsInv, Undamaged, pc \in {"ready", "search"}
  PROVE  /\ IsTree(nodes) /\ SlotsAreNodes /\ FailLinksWritten /\ OutputsWritten
         /\ Root \in nodes /\ slot[Root] = k_root_index_
         /\ \A n \in nodes : slot[n] # 0 /\ slot[n] \in Slots /\ base[slot[n]] \in Int
                             /\ n \in Seq(Code) /\ n \in Seq(Int)
         /\ \A m, n \in nodes : slot[m] = slot[n] => m = n
         /\ Linked(nodes, FailNode(nodes))
  <1>1. /\ PrefixesAreNodes /\ UnplacedIsAhead /\ SlotsAreNodes /\ FailLinksWritten
        /\ OutputsWritten /\ stack = <<>> /\ Root \in nodes /\ slot \in [nodes -> Slots]
        /\ base \in [Slots -> Int]
    BY DEF BuildInv, OutputsInv, Building, LayoutInv, StackShaped, ArraysShaped
  <1>2. \A n \in nodes : slot[n] # 0
    BY <1>1 DEF UnplacedIsAhead
  <1>3. \A m, n \in nodes : slot[m] = slot[n] => m = n
    BY <1>2, Undisturbed DEF LayoutInv, PlacedApart, SlotsDistinct, Orderly
  <1>4. IsTree(nodes)
    <2>1. nodes \subseteq Seq(Code) /\ <<>> \in nodes
      BY <1>1 DEF PrefixesAreNodes, Root
    <2>2. ASSUME NEW n \in nodes, n # <<>>
          PROVE  /\ Front(n) \in nodes /\ Last(n) \in Code
                 /\ Len(Front(n)) = Len(n) - 1 /\ Len(n) \in Nat \ {0}
                 /\ n = Append(Front(n), Last(n))
      BY <1>1, <2>2, NodeAndParent DEF Root
    <2> QED
      BY <2>1, <2>2 DEF IsTree
  <1>5. Linked(nodes, FailNode(nodes))
    BY <1>4, FailNodesAreLinks
  <1>6. \A n \in nodes : n \in Seq(Code) /\ n \in Seq(Int)
    <2>1. \A x \in Seq(Code) : x \in Seq(Int)
      BY CodesAreNumbers
    <2> QED
      BY <1>4, <2>1 DEF IsTree
  <1> QED
    BY <1>1, <1>2, <1>3, <1>4, <1>5, <1>6 DEF SlotsAreNodes

(* The next character leads to the child, to nothing, or the root to itself. *)
LEMMA HitIsChild ==
  ASSUME LayoutInv, BuildInv, OutputsInv, Undamaged, Reading, Char \in Character, Char # Junk,
         NEW n \in nodes, search.curr = slot[n]
  PROVE  /\ Append(n, Char.code) \in nodes => Hit /\ slot[Append(n, Char.code)] = NextNode
         /\ Hit => \/ Append(n, Char.code) \in nodes
                   \/ n = Root /\ NextNode = k_root_index_
  <1>1. /\ IsTree(nodes) /\ SlotsAreNodes /\ OutputsWritten
        /\ Root \in nodes /\ slot[Root] = k_root_index_
        /\ \A m \in nodes : slot[m] # 0 /\ slot[m] \in Slots /\ base[slot[m]] \in Int
        /\ \A m, p \in nodes : slot[m] = slot[p] => m = p
    BY Searched DEF Reading
  <1> PICK c, s : c = Char.code /\ s = NextNode
    OBVIOUS
  <1>2. s = base[slot[n]] + c /\ c \in Int /\ base[slot[n]] \in Int
    BY <1>1, CharacterTyped DEF NextNode
  <1>3. Hit <=> s \in Slots /\ check[s] = slot[n]
    BY DEF Hit
  <1>4. ASSUME Append(n, c) \in nodes PROVE Hit /\ slot[Append(n, c)] = s
    <2> PICK m : m = Append(n, c)
      OBVIOUS
    <2>1. c \in Code
      <3>1. c \in Code \cup {0}
        BY CharacterTyped
      <3>2. n \in Seq(Code) /\ m \in Seq(Code)
        BY <1>1, <1>4 DEF IsTree
      <3>3. m[Len(n) + 1] = c /\ Len(m) = Len(n) + 1
        BY <1>2, <3>2
      <3>4. Len(n) + 1 \in 1 .. Len(m)
        BY <3>2, <3>3
      <3> QED
        BY <3>2, <3>3, <3>4
    <2>2. m \in nodes /\ m # Root /\ Front(m) = n /\ Last(m) = c
      <3>1. n \in Seq(Code) /\ m \in nodes
        BY <1>1, <1>4 DEF IsTree
      <3>2. /\ Append(n, c) # Root /\ Front(Append(n, c)) = n /\ Last(Append(n, c)) = c
        BY ONLY <2>1, <3>1, NodeAndChild
      <3> QED
        BY <3>1, <3>2
    <2>3. check[slot[m]] = slot[n] /\ slot[m] = base[slot[n]] + c
      <3>1. slot[m] # 0 /\ m \in nodes \ {Root}
        BY <1>1, <2>2
      <3>2. /\ check[slot[m]] = slot[Front(m)]
            /\ slot[m] = base[slot[Front(m)]] + Last(m)
        BY ONLY <1>1, <3>1 DEF SlotsAreNodes
      <3> QED
        BY <2>2, <3>2
    <2> QED
      BY <1>1, <1>2, <1>3, <2>2, <2>3
  <1>5. ASSUME Hit PROVE Append(n, c) \in nodes \/ (n = Root /\ s = k_root_index_)
    <2>1. s \in Slots /\ check[s] = slot[n] /\ slot[n] # 0
      BY <1>1, <1>3, <1>5
    <2>2. PICK p \in nodes : slot[p] = s
      BY <1>1, <2>1 DEF SlotsAreNodes
    <2>3. CASE p = Root
      <3>1. s = k_root_index_ /\ check[s] = k_root_index_
        BY <1>1, <2>2, <2>3 DEF OutputsWritten
      <3> QED
        BY <1>1, <2>1, <3>1
    <2>4. CASE p # Root
      <3>1. /\ Front(p) \in nodes /\ p = Append(Front(p), Last(p)) /\ Last(p) \in Code
        BY <1>1, <2>4 DEF IsTree, Root
      <3>2. check[s] = slot[Front(p)] /\ s = base[slot[Front(p)]] + Last(p)
        BY <1>1, <2>2, <2>4 DEF SlotsAreNodes
      <3>3. Front(p) = n
        BY <1>1, <2>1, <3>1, <3>2
      <3>4. Last(p) = c
        <4>1. Last(p) \in Int
          BY <3>1, CodesAreNumbers
        <4>2. base[slot[n]] + c = base[slot[n]] + Last(p)
          BY <1>2, <3>2, <3>3
        <4> PICK a, d : a = base[slot[n]] /\ d = Last(p)
          OBVIOUS
        <4>3. a \in Int /\ d \in Int /\ a + c = a + d
          BY <1>2, <4>1, <4>2
        <4>4. c = d
          BY ONLY <1>2, <4>3
        <4> QED
          BY <4>4
      <3> QED
        BY <3>1, <3>3, <3>4
    <2> QED
      BY <2>3, <2>4
  <1> QED
    BY <1>4, <1>5

(* The characters read, and those a step reads more.                        *)
LEMMA ReadMore ==
  ASSUME NEW t \in Seq(Character), NEW e \in 1 .. Len(t)
  PROVE  /\ SubSeq(t, 1, e - 1) \in Seq(Character) /\ t[e] \in Character
         /\ Path(SubSeq(t, 1, e - 1)) \in Seq(Int)
         /\ t[e].code \in Int
         /\ Path(SubSeq(t, 1, e)) = IF t[e] = Junk THEN Path(SubSeq(t, 1, e - 1))
                                    ELSE Append(Path(SubSeq(t, 1, e - 1)), t[e].code)
  <1>1. e - 1 \in 0 .. Len(t) /\ e - 1 < Len(t) /\ (e - 1) + 1 = e /\ t[e] \in Character
    OBVIOUS
  <1>2. SubSeq(t, 1, e - 1) \in Seq(Character)
    BY <1>1, SubSeqElements
  <1>3. SubSeq(t, 1, e) = Append(SubSeq(t, 1, e - 1), t[e])
    BY <1>1, PrefixNext
  <1> QED
    BY <1>1, <1>2, <1>3, PathStep, CharacterTyped

(* n is the longest node that the first e characters end with.              *)
LongestAt(n, e) ==
  /\ n \in nodes /\ Ends(n, Path(SubSeq(search.text, 1, e)))
  /\ \A m \in nodes : Ends(m, Path(SubSeq(search.text, 1, e))) => Ends(m, n)

(* What a step of the search starts from.                                   *)
LEMMA WalkNow ==
  ASSUME WalkInv, Undamaged, Reading
  PROVE  /\ search.text \in Seq(Character) /\ search.text \in Texts
         /\ search.at \in 1 .. Len(search.text) /\ Char \in Character
         /\ search.at - 1 \in 0 .. Len(search.text)
         /\ Path(Read) \in Seq(Int) /\ Char.code \in Int
         /\ Path(SubSeq(search.text, 1, search.at)) =
              IF Char = Junk THEN Path(Read) ELSE Append(Path(Read), Char.code)
         /\ \E n \in nodes : At(n)
  <1>1. /\ search.text \in Seq(Character) /\ search.text \in Texts
        /\ search.at \in 1 .. Len(search.text)
        /\ \E n \in nodes : At(n)
    BY InputsAssumption DEF WalkInv, Reading
  <1>2. search.at - 1 \in 0 .. Len(search.text)
    BY <1>1
  <1> QED
    BY <1>1, <1>2, ReadMore DEF Read, Char

(* A character was read: the search is at the longest node.                 *)
LEMMA ConsumeWalk ==
  ASSUME LayoutInv, BuildInv, OutputsInv, WalkInv, Undamaged, Consume
  PROVE  \E n : LongestAt(n, search.at) /\ search'.curr = slot[n]
  <1>1. /\ Reading /\ Char # Junk /\ (AtRoot \/ Hit)
        /\ search'.curr = IF Hit THEN NextNode ELSE search.curr
    BY DEF Consume
  <1> PICK u, c, v :
        u = Path(Read) /\ c = Char.code /\ v = Path(SubSeq(search.text, 1, search.at))
    OBVIOUS
  <1>2. /\ Char \in Character /\ u \in Seq(Int) /\ c \in Int /\ v = Append(u, c)
    BY <1>1, WalkNow
  <1>3. PICK n \in nodes :
          /\ search.curr = slot[n] /\ Ends(n, u)
          /\ \A m \in nodes : Ends(m, u) => Ends(m, n) \/ Append(m, c) \notin nodes
    BY <1>1, WalkNow DEF At
  <1>4. /\ IsTree(nodes) /\ Root \in nodes /\ slot[Root] = k_root_index_
        /\ \A m \in nodes : m \in Seq(Int)
        /\ \A m, p \in nodes : slot[m] = slot[p] => m = p
    BY <1>1, Searched DEF Reading
  <1>5. /\ Append(n, c) \in nodes => Hit /\ slot[Append(n, c)] = NextNode
        /\ Hit => Append(n, c) \in nodes \/ (n = Root /\ NextNode = k_root_index_)
    BY <1>1, <1>2, <1>3, HitIsChild
  <1>6. ASSUME NEW k \in nodes, Ends(k, v), k # Root
        PROVE  \E m \in nodes : k = Append(m, c) /\ Ends(m, u) /\ Ends(m, n)
    <2> PICK m, d : m = Front(k) /\ d = Last(k)
      OBVIOUS
    <2>1. m \in nodes /\ k = Append(m, d) /\ d \in Int
      <3>1. m \in nodes /\ k = Append(m, d) /\ d \in Code
        BY <1>4, <1>6 DEF IsTree, Root
      <3>2. \A x \in Code : x \in Int
        BY CodesAreNumbers
      <3> QED
        BY <3>1, <3>2
    <2>2. m \in Seq(Int) /\ Ends(Append(m, d), Append(u, c))
      BY <1>2, <1>4, <1>6, <2>1
    <2>3. d = c /\ Ends(m, u)
      BY ONLY <1>2, <2>1, <2>2, EndsAppend
    <2> QED
      BY <1>3, <1>6, <2>1, <2>3
  <1>7. Ends(Root, v)
    <2>1. v \in Seq(Int)
      BY <1>2
    <2> QED
      BY <2>1, EndsItself DEF Root
  <1>8. CASE Append(n, c) \in nodes
    <2> PICK p : p = Append(n, c)
      OBVIOUS
    <2>0. p = Append(n, c)
      OBVIOUS
    <2>1. p \in nodes /\ search'.curr = slot[p] /\ n \in Seq(Int) /\ p \in Seq(Int)
      BY <1>1, <1>4, <1>5, <1>8
    <2>2. Ends(p, v)
      <3> DEFINE q == Append(u, c)
      <3>1. Ends(Append(n, c), q)
        BY ONLY <1>2, <1>3, <2>1, EndsAppend
      <3> QED
        BY <1>2, <3>1
    <2>3. ASSUME NEW k \in nodes, Ends(k, v) PROVE Ends(k, p)
      <3>1. CASE k = Root
        BY <2>1, <3>1, EndsItself DEF Root
      <3>2. CASE k # Root
        <4>1. PICK m \in nodes : k = Append(m, c) /\ Ends(m, n)
          BY <1>6, <2>3, <3>2
        <4>2. m \in Seq(Int)
          BY <1>4
        <4> QED
          BY ONLY <1>2, <2>0, <2>1, <4>1, <4>2, EndsAppend
      <3> QED
        BY <3>1, <3>2
    <2> QED
      BY <2>1, <2>2, <2>3 DEF LongestAt
  <1>9. CASE Append(n, c) \notin nodes
    <2>1. n = Root /\ search'.curr = slot[Root]
      BY <1>1, <1>3, <1>4, <1>5, <1>9 DEF AtRoot
    <2>2. ASSUME NEW k \in nodes, Ends(k, v) PROVE k = Root
      <3> SUFFICES ASSUME k # Root PROVE FALSE
        OBVIOUS
      <3>1. PICK m \in nodes : k = Append(m, c) /\ Ends(m, n)
        BY <1>6, <2>2
      <3>2. Len(m) <= 0 /\ m \in Seq(Int)
        BY <1>4, <2>1, <3>1 DEF Ends, Root
      <3>3. m = n
        BY <2>1, <3>2 DEF Root
      <3> QED
        BY <1>9, <2>2, <3>1, <3>3
    <2>3. Ends(Root, Root)
      BY EndsItself, <1>4 DEF Root
    <2> QED
      BY <1>4, <1>7, <2>1, <2>2, <2>3 DEF LongestAt
  <1> QED
    BY <1>8, <1>9

LEMMA FollowFailWalk ==
  ASSUME LayoutInv, BuildInv, OutputsInv, WalkInv, Undamaged, FollowFail
  PROVE  WalkInv'
  <1>1. /\ Reading /\ Char # Junk /\ ~AtRoot /\ ~Hit
        /\ search' = [search EXCEPT !.curr = failLink[@]]
        /\ UNCHANGED <<pc, nodes, slot, damage>>
    BY DEF FollowFail, pointers
  <1>2. /\ search'.text = search.text /\ search'.at = search.at
        /\ search'.curr = failLink[search.curr]
    BY <1>1, WalkNow
  <1> PICK u, c : u = Path(Read) /\ c = Char.code
    OBVIOUS
  <1>3. /\ Char \in Character /\ u \in Seq(Int) /\ search.text \in Texts
        /\ search.at \in 1 .. Len(search.text)
    BY <1>1, WalkNow
  <1>4. PICK n \in nodes :
          /\ search.curr = slot[n] /\ Ends(n, u)
          /\ \A m \in nodes : Ends(m, u) => Ends(m, n) \/ Append(m, c) \notin nodes
    BY <1>1, WalkNow DEF At
  <1>5. /\ Root \in nodes /\ slot[Root] = k_root_index_ /\ FailLinksWritten
        /\ \A m \in nodes : m \in Seq(Int)
        /\ Linked(nodes, FailNode(nodes)) /\ IsTree(nodes)
    BY <1>1, Searched DEF Reading
  <1>6. Append(n, c) \notin nodes
    BY <1>1, <1>3, <1>4, HitIsChild
  <1> PICK p : p = FailNode(nodes)[n]
    OBVIOUS
  <1>7. n # Root
    BY <1>1, <1>4, <1>5 DEF AtRoot
  <1>8. search'.curr = slot[p]
    BY <1>1, <1>2, <1>4, <1>5, <1>7 DEF FailLinksWritten, Reading
  <1>9. p \in nodes /\ Ends(p, n) /\ \A m \in nodes \ {n} : Ends(m, n) => Ends(m, p)
    BY <1>5, <1>7 DEF Linked, IsLongest, Root
  <1>10. Ends(p, u)
    <2>1. p \in Seq(Int) /\ n \in Seq(Int)
      BY <1>5, <1>9
    <2> QED
      BY <1>3, <1>4, <1>9, <2>1, EndsTwice
  <1>11. \A m \in nodes : Ends(m, u) => Ends(m, p) \/ Append(m, c) \notin nodes
    BY <1>4, <1>6, <1>9
  <1>12. Reading' /\ Char' = Char /\ Read' = Read
    BY <1>1, <1>2 DEF Reading, Char, Read
  <1>13. At(p)'
    BY <1>1, <1>8, <1>10, <1>11, <1>12 DEF At
  <1> QED
    BY <1>1, <1>2, <1>3, <1>9, <1>13 DEF WalkInv

LEMMA StepWalk ==
  LayoutInv /\ BuildInv /\ OutputsInv /\ WalkInv /\ [Next]_vars => WalkInv'
  <1> SUFFICES ASSUME LayoutInv, BuildInv, OutputsInv, WalkInv, [Next]_vars,
                      Undamaged', pc' = "search"
               PROVE  WalkInv'
    BY DEF WalkInv
  <1>1. CASE \E t \in Texts : BeginSearch(t)
    <2>1. PICK t \in Texts : BeginSearch(t)
      BY <1>1
    <2>2. /\ search'.text = t /\ search'.at = 1 /\ search'.curr = k_root_index_
          /\ pc = "ready" /\ UNCHANGED <<nodes, slot, damage>>
      BY <2>1 DEF BeginSearch, NoSearch, pointers
    <2>3. /\ Root \in nodes /\ slot[Root] = k_root_index_
          /\ \A m \in nodes : m \in Seq(Int)
      BY <2>2, Searched DEF Undamaged
    <2>4. Path(Read)' = <<>>
      <3>1. t \in Seq(Character) /\ 0 \in 0 .. Len(t)
        BY InputsAssumption
      <3>2. SubSeq(t, 1, 0) \in Seq(Character) /\ Len(SubSeq(t, 1, 0)) = 0
        BY <3>1, SubSeqElements
      <3>3. SubSeq(t, 1, 0) = <<>>
        BY <3>2
      <3> QED
        <4>1. 1 - 1 = 0
          OBVIOUS
        <4>2. Read' = <<>>
          BY <2>2, <3>3, <4>1 DEF Read
        <4> QED
          BY <4>2, PathStep DEF Root
    <2>5. Ends(Root, <<>>) /\ \A m \in nodes : Ends(m, <<>>) => Ends(m, Root)
      <3>1. Ends(<<>>, <<>>)
        <4>1. <<>> \in Seq(Int)
          OBVIOUS
        <4> QED
          BY <4>1, EndsItself
      <3> QED
        BY <3>1 DEF Root
    <2>6. At(Root)'
      BY <2>2, <2>3, <2>4, <2>5 DEF At
    <2>7. 1 \in 1 .. Len(t) + 1
      BY InputsAssumption
    <2> QED
      BY <2>2, <2>3, <2>6, <2>7 DEF WalkInv
  <1>2. CASE SkipJunk
    <2>1. /\ Reading /\ Char = Junk /\ search' = [search EXCEPT !.at = @ + 1]
          /\ UNCHANGED <<pc, nodes, slot, damage>> /\ Undamaged
      BY <1>2 DEF SkipJunk, pointers, Undamaged
    <2>2. PICK n \in nodes : At(n)
      BY <2>1, WalkNow
    <2>3. LongestAt(n, search.at) /\ search.curr = slot[n]
      BY <2>1, <2>2, WalkNow DEF At, LongestAt
    <2>4. /\ search'.text = search.text /\ search'.at = search.at + 1 /\ search'.curr = slot[n]
      BY <2>1, <2>3
    <2>5. search.text \in Texts /\ search.at \in 1 .. Len(search.text)
      BY <2>1, WalkNow
    <2>6. search.at + 1 \in 1 .. Len(search.text) + 1 /\ (search.at + 1) - 1 = search.at
      BY <2>5
    <2> QED
      BY <2>1, <2>3, <2>4, <2>5, <2>6 DEF WalkInv, At, Read, LongestAt
  <1>3. CASE FollowFail
    <2>1. Undamaged
      BY <1>3 DEF FollowFail, Undamaged
    <2> QED
      BY <1>3, <2>1, FollowFailWalk
  <1>4. CASE Consume
    <2>1. Undamaged /\ Reading /\ UNCHANGED <<pc, nodes, slot, damage>>
      BY <1>4 DEF Consume, Undamaged, pointers
    <2>2. PICK n : LongestAt(n, search.at) /\ search'.curr = slot[n]
      BY <1>4, <2>1, ConsumeWalk
    <2>4. /\ search'.text = search.text /\ search'.at = search.at + 1
      BY <1>4 DEF Consume
    <2>5. search.text \in Texts /\ search.at \in 1 .. Len(search.text)
      BY <2>1, WalkNow
    <2>6. search.at + 1 \in 1 .. Len(search.text) + 1 /\ (search.at + 1) - 1 = search.at
      BY <2>5
    <2> QED
      BY <2>1, <2>2, <2>4, <2>5, <2>6 DEF WalkInv, At, Read, LongestAt
  <1>5. CASE UNCHANGED vars
    <2>1. UNCHANGED <<pc, nodes, slot, damage, search>>
      BY <1>5 DEF vars, pointers
    <2> QED
      BY <2>1 DEF WalkInv, At, Read, Reading, Char, Undamaged
  <1>6. CASE \/ \E ws \in Dictionaries : Rebuild(ws) \/ RebuildThrows(ws)
             \/ BuildStep \/ EndSearch
    BY <1>6 DEF Rebuild, RebuildThrows, BuildStep, PopNode, CollectChildren, Descend, TryDense,
       StartChain, SkipTaken, GiveUpDense, TryChain, Reserve, FinishBuild, Place, EndSearch
  <1> QED
    BY <1>1, <1>2, <1>3, <1>4, <1>5, <1>6 DEF Next, SearchStep

-----------------------------------------------------------------------------
(* The matches so far are those of the characters read so far (MatchInv).  *)

LEMMA MatchTyped ==
  ASSUME NEW found \in Seq(Match), NEW i \in DOMAIN found
  PROVE  found[i].index \in Nat /\ found[i].size \in Nat \ {0}
  <1>1. found[i] \in Match
    OBVIOUS
  <1> QED
    BY <1>1 DEF Match

(* Junk adds no occurrence, and no match.                                   *)
LEMMA JunkMatches ==
  ASSUME NEW ws, NEW found, NEW t \in Seq(Character), NEW e \in 1 .. Len(t),
         t[e] = Junk, MatchesTo(ws, found, t, e - 1)
  PROVE  MatchesTo(ws, found, t, e)
  <1>1. /\ e - 1 \in 0 .. Len(t) /\ e \in 0 .. Len(t) /\ e - 1 \in 0 .. e
        /\ ~Clean(t)
    BY DEF Clean
  <1>2. /\ Bytes(SubSeq(t, 1, e - 1)) \in Nat /\ Bytes(SubSeq(t, 1, e)) \in Nat
        /\ Bytes(SubSeq(t, 1, e - 1)) <= Bytes(SubSeq(t, 1, e))
    BY <1>1, BytesGrow
  <1>3. \A i \in DOMAIN found : found[i].index \in Nat /\ found[i].size \in Nat
    BY MatchTyped DEF MatchesTo
  <1> QED
    BY <1>1, <1>2, <1>3 DEF MatchesTo

(* The match that is recorded is what the occurrences that end here add.    *)
LEMMA MatchStep ==
  ASSUME NEW ws \in Seq(Seq(Character)), AllClean(ws), NEW N, IsTree(N), Holds(ws, N),
         NEW t \in Seq(Character), OneWidth(ws, t), Bytes(t) <= Wrap,
         NEW e \in 1 .. Len(t), NEW n \in N, Ends(n, Path(SubSeq(t, 1, e))),
         \A m \in N : Ends(m, Path(SubSeq(t, 1, e))) => Ends(m, n),
         NEW found, MatchesTo(ws, found, t, e - 1)
  PROVE  LET size == MatchedSize(ws, N)[n]
         IN  MatchesTo(ws, IF size = 0 THEN found
                           ELSE Recorded(found, Bytes(SubSeq(t, 1, e - 1)), t[e].width, size), t, e)
  <1> DEFINE size == MatchedSize(ws, N)[n]
             g == IF size = 0 THEN found
                  ELSE Recorded(found, Bytes(SubSeq(t, 1, e - 1)), t[e].width, size)
  <1> PICK here, width, to : /\ here = Bytes(SubSeq(t, 1, e - 1)) /\ width = t[e].width
                             /\ to = Bytes(SubSeq(t, 1, e))
    OBVIOUS
  <1>1. /\ here \in Nat /\ width \in 1 .. 4 /\ to = here + width /\ to <= Bytes(t)
        /\ Bytes(t) \in Nat /\ e \in 0 .. Len(t)
    <2>1. e - 1 \in 0 .. Len(t) /\ e - 1 < Len(t) /\ (e - 1) + 1 = e /\ e \in 0 .. Len(t)
      OBVIOUS
    <2>2. /\ here \in Nat /\ width \in 1 .. 4 /\ to = here + width
      BY <2>1, BytesGrow
    <2>3. Len(t) \in 0 .. Len(t) /\ SubSeq(t, 1, Len(t)) = t
      BY PrefixNext
    <2>4. Bytes(t) \in Nat /\ to <= Bytes(t)
      BY <2>1, <2>3, BytesGrow
    <2> QED
      BY <2>1, <2>2, <2>4
  <1>2. Wrap \in Nat
    BY SizeTIsSmall
  <1>3. size \in Nat /\ size <= to
    BY <1>1, SizeOfMatch
  <1>4. /\ found \in Seq(Match)
        /\ \A i \in DOMAIN found : found[i].index + found[i].size <= here
    BY DEF MatchesTo
  <1>5. \A i \in DOMAIN found : found[i].index \in Nat /\ found[i].size \in Nat
    BY <1>4, MatchTyped
  <1>6. /\ g \in Seq(Match)
        /\ \A i \in DOMAIN g : g[i].index + g[i].size <= to
        /\ \A x \in Int : InMatches(g, x) <=> InMatches(found, x) \/ x \in to - size .. to - 1
    <2>1. CASE size = 0
      <3>1. g = found
        BY <2>1
      <3>2. \A x \in Int : x \notin to - size .. to - 1
        BY <1>1, <2>1
      <3>3. \A i \in DOMAIN found : found[i].index + found[i].size <= to
        <4>1. here <= to
          BY ONLY <1>1
        <4> QED
          BY ONLY <1>1, <1>4, <1>5, <4>1
      <3> HIDE DEF g, size
      <3> QED
        BY <1>4, <3>1, <3>2, <3>3
    <2>2. CASE size # 0
      <3>1. size \in 1 .. here + width /\ here + width <= Wrap
        BY <1>1, <1>2, <1>3, <2>2
      <3>2. g = Recorded(found, here, width, size)
        BY <2>2
      <3> HIDE DEF g, size
      <3> DEFINE r == Recorded(found, here, width, size)
      <3>3. /\ r \in Seq(Match)
            /\ \A i \in DOMAIN r : r[i].index + r[i].size <= here + width
            /\ \A x \in Int : InMatches(r, x) <=> \/ InMatches(found, x)
                                                  \/ x \in here + width - size .. here + width - 1
        BY ONLY <1>1, <1>4, <3>1, RecordedKeeps
      <3>4. g = r
        BY <3>2
      <3>5. /\ \A i \in DOMAIN r : r[i].index + r[i].size <= to
            /\ \A x \in Int : InMatches(r, x) <=> InMatches(found, x) \/ x \in to - size .. to - 1
        <4> HIDE DEF r
        <4>1. /\ here + width = to /\ here + width - size = to - size
              /\ here + width - 1 = to - 1
          BY ONLY <1>1, <1>3
        <4> QED
          BY ONLY <3>3, <4>1
      <3> HIDE DEF r
      <3> QED
        BY <3>3, <3>4, <3>5
    <2> QED
      BY <2>1, <2>2
  <1>7. ASSUME Clean(t), NEW x \in 0 .. Bytes(t)
        PROVE  InMatches(g, x) <=> \E k \in 1 .. e : EndHere(ws, t, k, x)
    <2>1. EndHere(ws, t, e, x) <=> x \in to - size .. to - 1
      <3>1. x \in Int
        BY <1>1
      <3> QED
        BY <1>1, <1>7, <3>1, BytesOfMatch
    <2>2. InMatches(found, x) <=> \E k \in 1 .. e - 1 : EndHere(ws, t, k, x)
      BY <1>7 DEF MatchesTo
    <2>3. InMatches(g, x) <=> InMatches(found, x) \/ EndHere(ws, t, e, x)
      BY <1>1, <1>6, <2>1
    <2>4. 1 .. e = (1 .. e - 1) \cup {e}
      OBVIOUS
    <2> HIDE DEF g
    <2> QED
      BY <2>2, <2>3, <2>4
  <1> HIDE DEF g
  <1>8. MatchesTo(ws, g, t, e)
    BY <1>6, <1>7 DEF MatchesTo
  <1> QED
    BY <1>8 DEF g

(* What the trie was made of.                                               *)
LEMMA MadeOf ==
  ASSUME LayoutInv, BuildInv, OutputsInv, Undamaged, pc \in {"ready", "search"}, CleanWords
  PROVE  /\ words \in Seq(Seq(Character)) /\ AllClean(words)
         /\ IsTree(nodes) /\ Holds(words, nodes)
         /\ \A n \in nodes : output[slot[n]] = MatchedSize(words, nodes)[n]
  <1>1. OutputsWritten /\ IsTree(nodes) /\ slot[Root] = k_root_index_ /\ Root \in nodes
        /\ \A n \in nodes : slot[n] # 0
    BY Searched
  <1>2. words \in Seq(Seq(Character))
    <2>1. <<>> \in Seq(Seq(Character))
      OBVIOUS
    <2> QED
      BY <1>1, <2>1, InputsAssumption DEF OutputsWritten
  <1>3. AllClean(words)
    BY DEF AllClean, CleanWords
  <1>4. Holds(words, nodes)
    <2> SUFFICES ASSUME NEW i \in DOMAIN words PROVE Path(words[i]) \in nodes
      BY DEF Holds
    <2>1. words[i] \in Seq(Character)
      BY <1>2
    <2>2. Path(words[i]) \in Seq(Int)
      BY <2>1, PathStep
    <2>3. Path(words[i]) \in Prefixes(Path(words[i]))
      <3> PICK p : p = Path(words[i])
        OBVIOUS
      <3>1. p \in Seq(Int) /\ Len(p) \in 0 .. Len(p)
        BY <2>2
      <3>2. p = SubSeq(p, 1, Len(p))
        BY <3>1, PrefixNext
      <3>3. p \in Prefixes(p)
        BY ONLY <3>1, <3>2 DEF Prefixes
      <3> QED
        BY <3>3
    <2> QED
      BY <1>1, <2>3 DEF OutputsWritten, NodesOf
  <1>5. MatchedSize(words, nodes)[Root] = 0
    <2>1. IsMost(words, nodes, MatchedSize(words, nodes)[Root], Root)
      BY <1>1, <1>2, <1>3, MatchedSizeIsMost
    <2>2. IsMost(words, nodes, 0, Root)
      BY <1>1, <1>2, <1>3, MostOfRoot
    <2> QED
      BY <2>1, <2>2 DEF IsMost
  <1> QED
    BY <1>1, <1>2, <1>3, <1>4, <1>5 DEF OutputsWritten

LEMMA InitMatches == Init => WalkInv /\ MatchInv
  BY DEF Init, WalkInv, MatchInv

(* A character that was looked up is the first case of MatchStep.           *)
LEMMA ConsumeMatches ==
  ASSUME LayoutInv, BuildInv, OutputsInv, WalkInv, MatchInv, Undamaged, Consume,
         CleanWords, WellFormed
  PROVE  MatchesTo(words, search'.found, search.text, search.at)
  <1>1. /\ Reading /\ Char # Junk
        /\ search'.curr = IF Hit THEN NextNode ELSE search.curr
    BY DEF Consume
  <1>2. PICK n : LongestAt(n, search.at) /\ search'.curr = slot[n]
    BY ConsumeWalk
  <1>3. /\ words \in Seq(Seq(Character)) /\ AllClean(words)
        /\ IsTree(nodes) /\ Holds(words, nodes)
        /\ \A k \in nodes : output[slot[k]] = MatchedSize(words, nodes)[k]
    BY <1>1, MadeOf DEF Reading
  <1>4. search.text \in Seq(Character) /\ search.at \in 1 .. Len(search.text)
    BY <1>1, WalkNow
  <1>5. OneWidth(words, search.text) /\ Bytes(search.text) <= Wrap
    BY DEF WellFormed, OneWidth
  <1>6. MatchesTo(words, search.found, search.text, search.at - 1)
    BY <1>1 DEF MatchInv, Reading
  <1> DEFINE size == MatchedSize(words, nodes)[n]
             here == Bytes(SubSeq(search.text, 1, search.at - 1))
  <1>7. n \in nodes /\ output[search'.curr] = size
    BY <1>2, <1>3 DEF LongestAt
  <1>8. search'.found = IF size = 0 THEN search.found
                        ELSE Recorded(search.found, here, search.text[search.at].width, size)
    <2>1. search'.found = IF output[search'.curr] = 0 THEN search.found
                          ELSE Recorded(search.found, here, Char.width, output[search'.curr])
      BY <1>1 DEF Consume
    <2> QED
      BY <1>7, <2>1 DEF Char
  <1> QED
    BY <1>2, <1>3, <1>4, <1>5, <1>6, <1>7, <1>8, MatchStep DEF LongestAt

LEMMA StepMatches ==
  LayoutInv /\ BuildInv /\ OutputsInv /\ WalkInv /\ MatchInv /\ [Next]_vars => MatchInv'
  <1> SUFFICES ASSUME LayoutInv, BuildInv, OutputsInv, WalkInv, MatchInv, [Next]_vars,
                      Undamaged', pc' = "search", CleanWords', WellFormed'
               PROVE  MatchesTo(words, search.found, search.text, search.at - 1)'
    BY DEF MatchInv
  <1>1. CASE \E t \in Texts : BeginSearch(t)
    <2>1. PICK t \in Texts : BeginSearch(t)
      BY <1>1
    <2>2. search'.text = t /\ search'.at = 1 /\ search'.found = <<>>
      BY <2>1 DEF BeginSearch, NoSearch
    <2>3. <<>> \in Seq(Match) /\ DOMAIN <<>> = {} /\ \A x : ~InMatches(<<>>, x)
      BY DEF InMatches
    <2>4. \A k : k \notin 1 .. (1 - 1)
      OBVIOUS
    <2> QED
      BY <2>2, <2>3, <2>4 DEF MatchesTo
  <1>2. ASSUME Undamaged, Reading, UNCHANGED <<pc, words, damage>>,
               search'.text = search.text
        PROVE  /\ CleanWords /\ WellFormed
               /\ MatchesTo(words, search.found, search.text, search.at - 1)
               /\ search.text \in Seq(Character) /\ search.at \in 1 .. Len(search.text)
    <2>1. CleanWords /\ WellFormed
      BY <1>2 DEF CleanWords, WellFormed
    <2> QED
      BY <1>2, <2>1, WalkNow DEF MatchInv, Reading
  <1>3. CASE SkipJunk
    <2>1. /\ Reading /\ Char = Junk /\ Undamaged /\ UNCHANGED <<pc, words, damage>>
          /\ search'.text = search.text /\ search'.at = search.at + 1
          /\ search'.found = search.found
      BY <1>3 DEF SkipJunk, pointers, Undamaged
    <2>2. MatchesTo(words, search.found, search.text, search.at)
      BY <1>2, <2>1, JunkMatches DEF Char
    <2>3. search'.at - 1 = search.at
      BY <1>2, <2>1
    <2> QED
      BY <2>1, <2>2, <2>3
  <1>4. CASE FollowFail
    <2>1. /\ Reading /\ Undamaged /\ UNCHANGED <<pc, words, damage>>
          /\ search'.text = search.text /\ search'.at = search.at
          /\ search'.found = search.found
      BY <1>4 DEF FollowFail, pointers, Undamaged
    <2> QED
      BY <1>2, <2>1
  <1>5. CASE Consume
    <2>1. /\ Reading /\ Undamaged /\ UNCHANGED <<pc, words, damage>>
          /\ search'.text = search.text /\ search'.at = search.at + 1
      BY <1>5 DEF Consume, pointers, Undamaged
    <2>2. MatchesTo(words, search'.found, search.text, search.at)
      BY <1>2, <1>5, <2>1, ConsumeMatches
    <2>3. search'.at - 1 = search.at
      BY <1>2, <2>1
    <2> QED
      BY <2>1, <2>2, <2>3
  <1>6. CASE UNCHANGED vars
    <2>1. UNCHANGED <<pc, words, damage, search>>
      BY <1>6 DEF vars, pointers
    <2>2. Undamaged /\ CleanWords /\ WellFormed
      BY <2>1 DEF Undamaged, CleanWords, WellFormed
    <2> QED
      BY <2>1, <2>2 DEF MatchInv
  <1>7. CASE \/ \E ws \in Dictionaries : Rebuild(ws) \/ RebuildThrows(ws)
             \/ BuildStep \/ EndSearch
    BY <1>7 DEF Rebuild, RebuildThrows, BuildStep, PopNode, CollectChildren, Descend, TryDense,
       StartChain, SkipTaken, GiveUpDense, TryChain, Reserve, FinishBuild, Place, EndSearch
  <1> QED
    BY <1>1, <1>3, <1>4, <1>5, <1>6, <1>7 DEF Next, SearchStep

-----------------------------------------------------------------------------
(* The bytes of the occurrences that end anywhere are those to censor.      *)
LEMMA CensoredEnds ==
  ASSUME NEW ws \in Seq(Seq(Character)), NEW t \in Seq(Character)
  PROVE  /\ BytesToCensor(ws, t) \subseteq 0 .. Bytes(t) - 1
         /\ \A x \in 0 .. Bytes(t) - 1 :
              x \in BytesToCensor(ws, t) <=> \E e \in 1 .. Len(t) : EndHere(ws, t, e, x)
  <1>1. \A i \in DOMAIN ws : ws[i] \in Seq(Character) /\ Len(ws[i]) \in Nat
    OBVIOUS
  <1>2. \A e \in 0 .. Len(t) : Bytes(SubSeq(t, 1, e)) \in Nat /\ Bytes(SubSeq(t, 1, e)) <= Bytes(t)
    <2>1. Len(t) \in 0 .. Len(t) /\ SubSeq(t, 1, Len(t)) = t
      BY PrefixNext
    <2> QED
      BY <2>1, BytesGrow
  <1>3. \A p \in Seq(Character) : Path(p) # <<>> => Len(p) >= 1
    <2> SUFFICES ASSUME NEW p \in Seq(Character), Path(p) # <<>> PROVE Len(p) # 0
      OBVIOUS
    <2> QED
      BY PathStep DEF Root
  <1>4. ASSUME NEW x \in BytesToCensor(ws, t)
        PROVE  x \in 0 .. Bytes(t) - 1 /\ \E e \in 1 .. Len(t) : EndHere(ws, t, e, x)
    <2>1. PICK i \in DOMAIN ws, k \in 0 .. Len(t) :
            /\ Occurs(ws[i], t, k)
            /\ x \in Bytes(SubSeq(t, 1, k)) .. Bytes(SubSeq(t, 1, k + Len(ws[i]))) - 1
      BY <1>4 DEF BytesToCensor
    <2>2. Path(ws[i]) # <<>> /\ k + Len(ws[i]) <= Len(t)
      BY <2>1 DEF Occurs
    <2> PICK e, l : e = k + l /\ l = Len(ws[i])
      OBVIOUS
    <2>3. l \in Nat /\ l >= 1 /\ e \in 1 .. Len(t) /\ e - l = k /\ l <= e
      BY <1>1, <1>3, <2>1, <2>2
    <2>4. /\ Bytes(SubSeq(t, 1, k)) \in Nat /\ Bytes(SubSeq(t, 1, e)) \in Nat
          /\ Bytes(SubSeq(t, 1, e)) <= Bytes(t)
      BY <1>2, <2>1, <2>3
    <2>5. Bytes(SubSeq(t, 1, k)) <= x /\ x < Bytes(SubSeq(t, 1, e)) /\ x \in Int
      BY <2>1, <2>4
    <2>6. EndHere(ws, t, e, x)
      BY <2>1, <2>3, <2>5 DEF EndHere
    <2>7. x \in 0 .. Bytes(t) - 1
      <3>1. Len(t) \in 0 .. Len(t) /\ SubSeq(t, 1, Len(t)) = t
        BY PrefixNext
      <3>2. Bytes(t) \in Nat
        BY <1>2, <3>1
      <3> QED
        BY <2>4, <2>5, <3>2
    <2> QED
      BY <2>3, <2>6, <2>7
  <1>5. ASSUME NEW x \in 0 .. Bytes(t) - 1, NEW e \in 1 .. Len(t), EndHere(ws, t, e, x)
        PROVE  x \in BytesToCensor(ws, t)
    <2>1. PICK i \in DOMAIN ws :
            /\ Len(ws[i]) <= e /\ Occurs(ws[i], t, e - Len(ws[i]))
            /\ Bytes(SubSeq(t, 1, e - Len(ws[i]))) <= x /\ x < Bytes(SubSeq(t, 1, e))
      BY <1>5 DEF EndHere
    <2> PICK k, l : k = e - l /\ l = Len(ws[i])
      OBVIOUS
    <2>2. k \in 0 .. Len(t) /\ k + l = e
      BY <1>1, <2>1
    <2>3. Bytes(SubSeq(t, 1, k)) \in Nat /\ Bytes(SubSeq(t, 1, e)) \in Nat
      BY <1>2, <2>2
    <2>4. x \in Bytes(SubSeq(t, 1, k)) .. Bytes(SubSeq(t, 1, k + Len(ws[i]))) - 1
      BY <2>1, <2>2, <2>3
    <2>5. k \in {m \in 0 .. Len(t) : Occurs(ws[i], t, m)}
      BY <2>1, <2>2
    <2> DEFINE from(j, m) == Bytes(SubSeq(t, 1, m)) .. Bytes(SubSeq(t, 1, m + Len(ws[j]))) - 1
               ofWord(j) == UNION {from(j, m) : m \in {m \in 0 .. Len(t) : Occurs(ws[j], t, m)}}
    <2>6. x \in ofWord(i)
      BY <2>4, <2>5
    <2> HIDE DEF from, ofWord
    <2>7. x \in UNION {ofWord(j) : j \in DOMAIN ws}
      BY <2>6
    <2> QED
      BY <2>7 DEF BytesToCensor, ofWord, from
  <1> QED
    BY <1>4, <1>5

(* What the invariants say of the matches: their bytes lie in the text, and *)
(* when the text was read they are those to censor.                         *)
LEMMA MatchesAreExact ==
  ASSUME LayoutInv, BuildInv, OutputsInv, WalkInv, MatchInv, Undamaged, WellFormed
  PROVE  SearchIsExact
  <1> SUFFICES ASSUME pc = "search", CleanWords
               PROVE  /\ Found \subseteq 0 .. Bytes(search.text) - 1
                      /\ SearchDone /\ Clean(search.text) => Found = BytesToCensor(words, search.text)
    BY DEF SearchIsExact, FoundInText, SearchDone
  <1> PICK t, found, at : t = search.text /\ found = search.found /\ at = search.at
    OBVIOUS
  <1>1. t \in Seq(Character) /\ at \in 1 .. Len(t) + 1
    BY InputsAssumption DEF WalkInv
  <1>2. words \in Seq(Seq(Character))
    BY MadeOf
  <1>3. MatchesTo(words, found, t, at - 1)
    BY DEF MatchInv
  <1>4. /\ found \in Seq(Match)
        /\ \A i \in DOMAIN found : found[i].index \in Nat /\ found[i].size \in Nat \ {0}
    BY <1>3, MatchTyped DEF MatchesTo
  <1>5. \A x \in Int : x \in Found <=> InMatches(found, x)
    <2>1. Range(found) = {found[i] : i \in DOMAIN found}
      BY DEF Range
    <2>2. Found = UNION {found[i].index .. found[i].index + found[i].size - 1 : i \in DOMAIN found}
      BY <2>1 DEF Found
    <2>3. \A x \in Int : \A i \in DOMAIN found :
            x \in found[i].index .. found[i].index + found[i].size - 1
              <=> found[i].index <= x /\ x < found[i].index + found[i].size
      BY <1>4
    <2> QED
      BY <2>2, <2>3 DEF InMatches
  <1>6. Found \subseteq Int
    BY <1>4 DEF Found, Range
  <1>7. /\ Bytes(SubSeq(t, 1, at - 1)) \in Nat /\ Bytes(t) \in Nat
        /\ Bytes(SubSeq(t, 1, at - 1)) <= Bytes(t)
    <2>1. Len(t) \in 0 .. Len(t) /\ SubSeq(t, 1, Len(t)) = t
      BY <1>1, PrefixNext
    <2>2. at - 1 \in 0 .. Len(t)
      BY <1>1
    <2> QED
      BY <1>1, <2>1, <2>2, BytesGrow
  <1>8. \A x \in Found : x \in 0 .. Bytes(t) - 1
    <2> SUFFICES ASSUME NEW x \in Found PROVE x \in 0 .. Bytes(t) - 1
      OBVIOUS
    <2>1. PICK i \in DOMAIN found : found[i].index <= x /\ x < found[i].index + found[i].size
      BY <1>5, <1>6 DEF InMatches
    <2>2. found[i].index + found[i].size <= Bytes(SubSeq(t, 1, at - 1))
      BY <1>3, <2>1 DEF MatchesTo
    <2> QED
      BY <1>4, <1>6, <1>7, <2>1, <2>2
  <1>9. ASSUME SearchDone, Clean(t) PROVE Found = BytesToCensor(words, t)
    <2>1. at - 1 = Len(t)
      BY <1>1, <1>9 DEF SearchDone
    <2>2. \A x \in 0 .. Bytes(t) : InMatches(found, x) <=> \E e \in 1 .. Len(t) : EndHere(words, t, e, x)
      BY <1>3, <1>9, <2>1 DEF MatchesTo
    <2>3. \A x \in 0 .. Bytes(t) - 1 : x \in Found <=> x \in BytesToCensor(words, t)
      BY <1>1, <1>2, <1>5, <1>7, <2>2, CensoredEnds
    <2>4. BytesToCensor(words, t) \subseteq 0 .. Bytes(t) - 1
      BY <1>1, <1>2, CensoredEnds
    <2> QED
      BY <1>8, <2>3, <2>4
  <1> QED
    BY <1>8, <1>9

(* After a build that nothing went wrong before or in, a search for words   *)
(* in well-formed text reports bytes of the text only, at every step; and   *)
(* once it is done, the bytes of every occurrence of a word and no others,  *)
(* though a match replaces the one it covers and the shorter words that end *)
(* where a longer one does are never reported.                              *)
THEOREM SearchExact == Spec => []SearchIsExact
  <1> DEFINE IInv == LayoutInv /\ BuildInv /\ OutputsInv /\ WalkInv /\ MatchInv
  <1>1. Init => IInv
    BY InitLayout, InitBuild, InitOutputs, InitMatches
  <1>2. IInv /\ [Next]_vars => IInv'
    BY StepLayout, StepBuild, StepOutputs, StepWalk, StepMatches
  <1>3. IInv => SearchIsExact
    <2>1. ASSUME IInv, Undamaged, WellFormed PROVE SearchIsExact
      BY <2>1, MatchesAreExact
    <2> QED
      BY <2>1 DEF SearchIsExact
  <1> QED
    BY <1>1, <1>2, <1>3, PTL DEF Spec
=============================================================================
