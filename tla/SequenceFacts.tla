---------------------------- MODULE SequenceFacts ----------------------------
(***************************************************************************)
(* Facts about sequences that the proofs of this project use: the elements *)
(* of a prefix, a suffix and a concatenation, and of a sequence without     *)
(* repetitions that grows or shrinks at its ends; and induction, for sets   *)
(* of numbers, with the functions that a recursion over numbers defines.    *)
(***************************************************************************)
EXTENDS Integers, Sequences, SequencesExt, SequenceTheorems, WellFoundedInduction, TLAPS

LEMMA SubSeqElements ==
  ASSUME NEW F, NEW s \in Seq(F), NEW n \in 0..Len(s)
  PROVE  /\ SubSeq(s, 1, n) \in Seq(F)
         /\ Len(SubSeq(s, 1, n)) = n
         /\ \A i \in 1..n : SubSeq(s, 1, n)[i] = s[i]
  <1>1. n \in Int /\ 1 \in Int
    OBVIOUS
  <1>2. \A i \in 1..n : s[i] \in F
    OBVIOUS
  <1>3. /\ SubSeq(s, 1, n) \in Seq(F)
        /\ Len(SubSeq(s, 1, n)) = IF 1 <= n THEN n - 1 + 1 ELSE 0
        /\ \A i \in 1..(n - 1 + 1) : SubSeq(s, 1, n)[i] = s[1 + i - 1]
    BY ONLY <1>1, <1>2, SubSeqProperties
  <1>4. n - 1 + 1 = n /\ (~(1 <= n) => n = 0)
    OBVIOUS
  <1> QED
    BY <1>3, <1>4

LEMMA SuffixElements ==
  ASSUME NEW F, NEW s \in Seq(F), NEW k \in 1..Len(s)
  PROVE  /\ SubSeq(s, k + 1, Len(s)) \in Seq(F)
         /\ Len(SubSeq(s, k + 1, Len(s))) = Len(s) - k
         /\ \A i \in 1..(Len(s) - k) : SubSeq(s, k + 1, Len(s))[i] = s[k + i]
  <1>1. k + 1 \in Int /\ Len(s) \in Int /\ k \in Int /\ k <= Len(s)
    OBVIOUS
  <1>2. \A i \in (k + 1)..Len(s) : s[i] \in F
    OBVIOUS
  <1>3. /\ SubSeq(s, k + 1, Len(s)) \in Seq(F)
        /\ Len(SubSeq(s, k + 1, Len(s))) =
             IF k + 1 <= Len(s) THEN Len(s) - (k + 1) + 1 ELSE 0
        /\ \A i \in 1..(Len(s) - (k + 1) + 1) :
             SubSeq(s, k + 1, Len(s))[i] = s[(k + 1) + i - 1]
    BY ONLY <1>1, <1>2, SubSeqProperties
  <1>4. /\ Len(s) - (k + 1) + 1 = Len(s) - k
        /\ ~(k + 1 <= Len(s)) => Len(s) - k = 0
    BY <1>1
  <1>5. ASSUME NEW i \in 1..(Len(s) - k)
        PROVE  SubSeq(s, k + 1, Len(s))[i] = s[k + i]
    <2>1. (k + 1) + i - 1 = k + i
      BY <1>1
    <2> QED
      BY <1>3, <1>4, <2>1
  <1> QED
    BY <1>3, <1>4, <1>5

LEMMA ConcatElements ==
  ASSUME NEW F, NEW s \in Seq(F), NEW t \in Seq(F)
  PROVE  /\ s \o t \in Seq(F)
         /\ Len(s \o t) = Len(s) + Len(t)
         /\ \A i \in 1..Len(s) : (s \o t)[i] = s[i]
         /\ \A i \in (Len(s) + 1)..(Len(s) + Len(t)) :
              (s \o t)[i] = t[i - Len(s)]
  BY ConcatProperties

(* The values a function holds behind position b, as a sequence.           *)
LEMMA DrainedRun ==
  ASSUME NEW D, NEW buffer, NEW b \in Nat, NEW next \in Nat, b < next,
         \A seq \in DOMAIN buffer : buffer[seq] \in D,
         (b + 1)..(next - 1) \subseteq DOMAIN buffer
  PROVE  /\ [i \in 1..(next - b - 1) |-> buffer[b + i]] \in Seq(D)
         /\ Len([i \in 1..(next - b - 1) |-> buffer[b + i]]) = next - b - 1
  <1>1. next - b - 1 \in Nat
    OBVIOUS
  <1>2. \A i \in 1..(next - b - 1) : buffer[b + i] \in D
    <2> SUFFICES ASSUME NEW i \in 1..(next - b - 1) PROVE buffer[b + i] \in D
      OBVIOUS
    <2>1. b + i \in (b + 1)..(next - 1)
      BY <1>1
    <2> QED
      BY <2>1
  <1> QED
    BY <1>1, <1>2, SMTT(60)

(* A prefix of t, its next packet and a run behind it are a longer prefix. *)
LEMMA PrefixGrows ==
  ASSUME NEW D, NEW t \in Seq(D), NEW b \in 1..Len(t),
         NEW next \in (b + 1)..(Len(t) + 1),
         NEW run \in Seq(D), Len(run) = next - b - 1,
         \A i \in 1..(next - b - 1) : run[i] = t[b + i]
  PROVE  Append(SubSeq(t, 1, b - 1), t[b]) \o run = SubSeq(t, 1, next - 1)
  <1> DEFINE old == SubSeq(t, 1, b - 1)
             one == Append(old, t[b])
             new == SubSeq(t, 1, next - 1)
  <1>1. b \in Int /\ next \in Int /\ Len(t) \in Nat
    OBVIOUS
  <1>2. /\ old \in Seq(D) /\ Len(old) = b - 1
        /\ \A i \in 1..(b - 1) : old[i] = t[i]
    BY <1>1
  <1>3. /\ new \in Seq(D) /\ Len(new) = next - 1
        /\ \A i \in 1..(next - 1) : new[i] = t[i]
    BY <1>1
  <1>4. t[b] \in D
    OBVIOUS
  <1> HIDE DEF old, new
  <1>5. /\ one \in Seq(D) /\ Len(one) = b
        /\ \A i \in 1..(b - 1) : one[i] = t[i]
        /\ one[b] = t[b]
    BY <1>1, <1>2, <1>4, AppendProperties
  <1> HIDE DEF one
  <1>6. /\ one \o run \in Seq(D)
        /\ Len(one \o run) = Len(one) + Len(run)
        /\ \A i \in 1..Len(one) : (one \o run)[i] = one[i]
        /\ \A i \in (Len(one) + 1)..(Len(one) + Len(run)) :
             (one \o run)[i] = run[i - Len(one)]
    <2>1. one \in Seq(D) /\ run \in Seq(D)
      BY <1>5
    <2> QED
      BY ONLY <2>1, ConcatElements
  <1>7. Len(one \o run) = next - 1
    BY <1>1, <1>5, <1>6
  <1>8. ASSUME NEW i \in 1..(next - 1) PROVE (one \o run)[i] = new[i]
    <2>1. CASE i < b
      BY <2>1, <1>1, <1>3, <1>5, <1>6, SMTT(60)
    <2>2. CASE i = b
      BY <2>2, <1>1, <1>3, <1>5, <1>6
    <2>3. CASE i > b
      <3>1. i - b \in 1..(next - b - 1) /\ b + (i - b) = i
        BY <2>3, <1>1
      <3>2. run[i - b] = t[i]
        BY <3>1
      <3>3. i \in (Len(one) + 1)..(Len(one) + Len(run))
        BY <2>3, <1>1, <1>5
      <3>4. (one \o run)[i] = run[i - b]
        BY <3>3, <1>5, <1>6
      <3> QED
        BY <3>2, <3>4, <1>3
    <2>4. i < b \/ i = b \/ i > b
      BY <1>1
    <2> QED
      BY ONLY <2>1, <2>2, <2>3, <2>4
  <1>9. one \o run = new
    BY <1>3, <1>6, <1>7, <1>8, SeqEqual
  <1> QED
    BY <1>9 DEF one, old, new
LEMMA AppendSet ==
  ASSUME NEW F, NEW s \in Seq(F), NEW e \in F
  PROVE  /\ ToSet(Append(s, e)) = ToSet(s) \cup {e}
         /\ IsInjective(s) /\ e \notin ToSet(s) => IsInjective(Append(s, e))
  <1>1. /\ Append(s, e) \in Seq(F)
        /\ Len(Append(s, e)) = Len(s) + 1
        /\ \A i \in 1..Len(s) : Append(s, e)[i] = s[i]
        /\ Append(s, e)[Len(s) + 1] = e
    OBVIOUS
  <1>2. /\ DOMAIN Append(s, e) = 1..(Len(s) + 1)
        /\ DOMAIN s = 1..Len(s)
        /\ 1..(Len(s) + 1) = 1..Len(s) \cup {Len(s) + 1}
    BY <1>1
  <1>3. ToSet(Append(s, e)) = ToSet(s) \cup {e}
    BY <1>1, <1>2 DEF ToSet
  <1>4. ASSUME IsInjective(s), e \notin ToSet(s) PROVE IsInjective(Append(s, e))
    BY <1>1, <1>2, <1>4 DEF ToSet, IsInjective
  <1> QED
    BY <1>3, <1>4

LEMMA TailSet ==
  ASSUME NEW F, NEW s \in Seq(F), s # <<>>
  PROVE  /\ ToSet(s) = ToSet(Tail(s)) \cup {Head(s)}
         /\ IsInjective(s) => Head(s) \notin ToSet(Tail(s)) /\ IsInjective(Tail(s))
  <1>1. /\ Len(s) \in Nat \ {0}
        /\ Tail(s) \in Seq(F)
        /\ Len(Tail(s)) = Len(s) - 1
        /\ \A i \in 1..(Len(s) - 1) : Tail(s)[i] = s[i + 1]
        /\ Head(s) = s[1]
    OBVIOUS
  <1>2. /\ DOMAIN Tail(s) = 1..(Len(s) - 1)
        /\ DOMAIN s = 1..Len(s)
    BY <1>1
  <1>3. ToSet(s) \subseteq ToSet(Tail(s)) \cup {Head(s)}
    <2> SUFFICES ASSUME NEW i \in 1..Len(s)
                 PROVE  s[i] \in ToSet(Tail(s)) \cup {Head(s)}
      BY <1>2 DEF ToSet
    <2>1. CASE i = 1
      BY <1>1, <2>1
    <2>2. CASE i # 1
      <3>1. i - 1 \in 1..(Len(s) - 1) /\ (i - 1) + 1 = i
        BY <1>1, <2>2
      <3>2. Tail(s)[i - 1] = s[i]
        BY <1>1, <3>1
      <3> QED
        BY <1>2, <3>1, <3>2 DEF ToSet
    <2> QED
      BY <2>1, <2>2
  <1>4. ToSet(Tail(s)) \cup {Head(s)} \subseteq ToSet(s)
    <2>1. \A i \in 1..(Len(s) - 1) : i + 1 \in 1..Len(s)
      BY <1>1
    <2>2. 1 \in 1..Len(s)
      BY <1>1
    <2> QED
      BY <1>1, <1>2, <2>1, <2>2 DEF ToSet
  <1>5. ASSUME IsInjective(s)
        PROVE  Head(s) \notin ToSet(Tail(s)) /\ IsInjective(Tail(s))
    <2>1. \A i \in 1..(Len(s) - 1) : i + 1 \in 1..Len(s) /\ i + 1 # 1
      BY <1>1
    <2>2. 1 \in 1..Len(s)
      BY <1>1
    <2>3. Head(s) \notin ToSet(Tail(s))
      BY <1>1, <1>2, <1>5, <2>1, <2>2 DEF ToSet, IsInjective
    <2>4. IsInjective(Tail(s))
      <3> SUFFICES ASSUME NEW i \in 1..(Len(s) - 1), NEW j \in 1..(Len(s) - 1),
                          Tail(s)[i] = Tail(s)[j]
                   PROVE  i = j
        BY <1>2 DEF IsInjective
      <3>1. s[i + 1] = s[j + 1]
        BY <1>1
      <3>2. i + 1 = j + 1
        BY <1>2, <1>5, <2>1, <3>1 DEF IsInjective
      <3> QED
        BY <3>2
    <2> QED
      BY <2>3, <2>4
  <1> QED
    BY <1>3, <1>4, <1>5


(* What is left when one element is taken out.                             *)
LEMMA RemoveAtElements ==
  ASSUME NEW F, NEW s \in Seq(F), NEW k \in 1..Len(s)
  PROVE  /\ RemoveAt(s, k) \in Seq(F)
         /\ Len(RemoveAt(s, k)) = Len(s) - 1
         /\ \A i \in 1..(k - 1) : RemoveAt(s, k)[i] = s[i]
         /\ \A i \in k..(Len(s) - 1) : RemoveAt(s, k)[i] = s[i + 1]
  <1> DEFINE front == SubSeq(s, 1, k - 1)
             back == SubSeq(s, k + 1, Len(s))
  <1>1. /\ front \in Seq(F) /\ Len(front) = k - 1
        /\ \A i \in 1..(k - 1) : front[i] = s[i]
    <2>1. k - 1 \in 0..Len(s)
      OBVIOUS
    <2> QED
      BY <2>1, SubSeqElements
  <1>2. /\ back \in Seq(F) /\ Len(back) = Len(s) - k
        /\ \A i \in 1..(Len(s) - k) : back[i] = s[k + i]
    BY SuffixElements
  <1>3. RemoveAt(s, k) = front \o back
    BY DEF RemoveAt
  <1> HIDE DEF front, back
  <1>4. /\ front \o back \in Seq(F)
        /\ Len(front \o back) = Len(front) + Len(back)
        /\ \A i \in 1..Len(front) : (front \o back)[i] = front[i]
        /\ \A i \in (Len(front) + 1)..(Len(front) + Len(back)) :
             (front \o back)[i] = back[i - Len(front)]
    BY <1>1, <1>2, ConcatElements
  <1>5. Len(front) + Len(back) = Len(s) - 1
    BY <1>1, <1>2
  <1>6. ASSUME NEW i \in k..(Len(s) - 1)
        PROVE  (front \o back)[i] = s[i + 1]
    <2>1. /\ i \in (Len(front) + 1)..(Len(front) + Len(back))
          /\ i - Len(front) \in 1..(Len(s) - k)
          /\ k + (i - Len(front)) = i + 1
      BY <1>1, <1>2
    <2> QED
      BY <2>1, <1>2, <1>4
  <1> QED
    BY <1>1, <1>3, <1>4, <1>5, <1>6

-----------------------------------------------------------------------------
(* Induction.                                                              *)
LEMMA LeastElement ==
  ASSUME NEW T, T \subseteq Nat, T # {}
  PROVE  \E m \in T : \A k \in T : m <= k
  <1>1. IsWellFoundedOn(OpToRel(<, Nat), Nat)
    BY NatLessThanWellFounded
  <1>2. PICK m \in T : \A k \in T : ~ (<<k, m>> \in OpToRel(<, Nat))
    BY <1>1, WFMin
  <1>3. \A k \in T : ~ (k < m)
    BY <1>2 DEF OpToRel
  <1> QED
    BY <1>3

LEMMA Induction ==
  ASSUME NEW T, 0 \in T, \A n \in Nat : n \in T => n + 1 \in T
  PROVE  Nat \subseteq T
  <1> SUFFICES ASSUME Nat \ T # {} PROVE FALSE
    OBVIOUS
  <1>1. PICK m \in Nat \ T : \A k \in Nat \ T : m <= k
    BY LeastElement
  <1> QED
    BY <1>1

(* What a loop over 1 .. n that starts with start has computed after each   *)
(* iteration, step making the next value of an index and the last value.    *)
StepByStep(f, V, start, step, n) ==
  /\ f[0] = start /\ \A i \in 0 .. n : f[i] \in V
  /\ \A i \in 1 .. n : f[i] = step[<<i, f[i - 1]>>]

LEMMA StepwiseFunction ==
  ASSUME NEW V, NEW start \in V, NEW step, NEW n \in Nat,
         \A i \in Nat : \A v \in V : step[<<i, v>>] \in V
  PROVE  \E f : StepByStep(f, V, start, step, n)
  <1> DEFINE T == {m \in Nat : \E f : StepByStep(f, V, start, step, m)}
  <1>1. 0 \in T
    <2>1. StepByStep([i \in 0 .. 0 |-> start], V, start, step, 0)
      BY DEF StepByStep
    <2> QED
      BY <2>1
  <1>2. ASSUME NEW m \in Nat, m \in T PROVE m + 1 \in T
    <2>1. PICK f : StepByStep(f, V, start, step, m)
      BY <1>2
    <2> DEFINE g == [i \in 0 .. m + 1 |-> IF i = m + 1 THEN step[<<m + 1, f[m]>>] ELSE f[i]]
    <2>2. f[m] \in V /\ step[<<m + 1, f[m]>>] \in V
      BY <2>1 DEF StepByStep
    <2>3. /\ g[m + 1] = step[<<m + 1, f[m]>>] /\ \A i \in 0 .. m : g[i] = f[i]
          /\ \A i \in 0 .. m + 1 : g[i] \in V
      BY <2>1, <2>2 DEF StepByStep
    <2> HIDE DEF g
    <2>4. ASSUME NEW i \in 1 .. m + 1 PROVE g[i] = step[<<i, g[i - 1]>>]
      <3>1. CASE i = m + 1
        <4>1. i - 1 = m /\ m \in 0 .. m
          BY <3>1
        <4> QED
          BY <2>2, <2>3, <3>1, <4>1
      <3>2. CASE i # m + 1
        <4>1. i \in 0 .. m /\ i \in 1 .. m /\ i - 1 \in 0 .. m
          BY <3>2
        <4> QED
          BY <2>1, <2>3, <4>1 DEF StepByStep
      <3> QED
        BY <3>1, <3>2
    <2>5. g[0] = start
      BY <2>1, <2>3 DEF StepByStep
    <2>6. StepByStep(g, V, start, step, m + 1)
      BY <2>3, <2>4, <2>5 DEF StepByStep
    <2> QED
      BY <2>6
  <1>3. Nat \subseteq T
    <2> HIDE DEF T
    <2> QED
      BY <1>1, <1>2, Induction
  <1> QED
    BY <1>3

(* What a recursion from n down to 1 computes, where the value of an index  *)
(* is made of that of a later one, next, and of start at the end.           *)
Jumps(f, V, start, next, step, k, n) ==
  /\ f[n + 1] = start /\ \A i \in k .. n + 1 : f[i] \in V
  /\ \A i \in k .. n : f[i] = step[<<i, f[next[i]]>>]

LEMMA JumpingFunction ==
  ASSUME NEW V, NEW start \in V, NEW n \in Nat,
         NEW next, \A i \in 1 .. n : next[i] \in i + 1 .. n + 1,
         NEW step, \A i \in 1 .. n : \A v \in V : step[<<i, v>>] \in V
  PROVE  \E f : Jumps(f, V, start, next, step, 1, n)
  <1> DEFINE T == {m \in Nat : m <= n => \E f : Jumps(f, V, start, next, step, n + 1 - m, n)}
  <1>1. 0 \in T
    <2> DEFINE f == [i \in n + 1 .. n + 1 |-> start]
    <2>1. f[n + 1] = start /\ \A i \in n + 1 .. n + 1 : f[i] \in V
      OBVIOUS
    <2> HIDE DEF f
    <2>2. Jumps(f, V, start, next, step, n + 1, n)
      BY <2>1 DEF Jumps
    <2>3. n + 1 - 0 = n + 1
      OBVIOUS
    <2> QED
      BY <2>2, <2>3
  <1>2. ASSUME NEW m \in Nat, m \in T PROVE m + 1 \in T
    <2> SUFFICES ASSUME m + 1 <= n
                 PROVE  \E f : Jumps(f, V, start, next, step, n + 1 - (m + 1), n)
      OBVIOUS
    <2>1. PICK f : Jumps(f, V, start, next, step, n + 1 - m, n)
      BY <1>2
    <2> PICK k : k = n - m
      OBVIOUS
    <2>2. k \in 1 .. n /\ n + 1 - m = k + 1 /\ n + 1 - (m + 1) = k
      OBVIOUS
    <2>3. Jumps(f, V, start, next, step, k + 1, n)
      BY <2>1, <2>2
    <2>4. next[k] \in k + 1 .. n + 1 /\ f[next[k]] \in V /\ step[<<k, f[next[k]]>>] \in V
      BY <2>2, <2>3 DEF Jumps
    <2> DEFINE g == [i \in k .. n + 1 |-> IF i = k THEN step[<<k, f[next[k]]>>] ELSE f[i]]
    <2>5. /\ g[k] = step[<<k, f[next[k]]>>] /\ \A i \in k + 1 .. n + 1 : g[i] = f[i]
      BY <2>2
    <2> HIDE DEF g
    <2>6. \A i \in k .. n + 1 : i = k \/ i \in k + 1 .. n + 1
      BY <2>2
    <2>7. \A i \in k .. n + 1 : g[i] \in V
      BY <2>3, <2>4, <2>5, <2>6 DEF Jumps
    <2>8. g[n + 1] = start
      BY <2>2, <2>3, <2>5 DEF Jumps
    <2>9. ASSUME NEW i \in k .. n PROVE g[i] = step[<<i, g[next[i]]>>]
      <3>1. i \in 1 .. n /\ next[i] \in k + 1 .. n + 1
        <4>1. i \in 1 .. n /\ next[i] \in i + 1 .. n + 1
          BY <2>2
        <4> QED
          BY <2>2, <4>1
      <3>2. g[next[i]] = f[next[i]]
        BY <2>5, <3>1
      <3>3. CASE i = k
        BY <2>5, <3>2, <3>3
      <3>4. CASE i # k
        <4>1. i \in k + 1 .. n /\ i \in k + 1 .. n + 1
          BY <2>2, <3>4
        <4> QED
          BY <2>3, <2>5, <3>2, <4>1 DEF Jumps
      <3> QED
        BY <3>3, <3>4
    <2>10. Jumps(g, V, start, next, step, k, n)
      BY <2>7, <2>8, <2>9 DEF Jumps
    <2> QED
      BY <2>2, <2>10
  <1> HIDE DEF T
  <1>3. Nat \subseteq T
    BY ONLY <1>1, <1>2, Induction
  <1>4. n \in T /\ n <= n /\ n + 1 - n = 1
    BY <1>3
  <1> QED
    BY <1>4 DEF T

(* Two parts of a sequence that follow one another.                         *)
LEMMA PartsJoin ==
  ASSUME NEW F, NEW s \in Seq(F), NEW a \in 0 .. Len(s), NEW b \in a .. Len(s)
  PROVE  /\ SubSeq(s, 1, a) \o SubSeq(s, a + 1, b) = SubSeq(s, 1, b)
         /\ SubSeq(s, 1, b) \in Seq(F)
  <1>0. a \in Int /\ b \in Int /\ Len(s) \in Nat /\ 0 <= a /\ a <= b /\ b <= Len(s) /\ b \in 0 .. Len(s)
    OBVIOUS
  <1> DEFINE p == SubSeq(s, 1, a)
             q == SubSeq(s, a + 1, b)
             r == SubSeq(s, 1, b)
  <1>1. p \in Seq(F) /\ Len(p) = a /\ \A i \in 1 .. a : p[i] = s[i]
    BY SubSeqElements
  <1>2. r \in Seq(F) /\ Len(r) = b /\ \A i \in 1 .. b : r[i] = s[i]
    BY <1>0, SubSeqElements
  <1>3. q \in Seq(F) /\ Len(q) = b - a /\ \A i \in 1 .. b - a : q[i] = s[a + i]
    <2>1. \A i \in a + 1 .. b : s[i] \in F
      BY <1>0
    <2>2. a + 1 \in Int
      BY <1>0
    <2>3. /\ SubSeq(s, a + 1, b) \in Seq(F)
          /\ Len(SubSeq(s, a + 1, b)) = IF a + 1 <= b THEN b - (a + 1) + 1 ELSE 0
          /\ \A i \in 1 .. (b - (a + 1) + 1) : SubSeq(s, a + 1, b)[i] = s[(a + 1) + i - 1]
      BY ONLY <1>0, <2>1, <2>2, SubSeqProperties
    <2>4. b - (a + 1) + 1 = b - a /\ (~(a + 1 <= b) => b - a = 0)
      BY <1>0
    <2>5. \A i \in 1 .. b - a : (a + 1) + i - 1 = a + i
      BY <1>0
    <2> QED
      BY <2>3, <2>4, <2>5
  <1> HIDE DEF p, q, r
  <1>4. /\ p \o q \in Seq(F) /\ Len(p \o q) = Len(p) + Len(q)
        /\ \A i \in 1 .. Len(p) : (p \o q)[i] = p[i]
        /\ \A i \in (Len(p) + 1) .. (Len(p) + Len(q)) : (p \o q)[i] = q[i - Len(p)]
    BY ONLY <1>1, <1>3, ConcatElements
  <1>5. Len(p \o q) = b
    BY <1>0, <1>1, <1>3, <1>4
  <1>6. ASSUME NEW i \in 1 .. b PROVE (p \o q)[i] = r[i]
    <2>1. CASE i <= a
      <3>1. i \in 1 .. a /\ i \in 1 .. Len(p)
        BY <1>1, <2>1
      <3> QED
        BY <1>1, <1>2, <1>4, <3>1
    <2>2. CASE ~(i <= a)
      <3>1. /\ i \in (Len(p) + 1) .. (Len(p) + Len(q)) /\ i - Len(p) \in 1 .. b - a
            /\ a + (i - Len(p)) = i
        BY <1>0, <1>1, <1>3, <2>2
      <3>2. (p \o q)[i] = q[i - Len(p)] /\ q[i - Len(p)] = s[a + (i - Len(p))]
        BY <1>3, <1>4, <3>1
      <3> QED
        BY <1>2, <3>1, <3>2
    <2> QED
      BY <2>1, <2>2
  <1>7. p \o q = r
    BY <1>0, <1>2, <1>4, <1>5, <1>6, SeqEqual
  <1> QED
    BY <1>2, <1>7 DEF p, q, r
=============================================================================
