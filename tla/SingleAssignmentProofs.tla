----------------------- MODULE SingleAssignmentProofs -----------------------
(***************************************************************************)
(* T040 and T102 for every number of functions, channels and scripts: the  *)
(* counts of flow.rs are attained by execution paths, the recursion of     *)
(* inlined_counts is guarded, its memo exact without call cycles and low   *)
(* with them, no channel is reported that no path assigns twice, and none  *)
(* that is assigned twice by two functions on a path is missed.            *)
(*                                                                         *)
(* A body is defined from its last node backwards, so the proofs about     *)
(* bodies go by the least position at which a claim could fail: Backward   *)
(* and Forward state that argument once, and Solved that a function        *)
(* defined backwards exists.                                               *)
(***************************************************************************)
EXTENDS SingleAssignment, SequenceTheorems, FiniteSetTheorems,
        WellFoundedInduction, TLAPS

(* A non-empty set of naturals has a least element.                        *)
LEMMA Least ==
  ASSUME NEW T, T \subseteq Nat, T # {}
  PROVE  \E x \in T : \A y \in T : x <= y
<1> DEFINE R == OpToRel(<, Nat)
<1>1. IsWellFoundedOn(R, Nat)
  BY NatLessThanWellFounded
<1>2. \A x, y \in Nat : y < x => <<y, x>> \in R
  BY DEF OpToRel
<1> HIDE DEF R
<1>3. PICK x \in T : \A y \in T : ~(<<y, x>> \in R)
  BY <1>1, WFMin
<1>4. \A y \in T : ~(y < x)
  BY <1>2, <1>3
<1> QED BY <1>4

(* What holds of a position when it holds of all those behind it holds of  *)
(* all of them.                                                            *)
LEMMA Backward ==
  ASSUME NEW n \in Nat, NEW P,
         \A i \in 1..n : (\A j \in i + 1..n : j \in P) => i \in P
  PROVE  1..n \subseteq P
<1> DEFINE T == {d \in 0..n : n - d \in 1..n /\ n - d \notin P}
<1> SUFFICES ASSUME T # {} PROVE FALSE
  <2>1. ASSUME NEW i \in 1..n PROVE n - (n - i) = i /\ n - i \in 0..n
    OBVIOUS
  <2> QED BY <2>1
<1>1. T \subseteq Nat
  OBVIOUS
<1>2. PICK d \in T : \A y \in T : d <= y
  <2> HIDE DEF T
  <2> QED BY <1>1, Least
<1>3. ASSUME NEW j \in n - d + 1..n PROVE j \in P
  <2>1. n - j \in 0..n /\ n - (n - j) = j /\ n - j < d /\ j \in 1..n
    BY <1>2
  <2> QED BY <1>2, <2>1
<1> QED BY <1>2, <1>3

(* What holds of a position when it holds of all those in front of it      *)
(* holds of all of them.                                                   *)
LEMMA Forward ==
  ASSUME NEW n \in Nat, NEW P,
         \A i \in 1..n : (\A j \in 1..i - 1 : j \in P) => i \in P
  PROVE  1..n \subseteq P
<1> DEFINE T == {i \in 1..n : i \notin P}
<1> SUFFICES ASSUME T # {} PROVE FALSE
  OBVIOUS
<1>1. T \subseteq Nat
  OBVIOUS
<1>2. PICK i \in T : \A y \in T : i <= y
  <2> HIDE DEF T
  <2> QED BY <1>1, Least
<1>3. ASSUME NEW j \in 1..i - 1 PROVE j \in P
  BY <1>2
<1> QED BY <1>2, <1>3

(* A function defined from its values behind each position exists.         *)
Recursive(n, S, F) ==
  /\ F \in [1..n -> [[1..n -> S] -> S]]
  /\ \A i \in 1..n : \A g, h \in [1..n -> S] :
       (\A j \in i + 1..n : g[j] = h[j]) => F[i][g] = F[i][h]

Solves(n, F, g) == \A i \in 1..n : g[i] = F[i][g]

(* A function each of whose values is made of later ones exists.           *)
LEMMA Solved ==
  ASSUME NEW n \in Nat, NEW S, S # {}, NEW F, Recursive(n, S, F)
  PROVE  \E g \in [1..n -> S] : Solves(n, F, g)
<1>s. PICK s \in S : TRUE
  OBVIOUS
<1>r. /\ F \in [1..n -> [[1..n -> S] -> S]]
      /\ \A i \in 1..n : \A g, h \in [1..n -> S] :
           (\A j \in i + 1..n : g[j] = h[j]) => F[i][g] = F[i][h]
  BY DEF Recursive
<1> DEFINE Good(m) == \E g \in [1..n -> S] : \A i \in m..n : g[i] = F[i][g]
           P == {m \in 1..n : Good(m)}
<1>1. ASSUME NEW m \in 1..n, \A j \in m + 1..n : j \in P
      PROVE  m \in P
  <2>1. PICK g \in [1..n -> S] : \A i \in m + 1..n : g[i] = F[i][g]
    <3>1. CASE m = n
      <4>1. [i \in 1..n |-> s] \in [1..n -> S]
        BY <1>s
      <4>2. m + 1..n = {}
        BY <3>1
      <4> QED BY <4>1, <4>2
    <3>2. CASE m # n
      <4>1. m + 1 \in m + 1..n
        BY <3>2
      <4> QED BY <1>1, <4>1
    <3> QED BY <3>1, <3>2
  <2>2. F[m][g] \in S
    BY <1>r
  <2>3. PICK h \in [1..n -> S] : h = [g EXCEPT ![m] = F[m][g]]
    BY <2>2
  <2>4. \A i \in m..n : i \in 1..n /\ \A j \in i + 1..n : h[j] = g[j]
    BY <2>3
  <2>5. \A i \in m..n : F[i][h] = F[i][g]
    BY <1>r, <2>4
  <2>6. ASSUME NEW i \in m..n PROVE h[i] = F[i][h]
    <3>1. CASE i = m
      BY <2>3, <2>5, <3>1
    <3>2. CASE i # m
      <4>1. i \in m + 1..n /\ i \in 1..n
        BY <3>2
      <4>2. h[i] = g[i]
        BY <2>3, <3>2, <4>1
      <4> QED BY <2>1, <2>5, <4>1, <4>2
    <3> QED BY <3>1, <3>2
  <2> QED BY <2>6
<1>2. 1..n \subseteq P
  <2> HIDE DEF P
  <2> QED BY <1>1, Backward
<1>3. CASE n = 0
  <2>1. [i \in 1..n |-> s] \in [1..n -> S] /\ 1..n = {}
    BY <1>s, <1>3
  <2> QED BY <2>1 DEF Solves
<1>4. CASE n # 0
  <2>1. 1 \in 1..n
    BY <1>4
  <2>2. Good(1)
    BY <1>2, <2>1
  <2> QED BY <2>2 DEF Solves
<1> QED BY <1>3, <1>4

(* Values accumulated one step after the other, from the last position     *)
(* backwards and from the first forwards.                                  *)
Accumulates(n, base, step, g) ==
  g[n + 1] = base /\ \A k \in 1..n : g[k] = step[k][g[k + 1]]

(* So does a fold from the right,                                          *)
LEMMA Accumulated ==
  ASSUME NEW n \in Nat, NEW S, NEW base \in S, NEW step \in [1..n -> [S -> S]]
  PROVE  \E g \in [1..n + 1 -> S] : Accumulates(n, base, step, g)
<1> DEFINE F == [k \in 1..n + 1 |-> [g \in [1..n + 1 -> S] |->
                   IF k = n + 1 THEN base ELSE step[k][g[k + 1]]]]
<1>1. ASSUME NEW k \in 1..n + 1, NEW g \in [1..n + 1 -> S]
      PROVE  /\ F[k][g] = IF k = n + 1 THEN base ELSE step[k][g[k + 1]]
             /\ F[k][g] \in S
  <2>1. F[k][g] = IF k = n + 1 THEN base ELSE step[k][g[k + 1]]
    OBVIOUS
  <2>2. k # n + 1 => k \in 1..n /\ k + 1 \in 1..n + 1
    OBVIOUS
  <2> HIDE DEF F
  <2> QED BY <2>1, <2>2
<1>2. Recursive(n + 1, S, F)
  <2>1. F \in [1..n + 1 -> [[1..n + 1 -> S] -> S]]
    <3>1. \A k \in 1..n + 1, g \in [1..n + 1 -> S] :
            (IF k = n + 1 THEN base ELSE step[k][g[k + 1]]) \in S
      BY <1>1
    <3> QED BY <3>1
  <2>2. ASSUME NEW k \in 1..n + 1, NEW g \in [1..n + 1 -> S], NEW h \in [1..n + 1 -> S],
               \A j \in k + 1..n + 1 : g[j] = h[j]
        PROVE  F[k][g] = F[k][h]
    <3>1. k # n + 1 => k + 1 \in k + 1..n + 1
      OBVIOUS
    <3> HIDE DEF F
    <3> QED BY <1>1, <2>2, <3>1
  <2> HIDE DEF F
  <2> QED BY <2>1, <2>2 DEF Recursive
<1>3. PICK g \in [1..n + 1 -> S] : Solves(n + 1, F, g)
  <2> HIDE DEF F
  <2> QED BY <1>2, Solved
<1>4. n + 1 \in 1..n + 1 /\ \A k \in 1..n : k \in 1..n + 1 /\ k # n + 1
  OBVIOUS
<1> HIDE DEF F
<1>5. \A k \in 1..n + 1 : g[k] = IF k = n + 1 THEN base ELSE step[k][g[k + 1]]
  BY <1>1, <1>3 DEF Solves
<1>6. g[n + 1] = base
  BY <1>4, <1>5
<1>7. ASSUME NEW k \in 1..n PROVE g[k] = step[k][g[k + 1]]
  BY <1>4, <1>5
<1> QED BY <1>3, <1>6, <1>7 DEF Accumulates

AccumulatesForward(n, base, step, h) ==
  h[0] = base /\ \A k \in 1..n : h[k] = step[k][h[k - 1]]

(* and one from the left.                                                  *)
LEMMA AccumulatedForward ==
  ASSUME NEW n \in Nat, NEW S, NEW base \in S, NEW step \in [1..n -> [S -> S]]
  PROVE  \E h \in [0..n -> S] : AccumulatesForward(n, base, step, h)
<1>1. PICK back \in [1..n -> [S -> S]] : \A k \in 1..n : back[k] = step[n + 1 - k]
  <2>1. \A k \in 1..n : n + 1 - k \in 1..n
    OBVIOUS
  <2>2. [k \in 1..n |-> step[n + 1 - k]] \in [1..n -> [S -> S]]
    BY <2>1
  <2> QED BY <2>2
<1>2. PICK g \in [1..n + 1 -> S] :
        g[n + 1] = base /\ \A k \in 1..n : g[k] = back[k][g[k + 1]]
  <2>1. \E g \in [1..n + 1 -> S] : Accumulates(n, base, back, g)
    BY <1>1, Accumulated
  <2> QED BY <2>1 DEF Accumulates
<1>3. PICK h \in [0..n -> S] : \A k \in 0..n : h[k] = g[n + 1 - k]
  <2>1. \A k \in 0..n : n + 1 - k \in 1..n + 1
    OBVIOUS
  <2>2. [k \in 0..n |-> g[n + 1 - k]] \in [0..n -> S]
    BY <2>1
  <2> QED BY <2>2
<1>4. ASSUME NEW k \in 1..n PROVE h[k] = step[k][h[k - 1]]
  <2>1. n + 1 - k \in 1..n /\ n + 1 - (n + 1 - k) = k /\ k - 1 \in 0..n /\ k \in 0..n
    OBVIOUS
  <2>2. n + 1 - k + 1 = n + 1 - (k - 1)
    OBVIOUS
  <2>3. g[n + 1 - k] = step[k][g[n + 1 - k + 1]]
    BY <1>1, <1>2, <2>1
  <2> QED BY <1>3, <2>1, <2>2, <2>3
<1>5. h[0] = base
  <2>1. 0 \in 0..n /\ n + 1 - 0 = n + 1
    OBVIOUS
  <2> QED BY <1>2, <1>3, <2>1
<1> QED BY <1>3, <1>4, <1>5 DEF AccumulatesForward
-----------------------------------------------------------------------------
(* Counters and tallies.                                                   *)
(* A function on 1..n is a sequence.                                       *)
LEMMA Listed ==
  ASSUME NEW n \in Nat, NEW S, NEW f, f = [k \in 1..n |-> f[k]], \A k \in 1..n : f[k] \in S
  PROVE  f \in Seq(S) /\ Len(f) = n /\ DOMAIN f = 1..n
<1>1. f \in [1..n -> S]
  OBVIOUS
<1>2. DOMAIN f = 1..n
  BY <1>1
<1>3. f \in Seq(S)
  BY <1>1
<1>4. Len(f) = n
  BY <1>2, <1>3, LenProperties
<1> QED BY <1>2, <1>3, <1>4

(* The addition of two counters, the product, and the largest of some.     *)
LEMMA Wraps ==
  ASSUME NEW x \in 0..CounterMax, NEW y \in 0..CounterMax
  PROVE  /\ (x + y) % (CounterMax + 1) \in 0..CounterMax
         /\ (x + y) % (CounterMax + 1) <= x + y
         /\ x + y <= CounterMax => (x + y) % (CounterMax + 1) = x + y
<1>1. CounterMax \in Nat
  BY FlowAssumption
<1>2. (x + y) % (CounterMax + 1) \in 0..CounterMax
  BY <1>1
<1>3. x + y <= CounterMax => (x + y) % (CounterMax + 1) = x + y
  BY <1>1
<1> QED BY <1>1, <1>2, <1>3

(* The counts of what assigns nothing.                                     *)
LEMMA ZeroTally == Zero \in Tally /\ \A c \in Channel : Zero[c] = 0
BY FlowAssumption DEF Zero, Tally

(* The sum of two counts: never more than the sum, and the sum if it fits. *)
LEMMA MergeSeqFacts ==
  ASSUME NEW s \in Tally, NEW t \in Tally
  PROVE  /\ MergeSeq(s, t) \in Tally
         /\ \A c \in Channel :
              /\ MergeSeq(s, t)[c] <= s[c] + t[c]
              /\ s[c] + t[c] <= CounterMax => MergeSeq(s, t)[c] = s[c] + t[c]
<1>1. ASSUME NEW c \in Channel
      PROVE  /\ MergeSeq(s, t)[c] \in 0..CounterMax
             /\ MergeSeq(s, t)[c] <= s[c] + t[c]
             /\ s[c] + t[c] <= CounterMax => MergeSeq(s, t)[c] = s[c] + t[c]
  <2>1. PICK x \in 0..CounterMax, y \in 0..CounterMax : x = s[c] /\ y = t[c]
    BY DEF Tally
  <2>2. MergeSeq(s, t)[c] = (x + y) % (CounterMax + 1)
    BY <2>1 DEF MergeSeq
  <2> QED BY <2>1, <2>2, Wraps
<1>2. MergeSeq(s, t) = [c \in Channel |-> MergeSeq(s, t)[c]]
  BY DEF MergeSeq
<1> QED BY <1>1, <1>2 DEF Tally

(* The largest of a set of counters is one of them.                        *)
LEMMA MaxFacts ==
  ASSUME NEW S \in SUBSET (0..CounterMax), S # {}
  PROVE  Max(S) \in S /\ \A y \in S : y <= Max(S)
<1>m. CounterMax \in Nat
  BY FlowAssumption
<1> DEFINE T == {CounterMax - x : x \in S}
<1>1. T \subseteq Nat /\ T # {}
  <2>1. PICK x \in S : x \in 0..CounterMax
    OBVIOUS
  <2>2. CounterMax - x \in T
    OBVIOUS
  <2>3. ASSUME NEW y \in S PROVE CounterMax - y \in Nat
    <3>1. y \in 0..CounterMax
      OBVIOUS
    <3> QED BY <1>m, <3>1
  <2> QED BY <2>2, <2>3
<1>2. PICK d \in T : \A y \in T : d <= y
  <2> HIDE DEF T
  <2> QED BY <1>1, Least
<1>3. PICK x \in S : d = CounterMax - x
  BY <1>2
<1>4. \A y \in S : x >= y
  <2>1. \A y \in S : CounterMax - y \in T
    OBVIOUS
  <2>2. \A y \in S : d <= CounterMax - y
    BY <1>2, <2>1
  <2> QED BY <1>m, <1>3, <2>2
<1>5. \E z \in S : \A y \in S : z >= y
  BY <1>4
<1>6. Max(S) \in S /\ \A y \in S : Max(S) >= y
  BY <1>5 DEF Max
<1> QED BY <1>6

(* What excludes one another counts as often as one of its parts.          *)
LEMMA ExclusiveFacts ==
  ASSUME NEW n \in Nat, NEW facts, DOMAIN facts = 1..n, \A k \in 1..n : facts[k] \in Tally
  PROVE  /\ Exclusive(facts) \in Tally
         /\ \A c \in Channel :
              /\ Exclusive(facts)[c] = 0 \/ \E k \in 1..n : Exclusive(facts)[c] = facts[k][c]
              /\ \A k \in 1..n : facts[k][c] <= Exclusive(facts)[c]
<1>m. CounterMax \in Nat
  BY FlowAssumption
<1>1. ASSUME NEW c \in Channel
      PROVE  /\ Exclusive(facts)[c] \in 0..CounterMax
             /\ Exclusive(facts)[c] = 0 \/ \E k \in 1..n : Exclusive(facts)[c] = facts[k][c]
             /\ \A k \in 1..n : facts[k][c] <= Exclusive(facts)[c]
  <2> DEFINE S == {0} \cup {facts[k][c] : k \in DOMAIN facts}
  <2>1. S \in SUBSET (0..CounterMax) /\ S # {}
    BY <1>m DEF Tally
  <2>2. Exclusive(facts)[c] = Max(S)
    BY DEF Exclusive
  <2>3. Max(S) \in S /\ \A y \in S : y <= Max(S)
    <3> HIDE DEF S
    <3> QED BY <2>1, MaxFacts
  <2> QED BY <2>1, <2>2, <2>3
<1>2. Exclusive(facts) = [c \in Channel |-> Exclusive(facts)[c]]
  BY DEF Exclusive
<1> QED BY <1>1, <1>2 DEF Tally

(* One assignment counts once, for its channel.                            *)
LEMMA OnceFacts ==
  ASSUME NEW target
  PROVE  /\ Once(target) \in Tally
         /\ \A c \in Channel : Once(target)[c] = IF c = target THEN 1 ELSE 0
BY FlowAssumption DEF Once, Tally

(* The product of a count: never more than it, and the product if it fits. *)
LEMMA ScaledFacts ==
  ASSUME NEW t \in Tally, NEW k \in Nat
  PROVE  /\ Scaled(t, k) \in Tally
         /\ \A c \in Channel :
              /\ Scaled(t, k)[c] <= t[c] * k
              /\ t[c] * k <= CounterMax => Scaled(t, k)[c] = t[c] * k
<1>m. CounterMax \in Nat
  BY FlowAssumption
<1>1. ASSUME NEW c \in Channel
      PROVE  /\ Scaled(t, k)[c] \in 0..CounterMax
             /\ Scaled(t, k)[c] <= t[c] * k
             /\ t[c] * k <= CounterMax => Scaled(t, k)[c] = t[c] * k
  <2>1. PICK x \in 0..CounterMax : x = t[c]
    BY DEF Tally
  <2>2. PICK y \in Nat : y = x * k
    BY <1>m
  <2>3. Scaled(t, k)[c] = IF y > CounterMax THEN CounterMax ELSE y
    BY <2>1, <2>2 DEF Scaled, SaturatingMul
  <2> QED BY <1>m, <2>1, <2>2, <2>3
<1>2. Scaled(t, k) = [c \in Channel |-> Scaled(t, k)[c]]
  BY DEF Scaled
<1> QED BY <1>1, <1>2 DEF Tally

(* InSequence as its partial sums from each position on.                   *)
Sums(facts, n, g) ==
  g[n + 1] = Zero /\ \A k \in 1..n : g[k] = MergeSeq(facts[k], g[k + 1])

SumsOf(facts, g) ==
  g = [k \in 1..Len(facts) + 1 |->
         IF k > Len(facts) THEN Zero ELSE MergeSeq(facts[k], g[k + 1])]

(* The sums from each position on exist,                                   *)
LEMMA SumsExist ==
  ASSUME NEW facts \in Seq(Tally)
  PROVE  \E g : SumsOf(facts, g)
<1>1. PICK n \in Nat : n = Len(facts) /\ DOMAIN facts = 1..n
  BY LenProperties
<1>2. \A k \in 1..n : facts[k] \in Tally
  BY <1>1
<1>3. PICK step \in [1..n -> [Tally -> Tally]] :
        \A k \in 1..n : \A t \in Tally : step[k][t] = MergeSeq(facts[k], t)
  <2>1. \A k \in 1..n : \A t \in Tally : MergeSeq(facts[k], t) \in Tally
    BY <1>2, MergeSeqFacts
  <2>2. [k \in 1..n |-> [t \in Tally |-> MergeSeq(facts[k], t)]] \in [1..n -> [Tally -> Tally]]
    BY <2>1
  <2> QED BY <2>2
<1>4. PICK g \in [1..n + 1 -> Tally] : Accumulates(n, Zero, step, g)
  BY ZeroTally, Accumulated
<1>5. ASSUME NEW k \in 1..n + 1
      PROVE  g[k] = IF k > n THEN Zero ELSE MergeSeq(facts[k], g[k + 1])
  <2>1. CASE k = n + 1
    BY <1>4, <2>1 DEF Accumulates
  <2>2. CASE k # n + 1
    <3>1. k \in 1..n /\ ~(k > n) /\ k + 1 \in 1..n + 1
      BY <2>2
    <3>2. g[k + 1] \in Tally
      BY <3>1
    <3> QED BY <1>3, <1>4, <3>1, <3>2 DEF Accumulates
  <2> QED BY <2>1, <2>2
<1>6. g = [k \in 1..n + 1 |-> IF k > n THEN Zero ELSE MergeSeq(facts[k], g[k + 1])]
  BY <1>4, <1>5
<1> QED BY <1>1, <1>6 DEF SumsOf

(* and InSequence is the first of them.                                    *)
LEMMA SequenceFacts ==
  ASSUME NEW facts \in Seq(Tally), NEW n \in Nat, n = Len(facts)
  PROVE  /\ InSequence(facts) \in Tally
         /\ \E g \in [1..n + 1 -> Tally] :
              InSequence(facts) = g[1] /\ SumsFrom(facts) = g /\ Sums(facts, n, g)
<1>1. DOMAIN facts = 1..n /\ \A k \in 1..n : facts[k] \in Tally
  BY LenProperties
<1>2. PICK g : SumsOf(facts, g) /\ InSequence(facts) = g[1] /\ SumsFrom(facts) = g
  <2>1. SumsFrom(facts) = (CHOOSE g : SumsOf(facts, g)) /\ InSequence(facts) = SumsFrom(facts)[1]
    BY DEF InSequence, SumsFrom, SumsOf
  <2> QED BY <2>1, SumsExist
<1>3. /\ DOMAIN g = 1..n + 1 /\ g = [k \in 1..n + 1 |-> g[k]]
      /\ \A k \in 1..n + 1 : g[k] = IF k > n THEN Zero ELSE MergeSeq(facts[k], g[k + 1])
  BY <1>2 DEF SumsOf
<1> DEFINE P == {k \in 1..n + 1 : g[k] \in Tally}
<1>4. ASSUME NEW k \in 1..n + 1, \A j \in k + 1..n + 1 : j \in P
      PROVE  k \in P
  <2>1. CASE k = n + 1
    <3>1. k > n
      BY <2>1
    <3>2. g[k] = Zero
      BY <1>3, <3>1
    <3> QED BY <3>2, ZeroTally
  <2>2. CASE k # n + 1
    <3>1. k \in 1..n /\ ~(k > n) /\ k + 1 \in k + 1..n + 1
      BY <2>2
    <3>2. g[k + 1] \in Tally
      BY <1>4, <3>1
    <3> QED BY <1>1, <1>3, <3>1, <3>2, MergeSeqFacts
  <2> QED BY <2>1, <2>2
<1>5. 1..n + 1 \subseteq P
  <2>1. PICK m \in Nat : m = n + 1
    OBVIOUS
  <2> HIDE DEF P
  <2>2. \A k \in 1..m : (\A j \in k + 1..m : j \in P) => k \in P
    BY <1>4, <2>1
  <2>3. m \in Nat
    BY <2>1
  <2>4. 1..m \subseteq P
    BY <2>2, <2>3, Backward
  <2> QED BY <2>1, <2>4
<1>6. g \in [1..n + 1 -> Tally]
  BY <1>3, <1>5
<1>7. Sums(facts, n, g)
  <2>1. n + 1 \in 1..n + 1 /\ n + 1 > n /\ \A k \in 1..n : k \in 1..n + 1 /\ ~(k > n)
    OBVIOUS
  <2> QED BY <1>3, <2>1 DEF Sums
<1>8. 1 \in 1..n + 1
  OBVIOUS
<1> QED BY <1>2, <1>5, <1>6, <1>7, <1>8
-----------------------------------------------------------------------------
(* Paths.  Doing nothing is one.                                           *)
LEMMA StillIsPath ==
  /\ Still \in Path /\ {Still} \in SUBSET Path
  /\ \A c \in Channel : Still[c].times = 0
BY DEF Still, Path

(* The path of one assignment.                                             *)
LEMMA WriteFacts ==
  ASSUME NEW c \in Channel, NEW f \in Function
  PROVE  /\ Write(c, f) \in Path
         /\ Write(c, f)[c].times = 1
BY StillIsPath DEF Write, Still, Path

(* One path after the other.                                               *)
LEMMA BothFacts ==
  ASSUME NEW p \in Path, NEW q \in Path
  PROVE  /\ Both(p, q) \in Path
         /\ \A c \in Channel : Both(p, q)[c].times = p[c].times + q[c].times
<1>1. ASSUME NEW c \in Channel
      PROVE  /\ p[c].times + q[c].times \in Nat
             /\ p[c].by \cup q[c].by \in SUBSET Function
  BY DEF Path
<1>2. \A c \in Channel :
        [times |-> p[c].times + q[c].times, by |-> p[c].by \cup q[c].by]
          \in [times : Nat, by : SUBSET Function]
  BY <1>1
<1> QED BY <1>2 DEF Both, Path

(* Sets of paths stay sets of paths.                                       *)
LEMMA ThenTyped ==
  ASSUME NEW P \in SUBSET Path, NEW Q \in SUBSET Path
  PROVE  Then(P, Q) \in SUBSET Path
BY BothFacts DEF Then

(* InTurn as the sets of paths from each position on.                      *)
Turns(sets, n, g) ==
  g[n + 1] = {Still} /\ \A k \in 1..n : g[k] = Then(sets[k], g[k + 1])

TurnsOf(sets, g) ==
  g = [k \in 1..Len(sets) + 1 |->
         IF k > Len(sets) THEN {Still} ELSE Then(sets[k], g[k + 1])]

(* The paths from each position on exist,                                  *)
LEMMA TurnsExist ==
  ASSUME NEW sets \in Seq(SUBSET Path)
  PROVE  \E g : TurnsOf(sets, g)
<1>1. PICK n \in Nat : n = Len(sets) /\ DOMAIN sets = 1..n
  BY LenProperties
<1>2. \A k \in 1..n : sets[k] \in SUBSET Path
  BY <1>1
<1>3. PICK step \in [1..n -> [SUBSET Path -> SUBSET Path]] :
        \A k \in 1..n : \A Q \in SUBSET Path : step[k][Q] = Then(sets[k], Q)
  <2>1. \A k \in 1..n : \A Q \in SUBSET Path : Then(sets[k], Q) \in SUBSET Path
    BY <1>2, ThenTyped
  <2>2. [k \in 1..n |-> [Q \in SUBSET Path |-> Then(sets[k], Q)]]
          \in [1..n -> [SUBSET Path -> SUBSET Path]]
    BY <2>1
  <2> QED BY <2>2
<1>4. PICK g \in [1..n + 1 -> SUBSET Path] : Accumulates(n, {Still}, step, g)
  <2>1. PICK S : S = SUBSET Path
    OBVIOUS
  <2>2. {Still} \in S /\ step \in [1..n -> [S -> S]]
    BY <1>3, <2>1, StillIsPath
  <2>3. \E g \in [1..n + 1 -> S] : Accumulates(n, {Still}, step, g)
    BY <2>2, Accumulated
  <2> QED BY <2>1, <2>3
<1>5. ASSUME NEW k \in 1..n + 1
      PROVE  g[k] = IF k > n THEN {Still} ELSE Then(sets[k], g[k + 1])
  <2>1. CASE k = n + 1
    <3>1. k > n
      BY <2>1
    <3>2. g[k] = {Still}
      BY <1>4, <2>1 DEF Accumulates
    <3> QED BY <3>1, <3>2
  <2>2. CASE k # n + 1
    <3>1. k \in 1..n /\ ~(k > n) /\ k + 1 \in 1..n + 1
      BY <2>2
    <3>2. g[k + 1] \in SUBSET Path
      BY <3>1
    <3> QED BY <1>3, <1>4, <3>1, <3>2 DEF Accumulates
  <2> QED BY <2>1, <2>2
<1>6. g = [k \in 1..n + 1 |-> IF k > n THEN {Still} ELSE Then(sets[k], g[k + 1])]
  BY <1>4, <1>5
<1> QED BY <1>1, <1>6 DEF TurnsOf

(* and InTurn is the first set of them.                                    *)
LEMMA TurnFacts ==
  ASSUME NEW sets \in Seq(SUBSET Path), NEW n \in Nat, n = Len(sets)
  PROVE  /\ InTurn(sets) \in SUBSET Path
         /\ \E g \in [1..n + 1 -> SUBSET Path] : InTurn(sets) = g[1] /\ Turns(sets, n, g)
<1>1. DOMAIN sets = 1..n /\ \A k \in 1..n : sets[k] \in SUBSET Path
  BY LenProperties
<1>2. PICK g : TurnsOf(sets, g) /\ InTurn(sets) = g[1]
  <2>1. InTurn(sets) = (CHOOSE g : TurnsOf(sets, g))[1]
    BY DEF InTurn, TurnsOf
  <2> QED BY <2>1, TurnsExist
<1>3. /\ DOMAIN g = 1..n + 1 /\ g = [k \in 1..n + 1 |-> g[k]]
      /\ \A k \in 1..n + 1 : g[k] = IF k > n THEN {Still} ELSE Then(sets[k], g[k + 1])
  BY <1>2 DEF TurnsOf
<1> DEFINE P == {k \in 1..n + 1 : g[k] \in SUBSET Path}
<1>4. ASSUME NEW k \in 1..n + 1, \A j \in k + 1..n + 1 : j \in P
      PROVE  k \in P
  <2>1. CASE k = n + 1
    <3>1. k > n
      BY <2>1
    <3>2. g[k] = {Still}
      BY <1>3, <3>1
    <3> QED BY <3>2, StillIsPath
  <2>2. CASE k # n + 1
    <3>1. k \in 1..n /\ ~(k > n) /\ k + 1 \in k + 1..n + 1
      BY <2>2
    <3>2. g[k + 1] \in SUBSET Path
      BY <1>4, <3>1
    <3>3. g[k] = Then(sets[k], g[k + 1])
      BY <1>3, <3>1
    <3> QED BY <1>1, <3>1, <3>2, <3>3, ThenTyped
  <2> QED BY <2>1, <2>2
<1>5. 1..n + 1 \subseteq P
  <2>1. PICK m \in Nat : m = n + 1
    OBVIOUS
  <2> HIDE DEF P
  <2>2. \A k \in 1..m : (\A j \in k + 1..m : j \in P) => k \in P
    BY <1>4, <2>1
  <2>3. m \in Nat
    BY <2>1
  <2>4. 1..m \subseteq P
    BY <2>2, <2>3, Backward
  <2> QED BY <2>1, <2>4
<1>6. g \in [1..n + 1 -> SUBSET Path]
  BY <1>3, <1>5
<1>7. Turns(sets, n, g)
  <2>1. n + 1 \in 1..n + 1 /\ n + 1 > n /\ \A k \in 1..n : k \in 1..n + 1 /\ ~(k > n)
    OBVIOUS
  <2> QED BY <1>3, <2>1 DEF Turns
<1>8. 1 \in 1..n + 1
  OBVIOUS
<1> QED BY <1>2, <1>5, <1>6, <1>7, <1>8

(* Some path of P assigns each channel as often as t says.                 *)
Attains(P, t) == \A c \in Channel : \E p \in P : t[c] <= p[c].times

(* What two sets of paths attain, they attain together one after the other,*)
LEMMA AttainsThen ==
  ASSUME NEW P \in SUBSET Path, NEW Q \in SUBSET Path, NEW s \in Tally, NEW t \in Tally,
         Attains(P, s), Attains(Q, t)
  PROVE  Attains(Then(P, Q), MergeSeq(s, t))
<1> SUFFICES ASSUME NEW c \in Channel
             PROVE  \E r \in Then(P, Q) : MergeSeq(s, t)[c] <= r[c].times
  BY DEF Attains
<1>1. PICK p \in P : s[c] <= p[c].times
  BY DEF Attains
<1>2. PICK q \in Q : t[c] <= q[c].times
  BY DEF Attains
<1>3. /\ Both(p, q) \in Then(P, Q)
      /\ Both(p, q)[c].times = p[c].times + q[c].times
  BY BothFacts DEF Then
<1>4. p[c].times \in Nat /\ q[c].times \in Nat
  BY DEF Path
<1>5. s[c] \in Nat /\ t[c] \in Nat /\ MergeSeq(s, t)[c] \in Nat
      /\ MergeSeq(s, t)[c] <= s[c] + t[c]
  BY MergeSeqFacts, FlowAssumption DEF Tally
<1> QED BY <1>1, <1>2, <1>3, <1>4, <1>5

(* and so do any number of them.                                           *)
LEMMA AttainsInTurn ==
  ASSUME NEW n \in Nat,
         NEW facts \in Seq(Tally), Len(facts) = n,
         NEW sets \in Seq(SUBSET Path), Len(sets) = n,
         \A k \in 1..n : Attains(sets[k], facts[k])
  PROVE  Attains(InTurn(sets), InSequence(facts))
<1>1. PICK g \in [1..n + 1 -> Tally] : InSequence(facts) = g[1] /\ Sums(facts, n, g)
  BY SequenceFacts
<1>2. PICK h \in [1..n + 1 -> SUBSET Path] : InTurn(sets) = h[1] /\ Turns(sets, n, h)
  BY TurnFacts
<1>3. \A k \in 1..n : facts[k] \in Tally /\ sets[k] \in SUBSET Path
  BY LenProperties
<1> DEFINE P == {k \in 1..n + 1 : Attains(h[k], g[k])}
<1>4. ASSUME NEW k \in 1..n + 1, \A j \in k + 1..n + 1 : j \in P
      PROVE  k \in P
  <2>1. CASE k = n + 1
    <3>1. g[k] = Zero /\ h[k] = {Still}
      BY <1>1, <1>2, <2>1 DEF Sums, Turns
    <3> QED BY <3>1, ZeroTally, StillIsPath DEF Attains
  <2>2. CASE k # n + 1
    <3>1. k \in 1..n /\ k + 1 \in k + 1..n + 1 /\ k + 1 \in 1..n + 1
      BY <2>2
    <3>2. Attains(h[k + 1], g[k + 1])
      BY <1>4, <3>1
    <3>3. g[k] = MergeSeq(facts[k], g[k + 1]) /\ h[k] = Then(sets[k], h[k + 1])
      BY <1>1, <1>2, <3>1 DEF Sums, Turns
    <3>4. g[k + 1] \in Tally /\ h[k + 1] \in SUBSET Path
      BY <3>1
    <3>5. Attains(h[k], g[k])
      BY <1>3, <3>1, <3>2, <3>3, <3>4, AttainsThen
    <3> QED BY <3>5
  <2> QED BY <2>1, <2>2
<1>5. 1..n + 1 \subseteq P
  <2>1. PICK m \in Nat : m = n + 1
    OBVIOUS
  <2> HIDE DEF P
  <2>2. \A k \in 1..m : (\A j \in k + 1..m : j \in P) => k \in P
    BY <1>4, <2>1
  <2>3. m \in Nat
    BY <2>1
  <2>4. 1..m \subseteq P
    BY <2>2, <2>3, Backward
  <2> QED BY <2>1, <2>4
<1>6. 1 \in 1..n + 1
  OBVIOUS
<1> QED BY <1>1, <1>2, <1>5, <1>6

(* One path of the copies of an expand takes the same path through each.   *)
LEMMA Repeated ==
  ASSUME NEW n \in Nat, NEW any \in SUBSET Path, NEW p \in any
  PROVE  /\ [k \in 1..n |-> any] \in Seq(SUBSET Path)
         /\ InTurn([k \in 1..n |-> any]) \in SUBSET Path
         /\ \E q \in InTurn([k \in 1..n |-> any]) :
              \A c \in Channel : q[c].times = n * p[c].times
<1>s. PICK sets : sets = [k \in 1..n |-> any]
  OBVIOUS
<1>1. sets \in Seq(SUBSET Path) /\ Len(sets) = n
  <2>1. \A k \in 1..n : sets[k] \in SUBSET Path
    BY <1>s
  <2>2. sets = [k \in 1..n |-> sets[k]]
    BY <1>s
  <2> QED BY <2>1, <2>2, Listed
<1>2. PICK h \in [1..n + 1 -> SUBSET Path] : InTurn(sets) = h[1] /\ Turns(sets, n, h)
  BY <1>1, TurnFacts
<1>3. \A k \in 1..n : h[k] = Then(any, h[k + 1])
  BY <1>s, <1>2 DEF Turns
<1>t. \A c \in Channel : p[c].times \in Nat
  BY DEF Path
<1> DEFINE Good(k) == \E q \in h[k] : \A c \in Channel : q[c].times = (n + 1 - k) * p[c].times
           P == {k \in 1..n + 1 : Good(k)}
<1>4. ASSUME NEW k \in 1..n + 1, \A j \in k + 1..n + 1 : j \in P
      PROVE  k \in P
  <2>1. CASE k = n + 1
    <3>1. h[k] = {Still}
      BY <1>2, <2>1 DEF Turns
    <3>2. n + 1 - k = 0
      BY <2>1
    <3>3. \A c \in Channel : 0 * p[c].times = 0
      BY <1>t
    <3> QED BY <3>1, <3>2, <3>3, StillIsPath
  <2>2. CASE k # n + 1
    <3>1. k \in 1..n /\ k + 1 \in k + 1..n + 1 /\ k + 1 \in 1..n + 1
      BY <2>2
    <3>2. Good(k + 1)
      BY <1>4, <3>1
    <3>3. PICK q \in h[k + 1] :
            \A c \in Channel : q[c].times = (n + 1 - (k + 1)) * p[c].times
      BY <3>2
    <3>4. PICK m \in Nat : m = n + 1 - (k + 1) /\ m + 1 = n + 1 - k
      BY <3>1
    <3>5. q \in Path /\ p \in Path
      BY <1>2, <3>1, <3>3
    <3>6. Both(p, q) \in h[k]
      BY <1>3, <3>1, <3>3 DEF Then
    <3>7. ASSUME NEW c \in Channel
          PROVE  Both(p, q)[c].times = (m + 1) * p[c].times
      <4>1. PICK x \in Nat : x = p[c].times
        BY <1>t
      <4>2. Both(p, q)[c].times = x + m * x
        BY <3>3, <3>4, <3>5, <4>1, BothFacts
      <4>3. x + m * x = (m + 1) * x
        BY <3>4, <4>1
      <4> QED BY <4>1, <4>2, <4>3
    <3>8. \A c \in Channel : Both(p, q)[c].times = (n + 1 - k) * p[c].times
      BY <3>4, <3>7
    <3> QED BY <3>6, <3>8
  <2> QED BY <2>1, <2>2
<1>5. 1..n + 1 \subseteq P
  <2>1. PICK m \in Nat : m = n + 1
    OBVIOUS
  <2> HIDE DEF P
  <2>2. \A k \in 1..m : (\A j \in k + 1..m : j \in P) => k \in P
    BY <1>4, <2>1
  <2>3. m \in Nat
    BY <2>1
  <2>4. 1..m \subseteq P
    BY <2>2, <2>3, Backward
  <2> QED BY <2>1, <2>4
<1>6. Good(1)
  <2>1. 1 \in 1..n + 1
    OBVIOUS
  <2> QED BY <1>5, <2>1
<1>7. n + 1 - 1 = n
  OBVIOUS
<1>8. InTurn(sets) \in SUBSET Path
  BY <1>1, TurnFacts
<1> QED BY <1>s, <1>1, <1>2, <1>6, <1>7, <1>8
-----------------------------------------------------------------------------
(* Bodies.                                                                 *)
(* What the parts of a node are.                                           *)
LEMMA BodyFacts ==
  ASSUME NEW b, IsBody(b)
  PROVE  /\ Len(b) \in Nat /\ DOMAIN b = 1..Len(b) /\ 1 \in 1..Len(b)
         /\ \A i \in 1..Len(b) :
              /\ b[i] \in Node
              /\ b[i].parts \in Seq(Nat) /\ b[i].calls \in Seq(Function)
              /\ \A k \in 1..Len(b[i].parts) : b[i].parts[k] \in i + 1..Len(b)
<1>1. b \in Seq(Node) /\ b # <<>>
  BY DEF IsBody
<1>2. Len(b) \in Nat /\ DOMAIN b = 1..Len(b) /\ Len(b) # 0
  BY <1>1, LenProperties, EmptySeq
<1>3. \A i \in 1..Len(b) : b[i] \in Node
  BY <1>1, <1>2
<1>4. ASSUME NEW i \in 1..Len(b)
      PROVE  b[i].parts \in Seq(Nat) /\ b[i].calls \in Seq(Function)
  BY <1>3 DEF Node
<1>5. ASSUME NEW i \in 1..Len(b), NEW k \in 1..Len(b[i].parts)
      PROVE  b[i].parts[k] \in i + 1..Len(b)
  <2>1. k \in DOMAIN b[i].parts
    BY <1>4, LenProperties
  <2> QED BY <1>2, <2>1 DEF IsBody
<1> QED BY <1>2, <1>3, <1>4, <1>5

(* The facts of the calls of a node, and of its parts.                     *)
LEMMA CallsListed ==
  ASSUME NEW calls \in Seq(Function), NEW S, NEW e \in [Function -> S]
  PROVE  /\ [k \in DOMAIN calls |-> e[calls[k]]] \in Seq(S)
         /\ Len([k \in DOMAIN calls |-> e[calls[k]]]) = Len(calls)
         /\ \A k \in 1..Len(calls) :
              /\ calls[k] \in Function
              /\ [j \in DOMAIN calls |-> e[calls[j]]][k] = e[calls[k]]
<1>1. Len(calls) \in Nat /\ DOMAIN calls = 1..Len(calls)
  BY LenProperties
<1>2. \A k \in 1..Len(calls) : calls[k] \in Function
  BY <1>1
<1>3. PICK f : f = [k \in DOMAIN calls |-> e[calls[k]]]
  OBVIOUS
<1>4. f = [k \in 1..Len(calls) |-> f[k]] /\ \A k \in 1..Len(calls) : f[k] = e[calls[k]]
  BY <1>1, <1>3
<1>5. \A k \in 1..Len(calls) : f[k] \in S
  BY <1>2, <1>4
<1>6. f \in Seq(S) /\ Len(f) = Len(calls)
  BY <1>1, <1>4, <1>5, Listed
<1> QED BY <1>2, <1>3, <1>4, <1>6

Listing(b, i, g, S) ==
  /\ OfParts(b[i], g) \in Seq(S)
  /\ Len(OfParts(b[i], g)) = Len(b[i].parts) /\ Len(b[i].parts) \in Nat
  /\ DOMAIN OfParts(b[i], g) = 1..Len(b[i].parts)
  /\ \A k \in 1..Len(b[i].parts) :
       /\ b[i].parts[k] \in i + 1..Len(b) /\ b[i].parts[k] \in 1..Len(b)
       /\ OfParts(b[i], g)[k] = g[b[i].parts[k]]
       /\ OfParts(b[i], g)[k] \in S

(* The values of the parts of a node are values of later nodes.            *)
LEMMA PartsListed ==
  ASSUME NEW b, IsBody(b), NEW S, NEW g \in [1..Len(b) -> S], NEW i \in 1..Len(b)
  PROVE  Listing(b, i, g, S)
<1>0. PICK parts \in Seq(Nat) : parts = b[i].parts
  BY BodyFacts
<1>1. Len(parts) \in Nat /\ DOMAIN parts = 1..Len(parts)
  BY LenProperties
<1>2. \A k \in 1..Len(parts) : parts[k] \in i + 1..Len(b) /\ parts[k] \in 1..Len(b)
  BY <1>0, BodyFacts
<1>3. PICK f : f = OfParts(b[i], g) /\ f = [k \in DOMAIN parts |-> g[parts[k]]]
  BY <1>0 DEF OfParts
<1>4. f = [k \in 1..Len(parts) |-> f[k]] /\ \A k \in 1..Len(parts) : f[k] = g[parts[k]]
  BY <1>1, <1>3
<1>5. \A k \in 1..Len(parts) : f[k] \in S
  BY <1>2, <1>4
<1>6. f \in Seq(S) /\ Len(f) = Len(parts) /\ DOMAIN f = 1..Len(parts)
  BY <1>1, <1>4, <1>5, Listed
<1> QED BY <1>0, <1>1, <1>2, <1>3, <1>4, <1>5, <1>6 DEF Listing

(* A node's own calls are calls of the body.                               *)
LEMMA UserCalleesFacts ==
  ASSUME NEW b, IsBody(b)
  PROVE  /\ UserCallees(b) \in Seq(Function)
         /\ \A i \in 1..Len(b) : \A k \in 1..Len(b[i].calls) :
              b[i].calls[k] \in Range(UserCallees(b))
<1>1. PICK n \in Nat : n = Len(b) /\ n # 0
  BY BodyFacts
<1>2. PICK seqs : seqs = [i \in 1..n |-> b[i].calls]
  OBVIOUS
<1>3. \A i \in 1..n : seqs[i] \in Seq(Function)
  BY <1>1, <1>2, BodyFacts
<1>4. seqs = [i \in 1..n |-> seqs[i]] /\ seqs = [i \in DOMAIN b |-> b[i].calls]
  BY <1>1, <1>2, BodyFacts
<1>5. Len(seqs) = n
  BY <1>3, <1>4, Listed
<1> DEFINE Flattens(g) ==
             g = [i \in 1..Len(seqs) |-> IF i = 1 THEN seqs[i] ELSE g[i - 1] \o seqs[i]]
<1>6. FlattenSeq(seqs) = (CHOOSE g : Flattens(g))[n]
  BY <1>1, <1>5 DEF FlattenSeq
<1>7. PICK h \in [0..n -> Seq(Function)] :
        h[0] = <<>> /\ \A k \in 1..n : h[k] = h[k - 1] \o seqs[k]
  <2>1. PICK step \in [1..n -> [Seq(Function) -> Seq(Function)]] :
          \A k \in 1..n : \A s \in Seq(Function) : step[k][s] = s \o seqs[k]
    <3>1. \A k \in 1..n : \A s \in Seq(Function) : s \o seqs[k] \in Seq(Function)
      BY <1>3, ConcatProperties
    <3>2. [k \in 1..n |-> [s \in Seq(Function) |-> s \o seqs[k]]]
            \in [1..n -> [Seq(Function) -> Seq(Function)]]
      BY <3>1
    <3> QED BY <3>2
  <2>2. <<>> \in Seq(Function)
    OBVIOUS
  <2>3. PICK h \in [0..n -> Seq(Function)] : AccumulatesForward(n, <<>>, step, h)
    BY <2>1, <2>2, AccumulatedForward
  <2>4. h[0] = <<>>
    BY <2>3 DEF AccumulatesForward
  <2>5. ASSUME NEW k \in 1..n PROVE h[k] = h[k - 1] \o seqs[k]
    <3>1. k - 1 \in 0..n
      OBVIOUS
    <3>2. h[k - 1] \in Seq(Function)
      BY <2>3, <3>1
    <3>3. h[k] = step[k][h[k - 1]]
      BY <2>3 DEF AccumulatesForward
    <3> QED BY <2>1, <3>2, <3>3
  <2> QED BY <2>3, <2>4, <2>5
<1>8. Flattens([i \in 1..n |-> h[i]])
  <2>1. ASSUME NEW i \in 1..n
        PROVE  h[i] = IF i = 1 THEN seqs[i] ELSE [j \in 1..n |-> h[j]][i - 1] \o seqs[i]
    <3>1. CASE i = 1
      <4>0. i - 1 = 0
        BY <3>1
      <4>h. h[i] = h[i - 1] \o seqs[i]
        BY <1>7, Zenon
      <4>1. h[i] = h[i - 1] \o seqs[i] /\ i - 1 = 0
        BY <4>0, <4>h
      <4>2. <<>> \o seqs[i] = seqs[i]
        BY <1>3, ConcatEmptySeq
      <4>3. h[i] = seqs[i]
        BY <1>7, <4>1, <4>2
      <4> QED BY <3>1, <4>3
    <3>2. CASE i # 1
      <4>1. i - 1 \in 1..n
        BY <3>2
      <4> QED BY <1>7, <3>2, <4>1
    <3> QED BY <3>1, <3>2
  <2> QED BY <1>5, <2>1
<1>9. PICK g : Flattens(g) /\ FlattenSeq(seqs) = g[n]
  <2> HIDE DEF Flattens
  <2> QED BY <1>6, <1>8
<1>10. \A i \in 1..n : g[i] = IF i = 1 THEN seqs[i] ELSE g[i - 1] \o seqs[i]
  BY <1>5, <1>9
<1>11. \A i \in 1..n : h[i] = IF i = 1 THEN seqs[i] ELSE h[i - 1] \o seqs[i]
  <2>1. \A i \in 1..n : i # 1 => i - 1 \in 1..n
    OBVIOUS
  <2> QED BY <1>5, <1>8, <2>1
<1> HIDE DEF Flattens
<1> DEFINE P == {i \in 1..n : g[i] = h[i]}
<1>12. ASSUME NEW i \in 1..n, \A j \in 1..i - 1 : j \in P
       PROVE  i \in P
  <2>1. i # 1 => i - 1 \in 1..i - 1
    OBVIOUS
  <2>2. i # 1 => g[i - 1] = h[i - 1]
    BY <1>12, <2>1
  <2>3. g[i] = h[i]
    BY <1>10, <1>11, <2>2
  <2> QED BY <2>3
<1>13. 1..n \subseteq P
  <2> HIDE DEF P
  <2> QED BY <1>12, Forward
<1>14. n \in 1..n
  BY <1>1
<1>15. UserCallees(b) = h[n]
  <2>1. UserCallees(b) = FlattenSeq(seqs)
    BY <1>4 DEF UserCallees
  <2> QED BY <1>9, <1>13, <1>14, <2>1
<1> DEFINE Q == {m \in 1..n : \A i \in 1..m : \A k \in 1..Len(seqs[i]) :
                    seqs[i][k] \in Range(h[m])}
<1>16. ASSUME NEW m \in 1..n, \A j \in 1..m - 1 : j \in Q
       PROVE  m \in Q
  <2>1. /\ m - 1 \in 0..n /\ m \in 0..n
        /\ h[m - 1] \in Seq(Function) /\ h[m] \in Seq(Function) /\ seqs[m] \in Seq(Function)
        /\ h[m] = h[m - 1] \o seqs[m]
    <3>1. m - 1 \in 0..n /\ m \in 0..n
      OBVIOUS
    <3>2. h[m] = h[m - 1] \o seqs[m]
      BY <1>7, Zenon
    <3>3. h[m - 1] \in Seq(Function) /\ h[m] \in Seq(Function)
      BY <1>7, <3>1
    <3> QED BY <1>3, <3>1, <3>2, <3>3
  <2>2. PICK s \in Seq(Function), t \in Seq(Function) : s = h[m - 1] /\ t = seqs[m]
    BY <2>1
  <2>3. /\ Len(s) \in Nat /\ Len(t) \in Nat
        /\ DOMAIN s = 1..Len(s)
        /\ s \o t \in Seq(Function)
        /\ DOMAIN (s \o t) = 1..Len(s) + Len(t)
    BY LenProperties, ConcatProperties
  <2>4. ASSUME NEW k \in 1..Len(s) PROVE s[k] \in Range(s \o t)
    <3>1. k \in 1..Len(s) + Len(t) /\ k <= Len(s)
      BY <2>3
    <3>2. (s \o t)[k] = s[k]
      BY <3>1, ConcatProperties
    <3> QED BY <2>3, <3>1, <3>2 DEF Range
  <2>5. ASSUME NEW k \in 1..Len(t) PROVE t[k] \in Range(s \o t)
    <3>1. PICK l \in 1..Len(s) + Len(t) : l = Len(s) + k /\ ~(l <= Len(s)) /\ l - Len(s) = k
      <4>1. PICK x \in Nat, y \in Nat : x = Len(s) /\ y = Len(t)
        BY <2>3
      <4>2. k \in 1..y
        BY <4>1
      <4>3. x + k \in 1..x + y /\ ~(x + k <= x) /\ x + k - x = k
        BY <4>2
      <4> QED BY <4>1, <4>3
    <3>2. (s \o t)[l] = t[k]
      BY <3>1, ConcatProperties
    <3> QED BY <2>3, <3>1, <3>2 DEF Range
  <2>6. ASSUME NEW i \in 1..m, NEW k \in 1..Len(seqs[i])
        PROVE  seqs[i][k] \in Range(h[m])
    <3>1. CASE i = m
      BY <2>1, <2>2, <2>5, <3>1
    <3>2. CASE i # m
      <4>1. m - 1 \in 1..m - 1 /\ i \in 1..m - 1
        BY <3>2
      <4>2. seqs[i][k] \in Range(s)
        BY <1>16, <2>2, <4>1
      <4>3. PICK j \in DOMAIN s : s[j] = seqs[i][k]
        BY <4>2 DEF Range
      <4>4. j \in 1..Len(s)
        BY <2>3, <4>3
      <4>5. s[j] \in Range(s \o t)
        BY <2>4, <4>4
      <4> QED BY <2>1, <2>2, <4>3, <4>5
    <3> QED BY <3>1, <3>2
  <2> QED BY <2>6
<1>17. 1..n \subseteq Q
  <2> HIDE DEF Q
  <2> QED BY <1>16, Forward
<1>18. ASSUME NEW i \in 1..Len(b), NEW k \in 1..Len(b[i].calls)
       PROVE  b[i].calls[k] \in Range(UserCallees(b))
  <2>1. seqs[i] = b[i].calls
    BY <1>1, <1>2
  <2>2. n \in Q
    BY <1>14, <1>17
  <2> QED BY <1>1, <1>15, <2>1, <2>2
<1>19. h[n] \in Seq(Function)
  BY <1>7, <1>14
<1> QED BY <1>15, <1>18, <1>19

(* The facts of a node need only those of its parts, and of its calls.     *)
LEMMA FactsAtFacts ==
  ASSUME NEW b, IsBody(b), NEW expand \in [Function -> Tally],
         NEW i \in 1..Len(b), NEW g \in [1..Len(b) -> Tally]
  PROVE  FactsAt(b, expand, g, i) \in Tally
<1>1. PICK n \in Node : n = b[i]
  BY BodyFacts
<1>2. PICK parts \in Seq(Tally) :
        /\ parts = OfParts(b[i], g)
        /\ DOMAIN parts = 1..Len(parts) /\ Len(parts) \in Nat
        /\ \A k \in 1..Len(parts) : parts[k] \in Tally
  <2>1. Listing(b, i, g, Tally)
    BY PartsListed
  <2> QED BY <2>1 DEF Listing
<1>3. CallFacts(n.calls, expand) \in Tally
  <2>1. n.calls \in Seq(Function)
    BY DEF Node
  <2>2. PICK calls \in Seq(Tally) : calls = [k \in DOMAIN n.calls |-> expand[n.calls[k]]]
    BY <2>1, CallsListed
  <2>3. Len(calls) \in Nat
    BY LenProperties
  <2>4. InSequence(calls) \in Tally
    BY <2>3, SequenceFacts
  <2> QED BY <2>2, <2>4 DEF CallFacts
<1>4. CASE n.kind = "assign"
  <2>1. FactsAt(b, expand, g, i) = MergeSeq(Once(n.target), CallFacts(n.calls, expand))
    BY <1>1, <1>4 DEF FactsAt
  <2> QED BY <1>3, <2>1, OnceFacts, MergeSeqFacts
<1>5. CASE n.kind \in {"if", "when"}
  <2>1. FactsAt(b, expand, g, i) = MergeSeq(CallFacts(n.calls, expand), Exclusive(parts))
    BY <1>1, <1>2, <1>5 DEF FactsAt, ConditionFacts
  <2>2. Exclusive(parts) \in Tally
    BY <1>2, ExclusiveFacts
  <2> QED BY <1>3, <2>1, <2>2, MergeSeqFacts
<1>6. CASE n.kind = "expand"
  <2>1. PICK scaled : scaled = [k \in DOMAIN parts |-> Scaled(parts[k], Iterations(n))]
    OBVIOUS
  <2>2. FactsAt(b, expand, g, i) = Exclusive(scaled)
    BY <1>1, <1>2, <1>6, <2>1 DEF FactsAt
  <2>3. Iterations(n) \in Nat
    BY DEF Iterations, Node
  <2>4. DOMAIN scaled = 1..Len(parts) /\ \A k \in 1..Len(parts) : scaled[k] \in Tally
    BY <1>2, <2>1, <2>3, ScaledFacts
  <2>5. Exclusive(scaled) \in Tally
    BY <1>2, <2>4, ExclusiveFacts
  <2> QED BY <2>2, <2>5
<1>7. CASE n.kind = "block"
  <2>1. FactsAt(b, expand, g, i) = InSequence(parts)
    BY <1>1, <1>2, <1>7 DEF FactsAt
  <2> QED BY <1>2, <2>1, SequenceFacts
<1>8. CASE n.kind = "other"
  <2>1. FactsAt(b, expand, g, i) = CallFacts(n.calls, expand)
    BY <1>1, <1>8 DEF FactsAt
  <2> QED BY <1>3, <2>1
<1> QED BY <1>4, <1>5, <1>6, <1>7, <1>8 DEF Node, Kind

(* The parts of a node are later nodes,                                    *)
LEMMA FactsAtLocal ==
  ASSUME NEW b, IsBody(b), NEW i \in 1..Len(b), NEW S,
         NEW g \in [1..Len(b) -> S], NEW h \in [1..Len(b) -> S],
         \A j \in i + 1..Len(b) : g[j] = h[j]
  PROVE  OfParts(b[i], g) = OfParts(b[i], h)
<1>1. PICK parts \in Seq(Nat) :
        /\ parts = b[i].parts
        /\ \A k \in DOMAIN parts : parts[k] \in i + 1..Len(b)
  BY BodyFacts, LenProperties
<1>2. [k \in DOMAIN parts |-> g[parts[k]]] = [k \in DOMAIN parts |-> h[parts[k]]]
  BY <1>1
<1> QED BY <1>1, <1>2 DEF OfParts

IsFacts(b, expand, g) == g = [i \in DOMAIN b |-> FactsAt(b, expand, g, i)]

(* so that its counts depend on later counts only.                         *)
LEMMA FactsAtSame ==
  ASSUME NEW b, IsBody(b), NEW i \in 1..Len(b), NEW expand, NEW S,
         NEW g \in [1..Len(b) -> S], NEW h \in [1..Len(b) -> S],
         \A j \in i + 1..Len(b) : g[j] = h[j]
  PROVE  FactsAt(b, expand, g, i) = FactsAt(b, expand, h, i)
BY FactsAtLocal DEF FactsAt

(* The counts of all nodes of a body exist,                                *)
LEMMA FactsExist ==
  ASSUME NEW b, IsBody(b), NEW expand \in [Function -> Tally]
  PROVE  \E g \in [1..Len(b) -> Tally] : IsFacts(b, expand, g)
<1>1. PICK n \in Nat : n = Len(b) /\ DOMAIN b = 1..n
  BY BodyFacts
<1> DEFINE F == [i \in 1..n |-> [g \in [1..n -> Tally] |-> FactsAt(b, expand, g, i)]]
<1>2. ASSUME NEW i \in 1..n, NEW g \in [1..n -> Tally]
      PROVE  F[i][g] = FactsAt(b, expand, g, i) /\ F[i][g] \in Tally
  BY <1>1, FactsAtFacts
<1>3. Recursive(n, Tally, F)
  <2>1. F \in [1..n -> [[1..n -> Tally] -> Tally]]
    <3>1. \A i \in 1..n, g \in [1..n -> Tally] : FactsAt(b, expand, g, i) \in Tally
      BY <1>1, FactsAtFacts
    <3> QED BY <3>1
  <2>2. ASSUME NEW i \in 1..n, NEW g \in [1..n -> Tally], NEW h \in [1..n -> Tally],
               \A j \in i + 1..n : g[j] = h[j]
        PROVE  F[i][g] = F[i][h]
    <3>1. FactsAt(b, expand, g, i) = FactsAt(b, expand, h, i)
      BY <1>1, <2>2, FactsAtSame
    <3> HIDE DEF F
    <3> QED BY <1>2, <3>1
  <2> HIDE DEF F
  <2> QED BY <2>1, <2>2 DEF Recursive
<1> HIDE DEF F
<1>4. PICK g \in [1..n -> Tally] : Solves(n, F, g)
  BY <1>3, Solved, ZeroTally
<1>5. \A i \in 1..n : g[i] = FactsAt(b, expand, g, i)
  BY <1>2, <1>4 DEF Solves
<1>6. g = [i \in 1..n |-> FactsAt(b, expand, g, i)]
  BY <1>4, <1>5
<1> QED BY <1>1, <1>4, <1>6 DEF IsFacts

(* and FactsOf is them.                                                    *)
LEMMA FactsOfFacts ==
  ASSUME NEW b, IsBody(b), NEW expand \in [Function -> Tally]
  PROVE  \E g \in [1..Len(b) -> Tally] :
           /\ ChannelCounts(b, expand) = g[1] /\ FactsOf(b, expand) = g
           /\ \A i \in 1..Len(b) : g[i] = FactsAt(b, expand, g, i)
<1>1. PICK n \in Nat : n = Len(b) /\ DOMAIN b = 1..n
  BY BodyFacts
<1>2. PICK h \in [1..n -> Tally] : IsFacts(b, expand, h)
  BY <1>1, FactsExist
<1>3. PICK g : /\ IsFacts(b, expand, g)
               /\ ChannelCounts(b, expand) = g[1] /\ FactsOf(b, expand) = g
  <2>1. /\ FactsOf(b, expand) = (CHOOSE g : IsFacts(b, expand, g))
        /\ ChannelCounts(b, expand) = FactsOf(b, expand)[1]
    BY DEF ChannelCounts, FactsOf, IsFacts
  <2> QED BY <1>2, <2>1
<1>4. DOMAIN g = 1..n /\ g = [i \in 1..n |-> g[i]]
      /\ \A i \in 1..n : g[i] = FactsAt(b, expand, g, i)
  BY <1>1, <1>3 DEF IsFacts
<1>5. \A i \in 1..n : h[i] = FactsAt(b, expand, h, i)
  BY <1>1, <1>2 DEF IsFacts
<1>6. PICK S : S = Tally \cup {g[i] : i \in 1..n}
  OBVIOUS
<1>7. g \in [1..n -> S] /\ h \in [1..n -> S]
  BY <1>4, <1>6
<1> DEFINE P == {i \in 1..n : g[i] = h[i]}
<1>8. ASSUME NEW i \in 1..n, \A j \in i + 1..n : j \in P
      PROVE  i \in P
  <2>0. \A j \in i + 1..Len(b) : g[j] = h[j]
    BY <1>1, <1>8
  <2>h. /\ i \in 1..Len(b)
        /\ g \in [1..Len(b) -> S] /\ h \in [1..Len(b) -> S]
    BY <1>1, <1>7
  <2>1. FactsAt(b, expand, g, i) = FactsAt(b, expand, h, i)
    BY <2>0, <2>h, FactsAtSame
  <2> QED BY <1>4, <1>5, <2>1
<1>9. 1..n \subseteq P
  <2> HIDE DEF P
  <2> QED BY <1>8, Backward
<1>10. g \in [1..n -> Tally]
  BY <1>4, <1>9
<1> QED BY <1>1, <1>3, <1>4, <1>10

(* The counts of a body are u32 counters.                                  *)
LEMMA CountsTyped ==
  ASSUME NEW b, IsBody(b), NEW expand \in [Function -> Tally]
  PROVE  ChannelCounts(b, expand) \in Tally
<1>1. PICK g \in [1..Len(b) -> Tally] : ChannelCounts(b, expand) = g[1]
  BY FactsOfFacts
<1> QED BY <1>1, BodyFacts

(* The counts of a body need only those of the functions it calls.         *)
LEMMA CallFactsLocal ==
  ASSUME NEW b, IsBody(b), NEW i \in 1..Len(b),
         NEW d, NEW e, \A f \in Range(UserCallees(b)) : d[f] = e[f]
  PROVE  CallFacts(b[i].calls, d) = CallFacts(b[i].calls, e)
<1>1. PICK calls \in Seq(Function) : calls = b[i].calls
  BY BodyFacts
<1>2. ASSUME NEW k \in DOMAIN calls PROVE d[calls[k]] = e[calls[k]]
  BY <1>1, LenProperties, UserCalleesFacts
<1>3. [k \in DOMAIN calls |-> d[calls[k]]] = [k \in DOMAIN calls |-> e[calls[k]]]
  BY <1>2
<1> QED BY <1>1, <1>3 DEF CallFacts

(* Expanders that agree on the callees of a body count it the same.        *)
LEMMA CountsLocal ==
  ASSUME NEW b, IsBody(b), NEW d, NEW e, \A f \in Range(UserCallees(b)) : d[f] = e[f]
  PROVE  ChannelCounts(b, d) = ChannelCounts(b, e)
<1>1. ASSUME NEW i \in DOMAIN b, NEW g
      PROVE  FactsAt(b, d, g, i) = FactsAt(b, e, g, i)
  <2>1. CallFacts(b[i].calls, d) = CallFacts(b[i].calls, e)
    BY BodyFacts, CallFactsLocal
  <2> QED BY <2>1 DEF FactsAt, ConditionFacts
<1>2. ASSUME NEW g PROVE IsFacts(b, d, g) <=> IsFacts(b, e, g)
  <2>1. [i \in DOMAIN b |-> FactsAt(b, d, g, i)] = [i \in DOMAIN b |-> FactsAt(b, e, g, i)]
    BY <1>1
  <2> QED BY <2>1 DEF IsFacts
<1>3. (CHOOSE g : IsFacts(b, d, g)) = (CHOOSE g : IsFacts(b, e, g))
  BY <1>2
<1>4. /\ ChannelCounts(b, d) = (CHOOSE g : IsFacts(b, d, g))[1]
      /\ ChannelCounts(b, e) = (CHOOSE g : IsFacts(b, e, g))[1]
  BY DEF ChannelCounts, FactsOf, IsFacts
<1> QED BY <1>3, <1>4

(* The paths of a node, likewise.                                          *)
AnyOf(parts) == UNION {parts[k] : k \in DOMAIN parts}

(* The paths through the calls of a statement.                             *)
LEMMA CallPathsFacts ==
  ASSUME NEW calls \in Seq(Function), NEW callee \in [Function -> SUBSET Path]
  PROVE  CallPaths(calls, callee) \in SUBSET Path
<1>1. PICK sets \in Seq(SUBSET Path) : sets = [k \in DOMAIN calls |-> callee[calls[k]]]
  <2>1. PICK S : S = SUBSET Path
    OBVIOUS
  <2>2. [k \in DOMAIN calls |-> callee[calls[k]]] \in Seq(S)
    BY <2>1, CallsListed
  <2> QED BY <2>1, <2>2
<1>2. Len(sets) \in Nat
  BY LenProperties
<1>3. InTurn(sets) \in SUBSET Path
  BY <1>2, TurnFacts
<1> QED BY <1>1, <1>3 DEF CallPaths

(* The paths through the copies of an expand.                              *)
LEMMA CopiesTyped ==
  ASSUME NEW n \in Nat, NEW any \in SUBSET Path
  PROVE  InTurn([k \in 1..n |-> any]) \in SUBSET Path
<1>1. PICK sets : sets = [k \in 1..n |-> any]
  OBVIOUS
<1>2. sets \in Seq(SUBSET Path)
  BY <1>1
<1>3. Len(sets) \in Nat
  BY <1>2, LenProperties
<1>4. InTurn(sets) \in SUBSET Path
  BY <1>2, <1>3, TurnFacts
<1> QED BY <1>1, <1>4

(* The paths of a node are paths if those of its parts are,                *)
LEMMA PathsAtFacts ==
  ASSUME NEW f \in Function, NEW b, IsBody(b), NEW callee \in [Function -> SUBSET Path],
         NEW i \in 1..Len(b), NEW g \in [1..Len(b) -> SUBSET Path]
  PROVE  PathsAt(f, b, callee, g, i) \in SUBSET Path
<1>1. PICK n \in Node : n = b[i]
  BY BodyFacts
<1>2. PICK parts \in Seq(SUBSET Path) :
        /\ parts = OfParts(b[i], g)
        /\ DOMAIN parts = 1..Len(parts) /\ Len(parts) \in Nat
        /\ \A k \in 1..Len(parts) : parts[k] \in SUBSET Path
  <2>1. PICK S : S = SUBSET Path
    OBVIOUS
  <2>2. PICK parts : parts = OfParts(b[i], g)
    OBVIOUS
  <2>3. /\ parts \in Seq(S) /\ DOMAIN parts = 1..Len(parts) /\ Len(parts) \in Nat
        /\ \A k \in 1..Len(parts) : parts[k] \in S
    <3>1. Listing(b, i, g, S)
      BY <2>1, PartsListed
    <3> QED BY <2>2, <3>1 DEF Listing
  <2> QED BY <2>1, <2>2, <2>3
<1>3. CallPaths(n.calls, callee) \in SUBSET Path
  <2>1. n.calls \in Seq(Function)
    BY DEF Node
  <2> QED BY <2>1, CallPathsFacts
<1>a. AnyOf(parts) \in SUBSET Path
  BY <1>2 DEF AnyOf
<1>4. CASE n.kind = "assign"
  <2>1. PICK one : one = IF n.target \in Channel THEN {Write(n.target, f)} ELSE {Still}
    OBVIOUS
  <2>2. PathsAt(f, b, callee, g, i) = Then(one, CallPaths(n.calls, callee))
    BY <1>1, <1>4, <2>1 DEF PathsAt
  <2>3. one \in SUBSET Path
    BY <2>1, StillIsPath, WriteFacts
  <2> QED BY <1>3, <2>2, <2>3, ThenTyped
<1>5. CASE n.kind \in {"if", "when"}
  <2>1. PathsAt(f, b, callee, g, i) = Then(CallPaths(n.calls, callee), {Still} \cup AnyOf(parts))
    BY <1>1, <1>2, <1>5 DEF PathsAt, AnyOf
  <2>2. {Still} \cup AnyOf(parts) \in SUBSET Path
    BY <1>a, StillIsPath
  <2> QED BY <1>3, <2>1, <2>2, ThenTyped
<1>6. CASE n.kind = "expand"
  <2>1. PathsAt(f, b, callee, g, i) = {Still} \cup InTurn([k \in 1..n.copies |-> AnyOf(parts)])
    BY <1>1, <1>2, <1>6 DEF PathsAt, AnyOf
  <2>2. n.copies \in Nat
    BY DEF Node
  <2>3. InTurn([k \in 1..n.copies |-> AnyOf(parts)]) \in SUBSET Path
    BY <1>a, <2>2, CopiesTyped
  <2> QED BY <2>1, <2>3, StillIsPath
<1>7. CASE n.kind = "block"
  <2>1. PathsAt(f, b, callee, g, i) = InTurn(parts)
    BY <1>1, <1>2, <1>7 DEF PathsAt
  <2> QED BY <1>2, <2>1, TurnFacts
<1>8. CASE n.kind = "other"
  <2>1. PathsAt(f, b, callee, g, i) = CallPaths(n.calls, callee)
    BY <1>1, <1>8 DEF PathsAt
  <2> QED BY <1>3, <2>1
<1> QED BY <1>4, <1>5, <1>6, <1>7, <1>8 DEF Node, Kind

IsPaths(f, b, callee, g) == g = [i \in DOMAIN b |-> PathsAt(f, b, callee, g, i)]

(* and depend on those of later nodes only.                                *)
LEMMA PathsAtSame ==
  ASSUME NEW f, NEW b, IsBody(b), NEW i \in 1..Len(b), NEW callee, NEW S,
         NEW g \in [1..Len(b) -> S], NEW h \in [1..Len(b) -> S],
         \A j \in i + 1..Len(b) : g[j] = h[j]
  PROVE  PathsAt(f, b, callee, g, i) = PathsAt(f, b, callee, h, i)
BY FactsAtLocal DEF PathsAt

(* The paths of all nodes of a body exist,                                 *)
LEMMA PathsExist ==
  ASSUME NEW f \in Function, NEW b, IsBody(b), NEW callee \in [Function -> SUBSET Path]
  PROVE  \E g \in [1..Len(b) -> SUBSET Path] : IsPaths(f, b, callee, g)
<1>1. PICK n \in Nat : n = Len(b) /\ DOMAIN b = 1..n
  BY BodyFacts
<1>s. PICK S : S = SUBSET Path
  OBVIOUS
<1> DEFINE F == [i \in 1..n |-> [g \in [1..n -> S] |-> PathsAt(f, b, callee, g, i)]]
<1>2. ASSUME NEW i \in 1..n, NEW g \in [1..n -> S]
      PROVE  PathsAt(f, b, callee, g, i) \in S
  BY <1>1, <1>s, PathsAtFacts
<1>2a. ASSUME NEW i \in 1..n, NEW g \in [1..n -> S]
      PROVE  F[i][g] = PathsAt(f, b, callee, g, i)
  OBVIOUS
<1>3. Recursive(n, S, F)
  <2>1. F \in [1..n -> [[1..n -> S] -> S]]
    BY <1>2
  <2>2. ASSUME NEW i \in 1..n, NEW g \in [1..n -> S], NEW h \in [1..n -> S],
               \A j \in i + 1..n : g[j] = h[j]
        PROVE  F[i][g] = F[i][h]
    <3>1. PathsAt(f, b, callee, g, i) = PathsAt(f, b, callee, h, i)
      BY <1>1, <2>2, PathsAtSame
    <3> HIDE DEF F
    <3> QED BY <1>2a, <3>1
  <2> HIDE DEF F
  <2> QED BY <2>1, <2>2 DEF Recursive
<1> HIDE DEF F
<1>4. PICK g \in [1..n -> S] : Solves(n, F, g)
  BY <1>s, <1>3, Solved
<1>5. \A i \in 1..n : g[i] = PathsAt(f, b, callee, g, i)
  BY <1>2a, <1>4 DEF Solves
<1>6. g = [i \in 1..n |-> PathsAt(f, b, callee, g, i)]
  BY <1>4, <1>5
<1> QED BY <1>1, <1>s, <1>4, <1>6 DEF IsPaths

(* and PathsOf is them.                                                    *)
LEMMA PathsOfFacts ==
  ASSUME NEW f \in Function, NEW b, IsBody(b), NEW callee \in [Function -> SUBSET Path]
  PROVE  \E g \in [1..Len(b) -> SUBSET Path] :
           /\ Paths(f, b, callee) = g[1]
           /\ \A i \in 1..Len(b) : g[i] = PathsAt(f, b, callee, g, i)
<1>1. PICK n \in Nat : n = Len(b) /\ DOMAIN b = 1..n
  BY BodyFacts
<1>2. PICK h \in [1..n -> SUBSET Path] : IsPaths(f, b, callee, h)
  BY <1>1, PathsExist
<1>3. PICK g : IsPaths(f, b, callee, g) /\ Paths(f, b, callee) = g[1]
  <2>1. Paths(f, b, callee) = (CHOOSE g : IsPaths(f, b, callee, g))[1]
    BY DEF Paths, PathsOf, IsPaths
  <2> QED BY <1>2, <2>1
<1>4. DOMAIN g = 1..n /\ g = [i \in 1..n |-> g[i]]
      /\ \A i \in 1..n : g[i] = PathsAt(f, b, callee, g, i)
  BY <1>1, <1>3 DEF IsPaths
<1>5. \A i \in 1..n : h[i] = PathsAt(f, b, callee, h, i)
  BY <1>1, <1>2 DEF IsPaths
<1>6. PICK S : S = (SUBSET Path) \cup {g[i] : i \in 1..n}
  OBVIOUS
<1>7. g \in [1..n -> S] /\ h \in [1..n -> S]
  BY <1>4, <1>6
<1> DEFINE P == {i \in 1..n : g[i] = h[i]}
<1>8. ASSUME NEW i \in 1..n, \A j \in i + 1..n : j \in P
      PROVE  i \in P
  <2>0. \A j \in i + 1..Len(b) : g[j] = h[j]
    BY <1>1, <1>8
  <2>h. /\ i \in 1..Len(b)
        /\ g \in [1..Len(b) -> S] /\ h \in [1..Len(b) -> S]
    BY <1>1, <1>7
  <2>1. PathsAt(f, b, callee, g, i) = PathsAt(f, b, callee, h, i)
    BY <2>0, <2>h, PathsAtSame
  <2> QED BY <1>4, <1>5, <2>1
<1>9. 1..n \subseteq P
  <2> HIDE DEF P
  <2> QED BY <1>8, Backward
<1>10. g \in [1..n -> SUBSET Path]
  BY <1>4, <1>9
<1> QED BY <1>1, <1>3, <1>4, <1>10
-----------------------------------------------------------------------------
(* The counts of a body are attained by its paths.                         *)
(* Products grow with their factors.                                       *)
LEMMA ProductsOrdered ==
  ASSUME NEW x \in Nat, NEW y \in Nat, NEW u \in Nat, NEW v \in Nat, x <= y, u <= v
  PROVE  x * u <= v * y
<1>1. PICK d \in Nat, e \in Nat : y = x + d /\ v = u + e
  <2>1. y - x \in Nat /\ v - u \in Nat /\ y = x + (y - x) /\ v = u + (v - u)
    OBVIOUS
  <2> QED BY <2>1
<1>2. v * y = x * u + (u * d + e * x + e * d)
  BY <1>1
<1>3. u * d \in Nat /\ e * x \in Nat /\ e * d \in Nat /\ x * u \in Nat
  OBVIOUS
<1> QED BY <1>2, <1>3

(* Calls attain the sum of what each callee attains.                       *)
LEMMA CallsAttained ==
  ASSUME NEW calls \in Seq(Function), NEW expand \in [Function -> Tally],
         NEW callee \in [Function -> SUBSET Path],
         \A k \in 1..Len(calls) : Attains(callee[calls[k]], expand[calls[k]])
  PROVE  Attains(CallPaths(calls, callee), CallFacts(calls, expand))
<1>0. Len(calls) \in Nat
  BY LenProperties
<1>1. PICK facts \in Seq(Tally) :
        /\ facts = [k \in DOMAIN calls |-> expand[calls[k]]]
        /\ Len(facts) = Len(calls)
        /\ \A k \in 1..Len(calls) : facts[k] = expand[calls[k]]
  <2>1. PICK facts : facts = [k \in DOMAIN calls |-> expand[calls[k]]]
    OBVIOUS
  <2>2. /\ [k \in DOMAIN calls |-> expand[calls[k]]] \in Seq(Tally)
        /\ Len([k \in DOMAIN calls |-> expand[calls[k]]]) = Len(calls)
        /\ \A k \in 1..Len(calls) :
             [j \in DOMAIN calls |-> expand[calls[j]]][k] = expand[calls[k]]
    BY CallsListed
  <2> QED BY <2>1, <2>2
<1>2. PICK sets \in Seq(SUBSET Path) :
        /\ sets = [k \in DOMAIN calls |-> callee[calls[k]]]
        /\ Len(sets) = Len(calls)
        /\ \A k \in 1..Len(calls) : sets[k] = callee[calls[k]]
  <2>1. PICK S : S = SUBSET Path
    OBVIOUS
  <2>2. PICK sets : sets = [k \in DOMAIN calls |-> callee[calls[k]]]
    OBVIOUS
  <2>3. /\ [k \in DOMAIN calls |-> callee[calls[k]]] \in Seq(S)
        /\ Len([k \in DOMAIN calls |-> callee[calls[k]]]) = Len(calls)
        /\ \A k \in 1..Len(calls) :
             [j \in DOMAIN calls |-> callee[calls[j]]][k] = callee[calls[k]]
    BY <2>1, CallsListed
  <2> QED BY <2>1, <2>2, <2>3
<1>3. \A k \in 1..Len(calls) : Attains(sets[k], facts[k])
  BY <1>1, <1>2
<1>4. Attains(InTurn(sets), InSequence(facts))
  BY <1>0, <1>1, <1>2, <1>3, AttainsInTurn
<1> QED BY <1>1, <1>2, <1>4 DEF CallPaths, CallFacts

(* A choice attains the count of its largest alternative.                  *)
LEMMA ChoiceAttained ==
  ASSUME NEW m \in Nat, NEW facts, DOMAIN facts = 1..m, \A k \in 1..m : facts[k] \in Tally,
         NEW P \in SUBSET Path, Still \in P, \A k \in 1..m : Attains(P, facts[k])
  PROVE  Exclusive(facts) \in Tally /\ Attains(P, Exclusive(facts))
<1>1. /\ Exclusive(facts) \in Tally
      /\ \A c \in Channel : \/ Exclusive(facts)[c] = 0
                            \/ \E k \in 1..m : Exclusive(facts)[c] = facts[k][c]
  BY ExclusiveFacts
<1>2. ASSUME NEW c \in Channel
      PROVE  \E p \in P : Exclusive(facts)[c] <= p[c].times
  <2>1. CASE Exclusive(facts)[c] = 0
    BY <2>1, StillIsPath
  <2>2. CASE \E k \in 1..m : Exclusive(facts)[c] = facts[k][c]
    BY <2>2 DEF Attains
  <2> QED BY <1>1, <2>1, <2>2
<1> QED BY <1>1, <1>2 DEF Attains

(* Copies of a body attain its count times their number, or less often.    *)
LEMMA CopiesAttained ==
  ASSUME NEW n \in Nat, NEW u \in Nat, u <= n, NEW any \in SUBSET Path,
         NEW t \in Tally, Attains(any, t)
  PROVE  Attains(InTurn([k \in 1..n |-> any]), Scaled(t, u))
<1> SUFFICES ASSUME NEW c \in Channel
             PROVE  \E q \in InTurn([k \in 1..n |-> any]) : Scaled(t, u)[c] <= q[c].times
  BY DEF Attains
<1>1. PICK p \in any : t[c] <= p[c].times
  BY DEF Attains
<1>2. PICK q \in InTurn([k \in 1..n |-> any]) : q[c].times = n * p[c].times
  BY Repeated
<1>3. PICK x \in Nat, y \in Nat : x = t[c] /\ y = p[c].times
  BY FlowAssumption DEF Tally, Path
<1>4. Scaled(t, u)[c] <= x * u /\ Scaled(t, u)[c] \in Nat
  <2>1. PICK s \in Tally : s = Scaled(t, u) /\ s[c] <= t[c] * u
    BY ScaledFacts
  <2>2. s[c] \in Nat
    BY FlowAssumption DEF Tally
  <2> QED BY <1>3, <2>1, <2>2
<1>5. x * u <= n * y
  BY <1>1, <1>3, ProductsOrdered
<1>6. x * u \in Nat /\ n * y \in Nat
  OBVIOUS
<1> QED BY <1>2, <1>3, <1>4, <1>5, <1>6

(* An assignment attains its one write.                                    *)
LEMMA WriteAttained ==
  ASSUME NEW f \in Function, NEW target \in Channel \cup {NoChannel}, NEW one,
         one = IF target \in Channel THEN {Write(target, f)} ELSE {Still}
  PROVE  one \in SUBSET Path /\ Once(target) \in Tally /\ Attains(one, Once(target))
<1>1. CASE target \in Channel
  <2>1. Write(target, f) \in Path /\ Write(target, f)[target].times = 1
    BY <1>1, WriteFacts
  <2>2. \A c \in Channel : Write(target, f)[c].times \in Nat
    BY <2>1 DEF Path
  <2>3. \A c \in Channel : Once(target)[c] <= Write(target, f)[c].times
    BY <2>1, <2>2, OnceFacts
  <2> QED BY <1>1, <2>1, <2>3, OnceFacts DEF Attains
<1>2. CASE target \notin Channel
  <2>1. \A c \in Channel : Once(target)[c] = 0
    BY <1>2, OnceFacts
  <2> QED BY <1>2, <2>1, StillIsPath, OnceFacts DEF Attains
<1> QED BY <1>1, <1>2

(* What is known of the parts of a node, position by position.             *)
AttainParts(b, i, g, h) ==
  \E m \in Nat, facts \in Seq(Tally), sets \in Seq(SUBSET Path) :
    /\ facts = OfParts(b[i], g) /\ sets = OfParts(b[i], h)
    /\ Len(facts) = m /\ Len(sets) = m
    /\ DOMAIN facts = 1..m /\ DOMAIN sets = 1..m
    /\ \A k \in 1..m : /\ facts[k] \in Tally
                       /\ sets[k] \in SUBSET Path
                       /\ Attains(sets[k], facts[k])

(* What the later nodes attain, the parts of a node attain.                *)
LEMMA PartsAttained ==
  ASSUME NEW b, IsBody(b), NEW i \in 1..Len(b),
         NEW g \in [1..Len(b) -> Tally], NEW h \in [1..Len(b) -> SUBSET Path],
         \A j \in i + 1..Len(b) : Attains(h[j], g[j])
  PROVE  AttainParts(b, i, g, h)
<1>1. Listing(b, i, g, Tally)
  BY PartsListed
<1>2. PICK S : S = SUBSET Path
  OBVIOUS
<1>3. Listing(b, i, h, S)
  BY <1>2, PartsListed
<1>4. PICK m \in Nat : m = Len(b[i].parts)
  BY <1>1 DEF Listing
<1>5. \A k \in 1..m : Attains(OfParts(b[i], h)[k], OfParts(b[i], g)[k])
  BY <1>1, <1>3, <1>4 DEF Listing
<1> QED BY <1>1, <1>2, <1>3, <1>4, <1>5 DEF AttainParts, Listing

(* A node attains its counts if its parts and its callees attain theirs.   *)
LEMMA NodeAttained ==
  ASSUME NEW f \in Function, NEW b, IsBody(b), NoneEmpty(b),
         NEW expand \in [Function -> Tally], NEW callee \in [Function -> SUBSET Path],
         NEW i \in 1..Len(b),
         NEW g \in [1..Len(b) -> Tally], NEW h \in [1..Len(b) -> SUBSET Path],
         \A k \in 1..Len(b[i].calls) : Attains(callee[b[i].calls[k]], expand[b[i].calls[k]]),
         \A j \in i + 1..Len(b) : Attains(h[j], g[j])
  PROVE  Attains(PathsAt(f, b, callee, h, i), FactsAt(b, expand, g, i))
<1>1. PICK n \in Node : n = b[i]
  BY BodyFacts
<1>2. PICK m \in Nat, facts \in Seq(Tally), sets \in Seq(SUBSET Path) :
        /\ facts = OfParts(b[i], g) /\ sets = OfParts(b[i], h)
        /\ Len(facts) = m /\ Len(sets) = m
        /\ DOMAIN facts = 1..m /\ DOMAIN sets = 1..m
        /\ \A k \in 1..m : /\ facts[k] \in Tally
                           /\ sets[k] \in SUBSET Path
                           /\ Attains(sets[k], facts[k])
  <2>1. AttainParts(b, i, g, h)
    BY PartsAttained
  <2> QED BY <2>1 DEF AttainParts
<1>5. /\ CallFacts(n.calls, expand) \in Tally
      /\ CallPaths(n.calls, callee) \in SUBSET Path
      /\ Attains(CallPaths(n.calls, callee), CallFacts(n.calls, expand))
  <2>1. n.calls \in Seq(Function)
    BY DEF Node
  <2>2. PICK calls \in Seq(Tally) : calls = [k \in DOMAIN n.calls |-> expand[n.calls[k]]]
    BY <2>1, CallsListed
  <2>3. InSequence(calls) \in Tally
    <3>1. Len(calls) \in Nat
      BY LenProperties
    <3> QED BY <3>1, SequenceFacts
  <2>4. \A k \in 1..Len(n.calls) : Attains(callee[n.calls[k]], expand[n.calls[k]])
    BY <1>1
  <2> QED BY <2>1, <2>2, <2>3, <2>4, CallPathsFacts, CallsAttained DEF CallFacts
<1>a. /\ AnyOf(sets) \in SUBSET Path
      /\ \A k \in 1..m : Attains(AnyOf(sets), facts[k])
  <2>1. DOMAIN sets = 1..m /\ \A k \in 1..m : sets[k] \subseteq Path
    BY <1>2
  <2>2. AnyOf(sets) \subseteq Path
    BY <2>1 DEF AnyOf
  <2>3. ASSUME NEW k \in 1..m PROVE sets[k] \subseteq AnyOf(sets)
    BY <2>1 DEF AnyOf
  <2> QED BY <1>2, <2>2, <2>3 DEF Attains
<1>6. CASE n.kind = "assign"
  <2>1. PICK one : one = IF n.target \in Channel THEN {Write(n.target, f)} ELSE {Still}
    OBVIOUS
  <2>2. PathsAt(f, b, callee, h, i) = Then(one, CallPaths(n.calls, callee))
    BY <1>1, <1>6, <2>1 DEF PathsAt
  <2>3. FactsAt(b, expand, g, i) = MergeSeq(Once(n.target), CallFacts(n.calls, expand))
    BY <1>1, <1>6 DEF FactsAt
  <2>4. PICK target \in Channel \cup {NoChannel} : target = n.target
    BY DEF Node
  <2>5. one \in SUBSET Path /\ Once(n.target) \in Tally /\ Attains(one, Once(n.target))
    BY <2>1, <2>4, WriteAttained
  <2> QED BY <1>5, <2>2, <2>3, <2>5, AttainsThen
<1>7. CASE n.kind \in {"if", "when"}
  <2>1. PathsAt(f, b, callee, h, i) = Then(CallPaths(n.calls, callee), {Still} \cup AnyOf(sets))
    BY <1>1, <1>2, <1>7 DEF PathsAt, AnyOf
  <2>2. FactsAt(b, expand, g, i) = MergeSeq(CallFacts(n.calls, expand), Exclusive(facts))
    BY <1>1, <1>2, <1>7 DEF FactsAt, ConditionFacts
  <2>3. PICK P : P = {Still} \cup AnyOf(sets)
    OBVIOUS
  <2>4. P \in SUBSET Path /\ Still \in P
    BY <1>a, <2>3, StillIsPath
  <2>5. \A k \in 1..m : Attains(P, facts[k])
    BY <1>a, <2>3 DEF Attains
  <2>6. DOMAIN facts = 1..m /\ \A k \in 1..m : facts[k] \in Tally
    BY <1>2
  <2>7. Exclusive(facts) \in Tally /\ Attains(P, Exclusive(facts))
    BY <2>4, <2>5, <2>6, ChoiceAttained
  <2> QED BY <1>5, <2>1, <2>2, <2>3, <2>4, <2>7, AttainsThen
<1>8. CASE n.kind = "expand"
  <2>1. PICK scaled : scaled = [k \in DOMAIN facts |-> Scaled(facts[k], Iterations(n))]
    OBVIOUS
  <2>2. FactsAt(b, expand, g, i) = Exclusive(scaled)
    BY <1>1, <1>2, <1>8, <2>1 DEF FactsAt
  <2>3. Iterations(n) \in Nat /\ n.copies \in Nat /\ Iterations(n) <= n.copies
    <3>1. n.copies \in Nat
      BY DEF Node
    <3>2. n.copies # 0
      <4>1. i \in DOMAIN b
        BY BodyFacts
      <4> QED BY <1>1, <1>8, <4>1 DEF NoneEmpty
    <3> QED BY <3>1, <3>2 DEF Iterations
  <2>4. PICK P : P = {Still} \cup InTurn([k \in 1..n.copies |-> AnyOf(sets)])
    OBVIOUS
  <2>5. PathsAt(f, b, callee, h, i) = P
    BY <1>1, <1>2, <1>8, <2>4 DEF PathsAt, AnyOf
  <2>6. P \in SUBSET Path /\ Still \in P
    <3>1. InTurn([k \in 1..n.copies |-> AnyOf(sets)]) \in SUBSET Path
      BY <1>a, <2>3, CopiesTyped
    <3> QED BY <2>4, <3>1, StillIsPath
  <2>7. DOMAIN scaled = 1..m /\ \A k \in 1..m : scaled[k] = Scaled(facts[k], Iterations(n))
    BY <1>2, <2>1
  <2>8. \A k \in 1..m : scaled[k] \in Tally
    BY <1>2, <2>3, <2>7, ScaledFacts
  <2>9. ASSUME NEW k \in 1..m PROVE Attains(P, scaled[k])
    <3>1. facts[k] \in Tally
      BY <1>2
    <3>2. Attains(InTurn([j \in 1..n.copies |-> AnyOf(sets)]), Scaled(facts[k], Iterations(n)))
      BY <1>a, <2>3, <3>1, CopiesAttained
    <3> QED BY <2>4, <2>7, <3>2 DEF Attains
  <2>10. Attains(P, Exclusive(scaled))
    BY <2>6, <2>7, <2>8, <2>9, ChoiceAttained
  <2> QED BY <2>2, <2>5, <2>10
<1>9. CASE n.kind = "block"
  <2>1. PathsAt(f, b, callee, h, i) = InTurn(sets)
    BY <1>1, <1>2, <1>9 DEF PathsAt
  <2>2. FactsAt(b, expand, g, i) = InSequence(facts)
    BY <1>1, <1>2, <1>9 DEF FactsAt
  <2>3. Attains(InTurn(sets), InSequence(facts))
    BY <1>2, AttainsInTurn
  <2> QED BY <2>1, <2>2, <2>3
<1>10. CASE n.kind = "other"
  <2>1. PathsAt(f, b, callee, h, i) = CallPaths(n.calls, callee)
    BY <1>1, <1>10 DEF PathsAt
  <2>2. FactsAt(b, expand, g, i) = CallFacts(n.calls, expand)
    BY <1>1, <1>10 DEF FactsAt
  <2> QED BY <1>5, <2>1, <2>2
<1> QED BY <1>6, <1>7, <1>8, <1>9, <1>10 DEF Node, Kind

(* If the counts of the functions a body calls are attained by paths of    *)
(* theirs, the counts of the body are attained by paths of its own.        *)
LEMMA CountsAttained ==
  ASSUME NEW f \in Function, NEW b, IsBody(b), NoneEmpty(b),
         NEW expand \in [Function -> Tally], NEW callee \in [Function -> SUBSET Path],
         \A h \in Range(UserCallees(b)) : Attains(callee[h], expand[h])
  PROVE  /\ Paths(f, b, callee) \in SUBSET Path
         /\ Attains(Paths(f, b, callee), ChannelCounts(b, expand))
<1>1. PICK n \in Nat : n = Len(b) /\ 1 \in 1..n
  BY BodyFacts
<1>2. PICK g \in [1..n -> Tally] :
        /\ ChannelCounts(b, expand) = g[1]
        /\ \A i \in 1..n : g[i] = FactsAt(b, expand, g, i)
  BY <1>1, FactsOfFacts
<1>3. PICK h \in [1..n -> SUBSET Path] :
        /\ Paths(f, b, callee) = h[1]
        /\ \A i \in 1..n : h[i] = PathsAt(f, b, callee, h, i)
  BY <1>1, PathsOfFacts
<1> DEFINE P == {i \in 1..n : Attains(h[i], g[i])}
<1>4. ASSUME NEW i \in 1..n, \A j \in i + 1..n : j \in P
      PROVE  i \in P
  <2>1. \A j \in i + 1..Len(b) : Attains(h[j], g[j])
    BY <1>1, <1>4
  <2>2. \A k \in 1..Len(b[i].calls) : Attains(callee[b[i].calls[k]], expand[b[i].calls[k]])
    BY <1>1, UserCalleesFacts
  <2>3. i \in 1..Len(b) /\ g \in [1..Len(b) -> Tally] /\ h \in [1..Len(b) -> SUBSET Path]
    BY <1>1, <1>2, <1>3
  <2>4. Attains(PathsAt(f, b, callee, h, i), FactsAt(b, expand, g, i))
    BY <2>1, <2>2, <2>3, NodeAttained
  <2>5. g[i] = FactsAt(b, expand, g, i) /\ h[i] = PathsAt(f, b, callee, h, i)
    BY <1>2, <1>3
  <2> QED BY <2>4, <2>5
<1>5. 1..n \subseteq P
  <2> HIDE DEF P
  <2> QED BY <1>4, Backward
<1> QED BY <1>1, <1>2, <1>3, <1>5
-----------------------------------------------------------------------------
(* Upper bounds.  A relation between what a path does to a channel and the *)
(* count of that channel holds of every path if it is kept by what counts  *)
(* are built from: R is a set of pairs of the two.                         *)
Effect == [times : Nat, by : SUBSET Function]
Joined(v, w) == [times |-> v.times + w.times, by |-> v.by \cup w.by]
Capped(x) == IF x > CounterMax THEN CounterMax ELSE x

Kept(R, f) ==
  /\ <<[times |-> 0, by |-> {}], 0>> \in R
  /\ <<[times |-> 1, by |-> {f}], 1>> \in R
  /\ \A v \in Effect : \A x \in 0..CounterMax :
       <<v, x>> \in R => \A y \in x..CounterMax : <<v, y>> \in R
  /\ \A v, w \in Effect : \A x, y \in 0..CounterMax :
       <<v, x>> \in R /\ <<w, y>> \in R => <<Joined(v, w), Capped(x + y)>> \in R

Within(R, c, P, x) == \A p \in P : <<p[c], x>> \in R

(* A larger count bounds as well.                                          *)
LEMMA WithinMore ==
  ASSUME NEW R, NEW f, Kept(R, f), NEW c \in Channel, NEW P \in SUBSET Path,
         NEW x \in 0..CounterMax, NEW y \in 0..CounterMax, x <= y, Within(R, c, P, x)
  PROVE  Within(R, c, P, y)
<1>1. CounterMax \in Nat
  BY FlowAssumption
<1>2. y \in x..CounterMax
  BY <1>1
<1>3. \A p \in P : p[c] \in Effect
  BY DEF Path, Effect
<1> QED BY <1>2, <1>3 DEF Kept, Within

(* What runs one after the other is bounded by the sum, if it fits.        *)
LEMMA WithinJoined ==
  ASSUME NEW R, NEW f, Kept(R, f), NEW c \in Channel,
         NEW P \in SUBSET Path, NEW Q \in SUBSET Path,
         NEW x \in 0..CounterMax, NEW y \in 0..CounterMax,
         Within(R, c, P, x), Within(R, c, Q, y)
  PROVE  Within(R, c, Then(P, Q), Capped(x + y))
<1> SUFFICES ASSUME NEW p \in P, NEW q \in Q
             PROVE  <<Both(p, q)[c], Capped(x + y)>> \in R
  BY DEF Within, Then
<1>1. Both(p, q)[c] = Joined(p[c], q[c])
  BY DEF Both, Joined
<1>2. p[c] \in Effect /\ q[c] \in Effect
  BY DEF Path, Effect
<1> QED BY <1>1, <1>2 DEF Kept, Within

(* So a sum that fits bounds what runs one after the other,                *)
LEMMA WithinThen ==
  ASSUME NEW R, NEW f, Kept(R, f), NEW c \in Channel,
         NEW P \in SUBSET Path, NEW Q \in SUBSET Path,
         NEW s \in Tally, NEW t \in Tally, s[c] + t[c] <= CounterMax,
         Within(R, c, P, s[c]), Within(R, c, Q, t[c])
  PROVE  Within(R, c, Then(P, Q), MergeSeq(s, t)[c])
<1>1. s[c] \in 0..CounterMax /\ t[c] \in 0..CounterMax /\ CounterMax \in Nat
  BY FlowAssumption DEF Tally
<1>2. MergeSeq(s, t)[c] = s[c] + t[c]
  BY MergeSeqFacts
<1>3. Capped(s[c] + t[c]) = MergeSeq(s, t)[c]
  BY <1>1, <1>2 DEF Capped
<1>4. Within(R, c, Then(P, Q), Capped(s[c] + t[c]))
  BY <1>1, WithinJoined
<1> QED BY <1>3, <1>4

(* and all of a sequence, if no sum of it wraps.                           *)
LEMMA WithinInTurn ==
  ASSUME NEW R, NEW f, Kept(R, f), NEW c \in Channel, NEW n \in Nat,
         NEW facts \in Seq(Tally), Len(facts) = n, AllFit(facts),
         NEW sets \in Seq(SUBSET Path), Len(sets) = n,
         \A k \in 1..n : Within(R, c, sets[k], facts[k][c])
  PROVE  Within(R, c, InTurn(sets), InSequence(facts)[c])
<1>1. PICK g \in [1..n + 1 -> Tally] :
        InSequence(facts) = g[1] /\ SumsFrom(facts) = g /\ Sums(facts, n, g)
  BY SequenceFacts
<1>2. PICK h \in [1..n + 1 -> SUBSET Path] : InTurn(sets) = h[1] /\ Turns(sets, n, h)
  BY TurnFacts
<1>3. \A k \in 1..n : facts[k] \in Tally /\ sets[k] \in SUBSET Path /\ k \in DOMAIN facts
  BY LenProperties
<1> DEFINE P == {k \in 1..n + 1 : Within(R, c, h[k], g[k][c])}
<1>4. ASSUME NEW k \in 1..n + 1, \A j \in k + 1..n + 1 : j \in P
      PROVE  k \in P
  <2>1. CASE k = n + 1
    <3>1. g[k] = Zero /\ h[k] = {Still}
      BY <1>1, <1>2, <2>1 DEF Sums, Turns
    <3>2. Still[c] = [times |-> 0, by |-> {}] /\ Zero[c] = 0
      BY DEF Still, Zero
    <3> QED BY <3>1, <3>2 DEF Within, Kept
  <2>2. CASE k # n + 1
    <3>1. k \in 1..n /\ k + 1 \in k + 1..n + 1 /\ k + 1 \in 1..n + 1
      BY <2>2
    <3>2. Within(R, c, h[k + 1], g[k + 1][c])
      BY <1>4, <3>1
    <3>3. g[k] = MergeSeq(facts[k], g[k + 1]) /\ h[k] = Then(sets[k], h[k + 1])
      BY <1>1, <1>2, <3>1 DEF Sums, Turns
    <3>4. g[k + 1] \in Tally /\ h[k + 1] \in SUBSET Path
      BY <3>1
    <3>5. facts[k][c] + g[k + 1][c] <= CounterMax
      BY <1>1, <1>3, <3>1 DEF AllFit, Fit
    <3>6. Within(R, c, h[k], g[k][c])
      BY <1>3, <3>1, <3>2, <3>3, <3>4, <3>5, WithinThen
    <3> QED BY <3>6
  <2> QED BY <2>1, <2>2
<1>5. 1..n + 1 \subseteq P
  <2>1. PICK m \in Nat : m = n + 1
    OBVIOUS
  <2> HIDE DEF P
  <2>2. \A k \in 1..m : (\A j \in k + 1..m : j \in P) => k \in P
    BY <1>4, <2>1
  <2>3. m \in Nat
    BY <2>1
  <2>4. 1..m \subseteq P
    BY <2>2, <2>3, Backward
  <2> QED BY <2>1, <2>4
<1>6. 1 \in P
  <2>1. 1 \in 1..n + 1
    OBVIOUS
  <2> HIDE DEF P
  <2> QED BY <1>5, <2>1
<1> QED BY <1>1, <1>2, <1>6

(* Copies of a body are bounded by the saturated product.                  *)
LEMMA WithinCopies ==
  ASSUME NEW R, NEW f, Kept(R, f), NEW c \in Channel, NEW n \in Nat,
         NEW any \in SUBSET Path, NEW x \in 0..CounterMax, Within(R, c, any, x)
  PROVE  Within(R, c, InTurn([k \in 1..n |-> any]), Capped(x * n))
<1>m. CounterMax \in Nat /\ x \in Nat
  BY FlowAssumption
<1>s. PICK sets : sets = [k \in 1..n |-> any]
  OBVIOUS
<1>1. sets \in Seq(SUBSET Path) /\ Len(sets) = n
  <2>1. \A k \in 1..n : sets[k] \in SUBSET Path
    BY <1>s
  <2>2. sets = [k \in 1..n |-> sets[k]]
    BY <1>s
  <2> QED BY <2>1, <2>2, Listed
<1>2. PICK h \in [1..n + 1 -> SUBSET Path] : InTurn(sets) = h[1] /\ Turns(sets, n, h)
  BY <1>1, TurnFacts
<1>3. \A k \in 1..n : h[k] = Then(any, h[k + 1])
  BY <1>s, <1>2 DEF Turns
<1> DEFINE P == {k \in 1..n + 1 : Within(R, c, h[k], Capped(x * (n + 1 - k)))}
<1>4. ASSUME NEW k \in 1..n + 1, \A j \in k + 1..n + 1 : j \in P
      PROVE  k \in P
  <2>1. CASE k = n + 1
    <3>1. h[k] = {Still}
      BY <1>2, <2>1 DEF Turns
    <3>2. n + 1 - k = 0 /\ x * 0 = 0
      BY <1>m, <2>1
    <3>3. Capped(x * (n + 1 - k)) = 0
      BY <1>m, <3>2 DEF Capped
    <3>4. Still[c] = [times |-> 0, by |-> {}]
      BY DEF Still
    <3> QED BY <3>1, <3>3, <3>4 DEF Within, Kept
  <2>2. CASE k # n + 1
    <3>1. k \in 1..n /\ k + 1 \in k + 1..n + 1 /\ k + 1 \in 1..n + 1
      BY <2>2
    <3>2. Within(R, c, h[k + 1], Capped(x * (n + 1 - (k + 1))))
      BY <1>4, <3>1
    <3>3. PICK m \in Nat : m = n + 1 - (k + 1) /\ m + 1 = n + 1 - k
      BY <3>1
    <3>4. PICK y \in Nat : y = x * m
      BY <1>m
    <3>5. x * (m + 1) = x + y
      BY <1>m, <3>4
    <3>6. Capped(y) \in 0..CounterMax /\ Capped(x + Capped(y)) = Capped(x + y)
      BY <1>m DEF Capped
    <3>7. h[k] = Then(any, h[k + 1]) /\ h[k + 1] \in SUBSET Path
      BY <1>3, <3>1
    <3>8. Within(R, c, h[k + 1], Capped(y))
      BY <3>2, <3>3, <3>4
    <3>9. Within(R, c, Then(any, h[k + 1]), Capped(x + Capped(y)))
      BY <3>6, <3>7, <3>8, WithinJoined
    <3>10. Within(R, c, h[k], Capped(x * (m + 1)))
      BY <3>5, <3>6, <3>7, <3>9
    <3> QED BY <3>3, <3>10
  <2> QED BY <2>1, <2>2
<1>5. 1..n + 1 \subseteq P
  <2>1. PICK m \in Nat : m = n + 1
    OBVIOUS
  <2> HIDE DEF P
  <2>2. \A k \in 1..m : (\A j \in k + 1..m : j \in P) => k \in P
    BY <1>4, <2>1
  <2>3. m \in Nat
    BY <2>1
  <2>4. 1..m \subseteq P
    BY <2>2, <2>3, Backward
  <2> QED BY <2>1, <2>4
<1>6. 1 \in P
  <2>1. 1 \in 1..n + 1
    OBVIOUS
  <2> HIDE DEF P
  <2> QED BY <1>5, <2>1
<1>7. n + 1 - 1 = n
  OBVIOUS
<1> QED BY <1>s, <1>2, <1>6, <1>7
-----------------------------------------------------------------------------
(* What excludes one another is bounded by the largest bound.              *)
LEMMA WithinChoice ==
  ASSUME NEW R, NEW f, Kept(R, f), NEW c \in Channel, NEW m \in Nat,
         NEW facts, DOMAIN facts = 1..m, \A k \in 1..m : facts[k] \in Tally,
         NEW sets, DOMAIN sets = 1..m,
         \A k \in 1..m : sets[k] \in SUBSET Path /\ Within(R, c, sets[k], facts[k][c])
  PROVE  /\ Exclusive(facts) \in Tally
         /\ Within(R, c, {Still}, Exclusive(facts)[c])
         /\ Within(R, c, AnyOf(sets), Exclusive(facts)[c])
         /\ Within(R, c, {Still} \cup AnyOf(sets), Exclusive(facts)[c])
<1>m. CounterMax \in Nat
  BY FlowAssumption
<1>1. PICK x \in 0..CounterMax :
        /\ x = Exclusive(facts)[c] /\ Exclusive(facts) \in Tally
        /\ \A k \in 1..m : facts[k][c] <= x
  <2>1. Exclusive(facts) \in Tally /\ \A k \in 1..m : facts[k][c] <= Exclusive(facts)[c]
    BY ExclusiveFacts
  <2> QED BY <2>1 DEF Tally
<1>2. Within(R, c, {Still}, x)
  <2>1. Still[c] = [times |-> 0, by |-> {}]
    BY DEF Still
  <2>2. 0 \in 0..CounterMax /\ 0 <= x
    BY <1>m
  <2>3. Within(R, c, {Still}, 0)
    BY <2>1 DEF Within, Kept
  <2> QED BY <2>2, <2>3, StillIsPath, WithinMore
<1>3. ASSUME NEW k \in 1..m PROVE Within(R, c, sets[k], x)
  <2>1. facts[k][c] \in 0..CounterMax /\ facts[k][c] <= x
    BY <1>1 DEF Tally
  <2> QED BY <2>1, WithinMore
<1>4. Within(R, c, AnyOf(sets), x)
  BY <1>3 DEF Within, AnyOf
<1>5. Within(R, c, {Still} \cup AnyOf(sets), x)
  BY <1>2, <1>4 DEF Within
<1> QED BY <1>1, <1>2, <1>4, <1>5

(* The calls of a statement are bounded by what the expander knows.        *)
LEMMA WithinCalls ==
  ASSUME NEW R, NEW f, Kept(R, f), NEW c \in Channel,
         NEW calls \in Seq(Function), NEW expand \in [Function -> Tally],
         NEW callee \in [Function -> SUBSET Path],
         AllFit([k \in DOMAIN calls |-> expand[calls[k]]]),
         \A k \in 1..Len(calls) : Within(R, c, callee[calls[k]], expand[calls[k]][c])
  PROVE  /\ CallFacts(calls, expand) \in Tally /\ CallPaths(calls, callee) \in SUBSET Path
         /\ Within(R, c, CallPaths(calls, callee), CallFacts(calls, expand)[c])
<1>0. Len(calls) \in Nat
  BY LenProperties
<1>1. PICK facts \in Seq(Tally) :
        /\ facts = [k \in DOMAIN calls |-> expand[calls[k]]]
        /\ Len(facts) = Len(calls)
        /\ \A k \in 1..Len(calls) : facts[k] = expand[calls[k]]
  <2>1. PICK facts : facts = [k \in DOMAIN calls |-> expand[calls[k]]]
    OBVIOUS
  <2>2. /\ [k \in DOMAIN calls |-> expand[calls[k]]] \in Seq(Tally)
        /\ Len([k \in DOMAIN calls |-> expand[calls[k]]]) = Len(calls)
        /\ \A k \in 1..Len(calls) :
             [j \in DOMAIN calls |-> expand[calls[j]]][k] = expand[calls[k]]
    BY CallsListed
  <2> QED BY <2>1, <2>2
<1>2. PICK sets \in Seq(SUBSET Path) :
        /\ sets = [k \in DOMAIN calls |-> callee[calls[k]]]
        /\ Len(sets) = Len(calls)
        /\ \A k \in 1..Len(calls) : sets[k] = callee[calls[k]]
  <2>1. PICK S : S = SUBSET Path
    OBVIOUS
  <2>2. PICK sets : sets = [k \in DOMAIN calls |-> callee[calls[k]]]
    OBVIOUS
  <2>3. /\ [k \in DOMAIN calls |-> callee[calls[k]]] \in Seq(S)
        /\ Len([k \in DOMAIN calls |-> callee[calls[k]]]) = Len(calls)
        /\ \A k \in 1..Len(calls) :
             [j \in DOMAIN calls |-> callee[calls[j]]][k] = callee[calls[k]]
    BY <2>1, CallsListed
  <2> QED BY <2>1, <2>2, <2>3
<1>3. \A k \in 1..Len(calls) : Within(R, c, sets[k], facts[k][c])
  BY <1>1, <1>2
<1>4. AllFit(facts)
  BY <1>1
<1>5. Within(R, c, InTurn(sets), InSequence(facts)[c])
  BY <1>0, <1>1, <1>2, <1>3, <1>4, WithinInTurn
<1>6. InSequence(facts) \in Tally
  BY <1>0, <1>1, SequenceFacts
<1> QED BY <1>1, <1>2, <1>5, <1>6, CallPathsFacts DEF CallPaths, CallFacts

(* One assignment is bounded by its count.                                 *)
LEMMA WithinWrite ==
  ASSUME NEW R, NEW f \in Function, Kept(R, f), NEW c \in Channel,
         NEW target \in Channel \cup {NoChannel}, NEW one,
         one = IF target \in Channel THEN {Write(target, f)} ELSE {Still}
  PROVE  /\ one \in SUBSET Path /\ Once(target) \in Tally
         /\ Within(R, c, one, Once(target)[c])
<1>1. one \in SUBSET Path /\ Once(target) \in Tally
  BY WriteAttained
<1>2. Once(target)[c] = IF c = target THEN 1 ELSE 0
  BY OnceFacts
<1>3. Still[c] = [times |-> 0, by |-> {}]
  BY DEF Still
<1>4. CASE target = c
  <2>1. Write(target, f)[c] = [times |-> 1, by |-> {f}]
    BY <1>4 DEF Write, Still
  <2> QED BY <1>1, <1>2, <1>4, <2>1 DEF Within, Kept
<1>5. CASE target # c /\ target \in Channel
  <2>1. Write(target, f)[c] = [times |-> 0, by |-> {}]
    BY <1>5 DEF Write, Still
  <2> QED BY <1>1, <1>2, <1>5, <2>1 DEF Within, Kept
<1>6. CASE target \notin Channel
  BY <1>1, <1>2, <1>3, <1>6 DEF Within, Kept
<1> QED BY <1>4, <1>5, <1>6

(* The additions that count one node.                                      *)
NodeFits(b, expand, g, i) ==
  /\ AllFit([k \in DOMAIN b[i].calls |-> expand[b[i].calls[k]]])
  /\ b[i].kind = "assign" => Fit(Once(b[i].target), CallFacts(b[i].calls, expand))
  /\ b[i].kind \in {"if", "when"} =>
       Fit(ConditionFacts(b[i], expand), Exclusive(OfParts(b[i], g)))
  /\ b[i].kind = "block" => AllFit(OfParts(b[i], g))

WithinParts(R, c, b, i, g, h) ==
  \E m \in Nat, facts \in Seq(Tally), sets \in Seq(SUBSET Path) :
    /\ facts = OfParts(b[i], g) /\ sets = OfParts(b[i], h)
    /\ Len(facts) = m /\ Len(sets) = m
    /\ DOMAIN facts = 1..m /\ DOMAIN sets = 1..m
    /\ \A k \in 1..m : /\ facts[k] \in Tally
                       /\ sets[k] \in SUBSET Path
                       /\ Within(R, c, sets[k], facts[k][c])

(* If the nodes behind a node are bounded, so are its parts,               *)
LEMMA PartsWithin ==
  ASSUME NEW R, NEW c, NEW b, IsBody(b), NEW i \in 1..Len(b),
         NEW g \in [1..Len(b) -> Tally], NEW h \in [1..Len(b) -> SUBSET Path],
         \A j \in i + 1..Len(b) : Within(R, c, h[j], g[j][c])
  PROVE  WithinParts(R, c, b, i, g, h)
<1>1. Listing(b, i, g, Tally)
  BY PartsListed
<1>2. PICK S : S = SUBSET Path
  OBVIOUS
<1>3. Listing(b, i, h, S)
  BY <1>2, PartsListed
<1>4. PICK m \in Nat : m = Len(b[i].parts)
  BY <1>1 DEF Listing
<1>5. \A k \in 1..m : Within(R, c, OfParts(b[i], h)[k], OfParts(b[i], g)[k][c])
  BY <1>1, <1>3, <1>4 DEF Listing
<1> QED BY <1>1, <1>2, <1>3, <1>4, <1>5 DEF WithinParts, Listing

(* and then the node itself.                                               *)
LEMMA WithinNode ==
  ASSUME NEW R, NEW f \in Function, Kept(R, f), NEW c \in Channel,
         NEW b, IsBody(b), Enumerated(b),
         NEW expand \in [Function -> Tally], NEW callee \in [Function -> SUBSET Path],
         NEW i \in 1..Len(b),
         NEW g \in [1..Len(b) -> Tally], NEW h \in [1..Len(b) -> SUBSET Path],
         NodeFits(b, expand, g, i),
         \A k \in 1..Len(b[i].calls) :
           Within(R, c, callee[b[i].calls[k]], expand[b[i].calls[k]][c]),
         \A j \in i + 1..Len(b) : Within(R, c, h[j], g[j][c])
  PROVE  Within(R, c, PathsAt(f, b, callee, h, i), FactsAt(b, expand, g, i)[c])
<1>m. CounterMax \in Nat
  BY FlowAssumption
<1>1. PICK n \in Node : n = b[i]
  BY BodyFacts
<1>2. PICK m \in Nat, facts \in Seq(Tally), sets \in Seq(SUBSET Path) :
        /\ facts = OfParts(b[i], g) /\ sets = OfParts(b[i], h)
        /\ Len(facts) = m /\ Len(sets) = m
        /\ DOMAIN facts = 1..m /\ DOMAIN sets = 1..m
        /\ \A k \in 1..m : /\ facts[k] \in Tally
                           /\ sets[k] \in SUBSET Path
                           /\ Within(R, c, sets[k], facts[k][c])
  <2>1. WithinParts(R, c, b, i, g, h)
    BY PartsWithin
  <2> QED BY <2>1 DEF WithinParts
<1>5. /\ CallFacts(n.calls, expand) \in Tally
      /\ CallPaths(n.calls, callee) \in SUBSET Path
      /\ Within(R, c, CallPaths(n.calls, callee), CallFacts(n.calls, expand)[c])
  <2>1. PICK calls \in Seq(Function) : calls = n.calls
    BY DEF Node
  <2>2. AllFit([k \in DOMAIN calls |-> expand[calls[k]]])
    BY <1>1, <2>1 DEF NodeFits
  <2>3. \A k \in 1..Len(calls) : Within(R, c, callee[calls[k]], expand[calls[k]][c])
    BY <1>1, <2>1
  <2> QED BY <2>1, <2>2, <2>3, WithinCalls
<1>a. /\ Exclusive(facts) \in Tally
      /\ Within(R, c, {Still}, Exclusive(facts)[c])
      /\ Within(R, c, AnyOf(sets), Exclusive(facts)[c])
      /\ Within(R, c, {Still} \cup AnyOf(sets), Exclusive(facts)[c])
      /\ {Still} \cup AnyOf(sets) \in SUBSET Path /\ AnyOf(sets) \in SUBSET Path
  <2>1. \A k \in 1..m : facts[k] \in Tally
    BY <1>2
  <2>2. \A k \in 1..m : sets[k] \in SUBSET Path /\ Within(R, c, sets[k], facts[k][c])
    BY <1>2
  <2>3. DOMAIN facts = 1..m /\ DOMAIN sets = 1..m
    BY <1>2
  <2>4. AnyOf(sets) \in SUBSET Path
    BY <2>2, <2>3 DEF AnyOf
  <2> QED BY <2>1, <2>2, <2>3, <2>4, WithinChoice, StillIsPath
<1>6. CASE n.kind = "assign"
  <2>1. PICK one : one = IF n.target \in Channel THEN {Write(n.target, f)} ELSE {Still}
    OBVIOUS
  <2>2. PathsAt(f, b, callee, h, i) = Then(one, CallPaths(n.calls, callee))
    BY <1>1, <1>6, <2>1 DEF PathsAt
  <2>3. FactsAt(b, expand, g, i) = MergeSeq(Once(n.target), CallFacts(n.calls, expand))
    BY <1>1, <1>6 DEF FactsAt
  <2>4. PICK target \in Channel \cup {NoChannel} : target = n.target
    BY DEF Node
  <2>5. /\ one \in SUBSET Path /\ Once(n.target) \in Tally
        /\ Within(R, c, one, Once(n.target)[c])
    <3>1. one = IF target \in Channel THEN {Write(target, f)} ELSE {Still}
      BY <2>1, <2>4
    <3>2. /\ one \in SUBSET Path /\ Once(target) \in Tally
          /\ Within(R, c, one, Once(target)[c])
      BY <3>1, WithinWrite
    <3> QED BY <2>4, <3>2
  <2>6. Once(n.target)[c] + CallFacts(n.calls, expand)[c] <= CounterMax
    BY <1>1, <1>6 DEF NodeFits, Fit
  <2> QED BY <1>5, <2>2, <2>3, <2>5, <2>6, WithinThen
<1>7. CASE n.kind \in {"if", "when"}
  <2>1. PathsAt(f, b, callee, h, i) = Then(CallPaths(n.calls, callee), {Still} \cup AnyOf(sets))
    BY <1>1, <1>2, <1>7 DEF PathsAt, AnyOf
  <2>2. FactsAt(b, expand, g, i) = MergeSeq(CallFacts(n.calls, expand), Exclusive(facts))
    BY <1>1, <1>2, <1>7 DEF FactsAt, ConditionFacts
  <2>3. PICK P \in SUBSET Path : P = {Still} \cup AnyOf(sets)
    BY <1>a
  <2>4. CallFacts(n.calls, expand)[c] + Exclusive(facts)[c] <= CounterMax
    BY <1>1, <1>2, <1>7 DEF NodeFits, Fit, ConditionFacts
  <2> QED BY <1>5, <1>a, <2>1, <2>2, <2>3, <2>4, WithinThen
<1>8. CASE n.kind = "expand"
  <2>0. n.copies \in Nat /\ n.bounds /\ n.copies <= MaxRange /\ MaxRange \in Nat
    <3>1. i \in DOMAIN b
      BY BodyFacts
    <3> QED BY <1>1, <1>8, <3>1, FlowAssumption DEF Enumerated, Node
  <2>1. PICK scaled : scaled = [k \in DOMAIN facts |-> Scaled(facts[k], Iterations(n))]
    OBVIOUS
  <2>2. FactsAt(b, expand, g, i) = Exclusive(scaled)
    BY <1>1, <1>2, <1>8, <2>1 DEF FactsAt
  <2>3. /\ Iterations(n) \in Nat
        /\ n.copies = 0 \/ Iterations(n) = n.copies
    BY <2>0 DEF Iterations
  <2>4. PICK any \in SUBSET Path : any = AnyOf(sets)
    BY <1>a
  <2>5. PathsAt(f, b, callee, h, i) = {Still} \cup InTurn([k \in 1..n.copies |-> any])
    BY <1>1, <1>2, <1>8, <2>4 DEF PathsAt, AnyOf
  <2>6. DOMAIN scaled = 1..m /\ \A k \in 1..m : scaled[k] = Scaled(facts[k], Iterations(n))
    BY <1>2, <2>1
  <2>7. \A k \in 1..m : scaled[k] \in Tally
    BY <1>2, <2>3, <2>6, ScaledFacts
  <2>8. PICK z \in 0..CounterMax :
          /\ z = Exclusive(scaled)[c] /\ \A k \in 1..m : scaled[k][c] <= z
    <3>1. /\ Exclusive(scaled) \in Tally
          /\ \A k \in 1..m : scaled[k][c] <= Exclusive(scaled)[c]
      BY <2>6, <2>7, ExclusiveFacts
    <3> QED BY <3>1 DEF Tally
  <2>9. PICK x \in 0..CounterMax : x = Exclusive(facts)[c]
    BY <1>a DEF Tally
  <2>10. Capped(x * n.copies) \in 0..CounterMax /\ Capped(x * n.copies) <= z
    <3>0. x * n.copies \in Nat
      BY <1>m, <2>0
    <3>1. Capped(x * n.copies) \in 0..CounterMax
      BY <1>m, <3>0 DEF Capped
    <3>2. CASE n.copies = 0
      <4>1. x * n.copies = 0
        BY <1>m, <3>2
      <4> QED BY <1>m, <3>1, <4>1 DEF Capped
    <3>3. CASE x = 0
      <4>1. x * n.copies = 0
        BY <1>m, <3>3, <2>0
      <4> QED BY <1>m, <3>1, <4>1 DEF Capped
    <3>4. CASE n.copies # 0 /\ x # 0
      <4>1. PICK k \in 1..m : x = facts[k][c]
        <5>1. DOMAIN facts = 1..m /\ \A k \in 1..m : facts[k] \in Tally
          BY <1>2
        <5>2. \/ Exclusive(facts)[c] = 0
              \/ \E k \in 1..m : Exclusive(facts)[c] = facts[k][c]
          BY <5>1, ExclusiveFacts
        <5> QED BY <2>9, <3>4, <5>2
      <4>2. scaled[k][c] = Capped(x * n.copies)
        BY <2>3, <2>6, <3>4, <4>1 DEF Scaled, SaturatingMul, Capped
      <4> QED BY <2>8, <3>1, <4>2
    <3> QED BY <3>2, <3>3, <3>4
  <2>11. PICK Q \in SUBSET Path : Q = InTurn([k \in 1..n.copies |-> any])
    BY <2>0, CopiesTyped
  <2>12. Within(R, c, Q, Capped(x * n.copies))
    BY <1>a, <2>0, <2>4, <2>9, <2>11, WithinCopies
  <2>13. Within(R, c, Q, z)
    BY <2>10, <2>12, WithinMore
  <2>14. Within(R, c, {Still}, z)
    <3>1. Still[c] = [times |-> 0, by |-> {}] /\ 0 \in 0..CounterMax /\ 0 <= z
      BY <1>m DEF Still
    <3>2. Within(R, c, {Still}, 0)
      BY <3>1 DEF Within, Kept
    <3> QED BY <3>1, <3>2, StillIsPath, WithinMore
  <2> QED BY <2>2, <2>5, <2>8, <2>11, <2>13, <2>14 DEF Within
<1>9. CASE n.kind = "block"
  <2>1. PathsAt(f, b, callee, h, i) = InTurn(sets)
    BY <1>1, <1>2, <1>9 DEF PathsAt
  <2>2. FactsAt(b, expand, g, i) = InSequence(facts)
    BY <1>1, <1>2, <1>9 DEF FactsAt
  <2>3. AllFit(facts)
    BY <1>1, <1>2, <1>9 DEF NodeFits
  <2>4. \A k \in 1..m : Within(R, c, sets[k], facts[k][c])
    BY <1>2
  <2>5. Within(R, c, InTurn(sets), InSequence(facts)[c])
    BY <1>2, <2>3, <2>4, WithinInTurn
  <2> QED BY <2>1, <2>2, <2>5
<1>10. CASE n.kind = "other"
  <2>1. PathsAt(f, b, callee, h, i) = CallPaths(n.calls, callee)
    BY <1>1, <1>10 DEF PathsAt
  <2>2. FactsAt(b, expand, g, i) = CallFacts(n.calls, expand)
    BY <1>1, <1>10 DEF FactsAt
  <2> QED BY <1>5, <2>1, <2>2
<1> QED BY <1>6, <1>7, <1>8, <1>9, <1>10 DEF Node, Kind
-----------------------------------------------------------------------------
(* Nothing wraps in a body if nothing does at any of its nodes.            *)
LEMMA NodesFit ==
  ASSUME NEW b, IsBody(b), NEW expand, NEW g, FactsOf(b, expand) = g
  PROVE  NothingWraps(b, expand) <=> \A i \in 1..Len(b) : NodeFits(b, expand, g, i)
<1>1. DOMAIN b = 1..Len(b)
  BY BodyFacts
<1> QED BY <1>1 DEF NothingWraps, NodeFits

(* If what the callees of a body do is bounded by their counts, so is what *)
(* the body does, as long as no addition wraps.                            *)
LEMMA CountsWithin ==
  ASSUME NEW R, NEW f \in Function, Kept(R, f), NEW c \in Channel,
         NEW b, IsBody(b), Enumerated(b),
         NEW expand \in [Function -> Tally], NEW callee \in [Function -> SUBSET Path],
         NothingWraps(b, expand),
         \A h \in Range(UserCallees(b)) : Within(R, c, callee[h], expand[h][c])
  PROVE  Within(R, c, Paths(f, b, callee), ChannelCounts(b, expand)[c])
<1>1. PICK n \in Nat : n = Len(b) /\ 1 \in 1..n
  BY BodyFacts
<1>2. PICK g \in [1..n -> Tally] :
        /\ ChannelCounts(b, expand) = g[1] /\ FactsOf(b, expand) = g
        /\ \A i \in 1..n : g[i] = FactsAt(b, expand, g, i)
  BY <1>1, FactsOfFacts
<1>3. PICK h \in [1..n -> SUBSET Path] :
        /\ Paths(f, b, callee) = h[1]
        /\ \A i \in 1..n : h[i] = PathsAt(f, b, callee, h, i)
  BY <1>1, PathsOfFacts
<1>f. \A i \in 1..n : NodeFits(b, expand, g, i)
  BY <1>1, <1>2, NodesFit
<1> DEFINE P == {i \in 1..n : Within(R, c, h[i], g[i][c])}
<1>4. ASSUME NEW i \in 1..n, \A j \in i + 1..n : j \in P
      PROVE  i \in P
  <2>1. \A j \in i + 1..Len(b) : Within(R, c, h[j], g[j][c])
    BY <1>1, <1>4
  <2>2. \A k \in 1..Len(b[i].calls) :
          Within(R, c, callee[b[i].calls[k]], expand[b[i].calls[k]][c])
    BY <1>1, UserCalleesFacts
  <2>3. i \in 1..Len(b) /\ g \in [1..Len(b) -> Tally] /\ h \in [1..Len(b) -> SUBSET Path]
    BY <1>1, <1>2, <1>3
  <2>4. Within(R, c, PathsAt(f, b, callee, h, i), FactsAt(b, expand, g, i)[c])
    BY <1>f, <2>1, <2>2, <2>3, WithinNode
  <2> QED BY <1>2, <1>3, <2>4
<1>5. 1..n \subseteq P
  <2> HIDE DEF P
  <2> QED BY <1>4, Backward
<1> QED BY <1>1, <1>2, <1>3, <1>5
-----------------------------------------------------------------------------
(* Smaller counts make smaller sums, which fit as well.                    *)
LEMMA MergeBelow ==
  ASSUME NEW s \in Tally, NEW t \in Tally, NEW u \in Tally, NEW v \in Tally,
         Below(s, u), Below(t, v), Fit(u, v)
  PROVE  Below(MergeSeq(s, t), MergeSeq(u, v)) /\ Fit(s, t)
<1> SUFFICES ASSUME NEW c \in Channel
             PROVE  /\ MergeSeq(s, t)[c] <= MergeSeq(u, v)[c]
                    /\ s[c] + t[c] <= CounterMax
  BY DEF Below, Fit
<1>1. /\ s[c] \in Nat /\ t[c] \in Nat /\ u[c] \in Nat /\ v[c] \in Nat
      /\ CounterMax \in Nat
  BY FlowAssumption DEF Tally
<1>2. s[c] <= u[c] /\ t[c] <= v[c] /\ u[c] + v[c] <= CounterMax
  BY DEF Below, Fit
<1>3. s[c] + t[c] <= CounterMax /\ s[c] + t[c] <= u[c] + v[c]
  BY <1>1, <1>2
<1>4. MergeSeq(s, t)[c] = s[c] + t[c] /\ MergeSeq(u, v)[c] = u[c] + v[c]
  BY <1>2, <1>3, MergeSeqFacts
<1> QED BY <1>3, <1>4

(* So do the sums of a sequence, and they fit where the larger ones do.    *)
LEMMA SequenceBelow ==
  ASSUME NEW n \in Nat, NEW facts \in Seq(Tally), Len(facts) = n,
         NEW more \in Seq(Tally), Len(more) = n, AllFit(more),
         \A k \in 1..n : Below(facts[k], more[k])
  PROVE  Below(InSequence(facts), InSequence(more)) /\ AllFit(facts)
<1>1. PICK g \in [1..n + 1 -> Tally] :
        InSequence(facts) = g[1] /\ SumsFrom(facts) = g /\ Sums(facts, n, g)
  BY SequenceFacts
<1>2. PICK h \in [1..n + 1 -> Tally] :
        InSequence(more) = h[1] /\ SumsFrom(more) = h /\ Sums(more, n, h)
  BY SequenceFacts
<1>3. /\ DOMAIN facts = 1..n /\ DOMAIN more = 1..n
      /\ \A k \in 1..n : facts[k] \in Tally /\ more[k] \in Tally
  BY LenProperties
<1> DEFINE P == {k \in 1..n + 1 : Below(g[k], h[k])}
<1>a. ASSUME NEW k \in 1..n, Below(g[k + 1], h[k + 1])
      PROVE  Below(g[k], h[k]) /\ Fit(facts[k], g[k + 1])
  <2>1. k + 1 \in 1..n + 1
    OBVIOUS
  <2>2. g[k] = MergeSeq(facts[k], g[k + 1]) /\ h[k] = MergeSeq(more[k], h[k + 1])
    BY <1>1, <1>2 DEF Sums
  <2>3. g[k + 1] \in Tally /\ h[k + 1] \in Tally
    BY <2>1
  <2>4. Fit(more[k], h[k + 1])
    BY <1>2, <1>3 DEF AllFit
  <2> QED BY <1>3, <1>a, <2>2, <2>3, <2>4, MergeBelow
<1>4. ASSUME NEW k \in 1..n + 1, \A j \in k + 1..n + 1 : j \in P
      PROVE  k \in P
  <2>1. CASE k = n + 1
    <3>1. g[k] = Zero /\ h[k] = Zero
      BY <1>1, <1>2, <2>1 DEF Sums
    <3> QED BY <3>1, ZeroTally DEF Below
  <2>2. CASE k # n + 1
    <3>1. k \in 1..n /\ k + 1 \in k + 1..n + 1
      BY <2>2
    <3> QED BY <1>4, <1>a, <3>1
  <2> QED BY <2>1, <2>2
<1>5. 1..n + 1 \subseteq P
  <2>1. PICK m \in Nat : m = n + 1
    OBVIOUS
  <2> HIDE DEF P
  <2>2. \A k \in 1..m : (\A j \in k + 1..m : j \in P) => k \in P
    BY <1>4, <2>1
  <2>3. m \in Nat
    BY <2>1
  <2>4. 1..m \subseteq P
    BY <2>2, <2>3, Backward
  <2> QED BY <2>1, <2>4
<1>6. \A k \in 1..n + 1 : Below(g[k], h[k])
  BY <1>5
<1>7. 1 \in 1..n + 1 /\ \A k \in 1..n : k + 1 \in 1..n + 1
  OBVIOUS
<1>8. \A k \in 1..n : Fit(facts[k], g[k + 1])
  BY <1>a, <1>6, <1>7
<1>9. AllFit(facts)
  BY <1>1, <1>3, <1>8 DEF AllFit
<1> QED BY <1>1, <1>2, <1>6, <1>7, <1>9

(* Smaller counts have a smaller maximum,                                  *)
LEMMA ChoiceBelow ==
  ASSUME NEW m \in Nat, NEW facts, DOMAIN facts = 1..m, \A k \in 1..m : facts[k] \in Tally,
         NEW more, DOMAIN more = 1..m, \A k \in 1..m : more[k] \in Tally,
         \A k \in 1..m : Below(facts[k], more[k])
  PROVE  /\ Exclusive(facts) \in Tally /\ Exclusive(more) \in Tally
         /\ Below(Exclusive(facts), Exclusive(more))
<1>1. /\ Exclusive(facts) \in Tally
      /\ \A c \in Channel : \/ Exclusive(facts)[c] = 0
                            \/ \E k \in 1..m : Exclusive(facts)[c] = facts[k][c]
  BY ExclusiveFacts
<1>2. /\ Exclusive(more) \in Tally
      /\ \A c \in Channel : \A k \in 1..m : more[k][c] <= Exclusive(more)[c]
  BY ExclusiveFacts
<1>3. ASSUME NEW c \in Channel PROVE Exclusive(facts)[c] <= Exclusive(more)[c]
  <2>1. Exclusive(more)[c] \in Nat /\ Exclusive(facts)[c] \in Nat
    BY <1>1, <1>2, FlowAssumption DEF Tally
  <2>2. CASE Exclusive(facts)[c] = 0
    BY <2>1, <2>2
  <2>3. ASSUME NEW k \in 1..m, Exclusive(facts)[c] = facts[k][c]
        PROVE  Exclusive(facts)[c] <= Exclusive(more)[c]
    <3>1. facts[k][c] <= more[k][c] /\ more[k][c] <= Exclusive(more)[c]
      BY <1>2 DEF Below
    <3>2. facts[k][c] \in Nat /\ more[k][c] \in Nat
      BY FlowAssumption DEF Tally
    <3> QED BY <2>1, <2>3, <3>1, <3>2
  <2> QED BY <1>1, <2>2, <2>3
<1> QED BY <1>1, <1>2, <1>3 DEF Below

(* smaller products,                                                       *)
LEMMA ScaledBelow ==
  ASSUME NEW s \in Tally, NEW t \in Tally, NEW k \in Nat, Below(s, t)
  PROVE  Below(Scaled(s, k), Scaled(t, k))
<1> SUFFICES ASSUME NEW c \in Channel PROVE Scaled(s, k)[c] <= Scaled(t, k)[c]
  BY DEF Below
<1>m. CounterMax \in Nat
  BY FlowAssumption
<1>1. PICK x \in Nat, y \in Nat : x = s[c] /\ y = t[c] /\ x <= y
  BY <1>m DEF Tally, Below
<1>2. x * k <= k * y
  BY <1>1, ProductsOrdered
<1>3. k * y = y * k /\ x * k \in Nat /\ y * k \in Nat
  OBVIOUS
<1>4. PICK p \in Nat, q \in Nat : p = x * k /\ q = y * k /\ p <= q
  BY <1>2, <1>3
<1>5. /\ Scaled(s, k)[c] = IF p > CounterMax THEN CounterMax ELSE p
      /\ Scaled(t, k)[c] = IF q > CounterMax THEN CounterMax ELSE q
  BY <1>1, <1>4 DEF Scaled, SaturatingMul
<1> QED BY <1>m, <1>4, <1>5

(* and count less for the calls of a statement.                            *)
LEMMA CallsBelow ==
  ASSUME NEW calls \in Seq(Function),
         NEW d \in [Function -> Tally], NEW e \in [Function -> Tally],
         \A k \in 1..Len(calls) : Below(d[calls[k]], e[calls[k]]),
         AllFit([k \in DOMAIN calls |-> e[calls[k]]])
  PROVE  /\ CallFacts(calls, d) \in Tally /\ CallFacts(calls, e) \in Tally
         /\ Below(CallFacts(calls, d), CallFacts(calls, e))
         /\ AllFit([k \in DOMAIN calls |-> d[calls[k]]])
<1>0. Len(calls) \in Nat
  BY LenProperties
<1>1. PICK facts \in Seq(Tally) :
        /\ facts = [k \in DOMAIN calls |-> d[calls[k]]]
        /\ Len(facts) = Len(calls)
        /\ \A k \in 1..Len(calls) : facts[k] = d[calls[k]]
  <2>1. PICK facts : facts = [k \in DOMAIN calls |-> d[calls[k]]]
    OBVIOUS
  <2>2. /\ [k \in DOMAIN calls |-> d[calls[k]]] \in Seq(Tally)
        /\ Len([k \in DOMAIN calls |-> d[calls[k]]]) = Len(calls)
        /\ \A k \in 1..Len(calls) : [j \in DOMAIN calls |-> d[calls[j]]][k] = d[calls[k]]
    BY CallsListed
  <2> QED BY <2>1, <2>2
<1>2. PICK more \in Seq(Tally) :
        /\ more = [k \in DOMAIN calls |-> e[calls[k]]]
        /\ Len(more) = Len(calls)
        /\ \A k \in 1..Len(calls) : more[k] = e[calls[k]]
  <2>1. PICK more : more = [k \in DOMAIN calls |-> e[calls[k]]]
    OBVIOUS
  <2>2. /\ [k \in DOMAIN calls |-> e[calls[k]]] \in Seq(Tally)
        /\ Len([k \in DOMAIN calls |-> e[calls[k]]]) = Len(calls)
        /\ \A k \in 1..Len(calls) : [j \in DOMAIN calls |-> e[calls[j]]][k] = e[calls[k]]
    BY CallsListed
  <2> QED BY <2>1, <2>2
<1>3. \A k \in 1..Len(calls) : Below(facts[k], more[k])
  BY <1>1, <1>2
<1>4. AllFit(more)
  BY <1>2
<1>5. Below(InSequence(facts), InSequence(more)) /\ AllFit(facts)
  BY <1>0, <1>1, <1>2, <1>3, <1>4, SequenceBelow
<1>6. InSequence(facts) \in Tally /\ InSequence(more) \in Tally
  BY <1>0, <1>1, <1>2, SequenceFacts
<1> QED BY <1>1, <1>2, <1>5, <1>6 DEF CallFacts

(* A node counts less with smaller counts of its parts and callees.        *)
LEMMA NodeBelow ==
  ASSUME NEW b, IsBody(b), NEW d \in [Function -> Tally], NEW e \in [Function -> Tally],
         NEW i \in 1..Len(b),
         NEW g \in [1..Len(b) -> Tally], NEW h \in [1..Len(b) -> Tally],
         NodeFits(b, e, h, i),
         \A k \in 1..Len(b[i].calls) : Below(d[b[i].calls[k]], e[b[i].calls[k]]),
         \A j \in i + 1..Len(b) : Below(g[j], h[j])
  PROVE  Below(FactsAt(b, d, g, i), FactsAt(b, e, h, i)) /\ NodeFits(b, d, g, i)
<1>1. PICK n \in Node : n = b[i]
  BY BodyFacts
<1>2. PICK m \in Nat : m = Len(n.parts) /\ n.parts = b[i].parts
  BY <1>1, PartsListed DEF Listing
<1>3. PICK facts \in Seq(Tally) :
        /\ facts = OfParts(n, g) /\ Len(facts) = m /\ DOMAIN facts = 1..m
        /\ \A k \in 1..m : facts[k] \in Tally /\ facts[k] = g[b[i].parts[k]]
  <2>1. Listing(b, i, g, Tally)
    BY PartsListed
  <2> QED BY <1>1, <1>2, <2>1 DEF Listing
<1>4. PICK more \in Seq(Tally) :
        /\ more = OfParts(n, h) /\ Len(more) = m /\ DOMAIN more = 1..m
        /\ \A k \in 1..m : /\ more[k] \in Tally /\ more[k] = h[b[i].parts[k]]
                           /\ b[i].parts[k] \in i + 1..Len(b)
  <2>1. Listing(b, i, h, Tally)
    BY PartsListed
  <2> QED BY <1>1, <1>2, <2>1 DEF Listing
<1>5. \A k \in 1..m : Below(facts[k], more[k])
  BY <1>3, <1>4
<1>6. /\ CallFacts(n.calls, d) \in Tally /\ CallFacts(n.calls, e) \in Tally
      /\ Below(CallFacts(n.calls, d), CallFacts(n.calls, e))
      /\ AllFit([k \in DOMAIN n.calls |-> d[n.calls[k]]])
  <2>1. PICK calls \in Seq(Function) : calls = n.calls
    BY DEF Node
  <2>2. AllFit([k \in DOMAIN calls |-> e[calls[k]]])
    BY <1>1, <2>1 DEF NodeFits
  <2>3. \A k \in 1..Len(calls) : Below(d[calls[k]], e[calls[k]])
    BY <1>1, <2>1
  <2> QED BY <2>1, <2>2, <2>3, CallsBelow
<1>7. /\ Exclusive(facts) \in Tally /\ Exclusive(more) \in Tally
      /\ Below(Exclusive(facts), Exclusive(more))
  BY <1>3, <1>4, <1>5, ChoiceBelow
<1>8. CASE n.kind = "assign"
  <2>1. Once(n.target) \in Tally /\ Below(Once(n.target), Once(n.target))
    <3>1. Once(n.target) \in Tally
      BY OnceFacts
    <3>2. \A c \in Channel : Once(n.target)[c] \in Nat
      BY <3>1, FlowAssumption DEF Tally
    <3> QED BY <3>1, <3>2 DEF Below
  <2>2. Fit(Once(n.target), CallFacts(n.calls, e))
    BY <1>1, <1>8 DEF NodeFits
  <2>3. /\ Below(MergeSeq(Once(n.target), CallFacts(n.calls, d)),
                 MergeSeq(Once(n.target), CallFacts(n.calls, e)))
        /\ Fit(Once(n.target), CallFacts(n.calls, d))
    BY <1>6, <2>1, <2>2, MergeBelow
  <2>4. /\ FactsAt(b, d, g, i) = MergeSeq(Once(n.target), CallFacts(n.calls, d))
        /\ FactsAt(b, e, h, i) = MergeSeq(Once(n.target), CallFacts(n.calls, e))
    BY <1>1, <1>8 DEF FactsAt
  <2>5. NodeFits(b, d, g, i)
    BY <1>1, <1>6, <1>8, <2>3 DEF NodeFits
  <2> QED BY <2>3, <2>4, <2>5
<1>9. CASE n.kind \in {"if", "when"}
  <2>2. Fit(CallFacts(n.calls, e), Exclusive(more))
    BY <1>1, <1>4, <1>9 DEF NodeFits, ConditionFacts
  <2>3. /\ Below(MergeSeq(CallFacts(n.calls, d), Exclusive(facts)),
                 MergeSeq(CallFacts(n.calls, e), Exclusive(more)))
        /\ Fit(CallFacts(n.calls, d), Exclusive(facts))
    BY <1>6, <1>7, <2>2, MergeBelow
  <2>4. /\ FactsAt(b, d, g, i) = MergeSeq(CallFacts(n.calls, d), Exclusive(facts))
        /\ FactsAt(b, e, h, i) = MergeSeq(CallFacts(n.calls, e), Exclusive(more))
    BY <1>1, <1>3, <1>4, <1>9 DEF FactsAt, ConditionFacts
  <2>5. NodeFits(b, d, g, i)
    BY <1>1, <1>3, <1>6, <1>9, <2>3 DEF NodeFits, ConditionFacts
  <2> QED BY <2>3, <2>4, <2>5
<1>10. CASE n.kind = "expand"
  <2>0. Iterations(n) \in Nat
    BY DEF Iterations, Node
  <2>1. PICK scaled : scaled = [k \in DOMAIN facts |-> Scaled(facts[k], Iterations(n))]
    OBVIOUS
  <2>2. PICK larger : larger = [k \in DOMAIN more |-> Scaled(more[k], Iterations(n))]
    OBVIOUS
  <2>3. /\ DOMAIN scaled = 1..m /\ DOMAIN larger = 1..m
        /\ \A k \in 1..m : /\ scaled[k] = Scaled(facts[k], Iterations(n))
                           /\ larger[k] = Scaled(more[k], Iterations(n))
    BY <1>3, <1>4, <2>1, <2>2
  <2>4. \A k \in 1..m : /\ scaled[k] \in Tally /\ larger[k] \in Tally
                        /\ Below(scaled[k], larger[k])
    <3>1. PICK u \in Nat : u = Iterations(n)
      BY <2>0
    <3> SUFFICES ASSUME NEW k \in 1..m
                 PROVE  /\ scaled[k] \in Tally /\ larger[k] \in Tally
                        /\ Below(scaled[k], larger[k])
      OBVIOUS
    <3>2. PICK s \in Tally, t \in Tally : s = facts[k] /\ t = more[k] /\ Below(s, t)
      BY <1>3, <1>4, <1>5
    <3>3. /\ Scaled(s, u) \in Tally /\ Scaled(t, u) \in Tally
          /\ Below(Scaled(s, u), Scaled(t, u))
      BY <3>2, ScaledFacts, ScaledBelow
    <3> QED BY <2>3, <3>1, <3>2, <3>3
  <2>5. Below(Exclusive(scaled), Exclusive(larger))
    BY <2>3, <2>4, ChoiceBelow
  <2>6. FactsAt(b, d, g, i) = Exclusive(scaled) /\ FactsAt(b, e, h, i) = Exclusive(larger)
    BY <1>1, <1>3, <1>4, <1>10, <2>1, <2>2 DEF FactsAt
  <2>7. NodeFits(b, d, g, i)
    BY <1>1, <1>6, <1>10 DEF NodeFits
  <2> QED BY <2>5, <2>6, <2>7
<1>11. CASE n.kind = "block"
  <2>1. AllFit(more)
    BY <1>1, <1>4, <1>11 DEF NodeFits
  <2>2. Below(InSequence(facts), InSequence(more)) /\ AllFit(facts)
    BY <1>3, <1>4, <1>5, <2>1, SequenceBelow
  <2>3. FactsAt(b, d, g, i) = InSequence(facts) /\ FactsAt(b, e, h, i) = InSequence(more)
    BY <1>1, <1>3, <1>4, <1>11 DEF FactsAt
  <2>4. NodeFits(b, d, g, i)
    BY <1>1, <1>3, <1>6, <1>11, <2>2 DEF NodeFits
  <2> QED BY <2>2, <2>3, <2>4
<1>12. CASE n.kind = "other"
  <2>1. /\ FactsAt(b, d, g, i) = CallFacts(n.calls, d)
        /\ FactsAt(b, e, h, i) = CallFacts(n.calls, e)
    BY <1>1, <1>12 DEF FactsAt
  <2>2. NodeFits(b, d, g, i)
    BY <1>1, <1>6, <1>12 DEF NodeFits
  <2> QED BY <1>6, <2>1, <2>2
<1> QED BY <1>8, <1>9, <1>10, <1>11, <1>12 DEF Node, Kind

(* The counts of a body grow with those of its callees, while nothing      *)
(* wraps.                                                                  *)
LEMMA CountsBelow ==
  ASSUME NEW b, IsBody(b), NEW d \in [Function -> Tally], NEW e \in [Function -> Tally],
         NothingWraps(b, e),
         \A f \in Range(UserCallees(b)) : Below(d[f], e[f])
  PROVE  Below(ChannelCounts(b, d), ChannelCounts(b, e)) /\ NothingWraps(b, d)
<1>1. PICK n \in Nat : n = Len(b) /\ 1 \in 1..n
  BY BodyFacts
<1>2. PICK g \in [1..n -> Tally] :
        /\ ChannelCounts(b, d) = g[1] /\ FactsOf(b, d) = g
        /\ \A i \in 1..n : g[i] = FactsAt(b, d, g, i)
  BY <1>1, FactsOfFacts
<1>3. PICK h \in [1..n -> Tally] :
        /\ ChannelCounts(b, e) = h[1] /\ FactsOf(b, e) = h
        /\ \A i \in 1..n : h[i] = FactsAt(b, e, h, i)
  BY <1>1, FactsOfFacts
<1>f. \A i \in 1..n : NodeFits(b, e, h, i)
  BY <1>1, <1>3, NodesFit
<1> DEFINE P == {i \in 1..n : Below(g[i], h[i])}
<1>a. ASSUME NEW i \in 1..n, \A j \in i + 1..n : Below(g[j], h[j])
      PROVE  Below(g[i], h[i]) /\ NodeFits(b, d, g, i)
  <2>1. \A j \in i + 1..Len(b) : Below(g[j], h[j])
    BY <1>1, <1>a
  <2>2. \A k \in 1..Len(b[i].calls) : Below(d[b[i].calls[k]], e[b[i].calls[k]])
    BY <1>1, UserCalleesFacts
  <2>3. i \in 1..Len(b) /\ g \in [1..Len(b) -> Tally] /\ h \in [1..Len(b) -> Tally]
    BY <1>1, <1>2, <1>3
  <2>4. Below(FactsAt(b, d, g, i), FactsAt(b, e, h, i)) /\ NodeFits(b, d, g, i)
    BY <1>f, <2>1, <2>2, <2>3, NodeBelow
  <2> QED BY <1>2, <1>3, <2>4
<1>4. ASSUME NEW i \in 1..n, \A j \in i + 1..n : j \in P
      PROVE  i \in P
  BY <1>4, <1>a
<1>5. 1..n \subseteq P
  <2> HIDE DEF P
  <2> QED BY <1>4, Backward
<1>6. \A i \in 1..n : Below(g[i], h[i])
  BY <1>5
<1>7. \A i \in 1..n : NodeFits(b, d, g, i)
  <2> SUFFICES ASSUME NEW i \in 1..n PROVE NodeFits(b, d, g, i)
    OBVIOUS
  <2>1. \A j \in i + 1..n : j \in 1..n
    OBVIOUS
  <2> QED BY <1>6, <1>a, <2>1
<1>8. NothingWraps(b, d)
  BY <1>1, <1>2, <1>7, NodesFit
<1> QED BY <1>1, <1>2, <1>3, <1>6, <1>8
-----------------------------------------------------------------------------
(* The recursion.                                                          *)
(* The callees of a function with a script are functions.                  *)
LEMMA CalleesOfIndexed ==
  ASSUME TypeOK, NEW f \in Indexed
  PROVE  /\ f \in Function
         /\ program.body[f] \in Body /\ IsBody(program.body[f])
         /\ UserCallees(program.body[f]) \in Seq(Function)
         /\ \A i \in DOMAIN UserCallees(program.body[f]) :
              UserCallees(program.body[f])[i] \in CalledBy(f)
         /\ CalledBy(f) \subseteq Function
         /\ CalledBy(f) = Range(UserCallees(program.body[f]))
<1>1. f \in Function /\ program.body[f] \in Body
  BY CallInliningAssumption DEF Indexed, TypeOK, Program
<1>2. IsBody(program.body[f])
  BY <1>1, CallInliningAssumption
<1>3. UserCallees(program.body[f]) \in Seq(Function)
  BY <1>2, UserCalleesFacts
<1>4. CalledBy(f) = {UserCallees(program.body[f])[i] :
                       i \in DOMAIN UserCallees(program.body[f])}
  BY DEF CalledBy, Range
<1>5. CalledBy(f) = Range(UserCallees(program.body[f]))
  BY DEF CalledBy
<1> QED
  BY <1>1, <1>2, <1>3, <1>4, <1>5, ElementOfSeq

(* A new activation of a function with a script.                           *)
LEMMA ActivationTyped ==
  ASSUME TypeOK, NEW f \in Indexed
  PROVE  Activation(f) \in Frame
BY CalleesOfIndexed DEF Activation, Frame

(* Popping the top activation leaves the ones below it as they were.       *)
LEMMA Popped ==
  ASSUME NEW S, NEW s \in Seq(S), s # <<>>
  PROVE  /\ SubSeq(s, 1, Len(s) - 1) \in Seq(S)
         /\ Len(SubSeq(s, 1, Len(s) - 1)) = Len(s) - 1
         /\ \A i \in 1..(Len(s) - 1) : SubSeq(s, 1, Len(s) - 1)[i] = s[i]
<1>1. Len(s) \in Nat /\ Len(s) >= 1
  BY EmptySeq, LenProperties
<1>2. \A i \in 1..(Len(s) - 1) : s[i] \in S
  BY <1>1, ElementOfSeq
<1>3. 1 \in Int /\ Len(s) - 1 \in Int
  BY <1>1
<1>4. ASSUME NEW n \in Int, n = Len(s) - 1
      PROVE  /\ SubSeq(s, 1, n) \in Seq(S)
             /\ Len(SubSeq(s, 1, n)) = n
             /\ \A i \in 1..n : SubSeq(s, 1, n)[i] = s[i]
  <2>1. \A i \in 1..n : s[i] \in S
    BY <1>2, <1>4
  <2>2. /\ SubSeq(s, 1, n) \in Seq(S)
        /\ Len(SubSeq(s, 1, n)) = IF 1 <= n THEN n - 1 + 1 ELSE 0
        /\ \A i \in 1..(n - 1 + 1) : SubSeq(s, 1, n)[i] = s[1 + i - 1]
    BY <2>1, SubSeqProperties
  <2>3. \A i \in 1..n : 1 + i - 1 = i
    BY <1>4
  <2> QED BY <2>2, <2>3, <1>1, <1>4
<1> QED BY <1>3, <1>4

(* Moving the top activation past its next callee changes nothing else.    *)
LEMMA AdvancedStack ==
  ASSUME TypeOK, stack # <<>>, Top.todo # <<>>
  PROVE  /\ Advanced \in Seq(Frame)
         /\ Len(Advanced) = Len(stack)
         /\ Len(stack) \in DOMAIN stack
         /\ \A i \in DOMAIN stack : Advanced[i].fn = stack[i].fn
         /\ \A i \in DOMAIN stack :
              i # Len(stack) => Advanced[i] = stack[i]
         /\ Advanced[Len(stack)].todo = Tail(Top.todo)
         /\ Top \in Frame
         /\ Head(Top.todo) \in Function
<1>1. stack \in Seq(Frame) /\ Len(stack) \in DOMAIN stack
  BY EmptySeq, LenProperties, SMT DEF TypeOK
<1>2. Top \in Frame
  BY <1>1, ElementOfSeq, LenProperties DEF Top
<1>3. Head(Top.todo) \in Function /\ Tail(Top.todo) \in Seq(Function)
  BY <1>2, HeadTailProperties DEF Frame
<1>4. [Top EXCEPT !.todo = Tail(@)] \in Frame
  BY <1>2, <1>3 DEF Frame
<1>5. Advanced = [stack EXCEPT ![Len(stack)] = [Top EXCEPT !.todo = Tail(@)]]
  BY <1>1, <1>2 DEF Advanced, Top, Frame
<1>6. Advanced \in Seq(Frame) /\ Len(Advanced) = Len(stack)
  BY <1>1, <1>4, <1>5, ExceptSeq
<1>7. \A i \in DOMAIN stack :
        Advanced[i] = IF i = Len(stack) THEN [Top EXCEPT !.todo = Tail(@)]
                      ELSE stack[i]
  BY <1>1, <1>5
<1> QED BY <1>1, <1>2, <1>3, <1>6, <1>7 DEF Top, Frame
-----------------------------------------------------------------------------
(* The call graph as functions of the program alone.                       *)
Calls    == [f \in Function |-> CalledBy(f)]
Closures == [f \in Function |-> CallClosure(f)]

(* Every function reaches itself, and with a function whatever it calls.   *)
LEMMA ClosureProperties ==
  ASSUME NEW f \in Function
  PROVE  /\ f \in Closures[f]
         /\ \A g \in Closures[f] : \A h \in Function :
              h \in CalledBy(g) => h \in Closures[f]
<1>1. Closures[f] = CallClosure(f)
  BY DEF Closures
<1>2. f \in CallClosure(f)
  BY DEF CallClosure
<1>3. ASSUME NEW g \in CallClosure(f), NEW h \in Function, h \in CalledBy(g)
      PROVE  h \in CallClosure(f)
  <2>1. ASSUME NEW S \in SUBSET Function, f \in S,
               \A x \in S : CalledBy(x) \subseteq S
        PROVE  h \in S
    <3>1. g \in S
      BY <2>1, Zenon DEF CallClosure
    <3> QED BY <3>1, <2>1, <1>3
  <2> QED BY <2>1, <1>3 DEF CallClosure
<1> QED BY <1>1, <1>2, <1>3

(* The project does not change under the audit, nor what depends on it.    *)
LEMMA ProgramKept ==
  ASSUME [Next]_vars
  PROVE  /\ program' = program
         /\ Indexed' = Indexed
         /\ Calls' = Calls
         /\ Closures' = Closures
<1>1. program' = program
  BY DEF Next, vars, NextRoot, Descend, Return, BeginReport, ReportRoot,
         EndReport, Done
<1>2. Indexed' = Indexed
  BY <1>1 DEF Indexed
<1>3. Calls' = Calls
  BY <1>1 DEF Calls, CalledBy, Indexed
<1>4. Closures' = Closures
  BY <1>1 DEF Closures, CallClosure, CalledBy, Indexed
<1> QED BY <1>1, <1>2, <1>3, <1>4
-----------------------------------------------------------------------------
(* Type correctness.  What the expander gives are counts.                  *)
LEMMA ExpanderTyped ==
  ASSUME TypeOK PROVE Expander \in [Function -> Tally]
BY ZeroTally, CallInliningAssumption DEF TypeOK, Expander

(* Every function that has a turn has a script.                            *)
LEMMA OrderTyped ==
  ASSUME TypeOK
  PROVE  /\ program.order \in Seq(Function)
         /\ \A i \in DOMAIN program.order : program.order[i] \in Indexed
         /\ Len(program.order) \in Nat
         /\ DOMAIN program.order = 1..Len(program.order)
         /\ \A i \in DOMAIN program.order : program.order[i] \in Function
<1>1. program.order \in Seq(Function)
  BY CallInliningAssumption DEF TypeOK, Program
<1>2. \A i \in DOMAIN program.order : program.order[i] \in Function
  BY <1>1, LenProperties, ElementOfSeq
<1>3. \A i \in DOMAIN program.order : program.body[program.order[i]] \in Body
  <2>1. Range(program.order) = {f \in Function : program.body[f] \in Body}
    BY CallInliningAssumption DEF TypeOK
  <2> QED BY <1>2, <2>1 DEF Range
<1> QED
  BY <1>1, <1>2, <1>3, LenProperties, CallInliningAssumption DEF Indexed

(* What a push onto the stack leaves.                                      *)
LEMMA Pushed ==
  ASSUME TypeOK, stack # <<>>, Top.todo # <<>>,
         NEW f \in Indexed
  PROVE  /\ Append(Advanced, Activation(f)) \in Seq(Frame)
         /\ Len(Append(Advanced, Activation(f))) = Len(stack) + 1
         /\ \A i \in DOMAIN stack :
              Append(Advanced, Activation(f))[i] = Advanced[i]
         /\ Append(Advanced, Activation(f))[Len(stack) + 1] = Activation(f)
<1>1. Activation(f) \in Frame
  BY ActivationTyped
<1>2. Advanced \in Seq(Frame) /\ Len(Advanced) = Len(stack)
  BY AdvancedStack
<1>3. DOMAIN stack = 1..Len(stack)
  BY LenProperties DEF TypeOK
<1> QED BY <1>1, <1>2, <1>3, AppendProperties

(* The recursion guard with what keeps it: an activation waits only for    *)
(* functions its own function calls.                                       *)
Guarded ==
  /\ \A i, j \in DOMAIN stack : stack[i].fn = stack[j].fn => i = j
  /\ \A i \in DOMAIN stack : stack[i].fn \in Indexed
  /\ \A i \in DOMAIN stack : i > 1 => stack[i].fn \in Calls[stack[i - 1].fn]
  /\ \A i \in DOMAIN stack : \A k \in DOMAIN stack[i].todo :
       stack[i].todo[k] \in Calls[stack[i].fn]

(* What a return memoises is a count.                                      *)
LEMMA CountedTyped ==
  ASSUME TypeOK, Guarded, Return
  PROVE  /\ Top.fn \in Indexed
         /\ ChannelCounts(program.body[Top.fn], Expander) \in Tally
<1>1. Top.fn \in Indexed
  BY EmptySeq, LenProperties DEF Top, Guarded, Return, TypeOK
<1> QED BY <1>1, CalleesOfIndexed, ExpanderTyped, CountsTyped

(* Every step keeps the types,                                             *)
LEMMA TypeStep ==
  ASSUME TypeOK, Guarded, [Next]_vars
  PROVE  TypeOK'
<1>0. program' = program
  BY ProgramKept
<1>1. CASE NextRoot
  <2>1. next \in 1..Len(program.order) /\ next + 1 \in 1..(Len(program.order) + 1)
    BY <1>1, OrderTyped DEF NextRoot
  <2>2. <<Activation(program.order[next])>> \in Seq(Frame)
    BY <1>1, OrderTyped, ActivationTyped DEF NextRoot
  <2>3. stack' \in Seq(Frame)
    BY <1>1, <2>2 DEF NextRoot
  <2> QED BY <1>1, <2>1, <2>3 DEF NextRoot, TypeOK
<1>2. CASE Descend
  <2> DEFINE f == Head(Top.todo)
  <2>1. stack # <<>> /\ Top.todo # <<>> /\ f \in Function
    BY <1>2, AdvancedStack DEF Descend
  <2>2. memo' \in [Function -> Tally \cup {NotYet}]
    BY <1>2, ZeroTally DEF Descend, TypeOK
  <2>3. CASE Memoised(f) \/ CutOff(f)
    BY <1>2, <2>1, <2>2, <2>3, AdvancedStack DEF Descend, TypeOK
  <2>4. CASE ~(Memoised(f) \/ CutOff(f))
    <3>1. f \in Indexed
      BY <2>1, <2>4 DEF CutOff
    <3>2. stack' = Append(Advanced, Activation(f))
      BY <1>2, <2>4 DEF Descend
    <3>3. stack' \in Seq(Frame)
      BY <2>1, <3>1, <3>2, Pushed
    <3> QED BY <1>2, <2>2, <3>3 DEF Descend, TypeOK
  <2> QED BY <2>3, <2>4
<1>3. CASE Return
  <2>1. stack \in Seq(Frame) /\ stack # <<>>
    BY <1>3 DEF Return, TypeOK
  <2>2. stack' \in Seq(Frame)
    BY <1>3, <2>1, Popped DEF Return
  <2>3. memo' \in [Function -> Tally \cup {NotYet}]
    <3>1. ChannelCounts(program.body[Top.fn], Expander) \in Tally
      BY <1>3, CountedTyped
    <3> QED BY <1>3, <3>1 DEF Return, TypeOK
  <2> QED BY <1>3, <2>2, <2>3 DEF Return, TypeOK
<1>4. CASE BeginReport
  BY <1>4, OrderTyped DEF BeginReport, TypeOK
<1>5. CASE ReportRoot
  <2>1. next \in 1..Len(program.order) /\ next + 1 \in 1..(Len(program.order) + 1)
    BY <1>5, OrderTyped DEF ReportRoot
  <2>2. program.order[next] \in Function
    BY <1>5, OrderTyped DEF ReportRoot, Indexed
  <2>3. \A c \in Channel : WritersOf(program.order[next], c) \in SUBSET Function
    BY DEF WritersOf, CallClosure
  <2> QED BY <1>5, <2>1, <2>2, <2>3 DEF ReportRoot, TypeOK
<1>6. CASE EndReport
  BY <1>6 DEF EndReport, TypeOK
<1>7. CASE UNCHANGED vars
  BY <1>7 DEF vars, TypeOK
<1> QED BY <1>1, <1>2, <1>3, <1>4, <1>5, <1>6, <1>7 DEF Next, Done

(* The function called next is called by the one on top, and the callees   *)
(* that remain are among those that were waited for.                       *)
LEMMA NextCallee ==
  ASSUME TypeOK, Guarded, stack # <<>>, Top.todo # <<>>
  PROVE  /\ Head(Top.todo) \in Calls[Top.fn]
         /\ DOMAIN Top.todo # {}
         /\ \A k \in DOMAIN Tail(Top.todo) :
              k + 1 \in DOMAIN Top.todo /\ Tail(Top.todo)[k] = Top.todo[k + 1]
         /\ \A k \in DOMAIN Top.todo :
              Top.todo[k] = Head(Top.todo) \/
                (k - 1 \in DOMAIN Tail(Top.todo)
                   /\ Tail(Top.todo)[k - 1] = Top.todo[k])
         /\ \A k \in DOMAIN Tail(Top.todo) : Tail(Top.todo)[k] \in Calls[Top.fn]
<1>1. Top.todo \in Seq(Function) /\ Len(stack) \in DOMAIN stack
  BY AdvancedStack DEF Frame
<1>2. /\ Len(Top.todo) \in Nat \ {0}
      /\ DOMAIN Top.todo = 1..Len(Top.todo)
      /\ Tail(Top.todo) \in Seq(Function)
      /\ Len(Tail(Top.todo)) = Len(Top.todo) - 1
      /\ DOMAIN Tail(Top.todo) = 1..(Len(Top.todo) - 1)
      /\ \A k \in 1..(Len(Top.todo) - 1) : Tail(Top.todo)[k] = Top.todo[k + 1]
  BY <1>1, EmptySeq, LenProperties, HeadTailProperties
<1>3. Head(Top.todo) = Top.todo[1]
  BY <1>1, <1>2
<1>4. \A k \in DOMAIN Top.todo : Top.todo[k] \in Calls[Top.fn]
  BY <1>1 DEF Guarded, Top
<1>5. \A k \in DOMAIN Tail(Top.todo) :
        k + 1 \in DOMAIN Top.todo /\ Tail(Top.todo)[k] = Top.todo[k + 1]
  BY <1>2
<1>6. ASSUME NEW k \in DOMAIN Top.todo, k # 1
      PROVE  k - 1 \in DOMAIN Tail(Top.todo) /\ Tail(Top.todo)[k - 1] = Top.todo[k]
  <2>1. k - 1 \in 1..(Len(Top.todo) - 1) /\ (k - 1) + 1 = k
    BY <1>2, <1>6
  <2> QED BY <2>1, <1>2
<1>7. 1 \in DOMAIN Top.todo
  BY <1>2
<1> QED BY <1>3, <1>4, <1>5, <1>6, <1>7

(* A return leaves the activations below the top as they were.             *)
LEMMA ReturnedStack ==
  ASSUME TypeOK, Return
  PROVE  /\ DOMAIN stack = 1..Len(stack)
         /\ Len(stack) \in DOMAIN stack
         /\ Len(stack') = Len(stack) - 1
         /\ DOMAIN stack' = 1..(Len(stack) - 1)
         /\ \A i \in DOMAIN stack' : i \in DOMAIN stack /\ stack'[i] = stack[i]
         /\ \A i \in DOMAIN stack' : i > 1 => i - 1 \in DOMAIN stack'
<1>1. /\ stack \in Seq(Frame) /\ stack # <<>> /\ DOMAIN stack = 1..Len(stack)
      /\ Len(stack) \in Nat \ {0}
  BY EmptySeq, LenProperties DEF Return, TypeOK
<1>2. stack' \in Seq(Frame) /\ Len(stack') = Len(stack) - 1
        /\ \A i \in 1..(Len(stack) - 1) : stack'[i] = stack[i]
  BY <1>1, Popped DEF Return
<1>3. DOMAIN stack' = 1..(Len(stack) - 1)
  BY <1>2, LenProperties
<1> QED BY <1>1, <1>2, <1>3

(* and the guard of the recursion.                                         *)
LEMMA GuardStep ==
  ASSUME TypeOK, Guarded, [Next]_vars
  PROVE  Guarded'
<1>0. Indexed' = Indexed /\ Calls' = Calls
  BY ProgramKept
<1>1. CASE NextRoot
  <2>1. program.order[next] \in Indexed
    BY <1>1, OrderTyped DEF NextRoot
  <2> DEFINE r == program.order[next]
  <2>2. CASE stack' = <<>>
    BY <2>2 DEF Guarded
  <2>3. CASE stack' = <<Activation(r)>>
    <3>1. DOMAIN stack' = {1} /\ stack'[1].fn = r
            /\ stack'[1].todo = UserCallees(program.body[r])
      BY <2>3 DEF Activation
    <3>2. \A k \in DOMAIN UserCallees(program.body[r]) :
            UserCallees(program.body[r])[k] \in Calls[r]
      BY <2>1, CalleesOfIndexed DEF Calls
    <3> QED BY <1>0, <2>1, <3>1, <3>2 DEF Guarded
  <2> QED BY <1>1, <2>2, <2>3 DEF NextRoot
<1>2. CASE Descend
  <2> DEFINE f == Head(Top.todo)
  <2>1. /\ stack # <<>> /\ Top.todo # <<>> /\ f \in Function
        /\ DOMAIN stack = 1..Len(stack) /\ Len(stack) \in DOMAIN stack
        /\ Advanced \in Seq(Frame) /\ DOMAIN Advanced = DOMAIN stack
    BY <1>2, AdvancedStack, LenProperties DEF Descend, TypeOK
  <2>2. /\ \A i \in DOMAIN stack : Advanced[i].fn = stack[i].fn
        /\ \A i \in DOMAIN stack : i # Len(stack) => Advanced[i] = stack[i]
        /\ Advanced[Len(stack)].todo = Tail(Top.todo)
    BY <2>1, AdvancedStack
  <2>3. \A i \in DOMAIN stack : \A k \in DOMAIN Advanced[i].todo :
          Advanced[i].todo[k] \in Calls[stack[i].fn]
    <3>1. \A k \in DOMAIN Tail(Top.todo) :
            Tail(Top.todo)[k] \in Calls[stack[Len(stack)].fn]
      BY <2>1, NextCallee DEF Top
    <3> QED BY <2>1, <2>2, <3>1 DEF Guarded
  <2>4. CASE stack' = Advanced
    BY <1>0, <2>1, <2>2, <2>3, <2>4 DEF Guarded
  <2>5. CASE ~Memoised(f) /\ ~CutOff(f)
    <3>1. f \in Indexed /\ f \notin Visiting
      BY <2>1, <2>5 DEF CutOff
    <3>2. stack' = Append(Advanced, Activation(f))
      BY <1>2, <2>5 DEF Descend
    <3>3. /\ DOMAIN stack' = 1..(Len(stack) + 1)
          /\ \A i \in DOMAIN stack : stack'[i] = Advanced[i]
          /\ stack'[Len(stack) + 1] = Activation(f)
      BY <2>1, <3>1, <3>2, Pushed, LenProperties
    <3>4. /\ stack'[Len(stack) + 1].fn = f
          /\ \A k \in DOMAIN stack'[Len(stack) + 1].todo :
               stack'[Len(stack) + 1].todo[k] \in Calls[f]
      <4>1. stack'[Len(stack) + 1].fn = f
              /\ stack'[Len(stack) + 1].todo = UserCallees(program.body[f])
        BY <3>3 DEF Activation
      <4>2. \A k \in DOMAIN UserCallees(program.body[f]) :
              UserCallees(program.body[f])[k] \in Calls[f]
        BY <2>1, <3>1, CalleesOfIndexed DEF Calls
      <4> QED BY <4>1, <4>2
    <3>5. f \in Calls[stack[Len(stack)].fn]
      BY <2>1, NextCallee DEF Top
    <3>6. \A i \in DOMAIN stack : stack[i].fn # f
      BY <3>1 DEF Visiting
    <3>7. Len(stack) \in Nat /\ Len(stack) > 0
      BY <2>1, LenProperties DEF TypeOK
    <3>8. \A i \in 1..(Len(stack) + 1) :
            i \in DOMAIN stack \/ i = Len(stack) + 1
      BY <2>1, <3>7
    <3>9. \A i, j \in DOMAIN stack' : stack'[i].fn = stack'[j].fn => i = j
      BY <2>2, <3>3, <3>4, <3>6, <3>8 DEF Guarded
    <3>10. \A i \in DOMAIN stack' : stack'[i].fn \in Indexed
      BY <2>2, <3>1, <3>3, <3>4, <3>8 DEF Guarded
    <3>11. ASSUME NEW i \in DOMAIN stack', i > 1
           PROVE  stack'[i].fn \in Calls[stack'[i - 1].fn]
      <4>1. i - 1 \in DOMAIN stack
        BY <2>1, <3>3, <3>7, <3>11
      <4>2. CASE i \in DOMAIN stack
        BY <4>1, <4>2, <3>11, <2>2, <3>3 DEF Guarded
      <4>3. CASE i = Len(stack) + 1
        <5>1. i - 1 = Len(stack)
          BY <4>3, <3>7
        <5> QED BY <4>1, <4>3, <5>1, <2>2, <3>3, <3>4, <3>5
      <4> QED BY <4>2, <4>3, <3>3, <3>8
    <3>12. \A i \in DOMAIN stack' : \A k \in DOMAIN stack'[i].todo :
             stack'[i].todo[k] \in Calls[stack'[i].fn]
      BY <2>2, <2>3, <3>3, <3>4, <3>8
    <3> QED BY <1>0, <3>9, <3>10, <3>11, <3>12 DEF Guarded
  <2> QED BY <1>2, <2>4, <2>5 DEF Descend
<1>3. CASE Return
  <2>2. /\ \A i \in DOMAIN stack' : i \in DOMAIN stack /\ stack'[i] = stack[i]
        /\ \A i \in DOMAIN stack' : i > 1 => i - 1 \in DOMAIN stack'
    BY <1>3, ReturnedStack
  <2> QED BY <1>0, <2>2 DEF Guarded
<1>4. CASE BeginReport \/ ReportRoot \/ EndReport \/ UNCHANGED vars
  <2>1. stack' = stack
    BY <1>4 DEF BeginReport, ReportRoot, EndReport, vars
  <2> QED BY <1>0, <2>1 DEF Guarded
<1> QED BY <1>1, <1>2, <1>3, <1>4 DEF Next, Done

(* Both hold initially.                                                    *)
LEMMA InitTyped == Init => TypeOK /\ Guarded
<1> SUFFICES ASSUME Init PROVE TypeOK /\ Guarded
  OBVIOUS
<1>1. program.order \in Seq(Function)
  BY CallInliningAssumption DEF Init, Program
<1>2. 1 \in 1..(Len(program.order) + 1)
  BY <1>1, LenProperties
<1> QED BY <1>2, EmptySeq DEF Init, TypeOK, Guarded

(* The variables keep their types in every state.                          *)
THEOREM TypeCorrect == Spec => []TypeOK
<1>1. TypeOK /\ Guarded /\ [Next]_vars => (TypeOK /\ Guarded)'
  BY TypeStep, GuardStep
<1> QED BY <1>1, InitTyped, PTL DEF Spec

(* The recursion guard works: the stack is always a path of calls from one *)
(* function with a script to another that visits none of them twice, so    *)
(* mutual and self recursion in the scripts never recurses for ever.       *)
THEOREM RecursionGuarded == Spec => []StackIsCallPath
<1>1. TypeOK /\ Guarded /\ [Next]_vars => (TypeOK /\ Guarded)'
  BY TypeStep, GuardStep
<1>2. TypeOK /\ Guarded => StackIsCallPath
  <2> SUFFICES ASSUME TypeOK, Guarded PROVE StackIsCallPath
    OBVIOUS
  <2>1. \A i \in DOMAIN stack : i > 1 => i - 1 \in DOMAIN stack
    BY LenProperties DEF TypeOK
  <2>2. \A i \in DOMAIN stack : stack[i].fn \in Function
    BY DEF Guarded, Indexed
  <2> QED BY <2>1, <2>2 DEF StackIsCallPath, Guarded, Calls
<1> QED BY <1>1, <1>2, InitTyped, PTL DEF Spec
-----------------------------------------------------------------------------
(* Exactness.  Every activation reaches the ones above it, so a callee     *)
(* that is still being counted closes a cycle,                             *)
Reaching ==
  \A i, j \in DOMAIN stack : i <= j => stack[j].fn \in Closures[stack[i].fn]

(* and every callee of an activation is memoised, awaited, or being        *)
(* counted right above it, so that none is missing when it is counted.     *)
Awaited(i, f) ==
  \/ memo[f] # NotYet
  \/ \E k \in DOMAIN stack[i].todo : stack[i].todo[k] = f
  \/ i < Len(stack) /\ stack[i + 1].fn = f

NoneMissing ==
  \A i \in DOMAIN stack : \A f \in Calls[stack[i].fn] : Awaited(i, f)

(* Every activation reaches the ones above it, before and after every step.*)
LEMMA ReachingStep ==
  ASSUME TypeOK, Guarded, Guarded', Reaching, [Next]_vars
  PROVE  Reaching'
<1>0. Closures' = Closures
  BY ProgramKept
<1>1. CASE NextRoot
  <2>1. program.order[next] \in Indexed
    BY <1>1, OrderTyped DEF NextRoot
  <2> DEFINE r == program.order[next]
  <2>2. CASE stack' = <<>>
    BY <2>2 DEF Reaching
  <2>3. CASE stack' = <<Activation(r)>>
    <3>1. DOMAIN stack' = {1} /\ stack'[1].fn = r
      BY <2>3 DEF Activation
    <3>2. r \in Closures[r]
      BY <2>1, ClosureProperties DEF Indexed
    <3> QED BY <1>0, <3>1, <3>2 DEF Reaching
  <2> QED BY <1>1, <2>2, <2>3 DEF NextRoot
<1>2. CASE Descend
  <2> DEFINE f == Head(Top.todo)
  <2>1. /\ stack # <<>> /\ Top.todo # <<>> /\ f \in Function
        /\ DOMAIN stack = 1..Len(stack) /\ Len(stack) \in DOMAIN stack
        /\ DOMAIN Advanced = DOMAIN stack
        /\ \A i \in DOMAIN stack : Advanced[i].fn = stack[i].fn
    BY <1>2, AdvancedStack, LenProperties DEF Descend, TypeOK
  <2>2. CASE stack' = Advanced
    BY <1>0, <2>1, <2>2 DEF Reaching
  <2>3. CASE ~Memoised(f) /\ ~CutOff(f)
    <3>1. f \in Indexed
      BY <2>1, <2>3 DEF CutOff
    <3>2. stack' = Append(Advanced, Activation(f))
      BY <1>2, <2>3 DEF Descend
    <3>3. /\ DOMAIN stack' = 1..(Len(stack) + 1)
          /\ \A i \in DOMAIN stack : stack'[i] = Advanced[i]
          /\ stack'[Len(stack) + 1] = Activation(f)
      BY <2>1, <3>1, <3>2, Pushed, LenProperties
    <3>4. stack'[Len(stack) + 1].fn = f
      BY <3>3 DEF Activation
    <3>5. Len(stack) \in Nat /\ Len(stack) > 0
      BY <2>1, LenProperties DEF TypeOK
    <3>6. \A i \in 1..(Len(stack) + 1) :
            i \in DOMAIN stack \/ i = Len(stack) + 1
      BY <2>1, <3>5
    <3>7. ASSUME NEW i \in DOMAIN stack
          PROVE  f \in Closures[stack[i].fn]
      <4>1. stack[Len(stack)].fn \in Closures[stack[i].fn]
        BY <2>1 DEF Reaching
      <4>2. f \in CalledBy(stack[Len(stack)].fn)
        BY <2>1, NextCallee DEF Top, Calls, Guarded, Indexed
      <4>3. stack[i].fn \in Function
        BY DEF Guarded, Indexed
      <4> QED BY <2>1, <4>1, <4>2, <4>3, ClosureProperties
    <3>8. f \in Closures[f]
      BY <2>1, ClosureProperties
    <3>9. ASSUME NEW i \in DOMAIN stack', NEW j \in DOMAIN stack', i <= j
          PROVE  stack'[j].fn \in Closures[stack'[i].fn]
      <4>1. CASE i \in DOMAIN stack /\ j \in DOMAIN stack
        BY <4>1, <3>9, <2>1, <3>3 DEF Reaching
      <4>2. CASE i \in DOMAIN stack /\ j = Len(stack) + 1
        BY <4>2, <2>1, <3>3, <3>4, <3>7
      <4>3. CASE i = Len(stack) + 1
        <5>1. j = Len(stack) + 1
          BY <4>3, <3>9, <3>3, <3>5
        <5> QED BY <4>3, <5>1, <3>4, <3>8
      <4> QED BY <4>1, <4>2, <4>3, <3>3, <3>6
    <3> QED BY <1>0, <3>9 DEF Reaching
  <2> QED BY <1>2, <2>2, <2>3 DEF Descend
<1>3. CASE Return
  <2>1. \A i \in DOMAIN stack' : i \in DOMAIN stack /\ stack'[i] = stack[i]
    BY <1>3, ReturnedStack
  <2> QED BY <1>0, <2>1 DEF Reaching
<1>4. CASE BeginReport \/ ReportRoot \/ EndReport \/ UNCHANGED vars
  <2>1. stack' = stack
    BY <1>4 DEF BeginReport, ReportRoot, EndReport, vars
  <2> QED BY <1>0, <2>1 DEF Reaching
<1> QED BY <1>1, <1>2, <1>3, <1>4 DEF Next, Done

(* The memo only grows.                                                    *)
LEMMA MemoGrows ==
  ASSUME TypeOK, Guarded, [Next]_vars, NEW f, memo[f] # NotYet,
         f \in Function
  PROVE  memo'[f] # NotYet
<1>1. CASE Return
  <2>1. ChannelCounts(program.body[Top.fn], Expander) # NotYet
    BY <1>1, CountedTyped, CallInliningAssumption
  <2> QED BY <1>1, <2>1 DEF Return, TypeOK
<1>2. CASE Descend
  BY <1>2, ZeroTally, CallInliningAssumption DEF Descend, TypeOK
<1>3. CASE NextRoot \/ BeginReport \/ ReportRoot \/ EndReport \/ UNCHANGED vars
  BY <1>3 DEF NextRoot, BeginReport, ReportRoot, EndReport, vars
<1> QED BY <1>1, <1>2, <1>3 DEF Next, Done

(* No step leaves the memo without a callee of a counted function.         *)
LEMMA NoneMissingStep ==
  ASSUME TypeOK, Guarded, NoneMissing, [Next]_vars
  PROVE  NoneMissing'
<1>0. Calls' = Calls
  BY ProgramKept
<1>1. CASE NextRoot
  <2>1. program.order[next] \in Indexed
    BY <1>1, OrderTyped DEF NextRoot
  <2> DEFINE r == program.order[next]
  <2>2. CASE stack' = <<>>
    BY <2>2 DEF NoneMissing
  <2>3. CASE stack' = <<Activation(r)>>
    <3>1. DOMAIN stack' = {1} /\ stack'[1].fn = r
            /\ stack'[1].todo = UserCallees(program.body[r])
      BY <2>3 DEF Activation
    <3>2. \A f \in Calls[r] : \E k \in DOMAIN UserCallees(program.body[r]) :
            UserCallees(program.body[r])[k] = f
      BY <2>1 DEF Calls, CalledBy, Indexed, Range
    <3> QED BY <1>0, <3>1, <3>2 DEF NoneMissing, Awaited
  <2> QED BY <1>1, <2>2, <2>3 DEF NextRoot
<1>2. CASE Descend
  <2> DEFINE f == Head(Top.todo)
  <2>1. /\ stack # <<>> /\ Top.todo # <<>> /\ f \in Function
        /\ DOMAIN stack = 1..Len(stack) /\ Len(stack) \in DOMAIN stack
        /\ Advanced \in Seq(Frame) /\ Len(Advanced) = Len(stack)
        /\ DOMAIN Advanced = DOMAIN stack
        /\ \A i \in DOMAIN stack : Advanced[i].fn = stack[i].fn
        /\ \A i \in DOMAIN stack : i # Len(stack) => Advanced[i] = stack[i]
        /\ Advanced[Len(stack)].todo = Tail(Top.todo)
        /\ Len(stack) \in Nat
    BY <1>2, AdvancedStack, LenProperties DEF Descend, TypeOK
  <2>2. \A i \in DOMAIN stack : \A g \in Calls[stack[i].fn] : g \in Function
    BY CalleesOfIndexed DEF Guarded, Calls, Indexed
  <2>3. ASSUME NEW i \in DOMAIN stack, NEW g \in Calls[stack[i].fn],
               memo'[g] = NotYet
        PROVE  \/ \E k \in DOMAIN Advanced[i].todo : Advanced[i].todo[k] = g
               \/ i < Len(stack) /\ stack[i + 1].fn = g
               \/ i = Len(stack) /\ g = f
    <3>1. memo[g] = NotYet
      BY <2>2, <2>3, MemoGrows
    <3>2. Awaited(i, g)
      BY <2>3 DEF NoneMissing
    <3>3. CASE i # Len(stack)
      BY <2>1, <3>1, <3>2, <3>3 DEF Awaited
    <3>4. CASE i = Len(stack)
      <4>1. \E k \in DOMAIN Top.todo : Top.todo[k] = g
        BY <2>1, <3>1, <3>2, <3>4 DEF Awaited, Top
      <4>2. g = f \/ \E k \in DOMAIN Tail(Top.todo) : Tail(Top.todo)[k] = g
        BY <2>1, <4>1, NextCallee
      <4> QED BY <2>1, <3>4, <4>2
    <3> QED BY <3>3, <3>4
  <2>4. CASE Memoised(f) \/ CutOff(f)
    <3>1. memo'[f] # NotYet
      <4>1. CASE Memoised(f)
        BY <4>1, <2>1, MemoGrows DEF Memoised
      <4>2. CASE ~Memoised(f)
        BY <1>2, <2>1, <2>4, <4>2, ZeroTally, CallInliningAssumption
           DEF Descend, TypeOK
      <4> QED BY <4>1, <4>2
    <3>2. stack' = Advanced
      BY <1>2, <2>4 DEF Descend
    <3>3. ASSUME NEW i \in DOMAIN stack, NEW g \in Calls[stack[i].fn],
                 memo'[g] = NotYet
          PROVE  \/ \E k \in DOMAIN Advanced[i].todo : Advanced[i].todo[k] = g
                 \/ i < Len(stack) /\ stack[i + 1].fn = g
      BY <2>3, <3>1, <3>3
    <3>4. \A i \in DOMAIN stack : i < Len(stack) =>
            Advanced[i + 1].fn = stack[i + 1].fn
      BY <2>1
    <3> QED BY <1>0, <2>1, <3>2, <3>3, <3>4 DEF NoneMissing, Awaited
  <2>5. CASE ~Memoised(f) /\ ~CutOff(f)
    <3>1. f \in Indexed
      BY <2>1, <2>5 DEF CutOff
    <3>2. stack' = Append(Advanced, Activation(f))
      BY <1>2, <2>5 DEF Descend
    <3>3. /\ Len(stack') = Len(stack) + 1
          /\ DOMAIN stack' = 1..(Len(stack) + 1)
          /\ \A i \in DOMAIN stack : stack'[i] = Advanced[i]
          /\ stack'[Len(stack) + 1] = Activation(f)
      BY <2>1, <3>1, <3>2, Pushed, LenProperties
    <3>4. stack'[Len(stack) + 1].fn = f
            /\ stack'[Len(stack) + 1].todo = UserCallees(program.body[f])
      BY <3>3 DEF Activation
    <3>5. ASSUME NEW i \in DOMAIN stack', NEW g \in Calls[stack'[i].fn],
                 memo'[g] = NotYet
          PROVE  \/ \E k \in DOMAIN stack'[i].todo : stack'[i].todo[k] = g
                 \/ i < Len(stack') /\ stack'[i + 1].fn = g
      <4>1. CASE i = Len(stack) + 1
        <5>1. \E k \in DOMAIN UserCallees(program.body[f]) :
                UserCallees(program.body[f])[k] = g
          BY <3>1, <3>4, <3>5, <4>1 DEF Calls, CalledBy, Indexed, Range
        <5> QED BY <5>1, <3>4, <4>1
      <4>2. CASE i \in DOMAIN stack
        <5>1. g \in Calls[stack[i].fn]
          BY <2>1, <3>3, <3>5, <4>2
        <5>2. CASE \E k \in DOMAIN Advanced[i].todo : Advanced[i].todo[k] = g
          BY <5>2, <3>3, <4>2
        <5>3. CASE i < Len(stack) /\ stack[i + 1].fn = g
          <6>1. i + 1 \in DOMAIN stack
            BY <2>1, <4>2, <5>3
          <6> QED BY <2>1, <3>3, <4>2, <5>3, <6>1
        <5>4. CASE i = Len(stack) /\ g = f
          BY <2>1, <3>3, <3>4, <5>4
        <5> QED BY <2>3, <3>5, <4>2, <5>1, <5>2, <5>3, <5>4
      <4> QED BY <2>1, <3>3, <4>1, <4>2
    <3> QED BY <1>0, <3>5 DEF NoneMissing, Awaited
  <2> QED BY <2>4, <2>5
<1>3. CASE Return
  <2>1. /\ DOMAIN stack = 1..Len(stack)
        /\ Len(stack) \in DOMAIN stack
        /\ Len(stack') = Len(stack) - 1
        /\ DOMAIN stack' = 1..(Len(stack) - 1)
        /\ \A i \in DOMAIN stack' : i \in DOMAIN stack /\ stack'[i] = stack[i]
    BY <1>3, ReturnedStack
  <2>2. Top.fn \in Function /\ memo'[Top.fn] # NotYet
    <3>1. ChannelCounts(program.body[Top.fn], Expander) # NotYet /\ Top.fn \in Function
      BY <1>3, CountedTyped, CallInliningAssumption DEF Indexed
    <3> QED BY <1>3, <3>1 DEF Return, TypeOK
  <2>3. ASSUME NEW i \in DOMAIN stack', NEW g \in Calls[stack[i].fn],
               memo'[g] = NotYet
        PROVE  \/ \E k \in DOMAIN stack'[i].todo : stack'[i].todo[k] = g
               \/ i < Len(stack') /\ stack'[i + 1].fn = g
    <3>1. g \in Function
      BY <2>1, <2>3, CalleesOfIndexed DEF Guarded, Calls, Indexed
    <3>2. memo[g] = NotYet /\ g # Top.fn
      BY <2>2, <2>3, <3>1, MemoGrows
    <3>3. Awaited(i, g) /\ i \in DOMAIN stack
      BY <2>1, <2>3 DEF NoneMissing
    <3>4. CASE i < Len(stack) /\ stack[i + 1].fn = g
      <4>1. i + 1 # Len(stack)
        BY <3>2, <3>4 DEF Top
      <4>2. i + 1 \in DOMAIN stack' /\ i < Len(stack')
        BY <2>1, <3>3, <3>4, <4>1
      <4> QED BY <2>1, <3>4, <4>2
    <3> QED BY <2>1, <3>2, <3>3, <3>4 DEF Awaited
  <2> QED BY <1>0, <2>1, <2>3 DEF NoneMissing, Awaited
<1>4. CASE BeginReport \/ ReportRoot \/ EndReport \/ UNCHANGED vars
  <2>1. stack' = stack /\ memo' = memo
    BY <1>4 DEF BeginReport, ReportRoot, EndReport, vars
  <2> QED BY <1>0, <2>1 DEF NoneMissing, Awaited
<1> QED BY <1>1, <1>2, <1>3, <1>4 DEF Next, Done

(* In a program without call cycles, a callee on the stack is impossible.  *)
LEMMA NoBackEdge ==
  ASSUME TypeOK, Guarded, Reaching, Acyclic,
         stack # <<>>, Top.todo # <<>>
  PROVE  Head(Top.todo) \notin Visiting
<1> DEFINE f == Head(Top.todo)
<1>1. SUFFICES ASSUME NEW i \in DOMAIN stack, stack[i].fn = f PROVE FALSE
  BY DEF Visiting
<1>2. /\ Len(stack) \in DOMAIN stack /\ DOMAIN stack = 1..Len(stack)
      /\ f \in Function
  BY AdvancedStack, LenProperties DEF TypeOK
<1>3. Top.fn \in Indexed
  BY <1>2 DEF Guarded, Top
<1>4. f \in CalledBy(Top.fn)
  BY <1>3, NextCallee DEF Calls, Indexed
<1>5. Top.fn \in CallClosure(f)
  <2>1. i <= Len(stack)
    BY <1>1, <1>2
  <2>2. stack[Len(stack)].fn \in Closures[f]
    BY <1>1, <1>2, <2>1 DEF Reaching
  <2> QED BY <1>2, <2>2 DEF Closures, Top
<1> QED BY <1>3, <1>4, <1>5 DEF Acyclic, Indexed
-----------------------------------------------------------------------------
(* Soundness of the reports.                                               *)
(* A count without calls is attained by a path on which every call does    *)
(* nothing.                                                                *)
LEMMA StillAttainsZero == Attains({Still}, Zero)
BY ZeroTally, StillIsPath DEF Attains

(* The counts of a body by itself are attained by a path through it.       *)
LEMMA AloneAttained ==
  ASSUME NEW f \in Function, NEW b, IsBody(b), NoneEmpty(b)
  PROVE  Attains(Paths(f, b, [g \in Function |-> {Still}]), ChannelCounts(b, NoCalls))
<1>1. PICK callee : callee = [g \in Function |-> {Still}]
  OBVIOUS
<1>2. NoCalls \in [Function -> Tally] /\ callee \in [Function -> SUBSET Path]
  BY <1>1, ZeroTally, StillIsPath DEF NoCalls
<1>3. \A g \in Range(UserCallees(b)) : g \in Function
  <2>1. UserCallees(b) \in Seq(Function)
    BY UserCalleesFacts
  <2> QED BY <2>1, LenProperties, ElementOfSeq DEF Range
<1>4. \A g \in Range(UserCallees(b)) : Attains(callee[g], NoCalls[g])
  BY <1>1, <1>3, StillAttainsZero DEF NoCalls
<1>5. Attains(Paths(f, b, callee), ChannelCounts(b, NoCalls))
  BY <1>2, <1>4, CountsAttained
<1> QED BY <1>1, <1>5

(* So every T040 report has a path that assigns twice.                     *)
LEMMA AloneSound ==
  ASSUME TypeOK PROVE T040Sound
<1> SUFFICES ASSUME AllRun, NEW f \in Indexed, NEW c \in AssignedAlone(f)
             PROVE  \E p \in Paths(f, program.body[f], [g \in Function |-> {Still}]) :
                      TwiceOn(p, c)
  BY DEF T040Sound
<1>1. PICK b : b = program.body[f] /\ IsBody(b) /\ NoneEmpty(b) /\ f \in Function
  BY CalleesOfIndexed DEF AllRun
<1>2. c \in Channel /\ ChannelCounts(b, NoCalls)[c] >= 2
  BY <1>1 DEF AssignedAlone, SingleAssignment
<1>3. PICK P : P = Paths(f, b, [g \in Function |-> {Still}])
  OBVIOUS
<1>4. Attains(P, ChannelCounts(b, NoCalls))
  BY <1>1, <1>3, AloneAttained
<1>5. PICK p \in P : ChannelCounts(b, NoCalls)[c] <= p[c].times
  BY <1>2, <1>4 DEF Attains
<1>6. P \in SUBSET Path
  <2>1. PICK callee : callee = [g \in Function |-> {Still}]
    OBVIOUS
  <2>2. callee \in [Function -> SUBSET Path]
    BY <2>1, StillIsPath
  <2>3. PICK h \in [1..Len(b) -> SUBSET Path] : Paths(f, b, callee) = h[1]
    BY <1>1, <2>2, PathsOfFacts
  <2> QED BY <1>1, <1>3, <2>1, <2>3, BodyFacts
<1>7. ChannelCounts(b, NoCalls)[c] \in Nat
  <2>1. NoCalls \in [Function -> Tally]
    BY ZeroTally DEF NoCalls
  <2>2. ChannelCounts(b, NoCalls) \in Tally
    BY <1>1, <2>1, CountsTyped
  <2> QED BY <1>2, <2>2, FlowAssumption DEF Tally
<1>8. p[c].times \in Nat
  BY <1>2, <1>6 DEF Path
<1>9. TwiceOn(p, c)
  BY <1>2, <1>5, <1>7, <1>8 DEF TwiceOn
<1> QED BY <1>1, <1>3, <1>9

(* Whatever T040 reports of a body, some path through it assigns twice.    *)
THEOREM ReportsAlone == Spec => []T040Sound
<1>1. TypeOK => T040Sound
  BY AloneSound
<1> QED BY <1>1, TypeCorrect, PTL
-----------------------------------------------------------------------------
(* The counts with the calls expanded to each depth.                       *)
Deepest == Cardinality(Function)

(* The functions are finitely many.                                        *)
LEMMA DeepestTyped == Deepest \in Nat
BY CallInliningAssumption, FS_CardinalityType DEF Deepest

IsLevels(r) ==
  r = [d \in 0..Deepest |->
         [f \in Function |->
            IF d > 0 /\ f \in Indexed
            THEN ChannelCounts(program.body[f], r[d - 1]) ELSE Zero]]

(* The counts of a function with a script.                                 *)
LEMMA CountTyped ==
  ASSUME TypeOK, NEW f \in Indexed, NEW e \in [Function -> Tally]
  PROVE  ChannelCounts(program.body[f], e) \in Tally
BY CalleesOfIndexed, CountsTyped

(* The counts to every depth exist,                                        *)
LEMMA LevelsExist ==
  ASSUME TypeOK PROVE \E r : IsLevels(r)
<1>n. PICK n \in Nat : n = Deepest
  BY DeepestTyped
<1>s. PICK S : S = [Function -> Tally]
  OBVIOUS
<1>b. PICK base \in S : base = [f \in Function |-> Zero]
  BY <1>s, ZeroTally
<1>1. PICK step \in [1..n -> [S -> S]] :
        \A d \in 1..n : \A e \in S :
          step[d][e] = [f \in Function |->
                          IF f \in Indexed THEN ChannelCounts(program.body[f], e) ELSE Zero]
  <2>1. ASSUME NEW e \in S
        PROVE  [f \in Function |-> IF f \in Indexed THEN ChannelCounts(program.body[f], e)
                                   ELSE Zero] \in S
    <3>1. \A f \in Function :
            (IF f \in Indexed THEN ChannelCounts(program.body[f], e) ELSE Zero) \in Tally
      BY <1>s, CountTyped, ZeroTally
    <3> QED BY <1>s, <3>1
  <2>2. [d \in 1..n |-> [e \in S |->
           [f \in Function |-> IF f \in Indexed THEN ChannelCounts(program.body[f], e)
                               ELSE Zero]]] \in [1..n -> [S -> S]]
    BY <2>1
  <2> QED BY <2>2
<1>2. PICK r \in [0..n -> S] : AccumulatesForward(n, base, step, r)
  BY AccumulatedForward
<1>3. ASSUME NEW d \in 0..n
      PROVE  r[d] = [f \in Function |->
                       IF d > 0 /\ f \in Indexed
                       THEN ChannelCounts(program.body[f], r[d - 1]) ELSE Zero]
  <2>1. CASE d = 0
    <3>1. ~(d > 0)
      BY <2>1
    <3>2. r[d] = base
      BY <1>2, <2>1 DEF AccumulatesForward
    <3> QED BY <1>b, <3>1, <3>2
  <2>2. CASE d # 0
    <3>1. d \in 1..n /\ d > 0 /\ d - 1 \in 0..n
      BY <2>2
    <3>2. r[d - 1] \in S
      BY <3>1
    <3>3. r[d] = step[d][r[d - 1]]
      BY <1>2, <3>1 DEF AccumulatesForward
    <3> QED BY <1>1, <3>1, <3>2, <3>3
  <2> QED BY <2>1, <2>2
<1>4. r = [d \in 0..n |->
             [f \in Function |-> IF d > 0 /\ f \in Indexed
                                 THEN ChannelCounts(program.body[f], r[d - 1]) ELSE Zero]]
  BY <1>2, <1>3
<1> QED BY <1>n, <1>4 DEF IsLevels

(* A claim that holds at depth 0 and one deeper holds at every depth.      *)
LEMMA Deeper ==
  ASSUME NEW n \in Nat, NEW P, 0 \in P, \A d \in 1..n : d - 1 \in P => d \in P
  PROVE  0..n \subseteq P
<1> DEFINE T == {d \in 0..n : d \notin P}
<1> SUFFICES ASSUME T # {} PROVE FALSE
  OBVIOUS
<1>1. T \subseteq Nat
  OBVIOUS
<1>2. PICK d \in T : \A y \in T : d <= y
  <2> HIDE DEF T
  <2> QED BY <1>1, Least
<1>3. d \in 1..n /\ d - 1 \in 0..n
  BY <1>2
<1>4. d - 1 \in P
  BY <1>2, <1>3
<1> QED BY <1>2, <1>3, <1>4

(* and InlinedTo is them.                                                  *)
LEMMA LevelsFacts ==
  ASSUME TypeOK
  PROVE  /\ InlinedTo \in [0..Deepest -> [Function -> Tally]]
         /\ \A d \in 0..Deepest : \A f \in Function :
              InlinedTo[d][f] =
                IF d > 0 /\ f \in Indexed
                THEN ChannelCounts(program.body[f], InlinedTo[d - 1]) ELSE Zero
<1>n. PICK n \in Nat : n = Deepest
  BY DeepestTyped
<1>1. PICK r : IsLevels(r) /\ r = InlinedTo
  <2>1. InlinedTo = CHOOSE r : IsLevels(r)
    BY DEF InlinedTo, IsLevels, Deepest
  <2> QED BY <2>1, LevelsExist
<1>2. /\ DOMAIN r = 0..n /\ r = [d \in 0..n |-> r[d]]
      /\ \A d \in 0..n :
           r[d] = [f \in Function |->
                     IF d > 0 /\ f \in Indexed
                     THEN ChannelCounts(program.body[f], r[d - 1]) ELSE Zero]
  <2>1. r = [d \in 0..n |->
               [f \in Function |->
                  IF d > 0 /\ f \in Indexed
                  THEN ChannelCounts(program.body[f], r[d - 1]) ELSE Zero]]
    BY <1>1, <1>n, Zenon DEF IsLevels
  <2> QED BY <2>1
<1> DEFINE P == {d \in 0..n : r[d] \in [Function -> Tally]}
<1>3. ASSUME NEW d \in 0..n, d > 0 => d - 1 \in P
      PROVE  d \in P
  <2>1. d > 0 => r[d - 1] \in [Function -> Tally]
    BY <1>3
  <2>2. \A f \in Function :
          (IF d > 0 /\ f \in Indexed
           THEN ChannelCounts(program.body[f], r[d - 1]) ELSE Zero) \in Tally
    BY <2>1, CountTyped, ZeroTally
  <2>3. r[d] \in [Function -> Tally]
    BY <1>2, <2>2
  <2> QED BY <2>3
<1>4. 0..n \subseteq P
  <2>1. 0 \in P
    <3>1. 0 \in 0..n /\ ~(0 > 0)
      OBVIOUS
    <3> QED BY <1>3, <3>1
  <2>2. \A d \in 1..n : d - 1 \in P => d \in P
    <3>1. \A d \in 1..n : d \in 0..n
      OBVIOUS
    <3> HIDE DEF P
    <3> QED BY <1>3, <3>1
  <2> HIDE DEF P
  <2> QED BY <2>1, <2>2, Deeper
<1>5. r \in [0..n -> [Function -> Tally]]
  BY <1>2, <1>4
<1>6. \A d \in 0..n : \A f \in Function :
        r[d][f] = IF d > 0 /\ f \in Indexed
                  THEN ChannelCounts(program.body[f], r[d - 1]) ELSE Zero
  BY <1>2
<1> QED BY <1>1, <1>n, <1>5, <1>6

(* Without call cycles a callee reaches fewer functions than its caller.   *)
Rank(f) == Cardinality(CallClosure(f))

(* The rank of a function counts what it can reach,                        *)
LEMMA RankTyped ==
  ASSUME NEW f \in Function
  PROVE  IsFiniteSet(CallClosure(f)) /\ Rank(f) \in Nat /\ Rank(f) <= Deepest /\ Rank(f) >= 1
<1>1. CallClosure(f) \in SUBSET Function /\ f \in CallClosure(f)
  BY DEF CallClosure
<1>2. IsFiniteSet(CallClosure(f)) /\ Rank(f) <= Deepest
  BY <1>1, CallInliningAssumption, FS_Subset DEF Rank, Deepest
<1>3. Rank(f) \in Nat
  BY <1>2, FS_CardinalityType DEF Rank
<1>4. Rank(f) # 0
  BY <1>1, <1>2, FS_EmptySet DEF Rank
<1> QED BY <1>2, <1>3, <1>4

(* and without call cycles a callee reaches less.                          *)
LEMMA RankDecreases ==
  ASSUME TypeOK, Acyclic, NEW f \in Indexed, NEW g \in CalledBy(f)
  PROVE  g \in Function /\ Rank(g) < Rank(f)
<1>1. f \in Function /\ g \in Function
  BY CalleesOfIndexed
<1>2. f \notin CallClosure(g) /\ f \in CallClosure(f)
  BY <1>1 DEF Acyclic, CallClosure
<1>3. CallClosure(g) \subseteq CallClosure(f)
  <2>1. ASSUME NEW x \in CallClosure(g) PROVE x \in CallClosure(f)
    <3>1. ASSUME NEW S \in SUBSET Function, f \in S, \A h \in S : CalledBy(h) \subseteq S
          PROVE  x \in S
      <4>1. g \in S
        BY <3>1
      <4> QED BY <3>1, <4>1, Zenon DEF CallClosure
    <3>2. x \in Function
      BY DEF CallClosure
    <3> QED BY <3>1, <3>2 DEF CallClosure
  <2> QED BY <2>1
<1>4. /\ Rank(g) <= Rank(f)
      /\ Rank(f) = Rank(g) => CallClosure(f) = CallClosure(g)
  BY <1>1, <1>3, RankTyped, FS_Subset DEF Rank
<1>5. Rank(f) \in Nat /\ Rank(g) \in Nat
  BY <1>1, RankTyped
<1> QED BY <1>1, <1>2, <1>4, <1>5

Ranks == [f \in Function |-> Cardinality(Closures[f])]

(* The ranks as a function of the functions.                               *)
LEMMA RanksFacts ==
  ASSUME NEW f \in Function PROVE Ranks[f] = Rank(f)
BY DEF Ranks, Rank, Closures

(* The premises of the properties, and the counts they speak of, depend on *)
(* the program alone.                                                      *)
LEMMA PremisesKept ==
  ASSUME [Next]_vars
  PROVE  /\ Acyclic' <=> Acyclic
         /\ InlinedTo' = InlinedTo
         /\ NoCountWraps' <=> NoCountWraps
         /\ Ranks' = Ranks
<1>1. program' = program /\ Indexed' = Indexed /\ Closures' = Closures
  BY ProgramKept
<1>2. Acyclic' <=> Acyclic
  BY <1>1 DEF Acyclic, CallClosure, CalledBy, Indexed
<1>3. InlinedTo' = InlinedTo
  BY <1>1, Zenon DEF InlinedTo
<1>4. NoCountWraps' <=> NoCountWraps
  BY <1>1, <1>3 DEF NoCountWraps
<1>5. Ranks' = Ranks
  BY <1>1 DEF Ranks
<1> QED BY <1>2, <1>3, <1>4, <1>5

(* Without call cycles a memo entry is the count to every depth that       *)
(* leaves room for the chains of calls below the function.                 *)
Exact(f, t) == \A d \in 0..Deepest : Ranks[f] <= d => t = InlinedTo[d][f]

ExactAtAnyDepth ==
  Acyclic => \A f \in Function : memo[f] # NotYet => Exact(f, memo[f])

(* A body whose callees are memoised exactly is counted exactly.           *)
LEMMA CountExact ==
  ASSUME TypeOK, Acyclic, ExactAtAnyDepth, NEW f \in Indexed,
         \A g \in CalledBy(f) : memo[g] # NotYet
  PROVE  Exact(f, ChannelCounts(program.body[f], Expander))
<1> SUFFICES ASSUME NEW d \in 0..Deepest, Ranks[f] <= d
             PROVE  ChannelCounts(program.body[f], Expander) = InlinedTo[d][f]
  BY DEF Exact
<1>1. PICK b : b = program.body[f] /\ IsBody(b)
               /\ f \in Function /\ CalledBy(f) = Range(UserCallees(b))
  BY CalleesOfIndexed
<1>2. Ranks[f] = Rank(f) /\ Rank(f) \in Nat /\ Rank(f) >= 1
  BY <1>1, RanksFacts, RankTyped
<1>3. d > 0 /\ d - 1 \in 0..Deepest
  BY <1>2, DeepestTyped
<1>4. InlinedTo[d][f] = ChannelCounts(b, InlinedTo[d - 1])
  BY <1>1, <1>3, LevelsFacts
<1>5. ASSUME NEW g \in Range(UserCallees(b))
      PROVE  Expander[g] = InlinedTo[d - 1][g]
  <2>1. g \in Function /\ Rank(g) < Rank(f) /\ Rank(g) \in Nat /\ Ranks[g] = Rank(g)
    BY <1>1, <1>5, RankDecreases, RankTyped, RanksFacts
  <2>2. memo[g] # NotYet /\ Expander[g] = memo[g]
    BY <1>1, <1>5, <2>1 DEF Expander
  <2>3. Ranks[g] <= d - 1
    BY <1>2, <1>3, <2>1
  <2> QED BY <1>3, <2>1, <2>2, <2>3 DEF ExactAtAnyDepth, Exact
<1>6. ChannelCounts(b, Expander) = ChannelCounts(b, InlinedTo[d - 1])
  <2>1. PICK e : e = InlinedTo[d - 1]
    OBVIOUS
  <2>2. PICK x : x = Expander
    OBVIOUS
  <2>3. \A g \in Range(UserCallees(b)) : x[g] = e[g]
    BY <1>5, <2>1, <2>2
  <2>4. ChannelCounts(b, x) = ChannelCounts(b, e)
    BY <1>1, <2>3, CountsLocal
  <2> QED BY <2>1, <2>2, <2>4
<1> QED BY <1>1, <1>4, <1>6

(* The callees of a function that is about to be counted are memoised.     *)
LEMMA CalleesMemoised ==
  ASSUME TypeOK, Guarded, NoneMissing, Return, NEW g \in CalledBy(Top.fn)
  PROVE  memo[g] # NotYet
<1>1. Top.fn \in Indexed /\ Top.fn \in Function
  BY CountedTyped, CalleesOfIndexed
<1>2. Len(stack) \in DOMAIN stack /\ Len(stack) \in Nat
  BY ReturnedStack, LenProperties DEF TypeOK
<1>3. Awaited(Len(stack), g)
  BY <1>1, <1>2 DEF NoneMissing, Calls, Top
<1> QED BY <1>2, <1>3 DEF Awaited, Return, Top

(* Every step keeps the memo exact without call cycles,                    *)
LEMMA ExactStep ==
  ASSUME TypeOK, Guarded, Reaching, NoneMissing, ExactAtAnyDepth, [Next]_vars
  PROVE  ExactAtAnyDepth'
<1>1. ASSUME Acyclic, NEW f \in Function, memo'[f] # NotYet
      PROVE  Exact(f, memo'[f])
  <2>0. memo[f] # NotYet => Exact(f, memo[f])
    BY <1>1 DEF ExactAtAnyDepth
  <2>1. CASE memo'[f] = memo[f]
    BY <1>1, <2>0, <2>1
  <2>2. CASE Descend
    <3>1. \/ memo'[f] = memo[f]
          \/ /\ f = Head(Top.todo) /\ CutOff(f) /\ memo'[f] = Zero
             /\ stack # <<>> /\ Top.todo # <<>>
      BY <2>2 DEF Descend, TypeOK
    <3>2. CASE /\ f = Head(Top.todo) /\ CutOff(f) /\ memo'[f] = Zero
               /\ stack # <<>> /\ Top.todo # <<>>
      <4>1. f \notin Indexed
        BY <1>1, <3>2, NoBackEdge DEF CutOff
      <4>2. \A d \in 0..Deepest : InlinedTo[d][f] = Zero
        BY <4>1, LevelsFacts
      <4> QED BY <3>2, <4>2 DEF Exact
    <3> QED BY <2>1, <3>1, <3>2
  <2>3. CASE Return
    <3>1. Top.fn \in Indexed
      BY <2>3, CountedTyped
    <3>2. \/ memo'[f] = memo[f]
          \/ f = Top.fn /\ memo'[f] = ChannelCounts(program.body[Top.fn], Expander)
      BY <2>3 DEF Return, TypeOK
    <3>3. Exact(Top.fn, ChannelCounts(program.body[Top.fn], Expander))
      BY <1>1, <2>3, <3>1, CalleesMemoised, CountExact
    <3> QED BY <2>1, <3>2, <3>3
  <2>4. CASE NextRoot \/ BeginReport \/ ReportRoot \/ EndReport \/ UNCHANGED vars
    BY <2>1, <2>4 DEF NextRoot, BeginReport, ReportRoot, EndReport, vars
  <2> QED BY <2>2, <2>3, <2>4 DEF Next, Done
<1>2. (Acyclic' <=> Acyclic) /\ InlinedTo' = InlinedTo /\ Ranks' = Ranks
  BY PremisesKept
<1> QED BY <1>1, <1>2 DEF ExactAtAnyDepth, Exact, Deepest

(* so that it is the count to the depth that follows every call.           *)
LEMMA ExactFully ==
  ASSUME TypeOK, ExactAtAnyDepth, Acyclic, NEW f \in Function, memo[f] # NotYet
  PROVE  memo[f] = InlinedFully[f]
<1>1. Deepest \in 0..Deepest /\ Ranks[f] <= Deepest
  BY DeepestTyped, RankTyped, RanksFacts
<1> QED BY <1>1 DEF ExactAtAnyDepth, Exact, InlinedFully, Deepest
-----------------------------------------------------------------------------
(* Without call cycles every memo entry is the count of all the paths of   *)
(* its function.                                                           *)
THEOREM InlinedExactly == Spec => []MemoExact
<1> DEFINE IInv == TypeOK /\ Guarded /\ Reaching /\ NoneMissing /\ ExactAtAnyDepth
<1>1. Init => IInv
  BY InitTyped DEF Init, Reaching, NoneMissing, ExactAtAnyDepth
<1>2. IInv /\ [Next]_vars => IInv'
  BY TypeStep, GuardStep, ReachingStep, NoneMissingStep, ExactStep
<1>3. IInv => MemoExact
  BY ExactFully DEF MemoExact
<1> QED BY <1>1, <1>2, <1>3, PTL DEF Spec
-----------------------------------------------------------------------------
(* Under-approximation.  Each function that is finished has followed calls *)
(* no deeper than the functions that were finished before it are many.     *)
Finished == {f \in Indexed : memo[f] # NotYet /\ f \notin Visiting}

NoMoreThanFinished ==
  \A f \in Function : memo[f] # NotYet =>
    \A d \in Cardinality(Finished)..Deepest : Below(memo[f], InlinedTo[d][f])

Low == NoCountWraps => NoMoreThanFinished

(* The finished functions are some of the functions.                       *)
LEMMA FinishedTyped ==
  /\ IsFiniteSet(Finished)
  /\ Cardinality(Finished) \in Nat /\ Cardinality(Finished) <= Deepest
<1>1. Finished \subseteq Function
  BY DEF Finished, Indexed
<1>2. IsFiniteSet(Finished) /\ Cardinality(Finished) <= Deepest
  BY <1>1, CallInliningAssumption, FS_Subset DEF Deepest
<1> QED BY <1>2, FS_CardinalityType

(* Nothing counts less than nothing.                                       *)
LEMMA ZeroBelow ==
  ASSUME NEW t \in Tally PROVE Below(Zero, t)
BY FlowAssumption, ZeroTally DEF Below, Tally

(* What comes on top of the stack was not memoised.                        *)
LEMMA VisitingNext ==
  ASSUME TypeOK, Guarded, [Next]_vars, NEW f \in Function, f \in Visiting'
  PROVE  f \in Visiting \/ (memo[f] = NotYet /\ memo'[f] = NotYet)
<1>0. PICK i \in DOMAIN stack' : stack'[i].fn = f
  BY DEF Visiting
<1>1. CASE NextRoot
  <2> DEFINE r == program.order[next]
  <2>1. CASE stack' = <<>>
    BY <1>0, <2>1
  <2>2. CASE memo[r] = NotYet /\ stack' = <<Activation(r)>>
    <3>1. i = 1 /\ stack'[i].fn = r
      BY <1>0, <2>2 DEF Activation
    <3> QED BY <1>0, <1>1, <2>2, <3>1 DEF NextRoot
  <2> QED BY <1>1, <2>1, <2>2 DEF NextRoot
<1>2. CASE Descend
  <2> DEFINE g == Head(Top.todo)
  <2>1. /\ stack # <<>> /\ Top.todo # <<>> /\ g \in Function
        /\ DOMAIN stack = 1..Len(stack) /\ Len(stack) \in DOMAIN stack
        /\ DOMAIN Advanced = DOMAIN stack
        /\ \A j \in DOMAIN stack : Advanced[j].fn = stack[j].fn
    BY <1>2, AdvancedStack, LenProperties DEF Descend, TypeOK
  <2>2. CASE stack' = Advanced
    BY <1>0, <2>1, <2>2 DEF Visiting
  <2>3. CASE ~Memoised(g) /\ ~CutOff(g)
    <3>1. g \in Indexed
      BY <2>1, <2>3 DEF CutOff
    <3>2. stack' = Append(Advanced, Activation(g)) /\ memo' = memo
      BY <1>2, <2>3 DEF Descend
    <3>3. /\ DOMAIN stack' = 1..(Len(stack) + 1)
          /\ \A j \in DOMAIN stack : stack'[j] = Advanced[j]
          /\ stack'[Len(stack) + 1] = Activation(g)
      BY <2>1, <3>1, <3>2, Pushed, LenProperties
    <3>4. Len(stack) \in Nat
      BY LenProperties DEF TypeOK
    <3>5. CASE i = Len(stack) + 1
      BY <1>0, <2>3, <3>2, <3>3, <3>5 DEF Activation, Memoised
    <3>6. CASE i # Len(stack) + 1
      <4>1. i \in DOMAIN stack
        BY <2>1, <3>3, <3>4, <3>6
      <4> QED BY <1>0, <2>1, <3>3, <4>1 DEF Visiting
    <3> QED BY <3>5, <3>6
  <2> QED BY <1>2, <2>2, <2>3 DEF Descend
<1>3. CASE Return
  <2>1. \A j \in DOMAIN stack' : j \in DOMAIN stack /\ stack'[j] = stack[j]
    BY <1>3, ReturnedStack
  <2> QED BY <1>0, <2>1 DEF Visiting
<1>4. CASE BeginReport \/ ReportRoot \/ EndReport \/ UNCHANGED vars
  BY <1>0, <1>4 DEF BeginReport, ReportRoot, EndReport, vars, Visiting
<1> QED BY <1>1, <1>2, <1>3, <1>4 DEF Next, Done

(* The function on top is no longer counted once it returns.               *)
LEMMA TopReturned ==
  ASSUME TypeOK, Guarded, Return
  PROVE  Top.fn \notin Visiting' /\ Top.fn \in Visiting
<1>1. /\ Len(stack) \in DOMAIN stack
      /\ DOMAIN stack' = 1..(Len(stack) - 1)
      /\ \A i \in DOMAIN stack' : i \in DOMAIN stack /\ stack'[i] = stack[i]
  BY ReturnedStack
<1>2. Len(stack) \notin DOMAIN stack'
  <2>1. Len(stack) \in Nat
    BY LenProperties DEF TypeOK
  <2> QED BY <1>1, <2>1
<1>3. \A i \in DOMAIN stack' : stack'[i].fn # Top.fn
  BY <1>1, <1>2 DEF Guarded, Top
<1> QED BY <1>1, <1>3 DEF Visiting, Top

(* What happens to one entry of the memo.                                  *)
LEMMA EntryStep ==
  ASSUME TypeOK, [Next]_vars, NEW f \in Function
  PROVE  \/ memo'[f] = memo[f]
         \/ Descend /\ f \in Function /\ CutOff(f) /\ memo'[f] = Zero /\ memo[f] = NotYet
         \/ /\ Return /\ f = Top.fn
            /\ memo'[f] = ChannelCounts(program.body[f], Expander)
<1>1. CASE Return
  BY <1>1 DEF Return, TypeOK
<1>2. CASE Descend
  BY <1>2 DEF Descend, TypeOK, Memoised
<1>3. CASE NextRoot \/ BeginReport \/ ReportRoot \/ EndReport \/ UNCHANGED vars
  BY <1>3 DEF NextRoot, BeginReport, ReportRoot, EndReport, vars
<1> QED BY <1>1, <1>2, <1>3 DEF Next, Done

(* What is finished stays finished,                                        *)
LEMMA FinishedStays ==
  ASSUME TypeOK, Guarded, [Next]_vars
  PROVE  Finished \subseteq Finished'
<1> SUFFICES ASSUME NEW f \in Finished PROVE f \in Finished'
  OBVIOUS
<1>1. f \in Indexed /\ f \in Function /\ memo[f] # NotYet /\ f \notin Visiting
  BY DEF Finished, Indexed
<1>2. memo'[f] # NotYet
  BY <1>1, MemoGrows
<1>3. f \notin Visiting'
  BY <1>1, VisitingNext
<1>4. f \in Indexed'
  BY <1>1, ProgramKept
<1> QED BY <1>2, <1>3, <1>4 DEF Finished

(* and a return finishes one function more.                                *)
LEMMA FinishedMore ==
  ASSUME TypeOK, Guarded, [Next]_vars
  PROVE  /\ Cardinality(Finished) <= Cardinality(Finished')
         /\ Cardinality(Finished') \in Nat
         /\ Return => Cardinality(Finished) + 1 <= Cardinality(Finished')
<1>1. Finished \subseteq Finished'
  BY FinishedStays
<1>2. IsFiniteSet(Finished') /\ Cardinality(Finished') \in Nat
  <2>1. Finished' \subseteq Function
    <3>1. Indexed' = Indexed
      BY ProgramKept
    <3> QED BY <3>1 DEF Finished, Indexed
  <2>2. IsFiniteSet(Finished')
    BY <2>1, CallInliningAssumption, FS_Subset
  <2> QED BY <2>2, FS_CardinalityType
<1>3. Cardinality(Finished) <= Cardinality(Finished')
  BY <1>1, <1>2, FS_Subset
<1>4. ASSUME Return
      PROVE  Cardinality(Finished) + 1 <= Cardinality(Finished')
  <2>1. Top.fn \in Indexed /\ ChannelCounts(program.body[Top.fn], Expander) # NotYet
    BY <1>4, CountedTyped, CallInliningAssumption
  <2>2. memo'[Top.fn] # NotYet
    BY <1>4, <2>1 DEF Return, TypeOK, Indexed
  <2>3. Top.fn \in Finished' /\ Top.fn \notin Finished
    <3>1. Indexed' = Indexed
      BY ProgramKept
    <3>2. PICK g : g = Top.fn
      OBVIOUS
    <3>3. g \in Indexed' /\ memo'[g] # NotYet /\ g \notin Visiting' /\ g \in Visiting
      BY <1>4, <2>1, <2>2, <3>1, <3>2, TopReturned
    <3>4. g \in Finished' /\ g \notin Finished
      BY <3>3 DEF Finished
    <3> QED BY <3>2, <3>4
  <2>4. Finished \cup {Top.fn} \subseteq Finished'
    BY <1>1, <2>3
  <2>5. Cardinality(Finished \cup {Top.fn}) = Cardinality(Finished) + 1
    BY <2>3, FinishedTyped, FS_AddElement
  <2>6. Cardinality(Finished \cup {Top.fn}) <= Cardinality(Finished')
    BY <1>2, <2>4, FS_Subset
  <2> QED BY <2>5, <2>6
<1> QED BY <1>2, <1>3, <1>4

(* A function counted from low counts is low one call deeper.              *)
LEMMA CountLow ==
  ASSUME TypeOK, NoCountWraps, NoMoreThanFinished, NEW f \in Indexed,
         NEW d \in Cardinality(Finished) + 1..Deepest
  PROVE  Below(ChannelCounts(program.body[f], Expander), InlinedTo[d][f])
<1>1. PICK b : b = program.body[f] /\ IsBody(b)
               /\ f \in Function /\ CalledBy(f) = Range(UserCallees(b))
               /\ CalledBy(f) \subseteq Function
  BY CalleesOfIndexed
<1>2. /\ d > 0 /\ d \in 0..Deepest /\ d - 1 \in 0..Deepest /\ d - 1 \in 0..Deepest - 1
      /\ d - 1 \in Cardinality(Finished)..Deepest
  BY FinishedTyped, DeepestTyped
<1>3. InlinedTo[d][f] = ChannelCounts(b, InlinedTo[d - 1])
  BY <1>1, <1>2, LevelsFacts
<1>4. PICK e \in [Function -> Tally] : e = InlinedTo[d - 1]
  BY <1>2, LevelsFacts
<1>5. PICK x \in [Function -> Tally] : x = Expander
  BY ExpanderTyped
<1>6. NothingWraps(b, e)
  BY <1>1, <1>2, <1>4 DEF NoCountWraps, Deepest
<1>7. ASSUME NEW g \in Range(UserCallees(b)) PROVE Below(x[g], e[g])
  <2>1. g \in Function
    BY <1>1
  <2>2. CASE memo[g] = NotYet
    <3>1. x[g] = Zero
      BY <1>5, <2>1, <2>2 DEF Expander
    <3> QED BY <2>1, <3>1, ZeroBelow
  <2>3. CASE memo[g] # NotYet
    <3>1. x[g] = memo[g]
      BY <1>5, <2>1, <2>3 DEF Expander
    <3> QED BY <1>2, <1>4, <2>1, <2>3, <3>1 DEF NoMoreThanFinished
  <2> QED BY <2>2, <2>3
<1>8. Below(ChannelCounts(b, x), ChannelCounts(b, e))
  BY <1>1, <1>6, <1>7, CountsBelow
<1> QED BY <1>1, <1>3, <1>4, <1>5, <1>8

(* So no step memoises more than calls followed that deep count.           *)
LEMMA LowStep ==
  ASSUME TypeOK, Guarded, Low, [Next]_vars
  PROVE  Low'
<1>0. (NoCountWraps' <=> NoCountWraps) /\ InlinedTo' = InlinedTo
  BY PremisesKept
<1>1. ASSUME NoCountWraps, NEW f \in Function, memo'[f] # NotYet,
             NEW d \in Cardinality(Finished')..Deepest
      PROVE  Below(memo'[f], InlinedTo[d][f])
  <2>0. NoMoreThanFinished
    BY <1>1 DEF Low
  <2>1. d \in Cardinality(Finished)..Deepest /\ d \in 0..Deepest
    BY FinishedMore, FinishedTyped, DeepestTyped
  <2>2. CASE memo'[f] = memo[f]
    BY <1>1, <2>0, <2>1, <2>2 DEF NoMoreThanFinished
  <2>3. CASE memo'[f] = Zero
    <3>1. InlinedTo[d][f] \in Tally
      BY <2>1, LevelsFacts
    <3> QED BY <2>3, <3>1, ZeroBelow
  <2>4. CASE Return /\ f = Top.fn /\ memo'[f] = ChannelCounts(program.body[f], Expander)
    <3>1. d \in Cardinality(Finished) + 1..Deepest
      BY <2>4, FinishedMore, FinishedTyped, DeepestTyped
    <3>2. f \in Indexed
      BY <2>4, CountedTyped
    <3>3. Below(ChannelCounts(program.body[f], Expander), InlinedTo[d][f])
      BY <1>1, <2>0, <3>1, <3>2, CountLow
    <3> QED BY <2>4, <3>3
  <2> QED BY <2>2, <2>3, <2>4, EntryStep
<1>2. ASSUME NoCountWraps PROVE NoMoreThanFinished'
  <2> SUFFICES ASSUME NEW f \in Function, memo'[f] # NotYet,
                      NEW d \in Cardinality(Finished')..Deepest
               PROVE  Below(memo'[f], InlinedTo[d][f])
    BY <1>0 DEF NoMoreThanFinished, Below, Deepest
  <2> QED BY <1>1, <1>2
<1> QED BY <1>0, <1>2 DEF Low

(* With call cycles too, and whatever the order in which the functions are *)
(* counted, no memo entry exceeds the counts with the calls followed as    *)
(* deep as the functions are many, unless an addition wraps: the guard     *)
(* against recursion errs on the low side only.                            *)
THEOREM InlinedSafely == Spec => []UnderApproximates
<1> DEFINE IInv == TypeOK /\ Guarded /\ Low
<1>1. Init => IInv
  BY InitTyped DEF Init, Low, NoMoreThanFinished
<1>2. IInv /\ [Next]_vars => IInv'
  BY TypeStep, GuardStep, LowStep
<1>3. IInv => UnderApproximates
  <2> SUFFICES ASSUME IInv, NoCountWraps, NEW f \in Function, memo[f] # NotYet
               PROVE  Below(memo[f], InlinedFully[f])
    BY DEF UnderApproximates
  <2>1. Deepest \in Cardinality(Finished)..Deepest
    BY FinishedTyped, DeepestTyped
  <2> QED BY <2>1 DEF Low, NoMoreThanFinished, InlinedFully, Deepest
<1> QED BY <1>1, <1>2, <1>3, PTL DEF Spec
-----------------------------------------------------------------------------
(* Soundness of the reports across calls.  The paths with the calls        *)
(* followed to each depth.                                                 *)
IsRuns(r) ==
  r = [d \in 0..Deepest |->
         [f \in Function |->
            IF d > 0 /\ f \in Indexed
            THEN Paths(f, program.body[f], r[d - 1]) ELSE {Still}]]

(* The paths of a function with a script.                                  *)
LEMMA PathsTyped ==
  ASSUME TypeOK, NEW f \in Indexed, NEW callee \in [Function -> SUBSET Path]
  PROVE  Paths(f, program.body[f], callee) \in SUBSET Path
<1>1. PICK b : b = program.body[f] /\ IsBody(b) /\ f \in Function
  BY CalleesOfIndexed
<1>2. PICK h \in [1..Len(b) -> SUBSET Path] : Paths(f, b, callee) = h[1]
  BY <1>1, PathsOfFacts
<1> QED BY <1>1, <1>2, BodyFacts

(* The paths to every depth exist,                                         *)
LEMMA RunsExist ==
  ASSUME TypeOK PROVE \E r : IsRuns(r)
<1>n. PICK n \in Nat : n = Deepest
  BY DeepestTyped
<1>p. PICK Q : Q = SUBSET Path
  OBVIOUS
<1>s. PICK S : S = [Function -> Q]
  OBVIOUS
<1>b. PICK base \in S : base = [f \in Function |-> {Still}]
  BY <1>s, <1>p, StillIsPath
<1>1. PICK step \in [1..n -> [S -> S]] :
        \A d \in 1..n : \A e \in S :
          step[d][e] = [f \in Function |->
                          IF f \in Indexed THEN Paths(f, program.body[f], e) ELSE {Still}]
  <2>1. ASSUME NEW e \in S
        PROVE  [f \in Function |-> IF f \in Indexed THEN Paths(f, program.body[f], e)
                                   ELSE {Still}] \in S
    <3>1. \A f \in Function :
            (IF f \in Indexed THEN Paths(f, program.body[f], e) ELSE {Still}) \in Q
      BY <1>s, <1>p, PathsTyped, StillIsPath
    <3> QED BY <1>s, <3>1
  <2>2. [d \in 1..n |-> [e \in S |->
           [f \in Function |-> IF f \in Indexed THEN Paths(f, program.body[f], e)
                               ELSE {Still}]]] \in [1..n -> [S -> S]]
    BY <2>1
  <2> QED BY <2>2
<1>2. PICK r \in [0..n -> S] : AccumulatesForward(n, base, step, r)
  BY AccumulatedForward
<1>3. ASSUME NEW d \in 0..n
      PROVE  r[d] = [f \in Function |->
                       IF d > 0 /\ f \in Indexed
                       THEN Paths(f, program.body[f], r[d - 1]) ELSE {Still}]
  <2>1. CASE d = 0
    <3>1. ~(d > 0)
      BY <2>1
    <3>2. r[d] = base
      BY <1>2, <2>1 DEF AccumulatesForward
    <3> QED BY <1>b, <3>1, <3>2
  <2>2. CASE d # 0
    <3>1. d \in 1..n /\ d > 0 /\ d - 1 \in 0..n
      BY <2>2
    <3>2. r[d - 1] \in S
      BY <3>1
    <3>3. r[d] = step[d][r[d - 1]]
      BY <1>2, <3>1 DEF AccumulatesForward
    <3> QED BY <1>1, <3>1, <3>2, <3>3
  <2> QED BY <2>1, <2>2
<1>4. r = [d \in 0..n |->
             [f \in Function |-> IF d > 0 /\ f \in Indexed
                                 THEN Paths(f, program.body[f], r[d - 1]) ELSE {Still}]]
  BY <1>2, <1>3
<1> QED BY <1>n, <1>4 DEF IsRuns

(* and ExecutionsTo is them.                                               *)
LEMMA RunsFacts ==
  ASSUME TypeOK
  PROVE  /\ ExecutionsTo \in [0..Deepest -> [Function -> SUBSET Path]]
         /\ \A d \in 0..Deepest : \A f \in Function :
              ExecutionsTo[d][f] =
                IF d > 0 /\ f \in Indexed
                THEN Paths(f, program.body[f], ExecutionsTo[d - 1]) ELSE {Still}
<1>n. PICK n \in Nat : n = Deepest
  BY DeepestTyped
<1>q. PICK Q : Q = SUBSET Path
  OBVIOUS
<1>1. PICK r : IsRuns(r) /\ r = ExecutionsTo
  <2>1. ExecutionsTo = CHOOSE r : IsRuns(r)
    BY DEF ExecutionsTo, IsRuns, Deepest
  <2> QED BY <2>1, RunsExist
<1>2. /\ DOMAIN r = 0..n /\ r = [d \in 0..n |-> r[d]]
      /\ \A d \in 0..n :
           r[d] = [f \in Function |->
                     IF d > 0 /\ f \in Indexed
                     THEN Paths(f, program.body[f], r[d - 1]) ELSE {Still}]
  <2>1. r = [d \in 0..n |->
               [f \in Function |->
                  IF d > 0 /\ f \in Indexed
                  THEN Paths(f, program.body[f], r[d - 1]) ELSE {Still}]]
    BY <1>1, <1>n, Zenon DEF IsRuns
  <2> QED BY <2>1
<1> DEFINE P == {d \in 0..n : r[d] \in [Function -> Q]}
<1>3. ASSUME NEW d \in 0..n, d > 0 => d - 1 \in P
      PROVE  d \in P
  <2>1. d > 0 => r[d - 1] \in [Function -> Q]
    BY <1>3
  <2>2. \A f \in Function :
          (IF d > 0 /\ f \in Indexed
           THEN Paths(f, program.body[f], r[d - 1]) ELSE {Still}) \in Q
    BY <2>1, <1>q, PathsTyped, StillIsPath
  <2>3. r[d] \in [Function -> Q]
    BY <1>2, <2>2
  <2> QED BY <2>3
<1>4. 0..n \subseteq P
  <2>1. 0 \in P
    <3>1. 0 \in 0..n /\ ~(0 > 0)
      OBVIOUS
    <3> QED BY <1>3, <3>1
  <2>2. \A d \in 1..n : d - 1 \in P => d \in P
    <3>1. \A d \in 1..n : d \in 0..n
      OBVIOUS
    <3> HIDE DEF P
    <3> QED BY <1>3, <3>1
  <2> HIDE DEF P
  <2> QED BY <2>1, <2>2, Deeper
<1>5. r \in [0..n -> [Function -> Q]]
  BY <1>2, <1>4
<1>6. \A d \in 0..n : \A f \in Function :
        r[d][f] = IF d > 0 /\ f \in Indexed
                  THEN Paths(f, program.body[f], r[d - 1]) ELSE {Still}
  BY <1>2
<1> QED BY <1>1, <1>n, <1>q, <1>5, <1>6

(* The callees of a body, and its paths and counts one call deeper.        *)
LEMMA LevelStep ==
  ASSUME TypeOK, NEW f \in Indexed, NEW d \in 1..Deepest
  PROVE  /\ d - 1 \in 0..Deepest /\ d \in 0..Deepest
         /\ InlinedTo[d - 1] \in [Function -> Tally]
         /\ ExecutionsTo[d - 1] \in [Function -> SUBSET Path]
         /\ InlinedTo[d][f] = ChannelCounts(program.body[f], InlinedTo[d - 1])
         /\ ExecutionsTo[d][f] = Paths(f, program.body[f], ExecutionsTo[d - 1])
<1>1. d > 0 /\ d - 1 \in 0..Deepest /\ d \in 0..Deepest /\ f \in Function
  BY DeepestTyped DEF Indexed
<1> QED BY <1>1, LevelsFacts, RunsFacts

(* At every depth the counts are attained by paths.                        *)
LEMMA LevelAttained ==
  ASSUME TypeOK, AllRun, NEW d \in 0..Deepest, NEW f \in Function
  PROVE  Attains(ExecutionsTo[d][f], InlinedTo[d][f])
<1>n. PICK n \in Nat : n = Deepest
  BY DeepestTyped
<1> DEFINE P == {e \in 0..n : \A g \in Function : Attains(ExecutionsTo[e][g], InlinedTo[e][g])}
<1>1. ASSUME NEW e \in 0..n, NEW g \in Function, e = 0 \/ g \notin Indexed
      PROVE  Attains(ExecutionsTo[e][g], InlinedTo[e][g])
  <2>1. ~(e > 0 /\ g \in Indexed)
    BY <1>1
  <2>2. ExecutionsTo[e][g] = {Still} /\ InlinedTo[e][g] = Zero
    BY <1>n, <2>1, LevelsFacts, RunsFacts
  <2> QED BY <2>2, StillAttainsZero
<1>2. ASSUME NEW e \in 1..n, e - 1 \in P, NEW g \in Indexed
      PROVE  Attains(ExecutionsTo[e][g], InlinedTo[e][g])
  <2>1. PICK b : b = program.body[g] /\ IsBody(b) /\ NoneEmpty(b) /\ g \in Function
                 /\ CalledBy(g) = Range(UserCallees(b)) /\ CalledBy(g) \subseteq Function
    BY CalleesOfIndexed DEF AllRun
  <2>2. PICK x \in [Function -> Tally] : x = InlinedTo[e - 1]
    BY <1>n, LevelStep
  <2>3. PICK callee \in [Function -> SUBSET Path] : callee = ExecutionsTo[e - 1]
    BY <1>n, LevelStep
  <2>4. \A h \in Range(UserCallees(b)) : Attains(callee[h], x[h])
    BY <1>2, <2>1, <2>2, <2>3
  <2>5. Attains(Paths(g, b, callee), ChannelCounts(b, x))
    BY <2>1, <2>4, CountsAttained
  <2> QED BY <1>n, <2>1, <2>2, <2>3, <2>5, LevelStep
<1>3. 0..n \subseteq P
  <2>1. 0 \in P
    BY <1>1
  <2>2. ASSUME NEW e \in 1..n, e - 1 \in P PROVE e \in P
    <3>1. \A g \in Function : Attains(ExecutionsTo[e][g], InlinedTo[e][g])
      BY <1>1, <1>2, <2>2
    <3> QED BY <3>1
  <2> HIDE DEF P
  <2> QED BY <2>1, <2>2, Deeper
<1> QED BY <1>n, <1>3

(* What is reported is counted twice with every call followed,             *)
ReportsCounted ==
  Acyclic => \A r \in reports : /\ r.root \in Function /\ r.channel \in Channel
                                /\ InlinedFully[r.root][r.channel] >= 2

(* because the memo it was read from is exact.                             *)
LEMMA ReportsCountedStep ==
  ASSUME TypeOK, ExactAtAnyDepth, ReportsCounted, [Next]_vars
  PROVE  ReportsCounted'
<1>1. ASSUME Acyclic, NEW r \in reports'
      PROVE  /\ r.root \in Function /\ r.channel \in Channel
             /\ InlinedFully[r.root][r.channel] >= 2
  <2>1. CASE r \in reports
    BY <1>1, <2>1 DEF ReportsCounted
  <2>2. CASE r \notin reports
    <3>1. ReportRoot
      BY <1>1, <2>2 DEF Next, NextRoot, Descend, Return, BeginReport, EndReport, Done, vars
    <3>2. PICK root : root = program.order[next] /\ root \in Function
      BY <3>1, OrderTyped DEF ReportRoot
    <3>3. PICK c \in Channel : /\ Reportable(root, c)
                               /\ r = [channel |-> c, root |-> root,
                                       writers |-> WritersOf(root, c)]
      BY <1>1, <2>2, <3>1, <3>2 DEF ReportRoot
    <3>4. Expander[root][c] >= 2
      BY <3>3 DEF Reportable
    <3>5. memo[root] # NotYet /\ Expander[root] = memo[root]
      BY <3>2, <3>4, ZeroTally DEF Expander
    <3>6. memo[root] = InlinedFully[root]
      BY <1>1, <3>2, <3>5, ExactFully
    <3> QED BY <3>2, <3>3, <3>4, <3>5, <3>6
  <2> QED BY <2>1, <2>2
<1>2. (Acyclic' <=> Acyclic) /\ InlinedTo' = InlinedTo
  BY PremisesKept
<1> QED BY <1>1, <1>2 DEF ReportsCounted, InlinedFully

(* So some path of the root, through all its calls, assigns it twice.      *)
LEMMA AcrossSound ==
  ASSUME TypeOK, ReportsCounted PROVE T102Sound
<1> SUFFICES ASSUME Acyclic, AllRun, NEW r \in reports
             PROVE  \E p \in ExecutionsOf[r.root] : TwiceOn(p, r.channel)
  BY DEF T102Sound
<1>1. PICK root \in Function, c \in Channel : root = r.root /\ c = r.channel
  BY DEF ReportsCounted
<1>2. PICK d \in 0..Deepest : d = Deepest
  BY DeepestTyped
<1>3. ExecutionsOf = ExecutionsTo[d] /\ InlinedFully = InlinedTo[d]
  BY <1>2 DEF ExecutionsOf, InlinedFully, Deepest
<1>4. InlinedTo[d][root][c] >= 2
  BY <1>1, <1>3 DEF ReportsCounted
<1>5. Attains(ExecutionsTo[d][root], InlinedTo[d][root])
  BY LevelAttained
<1>6. PICK p \in ExecutionsTo[d][root] : InlinedTo[d][root][c] <= p[c].times
  BY <1>5 DEF Attains
<1>7. p[c].times \in Nat
  <2>1. ExecutionsTo[d][root] \in SUBSET Path
    BY RunsFacts
  <2> QED BY <1>6, <2>1 DEF Path
<1>8. InlinedTo[d][root][c] \in Nat
  <2>1. InlinedTo[d][root] \in Tally
    BY LevelsFacts
  <2> QED BY <2>1, FlowAssumption DEF Tally
<1>9. TwiceOn(p, c)
  BY <1>4, <1>6, <1>7, <1>8 DEF TwiceOn
<1> QED BY <1>1, <1>3, <1>6, <1>9

(* Without call cycles, and unless an expand has no copy, every T102       *)
(* report has a path of its root, through all calls, that assigns the      *)
(* channel twice.                                                          *)
THEOREM ReportsAcrossCalls == Spec => []T102Sound
<1> DEFINE IInv == /\ TypeOK /\ Guarded /\ Reaching /\ NoneMissing
                   /\ ExactAtAnyDepth /\ ReportsCounted
<1>1. Init => IInv
  BY InitTyped DEF Init, Reaching, NoneMissing, ExactAtAnyDepth, ReportsCounted
<1>2. IInv /\ [Next]_vars => IInv'
  BY TypeStep, GuardStep, ReachingStep, NoneMissingStep, ExactStep, ReportsCountedStep
<1>3. IInv => T102Sound
  BY AcrossSound
<1> QED BY <1>1, <1>2, <1>3, PTL DEF Spec
-----------------------------------------------------------------------------
(* Completeness.  A path assigns a channel no more often than it counts,   *)
(* unless the count is saturated.                                          *)
TimesBound == {r \in Effect \X (0..CounterMax) : r[1].times <= r[2] \/ r[2] = CounterMax}

(* The bound is kept by what counts are built from,                        *)
LEMMA TimesKept ==
  ASSUME NEW f \in Function PROVE Kept(TimesBound, f)
<1>m. CounterMax \in Nat /\ CounterMax > 1
  BY FlowAssumption
<1>t. \A v \in Effect : v.times \in Nat
  BY DEF Effect
<1>1. <<[times |-> 0, by |-> {}], 0>> \in TimesBound
  BY <1>m DEF TimesBound, Effect
<1>2. <<[times |-> 1, by |-> {f}], 1>> \in TimesBound
  BY <1>m DEF TimesBound, Effect
<1>3. ASSUME NEW v \in Effect, NEW x \in 0..CounterMax, <<v, x>> \in TimesBound,
             NEW y \in x..CounterMax
      PROVE  <<v, y>> \in TimesBound
  <2>1. y \in 0..CounterMax /\ x <= y /\ v.times \in Nat
    BY <1>m, <1>t
  <2>2. v.times <= x \/ x = CounterMax
    BY <1>3 DEF TimesBound
  <2>3. v.times <= y \/ y = CounterMax
    BY <1>m, <2>1, <2>2
  <2> QED BY <2>1, <2>3 DEF TimesBound
<1>4. ASSUME NEW v \in Effect, NEW w \in Effect,
             NEW x \in 0..CounterMax, NEW y \in 0..CounterMax,
             <<v, x>> \in TimesBound, <<w, y>> \in TimesBound
      PROVE  <<Joined(v, w), Capped(x + y)>> \in TimesBound
  <2>1. v.times \in Nat /\ w.times \in Nat
    BY <1>t
  <2>2. (v.times <= x \/ x = CounterMax) /\ (w.times <= y \/ y = CounterMax)
    BY <1>4 DEF TimesBound
  <2>3. Capped(x + y) \in 0..CounterMax
    BY <1>m DEF Capped
  <2>4. Joined(v, w) \in Effect /\ Joined(v, w).times = v.times + w.times
    BY <2>1 DEF Joined, Effect
  <2>5. v.times + w.times <= Capped(x + y) \/ Capped(x + y) = CounterMax
    BY <1>m, <2>1, <2>2 DEF Capped
  <2> QED BY <2>3, <2>4, <2>5 DEF TimesBound
<1> QED BY <1>1, <1>2, <1>3, <1>4, Zenon DEF Kept

(* so it holds at every depth.                                             *)
LEMMA LevelTimes ==
  ASSUME TypeOK, AllEnumerated, NoCountWraps, NEW c \in Channel,
         NEW d \in 0..Deepest, NEW f \in Function
  PROVE  Within(TimesBound, c, ExecutionsTo[d][f], InlinedTo[d][f][c])
<1>n. PICK n \in Nat : n = Deepest
  BY DeepestTyped
<1> DEFINE P == {e \in 0..n : \A g \in Function :
                   Within(TimesBound, c, ExecutionsTo[e][g], InlinedTo[e][g][c])}
<1>1. ASSUME NEW e \in 0..n, NEW g \in Function, e = 0 \/ g \notin Indexed
      PROVE  Within(TimesBound, c, ExecutionsTo[e][g], InlinedTo[e][g][c])
  <2>1. ~(e > 0 /\ g \in Indexed)
    BY <1>1
  <2>2. ExecutionsTo[e][g] = {Still} /\ InlinedTo[e][g] = Zero
    BY <1>n, <2>1, LevelsFacts, RunsFacts
  <2>3. Still[c] = [times |-> 0, by |-> {}] /\ Zero[c] = 0
    BY DEF Still, Zero
  <2>4. <<[times |-> 0, by |-> {}], 0>> \in TimesBound
    BY TimesKept DEF Kept
  <2> QED BY <2>2, <2>3, <2>4 DEF Within
<1>2. ASSUME NEW e \in 1..n, e - 1 \in P, NEW g \in Indexed
      PROVE  Within(TimesBound, c, ExecutionsTo[e][g], InlinedTo[e][g][c])
  <2>1. PICK b : b = program.body[g] /\ IsBody(b) /\ Enumerated(b) /\ g \in Function
                 /\ CalledBy(g) = Range(UserCallees(b)) /\ CalledBy(g) \subseteq Function
    BY CalleesOfIndexed DEF AllEnumerated
  <2>2. PICK x \in [Function -> Tally] : x = InlinedTo[e - 1]
    BY <1>n, LevelStep
  <2>3. PICK callee \in [Function -> SUBSET Path] : callee = ExecutionsTo[e - 1]
    BY <1>n, LevelStep
  <2>4. \A h \in Range(UserCallees(b)) : Within(TimesBound, c, callee[h], x[h][c])
    BY <1>2, <2>1, <2>2, <2>3
  <2>5. NothingWraps(b, x)
    <3>1. e - 1 \in 0..Deepest - 1
      BY <1>n
    <3> QED BY <2>1, <2>2, <3>1 DEF NoCountWraps, Deepest
  <2>6. Within(TimesBound, c, Paths(g, b, callee), ChannelCounts(b, x)[c])
    BY <2>1, <2>4, <2>5, TimesKept, CountsWithin
  <2> QED BY <1>n, <2>1, <2>2, <2>3, <2>6, LevelStep
<1>3. 0..n \subseteq P
  <2>1. 0 \in P
    BY <1>1
  <2>2. ASSUME NEW e \in 1..n, e - 1 \in P PROVE e \in P
    <3>1. \A g \in Function :
            Within(TimesBound, c, ExecutionsTo[e][g], InlinedTo[e][g][c])
      BY <1>1, <1>2, <2>2
    <3> QED BY <3>1
  <2> HIDE DEF P
  <2> QED BY <2>1, <2>2, Deeper
<1> QED BY <1>n, <1>3

(* Who assigns a channel on a path through f is one of the functions W, or *)
(* f itself if its own body counts an assignment.                          *)
WriterBound(W, f) ==
  {r \in Effect \X (0..CounterMax) : \A h \in r[1].by : h \in W \/ (h = f /\ r[2] >= 1)}

(* That is kept as well,                                                   *)
LEMMA WriterKept ==
  ASSUME NEW W, NEW f \in Function PROVE Kept(WriterBound(W, f), f)
<1>m. CounterMax \in Nat /\ CounterMax > 1
  BY FlowAssumption
<1> DEFINE R == WriterBound(W, f)
<1>1. <<[times |-> 0, by |-> {}], 0>> \in R
  BY <1>m DEF WriterBound, Effect
<1>2. <<[times |-> 1, by |-> {f}], 1>> \in R
  BY <1>m DEF WriterBound, Effect
<1>3. ASSUME NEW v \in Effect, NEW x \in 0..CounterMax, <<v, x>> \in R,
             NEW y \in x..CounterMax
      PROVE  <<v, y>> \in R
  <2>1. y \in 0..CounterMax /\ x <= y /\ (x >= 1 => y >= 1)
    BY <1>m
  <2>2. \A h \in v.by : h \in W \/ (h = f /\ x >= 1)
    BY <1>3 DEF WriterBound
  <2> QED BY <2>1, <2>2 DEF WriterBound
<1>4. ASSUME NEW v \in Effect, NEW w \in Effect,
             NEW x \in 0..CounterMax, NEW y \in 0..CounterMax,
             <<v, x>> \in R, <<w, y>> \in R
      PROVE  <<Joined(v, w), Capped(x + y)>> \in R
  <2>1. /\ \A h \in v.by : h \in W \/ (h = f /\ x >= 1)
        /\ \A h \in w.by : h \in W \/ (h = f /\ y >= 1)
    BY <1>4 DEF WriterBound
  <2>2. Capped(x + y) \in 0..CounterMax /\ (x >= 1 \/ y >= 1 => Capped(x + y) >= 1)
    BY <1>m DEF Capped
  <2>3. Joined(v, w) \in Effect /\ Joined(v, w).by = v.by \cup w.by
    BY DEF Joined, Effect
  <2>4. \A h \in Joined(v, w).by : h \in W \/ (h = f /\ Capped(x + y) >= 1)
    BY <2>1, <2>2, <2>3
  <2> QED BY <2>2, <2>3, <2>4 DEF WriterBound
<1> HIDE DEF R
<1>5. Kept(R, f)
  BY <1>1, <1>2, <1>3, <1>4, Zenon DEF Kept
<1> QED BY <1>5 DEF R

(* Nothing wraps when a body is counted by itself.                         *)
LEMMA AloneFits ==
  ASSUME TypeOK, NoCountWraps, NEW f \in Indexed
  PROVE  NothingWraps(program.body[f], NoCalls)
<1>1. f \in Function
  BY DEF Indexed
<1>2. Deepest >= 1 /\ Deepest \in Nat
  BY <1>1, RankTyped, DeepestTyped
<1>3. 0 \in 0..Deepest - 1 /\ 0 \in 0..Deepest /\ ~(0 > 0)
  BY <1>2
<1>4. PICK e \in [Function -> Tally] : e = InlinedTo[0]
  BY <1>3, LevelsFacts
<1>5. \A g \in Function : e[g] = Zero
  BY <1>3, <1>4, LevelsFacts
<1>6. e = NoCalls
  BY <1>5 DEF NoCalls
<1> QED BY <1>3, <1>4, <1>6 DEF NoCountWraps, Deepest

(* so every function that assigns a channel on a path of a root is one of  *)
(* the writers in its closure.                                             *)
LEMMA LevelWriters ==
  ASSUME TypeOK, AllEnumerated, NoCountWraps, NEW root \in Function, NEW c \in Channel,
         NEW d \in 0..Deepest, NEW f \in CallClosure(root), NEW p \in ExecutionsTo[d][f]
  PROVE  p[c].by \subseteq WritersOf(root, c)
<1>n. PICK n \in Nat : n = Deepest
  BY DeepestTyped
<1>w. PICK W : W = WritersOf(root, c)
  OBVIOUS
<1>c. PICK C : C = CallClosure(root) /\ C \subseteq Function
  BY DEF CallClosure
<1> DEFINE P == {e \in 0..n : \A g \in C : \A q \in ExecutionsTo[e][g] : q[c].by \subseteq W}
<1>1. ASSUME NEW e \in 0..n, NEW g \in C, e = 0 \/ g \notin Indexed
      PROVE  \A q \in ExecutionsTo[e][g] : q[c].by \subseteq W
  <2>1. ~(e > 0 /\ g \in Indexed) /\ g \in Function
    BY <1>c, <1>1
  <2>2. ExecutionsTo[e][g] = {Still}
    BY <1>n, <2>1, RunsFacts
  <2>3. Still[c].by = {}
    BY DEF Still
  <2> QED BY <2>2, <2>3
<1>2. ASSUME NEW e \in 1..n, e - 1 \in P, NEW g \in C, g \in Indexed
      PROVE  \A q \in ExecutionsTo[e][g] : q[c].by \subseteq W
  <2>1. PICK b : b = program.body[g] /\ IsBody(b) /\ Enumerated(b) /\ g \in Function
                 /\ CalledBy(g) = Range(UserCallees(b)) /\ CalledBy(g) \subseteq Function
    BY <1>2, CalleesOfIndexed DEF AllEnumerated
  <2>2. PICK callee \in [Function -> SUBSET Path] : callee = ExecutionsTo[e - 1]
    BY <1>n, <1>2, LevelStep
  <2>3. PICK R : R = WriterBound(W, g) /\ Kept(R, g)
    BY <2>1, WriterKept
  <2>4. NoCalls \in [Function -> Tally]
    BY ZeroTally DEF NoCalls
  <2>5. ASSUME NEW h \in Range(UserCallees(b))
        PROVE  Within(R, c, callee[h], NoCalls[h][c])
    <3>1. h \in Function /\ h \in CalledBy(g)
      BY <2>1
    <3>2. h \in C
      <4>1. C = Closures[root]
        BY <1>c DEF Closures
      <4> QED BY <1>2, <3>1, <4>1, ClosureProperties
    <3>3. NoCalls[h][c] = 0
      BY <3>1, ZeroTally DEF NoCalls
    <3>4. \A q \in callee[h] : q[c].by \subseteq W
      BY <1>2, <2>2, <3>2
    <3>5. \A q \in callee[h] : q[c] \in Effect
      BY <2>2, <3>1 DEF Path, Effect
    <3>6. 0 \in 0..CounterMax
      BY FlowAssumption
    <3>7. ASSUME NEW q \in callee[h] PROVE <<q[c], 0>> \in R
      BY <2>3, <3>4, <3>5, <3>6 DEF WriterBound
    <3> QED BY <3>3, <3>7 DEF Within
  <2>6. NothingWraps(b, NoCalls)
    BY <1>2, <2>1, AloneFits
  <2>7. Within(R, c, Paths(g, b, callee), ChannelCounts(b, NoCalls)[c])
    BY <2>1, <2>3, <2>4, <2>5, <2>6, CountsWithin
  <2>8. ExecutionsTo[e][g] = Paths(g, b, callee)
    BY <1>n, <1>2, <2>1, <2>2, LevelStep
  <2>9. SelfCounts(g) = ChannelCounts(b, NoCalls)
    BY <1>2, <2>1 DEF SelfCounts
  <2>10. ASSUME NEW q \in ExecutionsTo[e][g], NEW h \in q[c].by
         PROVE  h \in W
    <3>1. <<q[c], SelfCounts(g)[c]>> \in R
      BY <2>7, <2>8, <2>9 DEF Within
    <3>2. h \in W \/ (h = g /\ SelfCounts(g)[c] >= 1)
      BY <2>3, <3>1 DEF WriterBound
    <3>3. SelfCounts(g)[c] >= 1 => g \in W
      BY <1>w, <1>c DEF WritersOf
    <3> QED BY <3>2, <3>3
  <2> QED BY <2>10
<1>3. 0..n \subseteq P
  <2>1. 0 \in P
    BY <1>1
  <2>2. ASSUME NEW e \in 1..n, e - 1 \in P PROVE e \in P
    <3>1. \A g \in C : \A q \in ExecutionsTo[e][g] : q[c].by \subseteq W
      BY <1>1, <1>2, <2>2
    <3> QED BY <3>1
  <2> HIDE DEF P
  <2> QED BY <2>1, <2>2, Deeper
<1> QED BY <1>n, <1>w, <1>c, <1>3
-----------------------------------------------------------------------------
(* Every root the first loop has passed is memoised, or at the bottom of   *)
(* the stack,                                                              *)
RootsMemoised ==
  /\ phase = "inline" =>
       \A i \in 1..next - 1 : \/ memo[program.order[i]] # NotYet
                              \/ stack # <<>> /\ stack[1].fn = program.order[i]
  /\ phase # "inline" => \A i \in DOMAIN program.order : memo[program.order[i]] # NotYet

(* and every root the second loop has passed is reported if it is to be.   *)
ReportsComplete ==
  /\ phase # "inline" =>
       \A i \in 1..next - 1 : program.order[i] \in program.scheduled =>
         \A c \in Channel : Reportable(program.order[i], c) => c \in ReportedChannels
  /\ phase = "done" => next = Len(program.order) + 1

(* The roots behind the position.                                          *)
LEMMA Passed ==
  ASSUME TypeOK
  PROVE  /\ next \in Nat /\ next >= 1
         /\ \A i \in 1..next - 1 : i \in DOMAIN program.order /\ program.order[i] \in Function
         /\ next \notin DOMAIN program.order =>
              /\ DOMAIN program.order \subseteq 1..next - 1
              /\ next = Len(program.order) + 1
<1>1. /\ Len(program.order) \in Nat /\ DOMAIN program.order = 1..Len(program.order)
      /\ \A i \in DOMAIN program.order : program.order[i] \in Function
  BY OrderTyped
<1>2. next \in 1..(Len(program.order) + 1)
  BY DEF TypeOK
<1>3. \A i \in 1..next - 1 : i \in DOMAIN program.order
  BY <1>1, <1>2
<1>4. ASSUME next \notin DOMAIN program.order
      PROVE  next = Len(program.order) + 1 /\ DOMAIN program.order \subseteq 1..next - 1
  <2>1. next = Len(program.order) + 1
    BY <1>1, <1>2, <1>4
  <2> QED BY <1>1, <2>1
<1> QED BY <1>1, <1>2, <1>3, <1>4

(* No step loses a root.                                                   *)
LEMMA RootsMemoisedStep ==
  ASSUME TypeOK, Guarded, RootsMemoised, [Next]_vars
  PROVE  RootsMemoised'
<1>0. program' = program
  BY ProgramKept
<1>1. \A i \in DOMAIN program.order :
        memo[program.order[i]] # NotYet => memo'[program.order[i]] # NotYet
  BY OrderTyped, MemoGrows
<1>2. CASE NextRoot
  <2>1. /\ phase = "inline" /\ phase' = "inline" /\ memo' = memo /\ stack = <<>>
        /\ next' = next + 1 /\ next \in Nat
    BY <1>2, Passed DEF NextRoot
  <2>2. ASSUME NEW i \in 1..next' - 1
        PROVE  \/ memo'[program.order[i]] # NotYet
               \/ stack' # <<>> /\ stack'[1].fn = program.order[i]
    <3>1. CASE i = next
      <4>1. CASE memo[program.order[next]] # NotYet
        BY <2>1, <3>1, <4>1
      <4>2. CASE memo[program.order[next]] = NotYet
        <5>1. stack' = <<Activation(program.order[next])>>
          BY <1>2, <4>2 DEF NextRoot
        <5>2. stack' # <<>> /\ stack'[1].fn = program.order[next]
          BY <5>1 DEF Activation
        <5> QED BY <3>1, <5>2
      <4> QED BY <4>1, <4>2
    <3>2. CASE i # next
      <4>1. i \in 1..next - 1
        BY <2>1, <3>2
      <4> QED BY <2>1, <4>1 DEF RootsMemoised
    <3> QED BY <3>1, <3>2
  <2> QED BY <1>0, <2>1, <2>2 DEF RootsMemoised
<1>3. CASE Descend
  <2>1. /\ phase = "inline" /\ phase' = "inline" /\ next' = next
        /\ stack # <<>> /\ Top.todo # <<>>
    BY <1>3 DEF Descend
  <2>2. stack' # <<>> /\ stack'[1].fn = stack[1].fn
    <3> DEFINE g == Head(Top.todo)
    <3>1. /\ g \in Function /\ Len(stack) \in Nat
          /\ DOMAIN stack = 1..Len(stack) /\ Len(stack) \in DOMAIN stack
          /\ Advanced \in Seq(Frame) /\ Len(Advanced) = Len(stack)
          /\ \A j \in DOMAIN stack : Advanced[j].fn = stack[j].fn
      BY <2>1, AdvancedStack, LenProperties DEF TypeOK
    <3>2. 1 \in DOMAIN stack
      BY <3>1
    <3>3. CASE stack' = Advanced
      BY <3>1, <3>2, <3>3
    <3>4. CASE ~Memoised(g) /\ ~CutOff(g)
      <4>1. g \in Indexed
        BY <3>1, <3>4 DEF CutOff
      <4>2. stack' = Append(Advanced, Activation(g))
        BY <1>3, <3>4 DEF Descend
      <4>3. stack'[1] = Advanced[1] /\ Len(stack') = Len(stack) + 1
        BY <2>1, <3>2, <4>1, <4>2, Pushed
      <4> QED BY <3>1, <3>2, <4>3
    <3> QED BY <1>3, <3>3, <3>4 DEF Descend
  <2>3. \A i \in 1..next - 1 : \/ memo'[program.order[i]] # NotYet
                               \/ stack' # <<>> /\ stack'[1].fn = program.order[i]
    BY <1>1, <2>1, <2>2, Passed DEF RootsMemoised
  <2> QED BY <1>0, <2>1, <2>3 DEF RootsMemoised
<1>4. CASE Return
  <2>1. phase = "inline" /\ phase' = "inline" /\ next' = next /\ stack # <<>>
    BY <1>4 DEF Return
  <2>2. /\ DOMAIN stack = 1..Len(stack) /\ Len(stack) \in Nat
        /\ DOMAIN stack' = 1..(Len(stack) - 1)
        /\ \A j \in DOMAIN stack' : stack'[j] = stack[j]
        /\ Len(stack) \in DOMAIN stack
    BY <1>4, ReturnedStack, LenProperties DEF TypeOK
  <2>3. ASSUME NEW i \in 1..next - 1
        PROVE  \/ memo'[program.order[i]] # NotYet
               \/ stack' # <<>> /\ stack'[1].fn = program.order[i]
    <3>1. CASE memo[program.order[i]] # NotYet
      BY <1>1, <3>1, Passed
    <3>2. CASE stack[1].fn = program.order[i] /\ Len(stack) = 1
      <4>1. Top.fn = program.order[i] /\ program.order[i] \in Function
        BY <3>2, Passed DEF Top
      <4>2. ChannelCounts(program.body[Top.fn], Expander) # NotYet
        BY <1>4, CountedTyped, CallInliningAssumption
      <4> QED BY <1>4, <4>1, <4>2 DEF Return, TypeOK
    <3>3. CASE stack[1].fn = program.order[i] /\ Len(stack) # 1
      <4>1. 1 \in DOMAIN stack'
        BY <2>2, <3>3
      <4> QED BY <2>2, <3>3, <4>1
    <3> QED BY <2>1, <3>1, <3>2, <3>3 DEF RootsMemoised
  <2> QED BY <1>0, <2>1, <2>3 DEF RootsMemoised
<1>5. CASE BeginReport
  <2>1. /\ phase = "inline" /\ phase' = "report" /\ stack = <<>> /\ memo' = memo
        /\ next \notin DOMAIN program.order
    BY <1>5 DEF BeginReport
  <2>2. \A i \in DOMAIN program.order : memo[program.order[i]] # NotYet
    BY <2>1, Passed DEF RootsMemoised
  <2> QED BY <1>0, <2>1, <2>2 DEF RootsMemoised
<1>6. CASE ReportRoot \/ EndReport
  BY <1>0, <1>6 DEF ReportRoot, EndReport, RootsMemoised
<1>7. CASE UNCHANGED vars
  BY <1>7 DEF vars, RootsMemoised
<1> QED BY <1>2, <1>3, <1>4, <1>5, <1>6, <1>7 DEF Next, Done

(* What is to be reported depends on the program and the memo alone.       *)
LEMMA ReportableKept ==
  ASSUME [Next]_vars, memo' = memo, NEW root, NEW c
  PROVE  Reportable(root, c)' <=> Reportable(root, c)
<1>1. program' = program
  BY ProgramKept
<1> QED BY <1>1 DEF Reportable, Expander, CallClosure, CalledBy, Indexed, SelfCounts, WritersOf

(* No step skips a report.                                                 *)
LEMMA ReportsCompleteStep ==
  ASSUME TypeOK, ReportsComplete, [Next]_vars
  PROVE  ReportsComplete'
<1>0. program' = program
  BY ProgramKept
<1>1. CASE NextRoot \/ Descend \/ Return
  BY <1>1 DEF NextRoot, Descend, Return, ReportsComplete
<1>2. CASE BeginReport
  <2>1. phase' = "report" /\ next' = 1 /\ 1..1 - 1 = {}
    BY <1>2 DEF BeginReport
  <2> QED BY <2>1 DEF ReportsComplete
<1>3. CASE ReportRoot
  <2> DEFINE root == program.order[next]
  <2>1. /\ phase = "report" /\ phase' = "report" /\ next' = next + 1 /\ next \in Nat
        /\ memo' = memo /\ reports \subseteq reports'
    BY <1>3, Passed DEF ReportRoot
  <2>2. ReportedChannels \subseteq ReportedChannels'
    BY <2>1 DEF ReportedChannels
  <2>3. ASSUME NEW c \in Channel, root \in program.scheduled, Reportable(root, c)
        PROVE  c \in ReportedChannels'
    <3>1. CASE c \in ReportedChannels
      BY <2>2, <3>1
    <3>2. CASE c \notin ReportedChannels
      <4>1. [channel |-> c, root |-> root, writers |-> WritersOf(root, c)] \in reports'
        BY <1>3, <2>3, <3>2 DEF ReportRoot
      <4> QED BY <4>1 DEF ReportedChannels
    <3> QED BY <3>1, <3>2
  <2>4. ASSUME NEW i \in 1..next' - 1, program.order[i] \in program.scheduled,
               NEW c \in Channel, Reportable(program.order[i], c)
        PROVE  c \in ReportedChannels'
    <3>1. CASE i = next
      BY <2>3, <2>4, <3>1
    <3>2. CASE i # next
      <4>1. i \in 1..next - 1
        BY <2>1, <3>2
      <4> QED BY <2>1, <2>2, <2>4, <4>1 DEF ReportsComplete
    <3> QED BY <3>1, <3>2
  <2>5. \A i \in 1..next' - 1 : program'.order[i] \in program'.scheduled =>
          \A c \in Channel :
            Reportable(program.order[i], c)' => c \in ReportedChannels'
    BY <1>0, <2>1, <2>4, ReportableKept
  <2> QED BY <1>0, <2>1, <2>5 DEF ReportsComplete
<1>4. CASE EndReport
  <2>1. /\ phase = "report" /\ phase' = "done" /\ next' = next /\ memo' = memo
        /\ reports' = reports /\ next = Len(program.order) + 1
    BY <1>4, Passed DEF EndReport
  <2>2. ReportedChannels' = ReportedChannels
    BY <2>1 DEF ReportedChannels
  <2> QED BY <1>0, <2>1, <2>2, ReportableKept DEF ReportsComplete
<1>5. CASE UNCHANGED vars
  <2>1. phase' = phase /\ next' = next /\ memo' = memo /\ reports' = reports
    BY <1>5 DEF vars
  <2>2. ReportedChannels' = ReportedChannels
    BY <2>1 DEF ReportedChannels
  <2> QED BY <1>0, <2>1, <2>2, ReportableKept DEF ReportsComplete
<1> QED BY <1>1, <1>2, <1>3, <1>4, <1>5 DEF Next, Done

(* A path that assigns twice, and through two functions, is counted twice  *)
(* and has two writers.                                                    *)
LEMMA TwiceCounted ==
  ASSUME TypeOK, AllEnumerated, NoCountWraps,
         NEW root \in Function, NEW c \in Channel, NEW p \in ExecutionsOf[root],
         TwiceOn(p, c), Split(p, c)
  PROVE  InlinedFully[root][c] >= 2 /\ Cardinality(WritersOf(root, c)) >= 2
<1>m. CounterMax \in Nat /\ CounterMax > 1
  BY FlowAssumption
<1>d. PICK d \in 0..Deepest : d = Deepest
  BY DeepestTyped
<1>1. ExecutionsOf = ExecutionsTo[d] /\ InlinedFully = InlinedTo[d]
  BY <1>d DEF ExecutionsOf, InlinedFully, Deepest
<1>2. /\ ExecutionsTo[d][root] \in SUBSET Path /\ InlinedTo[d][root] \in Tally
  BY LevelsFacts, RunsFacts
<1>3. p[c].times \in Nat /\ p[c].by \subseteq Function
  BY <1>1, <1>2 DEF Path
<1>4. PICK x \in 0..CounterMax : x = InlinedTo[d][root][c]
  BY <1>2 DEF Tally
<1>5. p[c].times <= x \/ x = CounterMax
  <2>1. Within(TimesBound, c, ExecutionsTo[d][root], InlinedTo[d][root][c])
    BY LevelTimes
  <2>2. <<p[c], x>> \in TimesBound
    BY <1>1, <1>4, <2>1 DEF Within
  <2> QED BY <2>2 DEF TimesBound
<1>6. x >= 2
  BY <1>m, <1>3, <1>5 DEF TwiceOn
<1>7. p[c].by \subseteq WritersOf(root, c)
  <2>1. root \in CallClosure(root)
    BY DEF CallClosure
  <2> QED BY <1>1, <2>1, LevelWriters
<1>8. IsFiniteSet(WritersOf(root, c))
  <2>1. WritersOf(root, c) \subseteq Function
    BY DEF WritersOf, CallClosure
  <2> QED BY <2>1, CallInliningAssumption, FS_Subset
<1>9. Cardinality(p[c].by) <= Cardinality(WritersOf(root, c))
  BY <1>7, <1>8, FS_Subset
<1>10. Cardinality(p[c].by) \in Nat /\ Cardinality(WritersOf(root, c)) \in Nat
  BY <1>7, <1>8, FS_Subset, FS_CardinalityType
<1>11. Cardinality(WritersOf(root, c)) >= 2
  BY <1>9, <1>10 DEF Split
<1> QED BY <1>1, <1>4, <1>6, <1>11

(* A function that T040 does not report counts a channel once at most.     *)
LEMMA AloneOnce ==
  ASSUME TypeOK, NEW f \in Function, NEW c \in Channel, c \notin AssignedAlone(f)
  PROVE  SelfCounts(f)[c] < 2
<1>1. CASE f \in Indexed
  <2>1. PICK b : b = program.body[f] /\ IsBody(b)
    BY <1>1, CalleesOfIndexed
  <2>2. ~(ChannelCounts(b, NoCalls)[c] >= 2)
    BY <1>1, <2>1 DEF AssignedAlone, SingleAssignment
  <2>3. NoCalls \in [Function -> Tally]
    BY ZeroTally DEF NoCalls
  <2>4. ChannelCounts(b, NoCalls) \in Tally
    BY <2>1, <2>3, CountsTyped
  <2>5. ChannelCounts(b, NoCalls)[c] \in Nat
    BY <2>4, FlowAssumption DEF Tally
  <2>6. SelfCounts(f) = ChannelCounts(b, NoCalls)
    BY <1>1, <2>1 DEF SelfCounts
  <2> QED BY <2>2, <2>5, <2>6
<1>2. CASE f \notin Indexed
  BY <1>2, ZeroTally DEF SelfCounts
<1> QED BY <1>1, <1>2

(* So when the audit is over, it is reported.                              *)
LEMMA ReportedThen ==
  ASSUME TypeOK, ExactAtAnyDepth, RootsMemoised, ReportsComplete
  PROVE  DoubleAssignmentReported
<1> SUFFICES ASSUME phase = "done", Acyclic, AllEnumerated, NoCountWraps,
                    NEW root \in program.scheduled \cap Indexed, NEW c \in Channel,
                    NEW p \in ExecutionsOf[root], TwiceOn(p, c), Split(p, c),
                    \A f \in CallClosure(root) : c \notin AssignedAlone(f)
             PROVE  c \in ReportedChannels
  BY DEF DoubleAssignmentReported
<1>1. root \in Function /\ \A f \in CallClosure(root) : f \in Function
  BY DEF Indexed, CallClosure
<1>2. PICK i \in DOMAIN program.order : program.order[i] = root
  <2>1. program.body[root] \in Body
    BY CalleesOfIndexed
  <2>2. Range(program.order) = {f \in Function : program.body[f] \in Body}
    BY CallInliningAssumption DEF TypeOK
  <2> QED BY <1>1, <2>1, <2>2 DEF Range
<1>3. memo[root] # NotYet
  BY <1>2 DEF RootsMemoised
<1>4. Expander[root] = InlinedFully[root]
  BY <1>1, <1>3, ExactFully DEF Expander
<1>5. InlinedFully[root][c] >= 2 /\ Cardinality(WritersOf(root, c)) >= 2
  BY <1>1, TwiceCounted
<1>6. \A f \in CallClosure(root) : SelfCounts(f)[c] < 2
  BY <1>1, AloneOnce
<1>7. Reportable(root, c)
  BY <1>4, <1>5, <1>6 DEF Reportable
<1>8. i \in 1..next - 1
  <2>1. next = Len(program.order) + 1 /\ Len(program.order) \in Nat
    BY OrderTyped DEF ReportsComplete
  <2>2. DOMAIN program.order = 1..Len(program.order)
    BY OrderTyped
  <2> QED BY <2>1, <2>2
<1> QED BY <1>2, <1>7, <1>8 DEF ReportsComplete

(* Completeness: without call cycles, with every expand enumerated and no  *)
(* count wrapping, a channel that some path of a scheduled function        *)
(* assigns twice, through two functions, is reported by T102, or by T040   *)
(* of a function on the way.                                               *)
THEOREM NoSplitMissed == Spec => []DoubleAssignmentReported
<1> DEFINE IInv == /\ TypeOK /\ Guarded /\ Reaching /\ NoneMissing
                   /\ ExactAtAnyDepth /\ RootsMemoised /\ ReportsComplete
<1>1. Init => IInv
  <2>1. Init => 1..next - 1 = {}
    BY DEF Init
  <2> QED BY <2>1, InitTyped
          DEF Init, Reaching, NoneMissing, ExactAtAnyDepth, RootsMemoised, ReportsComplete
<1>2. IInv /\ [Next]_vars => IInv'
  BY TypeStep, GuardStep, ReachingStep, NoneMissingStep, ExactStep,
     RootsMemoisedStep, ReportsCompleteStep
<1>3. IInv => DoubleAssignmentReported
  BY ReportedThen
<1> QED BY <1>1, <1>2, <1>3, PTL DEF Spec
=============================================================================
