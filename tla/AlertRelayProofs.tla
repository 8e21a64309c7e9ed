-------------------------- MODULE AlertRelayProofs --------------------------
(***************************************************************************)
(* What holds of the live alerts for every number of connections, alerts   *)
(* and restarts: type correctness, that who is open is in active exactly   *)
(* once, that nobody gets an alert twice or out of order, that a broadcast *)
(* misses at most one member for each one removed under its iterator, and  *)
(* that no alert the consumer, or its committed offset, has passed was     *)
(* left without a broadcast, but for those PublishedIsRelayed names.       *)
(*                                                                         *)
(* The removals work on sequences without repeats.  broadcast ends with a  *)
(* removal for each element of dead; what that leaves is found by          *)
(* induction over the fold, stated with the set of the lengths at which it *)
(* would fail.  For the iterator what counts is who is ahead of it: a      *)
(* removal takes at most one connection more than the removed one out of   *)
(* that set, and nobody comes back into it.                                *)
(***************************************************************************)
EXTENDS AlertRelay, SequenceTheorems, FiniteSetTheorems, WellFoundedInduction, TLAPS

(* Removal from sequences without repeats                                  *)

NoRepeats(s) == \A i, j \in DOMAIN s : s[i] = s[j] => i = j

(* Induction in the form of a least element. *)
LEMMA LeastNumber ==
    ASSUME NEW T, T \subseteq Nat, T # {}
    PROVE  \E x \in T : \A y \in T : x <= y
<1>1. PICK x \in T : \A y \in T : ~(<<y, x>> \in OpToRel(<, Nat))
  BY NatLessThanWellFounded, WFMin, Zenon
<1>2. \A y \in T : ~(y < x)
  BY <1>1, Zenon DEF OpToRel
<1>. QED BY <1>2

Largest(s) == CHOOSE x \in s : \A y \in s : x >= y

LEMMA LargestIn ==
    ASSUME NEW n \in Nat, NEW s \in SUBSET (1..n), s # {}
    PROVE  Largest(s) \in s /\ \A y \in s : y <= Largest(s)
<1>. DEFINE T == {b \in Nat : \A y \in s : y <= b}
<1>1. n \in T
  OBVIOUS
<1>2. PICK b \in T : \A y \in T : b <= y
  BY <1>1, LeastNumber
<1>3. b \in s
  <2>. SUFFICES ASSUME b \notin s PROVE FALSE
    OBVIOUS
  <2>1. PICK y \in s : TRUE
    OBVIOUS
  <2>2. b - 1 \in Nat /\ \A z \in s : z <= b - 1
    BY <2>1
  <2>3. b - 1 \in T
    BY <2>2
  <2>. QED BY <1>2, <2>3
<1>4. \E x \in s : \A y \in s : x >= y
  BY <1>2, <1>3
<1>. QED BY <1>4 DEF Largest

LEMMA LargestOfPrefix ==
    ASSUME NEW k \in Nat, k > 0
    PROVE  Largest(1..k) = k /\ (1..k) \ {k} = 1..k - 1
<1>1. 1..k \in SUBSET (1..k) /\ k \in 1..k
  OBVIOUS
<1>2. Largest(1..k) \in 1..k /\ \A y \in 1..k : y <= Largest(1..k)
  BY <1>1, LargestIn
<1>. QED BY <1>1, <1>2

(* The function of which FoldLeft is a value: what is left of base when    *)
(* the elements of d at the places in s have been removed.                 *)
IsRemoval(iter, base, d, D) ==
    iter = [s \in SUBSET D |->
               IF s = {} THEN base ELSE RemoveFirst(iter[s \ {Largest(s)}], d[Largest(s)])]

Iter(base, d) == CHOOSE iter : IsRemoval(iter, base, d, DOMAIN d)

LEMMA FoldIsIter ==
    ASSUME NEW base, NEW d
    PROVE  FoldLeft(RemoveFirst, base, d) = Iter(base, d)[DOMAIN d]
  BY Zenon DEF FoldLeft, MapThenFoldSet, Iter, IsRemoval, Largest, Max

(* There is such a function: each prefix of d has one, extending the one   *)
(* before.                                                                 *)
LEMMA RemovalDefined ==
    ASSUME NEW base, NEW d, NEW n \in Nat
    PROVE  \E iter : IsRemoval(iter, base, d, 1..n)
<1>. DEFINE Bad == {k \in Nat : ~ \E iter : IsRemoval(iter, base, d, 1..k)}
<1>. SUFFICES ASSUME Bad # {} PROVE FALSE
  OBVIOUS
<1>1. PICK k \in Bad : \A y \in Bad : k <= y
  <2>. HIDE DEF Bad
  <2>1. Bad \subseteq Nat
    BY DEF Bad
  <2>. QED BY <2>1, LeastNumber
<1>2. CASE k = 0
  <2>. DEFINE g == [s \in SUBSET (1..0) |-> base]
  <2>1. SUBSET (1..0) = {{}}
    OBVIOUS
  <2>2. IsRemoval(g, base, d, 1..0)
    BY <2>1 DEF IsRemoval
  <2>. QED BY <1>2, <2>2
<1>3. CASE k # 0
  <2>1. k - 1 \in Nat /\ k - 1 \notin Bad
    BY <1>1, <1>3
  <2>2. PICK g : IsRemoval(g, base, d, 1..k - 1)
    BY <2>1
  <2>. DEFINE Step(f, s) == IF s = {} THEN base ELSE RemoveFirst(f[s \ {Largest(s)}], d[Largest(s)])
              h == [s \in SUBSET (1..k) |-> Step(g, s)]
  <2>3. \A s \in SUBSET (1..k - 1) : g[s] = Step(g, s)
    BY <2>2 DEF IsRemoval
  <2>4. \A s \in SUBSET (1..k - 1) : h[s] = g[s]
    <3>1. \A s \in SUBSET (1..k - 1) : s \in SUBSET (1..k)
      BY <2>1
    <3>. HIDE DEF Step
    <3>. QED BY <2>3, <3>1
  <2>5. \A s \in SUBSET (1..k) : s # {} => s \ {Largest(s)} \in SUBSET (1..k - 1)
    <3>. SUFFICES ASSUME NEW s \in SUBSET (1..k), s # {}
                  PROVE  \A y \in s : y # Largest(s) => y \in 1..k - 1
      OBVIOUS
    <3>1. Largest(s) \in 1..k /\ \A y \in s : y <= Largest(s)
      BY LargestIn
    <3>. QED BY <3>1
  <2>6. \A s \in SUBSET (1..k) : Step(g, s) = Step(h, s)
    <3>. TAKE s \in SUBSET (1..k)
    <3>1. CASE s = {}
      BY <3>1
    <3>2. CASE s # {}
      <4>1. h[s \ {Largest(s)}] = g[s \ {Largest(s)}]
        <5>. HIDE DEF h
        <5>. QED BY <3>2, <2>4, <2>5
      <4>. HIDE DEF h
      <4>. QED BY <3>2, <4>1
    <3>. QED BY <3>1, <3>2
  <2>7. h = [s \in SUBSET (1..k) |-> Step(h, s)]
    <3>1. h = [s \in SUBSET (1..k) |-> Step(g, s)]
      OBVIOUS
    <3>. HIDE DEF h, Step
    <3>. QED BY <2>6, <3>1
  <2>8. IsRemoval(h, base, d, 1..k)
    <3>. HIDE DEF h
    <3>. QED BY <2>7 DEF IsRemoval
  <2>. QED BY <2>8, <1>1
<1>. QED BY <1>2, <1>3

LEMMA IterSteps ==
    ASSUME NEW base, NEW S, NEW d \in Seq(S)
    PROVE  /\ Iter(base, d)[1..0] = base
           /\ \A k \in 1..Len(d) : Iter(base, d)[1..k] = RemoveFirst(Iter(base, d)[1..k - 1], d[k])
<1>1. DOMAIN d = 1..Len(d) /\ Len(d) \in Nat
  BY LenProperties
<1>2. IsRemoval(Iter(base, d), base, d, 1..Len(d))
  <2>1. \E iter : IsRemoval(iter, base, d, DOMAIN d)
    BY <1>1, RemovalDefined
  <2>2. IsRemoval(Iter(base, d), base, d, DOMAIN d)
    BY <2>1, Zenon DEF Iter
  <2>. QED BY <1>1, <2>2
<1>. DEFINE iter == Iter(base, d)
<1>. HIDE DEF iter
<1>3. \A s \in SUBSET (1..Len(d)) :
        iter[s] = IF s = {} THEN base ELSE RemoveFirst(iter[s \ {Largest(s)}], d[Largest(s)])
  BY <1>2 DEF IsRemoval, iter
<1>4. iter[1..0] = base
  <2>1. 1..0 = {}
    OBVIOUS
  <2>. QED BY <1>3, <2>1
<1>5. ASSUME NEW k \in 1..Len(d)
      PROVE  iter[1..k] = RemoveFirst(iter[1..k - 1], d[k])
  <2>1. k \in 1..k /\ \A i \in 1..k : i \in 1..Len(d)
    BY <1>1
  <2>2. Largest(1..k) = k /\ (1..k) \ {k} = 1..k - 1
    BY <1>1, LargestOfPrefix
  <2>. QED BY <1>3, <2>1, <2>2
<1>. QED BY <1>4, <1>5 DEF iter

(* RemoveFirst closes the gap at the place of the element. *)
LEMMA RemoveFirstFacts ==
    ASSUME NEW S, NEW s \in Seq(S), NEW e
    PROVE  /\ ~Contains(s, e) => RemoveFirst(s, e) = s
           /\ \A p \in 1..Len(s) :
                (s[p] = e /\ \A i \in 1..p - 1 : s[i] # e) =>
                    /\ RemoveFirst(s, e) \in Seq(S)
                    /\ Len(RemoveFirst(s, e)) = Len(s) - 1
                    /\ \A i \in 1..Len(s) - 1 :
                         RemoveFirst(s, e)[i] = IF i < p THEN s[i] ELSE s[i + 1]
<1>. DEFINE r == RemoveFirst(s, e)
<1>1. DOMAIN s = 1..Len(s) /\ Len(s) \in Nat /\ \A i \in 1..Len(s) : s[i] \in S
  BY LenProperties, ElementOfSeq
<1>2. ~Contains(s, e) => r = s
  BY DEF RemoveFirst, Contains
<1>3. ASSUME NEW p \in 1..Len(s), s[p] = e, \A i \in 1..p - 1 : s[i] # e
      PROVE  /\ r \in Seq(S)
             /\ Len(r) = Len(s) - 1
             /\ \A i \in 1..Len(s) - 1 : r[i] = IF i < p THEN s[i] ELSE s[i + 1]
  <2>. DEFINE I == {i \in 1..Len(s) : s[i] = e}
              a == SubSeq(s, 1, p - 1)
              b == SubSeq(s, p + 1, Len(s))
  <2>1. p \in I /\ \A y \in I : p <= y
    BY <1>1, <1>3
  <2>2. Min(I) = p
    <3>1. I \subseteq Nat
      BY <1>1
    <3>. HIDE DEF I
    <3>2. Min(I) \in I /\ \A y \in I : Min(I) <= y
      BY <2>1 DEF Min
    <3>3. PICK m \in I : m = Min(I)
      BY <3>2
    <3>4. m \in Nat /\ p \in Nat /\ m <= p /\ p <= m
      BY <2>1, <3>1, <3>2, <3>3
    <3>. QED BY <3>3, <3>4
  <2>3. SelectInSeq(s, LAMBDA v : v = e) = p
    <3>1. SelectInSeq(s, LAMBDA v : v = e) = IF I # {} THEN Min(I) ELSE 0
      BY DEF SelectInSeq
    <3>. HIDE DEF I
    <3>. QED BY <3>1, <2>1, <2>2
  <2>4. r = a \o b
    BY <2>3, <1>3 DEF RemoveFirst, RemoveAt
  <2>5. /\ a \in Seq(S) /\ Len(a) = p - 1 /\ \A i \in 1..p - 1 : a[i] = s[i]
    <3>1. 1 \in Int /\ p - 1 \in Int /\ \A i \in 1..p - 1 : s[i] \in S
      BY <1>1
    <3>2. p - 1 >= 0 /\ p \in Nat
      BY <1>1
    <3>. QED BY <1>1, <3>1, <3>2, SubSeqProperties
  <2>6. /\ b \in Seq(S) /\ Len(b) = Len(s) - p
        /\ \A i \in 1..Len(s) - p : b[i] = s[p + i]
    <3>1. p + 1 \in Int /\ Len(s) \in Int /\ \A i \in p + 1..Len(s) : s[i] \in S
      BY <1>1
    <3>2. p \in Nat /\ Len(s) \in Nat /\ p <= Len(s)
      BY <1>1
    <3>3. /\ b \in Seq(S)
          /\ \A i \in 1..Len(s) - (p + 1) + 1 : b[i] = s[p + 1 + i - 1]
      BY <1>1, <3>1, SubSeqProperties
    <3>4. Len(b) = Len(s) - p
      <4>1. Len(b) = IF p + 1 <= Len(s) THEN Len(s) - (p + 1) + 1 ELSE 0
        BY <3>1, SubSeqProperties
      <4>. HIDE DEF b
      <4>2. CASE p + 1 <= Len(s)
        BY <3>2, <4>1, <4>2, <1>1
      <4>3. CASE ~(p + 1 <= Len(s))
        <5>1. Len(b) = 0
          BY <4>1, <4>3
        <5>2. p = Len(s)
          BY <3>2, <4>3
        <5>. QED BY <5>1, <5>2, <3>2
      <4>. QED BY <4>2, <4>3
    <3>. HIDE DEF b
    <3>5. ASSUME NEW i \in 1..Len(s) - p
          PROVE  b[i] = s[p + i]
      <4>1. i \in 1..Len(s) - (p + 1) + 1 /\ p + 1 + i - 1 = p + i
        BY <3>2, <1>1
      <4>. QED BY <4>1, <3>3
    <3>. QED BY <3>3, <3>4, <3>5
  <2>. HIDE DEF a, b, r
  <2>7. /\ a \o b \in Seq(S) /\ Len(a \o b) = Len(a) + Len(b)
        /\ \A i \in 1..Len(a) : (a \o b)[i] = a[i]
        /\ \A i \in Len(a) + 1..Len(a) + Len(b) : (a \o b)[i] = b[i - Len(a)]
    <3>1. a \in Seq(S) /\ b \in Seq(S)
      BY <2>5, <2>6
    <3>2. Len(a) \in Nat /\ Len(b) \in Nat
      BY <3>1, LenProperties
    <3>. QED BY <3>1, <3>2, ConcatProperties
  <2>8. r \in Seq(S) /\ Len(r) = Len(s) - 1
    BY <1>1, <2>4, <2>5, <2>6, <2>7
  <2>9. ASSUME NEW i \in 1..Len(s) - 1
        PROVE  r[i] = IF i < p THEN s[i] ELSE s[i + 1]
    <3>1. CASE i < p
      BY <3>1, <1>1, <2>4, <2>5, <2>7
    <3>2. CASE ~(i < p)
      <4>1. i \in Len(a) + 1..Len(a) + Len(b) /\ i - Len(a) \in 1..Len(s) - p
        BY <3>2, <1>1, <2>5, <2>6
      <4>2. r[i] = b[i - Len(a)] /\ b[i - Len(a)] = s[p + (i - Len(a))]
        BY <4>1, <2>4, <2>6, <2>7
      <4>3. p + (i - Len(a)) = i + 1
        BY <2>5, <1>1
      <4>. QED BY <3>2, <4>2, <4>3
    <3>. QED BY <3>1, <3>2
  <2>. QED BY <2>8, <2>9
<1>. QED BY <1>2, <1>3

(* From a sequence without repeats an element is removed altogether. *)
LEMMA RemoveFromDistinct ==
    ASSUME NEW S, NEW s \in Seq(S), NoRepeats(s), NEW e
    PROVE  /\ RemoveFirst(s, e) \in Seq(S)
           /\ NoRepeats(RemoveFirst(s, e))
           /\ Range(RemoveFirst(s, e)) = Range(s) \ {e}
<1>. DEFINE r == RemoveFirst(s, e)
<1>1. DOMAIN s = 1..Len(s) /\ Len(s) \in Nat /\ \A i \in 1..Len(s) : s[i] \in S
  BY LenProperties, ElementOfSeq
<1>2. CASE ~Contains(s, e)
  <2>1. r = s /\ \A i \in 1..Len(s) : s[i] # e
    BY <1>2, RemoveFirstFacts DEF Contains
  <2>. QED BY <1>1, <2>1 DEF Range
<1>3. CASE Contains(s, e)
  <2>1. PICK p \in 1..Len(s) : s[p] = e
    BY <1>3 DEF Contains
  <2>2. \A i \in 1..Len(s) : i # p => s[i] # e
    BY <2>1, <1>1 DEF NoRepeats
  <2>3. \A i \in 1..p - 1 : s[i] # e
    BY <2>2, <1>1
  <2>. HIDE DEF r
  <2>4. /\ r \in Seq(S) /\ Len(r) = Len(s) - 1
        /\ \A i \in 1..Len(s) - 1 : r[i] = IF i < p THEN s[i] ELSE s[i + 1]
    BY <2>1, <2>3, RemoveFirstFacts DEF r
  <2>5. DOMAIN r = 1..Len(s) - 1
    BY <2>4, LenProperties
  <2>6. NoRepeats(r)
    <3>. SUFFICES ASSUME NEW i \in 1..Len(s) - 1, NEW j \in 1..Len(s) - 1, r[i] = r[j]
                  PROVE  i = j
      BY <2>5 DEF NoRepeats
    <3>1. /\ i \in 1..Len(s) /\ i + 1 \in 1..Len(s) /\ j \in 1..Len(s) /\ j + 1 \in 1..Len(s)
          /\ i \in Nat /\ j \in Nat /\ p \in Nat
      BY <1>1
    <3>2. PICK a \in 1..Len(s) : a = (IF i < p THEN i ELSE i + 1)
      BY <3>1
    <3>3. PICK b \in 1..Len(s) : b = (IF j < p THEN j ELSE j + 1)
      BY <3>1
    <3>4. s[a] = s[b]
      BY <2>4, <3>2, <3>3
    <3>5. a = b
      BY <3>4, <1>1 DEF NoRepeats
    <3>. QED BY <3>1, <3>2, <3>3, <3>5
  <2>7. ASSUME NEW x \in Range(r) PROVE x \in Range(s) \ {e}
    <3>1. PICK i \in 1..Len(s) - 1 : r[i] = x
      BY <2>5 DEF Range
    <3>2. i \in 1..Len(s) /\ i + 1 \in 1..Len(s) /\ i \in Nat /\ p \in Nat
      BY <1>1
    <3>3. CASE i < p
      <4>1. i # p /\ x = s[i]
        BY <3>1, <3>2, <3>3, <2>4
      <4>. QED BY <4>1, <3>2, <2>2, <1>1 DEF Range
    <3>4. CASE ~(i < p)
      <4>1. i + 1 # p /\ x = s[i + 1]
        BY <3>1, <3>2, <3>4, <2>4
      <4>. QED BY <4>1, <3>2, <2>2, <1>1 DEF Range
    <3>. QED BY <3>3, <3>4
  <2>8. ASSUME NEW x \in Range(s), x # e PROVE x \in Range(r)
    <3>1. PICK j \in 1..Len(s) : s[j] = x
      BY <1>1 DEF Range
    <3>2. j # p /\ j \in Nat /\ p \in Nat
      BY <3>1, <2>1, <2>8, <1>1
    <3>3. CASE j < p
      <4>1. j \in 1..Len(s) - 1
        BY <3>3, <1>1
      <4>. QED BY <4>1, <3>1, <3>3, <2>4, <2>5 DEF Range
    <3>4. CASE j > p
      <4>1. j - 1 \in 1..Len(s) - 1 /\ ~(j - 1 < p) /\ j - 1 + 1 = j
        BY <3>4, <1>1
      <4>2. r[j - 1] = x
        BY <4>1, <3>1, <2>4
      <4>. QED BY <4>1, <4>2, <2>5 DEF Range
    <3>. QED BY <3>2, <3>3, <3>4
  <2>. QED BY <2>4, <2>6, <2>7, <2>8 DEF r
<1>. QED BY <1>2, <1>3

(* What disconnecting all of d leaves of s. *)
LEMMA FoldRemoves ==
    ASSUME NEW S, NEW s \in Seq(S), NoRepeats(s), NEW d \in Seq(S)
    PROVE  /\ FoldLeft(RemoveFirst, s, d) \in Seq(S)
           /\ NoRepeats(FoldLeft(RemoveFirst, s, d))
           /\ Range(FoldLeft(RemoveFirst, s, d)) = Range(s) \ Range(d)
<1>. DEFINE iter == Iter(s, d)
            Good(k) == /\ iter[1..k] \in Seq(S)
                       /\ NoRepeats(iter[1..k])
                       /\ Range(iter[1..k]) = Range(s) \ {d[i] : i \in 1..k}
            Bad == {k \in 0..Len(d) : ~Good(k)}
<1>1. DOMAIN d = 1..Len(d) /\ Len(d) \in Nat
  BY LenProperties
<1>2. /\ iter[1..0] = s
      /\ \A k \in 1..Len(d) : iter[1..k] = RemoveFirst(iter[1..k - 1], d[k])
  BY IterSteps
<1>. HIDE DEF iter
<1>3. Good(0)
  <2>1. {d[i] : i \in 1..0} = {}
    OBVIOUS
  <2>. QED BY <1>2, <2>1
<1>4. ASSUME NEW k \in 1..Len(d), Good(k - 1)
      PROVE  Good(k)
  <2>. DEFINE t == iter[1..k - 1]
  <2>1. t \in Seq(S) /\ NoRepeats(t) /\ Range(t) = Range(s) \ {d[i] : i \in 1..k - 1}
    BY <1>4
  <2>. HIDE DEF t
  <2>2. /\ RemoveFirst(t, d[k]) \in Seq(S) /\ NoRepeats(RemoveFirst(t, d[k]))
        /\ Range(RemoveFirst(t, d[k])) = Range(t) \ {d[k]}
    BY <2>1, RemoveFromDistinct
  <2>3. {d[i] : i \in 1..k} = {d[i] : i \in 1..k - 1} \cup {d[k]}
    <3>1. \A i \in 1..k : i \in 1..k - 1 \/ i = k
      BY <1>1
    <3>2. k \in 1..k /\ \A i \in 1..k - 1 : i \in 1..k
      BY <1>1
    <3>. QED BY <3>1, <3>2
  <2>4. iter[1..k] = RemoveFirst(t, d[k])
    BY <1>2 DEF t
  <2>. QED BY <2>1, <2>2, <2>3, <2>4
<1>5. Bad = {}
  <2>. SUFFICES ASSUME Bad # {} PROVE FALSE
    OBVIOUS
  <2>1. Bad \subseteq Nat
    BY <1>1
  <2>2. PICK k \in Bad : \A y \in Bad : k <= y
    <3>. HIDE DEF Bad
    <3>. QED BY <2>1, LeastNumber
  <2>. HIDE DEF Good
  <2>3. k # 0 /\ k \in 0..Len(d) /\ ~Good(k)
    BY <2>2, <1>3
  <2>4. k \in 1..Len(d) /\ k - 1 \in 0..Len(d)
    BY <2>3, <1>1
  <2>5. ~Good(k - 1)
    BY <2>3, <2>4, <1>4
  <2>. QED BY <2>2, <2>4, <2>5
<1>6. Good(Len(d))
  <2>. HIDE DEF Good
  <2>. QED BY <1>1, <1>5
<1>7. Range(d) = {d[i] : i \in 1..Len(d)}
  BY <1>1 DEF Range
<1>8. FoldLeft(RemoveFirst, s, d) = iter[1..Len(d)]
  BY <1>1, FoldIsIter DEF iter
<1>. QED BY <1>6, <1>7, <1>8

-----------------------------------------------------------------------------
(* Ranges, lengths, and who is ahead of the iterator                       *)

LEMMA RelayConstants ==
    /\ NoConn \notin Conns /\ IsFiniteSet(Conns)
    /\ MaxAlerts \in Nat /\ MaxCrashes \in Nat
    /\ ALERT_TOPIC \in Topics /\ ALERTS_TOPIC \in Topics
    /\ Cardinality(Conns) \in Nat
  BY RelayAssumption, FS_CardinalityType DEF RelayAssumption, Topics

LEMMA RangeAppend ==
    ASSUME NEW S, NEW s \in Seq(S), NEW e \in S
    PROVE  Range(Append(s, e)) = Range(s) \cup {e}
<1>1. /\ Len(s) \in Nat /\ DOMAIN s = 1..Len(s) /\ DOMAIN Append(s, e) = 1..Len(s) + 1
      /\ \A i \in 1..Len(s) : Append(s, e)[i] = s[i]
      /\ Append(s, e)[Len(s) + 1] = e
  BY AppendProperties, LenProperties
<1>. QED BY <1>1 DEF Range

LEMMA RangeType ==
    ASSUME NEW S, NEW s \in Seq(S)
    PROVE  /\ Range(s) \subseteq S
           /\ Range(s) = {s[i] : i \in 1..Len(s)}
           /\ \A e : Contains(s, e) <=> e \in Range(s)
<1>1. DOMAIN s = 1..Len(s) /\ s \in [1..Len(s) -> S]
  BY LenProperties
<1>. QED BY <1>1 DEF Range, Contains

LEMMA RangeEmpty == Range(<<>>) = {}
  BY DEF Range

(* A sequence without repeats is no longer than its elements are many. *)
LEMMA DistinctLength ==
    ASSUME NEW S, IsFiniteSet(S), NEW s \in Seq(S), NoRepeats(s)
    PROVE  Len(s) <= Cardinality(S)
<1>1. Len(s) \in Nat /\ DOMAIN s = 1..Len(s) /\ s \in [1..Len(s) -> S]
  BY LenProperties
<1>2. s \in Injection(1..Len(s), S)
  BY <1>1 DEF NoRepeats, Injection, IsInjective
<1>3. Cardinality(1..Len(s)) <= Cardinality(S)
  BY <1>2, FS_Injection
<1>4. Cardinality(1..Len(s)) = Len(s)
  BY <1>1, FS_Interval
<1>. QED BY <1>3, <1>4

(* A new connection at the end. *)
LEMMA AppendNew ==
    ASSUME NEW S, NEW s \in Seq(S), NoRepeats(s), NEW e \in S, e \notin Range(s)
    PROVE  Append(s, e) \in Seq(S) /\ NoRepeats(Append(s, e))
<1>1. /\ Append(s, e) \in Seq(S)
      /\ Len(s) \in Nat /\ DOMAIN s = 1..Len(s) /\ DOMAIN Append(s, e) = 1..Len(s) + 1
      /\ \A i \in 1..Len(s) : Append(s, e)[i] = s[i]
      /\ Append(s, e)[Len(s) + 1] = e
  BY AppendProperties, LenProperties
<1>2. \A i \in 1..Len(s) : s[i] # e
  BY <1>1 DEF Range
<1>3. \A i \in 1..Len(s) + 1 : i \in 1..Len(s) \/ i = Len(s) + 1
  BY <1>1
<1>. QED BY <1>1, <1>2, <1>3 DEF NoRepeats

-----------------------------------------------------------------------------
(* The connections that the iterator has not reached. *)
Ahead(s, i) == {s[k] : k \in i + 1..Len(s)}

(* The next one is taken. *)
LEMMA AheadNext ==
    ASSUME NEW S, NEW s \in Seq(S), NoRepeats(s), NEW i \in Nat, i < Len(s)
    PROVE  /\ s[i + 1] \in S /\ s[i + 1] \in Range(s) /\ s[i + 1] \in Ahead(s, i)
           /\ Ahead(s, i + 1) = Ahead(s, i) \ {s[i + 1]}
<1>1. Len(s) \in Nat /\ DOMAIN s = 1..Len(s) /\ i + 1 \in 1..Len(s)
  BY LenProperties
<1>2. s[i + 1] \in S /\ s[i + 1] \in Range(s) /\ s[i + 1] \in Ahead(s, i)
  BY <1>1, ElementOfSeq DEF Range, Ahead
<1>3. ASSUME NEW k \in i + 1..Len(s), k # i + 1
      PROVE  s[k] # s[i + 1] /\ k \in i + 1 + 1..Len(s)
  BY <1>1, <1>3 DEF NoRepeats
<1>4. ASSUME NEW k \in i + 1 + 1..Len(s)
      PROVE  s[k] # s[i + 1] /\ k \in i + 1..Len(s)
  BY <1>1, <1>4 DEF NoRepeats
<1>. QED BY <1>2, <1>3, <1>4 DEF Ahead

LEMMA AheadAppend ==
    ASSUME NEW S, NEW s \in Seq(S), NEW e \in S, NEW i \in Nat
    PROVE  /\ Ahead(s, i) \subseteq Ahead(Append(s, e), i)
           /\ Ahead(Append(s, e), i) \subseteq Ahead(s, i) \cup {e}
<1>1. /\ Len(s) \in Nat /\ Len(Append(s, e)) = Len(s) + 1
      /\ \A k \in 1..Len(s) : Append(s, e)[k] = s[k]
      /\ Append(s, e)[Len(s) + 1] = e
  BY AppendProperties, LenProperties
<1>2. ASSUME NEW k \in i + 1..Len(s)
      PROVE  k \in i + 1..Len(s) + 1 /\ Append(s, e)[k] = s[k]
  BY <1>1
<1>3. ASSUME NEW k \in i + 1..Len(s) + 1
      PROVE  (k \in i + 1..Len(s) /\ Append(s, e)[k] = s[k]) \/ Append(s, e)[k] = e
  BY <1>1
<1>. QED BY <1>1, <1>2, <1>3 DEF Ahead

LEMMA AheadInRange ==
    ASSUME NEW S, NEW s \in Seq(S), NEW i \in Nat
    PROVE  Ahead(s, i) \subseteq Range(s)
<1>1. Len(s) \in Nat /\ DOMAIN s = 1..Len(s) /\ \A k \in i + 1..Len(s) : k \in 1..Len(s)
  BY LenProperties
<1>. QED BY <1>1 DEF Ahead, Range

(* A removal moves what comes later one place to the front: at most one    *)
(* connection slips past the iterator.                                     *)
LEMMA AheadRemoved ==
    ASSUME NEW S, NEW s \in Seq(S), NoRepeats(s), NEW e, NEW i \in Nat
    PROVE  /\ Ahead(RemoveFirst(s, e), i) \subseteq Ahead(s, i)
           /\ Ahead(s, i) \subseteq Ahead(RemoveFirst(s, e), i) \cup {e, s[i + 1]}
<1>. DEFINE r == RemoveFirst(s, e)
<1>1. DOMAIN s = 1..Len(s) /\ Len(s) \in Nat
  BY LenProperties
<1>2. CASE ~Contains(s, e)
  <2>1. r = s
    BY <1>2, RemoveFirstFacts
  <2>. QED BY <2>1
<1>3. CASE Contains(s, e)
  <2>1. PICK p \in 1..Len(s) : s[p] = e
    BY <1>3 DEF Contains
  <2>2. \A k \in 1..p - 1 : s[k] # e
    BY <2>1, <1>1 DEF NoRepeats
  <2>. HIDE DEF r
  <2>3. /\ Len(r) = Len(s) - 1
        /\ \A k \in 1..Len(s) - 1 : r[k] = IF k < p THEN s[k] ELSE s[k + 1]
    BY <2>1, <2>2, RemoveFirstFacts DEF r
  <2>4. ASSUME NEW k \in i + 1..Len(s) - 1
        PROVE  r[k] \in Ahead(s, i)
    <3>1. k \in 1..Len(s) - 1 /\ k \in i + 1..Len(s) /\ k + 1 \in i + 1..Len(s) /\ p \in Nat
      BY <1>1
    <3>. QED BY <2>3, <3>1 DEF Ahead
  <2>5. ASSUME NEW k \in i + 1..Len(s)
        PROVE  s[k] \in Ahead(r, i) \cup {e, s[i + 1]}
    <3>1. k \in 1..Len(s) /\ k \in Nat /\ p \in Nat
      BY <1>1
    <3>2. CASE k < p
      <4>1. k \in 1..Len(s) - 1 /\ k \in i + 1..Len(s) - 1
        BY <3>1, <3>2, <1>1
      <4>2. r[k] = s[k]
        BY <4>1, <3>2, <2>3
      <4>. QED BY <4>1, <4>2, <2>3 DEF Ahead
    <3>3. CASE k = p
      BY <3>3, <2>1
    <3>4. CASE k > p /\ k # i + 1
      <4>1. k - 1 \in 1..Len(s) - 1 /\ k - 1 \in i + 1..Len(s) - 1 /\ ~(k - 1 < p) /\ k - 1 + 1 = k
        BY <3>1, <3>4, <1>1
      <4>2. r[k - 1] = s[k]
        BY <4>1, <2>3
      <4>. QED BY <4>1, <4>2, <2>3 DEF Ahead
    <3>5. CASE k = i + 1
      BY <3>5
    <3>. QED BY <3>1, <3>2, <3>3, <3>4, <3>5
  <2>6. Ahead(r, i) \subseteq Ahead(s, i)
    BY <2>3, <2>4 DEF Ahead
  <2>7. Ahead(s, i) \subseteq Ahead(r, i) \cup {e, s[i + 1]}
    BY <2>5 DEF Ahead
  <2>. QED BY <2>6, <2>7 DEF r
<1>. QED BY <1>2, <1>3

-----------------------------------------------------------------------------
(* Types, the offsets, and who is in active                                *)

(* Offsets are those of messages in the topic. *)
OffsetInv ==
    /\ position <= kafka[ALERTS_TOPIC]
    /\ \A k \in Range(committed) : k <= kafka[ALERTS_TOPIC]
    /\ Broadcasting => position >= 1

(* A connection in active was accepted; one that is open is there; only    *)
(* one that is not open any more is in dead.                               *)
KnownInv ==
    /\ NoRepeats(active)
    /\ \A c \in Conns : link[c] = "open" => c \in Range(active)
    /\ \A c \in Range(active) : link[c] \in {"open", "gone", "closed"}
    /\ \A c \in Range(dead) : link[c] \in {"gone", "closed"}

KafkaOK ==
    /\ kafka \in [Topics -> 0..MaxAlerts]
    /\ committed \in Seq(0..MaxAlerts) /\ Len(committed) <= 1
    /\ position \in 0..MaxAlerts
    /\ crashes \in 0..MaxCrashes
    /\ relayed \cup missed \subseteq 1..MaxAlerts

ControlOK ==
    /\ consumer \in {"starting", "polling", "broadcasting", "dead"}
    /\ link \in [Conns -> {"none", "accepting", "open", "gone", "closed"}]
    /\ index \in 0..Cardinality(Conns)
    /\ target \in Conns \cup {NoConn}
    /\ target # NoConn => Broadcasting
    /\ audience \subseteq Conns
    /\ removals \in Nat

LogsOK ==
    /\ active \in Seq(Conns)
    /\ dead \in Seq(Conns)
    /\ sent \in [Conns -> Seq(1..MaxAlerts)]

LEMMA TypeParts == TypeOK <=> KafkaOK /\ ControlOK /\ LogsOK
  BY DEF TypeOK, KafkaOK, ControlOK, LogsOK

(* One step of a task that the others take no part in. *)
ConnStep(c) == Open(c) \/ Connect(c) \/ ClientLeaves(c) \/ HandlerDisconnects(c) \/ HandlerFails(c)

LEMMA NextSteps ==
    [Next]_vars =>
        \/ PublishAlert
        \/ \E c \in Conns : ConnStep(c)
        \/ ConsumerStarts \/ ConsumerDies \/ TakeAlert
        \/ SendNext \/ SendSucceeds \/ SendFails \/ ReapDead
        \/ AutoCommit
        \/ Restart
        \/ UNCHANGED vars
  BY DEF Next, RelayStep, Handler, ConnStep, Quiet

LEMMA KafkaStep == TypeOK /\ OffsetInv /\ [Next]_vars => KafkaOK' /\ OffsetInv'
<1>. SUFFICES ASSUME TypeOK, OffsetInv, [Next]_vars
              PROVE  KafkaOK' /\ OffsetInv'
  OBVIOUS
<1>. USE RelayConstants DEF KafkaOK, OffsetInv, Broadcasting
<1>t. KafkaOK /\ consumer \in {"starting", "polling", "broadcasting", "dead"}
  BY TypeParts DEF ControlOK
<1>k. kafka[ALERTS_TOPIC] \in 0..MaxAlerts /\ kafka[ALERT_TOPIC] \in 0..MaxAlerts
  BY <1>t
<1>1. CASE PublishAlert
  <2>1. kafka' = [kafka EXCEPT ![ALERT_TOPIC] = @ + 1] /\ kafka[ALERT_TOPIC] < MaxAlerts
    BY <1>1 DEF PublishAlert
  <2>2. kafka' \in [Topics -> 0..MaxAlerts] /\ kafka'[ALERTS_TOPIC] >= kafka[ALERTS_TOPIC]
    BY <2>1, <1>t, <1>k
  <2>3. kafka'[ALERTS_TOPIC] \in 0..MaxAlerts /\ Range(committed) \subseteq 0..MaxAlerts
    BY <2>2, <1>t, RangeType
  <2>. QED BY <1>1, <2>2, <2>3, <1>t, <1>k DEF PublishAlert, history
<1>2. CASE \E c \in Conns : ConnStep(c)
  BY <1>2, <1>t DEF ConnStep, Open, Connect, ClientLeaves, HandlerDisconnects, HandlerFails,
        kafkaVars, history
<1>3. CASE ConsumerStarts
  <2>1. committed # <<>> => committed[1] \in Range(committed) /\ committed[1] \in 0..MaxAlerts
    <3>1. committed \in Seq(0..MaxAlerts) /\ (committed # <<>> => Len(committed) \in Nat \ {0})
      BY <1>t, EmptySeq
    <3>2. committed # <<>> => 1 \in 1..Len(committed)
      BY <3>1
    <3>. QED BY <3>1, <3>2, RangeType, ElementOfSeq
  <2>. QED BY <1>3, <2>1, <1>t, <1>k DEF ConsumerStarts, kafkaVars, history
<1>4. CASE TakeAlert
  BY <1>4, <1>t, <1>k DEF TakeAlert, kafkaVars
<1>5. CASE ConsumerDies \/ SendNext \/ SendSucceeds \/ SendFails \/ ReapDead
  BY <1>5, <1>t DEF ConsumerDies, SendNext, SendSucceeds, SendFails, ReapDead, kafkaVars, history
<1>6. CASE AutoCommit
  <2>1. committed' = <<position>> /\ position \in 0..MaxAlerts
    BY <1>6, <1>t DEF AutoCommit
  <2>2. committed' \in Seq(0..MaxAlerts) /\ Len(committed') = 1 /\ Range(committed') = {position}
    BY <2>1 DEF Range
  <2>. QED BY <1>6, <2>2, <1>t DEF AutoCommit, history
<1>7. CASE Restart
  BY <1>7, <1>t DEF Restart, kafkaVars
<1>8. CASE UNCHANGED vars
  BY <1>8, <1>t DEF vars, kafkaVars, history
<1>. QED BY <1>1, <1>2, <1>3, <1>4, <1>5, <1>6, <1>7, <1>8, NextSteps

(* index stays within the connections there are, because active has none   *)
(* of them twice.                                                          *)
LEMMA ControlStep == TypeOK /\ KnownInv /\ [Next]_vars => ControlOK'
<1>. SUFFICES ASSUME TypeOK, KnownInv, [Next]_vars
              PROVE  ControlOK'
  OBVIOUS
<1>. USE RelayConstants DEF ControlOK, Broadcasting
<1>t. ControlOK /\ active \in Seq(Conns) /\ NoRepeats(active)
  BY TypeParts DEF LogsOK, KnownInv
<1>1. CASE PublishAlert \/ AutoCommit
  BY <1>1, <1>t DEF PublishAlert, AutoCommit, broadcastVars, history
<1>2. ASSUME NEW c \in Conns, ConnStep(c)
      PROVE  ControlOK'
  <2>1. CASE Open(c) \/ Connect(c) \/ ClientLeaves(c) \/ HandlerFails(c)
    BY <2>1, <1>t DEF Open, Connect, ClientLeaves, HandlerFails, broadcastVars, history
  <2>2. CASE HandlerDisconnects(c)
    BY <2>2, <1>t DEF HandlerDisconnects, Disconnect, broadcastVars
  <2>. QED BY <1>2, <2>1, <2>2 DEF ConnStep
<1>3. CASE ConsumerStarts
  BY <1>3, <1>t DEF ConsumerStarts, broadcastVars, history
<1>4. CASE ConsumerDies
  BY <1>4, <1>t DEF ConsumerDies, broadcastVars, history
<1>5. CASE TakeAlert
  <2>1. Range(active) \subseteq Conns
    BY <1>t, RangeType
  <2>. QED BY <1>5, <2>1, <1>t DEF TakeAlert
<1>6. CASE SendNext
  <2>1. active[index + 1] \in Conns
    BY <1>6, <1>t, AheadNext DEF SendNext
  <2>2. index + 1 \in 0..Cardinality(Conns)
    <3>1. Len(active) <= Cardinality(Conns) /\ Len(active) \in Nat
      BY <1>t, DistinctLength, LenProperties
    <3>. QED BY <3>1, <1>6, <1>t DEF SendNext
  <2>. QED BY <1>6, <2>1, <2>2, <1>t DEF SendNext, history
<1>7. CASE SendSucceeds
  BY <1>7, <1>t DEF SendSucceeds
<1>8. CASE SendFails
  BY <1>8, <1>t DEF SendFails, history
<1>9. CASE ReapDead
  BY <1>9, <1>t DEF ReapDead, broadcastVars, history
<1>10. CASE Restart
  BY <1>10, <1>t DEF Restart
<1>11. CASE UNCHANGED vars
  BY <1>11, <1>t DEF vars, broadcastVars, history
<1>. QED BY <1>1, <1>2, <1>3, <1>4, <1>5, <1>6, <1>7, <1>8, <1>9, <1>10, <1>11, NextSteps

(* The removals keep active without repeats, and never remove who is open. *)
LEMMA LogsStep == TypeOK /\ KnownInv /\ OffsetInv /\ [Next]_vars => LogsOK' /\ KnownInv'
<1>. SUFFICES ASSUME TypeOK, KnownInv, OffsetInv, [Next]_vars
              PROVE  LogsOK' /\ KnownInv'
  OBVIOUS
<1>. USE RelayConstants DEF LogsOK, KnownInv
<1>t. /\ KafkaOK /\ ControlOK /\ LogsOK
      /\ Range(active) \subseteq Conns /\ Range(dead) \subseteq Conns
  BY TypeParts, RangeType
<1>1. CASE PublishAlert \/ AutoCommit \/ ConsumerStarts \/ ConsumerDies \/ SendNext
  BY <1>1, <1>t DEF PublishAlert, AutoCommit, ConsumerStarts, ConsumerDies, SendNext,
                    broadcastVars, history
<1>2. ASSUME NEW c \in Conns, Open(c) \/ ClientLeaves(c) \/ HandlerFails(c)
      PROVE  LogsOK' /\ KnownInv'
  <2>1. /\ \E l \in {"accepting", "gone", "closed"} : link' = [link EXCEPT ![c] = l]
        /\ c \in Range(active) \cup Range(dead) => link'[c] \in {"gone", "closed"}
        /\ active' = active /\ dead' = dead /\ sent' = sent
    BY <1>2, <1>t DEF Open, ClientLeaves, HandlerFails, broadcastVars, history, ControlOK
  <2>. QED BY <2>1, <1>t DEF ControlOK
<1>3. ASSUME NEW c \in Conns, Connect(c)
      PROVE  LogsOK' /\ KnownInv'
  <2>1. /\ active' = Append(active, c) /\ link' = [link EXCEPT ![c] = "open"]
        /\ dead' = dead /\ sent' = sent
        /\ c \notin Range(active) /\ c \notin Range(dead)
    BY <1>3 DEF Connect, broadcastVars, history
  <2>2. Range(active') = Range(active) \cup {c} /\ active' \in Seq(Conns) /\ NoRepeats(active')
    BY <2>1, <1>t, RangeAppend, AppendNew
  <2>. QED BY <2>1, <2>2, <1>t DEF ControlOK
<1>4. ASSUME NEW c \in Conns, HandlerDisconnects(c)
      PROVE  LogsOK' /\ KnownInv'
  <2>1. /\ active' = RemoveFirst(active, c) /\ link' = [link EXCEPT ![c] = "closed"]
        /\ dead' = dead /\ sent' = sent
    BY <1>4 DEF HandlerDisconnects, Disconnect, broadcastVars
  <2>2. Range(active') = Range(active) \ {c} /\ active' \in Seq(Conns) /\ NoRepeats(active')
    BY <2>1, <1>t, RemoveFromDistinct
  <2>. QED BY <2>1, <2>2, <1>t DEF ControlOK
<1>5. CASE TakeAlert
  <2>1. dead' \in Seq(Conns) /\ Range(dead') = {}
    BY <1>5, EmptySeq, RangeEmpty DEF TakeAlert
  <2>. QED BY <1>5, <2>1, <1>t DEF TakeAlert
<1>6. CASE SendSucceeds
  <2>1. position \in 1..MaxAlerts /\ target \in Conns
    BY <1>6, <1>t DEF SendSucceeds, ControlOK, KafkaOK, OffsetInv
  <2>2. Append(sent[target], position) \in Seq(1..MaxAlerts)
    BY <2>1, <1>t, AppendProperties
  <2>. QED BY <1>6, <2>1, <2>2, <1>t DEF SendSucceeds
<1>7. CASE SendFails
  <2>1. target \in Conns /\ link[target] \in {"gone", "closed"} /\ dead' = Append(dead, target)
    BY <1>7, <1>t DEF SendFails, ControlOK
  <2>2. dead' \in Seq(Conns) /\ Range(dead') = Range(dead) \cup {target}
    BY <2>1, <1>t, AppendProperties, RangeAppend
  <2>. QED BY <1>7, <2>1, <2>2, <1>t DEF SendFails, history
<1>8. CASE ReapDead
  <2>1. /\ active' = FoldLeft(RemoveFirst, active, dead)
        /\ link' = link /\ dead' = dead /\ sent' = sent
    BY <1>8 DEF ReapDead, broadcastVars, history
  <2>2. /\ active' \in Seq(Conns) /\ NoRepeats(active')
        /\ Range(active') = Range(active) \ Range(dead)
    BY <2>1, <1>t, FoldRemoves
  <2>. QED BY <2>1, <2>2, <1>t
<1>9. CASE Restart
  <2>1. /\ active' = <<>> /\ dead' = dead /\ sent' = sent
        /\ link' = [c \in Conns |-> IF link[c] = "none" THEN "none" ELSE "closed"]
    BY <1>9 DEF Restart
  <2>2. active' \in Seq(Conns) /\ Range(active') = {} /\ NoRepeats(active')
    BY <2>1, EmptySeq, RangeEmpty DEF NoRepeats
  <2>. QED BY <2>1, <2>2, <1>t
<1>10. CASE UNCHANGED vars
  BY <1>10, <1>t DEF vars, broadcastVars, history
<1>. QED BY <1>1, <1>2, <1>3, <1>4, <1>5, <1>6, <1>7, <1>8, <1>9, <1>10, NextSteps DEF ConnStep

LEMMA RelayInit == Init => TypeOK /\ OffsetInv /\ KnownInv
<1>. SUFFICES ASSUME Init PROVE TypeOK /\ OffsetInv /\ KnownInv
  OBVIOUS
<1>1. <<>> \in Seq(0..MaxAlerts) /\ Len(<<>>) = 0 /\ <<>> \in Seq(Conns) /\ <<>> \in Seq(1..MaxAlerts)
  BY EmptySeq
<1>2. TypeOK
  BY <1>1, RelayConstants DEF Init, TypeOK, Broadcasting
<1>3. Range(<<>>) = {} /\ NoRepeats(<<>>)
  BY RangeEmpty DEF NoRepeats
<1>. QED BY <1>2, <1>3, RelayConstants DEF Init, OffsetInv, KnownInv, Broadcasting

RelayBase == TypeOK /\ OffsetInv /\ KnownInv

LEMMA RelayBaseStep == RelayBase /\ [Next]_vars => RelayBase'
<1>1. (KafkaOK /\ ControlOK /\ LogsOK)' => TypeOK'
  BY TypeParts, PTL
<1>. QED BY <1>1, KafkaStep, ControlStep, LogsStep DEF RelayBase

LEMMA RelayBaseInvariant == Spec => []RelayBase
<1>1. Init => RelayBase
  BY RelayInit DEF RelayBase
<1>. QED BY <1>1, RelayBaseStep, PTL DEF Spec

(* Every variable keeps its type, the iterator within as many steps as     *)
(* there are connections (utils.py:8-30, consumers.py:14-40).              *)
THEOREM RelayTypeCorrect == Spec => []TypeOK
<1>1. RelayBase => TypeOK
  BY DEF RelayBase
<1>. QED BY <1>1, RelayBaseInvariant, PTL

(* Whoever is open is in active exactly once, whatever comes and goes      *)
(* (utils.py:14-20,29-30).                                                 *)
THEOREM OpenIsKnown == Spec => []OpenIsActive
<1>1. RelayBase => OpenIsActive
  <2>. SUFFICES ASSUME RelayBase, NEW c \in Conns, link[c] = "open"
                PROVE  Cardinality({i \in DOMAIN active : active[i] = c}) = 1
    BY DEF OpenIsActive
  <2>1. c \in Range(active) /\ NoRepeats(active)
    BY DEF RelayBase, KnownInv
  <2>2. PICK i \in DOMAIN active : active[i] = c
    BY <2>1 DEF Range
  <2>3. {j \in DOMAIN active : active[j] = c} = {i}
    BY <2>1, <2>2 DEF NoRepeats
  <2>. QED BY <2>3, FS_Singleton
<1>. QED BY <1>1, RelayBaseInvariant, PTL

-----------------------------------------------------------------------------
(* Order of the alerts of one connection                                   *)

Behind(c) == link[c] = "closed" \/ \A v \in Range(sent[c]) : v < position

(* A connection that can still be sent to has only been sent alerts up to  *)
(* position, and before the current one if the broadcast has yet to reach  *)
(* it; the one whose send is awaited is not met again.  After a restart,   *)
(* which may go back to earlier alerts, who was sent anything is closed.   *)
OrderInv ==
    /\ SentInOrder
    /\ \A c \in Conns : link[c] \in {"none", "accepting"} => sent[c] = <<>>
    /\ consumer = "starting" => \A c \in Conns : link[c] = "closed" \/ sent[c] = <<>>
    /\ \A c \in Conns : link[c] = "closed" \/ \A v \in Range(sent[c]) : v <= position
    /\ Broadcasting => \A c \in Ahead(active, index) : Behind(c)
    /\ target # NoConn => /\ Behind(target)
                          /\ target \notin Ahead(active, index)
                          /\ link[target] \in {"open", "gone", "closed"}

LEMMA BaseParts ==
    RelayBase => /\ position \in 0..MaxAlerts
                 /\ consumer \in {"starting", "polling", "broadcasting", "dead"}
                 /\ link \in [Conns -> {"none", "accepting", "open", "gone", "closed"}]
                 /\ index \in Nat
                 /\ target \in Conns \cup {NoConn}
                 /\ target # NoConn => consumer = "broadcasting"
                 /\ active \in Seq(Conns) /\ NoRepeats(active)
                 /\ dead \in Seq(Conns)
                 /\ sent \in [Conns -> Seq(1..MaxAlerts)]
                 /\ Range(active) \subseteq Conns /\ Range(dead) \subseteq Conns
                 /\ Ahead(active, index) \subseteq Range(active)
<1>. SUFFICES ASSUME RelayBase PROVE Ahead(active, index) \subseteq Range(active) /\ TypeOK /\ KnownInv
              /\ Range(active) \subseteq Conns /\ Range(dead) \subseteq Conns
  BY RelayConstants DEF RelayBase, TypeOK, KnownInv, Broadcasting
<1>1. active \in Seq(Conns) /\ dead \in Seq(Conns) /\ index \in Nat
  BY RelayConstants DEF RelayBase, TypeOK
<1>. QED BY <1>1, RangeType, AheadInRange DEF RelayBase

LEMMA LogExtended ==
    ASSUME NEW S \in SUBSET Nat, NEW s \in Seq(S), NEW v \in S,
           \A i, j \in DOMAIN s : i < j => s[i] < s[j],
           \A x \in Range(s) : x < v
    PROVE  /\ \A i, j \in DOMAIN Append(s, v) : i < j => Append(s, v)[i] < Append(s, v)[j]
           /\ Range(Append(s, v)) = Range(s) \cup {v}
<1>1. /\ Len(s) \in Nat /\ DOMAIN s = 1..Len(s) /\ DOMAIN Append(s, v) = 1..Len(s) + 1
      /\ \A i \in 1..Len(s) : Append(s, v)[i] = s[i]
      /\ Append(s, v)[Len(s) + 1] = v
  BY AppendProperties, LenProperties
<1>2. \A i \in 1..Len(s) : s[i] < v
  BY <1>1 DEF Range
<1>3. \A i \in 1..Len(s) + 1 : i \in 1..Len(s) \/ i = Len(s) + 1
  BY <1>1
<1>. QED BY <1>1, <1>2, <1>3, RangeAppend

LEMMA OrderStep == RelayBase /\ OrderInv /\ [Next]_vars => OrderInv'
<1>. SUFFICES ASSUME RelayBase, OrderInv, [Next]_vars
              PROVE  OrderInv'
  OBVIOUS
<1>. USE RelayConstants DEF OrderInv, SentInOrder, Behind, Broadcasting
<1>t. /\ position \in 0..MaxAlerts
      /\ consumer \in {"starting", "polling", "broadcasting", "dead"}
      /\ link \in [Conns -> {"none", "accepting", "open", "gone", "closed"}]
      /\ index \in Nat
      /\ target \in Conns \cup {NoConn}
      /\ target # NoConn => consumer = "broadcasting"
      /\ active \in Seq(Conns) /\ NoRepeats(active)
      /\ sent \in [Conns -> Seq(1..MaxAlerts)]
      /\ Range(active) \subseteq Conns
      /\ Ahead(active, index) \subseteq Range(active)
  BY BaseParts
<1>r. \A c \in Conns : Range(sent[c]) \subseteq 1..MaxAlerts
  BY <1>t, RangeType
<1>1. CASE PublishAlert \/ AutoCommit \/ UNCHANGED vars
  BY <1>1, <1>t DEF PublishAlert, AutoCommit, vars, broadcastVars, history
<1>2. CASE ConsumerDies
  BY <1>2, <1>t DEF ConsumerDies, kafkaVars, broadcastVars, history
<1>3. CASE ConsumerStarts
  <2>1. target' = NoConn /\ consumer' = "polling" /\ sent' = sent /\ link' = link
    BY <1>3, <1>t DEF ConsumerStarts, broadcastVars, history
  <2>2. \A c \in Conns : link[c] = "closed" \/ Range(sent[c]) = {}
    BY <1>3, RangeEmpty DEF ConsumerStarts
  <2>. QED BY <2>1, <2>2, <1>t
<1>4. CASE TakeAlert
  <2>1. /\ target' = NoConn /\ consumer' = "broadcasting" /\ sent' = sent /\ link' = link
        /\ position' = position + 1 /\ active' = active /\ index' = 0
    BY <1>4, <1>t DEF TakeAlert
  <2>2. Ahead(active, 0) \subseteq Conns
    BY <1>t, AheadInRange
  <2>3. \A c \in Conns : link[c] = "closed" \/ \A v \in Range(sent[c]) : v < position + 1 /\ v <= position + 1
    BY <1>t, <1>r
  <2>. QED BY <2>1, <2>2, <2>3, <1>t
<1>5. CASE SendNext
  <2>1. /\ target' = active[index + 1] /\ index' = index + 1 /\ consumer = "broadcasting"
        /\ UNCHANGED <<position, consumer, active, link, sent>> /\ index < Len(active)
    BY <1>5 DEF SendNext, history
  <2>2. /\ active[index + 1] \in Range(active) /\ active[index + 1] \in Ahead(active, index)
        /\ Ahead(active, index + 1) = Ahead(active, index) \ {active[index + 1]}
    BY <2>1, <1>t, AheadNext
  <2>3. link[active[index + 1]] \in {"open", "gone", "closed"}
    BY <2>2 DEF RelayBase, KnownInv
  <2>. QED BY <2>1, <2>2, <2>3, <1>t
<1>6. CASE SendSucceeds
  <2>1. /\ target \in Conns /\ link[target] \in {"open", "gone"} /\ consumer = "broadcasting"
        /\ sent' = [sent EXCEPT ![target] = Append(@, position)] /\ target' = NoConn
        /\ UNCHANGED <<position, consumer, active, link, index>>
    BY <1>6, <1>t DEF SendSucceeds
  <2>2. position \in 1..MaxAlerts
    BY <2>1, <1>t DEF RelayBase, OffsetInv
  <2>3. sent[target] \in Seq(1..MaxAlerts) /\ (\A v \in Range(sent[target]) : v < position)
    BY <2>1, <1>t
  <2>4. 1..MaxAlerts \in SUBSET Nat
    OBVIOUS
  <2>5. /\ \A i, j \in DOMAIN sent'[target] : i < j => sent'[target][i] < sent'[target][j]
        /\ Range(sent'[target]) = Range(sent[target]) \cup {position}
    <3>1. sent'[target] = Append(sent[target], position)
      BY <2>1, <1>t
    <3>. QED BY <3>1, <2>1, <2>2, <2>3, <2>4, LogExtended
  <2>6. \A c \in Conns : c # target => sent'[c] = sent[c]
    BY <2>1, <1>t
  <2>7. SentInOrder'
    BY <2>5, <2>6
  <2>8. \A c \in Conns : link[c] = "closed" \/ \A v \in Range(sent'[c]) : v <= position
    <3>. TAKE c \in Conns
    <3>1. CASE c = target
      BY <3>1, <2>5, <1>t
    <3>2. CASE c # target
      BY <3>2, <2>6
    <3>. QED BY <3>1, <3>2
  <2>9. \A c \in Ahead(active, index) : c # target /\ c \in Conns /\ sent'[c] = sent[c]
    BY <2>1, <2>6, <1>t
  <2>. QED BY <2>1, <2>6, <2>7, <2>8, <2>9, <1>t
<1>7. CASE SendFails
  BY <1>7, <1>t DEF SendFails, history
<1>8. CASE ReapDead
  BY <1>8, <1>t DEF ReapDead, broadcastVars, history
<1>9. ASSUME NEW c \in Conns, Open(c) \/ ClientLeaves(c) \/ HandlerFails(c)
      PROVE  OrderInv'
  <2>1. /\ UNCHANGED <<position, consumer, active, index, target, sent>>
        /\ \A d \in Conns : link[d] = "closed" => link'[d] = "closed"
        /\ \A d \in Conns : link[d] \in {"open", "gone"} => link'[d] \in {"open", "gone", "closed"}
        /\ \A d \in Conns : link'[d] \in {"none", "accepting"} => link[d] \in {"none", "accepting"}
    BY <1>9, <1>t DEF Open, ClientLeaves, HandlerFails, broadcastVars, history
  <2>. QED BY <2>1, <1>t
<1>10. ASSUME NEW c \in Conns, Connect(c)
       PROVE  OrderInv'
  <2>1. /\ UNCHANGED <<position, consumer, index, target, sent>>
        /\ link[c] = "accepting" /\ link' = [link EXCEPT ![c] = "open"]
        /\ active' = Append(active, c)
    BY <1>10 DEF Connect, broadcastVars, history
  <2>2. sent[c] = <<>> /\ Range(sent[c]) = {} /\ c # target
    BY <2>1, <1>t, RangeEmpty
  <2>3. Ahead(active', index) \subseteq Ahead(active, index) \cup {c}
    BY <2>1, <1>t, AheadAppend
  <2>. QED BY <2>1, <2>2, <2>3, <1>t
<1>11. ASSUME NEW c \in Conns, HandlerDisconnects(c)
       PROVE  OrderInv'
  <2>1. /\ UNCHANGED <<position, consumer, index, target, sent>>
        /\ link[c] = "gone" /\ link' = [link EXCEPT ![c] = "closed"]
        /\ active' = RemoveFirst(active, c)
    BY <1>11 DEF HandlerDisconnects, Disconnect, broadcastVars
  <2>2. Ahead(active', index) \subseteq Ahead(active, index)
    BY <2>1, <1>t, AheadRemoved
  <2>. QED BY <2>1, <2>2, <1>t
<1>12. CASE Restart
  <2>1. /\ UNCHANGED <<position, sent>> /\ target' = NoConn /\ consumer' = "starting"
        /\ link' = [c \in Conns |-> IF link[c] = "none" THEN "none" ELSE "closed"]
    BY <1>12 DEF Restart
  <2>. QED BY <2>1, <1>t
<1>. QED BY <1>1, <1>2, <1>3, <1>4, <1>5, <1>6, <1>7, <1>8, <1>9, <1>10, <1>11, <1>12, NextSteps
         DEF ConnStep

(* No connection is sent an alert twice or after a later one               *)
(* (utils.py:14-30).                                                       *)
THEOREM SentOnceInOrder == Spec => []SentInOrder
<1>1. Init => OrderInv
  <2>. SUFFICES ASSUME Init PROVE OrderInv
    OBVIOUS
  <2>1. Range(<<>>) = {} /\ DOMAIN <<>> = {}
    BY RangeEmpty
  <2>. QED BY <2>1 DEF Init, OrderInv, SentInOrder, Broadcasting
<1>2. OrderInv => SentInOrder
  BY DEF OrderInv
<1>. QED BY <1>1, <1>2, RelayBaseInvariant, OrderStep, PTL DEF Spec

-----------------------------------------------------------------------------
(* Who is missed                                                           *)

(* Members from the beginning that the iterator has passed without a send. *)
Passed ==
    {c \in audience \cap Range(active) :
        /\ position \notin Range(sent[c])
        /\ c \notin Range(dead) /\ c # target /\ c \notin Ahead(active, index)}

MissInv ==
    /\ Broadcasting => Cardinality(Passed) <= removals
    /\ Broadcasting => \A c \in audience : link[c] \in {"open", "gone", "closed"}

LEMMA OneMore ==
    ASSUME NEW S, IsFiniteSet(S), NEW T, NEW x, T \subseteq S \cup {x}
    PROVE  /\ IsFiniteSet(T) /\ Cardinality(T) \in Nat /\ Cardinality(S) \in Nat
           /\ Cardinality(T) <= Cardinality(S) + 1
<1>1. IsFiniteSet(S \cup {x}) /\ Cardinality(S \cup {x}) <= Cardinality(S) + 1
      /\ Cardinality(S) \in Nat
  BY FS_AddElement, FS_CardinalityType
<1>2. IsFiniteSet(T) /\ Cardinality(T) <= Cardinality(S \cup {x})
  BY <1>1, FS_Subset
<1>3. Cardinality(T) \in Nat /\ Cardinality(S \cup {x}) \in Nat
  BY <1>1, <1>2, FS_CardinalityType
<1>. QED BY <1>1, <1>2, <1>3

LEMMA NoMore ==
    ASSUME NEW S, IsFiniteSet(S), NEW T, T \subseteq S
    PROVE  /\ IsFiniteSet(T) /\ Cardinality(T) \in Nat /\ Cardinality(S) \in Nat
           /\ Cardinality(T) <= Cardinality(S)
  BY FS_Subset, FS_CardinalityType

LEMMA AudienceStep ==
    RelayBase /\ MissInv /\ [Next]_vars =>
        (Broadcasting => \A c \in audience : link[c] \in {"open", "gone", "closed"})'
<1>. SUFFICES ASSUME RelayBase, MissInv, [Next]_vars, consumer' = "broadcasting"
              PROVE  \A c \in audience' : link'[c] \in {"open", "gone", "closed"}
  BY DEF Broadcasting
<1>. USE DEF MissInv, Broadcasting
<1>t. /\ link \in [Conns -> {"none", "accepting", "open", "gone", "closed"}]
      /\ audience \subseteq Conns
      /\ target # NoConn => consumer = "broadcasting"
  BY BaseParts DEF RelayBase, TypeOK
<1>1. CASE TakeAlert
  BY <1>1, RangeType DEF TakeAlert, RelayBase, KnownInv
<1>2. CASE PublishAlert \/ AutoCommit \/ UNCHANGED vars \/ SendNext \/ SendSucceeds \/ SendFails
  <2>1. UNCHANGED <<audience, link, consumer>>
    BY <1>2 DEF PublishAlert, AutoCommit, vars, broadcastVars, history, SendNext, SendSucceeds, SendFails
  <2>. QED BY <2>1
<1>3. CASE ConsumerDies \/ ConsumerStarts \/ ReapDead \/ Restart
  BY <1>3 DEF ConsumerDies, ConsumerStarts, ReapDead, Restart
<1>4. ASSUME NEW c \in Conns, ConnStep(c)
      PROVE  \A d \in audience' : link'[d] \in {"open", "gone", "closed"}
  <2>1. /\ UNCHANGED <<audience, consumer>>
        /\ \A d \in Conns : link[d] \in {"open", "gone", "closed"} => link'[d] \in {"open", "gone", "closed"}
    BY <1>4, <1>t DEF ConnStep, Open, Connect, ClientLeaves, HandlerDisconnects, HandlerFails,
                      broadcastVars, history
  <2>. QED BY <2>1, <1>t
<1>. QED BY <1>1, <1>2, <1>3, <1>4, NextSteps

LEMMA MissStep == RelayBase /\ MissInv /\ [Next]_vars => (Broadcasting => Cardinality(Passed) <= removals)'
<1>. SUFFICES ASSUME RelayBase, MissInv, [Next]_vars, consumer' = "broadcasting"
              PROVE  Cardinality(Passed') <= removals'
  BY DEF Broadcasting
<1>. USE RelayConstants DEF Broadcasting
<1>t. /\ position \in 0..MaxAlerts
      /\ consumer \in {"starting", "polling", "broadcasting", "dead"}
      /\ index \in Nat
      /\ target \in Conns \cup {NoConn}
      /\ active \in Seq(Conns) /\ NoRepeats(active)
      /\ dead \in Seq(Conns)
      /\ sent \in [Conns -> Seq(1..MaxAlerts)]
      /\ Range(active) \subseteq Conns
  BY BaseParts
<1>f. audience \subseteq Conns /\ removals \in Nat /\ IsFiniteSet(Passed)
  <2>1. audience \subseteq Conns /\ removals \in Nat
    BY DEF RelayBase, TypeOK
  <2>2. Passed \subseteq Conns
    BY <2>1 DEF Passed
  <2>. QED BY <2>1, <2>2, NoMore
<1>m. consumer = "broadcasting" => Cardinality(Passed) <= removals
  BY DEF MissInv
<1>n. ASSUME Passed' \subseteq Passed, removals' = removals, consumer = "broadcasting"
      PROVE  Cardinality(Passed') <= removals'
  <2>1. /\ Cardinality(Passed') \in Nat /\ Cardinality(Passed) \in Nat
        /\ Cardinality(Passed') <= Cardinality(Passed)
    BY <1>n, <1>f, NoMore
  <2>. QED BY <2>1, <1>n, <1>m, <1>f
<1>1. CASE PublishAlert \/ AutoCommit \/ UNCHANGED vars
  <2>1. UNCHANGED <<audience, active, position, sent, dead, target, index, removals, consumer>>
    BY <1>1 DEF PublishAlert, AutoCommit, vars, broadcastVars, history
  <2>. QED BY <2>1, <1>n DEF Passed
<1>2. CASE ConsumerDies \/ ConsumerStarts \/ ReapDead \/ Restart
  BY <1>2 DEF ConsumerDies, ConsumerStarts, ReapDead, Restart
<1>3. CASE TakeAlert
  <2>1. Ahead(active, 0) = Range(active)
    <3>1. Range(active) = {active[k] : k \in 1..Len(active)}
      BY <1>t, RangeType
    <3>. QED BY <3>1 DEF Ahead
  <2>2. active' = active /\ index' = 0 /\ removals' = 0
    BY <1>3 DEF TakeAlert
  <2>3. Passed' = {}
    BY <2>1, <2>2 DEF Passed
  <2>. QED BY <2>2, <2>3, FS_EmptySet
<1>4. CASE SendNext
  <2>1. /\ target = NoConn /\ target' = active[index + 1] /\ index' = index + 1
        /\ UNCHANGED <<audience, active, position, sent, dead, removals, consumer>>
        /\ index < Len(active)
    BY <1>4 DEF SendNext, history
  <2>2. Ahead(active, index + 1) = Ahead(active, index) \ {active[index + 1]}
    BY <2>1, <1>t, AheadNext
  <2>. QED BY <2>1, <2>2, <1>t, <1>f, <1>n DEF Passed
<1>5. CASE SendSucceeds
  <2>1. /\ target \in Conns /\ sent' = [sent EXCEPT ![target] = Append(@, position)]
        /\ UNCHANGED <<audience, active, position, index, dead, removals, consumer>>
        /\ target # NoConn /\ consumer = "broadcasting"
    BY <1>5, <1>t DEF SendSucceeds, RelayBase, TypeOK
  <2>2. position \in 1..MaxAlerts
    BY <2>1, <1>t DEF RelayBase, OffsetInv
  <2>3. Range(sent'[target]) = Range(sent[target]) \cup {position}
    <3>1. sent'[target] = Append(sent[target], position) /\ sent[target] \in Seq(1..MaxAlerts)
      BY <2>1, <1>t
    <3>. QED BY <3>1, <2>2, RangeAppend
  <2>4. \A c \in Conns : c # target => sent'[c] = sent[c]
    BY <2>1, <1>t
  <2>. QED BY <2>1, <2>3, <2>4, <1>f, <1>n DEF Passed
<1>6. CASE SendFails
  <2>1. /\ target \in Conns /\ dead' = Append(dead, target)
        /\ UNCHANGED <<audience, active, position, index, sent, removals, consumer>>
    BY <1>6, <1>t DEF SendFails, history
  <2>2. Range(dead') = Range(dead) \cup {target}
    BY <2>1, <1>t, RangeAppend
  <2>. QED BY <2>1, <2>2, <1>f, <1>n DEF Passed
<1>7. ASSUME NEW c \in Conns, Open(c) \/ ClientLeaves(c) \/ HandlerFails(c)
      PROVE  Cardinality(Passed') <= removals'
  <2>1. UNCHANGED <<audience, active, position, sent, dead, target, index, removals, consumer>>
    BY <1>7 DEF Open, ClientLeaves, HandlerFails, broadcastVars, history
  <2>. QED BY <2>1, <1>n DEF Passed
<1>8. ASSUME NEW c \in Conns, Connect(c)
      PROVE  Cardinality(Passed') <= removals'
  <2>1. /\ UNCHANGED <<audience, position, sent, dead, target, index, removals, consumer>>
        /\ active' = Append(active, c)
    BY <1>8 DEF Connect, broadcastVars, history
  <2>2. Range(active') = Range(active) \cup {c}
    BY <2>1, <1>t, RangeAppend
  <2>3. Ahead(active, index) \subseteq Ahead(active', index)
    BY <2>1, <1>t, AheadAppend
  <2>4. c \notin audience
    BY <1>8, <2>1 DEF Connect, MissInv, Broadcasting
  <2>. QED BY <2>1, <2>2, <2>3, <2>4, <1>n DEF Passed
<1>9. ASSUME NEW c \in Conns, HandlerDisconnects(c)
      PROVE  Cardinality(Passed') <= removals'
  <2>1. /\ UNCHANGED <<audience, position, sent, dead, target, index, consumer>>
        /\ active' = RemoveFirst(active, c)
        /\ removals' = IF Contains(active, c) THEN removals + 1 ELSE removals
        /\ consumer = "broadcasting"
    BY <1>9 DEF HandlerDisconnects, Disconnect, broadcastVars
  <2>2. CASE ~Contains(active, c)
    <3>1. active' = active /\ removals' = removals
      BY <2>1, <2>2, <1>t, RemoveFirstFacts
    <3>. QED BY <2>1, <3>1, <1>n DEF Passed
  <2>3. CASE Contains(active, c)
    <3>1. Range(active') = Range(active) \ {c}
      BY <2>1, <1>t, RemoveFromDistinct
    <3>x. PICK x : x = active[index + 1]
      OBVIOUS
    <3>2. Ahead(active, index) \subseteq Ahead(active', index) \cup {c, x}
      BY <2>1, <1>t, <3>x, AheadRemoved
    <3>3. Passed' \subseteq Passed \cup {x}
      BY <2>1, <3>1, <3>2 DEF Passed
    <3>4. /\ Cardinality(Passed') \in Nat /\ Cardinality(Passed) \in Nat
          /\ Cardinality(Passed') <= Cardinality(Passed) + 1
      BY <3>3, <1>f, OneMore
    <3>. QED BY <3>4, <2>1, <2>3, <1>m, <1>f
  <2>. QED BY <2>2, <2>3
<1>. QED BY <1>1, <1>2, <1>3, <1>4, <1>5, <1>6, <1>7, <1>8, <1>9, NextSteps DEF ConnStep

LEMMA MissInvariant == Spec => [](RelayBase /\ MissInv)
<1>1. Init => MissInv
  BY DEF Init, MissInv, Broadcasting
<1>2. RelayBase /\ MissInv /\ [Next]_vars => MissInv'
  BY AudienceStep, MissStep DEF MissInv
<1>. QED BY <1>1, <1>2, RelayBaseInvariant, PTL DEF Spec

(* The end of the loop: nobody is ahead and nobody is awaited. *)
LEMMA ReapMisses ==
    RelayBase /\ MissInv /\ ReapDead =>
        Cardinality({c \in audience \cap Range(active') : position \notin Range(sent[c])}) <= removals
<1>. SUFFICES ASSUME RelayBase, MissInv, ReapDead
              PROVE  Cardinality({c \in audience \cap Range(active') : position \notin Range(sent[c])})
                        <= removals
  OBVIOUS
<1>. DEFINE M == {c \in audience \cap Range(active') : position \notin Range(sent[c])}
<1>t. /\ index \in Nat /\ active \in Seq(Conns) /\ NoRepeats(active) /\ dead \in Seq(Conns)
  BY BaseParts
<1>1. /\ consumer = "broadcasting" /\ target = NoConn /\ index >= Len(active)
      /\ active' = FoldLeft(RemoveFirst, active, dead)
  BY DEF ReapDead, Broadcasting
<1>2. Range(active') = Range(active) \ Range(dead)
  BY <1>1, <1>t, FoldRemoves
<1>3. Ahead(active, index) = {}
  <2>1. Len(active) \in Nat
    BY <1>t, LenProperties
  <2>2. \A k \in index + 1..Len(active) : FALSE
    BY <2>1, <1>1, <1>t
  <2>. QED BY <2>2 DEF Ahead
<1>4. audience \subseteq Conns /\ removals \in Nat
  BY DEF RelayBase, TypeOK
<1>5. M \subseteq Passed
  BY <1>1, <1>2, <1>3, <1>4, RelayConstants DEF Passed
<1>6. IsFiniteSet(Passed) /\ Cardinality(Passed) <= removals
  <2>1. Passed \subseteq Conns
    BY <1>4 DEF Passed
  <2>. QED BY <2>1, <1>1, NoMore, RelayConstants DEF MissInv, Broadcasting
<1>. HIDE DEF M
<1>7. Cardinality(M) \in Nat /\ Cardinality(Passed) \in Nat /\ Cardinality(M) <= Cardinality(Passed)
  BY <1>5, <1>6, NoMore
<1>8. Cardinality(M) <= removals
  BY <1>4, <1>6, <1>7
<1>. QED BY <1>8 DEF M

(* A broadcast misses at most one of the members it began with for each    *)
(* one removed while it was suspended (utils.py:22-30).                    *)
THEOREM MissesAreRemovals == Spec => MissesNeedRemovals
<1>1. RelayBase /\ MissInv =>
        [ReapDead => Cardinality({c \in audience \cap Range(active') :
                                    position \notin Range(sent[c])}) <= removals]_vars
  BY ReapMisses
<1>. QED BY <1>1, MissInvariant, PTL DEF MissesNeedRemovals

-----------------------------------------------------------------------------
(* Alerts that are passed                                                  *)

Settled(k) == k \in relayed \cup missed

Running == consumer \in {"polling", "broadcasting"}

(* What the consumer has taken, and what it would not read again after a   *)
(* restart, is settled or is being broadcast.  The safety half of          *)
(* PublishedIsRelayed: an alert that is neither relayed nor missed is      *)
(* still in front of the consumer (consumers.py:19-33).                    *)
NonePassedOver ==
    /\ Running => \A k \in 1..position : Settled(k) \/ (Broadcasting /\ k = position)
    /\ \A n \in Range(committed) : \A k \in 1..n : Settled(k) \/ (Broadcasting /\ k = position)

(* A running consumer is at the committed offset or past it. *)
PassedInv ==
    /\ NonePassedOver
    /\ Running => \A n \in Range(committed) : n <= position

(* A committed offset is <<n>>, for one number n. *)
LEMMA CommittedOne ==
    ASSUME TypeOK
    PROVE  /\ Range(committed) \subseteq Nat
           /\ committed # <<>> => committed = <<committed[1]>> /\ Range(committed) = {committed[1]}
<1>1. committed \in Seq(0..MaxAlerts) /\ Len(committed) <= 1 /\ Len(committed) \in Nat
  BY LenProperties DEF TypeOK
<1>2. Range(committed) \subseteq 0..MaxAlerts /\ Range(committed) = {committed[i] : i \in 1..Len(committed)}
  BY <1>1, RangeType
<1>3. ASSUME committed # <<>> PROVE committed = <<committed[1]>> /\ Range(committed) = {committed[1]}
  <2>1. PICK length \in Nat \ {0} : length = Len(committed) /\ length <= 1
    BY <1>1, <1>3, EmptySeq
  <2>2. Len(committed) = 1
    BY <2>1
  <2>. QED BY <1>1, <1>2, <2>2
<1>. QED BY <1>2, <1>3, RelayConstants

LEMMA PassedStep == RelayBase /\ PassedInv /\ [Next]_vars => PassedInv'
<1>. SUFFICES ASSUME RelayBase, PassedInv, [Next]_vars
              PROVE  PassedInv'
  OBVIOUS
<1>. USE DEF PassedInv, NonePassedOver, Settled, Running, Broadcasting
<1>t. TypeOK /\ position \in Nat /\ consumer \in {"starting", "polling", "broadcasting", "dead"}
  BY RelayConstants DEF RelayBase, TypeOK
<1>c. /\ Range(committed) \subseteq Nat
      /\ committed # <<>> => committed = <<committed[1]>> /\ Range(committed) = {committed[1]}
  BY <1>t, CommittedOne
<1>1. CASE PublishAlert
  BY <1>1 DEF PublishAlert, history
<1>2. CASE \E c \in Conns : ConnStep(c)
  BY <1>2 DEF ConnStep, Open, Connect, ClientLeaves, HandlerDisconnects, HandlerFails,
        kafkaVars, history
<1>3. CASE ConsumerStarts
  <2>. USE <1>3 DEF ConsumerStarts, kafkaVars
  <2>1. CASE committed = <<>>
    <3>1. Range(committed') = {}
      BY <2>1, RangeEmpty
    <3>2. \A k \in 1..position' : k \in relayed' \cup missed'
      BY <2>1
    <3>. QED BY <3>1, <3>2
  <2>2. CASE committed # <<>>
    <3>1. Range(committed') = {position'} /\ Range(committed) = {position'} /\ position' \in Nat
      BY <2>2, <1>c
    <3>2. relayed' = relayed /\ missed' = missed /\ consumer = "starting"
      BY <2>2
    <3>3. \A k \in 1..position' : k \in relayed' \cup missed'
      BY <3>1, <3>2
    <3>. QED BY <3>1, <3>3
  <2>. QED BY <2>1, <2>2
<1>4. CASE TakeAlert
  <2>1. /\ position' = position + 1 /\ consumer = "polling" /\ consumer' = "broadcasting"
        /\ UNCHANGED <<committed, relayed, missed>>
    BY <1>4 DEF TakeAlert, kafkaVars
  <2>2. \A k \in 1..position' : k = position' \/ k \in 1..position
    BY <2>1, <1>t
  <2>3. \A n \in Range(committed) : n \in Nat /\ n <= position
    BY <2>1, <1>c
  <2>. QED BY <2>1, <2>2, <2>3, <1>t
<1>5. CASE ConsumerDies \/ SendNext \/ SendSucceeds \/ SendFails
  <2>1. /\ UNCHANGED <<committed, position, relayed, missed>>
        /\ consumer' = consumer \/ (consumer \in {"starting", "polling"} /\ consumer' = "dead")
    BY <1>5 DEF ConsumerDies, SendNext, SendSucceeds, SendFails, kafkaVars, history
  <2>. QED BY <2>1
<1>6. CASE ReapDead
  <2>1. /\ consumer = "broadcasting" /\ consumer' = "polling" /\ relayed' = relayed \cup {position}
        /\ UNCHANGED <<committed, position, missed>>
    BY <1>6 DEF ReapDead, kafkaVars
  <2>. QED BY <2>1
<1>7. CASE AutoCommit
  <2>1. /\ committed' = <<position>> /\ consumer \in {"polling", "broadcasting"}
        /\ UNCHANGED <<position, consumer, relayed, missed>>
    BY <1>7 DEF AutoCommit, history
  <2>2. Range(committed') = {position}
    BY <2>1 DEF Range
  <2>. QED BY <2>1, <2>2, <1>t
<1>8. CASE Restart
  <2>1. /\ consumer' = "starting" /\ UNCHANGED <<committed, position, relayed>>
        /\ missed' = IF Broadcasting /\ committed = <<position>> THEN missed \cup {position} ELSE missed
    BY <1>8 DEF Restart, kafkaVars
  <2>2. ASSUME NEW n \in Range(committed), NEW k \in 1..n
        PROVE  k \in relayed' \cup missed'
    <3>1. CASE k \in relayed \cup missed
      BY <2>1, <3>1
    <3>2. CASE k \notin relayed \cup missed
      <4>1. Broadcasting /\ k = position /\ n <= position /\ n \in Nat
        BY <3>2, <2>2, <1>c
      <4>2. n = position
        BY <4>1, <2>2, <1>t
      <4>3. committed # <<>>
        BY <2>2, RangeEmpty
      <4>4. committed = <<position>>
        BY <4>2, <4>3, <2>2, <1>c
      <4>. QED BY <2>1, <4>1, <4>4
    <3>. QED BY <3>1, <3>2
  <2>. QED BY <2>1, <2>2
<1>9. CASE UNCHANGED vars
  BY <1>9 DEF vars, kafkaVars, history
<1>. QED BY <1>1, <1>2, <1>3, <1>4, <1>5, <1>6, <1>7, <1>8, <1>9, NextSteps

(* No alert is passed over: one that is behind the consumer, or behind the *)
(* offset it would start from, was broadcast to the end of active, or is   *)
(* now, or was skipped at a first start or cut by a restart after its      *)
(* offset had been committed (consumers.py:12-33).                         *)
THEOREM NothingPassedOver == Spec => []NonePassedOver
<1>1. Init => PassedInv
  BY RangeEmpty DEF Init, PassedInv, NonePassedOver, Running
<1>2. PassedInv => NonePassedOver
  BY DEF PassedInv
<1>. QED BY <1>1, <1>2, PassedStep, RelayBaseInvariant, PTL DEF Spec
=============================================================================
