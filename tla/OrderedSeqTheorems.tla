------------------------- MODULE OrderedSeqTheorems -------------------------
(***************************************************************************)
(* Facts about OrderedSeqs that the proofs about the queue and about its   *)
(* consumers rest on.                                                      *)
(***************************************************************************)
EXTENDS OrderedSeqs, FiniteSetTheorems, SequenceTheorems, TLAPS

-----------------------------------------------------------------------------
(* Sequences: what Append, Tail, SubSeq and \o do to the elements and to   *)
(* their order.                                                            *)

\* The elements of a lengthened sequence.
LEMMA ElementsAppend ==
    ASSUME NEW S, NEW s \in Seq(S), NEW x \in S
    PROVE  Elements(Append(s, x)) = Elements(s) \cup {x}
BY DEF Elements

\* A non-empty sequence consists of its head and the elements of its tail.
LEMMA ElementsHeadTail ==
    ASSUME NEW S, NEW s \in Seq(S), s # <<>>
    PROVE  /\ Elements(s) = {Head(s)} \cup Elements(Tail(s))
           /\ Head(s) \in S
           /\ Tail(s) \in Seq(S)
           /\ Len(Tail(s)) = Len(s) - 1
<1>1. /\ Len(s) \in Nat \ {0}
      /\ Len(Tail(s)) = Len(s) - 1
      /\ Tail(s) \in Seq(S)
      /\ Head(s) = s[1]
      /\ Head(s) \in S
      /\ \A i \in 1..(Len(s) - 1) : Tail(s)[i] = s[i + 1]
  OBVIOUS
<1>2. ASSUME NEW i \in 1..Len(s)
      PROVE  s[i] \in {Head(s)} \cup Elements(Tail(s))
  <2>1. CASE i = 1
    BY <1>1, <2>1
  <2>2. CASE i # 1
    <3>1. i - 1 \in 1..Len(Tail(s)) /\ s[i] = Tail(s)[i - 1]
      BY <1>1, <2>2
    <3>2. QED BY <3>1 DEF Elements
  <2>3. QED BY <2>1, <2>2
<1>3. ASSUME NEW i \in 1..Len(Tail(s))
      PROVE  Tail(s)[i] \in Elements(s)
  <2>1. i + 1 \in 1..Len(s) /\ Tail(s)[i] = s[i + 1]
    BY <1>1
  <2>2. QED BY <2>1 DEF Elements
<1>4. Head(s) \in Elements(s)
  BY <1>1 DEF Elements
<1>5. QED BY <1>1, <1>2, <1>3, <1>4 DEF Elements

\* The elements of a concatenation.
LEMMA ElementsConcat ==
    ASSUME NEW S, NEW s \in Seq(S), NEW t \in Seq(S)
    PROVE  Elements(s \o t) = Elements(s) \cup Elements(t)
<1>1. /\ s \o t \in Seq(S)
      /\ Len(s \o t) = Len(s) + Len(t)
      /\ Len(s) \in Nat /\ Len(t) \in Nat
      /\ \A i \in 1..(Len(s) + Len(t)) :
            (s \o t)[i] = IF i <= Len(s) THEN s[i] ELSE t[i - Len(s)]
  OBVIOUS
<1>2. ASSUME NEW i \in 1..Len(s \o t)
      PROVE  (s \o t)[i] \in Elements(s) \cup Elements(t)
  <2>1. CASE i <= Len(s)
    BY <1>1, <2>1 DEF Elements
  <2>2. CASE i > Len(s)
    <3>1. i - Len(s) \in 1..Len(t) /\ (s \o t)[i] = t[i - Len(s)]
      BY <1>1, <2>2
    <3>2. QED BY <3>1 DEF Elements
  <2>3. QED BY <1>1, <2>1, <2>2
<1>3. ASSUME NEW i \in 1..Len(s)
      PROVE  s[i] \in Elements(s \o t)
  <2>1. i \in 1..Len(s \o t) /\ (s \o t)[i] = s[i]
    BY <1>1
  <2>2. QED BY <2>1 DEF Elements
<1>4. ASSUME NEW i \in 1..Len(t)
      PROVE  t[i] \in Elements(s \o t)
  <2>1. i + Len(s) \in 1..Len(s \o t) /\ (s \o t)[i + Len(s)] = t[i]
    BY <1>1
  <2>2. QED BY <2>1 DEF Elements
<1>5. QED BY <1>2, <1>3, <1>4 DEF Elements

\* A concatenation is increasing when its parts are and the first part
\* precedes the second.
LEMMA IncreasingConcat ==
    ASSUME NEW S, NEW s \in Seq(S), NEW t \in Seq(S),
           Increasing(s), Increasing(t), Precedes(Elements(s), Elements(t))
    PROVE  Increasing(s \o t)
<1>1. /\ Len(s \o t) = Len(s) + Len(t)
      /\ Len(s) \in Nat /\ Len(t) \in Nat
      /\ \A i \in 1..(Len(s) + Len(t)) :
            (s \o t)[i] = IF i <= Len(s) THEN s[i] ELSE t[i - Len(s)]
  OBVIOUS
<1>2. ASSUME NEW i \in 1..Len(s \o t), NEW j \in 1..Len(s \o t), i < j
      PROVE  (s \o t)[i] < (s \o t)[j]
  <2>1. CASE j <= Len(s)
    BY <1>1, <1>2, <2>1 DEF Increasing
  <2>2. CASE i <= Len(s) /\ j > Len(s)
    <3>1. i \in 1..Len(s) /\ j - Len(s) \in 1..Len(t)
      BY <1>1, <1>2, <2>2
    <3>2. (s \o t)[i] = s[i] /\ (s \o t)[j] = t[j - Len(s)]
      BY <1>1, <1>2, <2>2
    <3>3. QED BY <3>1, <3>2 DEF Precedes, Elements
  <2>3. CASE i > Len(s)
    <3>1. i - Len(s) \in 1..Len(t) /\ j - Len(s) \in 1..Len(t)
          /\ i - Len(s) < j - Len(s)
      BY <1>1, <1>2, <2>3
    <3>2. (s \o t)[i] = t[i - Len(s)] /\ (s \o t)[j] = t[j - Len(s)]
      BY <1>1, <1>2, <2>3
    <3>3. QED BY <3>1, <3>2 DEF Increasing
  <2>4. QED BY <1>1, <2>1, <2>2, <2>3
<1>3. QED BY <1>2 DEF Increasing

\* Appending a larger number keeps a sequence increasing.
LEMMA IncreasingAppend ==
    ASSUME NEW S, NEW s \in Seq(S), NEW x \in S, Increasing(s),
           \A y \in Elements(s) : y < x
    PROVE  Increasing(Append(s, x))
<1>1. /\ Len(Append(s, x)) = Len(s) + 1
      /\ Len(s) \in Nat
      /\ \A i \in 1..Len(s) : Append(s, x)[i] = s[i]
      /\ Append(s, x)[Len(s) + 1] = x
  OBVIOUS
<1>2. ASSUME NEW i \in 1..Len(Append(s, x)), NEW j \in 1..Len(Append(s, x)), i < j
      PROVE  Append(s, x)[i] < Append(s, x)[j]
  <2>1. CASE j <= Len(s)
    BY <1>1, <1>2, <2>1 DEF Increasing
  <2>2. CASE j = Len(s) + 1
    <3>1. i \in 1..Len(s)
      BY <1>1, <1>2, <2>2
    <3>2. QED BY <1>1, <2>2, <3>1 DEF Elements
  <2>3. QED BY <1>1, <2>1, <2>2
<1>3. QED BY <1>2 DEF Increasing

\* The tail of an increasing sequence is increasing and above its head.
LEMMA IncreasingTail ==
    ASSUME NEW S, NEW s \in Seq(S), s # <<>>, Increasing(s)
    PROVE  /\ Increasing(Tail(s))
           /\ \A y \in Elements(Tail(s)) : Head(s) < y
<1>1. /\ Len(s) \in Nat \ {0}
      /\ Len(Tail(s)) = Len(s) - 1
      /\ Head(s) = s[1]
      /\ \A i \in 1..(Len(s) - 1) : Tail(s)[i] = s[i + 1]
  OBVIOUS
<1>2. QED BY <1>1 DEF Increasing, Elements

\* What SubSeq keeps of an increasing sequence.
LEMMA SubSeqFacts ==
    ASSUME NEW S, NEW s \in Seq(S),
           NEW a \in 1..(Len(s) + 1), NEW b \in (a - 1)..Len(s)
    PROVE  /\ SubSeq(s, a, b) \in Seq(S)
           /\ Elements(SubSeq(s, a, b)) \subseteq Elements(s)
           /\ Increasing(s) => Increasing(SubSeq(s, a, b))
<1>1. /\ Len(s) \in Nat /\ a \in Nat /\ b \in Int
      /\ SubSeq(s, a, b) \in Seq(S)
      /\ Len(SubSeq(s, a, b)) = b - a + 1
      /\ \A i \in 1..(b - a + 1) : SubSeq(s, a, b)[i] = s[a + i - 1]
  OBVIOUS
<1>2. \A i \in 1..(b - a + 1) : a + i - 1 \in 1..Len(s)
  BY <1>1
<1>3. QED BY <1>1, <1>2 DEF Elements, Increasing

\* A sequence has at most as many elements as its length.
LEMMA ElementsCardinality ==
    ASSUME NEW S, NEW s \in Seq(S)
    PROVE  IsFiniteSet(Elements(s)) /\ Cardinality(Elements(s)) <= Len(s)
<1>1. Len(s) \in Nat
  OBVIOUS
<1>2. IsFiniteSet(1..Len(s)) /\ Cardinality(1..Len(s)) = Len(s)
  BY <1>1, FS_Interval
<1>3. [i \in 1..Len(s) |-> s[i]] \in Surjection(1..Len(s), Elements(s))
  BY DEF Elements, Surjection
<1>4. QED BY <1>2, <1>3, FS_Surjection

\* Appending a number that is at least as large keeps a sequence sorted.
LEMMA NonDecreasingAppend ==
    ASSUME NEW S \in SUBSET Int, NEW s \in Seq(S), NEW x \in S, NonDecreasing(s),
           \A y \in Elements(s) : y <= x
    PROVE  NonDecreasing(Append(s, x))
<1>1. /\ Len(Append(s, x)) = Len(s) + 1
      /\ Len(s) \in Nat
      /\ \A i \in 1..Len(s) : Append(s, x)[i] = s[i]
      /\ Append(s, x)[Len(s) + 1] = x
  OBVIOUS
<1>2. ASSUME NEW i \in 1..Len(Append(s, x)), NEW j \in 1..Len(Append(s, x)), i < j
      PROVE  Append(s, x)[i] <= Append(s, x)[j]
  <2>1. CASE j <= Len(s)
    BY <1>1, <1>2, <2>1 DEF NonDecreasing
  <2>2. CASE j = Len(s) + 1
    <3>1. i \in 1..Len(s)
      BY <1>1, <1>2, <2>2
    <3>2. QED BY <1>1, <2>2, <3>1 DEF Elements
  <2>3. QED BY <1>1, <2>1, <2>2
<1>3. QED BY <1>2 DEF NonDecreasing

\* Moving the front of the second part behind the first changes nothing.
LEMMA MoveFront ==
    ASSUME NEW S, NEW s \in Seq(S), NEW t \in Seq(S), t # <<>>
    PROVE  Append(s, Head(t)) \o Tail(t) = s \o t
<1>1. Head(t) \in S /\ Tail(t) \in Seq(S) /\ Head(t) = t[1] /\ <<Head(t)>> \in Seq(S)
      /\ Len(t) \in Nat \ {0}
  BY HeadTailProperties
<1>2. t = SubSeq(t, 1, Len(t)) /\ Tail(t) = SubSeq(t, 2, Len(t))
  BY SubSeqFull, TailIsSubSeq
<1>3. SubSeq(t, 1, Len(t)) = <<t[1]>> \o SubSeq(t, 2, Len(t))
  <2>1. 1 \in 1..Len(t) /\ Len(t) \in 1..Len(t) /\ 1 + 1 = 2
    BY <1>1
  <2>2. QED BY <2>1, SubSeqRecursiveFirst
<1>4. t = <<Head(t)>> \o Tail(t)
  BY <1>1, <1>2, <1>3
<1>5. Append(s, Head(t)) = s \o <<Head(t)>>
  BY <1>1, AppendIsConcat
<1>6. (s \o <<Head(t)>>) \o Tail(t) = s \o (<<Head(t)>> \o Tail(t))
  BY <1>1, ConcatAssociative
<1>7. QED BY <1>4, <1>5, <1>6

-----------------------------------------------------------------------------
(* How often a sequence repeats what it has already.                       *)

\* Appending a number counts if the sequence has it.
LEMMA RepeatsAppend ==
    ASSUME NEW S, NEW s \in Seq(S), NEW x \in S
    PROVE  Repeats(Append(s, x)) = Repeats(s) + (IF x \in Elements(s) THEN 1 ELSE 0)
<1>1. Len(Append(s, x)) = Len(s) + 1 /\ Len(s) \in Nat
  BY AppendProperties, LenProperties
<1>2. Elements(Append(s, x)) = Elements(s) \cup {x}
  BY ElementsAppend
<1>3. IsFiniteSet(Elements(s)) /\ Cardinality(Elements(s)) \in Nat
  BY ElementsCardinality, FS_CardinalityType
<1>4. Cardinality(Elements(s) \cup {x}) =
         IF x \in Elements(s) THEN Cardinality(Elements(s)) ELSE Cardinality(Elements(s)) + 1
  BY <1>3, FS_AddElement
<1>5. QED BY <1>1, <1>2, <1>3, <1>4 DEF Repeats

\* The beginning of a sequence repeats no more than the whole.
LEMMA RepeatsPrefix ==
    ASSUME NEW S, NEW s \in Seq(S), NEW t \in Seq(S)
    PROVE  Repeats(s) <= Repeats(s \o t)
<1>1. Len(s \o t) = Len(s) + Len(t) /\ Len(s) \in Nat /\ Len(t) \in Nat
  BY ConcatProperties, LenProperties
<1>2. Elements(s \o t) = Elements(s) \cup Elements(t)
  BY ElementsConcat
<1>3. /\ IsFiniteSet(Elements(s)) /\ IsFiniteSet(Elements(t))
      /\ Cardinality(Elements(s)) \in Nat /\ Cardinality(Elements(t)) \in Nat
      /\ Cardinality(Elements(t)) <= Len(t)
  BY ElementsCardinality, FS_CardinalityType
<1>4. /\ Cardinality(Elements(s) \cup Elements(t)) \in Nat
      /\ Cardinality(Elements(s) \cup Elements(t)) <= Cardinality(Elements(s)) + Cardinality(Elements(t))
  <2>1. IsFiniteSet(Elements(s) \cup Elements(t))
    BY <1>3, FS_Union
  <2>2. /\ Cardinality(Elements(s) \cup Elements(t)) =
              Cardinality(Elements(s)) + Cardinality(Elements(t))
                - Cardinality(Elements(s) \cap Elements(t))
        /\ IsFiniteSet(Elements(s) \cap Elements(t))
    BY <1>3, FS_Union, FS_Intersection
  <2>3. Cardinality(Elements(s) \cap Elements(t)) \in Nat
    BY <2>2, FS_CardinalityType
  <2>4. QED BY <1>3, <2>1, <2>2, <2>3, FS_CardinalityType
<1>5. QED BY <1>1, <1>2, <1>3, <1>4 DEF Repeats
=============================================================================
