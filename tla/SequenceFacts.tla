--------------------------- MODULE SequenceFacts ---------------------------
(***************************************************************************)
(* What Append, Tail and SubSeq do to the set of elements of a sequence:   *)
(* the queues of the models are only looked at through their elements.     *)
(* And what a last element needs: numbers up to a bound have a largest.    *)
(***************************************************************************)
EXTENDS Integers, Sequences, Functions, SequenceTheorems,
        WellFoundedInduction, TLAPS

(* Append adds its element. *)
LEMMA RangeOfAppend ==
  ASSUME NEW S, NEW s \in Seq(S), NEW e \in S
  PROVE  /\ Append(s, e) \in Seq(S)
         /\ Range(Append(s, e)) = Range(s) \cup {e}
<1>1. /\ Append(s, e) \in Seq(S)
      /\ Len(Append(s, e)) = Len(s) + 1
      /\ \A i \in 1..Len(s) : Append(s, e)[i] = s[i]
      /\ Append(s, e)[Len(s) + 1] = e
  BY AppendProperties
<1>2. Range(s) = {s[i] : i \in 1..Len(s)}
  BY RangeEquality
<1>3. Range(Append(s, e)) = {Append(s, e)[i] : i \in 1..Len(s) + 1}
  BY <1>1, RangeEquality
<1>4. Len(s) \in Nat /\ 1..Len(s) + 1 = 1..Len(s) \cup {Len(s) + 1}
  BY LenProperties
<1> QED
  BY <1>1, <1>2, <1>3, <1>4

(* Taking the head leaves elements that were there. *)
LEMMA RangeOfTail ==
  ASSUME NEW S, NEW s \in Seq(S), s # <<>>
  PROVE  /\ Tail(s) \in Seq(S)
         /\ Head(s) \in Range(s)
         /\ Range(Tail(s)) \subseteq Range(s)
<1>1. /\ Tail(s) \in Seq(S)
      /\ Len(Tail(s)) = Len(s) - 1
      /\ \A i \in 1..Len(Tail(s)) : Tail(s)[i] = s[i + 1]
  BY HeadTailProperties
<1>2. Len(s) \in Nat \ {0}
  BY EmptySeq
<1>3. Range(s) = {s[i] : i \in 1..Len(s)}
  BY RangeEquality
<1>4. Range(Tail(s)) = {Tail(s)[i] : i \in 1..Len(s) - 1}
  BY <1>1, RangeEquality
<1>5. Head(s) = s[1]
  OBVIOUS
<1>6. ASSUME NEW i \in 1..Len(s) - 1
      PROVE  Tail(s)[i] \in Range(s)
  <2>1. i + 1 \in 1..Len(s) /\ i \in 1..Len(Tail(s))
    BY <1>1, <1>2
  <2> QED BY <2>1, <1>1, <1>3
<1> QED
  BY <1>1, <1>2, <1>3, <1>4, <1>5, <1>6

(* A part of a sequence has elements of the sequence. *)
LEMMA RangeOfSubSeq ==
  ASSUME NEW S, NEW s \in Seq(S), NEW m \in 1..Len(s) + 1, NEW n \in 0..Len(s)
  PROVE  /\ SubSeq(s, m, n) \in Seq(S)
         /\ Range(SubSeq(s, m, n)) \subseteq Range(s)
<1>1. Len(s) \in Nat /\ Range(s) = {s[i] : i \in 1..Len(s)}
  BY LenProperties, RangeEquality
<1>2. \A i \in m..n : s[i] \in Range(s)
  BY <1>1
<1>3. SubSeq(s, m, n) \in Seq(Range(s))
  BY <1>2, <1>1, SubSeqProperties
<1>4. Range(s) \subseteq S
  BY RangeOfSeq
<1> QED
  BY <1>3, <1>4, SeqMonotonic, RangeOfSeq

LEMMA RangeOfEmpty == Range(<<>>) = {}
BY DEF Range

(* A sequence holds its head and its tail. *)
LEMMA RangeOfHeadTail ==
  ASSUME NEW S, NEW s \in Seq(S), s # <<>>
  PROVE  Range(s) = {Head(s)} \cup Range(Tail(s))
<1>1. /\ Tail(s) \in Seq(S)
      /\ Len(Tail(s)) = Len(s) - 1
      /\ \A i \in 1..Len(Tail(s)) : Tail(s)[i] = s[i + 1]
  BY HeadTailProperties
<1>2. Len(s) \in Nat \ {0} /\ Head(s) = s[1]
  BY EmptySeq
<1>3. Range(s) = {s[i] : i \in 1..Len(s)}
  BY RangeEquality
<1>4. Range(Tail(s)) = {Tail(s)[i] : i \in 1..Len(s) - 1}
  BY <1>1, RangeEquality
<1>5. ASSUME NEW i \in 1..Len(s)
      PROVE  s[i] \in {Head(s)} \cup Range(Tail(s))
  <2>1. CASE i = 1
    BY <2>1, <1>2
  <2>2. CASE i # 1
    <3>1. i - 1 \in 1..Len(s) - 1 /\ Tail(s)[i - 1] = s[i]
      BY <2>2, <1>1, <1>2
    <3> QED BY <3>1, <1>4
  <2> QED BY <2>1, <2>2
<1> QED
  BY <1>3, <1>5, RangeOfTail

(* A sequence cut in two holds what its parts hold. *)
LEMMA RangeOfParts ==
  ASSUME NEW S, NEW s \in Seq(S), NEW k \in 0..Len(s)
  PROVE  Range(s) \subseteq Range(SubSeq(s, 1, k))
                              \cup Range(SubSeq(s, k + 1, Len(s)))
<1>1. Len(s) \in Nat /\ Range(s) = {s[i] : i \in 1..Len(s)}
  BY LenProperties, RangeEquality
<1>2. \A i \in 1..Len(s) : s[i] \in Range(s)
  BY <1>1
<1>3. /\ SubSeq(s, 1, k) \in Seq(Range(s))
      /\ Len(SubSeq(s, 1, k)) = k
      /\ \A i \in 1..k : SubSeq(s, 1, k)[i] = s[i]
  BY <1>1, <1>2, SubSeqProperties
<1>4. /\ SubSeq(s, k + 1, Len(s)) \in Seq(Range(s))
      /\ Len(SubSeq(s, k + 1, Len(s))) = Len(s) - k
      /\ \A i \in 1..Len(s) - k : SubSeq(s, k + 1, Len(s))[i] = s[k + i]
  BY <1>1, <1>2, SubSeqProperties
<1>5. ASSUME NEW i \in 1..Len(s)
      PROVE  s[i] \in Range(SubSeq(s, 1, k))
                        \cup Range(SubSeq(s, k + 1, Len(s)))
  <2>1. CASE i <= k
    <3>1. i \in 1..k BY <2>1, <1>1
    <3> QED BY <3>1, <1>3, RangeEquality
  <2>2. CASE i > k
    <3>1. i - k \in 1..Len(s) - k /\ k + (i - k) = i BY <2>2, <1>1
    <3>2. SubSeq(s, k + 1, Len(s))[i - k] = s[i] BY <3>1, <1>4
    <3> QED BY <3>1, <3>2, <1>4, RangeEquality, ZenonT(60)
  <2> QED BY <2>1, <2>2, <1>1
<1> QED
  BY <1>1, <1>5

(* Numbers up to n have a largest: the distance from n has a smallest, by  *)
(* the well-foundedness of <.                                              *)
LEMMA LargestExists ==
  ASSUME NEW n \in Nat, NEW A \in SUBSET (0..n), A # {}
  PROVE  \E x \in A : \A y \in A : y <= x
<1> DEFINE R == {ss \in Nat \X Nat : ss[1] < ss[2]}
           T == {n - x : x \in A}
<1>1. OpToRel(<, Nat) = R
  BY DEF OpToRel
<1>2. IsWellFoundedOn(R, Nat)
  BY <1>1, NatLessThanWellFounded
<1>3. T \subseteq Nat /\ T # {}
  <2>1. \A x \in A : n - x \in Nat
    OBVIOUS
  <2>2. PICK x \in A : TRUE
    OBVIOUS
  <2>3. n - x \in T
    BY <2>2
  <2> QED
    BY <2>1, <2>3
<1> HIDE DEF R
<1>4. PICK t \in T : \A u \in T : ~(<<u, t>> \in R)
  BY <1>2, <1>3, WFMin
<1>5. PICK x \in A : t = n - x
  BY <1>4
<1>6. ASSUME NEW y \in A
      PROVE  y <= x
  <2>1. ~(<<n - y, t>> \in R)
    BY <1>4
  <2>2. n - y \in Nat /\ t \in Nat
    OBVIOUS
  <2>3. ~(n - y < t)
    BY <2>1, <2>2 DEF R
  <2> QED
    BY <1>5, <2>2, <2>3
<1> QED
  BY <1>6
=============================================================================
