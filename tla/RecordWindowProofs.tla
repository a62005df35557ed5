--------------------------- MODULE RecordWindowProofs --------------------------
(***************************************************************************)
(* What holds of the byte window whichever calls are made of it, and the   *)
(* lemmas about record ends, frame ends and runs that this rests on.       *)
(***************************************************************************)
EXTENDS RecordWindow, SequenceTheorems, FiniteSetTheorems, WellFoundedInduction, TLAPS

\* Sets of numbers have a least one, and bounded ones a greatest.
LEMMA LeastOf ==
  ASSUME NEW S \in SUBSET Nat, S # {}
  PROVE  \E x \in S : \A y \in S : x <= y
<1>1. PICK x \in S : \A y \in S : ~(<<y, x>> \in OpToRel(<, Nat))
  BY WFMin, NatLessThanWellFounded
<1>2. \A y \in S : ~(y < x)
  BY <1>1 DEF OpToRel
<1> QED
  BY <1>2

LEMMA GreatestOf ==
  ASSUME NEW S \in SUBSET Nat, S # {}, NEW n \in Nat, \A x \in S : x <= n
  PROVE  \E x \in S : \A y \in S : y <= x
<1> DEFINE T == {m \in Nat : \A y \in S : y <= m}
<1>1. T \in SUBSET Nat /\ n \in T
  OBVIOUS
<1>2. PICK m \in T : \A k \in T : m <= k
  BY <1>1, LeastOf
<1>3. m \in S
  <2> SUFFICES ASSUME m \notin S PROVE FALSE
    OBVIOUS
  <2>1. PICK y \in S : TRUE
    OBVIOUS
  <2>2. m \in Nat /\ m # 0
    BY <1>2, <2>1
  <2>3. m - 1 \in T
    BY <1>2, <2>2
  <2> QED
    BY <1>2, <2>2, <2>3
<1> QED
  BY <1>2, <1>3

LEMMA MinIs ==
  ASSUME NEW S \in SUBSET Nat, S # {}
  PROVE  Min(S) \in S /\ \A y \in S : Min(S) <= y
<1>1. \E x \in S : \A y \in S : x <= y
  BY LeastOf
<1> QED
  BY <1>1 DEF Min

LEMMA MaxIs ==
  ASSUME NEW S \in SUBSET Nat, S # {}, NEW n \in Nat, \A x \in S : x <= n
  PROVE  Max(S) \in S /\ \A y \in S : y <= Max(S)
<1>1. \E x \in S : \A y \in S : x >= y
  BY GreatestOf
<1>2. Max(S) \in S /\ \A y \in S : Max(S) >= y
  BY <1>1 DEF Max
<1> QED
  BY <1>2

\* Those of a bounded set of numbers that are no larger than m.
Upto(S, m) == {x \in S : x <= m}

LEMMA UptoHas ==
  ASSUME NEW S \in SUBSET Nat, NEW m
  PROVE  /\ \A x \in S : x \in Nat
         /\ \A x : x \in Upto(S, m) <=> x \in S /\ x <= m
BY DEF Upto

LEMMA UptoIs ==
  ASSUME NEW S \in SUBSET Nat, NEW n \in Nat, \A x \in S : x <= n, NEW m \in Nat
  PROVE  /\ IsFiniteSet(S) /\ Cardinality(S) \in Nat
         /\ IsFiniteSet(Upto(S, m)) /\ Cardinality(Upto(S, m)) \in Nat
         /\ Cardinality(Upto(S, m)) <= Cardinality(S)
         /\ \A k \in Nat : k <= m => /\ Cardinality(Upto(S, k)) <= Cardinality(Upto(S, m))
                                     /\ Cardinality(Upto(S, k)) = Cardinality(Upto(S, m))
                                          => Upto(S, k) = Upto(S, m)
<1>1. IsFiniteSet(S)
  BY FS_BoundedSetOfNaturals
<1>2. Upto(S, m) \in SUBSET S /\ \A k \in Nat : k <= m => Upto(S, k) \in SUBSET Upto(S, m)
  <2>1. Upto(S, m) \in SUBSET S
    BY DEF Upto
  <2>2. ASSUME NEW k \in Nat, k <= m, NEW x \in Upto(S, k) PROVE x \in Upto(S, m)
    <3>1. x \in S /\ x \in Nat /\ x <= k
      BY UptoHas
    <3>2. x <= m
      BY <2>2, <3>1
    <3> QED
      BY <3>1, <3>2, UptoHas
  <2> QED
    BY <2>1, <2>2
<1>3. IsFiniteSet(Upto(S, m)) /\ Cardinality(Upto(S, m)) <= Cardinality(S)
  BY <1>1, <1>2, FS_Subset
<1>4. Cardinality(S) \in Nat /\ Cardinality(Upto(S, m)) \in Nat
  BY <1>1, <1>3, FS_CardinalityType
<1>5. \A k \in Nat : k <= m => /\ Cardinality(Upto(S, k)) <= Cardinality(Upto(S, m))
                               /\ Cardinality(Upto(S, k)) = Cardinality(Upto(S, m))
                                    => Upto(S, k) = Upto(S, m)
  BY <1>2, <1>3, FS_Subset
<1> QED
  BY <1>1, <1>3, <1>4, <1>5

\* The n-th of them is one of them, and n of them are no larger.
LEMMA NthIs ==
  ASSUME NEW S \in SUBSET Nat, NEW n \in Nat, \A x \in S : x <= n,
         NEW k \in 1 .. Cardinality(S)
  PROVE  Nth(S, k) \in S /\ Cardinality(Upto(S, Nth(S, k))) = k
<1>1. /\ Cardinality(S) \in Nat
      /\ \A m \in Nat : IsFiniteSet(Upto(S, m)) /\ Cardinality(Upto(S, m)) \in Nat
  BY UptoIs
<1> DEFINE Large == {m \in Nat : Cardinality(Upto(S, m)) >= k}
<1>2. n \in Large
  <2>1. Upto(S, n) = S
    BY DEF Upto
  <2> QED
    BY <1>1, <2>1
<1>3. PICK m \in Large : \A j \in Large : m <= j
  <2>1. Large \in SUBSET Nat /\ Large # {}
    BY <1>2
  <2> HIDE DEF Large
  <2> QED
    BY <2>1, LeastOf
<1>4. m \in Nat /\ Cardinality(Upto(S, m)) >= k /\ k \in Nat /\ k >= 1
  BY <1>1, <1>3
<1>5. m # 0 => m - 1 \in Nat /\ Cardinality(Upto(S, m - 1)) < k
  <2> SUFFICES ASSUME m # 0 PROVE m - 1 \in Nat /\ Cardinality(Upto(S, m - 1)) < k
    OBVIOUS
  <2>1. m - 1 \in Nat /\ ~(m <= m - 1)
    BY <1>4
  <2>2. m - 1 \notin Large
    BY <1>3, <2>1
  <2>3. Cardinality(Upto(S, m - 1)) \in Nat
    BY <1>1, <2>1
  <2> QED
    BY <1>4, <2>1, <2>2, <2>3
<1>6. m \in S
  <2> SUFFICES ASSUME m \notin S PROVE FALSE
    OBVIOUS
  <2>1. CASE m = 0
    <3>1. \A x : x \notin Upto(S, m)
      <4>1. \A x \in S : ~(x <= m)
        BY <2>1
      <4> QED
        BY <4>1, UptoHas
    <3>2. Upto(S, m) = {}
      BY <3>1
    <3> QED
      BY <1>4, <3>2, FS_EmptySet
  <2>2. CASE m # 0
    <3>1. Upto(S, m) = Upto(S, m - 1)
      <4>1. \A x \in S : x <= m <=> x <= m - 1
        BY <1>4, <2>2
      <4>2. \A x : x \in Upto(S, m) <=> x \in Upto(S, m - 1)
        BY <4>1, UptoHas
      <4> QED
        BY <4>2
    <3> QED
      BY <1>1, <1>4, <1>5, <2>2, <3>1
  <2> QED
    BY <2>1, <2>2
<1>7. Cardinality(Upto(S, m)) = k
  <2>1. CASE m = 0
    <3>1. Upto(S, m) = {0}
      <4>1. \A x \in S : x <= m <=> x = 0
        BY <2>1
      <4>2. 0 \in S /\ \A x : x \in Upto(S, m) <=> x \in S /\ x <= m
        BY <1>6, <2>1, UptoHas
      <4>3. \A x : x \in Upto(S, m) <=> x = 0
        BY <4>1, <4>2
      <4> QED
        BY <4>3
    <3>2. Cardinality(Upto(S, m)) = 1
      BY <3>1, FS_Singleton
    <3> QED
      BY <1>4, <3>2
  <2>2. CASE m # 0
    <3>1. Upto(S, m) = Upto(S, m - 1) \cup {m} /\ m \notin Upto(S, m - 1)
      <4>1. /\ \A x \in S : x <= m <=> x <= m - 1 \/ x = m
            /\ ~(m <= m - 1) /\ m <= m
        BY <1>4, <2>2
      <4>2. /\ \A x : x \in Upto(S, m) <=> x \in S /\ x <= m
            /\ \A x : x \in Upto(S, m - 1) <=> x \in S /\ x <= m - 1
        BY UptoHas
      <4>3. \A x : x \in Upto(S, m) <=> x \in Upto(S, m - 1) \/ x = m
        BY <1>6, <4>1, <4>2
      <4>4. m \notin Upto(S, m - 1)
        BY <4>1, <4>2
      <4> QED
        BY <4>3, <4>4
    <3>2. Cardinality(Upto(S, m)) = Cardinality(Upto(S, m - 1)) + 1
      BY <1>1, <1>5, <2>2, <3>1, FS_AddElement
    <3> QED
      BY <1>1, <1>4, <1>5, <2>2, <3>2
  <2> QED
    BY <2>1, <2>2
<1>8. \E e \in S : Cardinality({x \in S : x <= e}) = k
  BY <1>6, <1>7 DEF Upto
<1> QED
  BY <1>8 DEF Nth, Upto

\* None of them lies between one and the next, or before the first.
LEMMA NthAreNext ==
  ASSUME NEW S \in SUBSET Nat, NEW n \in Nat, \A x \in S : x <= n,
         NEW k \in 1 .. Cardinality(S), NEW x \in S, x < Nth(S, k)
  PROVE  k > 1 /\ x <= Nth(S, k - 1) /\ Nth(S, k - 1) < Nth(S, k)
<1>1. /\ Cardinality(S) \in Nat /\ Nth(S, k) \in S /\ Nth(S, k) \in Nat /\ x \in Nat
      /\ Cardinality(Upto(S, Nth(S, k))) = k /\ k \in Nat /\ k >= 1
  <2>1. Nth(S, k) \in S /\ Cardinality(Upto(S, Nth(S, k))) = k
    BY NthIs
  <2>2. Cardinality(S) \in Nat
    BY FS_BoundedSetOfNaturals, FS_CardinalityType
  <2>3. \A y \in S : y \in Nat
    OBVIOUS
  <2>4. Nth(S, k) \in Nat /\ x \in Nat
    BY <2>1, <2>3
  <2>5. k \in Nat /\ k >= 1
    BY <2>2
  <2> QED
    BY <2>1, <2>2, <2>4, <2>5
<1>2. IsFiniteSet(Upto(S, x)) /\ Cardinality(Upto(S, x)) \in Nat
  BY <1>1, UptoIs
<1>3. Cardinality(Upto(S, x)) <= k /\ Cardinality(Upto(S, x)) # k
  <2>1. /\ Cardinality(Upto(S, x)) <= Cardinality(Upto(S, Nth(S, k)))
        /\ Cardinality(Upto(S, x)) = Cardinality(Upto(S, Nth(S, k)))
             => Upto(S, x) = Upto(S, Nth(S, k))
    BY <1>1, UptoIs
  <2>2. Nth(S, k) \in Upto(S, Nth(S, k)) /\ Nth(S, k) \notin Upto(S, x)
    BY <1>1 DEF Upto
  <2> QED
    BY <1>1, <2>1, <2>2
<1>4. Cardinality(Upto(S, x)) # 0
  <2>1. x \in Upto(S, x)
    BY <1>1 DEF Upto
  <2> QED
    BY <1>2, <2>1, FS_EmptySet
<1>5. k > 1 /\ k - 1 \in 1 .. Cardinality(S) /\ Cardinality(Upto(S, x)) <= k - 1
  BY <1>1, <1>2, <1>3, <1>4
<1>6. Nth(S, k - 1) \in S /\ Nth(S, k - 1) \in Nat /\ Cardinality(Upto(S, Nth(S, k - 1))) = k - 1
  BY <1>5, NthIs
<1>7. x <= Nth(S, k - 1)
  <2> SUFFICES ASSUME Nth(S, k - 1) < x PROVE FALSE
    BY <1>1, <1>6
  <2>1. /\ k - 1 <= Cardinality(Upto(S, x))
        /\ k - 1 = Cardinality(Upto(S, x)) => Upto(S, Nth(S, k - 1)) = Upto(S, x)
    BY <1>1, <1>6, UptoIs
  <2>2. x \in Upto(S, x) /\ x \notin Upto(S, Nth(S, k - 1))
    BY <1>1, <1>6 DEF Upto
  <2>3. Cardinality(Upto(S, x)) = k - 1
    BY <1>2, <1>5, <2>1
  <2>4. Upto(S, Nth(S, k - 1)) = Upto(S, x)
    BY <2>1, <2>3
  <2> QED
    BY <2>2, <2>4
<1>8. Nth(S, k - 1) < Nth(S, k)
  <2> SUFFICES ASSUME Nth(S, k) <= Nth(S, k - 1) PROVE FALSE
    BY <1>1, <1>6
  <2> DEFINE above == Nth(S, k - 1)
             below == Nth(S, k)
  <2>1. Cardinality(Upto(S, below)) <= Cardinality(Upto(S, above))
    <3> HIDE DEF above, below
    <3>1. above \in Nat /\ below \in Nat /\ below <= above
      BY <1>1, <1>6 DEF above, below
    <3> QED
      BY <3>1, UptoIs
  <2>2. k <= k - 1
    BY <1>1, <1>6, <2>1
  <2> QED
    BY <1>1, <2>2
<1> QED
  BY <1>5, <1>7, <1>8

\* The largest of them comes last.
LEMMA LastNth ==
  ASSUME NEW S \in SUBSET Nat, NEW n \in Nat, \A x \in S : x <= n, S # {}
  PROVE  \A x \in S : x <= Nth(S, Cardinality(S))
<1>1. Cardinality(S) \in Nat /\ Cardinality(S) # 0
  BY UptoIs, FS_EmptySet
<1>2. Nth(S, Cardinality(S)) \in S /\ Cardinality(Upto(S, Nth(S, Cardinality(S)))) = Cardinality(S)
  BY <1>1, NthIs
<1>3. Upto(S, Nth(S, Cardinality(S))) \in SUBSET S
  BY DEF Upto
<1>4. Upto(S, Nth(S, Cardinality(S))) = S
  BY <1>2, <1>3, UptoIs, FS_Subset
<1> QED
  BY <1>4 DEF Upto

--------------------------------------------------------------------------------
(***************************************************************************)
(* Files: where records and frames end.                                    *)
(***************************************************************************)
LEMMA FileIs ==
  ASSUME input \in Inputs
  PROVE  /\ input.frames \in Seq(Nat) /\ Len(input.frames) \in Nat \ {0}
         /\ DOMAIN input.frames = 1 .. Len(input.frames)
         /\ \A f \in DOMAIN input.frames : input.frames[f] \in Nat
         /\ Bytes \in Nat /\ input.separated \in BOOLEAN
         /\ input.ends \in SUBSET Nat /\ \A e \in input.ends : e \in 1 .. Bytes
<1>1. /\ input \in InputType /\ input.frames # <<>>
      /\ \A e \in input.ends : e \in 1 .. input.frames[Len(input.frames)]
  BY InputsAssumption
<1>2. input.frames \in Seq(Nat) /\ input.separated \in BOOLEAN /\ input.ends \in SUBSET Nat
  BY <1>1 DEF InputType
<1>3. Len(input.frames) \in Nat \ {0} /\ DOMAIN input.frames = 1 .. Len(input.frames)
  BY <1>1, <1>2, EmptySeq, LenProperties
<1>4. \A f \in DOMAIN input.frames : input.frames[f] \in Nat
  BY <1>2, <1>3, ElementOfSeq
<1>5. Bytes \in Nat
  BY <1>3, <1>4 DEF Bytes
<1> QED
  BY <1>1, <1>2, <1>3, <1>4, <1>5 DEF Bytes

\* A sequence that does not fall from one number to the next never does.
LEMMA NeverFalls ==
  ASSUME NEW s \in Seq(Nat), \A i \in DOMAIN s : i > 1 => s[i - 1] <= s[i]
  PROVE  \A i, j \in DOMAIN s : i <= j => s[i] <= s[j]
<1> SUFFICES ASSUME NEW i \in DOMAIN s, NEW j \in DOMAIN s, i <= j, ~(s[i] <= s[j]) PROVE FALSE
  OBVIOUS
<1>1. DOMAIN s = 1 .. Len(s) /\ Len(s) \in Nat /\ \A k \in DOMAIN s : s[k] \in Nat
  BY LenProperties, ElementOfSeq
<1> DEFINE Lower == {k \in DOMAIN s : i <= k /\ ~(s[i] <= s[k])}
<1>2. Lower \in SUBSET Nat /\ j \in Lower
  BY <1>1
<1>3. PICK k \in Lower : \A l \in Lower : k <= l
  <2> HIDE DEF Lower
  <2> QED
    BY <1>2, LeastOf
<1>4. k \in 1 .. Len(s) /\ i \in 1 .. Len(s) /\ i <= k /\ ~(s[i] <= s[k]) /\ s[i] \in Nat /\ s[k] \in Nat
  BY <1>1, <1>3
<1>5. k # i
  BY <1>4
<1>6. k - 1 \in DOMAIN s /\ i <= k - 1 /\ k > 1 /\ ~(k <= k - 1)
  BY <1>1, <1>4, <1>5
<1>7. s[k - 1] <= s[k] /\ s[k - 1] \in Nat
  BY <1>1, <1>3, <1>6
<1>8. ~(s[i] <= s[k - 1])
  BY <1>4, <1>7
<1>9. k - 1 \in Lower
  BY <1>6, <1>8
<1> QED
  BY <1>3, <1>6, <1>9

LEMMA FramesGrow ==
  ASSUME input \in Inputs
  PROVE  /\ \A f, g \in DOMAIN input.frames : f <= g => input.frames[f] <= input.frames[g]
         /\ \A f \in DOMAIN input.frames : input.frames[f] <= Bytes
<1>1. input.frames \in Seq(Nat)
  BY FileIs
<1>2. \A f \in DOMAIN input.frames : f > 1 => input.frames[f - 1] <= input.frames[f]
  BY InputsAssumption
<1>3. \A f, g \in DOMAIN input.frames : f <= g => input.frames[f] <= input.frames[g]
  BY <1>1, <1>2, NeverFalls
<1>4. Len(input.frames) \in DOMAIN input.frames
      /\ \A f \in DOMAIN input.frames : f <= Len(input.frames)
  BY FileIs
<1> QED
  BY <1>3, <1>4 DEF Bytes

\* The frame ends that a reader may guard: all but the last.
LEMMA FrameEndsAre ==
  ASSUME input \in Inputs
  PROVE  /\ FrameEnds(input) \in Seq(Nat)
         /\ DOMAIN FrameEnds(input) = 1 .. Len(input.frames) - 1
         /\ \A f \in DOMAIN FrameEnds(input) : /\ FrameEnds(input)[f] = input.frames[f]
                                               /\ f \in DOMAIN input.frames
<1>1. /\ input.frames \in Seq(Nat) /\ Len(input.frames) \in Nat \ {0}
      /\ DOMAIN input.frames = 1 .. Len(input.frames)
  BY FileIs
<1> DEFINE s == input.frames
           n == Len(s) - 1
<1>2. n \in 0 .. Len(s) /\ 1 \in 1 .. Len(s) + 1 /\ n \in 1 - 1 .. Len(s)
  BY <1>1
<1>3. /\ SubSeq(s, 1, n) \in Seq(Nat)
      /\ Len(SubSeq(s, 1, n)) = IF 1 <= n THEN n - 1 + 1 ELSE 0
      /\ \A i \in 1 .. n - 1 + 1 : SubSeq(s, 1, n)[i] = s[1 + i - 1]
  BY <1>1, <1>2, SubSeqProperties
<1>4. DOMAIN SubSeq(s, 1, n) = 1 .. n
  BY <1>2, <1>3, LenProperties
<1>5. \A i \in 1 .. n : SubSeq(s, 1, n)[i] = s[i] /\ i \in DOMAIN s
  BY <1>1, <1>2, <1>3
<1> QED
  BY <1>3, <1>4, <1>5 DEF FrameEnds

\* The frames of a file one after another.
LEMMA SpansAre ==
  ASSUME input \in Inputs
  PROVE  LET s == Spans(input)
         IN  /\ Len(s) = Len(input.frames) /\ DOMAIN s = DOMAIN input.frames
             /\ \A f \in DOMAIN s :
                  /\ s[f].start = (IF f = 1 THEN 0 ELSE input.frames[f - 1])
                  /\ s[f].end = input.frames[f]
             /\ \A f \in DOMAIN s : s[f].start \in Nat /\ s[f].end \in Nat /\ s[f].end <= Bytes
             /\ \A f, g \in DOMAIN s : f <= g => s[f].start <= s[g].end
<1> DEFINE s == Spans(input)
           n == Len(input.frames)
<1>1. /\ n \in Nat \ {0} /\ DOMAIN input.frames = 1 .. n
      /\ \A f \in DOMAIN input.frames : input.frames[f] \in Nat /\ input.frames[f] <= Bytes
      /\ \A f, g \in DOMAIN input.frames : f <= g => input.frames[f] <= input.frames[g]
      /\ Bytes \in Nat
  BY FileIs, FramesGrow
<1>2. s = [f \in 1 .. n |-> [start |-> IF f = 1 THEN 0 ELSE input.frames[f - 1],
                             end |-> input.frames[f]]]
  BY <1>1 DEF Spans
<1>3. Spans(input) = s
  OBVIOUS
<1> HIDE DEF s
<1>4. DOMAIN s = 1 .. n /\ Len(s) = n
  <2>1. DOMAIN s = 1 .. n
    BY <1>2
  <2>2. s \in [1 .. n -> {s[f] : f \in 1 .. n}]
    BY <1>2
  <2>3. s \in Seq({s[f] : f \in 1 .. n})
    BY <1>1, <2>2, SeqDef
  <2>4. Len(s) \in Nat /\ DOMAIN s = 1 .. Len(s)
    BY <2>3, LenProperties
  <2> HIDE DEF n
  <2> QED
    BY <1>1, <2>1, <2>4
<1>5. ASSUME NEW f \in 1 .. n
      PROVE  /\ s[f].start = (IF f = 1 THEN 0 ELSE input.frames[f - 1])
             /\ s[f].end = input.frames[f]
             /\ s[f].start \in Nat /\ s[f].end \in Nat /\ s[f].end <= Bytes
             /\ s[f].start <= s[f].end
  <2>1. s[f] = [start |-> IF f = 1 THEN 0 ELSE input.frames[f - 1], end |-> input.frames[f]]
    BY <1>2
  <2>2. f # 1 => f - 1 \in DOMAIN input.frames /\ f - 1 <= f
    BY <1>1
  <2> QED
    BY <1>1, <2>1, <2>2
<1>6. ASSUME NEW f \in 1 .. n, NEW g \in 1 .. n, f <= g PROVE s[f].start <= s[g].end
  <2>1. s[f].start <= s[f].end /\ s[f].end = input.frames[f] /\ s[g].end = input.frames[g]
        /\ s[f].start \in Nat
    BY <1>5
  <2>2. input.frames[f] <= input.frames[g] /\ input.frames[f] \in Nat /\ input.frames[g] \in Nat
    BY <1>1, <1>6
  <2> QED
    BY <2>1, <2>2
<1> QED
  BY <1>1, <1>3, <1>4, <1>5, <1>6

\* Records that end in a part of the file.
LEMMA EndsInHas ==
  ASSUME input \in Inputs, NEW a \in Nat, NEW b \in Nat
  PROVE  /\ EndsIn(a, b) \in SUBSET Nat /\ \A e \in EndsIn(a, b) : e \in Nat /\ e <= b
         /\ \A e : e \in EndsIn(a, b) <=> e \in input.ends /\ a < e /\ e <= b
         /\ IsFiniteSet(EndsIn(a, b)) /\ Cardinality(EndsIn(a, b)) \in Nat
         /\ Cardinality(EndsIn(a, b)) = 0 <=> EndsIn(a, b) = {}
<1>1. \A e : e \in EndsIn(a, b) <=> e \in input.ends /\ a < e /\ e <= b
  BY DEF EndsIn
<1>2. EndsIn(a, b) \in SUBSET Nat /\ \A e \in EndsIn(a, b) : e \in Nat /\ e <= b
  BY <1>1, FileIs
<1>3. IsFiniteSet(EndsIn(a, b))
  BY <1>2, FS_BoundedSetOfNaturals
<1> QED
  BY <1>1, <1>2, <1>3, FS_CardinalityType, FS_EmptySet

LEMMA EndsInSplit ==
  ASSUME input \in Inputs, NEW a \in Nat, NEW b \in Nat, NEW c \in Nat, a <= b, b <= c
  PROVE  /\ EndsIn(a, c) = EndsIn(a, b) \cup EndsIn(b, c)
         /\ Cardinality(EndsIn(a, c)) = Cardinality(EndsIn(a, b)) + Cardinality(EndsIn(b, c))
<1>1. /\ \A e : e \in EndsIn(a, b) <=> e \in input.ends /\ a < e /\ e <= b
      /\ \A e : e \in EndsIn(b, c) <=> e \in input.ends /\ b < e /\ e <= c
      /\ \A e : e \in EndsIn(a, c) <=> e \in input.ends /\ a < e /\ e <= c
      /\ \A e \in input.ends : e \in Nat
  BY EndsInHas, FileIs
<1>2. \A e \in input.ends : /\ a < e /\ e <= c <=> (a < e /\ e <= b) \/ (b < e /\ e <= c)
                            /\ ~((a < e /\ e <= b) /\ (b < e /\ e <= c))
  BY <1>1
<1>3. EndsIn(a, c) = EndsIn(a, b) \cup EndsIn(b, c)
  BY <1>1, <1>2
<1>4. EndsIn(a, b) \cap EndsIn(b, c) = {}
  BY <1>1, <1>2
<1>5. /\ IsFiniteSet(EndsIn(a, b)) /\ IsFiniteSet(EndsIn(b, c))
      /\ Cardinality(EndsIn(a, b)) \in Nat /\ Cardinality(EndsIn(b, c)) \in Nat
  BY EndsInHas
<1>6. Cardinality(EndsIn(a, c)) = Cardinality(EndsIn(a, b)) + Cardinality(EndsIn(b, c))
                                  - Cardinality(EndsIn(a, b) \cap EndsIn(b, c))
  BY <1>3, <1>5, FS_Union
<1>7. Cardinality(EndsIn(a, b) \cap EndsIn(b, c)) = 0
  BY <1>4, FS_EmptySet
<1> QED
  BY <1>3, <1>5, <1>6, <1>7


\* What is downward closed in a range of numbers is a range.
LEMMA LowerRange ==
  ASSUME NEW a \in Nat, NEW b \in Int, NEW S \in SUBSET (a .. b),
         \A i \in S : \A j \in a .. b : j <= i => j \in S
  PROVE  /\ IsFiniteSet(S) /\ Cardinality(S) \in Nat
         /\ S = a .. a + Cardinality(S) - 1
<1>1. IsFiniteSet(a .. b)
  BY FS_Interval
<1>2. IsFiniteSet(S) /\ Cardinality(S) \in Nat
  BY <1>1, FS_Subset, FS_CardinalityType
<1>3. CASE S = {}
  <2>1. Cardinality(S) = 0
    BY <1>3, FS_EmptySet
  <2>2. a .. a + 0 - 1 = {}
    OBVIOUS
  <2> QED
    BY <1>2, <1>3, <2>1, <2>2
<1>4. CASE S # {}
  <2>1. S \in SUBSET Nat /\ \A x \in S : x <= b /\ x \in Nat /\ a <= x
    OBVIOUS
  <2>2. b \in Nat
    <3>1. PICK x \in S : TRUE
      BY <1>4
    <3> QED
      BY <2>1, <3>1
  <2>3. PICK m \in S : \A x \in S : x <= m
    BY <1>4, <2>1, <2>2, GreatestOf
  <2>4. m \in Nat /\ a <= m /\ m <= b
    BY <2>1
  <2>5. \A j : j \in S <=> j \in a .. m
    <3>1. \A j \in a .. m : j \in a .. b /\ j <= m
      BY <2>4
    <3>2. \A j \in a .. m : j \in S
      BY <3>1
    <3>3. \A j \in S : j \in a .. m
      BY <2>1, <2>3, <2>4
    <3> QED
      BY <3>2, <3>3
  <2>6. S = a .. m
    BY <2>5
  <2>7. Cardinality(a .. m) = IF a > m THEN 0 ELSE m - a + 1
    BY <2>4, FS_Interval
  <2>8. Cardinality(S) = m - a + 1
    BY <2>4, <2>6, <2>7
  <2>9. a + Cardinality(S) - 1 = m
    BY <2>4, <2>8
  <2> QED
    BY <1>2, <2>6, <2>9
<1> QED
  BY <1>3, <1>4

--------------------------------------------------------------------------------
(***************************************************************************)
(* The window: what it holds is what lies between its offset and the end   *)
(* of its span, and no frame end that is guarded lies within what it       *)
(* holds.                                                                  *)
(***************************************************************************)

\* A reader: its frames are spans of the file, in order, and it guards the ends
\* of all frames but the last or none.
ReaderOK ==
  /\ reader.base \in Nat /\ reader.base <= Bytes
  /\ reader.guard \in {FrameEnds(input), <<>>}
  /\ Len(reader.frames) \in Nat \ {0} /\ DOMAIN reader.frames = 1 .. Len(reader.frames)
  /\ \A f \in DOMAIN reader.frames :
       /\ reader.frames[f].start \in Nat /\ reader.frames[f].end \in Nat
       /\ reader.base + reader.frames[f].end <= Bytes
  /\ \A f, g \in DOMAIN reader.frames : f <= g => reader.frames[f].start <= reader.frames[g].end

WindowType ==
  [offset : Nat, limit : Nat, cap : Nat, filled : Nat, pos : Nat,
   eof : BOOLEAN, walked : Nat, front : Nat, nextEnd : Nat]
Buffered(w) ==
  /\ w \in WindowType
  /\ w.pos <= w.filled /\ w.filled <= w.cap /\ 1 <= w.cap
  /\ w.offset + w.filled <= w.limit /\ reader.base + w.limit <= Bytes
  /\ w.front <= w.walked
  /\ 1 <= w.nextEnd
Guarded(w) ==
  \A i \in DOMAIN reader.guard :
    IF i < w.nextEnd THEN reader.guard[i] <= reader.base + w.offset
    ELSE Loaded(w) <= reader.guard[i]

LEMMA GuardIs ==
  ASSUME input \in Inputs, ReaderOK
  PROVE  /\ Len(reader.guard) \in Nat /\ DOMAIN reader.guard = 1 .. Len(reader.guard)
         /\ \A i \in DOMAIN reader.guard : reader.guard[i] \in Nat
         /\ \A i, j \in DOMAIN reader.guard : i <= j => reader.guard[i] <= reader.guard[j]
<1>1. CASE reader.guard = FrameEnds(input)
  <2>1. reader.guard \in Seq(Nat)
    BY <1>1, FrameEndsAre
  <2>2. \A i, j \in DOMAIN reader.guard : i <= j => reader.guard[i] <= reader.guard[j]
    BY <1>1, FrameEndsAre, FramesGrow
  <2> QED
    BY <2>1, <2>2, LenProperties, ElementOfSeq
<1>2. CASE reader.guard = <<>>
  BY <1>2
<1> QED
  BY <1>1, <1>2 DEF ReaderOK

\* Where things are, in numbers.
LEMMA PlacesAre ==
  ASSUME input \in Inputs, ReaderOK, NEW w, Buffered(w)
  PROVE  /\ At(w) \in Nat /\ Loaded(w) \in Nat /\ At(w) <= Loaded(w) /\ Loaded(w) <= Bytes
         /\ At(w) = reader.base + w.offset + w.pos /\ Loaded(w) = reader.base + w.offset + w.filled
         /\ Loaded(w) <= reader.base + w.limit
         /\ Held(w) = EndsIn(At(w), Loaded(w))
         /\ reader.base \in Nat /\ w.offset \in Nat /\ w.limit \in Nat /\ w.pos \in Nat
         /\ w.filled \in Nat /\ w.cap \in Nat /\ w.walked \in Nat /\ w.front \in Nat
         /\ w.nextEnd \in Nat /\ w.eof \in BOOLEAN /\ Bytes \in Nat
<1>1. reader.base \in Nat /\ Bytes \in Nat
  BY FileIs DEF ReaderOK
<1>2. /\ w.offset \in Nat /\ w.limit \in Nat /\ w.pos \in Nat
      /\ w.filled \in Nat /\ w.cap \in Nat /\ w.walked \in Nat /\ w.front \in Nat
      /\ w.nextEnd \in Nat /\ w.eof \in BOOLEAN
  BY DEF Buffered, WindowType
<1>3. /\ w.pos <= w.filled /\ w.filled <= w.cap
      /\ w.offset + w.filled <= w.limit /\ reader.base + w.limit <= Bytes
  BY DEF Buffered
<1> QED
  BY <1>1, <1>2, <1>3 DEF At, Loaded, Held

\* Pointing the window anew.
LEMMA SeekToIs ==
  ASSUME input \in Inputs, ReaderOK, NEW w, Buffered(w),
         NEW start \in Nat, NEW len \in Nat, reader.base + start + len <= Bytes
  PROVE  /\ Buffered(SeekTo(w, start, len)) /\ Guarded(SeekTo(w, start, len))
         /\ SeekTo(w, start, len).cap = w.cap
         /\ SeekTo(w, start, len).offset = start /\ SeekTo(w, start, len).pos = 0
         /\ SeekTo(w, start, len).limit = start + len /\ SeekTo(w, start, len).walked = 0
<1>1. /\ Len(reader.guard) \in Nat /\ DOMAIN reader.guard = 1 .. Len(reader.guard)
      /\ \A i \in DOMAIN reader.guard : reader.guard[i] \in Nat
      /\ \A i, j \in DOMAIN reader.guard : i <= j => reader.guard[i] <= reader.guard[j]
  BY GuardIs
<1>2. reader.base \in Nat /\ w.cap \in Nat /\ 1 <= w.cap /\ Bytes \in Nat
  BY PlacesAre DEF Buffered
<1> DEFINE S == {i \in DOMAIN reader.guard : reader.guard[i] <= start + reader.base}
<1>3. S \in SUBSET (1 .. Len(reader.guard))
  BY <1>1
<1>4. \A i \in S : \A j \in 1 .. Len(reader.guard) : j <= i => j \in S
  <2> SUFFICES ASSUME NEW i \in S, NEW j \in 1 .. Len(reader.guard), j <= i
               PROVE  j \in S
    OBVIOUS
  <2>1. i \in DOMAIN reader.guard /\ j \in DOMAIN reader.guard
        /\ reader.guard[i] <= start + reader.base
    BY <1>1
  <2>2. reader.guard[i] \in Nat /\ reader.guard[j] \in Nat /\ reader.guard[j] <= reader.guard[i]
    BY <1>1, <2>1
  <2>3. reader.guard[j] <= start + reader.base
    BY <1>2, <2>1, <2>2
  <2> QED
    BY <2>1, <2>3
<1>5. Cardinality(S) \in Nat /\ S = 1 .. 1 + Cardinality(S) - 1
  <2> DEFINE n == Len(reader.guard)
  <2>1. n \in Int /\ S \in SUBSET (1 .. n) /\ \A i \in S : \A j \in 1 .. n : j <= i => j \in S
    BY <1>1, <1>3, <1>4
  <2> HIDE DEF S, n
  <2> QED
    BY <2>1, LowerRange
<1> DEFINE v == SeekTo(w, start, len)
<1>6. v = [offset |-> start, limit |-> start + len, cap |-> w.cap, filled |-> 0, pos |-> 0,
           eof |-> FALSE, walked |-> 0, front |-> 0, nextEnd |-> Cardinality(S) + 1]
  BY DEF SeekTo, Cleared
<1>7. Buffered(v)
  <2>1. Cardinality(S) + 1 \in Nat /\ 1 <= Cardinality(S) + 1 /\ start + len \in Nat
    BY <1>5
  <2>2. v \in WindowType
    <3> HIDE DEF S
    <3> QED
      BY <1>2, <1>6, <2>1 DEF WindowType
  <2> HIDE DEF S
  <2> QED
    BY <1>2, <1>6, <2>1, <2>2 DEF Buffered
<1>8. Guarded(v)
  <2>1. v.nextEnd = Cardinality(S) + 1 /\ v.offset = start /\ v.filled = 0
    BY <1>6
  <2>2. Loaded(v) = reader.base + start
    BY <1>2, <2>1 DEF Loaded
  <2>3. ASSUME NEW i \in DOMAIN reader.guard
        PROVE  IF i < v.nextEnd THEN reader.guard[i] <= reader.base + v.offset
               ELSE Loaded(v) <= reader.guard[i]
    <3>1. i \in S <=> i < v.nextEnd
      <4>1. i \in S <=> i \in 1 .. 1 + Cardinality(S) - 1
        BY <1>5
      <4> HIDE DEF S
      <4> QED
        BY <1>1, <1>5, <2>1, <4>1
    <3>2. i \in S <=> reader.guard[i] <= start + reader.base
      OBVIOUS
    <3> HIDE DEF S
    <3> QED
      BY <1>1, <1>2, <2>1, <2>2, <3>1, <3>2
  <2> QED
    BY <2>3 DEF Guarded
<1> QED
  BY <1>6, <1>7, <1>8

\* What holds no record end is no longer than the longest record or fragment.
LEMMA NoneEndsWithin ==
  ASSUME input \in Inputs, NEW a \in Nat, NEW b \in Nat, a <= b, b <= Bytes, EndsIn(a, b) = {}
  PROVE  Longest \in Nat /\ b - a <= Longest
<1> DEFINE marks == input.ends \cup {0, Bytes}
           gaps == {m \in marks \X marks :
                     m[1] <= m[2] /\ \A x \in marks : ~(m[1] < x /\ x < m[2])}
           lengths == {gap[2] - gap[1] : gap \in gaps}
<1>1. /\ Bytes \in Nat /\ marks \in SUBSET Nat /\ \A m \in marks : m \in Nat /\ m <= Bytes
      /\ 0 \in marks /\ Bytes \in marks
  <2>1. Bytes \in Nat /\ input.ends \in SUBSET Nat /\ \A e \in input.ends : e \in 1 .. Bytes
    BY FileIs
  <2>2. \A e \in input.ends : e \in Nat /\ e <= Bytes
    BY <2>1
  <2> QED
    BY <2>1, <2>2
<1> DEFINE low == {m \in marks : m <= a}
           high == {m \in marks : b <= m}
<1>2. PICK l \in low : \A y \in low : y <= l
  <2>1. low \in SUBSET Nat /\ 0 \in low /\ \A x \in low : x <= a
    BY <1>1
  <2> HIDE DEF low
  <2> QED
    BY <2>1, GreatestOf
<1>3. PICK h \in high : \A y \in high : h <= y
  <2>1. high \in SUBSET Nat /\ Bytes \in high
    BY <1>1
  <2> HIDE DEF high
  <2> QED
    BY <2>1, LeastOf
<1>4. l \in marks /\ h \in marks /\ l \in Nat /\ h \in Nat /\ l <= a /\ b <= h /\ l <= h
  BY <1>1, <1>2, <1>3
<1>5. ASSUME NEW x \in marks, l < x, x < h PROVE FALSE
  <2>1. x \in Nat /\ x # 0 /\ x # Bytes
    BY <1>1, <1>4, <1>5
  <2>2. a < x
    BY <1>1, <1>2, <1>4, <1>5, <2>1
  <2>3. x < b
    BY <1>1, <1>3, <1>4, <1>5, <2>1
  <2>4. x \in input.ends
    BY <2>1
  <2>5. x \in EndsIn(a, b)
    BY <2>1, <2>2, <2>3, <2>4 DEF EndsIn
  <2> QED
    BY <2>5
<1>6. <<l, h>> \in gaps
  <2>1. <<l, h>> \in marks \X marks /\ <<l, h>>[1] = l /\ <<l, h>>[2] = h
    BY <1>4
  <2> HIDE DEF marks
  <2> QED
    BY <1>4, <1>5, <2>1
<1>7. lengths \in SUBSET Nat /\ \A n \in lengths : n <= Bytes
  <2>1. \A gap \in gaps : /\ gap[1] \in marks /\ gap[2] \in marks /\ gap[1] <= gap[2]
    OBVIOUS
  <2>2. \A gap \in gaps : gap[2] - gap[1] \in Nat /\ gap[2] - gap[1] <= Bytes
    <3> SUFFICES ASSUME NEW gap \in gaps PROVE gap[2] - gap[1] \in Nat /\ gap[2] - gap[1] <= Bytes
      OBVIOUS
    <3>1. gap[1] \in marks /\ gap[2] \in marks /\ gap[1] <= gap[2]
      BY <2>1
    <3>2. gap[1] \in Nat /\ gap[2] \in Nat /\ gap[2] <= Bytes
      BY <1>1, <3>1
    <3> HIDE DEF marks, gaps
    <3> QED
      BY <1>1, <3>1, <3>2
  <2> HIDE DEF marks, gaps
  <2> QED
    BY <2>2
<1>8. h - l \in lengths
  <2> HIDE DEF gaps
  <2> QED
    BY <1>6
<1>9. Longest = Max(lengths)
  BY DEF Longest
<1>10. Longest \in lengths /\ h - l <= Longest
  <2> HIDE DEF lengths
  <2> QED
    BY <1>1, <1>7, <1>8, <1>9, MaxIs
<1>11. Longest \in Nat
  <2> HIDE DEF lengths
  <2> QED
    BY <1>7, <1>10
<1> QED
  BY <1>4, <1>10, <1>11

\* Growing: the buffer doubles only for what is longer than it.
LEMMA GrownIs ==
  ASSUME input \in Inputs, ReaderOK, NEW w, Buffered(w)
  PROVE  /\ Buffered(Grown(w)) /\ (Guarded(w) => Guarded(Grown(w)))
         /\ At(Grown(w)) = At(w) /\ Loaded(Grown(w)) = Loaded(w)
         /\ Grown(w).pos = w.pos /\ Grown(w).filled = w.filled /\ Grown(w).offset = w.offset
         /\ Grown(w).limit = w.limit /\ Grown(w).walked = w.walked
         /\ Grown(w).nextEnd = w.nextEnd
         /\ \/ Grown(w).cap = w.cap
            \/ Held(w) = {} => Grown(w).cap = 2 * w.cap /\ w.cap <= Longest
<1>1. CASE w.pos = 0 /\ w.filled = w.cap
  <2> DEFINE v == [w EXCEPT !.cap = 2 * @]
  <2>1. Grown(w) = v
    BY <1>1 DEF Grown
  <2>2. /\ v \in WindowType /\ v.cap = 2 * w.cap /\ v.pos = w.pos /\ v.filled = w.filled
        /\ v.offset = w.offset /\ v.limit = w.limit /\ v.walked = w.walked
        /\ v.front = w.front /\ v.nextEnd = w.nextEnd
    BY DEF Buffered, WindowType
  <2> HIDE DEF v
  <2>3. Buffered(v)
    BY <2>2 DEF Buffered, WindowType
  <2>4. At(v) = At(w) /\ Loaded(v) = Loaded(w)
    BY <2>2 DEF At, Loaded
  <2>5. Guarded(w) => Guarded(v)
    BY <2>2, <2>4 DEF Guarded
  <2>6. Held(w) = {} => w.cap <= Longest
    <3> SUFFICES ASSUME Held(w) = {} PROVE w.cap <= Longest
      OBVIOUS
    <3>1. At(w) \in Nat /\ Loaded(w) \in Nat /\ At(w) <= Loaded(w) /\ Loaded(w) <= Bytes
          /\ EndsIn(At(w), Loaded(w)) = {}
      BY PlacesAre
    <3>2. Longest \in Nat /\ Loaded(w) - At(w) <= Longest
      BY <3>1, NoneEndsWithin
    <3>3. Loaded(w) - At(w) = w.cap
      BY <1>1, PlacesAre
    <3> QED
      BY <3>2, <3>3
  <2> QED
    BY <2>1, <2>2, <2>3, <2>4, <2>5, <2>6
<1>2. CASE ~(w.pos = 0 /\ w.filled = w.cap)
  <2>1. Grown(w) = w
    BY <1>2 DEF Grown
  <2> QED
    BY <2>1
<1> QED
  BY <1>1, <1>2

\* Sliding: the frame ends that have been reached are behind the buffer.
LEMMA SlidIs ==
  ASSUME input \in Inputs, ReaderOK, NEW w, Buffered(w), Guarded(w), ~CutsARecord(w)
  PROVE  /\ Buffered(Slid(w)) /\ Guarded(Slid(w))
         /\ At(Slid(w)) = At(w) /\ Loaded(Slid(w)) = Loaded(w)
         /\ Slid(w).cap = w.cap /\ Slid(w).limit = w.limit /\ Slid(w).walked = w.walked
         /\ Slid(w).offset = w.offset + w.pos
<1> DEFINE n == Len(reader.guard)
           S == {i \in DOMAIN reader.guard : i >= w.nextEnd /\ reader.guard[i] = Loaded(w)}
           v == Slid(w)
<1>1. /\ n \in Nat /\ DOMAIN reader.guard = 1 .. n
      /\ \A i \in DOMAIN reader.guard : reader.guard[i] \in Nat
      /\ \A i, j \in DOMAIN reader.guard : i <= j => reader.guard[i] <= reader.guard[j]
  BY GuardIs
<1>2. /\ At(w) \in Nat /\ Loaded(w) \in Nat /\ At(w) <= Loaded(w)
      /\ At(w) = reader.base + w.offset + w.pos /\ Loaded(w) = reader.base + w.offset + w.filled
      /\ reader.base \in Nat /\ w.offset \in Nat /\ w.limit \in Nat /\ w.pos \in Nat
      /\ w.filled \in Nat /\ w.cap \in Nat /\ w.walked \in Nat /\ w.front \in Nat
      /\ w.nextEnd \in Nat
  BY PlacesAre
<1>3. S \in SUBSET (w.nextEnd .. n)
  BY <1>1, <1>2
<1>4. \A i \in S : \A j \in w.nextEnd .. n : j <= i => j \in S
  <2> SUFFICES ASSUME NEW i \in S, NEW j \in w.nextEnd .. n, j <= i PROVE j \in S
    OBVIOUS
  <2>1. j \in DOMAIN reader.guard /\ j >= w.nextEnd /\ ~(j < w.nextEnd) /\ i \in DOMAIN reader.guard
    BY <1>1, <1>2 DEF Buffered
  <2>2. Loaded(w) <= reader.guard[j]
    BY <2>1 DEF Guarded
  <2>3. reader.guard[j] <= reader.guard[i] /\ reader.guard[i] = Loaded(w)
    BY <1>1, <2>1
  <2>4. reader.guard[j] = Loaded(w)
    <3>1. reader.guard[j] \in Nat /\ Loaded(w) \in Nat
      BY <1>1, <1>2, <2>1
    <3> HIDE DEF S
    <3> QED
      BY <2>2, <2>3, <3>1
  <2> QED
    BY <2>1, <2>4
<1>5. Cardinality(S) \in Nat /\ S = w.nextEnd .. w.nextEnd + Cardinality(S) - 1
  <2>1. w.nextEnd \in Nat /\ n \in Int
    BY <1>1, <1>2
  <2> DEFINE a == w.nextEnd
  <2> HIDE DEF S, n, a
  <2>2. a \in Nat /\ S \in SUBSET (a .. n) /\ \A i \in S : \A j \in a .. n : j <= i => j \in S
    BY <1>3, <1>4, <2>1 DEF a
  <2>3. Cardinality(S) \in Nat /\ S = a .. a + Cardinality(S) - 1
    BY <2>1, <2>2, LowerRange
  <2> QED
    BY <2>3 DEF a
<1>6. Passed(w) = Cardinality(S)
  BY DEF Passed
<1>7. Cardinality(S) > 0 => w.pos = w.filled
  BY <1>6 DEF CutsARecord
<1> DEFINE c == Cardinality(S)
<1>8. v = [w EXCEPT !.nextEnd = @ + c, !.filled = @ - w.pos, !.offset = @ + w.pos,
                    !.pos = 0, !.front = Front(w)]
  BY <1>6 DEF Slid
<1>9. Front(w) \in Nat /\ Front(w) <= w.walked
  BY <1>2 DEF Front, Buffered
<1>10. c \in Nat
  BY <1>5
<1>11. /\ v \in WindowType /\ v.nextEnd = w.nextEnd + c /\ v.filled = w.filled - w.pos
       /\ v.offset = w.offset + w.pos /\ v.pos = 0 /\ v.front = Front(w)
       /\ v.cap = w.cap /\ v.limit = w.limit /\ v.walked = w.walked
  <2>1. w.filled - w.pos \in Nat /\ w.nextEnd + c \in Nat /\ w.offset + w.pos \in Nat
    <3> HIDE DEF c
    <3> QED
      BY <1>2, <1>10 DEF Buffered
  <2> HIDE DEF c, v
  <2> QED
    BY <1>8, <1>9, <2>1 DEF Buffered, WindowType
<1>12. Buffered(v)
  <2> HIDE DEF c, v
  <2> QED
    BY <1>2, <1>9, <1>10, <1>11 DEF Buffered
<1>13. At(v) = At(w) /\ Loaded(v) = Loaded(w)
  <2> HIDE DEF c, v
  <2> QED
    BY <1>2, <1>11 DEF At, Loaded
<1>14. Guarded(v)
  <2> SUFFICES ASSUME NEW i \in DOMAIN reader.guard
               PROVE  IF i < v.nextEnd THEN reader.guard[i] <= reader.base + v.offset
                      ELSE Loaded(v) <= reader.guard[i]
    BY DEF Guarded
  <2>1. IF i < w.nextEnd THEN reader.guard[i] <= reader.base + w.offset
        ELSE Loaded(w) <= reader.guard[i]
    BY DEF Guarded
  <2>2. i \in Nat /\ reader.guard[i] \in Nat
    BY <1>1
  <2>3. CASE i < w.nextEnd
    <3> HIDE DEF c, v
    <3> QED
      BY <1>2, <1>10, <1>11, <1>13, <2>1, <2>2, <2>3
  <2>4. CASE i >= w.nextEnd /\ i < w.nextEnd + c
    <3>1. i \in S /\ c > 0
      <4>1. i \in w.nextEnd .. w.nextEnd + c - 1 /\ c > 0
        <5> HIDE DEF c
        <5> QED
          BY <1>2, <1>10, <2>2, <2>4
      <4> QED
        BY <1>5, <4>1
    <3>2. reader.guard[i] = Loaded(w) /\ w.pos = w.filled
      BY <1>7, <3>1
    <3> HIDE DEF c, v, S
    <3> QED
      BY <1>2, <1>10, <1>11, <2>2, <2>4, <3>2
  <2>5. CASE i >= w.nextEnd + c
    <3> HIDE DEF c, v
    <3> QED
      BY <1>2, <1>10, <1>11, <1>13, <2>1, <2>2, <2>5
  <2> QED
    <3> HIDE DEF c, v
    <3> QED
      BY <1>2, <1>10, <2>2, <2>3, <2>4, <2>5
<1>15. Slid(w) = v
  OBVIOUS
<1> HIDE DEF v
<1> QED
  BY <1>11, <1>12, <1>13, <1>14, <1>15

\* Reading on: as much as there is room for, up to the next frame end.
LEMMA FilledIs ==
  ASSUME input \in Inputs, ReaderOK, NEW w, Buffered(w), Guarded(w), NEW v \in Filled(w)
  PROVE  /\ Buffered(v) /\ Guarded(v) /\ At(v) = At(w)
         /\ v.cap = w.cap /\ v.limit = w.limit /\ v.walked = w.walked /\ v.offset = w.offset
<1> DEFINE T == {w.cap - w.filled, reader.base + w.limit - Loaded(w)}
                \cup IF w.nextEnd \in DOMAIN reader.guard
                     THEN {reader.guard[w.nextEnd] - Loaded(w)} ELSE {}
<1>1. /\ Len(reader.guard) \in Nat /\ DOMAIN reader.guard = 1 .. Len(reader.guard)
      /\ \A i \in DOMAIN reader.guard : reader.guard[i] \in Nat
      /\ \A i, j \in DOMAIN reader.guard : i <= j => reader.guard[i] <= reader.guard[j]
  BY GuardIs
<1>2. /\ At(w) \in Nat /\ Loaded(w) \in Nat /\ At(w) <= Loaded(w)
      /\ At(w) = reader.base + w.offset + w.pos /\ Loaded(w) = reader.base + w.offset + w.filled
      /\ reader.base \in Nat /\ w.offset \in Nat /\ w.limit \in Nat /\ w.pos \in Nat
      /\ w.filled \in Nat /\ w.cap \in Nat /\ w.walked \in Nat /\ w.front \in Nat
      /\ w.nextEnd \in Nat /\ Loaded(w) <= reader.base + w.limit
  BY PlacesAre
<1>3. w.cap - w.filled \in Nat /\ reader.base + w.limit - Loaded(w) \in Nat
  BY <1>2 DEF Buffered
<1>4. w.nextEnd \in DOMAIN reader.guard => reader.guard[w.nextEnd] - Loaded(w) \in Nat
  <2> HIDE DEF T
  <2> SUFFICES ASSUME w.nextEnd \in DOMAIN reader.guard
               PROVE  reader.guard[w.nextEnd] - Loaded(w) \in Nat
    OBVIOUS
  <2>1. Loaded(w) <= reader.guard[w.nextEnd]
    BY <1>2 DEF Guarded
  <2>2. reader.guard[w.nextEnd] \in Nat
    BY <1>1
  <2>3. Loaded(w) \in Nat
    BY <1>2
  <2> QED
    BY <2>1, <2>2, <2>3
<1>5. T \in SUBSET Nat /\ T # {}
  BY <1>3, <1>4
<1>6. Room(w) = Min(T)
  BY DEF Room
<1>7. Room(w) \in T /\ \A y \in T : Room(w) <= y
  <2> HIDE DEF T
  <2> QED
    BY <1>5, <1>6, MinIs
<1>8. /\ Room(w) \in Nat /\ Room(w) <= w.cap - w.filled
      /\ Room(w) <= reader.base + w.limit - Loaded(w)
      /\ w.nextEnd \in DOMAIN reader.guard => Room(w) <= reader.guard[w.nextEnd] - Loaded(w)
  BY <1>5, <1>7
<1> HIDE DEF T
<1>9. CASE Room(w) = 0
  <2>1. v = [w EXCEPT !.eof = TRUE]
    BY <1>9 DEF Filled
  <2>2. /\ v \in WindowType /\ v.cap = w.cap /\ v.pos = w.pos /\ v.filled = w.filled
        /\ v.offset = w.offset /\ v.limit = w.limit /\ v.walked = w.walked
        /\ v.front = w.front /\ v.nextEnd = w.nextEnd
    BY <2>1 DEF Buffered, WindowType
  <2>3. Buffered(v) /\ At(v) = At(w) /\ Loaded(v) = Loaded(w)
    BY <2>2 DEF Buffered, At, Loaded
  <2>4. Guarded(v)
    BY <2>2, <2>3 DEF Guarded
  <2> QED
    BY <2>2, <2>3, <2>4
<1>10. CASE Room(w) # 0
  <2>1. PICK read \in 1 .. Room(w) : v = [w EXCEPT !.filled = @ + read]
    BY <1>10 DEF Filled
  <2>2. read \in Nat /\ read <= Room(w)
    BY <1>8
  <2>3. /\ v \in WindowType /\ v.cap = w.cap /\ v.pos = w.pos /\ v.filled = w.filled + read
        /\ v.offset = w.offset /\ v.limit = w.limit /\ v.walked = w.walked
        /\ v.front = w.front /\ v.nextEnd = w.nextEnd
    BY <2>1, <2>2 DEF Buffered, WindowType
  <2>4. At(v) = At(w) /\ Loaded(v) = Loaded(w) + read
    BY <1>2, <2>2, <2>3 DEF At, Loaded
  <2>5. Buffered(v)
    BY <1>2, <1>8, <2>2, <2>3 DEF Buffered
  <2>6. Guarded(v)
    <3> SUFFICES ASSUME NEW i \in DOMAIN reader.guard
                 PROVE  IF i < v.nextEnd THEN reader.guard[i] <= reader.base + v.offset
                        ELSE Loaded(v) <= reader.guard[i]
      BY DEF Guarded
    <3>1. IF i < w.nextEnd THEN reader.guard[i] <= reader.base + w.offset
          ELSE Loaded(w) <= reader.guard[i]
      BY DEF Guarded
    <3>2. CASE i < w.nextEnd
      BY <2>3, <3>1, <3>2
    <3>3. CASE ~(i < w.nextEnd)
      <4>1. i \in Nat /\ w.nextEnd <= i
        BY <1>1, <1>2, <3>3
      <4>2. w.nextEnd \in DOMAIN reader.guard
        <5>1. w.nextEnd \in Nat /\ 1 <= w.nextEnd
          BY <1>2 DEF Buffered, WindowType
        <5>2. i <= Len(reader.guard)
          BY <1>1
        <5> HIDE DEF T
        <5> QED
          BY <1>1, <4>1, <5>1, <5>2
      <4>3. /\ reader.guard[w.nextEnd] <= reader.guard[i] /\ reader.guard[w.nextEnd] \in Nat
            /\ reader.guard[i] \in Nat
        BY <1>1, <4>1, <4>2
      <4>4. Loaded(w) + read <= reader.guard[w.nextEnd]
        BY <1>2, <1>8, <2>2, <4>2, <4>3
      <4> QED
        BY <1>2, <2>2, <2>3, <2>4, <3>3, <4>3, <4>4
    <3> QED
      BY <3>2, <3>3
  <2> QED
    BY <2>3, <2>4, <2>5, <2>6
<1> QED
  BY <1>9, <1>10

\* Walking: over as many of the records that end in the buffer as are wanted,
\* each of them counted.
LEMMA WalkIs ==
  ASSUME input \in Inputs, ReaderOK, NEW w, Buffered(w), NEW want \in Nat \ {0}, Held(w) # {}
  PROVE  /\ Buffered(Walk(w, want)) /\ (Guarded(w) => Guarded(Walk(w, want)))
         /\ Walk(w, want).cap = w.cap /\ Walk(w, want).limit = w.limit
         /\ Walk(w, want).offset = w.offset
         /\ At(Walk(w, want)) \in input.ends
         /\ At(w) < At(Walk(w, want)) /\ At(Walk(w, want)) <= Loaded(w)
         /\ Walk(w, want).walked = w.walked + Cardinality(EndsIn(At(w), At(Walk(w, want))))
         /\ Walk(w, want).walked - w.walked \in 1 .. want
<1> DEFINE S == Held(w)
           count == Min({want, Cardinality(S)})
           stop == Nth(S, count)
           v == Walk(w, want)
<1>1. /\ At(w) \in Nat /\ Loaded(w) \in Nat /\ At(w) <= Loaded(w)
      /\ At(w) = reader.base + w.offset + w.pos /\ Loaded(w) = reader.base + w.offset + w.filled
      /\ reader.base \in Nat /\ w.offset \in Nat /\ w.limit \in Nat /\ w.pos \in Nat
      /\ w.filled \in Nat /\ w.cap \in Nat /\ w.walked \in Nat /\ w.front \in Nat
      /\ w.nextEnd \in Nat /\ S = EndsIn(At(w), Loaded(w))
  BY PlacesAre
<1>2. /\ S \in SUBSET Nat /\ \A x \in S : x \in Nat /\ x <= Loaded(w)
      /\ \A e : e \in S <=> e \in input.ends /\ At(w) < e /\ e <= Loaded(w)
      /\ IsFiniteSet(S) /\ Cardinality(S) \in Nat /\ Cardinality(S) # 0
  <2> DEFINE x0 == At(w)
             y0 == Loaded(w)
  <2>1. x0 \in Nat /\ y0 \in Nat /\ S = EndsIn(x0, y0) /\ S # {}
    BY <1>1
  <2> HIDE DEF S, x0, y0
  <2>2. /\ S \in SUBSET Nat /\ \A x \in S : x \in Nat /\ x <= y0
        /\ \A e : e \in S <=> e \in input.ends /\ x0 < e /\ e <= y0
        /\ IsFiniteSet(S) /\ Cardinality(S) \in Nat /\ Cardinality(S) # 0
    BY <2>1, EndsInHas
  <2> QED
    BY <2>2 DEF x0, y0
<1> HIDE DEF S
<1>3. count \in 1 .. Cardinality(S) /\ count <= want /\ count \in Nat
  <2>1. {want, Cardinality(S)} \in SUBSET Nat /\ {want, Cardinality(S)} # {}
    BY <1>2
  <2>2. count \in {want, Cardinality(S)} /\ \A y \in {want, Cardinality(S)} : count <= y
    BY <2>1, MinIs
  <2> HIDE DEF count
  <2>3. count <= want /\ count <= Cardinality(S) /\ count \in Nat /\ 1 <= count
    BY <1>2, <2>2
  <2> QED
    BY <1>2, <2>3
<1> HIDE DEF count
<1>4. stop \in S /\ Cardinality(Upto(S, stop)) = count
  BY <1>1, <1>2, <1>3, NthIs
<1> HIDE DEF stop
<1>5. stop \in Nat /\ At(w) < stop /\ stop <= Loaded(w) /\ stop \in input.ends
  BY <1>2, <1>4
<1>6. v = [w EXCEPT !.pos = @ + stop - At(w), !.walked = @ + count]
  BY DEF Walk, S, count, stop
<1>7. w.pos + stop - At(w) \in Nat /\ w.walked + count \in Nat
  BY <1>1, <1>3, <1>5
<1>8. /\ v \in WindowType /\ v.pos = w.pos + stop - At(w) /\ v.walked = w.walked + count
      /\ v.cap = w.cap /\ v.filled = w.filled
      /\ v.offset = w.offset /\ v.limit = w.limit
      /\ v.front = w.front /\ v.nextEnd = w.nextEnd
  <2> HIDE DEF v
  <2> QED
    BY <1>6, <1>7 DEF Buffered, WindowType
<1>9. Walk(w, want) = v
  OBVIOUS
<1> HIDE DEF v
<1>10. At(v) = stop /\ Loaded(v) = Loaded(w)
  BY <1>1, <1>5, <1>8 DEF At, Loaded
<1>11. Buffered(v)
  BY <1>1, <1>3, <1>5, <1>8 DEF Buffered
<1>12. Guarded(w) => Guarded(v)
  BY <1>8, <1>10 DEF Guarded
<1>13. EndsIn(At(w), stop) = Upto(S, stop)
  <2>1. \A e : e \in EndsIn(At(w), stop) <=> e \in input.ends /\ At(w) < e /\ e <= stop
    BY DEF EndsIn
  <2>2. \A e : e \in Upto(S, stop) <=> e \in S /\ e <= stop
    BY DEF Upto
  <2>3. \A e \in S : e <= stop => e <= Loaded(w)
    BY <1>2
  <2>4. \A e \in input.ends : e \in Nat
    BY FileIs
  <2>5. \A e \in input.ends : e <= stop => e <= Loaded(w)
    BY <1>1, <1>5, <2>4
  <2>6. \A e : e \in EndsIn(At(w), stop) <=> e \in Upto(S, stop)
    BY <1>2, <2>1, <2>2, <2>5
  <2> QED
    BY <2>6
<1>14. Cardinality(EndsIn(At(w), At(v))) = count
  BY <1>4, <1>10, <1>13
<1>15. v.walked - w.walked \in 1 .. want
  <2>1. v.walked - w.walked = count
    BY <1>1, <1>3, <1>8
  <2> QED
    BY <1>3, <2>1
<1> QED
  BY <1>5, <1>8, <1>9, <1>10, <1>11, <1>12, <1>14, <1>15

\* Walking back to what is still buffered.
LEMMA WalkFromIs ==
  ASSUME input \in Inputs, ReaderOK, NEW w, Buffered(w), NEW index \in Nat, CanWalkFrom(w, index)
  PROVE  /\ Buffered(WalkFrom(w, index)) /\ (Guarded(w) => Guarded(WalkFrom(w, index)))
         /\ WalkFrom(w, index).cap = w.cap /\ WalkFrom(w, index).limit = w.limit
         /\ WalkFrom(w, index).offset = w.offset
         /\ index - WalkFrom(w, index).walked \in Nat
<1>1. CASE index >= w.walked
  <2>1. WalkFrom(w, index) = w
    BY <1>1 DEF WalkFrom
  <2>2. w.walked \in Nat
    BY PlacesAre
  <2> QED
    BY <1>1, <2>1, <2>2
<1>2. CASE ~(index >= w.walked)
  <2> DEFINE v == [w EXCEPT !.walked = w.front, !.pos = 0]
  <2>1. WalkFrom(w, index) = v
    BY <1>2 DEF WalkFrom
  <2>2. /\ v \in WindowType /\ v.pos = 0 /\ v.walked = w.front
        /\ v.cap = w.cap /\ v.filled = w.filled
        /\ v.offset = w.offset /\ v.limit = w.limit
        /\ v.front = w.front /\ v.nextEnd = w.nextEnd
    BY DEF Buffered, WindowType
  <2> HIDE DEF v
  <2>3. Buffered(v)
    BY <2>2, PlacesAre DEF Buffered
  <2>4. Guarded(w) => Guarded(v)
    BY <2>2 DEF Guarded, Loaded
  <2>5. index - w.front \in Nat
    BY PlacesAre DEF CanWalkFrom
  <2> QED
    BY <2>1, <2>2, <2>3, <2>4, <2>5
<1> QED
  BY <1>1, <1>2

\* A run of records: one after another, each from where the one before it ends,
\* with no record end within it.
LEMMA RecordsAre ==
  ASSUME input \in Inputs, NEW a \in Nat, NEW b \in Nat
  PROVE  /\ Records(a, b) \in Seq(Nat \X Nat)
         /\ Len(Records(a, b)) = Cardinality(EndsIn(a, b))
         /\ DOMAIN Records(a, b) = 1 .. Cardinality(EndsIn(a, b))
         /\ \A r \in DOMAIN Records(a, b) :
              /\ Records(a, b)[r][1] \in Nat /\ Records(a, b)[r][2] \in input.ends
              /\ a <= Records(a, b)[r][1] /\ Records(a, b)[r][2] <= b
              /\ Records(a, b)[r][2] \in Nat /\ Records(a, b)[r][1] < Records(a, b)[r][2]
              /\ \A e \in input.ends : ~(Records(a, b)[r][1] < e /\ e < Records(a, b)[r][2])
         /\ b \in EndsIn(a, b) => /\ Cardinality(EndsIn(a, b)) # 0
                                  /\ Records(a, b)[Cardinality(EndsIn(a, b))][2] = b
<1> DEFINE S == EndsIn(a, b)
           n == Cardinality(S)
           s == Records(a, b)
<1>1. /\ S \in SUBSET Nat /\ \A x \in S : x \in Nat /\ x <= b
      /\ \A e : e \in S <=> e \in input.ends /\ a < e /\ e <= b
      /\ IsFiniteSet(S) /\ n \in Nat /\ (n = 0 <=> S = {})
  BY EndsInHas
<1>2. s = [i \in 1 .. n |-> <<IF i = 1 THEN a ELSE Nth(S, i - 1), Nth(S, i)>>]
  BY DEF Records
<1>3. Records(a, b) = s /\ EndsIn(a, b) = S
  OBVIOUS
<1> HIDE DEF S, s
<1>4. \A i \in 1 .. n : Nth(S, i) \in S
  BY <1>1, NthIs
<1>5. ASSUME NEW i \in 1 .. n
      PROVE  /\ s[i][1] \in Nat /\ s[i][2] \in Nat /\ s[i][2] \in input.ends
             /\ a <= s[i][1] /\ s[i][2] <= b /\ s[i][1] < s[i][2]
             /\ \A e \in input.ends : ~(s[i][1] < e /\ e < s[i][2])
             /\ s[i] \in Nat \X Nat
  <2>1. Nth(S, i) \in S /\ Nth(S, i) \in Nat /\ a < Nth(S, i) /\ Nth(S, i) <= b
        /\ Nth(S, i) \in input.ends
    BY <1>1, <1>4
  <2>2. ASSUME NEW e \in input.ends, a < e, e < Nth(S, i)
        PROVE  e \in S /\ e \in Nat
    <3>1. e \in Nat
      BY FileIs
    <3>2. e <= b
      BY <2>1, <2>2, <3>1
    <3> QED
      BY <1>1, <2>2, <3>1, <3>2
  <2>3. CASE i = 1
    <3>1. s[i] = <<a, Nth(S, i)>>
      BY <1>2, <2>3
    <3>2. ASSUME NEW e \in input.ends, a < e, e < Nth(S, i) PROVE FALSE
      <4>1. e \in S
        BY <2>2, <3>2
      <4>2. i > 1
        BY <1>1, <3>2, <4>1, NthAreNext
      <4> QED
        BY <2>3, <4>2
    <3> QED
      BY <2>1, <3>1, <3>2
  <2>4. CASE i # 1
    <3>1. i - 1 \in 1 .. n
      BY <1>1, <2>4
    <3>2. s[i] = <<Nth(S, i - 1), Nth(S, i)>>
      BY <1>2, <2>4
    <3>3. Nth(S, i - 1) \in S /\ Nth(S, i - 1) \in Nat /\ a < Nth(S, i - 1)
      BY <1>1, <1>4, <3>1
    <3>4. Nth(S, i - 1) < Nth(S, i)
      <4> SUFFICES ASSUME Nth(S, i) <= Nth(S, i - 1) PROVE FALSE
        BY <2>1, <3>3
      <4>1. /\ Cardinality(Upto(S, Nth(S, i - 1))) = i - 1
            /\ Cardinality(Upto(S, Nth(S, i))) = i
        BY <1>1, <3>1, NthIs
      <4>2. Cardinality(Upto(S, Nth(S, i))) <= Cardinality(Upto(S, Nth(S, i - 1)))
        BY <1>1, <2>1, <3>3, UptoIs
      <4> QED
        BY <1>1, <4>1, <4>2
    <3>5. ASSUME NEW e \in input.ends, Nth(S, i - 1) < e, e < Nth(S, i) PROVE FALSE
      <4>1. e \in Nat
        BY FileIs
      <4>2. a < e
        BY <3>3, <3>5, <4>1
      <4>3. e \in S
        BY <2>2, <3>5, <4>2
      <4>4. e <= Nth(S, i - 1)
        BY <1>1, <3>5, <4>3, NthAreNext
      <4> QED
        BY <3>3, <3>5, <4>1, <4>4
    <3>6. a <= Nth(S, i - 1)
      BY <3>3
    <3> QED
      BY <2>1, <3>2, <3>3, <3>4, <3>5, <3>6
  <2> QED
    BY <2>3, <2>4
<1>6. s \in Seq(Nat \X Nat) /\ Len(s) = n /\ DOMAIN s = 1 .. n
  <2>1. s \in [1 .. n -> Nat \X Nat]
    <3>1. \A i \in 1 .. n : s[i] \in Nat \X Nat
      BY <1>5
    <3> HIDE DEF n
    <3> QED
      BY <1>2, <3>1
  <2>2. s \in Seq(Nat \X Nat)
    BY <1>1, <2>1, SeqDef
  <2> QED
    BY <1>1, <2>1, <2>2, LenProperties
<1>7. b \in S => n # 0 /\ s[n][2] = b
  <2> SUFFICES ASSUME b \in S PROVE n # 0 /\ s[n][2] = b
    OBVIOUS
  <2>1. n # 0 /\ S # {}
    BY <1>1
  <2>2. b <= Nth(S, n)
    BY <1>1, <2>1, LastNth
  <2>3. n \in 1 .. n
    BY <1>1, <2>1
  <2>4. s[n][2] = Nth(S, n) /\ Nth(S, n) \in S
    <3>1. s[n] = <<IF n = 1 THEN a ELSE Nth(S, n - 1), Nth(S, n)>>
      BY <1>2, <2>3
    <3> QED
      BY <1>4, <2>3, <3>1
  <2>5. Nth(S, n) \in Nat /\ Nth(S, n) <= b
    BY <1>1, <2>4
  <2> QED
    BY <2>1, <2>2, <2>4, <2>5
<1> QED
  BY <1>3, <1>5, <1>6, <1>7

--------------------------------------------------------------------------------
(***************************************************************************)
(* What every call keeps.                                                  *)
(***************************************************************************)
WatchType == [at : Seq(Nat), next : Nat \ {0}, walked : Nat, first : Int]
CallType ==
  [busy : BOOLEAN, skip : Nat, skipWhole : BOOLEAN, left : Nat, include : BOOLEAN,
   reject : BOOLEAN, spent : BOOLEAN, watch : WatchType, lookup : BOOLEAN]
CallOK ==
  /\ call \in CallType
  /\ \A j, k \in DOMAIN call.watch.at : j <= k => call.watch.at[j] <= call.watch.at[k]

\* Once it has been pointed at a span, the window guards the frame ends; if it
\* has been at one frame, it is at that frame still.
WindowInv ==
  /\ input \in Inputs /\ ReaderOK
  /\ Buffered(window)
  /\ call.busy \/ frame # 0 \/ window.limit > 0 => Guarded(window)
  /\ window.cap = BufSize \/ window.cap <= 2 * Longest
  /\ frame \in 0 .. Len(reader.frames)
  /\ frame # 0 => /\ reader.frames[frame].start <= window.offset
                  /\ window.limit = reader.frames[frame].end
  /\ CallOK
  /\ got = Refused \/ got \in Seq(Nat \X Nat)
  /\ call.busy => got \in Seq(Nat \X Nat)

\* A window of the same file, read by the same reader.
LEMMA SameFile ==
  ASSUME input' = input, reader' = reader
  PROVE  /\ ReaderOK' <=> ReaderOK
         /\ Longest' = Longest /\ Bytes' = Bytes
         /\ \A v : window' = v => /\ Buffered(window)' <=> Buffered(v)
                                  /\ Guarded(window)' <=> Guarded(v)
                                  /\ At(window)' = At(v) /\ Loaded(window)' = Loaded(v)
<1>1. Bytes' = Bytes /\ FrameEnds(input)' = FrameEnds(input)
  BY DEF Bytes, FrameEnds
<1>2. ReaderOK' <=> ReaderOK
  BY <1>1 DEF ReaderOK
<1>3. Longest' = Longest
  BY <1>1 DEF Longest
<1>4. ASSUME NEW v, window' = v
      PROVE  /\ Buffered(window)' <=> Buffered(v)
             /\ At(window)' = At(v) /\ Loaded(window)' = Loaded(v)
  BY <1>1, <1>4 DEF Buffered, At, Loaded
<1>5. ASSUME NEW v, window' = v PROVE Guarded(window)' <=> Guarded(v)
  BY <1>4, <1>5 DEF Guarded
<1> QED
  BY <1>1, <1>2, <1>3, <1>4, <1>5

\* What has been reached of the frame ends that are watched.
LEMMA ReachedIs ==
  ASSUME CallOK, NEW upto \in Nat
  PROVE  /\ IsFiniteSet(Reached(upto)) /\ Cardinality(Reached(upto)) \in Nat
         /\ Reached(upto) =
              call.watch.next .. call.watch.next + Cardinality(Reached(upto)) - 1
         /\ Reached(upto) # {} =>
              /\ Cardinality(Reached(upto)) > 0
              /\ Max(Reached(upto)) = call.watch.next + Cardinality(Reached(upto)) - 1
              /\ Max(Reached(upto)) \in Reached(upto)
         /\ \A k : k \in Reached(upto) <=>
                     /\ k \in DOMAIN call.watch.at /\ k >= call.watch.next
                     /\ call.watch.at[k] <= upto
<1> DEFINE at == call.watch.at
           next == call.watch.next
           n == Len(at)
           S == Reached(upto)
<1>1. /\ at \in Seq(Nat) /\ next \in Nat /\ n \in Nat /\ DOMAIN at = 1 .. n
      /\ \A k \in DOMAIN at : at[k] \in Nat
      /\ \A j, k \in DOMAIN at : j <= k => at[j] <= at[k]
      /\ next >= 1
  <2>1. at \in Seq(Nat) /\ next \in Nat \ {0}
    BY DEF CallOK, CallType, WatchType
  <2>2. \A j, k \in DOMAIN at : j <= k => at[j] <= at[k]
    BY DEF CallOK
  <2> HIDE DEF at
  <2> QED
    BY <2>1, <2>2, LenProperties, ElementOfSeq
<1>2. \A k : k \in S <=> k \in DOMAIN at /\ k >= next /\ at[k] <= upto
  BY DEF Reached
<1> HIDE DEF at, next, n, S
<1>3. S \in SUBSET (next .. n)
  BY <1>1, <1>2
<1>4. \A i \in S : \A j \in next .. n : j <= i => j \in S
  <2> SUFFICES ASSUME NEW i \in S, NEW j \in next .. n, j <= i PROVE j \in S
    OBVIOUS
  <2>1. j \in DOMAIN at /\ j >= next /\ i \in DOMAIN at /\ at[i] <= upto
    BY <1>1, <1>2
  <2>2. at[j] <= at[i] /\ at[j] \in Nat /\ at[i] \in Nat
    BY <1>1, <2>1
  <2> QED
    BY <1>2, <2>1, <2>2
<1>5. IsFiniteSet(S) /\ Cardinality(S) \in Nat /\ S = next .. next + Cardinality(S) - 1
  <2>1. next \in Nat /\ n \in Int
    BY <1>1
  <2> QED
    BY <2>1, <1>3, <1>4, LowerRange
<1>6. ASSUME S # {}
      PROVE  /\ Cardinality(S) > 0 /\ Max(S) = next + Cardinality(S) - 1 /\ Max(S) \in S
  <2>1. Cardinality(S) > 0
    BY <1>5, <1>6, FS_EmptySet
  <2>2. S \in SUBSET Nat /\ \A x \in S : x <= n
    BY <1>1, <1>3
  <2>3. Max(S) \in S /\ \A y \in S : y <= Max(S)
    BY <1>1, <1>6, <2>2, MaxIs
  <2>4. next + Cardinality(S) - 1 \in S /\ next + Cardinality(S) - 1 \in Nat
    BY <1>1, <1>5, <2>1
  <2>5. Max(S) \in Nat /\ Max(S) <= next + Cardinality(S) - 1
    BY <1>1, <1>5, <2>2, <2>3
  <2>6. next + Cardinality(S) - 1 <= Max(S)
    BY <2>3, <2>4
  <2> QED
    BY <2>1, <2>3, <2>4, <2>5, <2>6
<1> QED
  BY <1>2, <1>5, <1>6 DEF S, next, at

\* What the watcher is left with.
LEMMA SawIs ==
  ASSUME input \in Inputs, CallOK, NEW w, w.walked \in Nat, NEW from \in Nat, NEW upto \in Nat
  PROVE  /\ Saw(w, from, upto) \in WatchType
         /\ Saw(w, from, upto).at = call.watch.at
         /\ Saw(w, from, upto).first = call.watch.first
         /\ Saw(w, from, upto).next = call.watch.next + Cardinality(Reached(upto))
         /\ Saw(w, from, upto).walked =
              IF Reached(upto) = {} THEN call.watch.walked ELSE Before(w, from, Max(Reached(upto)))
         /\ \A k \in DOMAIN call.watch.at : Before(w, from, k) \in Nat
<1>1. call.watch \in WatchType /\ call.watch.at \in Seq(Nat)
  BY DEF CallOK, CallType, WatchType
<1>2. ASSUME NEW k \in DOMAIN call.watch.at PROVE Before(w, from, k) \in Nat
  <2>1. call.watch.at[k] \in Nat
    BY <1>1, ElementOfSeq, LenProperties
  <2>2. Cardinality(EndsIn(from, call.watch.at[k])) \in Nat
    BY <2>1, EndsInHas
  <2> QED
    BY <2>2 DEF Before
<1>3. Cardinality(Reached(upto)) \in Nat
      /\ (Reached(upto) # {} => Max(Reached(upto)) \in DOMAIN call.watch.at)
  BY ReachedIs
<1> DEFINE n == Cardinality(Reached(upto))
           b == IF Reached(upto) = {} THEN call.watch.walked ELSE Before(w, from, Max(Reached(upto)))
<1>4. b \in Nat
  <2>1. call.watch.walked \in Nat
    BY <1>1 DEF WatchType
  <2> QED
    BY <1>2, <1>3, <2>1
<1>5. Saw(w, from, upto) = [call.watch EXCEPT !.next = @ + n, !.walked = b]
  BY DEF Saw
<1> HIDE DEF n, b
<1>6. n \in Nat
  BY <1>3 DEF n
<1>7. /\ Saw(w, from, upto) \in WatchType
      /\ Saw(w, from, upto).at = call.watch.at
      /\ Saw(w, from, upto).first = call.watch.first
      /\ Saw(w, from, upto).next = call.watch.next + n
      /\ Saw(w, from, upto).walked = b
  <2>1. /\ call.watch.at \in Seq(Nat) /\ call.watch.next \in Nat \ {0} /\ call.watch.first \in Int
        /\ call.watch = [at |-> call.watch.at, next |-> call.watch.next,
                         walked |-> call.watch.walked, first |-> call.watch.first]
    BY <1>1 DEF WatchType
  <2>2. Saw(w, from, upto) = [at |-> call.watch.at, next |-> call.watch.next + n,
                              walked |-> b, first |-> call.watch.first]
    BY <1>5, <2>1
  <2>3. call.watch.next + n \in Nat \ {0}
    BY <1>6, <2>1
  <2> QED
    BY <1>4, <2>1, <2>2, <2>3 DEF WatchType
<1> QED
  BY <1>2, <1>7 DEF n, b

\* The steps of a call.
LEMMA CallIs ==
  ASSUME WindowInv
  PROVE  /\ call.busy \in BOOLEAN /\ call.skip \in Nat /\ call.left \in Nat /\ Wanted \in Nat
         /\ call.watch \in WatchType /\ call.spent \in BOOLEAN /\ call.lookup \in BOOLEAN
         /\ Idle \in CallType /\ NoWatch \in WatchType
         /\ NoWatch.at = <<>> /\ NoWatch.next = 1 /\ NoWatch.walked = 0
         /\ Idle.busy = FALSE /\ Idle.watch = NoWatch
         /\ DOMAIN Idle.watch.at = {} /\ DOMAIN NoWatch.at = {}
BY DEF WindowInv, CallOK, CallType, WatchType, Wanted, Idle, NoWatch

LEMMA TakeRunKeeps ==
  ASSUME WindowInv, TakeRun
  PROVE  WindowInv'
<1> DEFINE w == Walk(window, Wanted)
           count == w.walked - window.walked
           from == At(window)
           upto == At(w)
<1>1. /\ input' = input /\ reader' = reader /\ frame' = frame /\ window' = w
      /\ Walking /\ Held(window) # {}
      /\ IF SawUneven(window, from, upto) THEN Answer(Refused)
         ELSE /\ call' = [call EXCEPT
                            !.skip = IF call.skip > 0 THEN @ - count ELSE @,
                            !.left = IF call.skip > 0 THEN @ ELSE @ - count,
                            !.watch = Saw(window, from, upto)]
              /\ got' = IF call.skip > 0 THEN got ELSE got \o Records(from, upto)
  BY DEF TakeRun
<1>2. /\ input \in Inputs /\ ReaderOK /\ Buffered(window) /\ Guarded(window)
      /\ call.busy = TRUE /\ Wanted \in Nat \ {0} /\ CallOK
  <2>1. call.busy \in BOOLEAN /\ Wanted \in Nat
    BY CallIs
  <2>2. call.busy = TRUE /\ Wanted \in Nat \ {0}
    BY <1>1, <2>1 DEF Walking
  <2> QED
    BY <2>2 DEF WindowInv
<1>3. /\ Buffered(w) /\ Guarded(w) /\ w.cap = window.cap /\ w.limit = window.limit
      /\ w.offset = window.offset /\ count \in 1 .. Wanted
  BY <1>1, <1>2, WalkIs
<1>4. from \in Nat /\ upto \in Nat /\ window.walked \in Nat
  BY <1>2, <1>3, PlacesAre
<1> HIDE DEF w, count, from, upto
<1>5. Buffered(window)' /\ Guarded(window)' /\ ReaderOK' /\ Longest' = Longest
  BY <1>1, <1>2, <1>3, SameFile
<1>6. CallOK' /\ (got' = Refused \/ got' \in Seq(Nat \X Nat))
      /\ (call'.busy => got' \in Seq(Nat \X Nat))
  <2>1. CASE SawUneven(window, from, upto)
    <3>1. got' = Refused /\ call' = Idle
      BY <1>1, <2>1 DEF Answer
    <3>2. call'.busy = FALSE /\ call' \in CallType /\ DOMAIN call'.watch.at = {}
      BY <3>1, CallIs
    <3>3. CallOK'
      BY <3>2 DEF CallOK
    <3> QED
      BY <3>1, <3>2, <3>3
  <2>2. CASE ~SawUneven(window, from, upto)
    <3> DEFINE u == Saw(window, from, upto)
               s == IF call.skip > 0 THEN call.skip - count ELSE call.skip
               l == IF call.skip > 0 THEN call.left ELSE call.left - count
    <3>1. call' = [call EXCEPT !.skip = s, !.left = l, !.watch = u]
      BY <1>1, <2>2
    <3>2. u \in WatchType /\ u.at = call.watch.at
      BY <1>2, <1>4, SawIs
    <3>3. s \in Nat /\ l \in Nat
      <4>1. call.skip \in Nat /\ call.left \in Nat /\ Wanted = IF call.skip > 0 THEN call.skip ELSE call.left
        BY CallIs DEF Wanted
      <4> QED
        BY <1>3, <4>1
    <3> HIDE DEF u, s, l
    <3>4. call' \in CallType /\ call'.watch = u
      BY <1>2, <3>1, <3>2, <3>3 DEF CallOK, CallType
    <3>5. CallOK'
      BY <1>2, <3>2, <3>4 DEF CallOK
    <3>6. got \in Seq(Nat \X Nat) /\ Records(from, upto) \in Seq(Nat \X Nat)
      BY <1>2, <1>4, RecordsAre DEF WindowInv
    <3>7. got' \in Seq(Nat \X Nat)
      <4>1. got \o Records(from, upto) \in Seq(Nat \X Nat)
        BY <3>6, ConcatProperties
      <4>2. got' = IF call.skip > 0 THEN got ELSE got \o Records(from, upto)
        BY <1>1, <2>2
      <4> QED
        BY <3>6, <4>1, <4>2
    <3> QED
      BY <3>5, <3>7
  <2> QED
    BY <2>1, <2>2
<1> QED
  BY <1>1, <1>2, <1>3, <1>5, <1>6 DEF WindowInv

LEMMA ReadMoreKeeps ==
  ASSUME WindowInv, ReadMore
  PROVE  /\ WindowInv'
         /\ ~CutsARecord(window) => At(window)' = At(window) /\ window'.walked = window.walked
         /\ window'.limit = window.limit /\ window.offset <= window'.offset
<1>1. /\ input' = input /\ reader' = reader /\ frame' = frame
      /\ Walking /\ Held(window) = {}
  BY DEF ReadMore
<1>2. /\ input \in Inputs /\ ReaderOK /\ Buffered(window) /\ Guarded(window)
      /\ call.busy = TRUE /\ CallOK /\ got \in Seq(Nat \X Nat)
      /\ window.cap = BufSize \/ window.cap <= 2 * Longest
  BY <1>1, CallIs DEF WindowInv, Walking
<1> DEFINE g == Grown(window)
<1>3. /\ Buffered(g) /\ Guarded(g) /\ At(g) = At(window) /\ Loaded(g) = Loaded(window)
      /\ g.pos = window.pos /\ g.filled = window.filled /\ g.offset = window.offset
      /\ g.limit = window.limit /\ g.walked = window.walked /\ g.nextEnd = window.nextEnd
      /\ \/ g.cap = window.cap
         \/ g.cap = 2 * window.cap /\ window.cap <= Longest
  BY <1>1, <1>2, GrownIs
<1>4. g.cap = BufSize \/ g.cap <= 2 * Longest
  <2>1. Longest \in Nat /\ window.cap \in Nat
    <3>1. Bytes \in Nat /\ EndsIn(0, 0) = {}
      <4>1. \A e \in input.ends : ~(0 < e /\ e <= 0)
        BY <1>2, FileIs
      <4> QED
        BY <1>2, <4>1, FileIs DEF EndsIn
    <3>2. Longest \in Nat
      <4>1. 0 \in Nat /\ 0 <= 0 /\ 0 <= Bytes
        BY <3>1
      <4> QED
        BY <1>2, <3>1, <4>1, NoneEndsWithin
    <3> QED
      BY <1>2, <3>2, PlacesAre
  <2> HIDE DEF g
  <2> QED
    BY <1>2, <1>3, <2>1
<1>5. CASE CutsARecord(window)
  <2>1. window' = g /\ got' = Refused /\ call' = Idle
    <3>1. \/ window' = g /\ Answer(Refused)
          \/ ~CutsARecord(window)
      BY DEF ReadMore
    <3> QED
      BY <1>5, <3>1 DEF Answer
  <2> HIDE DEF g
  <2>2. Buffered(window)' /\ Guarded(window)' /\ ReaderOK' /\ Longest' = Longest
    BY <1>1, <1>2, <1>3, <2>1, SameFile
  <2>3. CallOK'
    BY <2>1, CallIs DEF CallOK
  <2>4. WindowInv'
    BY <1>1, <1>2, <1>3, <1>4, <2>1, <2>2, <2>3, CallIs DEF WindowInv
  <2>5. window'.limit = window.limit /\ window.offset <= window'.offset
    BY <1>2, <1>3, <2>1, PlacesAre
  <2> QED
    BY <1>5, <2>4, <2>5
<1>6. CASE ~CutsARecord(window)
  <2> DEFINE s == Slid(g)
  <2>1. window' \in Filled(s) /\ call' = call /\ got' = got
    BY <1>6 DEF ReadMore
  <2>2. ~CutsARecord(g)
    <3>1. Passed(g) = Passed(window)
      BY <1>3 DEF Passed
    <3> QED
      BY <1>3, <1>6, <3>1 DEF CutsARecord
  <2> HIDE DEF g
  <2>3. /\ Buffered(s) /\ Guarded(s) /\ At(s) = At(g)
        /\ s.cap = g.cap /\ s.limit = g.limit /\ s.walked = g.walked
        /\ s.offset = g.offset + g.pos
    BY <1>2, <1>3, <2>2, SlidIs
  <2> HIDE DEF s
  <2>4. PICK v \in Filled(s) : window' = v
    BY <2>1
  <2>5. /\ Buffered(v) /\ Guarded(v) /\ At(v) = At(s)
        /\ v.cap = s.cap /\ v.limit = s.limit /\ v.walked = s.walked /\ v.offset = s.offset
    BY <1>2, <2>3, FilledIs
  <2>6. Buffered(window)' /\ Guarded(window)' /\ ReaderOK' /\ Longest' = Longest
        /\ At(window)' = At(v)
    BY <1>1, <1>2, <2>4, <2>5, SameFile
  <2>7. CallOK'
    BY <1>2, <2>1 DEF CallOK
  <2>8. window'.limit = window.limit /\ window.offset <= window'.offset
        /\ window'.walked = window.walked /\ At(window)' = At(window) /\ window'.cap = g.cap
        /\ window.offset \in Nat /\ window'.offset \in Nat
    <3>1. window.offset \in Nat /\ window.pos \in Nat
      BY <1>2, PlacesAre
    <3> QED
      BY <1>3, <2>3, <2>4, <2>5, <2>6, <3>1
  <2>9. WindowInv'
    <3>1. input' \in Inputs /\ ReaderOK' /\ Buffered(window)'
      BY <1>1, <1>2, <2>6
    <3>2. (call.busy \/ frame # 0 \/ window.limit > 0 => Guarded(window))'
      BY <2>6
    <3>3. (window.cap = BufSize \/ window.cap <= 2 * Longest)'
      BY <1>4, <2>6, <2>8
    <3>4. (frame \in 0 .. Len(reader.frames))'
      BY <1>1 DEF WindowInv
    <3>5. (frame # 0 => /\ reader.frames[frame].start <= window.offset
                       /\ window.limit = reader.frames[frame].end)'
      <4> SUFFICES ASSUME frame # 0
                   PROVE  /\ reader.frames[frame].start <= window'.offset
                          /\ window'.limit = reader.frames[frame].end
        BY <1>1
      <4>1. frame \in DOMAIN reader.frames
        BY <1>2 DEF WindowInv, ReaderOK
      <4>2. reader.frames[frame].start \in Nat
        BY <1>2, <4>1 DEF ReaderOK
      <4> QED
        BY <2>8, <4>2 DEF WindowInv
    <3>6. CallOK' /\ got' \in Seq(Nat \X Nat)
      BY <1>2, <2>1, <2>7
    <3> QED
      BY <3>1, <3>2, <3>3, <3>4, <3>5, <3>6 DEF WindowInv
  <2> QED
    BY <2>8, <2>9
<1> QED
  BY <1>5, <1>6

\* The steps at the end of a call leave the window where it is, but for a
\* fragment, which is taken whole.
LEMMA RunOutKeeps ==
  ASSUME WindowInv, RunOutSkipping \/ RunOutHanding \/ Finish
  PROVE  WindowInv'
<1>1. input' = input /\ reader' = reader /\ frame' = frame
  BY DEF RunOutSkipping, RunOutHanding, Finish
<1>2. /\ input \in Inputs /\ ReaderOK /\ Buffered(window) /\ Guarded(window)
      /\ call.busy = TRUE /\ CallOK /\ got \in Seq(Nat \X Nat)
      /\ call.skip \in Nat /\ call.left \in Nat
  BY CallIs DEF WindowInv, Walking, RunOutSkipping, RunOutHanding, Finish
<1>3. ASSUME Answer(Refused) \/ Answer(got)
      PROVE  CallOK' /\ ~call'.busy /\ (got' = Refused \/ got' \in Seq(Nat \X Nat))
  <2>1. call' = Idle /\ (got' = Refused \/ got' = got)
    BY <1>3 DEF Answer
  <2> QED
    <3>1. Idle.busy = FALSE /\ Idle \in CallType /\ DOMAIN Idle.watch.at = {}
      BY CallIs
    <3>2. CallOK'
      BY <2>1, <3>1 DEF CallOK
    <3> QED
      BY <1>2, <2>1, <3>1, <3>2
<1>4. ASSUME NEW s \in Nat, NEW l \in Nat, call' = [call EXCEPT !.skip = s, !.left = l, !.spent = TRUE]
      PROVE  CallOK'
  <2>1. call' \in CallType /\ call'.watch = call.watch
    BY <1>2, <1>4 DEF CallOK, CallType
  <2> QED
    BY <1>2, <2>1 DEF CallOK
<1>5. ASSUME window' = window, CallOK', got' = Refused \/ got' \in Seq(Nat \X Nat),
             call'.busy => got' \in Seq(Nat \X Nat)
      PROVE  WindowInv'
  <2>1. Buffered(window)' /\ Guarded(window)' /\ ReaderOK' /\ Longest' = Longest
    BY <1>1, <1>2, <1>5, SameFile
  <2> QED
    BY <1>1, <1>2, <1>5, <2>1 DEF WindowInv
<1>6. CASE RunOutSkipping
  <2>1. window' = window
    BY <1>6 DEF RunOutSkipping
  <2>2. CASE Answer(Refused)
    BY <1>3, <1>5, <2>1, <2>2
  <2>3. CASE ~Answer(Refused)
    <3>1. call' = [call EXCEPT !.skip = 0, !.spent = TRUE] /\ got' = got
      BY <1>6, <2>3 DEF RunOutSkipping
    <3>2. call' = [call EXCEPT !.skip = 0, !.left = call.left, !.spent = TRUE]
      BY <1>2, <3>1 DEF CallOK, CallType
    <3>3. CallOK'
      BY <1>2, <1>4, <3>2
    <3> QED
      BY <1>2, <1>5, <2>1, <3>1, <3>3
  <2> QED
    BY <2>2, <2>3
<1>7. CASE Finish
  <2>1. window' = window /\ (Answer(Refused) \/ Answer(got))
    BY <1>7 DEF Finish
  <2> QED
    BY <1>3, <1>5, <2>1
<1>8. CASE RunOutHanding
  <2>1. Walking /\ call.skip = 0 /\ call.left - 1 \in Nat
    BY <1>2, <1>8 DEF RunOutHanding, Walking, Wanted
  <2>2. CASE window.pos < window.filled /\ call.reject
    <3>1. Answer(Refused) /\ window' = window
      BY <1>8, <2>2 DEF RunOutHanding
    <3> QED
      BY <1>3, <1>5, <3>1
  <2>3. CASE ~(window.pos < window.filled /\ call.reject) /\ ~(window.pos < window.filled /\ call.include)
    <3>1. call' = [call EXCEPT !.spent = TRUE] /\ window' = window /\ got' = got
      BY <1>8, <2>3 DEF RunOutHanding
    <3>2. call' = [call EXCEPT !.skip = call.skip, !.left = call.left, !.spent = TRUE]
      BY <1>2, <3>1 DEF CallOK, CallType
    <3>3. CallOK'
      BY <1>2, <1>4, <3>2
    <3> QED
      BY <1>2, <1>5, <3>1, <3>3
  <2>4. CASE ~(window.pos < window.filled /\ call.reject) /\ window.pos < window.filled /\ call.include
    <3> DEFINE v == [window EXCEPT !.pos = window.filled]
    <3>1. /\ got' = Append(got, <<At(window), Loaded(window)>>)
          /\ call' = [call EXCEPT !.left = @ - 1, !.spent = TRUE]
          /\ window' = v
      BY <1>8, <2>4 DEF RunOutHanding
    <3>2. CallOK'
      <4>1. call' = [call EXCEPT !.skip = call.skip, !.left = call.left - 1, !.spent = TRUE]
        BY <1>2, <3>1 DEF CallOK, CallType
      <4> QED
        BY <1>2, <1>4, <2>1, <4>1
    <3>3. got' \in Seq(Nat \X Nat)
      <4>1. <<At(window), Loaded(window)>> \in Nat \X Nat
        BY <1>2, PlacesAre
      <4> QED
        BY <1>2, <3>1, <4>1, AppendProperties
    <3>4. /\ v \in WindowType /\ v.pos = window.filled /\ v.walked = window.walked
          /\ v.cap = window.cap /\ v.filled = window.filled
          /\ v.offset = window.offset /\ v.limit = window.limit
          /\ v.front = window.front /\ v.nextEnd = window.nextEnd
      BY <1>2 DEF Buffered, WindowType
    <3> HIDE DEF v
    <3>5. Buffered(v) /\ Guarded(v)
      <4>1. window.filled \in Nat
        BY <1>2, PlacesAre
      <4> QED
        BY <1>2, <3>4, <4>1 DEF Buffered, Guarded, Loaded
    <3>6. Buffered(window)' /\ Guarded(window)' /\ ReaderOK' /\ Longest' = Longest
      BY <1>1, <1>2, <3>1, <3>5, SameFile
    <3> QED
      BY <1>1, <1>2, <3>1, <3>2, <3>3, <3>4, <3>6 DEF WindowInv
  <2> QED
    BY <2>2, <2>3, <2>4
<1> QED
  BY <1>6, <1>7, <1>8

LEMMA StepKeeps ==
  ASSUME WindowInv, Step
  PROVE  WindowInv'
BY TakeRunKeeps, ReadMoreKeeps, RunOutKeeps DEF Step

\* Beginning a call.
LEMMA ReadSpanKeeps ==
  ASSUME WindowInv, NEW first \in DOMAIN reader.frames, NEW last \in DOMAIN reader.frames,
         first <= last, NEW skip \in Nat, NEW left \in Nat, NEW watch \in WatchType,
         \A j, k \in DOMAIN watch.at : j <= k => watch.at[j] <= watch.at[k],
         ReadSpan(first, last, skip, left, watch)
  PROVE  /\ WindowInv'
         /\ call'.busy = TRUE /\ call'.watch = watch /\ call'.lookup = FALSE
         /\ window'.offset = reader.frames[first].start /\ window'.pos = 0
         /\ window'.limit = reader.frames[last].end /\ window'.walked = 0
<1> DEFINE start == reader.frames[first].start
           end == reader.frames[last].end
           v == SeekTo(window, start, end - start)
<1>1. /\ input' = input /\ reader' = reader /\ frame' = 0 /\ got' = <<>> /\ window' = v
      /\ call' = Cursor(skip, TRUE, left,
                        reader.frames[last].end = reader.frames[Len(reader.frames)].end, watch)
  BY DEF ReadSpan
<1>2. input \in Inputs /\ ReaderOK /\ Buffered(window)
      /\ (window.cap = BufSize \/ window.cap <= 2 * Longest)
  BY DEF WindowInv
<1>3. start \in Nat /\ end \in Nat /\ start <= end /\ reader.base + end <= Bytes
      /\ reader.base \in Nat /\ Bytes \in Nat
  BY <1>2, FileIs DEF ReaderOK
<1> HIDE DEF start, end
<1>4. /\ Buffered(v) /\ Guarded(v) /\ v.cap = window.cap /\ v.offset = start /\ v.pos = 0
      /\ v.limit = start + (end - start) /\ v.walked = 0
  <2>1. end - start \in Nat /\ reader.base + start + (end - start) <= Bytes
    BY <1>3
  <2> QED
    BY <1>2, <1>3, <2>1, SeekToIs
<1>5. v.limit = end
  BY <1>3, <1>4
<1> HIDE DEF v
<1>6. Buffered(window)' /\ Guarded(window)' /\ ReaderOK' /\ Longest' = Longest
  BY <1>1, <1>2, <1>4, SameFile
<1>7. CallOK' /\ call'.busy = TRUE /\ call'.watch = watch /\ call'.lookup = FALSE
  <2>1. input.separated \in BOOLEAN
    BY <1>2, FileIs
  <2>2. call' \in CallType /\ call'.busy = TRUE /\ call'.watch = watch /\ call'.lookup = FALSE
    BY <1>1, <2>1 DEF Cursor, CallType
  <2> QED
    BY <2>2 DEF CallOK
<1>8. frame' \in 0 .. Len(reader'.frames) /\ got' \in Seq(Nat \X Nat)
  BY <1>1, <1>2 DEF ReaderOK
<1>9. WindowInv'
  BY <1>1, <1>2, <1>4, <1>6, <1>7, <1>8 DEF WindowInv
<1> QED
  BY <1>1, <1>4, <1>5, <1>7, <1>9 DEF start, end

LEMMA LookUpKeeps ==
  ASSUME WindowInv, NEW f \in DOMAIN reader.frames, NEW index \in Nat,
         NEW noted \in {0, frame}, LookUp(f, index, noted)
  PROVE  WindowInv' /\ call'.busy = TRUE /\ call'.watch = NoWatch /\ call'.lookup = TRUE
<1> DEFINE start == reader.frames[f].start
           end == reader.frames[f].end
           old == noted = f /\ CanWalkFrom(window, index)
           v == IF noted = f /\ CanWalkFrom(window, index) THEN WalkFrom(window, index)
                ELSE SeekTo(window, start, end - start)
<1>1. /\ input' = input /\ reader' = reader /\ frame' = f /\ got' = <<>> /\ window' = v
      /\ call' = Cursor(index - v.walked, FALSE, 1, f = Len(reader.frames), NoWatch)
  BY DEF LookUp
<1>2. input \in Inputs /\ ReaderOK /\ Buffered(window)
      /\ (window.cap = BufSize \/ window.cap <= 2 * Longest)
  BY DEF WindowInv
<1>3. start \in Nat /\ end \in Nat /\ start <= end /\ reader.base + end <= Bytes
      /\ reader.base \in Nat /\ Bytes \in Nat
  BY <1>2, FileIs DEF ReaderOK
<1>4. /\ Buffered(v) /\ Guarded(v) /\ v.cap = window.cap
      /\ start <= v.offset /\ v.limit = end /\ index - v.walked \in Nat
  <2>1. CASE noted = f /\ CanWalkFrom(window, index)
    <3>1. v = WalkFrom(window, index)
      BY <2>1
    <3>2. frame # 0 /\ frame = f
      BY <1>2, <2>1 DEF ReaderOK
    <3>3. Guarded(window) /\ start <= window.offset /\ window.limit = end
      BY <3>2 DEF WindowInv
    <3> HIDE DEF start, end, v
    <3> QED
      BY <1>2, <2>1, <3>1, <3>3, WalkFromIs
  <2>2. CASE ~(noted = f /\ CanWalkFrom(window, index))
    <3> DEFINE len == end - start
    <3>1. v = SeekTo(window, start, len)
      BY <2>2
    <3>2. len \in Nat /\ reader.base + start + len <= Bytes /\ start + len = end
      <4> HIDE DEF start, end
      <4> QED
        BY <1>3
    <3> HIDE DEF start, end, v, len
    <3>3. /\ Buffered(v) /\ Guarded(v) /\ v.cap = window.cap /\ v.offset = start
          /\ v.limit = start + len /\ v.walked = 0
      BY <1>2, <1>3, <3>1, <3>2, SeekToIs
    <3> QED
      BY <1>3, <3>2, <3>3
  <2> QED
    BY <2>1, <2>2
<1> HIDE DEF v
<1>5. Buffered(window)' /\ Guarded(window)' /\ ReaderOK' /\ Longest' = Longest
  BY <1>1, <1>2, <1>4, SameFile
<1>6. CallOK' /\ call'.busy = TRUE /\ call'.watch = NoWatch /\ call'.lookup = TRUE
  <2>1. input.separated \in BOOLEAN
    BY <1>2, FileIs
  <2>2. call' \in CallType /\ call'.busy = TRUE /\ call'.watch = NoWatch /\ call'.lookup = TRUE
    BY <1>1, <1>4, <2>1, CallIs DEF Cursor, CallType
  <2> QED
    BY <2>2, CallIs DEF CallOK
<1>7. frame' \in 0 .. Len(reader'.frames) /\ got' \in Seq(Nat \X Nat)
  BY <1>1, <1>2 DEF ReaderOK
<1>8. WindowInv'
  BY <1>1, <1>2, <1>4, <1>5, <1>6, <1>7 DEF WindowInv
<1> QED
  BY <1>6, <1>8

LEMMA GoOnKeeps ==
  ASSUME WindowInv, window.limit > 0, NEW left \in Nat, NEW final \in BOOLEAN, GoOn(left, final)
  PROVE  WindowInv'
<1>1. /\ input' = input /\ reader' = reader /\ frame' = frame /\ window' = window /\ got' = <<>>
      /\ call' = Cursor(0, TRUE, left, final, NoWatch)
  BY DEF GoOn
<1>2. input \in Inputs /\ ReaderOK /\ Buffered(window) /\ Guarded(window)
  BY DEF WindowInv
<1>3. Buffered(window)' /\ Guarded(window)' /\ ReaderOK' /\ Longest' = Longest
  BY <1>1, <1>2, SameFile
<1>4. CallOK'
  <2>1. input.separated \in BOOLEAN
    BY <1>2, FileIs
  <2>2. call' \in CallType /\ call'.watch = NoWatch
    BY <1>1, <2>1, CallIs DEF Cursor, CallType
  <2> QED
    BY <2>2, CallIs DEF CallOK
<1>5. got' \in Seq(Nat \X Nat)
  BY <1>1
<1> QED
  BY <1>1, <1>2, <1>3, <1>4, <1>5 DEF WindowInv

\* Opening a reader.
LEMMA OpenedAtKeeps ==
  ASSUME input \in Inputs, NEW r, OpenedAt(r), ReaderOK
  PROVE  WindowInv
<1>1. /\ window = [offset |-> 0, limit |-> 0 + 0, cap |-> BufSize, filled |-> 0, pos |-> 0,
                   eof |-> FALSE, walked |-> 0, front |-> 0, nextEnd |-> 1]
      /\ frame = 0 /\ call = Idle /\ got = <<>>
  BY DEF OpenedAt, Cleared
<1>2. Buffered(window)
  <2>1. window \in WindowType
    BY <1>1, BufSizeAssumption DEF WindowType
  <2> QED
    BY <1>1, <2>1, BufSizeAssumption, FileIs DEF Buffered, ReaderOK
<1>3. CallOK
  <2>1. call \in CallType /\ call.watch.at = <<>>
    BY <1>1 DEF Idle, NoWatch, CallType, WatchType
  <2> QED
    BY <2>1 DEF CallOK
<1>4. call.busy = FALSE
  BY <1>1 DEF Idle
<1>5. frame \in 0 .. Len(reader.frames) /\ got \in Seq(Nat \X Nat) /\ window.limit = 0
      /\ window.cap = BufSize
  BY <1>1 DEF ReaderOK
<1> QED
  BY <1>1, <1>2, <1>3, <1>4, <1>5 DEF WindowInv

--------------------------------------------------------------------------------
(***************************************************************************)
(* What a window over a span counts.                                       *)
(***************************************************************************)
\* How many records end behind a place and up to another, which is none
\* when the other is not behind it.
LEMMA CountIs ==
  ASSUME input \in Inputs, NEW a \in Nat, NEW b \in Nat
  PROVE  /\ Cardinality(EndsIn(a, b)) \in Nat
         /\ b <= a => EndsIn(a, b) = {} /\ Cardinality(EndsIn(a, b)) = 0
<1>1. Cardinality(EndsIn(a, b)) \in Nat /\ (Cardinality(EndsIn(a, b)) = 0 <=> EndsIn(a, b) = {})
  BY EndsInHas
<1>2. ASSUME b <= a PROVE EndsIn(a, b) = {}
  <2>1. ASSUME NEW e \in EndsIn(a, b) PROVE FALSE
    <3>1. e \in Nat /\ a < e /\ e <= b
      BY EndsInHas
    <3> QED
      BY <1>2, <3>1
  <2> QED
    BY <2>1
<1> QED
  BY <1>1, <1>2

\* The records up to a place and from there on are those of both.
LEMMA CountSplit ==
  ASSUME input \in Inputs, NEW a \in Nat, NEW b \in Nat, NEW c \in Nat, a <= b, b <= c
  PROVE  Cardinality(EndsIn(a, c)) = Cardinality(EndsIn(a, b)) + Cardinality(EndsIn(b, c))
BY EndsInSplit

\* It has taken the fragment that the file ends with.
Taken(w) ==
  w.eof /\ w.pos = w.filled /\ reader.base + w.limit = Bytes /\ Bytes \notin input.ends

\* Where records begin in a window that was placed at some place, how many ended
\* before, and that it holds the rest of its span once that is spent.
Counted(w, placed) ==
  /\ placed <= reader.base + w.offset
  /\ reader.base + w.offset \in input.ends \cup {placed}
  /\ w.front = Cardinality(EndsIn(placed, reader.base + w.offset))
  /\ w.walked = Cardinality(EndsIn(placed, At(w)))
  /\ At(w) \in input.ends \cup {placed} \/ Taken(w)
  /\ w.eof => Loaded(w) = reader.base + w.limit

\* A window that is placed counts from there.
LEMMA SeekToCounts ==
  ASSUME input \in Inputs, ReaderOK, NEW w, NEW start \in Nat, NEW len \in Nat
  PROVE  Counted(SeekTo(w, start, len), reader.base + start)
<1> DEFINE v == SeekTo(w, start, len)
           p == reader.base + start
<1>1. /\ v.offset = start /\ v.pos = 0 /\ v.walked = 0 /\ v.front = 0 /\ v.eof = FALSE
  BY DEF SeekTo, Cleared
<1> HIDE DEF v
<1>2. p \in Nat /\ At(v) = p /\ reader.base + v.offset = p
  BY <1>1 DEF At, ReaderOK
<1>3. Cardinality(EndsIn(p, p)) = 0
  BY <1>2, CountIs
<1> HIDE DEF p
<1>4. Counted(v, p)
  BY <1>1, <1>2, <1>3 DEF Counted
<1> QED
  BY <1>4 DEF v, p

\* Walking over records counts them.
LEMMA WalkCounts ==
  ASSUME input \in Inputs, ReaderOK, NEW w, Buffered(w), NEW want \in Nat \ {0}, Held(w) # {},
         NEW placed \in Nat, Counted(w, placed)
  PROVE  Counted(Walk(w, want), placed)
<1> DEFINE v == Walk(w, want)
<1>1. /\ v.offset = w.offset /\ v.limit = w.limit
      /\ At(v) \in input.ends /\ At(w) < At(v)
      /\ v.walked = w.walked + Cardinality(EndsIn(At(w), At(v)))
      /\ Buffered(v)
  BY WalkIs
<1>2. v.front = w.front /\ v.eof = w.eof /\ v.filled = w.filled
  BY DEF Walk, Buffered, WindowType
<1> HIDE DEF v
<1>3. /\ At(w) \in Nat /\ At(v) \in Nat /\ reader.base \in Nat /\ w.offset \in Nat /\ w.pos \in Nat
      /\ At(w) = reader.base + w.offset + w.pos
  BY <1>1, PlacesAre
<1>4. /\ placed <= reader.base + w.offset /\ w.walked = Cardinality(EndsIn(placed, At(w)))
  BY DEF Counted
<1>5. placed <= At(w)
  BY <1>3, <1>4
<1>6. v.walked = Cardinality(EndsIn(placed, At(v)))
  <2> DEFINE a == At(w)
             b == At(v)
  <2>1. a \in Nat /\ b \in Nat /\ placed <= a /\ a <= b
    BY <1>1, <1>3, <1>5
  <2> HIDE DEF a, b
  <2>2. Cardinality(EndsIn(placed, b)) = Cardinality(EndsIn(placed, a)) + Cardinality(EndsIn(a, b))
    BY <2>1, CountSplit
  <2> QED
    BY <1>1, <1>4, <2>2 DEF a, b
<1>7. Loaded(v) = Loaded(w)
  BY <1>1, <1>2 DEF Loaded
<1>8. Counted(v, placed)
  BY <1>1, <1>2, <1>6, <1>7 DEF Counted
<1> QED
  BY <1>8 DEF v

\* Going on from where a window is, or from its front, keeps what is counted.
LEMMA WalkFromCounts ==
  ASSUME input \in Inputs, ReaderOK, NEW w, Buffered(w), NEW index \in Nat,
         NEW placed \in Nat, Counted(w, placed)
  PROVE  Counted(WalkFrom(w, index), placed)
<1>1. CASE index >= w.walked
  BY <1>1 DEF WalkFrom
<1>2. CASE ~(index >= w.walked)
  <2> DEFINE v == [w EXCEPT !.walked = w.front, !.pos = 0]
  <2>1. WalkFrom(w, index) = v
    BY <1>2 DEF WalkFrom
  <2>2. /\ v.pos = 0 /\ v.walked = w.front /\ v.filled = w.filled
        /\ v.offset = w.offset /\ v.limit = w.limit /\ v.front = w.front /\ v.eof = w.eof
    BY DEF Buffered, WindowType
  <2> HIDE DEF v
  <2>3. reader.base \in Nat /\ w.offset \in Nat
    BY PlacesAre
  <2>4. At(v) = reader.base + w.offset /\ Loaded(v) = Loaded(w)
    BY <2>2, <2>3 DEF At, Loaded
  <2>5. Counted(v, placed)
    BY <2>2, <2>4 DEF Counted
  <2> QED
    BY <2>1, <2>5
<1> QED
  BY <1>1, <1>2

\* Where the buffer slides, the record at its front is the one the walk is on, and
\* the frame ends that are reached are behind.
LEMMA SlidCounts ==
  ASSUME input \in Inputs, ReaderOK, NEW w, Buffered(w), Guarded(w), ~CutsARecord(w),
         NEW placed \in Nat, Counted(w, placed), ~w.eof
  PROVE  /\ Counted(Slid(w), placed) /\ ~Slid(w).eof
         /\ Slid(w).pos = 0 /\ Slid(w).filled = w.filled - w.pos
         /\ \A i \in DOMAIN reader.guard : i >= Slid(w).nextEnd => Loaded(w) < reader.guard[i]
<1> DEFINE v == Slid(w)
           c == Passed(w)
           S == {i \in DOMAIN reader.guard : i >= w.nextEnd /\ reader.guard[i] = Loaded(w)}
           n == Len(reader.guard)
<1>1. /\ Buffered(v) /\ At(v) = At(w) /\ Loaded(v) = Loaded(w)
      /\ v.limit = w.limit /\ v.walked = w.walked /\ v.offset = w.offset + w.pos
  BY SlidIs
<1>2. /\ v.pos = 0 /\ v.filled = w.filled - w.pos /\ v.front = Front(w) /\ v.eof = w.eof
      /\ v.nextEnd = w.nextEnd + c
  <2>1. v = [w EXCEPT !.nextEnd = @ + c, !.filled = @ - w.pos, !.offset = @ + w.pos,
                      !.pos = 0, !.front = Front(w)]
    BY DEF Slid
  <2>2. DOMAIN w = {"offset", "limit", "cap", "filled", "pos", "eof", "walked", "front", "nextEnd"}
    BY DEF Buffered, WindowType
  <2> HIDE DEF v, c
  <2> QED
    BY <2>1, <2>2
<1>3. /\ n \in Nat /\ DOMAIN reader.guard = 1 .. n
      /\ \A i \in DOMAIN reader.guard : reader.guard[i] \in Nat
      /\ \A i, j \in DOMAIN reader.guard : i <= j => reader.guard[i] <= reader.guard[j]
  BY GuardIs
<1>4. /\ At(w) \in Nat /\ Loaded(w) \in Nat /\ w.nextEnd \in Nat /\ 1 <= w.nextEnd
      /\ At(w) = reader.base + w.offset + w.pos
      /\ reader.base \in Nat /\ w.offset \in Nat /\ w.pos \in Nat
  BY PlacesAre DEF Buffered
<1> HIDE DEF v
<1>5. \A i \in DOMAIN reader.guard : i >= w.nextEnd => Loaded(w) <= reader.guard[i]
  <2> SUFFICES ASSUME NEW i \in DOMAIN reader.guard, i >= w.nextEnd
               PROVE  Loaded(w) <= reader.guard[i]
    OBVIOUS
  <2>1. ~(i < w.nextEnd)
    BY <1>3, <1>4
  <2> QED
    BY <2>1 DEF Guarded
<1>6. S \in SUBSET (w.nextEnd .. n) /\ \A i \in S : \A j \in w.nextEnd .. n : j <= i => j \in S
  <2>1. S \in SUBSET (w.nextEnd .. n)
    BY <1>3, <1>4
  <2>2. ASSUME NEW i \in S, NEW j \in w.nextEnd .. n, j <= i PROVE j \in S
    <3>1. j \in DOMAIN reader.guard /\ j >= w.nextEnd /\ i \in DOMAIN reader.guard
      BY <1>3, <1>4
    <3>2. /\ Loaded(w) <= reader.guard[j] /\ reader.guard[j] <= reader.guard[i]
          /\ reader.guard[i] = Loaded(w) /\ reader.guard[j] \in Nat
      BY <1>3, <1>5, <2>2, <3>1
    <3>3. reader.guard[j] = Loaded(w)
      <4> HIDE DEF S
      <4> QED
        BY <1>4, <3>2
    <3> QED
      BY <3>1, <3>3
  <2> QED
    BY <2>1, <2>2
<1>7. c \in Nat /\ S = w.nextEnd .. w.nextEnd + c - 1
  <2>1. c = Cardinality(S)
    BY DEF Passed
  <2> DEFINE a == w.nextEnd
  <2> HIDE DEF S, n, a, c
  <2>2. a \in Nat /\ n \in Int /\ S \in SUBSET (a .. n) /\ \A i \in S : \A j \in a .. n : j <= i => j \in S
    BY <1>3, <1>4, <1>6 DEF a
  <2>3. Cardinality(S) \in Nat /\ S = a .. a + Cardinality(S) - 1
    BY <2>2, LowerRange
  <2> QED
    BY <2>1, <2>3 DEF a
<1> HIDE DEF c
<1>8. ASSUME NEW i \in DOMAIN reader.guard, i >= v.nextEnd PROVE Loaded(w) < reader.guard[i]
  <2>1. i \in Nat /\ i >= w.nextEnd /\ i \notin w.nextEnd .. w.nextEnd + c - 1
    BY <1>2, <1>3, <1>4, <1>7, <1>8
  <2>2. reader.guard[i] # Loaded(w)
    BY <1>7, <2>1
  <2>3. Loaded(w) <= reader.guard[i] /\ reader.guard[i] \in Nat
    BY <1>3, <1>5, <2>1
  <2> HIDE DEF S
  <2> QED
    BY <1>4, <2>2, <2>3
<1>9. Counted(v, placed)
  <2>1. reader.base + v.offset = At(w)
    BY <1>1, <1>4
  <2>2. /\ placed <= reader.base + w.offset
        /\ w.front = Cardinality(EndsIn(placed, reader.base + w.offset))
        /\ w.walked = Cardinality(EndsIn(placed, At(w)))
        /\ At(w) \in input.ends \cup {placed}
    BY DEF Counted, Taken
  <2>3. placed <= At(w)
    BY <1>4, <2>2
  <2>4. v.front = Cardinality(EndsIn(placed, At(w)))
    <3>1. CASE w.pos > 0
      BY <1>2, <2>2, <3>1 DEF Front
    <3>2. CASE ~(w.pos > 0)
      <4>1. At(w) = reader.base + w.offset
        BY <1>4, <3>2
      <4> QED
        BY <1>2, <2>2, <3>2, <4>1 DEF Front
    <3> QED
      BY <3>1, <3>2
  <2> QED
    BY <1>1, <1>2, <2>1, <2>2, <2>3, <2>4 DEF Counted
<1> HIDE DEF S
<1> QED
  BY <1>2, <1>8, <1>9 DEF v

\* Reading on finds the end of the source only where the span ends.
LEMMA FilledCounts ==
  ASSUME input \in Inputs, ReaderOK, NEW w, Buffered(w), Guarded(w), w.filled < w.cap,
         \A i \in DOMAIN reader.guard : i >= w.nextEnd => Loaded(w) < reader.guard[i],
         NEW placed \in Nat, Counted(w, placed), ~w.eof, NEW v \in Filled(w)
  PROVE  Counted(v, placed) /\ v.pos = w.pos
<1> DEFINE T == {w.cap - w.filled, reader.base + w.limit - Loaded(w)}
                \cup IF w.nextEnd \in DOMAIN reader.guard
                     THEN {reader.guard[w.nextEnd] - Loaded(w)} ELSE {}
<1>1. /\ Loaded(w) \in Nat /\ reader.base \in Nat /\ w.offset \in Nat /\ w.limit \in Nat
      /\ w.filled \in Nat /\ w.cap \in Nat /\ w.nextEnd \in Nat
      /\ Loaded(w) <= reader.base + w.limit
  BY PlacesAre
<1>2. w.nextEnd \in DOMAIN reader.guard =>
        reader.guard[w.nextEnd] \in Nat /\ Loaded(w) < reader.guard[w.nextEnd]
  <2> SUFFICES ASSUME w.nextEnd \in DOMAIN reader.guard
               PROVE  reader.guard[w.nextEnd] \in Nat /\ Loaded(w) < reader.guard[w.nextEnd]
    OBVIOUS
  <2>1. w.nextEnd >= w.nextEnd
    BY <1>1
  <2> QED
    BY <2>1, GuardIs
<1>3. T \in SUBSET Nat /\ T # {} /\ (0 \in T => Loaded(w) = reader.base + w.limit)
  <2>1. w.cap - w.filled \in Nat \ {0} /\ reader.base + w.limit - Loaded(w) \in Nat
    BY <1>1
  <2>2. w.nextEnd \in DOMAIN reader.guard => reader.guard[w.nextEnd] - Loaded(w) \in Nat \ {0}
    <3> HIDE DEF T
    <3> QED
      BY <1>1, <1>2
  <2>3. reader.base + w.limit - Loaded(w) = 0 => Loaded(w) = reader.base + w.limit
    BY <1>1
  <2> QED
    BY <2>1, <2>2, <2>3
<1>4. Room(w) = Min(T)
  BY DEF Room
<1> HIDE DEF T
<1>5. Room(w) \in T
  BY <1>3, <1>4, MinIs
<1>6. /\ v.pos = w.pos /\ v.offset = w.offset /\ v.limit = w.limit /\ v.walked = w.walked
      /\ v.front = w.front
      /\ v.eof => Loaded(v) = reader.base + w.limit
  <2>1. CASE Room(w) = 0
    <3>1. v = [w EXCEPT !.eof = TRUE]
      BY <2>1 DEF Filled
    <3>2. /\ v.pos = w.pos /\ v.offset = w.offset /\ v.limit = w.limit /\ v.walked = w.walked
          /\ v.front = w.front /\ v.filled = w.filled
      BY <3>1 DEF Buffered, WindowType
    <3>3. Loaded(v) = Loaded(w)
      BY <3>2 DEF Loaded
    <3> QED
      BY <1>3, <1>5, <2>1, <3>2, <3>3
  <2>2. CASE Room(w) # 0
    <3>1. PICK read \in 1 .. Room(w) : v = [w EXCEPT !.filled = @ + read]
      BY <2>2 DEF Filled
    <3>2. /\ v.pos = w.pos /\ v.offset = w.offset /\ v.limit = w.limit /\ v.walked = w.walked
          /\ v.front = w.front /\ v.eof = w.eof
      BY <3>1 DEF Buffered, WindowType
    <3> QED
      BY <3>2
  <2> QED
    BY <2>1, <2>2
<1>7. At(v) = At(w)
  BY <1>6 DEF At
<1>8. At(w) \in input.ends \cup {placed}
  BY DEF Counted, Taken
<1> QED
  BY <1>6, <1>7, <1>8 DEF Counted

\* Reading on keeps what is counted, and leaves the walk at the front.
LEMMA MoreCounts ==
  ASSUME input \in Inputs, ReaderOK, NEW w, Buffered(w), Guarded(w), ~CutsARecord(w), ~w.eof,
         Held(w) = {}, NEW placed \in Nat, Counted(w, placed), NEW v \in Filled(Slid(Grown(w)))
  PROVE  /\ Counted(v, placed) /\ Buffered(v) /\ v.limit = w.limit /\ v.walked = w.walked
         /\ v.pos = 0 /\ v.front = v.walked /\ (v.eof => Held(v) = {})
<1> DEFINE g == Grown(w)
           s == Slid(g)
<1>1. /\ Buffered(g) /\ Guarded(g) /\ At(g) = At(w) /\ Loaded(g) = Loaded(w)
      /\ g.pos = w.pos /\ g.filled = w.filled /\ g.offset = w.offset
      /\ g.limit = w.limit /\ g.walked = w.walked /\ g.nextEnd = w.nextEnd
  BY GrownIs
<1>2. /\ g.front = w.front /\ g.eof = w.eof
      /\ g.cap = IF w.pos = 0 /\ w.filled = w.cap THEN 2 * w.cap ELSE w.cap
  BY DEF Grown, Buffered, WindowType
<1>3. v \in Filled(s)
  OBVIOUS
<1> HIDE DEF g
<1>4. ~CutsARecord(g)
  <2>1. Passed(g) = Passed(w)
    BY <1>1 DEF Passed
  <2> QED
    BY <1>1, <2>1 DEF CutsARecord
<1>5. Counted(g, placed)
  BY <1>1, <1>2 DEF Counted, Taken
<1>6. /\ Counted(s, placed) /\ ~s.eof /\ s.pos = 0 /\ s.filled = g.filled - g.pos
      /\ \A i \in DOMAIN reader.guard : i >= s.nextEnd => Loaded(g) < reader.guard[i]
  BY <1>1, <1>2, <1>4, <1>5, SlidCounts
<1>7. /\ Buffered(s) /\ Guarded(s) /\ At(s) = At(g) /\ Loaded(s) = Loaded(g) /\ s.cap = g.cap
      /\ s.limit = g.limit /\ s.walked = g.walked
  BY <1>1, <1>4, SlidIs
<1> HIDE DEF s
<1>8. s.filled < s.cap
  <2>1. /\ w.pos \in Nat /\ w.filled \in Nat /\ w.cap \in Nat /\ w.filled <= w.cap /\ 1 <= w.cap
    BY PlacesAre DEF Buffered
  <2>2. s.filled = w.filled - w.pos
    BY <1>1, <1>6
  <2> QED
    BY <1>2, <1>7, <2>1, <2>2
<1>9. Counted(v, placed) /\ v.pos = 0
  BY <1>3, <1>6, <1>7, <1>8, FilledCounts
<1>10. Buffered(v) /\ At(v) = At(s) /\ v.limit = s.limit /\ v.walked = s.walked
  BY <1>3, <1>7, FilledIs
<1>11. v.front = v.walked
  <2>1. At(v) = reader.base + v.offset
    <3>1. reader.base \in Nat /\ v.offset \in Nat /\ At(v) = reader.base + v.offset + v.pos
      BY <1>10, PlacesAre
    <3> QED
      BY <1>9, <3>1
  <2> QED
    BY <1>9, <2>1 DEF Counted
<1>12. ASSUME v.eof PROVE Held(v) = {}
  <2>1. Loaded(v) = Loaded(s)
    <3>1. CASE Room(s) = 0
      <4>1. v = [s EXCEPT !.eof = TRUE]
        BY <1>3, <3>1 DEF Filled
      <4>2. v.offset = s.offset /\ v.filled = s.filled
        BY <1>7, <4>1 DEF Buffered, WindowType
      <4> QED
        BY <4>2 DEF Loaded
    <3>2. CASE Room(s) # 0
      <4>1. PICK read \in 1 .. Room(s) : v = [s EXCEPT !.filled = @ + read]
        BY <1>3, <3>2 DEF Filled
      <4>2. v.eof = s.eof
        BY <1>7, <4>1 DEF Buffered, WindowType
      <4> QED
        BY <1>6, <1>12, <4>2
    <3> QED
      BY <3>1, <3>2
  <2> QED
    BY <1>1, <1>7, <1>10, <2>1 DEF Held
<1>13. v.limit = w.limit /\ v.walked = w.walked
  BY <1>1, <1>7, <1>10
<1> QED
  BY <1>9, <1>10, <1>11, <1>12, <1>13

\* So does a step that reads on.
LEMMA ReadMoreCounts ==
  ASSUME WindowInv, ReadMore, ~CutsARecord(window), NEW placed \in Nat, Counted(window, placed)
  PROVE  Counted(window, placed)'
<1>1. /\ input' = input /\ reader' = reader
      /\ Walking /\ Held(window) = {} /\ ~window.eof
      /\ window' \in Filled(Slid(Grown(window)))
  BY DEF ReadMore
<1>2. /\ input \in Inputs /\ ReaderOK /\ Buffered(window) /\ Guarded(window)
  BY <1>1, CallIs DEF WindowInv, Walking
<1>3. PICK v \in Filled(Slid(Grown(window))) : window' = v
  BY <1>1
<1>4. Counted(v, placed)
  BY <1>1, <1>2, MoreCounts
<1>5. Counted(window, placed)' <=> Counted(v, placed)
  <2>1. At(window)' = At(v) /\ Loaded(window)' = Loaded(v) /\ Bytes' = Bytes
    BY <1>1, <1>3, SameFile
  <2>2. Taken(window)' <=> Taken(v)
    BY <1>1, <1>3, <2>1 DEF Taken
  <2> QED
    BY <1>1, <1>3, <2>1, <2>2 DEF Counted, EndsIn
<1> QED
  BY <1>4, <1>5
================================================================================
