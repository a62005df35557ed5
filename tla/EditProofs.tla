------------------------------ MODULE EditProofs ------------------------------
(***************************************************************************)
(* The format's invariant under the operations of Edit, for every file,    *)
(* input, count and appended data, and for files of any length; and that   *)
(* each operation changes the records in one step or not at all.           *)
(***************************************************************************)
EXTENDS Edit, SequenceTheorems, WellFoundedInduction, TLAPS

-------------------------------------------------------------------------------
(***************************************************************************)
(* Bytes and frames                                                        *)
(***************************************************************************)
\* The length of bytes, and what ends whole: what Size and Whole of Records say.
LEMMA SizeOf ==
  ASSUME NEW s \in Bytes
  PROVE  /\ Len(s.recs) \in Nat
         /\ Size(s) \in Nat
         /\ Len(s.recs) <= Size(s)
         /\ Size(s) <= Len(s.recs) + 1
         /\ ~s.part => Size(s) = Len(s.recs)
         /\ s.part => Size(s) > 0
         /\ Whole(s) <=> ~s.part /\ Size(s) > 0
<1>1. s.recs \in Seq(Ids \cup {Sealed, Merged}) /\ s.part \in BOOLEAN
  BY DEF Bytes
<1>2. Len(s.recs) \in Nat /\ (s.recs # <<>> <=> Len(s.recs) > 0)
  BY <1>1, EmptySeq, LenProperties
<1>3. Size(s) = Len(s.recs) + (IF s.part THEN 1 ELSE 0)
  BY DEF Size
<1>4. Whole(s) <=> ~s.part /\ Len(s.recs) > 0
  <2> HIDE <1>1
  <2> QED BY <1>2 DEF Whole
<1>5. CASE s.part = TRUE
  <2>1. Size(s) = Len(s.recs) + 1
    BY <1>3, <1>5
  <2> QED BY <1>2, <1>4, <1>5, <2>1
<1>6. CASE s.part = FALSE
  <2>1. Size(s) = Len(s.recs) + 0
    BY <1>3, <1>6
  <2> QED BY <1>2, <1>4, <1>6, <2>1
<1> QED BY <1>1, <1>5, <1>6

\* A frame of a file is bytes of some count and size.
LEMMA FrameOf ==
  ASSUME NEW fs \in Seq(Bytes), NEW i \in DOMAIN fs
  PROVE  /\ fs[i] \in Bytes
         /\ Count(fs, i) \in Nat
         /\ Size(fs[i]) \in Nat
<1>1. fs[i] \in Bytes
  BY ElementOfSeq, LenProperties
<1> QED BY <1>1, SizeOf DEF Count

\* Every file has a last frame that carries data, or none does and it is the
\* first.
LEMMA LastExists ==
  ASSUME NEW fs \in Seq(Bytes), fs # <<>>
  PROVE  LET end == LastDataFrame(fs) IN
         /\ end \in DOMAIN fs
         /\ \A j \in DOMAIN fs : j > end => Size(fs[j]) = 0
         /\ end = 1 \/ Size(fs[end]) > 0
<1> DEFINE L == Len(fs)
           Trailing == {k \in 0..(L - 1) : \A j \in DOMAIN fs : j > L - k => Size(fs[j]) = 0}
           Held(i) == /\ \A j \in DOMAIN fs : j > i => Size(fs[j]) = 0
                      /\ i = 1 \/ Size(fs[i]) > 0
<1>1. L \in Nat \ {0} /\ DOMAIN fs = 1..L
  BY EmptySeq, LenProperties
<1> DEFINE Empties == {i \in 1..L : \A j \in DOMAIN fs : j > i => Size(fs[j]) = 0}
<1>2. Empties \subseteq Nat /\ L \in Empties
  BY <1>1
<1>3. PICK i \in Empties : \A k \in Empties : ~ <<k, i>> \in OpToRel(<, Nat)
  <2>1. Empties # {}
    BY <1>2
  <2> HIDE DEF Empties
  <2> QED BY <1>2, <2>1, WFMin, NatLessThanWellFounded
<1>4. \A k \in Empties : ~(k < i)
  BY <1>2, <1>3 DEF OpToRel
<1>5. i = 1 \/ Size(fs[i]) > 0
  <2> SUFFICES ASSUME i # 1, ~(Size(fs[i]) > 0) PROVE FALSE
    OBVIOUS
  <2>1. i \in 2..L /\ Size(fs[i]) = 0
    BY <1>1, FrameOf
  <2>2. i - 1 \in Empties
    BY <1>1, <2>1
  <2> QED BY <1>4, <2>1, <2>2
<1>6. i \in DOMAIN fs /\ Held(i)
  BY <1>1, <1>5
<1>7. LastDataFrame(fs) = CHOOSE k \in DOMAIN fs : Held(k)
  BY DEF LastDataFrame
<1>8. LastDataFrame(fs) \in DOMAIN fs /\ Held(LastDataFrame(fs))
  <2> HIDE DEF Held
  <2> QED BY <1>6, <1>7
<1> QED BY <1>8

\* And only one.
LEMMA LastIs ==
  ASSUME NEW fs \in Seq(Bytes), NEW i \in DOMAIN fs,
         \A j \in DOMAIN fs : j > i => Size(fs[j]) = 0,
         i = 1 \/ Size(fs[i]) > 0
  PROVE  LastDataFrame(fs) = i
<1> DEFINE end == LastDataFrame(fs)
<1>1. fs # <<>> /\ DOMAIN fs = 1..Len(fs) /\ Len(fs) \in Nat
  BY EmptySeq, LenProperties
<1>2. /\ end \in DOMAIN fs
      /\ \A j \in DOMAIN fs : j > end => Size(fs[j]) = 0
      /\ end = 1 \/ Size(fs[end]) > 0
  BY <1>1, LastExists
<1> HIDE DEF end
<1>3. ~(i < end)
  BY <1>1, <1>2, FrameOf
<1>4. ~(end < i)
  BY <1>1, <1>2, FrameOf
<1>5. i \in Int /\ end \in Int
  BY <1>1, <1>2
<1>6. end = i
  BY <1>3, <1>4, <1>5
<1> QED BY <1>6 DEF end

-------------------------------------------------------------------------------
(***************************************************************************)
(* The table and the frames it describes                                   *)
(***************************************************************************)
\* Intervals tell their ends: used for the lengths of functions on 1..n.
LEMMA SameInterval ==
  ASSUME NEW m \in Nat, NEW n \in Nat, 1..m = 1..n
  PROVE  m = n
<1>1. \A i \in Nat : i >= 1 /\ i <= m <=> i >= 1 /\ i <= n
  <2>1. \A i \in Nat : i \in 1..m <=> i \in 1..n
    OBVIOUS
  <2>2. \A i \in Nat : i \in 1..m <=> i >= 1 /\ i <= m
    OBVIOUS
  <2>3. \A i \in Nat : i \in 1..n <=> i >= 1 /\ i <= n
    OBVIOUS
  <2> QED BY <2>1, <2>2, <2>3, Zenon
<1>2. ~(m < n) /\ ~(n < m)
  BY ONLY <1>1, m \in Nat, n \in Nat
<1> QED BY ONLY <1>2, m \in Nat, n \in Nat

\* Concatenation with its parts' lengths named.
LEMMA ConcatLens ==
  ASSUME NEW S, NEW s \in Seq(S), NEW t \in Seq(S), NEW m, NEW n, Len(s) = m, Len(t) = n
  PROVE  /\ s \o t \in Seq(S)
         /\ Len(s \o t) = m + n
         /\ \A i \in 1..(m + n) : (s \o t)[i] = IF i <= m THEN s[i] ELSE t[i - m]
BY ConcatProperties, Zenon

\* The seek table a file should have: an entry for each frame, its size.
LEMMA SizesOf ==
  ASSUME NEW fs \in Seq(Bytes)
  PROVE  /\ Sizes(fs) \in Seq(Nat)
         /\ Len(Sizes(fs)) = Len(fs)
         /\ \A i \in 1..Len(fs) : Sizes(fs)[i] = Size(fs[i])
<1>1. DOMAIN fs = 1..Len(fs) /\ Len(fs) \in Nat
  BY LenProperties
<1>2. Sizes(fs) \in [1..Len(fs) -> Nat]
  BY <1>1, FrameOf DEF Sizes
<1>3. Sizes(fs) \in Seq(Nat)
  BY <1>1, <1>2, SeqDef
<1>4. DOMAIN Sizes(fs) = 1..Len(Sizes(fs)) /\ Len(Sizes(fs)) \in Nat
  BY <1>3, LenProperties
<1>5. DOMAIN Sizes(fs) = 1..Len(fs)
  BY <1>2
<1>6. Len(Sizes(fs)) = Len(fs)
  BY <1>1, <1>4, <1>5, SameInterval
<1> QED BY <1>1, <1>3, <1>6 DEF Sizes

\* The first frames of a file, and new ones behind them.
LEMMA Spliced ==
  ASSUME NEW fs \in Seq(Bytes), NEW new \in Seq(Bytes), NEW cut \in 0..Len(fs)
  PROVE  LET target == SubSeq(fs, 1, cut) \o new IN
         /\ target \in Seq(Bytes)
         /\ Len(target) = cut + Len(new)
         /\ \A i \in 1..cut : target[i] = fs[i]
         /\ \A j \in 1..Len(new) : target[cut + j] = new[j]
         /\ SubSeq(fs, 1, cut) = SubSeq(target, 1, cut)
         /\ SubSeq(Sizes(fs), 1, cut) \o Sizes(new) = Sizes(target)
<1> DEFINE kept == SubSeq(fs, 1, cut)
           target == kept \o new
<1>1. Len(fs) \in Nat /\ Len(new) \in Nat /\ cut \in Nat /\ cut <= Len(fs)
  BY LenProperties
<1>2. /\ kept \in Seq(Bytes)
      /\ Len(kept) = cut
      /\ \A i \in 1..cut : kept[i] = fs[i]
  <2>1. \A i \in 1..cut : fs[i] \in Bytes
    BY <1>1, ElementOfSeq
  <2> QED BY <1>1, <2>1, SubSeqProperties
<1> HIDE DEF kept
<1>3. /\ target \in Seq(Bytes)
      /\ Len(target) = cut + Len(new)
      /\ \A i \in 1..(cut + Len(new)) : target[i] = IF i <= cut THEN kept[i] ELSE new[i - cut]
  BY <1>2, ConcatProperties
<1> HIDE DEF target
<1>4. \A i \in 1..cut : target[i] = fs[i]
  BY <1>1, <1>2, <1>3
<1>5. \A j \in 1..Len(new) : target[cut + j] = new[j]
  BY <1>1, <1>3
<1>6. SubSeq(target, 1, cut) = kept
  <2>1. \A i \in 1..cut : target[i] \in Bytes
    BY <1>1, <1>3, ElementOfSeq
  <2>2. /\ SubSeq(target, 1, cut) \in Seq(Bytes)
        /\ Len(SubSeq(target, 1, cut)) = cut
        /\ \A i \in 1..cut : SubSeq(target, 1, cut)[i] = target[i]
    BY <1>1, <2>1, SubSeqProperties
  <2> QED BY <1>2, <1>4, <2>2, SeqEqual
<1>7. SubSeq(Sizes(fs), 1, cut) \o Sizes(new) = Sizes(target)
  <2> DEFINE old == SubSeq(Sizes(fs), 1, cut)
             added == Sizes(new)
             log == old \o added
  <2>1. /\ Sizes(fs) \in Seq(Nat)
        /\ Len(Sizes(fs)) = Len(fs)
        /\ \A i \in 1..Len(fs) : Sizes(fs)[i] = Size(fs[i])
    BY SizesOf
  <2>2. /\ Sizes(new) \in Seq(Nat)
        /\ Len(Sizes(new)) = Len(new)
        /\ \A i \in 1..Len(new) : Sizes(new)[i] = Size(new[i])
    BY SizesOf
  <2>3. /\ Sizes(target) \in Seq(Nat)
        /\ Len(Sizes(target)) = cut + Len(new)
        /\ \A i \in 1..(cut + Len(new)) : Sizes(target)[i] = Size(target[i])
    BY <1>3, SizesOf
  <2>4. \A i \in 1..cut : Sizes(fs)[i] \in Nat
    BY <1>1, <2>1, ElementOfSeq
  <2>5. old \in Seq(Nat) /\ Len(old) = cut /\ \A i \in 1..cut : old[i] = Sizes(fs)[i]
    BY <1>1, <2>1, <2>4, SubSeqProperties
  <2>. added \in Seq(Nat) /\ Len(added) = Len(new)
    BY <2>2
  <2> HIDE DEF old, added
  <2>6. /\ log \in Seq(Nat)
        /\ Len(log) = cut + Len(new)
        /\ \A i \in 1..(cut + Len(new)) : log[i] = IF i <= cut THEN old[i] ELSE added[i - cut]
    BY <1>1, <2>5, ConcatLens
  <2> HIDE DEF log
  <2>7. ASSUME NEW i \in 1..(cut + Len(new)) PROVE log[i] = Sizes(target)[i]
    <3>1. CASE i <= cut
      <4>1. i \in 1..cut /\ i \in 1..Len(fs)
        BY <1>1, <3>1
      <4>2. log[i] = Size(fs[i])
        <5>1. log[i] = old[i] /\ old[i] = Sizes(fs)[i]
          BY <2>5, <2>6, <3>1, <4>1
        <5> QED BY <2>1, <4>1, <5>1
      <4>3. Sizes(target)[i] = Size(fs[i])
        BY <1>4, <2>3, <4>1
      <4> QED BY <4>2, <4>3
    <3>2. CASE ~(i <= cut)
      <4>1. i - cut \in 1..Len(new) /\ i = cut + (i - cut)
        BY <1>1, <3>2
      <4>2. target[i] = new[i - cut]
        BY <1>5, <4>1
      <4> QED BY <2>2, <2>3, <2>6, <3>2, <4>1, <4>2 DEF added
    <3> QED BY <3>1, <3>2
  <2>8. log = Sizes(target)
    BY <2>3, <2>6, <2>7, SeqEqual
  <2> QED BY <2>8 DEF log, old, added
<1> QED BY <1>3, <1>4, <1>5, <1>6, <1>7 DEF target, kept

\* Frames of one count, all but the last of them whole, are a uniform file.
LEMMA UniformIf ==
  ASSUME NEW fs \in Seq(Bytes), fs # <<>>, NEW n \in Nat,
         \A i \in 1..(Len(fs) - 1) : Count(fs, i) = n /\ ~fs[i].part,
         Count(fs, Len(fs)) <= n
  PROVE  Uniform(fs)
<1>1. Len(fs) \in Nat \ {0} /\ DOMAIN fs = 1..Len(fs)
  BY EmptySeq, LenProperties
<1>2. ASSUME NEW i \in DOMAIN fs, NEW j \in DOMAIN fs, i < j
      PROVE  Count(fs, i) = Count(fs, 1) /\ ~fs[i].part /\ Count(fs, j) <= Count(fs, 1)
  <2>1. i \in 1..(Len(fs) - 1) /\ 1 \in 1..(Len(fs) - 1)
    BY <1>1, <1>2
  <2>2. Count(fs, j) <= n
    <3>1. CASE j = Len(fs)
      BY <3>1
    <3>2. CASE j # Len(fs)
      BY <1>1, <3>2
    <3> QED BY <3>1, <3>2
  <2> QED BY <2>1, <2>2
<1> QED BY <1>2 DEF Uniform, UniformBy, Count

\* What a uniform file tells of its frames: all before the last data frame hold
\* the count of the first.
LEMMA UniformTells ==
  ASSUME NEW fs \in Seq(Bytes), Uniform(fs)
  PROVE  /\ fs # <<>>
         /\ Full(fs, Count(fs, 1))
         /\ \A j \in 2..Len(fs) : Count(fs, j) <= Count(fs, 1)
<1>1. fs # <<>> /\ Len(fs) \in Nat \ {0} /\ DOMAIN fs = 1..Len(fs)
  BY EmptySeq, LenProperties DEF Uniform
<1> DEFINE end == LastDataFrame(fs)
<1>2. end \in 1..Len(fs) /\ (end = 1 \/ Size(fs[end]) > 0)
  BY <1>1, LastExists
<1> HIDE DEF end
<1>3. ASSUME NEW i \in 1..(end - 1) PROVE Count(fs, i) = Count(fs, 1) /\ ~fs[i].part
  <2>1. i \in DOMAIN fs /\ end \in DOMAIN fs /\ i < end /\ Size(fs[end]) > 0
    BY <1>1, <1>2
  <2> QED BY <2>1 DEF Uniform, UniformBy, Count
<1>4. ASSUME NEW j \in 2..Len(fs) PROVE Count(fs, j) <= Count(fs, 1)
  <2>1. 1 \in DOMAIN fs /\ j \in DOMAIN fs /\ 1 < j
    BY <1>1
  <2> QED BY <2>1 DEF Uniform, UniformBy, Count
<1> QED BY <1>1, <1>3, <1>4 DEF Full, end

\* So is what is left of a uniform file when frames are dropped at its end.
LEMMA UniformPrefix ==
  ASSUME NEW fs \in Seq(Bytes), Uniform(fs), NEW k \in 1..Len(fs),
         NEW kept \in Seq(Bytes), Len(kept) = k, \A i \in 1..k : kept[i] = fs[i]
  PROVE  Uniform(kept)
<1>1. /\ DOMAIN fs = 1..Len(fs) /\ Len(fs) \in Nat
      /\ DOMAIN kept = 1..k /\ k \in 1..Len(fs) /\ kept # <<>>
  BY LenProperties, EmptySeq
<1>2. kept[1] = fs[1]
  BY <1>1
<1>3. ASSUME NEW i \in 1..k, NEW j \in 1..k, i < j
      PROVE  /\ Size(kept[j]) > 0 => Len(kept[i].recs) = Len(kept[1].recs) /\ ~kept[i].part
             /\ Len(kept[j].recs) <= Len(kept[1].recs)
  <2>1. i \in DOMAIN fs /\ j \in DOMAIN fs /\ kept[i] = fs[i] /\ kept[j] = fs[j]
    BY <1>1
  <2> QED BY <1>2, <1>3, <2>1 DEF Uniform, UniformBy
<1> QED BY <1>1, <1>3 DEF Uniform, UniformBy

-------------------------------------------------------------------------------
(***************************************************************************)
(* Appended bytes and the groups they are cut into                         *)
(***************************************************************************)
\* Records and a fragment, or none, are bytes.
LEMMA BytesAre ==
  ASSUME NEW recs \in Seq(Ids \cup {Sealed, Merged}), NEW part \in BOOLEAN
  PROVE  [recs |-> recs, part |-> part] \in Bytes
BY DEF Bytes

\* What is not empty has a size.
LEMMA NotEmpty ==
  ASSUME NEW s \in Bytes, s # Empty
  PROVE  Size(s) > 0
<1>1. s = [recs |-> s.recs, part |-> s.part] /\ s.part \in BOOLEAN
  BY DEF Bytes
<1>2. CASE s.part = TRUE
  BY <1>2, SizeOf
<1>3. CASE s.part = FALSE
  <2>1. s.recs # <<>>
    BY <1>1, <1>3 DEF Empty
  <2>2. Whole(s)
    BY <1>3, <2>1 DEF Whole
  <2> QED BY <2>2, SizeOf
<1> QED BY <1>1, <1>2, <1>3

\* The bytes in front of appended ones end at the end of a record.
LEMMA TailBytesEnd ==
  ASSUME NEW fs \in Seq(Bytes), NEW i \in DOMAIN fs, NEW data \in Bytes, data # Empty,
         NEW tail, tail \in {Empty, Seal(fs[i])} \/ (tail = fs[i] /\ Whole(fs[i]))
  PROVE  Join(tail, data) \in Bytes /\ Size(Join(tail, data)) > 0
<1>1. fs[i] \in Bytes /\ fs[i].recs \in Seq(Ids \cup {Sealed, Merged})
  BY FrameOf DEF Bytes
<1>2. tail.recs \in Seq(Ids \cup {Sealed, Merged}) /\ tail.part = FALSE
  <2>1. CASE tail = Empty
    BY <2>1, EmptySeq DEF Empty
  <2>2. CASE tail = Seal(fs[i])
    <3>1. Append(fs[i].recs, Sealed) \in Seq(Ids \cup {Sealed, Merged})
      BY <1>1, AppendProperties
    <3> QED BY <2>2, <3>1 DEF Seal
  <2>3. CASE tail = fs[i] /\ Whole(fs[i])
    BY <1>1, <2>3 DEF Whole, Bytes
  <2> QED BY <2>1, <2>2, <2>3
<1> DEFINE joined == tail.recs \o data.recs
<1>3. data.recs \in Seq(Ids \cup {Sealed, Merged}) /\ data.part \in BOOLEAN
  BY DEF Bytes
<1>4. joined \in Seq(Ids \cup {Sealed, Merged}) /\ Len(joined) = Len(tail.recs) + Len(data.recs)
  BY <1>2, <1>3, ConcatProperties
<1>5. Len(tail.recs) \in Nat /\ Len(data.recs) \in Nat
  BY <1>2, <1>3, LenProperties
<1> HIDE DEF joined
<1>6. Join(tail, data) = [recs |-> joined, part |-> data.part]
  BY <1>2 DEF Join, joined
<1>7. Join(tail, data) \in Bytes
  BY <1>3, <1>4, <1>6, BytesAre
<1>8. Size(data) > 0
  BY NotEmpty
<1>9. CASE data.part = TRUE
  <2>1. Join(tail, data).part = TRUE
    BY <1>6, <1>9
  <2> QED BY <1>7, <2>1, SizeOf
<1>10. CASE data.part = FALSE
  <2>1. Len(data.recs) > 0
    BY <1>8, <1>10, SizeOf
  <2>2. Join(tail, data).recs = joined
    BY <1>6
  <2>3. Len(joined) > 0
    <3> DEFINE before == Len(tail.recs)
               added == Len(data.recs)
    <3>1. Len(joined) = before + added /\ before \in Nat /\ added \in Nat /\ added > 0
      BY <1>4, <1>5, <2>1
    <3> HIDE DEF before, added
    <3> QED BY <3>1
  <2> QED BY <1>7, <2>2, <2>3, SizeOf
<1> QED BY <1>3, <1>7, <1>9, <1>10

\* Rounding up.
LEMMA Ceiling ==
  ASSUME NEW x \in Nat \ {0}, NEW n \in Nat \ {0}, NEW c, c = (x + n - 1) \div n
  PROVE  c \in Nat \ {0} /\ (c - 1) * n < x /\ x <= c * n
<1>1. c \in Nat /\ n * c <= x + n - 1 /\ x + n - 1 < n * c + n
  BY SMT
<1>2. (c - 1) * n = n * c - n /\ c * n = n * c
  BY <1>1, SMT
<1>3. c # 0
  BY <1>1, SMT
<1> QED BY <1>1, <1>2, <1>3

\* The groups are full and whole but for the last, and none is empty.
LEMMA GroupsOf ==
  ASSUME NEW bytes \in Bytes, Size(bytes) > 0, NEW n \in Nat \ {0}
  PROVE  LET cut == Groups(bytes, n) IN
         /\ cut \in Seq(Bytes)
         /\ Len(cut) \in Nat \ {0}
         /\ \A i \in 1..(Len(cut) - 1) : Count(cut, i) = n /\ ~cut[i].part
         /\ Count(cut, Len(cut)) <= n
         /\ Size(cut[Len(cut)]) > 0
<1> DEFINE recs == bytes.recs
           total == Len(recs)
           size == Size(bytes)
           c == (size + n - 1) \div n
           End(i) == IF i * n <= total THEN i * n ELSE total
           Piece(i) == SubSeq(recs, (i - 1) * n + 1, End(i))
           Group(i) == [recs |-> Piece(i), part |-> bytes.part /\ i = c]
           cut == [i \in 1..c |-> Group(i)]
<1>1. /\ recs \in Seq(Ids \cup {Sealed, Merged}) /\ bytes.part \in BOOLEAN
      /\ total \in Nat /\ size \in Nat \ {0} /\ total <= size /\ size <= total + 1
      /\ ~bytes.part => size = total
  BY SizeOf DEF Bytes
<1>2. c \in Nat \ {0} /\ (c - 1) * n < size /\ size <= c * n
  <2> HIDE DEF size
  <2> QED BY <1>1, Ceiling
<1>3. cut = Groups(bytes, n)
  BY DEF Groups
<1> HIDE DEF recs, size, c
<1>4. ASSUME NEW i \in 1..c
      PROVE  /\ End(i) \in Nat /\ End(i) <= total /\ (i - 1) * n \in Nat
             /\ i < c => End(i) - (i - 1) * n = n
             /\ End(i) - (i - 1) * n <= n
             /\ End(i) >= (i - 1) * n
             /\ i = c /\ ~bytes.part => End(i) > (i - 1) * n
  <2>1. (i - 1) * n \in Nat /\ i * n \in Nat /\ i * n = (i - 1) * n + n
    BY <1>2, SMT
  <2>2. (i - 1) * n <= (c - 1) * n
    BY <1>2, SMT
  <2>3. i < c => i * n <= (c - 1) * n
    BY <1>2, SMT
  <2>4. (c - 1) * n \in Nat
    BY <1>2, SMT
  <2> DEFINE low == (i - 1) * n
             high == i * n
             top == (c - 1) * n
  <2>5. low \in Nat /\ high \in Nat /\ top \in Nat /\ high = low + n /\ low <= top /\ top < size
    BY <1>2, <2>1, <2>2, <2>4
  <2>6. i < c => high <= top
    BY <2>3
  <2>7. End(i) = IF high <= total THEN high ELSE total
    OBVIOUS
  <2>8. i = c => low = top
    OBVIOUS
  <2> HIDE DEF low, high, top, End, total
  <2>9. n \in Nat
    OBVIOUS
  <2>10. /\ End(i) \in Nat /\ End(i) <= total
         /\ i < c => End(i) - low = n
         /\ End(i) - low <= n
         /\ End(i) >= low
         /\ i = c /\ ~bytes.part => End(i) > low
    BY <1>1, <2>5, <2>6, <2>7, <2>8, <2>9
  <2> QED BY <2>5, <2>10 DEF low
<1>5. ASSUME NEW i \in 1..c
      PROVE  /\ Piece(i) \in Seq(Ids \cup {Sealed, Merged})
             /\ Len(Piece(i)) = End(i) - (i - 1) * n
  <2> DEFINE low == (i - 1) * n
             end == End(i)
  <2>1. low \in Nat /\ end \in Nat /\ end <= total /\ end >= low
    BY <1>4
  <2> HIDE DEF low, end
  <2>2. \A j \in (low + 1)..end : recs[j] \in Ids \cup {Sealed, Merged}
    BY <1>1, <2>1, ElementOfSeq
  <2>3. /\ SubSeq(recs, low + 1, end) \in Seq(Ids \cup {Sealed, Merged})
        /\ Len(SubSeq(recs, low + 1, end)) = IF low + 1 <= end THEN end - (low + 1) + 1 ELSE 0
    BY <2>1, <2>2, SubSeqProperties
  <2>4. Len(SubSeq(recs, low + 1, end)) = end - low
    BY <2>1, <2>3
  <2> QED BY <2>3, <2>4 DEF low, end
<1> HIDE DEF End, Piece, total
<1>6. ASSUME NEW i \in 1..c PROVE Group(i) \in Bytes
  BY <1>1, <1>5, BytesAre
<1>7. /\ cut \in Seq(Bytes) /\ Len(cut) = c
      /\ \A i \in 1..c : cut[i] = Group(i)
  <2>1. cut \in [1..c -> Bytes]
    <3> HIDE DEF Group
    <3> QED BY <1>6
  <2>2. cut \in Seq(Bytes)
    <3> HIDE DEF cut
    <3> QED BY <1>2, <2>1, SeqDef
  <2>3. DOMAIN cut = 1..c
    OBVIOUS
  <2>4. Len(cut) = c
    <3> HIDE DEF cut
    <3>1. Len(cut) \in Nat /\ 1..Len(cut) = 1..c
      BY <2>2, <2>3, LenProperties
    <3> QED BY <1>2, <3>1, SameInterval
  <2> QED BY <2>2, <2>4
<1> HIDE DEF cut
<1>8. ASSUME NEW i \in 1..c
      PROVE  /\ Count(cut, i) = End(i) - (i - 1) * n
             /\ cut[i].part = (bytes.part /\ i = c)
             /\ cut[i].recs = Piece(i)
             /\ cut[i] \in Bytes
  BY <1>5, <1>6, <1>7 DEF Count
<1>9. ASSUME NEW i \in 1..(c - 1) PROVE Count(cut, i) = n /\ ~cut[i].part
  <2>1. i \in 1..c /\ i < c
    BY <1>2
  <2>2. Count(cut, i) = n
    BY <1>4, <1>8, <2>1
  <2>3. i # c
    BY <1>2, <2>1
  <2>4. ~cut[i].part
    BY <1>8, <2>1, <2>3, Zenon
  <2> QED BY <2>2, <2>4
<1>10. c \in 1..c
  BY <1>2
<1>11. Count(cut, c) <= n
  BY <1>4, <1>8, <1>10
<1>12. Size(cut[c]) > 0
  <2>1. CASE bytes.part = TRUE
    BY <1>8, <1>10, <2>1, SizeOf
  <2>2. CASE bytes.part = FALSE
    <3> DEFINE low == (c - 1) * n
    <3>1. End(c) > low /\ Count(cut, c) = End(c) - low /\ low \in Nat /\ End(c) \in Nat
      BY <1>4, <1>8, <1>10, <2>2
    <3> HIDE DEF low
    <3>2. Len(cut[c].recs) > 0
      BY <3>1 DEF Count
    <3> QED BY <1>8, <1>10, <3>2, SizeOf
  <2> QED BY <1>1, <2>1, <2>2
<1> QED BY <1>2, <1>3, <1>7, <1>9, <1>11, <1>12

-------------------------------------------------------------------------------
(***************************************************************************)
(* What an operation decides before it writes                              *)
(***************************************************************************)
\* A plan that ends in a uniform file, described by the table it has logged.
LEMMA BeginKeeps ==
  ASSUME TypeOK, EditInv, pc = "idle", table # None,
         NEW request, NEW cut \in 0..Len(frames), NEW new \in Seq(Bytes), NEW log, NEW result,
         Uniform(SubSeq(frames, 1, cut) \o new),
         log = Sizes(SubSeq(frames, 1, cut) \o new),
         result # None => result \in Results /\ Tells(result, SubSeq(frames, 1, cut) \o new),
         Begin(request, cut, new, log, result)
  PROVE  TypeOK' /\ EditInv'
<1> DEFINE target == SubSeq(frames, 1, cut) \o new
<1>1. /\ target \in Seq(Bytes)
      /\ Len(target) = cut + Len(new)
      /\ SubSeq(frames, 1, cut) = SubSeq(target, 1, cut)
  BY Spliced DEF TypeOK
<1>2. Len(frames) \in Nat /\ Len(new) \in Nat /\ cut \in Nat /\ cut <= Len(frames)
  BY LenProperties DEF TypeOK
<1>3. /\ pc' = "cut"
      /\ plan' = [request |-> request, before |-> frames, cut |-> cut,
                  target |-> target, log |-> log, result |-> result]
      /\ answer' = "none"
      /\ frames' = frames /\ table' = table /\ prev' = prev /\ fresh' = fresh
  BY DEF Begin, file, cache
<1> HIDE DEF target
<1>4. /\ plan'.cut = cut /\ plan'.target = target /\ plan'.log = log /\ plan'.result = result
  BY <1>3
<1>5. TypeOK'
  BY <1>3 DEF TypeOK
<1>6. TableDescribesFile' /\ UniformFile' /\ CacheIsTrue'
  BY <1>3 DEF EditInv, TableDescribesFile, UniformFile, CacheIsTrue
<1>7. Planned'
  <2>1. Uniform(target) /\ log = Sizes(target)
    BY DEF target
  <2>2. result # None => result \in Results /\ Tells(result, target)
    BY DEF target
  <2>3. cut \in 0..Len(target)
    BY <1>1, <1>2
  <2> QED BY <1>1, <1>4, <2>1, <2>2, <2>3 DEF Planned
<1>8. OnDisk'
  BY <1>1, <1>2, <1>3, <1>4 DEF OnDisk
<1> QED BY <1>5, <1>6, <1>7, <1>8 DEF EditInv

\* A caller that keeps to its duties passes a result that is used only where it
\* tells the truth, and the count that is appended by is the file's.
LEMMA CountIsTheFiles ==
  ASSUME TypeOK, EditInv, NEW given \in Counts \cup {None}, NEW trust \in BOOLEAN,
         NEW passed \in {None, prev}, CallerOfAppend(given, trust, passed),
         NEW n \in RecordsPerFrameToUse(given, trust, Usable(passed, given))
  PROVE  /\ n \in Nat \ {0}
         /\ Full(frames, n)
         /\ last \in 1..Len(frames)
         /\ Usable(passed, given) # None =>
              /\ Usable(passed, given) \in Results
              /\ Tells(Usable(passed, given), frames)
         /\ LastState(Usable(passed, given))
              = [count |-> Count(frames, last), whole |-> Whole(frames[last])]
<1> DEFINE previous == Usable(passed, given)
<1>1. /\ frames \in Seq(Bytes) /\ Uniform(frames) /\ table = Sizes(frames)
      /\ frames # <<>> /\ Len(frames) \in Nat \ {0} /\ DOMAIN frames = 1..Len(frames)
      /\ Full(frames, Count(frames, 1))
  BY UniformTells, EmptySeq, LenProperties
  DEF TypeOK, EditInv, TableDescribesFile, UniformFile, CallerOfAppend
<1>2. last \in 1..Len(frames)
  BY <1>1, LastExists DEF last
<1>3. ASSUME previous # None
      PROVE  /\ previous = passed /\ previous = prev /\ Matches(previous)
             /\ given \in {None, previous.records_per_frame}
  BY <1>3 DEF Usable
<1>4. ASSUME previous # None PROVE previous \in Results /\ Tells(previous, frames)
  <2>1. previous \in Results
    BY <1>3, <1>4 DEF TypeOK
  <2>2. /\ previous.frame_count = Len(frames)
        /\ previous.last_frame = last
        /\ previous.last_size = Size(frames[last])
    <3>1. Len(table) = Len(frames) /\ table[last] = Size(frames[last])
      BY <1>1, <1>2, SizesOf
    <3> QED BY <1>3, <1>4, <3>1 DEF Matches
  <2>3. fresh
    <3>1. passed = previous /\ passed # None
      BY <1>3, <1>4
    <3> QED BY <2>2, <3>1 DEF CallerOfAppend
  <2> QED BY <1>3, <1>4, <2>1, <2>3 DEF EditInv, CacheIsTrue
<1>5. LastState(previous) = [count |-> Count(frames, last), whole |-> Whole(frames[last])]
  <2>1. CASE previous # None /\ previous.last_records # None
    BY <1>4, <2>1 DEF LastState, Tells, last
  <2>2. CASE ~(previous # None /\ previous.last_records # None)
    BY <2>2 DEF LastState
  <2> QED BY <2>1, <2>2
<1>6. ASSUME Validated(previous)
      PROVE  /\ previous.records_per_frame \in Nat \ {0}
             /\ Full(frames, previous.records_per_frame)
  BY <1>4, <1>6 DEF Validated, Tells, Results
<1>7. n \in Nat \ {0} /\ Full(frames, n)
  <2>1. CASE given # None
    <3>1. n = given /\ n \in Nat \ {0}
      BY <2>1, BoundAssumption DEF RecordsPerFrameToUse
    <3>2. CASE trust
      BY <2>1, <3>1, <3>2 DEF CallerOfAppend, Full, last
    <3>3. CASE Validated(previous)
      BY <1>3, <1>6, <2>1, <3>1, <3>3 DEF Validated
    <3>4. CASE ValidateRecordsPerFrame(frames, last, n)
      <4>1. ASSUME last > 1 PROVE Count(frames, 1) = n
        <5>1. 1 \in {1, last - 1} \cap 1..(last - 1)
          BY <1>1, <1>2, <4>1
        <5> QED BY <3>4, <5>1 DEF ValidateRecordsPerFrame
      <4>2. \A i \in 1..(last - 1) : Count(frames, i) = n /\ ~frames[i].part
        <5>1. ASSUME NEW i \in 1..(last - 1) PROVE last > 1
          BY <1>1, <1>2
        <5> QED BY <1>1, <4>1, <5>1 DEF Full, last
      <4> QED BY <3>1, <4>2 DEF Full, last
    <3> QED BY <2>1, <3>2, <3>3, <3>4 DEF RecordsPerFrameToUse
  <2>2. CASE given = None /\ Validated(previous)
    BY <1>6, <2>2 DEF RecordsPerFrameToUse
  <2>3. CASE given = None /\ ~Validated(previous)
    <3>1. n \in ValidateSeparator(frames)
      BY <2>3 DEF RecordsPerFrameToUse
    <3>2. n = Count(frames, 1) /\ n > 0
      BY <3>1 DEF ValidateSeparator
    <3> QED BY <1>1, <3>2, FrameOf
  <2> QED BY <2>1, <2>2, <2>3
<1> QED BY <1>2, <1>4, <1>5, <1>7

\* An append of nothing writes nothing, and returns a result that is true.
LEMMA AppendNothingKeeps ==
  ASSUME TypeOK, EditInv, NEW given \in Counts \cup {None}, NEW trust \in BOOLEAN,
         NEW passed \in {None, prev}, AppendNothing(given, trust, passed)
  PROVE  TypeOK' /\ EditInv'
<1> DEFINE previous == Usable(passed, given)
           validated == ~trust \/ Validated(previous)
<1>1. PICK n \in RecordsPerFrameToUse(given, trust, previous) :
        prev' = IF previous # None
                THEN [previous EXCEPT !.records_per_frame = n, !.count_validated = validated]
                ELSE AppendResult(n, validated, table, last, None, FALSE)
  BY DEF AppendNothing
<1>2. CallerOfAppend(given, trust, passed)
  BY DEF AppendNothing
<1>3. /\ n \in Nat \ {0} /\ Full(frames, n) /\ last \in 1..Len(frames)
      /\ previous # None => previous \in Results /\ Tells(previous, frames)
  BY <1>2, CountIsTheFiles
<1>4. /\ table # None /\ table = Sizes(frames) /\ frames \in Seq(Bytes) /\ Len(frames) \in Nat
  BY <1>2, LenProperties DEF CallerOfAppend, EditInv, TableDescribesFile, TypeOK
<1>5. Len(table) = Len(frames) /\ table[last] = Size(frames[last]) /\ Size(frames[last]) \in Nat
  BY <1>3, <1>4, SizesOf, FrameOf, LenProperties
<1>6. fresh' = TRUE /\ UNCHANGED <<frames, table, pc, plan>> /\ answer' = "ok"
  BY DEF AppendNothing, file
<1>7. validated \in BOOLEAN
  BY DEF Validated
<1> HIDE DEF previous, validated
<1>8. prev' \in Results /\ Tells(prev', frames)
  <2>1. CASE previous # None
    <3>1. prev' = [previous EXCEPT !.records_per_frame = n, !.count_validated = validated]
      BY <1>1, <2>1
    <3>2. previous \in Results /\ Tells(previous, frames)
      BY <1>3, <2>1
    <3>3. prev' \in Results
      BY <1>3, <1>7, <3>1, <3>2 DEF Results
    <3>4. /\ prev'.frame_count = previous.frame_count
          /\ prev'.last_frame = previous.last_frame
          /\ prev'.last_size = previous.last_size
          /\ prev'.last_records = previous.last_records
          /\ prev'.last_whole = previous.last_whole
          /\ prev'.records_per_frame = n
      BY <3>1, <3>2 DEF Results
    <3> QED BY <1>3, <3>2, <3>3, <3>4 DEF Tells
  <2>2. CASE previous = None
    <3>1. prev' = [records_per_frame |-> n, count_validated |-> validated,
                   frame_count |-> Len(table), last_frame |-> last,
                   last_size |-> table[last], last_records |-> None, last_whole |-> FALSE]
      BY <1>1, <2>2 DEF AppendResult
    <3>2. prev' \in Results
      BY <1>3, <1>4, <1>5, <1>7, <3>1 DEF Results
    <3>3. /\ prev'.frame_count = Len(frames)
          /\ prev'.last_frame = last
          /\ prev'.last_size = Size(frames[last])
          /\ prev'.last_records = None
          /\ prev'.records_per_frame = n
      BY <1>5, <3>1
    <3> QED BY <1>3, <3>2, <3>3 DEF Tells, last
  <2> QED BY <2>1, <2>2
<1>9. TypeOK'
  BY <1>6, <1>8 DEF TypeOK
<1> QED
  BY <1>4, <1>6, <1>8, <1>9
  DEF EditInv, TableDescribesFile, UniformFile, CacheIsTrue, Planned, OnDisk

\* An append of records decides on a file that is uniform and on its table, and
\* on a result that tells the truth of it: the heart of append_records_inner.
LEMMA AppendRecordsKeeps ==
  ASSUME TypeOK, EditInv, NEW data \in Data, NEW insert \in BOOLEAN,
         NEW given \in Counts \cup {None}, NEW trust \in BOOLEAN,
         NEW passed \in {None, prev}, AppendRecords(data, insert, given, trust, passed)
  PROVE  TypeOK' /\ EditInv' /\ plan'.result \in Results /\ plan'.result.last_size > 0
<1> DEFINE previous == Usable(passed, given)
           state == LastState(previous)
           validated == ~trust \/ Validated(previous)
           Joined(n) == Join(TailBytes(state, n), data)
           Sized(n) == SubSeq(table, 1, KeptFrames(state, n)) \o Sizes(Groups(Joined(n), n))
           ResultOf(n) == LET new == Groups(Joined(n), n) IN
             AppendResult(n, validated, Sized(n), Len(Sized(n)),
                          Count(new, Len(new)), Whole(new[Len(new)]))
<1>1. PICK n \in RecordsPerFrameToUse(given, trust, previous) :
        Begin([op |-> "append", insert |-> insert, data |-> data],
              CutAt(state, n), Groups(Joined(n), n), Sized(n), ResultOf(n))
  BY DEF AppendRecords
<1>2. CallerOfAppend(given, trust, passed) /\ data # Empty /\ data \in Bytes
  BY DataAssumption DEF AppendRecords
<1>3. /\ n \in Nat \ {0} /\ Full(frames, n) /\ last \in 1..Len(frames)
      /\ state = [count |-> Count(frames, last), whole |-> Whole(frames[last])]
  BY <1>2, CountIsTheFiles
<1>4. /\ table # None /\ pc = "idle" /\ table = Sizes(frames)
      /\ frames \in Seq(Bytes) /\ Len(frames) \in Nat /\ DOMAIN frames = 1..Len(frames)
  BY <1>2, LenProperties DEF CallerOfAppend, EditInv, TableDescribesFile, TypeOK
<1>5. state.count = Count(frames, last) /\ state.whole = Whole(frames[last])
  BY <1>3
<1> HIDE DEF state
<1>6. Joined(n) \in Bytes /\ Size(Joined(n)) > 0
  <2>1. \/ TailBytes(state, n) \in {Empty, Seal(frames[last])}
        \/ TailBytes(state, n) = frames[last] /\ Whole(frames[last])
    BY <1>5 DEF TailBytes
  <2>2. last \in DOMAIN frames
    BY <1>3, <1>4
  <2> DEFINE tail == TailBytes(state, n)
  <2> HIDE DEF tail
  <2>3. tail \in {Empty, Seal(frames[last])} \/ (tail = frames[last] /\ Whole(frames[last]))
    BY <2>1 DEF tail
  <2>4. Join(tail, data) \in Bytes /\ Size(Join(tail, data)) > 0
    BY <1>2, <1>4, <2>2, <2>3, TailBytesEnd
  <2> QED BY <2>4 DEF tail
<1> DEFINE new == Groups(Joined(n), n)
           cut == CutAt(state, n)
           target == SubSeq(frames, 1, cut) \o new
<1> HIDE DEF Joined
<1>7. /\ new \in Seq(Bytes)
      /\ Len(new) \in Nat \ {0}
      /\ \A i \in 1..(Len(new) - 1) : Count(new, i) = n /\ ~new[i].part
      /\ Count(new, Len(new)) <= n
      /\ Size(new[Len(new)]) > 0
  BY <1>3, <1>6, GroupsOf
<1>8. /\ cut \in 0..Len(frames) /\ KeptFrames(state, n) = cut
      /\ \A i \in 1..cut : Count(frames, i) = n /\ ~frames[i].part
  <2>1. ASSUME NEW i \in 1..(last - 1) PROVE Count(frames, i) = n /\ ~frames[i].part
    BY <1>3, <2>1 DEF Full, last
  <2>2. CASE PreserveLast(state, n)
    <3>1. cut = last /\ KeptFrames(state, n) = cut
      BY <1>3, <1>4, <2>2 DEF CutAt, KeptFrames
    <3>2. Count(frames, last) = n /\ ~frames[last].part
      BY <1>5, <2>2 DEF PreserveLast, Whole
    <3>3. ASSUME NEW i \in 1..cut PROVE i = last \/ i \in 1..(last - 1)
      BY <1>3, <1>4, <3>1
    <3> QED BY <1>3, <1>4, <2>1, <3>1, <3>2, <3>3
  <2>3. CASE ~PreserveLast(state, n)
    <3>1. cut = last - 1 /\ KeptFrames(state, n) = cut
      BY <1>3, <1>4, <2>3 DEF CutAt, KeptFrames
    <3> QED BY <1>3, <1>4, <2>1, <3>1
  <2> QED BY <2>2, <2>3
<1> HIDE DEF new, cut
<1>9. /\ target \in Seq(Bytes)
      /\ Len(target) = cut + Len(new)
      /\ \A i \in 1..cut : target[i] = frames[i]
      /\ \A j \in 1..Len(new) : target[cut + j] = new[j]
      /\ SubSeq(Sizes(frames), 1, cut) \o Sizes(new) = Sizes(target)
  BY <1>4, <1>7, <1>8, Spliced
<1>10. Sized(n) = Sizes(target)
  BY <1>4, <1>8, <1>9 DEF new
<1> HIDE DEF target
<1>11. cut \in Nat /\ Len(target) \in Nat \ {0} /\ Len(new) \in Nat \ {0}
  BY <1>4, <1>7, <1>8, <1>9
<1>12. target[Len(target)] = new[Len(new)]
  BY <1>9, <1>11
<1>13. ASSUME NEW i \in 1..(Len(target) - 1) PROVE Count(target, i) = n /\ ~target[i].part
  <2>1. CASE i <= cut
    <3>1. i \in 1..cut
      BY <1>11, <2>1
    <3> QED BY <1>8, <1>9, <3>1 DEF Count
  <2>2. CASE ~(i <= cut)
    <3>1. i - cut \in 1..(Len(new) - 1) /\ i - cut \in 1..Len(new) /\ i = cut + (i - cut)
      BY <1>9, <1>11, <2>2
    <3>2. target[i] = new[i - cut]
      BY <1>9, <3>1
    <3> QED BY <1>7, <3>1, <3>2 DEF Count
  <2> QED BY <2>1, <2>2
<1>14. Uniform(target)
  <2>1. target # <<>>
    BY <1>9, <1>11, EmptySeq
  <2>2. Count(target, Len(target)) <= n
    BY <1>7, <1>12 DEF Count
  <2> QED BY <1>3, <1>9, <1>13, <2>1, <2>2, UniformIf
<1>15. LastDataFrame(target) = Len(target)
  <2>1. Len(target) \in DOMAIN target /\ DOMAIN target = 1..Len(target)
    BY <1>9, <1>11, LenProperties
  <2>2. \A j \in DOMAIN target : ~(j > Len(target))
    BY <1>11, <2>1
  <2> QED BY <1>7, <1>9, <1>12, <2>1, <2>2, LastIs
<1>16. ResultOf(n) \in Results /\ Tells(ResultOf(n), target) /\ ResultOf(n).last_size > 0
  <2> DEFINE held == Count(new, Len(new))
             whole == Whole(new[Len(new)])
             size == Size(new[Len(new)])
  <2>1. held \in Nat /\ size \in Nat /\ whole \in BOOLEAN
    BY <1>7, FrameOf, LenProperties DEF Whole
  <2>2. Len(Sized(n)) = Len(target) /\ Sized(n)[Len(target)] = size
    <3>1. Len(target) \in 1..Len(target)
      BY <1>11
    <3>2. Len(Sizes(target)) = Len(target) /\ Sizes(target)[Len(target)] = Size(target[Len(target)])
      BY <1>9, <3>1, SizesOf
    <3> HIDE DEF Sized
    <3> QED BY <1>10, <1>12, <3>2
  <2>3. ResultOf(n) = [records_per_frame |-> n, count_validated |-> validated,
                       frame_count |-> Len(target), last_frame |-> Len(target),
                       last_size |-> size, last_records |-> held, last_whole |-> whole]
    BY <2>2 DEF AppendResult, new
  <2>4. validated \in BOOLEAN
    BY DEF Validated
  <2>5. held = Count(target, Len(target)) /\ whole = Whole(target[Len(target)])
        /\ size = Size(target[Len(target)])
    BY <1>12 DEF Count
  <2> HIDE DEF held, whole, size, validated, ResultOf
  <2>6. ResultOf(n) \in Results
    BY <1>3, <1>11, <2>1, <2>3, <2>4 DEF Results
  <2>7. Full(target, n)
    BY <1>13, <1>15 DEF Full
  <2>8. Tells(ResultOf(n), target)
    BY <1>15, <2>3, <2>5, <2>7 DEF Tells
  <2>9. ResultOf(n).last_size > 0
    <3>1. size > 0
      BY <1>7 DEF size
    <3> QED BY <2>3, <3>1
  <2> QED BY <2>6, <2>8, <2>9
<1>17. Begin([op |-> "append", insert |-> insert, data |-> data], cut, new, Sized(n), ResultOf(n))
  BY <1>1 DEF new, cut
<1> HIDE DEF ResultOf, Sized
<1>18. TypeOK' /\ EditInv'
  BY <1>4, <1>7, <1>8, <1>10, <1>14, <1>16, <1>17, BeginKeeps DEF target
<1>19. plan'.result = ResultOf(n)
  BY <1>17 DEF Begin
<1> QED BY <1>16, <1>18, <1>19

\* A range that is copied holds the count in every frame but the last, and ends
\* a record with each of them.
LEMMA RangeIsUniform ==
  ASSUME NEW input \in Inputs, NEW from \in Nat, NEW cnt \in Nat \cup {None},
         NEW check \in {"FirstFrame", "EveryFrame"}, CallerOfFrames(input, check),
         NEW range \in FramesToAppend(input, from, cnt, check), range.first < range.past
  PROVE  \E n \in ValidateSeparator(frames) :
           /\ Count(frames, last) = n /\ Whole(frames[last])
           /\ range.first \in Nat \ {0} /\ range.past \in Nat /\ range.past - 1 <= Len(input)
           /\ input \in Seq(Bytes)
           /\ \A i \in range.first..(range.past - 2) : Count(input, i) = n /\ ~input[i].part
           /\ Count(input, range.past - 1) <= n
<1> DEFINE end == LastDataFrame(input)
<1>1. /\ input \in Seq(Bytes) /\ input # <<>>
      /\ \A i, j \in DOMAIN input : i < j /\ Size(input[j]) > 0 => ~input[i].part
      /\ Len(input) \in Nat /\ DOMAIN input = 1..Len(input)
  BY InputsAssumption, LenProperties
<1>2. end \in 1..Len(input) /\ (end = 1 \/ Size(input[end]) > 0)
  BY <1>1, LastExists
<1>3. PICK n \in ValidateSeparator(frames) :
        /\ Whole(frames[last]) /\ Count(frames, last) = n
        /\ n \in RecordsPerFrame(input, "FirstFrame")
        /\ \A r \in FrameRange(input, n, from, cnt) :
             check = "EveryFrame" => CheckRangeUniform(input, n, r)
        /\ range \in FrameRange(input, n, from, cnt)
  BY DEF FramesToAppend
<1>4. n = Count(input, 1) /\ end > 1 /\ n \in Nat \ {0}
  <2>1. n = Count(input, 1) /\ end > 1
    BY <1>3 DEF RecordsPerFrame
  <2>2. n > 0
    BY <1>3 DEF ValidateSeparator
  <2> QED BY <1>1, <1>2, <2>1, <2>2, FrameOf
<1> DEFINE start == from \div n + 1
           stop == (from + cnt) \div n + 1
<1> HIDE DEF end
<1>5. start \in Nat \ {0}
  BY <1>4
<1>6. \/ cnt # None /\ (from + cnt) \div n < end
         /\ range = [first |-> start, past |-> stop, toEnd |-> FALSE]
      \/ range = [first |-> start, past |-> end + 1, toEnd |-> TRUE]
  BY <1>3 DEF FrameRange, end
<1>7. range.first = start /\ range.past \in Nat /\ range.past <= end + 1
  <2>1. CASE cnt # None /\ (from + cnt) \div n < end
             /\ range = [first |-> start, past |-> stop, toEnd |-> FALSE]
    <3>1. stop \in Nat /\ stop <= end + 1
      BY <1>2, <1>4, <2>1
    <3> HIDE DEF start, stop
    <3> QED BY <2>1, <3>1
  <2>2. CASE range = [first |-> start, past |-> end + 1, toEnd |-> TRUE]
    <3> HIDE DEF start
    <3> QED BY <1>2, <2>2
  <2> QED BY <1>6, <2>1, <2>2
<1> HIDE DEF start
<1>8. range.past - 1 \in range.first..(range.past - 1) /\ range.past - 1 \in 1..end
  BY <1>2, <1>5, <1>7
<1>9. \A i \in range.first..(range.past - 2) :
         /\ i \in 1..(end - 1) /\ i \in range.first..(range.past - 1) /\ i # range.past - 1
  BY <1>2, <1>5, <1>7
<1>10. /\ \A i \in range.first..(range.past - 2) : Count(input, i) = n /\ ~input[i].part
       /\ Count(input, range.past - 1) <= n
  <2>1. CASE check = "FirstFrame"
    <3>1. /\ \A i \in 1..(end - 1) : Count(input, i) = n /\ ~input[i].part
          /\ \A j \in 2..Len(input) : Count(input, j) <= n
      BY <1>1, <1>4, <2>1, UniformTells DEF CallerOfFrames, Full, end
    <3>2. range.past - 1 = 1 \/ range.past - 1 \in 2..Len(input)
      BY <1>1, <1>2, <1>7, <1>8
    <3> QED BY <1>4, <1>9, <3>1, <3>2
  <2>2. CASE check = "EveryFrame"
    <3>1. \A i \in range.first..(range.past - 1) :
            \/ Count(input, i) = n
            \/ i = range.past - 1 /\ Count(input, i) < n
      BY <1>3, <2>2 DEF CheckRangeUniform
    <3>2. Count(input, range.past - 1) \in Nat
      BY <1>1, <1>2, <1>8, FrameOf
    <3>3. Count(input, range.past - 1) <= n
      BY <1>4, <1>8, <3>1, <3>2
    <3>4. ASSUME NEW i \in range.first..(range.past - 2) PROVE ~input[i].part
      <4>1. i \in DOMAIN input /\ end \in DOMAIN input /\ i < end
        BY <1>1, <1>2, <1>9
      <4> QED BY <1>1, <1>2, <1>4, <4>1
    <3> QED BY <1>9, <3>1, <3>3, <3>4
  <2> QED BY <2>1, <2>2
<1>11. range.past - 1 <= Len(input)
  BY <1>2, <1>7
<1> QED BY <1>1, <1>3, <1>5, <1>7, <1>10, <1>11

\* Frames copied behind a full last frame leave a uniform file.
LEMMA AppendFramesKeeps ==
  ASSUME TypeOK, EditInv, NEW input \in Inputs, NEW from \in Nat, NEW cnt \in Nat \cup {None},
         NEW check \in {"FirstFrame", "EveryFrame"}, AppendFrames(input, from, cnt, check)
  PROVE  TypeOK' /\ EditInv'
<1>1. CallerOfFrames(input, check)
  BY DEF AppendFrames
<1> DEFINE request == [op |-> "append", insert |-> FALSE, data |-> RangeOf(input, from, cnt)]
           Copied(r) == SubSeq(input, r.first, r.past - 1)
<1>2. PICK range \in FramesToAppend(input, from, cnt, check) :
        /\ range.first < range.past
        /\ Begin(request, last, Copied(range),
                 SubSeq(table, 1, last) \o Sizes(Copied(range)), None)
  BY DEF AppendFrames
<1>3. PICK n \in ValidateSeparator(frames) :
        /\ Count(frames, last) = n /\ Whole(frames[last])
        /\ range.first \in Nat \ {0} /\ range.past \in Nat /\ range.past - 1 <= Len(input)
        /\ input \in Seq(Bytes)
        /\ \A i \in range.first..(range.past - 2) : Count(input, i) = n /\ ~input[i].part
        /\ Count(input, range.past - 1) <= n
  BY <1>1, <1>2, RangeIsUniform
<1>4. /\ table # None /\ pc = "idle" /\ table = Sizes(frames) /\ Uniform(frames)
      /\ frames \in Seq(Bytes) /\ frames # <<>> /\ Full(frames, Count(frames, 1))
      /\ Len(frames) \in Nat /\ DOMAIN frames = 1..Len(frames)
  BY <1>1, LenProperties, UniformTells
  DEF CallerOfFrames, EditInv, TableDescribesFile, UniformFile, TypeOK
<1>5. last \in 1..Len(frames) /\ last \in 0..Len(frames)
  BY <1>4, LastExists DEF last
<1>6. n = Count(frames, 1) /\ n \in Nat
  BY <1>3, <1>4, FrameOf DEF ValidateSeparator
<1>7. \A i \in 1..last : Count(frames, i) = n /\ ~frames[i].part
  <2>1. \A i \in 1..(last - 1) : Count(frames, i) = n /\ ~frames[i].part
    BY <1>4, <1>6 DEF Full, last
  <2>2. \A i \in 1..last : i = last \/ i \in 1..(last - 1)
    BY <1>5
  <2> QED BY <1>3, <2>1, <2>2 DEF Whole
<1> DEFINE first == range.first
           past == range.past
           new == Copied(range)
           target == SubSeq(frames, 1, last) \o new
<1>8. first \in Nat \ {0} /\ past \in Nat /\ first < past /\ past - 1 <= Len(input)
      /\ Len(input) \in Nat
  BY <1>2, <1>3, LenProperties
<1>9. /\ new \in Seq(Bytes) /\ Len(new) = past - first
      /\ \A j \in 1..(past - first) : new[j] = input[first + j - 1]
  <2> HIDE DEF first, past
  <2>1. \A j \in first..(past - 1) : input[j] \in Bytes
    BY <1>3, <1>8, ElementOfSeq
  <2>2. /\ SubSeq(input, first, past - 1) \in Seq(Bytes)
        /\ Len(SubSeq(input, first, past - 1))
             = IF first <= past - 1 THEN past - 1 - first + 1 ELSE 0
        /\ \A j \in 1..(past - 1 - first + 1) :
             SubSeq(input, first, past - 1)[j] = input[first + j - 1]
    BY <1>8, <2>1, SubSeqProperties
  <2>3. past - 1 - first + 1 = past - first /\ first <= past - 1
    BY <1>8
  <2>4. new = SubSeq(input, first, past - 1)
    BY DEF first, past
  <2> HIDE DEF new
  <2> QED BY <2>2, <2>3, <2>4
<1>10. /\ \A i \in first..(past - 2) : Count(input, i) = n /\ ~input[i].part
       /\ Count(input, past - 1) <= n
  BY <1>3
<1>11. Begin(request, last, new, SubSeq(table, 1, last) \o Sizes(new), None)
  BY <1>2
<1> HIDE DEF new, first, past, request
<1>12. /\ target \in Seq(Bytes)
       /\ Len(target) = last + Len(new)
       /\ \A i \in 1..last : target[i] = frames[i]
       /\ \A j \in 1..Len(new) : target[last + j] = new[j]
       /\ SubSeq(Sizes(frames), 1, last) \o Sizes(new) = Sizes(target)
  BY <1>4, <1>5, <1>9, Spliced
<1> HIDE DEF target
<1>13. Len(target) = last + (past - first) /\ Len(target) \in Nat \ {0}
  BY <1>4, <1>5, <1>8, <1>9, <1>12
<1>14. ASSUME NEW j \in 1..(past - first) PROVE target[last + j] = input[first + j - 1]
  BY <1>9, <1>12
<1>15. ASSUME NEW i \in 1..(Len(target) - 1) PROVE Count(target, i) = n /\ ~target[i].part
  <2>1. CASE i <= last
    <3>1. i \in 1..last
      BY <1>4, <1>5, <2>1
    <3> QED BY <1>7, <1>12, <3>1 DEF Count
  <2>2. CASE ~(i <= last)
    <3>1. /\ i - last \in 1..(past - first) /\ i = last + (i - last)
          /\ first + (i - last) - 1 \in first..(past - 2)
      BY <1>4, <1>5, <1>8, <1>13, <2>2
    <3>2. target[i] = input[first + (i - last) - 1]
      BY <1>14, <3>1
    <3> QED BY <1>10, <3>1, <3>2 DEF Count
  <2> QED BY <2>1, <2>2
<1>16. Count(target, Len(target)) <= n
  <2>1. past - first \in 1..(past - first) /\ first + (past - first) - 1 = past - 1
    BY <1>8
  <2>2. target[Len(target)] = input[past - 1]
    BY <1>13, <1>14, <2>1
  <2> QED BY <1>10, <2>2 DEF Count
<1>17. Uniform(target)
  <2>1. target # <<>>
    BY <1>12, <1>13, EmptySeq
  <2> QED BY <1>6, <1>12, <1>15, <1>16, <2>1, UniformIf
<1> QED BY <1>4, <1>5, <1>9, <1>11, <1>12, <1>17, BeginKeeps DEF target

\* The first frames of a uniform file are one, and their entries its table.
LEMMA TruncateKeeps ==
  ASSUME TypeOK, EditInv, NEW len \in Nat, Truncate(len)
  PROVE  TypeOK' /\ EditInv'
<1>1. PICK k \in FramesToKeep(len) :
        Begin([op |-> "truncate", len |-> len], k, <<>>, SubSeq(table, 1, k), None)
  BY DEF Truncate
<1>2. /\ table # None /\ pc = "idle" /\ table = Sizes(frames) /\ Uniform(frames)
      /\ frames \in Seq(Bytes) /\ Len(frames) \in Nat
  BY LenProperties DEF Truncate, EditInv, TableDescribesFile, UniformFile, TypeOK
<1>3. k \in 1..Len(frames) /\ k \in 0..Len(frames)
  BY <1>2 DEF FramesToKeep
<1> DEFINE kept == SubSeq(frames, 1, k)
           none == <<>>
<1>4. none \in Seq(Bytes) /\ Len(none) = 0 /\ Sizes(none) = <<>>
  BY EmptySeq DEF Sizes
<1>5. kept \o none = kept /\ SubSeq(table, 1, k) \o Sizes(none) = SubSeq(table, 1, k)
  <2>1. \A i \in 1..k : frames[i] \in Bytes /\ table[i] \in Nat
    BY <1>2, <1>3, SizesOf, FrameOf, LenProperties
  <2>2. kept \in Seq(Bytes) /\ SubSeq(table, 1, k) \in Seq(Nat)
    BY <1>2, <1>3, <2>1, SubSeqProperties
  <2> HIDE DEF kept
  <2> QED BY <1>4, <2>2, ConcatEmptySeq
<1> HIDE DEF none
<1>6. /\ kept \o none \in Seq(Bytes)
      /\ Len(kept \o none) = k + Len(none)
      /\ \A i \in 1..k : (kept \o none)[i] = frames[i]
      /\ SubSeq(Sizes(frames), 1, k) \o Sizes(none) = Sizes(kept \o none)
  BY <1>2, <1>3, <1>4, Spliced
<1>7. Uniform(kept \o none)
  <2>1. Len(kept \o none) = k
    BY <1>2, <1>3, <1>4, <1>6
  <2> QED BY <1>2, <1>3, <1>6, <2>1, UniformPrefix
<1>8. SubSeq(table, 1, k) = Sizes(kept \o none)
  BY <1>2, <1>5, <1>6
<1>9. Begin([op |-> "truncate", len |-> len], k, none, SubSeq(table, 1, k), None)
  BY <1>1 DEF none
<1> QED BY <1>2, <1>3, <1>4, <1>7, <1>8, <1>9, BeginKeeps

-------------------------------------------------------------------------------
(***************************************************************************)
(* Writing it                                                              *)
(***************************************************************************)
\* set_len leaves the frames to keep, and no table.
LEMMA CutKeeps ==
  ASSUME TypeOK, EditInv, Cut
  PROVE  TypeOK' /\ EditInv'
<1>1. /\ plan.target \in Seq(Bytes) /\ plan.cut \in 0..Len(plan.target)
      /\ plan.cut <= Len(frames)
      /\ SubSeq(frames, 1, plan.cut) = SubSeq(plan.target, 1, plan.cut)
  BY DEF Cut, EditInv, Planned, OnDisk
<1> DEFINE kept == SubSeq(plan.target, 1, plan.cut)
<1>2. frames' = kept
  BY <1>1 DEF Cut
<1>3. kept \in Seq(Bytes) /\ Len(kept) = plan.cut
  <2>1. plan.cut \in Nat /\ plan.cut <= Len(plan.target) /\ Len(plan.target) \in Nat
    BY <1>1, LenProperties
  <2>2. \A i \in 1..plan.cut : plan.target[i] \in Bytes
    BY <1>1, <2>1, ElementOfSeq
  <2> QED BY <2>1, <2>2, SubSeqProperties
<1>4. /\ pc' = "write" /\ table' = None /\ fresh' = FALSE /\ plan' = plan
      /\ prev' = prev /\ answer' = answer
  BY DEF Cut
<1> HIDE DEF kept
<1>5. TypeOK'
  BY <1>2, <1>3, <1>4 DEF TypeOK
<1>6. TableDescribesFile' /\ UniformFile' /\ CacheIsTrue'
  BY <1>4 DEF TableDescribesFile, UniformFile, CacheIsTrue
<1>7. Planned'
  BY <1>4 DEF Cut, EditInv, Planned
<1>8. OnDisk'
  <2>1. plan.cut <= Len(plan.target)
    BY <1>1, LenProperties
  <2> QED BY <1>2, <1>3, <1>4, <2>1 DEF OnDisk, kept
<1> QED BY <1>5, <1>6, <1>7, <1>8 DEF EditInv

\* A frame written is the next one of the plan.
LEMMA WriteFrameKeeps ==
  ASSUME TypeOK, EditInv, WriteFrame
  PROVE  TypeOK' /\ EditInv'
<1> DEFINE target == plan.target
           next == Len(frames) + 1
<1>1. /\ target \in Seq(Bytes) /\ Len(target) \in Nat
      /\ frames \in Seq(Bytes) /\ Len(frames) \in Nat
      /\ table = None /\ Len(frames) < Len(target) /\ frames = SubSeq(target, 1, Len(frames))
      /\ pc = "write"
  BY LenProperties DEF WriteFrame, EditInv, Planned, OnDisk, TypeOK
<1>2. /\ frames' = Append(frames, target[next])
      /\ pc' = pc /\ table' = table /\ plan' = plan /\ prev' = prev /\ fresh' = fresh
      /\ answer' = answer
  BY DEF WriteFrame, cache
<1>3. target' = target
  BY <1>2
<1> HIDE DEF target
<1>4. next \in 1..Len(target) /\ 1 \in 1..Len(target) /\ next \in 1..Len(target)
      /\ next - 1 = Len(frames) /\ target[next] \in Bytes
  BY <1>1, ElementOfSeq
<1>5. SubSeq(target, 1, next) = Append(frames, target[next])
  <2>1. next \in 1..Len(target)
    BY <1>4
  <2>2. SubSeq(target, 1, next) = SubSeq(target, 1, next - 1) \o <<target[next]>>
    <3> HIDE DEF next
    <3> QED BY <1>1, <1>4, SubSeqRecursiveSecond
  <2>3. Append(frames, target[next]) = frames \o <<target[next]>>
    BY <1>1, <1>4, AppendIsConcat
  <2> QED BY <1>1, <1>4, <2>2, <2>3
<1>6. Append(frames, target[next]) \in Seq(Bytes) /\ Len(Append(frames, target[next])) = next
  BY <1>1, <1>4, AppendProperties
<1>7. TypeOK'
  BY <1>2, <1>6 DEF TypeOK
<1>8. TableDescribesFile' /\ UniformFile' /\ CacheIsTrue'
  BY <1>1, <1>2 DEF EditInv, TableDescribesFile, UniformFile, CacheIsTrue
<1>9. Planned'
  BY <1>2 DEF EditInv, Planned
<1>10. OnDisk'
  <2>1. Len(frames') = next /\ next <= Len(target)
    BY <1>2, <1>4, <1>6
  <2>2. frames' = SubSeq(target, 1, next)
    BY <1>2, <1>5
  <2> HIDE DEF next
  <2> QED BY <1>1, <1>2, <2>1, <2>2 DEF OnDisk, target
<1> QED BY <1>7, <1>8, <1>9, <1>10 DEF EditInv

\* With the last write the file is the plan, and can be opened again.
LEMMA WriteSeekTableKeeps ==
  ASSUME TypeOK, EditInv, WriteSeekTable
  PROVE  TypeOK' /\ EditInv'
<1>1. /\ plan.target \in Seq(Bytes) /\ Uniform(plan.target) /\ plan.log = Sizes(plan.target)
      /\ plan.result # None => plan.result \in Results /\ Tells(plan.result, plan.target)
      /\ table = None /\ frames = SubSeq(plan.target, 1, Len(frames))
      /\ Len(frames) = Len(plan.target)
  BY DEF WriteSeekTable, EditInv, Planned, OnDisk
<1>2. frames = plan.target
  BY <1>1, SubSeqFull
<1>3. /\ pc' = "idle" /\ table' = Sizes(frames) /\ frames' = frames /\ answer' = "ok"
      /\ \/ prev' = prev /\ fresh' = fresh
         \/ prev' = plan.result /\ fresh' = TRUE /\ plan.result # None
  BY <1>1, <1>2 DEF WriteSeekTable, cache
<1>4. table' # None /\ table' \in Seq(Nat) \ {<<>>}
  <2>1. /\ Sizes(frames) \in Seq(Nat) /\ Len(Sizes(frames)) = Len(frames)
        /\ frames # <<>> /\ Len(frames) \in Nat \ {0}
    BY <1>1, <1>2, SizesOf, EmptySeq DEF Uniform
  <2>2. Sizes(frames) # <<>>
    BY <2>1, EmptySeq
  <2> QED BY <1>3, <2>1, <2>2, NoneAssumption
<1>5. TableDescribesFile' /\ UniformFile'
  BY <1>1, <1>2, <1>3 DEF TableDescribesFile, UniformFile
<1>6. TypeOK'
  BY <1>1, <1>2, <1>3, <1>4 DEF TypeOK
<1>7. CacheIsTrue'
  BY <1>1, <1>2, <1>3, <1>4 DEF EditInv, CacheIsTrue
<1>8. Planned' /\ OnDisk'
  BY <1>3 DEF Planned, OnDisk
<1> QED BY <1>5, <1>6, <1>7, <1>8 DEF EditInv

\* A failure leaves the file as it is: without a table once it has been cut.
LEMMA FailKeeps ==
  ASSUME TypeOK, EditInv, Fail
  PROVE  TypeOK' /\ EditInv'
<1>1. /\ pc' = "idle" /\ answer' = "failed"
      /\ frames' = frames /\ table' = table /\ prev' = prev /\ fresh' = fresh
  BY DEF Fail, file, cache
<1>2. TypeOK'
  BY <1>1 DEF TypeOK
<1> QED
  BY <1>1, <1>2 DEF EditInv, TableDescribesFile, UniformFile, CacheIsTrue, Planned, OnDisk

\* Nothing is written: a refusal, a copy of nothing, a copy to another file.
LEMMA OthersKeep ==
  ASSUME TypeOK, EditInv, UNCHANGED <<file, pc, plan, cache>>,
         answer' \in {"ok", "refused", answer}
  PROVE  TypeOK' /\ EditInv'
<1>1. UNCHANGED <<frames, table, pc, plan, prev, fresh>>
  BY DEF file, cache
<1>2. TypeOK'
  BY <1>1 DEF TypeOK
<1> QED
  BY <1>1, <1>2 DEF EditInv, TableDescribesFile, UniformFile, CacheIsTrue, Planned, OnDisk

-------------------------------------------------------------------------------
\* The invariant holds of the files there are at first.
LEMMA Initially == Init => TypeOK /\ EditInv
<1> SUFFICES ASSUME Init PROVE TypeOK /\ EditInv
  OBVIOUS
<1>1. /\ frames \in Seq(Bytes) /\ Uniform(frames) /\ table = Sizes(frames)
      /\ pc = "idle" /\ plan = None /\ prev = None /\ fresh = FALSE /\ answer = "none"
  BY FilesAssumption DEF Init
<1>2. Sizes(frames) \in Seq(Nat) \ {<<>>}
  <2>1. /\ Sizes(frames) \in Seq(Nat) /\ Len(Sizes(frames)) = Len(frames)
        /\ frames # <<>> /\ Len(frames) \in Nat \ {0}
    BY <1>1, SizesOf, EmptySeq DEF Uniform
  <2> QED BY <2>1, EmptySeq
<1>3. TypeOK
  BY <1>1, <1>2 DEF TypeOK
<1> QED
  BY <1>1, <1>3 DEF EditInv, TableDescribesFile, UniformFile, CacheIsTrue, Planned, OnDisk

\* Every step of every operation keeps it.
LEMMA Inductive == TypeOK /\ EditInv /\ [Next]_vars => TypeOK' /\ EditInv'
<1> SUFFICES ASSUME TypeOK, EditInv, [Next]_vars PROVE TypeOK' /\ EditInv'
  OBVIOUS
<1>1. CASE AppendCall
  <2>1. PICK insert \in BOOLEAN, trust \in BOOLEAN, given \in Counts \cup {None},
             passed \in {None, prev} :
          \/ AppendNothing(given, trust, passed)
          \/ \E data \in Data :
               \/ AppendRecords(data, insert, given, trust, passed)
               \/ AppendRefused(data, insert, given, trust, passed)
    BY <1>1 DEF AppendCall
  <2>2. CASE AppendNothing(given, trust, passed)
    BY <2>2, AppendNothingKeeps
  <2>3. ASSUME NEW data \in Data, AppendRecords(data, insert, given, trust, passed)
        PROVE  TypeOK' /\ EditInv'
    BY <2>3, AppendRecordsKeeps
  <2>4. ASSUME NEW data \in Data, AppendRefused(data, insert, given, trust, passed)
        PROVE  TypeOK' /\ EditInv'
    BY <2>4, OthersKeep DEF AppendRefused, Refuse
  <2> QED BY <2>1, <2>2, <2>3, <2>4
<1>2. ASSUME NEW input \in Inputs, NEW from \in 0..MaxSize, NEW cnt \in 0..MaxSize \cup {None},
             NEW check \in {"FirstFrame", "EveryFrame"},
             \/ FramesNothing(input, from, cnt, check)
             \/ AppendFrames(input, from, cnt, check)
             \/ FramesRefused(input, from, cnt, check)
      PROVE  TypeOK' /\ EditInv'
  <2>1. from \in Nat /\ cnt \in Nat \cup {None}
    BY BoundAssumption
  <2>2. CASE FramesNothing(input, from, cnt, check)
    BY <2>2, OthersKeep DEF FramesNothing
  <2>3. CASE AppendFrames(input, from, cnt, check)
    BY <2>1, <2>3, AppendFramesKeeps
  <2>4. CASE FramesRefused(input, from, cnt, check)
    BY <2>4, OthersKeep DEF FramesRefused, Refuse
  <2> QED BY <1>2, <2>2, <2>3, <2>4
<1>3. ASSUME NEW len \in 0..MaxSize, Truncate(len) \/ TruncateRefused(len)
      PROVE  TypeOK' /\ EditInv'
  <2>1. len \in Nat
    BY BoundAssumption
  <2>2. CASE Truncate(len)
    BY <2>1, <2>2, TruncateKeeps
  <2>3. CASE TruncateRefused(len)
    BY <2>3, OthersKeep DEF TruncateRefused, Refuse
  <2> QED BY <1>3, <2>2, <2>3
<1>4. ASSUME NEW from, NEW cnt, NEW align, NEW check,
             CopyRange(from, cnt, align, check) \/ CopyRefused(from, cnt, align, check)
      PROVE  TypeOK' /\ EditInv'
  <2>1. CASE CopyRange(from, cnt, align, check)
    BY <2>1, OthersKeep DEF CopyRange
  <2>2. CASE CopyRefused(from, cnt, align, check)
    BY <2>2, OthersKeep DEF CopyRefused, Refuse
  <2> QED BY <1>4, <2>1, <2>2
<1>5. CASE OpenRefused
  BY <1>5, OthersKeep DEF OpenRefused, Refuse
<1>6. CASE Cut
  BY <1>6, CutKeeps
<1>7. CASE WriteFrame
  BY <1>7, WriteFrameKeeps
<1>8. CASE WriteSeekTable
  BY <1>8, WriteSeekTableKeeps
<1>9. CASE Fail
  BY <1>9, FailKeeps
<1>10. CASE UNCHANGED vars
  BY <1>10, OthersKeep DEF vars
<1> QED BY <1>1, <1>2, <1>3, <1>4, <1>5, <1>6, <1>7, <1>8, <1>9, <1>10 DEF Next

\* The inductive invariant of the editing operations: no sequence of appends,
\* frame copies, truncations and failures (src/src/edit.rs) breaks the format.
THEOREM Invariance == Spec => [](TypeOK /\ EditInv)
<1>1. Init => TypeOK /\ EditInv
  BY Initially
<1>2. TypeOK /\ EditInv /\ [Next]_vars => TypeOK' /\ EditInv'
  BY Inductive
<1> QED BY <1>1, <1>2, PTL DEF Spec

\* Every variable keeps its type; a file never has a table of no frames.
THEOREM TypeCorrect == Spec => []TypeOK
BY Invariance, PTL

\* A file that can be opened has its own table: the entries logged while an
\* operation wrote are the frames it wrote.
THEOREM TableIsTheFiles == Spec => []TableDescribesFile
<1>1. EditInv => TableDescribesFile
  BY DEF EditInv
<1> QED BY <1>1, Invariance, PTL

\* A file that can be opened has the invariant of docs/format.md, whatever the
\* count, the data, the inputs and the results passed back.
THEOREM FileStaysUniform == Spec => []UniformFile
<1>1. EditInv => UniformFile
  BY DEF EditInv
<1> QED BY <1>1, Invariance, PTL

\* An AppendResult passed back to the unchanged file says nothing of it that is
\* not so.
THEOREM CacheStaysTrue == Spec => []CacheIsTrue
<1>1. EditInv => CacheIsTrue
  BY DEF EditInv
<1> QED BY <1>1, Invariance, PTL

-------------------------------------------------------------------------------
(***************************************************************************)
(* What an interrupted append leaves                                       *)
(***************************************************************************)
\* The frames an append has to leave alone.
Preserved(p) ==
  LET end  == LastDataFrame(p.before)
      full == /\ Whole(p.before[end])
              /\ p.result = None \/ p.result.records_per_frame = Count(p.before, end)
  IN  IF full THEN end ELSE end - 1

\* Until the file is cut it is as it was; no append cuts off any of those; and
\* what the cut has left stays while frames are written, and after a failure.
KeepInv ==
  /\ pc = "cut" => plan.before = frames
  /\ pc # "idle" \/ table = None =>
       /\ plan.before \in Seq(Bytes) /\ plan.before # <<>>
       /\ plan.cut \in 0..Len(plan.before)
       /\ plan.request.op = "append" => Preserved(plan) <= plan.cut
  /\ table = None => /\ plan.cut <= Len(frames)
                     /\ \A i \in 1..plan.cut : frames[i] = plan.before[i]

\* An append plans to cut where its last frame begins, or behind it if that is
\* full: judged by the count it appends by, which is what its result says.
LEMMA AppendRecordsPreserves ==
  ASSUME TypeOK, EditInv, NEW data \in Data, NEW insert \in BOOLEAN,
         NEW given \in Counts \cup {None}, NEW trust \in BOOLEAN,
         NEW passed \in {None, prev}, AppendRecords(data, insert, given, trust, passed)
  PROVE  KeepInv'
<1> DEFINE previous == Usable(passed, given)
           state == LastState(previous)
           New(n) == Groups(Join(TailBytes(state, n), data), n)
           Sized(n) == SubSeq(table, 1, KeptFrames(state, n)) \o Sizes(New(n))
           ResultOf(n) ==
             AppendResult(n, ~trust \/ Validated(previous), Sized(n), Len(Sized(n)),
                          Count(New(n), Len(New(n))), Whole(New(n)[Len(New(n))]))
<1>1. PICK n \in RecordsPerFrameToUse(given, trust, previous) :
        Begin([op |-> "append", insert |-> insert, data |-> data],
              CutAt(state, n), New(n), Sized(n), ResultOf(n))
  BY DEF AppendRecords
<1>2. CallerOfAppend(given, trust, passed) /\ table # None
  BY DEF AppendRecords, CallerOfAppend
<1>3. /\ last \in 1..Len(frames)
      /\ state = [count |-> Count(frames, last), whole |-> Whole(frames[last])]
  BY <1>2, CountIsTheFiles
<1>4. /\ frames \in Seq(Bytes) /\ Len(frames) \in Nat /\ frames # <<>>
  BY <1>2, LenProperties DEF TypeOK, EditInv, UniformFile, Uniform
<1>5. state.count = Count(frames, last) /\ state.whole = Whole(frames[last])
  BY <1>3
<1>6. ResultOf(n).records_per_frame = n
  BY DEF AppendResult
<1> HIDE DEF state, ResultOf, New, Sized, previous
<1>7. /\ pc' = "cut" /\ frames' = frames /\ table' = table
      /\ plan'.before = frames /\ plan'.cut = CutAt(state, n) /\ plan'.result = ResultOf(n)
  BY <1>1 DEF Begin, file
<1>8. Preserved(plan') <= plan'.cut /\ plan'.cut \in 0..Len(frames)
  <2>1. CASE PreserveLast(state, n)
    <3>1. plan'.cut = last
      BY <1>7, <2>1 DEF CutAt
    <3>2. Preserved(plan') \in {last, last - 1}
      BY <1>7 DEF Preserved, last
    <3> QED BY <1>3, <1>4, <3>1, <3>2
  <2>2. CASE ~PreserveLast(state, n) /\ ResultOf(n) # None
    <3>1. plan'.cut = last - 1
      BY <1>7, <2>2 DEF CutAt
    <3>2. ~(Whole(frames[last]) /\ n = Count(frames, last))
      BY <1>5, <2>2 DEF PreserveLast
    <3>3. Preserved(plan') = last - 1
      BY <1>6, <1>7, <2>2, <3>2 DEF Preserved, last
    <3> QED BY <1>3, <1>4, <3>1, <3>3
  <2>3. ResultOf(n) # None
    BY <1>7, AppendRecordsKeeps, ResultsAssumption
  <2> QED BY <2>1, <2>2, <2>3
<1> QED BY <1>2, <1>4, <1>7, <1>8 DEF KeepInv

\* Frames are only copied behind a full last frame, which stays.
LEMMA AppendFramesPreserves ==
  ASSUME TypeOK, EditInv, NEW input \in Inputs, NEW from, NEW cnt,
         NEW check, AppendFrames(input, from, cnt, check)
  PROVE  KeepInv'
<1>1. PICK range \in FramesToAppend(input, from, cnt, check) :
        Begin([op |-> "append", insert |-> FALSE, data |-> RangeOf(input, from, cnt)],
              last, SubSeq(input, range.first, range.past - 1),
              SubSeq(table, 1, last) \o Sizes(SubSeq(input, range.first, range.past - 1)), None)
  BY DEF AppendFrames
<1>2. table # None /\ frames \in Seq(Bytes) /\ frames # <<>> /\ Len(frames) \in Nat
  BY LenProperties DEF AppendFrames, CallerOfFrames, TypeOK, EditInv, UniformFile, Uniform
<1>3. last \in 1..Len(frames)
  BY <1>2, LastExists, LenProperties DEF last
<1>4. /\ pc' = "cut" /\ frames' = frames /\ table' = table
      /\ plan'.before = frames /\ plan'.cut = last
  BY <1>1 DEF Begin, file
<1>5. Preserved(plan') \in {last, last - 1}
  BY <1>4 DEF Preserved, last
<1> QED BY <1>2, <1>3, <1>4, <1>5 DEF KeepInv

LEMMA TruncatePreserves ==
  ASSUME TypeOK, EditInv, NEW len, Truncate(len)
  PROVE  KeepInv'
<1>1. PICK k \in FramesToKeep(len) :
        Begin([op |-> "truncate", len |-> len], k, <<>>, SubSeq(table, 1, k), None)
  BY DEF Truncate
<1>2. table # None /\ frames \in Seq(Bytes) /\ frames # <<>> /\ Len(frames) \in Nat
  BY LenProperties DEF Truncate, TypeOK, EditInv, UniformFile, Uniform
<1>3. k \in 0..Len(frames)
  BY <1>2 DEF FramesToKeep
<1>4. /\ pc' = "cut" /\ frames' = frames /\ table' = table
      /\ plan'.before = frames /\ plan'.cut = k /\ plan'.request.op = "truncate"
  BY <1>1 DEF Begin, file
<1> QED BY <1>2, <1>3, <1>4 DEF KeepInv

\* Cutting, writing and failing.
LEMMA WritingPreserves ==
  ASSUME TypeOK, EditInv, KeepInv, Cut \/ WriteFrame \/ WriteSeekTable \/ Fail
  PROVE  KeepInv'
<1>1. CASE Cut
  <2>1. /\ plan' = plan /\ pc' = "write" /\ pc = "cut" /\ table' = None
        /\ frames' = SubSeq(frames, 1, plan.cut)
        /\ plan.before = frames /\ frames \in Seq(Bytes) /\ plan.cut \in 0..Len(frames)
        /\ Len(frames) \in Nat
    BY <1>1, LenProperties DEF Cut, KeepInv, TypeOK
  <2>2. Len(frames') = plan.cut /\ \A i \in 1..plan.cut : frames'[i] = frames[i]
    <3>1. \A i \in 1..plan.cut : frames[i] \in Bytes
      BY <2>1, ElementOfSeq
    <3> QED BY <2>1, <3>1, SubSeqProperties
  <2> QED BY <2>1, <2>2 DEF KeepInv
<1>2. CASE WriteFrame
  <2>1. /\ plan' = plan /\ pc' = pc /\ pc = "write" /\ table' = table /\ table = None
        /\ frames' = Append(frames, plan.target[Len(frames) + 1])
        /\ frames \in Seq(Bytes) /\ Len(frames) < Len(plan.target) /\ Len(frames) \in Nat
        /\ plan.target \in Seq(Bytes) /\ Len(plan.target) \in Nat /\ plan.cut \in Nat
    BY <1>2, LenProperties DEF WriteFrame, TypeOK, EditInv, OnDisk, Planned, KeepInv, cache
  <2>2. plan.target[Len(frames) + 1] \in Bytes
    BY <2>1, ElementOfSeq
  <2>3. Len(frames') = Len(frames) + 1 /\ \A i \in 1..Len(frames) : frames'[i] = frames[i]
    BY <2>1, <2>2, AppendProperties
  <2>4. \A i \in 1..plan.cut : i \in 1..Len(frames)
    BY <2>1 DEF KeepInv
  <2> QED BY <2>1, <2>3, <2>4 DEF KeepInv
<1>3. CASE WriteSeekTable
  <2>1. pc' = "idle" /\ table' = plan.log /\ plan.log = Sizes(plan.target)
        /\ plan.target \in Seq(Bytes)
    BY <1>3 DEF WriteSeekTable, EditInv, Planned
  <2>2. table' # None
    BY <2>1, SizesOf, NoneAssumption
  <2> QED BY <2>1, <2>2 DEF KeepInv
<1>4. CASE Fail
  <2>1. /\ pc' = "idle" /\ frames' = frames /\ table' = table
        /\ table = None => plan' = plan
    BY <1>4 DEF Fail, file
  <2> QED BY <2>1 DEF KeepInv
<1> QED BY <1>1, <1>2, <1>3, <1>4

LEMMA KeepNext ==
  ASSUME TypeOK, EditInv, KeepInv, [Next]_vars
  PROVE  KeepInv'
<1>1. ASSUME UNCHANGED <<file, pc, plan>> PROVE KeepInv'
  BY <1>1 DEF KeepInv, file
<1>2. CASE AppendCall
  <2>1. PICK insert \in BOOLEAN, trust \in BOOLEAN, given \in Counts \cup {None},
             passed \in {None, prev} :
          \/ AppendNothing(given, trust, passed)
          \/ \E data \in Data :
               \/ AppendRecords(data, insert, given, trust, passed)
               \/ AppendRefused(data, insert, given, trust, passed)
    BY <1>2 DEF AppendCall
  <2> QED BY <1>1, <2>1, AppendRecordsPreserves DEF AppendNothing, AppendRefused, Refuse
<1>3. ASSUME NEW input \in Inputs, NEW from, NEW cnt, NEW check,
             \/ FramesNothing(input, from, cnt, check)
             \/ AppendFrames(input, from, cnt, check)
             \/ FramesRefused(input, from, cnt, check)
      PROVE  KeepInv'
  BY <1>1, <1>3, AppendFramesPreserves DEF FramesNothing, FramesRefused, Refuse
<1>4. ASSUME NEW len, Truncate(len) \/ TruncateRefused(len) PROVE KeepInv'
  BY <1>1, <1>4, TruncatePreserves DEF TruncateRefused, Refuse
<1>5. ASSUME NEW from, NEW cnt, NEW align, NEW check,
             CopyRange(from, cnt, align, check) \/ CopyRefused(from, cnt, align, check)
      PROVE  KeepInv'
  BY <1>1, <1>5 DEF CopyRange, CopyRefused, Refuse
<1>6. CASE OpenRefused
  BY <1>1, <1>6 DEF OpenRefused, Refuse
<1>7. CASE Cut \/ WriteFrame \/ WriteSeekTable \/ Fail
  BY <1>7, WritingPreserves
<1>8. CASE UNCHANGED vars
  BY <1>1, <1>8 DEF vars
<1> QED BY <1>2, <1>3, <1>4, <1>5, <1>6, <1>7, <1>8 DEF Next

LEMMA KeepInitially == Init => KeepInv
<1> SUFFICES ASSUME Init PROVE KeepInv
  OBVIOUS
<1>1. table # None /\ pc = "idle"
  <2>1. frames \in Seq(Bytes) /\ table = Sizes(frames)
    BY FilesAssumption DEF Init
  <2> QED BY <2>1, SizesOf, NoneAssumption DEF Init
<1> QED BY <1>1 DEF KeepInv

\* "Rewrite nothing before the first byte they affect" (src/src/edit.rs): wherever
\* an append stops, all data frames before the last are on disk as they were, and
\* the last one too where it was full or frames are copied after it.
THEOREM InterruptedAppendsKeep == Spec => []InterruptedAppendKeeps
<1>1. KeepInv /\ TypeOK => InterruptedAppendKeeps
  <2> SUFFICES ASSUME KeepInv, TypeOK, table = None, plan.request.op = "append"
               PROVE  IsPrefix(SubSeq(plan.before, 1, Preserved(plan)), frames)
    BY DEF InterruptedAppendKeeps, Preserved
  <2> DEFINE old == plan.before
             k == Preserved(plan)
  <2>1. /\ old \in Seq(Bytes) /\ old # <<>> /\ plan.cut \in 0..Len(old) /\ k <= plan.cut
        /\ frames \in Seq(Bytes) /\ plan.cut <= Len(frames)
        /\ Len(old) \in Nat /\ Len(frames) \in Nat
        /\ \A i \in 1..plan.cut : frames[i] = old[i]
    BY LenProperties DEF KeepInv, TypeOK
  <2>2. k \in Nat
    <3>1. LastDataFrame(old) \in 1..Len(old)
      BY <2>1, LastExists, LenProperties
    <3> QED BY <2>1, <3>1 DEF Preserved
  <2> HIDE DEF k, old
  <2>3. /\ k <= Len(frames) /\ k <= Len(old)
        /\ \A i \in 1..k : frames[i] \in Bytes /\ old[i] \in Bytes /\ frames[i] = old[i]
    BY <2>1, <2>2, ElementOfSeq
  <2> DEFINE kept == SubSeq(old, 1, k)
  <2>4. kept \in Seq(Bytes) /\ Len(kept) = k /\ \A i \in 1..k : kept[i] = old[i]
    BY <2>2, <2>3, SubSeqProperties
  <2>5. /\ SubSeq(frames, 1, k) \in Seq(Bytes) /\ Len(SubSeq(frames, 1, k)) = k
        /\ \A i \in 1..k : SubSeq(frames, 1, k)[i] = frames[i]
    BY <2>2, <2>3, SubSeqProperties
  <2> HIDE DEF kept
  <2>6. kept = SubSeq(frames, 1, k)
    BY <2>3, <2>4, <2>5, SeqEqual
  <2>7. SubSeq(kept, 1, Len(kept)) = kept
    BY <2>4, SubSeqFull
  <2>8. IsPrefix(kept, frames)
    BY <2>3, <2>4, <2>6, <2>7 DEF IsPrefix
  <2> QED BY <2>8 DEF kept, k, old
<1> QED BY <1>1, KeepInitially, KeepNext, Invariance, PTL DEF Spec

-------------------------------------------------------------------------------
(***************************************************************************)
(* What frames hold together                                               *)
(***************************************************************************)
Units == Ids \cup {Sealed, Merged}

\* Induction, over the numbers of a set.
LEMMA Reached ==
  ASSUME NEW S, 0 \in S, \A n \in Nat : n \in S => n + 1 \in S
  PROVE  \A n \in Nat : n \in S
<1> SUFFICES ASSUME NEW n \in Nat, n \notin S PROVE FALSE
  OBVIOUS
<1> DEFINE Missed == {m \in Nat : m \notin S}
<1>1. Missed \subseteq Nat /\ Missed # {}
  OBVIOUS
<1>2. PICK m \in Missed : \A k \in Missed : ~ <<k, m>> \in OpToRel(<, Nat)
  <2> HIDE DEF Missed
  <2> QED BY <1>1, WFMin, NatLessThanWellFounded
<1>3. \A k \in Missed : ~(k < m)
  BY <1>1, <1>2 DEF OpToRel
<1>4. m \in Nat /\ m \notin S
  OBVIOUS
<1> HIDE <1>2
<1>5. m - 1 \in Nat /\ m - 1 < m
  BY <1>4
<1>6. m - 1 \in S
  BY <1>3, <1>5
<1> QED BY <1>4, <1>5, <1>6

\* Join is a function of bytes.
LEMMA JoinBytes ==
  ASSUME NEW s \in Bytes, NEW t \in Bytes
  PROVE  Join(s, t) \in Bytes
<1> USE DEF Units
<1>1. /\ s.recs \in Seq(Units) /\ t.recs \in Seq(Units)
      /\ s.part \in BOOLEAN /\ t.part \in BOOLEAN
  BY DEF Bytes
<1>2. s.recs \o t.recs \in Seq(Units)
  BY <1>1, ConcatProperties
<1>3. ASSUME t.recs # <<>> PROVE s.recs \o <<Merged>> \o Tail(t.recs) \in Seq(Units)
  <2>1. Tail(t.recs) \in Seq(Units)
    BY <1>1, <1>3, HeadTailProperties
  <2>2. <<Merged>> \in Seq(Units)
    OBVIOUS
  <2>3. s.recs \o <<Merged>> \in Seq(Units)
    BY <1>1, <2>2, ConcatProperties
  <2> QED BY <2>1, <2>3, ConcatProperties
<1>4. CASE ~s.part
  BY <1>1, <1>2, <1>4, BytesAre DEF Join
<1>5. CASE s.part /\ t.recs = <<>>
  BY <1>5 DEF Join
<1>6. CASE s.part /\ t.recs # <<>>
  BY <1>1, <1>3, <1>6, BytesAre DEF Join
<1> QED BY <1>4, <1>5, <1>6

\* The function that Contents joins frames by, for the first of them.
Joins(fs, g) ==
  /\ g \in [0..Len(fs) -> Bytes]
  /\ g[0] = Empty
  /\ \A n \in 1..Len(fs) : g[n] = Join(g[n - 1], fs[n])

LEMMA JoinsExists ==
  ASSUME NEW fs \in Seq(Bytes)
  PROVE  \E g : Joins(fs, g)
<1> DEFINE L == Len(fs)
           S == {n \in Nat : n <= L =>
                   \E g \in [0..n -> Bytes] :
                     g[0] = Empty /\ \A i \in 1..n : g[i] = Join(g[i - 1], fs[i])}
<1>1. L \in Nat
  BY LenProperties
<1>2. Empty \in Bytes
  BY EmptySeq, BytesAre DEF Empty
<1>3. 0 \in S
  <2> DEFINE g == [i \in 0..0 |-> Empty]
  <2>1. g \in [0..0 -> Bytes] /\ g[0] = Empty
    BY <1>2
  <2>2. \A i \in 1..0 : g[i] = Join(g[i - 1], fs[i])
    OBVIOUS
  <2> HIDE DEF g
  <2> QED BY <2>1, <2>2
<1>4. ASSUME NEW n \in Nat, n \in S, n + 1 <= L
      PROVE  \E h \in [0..(n + 1) -> Bytes] :
               h[0] = Empty /\ \A i \in 1..(n + 1) : h[i] = Join(h[i - 1], fs[i])
  <2>1. PICK g \in [0..n -> Bytes] :
               g[0] = Empty /\ \A i \in 1..n : g[i] = Join(g[i - 1], fs[i])
    BY <1>1, <1>4
  <2> DEFINE h == [i \in 0..(n + 1) |-> IF i = n + 1 THEN Join(g[n], fs[n + 1]) ELSE g[i]]
  <2>2. Join(g[n], fs[n + 1]) \in Bytes
    <3>1. fs[n + 1] \in Bytes
      BY <1>1, <1>4, ElementOfSeq
    <3>2. g[n] \in Bytes
      BY <2>1
    <3> QED BY <3>1, <3>2, JoinBytes
  <2>3. \A i \in 0..n : i \in 0..(n + 1) /\ i # n + 1 /\ h[i] = g[i]
    OBVIOUS
  <2>4. h \in [0..(n + 1) -> Bytes]
    <3>1. ASSUME NEW i \in 0..(n + 1)
          PROVE (IF i = n + 1 THEN Join(g[n], fs[n + 1]) ELSE g[i]) \in Bytes
      <4>1. i # n + 1 => i \in 0..n
        OBVIOUS
      <4> QED BY <2>1, <2>2, <4>1
    <3> QED BY <3>1
  <2>5. h[0] = Empty
    BY <2>1, <2>3
  <2>6. ASSUME NEW i \in 1..(n + 1) PROVE h[i] = Join(h[i - 1], fs[i])
    <3>1. CASE i = n + 1
      <4>1. h[i - 1] = g[n] /\ h[i] = Join(g[n], fs[n + 1])
        BY <2>3, <3>1
      <4> HIDE DEF h
      <4> QED BY <3>1, <4>1
    <3>2. CASE i # n + 1
      <4>1. i \in 0..n /\ i - 1 \in 0..n /\ i \in 1..n
        BY <3>2
      <4>2. h[i] = g[i] /\ h[i - 1] = g[i - 1]
        BY <2>3, <4>1
      <4> HIDE DEF h
      <4> QED BY <2>1, <4>1, <4>2
    <3> QED BY <3>1, <3>2
  <2> HIDE DEF h
  <2> QED BY <2>4, <2>5, <2>6
<1>5. \A n \in Nat : n \in S => n + 1 \in S
  <2> SUFFICES ASSUME NEW n \in Nat, n \in S PROVE n + 1 \in S
    OBVIOUS
  <2>1. CASE n + 1 <= L
    BY <1>4, <2>1
  <2>2. CASE ~(n + 1 <= L)
    BY <2>2
  <2> QED BY <2>1, <2>2
<1>6. L \in S
  <2> HIDE DEF S, L
  <2> QED BY <1>1, <1>3, <1>5, Reached
<1>7. PICK g \in [0..L -> Bytes] :
        g[0] = Empty /\ \A i \in 1..L : g[i] = Join(g[i - 1], fs[i])
  BY <1>1, <1>6
<1> QED BY <1>7 DEF Joins

LEMMA ContentsJoins ==
  ASSUME NEW fs \in Seq(Bytes)
  PROVE  \E g : Joins(fs, g) /\ Contents(fs) = g[Len(fs)]
<1> DEFINE L == Len(fs)
           Step(g) == [n \in 0..L |-> IF n = 0 THEN Empty ELSE Join(g[n - 1], fs[n])]
           joined == CHOOSE g : g = Step(g)
<1>1. L \in Nat
  BY LenProperties
<1>2. PICK g : Joins(fs, g)
  BY JoinsExists
<1>3. g = Step(g)
  <2>1. \A n \in 0..L : g[n] = IF n = 0 THEN Empty ELSE Join(g[n - 1], fs[n])
    BY <1>1, <1>2 DEF Joins
  <2>2. DOMAIN g = 0..L /\ g = [n \in 0..L |-> g[n]]
    BY <1>2 DEF Joins
  <2> QED BY <2>1, <2>2
<1>4. joined = Step(joined)
  <2> HIDE DEF Step
  <2> QED BY <1>3
<1>5. Contents(fs) = joined[L]
  BY DEF Contents
<1>6. /\ DOMAIN joined = 0..L
      /\ \A n \in 0..L : joined[n] = IF n = 0 THEN Empty ELSE Join(joined[n - 1], fs[n])
  <2> HIDE DEF joined
  <2> QED BY <1>4
<1> HIDE DEF joined
<1>7. joined[0] = Empty
  BY <1>1, <1>6
<1>8. ASSUME NEW n \in 1..L PROVE joined[n] = Join(joined[n - 1], fs[n])
  BY <1>1, <1>6
<1>9. \A n \in 0..L : joined[n] = g[n]
  <2> DEFINE S == {n \in Nat : n <= L => joined[n] = g[n]}
  <2>1. 0 \in S
    BY <1>2, <1>7 DEF Joins
  <2>2. \A n \in Nat : n \in S => n + 1 \in S
    <3> SUFFICES ASSUME NEW n \in Nat, n \in S, n + 1 <= L PROVE joined[n + 1] = g[n + 1]
      OBVIOUS
    <3>1. n + 1 \in 1..L /\ (n + 1) - 1 = n /\ joined[n] = g[n]
      BY <1>1
    <3> QED BY <1>2, <1>8, <3>1 DEF Joins
  <2>3. \A n \in Nat : n \in S
    <3> HIDE DEF S
    <3> QED BY <2>1, <2>2, Reached
  <2> QED BY <1>1, <2>3
<1>10. L \in 0..L
  BY <1>1
<1> QED BY <1>2, <1>5, <1>9, <1>10

\* Induction, over the sequences of a set.
LEMMA SeqReached ==
  ASSUME NEW E, NEW S, <<>> \in S,
         \A s \in Seq(E), e \in E : s \in S => Append(s, e) \in S
  PROVE  \A s \in Seq(E) : s \in S
<1> DEFINE T == {n \in Nat : \A s \in Seq(E) : Len(s) = n => s \in S}
<1>1. 0 \in T
  BY EmptySeq
<1>2. \A n \in Nat : n \in T => n + 1 \in T
  <2> SUFFICES ASSUME NEW n \in Nat, n \in T, NEW s \in Seq(E), Len(s) = n + 1 PROVE s \in S
    OBVIOUS
  <2>1. s # <<>>
    BY EmptySeq
  <2>2. PICK t \in Seq(E), e \in E : s = Append(t, e)
    BY <2>1, SequenceEmptyOrAppend
  <2>3. Len(s) = Len(t) + 1 /\ Len(t) \in Nat
    BY <2>2, AppendProperties, LenProperties
  <2>4. t \in S
    BY <2>3
  <2> QED BY <2>2, <2>4
<1>3. \A n \in Nat : n \in T
  <2> HIDE DEF T
  <2> QED BY <1>1, <1>2, Reached
<1> QED BY <1>3, LenProperties

LEMMA ContentsBytes ==
  ASSUME NEW fs \in Seq(Bytes)
  PROVE  Contents(fs) \in Bytes
<1>1. PICK g : Joins(fs, g) /\ Contents(fs) = g[Len(fs)]
  BY ContentsJoins
<1>2. Len(fs) \in 0..Len(fs)
  BY LenProperties
<1> QED BY <1>1, <1>2 DEF Joins

LEMMA ContentsNone == Contents(<<>>) = Empty
<1>1. <<>> \in Seq(Bytes) /\ Len(<<>>) = 0
  BY EmptySeq
<1>2. PICK g : Joins(<<>>, g) /\ Contents(<<>>) = g[0]
  BY <1>1, ContentsJoins
<1> QED BY <1>2 DEF Joins

LEMMA ContentsAppend ==
  ASSUME NEW fs \in Seq(Bytes), NEW b \in Bytes
  PROVE  Contents(Append(fs, b)) = Join(Contents(fs), b)
<1> DEFINE gs == Append(fs, b)
           L == Len(fs)
<1>1. /\ gs \in Seq(Bytes) /\ Len(gs) = L + 1 /\ L \in Nat
      /\ \A i \in 1..L : gs[i] = fs[i]
      /\ gs[L + 1] = b
  BY AppendProperties, LenProperties
<1> HIDE DEF gs
<1>2. PICK g : Joins(fs, g) /\ Contents(fs) = g[L]
  BY ContentsJoins
<1>3. PICK h : Joins(gs, h) /\ Contents(gs) = h[L + 1]
  BY <1>1, ContentsJoins
<1> DEFINE S == {n \in Nat : n <= L => g[n] = h[n]}
<1>4. 0 \in S
  BY <1>2, <1>3 DEF Joins
<1>5. \A n \in Nat : n \in S => n + 1 \in S
  <2> SUFFICES ASSUME NEW n \in Nat, n \in S, n + 1 <= L PROVE g[n + 1] = h[n + 1]
    OBVIOUS
  <2>1. /\ n + 1 \in 1..L /\ n + 1 \in 1..(L + 1) /\ (n + 1) - 1 = n
        /\ g[n] = h[n] /\ gs[n + 1] = fs[n + 1]
    BY <1>1
  <2>2. g[n + 1] = Join(g[n], fs[n + 1])
    BY <1>2, <2>1 DEF Joins
  <2>3. h[n + 1] = Join(h[n], gs[n + 1])
    BY <1>1, <1>3, <2>1 DEF Joins
  <2> QED BY <2>1, <2>2, <2>3
<1>6. L \in S
  <2> HIDE DEF S, L
  <2> QED BY <1>1, <1>4, <1>5, Reached
<1>7. h[L + 1] = Join(h[L], gs[L + 1])
  <2>1. L + 1 \in 1..(L + 1) /\ (L + 1) - 1 = L
    BY <1>1
  <2> QED BY <1>1, <1>3, <2>1 DEF Joins
<1>8. Contents(gs) = Join(Contents(fs), b)
  BY <1>1, <1>2, <1>3, <1>6, <1>7
<1> QED BY <1>8 DEF gs

\* Records put behind records, and those behind others.
LEMMA UnitsConcat ==
  ASSUME NEW a \in Seq(Units), NEW b \in Seq(Units), NEW c \in Seq(Units)
  PROVE  (a \o b) \o c = a \o (b \o c)
BY ConcatAssociative

\* Bytes that end with a record keep it whatever follows.
LEMMA JoinAfterWhole ==
  ASSUME NEW s \in Bytes, ~s.part, NEW t \in Bytes
  PROVE  /\ Join(s, t) = [recs |-> s.recs \o t.recs, part |-> t.part]
         /\ Join(s, t).recs = s.recs \o t.recs
         /\ Join(s, t).part = t.part
BY DEF Join

\* And what follows may be joined first.
LEMMA JoinAssociative ==
  ASSUME NEW s \in Bytes, ~s.part, NEW t \in Bytes, NEW u \in Bytes
  PROVE  Join(Join(s, t), u) = Join(s, Join(t, u))
<1> DEFINE A == s.recs
           B == t.recs
           C == u.recs
           M == <<Merged>>
           Z == Tail(C)
<1>1. /\ A \in Seq(Units) /\ B \in Seq(Units) /\ C \in Seq(Units)
      /\ t.part \in BOOLEAN /\ u.part \in BOOLEAN
  BY DEF Bytes, Units
<1>2. Join(s, t) = [recs |-> A \o B, part |-> t.part]
  BY JoinAfterWhole
<1>3. Join(t, u) \in Bytes
  BY JoinBytes
<1>4. Join(s, Join(t, u)) = [recs |-> A \o Join(t, u).recs, part |-> Join(t, u).part]
  BY <1>3, JoinAfterWhole
<1>5. M \in Seq(Units)
  BY DEF Units
<1>6. C # <<>> => Z \in Seq(Units)
  BY <1>1, HeadTailProperties
<1>7. ~t.part => /\ Join(t, u) = [recs |-> B \o C, part |-> u.part]
                 /\ Join(Join(s, t), u) = [recs |-> (A \o B) \o C, part |-> u.part]
  BY <1>2 DEF Join
<1>8. t.part /\ C = <<>> => Join(t, u) = t /\ Join(Join(s, t), u) = Join(s, t)
  BY <1>2 DEF Join
<1>9. t.part /\ C # <<>> =>
         /\ Join(t, u) = [recs |-> (B \o M) \o Z, part |-> u.part]
         /\ Join(Join(s, t), u) = [recs |-> ((A \o B) \o M) \o Z, part |-> u.part]
  BY <1>2 DEF Join
<1> HIDE DEF A, B, C, M, Z
<1>10. CASE ~t.part
  <2>1. (A \o B) \o C = A \o (B \o C)
    BY <1>1, UnitsConcat
  <2>2. Join(t, u).recs = B \o C /\ Join(t, u).part = u.part
    BY <1>7, <1>10
  <2> QED BY <1>4, <1>7, <1>10, <2>1, <2>2
<1>11. CASE t.part /\ C = <<>>
  BY <1>8, <1>11
<1>12. CASE t.part /\ C # <<>>
  <2>1. Z \in Seq(Units) /\ B \o M \in Seq(Units)
    BY <1>1, <1>5, <1>6, <1>12, ConcatProperties
  <2>2. (A \o B) \o M = A \o (B \o M)
    <3>1. A \in Seq(Units) /\ B \in Seq(Units)
      BY <1>1
    <3> QED BY ONLY <3>1, <1>5, UnitsConcat
  <2> DEFINE BM == B \o M
  <2> HIDE DEF BM
  <2>3. BM \in Seq(Units)
    BY <2>1 DEF BM
  <2>4. (A \o BM) \o Z = A \o (BM \o Z)
    <3>1. A \in Seq(Units) /\ Z \in Seq(Units)
      BY <1>1, <2>1
    <3> QED BY ONLY <3>1, <2>3, UnitsConcat
  <2>5. Join(t, u) = [recs |-> BM \o Z, part |-> u.part]
    BY <1>9, <1>12 DEF BM
  <2>6. Join(Join(s, t), u) = [recs |-> (A \o BM) \o Z, part |-> u.part]
    BY <1>9, <1>12, <2>2 DEF BM
  <2> QED BY <1>4, <2>4, <2>5, <2>6
<1> QED BY <1>1, <1>10, <1>11, <1>12

\* Frames behind frames that end with a record.
LEMMA ContentsConcat ==
  ASSUME NEW fs \in Seq(Bytes), ~Contents(fs).part, NEW gs \in Seq(Bytes)
  PROVE  Contents(fs \o gs) = Join(Contents(fs), Contents(gs))
<1> DEFINE S == {hs \in Seq(Bytes) : Contents(fs \o hs) = Join(Contents(fs), Contents(hs))}
<1>1. Contents(fs) \in Bytes
  BY ContentsBytes
<1>2. <<>> \in S
  <2>1. fs \o <<>> = fs
    BY ConcatEmptySeq
  <2>2. Join(Contents(fs), Empty) = [recs |-> Contents(fs).recs \o <<>>, part |-> FALSE]
    BY DEF Join, Empty
  <2>3. Contents(fs).recs \in Seq(Units) /\ Contents(fs).part = FALSE
    BY <1>1 DEF Bytes, Units
  <2>4. Contents(fs).recs \o <<>> = Contents(fs).recs
    BY <2>3, ConcatEmptySeq
  <2>5. Contents(fs) = [recs |-> Contents(fs).recs, part |-> Contents(fs).part]
    BY <1>1 DEF Bytes
  <2> QED BY <2>1, <2>2, <2>3, <2>4, <2>5, ContentsNone, EmptySeq
<1>3. \A hs \in Seq(Bytes), b \in Bytes : hs \in S => Append(hs, b) \in S
  <2> SUFFICES ASSUME NEW hs \in Seq(Bytes), NEW b \in Bytes, hs \in S
               PROVE  Append(hs, b) \in S
    OBVIOUS
  <2>1. Append(hs, b) \in Seq(Bytes) /\ Contents(hs) \in Bytes
    BY AppendProperties, ContentsBytes
  <2>2. fs \o Append(hs, b) = Append(fs \o hs, b)
    <3>1. <<b>> \in Seq(Bytes) /\ fs \o hs \in Seq(Bytes)
      BY ConcatProperties
    <3>2. Append(hs, b) = hs \o <<b>> /\ Append(fs \o hs, b) = (fs \o hs) \o <<b>>
      BY <3>1, AppendIsConcat
    <3> QED BY <3>1, <3>2, UnitsConcat
  <2>3. Contents(Append(fs \o hs, b)) = Join(Contents(fs \o hs), b)
    BY ContentsAppend, ConcatProperties
  <2>4. Contents(Append(hs, b)) = Join(Contents(hs), b)
    BY ContentsAppend
  <2>5. Join(Join(Contents(fs), Contents(hs)), b) = Join(Contents(fs), Join(Contents(hs), b))
    BY <1>1, <2>1, JoinAssociative
  <2> QED BY <2>1, <2>2, <2>3, <2>4, <2>5
<1> HIDE DEF S
<1>4. gs \in S
  BY <1>2, <1>3, SeqReached
<1> QED BY <1>4 DEF S

\* The parts of a concatenation.
LEMMA PartsOfConcat ==
  ASSUME NEW S, NEW s \in Seq(S), NEW t \in Seq(S)
  PROVE  /\ SubSeq(s \o t, 1, Len(s)) = s
         /\ SubSeq(s \o t, Len(s) + 1, Len(s) + Len(t)) = t
<1> DEFINE u == s \o t
           m == Len(s)
           n == Len(t)
           front == SubSeq(u, 1, m)
           back == SubSeq(u, m + 1, m + n)
<1>1. m \in Nat /\ n \in Nat
  BY LenProperties
<1>2. /\ u \in Seq(S) /\ Len(u) = m + n
      /\ \A i \in 1..(m + n) : u[i] = IF i <= m THEN s[i] ELSE t[i - m]
  BY ConcatLens
<1> HIDE DEF u, m, n
<1>3. \A i \in 1..(m + n) : u[i] \in S
  BY <1>2, ElementOfSeq
<1>4. front \in Seq(S) /\ Len(front) = m /\ \A i \in 1..m : front[i] = u[i]
  <2>1. \A i \in 1..m : u[i] \in S
    BY <1>1, <1>3
  <2> QED BY <1>1, <2>1, SubSeqProperties
<1>5. back \in Seq(S) /\ Len(back) = n /\ \A i \in 1..n : back[i] = u[m + i]
  <2>1. \A i \in (m + 1)..(m + n) : u[i] \in S
    BY <1>1, <1>3
  <2>2. /\ back \in Seq(S)
        /\ Len(back) = IF m + 1 <= m + n THEN (m + n) - (m + 1) + 1 ELSE 0
        /\ \A i \in 1..((m + n) - (m + 1) + 1) : back[i] = u[(m + 1) + i - 1]
    <3>1. m + 1 \in Int /\ m + n \in Int
      BY <1>1
    <3> QED BY <2>1, <3>1, SubSeqProperties
  <2> HIDE DEF back
  <2> QED BY <1>1, <2>2
<1> HIDE DEF front, back
<1>6. front = s
  <2>1. \A i \in 1..m : front[i] = s[i]
    BY <1>1, <1>2, <1>4
  <2>2. Len(s) = m
    BY DEF m
  <2> QED BY <1>4, <2>1, <2>2, SeqEqual
<1>7. back = t
  <2>1. ASSUME NEW i \in 1..n PROVE back[i] = t[i]
    <3>1. m + i \in 1..(m + n) /\ ~(m + i <= m) /\ (m + i) - m = i
      BY <1>1
    <3> QED BY <1>2, <1>5, <3>1
  <2>2. Len(t) = n
    BY DEF n
  <2> QED BY <1>5, <2>1, <2>2, SeqEqual
<1> QED BY <1>6, <1>7 DEF front, back, u, m, n

\* The first frames of a file are frames.
LEMMA FirstFrames ==
  ASSUME NEW fs \in Seq(Bytes), NEW k \in 0..Len(fs)
  PROVE  /\ SubSeq(fs, 1, k) \in Seq(Bytes)
         /\ Len(SubSeq(fs, 1, k)) = k
         /\ \A i \in 1..k : SubSeq(fs, 1, k)[i] = fs[i]
<1>1. k \in Nat /\ \A i \in 1..k : fs[i] \in Bytes
  BY LenProperties, ElementOfSeq
<1> QED BY <1>1, SubSeqProperties

\* What the first frames hold, one frame after the other.
LEMMA ContentsOneMore ==
  ASSUME NEW fs \in Seq(Bytes), NEW k \in 1..Len(fs)
  PROVE  /\ Contents(SubSeq(fs, 1, k - 1)) \in Bytes
         /\ Contents(SubSeq(fs, 1, k)) = Join(Contents(SubSeq(fs, 1, k - 1)), fs[k])
<1>1. 1 \in 1..Len(fs) /\ k \in 1..Len(fs) /\ k - 1 \in 0..Len(fs) /\ fs[k] \in Bytes
  BY LenProperties, ElementOfSeq
<1>2. SubSeq(fs, 1, k) = SubSeq(fs, 1, k - 1) \o <<fs[k]>>
  BY <1>1, SubSeqRecursiveSecond
<1>3. SubSeq(fs, 1, k - 1) \in Seq(Bytes)
  BY <1>1, FirstFrames
<1>4. SubSeq(fs, 1, k) = Append(SubSeq(fs, 1, k - 1), fs[k])
  BY <1>1, <1>2, <1>3, AppendIsConcat
<1> QED BY <1>1, <1>3, <1>4, ContentsAppend, ContentsBytes

\* Full frames hold their count each, and end with a record.
LEMMA ContentsOfFull ==
  ASSUME NEW fs \in Seq(Bytes), NEW n \in Nat, NEW k \in 0..Len(fs),
         \A i \in 1..k : Count(fs, i) = n /\ fs[i].part = FALSE
  PROVE  /\ Contents(SubSeq(fs, 1, k)) \in Bytes
         /\ Contents(SubSeq(fs, 1, k)).part = FALSE
         /\ Len(Contents(SubSeq(fs, 1, k)).recs) = k * n
<1> DEFINE To(m) == Contents(SubSeq(fs, 1, m))
           Good(m) == To(m).part = FALSE /\ Len(To(m).recs) = m * n
           S == {m \in Nat : m <= k => Good(m)}
<1>1. k \in Nat /\ k <= Len(fs) /\ Len(fs) \in Nat
  BY LenProperties
<1>2. 0 \in S
  <2>1. SubSeq(fs, 1, 0) = <<>>
    BY SubSeqEmpty
  <2>2. To(0) = Empty
    BY <2>1, ContentsNone
  <2>3. Empty.part = FALSE /\ Len(Empty.recs) = 0 /\ 0 * n = 0
    BY DEF Empty
  <2> QED BY <2>2, <2>3
<1>3. ASSUME NEW m \in Nat, m \in S, m + 1 <= k
      PROVE  To(m + 1).part = FALSE /\ Len(To(m + 1).recs) = (m + 1) * n
  <2>1. m + 1 \in 1..Len(fs) /\ m + 1 \in 1..k /\ (m + 1) - 1 = m /\ m <= k
    BY <1>1, <1>3
  <2>2. To(m) \in Bytes /\ To(m + 1) = Join(To(m), fs[m + 1])
    BY <2>1, ContentsOneMore
  <2>3. To(m).part = FALSE /\ Len(To(m).recs) = m * n
    BY <1>3, <2>1
  <2>4. fs[m + 1] \in Bytes /\ Len(fs[m + 1].recs) = n /\ fs[m + 1].part = FALSE
    BY <2>1, ElementOfSeq DEF Count
  <2> DEFINE before == To(m)
             frame == fs[m + 1]
  <2> HIDE DEF To
  <2> HIDE DEF before, frame
  <2>5. before \in Bytes /\ before.part = FALSE /\ Len(before.recs) = m * n
    BY <2>2, <2>3 DEF before
  <2>6. frame \in Bytes /\ frame.part = FALSE /\ Len(frame.recs) = n
    BY <2>4 DEF frame
  <2>7. Join(before, frame).recs = before.recs \o frame.recs /\ Join(before, frame).part = FALSE
    BY <2>5, <2>6, JoinAfterWhole
  <2>8. before.recs \in Seq(Units) /\ frame.recs \in Seq(Units)
    BY <2>5, <2>6 DEF Bytes, Units
  <2>9. Len(before.recs \o frame.recs) = m * n + n
    <3> DEFINE a == before.recs
               b == frame.recs
               size == m * n
    <3>1. a \in Seq(Units) /\ b \in Seq(Units) /\ Len(a) = size /\ Len(b) = n
      BY <2>5, <2>6, <2>8
    <3> HIDE DEF a, b, size
    <3>2. Len(a \o b) = size + n
      BY <3>1, ConcatLens
    <3> QED BY <3>2 DEF a, b, size
  <2>10. m * n + n = (m + 1) * n
    BY SMT
  <2> QED BY <2>2, <2>7, <2>9, <2>10 DEF before, frame
<1>4. \A m \in Nat : m \in S => m + 1 \in S
  <2>1. ASSUME NEW m \in Nat, m \in S, m + 1 <= k PROVE Good(m + 1)
    <3> HIDE DEF S, To
    <3> QED BY <1>3, <2>1
  <2> HIDE DEF Good
  <2> QED BY <2>1
<1>5. k \in S
  <2> HIDE DEF S
  <2> QED BY <1>1, <1>2, <1>4, Reached
<1>6. To(k).part = FALSE /\ Len(To(k).recs) = k * n
  BY <1>1, <1>5
<1>7. To(k) \in Bytes
  BY <1>1, FirstFrames, ContentsBytes
<1> QED BY <1>6, <1>7

\* A frame of nothing adds nothing.
LEMMA NothingIsEmpty ==
  ASSUME NEW s \in Bytes
  PROVE  /\ Join(s, Empty) = s
         /\ Join(Empty, s) = s
         /\ Size(s) = 0 <=> s = Empty
<1>1. /\ s.recs \in Seq(Units) /\ s.part \in BOOLEAN
      /\ s = [recs |-> s.recs, part |-> s.part]
  BY DEF Bytes, Units
<1>2. s.recs \o <<>> = s.recs /\ <<>> \o s.recs = s.recs
  BY <1>1, ConcatEmptySeq
<1>3. Join(s, Empty) = s
  <2>1. CASE s.part = TRUE
    BY <2>1 DEF Join, Empty
  <2>2. CASE s.part = FALSE
    BY <1>1, <1>2, <2>2 DEF Join, Empty
  <2> QED BY <1>1, <2>1, <2>2
<1>4. Join(Empty, s) = s
  BY <1>1, <1>2 DEF Join, Empty
<1>5. Size(Empty) = 0
  BY DEF Size, Empty
<1> QED BY <1>3, <1>4, <1>5, NotEmpty

LEMMA ContentsOfData ==
  ASSUME NEW fs \in Seq(Bytes), NEW k \in 0..Len(fs),
         \A j \in DOMAIN fs : j > k => Size(fs[j]) = 0
  PROVE  Contents(SubSeq(fs, 1, k)) = Contents(fs)
<1> DEFINE L == Len(fs)
           To(m) == Contents(SubSeq(fs, 1, m))
           S == {m \in Nat : k + m <= L => To(k + m) = To(k)}
<1>1. k \in Nat /\ k <= L /\ L \in Nat /\ DOMAIN fs = 1..L
  BY LenProperties
<1>2. 0 \in S
  BY <1>1
<1>3. \A m \in Nat : m \in S => m + 1 \in S
  <2> SUFFICES ASSUME NEW m \in Nat, m \in S, k + (m + 1) <= L
               PROVE  To(k + (m + 1)) = To(k)
    OBVIOUS
  <2>1. /\ k + (m + 1) \in 1..L /\ k + (m + 1) - 1 = k + m
        /\ k + (m + 1) > k /\ k + m <= L
    BY <1>1
  <2>2. /\ To(k + m) \in Bytes
        /\ To(k + (m + 1)) = Join(To(k + m), fs[k + (m + 1)])
    BY <2>1, ContentsOneMore
  <2>3. fs[k + (m + 1)] = Empty
    BY <1>1, <2>1, FrameOf, NothingIsEmpty
  <2>4. To(k + m) = To(k)
    BY <2>1
  <2> HIDE DEF To
  <2> QED BY <2>2, <2>3, <2>4, NothingIsEmpty
<1>4. L - k \in Nat /\ k + (L - k) = L
  BY <1>1
<1>5. L - k \in S
  <2> HIDE DEF S, L
  <2> QED BY <1>2, <1>3, <1>4, Reached
<1>6. To(L) = To(k)
  BY <1>4, <1>5
<1> QED BY <1>6, SubSeqFull

\* A uniform file holds its full frames' records and its last data frame's.
LEMMA ContentsOfUniform ==
  ASSUME NEW fs \in Seq(Bytes), fs # <<>>, NEW n \in Nat, Full(fs, n),
         NEW end, end = LastDataFrame(fs)
  PROVE  /\ end \in 1..Len(fs)
         /\ Contents(fs) \in Bytes
         /\ Contents(SubSeq(fs, 1, end - 1)) \in Bytes
         /\ Contents(SubSeq(fs, 1, end - 1)).part = FALSE
         /\ Len(Contents(SubSeq(fs, 1, end - 1)).recs) = (end - 1) * n
         /\ Contents(SubSeq(fs, 1, end)) = Contents(fs)
         /\ Contents(fs) = Join(Contents(SubSeq(fs, 1, end - 1)), fs[end])
         /\ Contents(fs).recs = Contents(SubSeq(fs, 1, end - 1)).recs \o fs[end].recs
         /\ Contents(fs).part = fs[end].part
         /\ Len(Contents(fs).recs) = (end - 1) * n + Count(fs, end)
<1>1. Len(fs) \in Nat \ {0} /\ DOMAIN fs = 1..Len(fs)
  BY EmptySeq, LenProperties
<1>2. end \in 1..Len(fs) /\ \A j \in DOMAIN fs : j > end => Size(fs[j]) = 0
  BY <1>1, LastExists
<1>3. end - 1 \in 0..Len(fs) /\ end \in 0..Len(fs) /\ fs[end] \in Bytes
  BY <1>1, <1>2, ElementOfSeq
<1>4. \A i \in 1..(end - 1) : Count(fs, i) = n /\ fs[i].part = FALSE
  <2>1. ASSUME NEW i \in 1..(end - 1) PROVE Count(fs, i) = n /\ ~fs[i].part /\ fs[i] \in Bytes
    BY <1>1, <1>2, ElementOfSeq DEF Full
  <2> QED BY <2>1 DEF Bytes
<1> DEFINE before == Contents(SubSeq(fs, 1, end - 1))
           frame == fs[end]
           size == (end - 1) * n
<1>5. before \in Bytes /\ before.part = FALSE /\ Len(before.recs) = size
  BY <1>3, <1>4, ContentsOfFull
<1>6. Contents(SubSeq(fs, 1, end)) = Contents(fs)
  BY <1>2, <1>3, ContentsOfData
<1>7. Contents(fs) = Join(before, frame)
  BY <1>2, <1>6, ContentsOneMore
<1>8. frame \in Bytes /\ Count(fs, end) = Len(frame.recs) /\ Contents(fs) \in Bytes
  BY <1>3, ContentsBytes DEF Count
<1> HIDE DEF before, frame, size
<1>9. Contents(fs).recs = before.recs \o frame.recs /\ Contents(fs).part = frame.part
  BY <1>5, <1>7, <1>8, JoinAfterWhole
<1>10. Len(before.recs \o frame.recs) = size + Len(frame.recs)
  <2> DEFINE a == before.recs
             b == frame.recs
  <2>1. a \in Seq(Units) /\ b \in Seq(Units) /\ Len(a) = size
    BY <1>5, <1>8 DEF Bytes, Units
  <2> HIDE DEF a, b
  <2>2. Len(a \o b) = size + Len(b)
    BY <2>1, ConcatLens
  <2> QED BY <2>2 DEF a, b
<1> QED BY <1>2, <1>5, <1>6, <1>7, <1>8, <1>9, <1>10 DEF before, frame, size

\* The first full frames hold the first records.
LEMMA ContentsOfFirst ==
  ASSUME NEW fs \in Seq(Bytes), NEW n \in Nat, NEW k \in 0..Len(fs),
         \A i \in 1..k : Count(fs, i) = n /\ fs[i].part = FALSE
  PROVE  /\ Contents(SubSeq(fs, 1, k)) \in Bytes
         /\ Contents(SubSeq(fs, 1, k)).part = FALSE
         /\ Contents(SubSeq(fs, 1, k)).recs = SubSeq(Contents(fs).recs, 1, k * n)
         /\ k * n <= Len(Contents(fs).recs)
<1> DEFINE front == SubSeq(fs, 1, k)
           back == SubSeq(fs, k + 1, Len(fs))
           size == k * n
<1>1. Len(fs) \in Nat /\ k \in Nat /\ k <= Len(fs)
  BY LenProperties
<1>2. front \in Seq(Bytes)
  BY FirstFrames
<1>3. back \in Seq(Bytes)
  <2>1. \A i \in (k + 1)..Len(fs) : fs[i] \in Bytes
    BY <1>1, ElementOfSeq
  <2> QED BY <1>1, <2>1, SubSeqProperties
<1>4. front \o back = fs
  <2>1. 1 \in 1..(Len(fs) + 1) /\ k \in (1 - 1)..Len(fs) /\ Len(fs) \in k..Len(fs)
    BY <1>1
  <2>2. front \o back = SubSeq(fs, 1, Len(fs))
    BY <2>1, ConcatAdjacentSubSeq
  <2> QED BY <2>2, SubSeqFull
<1>5. Contents(front) \in Bytes /\ Contents(front).part = FALSE /\ Len(Contents(front).recs) = size
  BY ContentsOfFull
<1>6. Contents(back) \in Bytes
  BY <1>3, ContentsBytes
<1> HIDE DEF front, back, size
<1>7. Contents(fs) = Join(Contents(front), Contents(back))
  BY <1>2, <1>3, <1>4, <1>5, ContentsConcat
<1> DEFINE a == Contents(front).recs
           b == Contents(back).recs
<1>8. Contents(fs).recs = a \o b
  BY <1>5, <1>6, <1>7, JoinAfterWhole
<1>9. a \in Seq(Units) /\ b \in Seq(Units) /\ Len(a) = size
  BY <1>5, <1>6 DEF Bytes, Units
<1> HIDE DEF a, b
<1>10. SubSeq(a \o b, 1, size) = a
  BY <1>9, PartsOfConcat
<1>11. Len(a \o b) = size + Len(b) /\ Len(b) \in Nat /\ size \in Nat
  BY <1>9, ConcatLens, LenProperties
<1>12. size <= Len(a \o b)
  BY <1>11
<1> QED BY <1>5, <1>8, <1>10, <1>12 DEF front, size, a, b

\* The first k frames hold n records each and end with one.
Even(fs, k, n) == \A i \in 1..k : Count(fs, i) = n /\ fs[i].part = FALSE

\* Frames k + 1 to m hold what the first m do behind the records of the first k.
HoldRest(fs, k, n, m) ==
  LET held == Contents(SubSeq(fs, 1, m))
      back == SubSeq(fs, k + 1, m)
  IN  /\ Contents(back) = [recs |-> SubSeq(held.recs, k * n + 1, Len(held.recs)),
                           part |-> held.part]
      /\ back \in Seq(Bytes) /\ Len(back) = m - k
      /\ \A j \in 1..(m - k) : back[j] = fs[k + j]

\* And the frames behind them the records behind those.
LEMMA ContentsBehind ==
  ASSUME NEW fs \in Seq(Bytes), NEW n \in Nat, NEW k \in 0..Len(fs), Even(fs, k, n),
         NEW m \in k..Len(fs)
  PROVE  HoldRest(fs, k, n, m)
<1> SUFFICES ASSUME NEW held, held = Contents(SubSeq(fs, 1, m)),
                    NEW back, back = SubSeq(fs, k + 1, m)
             PROVE  /\ Contents(back) = [recs |-> SubSeq(held.recs, k * n + 1, Len(held.recs)),
                                        part |-> held.part]
                    /\ back \in Seq(Bytes) /\ Len(back) = m - k
                    /\ \A j \in 1..(m - k) : back[j] = fs[k + j]
  BY DEF HoldRest
<1> DEFINE front == SubSeq(fs, 1, k)
           size == k * n
<1>1. Len(fs) \in Nat /\ k \in Nat /\ m \in Nat /\ k <= m /\ m <= Len(fs)
  BY LenProperties
<1>2. front \in Seq(Bytes)
  BY FirstFrames
<1>3. /\ back \in Seq(Bytes) /\ Len(back) = m - k
      /\ \A j \in 1..(m - k) : back[j] = fs[k + j]
  <2>1. \A i \in (k + 1)..m : fs[i] \in Bytes
    BY <1>1, ElementOfSeq
  <2>2. /\ back \in Seq(Bytes)
        /\ Len(back) = IF k + 1 <= m THEN m - (k + 1) + 1 ELSE 0
        /\ \A j \in 1..(m - (k + 1) + 1) : back[j] = fs[(k + 1) + j - 1]
    <3>1. k + 1 \in Int /\ m \in Int
      BY <1>1
    <3> QED BY <2>1, <3>1, SubSeqProperties
  <2> QED BY ONLY <1>1, <2>2
<1>4. front \o back = SubSeq(fs, 1, m)
  <2>1. 1 \in 1..(Len(fs) + 1) /\ k \in (1 - 1)..Len(fs) /\ m \in k..Len(fs)
    BY <1>1
  <2> QED BY <2>1, ConcatAdjacentSubSeq
<1>5. Contents(front) \in Bytes /\ Contents(front).part = FALSE /\ Len(Contents(front).recs) = size
  BY ContentsOfFull DEF Even
<1>6. Contents(back) \in Bytes
  BY <1>3, ContentsBytes
<1> HIDE DEF front, size
<1>7. held = Join(Contents(front), Contents(back))
  BY <1>2, <1>3, <1>4, <1>5, ContentsConcat
<1> DEFINE a == Contents(front).recs
           b == Contents(back).recs
<1>8. held.recs = a \o b /\ held.part = Contents(back).part
  <2> DEFINE A == Contents(front)
             B == Contents(back)
  <2>1. A \in Bytes /\ ~A.part /\ B \in Bytes /\ held = Join(A, B)
    BY <1>5, <1>6, <1>7
  <2>2. a = A.recs /\ b = B.recs
    OBVIOUS
  <2> HIDE DEF A, B, a, b
  <2>3. held.recs = A.recs \o B.recs /\ held.part = B.part
    BY ONLY <2>1, JoinAfterWhole
  <2> QED BY ONLY <2>2, <2>3 DEF B
<1>9. /\ a \in Seq(Units) /\ b \in Seq(Units) /\ Len(a) = size
      /\ Contents(back) = [recs |-> b, part |-> Contents(back).part]
  BY <1>5, <1>6 DEF Bytes, Units
<1> HIDE DEF a, b
<1>10. SubSeq(a \o b, size + 1, size + Len(b)) = b /\ Len(a \o b) = size + Len(b)
  <2>1. SubSeq(a \o b, size + 1, size + Len(b)) = b
    BY <1>9, PartsOfConcat
  <2>2. Len(a \o b) = size + Len(b)
    <3>1. a \in Seq(Units) /\ b \in Seq(Units) /\ Len(a) = size
      BY <1>9
    <3> QED BY ONLY <3>1, ConcatLens
  <2> QED BY <2>1, <2>2
<1>11. Contents(back) = [recs |-> SubSeq(held.recs, size + 1, Len(held.recs)), part |-> held.part]
  BY <1>8, <1>9, <1>10
<1> QED BY <1>3, <1>11 DEF size

\* Division without a remainder.
LEMMA Exactly ==
  ASSUME NEW x \in Nat, NEW n \in Nat \ {0}, x % n = 0
  PROVE  x \div n \in Nat /\ (x \div n) * n = x
<1>1. x \div n \in Nat
  OBVIOUS
<1>2. (x \div n) * n = x
  OBVIOUS
<1> QED BY <1>1, <1>2

LEMMA Multiple ==
  ASSUME NEW q \in Nat, NEW n \in Nat \ {0}
  PROVE  /\ q * n \in Nat /\ n * q = q * n
         /\ (q * n) % n = 0
         /\ (q * n) \div n = q
<1>1. q * n \in Nat /\ n * q = q * n
  OBVIOUS
<1>2. (q * n) % n = 0
  OBVIOUS
<1>3. (q * n) \div n = q
  OBVIOUS
<1> QED BY <1>1, <1>2, <1>3

LEMMA MultipleGrows ==
  ASSUME NEW q \in Nat, NEW r \in Nat, q < r, NEW n \in Nat \ {0}
  PROVE  q * n + n <= r * n
<1>1. r * n = q * n + (r - q) * n
  BY SMT
<1>2. (r - q) * n >= n
  BY SMT
<1>3. q * n \in Nat /\ (r - q) * n \in Nat
  BY SMT
<1> QED BY <1>1, <1>2, <1>3

\* The end of a beginning.
LEMMA EndOfFirst ==
  ASSUME NEW S, NEW s \in Seq(S), NEW e \in 1..Len(s), NEW m \in 1..e
  PROVE  /\ SubSeq(SubSeq(s, 1, e), m, e) = SubSeq(s, m, e)
         /\ Len(SubSeq(s, 1, e)) = e
<1>1. Len(s) \in Nat /\ 1 \in 1..Len(s) /\ m \in 1..(e - 1 + 1) /\ e \in 1..(e - 1 + 1)
  BY LenProperties
<1>2. SubSeq(SubSeq(s, 1, e), m, e) = SubSeq(s, 1 + m - 1, 1 + e - 1)
  BY <1>1, SubSeqOfSubSeq
<1>3. \A i \in 1..e : s[i] \in S
  BY <1>1, ElementOfSeq
<1>4. Len(SubSeq(s, 1, e)) = e
  BY <1>1, <1>3, SubSeqProperties
<1> QED BY <1>1, <1>2, <1>4

\* The frames of a range hold what the range asks for.
LEMMA RangeIsRecords ==
  ASSUME NEW fs \in Seq(Bytes), fs # <<>>, NEW n \in Nat \ {0}, Full(fs, n),
         NEW end, end = LastDataFrame(fs), NEW from \in Nat, NEW cnt \in Nat \cup {None},
         NEW range \in FrameRange(fs, n, from, cnt), range.first < range.past
  PROVE  /\ Contents(SubSeq(fs, range.first, range.past - 1)) = RangeOf(fs, from, cnt)
         /\ range.first \in 1..end
         /\ range.past \in (range.first + 1)..(end + 1)
         /\ range.past = end + 1 => range.toEnd
         /\ SubSeq(fs, range.first, range.past - 1) \in Seq(Bytes)
         /\ Len(SubSeq(fs, range.first, range.past - 1)) = range.past - range.first
         /\ \A j \in 1..(range.past - range.first) :
              SubSeq(fs, range.first, range.past - 1)[j] = fs[range.first + j - 1]
<1> DEFINE V == Contents(fs)
           all == V.recs
           e == from + cnt
           k == from \div n
           low == k * n
<1> PICK m : m = range.past - 1
  OBVIOUS
<1> DEFINE held == Contents(SubSeq(fs, 1, m))
           copy == SubSeq(fs, k + 1, m)
<1>1. /\ end \in 1..Len(fs) /\ Len(fs) \in Nat /\ DOMAIN fs = 1..Len(fs)
      /\ V \in Bytes /\ V = Contents(SubSeq(fs, 1, end))
      /\ Len(all) = (end - 1) * n + Count(fs, end)
  BY ContentsOfUniform, LenProperties
<1>2. from % n = 0 /\ k + 1 <= end /\ range.first = k + 1
  <2> DEFINE E == IF cnt = None THEN 0 ELSE e
             Within == {[first |-> k + 1, past |-> E \div n + 1, toEnd |-> FALSE]}
             ToEnd == {[first |-> k + 1, past |-> end + 1, toEnd |-> TRUE]}
  <2>1. FrameRange(fs, n, from, cnt)
          = IF from % n # 0 \/ k + 1 > end THEN {}
            ELSE IF cnt # None /\ E % n = 0 /\ E \div n < end THEN Within
            ELSE IF cnt # None /\ E # n * (end - 1) + Count(fs, end) THEN {}
            ELSE ToEnd
    BY DEF FrameRange
  <2>2. \A r \in Within \cup ToEnd : r.first = k + 1
    OBVIOUS
  <2>3. k \in Int
    OBVIOUS
  <2> HIDE DEF k, e, Within, ToEnd, E
  <2>4. range \in Within \cup ToEnd /\ from % n = 0 /\ ~(k + 1 > end)
    BY <2>1
  <2> QED BY <1>1, <2>2, <2>3, <2>4
<1>3. k \in Nat /\ low = from
  BY <1>2, Exactly
<1>4. \/ /\ cnt # None /\ e % n = 0 /\ e \div n < end
         /\ range = [first |-> k + 1, past |-> e \div n + 1, toEnd |-> FALSE]
      \/ /\ cnt = None \/ e = n * (end - 1) + Count(fs, end)
         /\ ~(cnt # None /\ e % n = 0 /\ e \div n < end)
         /\ range = [first |-> k + 1, past |-> end + 1, toEnd |-> TRUE]
  <2> DEFINE E == IF cnt = None THEN 0 ELSE e
             Within == {[first |-> k + 1, past |-> E \div n + 1, toEnd |-> FALSE]}
             ToEnd == {[first |-> k + 1, past |-> end + 1, toEnd |-> TRUE]}
             top == n * (end - 1) + Count(fs, end)
  <2>1. FrameRange(fs, n, from, cnt)
          = IF from % n # 0 \/ k + 1 > end THEN {}
            ELSE IF cnt # None /\ E % n = 0 /\ E \div n < end THEN Within
            ELSE IF cnt # None /\ E # top THEN {}
            ELSE ToEnd
    BY DEF FrameRange
  <2> HIDE DEF k, e, top
  <2>2. CASE cnt # None /\ E % n = 0 /\ E \div n < end
    <3>1. range \in Within
      BY <2>1, <2>2
    <3> QED BY <2>2, <3>1
  <2>3. CASE ~(cnt # None /\ E % n = 0 /\ E \div n < end)
    <3>1. range \in ToEnd /\ ~(cnt # None /\ E # top)
      BY <2>1, <2>3
    <3> QED BY <2>3, <3>1 DEF top
  <2> QED BY <2>2, <2>3
<1>5. ASSUME NEW i \in 1..(end - 1)
      PROVE  Count(fs, i) = n /\ fs[i].part = FALSE
  <2>1. Count(fs, i) = n /\ ~fs[i].part /\ fs[i] \in Bytes
    BY <1>1, ElementOfSeq DEF Full
  <2> QED BY <2>1 DEF Bytes
<1>6. Count(fs, end) \in Nat /\ (end - 1) * n \in Nat /\ n * (end - 1) = (end - 1) * n
  <2>1. end - 1 \in Nat
    BY <1>1
  <2> QED BY <1>1, <2>1, FrameOf, Multiple
<1>7. all \in Seq(Units) /\ V.part \in BOOLEAN
  BY <1>1 DEF Bytes, Units
<1> HIDE DEF V, all, e, k, low
<1>8. ASSUME m \in (k + 1)..end, range.past \in Nat
      PROVE  /\ Contents(copy) = [recs |-> SubSeq(held.recs, low + 1, Len(held.recs)),
                                  part |-> held.part]
             /\ copy \in Seq(Bytes)
             /\ Len(copy) = range.past - range.first
             /\ \A j \in 1..(range.past - range.first) : copy[j] = fs[range.first + j - 1]
  <2>1. /\ k \in 0..Len(fs) /\ m \in k..Len(fs)
        /\ \A i \in 1..k : i \in 1..(end - 1)
    <3>1. k \in Nat /\ end \in Nat /\ end <= Len(fs) /\ Len(fs) \in Nat
          /\ m \in Nat /\ k + 1 <= m /\ m <= end
      BY <1>1, <1>3, <1>8
    <3> QED BY ONLY <3>1
  <2>. m - k = range.past - range.first
    <3>1. range.first = k + 1 /\ m = range.past - 1 /\ k \in Nat /\ range.past \in Nat
      BY <1>2, <1>3, <1>8
    <3> QED BY ONLY <3>1
  <2>2. Even(fs, k, n)
    BY <1>5, <2>1 DEF Even
  <2>3. /\ Contents(copy) = [recs |-> SubSeq(held.recs, k * n + 1, Len(held.recs)),
                             part |-> held.part]
        /\ copy \in Seq(Bytes)
        /\ Len(copy) = m - k
        /\ \A j \in 1..(m - k) : copy[j] = fs[k + j]
    <3>1. fs \in Seq(Bytes) /\ n \in Nat /\ k \in 0..Len(fs) /\ m \in k..Len(fs)
      BY <2>1
    <3>2. HoldRest(fs, k, n, m)
      BY ONLY <3>1, <2>2, ContentsBehind
    <3> QED BY ONLY <3>2 DEF HoldRest, held, copy
  <2>4. \A j \in 1..(m - k) : range.first + j - 1 = k + j
    BY <1>2, <1>3
  <2> HIDE DEF copy, held
  <2> QED BY <2>1, <2>3, <2>4 DEF low
<1>9. CASE /\ cnt # None /\ e % n = 0 /\ e \div n < end
           /\ range = [first |-> k + 1, past |-> e \div n + 1, toEnd |-> FALSE]
  <2>1. e \in Nat
    BY <1>9 DEF e
  <2>2. e \div n \in Nat /\ (e \div n) * n = e
    BY <1>9, <2>1, Exactly
  <2>3. /\ m = e \div n /\ m \in (k + 1)..end /\ m <= end - 1 /\ range.past = m + 1
        /\ range.first = k + 1 /\ range.toEnd = FALSE
    BY <1>1, <1>3, <1>9, <2>2
  <2>. range.past \in Nat
    BY <1>9, <2>2
  <2>4. \A i \in 1..m : i \in 1..(end - 1)
    BY <1>1, <2>3
  <2>5. /\ held.part = FALSE /\ held.recs = SubSeq(all, 1, e) /\ e <= Len(all)
    <3>1. m \in 0..Len(fs) /\ m * n = e
      BY <1>1, <2>2, <2>3
    <3>2. \A i \in 1..m : Count(fs, i) = n /\ fs[i].part = FALSE
      BY <1>5, <2>4
    <3> QED BY <3>1, <3>2, ContentsOfFirst DEF all, V
  <2>6. low + n <= e /\ low \in Nat
    <3>1. m \in Nat /\ k < m /\ m * n = e
      BY <1>3, <2>2, <2>3
    <3>2. k * n + n <= m * n
      BY <1>3, <3>1, MultipleGrows
    <3>3. k * n \in Nat
      BY <1>3, Multiple
    <3> QED BY <3>1, <3>2, <3>3 DEF low
  <2>7. Len(held.recs) = e /\ SubSeq(held.recs, low + 1, e) = SubSeq(all, low + 1, e)
    <3>1. e \in 1..Len(all) /\ low + 1 \in 1..e
      BY <1>7, <2>1, <2>5, <2>6, LenProperties
    <3>2. SubSeq(SubSeq(all, 1, e), low + 1, e) = SubSeq(all, low + 1, e)
          /\ Len(SubSeq(all, 1, e)) = e
      BY <1>7, <3>1, EndOfFirst
    <3> QED BY <2>5, <3>2
  <2>8. RangeOf(fs, from, cnt) = [recs |-> SubSeq(all, low + 1, e), part |-> FALSE]
    <3>1. ~(e > Len(all))
      BY <1>7, <2>1, <2>5, LenProperties
    <3>2. ~(e = Len(all) /\ Count(fs, end) > 0)
      <4>1. e <= (end - 1) * n
        <5>. end \in Nat /\ end - 1 \in Nat
          BY <1>1
        <5>. m \in Nat /\ m * n = e /\ m <= end - 1
          BY <2>2, <2>3
        <5>1. CASE m = end - 1
          BY <2>1, <5>1
        <5>2. CASE m < end - 1
          <6>2. m * n + n <= (end - 1) * n
            BY <5>2, MultipleGrows
          <6> QED BY <1>6, <2>1, <6>2
        <5>3. m = end - 1 \/ m < end - 1
          OBVIOUS
        <5> QED BY <5>1, <5>2, <5>3
      <4> DEFINE top == (end - 1) * n
      <4>2. Len(all) = top + Count(fs, end) /\ top \in Nat /\ Count(fs, end) \in Nat /\ e <= top
        BY <1>1, <1>6, <4>1
      <4> HIDE DEF top
      <4> QED BY <2>1, <4>2
    <3>3. RangeOf(fs, from, cnt)
            = [recs |-> SubSeq(all, from + 1,
                          IF cnt = None \/ e > Len(all) THEN Len(all) ELSE e),
               part |-> /\ V.part
                        /\ \/ cnt = None
                           \/ e = Len(all) /\ Count(fs, end) > 0]
      BY DEF RangeOf, V, all, e
    <3>4. (V.part /\ (cnt = None \/ (e = Len(all) /\ Count(fs, end) > 0))) = FALSE
      BY <1>9, <3>2
    <3> QED BY <1>3, <1>9, <3>1, <3>3, <3>4
  <2>9. Contents(copy) = RangeOf(fs, from, cnt)
    <3> HIDE DEF copy, held
    <3> QED BY <1>8, <2>3, <2>5, <2>7, <2>8
  <2>10. range.first \in 1..end /\ range.past \in (range.first + 1)..(end + 1) /\ range.past # end + 1
    <3>1. k \in Nat /\ end \in Nat /\ m \in Nat /\ k + 1 <= m /\ m <= end - 1
          /\ range.past = m + 1 /\ range.first = k + 1
      BY <1>1, <1>3, <2>3
    <3> QED BY ONLY <3>1
  <2>11. SubSeq(fs, range.first, range.past - 1) = copy
    BY <2>3
  <2> HIDE DEF copy
  <2> QED BY <1>8, <2>3, <2>9, <2>10, <2>11
<1>10. CASE /\ cnt = None \/ e = n * (end - 1) + Count(fs, end)
            /\ ~(cnt # None /\ e % n = 0 /\ e \div n < end)
            /\ range = [first |-> k + 1, past |-> end + 1, toEnd |-> TRUE]
  <2>1. /\ m = end /\ m \in (k + 1)..end /\ range.past = end + 1
        /\ range.first = k + 1 /\ range.toEnd = TRUE
    BY <1>1, <1>2, <1>3, <1>10
  <2>. range.past \in Nat
    <3>1. end \in Nat
      BY <1>1
    <3> QED
      BY ONLY <2>1, <3>1
  <2>2. held = V
    BY <1>1, <2>1
  <2>3. cnt # None => e = Len(all) /\ Count(fs, end) > 0
    <3> SUFFICES ASSUME cnt # None, ~(e = Len(all) /\ Count(fs, end) > 0) PROVE FALSE
      OBVIOUS
    <3>1. e = Len(all) /\ e = (end - 1) * n + Count(fs, end)
      BY <1>1, <1>6, <1>10
    <3>2. Count(fs, end) = 0
      BY <1>6, <3>1
    <3>3. e = (end - 1) * n /\ end - 1 \in Nat
      BY <1>1, <1>6, <3>1, <3>2
    <3>4. e % n = 0 /\ e \div n = end - 1
      BY <3>3, Multiple
    <3> QED BY <1>1, <1>10, <3>4
  <2>4. RangeOf(fs, from, cnt) = [recs |-> SubSeq(all, low + 1, Len(all)), part |-> V.part]
    <3>1. RangeOf(fs, from, cnt)
            = [recs |-> SubSeq(all, from + 1,
                          IF cnt = None \/ e > Len(all) THEN Len(all) ELSE e),
               part |-> /\ V.part
                        /\ \/ cnt = None
                           \/ e = Len(all) /\ Count(fs, end) > 0]
      BY DEF RangeOf, V, all, e
    <3>2. (IF cnt = None \/ e > Len(all) THEN Len(all) ELSE e) = Len(all)
      BY <2>3
    <3>3. (V.part /\ (cnt = None \/ (e = Len(all) /\ Count(fs, end) > 0))) = V.part
      <4>1. cnt = None \/ (e = Len(all) /\ Count(fs, end) > 0)
        BY <2>3
      <4> QED BY <1>7, <4>1
    <3> QED BY <1>3, <3>1, <3>2, <3>3
  <2>5. Contents(copy) = RangeOf(fs, from, cnt)
    <3>1. Contents(copy) = [recs |-> SubSeq(held.recs, low + 1, Len(held.recs)), part |-> held.part]
      BY <1>8, <2>1
    <3> HIDE DEF copy, held
    <3> QED BY <2>2, <2>4, <3>1 DEF all
  <2>6. range.first \in 1..end /\ range.past \in (range.first + 1)..(end + 1) /\ range.toEnd
    <3>1. k \in Nat /\ end \in Nat /\ k + 1 <= end /\ range.past = end + 1
          /\ range.first = k + 1
      BY <1>1, <1>2, <1>3, <2>1
    <3>2. range.first \in 1..end /\ range.past \in (range.first + 1)..(end + 1)
      BY ONLY <3>1
    <3> QED BY <2>1, <3>2
  <2>7. SubSeq(fs, range.first, range.past - 1) = copy
    BY <2>1
  <2> HIDE DEF copy
  <2> QED BY <1>8, <2>1, <2>5, <2>6, <2>7
<1> QED BY <1>4, <1>9, <1>10

\* The groups that bytes are cut into hold them, record by record.
LEMMA ContentsOfGroups ==
  ASSUME NEW bytes \in Bytes, Size(bytes) > 0, NEW n \in Nat \ {0}
  PROVE  Contents(Groups(bytes, n)) = bytes
<1> DEFINE recs == bytes.recs
           total == Len(recs)
           size == Size(bytes)
           cut == Groups(bytes, n)
           c == (size + n - 1) \div n
           End(i) == IF i * n <= total THEN i * n ELSE total
           To(m) == Contents(SubSeq(cut, 1, m))
           Held(m) == To(m) = [recs |-> SubSeq(recs, 1, m * n), part |-> FALSE]
           S == {m \in Nat : m <= c - 1 => Held(m)}
<1>1. /\ recs \in Seq(Units) /\ bytes.part \in BOOLEAN
      /\ bytes = [recs |-> recs, part |-> bytes.part]
      /\ total \in Nat /\ size \in Nat \ {0} /\ total <= size /\ size <= total + 1
  BY SizeOf DEF Bytes, Units
<1>2. c \in Nat \ {0} /\ (c - 1) * n < size /\ size <= c * n
  <2> HIDE DEF size
  <2> QED BY <1>1, Ceiling
<1>3. cut \in Seq(Bytes) /\ Len(cut) \in Nat \ {0}
  BY GroupsOf
<1>4. /\ DOMAIN cut = 1..c
      /\ \A i \in 1..c : cut[i] = [recs |-> SubSeq(recs, (i - 1) * n + 1, End(i)),
                                   part |-> bytes.part /\ i = c]
  BY DEF Groups
<1>5. Len(cut) = c
  <2>1. DOMAIN cut = 1..Len(cut)
    BY <1>3, LenProperties
  <2> HIDE DEF cut, c
  <2> QED BY <1>2, <1>3, <1>4, <2>1, SameInterval
<1> HIDE DEF cut, c, size
<1>6. ASSUME NEW m \in 1..(c - 1)
      PROVE  m * n \in Nat /\ m * n <= total /\ End(m) = m * n
             /\ (m - 1) * n \in Nat /\ (m - 1) * n <= m * n
  <2>1. m \in Nat /\ m - 1 \in Nat /\ c - 1 \in Nat /\ m <= c - 1 /\ m - 1 < m
    BY <1>2
  <2>2. m * n \in Nat /\ (m - 1) * n \in Nat /\ (c - 1) * n \in Nat
    BY <2>1, Multiple
  <2>3. (m - 1) * n + n <= m * n
    BY <2>1, MultipleGrows
  <2>4. m * n <= (c - 1) * n
    <3>1. CASE m < c - 1
      <4>1. m * n + n <= (c - 1) * n
        BY <2>1, <3>1, MultipleGrows
      <4> QED BY <2>2, <4>1
    <3>2. CASE m = c - 1
      BY <2>2, <3>2
    <3> QED BY <2>1, <3>1, <3>2
  <2> DEFINE low == (m - 1) * n
             high == m * n
             top == (c - 1) * n
  <2>5. low \in Nat /\ high \in Nat /\ top \in Nat /\ low + n <= high /\ high <= top /\ top < size
    BY <1>2, <2>2, <2>3, <2>4
  <2> HIDE DEF low, high, top, total
  <2>6. high <= total /\ low <= high
    BY <1>1, <2>5
  <2>7. End(m) = IF high <= total THEN high ELSE total
    BY DEF high
  <2> HIDE DEF End
  <2> QED BY <2>5, <2>6, <2>7 DEF low, high
<1>7. 0 \in S
  <2>1. SubSeq(cut, 1, 0) = <<>> /\ SubSeq(recs, 1, 0) = <<>> /\ 0 * n = 0
    BY SubSeqEmpty
  <2>2. To(0) = Empty /\ Empty = [recs |-> SubSeq(recs, 1, 0 * n), part |-> FALSE]
    BY <2>1, ContentsNone DEF Empty
  <2>3. Held(0)
    BY <2>2
  <2> HIDE DEF Held
  <2> QED BY <2>3
<1>8. ASSUME NEW m \in Nat, m \in S, m + 1 <= c - 1 PROVE Held(m + 1)
  <2>1. /\ m + 1 \in 1..(c - 1) /\ m + 1 \in 1..c /\ m + 1 # c /\ (m + 1) - 1 = m
        /\ m <= c - 1 /\ m + 1 \in 1..Len(cut)
    BY <1>2, <1>5, <1>8
  <2>2. Held(m)
    BY <1>8, <2>1
  <2> DEFINE low == m * n
             high == (m + 1) * n
  <2>3. low \in Nat /\ high \in Nat /\ low <= high /\ high <= total /\ End(m + 1) = high
    <3> HIDE DEF End, total
    <3> QED BY <1>6, <2>1
  <2>4. cut[m + 1].recs = SubSeq(recs, low + 1, high) /\ cut[m + 1].part = FALSE
        /\ cut[m + 1] \in Bytes
    <3>1. cut[m + 1] = [recs |-> SubSeq(recs, low + 1, End(m + 1)), part |-> FALSE]
      <4>1. (bytes.part /\ m + 1 = c) = FALSE
        BY <2>1
      <4> HIDE DEF End, total
      <4> QED BY <1>4, <2>1, <4>1
    <3>2. cut[m + 1] \in Bytes
      BY <1>3, <2>1, ElementOfSeq
    <3> HIDE DEF End
    <3> QED BY <2>3, <3>1, <3>2
  <2>5. To(m) \in Bytes /\ To(m + 1) = Join(To(m), cut[m + 1])
    BY <1>3, <2>1, ContentsOneMore
  <2>6. To(m).part = FALSE /\ To(m).recs = SubSeq(recs, 1, low)
    BY <2>2
  <2> HIDE DEF To, low, high, End
  <2>7. To(m + 1) = [recs |-> SubSeq(recs, 1, low) \o SubSeq(recs, low + 1, high), part |-> FALSE]
    BY <2>4, <2>5, <2>6, JoinAfterWhole
  <2>8. SubSeq(recs, 1, low) \o SubSeq(recs, low + 1, high) = SubSeq(recs, 1, high)
    <3>1. 1 \in 1..(total + 1) /\ low \in (1 - 1)..total /\ high \in low..total
      BY <1>1, <2>3
    <3> QED BY <1>1, <3>1, ConcatAdjacentSubSeq
  <2> QED BY <2>7, <2>8 DEF high
<1>9. \A m \in Nat : m \in S => m + 1 \in S
  <2>1. ASSUME NEW m \in Nat, m \in S, m + 1 <= c - 1 PROVE Held(m + 1)
    <3> HIDE DEF S, Held
    <3> QED BY <1>8, <2>1
  <2> HIDE DEF Held
  <2> QED BY <2>1
<1>10. Held(c - 1)
  <2>1. c - 1 \in Nat
    BY <1>2
  <2>2. c - 1 \in S
    <3> HIDE DEF S
    <3> QED BY <1>7, <1>9, <2>1, Reached
  <2> HIDE DEF Held
  <2> QED BY <2>1, <2>2
<1>11. To(c) = bytes
  <2> DEFINE low == (c - 1) * n
  <2>1. c \in 1..c /\ c \in 1..Len(cut) /\ c - 1 \in Nat
    BY <1>2, <1>5
  <2>2. low \in Nat /\ low <= total
    <3>1. low \in Nat
      BY <2>1, Multiple
    <3> HIDE DEF low, total
    <3>2. low < size
      BY <1>2 DEF low
    <3> QED BY <1>1, <3>1, <3>2
  <2>3. End(c) = total
    <3> DEFINE high == c * n
    <3>1. high \in Nat /\ total <= high
      <4>1. high \in Nat
        BY <1>2, Multiple
      <4> HIDE DEF high, total
      <4>2. size <= high
        BY <1>2 DEF high
      <4> QED BY <1>1, <4>1, <4>2
    <3>2. End(c) = IF high <= total THEN high ELSE total
      OBVIOUS
    <3> HIDE DEF high, total, End
    <3> QED BY <1>1, <3>1, <3>2
  <2>4. cut[c].recs = SubSeq(recs, low + 1, total) /\ cut[c].part = bytes.part /\ cut[c] \in Bytes
    <3>1. cut[c] = [recs |-> SubSeq(recs, low + 1, End(c)), part |-> bytes.part]
      <4>1. (bytes.part /\ c = c) = bytes.part
        BY <1>1
      <4> HIDE DEF End, total
      <4> QED BY <1>4, <2>1, <4>1
    <3>2. cut[c] \in Bytes
      BY <1>3, <2>1, ElementOfSeq
    <3>3. cut[c].recs = SubSeq(recs, low + 1, End(c)) /\ cut[c].part = bytes.part
      <4> DEFINE piece == SubSeq(recs, low + 1, End(c))
                 part == bytes.part
      <4>1. cut[c] = [recs |-> piece, part |-> part]
        BY <3>1
      <4> HIDE DEF piece, part
      <4>2. cut[c].recs = piece /\ cut[c].part = part
        BY <4>1
      <4> QED BY <4>2 DEF piece, part
    <3> HIDE DEF End, low, total, recs
    <3> QED BY <2>3, <3>2, <3>3
  <2>5. To(c - 1) \in Bytes /\ To(c) = Join(To(c - 1), cut[c])
    BY <1>3, <2>1, ContentsOneMore
  <2>6. To(c - 1).part = FALSE /\ To(c - 1).recs = SubSeq(recs, 1, low)
    BY <1>10
  <2> HIDE DEF To, low, End
  <2>7. To(c) = [recs |-> SubSeq(recs, 1, low) \o SubSeq(recs, low + 1, total), part |-> bytes.part]
    BY <2>4, <2>5, <2>6, JoinAfterWhole
  <2>8. SubSeq(recs, 1, low) \o SubSeq(recs, low + 1, total) = SubSeq(recs, 1, total)
    <3>1. 1 \in 1..(total + 1) /\ low \in (1 - 1)..total /\ total \in low..total
      BY <1>1, <2>2
    <3> QED BY <1>1, <3>1, ConcatAdjacentSubSeq
  <2>9. SubSeq(recs, 1, total) = recs
    BY <1>1, SubSeqFull
  <2> QED BY <1>1, <2>7, <2>8, <2>9
<1>12. SubSeq(cut, 1, c) = cut
  BY <1>3, <1>5, SubSeqFull
<1> QED BY <1>11, <1>12 DEF cut

\* What data makes of bytes v, a fragment at their end closed.
Sequel(v, data) ==
  [recs |-> (IF v.part THEN Append(v.recs, Sealed) ELSE v.recs) \o data.recs, part |-> data.part]

\* An append, as the file it leaves: the records it had, its fragment closed,
\* and the appended ones.
LEMMA AppendEffect ==
  ASSUME NEW fs \in Seq(Bytes), fs # <<>>, NEW n \in Nat \ {0}, Full(fs, n),
         Size(fs[LastDataFrame(fs)]) > 0,
         NEW data \in Bytes, data # Empty, NEW cut \in Int, NEW tail \in Bytes,
         IF Whole(fs[LastDataFrame(fs)]) /\ Count(fs, LastDataFrame(fs)) = n
         THEN cut = LastDataFrame(fs) /\ tail = Empty
         ELSE /\ cut = LastDataFrame(fs) - 1
              /\ tail = IF Whole(fs[LastDataFrame(fs)]) THEN fs[LastDataFrame(fs)]
                        ELSE Seal(fs[LastDataFrame(fs)])
  PROVE  Contents(SubSeq(fs, 1, cut) \o Groups(Join(tail, data), n))
           = Sequel(Contents(fs), data)
<1> SUFFICES ASSUME NEW end, end = LastDataFrame(fs), Size(fs[end]) > 0,
                    Whole(fs[end]) /\ Count(fs, end) = n => cut = end /\ tail = Empty,
                    ~(Whole(fs[end]) /\ Count(fs, end) = n) => cut = end - 1,
                    ~(Whole(fs[end]) /\ Count(fs, end) = n) =>
                      tail = IF Whole(fs[end]) THEN fs[end] ELSE Seal(fs[end]),
                    NEW V, V = Contents(fs), NEW new, new = Groups(Join(tail, data), n)
             PROVE  Contents(SubSeq(fs, 1, cut) \o new)
                      = [recs |-> (IF V.part THEN Append(V.recs, Sealed) ELSE V.recs)
                                  \o data.recs,
                         part |-> data.part]
  BY DEF Sequel
<1> DEFINE frame == fs[end]
           before == Contents(SubSeq(fs, 1, end - 1))
           kept == SubSeq(fs, 1, cut)
           X == Contents(kept)
           B == Join(tail, data)
<1>1. /\ end \in 1..Len(fs) /\ V \in Bytes /\ before \in Bytes /\ before.part = FALSE
      /\ Contents(SubSeq(fs, 1, end)) = V
      /\ V.recs = before.recs \o frame.recs /\ V.part = frame.part
  BY ContentsOfUniform
<1>2. Len(fs) \in Nat /\ DOMAIN fs = 1..Len(fs) /\ frame \in Bytes
  BY <1>1, LenProperties, ElementOfSeq
<1>3. cut \in 0..Len(fs) /\ kept \in Seq(Bytes)
  <2>1. cut \in 0..Len(fs)
    BY <1>1, <1>2
  <2> QED BY <2>1, FirstFrames
<1>4. /\ frame.recs \in Seq(Units) /\ data.recs \in Seq(Units) /\ before.recs \in Seq(Units)
      /\ V.recs \in Seq(Units) /\ frame.part \in BOOLEAN /\ data.part \in BOOLEAN
  BY <1>1, <1>2 DEF Bytes, Units
<1>5. tail \in {Empty, Seal(frame)} \/ (tail = frame /\ Whole(frame))
  OBVIOUS
<1>6. B \in Bytes /\ Size(B) > 0
  BY <1>1, <1>2, <1>5, TailBytesEnd
<1>7. Contents(Groups(B, n)) = B /\ Groups(B, n) \in Seq(Bytes)
  BY <1>6, ContentsOfGroups, GroupsOf
<1>8. ~Whole(frame) => frame.part = TRUE
  BY <1>2, <1>4, SizeOf
<1>9. Whole(frame) => frame.part = FALSE
  BY <1>4 DEF Whole
<1> DEFINE a == before.recs
           f == frame.recs
           d == data.recs
<1>10. B.part = data.part /\ B.recs = tail.recs \o d
  <2>1. ~tail.part
    <3>1. tail = Empty => ~tail.part
      BY DEF Empty
    <3>2. tail = Seal(frame) => ~tail.part
      BY DEF Seal
    <3>3. tail = frame /\ Whole(frame) => ~tail.part
      BY DEF Whole
    <3> QED BY <1>5, <3>1, <3>2, <3>3
  <2> QED BY <2>1 DEF Join
<1> HIDE DEF frame, before, kept, X, B
<1>11. CASE Whole(fs[end]) /\ Count(fs, end) = n
  <2>1. X = V /\ V.part = FALSE /\ tail = Empty
    BY <1>1, <1>9, <1>11 DEF X, kept, frame
  <2>2. Contents(kept \o Groups(B, n)) = Join(V, B)
    BY <1>3, <1>7, <2>1, ContentsConcat DEF X
  <2>3. Join(V, B) = [recs |-> V.recs \o B.recs, part |-> B.part]
    BY <1>1, <1>6, <2>1, JoinAfterWhole
  <2>4. B.recs = d
    <3>1. tail.recs = <<>> /\ d \in Seq(Units) /\ B.recs = tail.recs \o d
      BY <1>4, <1>10, <2>1 DEF Empty
    <3> HIDE DEF d
    <3> QED BY <3>1, ConcatEmptySeq
  <2>5. Contents(kept \o Groups(B, n)) = [recs |-> V.recs \o d, part |-> data.part]
    BY <1>10, <2>2, <2>3, <2>4
  <2> QED BY <2>1, <2>5 DEF kept, B
<1>12. CASE ~(Whole(fs[end]) /\ Count(fs, end) = n)
  <2>1. X = before
    BY <1>12 DEF X, kept, before
  <2>2. Contents(kept \o Groups(B, n)) = Join(before, B)
    BY <1>1, <1>3, <1>7, <2>1, ContentsConcat DEF X
  <2>3. Join(before, B) = [recs |-> a \o (tail.recs \o d), part |-> data.part]
    <3> DEFINE c == B.recs
    <3>1. before \in Bytes /\ ~before.part /\ B \in Bytes
      BY <1>1, <1>6
    <3>2. Join(before, B) = [recs |-> a \o c, part |-> B.part]
      BY ONLY <3>1, JoinAfterWhole
    <3>3. c = tail.recs \o d /\ B.part = data.part
      BY <1>10
    <3> HIDE DEF a, c, d
    <3> QED BY <3>2, <3>3
  <2>4. CASE Whole(frame)
    <3>1. tail = frame /\ V.part = FALSE
      BY <1>1, <1>9, <1>12, <2>4 DEF frame
    <3>2. a \o (tail.recs \o d) = V.recs \o d
      <4>1. a \in Seq(Units) /\ f \in Seq(Units) /\ d \in Seq(Units)
            /\ tail.recs = f /\ V.recs = a \o f
        BY <1>1, <1>4, <3>1
      <4> HIDE DEF a, f, d
      <4>2. a \in Seq(Units) /\ f \in Seq(Units) /\ d \in Seq(Units)
        BY <4>1
      <4>3. (a \o f) \o d = a \o (f \o d)
        BY ONLY <4>2, UnitsConcat
      <4> QED BY <4>1, <4>3
    <3>3. Contents(kept \o Groups(B, n)) = [recs |-> V.recs \o d, part |-> data.part]
      BY <2>2, <2>3, <3>2
    <3> QED BY <3>1, <3>3 DEF kept, B
  <2>5. CASE ~Whole(frame)
    <3>1. tail = Seal(frame) /\ V.part = TRUE
      BY <1>1, <1>8, <1>12, <2>5 DEF frame
    <3>2. a \o (tail.recs \o d) = Append(V.recs, Sealed) \o d
      <4>1. a \in Seq(Units) /\ f \in Seq(Units) /\ d \in Seq(Units)
            /\ V.recs = a \o f /\ Sealed \in Units /\ V.recs \in Seq(Units)
        BY <1>1, <1>4 DEF Units
      <4>2. tail.recs = Append(f, Sealed)
        BY <3>1 DEF Seal
      <4> HIDE DEF a, f, d
      <4>3. Append(f, Sealed) = f \o <<Sealed>>
        BY <4>1, AppendIsConcat
      <4>4. Append(V.recs, Sealed) = V.recs \o <<Sealed>>
        <5> DEFINE v == V.recs
        <5>1. v \in Seq(Units)
          BY <4>1
        <5> HIDE DEF v
        <5>2. Append(v, Sealed) = v \o <<Sealed>>
          BY <4>1, <5>1, AppendIsConcat
        <5> QED BY <5>2 DEF v
      <4> DEFINE z == <<Sealed>>
      <4>5. z \in Seq(Units)
        BY <4>1
      <4>6. tail.recs = f \o z /\ Append(V.recs, Sealed) = (a \o f) \o z
        BY <4>1, <4>2, <4>3, <4>4
      <4> HIDE DEF z
      <4>7. a \o ((f \o z) \o d) = ((a \o f) \o z) \o d
        <5> DEFINE w == f \o z
        <5>1. w \in Seq(Units)
          BY <4>1, <4>5, ConcatProperties
        <5>3. a \in Seq(Units) /\ d \in Seq(Units) /\ f \in Seq(Units)
          BY <4>1
        <5>2. (a \o f) \o z = a \o w
          BY ONLY <5>3, <4>5, UnitsConcat
        <5> HIDE DEF w
        <5>4. (a \o w) \o d = a \o (w \o d)
          BY ONLY <5>1, <5>3, UnitsConcat
        <5> QED BY <5>2, <5>4 DEF w
      <4> QED BY <4>6, <4>7
    <3>3. Contents(kept \o Groups(B, n))
            = [recs |-> Append(V.recs, Sealed) \o d, part |-> data.part]
      BY <2>2, <2>3, <3>2
    <3> QED BY <3>1, <3>3 DEF kept, B
  <2> QED BY <2>4, <2>5
<1> QED BY <1>11, <1>12

\* A truncation, as the file it leaves: so many of its records, and at most the
\* fragment behind them.
LEMMA TruncateEffect ==
  ASSUME NEW fs \in Seq(Bytes), Uniform(fs), NEW n \in Nat \ {0}, n = Count(fs, 1),
         Len(fs) >= 3, Count(fs, Len(fs) - 1) = n, NEW k \in 1..Len(fs),
         k >= Len(fs) => Count(fs, Len(fs)) = n
  PROVE  LET V == Contents(fs) IN
         /\ k * n \in 1..Len(V.recs)
         /\ \E part \in {FALSE, V.part /\ k * n = Len(V.recs)} :
              Contents(SubSeq(fs, 1, k)) = [recs |-> SubSeq(V.recs, 1, k * n), part |-> part]
<1> DEFINE V == Contents(fs)
           end == LastDataFrame(fs)
           L == Len(fs)
           len == k * n
           kept == Contents(SubSeq(fs, 1, k))
<1>1. /\ fs # <<>> /\ Full(fs, n) /\ L \in Nat /\ DOMAIN fs = 1..L
  BY UniformTells, LenProperties
<1>2. /\ end \in 1..L /\ V \in Bytes
      /\ Contents(SubSeq(fs, 1, end)) = V
      /\ Len(V.recs) = (end - 1) * n + Count(fs, end)
  BY <1>1, ContentsOfUniform
<1>3. \A j \in DOMAIN fs : j > end => Size(fs[j]) = 0
  BY <1>1, LastExists
<1>4. \A i \in 1..L : fs[i] \in Bytes /\ Count(fs, i) \in Nat /\ Count(fs, i) <= Size(fs[i])
  <2>1. ASSUME NEW i \in 1..L
        PROVE  fs[i] \in Bytes /\ Count(fs, i) \in Nat /\ Count(fs, i) <= Size(fs[i])
    <3>1. fs[i] \in Bytes
      BY ElementOfSeq
    <3> QED BY <3>1, SizeOf DEF Count
  <2> QED BY <2>1
<1>5. V.recs \in Seq(Units) /\ V.part \in BOOLEAN /\ V = [recs |-> V.recs, part |-> V.part]
  BY <1>2 DEF Bytes, Units
<1> HIDE DEF V, end
<1>. end \in 1..L /\ end \in Nat /\ k \in Nat /\ L \in Nat
  BY <1>1, <1>2
<1>6. end >= L - 1
  <2> SUFFICES ASSUME L - 1 > end PROVE FALSE
    BY <1>1, <1>2
  <2>1. L - 1 \in 1..L /\ Size(fs[L - 1]) = 0
    BY <1>1, <1>3
  <2> QED BY <1>4, <2>1
<1>7. k <= end
  <2> SUFFICES ASSUME k > end PROVE FALSE
    OBVIOUS
  <2>1. k = L /\ L \in 1..L /\ L > end
    <3>1. k <= L /\ k > end /\ end >= L - 1
      BY <1>6
    <3> HIDE DEF L
    <3> QED BY <3>1
  <2>2. Size(fs[L]) = 0 /\ Count(fs, L) = n
    BY <1>1, <1>3, <2>1
  <2>3. Count(fs, L) <= Size(fs[L])
    BY <1>4, <2>1
  <2> QED BY <2>2, <2>3
<1>8. len \in Nat /\ len >= n
  <2>1. len \in Nat
    BY Multiple
  <2>2. 0 * n + n <= k * n
    BY MultipleGrows
  <2>3. 0 * n = 0
    OBVIOUS
  <2> HIDE DEF len
  <2>4. n <= len
    BY <2>2, <2>3 DEF len
  <2> QED BY <2>1, <2>4
<1>9. CASE k < end
  <2>1. k \in 0..Len(fs) /\ \A i \in 1..k : i \in 1..(end - 1) /\ i \in 1..L
    BY <1>1, <1>2, <1>9
  <2>2. \A i \in 1..k : Count(fs, i) = n /\ fs[i].part = FALSE
    <3>1. \A i \in 1..k : Count(fs, i) = n /\ ~fs[i].part
      BY <1>1, <2>1 DEF Full, end
    <3> QED BY <1>4, <2>1, <3>1 DEF Bytes
  <2>3. /\ kept \in Bytes /\ kept.part = FALSE
        /\ kept.recs = SubSeq(V.recs, 1, len) /\ len <= Len(V.recs)
    BY <2>1, <2>2, ContentsOfFirst DEF V
  <2> HIDE DEF len, kept
  <2>4. kept = [recs |-> SubSeq(V.recs, 1, len), part |-> FALSE]
    BY <2>3 DEF Bytes
  <2>5. len \in 1..Len(V.recs)
    BY <1>5, <1>8, <2>3, LenProperties
  <2> QED BY <2>4, <2>5 DEF len, kept, V
<1>10. CASE k = end
  <2>1. Count(fs, end) = n
    <3>1. CASE end = L
      BY <1>1, <1>10, <3>1
    <3>2. CASE end = L - 1
      BY <3>2
    <3>3. end <= L
      OBVIOUS
    <3> HIDE DEF L
    <3>4. end = L \/ end = L - 1
      BY <1>6, <3>3
    <3> QED BY <3>1, <3>2, <3>4
  <2>2. (end - 1) * n + n = end * n
    BY <1>2, SMT
  <2>3. len = Len(V.recs)
    BY <1>2, <1>10, <2>1, <2>2
  <2>4. kept = V
    BY <1>2, <1>10
  <2> HIDE DEF len, kept
  <2>5. SubSeq(V.recs, 1, len) = V.recs
    BY <1>5, <2>3, SubSeqFull
  <2>6. kept = [recs |-> SubSeq(V.recs, 1, len), part |-> V.part]
    BY <1>5, <2>4, <2>5
  <2>7. (V.part /\ len = Len(V.recs)) = V.part
    BY <1>5, <2>3
  <2>8. len \in 1..Len(V.recs)
    BY <1>8, <2>3
  <2> QED BY <2>6, <2>7, <2>8 DEF len, kept, V
<1> QED BY <1>2, <1>7, <1>9, <1>10

-------------------------------------------------------------------------------
(***************************************************************************)
(* Each operation in one step or not at all                                *)
(***************************************************************************)
\* A result says that the last data frame holds something, so that what appends
\* by it never closes a fragment where there is none.
FreshInv ==
  /\ prev # None => prev.last_size > 0
  /\ pc # "idle" /\ plan.result # None => plan.result.last_size > 0

\* What a plan ends in is the effect of its request on what there was.
EffectInv ==
  pc # "idle" =>
    /\ plan.request \in Requests
    /\ Contents(plan.target) \in Log!Effects(plan.request, Contents(plan.before))

\* Whatever count an append goes by, there is a frame that holds something.
LEMMA LastHasData ==
  ASSUME TypeOK, EditInv, FreshInv, NEW given \in Counts \cup {None}, NEW trust \in BOOLEAN,
         NEW passed \in {None, prev}, CallerOfAppend(given, trust, passed),
         NEW n \in RecordsPerFrameToUse(given, trust, Usable(passed, given))
  PROVE  Size(frames[last]) > 0
<1> DEFINE previous == Usable(passed, given)
<1>1. /\ last \in 1..Len(frames)
      /\ previous # None => previous \in Results /\ Tells(previous, frames)
  BY CountIsTheFiles
<1>2. frames \in Seq(Bytes) /\ frames # <<>> /\ Len(frames) \in Nat /\ DOMAIN frames = 1..Len(frames)
  BY LenProperties DEF TypeOK, CallerOfAppend, EditInv, UniformFile, Uniform
<1>3. previous # None => previous = prev
  BY DEF Usable
<1>4. CASE given # None
  BY <1>4 DEF RecordsPerFrameToUse
<1>5. CASE given = None /\ Validated(previous)
  <2>1. previous.last_size > 0 /\ previous.last_size = Size(frames[last])
    BY <1>1, <1>3, <1>5 DEF Validated, FreshInv, Tells, last
  <2> QED BY <2>1
<1>6. CASE given = None /\ ~Validated(previous)
  <2>1. n \in ValidateSeparator(frames)
    BY <1>6 DEF RecordsPerFrameToUse
  <2>2. Len(frames) >= 3 /\ Count(frames, Len(frames) - 1) > 0
    BY <2>1 DEF ValidateSeparator
  <2>3. Len(frames) - 1 \in 1..Len(frames) /\ Len(frames) - 1 > 1
    BY <1>2, <2>2
  <2>4. Size(frames[Len(frames) - 1]) > 0
    <3>1. frames[Len(frames) - 1] \in Bytes
      BY <1>2, <2>3, ElementOfSeq
    <3> QED BY <2>2, <3>1, SizeOf DEF Count
  <2>5. /\ \A j \in DOMAIN frames : j > last => Size(frames[j]) = 0
        /\ last = 1 \/ Size(frames[last]) > 0
    BY <1>2, LastExists DEF last
  <2> QED BY <1>1, <1>2, <2>3, <2>4, <2>5
<1> QED BY <1>4, <1>5, <1>6

\* The request an append begins with, and what it plans.
LEMMA AppendRecordsAsked ==
  ASSUME TypeOK, EditInv, FreshInv, NEW data \in Data, NEW insert \in BOOLEAN,
         NEW given \in Counts \cup {None}, NEW trust \in BOOLEAN,
         NEW passed \in {None, prev}, AppendRecords(data, insert, given, trust, passed)
  PROVE  /\ pc = "idle" /\ table # None
         /\ pc' = "cut" /\ answer' = "none"
         /\ UNCHANGED <<frames, table>>
         /\ plan'.before = frames
         /\ plan'.request \in Requests
         /\ Log!Allowed(plan'.request, Contents(frames))
         /\ Contents(plan'.target) \in Log!Effects(plan'.request, Contents(frames))
<1> DEFINE previous == Usable(passed, given)
           state == LastState(previous)
           request == [op |-> "append", insert |-> insert, data |-> data]
           New(n) == Groups(Join(TailBytes(state, n), data), n)
           Sized(n) == SubSeq(table, 1, KeptFrames(state, n)) \o Sizes(New(n))
           ResultOf(n) ==
             AppendResult(n, ~trust \/ Validated(previous), Sized(n), Len(Sized(n)),
                          Count(New(n), Len(New(n))), Whole(New(n)[Len(New(n))]))
<1>1. PICK n \in RecordsPerFrameToUse(given, trust, previous) :
        /\ Joinable(insert, trust, state, n)
        /\ Begin(request, CutAt(state, n), New(n), Sized(n), ResultOf(n))
  BY DEF AppendRecords
<1>2. /\ CallerOfAppend(given, trust, passed) /\ data # Empty /\ data \in Bytes
      /\ pc = "idle" /\ table # None
  BY DataAssumption DEF AppendRecords, CallerOfAppend
<1>3. /\ n \in Nat \ {0} /\ Full(frames, n) /\ last \in 1..Len(frames)
      /\ state = [count |-> Count(frames, last), whole |-> Whole(frames[last])]
  BY <1>2, CountIsTheFiles
<1>4. frames \in Seq(Bytes) /\ frames # <<>> /\ last = LastDataFrame(frames)
  BY <1>2 DEF TypeOK, EditInv, UniformFile, Uniform, last
<1>5. Size(frames[last]) > 0
  BY <1>2, LastHasData
<1>6. state.count = Count(frames, last) /\ state.whole = Whole(frames[last])
  BY <1>3
<1> DEFINE full == Whole(frames[last]) /\ Count(frames, last) = n
           cut == IF full THEN last ELSE last - 1
           tail == IF full THEN Empty
                   ELSE IF Whole(frames[last]) THEN frames[last] ELSE Seal(frames[last])
           V == Contents(frames)
<1> HIDE DEF state, ResultOf, Sized, previous
<1>7. CutAt(state, n) = cut /\ TailBytes(state, n) = tail
  BY <1>6 DEF CutAt, TailBytes, PreserveLast
<1>8. /\ pc' = "cut" /\ answer' = "none" /\ UNCHANGED <<frames, table>>
      /\ plan'.before = frames /\ plan'.request = request
      /\ plan'.target = SubSeq(frames, 1, CutAt(state, n)) \o New(n)
  BY <1>1 DEF Begin, file
<1>9. plan'.target = SubSeq(frames, 1, cut) \o Groups(Join(tail, data), n)
  BY <1>7, <1>8
<1> HIDE DEF New, full, cut, tail
<1>10. Contents(plan'.target) = Sequel(V, data)
  <2>1. IF Whole(frames[last]) /\ Count(frames, last) = n
        THEN cut = last /\ tail = Empty
        ELSE /\ cut = last - 1
             /\ tail = IF Whole(frames[last]) THEN frames[last] ELSE Seal(frames[last])
    BY DEF full, cut, tail
  <2>2. Size(frames[LastDataFrame(frames)]) > 0
    BY <1>4, <1>5
  <2>3. IF Whole(frames[LastDataFrame(frames)]) /\ Count(frames, LastDataFrame(frames)) = n
        THEN cut = LastDataFrame(frames) /\ tail = Empty
        ELSE /\ cut = LastDataFrame(frames) - 1
             /\ tail = IF Whole(frames[LastDataFrame(frames)])
                       THEN frames[LastDataFrame(frames)]
                       ELSE Seal(frames[LastDataFrame(frames)])
    BY <1>4, <2>1
  <2>4. frames \in Seq(Bytes) /\ frames # <<>> /\ n \in Nat \ {0} /\ Full(frames, n)
        /\ data \in Bytes /\ data # Empty
    BY <1>2, <1>3, <1>4
  <2>5. Contents(SubSeq(frames, 1, cut) \o Groups(Join(tail, data), n))
         = Sequel(Contents(frames), data)
    <3>1. last \in 1..Len(frames) /\ Len(frames) \in Nat /\ frames[last] \in Bytes
      BY <1>3, <1>4, LenProperties, ElementOfSeq
    <3>2. cut \in Int
      BY <2>1, <3>1
    <3>3. tail \in Bytes
      <4>1. Empty \in Bytes
        BY DEF Empty, Bytes
      <4>2. Seal(frames[last]) \in Bytes
        BY <3>1, AppendProperties DEF Seal, Bytes
      <4> QED BY <2>1, <3>1, <4>1, <4>2
    <3> QED BY ONLY <2>2, <2>3, <2>4, <3>2, <3>3, AppendEffect
  <2> QED BY <1>9, <2>5
<1>11. request \in Requests
  BY <1>2 DEF Requests
<1>12. V.part => insert
  <2>1. V.part = frames[last].part
    BY <1>3, <1>4, ContentsOfUniform
  <2>2. Whole(frames[last]) \/ insert
    BY <1>1, <1>6 DEF Joinable
  <2> QED BY <2>1, <2>2 DEF Whole
<1> HIDE DEF V
<1>13. Log!Allowed(request, V)
  BY <1>12 DEF Log!Allowed
<1>14. Contents(plan'.target) \in Log!Effects(request, V)
  <2>1. Log!Effects(request, V) = {Log!Joined(V, data)}
    BY DEF Log!Effects
  <2>2. Contents(plan'.target) = Log!Joined(V, data)
    BY <1>10 DEF Sequel, Log!Joined, Log!Sealed, Sealed
  <2> QED BY <2>1, <2>2
<1> QED BY <1>2, <1>8, <1>11, <1>13, <1>14 DEF V

\* The same for copied frames, if dividing by the count tells where the records
\* of an input are.
LEMMA AppendFramesAsked ==
  ASSUME TypeOK, EditInv, NEW input \in Inputs, Uniform(input),
         NEW from \in Nat, NEW cnt \in Nat \cup {None},
         NEW check, AppendFrames(input, from, cnt, check)
  PROVE  /\ pc = "idle" /\ table # None
         /\ pc' = "cut" /\ answer' = "none"
         /\ UNCHANGED <<frames, table>>
         /\ plan'.before = frames
         /\ plan'.request \in Requests
         /\ Log!Allowed(plan'.request, Contents(frames))
         /\ Contents(plan'.target) \in Log!Effects(plan'.request, Contents(frames))
<1> DEFINE data == RangeOf(input, from, cnt)
           request == [op |-> "append", insert |-> FALSE, data |-> data]
           Copied(r) == SubSeq(input, r.first, r.past - 1)
           V == Contents(frames)
<1>1. PICK range \in FramesToAppend(input, from, cnt, check) :
        /\ range.first < range.past
        /\ Begin(request, last, Copied(range),
                 SubSeq(table, 1, last) \o Sizes(Copied(range)), None)
  BY DEF AppendFrames
<1>2. PICK n \in ValidateSeparator(frames) :
        /\ Whole(frames[last])
        /\ n \in RecordsPerFrame(input, "FirstFrame")
        /\ range \in FrameRange(input, n, from, cnt)
  BY <1>1 DEF FramesToAppend
<1>3. /\ pc = "idle" /\ table # None
      /\ frames \in Seq(Bytes) /\ Uniform(frames) /\ frames # <<>>
      /\ Full(frames, Count(frames, 1))
  BY UniformTells DEF AppendFrames, CallerOfFrames, TypeOK, EditInv, UniformFile
<1>4. /\ input \in Seq(Bytes) /\ input # <<>> /\ n = Count(input, 1) /\ n > 0
      /\ Full(input, Count(input, 1))
  BY <1>2, InputsAssumption, UniformTells DEF RecordsPerFrame, ValidateSeparator
<1>5. Len(input) \in Nat \ {0} /\ Len(frames) \in Nat \ {0}
  BY <1>3, <1>4, EmptySeq, LenProperties
<1>6. n \in Nat \ {0} /\ Count(frames, 1) \in Nat
  BY <1>3, <1>4, <1>5, FrameOf, LenProperties
<1>7. Contents(Copied(range)) = data /\ Copied(range) \in Seq(Bytes)
  BY <1>1, <1>2, <1>4, <1>6, RangeIsRecords
<1>8. data \in Bytes
  BY <1>7, ContentsBytes
<1>9. /\ last \in 1..Len(frames) /\ V \in Bytes /\ V.part = frames[last].part
      /\ Contents(SubSeq(frames, 1, last)) = V
  BY <1>3, <1>6, ContentsOfUniform DEF last
<1>10. ~V.part
  BY <1>2, <1>9 DEF Whole
<1> DEFINE new == Copied(range)
<1>11. /\ pc' = "cut" /\ answer' = "none" /\ UNCHANGED <<frames, table>>
       /\ plan'.before = frames /\ plan'.request = request
       /\ plan'.target = SubSeq(frames, 1, last) \o new
  BY <1>1 DEF Begin, file
<1>12. SubSeq(frames, 1, last) \in Seq(Bytes)
  <2>1. last \in 0..Len(frames)
    BY <1>5, <1>9
  <2> QED BY <1>3, <2>1, FirstFrames
<1> HIDE DEF data, new, V, Copied
<1>13. Contents(plan'.target) = Join(V, data)
  <2>1. new \in Seq(Bytes) /\ Contents(new) = data
    BY <1>7 DEF new
  <2> QED BY <1>9, <1>10, <1>11, <1>12, <2>1, ContentsConcat
<1>14. Join(V, data) = [recs |-> V.recs \o data.recs, part |-> data.part]
  BY <1>8, <1>9, <1>10, JoinAfterWhole
<1>15. request \in Requests
  BY <1>8 DEF Requests
<1>16. Log!Allowed(request, V)
  BY <1>10 DEF Log!Allowed
<1>17. Contents(plan'.target) \in Log!Effects(request, V)
  BY <1>10, <1>13, <1>14 DEF Log!Effects, Log!Joined
<1> QED BY <1>3, <1>11, <1>15, <1>16, <1>17 DEF V

\* And for a truncation.
LEMMA TruncateAsked ==
  ASSUME TypeOK, EditInv, NEW len \in Nat, Truncate(len)
  PROVE  /\ pc = "idle" /\ table # None
         /\ pc' = "cut" /\ answer' = "none"
         /\ UNCHANGED <<frames, table>>
         /\ plan'.before = frames
         /\ plan'.request \in Requests
         /\ Log!Allowed(plan'.request, Contents(frames))
         /\ Contents(plan'.target) \in Log!Effects(plan'.request, Contents(frames))
<1> DEFINE request == [op |-> "truncate", len |-> len]
           V == Contents(frames)
<1>1. PICK k \in FramesToKeep(len) :
        Begin(request, k, <<>>, SubSeq(table, 1, k), None)
  BY DEF Truncate
<1>2. /\ pc = "idle" /\ table # None
      /\ frames \in Seq(Bytes) /\ Uniform(frames) /\ frames # <<>>
  BY DEF Truncate, TypeOK, EditInv, UniformFile, Uniform
<1>3. PICK n \in ValidateSeparator(frames) :
        /\ k \in 1..Len(frames) /\ len = k * n
        /\ k >= Len(frames) => Count(frames, Len(frames)) = n
  BY <1>1 DEF FramesToKeep
<1>4. n = Count(frames, 1) /\ n > 0 /\ Len(frames) >= 3 /\ Count(frames, Len(frames) - 1) = n
  BY <1>3 DEF ValidateSeparator
<1>5. n \in Nat \ {0}
  <2>1. Len(frames) \in Nat /\ 1 \in DOMAIN frames
    BY <1>2, <1>4, LenProperties
  <2> QED BY <1>2, <1>4, <2>1, FrameOf
<1>6. /\ len \in 1..Len(V.recs)
      /\ \E part \in {FALSE, V.part /\ len = Len(V.recs)} :
           Contents(SubSeq(frames, 1, k)) = [recs |-> SubSeq(V.recs, 1, len), part |-> part]
  <2>1. /\ frames \in Seq(Bytes) /\ Uniform(frames) /\ n \in Nat \ {0} /\ n = Count(frames, 1)
        /\ Len(frames) >= 3 /\ Count(frames, Len(frames) - 1) = n /\ k \in 1..Len(frames)
        /\ k >= Len(frames) => Count(frames, Len(frames)) = n
    BY <1>2, <1>3, <1>4, <1>5
  <2>2. /\ k * n \in 1..Len(V.recs)
        /\ \E part \in {FALSE, V.part /\ k * n = Len(V.recs)} :
             Contents(SubSeq(frames, 1, k)) = [recs |-> SubSeq(V.recs, 1, k * n), part |-> part]
    BY ONLY <2>1, TruncateEffect
  <2>3. len = k * n
    BY <1>3
  <2> HIDE DEF V
  <2> QED BY ONLY <2>2, <2>3
<1>7. SubSeq(frames, 1, k) \o <<>> = SubSeq(frames, 1, k)
  <2>1. k \in 0..Len(frames)
    BY <1>3
  <2> QED BY <1>2, <2>1, FirstFrames, ConcatEmptySeq
<1>8. /\ pc' = "cut" /\ answer' = "none" /\ UNCHANGED <<frames, table>>
      /\ plan'.before = frames /\ plan'.request = request
      /\ plan'.target = SubSeq(frames, 1, k)
  BY <1>1, <1>7 DEF Begin, file
<1> HIDE DEF V
<1>9. request \in Requests
  BY DEF Requests
<1>10. Log!Allowed(request, V)
  BY <1>6 DEF Log!Allowed
<1>11. Contents(plan'.target) \in Log!Effects(request, V)
  BY <1>6, <1>8 DEF Log!Effects, Log!Shortened
<1> QED BY <1>2, <1>8, <1>9, <1>10, <1>11 DEF V

\* Results, kept or planned, are of a frame that holds something.
LEMMA FreshNext ==
  ASSUME TypeOK, EditInv, FreshInv, [Next]_vars
  PROVE  FreshInv'
<1>1. ASSUME UNCHANGED <<pc, plan, prev>> PROVE FreshInv'
  BY <1>1 DEF FreshInv
<1>2. ASSUME NEW given \in Counts \cup {None}, NEW trust \in BOOLEAN,
             NEW passed \in {None, prev}, AppendNothing(given, trust, passed)
      PROVE  FreshInv'
  <2> DEFINE previous == Usable(passed, given)
             validated == ~trust \/ Validated(previous)
  <2>1. PICK n \in RecordsPerFrameToUse(given, trust, previous) :
          prev' = IF previous # None
                  THEN [previous EXCEPT !.records_per_frame = n, !.count_validated = validated]
                  ELSE AppendResult(n, validated, table, last, None, FALSE)
    BY <1>2 DEF AppendNothing
  <2>2. CallerOfAppend(given, trust, passed)
    BY <1>2 DEF AppendNothing
  <2>3. /\ last \in 1..Len(frames)
        /\ previous # None => previous \in Results
    BY <2>2, CountIsTheFiles
  <2>4. Size(frames[last]) > 0
    BY <2>2, LastHasData
  <2>5. /\ pc = "idle" /\ UNCHANGED <<pc, plan>>
        /\ table = Sizes(frames) /\ frames \in Seq(Bytes)
        /\ previous # None => previous = prev
    BY <1>2, <2>2 DEF AppendNothing, CallerOfAppend, EditInv, TableDescribesFile, TypeOK, Usable
  <2>6. table[last] = Size(frames[last])
    BY <2>3, <2>5, SizesOf
  <2> HIDE DEF previous, validated
  <2>7. CASE previous # None
    <3>1. prev' = [previous EXCEPT !.records_per_frame = n, !.count_validated = validated]
      BY <2>1, <2>7
    <3>2. prev'.last_size = previous.last_size
      BY <2>3, <2>7, <3>1 DEF Results
    <3> QED BY <2>5, <2>7, <3>2 DEF FreshInv
  <2>8. CASE previous = None
    <3>1. prev'.last_size = table[last]
      BY <2>1, <2>8 DEF AppendResult
    <3> QED BY <2>4, <2>5, <2>6, <3>1 DEF FreshInv
  <2> QED BY <2>7, <2>8
<1>3. ASSUME NEW data \in Data, NEW insert \in BOOLEAN,
             NEW given \in Counts \cup {None}, NEW trust \in BOOLEAN,
             NEW passed \in {None, prev}, AppendRecords(data, insert, given, trust, passed)
      PROVE  FreshInv'
  <2>1. plan'.result.last_size > 0
    BY <1>3, AppendRecordsKeeps
  <2>2. prev' = prev
    BY <1>3 DEF AppendRecords, Begin, cache
  <2> QED BY <2>1, <2>2 DEF FreshInv
<1>4. CASE AppendCall
  <2>1. PICK insert \in BOOLEAN, trust \in BOOLEAN, given \in Counts \cup {None},
             passed \in {None, prev} :
          \/ AppendNothing(given, trust, passed)
          \/ \E data \in Data :
               \/ AppendRecords(data, insert, given, trust, passed)
               \/ AppendRefused(data, insert, given, trust, passed)
    BY <1>4 DEF AppendCall
  <2> QED BY <1>1, <1>2, <1>3, <2>1 DEF AppendRefused, Refuse, cache
<1>5. ASSUME NEW input, NEW from, NEW cnt, NEW check,
             \/ FramesNothing(input, from, cnt, check)
             \/ AppendFrames(input, from, cnt, check)
             \/ FramesRefused(input, from, cnt, check)
      PROVE  FreshInv'
  <2>1. CASE AppendFrames(input, from, cnt, check)
    <3>1. plan'.result = None /\ prev' = prev
      BY <2>1 DEF AppendFrames, Begin, cache
    <3> QED BY <3>1 DEF FreshInv
  <2> QED BY <1>1, <1>5, <2>1 DEF FramesNothing, FramesRefused, Refuse, cache
<1>6. ASSUME NEW len, Truncate(len) \/ TruncateRefused(len) PROVE FreshInv'
  <2>1. CASE Truncate(len)
    <3>1. plan'.result = None /\ prev' = prev
      BY <2>1 DEF Truncate, Begin, cache
    <3> QED BY <3>1 DEF FreshInv
  <2> QED BY <1>1, <1>6, <2>1 DEF TruncateRefused, Refuse, cache
<1>7. ASSUME NEW from, NEW cnt, NEW align, NEW check,
             CopyRange(from, cnt, align, check) \/ CopyRefused(from, cnt, align, check)
      PROVE  FreshInv'
  BY <1>1, <1>7 DEF CopyRange, CopyRefused, Refuse, cache
<1>8. CASE OpenRefused
  BY <1>1, <1>8 DEF OpenRefused, Refuse, cache
<1>9. CASE Cut \/ WriteFrame
  BY <1>9 DEF Cut, WriteFrame, cache, FreshInv
<1>10. CASE WriteSeekTable
  BY <1>10 DEF WriteSeekTable, cache, FreshInv
<1>11. CASE Fail
  BY <1>11 DEF Fail, cache, FreshInv
<1>12. CASE UNCHANGED vars
  BY <1>1, <1>12 DEF vars, cache
<1> QED BY <1>4, <1>5, <1>6, <1>7, <1>8, <1>9, <1>10, <1>11, <1>12 DEF Next

\* To begin an operation is to ask for its effect.
LEMMA BeginAsks ==
  ASSUME pc = "idle", table # None, pc' = "cut", answer' = "none",
         UNCHANGED <<frames, table>>, plan'.before = frames,
         plan'.request \in Requests, Log!Allowed(plan'.request, Contents(frames)),
         Contents(plan'.target) \in Log!Effects(plan'.request, Contents(frames))
  PROVE  Log!Ask /\ EffectInv'
<1>1. Log!Ask
  BY DEF Log!Ask
<1>2. EffectInv'
  BY DEF EffectInv
<1> QED BY <1>1, <1>2

\* A call that leaves the file as it is: there was nothing to do, or it is refused.
LEMMA CallAnswers ==
  ASSUME pc = "idle", UNCHANGED <<file, pc, plan>>,
         \/ answer' = "ok" /\ table # None
         \/ answer' = "refused"
  PROVE  (Log!Nothing \/ Log!Refuse) /\ EffectInv'
<1>1. UNCHANGED <<frames, table, pc, plan>>
  BY DEF file
<1>2. answer' = "ok" /\ table # None => Log!Nothing
  BY <1>1 DEF Log!Nothing
<1>3. answer' = "refused" => Log!Refuse
  BY <1>1 DEF Log!Refuse
<1>4. EffectInv'
  BY <1>1 DEF EffectInv
<1> QED BY <1>2, <1>3, <1>4

\* Of the writes only the last, that of the table, is seen: the file is then what
\* was asked for.
LEMMA WritesApply ==
  ASSUME TypeOK, EditInv, KeepInv, EffectInv, Cut \/ WriteFrame \/ WriteSeekTable \/ Fail
  PROVE  [Log!Next]_(Log!vars) /\ EffectInv'
<1>1. CASE Cut
  <2>1. /\ pc = "cut" /\ pc' = "write" /\ table' = None /\ table # None
        /\ plan.before = frames /\ plan' = plan /\ answer' = answer
    BY <1>1 DEF Cut, KeepInv, EditInv, OnDisk
  <2>2. UNCHANGED Log!vars
    BY <2>1 DEF Log!vars
  <2>3. EffectInv'
    BY <2>1 DEF EffectInv
  <2> QED BY <2>2, <2>3
<1>2. CASE WriteFrame
  <2>1. /\ pc = "write" /\ pc' = "write" /\ table' = None /\ table = None
        /\ plan' = plan /\ answer' = answer
    BY <1>2 DEF WriteFrame, EditInv, OnDisk
  <2>2. UNCHANGED Log!vars
    BY <2>1 DEF Log!vars
  <2>3. EffectInv'
    BY <2>1 DEF EffectInv
  <2> QED BY <2>2, <2>3
<1>3. CASE WriteSeekTable
  <2>1. /\ pc = "write" /\ pc' = "idle" /\ table = None /\ table' = plan.log
        /\ frames' = frames /\ frames = SubSeq(plan.target, 1, Len(plan.target))
        /\ plan.target \in Seq(Bytes) /\ plan.log = Sizes(plan.target) /\ answer' = "ok"
    BY <1>3 DEF WriteSeekTable, EditInv, Planned, OnDisk
  <2>2. frames' = plan.target
    BY <2>1, SubSeqFull
  <2>3. table' # None
    BY <2>1, SizesOf, NoneAssumption
  <2>4. /\ plan.request \in Requests
        /\ Contents(frames') \in Log!Effects(plan.request, Contents(plan.before))
    BY <2>1, <2>2 DEF EffectInv
  <2>5. Log!Apply
    BY <2>1, <2>3, <2>4, RequestsAssumption DEF Log!Apply
  <2>6. EffectInv'
    BY <2>1 DEF EffectInv
  <2> QED BY <2>5, <2>6 DEF Log!Next
<1>4. CASE Fail
  <2>1. /\ pc # "idle" /\ pc' = "idle" /\ frames' = frames /\ table' = table
        /\ table = None => plan' = plan
        /\ answer' = "failed"
    BY <1>4 DEF Fail, file
  <2>2. plan.request \in Requests
    BY <2>1 DEF EffectInv
  <2>3. Log!Fail
    BY <2>1, <2>2, RequestsAssumption DEF Log!Fail
  <2>4. EffectInv'
    BY <2>1 DEF EffectInv
  <2> QED BY <2>3, <2>4 DEF Log!Next
<1> QED BY <1>1, <1>2, <1>3, <1>4

\* Every step is one of the promised ones, or is not seen.
LEMMA StepIs ==
  ASSUME TypeOK, EditInv, KeepInv, FreshInv, EffectInv, [Next]_vars,
         \A input \in Inputs : Uniform(input)
  PROVE  [Log!Next]_(Log!vars) /\ EffectInv'
<1>1. ASSUME Log!Ask /\ EffectInv' PROVE [Log!Next]_(Log!vars) /\ EffectInv'
  BY <1>1 DEF Log!Next
<1>2. ASSUME (Log!Nothing \/ Log!Refuse) /\ EffectInv'
      PROVE  [Log!Next]_(Log!vars) /\ EffectInv'
  BY <1>2 DEF Log!Next
<1>3. CASE AppendCall
  <2>1. PICK insert \in BOOLEAN, trust \in BOOLEAN, given \in Counts \cup {None},
             passed \in {None, prev} :
          \/ AppendNothing(given, trust, passed)
          \/ \E data \in Data :
               \/ AppendRecords(data, insert, given, trust, passed)
               \/ AppendRefused(data, insert, given, trust, passed)
    BY <1>3 DEF AppendCall
  <2>2. CASE AppendNothing(given, trust, passed)
    <3>1. /\ pc = "idle" /\ table # None /\ answer' = "ok"
          /\ UNCHANGED <<file, pc, plan>>
      BY <2>2 DEF AppendNothing, CallerOfAppend
    <3> QED BY <1>2, <3>1, CallAnswers
  <2>3. ASSUME NEW data \in Data, AppendRecords(data, insert, given, trust, passed)
        PROVE  Log!Ask /\ EffectInv'
    <3>1. /\ pc = "idle" /\ table # None
          /\ pc' = "cut" /\ answer' = "none"
          /\ UNCHANGED <<frames, table>>
          /\ plan'.before = frames
          /\ plan'.request \in Requests
          /\ Log!Allowed(plan'.request, Contents(frames))
          /\ Contents(plan'.target) \in Log!Effects(plan'.request, Contents(frames))
      BY <2>3, AppendRecordsAsked
    <3> QED BY <3>1, BeginAsks
  <2>4. ASSUME NEW data \in Data, AppendRefused(data, insert, given, trust, passed)
        PROVE  (Log!Nothing \/ Log!Refuse) /\ EffectInv'
    <3>1. pc = "idle" /\ answer' = "refused" /\ UNCHANGED <<file, pc, plan>>
      BY <2>4 DEF AppendRefused, CallerOfAppend, Refuse
    <3> QED BY <3>1, CallAnswers
  <2> QED BY <1>1, <1>2, <2>1, <2>2, <2>3, <2>4
<1>4. ASSUME NEW input \in Inputs, NEW from \in Nat, NEW cnt \in Nat \cup {None}, NEW check,
             \/ FramesNothing(input, from, cnt, check)
             \/ AppendFrames(input, from, cnt, check)
             \/ FramesRefused(input, from, cnt, check)
      PROVE  [Log!Next]_(Log!vars) /\ EffectInv'
  <2>1. CASE AppendFrames(input, from, cnt, check)
    <3>1. /\ pc = "idle" /\ table # None
          /\ pc' = "cut" /\ answer' = "none"
          /\ UNCHANGED <<frames, table>>
          /\ plan'.before = frames
          /\ plan'.request \in Requests
          /\ Log!Allowed(plan'.request, Contents(frames))
          /\ Contents(plan'.target) \in Log!Effects(plan'.request, Contents(frames))
      BY <2>1, AppendFramesAsked
    <3>2. Log!Ask /\ EffectInv'
      BY <3>1, BeginAsks
    <3> QED BY <1>1, <3>2
  <2>2. CASE FramesNothing(input, from, cnt, check) \/ FramesRefused(input, from, cnt, check)
    <3>1. /\ pc = "idle" /\ table # None /\ answer' \in {"ok", "refused"}
          /\ UNCHANGED <<file, pc, plan>>
      BY <2>2 DEF FramesNothing, FramesRefused, CallerOfFrames, Refuse
    <3>2. (Log!Nothing \/ Log!Refuse) /\ EffectInv'
      BY <3>1, CallAnswers
    <3> QED BY <1>2, <3>2
  <2> QED BY <1>4, <2>1, <2>2
<1>5. ASSUME NEW len \in Nat, Truncate(len) \/ TruncateRefused(len)
      PROVE  [Log!Next]_(Log!vars) /\ EffectInv'
  <2>1. CASE Truncate(len)
    <3>1. /\ pc = "idle" /\ table # None
          /\ pc' = "cut" /\ answer' = "none"
          /\ UNCHANGED <<frames, table>>
          /\ plan'.before = frames
          /\ plan'.request \in Requests
          /\ Log!Allowed(plan'.request, Contents(frames))
          /\ Contents(plan'.target) \in Log!Effects(plan'.request, Contents(frames))
      BY <2>1, TruncateAsked
    <3>2. Log!Ask /\ EffectInv'
      BY <3>1, BeginAsks
    <3> QED BY <1>1, <3>2
  <2>2. CASE TruncateRefused(len)
    <3>1. pc = "idle" /\ answer' = "refused" /\ UNCHANGED <<file, pc, plan>>
      BY <2>2 DEF TruncateRefused, Refuse
    <3>2. (Log!Nothing \/ Log!Refuse) /\ EffectInv'
      BY <3>1, CallAnswers
    <3> QED BY <1>2, <3>2
  <2> QED BY <1>5, <2>1, <2>2
<1>6. ASSUME NEW from, NEW cnt, NEW align, NEW check,
             CopyRange(from, cnt, align, check) \/ CopyRefused(from, cnt, align, check)
      PROVE  [Log!Next]_(Log!vars) /\ EffectInv'
  <2>1. /\ pc = "idle" /\ table # None /\ answer' \in {"ok", "refused"}
        /\ UNCHANGED <<file, pc, plan>>
    BY <1>6 DEF CopyRange, CopyRefused, Refuse
  <2>2. (Log!Nothing \/ Log!Refuse) /\ EffectInv'
    BY <2>1, CallAnswers
  <2> QED BY <1>2, <2>2
<1>7. CASE OpenRefused
  <2>1. pc = "idle" /\ answer' = "refused" /\ UNCHANGED <<file, pc, plan>>
    BY <1>7 DEF OpenRefused, Refuse
  <2>2. (Log!Nothing \/ Log!Refuse) /\ EffectInv'
    BY <2>1, CallAnswers
  <2> QED BY <1>2, <2>2
<1>8. CASE Cut \/ WriteFrame \/ WriteSeekTable \/ Fail
  BY <1>8, WritesApply
<1>9. CASE UNCHANGED vars
  <2>1. UNCHANGED <<frames, table, pc, plan, answer>>
    BY <1>9 DEF vars, file
  <2>2. UNCHANGED Log!vars
    BY <2>1 DEF Log!vars
  <2>3. EffectInv'
    BY <2>1 DEF EffectInv
  <2> QED BY <2>2, <2>3
<1>10. 0..MaxSize \subseteq Nat
  BY BoundAssumption
<1> QED BY <1>3, <1>4, <1>5, <1>6, <1>7, <1>8, <1>9, <1>10 DEF Next

LEMMA AskedInitially == Init => Log!Init /\ FreshInv /\ EffectInv
<1> SUFFICES ASSUME Init PROVE Log!Init /\ FreshInv /\ EffectInv
  OBVIOUS
<1>1. frames \in Files /\ table = Sizes(frames) /\ pc = "idle" /\ prev = None /\ answer = "none"
  BY DEF Init
<1>2. table # None
  BY <1>1, FilesAssumption, SizesOf, NoneAssumption
<1>3. Log!Init
  BY <1>1, <1>2 DEF Log!Init
<1>4. FreshInv /\ EffectInv
  BY <1>1 DEF FreshInv, EffectInv
<1> QED BY <1>3, <1>4

\* What the editing operations of src/src/edit.rs promise (RecordLog): each changes
\* the records by the effect it was asked for, in one step, the write of the new
\* table, or not at all, whatever is called, fails or is interrupted in between.
\* The inputs append_frames copies from have to be uniform: it tells where their
\* records are by dividing.
THEOREM EditsImplementLog ==
  ASSUME \A input \in Inputs : Uniform(input)
  PROVE  Spec => EditsAreAtomic
<1>1. Init => Log!Init /\ FreshInv /\ EffectInv /\ KeepInv
  BY AskedInitially, KeepInitially
<1>2. TypeOK /\ EditInv /\ KeepInv /\ FreshInv /\ EffectInv /\ [Next]_vars
        => KeepInv' /\ FreshInv' /\ EffectInv' /\ [Log!Next]_(Log!vars)
  BY KeepNext, FreshNext, StepIs
<1> QED BY <1>1, <1>2, Invariance, PTL DEF Spec, EditsAreAtomic, Log!Spec

\* A range of some records, or to the end, takes a frame.
LEMMA RangeTakesFrames ==
  ASSUME NEW fs, NEW n \in Nat \ {0}, LastDataFrame(fs) \in Nat, NEW from \in Nat,
         NEW cnt \in Nat \cup {None}, cnt # 0, NEW range \in FrameRange(fs, n, from, cnt)
  PROVE  range.first < range.past
<1> DEFINE end == LastDataFrame(fs)
           k == from \div n
           q == (from + cnt) \div n
<1>1. /\ from % n = 0 /\ k + 1 <= end
      /\ \/ /\ cnt # None /\ (from + cnt) % n = 0
            /\ range = [first |-> k + 1, past |-> q + 1, toEnd |-> FALSE]
         \/ range = [first |-> k + 1, past |-> end + 1, toEnd |-> TRUE]
  BY DEF FrameRange
<1>2. k \in Nat /\ k * n = from
  BY <1>1, Exactly
<1>3. CASE range = [first |-> k + 1, past |-> end + 1, toEnd |-> TRUE]
  <2>1. range.first = k + 1 /\ range.past = end + 1
    BY <1>3
  <2> HIDE DEF k
  <2> QED BY <1>1, <1>2, <2>1
<1>4. CASE /\ cnt # None /\ (from + cnt) % n = 0
           /\ range = [first |-> k + 1, past |-> q + 1, toEnd |-> FALSE]
  <2>1. cnt \in Nat /\ cnt > 0 /\ from + cnt \in Nat
    BY <1>4
  <2>2. q \in Nat /\ q * n = from + cnt
    BY <1>4, <2>1, Exactly
  <2>3. range.first = k + 1 /\ range.past = q + 1
    BY <1>4
  <2> HIDE DEF k, q
  <2>4. ~(q < k)
    <3> SUFFICES ASSUME q < k PROVE FALSE
      OBVIOUS
    <3>1. q * n + n <= k * n
      BY <1>2, <2>2, MultipleGrows
    <3> DEFINE x == q * n
               y == k * n
    <3>2. x + n <= y /\ x = from + cnt /\ y = from
      BY <1>2, <2>2, <3>1
    <3> HIDE DEF x, y
    <3> QED BY <2>1, <3>2
  <2>5. q # k
    <3> SUFFICES ASSUME q = k PROVE FALSE
      OBVIOUS
    <3>1. from + cnt = from
      BY <1>2, <2>2
    <3> QED BY <2>1, <3>1
  <2> QED BY <1>2, <2>2, <2>3, <2>4, <2>5
<1> QED BY <1>1, <1>3, <1>4

\* What copy_range writes is the range, and a file of its own: uniform, and where
\* alignment is required with the count in its last frame too.
LEMMA CopyHolds ==
  ASSUME TypeOK, EditInv, NEW from \in Nat, NEW cnt \in Nat \cup {None},
         NEW align, NEW check, CopyRange(from, cnt, align, check)
  PROVE  /\ Contents(copied'.frames) = RangeOf(frames, copied'.from, copied'.cnt)
         /\ Uniform(copied'.frames)
         /\ copied'.align = "Required" =>
              \A i \in DOMAIN copied'.frames : Count(copied'.frames, i) = Count(frames, 1)
<1>1. PICK n \in RecordsPerFrame(frames, check) : \E range \in FrameRange(frames, n, from, cnt) :
        /\ cnt # 0
        /\ range.toEnd /\ align = "Required" => Count(frames, last) = n
        /\ copied' = [from |-> from, cnt |-> cnt, align |-> align,
                      frames |-> SubSeq(frames, range.first, range.past - 1)]
  BY DEF CopyRange, FramesToCopy
<1>2. PICK range \in FrameRange(frames, n, from, cnt) :
        /\ cnt # 0
        /\ range.toEnd /\ align = "Required" => Count(frames, last) = n
        /\ copied' = [from |-> from, cnt |-> cnt, align |-> align,
                      frames |-> SubSeq(frames, range.first, range.past - 1)]
  BY <1>1
<1>3. frames \in Seq(Bytes) /\ Uniform(frames)
  BY DEF CopyRange, TypeOK, EditInv, UniformFile
<1>4. /\ frames # <<>> /\ Full(frames, Count(frames, 1))
      /\ \A j \in 2..Len(frames) : Count(frames, j) <= Count(frames, 1)
  BY <1>3, UniformTells
<1>5. /\ Len(frames) \in Nat \ {0} /\ DOMAIN frames = 1..Len(frames)
      /\ last \in 1..Len(frames) /\ last = LastDataFrame(frames)
  BY <1>3, <1>4, EmptySeq, LenProperties, LastExists DEF last
<1>6. n = Count(frames, 1) /\ Whole(frames[1])
  BY <1>1 DEF RecordsPerFrame
<1>7. n \in Nat \ {0}
  <2>1. frames[1] \in Bytes
    BY <1>3, <1>5, ElementOfSeq
  <2>2. frames[1].recs # <<>> /\ frames[1].recs \in Seq(Ids \cup {Sealed, Merged})
    BY <1>6, <2>1 DEF Whole, Bytes
  <2> QED BY <1>6, <2>2, EmptySeq, LenProperties DEF Count
<1>8. range.first < range.past
  BY <1>2, <1>5, <1>7, RangeTakesFrames
<1> DEFINE copy == SubSeq(frames, range.first, range.past - 1)
<1>9. Full(frames, n)
  BY <1>4, <1>6
<1>10. /\ Contents(copy) = RangeOf(frames, from, cnt)
       /\ range.first \in 1..last
       /\ range.past \in (range.first + 1)..(last + 1)
       /\ range.past = last + 1 => range.toEnd
       /\ copy \in Seq(Bytes)
       /\ Len(copy) = range.past - range.first
       /\ \A j \in 1..(range.past - range.first) : copy[j] = frames[range.first + j - 1]
  <2>1. range \in FrameRange(frames, n, from, cnt) /\ last = LastDataFrame(frames)
        /\ frames \in Seq(Bytes) /\ frames # <<>> /\ n \in Nat \ {0}
        /\ from \in Nat /\ cnt \in Nat \cup {None}
    BY <1>2, <1>3, <1>4, <1>5, <1>7
  <2>2. copy = SubSeq(frames, range.first, range.past - 1)
    OBVIOUS
  <2> HIDE DEF copy
  <2> QED BY ONLY <2>1, <2>2, <1>8, <1>9, RangeIsRecords
<1>11. /\ copied'.frames = copy /\ copied'.from = from /\ copied'.cnt = cnt
       /\ copied'.align = align
  BY <1>2
<1> HIDE DEF copy
<1>12. PICK first, past : first = range.first /\ past = range.past
  OBVIOUS
<1>13. /\ first \in Nat /\ past \in Nat
       /\ 1 <= first /\ first < past /\ past <= last + 1
       /\ Len(copy) = past - first
       /\ \A j \in 1..(past - first) : copy[j] = frames[first + j - 1]
  <2>1. first \in 1..last /\ past \in (first + 1)..(last + 1)
    BY <1>10, <1>12
  <2>2. first \in Nat /\ past \in Nat /\ 1 <= first /\ first < past /\ past <= last + 1
    BY <1>5, <2>1
  <2> QED BY <1>10, <1>12, <2>2
<1>14. copy # <<>> /\ DOMAIN copy = 1..(past - first)
  BY <1>5, <1>10, <1>13, EmptySeq, LenProperties
<1>15. \A j \in 1..(past - first) : Count(copy, j) = Count(frames, first + j - 1)
  BY <1>13 DEF Count
<1>16. \A i \in 1..(last - 1) : Count(frames, i) = n /\ ~frames[i].part
  BY <1>5, <1>9 DEF Full
<1>17. Uniform(copy)
  <2>1. ASSUME NEW j \in 1..(Len(copy) - 1) PROVE Count(copy, j) = n /\ ~copy[j].part
    <3>1. j \in 1..(past - first) /\ first + j - 1 \in 1..(last - 1)
      BY <1>5, <1>13
    <3> QED BY <1>13, <1>15, <1>16, <3>1
  <2>2. Count(copy, Len(copy)) <= n
    <3>1. Len(copy) \in 1..(past - first) /\ first + Len(copy) - 1 = past - 1
          /\ past - 1 \in 1..Len(frames)
      BY <1>5, <1>13
    <3>2. Count(copy, Len(copy)) = Count(frames, past - 1)
      BY <1>15, <3>1
    <3>3. past - 1 = 1 \/ past - 1 \in 2..Len(frames)
      BY <1>5, <1>13, <3>1
    <3> QED BY <1>4, <1>6, <1>7, <3>2, <3>3
  <2> QED BY <1>7, <1>10, <1>14, <2>1, <2>2, UniformIf
<1>18. ASSUME align = "Required", NEW j \in 1..(past - first)
       PROVE  Count(copy, j) = n
  <2>1. first + j - 1 \in 1..(last - 1) \/ (first + j - 1 = last /\ past = last + 1)
    BY <1>5, <1>13
  <2>2. past = last + 1 => Count(frames, last) = n
    BY <1>2, <1>10, <1>12, <1>18
  <2> QED BY <1>15, <1>16, <2>1, <2>2
<1> QED BY <1>6, <1>10, <1>11, <1>14, <1>17, <1>18

\* A copy (copy_range, src/src/edit.rs) holds the records of the range it was asked
\* for, is uniform, and where alignment is required holds the count in every frame:
\* for every file, range and check there is.
THEOREM CopiesAreTheRange == Spec => CopyIsTheRange
<1>1. TypeOK /\ EditInv /\ [Next]_vars
        => [copied' # copied =>
              LET copy == copied' IN
              /\ Contents(copy.frames) = RangeOf(frames, copy.from, copy.cnt)
              /\ Uniform(copy.frames)
              /\ copy.align = "Required" =>
                   \A i \in DOMAIN copy.frames : Count(copy.frames, i) = Count(frames, 1)]_vars
  <2> SUFFICES ASSUME TypeOK, EditInv, Next, copied' # copied
               PROVE  /\ Contents(copied'.frames) = RangeOf(frames, copied'.from, copied'.cnt)
                      /\ Uniform(copied'.frames)
                      /\ copied'.align = "Required" =>
                           \A i \in DOMAIN copied'.frames :
                             Count(copied'.frames, i) = Count(frames, 1)
    BY DEF vars
  <2>1. ~AppendCall
    <3>1. ASSUME NEW data, NEW insert, NEW given, NEW trust, NEW passed
          PROVE  /\ ~AppendNothing(given, trust, passed)
                 /\ ~AppendRecords(data, insert, given, trust, passed)
                 /\ ~AppendRefused(data, insert, given, trust, passed)
      BY DEF AppendNothing, AppendRecords, AppendRefused, Begin, Refuse
    <3> QED BY <3>1 DEF AppendCall
  <2>2. ASSUME NEW input, NEW from, NEW cnt, NEW check
        PROVE  /\ ~FramesNothing(input, from, cnt, check)
               /\ ~AppendFrames(input, from, cnt, check)
               /\ ~FramesRefused(input, from, cnt, check)
    BY DEF FramesNothing, AppendFrames, FramesRefused, Begin, Refuse
  <2>3. ASSUME NEW len PROVE ~Truncate(len) /\ ~TruncateRefused(len)
    BY DEF Truncate, TruncateRefused, Begin, Refuse
  <2>4. ~OpenRefused /\ ~Cut /\ ~WriteFrame /\ ~WriteSeekTable /\ ~Fail
    BY DEF OpenRefused, Refuse, Cut, WriteFrame, WriteSeekTable, Fail
  <2>5. ASSUME NEW from, NEW cnt, NEW align, NEW check
        PROVE  ~CopyRefused(from, cnt, align, check)
    BY DEF CopyRefused, Refuse
  <2>6. PICK from \in 0..MaxSize, cnt \in 0..MaxSize \cup {None},
             align \in {"Required", "NotRequired"}, check \in {"FirstFrame", "TwoFrames"} :
          CopyRange(from, cnt, align, check)
    BY <2>1, <2>2, <2>3, <2>4, <2>5 DEF Next
  <2>7. from \in Nat /\ cnt \in Nat \cup {None}
    BY <2>6, BoundAssumption
  <2> QED BY <2>6, <2>7, CopyHolds
<1> QED BY <1>1, Invariance, PTL DEF Spec, CopyIsTheRange

-------------------------------------------------------------------------------
(***************************************************************************)
(* Where a reader looks for a record                                       *)
(***************************************************************************)
\* What follows q frames of n each lies in them as it lies behind q * n records.
LEMMA RecordInFrame ==
  ASSUME NEW fs \in Seq(Bytes), fs # <<>>, NEW n \in Nat \ {0}, Full(fs, n),
         NEW q \in 0..(LastDataFrame(fs) - 1),
         NEW r \in 0..(Count(fs, q + 1) - 1)
  PROVE  /\ q * n + r + 1 \in 1..Len(Contents(fs).recs)
         /\ Contents(fs).recs[q * n + r + 1] = fs[q + 1].recs[r + 1]
<1> DEFINE all == Contents(fs).recs
           end == LastDataFrame(fs)
           front == Contents(SubSeq(fs, 1, q))
           held == Contents(SubSeq(fs, 1, q + 1))
           f == fs[q + 1]
           m == q * n
<1>1. /\ end \in 1..Len(fs) /\ Len(fs) \in Nat /\ DOMAIN fs = 1..Len(fs)
      /\ Contents(fs) \in Bytes /\ Contents(SubSeq(fs, 1, end)) = Contents(fs)
  BY ContentsOfUniform, LenProperties
<1> HIDE DEF end
<1>2. q \in Nat /\ q + 1 \in 1..Len(fs) /\ q \in 0..Len(fs) /\ q <= end - 1
  BY <1>1 DEF end
<1>3. f \in Bytes /\ Count(fs, q + 1) \in Nat /\ Len(f.recs) = Count(fs, q + 1)
  BY <1>1, <1>2, FrameOf DEF Count
<1>4. \A i \in 1..(end - 1) : Count(fs, i) = n /\ fs[i].part = FALSE
  <2>1. \A i \in 1..(end - 1) : fs[i] \in Bytes
    BY <1>1, ElementOfSeq
  <2> QED BY <2>1 DEF Full, Bytes, end
<1>5. front \in Bytes /\ front.part = FALSE /\ Len(front.recs) = m /\ m \in Nat
  <2>1. \A i \in 1..q : Count(fs, i) = n /\ fs[i].part = FALSE
    BY <1>1, <1>2, <1>4
  <2>2. m \in Nat
    BY <1>2, Multiple
  <2> QED BY <1>2, <2>1, <2>2, ContentsOfFull
<1>6. held = Join(front, f)
  BY <1>2, ContentsOneMore
<1>7. held.recs = front.recs \o f.recs
  <2>1. Join(front, f).recs = front.recs \o f.recs
    BY <1>3, <1>5, JoinAfterWhole
  <2> HIDE DEF front, f, held
  <2> QED BY <1>6, <2>1
<1>8. front.recs \in Seq(Units) /\ f.recs \in Seq(Units) /\ all \in Seq(Units)
  BY <1>1, <1>3, <1>5 DEF Bytes, Units
<1>9. /\ Len(held.recs) = m + Len(f.recs)
      /\ \A j \in 1..(m + Len(f.recs)) : j > m => held.recs[j] = f.recs[j - m]
  <2> DEFINE g == front.recs
             h == f.recs
  <2>1. Len(g) = m /\ g \in Seq(Units) /\ h \in Seq(Units)
    BY <1>5, <1>8
  <2> HIDE DEF g, h
  <2>2. /\ Len(g \o h) = Len(g) + Len(h)
        /\ \A j \in 1..(Len(g) + Len(h)) :
             (g \o h)[j] = IF j <= Len(g) THEN g[j] ELSE h[j - Len(g)]
    BY <2>1, ConcatProperties
  <2>3. \A j \in 1..(m + Len(h)) : j > m => (g \o h)[j] = h[j - m]
    BY <1>5, <2>1, <2>2, LenProperties
  <2> QED BY <1>7, <2>1, <2>2, <2>3 DEF g, h
<1>10. Len(held.recs) <= Len(all) /\ \A j \in 1..Len(held.recs) : held.recs[j] = all[j]
  <2>1. CASE q + 1 = end
    BY <1>1, <1>8, <2>1, LenProperties
  <2>2. CASE q + 1 # end
    <3>1. q + 1 \in 1..(end - 1) /\ q + 1 \in 0..Len(fs)
      BY <1>1, <1>2, <2>2
    <3>2. \A i \in 1..(q + 1) : Count(fs, i) = n /\ fs[i].part = FALSE
      BY <1>1, <1>4, <3>1
    <3>3. held.recs = SubSeq(all, 1, (q + 1) * n) /\ (q + 1) * n <= Len(all)
      BY <3>1, <3>2, ContentsOfFirst
    <3> DEFINE t == (q + 1) * n
    <3>4. t \in Nat /\ t <= Len(all) /\ held.recs = SubSeq(all, 1, t) /\ Len(all) \in Nat
      BY <1>2, <1>8, <3>3, Multiple, LenProperties
    <3> HIDE DEF t, all
    <3>5. \A j \in 1..t : all[j] \in Units
      BY <1>8, <3>4, ElementOfSeq
    <3>6. Len(SubSeq(all, 1, t)) = t /\ \A j \in 1..t : SubSeq(all, 1, t)[j] = all[j]
      BY <3>4, <3>5, SubSeqProperties
    <3> QED BY <3>4, <3>6
  <2> QED BY <2>1, <2>2
<1> HIDE DEF m, f, held, all
<1>11. r \in Nat /\ r < Len(f.recs) /\ Len(f.recs) \in Nat /\ Len(all) \in Nat
  BY <1>3, <1>8, LenProperties DEF f
<1>12. /\ m + r + 1 \in 1..(m + Len(f.recs)) /\ m + r + 1 > m /\ (m + r + 1) - m = r + 1
       /\ m + r + 1 \in 1..Len(all)
  BY <1>5, <1>9, <1>10, <1>11
<1>13. held.recs[m + r + 1] = f.recs[r + 1]
  BY <1>9, <1>12
<1>14. all[m + r + 1] = f.recs[r + 1]
  BY <1>9, <1>10, <1>12, <1>13
<1> QED BY <1>12, <1>14 DEF m, f, all

\* Division by the count gives the number of whole frames before a record, and
\* the remainder is its place in its frame.
LEMMA Placing ==
  ASSUME NEW n \in Nat \ {0}, NEW i \in Nat, NEW e \in Nat, NEW h \in Nat, NEW L \in Nat,
         e < L, i < e * n + h, h <= n
  PROVE  /\ i \div n \in 0..e
         /\ i # n * L
         /\ i - (i \div n) * n \in 0..(n - 1)
         /\ i \div n = e => i - e * n < h
<1> DEFINE q == i \div n
           r == i % n
<1>1. q \in Nat /\ r \in 0..(n - 1) /\ i = q * n + r
  <2>1. q \in Nat
    OBVIOUS
  <2>2. r \in 0..(n - 1)
    OBVIOUS
  <2>3. i = q * n + r
    OBVIOUS
  <2> QED BY <2>1, <2>2, <2>3
<1> DEFINE low == q * n
           top == e * n
           all == L * n
<1>2. low \in Nat /\ top \in Nat /\ all \in Nat /\ n * L = all
  BY <1>1, Multiple
<1>3. ASSUME e < q PROVE FALSE
  <2>1. top + n <= low
    BY <1>1, <1>3, MultipleGrows
  <2> HIDE DEF low, top, q, r
  <2> QED BY <1>1, <1>2, <2>1 DEF low, top
<1>4. top + n <= all
  BY MultipleGrows
<1> HIDE DEF low, top, all, q, r
<1>5. i = low + r /\ i < top + h
  BY <1>1 DEF low, top
<1>6. i # all
  BY <1>2, <1>4, <1>5
<1>7. q \in 0..e
  BY <1>1, <1>3
<1>8. i - low \in 0..(n - 1)
  BY <1>1, <1>2, <1>5
<1>9. q = e => low = top
  BY DEF low, top
<1>10. q = e => i - top < h
  BY <1>2, <1>5
<1> QED BY <1>2, <1>6, <1>7, <1>8, <1>10 DEF low, top, q

\* Every record of a uniform file is where dividing by the count of frame 0 puts
\* it, the fragment at the end too unless a frame of nothing is taken for its own.
LEMMA FoundByDivision ==
  ASSUME NEW fs \in Seq(Bytes), Uniform(fs), Count(fs, 1) > 0,
         NEW i \in 0..(Size(Contents(fs)) - 1), ~FragmentMislaid(fs, i)
  PROVE  LET all == Contents(fs)
             place == Placed(fs, i)
             held == fs[place.frame]
         IN /\ place.frame \in DOMAIN fs
            /\ IF i = Len(all.recs) THEN place.skip = Len(held.recs) /\ held.part
               ELSE place.skip < Len(held.recs) /\ held.recs[place.skip + 1] = all.recs[i + 1]
<1> DEFINE all == Contents(fs)
           end == LastDataFrame(fs)
           n == Count(fs, 1)
           h == Count(fs, end)
           L == Len(fs)
           e == end - 1
           q == i \div n
           place == Placed(fs, i)
<1>1. /\ fs # <<>> /\ Full(fs, n)
      /\ \A j \in 2..L : Count(fs, j) <= n
  BY UniformTells
<1>2. L \in Nat \ {0} /\ DOMAIN fs = 1..L
  BY <1>1, EmptySeq, LenProperties
<1>3. n \in Nat \ {0}
  BY <1>2, FrameOf
<1>4. /\ end \in 1..L /\ all \in Bytes /\ Len(all.recs) = e * n + h
      /\ all.part = fs[end].part
  BY <1>1, <1>3, ContentsOfUniform
<1>5. e \in Nat /\ e < L /\ end = e + 1 /\ h \in Nat /\ h <= n
  <2>1. h \in Nat
    BY <1>2, <1>4, FrameOf
  <2>2. end = 1 \/ end \in 2..L
    BY <1>4, <1>2
  <2>3. h <= n
    <3>1. CASE end = 1
      BY <1>3, <3>1
    <3>2. CASE end \in 2..L
      BY <1>1, <3>2
    <3> QED BY <2>2, <3>1, <3>2
  <2>4. e \in Nat /\ e < L /\ end = e + 1
    <3> HIDE DEF end, L
    <3> QED BY <1>2, <1>4
  <2> QED BY <2>1, <2>3, <2>4
<1>6. i \in Nat /\ (i < Len(all.recs) \/ (i = Len(all.recs) /\ all.part))
  <2>1. Size(all) \in Nat /\ Len(all.recs) \in Nat /\ Size(all) <= Len(all.recs) + 1
        /\ (~all.part => Size(all) = Len(all.recs))
    BY <1>4, SizeOf
  <2> HIDE DEF all
  <2>2. i \in 0..(Size(all) - 1)
    BY DEF all
  <2> QED BY <2>1, <2>2
<1>7. place = [frame |-> IF i = n * L THEN L ELSE q + 1,
               skip |-> i - ((IF i = n * L THEN L ELSE q + 1) - 1) * n]
  BY DEF Placed
<1> HIDE DEF all, end, n, h, L, e, place
<1>8. CASE i < Len(all.recs)
  <2>1. i < e * n + h
    BY <1>4, <1>8
  <2>2. q \in 0..e /\ i # n * L /\ i - q * n \in 0..(n - 1) /\ (q = e => i - e * n < h)
    BY <1>2, <1>3, <1>5, <1>6, <2>1, Placing
  <2>3. q \in Nat /\ q + 1 \in 1..L /\ (q + 1) - 1 = q
    BY <1>2, <1>5, <2>2
  <2>4. place.frame = q + 1 /\ place.skip = i - q * n
    BY <1>7, <2>2, <2>3
  <2> DEFINE r == i - q * n
  <2>5. r \in 0..(Count(fs, q + 1) - 1) /\ q \in 0..(LastDataFrame(fs) - 1)
    <3>1. CASE q = e
      BY <1>5, <2>2, <3>1 DEF h, end
    <3>2. CASE q # e
      <4>1. q + 1 \in 1..(end - 1)
        BY <1>5, <2>2, <2>3, <3>2
      <4>2. Count(fs, q + 1) = n
        BY <1>1, <4>1 DEF Full, end
      <4> QED BY <1>5, <2>2, <4>1, <4>2 DEF end
    <3> QED BY <3>1, <3>2
  <2>6. q * n \in Nat /\ q * n + r + 1 = i + 1
    BY <1>3, <1>6, <2>3, Multiple
  <2>7. all.recs[q * n + r + 1] = fs[q + 1].recs[r + 1]
    BY <1>1, <1>3, <2>5, RecordInFrame DEF all
  <2>8. r < Len(fs[q + 1].recs)
    <3>1. Count(fs, q + 1) \in Nat
      BY <1>2, <2>3, FrameOf
    <3> HIDE DEF r
    <3> QED BY <2>5, <3>1 DEF Count
  <2>9. Len(all.recs) # i
    BY <1>4, <1>5, <1>8
  <2> QED BY <1>2, <2>3, <2>4, <2>6, <2>7, <2>8, <2>9 DEF place, all
<1>9. CASE i = Len(all.recs) /\ all.part
  <2>1. i = e * n + h /\ fs[end].part
    BY <1>4, <1>9
  <2>2. h = n => end = L
    BY <1>2, <1>4, <1>9 DEF FragmentMislaid, all, h, n, end, L
  <2>3. CASE h = n
    <3>1. n * L = e * n + n
      <4>1. L = e + 1
        BY <1>5, <2>2, <2>3
      <4>2. n * (e + 1) = e * n + n
        BY <1>3, <1>5
      <4> QED BY <4>1, <4>2
    <3>2. i = n * L
      BY <2>1, <2>3, <3>1
    <3>3. place.frame = L /\ place.skip = i - (L - 1) * n
      BY <1>7, <3>2
    <3>4. L = end /\ L - 1 = e
      BY <1>2, <1>5, <2>2, <2>3
    <3>5. place.skip = h
      <4> DEFINE low == e * n
      <4>1. low \in Nat /\ i = low + h /\ place.skip = i - low
        BY <1>3, <1>5, <2>1, <3>3, <3>4, Multiple
      <4> HIDE DEF low
      <4> QED BY <1>5, <4>1
    <3> QED BY <1>2, <1>9, <2>1, <3>3, <3>4, <3>5 DEF place, all, h, Count
  <2>4. CASE h < n
    <3>1. i < e * n + (h + 1) /\ h + 1 \in Nat /\ h + 1 <= n
      <4> DEFINE low == e * n
      <4>1. low \in Nat /\ i = low + h
        BY <1>3, <1>5, <2>1, Multiple
      <4> HIDE DEF low
      <4>2. i < low + (h + 1) /\ h + 1 \in Nat /\ h + 1 <= n
        BY <1>3, <1>5, <2>4, <4>1
      <4> QED BY <4>2 DEF low
    <3>2. q \in 0..e /\ i # n * L
      BY <1>2, <1>3, <1>5, <1>6, <3>1, Placing
    <3>3. q = e
      <4> SUFFICES ASSUME q < e PROVE FALSE
        BY <1>5, <3>2
      <4>1. i - q * n \in 0..(n - 1)
        BY <1>2, <1>3, <1>5, <1>6, <3>1, Placing
      <4>2. q * n + n <= e * n
        BY <1>3, <1>5, <3>2, MultipleGrows
      <4> DEFINE low == q * n
                 top == e * n
      <4>3. /\ low \in Nat /\ top \in Nat /\ i = top + h
            /\ i - low \in 0..(n - 1) /\ low + n <= top
        BY <1>3, <1>5, <2>1, <3>2, <4>1, <4>2, Multiple
      <4> HIDE DEF low, top
      <4> QED BY <1>3, <1>5, <1>6, <4>3
    <3>4. place.frame = e + 1 /\ place.skip = i - ((e + 1) - 1) * n
      BY <1>7, <3>2, <3>3
    <3>5. place.skip = h
      <4> DEFINE low == e * n
      <4>0. (e + 1) - 1 = e
        BY <1>5
      <4>1. low \in Nat /\ i = low + h /\ place.skip = i - low
        BY <1>3, <1>5, <2>1, <3>4, <4>0, Multiple
      <4> HIDE DEF low
      <4> QED BY <1>5, <4>1
    <3> QED BY <1>2, <1>4, <1>5, <1>9, <2>1, <3>4, <3>5 DEF place, all, h, Count
  <2> QED BY <1>3, <1>5, <2>3, <2>4
<1> QED BY <1>6, <1>8, <1>9

\* The total is right where the last frame holds something.
LEMMA TotalByLast ==
  ASSUME NEW fs \in Seq(Bytes), Uniform(fs), Count(fs, 1) > 0, Size(fs[Len(fs)]) > 0
  PROVE  TotalRecords(fs) = Size(Contents(fs))
<1> DEFINE n == Count(fs, 1)
           L == Len(fs)
           all == Contents(fs)
<1>1. fs # <<>> /\ Full(fs, n)
  BY UniformTells
<1>2. L \in Nat \ {0} /\ DOMAIN fs = 1..L
  BY <1>1, EmptySeq, LenProperties
<1>3. n \in Nat \ {0} /\ Count(fs, L) \in Nat
  BY <1>2, FrameOf
<1>4. LastDataFrame(fs) = L
  <2>1. L \in DOMAIN fs /\ \A j \in DOMAIN fs : ~(j > L)
    BY <1>2
  <2> QED BY <2>1, LastIs
<1>5. Len(all.recs) = (L - 1) * n + Count(fs, L) /\ all.part = fs[L].part
  BY <1>1, <1>3, <1>4, ContentsOfUniform
<1>6. n * (L - 1) = (L - 1) * n /\ (L - 1) * n \in Nat
  BY <1>2, <1>3, Multiple
<1>7. TotalRecords(fs) = n * (L - 1) + Size(fs[L])
  BY DEF TotalRecords
<1>8. Size(fs[L]) = Count(fs, L) + (IF fs[L].part THEN 1 ELSE 0)
  BY DEF Size, Count
<1>9. Size(all) = Len(all.recs) + (IF all.part THEN 1 ELSE 0)
  BY DEF Size
<1> DEFINE low == (L - 1) * n
<1> HIDE DEF n, L, all, low
<1>10. /\ low \in Nat /\ Len(all.recs) = low + Count(fs, L)
       /\ TotalRecords(fs) = low + Size(fs[L])
  BY <1>5, <1>6, <1>7 DEF low
<1>11. Size(all) = low + Count(fs, L) + (IF fs[L].part THEN 1 ELSE 0)
  BY <1>5, <1>9, <1>10
<1>12. (IF fs[L].part THEN 1 ELSE 0) \in Nat
  OBVIOUS
<1>13. TotalRecords(fs) = Size(all)
  BY <1>3, <1>8, <1>10, <1>11, <1>12
<1> QED BY <1>13 DEF all

\* What edit.rs leaves, reader.rs finds: whatever was appended, copied or truncated,
\* every record of a file that can be opened is where division by the count of
\* frame 0 (records_request) puts it, and total_records counts them all.
THEOREM RecordsAreAddressed == Spec => []AddressedByDivision
<1>1. TypeOK /\ EditInv => AddressedByDivision
  <2> SUFFICES ASSUME TypeOK, EditInv, table # None, Count(frames, 1) > 0
               PROVE  LET all == Contents(frames) IN
                      /\ Size(frames[Len(frames)]) > 0 => TotalRecords(frames) = Size(all)
                      /\ \A i \in 0..(Size(all) - 1) : ~FragmentMislaid(frames, i) =>
                           LET place == Placed(frames, i)
                               held  == frames[place.frame]
                           IN /\ place.frame \in DOMAIN frames
                              /\ IF i = Len(all.recs)
                                 THEN place.skip = Len(held.recs) /\ held.part
                                 ELSE /\ place.skip < Len(held.recs)
                                      /\ held.recs[place.skip + 1] = all.recs[i + 1]
    BY DEF AddressedByDivision
  <2>1. frames \in Seq(Bytes) /\ Uniform(frames)
    BY DEF TypeOK, EditInv, UniformFile
  <2>2. Size(frames[Len(frames)]) > 0 => TotalRecords(frames) = Size(Contents(frames))
    BY <2>1, TotalByLast
  <2>3. \A i \in 0..(Size(Contents(frames)) - 1) : ~FragmentMislaid(frames, i) =>
          LET place == Placed(frames, i)
              held  == frames[place.frame]
          IN /\ place.frame \in DOMAIN frames
             /\ IF i = Len(Contents(frames).recs)
                THEN place.skip = Len(held.recs) /\ held.part
                ELSE /\ place.skip < Len(held.recs)
                     /\ held.recs[place.skip + 1] = Contents(frames).recs[i + 1]
    BY <2>1, FoundByDivision
  <2> QED BY <2>2, <2>3
<1> QED BY <1>1, Invariance, PTL
===============================================================================
