----------------------------- MODULE CompressProofs ----------------------------
(***************************************************************************)
(* Proofs about Compress, for every input, size, multiplier and count.     *)
(*                                                                         *)
(* That the output is uniform is said of a finished compression.  While    *)
(* one runs, what holds is that each frame so far ends where a multiple of *)
(* the count says, that the records found since are counted and too few    *)
(* for a frame, and that none is left to find when the source is spent.    *)
(***************************************************************************)
EXTENDS Compress, FiniteSetTheorems, TLAPS

Running == pc \in {"fill", "scan", "rest"}

\* The buffer starts at or before the last end found, and holds no other end
\* but while it is scanned.
FoundAll ==
  /\ Running => start <= EndOf(scanned)
  /\ pc \in {"fill", "rest"} => ~Ended(scanned + 1)
  /\ pc = "rest" => read = input.size

\* The frames so far, by the count, and the records found since.
CutByCount ==
  Running /\ keep =>
    /\ max = Unset => staged = <<>> /\ cnt = scanned
    /\ max # Unset =>
         /\ cnt < PerFrame
         /\ scanned = Len(staged) * PerFrame + cnt
         /\ cnt = 0 => frameEnd = 0
         /\ \A i \in DOMAIN staged :
              /\ i * PerFrame \in 1..Len(input.ends)
              /\ staged[i].to = EndOf(i * PerFrame)

\* By size, a frame that has not been cut is too small.
CutBySize == Running /\ ~keep => frameEnd = 0 \/ frameEnd < frameSize

IInv ==
  /\ TypeOK
  /\ NothingLost
  /\ FoundAll
  /\ CutByCount
  /\ CutBySize
  /\ UniformOutput

Frame == [from : Nat, to : Nat]

\* The frames of s lie end to end.
Contiguous(s) ==
  \A i \in DOMAIN s :
    /\ s[i].from = IF i = 1 THEN 0 ELSE s[i - 1].to
    /\ s[i].from < s[i].to

--------------------------------------------------------------------------------
\* Ends of records grow.
LEMMA EndsGrow ==
  ASSUME TypeOK
  PROVE  /\ input.ends \in Seq(Nat) /\ input.size \in Nat
         /\ \A k \in 0..Len(input.ends) : EndOf(k) \in 0..input.size
         /\ \A j, k \in 0..Len(input.ends) : j < k => EndOf(j) < EndOf(k)
<1>1. input \in InputType
  BY InputsAssumption DEF TypeOK
<1>2. input.ends \in Seq(Nat) /\ input.size \in Nat
  BY <1>1 DEF InputType
<1>3. \A i \in 1..Len(input.ends) : input.ends[i] \in 1..input.size
  BY <1>2, InputsAssumption DEF TypeOK
<1>4. \A i, j \in 1..Len(input.ends) : i < j => input.ends[i] < input.ends[j]
  <2>1. input \in Inputs /\ DOMAIN input.ends = 1..Len(input.ends)
    BY <1>2 DEF TypeOK
  <2> QED
    BY <2>1, InputsAssumption, Zenon
<1> QED
  BY <1>2, <1>3, <1>4 DEF EndOf

\* One more frame, that starts where the last one ends.
OneMoreFrame(s, from, to) == Append(s, [from |-> from, to |-> to])
EndsAt(s) == IF s = <<>> THEN 0 ELSE s[Len(s)].to
FrameAdded(s, to, t) ==
  /\ t \in Seq(Frame) /\ t # <<>> /\ Len(t) = Len(s) + 1
  /\ \A i \in 1..Len(s) : t[i] = s[i]
  /\ t[Len(t)].to = to
  /\ Contiguous(t)

LEMMA AppendFrame ==
  ASSUME NEW s, s \in Seq(Frame), Contiguous(s),
         NEW from \in Nat, NEW to \in Nat, from < to, from = EndsAt(s),
         NEW t, t = OneMoreFrame(s, from, to)
  PROVE  FrameAdded(s, to, t)
<1>1. [from |-> from, to |-> to] \in Frame
  BY DEF Frame
<1>2. t \in Seq(Frame) /\ Len(t) = Len(s) + 1
  BY <1>1 DEF OneMoreFrame
<1>3. \A i \in 1..Len(s) : t[i] = s[i]
  BY <1>1 DEF OneMoreFrame
<1>4. t[Len(s) + 1] = [from |-> from, to |-> to]
  BY <1>1 DEF OneMoreFrame
<1>5. \A i \in 1..Len(s) + 1 :
        /\ t[i].from = IF i = 1 THEN 0 ELSE t[i - 1].to
        /\ t[i].from < t[i].to
  <2> TAKE i \in 1..Len(s) + 1
  <2>1. CASE i \in 1..Len(s)
    BY <2>1, <1>3 DEF Contiguous
  <2>2. CASE i = Len(s) + 1 /\ s = <<>>
    BY <2>2, <1>4 DEF EndsAt
  <2>3. CASE i = Len(s) + 1 /\ s # <<>>
    BY <2>3, <1>3, <1>4 DEF EndsAt
  <2> QED
    BY <2>1, <2>2, <2>3
<1> QED
  BY <1>2, <1>3, <1>4, <1>5 DEF Contiguous, FrameAdded

\* Multiples of the count.
LEMMA OneMore ==
  ASSUME NEW m \in Nat, NEW n \in Nat
  PROVE  m * n \in Nat /\ (m + 1) * n = m * n + n /\ 0 * n = 0
OBVIOUS

LEMMA InitInv == Init => IInv
<1> SUFFICES ASSUME Init PROVE IInv
  OBVIOUS
<1>1. TypeOK
  BY InputsAssumption, OptionsAssumption DEF Init, TypeOK, EndOf, InputType, Unset
<1>2. ~Ended(1)
  BY EndsGrow, <1>1 DEF Ended, EndOf, Init
<1>3. NothingLost /\ CutByCount /\ CutBySize /\ UniformOutput
  BY <1>1, OptionsAssumption
     DEF Init, NothingLost, CutByCount, CutBySize, UniformOutput, Written, PerFrame, Unset, TypeOK
<1> QED
  BY <1>1, <1>2, <1>3 DEF IInv, FoundAll, Init, EndOf, Running

--------------------------------------------------------------------------------
\* A step that finds an end, in each of its cases: a frame cut or not.
LEMMA NextEndInv ==
  ASSUME IInv, NextEnd
  PROVE  IInv'
<1> USE DEF IInv
<1> DEFINE records == IF keep THEN cnt + 1 ELSE cnt
           end == EndOf(scanned + 1) - start
<1>1. /\ scanned \in Nat /\ scanned + 1 \in 1..Len(input.ends)
      /\ EndOf(scanned + 1) = input.ends[scanned + 1]
      /\ EndOf(scanned + 1) <= read
  BY EndsGrow DEF NextEnd, Ended, TypeOK, EndOf
<1>2. /\ start \in Nat /\ start <= EndOf(scanned) /\ EndOf(scanned) < EndOf(scanned + 1)
      /\ EndOf(scanned) \in Nat /\ EndOf(scanned + 1) \in Nat
  BY <1>1, EndsGrow DEF NextEnd, FoundAll, Running, TypeOK
<1>3. end \in Nat /\ end > 0 /\ records \in Nat /\ start + end = EndOf(scanned + 1)
  <2>1. records \in Nat
    BY DEF TypeOK
  <2> QED
    BY <2>1, <1>2
<1>4. /\ UNCHANGED <<job, attempt, pc, read>> /\ scanned' = scanned + 1 /\ pc = "scan"
      /\ \A k : EndOf(k)' = EndOf(k)
      /\ EndOf(scanned)' = EndOf(scanned + 1)
  BY DEF NextEnd, job, EndOf
<1>5. start = Written /\ Contiguous(staged) /\ staged \in Seq(Frame)
  BY <1>4 DEF NothingLost, Contiguous, TypeOK, Frame
<1>6. CASE Due(records, end) /\ CutFrame(records, end)
  <2>1. /\ staged' = Append(staged, [from |-> start, to |-> EndOf(scanned + 1)])
        /\ start' = EndOf(scanned + 1) /\ frameEnd' = 0
        /\ max' = (IF keep /\ max = Unset THEN records ELSE max)
        /\ cnt' = IF keep THEN 0 ELSE records
    BY <1>3, <1>6 DEF CutFrame
  <2>2. /\ staged' \in Seq(Frame) /\ staged' # <<>> /\ Len(staged') = Len(staged) + 1
        /\ \A i \in 1..Len(staged) : staged'[i] = staged[i]
        /\ staged'[Len(staged')].to = EndOf(scanned + 1)
        /\ Contiguous(staged')
    <3>1. start < EndOf(scanned + 1)
      BY <1>2, <1>3
    <3>2. start = EndsAt(staged)
      BY <1>5 DEF Written, EndsAt
    <3>3. /\ staged \in Seq(Frame) /\ Contiguous(staged)
          /\ start \in Nat /\ EndOf(scanned + 1) \in Nat
      BY <1>2, <1>5
    <3> HIDE DEF IInv
    <3>4. staged' = OneMoreFrame(staged, start, EndOf(scanned + 1))
      BY <2>1 DEF OneMoreFrame
    <3> QED
      <4>1. FrameAdded(staged, EndOf(scanned + 1), staged')
        BY <3>1, <3>2, <3>3, <3>4, AppendFrame, Zenon
      <4> QED
        BY <4>1 DEF FrameAdded
  <2>3. TypeOK'
    <3>1. /\ start' \in 0..read' /\ EndOf(scanned)' <= read'
          /\ frameEnd' \in Nat /\ max' \in Nat \cup {Unset} /\ cnt' \in Nat
          /\ scanned' \in 0..Len(input.ends)
      BY <1>1, <1>2, <1>3, <1>4, <2>1 DEF TypeOK
    <3> QED
      BY <3>1, <1>4, <2>2 DEF TypeOK, job, attempt, Frame
  <2>4. NothingLost'
    BY <1>4, <2>1, <2>2 DEF NothingLost, Contiguous, Written
  <2>5. FoundAll'
    BY <1>2, <1>4, <2>1 DEF FoundAll
  <2>6. CutByCount'
    <3> SUFFICES ASSUME keep
                 PROVE  /\ max' # Unset
                        /\ cnt' < PerFrame' /\ frameEnd' = 0
                        /\ scanned' = Len(staged') * PerFrame' + cnt'
                        /\ \A i \in DOMAIN staged' :
                             /\ i * PerFrame' \in 1..Len(input.ends)
                             /\ staged'[i].to = EndOf(i * PerFrame')
      BY <1>4 DEF CutByCount, job
    <3>1. CASE max = Unset
      <4>1. staged = <<>> /\ cnt = scanned
        BY <3>1, <1>4 DEF CutByCount, Running
      <4>2. max' = scanned + 1 /\ PerFrame' = scanned + 1 /\ cnt' = 0 /\ Len(staged') = 1
        BY <4>1, <3>1, <2>1, <2>2, <1>1 DEF PerFrame, Unset
      <4> QED
        BY <4>2, <2>1, <2>2, <1>1, <1>4 DEF Unset
    <3>2. CASE max # Unset
      <4>1. /\ cnt < PerFrame /\ scanned = Len(staged) * PerFrame + cnt
            /\ \A i \in DOMAIN staged :
                 /\ i * PerFrame \in 1..Len(input.ends)
                 /\ staged[i].to = EndOf(i * PerFrame)
        BY <3>2, <1>4 DEF CutByCount, Running
      <4>2. max \in Nat /\ cnt \in Nat /\ cnt + 1 >= max /\ PerFrame \in Nat
        BY <1>6, <3>2 DEF Due, TypeOK, PerFrame, Unset
      <4>3. max' = max /\ PerFrame' = PerFrame /\ cnt' = 0 /\ cnt + 1 = PerFrame
        BY <4>1, <4>2, <3>2, <2>1 DEF PerFrame
      <4>4. Len(staged) * PerFrame \in Nat
            /\ (Len(staged) + 1) * PerFrame = Len(staged) * PerFrame + PerFrame
        BY OneMore, <4>2, <1>5
      <4>5. scanned + 1 = (Len(staged) + 1) * PerFrame
        BY <4>1, <4>2, <4>3, <4>4
      <4>6. \A i \in DOMAIN staged' :
                 /\ i * PerFrame \in 1..Len(input.ends)
                 /\ staged'[i].to = EndOf(i * PerFrame)
        <5> TAKE i \in DOMAIN staged'
        <5>1. CASE i \in 1..Len(staged)
          BY <5>1, <4>1, <2>2
        <5>2. CASE i = Len(staged) + 1
          BY <5>2, <4>5, <2>2, <1>1
        <5> QED
          BY <5>1, <5>2, <2>2
      <4> QED
        BY <4>2, <4>3, <4>5, <4>6, <3>2, <2>1, <2>2, <1>4
    <3> QED
      BY <3>1, <3>2
  <2>7. CutBySize' /\ UniformOutput'
    BY <1>4, <2>1 DEF CutBySize, UniformOutput
  <2> QED
    BY <2>3, <2>4, <2>5, <2>6, <2>7
<1>7. CASE /\ ~Due(records, end)
           /\ frameEnd' = end /\ cnt' = records
           /\ UNCHANGED <<start, max, staged>>
  <2>1. TypeOK'
    BY <1>1, <1>2, <1>3, <1>4, <1>7 DEF TypeOK, job, attempt
  <2>2. NothingLost'
    BY <1>4, <1>7 DEF NothingLost, Written
  <2>3. FoundAll'
    BY <1>2, <1>4, <1>7 DEF FoundAll
  <2>4. CutByCount'
    <3>1. CASE keep /\ max = Unset
      BY <3>1, <1>4, <1>7 DEF CutByCount, Running, job
    <3>2. CASE keep /\ max # Unset
      <4>1. cnt + 1 < max /\ max \in Nat /\ cnt \in Nat /\ cnt' = cnt + 1
        BY <3>2, <1>7 DEF Due, TypeOK, Unset
      <4>2. PerFrame = max /\ PerFrame' = PerFrame
        BY <4>1, <1>7 DEF PerFrame
      <4>3. Len(staged) * PerFrame \in Nat
        BY OneMore, <4>1, <4>2, <1>5
      <4> QED
        BY <3>2, <4>1, <4>2, <4>3, <1>4, <1>7 DEF CutByCount, Running, job
    <3> QED
      BY <3>1, <3>2, <1>4 DEF CutByCount, job
  <2>5. CutBySize' /\ UniformOutput'
    <3>1. ~keep => end < frameSize
      BY <1>7, <1>3 DEF Due, TypeOK
    <3> QED
      BY <3>1, <1>4, <1>7 DEF CutBySize, UniformOutput, job, attempt
  <2> QED
    BY <2>1, <2>2, <2>3, <2>4, <2>5
<1> QED
  BY <1>6, <1>7 DEF NextEnd

--------------------------------------------------------------------------------
\* The other steps.
LEMMA FillInv ==
  ASSUME IInv, Fill \/ FillNothing
  PROVE  IInv'
<1> USE DEF IInv
<1>1. /\ UNCHANGED <<job, attempt, start, scanned, cutter>> /\ pc = "fill"
      /\ \A k : EndOf(k)' = EndOf(k)
      /\ EndOf(scanned)' = EndOf(scanned) /\ EndOf(scanned) \in Nat
  BY EndsGrow DEF Fill, FillNothing, job, EndOf, stream, TypeOK
<1>2. /\ read \in Nat /\ input.size \in Nat
      /\ read' \in Nat /\ read' >= read /\ read' <= input.size
      /\ pc' \in {"scan", "rest", "retry", "failed"}
      /\ pc' = "rest" => read' = input.size /\ read' = read
  <2>1. read \in Nat /\ input.size \in Nat /\ read <= input.size
    BY EndsGrow DEF TypeOK
  <2>2. CASE Fill
    BY <2>1, <2>2, ReadAssumption DEF Fill
  <2>3. CASE FillNothing
    BY <2>1, <2>3 DEF FillNothing, stream
  <2> QED
    BY <2>2, <2>3
<1>3. TypeOK'
  <2>1. start' \in 0..read' /\ EndOf(scanned)' <= read' /\ read' \in 0..input.size
    BY <1>1, <1>2 DEF TypeOK
  <2> QED
    BY <2>1, <1>1, <1>2 DEF TypeOK, job, attempt, cutter
<1>4. NothingLost' /\ UniformOutput'
  <2>1. pc' # "done"
    BY <1>2
  <2> QED
    BY <2>1, <1>1 DEF NothingLost, Written, UniformOutput, cutter
<1>5. FoundAll'
  <2>1. read' = read => (Ended(scanned + 1)' <=> Ended(scanned + 1))
    BY <1>1 DEF Ended, job
  <2>2. start' <= EndOf(scanned)' /\ ~Ended(scanned + 1)
    BY <1>1 DEF FoundAll, Running
  <2>3. input' = input
    BY <1>1 DEF job
  <2> QED
    BY <2>1, <2>2, <2>3, <1>2 DEF FoundAll
<1>6. CutByCount' /\ CutBySize'
  <2>1. PerFrame' = PerFrame
    BY <1>1 DEF PerFrame, cutter
  <2> QED
    BY <2>1, <1>1 DEF CutByCount, CutBySize, Running, cutter, job, attempt
<1> QED
  BY <1>3, <1>4, <1>5, <1>6

\* Nothing is ever dropped but with a frame.
LEMMA NeverDrops ==
  ASSUME IInv, pc = "scan"
  PROVE  ~Drops
<1> USE DEF IInv
<1>1. frameEnd \in Nat /\ frameSize \in Nat /\ cnt \in Nat
  BY DEF TypeOK
<1>2. CASE ~keep
  BY <1>1, <1>2 DEF CutBySize, Drops, Running
<1>3. CASE keep /\ max # Unset
  BY <1>1, <1>3 DEF CutByCount, Drops, Running, PerFrame, Unset, TypeOK
<1>4. CASE keep /\ max = Unset
  BY <1>4 DEF Drops
<1> QED
  BY <1>2, <1>3, <1>4 DEF TypeOK

LEMMA ScanEndsInv ==
  ASSUME IInv, ScanEnds
  PROVE  IInv'
<1>1. /\ UNCHANGED <<job, attempt, stream, cutter>> /\ pc = "scan" /\ pc' = "fill"
      /\ ~Ended(scanned + 1)
      /\ \A k : EndOf(k)' = EndOf(k)
      /\ EndOf(scanned)' = EndOf(scanned)
      /\ Ended(scanned + 1)' <=> Ended(scanned + 1)
  BY NeverDrops DEF ScanEnds, job, stream, cutter, EndOf, Ended
<1> USE DEF IInv
<1>2. TypeOK'
  BY <1>1 DEF TypeOK, job, attempt, stream, cutter
<1>3. NothingLost' /\ UniformOutput' /\ FoundAll'
  BY <1>1 DEF NothingLost, Written, UniformOutput, FoundAll, Running, stream, cutter
<1>4. CutByCount' /\ CutBySize'
  BY <1>1 DEF CutByCount, CutBySize, Running, PerFrame, stream, cutter, job, attempt
<1> QED
  BY <1>2, <1>3, <1>4

LEMMA FinishInv ==
  ASSUME IInv, Finish
  PROVE  IInv'
<1> USE DEF IInv
<1>1. /\ UNCHANGED <<job, attempt, stream, frameEnd, max, cnt>> /\ pc = "rest" /\ pc' = "done"
      /\ \A k : EndOf(k)' = EndOf(k)
      /\ EndOf(scanned)' = EndOf(scanned)
      /\ PerFrame' = PerFrame
  BY DEF Finish, job, stream, EndOf, PerFrame
<1>2. /\ start \in Nat /\ read \in Nat /\ read = input.size /\ start <= read
      /\ start = Written /\ Contiguous(staged) /\ staged \in Seq(Frame)
      /\ start <= EndOf(scanned) /\ EndOf(scanned) \in Nat /\ EndOf(scanned) <= read
      /\ scanned \in 0..Len(input.ends)
  BY <1>1, EndsGrow DEF NothingLost, Contiguous, TypeOK, Frame, FoundAll, Running
\* Every end has been found.
<1>3. scanned = Len(input.ends)
  <2>1. CASE scanned < Len(input.ends)
    <3>1. EndOf(scanned + 1) = input.ends[scanned + 1] /\ EndOf(scanned + 1) <= input.size
          /\ scanned + 1 \in DOMAIN input.ends
      <4>1. scanned + 1 \in 1..Len(input.ends) /\ scanned + 1 # 0
        BY <2>1, <1>2, EndsGrow
      <4>2. EndOf(scanned + 1) \in 0..input.size /\ input.size \in Nat
        BY <4>1, EndsGrow
      <4>3. EndOf(scanned + 1) = input.ends[scanned + 1]
        BY <4>1 DEF EndOf
      <4>4. DOMAIN input.ends = 1..Len(input.ends)
        BY EndsGrow
      <4> QED
        BY <4>1, <4>2, <4>3, <4>4
    <3> QED
      BY <3>1, <1>1, <1>2 DEF FoundAll, Ended
  <2> QED
    BY <2>1, <1>2, EndsGrow
<1>4. CASE start < read
  <2>1. staged' = OneMoreFrame(staged, start, read)
    BY <1>4 DEF Finish, OneMoreFrame
  <2>2. start = EndsAt(staged)
    BY <1>2 DEF Written, EndsAt
  <2>3. /\ staged' \in Seq(Frame) /\ staged' # <<>> /\ Len(staged') = Len(staged) + 1
        /\ \A i \in 1..Len(staged) : staged'[i] = staged[i]
        /\ staged'[Len(staged')].to = read
        /\ Contiguous(staged')
    <3>1. /\ staged \in Seq(Frame) /\ Contiguous(staged)
          /\ start \in Nat /\ read \in Nat /\ start < read
      BY <1>2, <1>4
    <3> HIDE DEF IInv
    <3> QED
      <4>1. FrameAdded(staged, read, staged')
        BY <3>1, <2>1, <2>2, AppendFrame, Zenon
      <4> QED
        BY <4>1 DEF FrameAdded
  <2>4. TypeOK'
    BY <1>1, <2>3 DEF TypeOK, job, attempt, stream, Frame
  <2>5. NothingLost'
    BY <1>1, <1>2, <2>3 DEF NothingLost, Contiguous, Written, job
  <2>6. UniformOutput'
    <3> SUFFICES ASSUME keep
                 PROVE  /\ \A i \in 1..Len(staged) :
                             /\ i * PerFrame \in 1..Len(input.ends)
                             /\ staged[i].to = EndOf(i * PerFrame)
                        /\ max # Unset => Len(input.ends) <= (Len(staged) + 1) * PerFrame
                        /\ max = Unset => Len(staged) = 0
      BY <1>1, <2>3 DEF UniformOutput, job
    <3>1. CASE max = Unset
      BY <3>1, <1>1 DEF CutByCount, Running
    <3>2. CASE max # Unset
      <4>1. PerFrame \in Nat /\ cnt \in Nat
        BY <3>2 DEF PerFrame, TypeOK, Unset
      <4>2. /\ Len(staged) * PerFrame \in Nat
            /\ (Len(staged) + 1) * PerFrame = Len(staged) * PerFrame + PerFrame
        BY OneMore, <4>1, <1>2
      <4>3. cnt < PerFrame /\ scanned = Len(staged) * PerFrame + cnt
        BY <3>2, <1>1 DEF CutByCount, Running
      <4>4. Len(input.ends) <= (Len(staged) + 1) * PerFrame
        BY <4>1, <4>2, <4>3, <1>3
      <4> QED
        BY <3>2, <4>4, <1>1, <1>2 DEF CutByCount, Running
    <3> QED
      BY <3>1, <3>2
  <2> QED
    BY <2>4, <2>5, <2>6, <1>1 DEF FoundAll, CutByCount, CutBySize, Running
<1>5. CASE ~(start < read)
  <2>1. staged' = staged /\ start = read
    BY <1>2, <1>5 DEF Finish
  <2>2. TypeOK'
    BY <1>1, <2>1 DEF TypeOK, job, attempt, stream
  <2>3. NothingLost'
    BY <1>1, <1>2, <2>1 DEF NothingLost, Written, job
  <2>4. UniformOutput'
    <3> SUFFICES ASSUME keep
                 PROVE  /\ \A i \in 1..Len(staged) :
                             /\ i * PerFrame \in 1..Len(input.ends)
                             /\ staged[i].to = EndOf(i * PerFrame)
                        /\ max # Unset => Len(input.ends) <= Len(staged) * PerFrame
                        /\ max = Unset => Len(staged) = 0
      BY <1>1, <1>2, <2>1 DEF UniformOutput, job
    <3>1. CASE max = Unset
      BY <3>1, <1>1 DEF CutByCount, Running
    <3>2. CASE max # Unset
      <4>1. /\ PerFrame \in Nat /\ cnt \in Nat /\ Len(staged) * PerFrame \in Nat
            /\ scanned = Len(staged) * PerFrame + cnt
        BY <3>2, <1>1, <1>2, OneMore DEF PerFrame, TypeOK, Unset, CutByCount, Running
      <4>2. EndOf(Len(staged) * PerFrame) = start
        <5>1. CASE staged = <<>>
          BY <5>1, <1>2, <4>1, OneMore DEF Written, EndOf
        <5>2. CASE staged # <<>>
          BY <5>2, <3>2, <1>1, <1>2 DEF Written, CutByCount, Running
        <5> QED
          BY <5>1, <5>2
      <4>3. ~(Len(staged) * PerFrame < scanned)
        BY <4>1, <4>2, <2>1, <1>2, EndsGrow
      <4> QED
        BY <3>2, <4>1, <4>3, <1>1, <1>2, <1>3 DEF CutByCount, Running
    <3> QED
      BY <3>1, <3>2
  <2> QED
    BY <2>2, <2>3, <2>4, <1>1 DEF FoundAll, CutByCount, CutBySize, Running
<1> QED
  BY <1>4, <1>5

LEMMA RetryInv ==
  ASSUME IInv, Retry
  PROVE  IInv'
<1> USE DEF IInv
<1>1. Current \in Nat
  BY UsizeAssumption DEF Current, TypeOK, Unset
<1>2. SizeAgain \in Nat /\ asked' \in Nat /\ frameSize' = SizeAgain
  BY <1>1 DEF SizeAgain, Retry, TypeOK
<1>3. /\ UNCHANGED job /\ pc' = "fill" /\ read' = 0 /\ start' = 0 /\ scanned' = 0
      /\ frameEnd' = 0 /\ max' = asked' /\ cnt' = 0 /\ staged' = <<>>
      /\ EndOf(scanned)' = 0
  BY DEF Retry, Fresh, EndOf
<1>4. TypeOK'
  BY <1>2, <1>3, EndsGrow DEF TypeOK, job
<1>5. ~Ended(scanned + 1)'
  <2>1. 1 \in DOMAIN input.ends => input.ends[1] > 0
    BY EndsGrow DEF EndOf
  <2>2. Ended(scanned + 1)' <=> 1 \in DOMAIN input.ends /\ input.ends[1] <= 0
    BY <1>3 DEF Ended, job
  <2> QED
    BY <2>1, <2>2, EndsGrow
<1>6. NothingLost' /\ FoundAll' /\ UniformOutput' /\ CutBySize'
  BY <1>3, <1>5 DEF NothingLost, Written, FoundAll, UniformOutput, CutBySize
<1>7. CutByCount'
  <2>1. PerFrame' \in Nat /\ PerFrame' > 0 /\ max' # Unset
    BY <1>2, <1>3 DEF PerFrame, Unset
  <2>2. 0 * PerFrame' = 0
    <3> DEFINE n == PerFrame'
    <3>1. n \in Nat
      BY <2>1
    <3> HIDE DEF n
    <3>2. 0 * n = 0
      BY <3>1, OneMore
    <3> QED
      BY <3>2 DEF n
  <2>3. Len(staged') = 0 /\ DOMAIN staged' = {}
    BY <1>3
  <2>4. scanned' = Len(staged') * PerFrame' + cnt' /\ cnt' < PerFrame'
    <3>1. Len(staged') * PerFrame' = 0
      BY <2>2, <2>3, Zenon
    <3>2. scanned' = 0 /\ cnt' = 0 /\ 0 = 0 + 0
      BY <1>3
    <3>3. scanned' = Len(staged') * PerFrame' + cnt'
      BY <3>1, <3>2, Zenon
    <3> QED
      BY <3>2, <3>3, <2>1
  <2> QED
    BY <2>1, <2>3, <2>4, <1>3 DEF CutByCount
<1> QED
  BY <1>4, <1>6, <1>7

LEMMA NextInv ==
  ASSUME IInv, [Next]_vars
  PROVE  IInv'
<1>1. CASE Fill \/ FillNothing
  BY <1>1, FillInv
<1>2. CASE NextEnd
  BY <1>2, NextEndInv
<1>3. CASE ScanEnds
  BY <1>3, ScanEndsInv
<1>4. CASE Finish
  BY <1>4, FinishInv
<1>5. CASE Retry
  BY <1>5, RetryInv
<1>6. CASE Fail
  <2>1. UNCHANGED <<job, attempt, stream, cutter>> /\ pc' = "failed"
        /\ EndOf(scanned)' = EndOf(scanned)
    BY <1>6 DEF Fail, job, stream, EndOf
  <2>2. TypeOK'
    BY <2>1 DEF IInv, TypeOK, job, attempt, stream, cutter
  <2> QED
    BY <2>1, <2>2 DEF IInv, NothingLost, FoundAll, CutByCount, CutBySize, UniformOutput,
                      Running, cutter
<1>7. CASE UNCHANGED vars
  <2>1. UNCHANGED <<job, attempt, pc, stream, cutter>>
    BY <1>7 DEF vars
  <2> QED
    BY <2>1 DEF IInv, TypeOK, NothingLost, Written, FoundAll, CutByCount, CutBySize,
                UniformOutput, Running, PerFrame, EndOf, Ended,
                job, attempt, stream, cutter
<1> QED
  BY <1>1, <1>2, <1>3, <1>4, <1>5, <1>6, <1>7 DEF Next, Proceed

--------------------------------------------------------------------------------
LEMMA Inductive == Spec => []IInv
BY InitInv, NextInv, PTL DEF Spec

\* The state is well-typed, and no end of a record is found before its last
\* byte has been read (convert_records_to_seekable_zst_reader_with_opts).
THEOREM CompressTypes == Spec => []TypeOK
<1>1. IInv => TypeOK
  BY DEF IInv
<1> QED
  BY <1>1, Inductive, PTL

\* Whatever is compressed, however it is read and how often it is retried, the
\* frames are the input, cut, and nothing of an earlier attempt.
THEOREM FramesAreTheInput == Spec => []NothingLost
<1>1. IInv => NothingLost
  BY DEF IInv
<1> QED
  BY <1>1, Inductive, PTL

\* The format's invariant holds of whatever is compressed with the count kept.
THEOREM OutputIsUniform == Spec => []UniformOutput
<1>1. IInv => UniformOutput
  BY DEF IInv
<1> QED
  BY <1>1, Inductive, PTL

\* The drain at the end of the read loop is never reached.
THEOREM DrainNeverReached == Spec => []DrainIsIdle
<1>1. IInv => DrainIsIdle
  BY NeverDrops DEF DrainIsIdle
<1> QED
  BY <1>1, Inductive, PTL
--------------------------------------------------------------------------------
(***************************************************************************)
(* Frames cut by size.                                                     *)
(***************************************************************************)
\* A frame that starts at from ends with the first record, of those that end
\* in it, at which it is of the size.
CutAtTarget(frame) ==
  \E k \in DOMAIN input.ends :
    /\ frame.to = input.ends[k] /\ frame.to - frame.from >= frameSize
    /\ \A j \in 1 .. k - 1 : input.ends[j] - frame.from < frameSize \/ input.ends[j] <= frame.from

\* Which frames are, the last one that Finish makes of what is left aside; and
\* until the next of them is cut no record found is at the size yet.
CutSoFar == {i \in DOMAIN staged : ~keep \/ (i = 1 /\ asked = Unset)}
SizeInv ==
  /\ pc # "done" => \A i \in CutSoFar : CutAtTarget(staged[i])
  /\ FrameTarget
  /\ Running /\ keep /\ asked = Unset /\ staged = <<>> => max = Unset
  /\ Running /\ (~keep \/ max = Unset) =>
       \A j \in 1 .. scanned : input.ends[j] - start < frameSize \/ input.ends[j] <= start

\* Where the input, the size and the frames are as they were.
LEMMA TargetStays ==
  ASSUME UNCHANGED <<job, attempt, staged>>
  PROVE  /\ FrameTarget <=> FrameTarget'
         /\ CutSoFar' = CutSoFar
         /\ \A i \in CutSoFar : CutAtTarget(staged[i])' <=> CutAtTarget(staged[i])
BY DEF FrameTarget, BySize, CutSoFar, CutAtTarget, job, attempt

LEMMA SizeInitially == Init => SizeInv
<1> SUFFICES ASSUME Init PROVE SizeInv
  OBVIOUS
<1>1. TypeOK
  BY InitInv DEF IInv
<1> QED
  BY <1>1 DEF Init, SizeInv, CutSoFar, FrameTarget, BySize

LEMMA SizeNextEnd ==
  ASSUME IInv, SizeInv, NextEnd
  PROVE  SizeInv'
<1> DEFINE records == IF keep THEN cnt + 1 ELSE cnt
           end == EndOf(scanned + 1) - start
<1>1. /\ UNCHANGED <<job, attempt, pc, read>> /\ scanned' = scanned + 1 /\ pc = "scan"
      /\ UNCHANGED <<input, keep, asked, frameSize>>
  BY DEF NextEnd, job, attempt
<1>2. /\ scanned \in Nat /\ scanned + 1 \in DOMAIN input.ends
      /\ EndOf(scanned + 1) = input.ends[scanned + 1]
      /\ input.ends \in Seq(Nat) /\ start \in Nat /\ frameSize \in Nat
      /\ staged \in Seq(Frame)
  BY EndsGrow DEF NextEnd, Ended, IInv, TypeOK, EndOf, Frame
<1>3. \A j \in 1 .. scanned + 1 : input.ends[j] \in Nat /\ input.ends[j] <= input.ends[scanned + 1]
  <2>1. \A j \in 1 .. scanned + 1 : EndOf(j) = input.ends[j] /\ j \in 0 .. Len(input.ends)
    BY <1>2 DEF EndOf
  <2>2. \A j \in 1 .. scanned + 1 : j < scanned + 1 => EndOf(j) < EndOf(scanned + 1)
    BY <1>2, <2>1, EndsGrow DEF IInv
  <2>3. \A j \in 1 .. scanned + 1 : EndOf(j) \in Nat
    BY <2>1, EndsGrow DEF IInv
  <2> TAKE j \in 1 .. scanned + 1
  <2>4. CASE j < scanned + 1
    BY <1>2, <2>1, <2>2, <2>3, <2>4
  <2>5. CASE j = scanned + 1
    BY <1>2, <2>1, <2>3, <2>5
  <2> QED
    BY <1>2, <2>4, <2>5
<1>4. CASE Due(records, end) /\ CutFrame(records, end)
  <2> DEFINE frame == [from |-> start, to |-> start + end]
  <2>1. /\ staged' = Append(staged, frame) /\ start' = start + end
        /\ max' = IF keep /\ max = Unset THEN records ELSE max
    BY <1>4 DEF CutFrame
  <2>2. start + end = input.ends[scanned + 1]
    BY <1>2, <1>3
  <2>3. ~keep \/ max = Unset => CutAtTarget(frame)
    <3> SUFFICES ASSUME ~keep \/ max = Unset PROVE CutAtTarget(frame)
      OBVIOUS
    <3>1. end >= frameSize
      BY <1>4 DEF Due
    <3>2. \A j \in 1 .. scanned : input.ends[j] - start < frameSize \/ input.ends[j] <= start
      BY <1>1 DEF SizeInv, Running
    <3>3. frame.to = input.ends[scanned + 1] /\ frame.from = start
      BY <2>2
    <3>4. frame.to - frame.from >= frameSize
      BY <1>2, <1>3, <3>1, <3>3
    <3>5. \A j \in 1 .. (scanned + 1) - 1 :
            input.ends[j] - frame.from < frameSize \/ input.ends[j] <= frame.from
      BY <1>2, <3>2, <3>3
    <3> HIDE DEF frame
    <3> QED
      BY <1>2, <3>3, <3>4, <3>5 DEF CutAtTarget
  <2>4. /\ frame \in Frame /\ Len(staged') = Len(staged) + 1 /\ staged' \in Seq(Frame)
        /\ \A i \in 1 .. Len(staged) : staged'[i] = staged[i]
        /\ staged'[Len(staged) + 1] = frame
    <3>1. frame \in Frame
      BY <1>2, <1>3, <2>2 DEF Frame
    <3> HIDE DEF frame
    <3> QED
      BY <1>2, <2>1, <3>1
  <2>5. \A g : CutAtTarget(g)' <=> \E k \in DOMAIN input.ends :
                   /\ g'.to = input.ends[k] /\ g'.to - g'.from >= frameSize
                   /\ \A j \in 1 .. k - 1 : input.ends[j] - g'.from < frameSize \/ input.ends[j] <= g'.from
    BY <1>1 DEF CutAtTarget
  <2>6. ASSUME NEW i \in CutSoFar' PROVE CutAtTarget(staged[i])'
    <3>1. i \in 1 .. Len(staged) + 1 /\ (~keep \/ (i = 1 /\ asked = Unset))
      BY <1>1, <2>4, <2>6 DEF CutSoFar
    <3>2. CASE i \in 1 .. Len(staged)
      <4>1. CutAtTarget(staged[i])
        BY <1>1, <1>2, <3>1, <3>2 DEF SizeInv, CutSoFar
      <4> QED
        BY <1>1, <2>4, <3>2, <4>1 DEF CutAtTarget
    <3>3. CASE i = Len(staged) + 1
      <4>1. ~keep \/ max = Unset
        BY <1>1, <1>2, <3>1, <3>3 DEF SizeInv, Running
      <4> QED
        BY <1>1, <2>3, <2>4, <3>3, <4>1 DEF CutAtTarget
    <3> QED
      BY <1>2, <3>1, <3>2, <3>3
  <2>7. FrameTarget'
    <3>1. BySize' \subseteq CutSoFar'
      BY <2>4 DEF BySize, CutSoFar
    <3> QED
      BY <2>6, <3>1 DEF FrameTarget, CutAtTarget
  <2>8. staged' # <<>>
    BY <2>4
  <2>9. (~keep \/ max = Unset)' =>
          \A j \in 1 .. scanned' : input'.ends[j] - start' < frameSize' \/ input'.ends[j] <= start'
    BY <1>1, <1>2, <1>3, <2>1, <2>2
  <2> QED
    BY <2>6, <2>7, <2>8, <2>9 DEF SizeInv
<1>5. CASE ~Due(records, end) /\ UNCHANGED <<start, max, staged>>
  <2>1. ~keep \/ max = Unset => end < frameSize
    BY <1>2, <1>3, <1>5 DEF Due
  <2>2. (~keep \/ max = Unset)' =>
          \A j \in 1 .. scanned' : input'.ends[j] - start' < frameSize' \/ input'.ends[j] <= start'
    <3> SUFFICES ASSUME ~keep \/ max = Unset, NEW j \in 1 .. scanned + 1
                 PROVE  input.ends[j] - start < frameSize \/ input.ends[j] <= start
      BY <1>1, <1>5
    <3>1. CASE j \in 1 .. scanned
      BY <1>1, <3>1 DEF SizeInv, Running
    <3>2. CASE j = scanned + 1
      BY <1>2, <2>1, <3>2
    <3> QED
      BY <1>2, <3>1, <3>2
  <2> QED
    BY <1>1, <1>5, <2>2, TargetStays DEF SizeInv, Running
<1> QED
  BY <1>4, <1>5 DEF NextEnd

LEMMA SizeFinish ==
  ASSUME IInv, SizeInv, Finish
  PROVE  SizeInv'
<1>1. /\ UNCHANGED <<job, attempt>> /\ pc = "rest" /\ pc' = "done"
      /\ UNCHANGED <<input, keep, asked, frameSize>>
      /\ staged \in Seq(Frame) /\ start \in Nat /\ read \in Nat
  BY EndsGrow DEF Finish, job, attempt, IInv, TypeOK, Frame
<1>2. /\ Len(staged') - 1 <= Len(staged) /\ Len(staged') \in Nat
      /\ \A i \in 1 .. Len(staged') - 1 : staged'[i] = staged[i]
  <2>1. CASE start < read
    <3>1. [from |-> start, to |-> read] \in Frame
      BY <1>1 DEF Frame
    <3> QED
      BY <1>1, <2>1, <3>1 DEF Finish
  <2>2. CASE ~(start < read)
    BY <1>1, <2>2 DEF Finish
  <2> QED
    BY <2>1, <2>2
<1>3. FrameTarget'
  <2> SUFFICES ASSUME NEW i \in BySize' PROVE CutAtTarget(staged[i])'
    BY DEF FrameTarget, CutAtTarget
  <2>1. i \in CutSoFar /\ staged'[i] = staged[i]
    BY <1>1, <1>2 DEF BySize, CutSoFar
  <2> QED
    BY <1>1, <2>1 DEF SizeInv, CutAtTarget
<1> QED
  BY <1>1, <1>3 DEF SizeInv, Running

LEMMA SizeNext ==
  ASSUME IInv, SizeInv, [Next]_vars
  PROVE  SizeInv'
<1>1. ASSUME UNCHANGED <<job, attempt, start, scanned, max, staged>>,
             Running' => Running, pc # "done", pc' # "done"
      PROVE  SizeInv'
  BY <1>1, TargetStays DEF SizeInv, job, attempt
<1>2. CASE Fill
  BY <1>1, <1>2 DEF Fill, cutter, Running
<1>3. CASE FillNothing
  BY <1>1, <1>3 DEF FillNothing, stream, cutter, Running
<1>4. CASE NextEnd
  BY <1>4, SizeNextEnd
<1>5. CASE ScanEnds
  BY <1>1, <1>5, NeverDrops DEF ScanEnds, Running
<1>6. CASE Finish
  BY <1>6, SizeFinish
<1>7. CASE Retry
  <2>1. /\ staged' = <<>> /\ scanned' = 0 /\ max' = asked' /\ pc' = "fill"
    BY <1>7 DEF Retry, Fresh
  <2> QED
    BY <2>1 DEF SizeInv, CutSoFar, FrameTarget, BySize
<1>8. CASE Fail
  BY <1>1, <1>8 DEF Fail, stream, cutter, Running
<1>9. CASE UNCHANGED vars
  BY <1>9, TargetStays DEF vars, stream, cutter, job, attempt, SizeInv, Running
<1> QED
  BY <1>2, <1>3, <1>4, <1>5, <1>6, <1>7, <1>8, <1>9 DEF Next, Proceed

\* frame_size is a target: wherever a frame is cut by size, it is at the first
\* end of a record at which it is that large (encode_frame_*).
THEOREM FramesAreCutAtTarget == Spec => []FrameTarget
<1>1. SizeInv => FrameTarget
  BY DEF SizeInv
<1> QED
  BY <1>1, SizeInitially, SizeNext, Inductive, PTL DEF Spec

--------------------------------------------------------------------------------
(***************************************************************************)
(* What inspect reports.                                                   *)
(***************************************************************************)
\* A frame between two ends of records holds the records between.
LEMMA HeldBetween ==
  ASSUME TypeOK, NEW i \in Nat, i + 1 \in DOMAIN staged,
         NEW j \in 0 .. Len(input.ends), NEW k \in j .. Len(input.ends),
         staged[i + 1].from = EndOf(j), staged[i + 1].to = EndOf(k)
  PROVE  Held(i) = k - j
<1> DEFINE between == {m \in DOMAIN input.ends : EndOf(j) < input.ends[m] /\ input.ends[m] <= EndOf(k)}
<1>1. /\ input.ends \in Seq(Nat) /\ j \in Int /\ k \in Int /\ j + 1 \in Int
      /\ j <= k
      /\ \A m \in 0 .. Len(input.ends) : EndOf(m) \in Nat
  BY EndsGrow
<1>2. \A m \in 0 .. Len(input.ends) :
        /\ EndOf(j) < EndOf(m) <=> j < m
        /\ EndOf(m) <= EndOf(k) <=> m <= k
  <2> TAKE m \in 0 .. Len(input.ends)
  <2>1. k \in 0 .. Len(input.ends)
    BY <1>1
  <2>2. /\ j < m => EndOf(j) < EndOf(m)
        /\ m < j => EndOf(m) < EndOf(j)
        /\ k < m => EndOf(k) < EndOf(m)
        /\ m < k => EndOf(m) < EndOf(k)
    BY <2>1, EndsGrow
  <2>3. EndOf(j) \in Nat /\ EndOf(k) \in Nat /\ EndOf(m) \in Nat
    BY <1>1, <2>1
  <2>4. m \in Int /\ (m = j => EndOf(m) = EndOf(j)) /\ (m = k => EndOf(m) = EndOf(k))
    OBVIOUS
  <2> QED
    BY <1>1, <2>2, <2>3, <2>4
<1>3. \A m \in DOMAIN input.ends : EndOf(m) = input.ends[m] /\ m \in 0 .. Len(input.ends)
  BY <1>1 DEF EndOf
<1>4. between = j + 1 .. k
  <2>1. DOMAIN input.ends = 1 .. Len(input.ends)
    BY <1>1
  <2>2. \A m \in j + 1 .. k : m \in DOMAIN input.ends /\ j < m /\ m <= k
    BY <1>1, <2>1
  <2>3. \A m \in DOMAIN input.ends : j < m /\ m <= k => m \in j + 1 .. k
    BY <1>1, <2>1
  <2> QED
    BY <1>2, <1>3, <2>2, <2>3
<1>5. Cardinality(j + 1 .. k) = k - j
  <2>1. Cardinality(j + 1 .. k) = IF j + 1 > k THEN 0 ELSE k - (j + 1) + 1
    BY <1>1, FS_Interval, Zenon
  <2> QED
    BY <1>1, <2>1
<1> QED
  BY <1>4, <1>5 DEF Held

\* "Measure separators only in frame 0 and the last two frames, assuming that
\* count for the rest" (InspectOptions): of a file of compress that is the truth,
\* unless it has two frames.
THEOREM InspectTellsTheTruth == Spec => []InspectIsTrue
<1>1. IInv => InspectIsTrue
  <2> SUFFICES ASSUME IInv, keep, pc = "done", Len(staged) # 2,
                      NEW i \in 0 .. Len(staged) - 1
               PROVE  Reported(i) = Held(i)
    BY DEF InspectIsTrue
  <2>1. Len(staged) \in Nat /\ staged \in Seq(Frame) /\ max \in Nat \cup {Unset}
    BY DEF IInv, TypeOK, Frame
  <2>2. CASE i = 0 \/ i > LastButTwo
    BY <2>2 DEF Reported
  <2>3. CASE i # 0 /\ ~(i > LastButTwo)
    <3>1. i \in 1 .. Len(staged) - 3 /\ Len(staged) > 3
      <4>1. Len(staged) > 2
        BY <2>1, <2>3
      <4>2. LastButTwo = Len(staged) - 3
        BY <2>1, <4>1 DEF LastButTwo
      <4> QED
        BY <2>1, <2>3, <4>1, <4>2
    <3>2. max # Unset
      BY <3>1 DEF IInv, UniformOutput
    <3>3. PerFrame \in Nat
      BY <2>1, <3>2 DEF PerFrame
    <3>4. ASSUME NEW h \in 0 .. i PROVE Held(h) = PerFrame
      <4>1. /\ h + 1 \in DOMAIN staged /\ h + 1 \in 1 .. Len(staged) - 1
            /\ h \in Nat /\ (h # 0 => h \in 1 .. Len(staged) - 1 /\ h + 1 # 1)
        BY <2>1, <3>1
      <4>2. /\ (h + 1) * PerFrame \in 1 .. Len(input.ends)
            /\ staged[h + 1].to = EndOf((h + 1) * PerFrame)
        BY <4>1 DEF IInv, UniformOutput
      <4>3. /\ h * PerFrame \in 0 .. Len(input.ends)
            /\ staged[h + 1].from = EndOf(h * PerFrame)
        <5>1. CASE h = 0
          <6>1. h * PerFrame = 0
            BY <3>3, <5>1, OneMore
          <6>2. staged[h + 1].from = 0
            BY <4>1, <5>1 DEF IInv, NothingLost
          <6>3. 0 \in 0 .. Len(input.ends)
            BY EndsGrow DEF IInv
          <6> QED
            BY <6>1, <6>2, <6>3 DEF EndOf
        <5>2. CASE h # 0
          <6>1. h * PerFrame \in 1 .. Len(input.ends) /\ staged[h].to = EndOf(h * PerFrame)
            BY <4>1, <5>2 DEF IInv, UniformOutput
          <6>2. staged[h + 1].from = staged[h].to
            BY <4>1, <5>2 DEF IInv, NothingLost
          <6> QED
            BY <6>1, <6>2
        <5> QED
          BY <5>1, <5>2
      <4>4. (h + 1) * PerFrame = h * PerFrame + PerFrame /\ h * PerFrame \in Nat
        BY <3>3, <4>1, OneMore
      <4> DEFINE p == h * PerFrame
                 q == (h + 1) * PerFrame
      <4>5. p \in 0 .. Len(input.ends) /\ q \in p .. Len(input.ends) /\ q - p = PerFrame
        BY <3>3, <4>2, <4>3, <4>4
      <4>6. staged[h + 1].from = EndOf(p) /\ staged[h + 1].to = EndOf(q)
        BY <4>2, <4>3
      <4> HIDE DEF p, q
      <4> QED
        BY <4>1, <4>5, <4>6, HeldBetween DEF IInv
    <3>5. 0 \in 0 .. i /\ i \in 0 .. i
      BY <3>1
    <3> QED
      BY <2>3, <3>4, <3>5 DEF Reported
  <2> QED
    BY <2>2, <2>3
<1> QED
  BY <1>1, Inductive, PTL
================================================================================
