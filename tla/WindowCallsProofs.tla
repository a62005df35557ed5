--------------------------- MODULE WindowCallsProofs ---------------------------
(***************************************************************************)
(* Whatever calls are made of the window, in whatever order, the buffer    *)
(* grows no longer than what it is read for, and each call hands out the   *)
(* records that the window by record says.                                 *)
(***************************************************************************)
EXTENDS WindowCalls, RecordWindowProofs

\* The inductive invariant: what every call keeps of the window, read by the
\* reader of a whole file.
CallsInv == WindowInv /\ reader = Whole(input)

\* The reader of a whole file: its frames are those of the file.
LEMMA WholeIs ==
  ASSUME input \in Inputs, reader = Whole(input)
  PROVE  ReaderOK /\ DOMAIN reader.frames = DOMAIN input.frames
<1>1. reader.base = 0 /\ reader.guard = FrameEnds(input) /\ reader.frames = Spans(input)
  BY DEF Whole
<1>2. /\ Len(input.frames) \in Nat \ {0} /\ DOMAIN input.frames = 1 .. Len(input.frames)
      /\ Bytes \in Nat
  BY FileIs
<1> DEFINE s == Spans(input)
<1>3. /\ Len(s) = Len(input.frames) /\ DOMAIN s = DOMAIN input.frames
      /\ \A f \in DOMAIN s : s[f].start \in Nat /\ s[f].end \in Nat /\ s[f].end <= Bytes
      /\ \A f, g \in DOMAIN s : f <= g => s[f].start <= s[g].end
  BY SpansAre
<1> HIDE DEF s
<1>4. reader.frames = s
  BY <1>1 DEF s
<1>5. ReaderOK
  BY <1>1, <1>2, <1>3, <1>4 DEF ReaderOK
<1> QED
  BY <1>3, <1>4, <1>5

LEMMA CallsInit ==
  ASSUME Init
  PROVE  CallsInv
<1>1. input \in Inputs /\ OpenedAt(Whole(input)) /\ reader = Whole(input)
  BY DEF Init, OpenedAt
<1>2. WindowInv
  BY <1>1, WholeIs, OpenedAtKeeps
<1> QED
  BY <1>1, <1>2 DEF CallsInv

LEMMA CallsNext ==
  ASSUME CallsInv, [Next]_vars
  PROVE  CallsInv'
<1>1. WindowInv /\ reader = Whole(input) /\ input \in Inputs
  BY DEF CallsInv, WindowInv
<1>2. DOMAIN reader.frames = DOMAIN input.frames
  BY <1>1, WholeIs
<1>3. input' = input /\ reader' = reader => reader' = Whole(input)'
  BY <1>1
<1>4. CASE LookUpRecord
  <2>1. PICK f \in DOMAIN input.frames, index \in 0 .. MaxSkip : LookUp(f, index, frame)
    BY <1>4 DEF LookUpRecord
  <2>2. index \in Nat /\ f \in DOMAIN reader.frames
    BY <1>2
  <2>3. WindowInv'
    BY <1>1, <2>1, <2>2, LookUpKeeps
  <2> QED
    BY <1>3, <2>1, <2>3 DEF CallsInv, LookUp
<1>5. CASE ReadFrames
  <2>1. PICK first \in DOMAIN input.frames, last \in DOMAIN input.frames,
             skip \in 0 .. MaxSkip, n \in 0 .. MaxLeft :
               first <= last /\ ReadSpan(first, last, skip, n, NoWatch)
    BY <1>5 DEF ReadFrames
  <2>2. skip \in Nat /\ n \in Nat /\ first \in DOMAIN reader.frames /\ last \in DOMAIN reader.frames
    BY <1>2
  <2>3. NoWatch \in WatchType /\ DOMAIN NoWatch.at = {}
    BY <1>1, CallIs
  <2>4. \A j, k \in DOMAIN NoWatch.at : j <= k => NoWatch.at[j] <= NoWatch.at[k]
    BY <2>3
  <2>5. WindowInv'
    BY <1>1, <2>1, <2>2, <2>3, <2>4, ReadSpanKeeps
  <2> QED
    BY <1>3, <2>1, <2>5 DEF CallsInv, ReadSpan
<1>6. CASE ReadOn
  <2>1. PICK n \in 0 .. MaxLeft : GoOn(n, span.last = Len(input.frames))
    BY <1>6 DEF ReadOn
  <2>2. n \in Nat /\ (span.last = Len(input.frames)) \in BOOLEAN /\ window.limit > 0
    BY <1>6 DEF ReadOn
  <2>3. WindowInv'
    BY <1>1, <2>1, <2>2, GoOnKeeps
  <2> QED
    BY <1>3, <2>1, <2>3 DEF CallsInv, GoOn
<1>7. CASE StepOfCall
  <2>1. Step
    BY <1>7 DEF StepOfCall
  <2>2. WindowInv' /\ input' = input /\ reader' = reader
    BY <1>1, <2>1, StepKeeps DEF Step, TakeRun, ReadMore, RunOutSkipping, RunOutHanding, Finish
  <2> QED
    BY <1>3, <2>2 DEF CallsInv
<1>8. CASE UNCHANGED vars
  <2>1. UNCHANGED <<input, reader, window, frame, call, got>>
    BY <1>8 DEF vars, windowVars
  <2>2. ReaderOK' = ReaderOK /\ Longest' = Longest /\ Buffered(window)' = Buffered(window)
        /\ Guarded(window)' = Guarded(window) /\ CallOK' = CallOK
    BY <2>1 DEF ReaderOK, Longest, Buffered, Guarded, Loaded, CallOK, Bytes, FrameEnds
  <2> QED
    BY <1>1, <2>1, <2>2 DEF CallsInv, WindowInv
<1> QED
  BY <1>4, <1>5, <1>6, <1>7, <1>8 DEF Next

LEMMA CallsKept == Spec => []CallsInv
<1>1. Init => CallsInv
  BY CallsInit
<1>2. CallsInv /\ [Next]_vars => CallsInv'
  BY CallsNext
<1> QED
  BY <1>1, <1>2, PTL DEF Spec

\* What is buffered stays within the span and the buffer, the walk within what
\* is buffered, and what can be walked back to behind the walk.
THEOREM TypeCorrect == Spec => []TypeOK
<1>1. CallsInv => TypeOK
  <2> SUFFICES ASSUME CallsInv PROVE TypeOK
    OBVIOUS
  <2>1. WindowInv
    BY DEF CallsInv
  <2>2. call.busy \in BOOLEAN /\ call.skip \in Nat /\ call.left \in Nat
    BY <2>1, CallIs
  <2> QED
    BY <2>1, <2>2 DEF WindowInv, Buffered, WindowType, TypeOK
<1> QED
  BY <1>1, CallsKept, PTL

\* Whatever is looked up, read and read on in whatever order, and however little
\* each read brings in, the buffer stays below twice the longest record or
\* fragment: it doubles only when nothing of what fills it is consumed and no
\* record ends in it (grow_if_full).
THEOREM GrowthBounded == Spec => []GrowthIsBounded
<1>1. CallsInv => GrowthIsBounded
  BY DEF CallsInv, WindowInv, GrowthIsBounded
<1> QED
  BY <1>1, CallsKept, PTL

--------------------------------------------------------------------------------
(***************************************************************************)
(* The file by record: each frame ends where so many records do.           *)
(***************************************************************************)
\* The frames of such a file begin and end at ends of records, and a last end
\* that is none lies behind all records.
LEMMA FileByRecord ==
  ASSUME input \in Inputs, reader = Whole(input)
  PROVE  /\ Len(FileOf(input).ends) = Len(input.frames)
         /\ DOMAIN FileOf(input).ends = DOMAIN input.frames
         /\ FileOf(input).part = (Bytes \notin input.ends)
         /\ FileOf(input).separated = input.separated
         /\ \A f \in DOMAIN input.frames :
              /\ FileOf(input).ends[f] = Count(reader.frames[f].end)
              /\ reader.frames[f].end = input.frames[f]
              /\ Calls!StartOf(f) = Count(reader.frames[f].start)
              /\ reader.frames[f].start \in input.ends \cup {0}
              /\ f # Len(input.frames) => reader.frames[f].end \in input.ends
         /\ Bytes > 0
<1> DEFINE n == Len(input.frames)
           s == Spans(input)
           ends == FileOf(input).ends
<1>1. /\ n \in Nat \ {0} /\ DOMAIN input.frames = 1 .. n
      /\ \A f \in DOMAIN input.frames : input.frames[f] \in Nat
      /\ Bytes \in Nat /\ input.ends \in SUBSET Nat /\ \A e \in input.ends : e \in 1 .. Bytes
  BY FileIs
<1>2. /\ DOMAIN s = DOMAIN input.frames
      /\ \A f \in DOMAIN s : /\ s[f].start = (IF f = 1 THEN 0 ELSE input.frames[f - 1])
                             /\ s[f].end = input.frames[f]
  BY SpansAre
<1>3. reader.frames = s
  BY DEF Whole
<1>4. /\ ends = [f \in DOMAIN input.frames |-> Cardinality({e \in input.ends : e <= input.frames[f]})]
      /\ FileOf(input).part = (Bytes \notin input.ends)
      /\ FileOf(input).separated = input.separated
  BY DEF FileOf, Bytes
<1>5. /\ PerFrame(input) > 0
      /\ \A f \in DOMAIN input.frames : f # n => input.frames[f] \in input.ends
  BY FramesAssumption
<1> HIDE DEF s, ends, n
<1>6. Len(ends) = n
  BY <1>1, <1>4
<1>7. ASSUME NEW x \in Nat PROVE {e \in input.ends : e <= x} = EndsIn(0, x)
  <2>1. \A e \in input.ends : 0 < e
    BY <1>1
  <2> QED
    BY <2>1 DEF EndsIn
<1>8. ASSUME NEW f \in DOMAIN input.frames PROVE ends[f] = Count(input.frames[f])
  BY <1>1, <1>4, <1>7 DEF Count
<1>9. ASSUME NEW f \in DOMAIN input.frames
      PROVE  /\ ends[f] = Count(reader.frames[f].end) /\ reader.frames[f].end = input.frames[f]
             /\ f # n => reader.frames[f].end \in input.ends
  BY <1>2, <1>3, <1>5, <1>8
<1>10. ASSUME NEW f \in DOMAIN input.frames
       PROVE  /\ Calls!StartOf(f) = Count(reader.frames[f].start)
              /\ reader.frames[f].start \in input.ends \cup {0}
  <2>1. Calls!StartOf(f) = IF f = 1 THEN 0 ELSE ends[f - 1]
    BY DEF Calls!StartOf, ends
  <2>2. CASE f = 1
    <3>1. Count(0) = 0
      BY CountIs DEF Count
    <3> QED
      BY <1>2, <1>3, <2>1, <2>2, <3>1
  <2>3. CASE f # 1
    <3>1. f - 1 \in DOMAIN input.frames /\ f - 1 # n
      BY <1>1, <2>3
    <3>2. reader.frames[f].start = input.frames[f - 1]
      BY <1>2, <1>3, <2>3
    <3> QED
      BY <1>5, <1>8, <2>1, <2>3, <3>1, <3>2
  <2> QED
    BY <2>2, <2>3
<1>11. Bytes > 0
  <2> SUFFICES ASSUME Bytes = 0 PROVE FALSE
    BY <1>1
  <2>1. input.ends = {}
    BY <1>1
  <2>2. {e \in input.ends : e <= input.frames[1]} = {}
    BY <2>1
  <2>3. PerFrame(input) = Cardinality({e \in input.ends : e <= input.frames[1]})
    BY DEF PerFrame
  <2>4. PerFrame(input) = 0
    BY <2>2, <2>3, FS_EmptySet
  <2> QED
    BY <1>5, <2>4
<1> QED
  BY <1>1, <1>4, <1>6, <1>9, <1>10, <1>11 DEF ends, n

\* Records between two places have the numbers from that of the first on.
LEMMA NumbersOfRecords ==
  ASSUME input \in Inputs, NEW a \in input.ends \cup {0}, NEW b \in Nat, a <= b,
         NEW i \in 1 .. Cardinality(EndsIn(a, b))
  PROVE  NumberOf(Records(a, b)[i]) = Count(a) + i - 1 /\ Count(a) \in Nat
<1> DEFINE S == EndsIn(a, b)
           r == Records(a, b)[i]
<1>1. a \in Nat /\ Cardinality(S) \in Nat /\ 0 \in Nat
  <2>1. a \in Nat
    BY FileIs
  <2> QED
    BY <2>1, EndsInHas
<1>2. /\ DOMAIN Records(a, b) = 1 .. Cardinality(S)
      /\ r[1] \in Nat /\ r[2] \in input.ends
      /\ a <= r[1] /\ r[2] <= b /\ r[2] \in Nat /\ r[1] < r[2]
      /\ \A e \in input.ends : ~(r[1] < e /\ e < r[2])
  <2>1. DOMAIN Records(a, b) = 1 .. Cardinality(S)
    BY <1>1, RecordsAre
  <2>2. i \in DOMAIN Records(a, b)
    BY <2>1
  <2> QED
    BY <1>1, <2>1, <2>2, RecordsAre
<1>3. r = <<IF i = 1 THEN a ELSE Nth(S, i - 1), Nth(S, i)>>
  BY DEF Records
<1> HIDE DEF r
<1>4. EndsIn(r[1], r[2]) = {r[2]}
  BY <1>2, FileIs DEF EndsIn
<1>5. Count(a) \in Nat
  BY <1>1, EndsInHas DEF Count
<1>6. r[1] \in input.ends \cup {0} /\ Count(r[1]) = Count(a) + (i - 1)
  <2>1. CASE i = 1
    <3>1. r[1] = a
      BY <1>3, <2>1
    <3> QED
      BY <1>5, <2>1, <3>1
  <2>2. CASE i # 1
    <3> DEFINE k == i - 1
               x == r[1]
    <3>1. k \in 1 .. Cardinality(S)
      BY <1>1, <2>2
    <3>2. x = Nth(S, k)
      BY <1>3, <2>2
    <3>3. S \in SUBSET Nat /\ \A e \in S : e <= b
      BY <1>1, EndsInHas
    <3> HIDE DEF x, k, S
    <3>4. x \in S /\ Cardinality(Upto(S, x)) = k
      BY <3>1, <3>2, <3>3, NthIs
    <3>5. x \in input.ends /\ a < x /\ x <= b /\ x \in Nat
      BY <1>1, <3>4, EndsInHas DEF S
    <3>6. Upto(S, x) = EndsIn(a, x)
      <4>1. \A e \in input.ends : e \in Nat
        BY FileIs
      <4> QED
        BY <1>1, <3>5, <4>1 DEF Upto, EndsIn, S
    <3>7. Cardinality(EndsIn(0, x)) = Cardinality(EndsIn(0, a)) + Cardinality(EndsIn(a, x))
      BY <1>1, <3>5, CountSplit
    <3>8. Count(x) = Count(a) + k
      BY <3>4, <3>6, <3>7 DEF Count
    <3> QED
      BY <3>5, <3>8 DEF x, k
  <2> QED
    BY <2>1, <2>2
<1>7. NumberOf(r) = Count(r[1])
  BY <1>4, <1>6 DEF NumberOf
<1>8. i \in Nat
  BY <1>1
<1> HIDE DEF S
<1>9. NumberOf(r) = Count(a) + i - 1
  BY <1>5, <1>6, <1>7, <1>8
<1> QED
  BY <1>5, <1>9 DEF r

--------------------------------------------------------------------------------
(***************************************************************************)
(* The window by record.                                                   *)
(***************************************************************************)
SpanType ==
  [first : Nat, last : Nat, walked : Nat, front : Nat, eof : BOOLEAN, taken : BOOLEAN]

\* A window over a span of frames has counted what it walked, and is spent only
\* behind the last record that ends there.
Over(w, s) ==
  /\ s.first \in DOMAIN input.frames /\ s.last \in DOMAIN input.frames /\ s.first <= s.last
  /\ Counted(w, reader.frames[s.first].start)
  /\ w.limit = reader.frames[s.last].end
  /\ w.eof => w.front = w.walked /\ Held(w) = {}

\* Two windows by record are the same if all there is to them is.
LEMMA SameSpan ==
  ASSUME NEW v \in SpanType, NEW u \in SpanType,
         v.first = u.first, v.last = u.last, v.walked = u.walked, v.front = u.front,
         v.eof = u.eof, v.taken = u.taken
  PROVE  v = u
BY DEF SpanType

\* What is left of a window's span, and the number it is at.
LEMMA AsRecords ==
  ASSUME input \in Inputs, reader = Whole(input), NEW w, Buffered(w), NEW s, Over(w, s)
  PROVE  LET v == ByRecord(w, s)
         IN  /\ v \in SpanType /\ v.first = s.first /\ v.last = s.last
             /\ v.walked = w.walked /\ v.front = w.front /\ v.eof = w.eof
             /\ v.front <= v.walked
             /\ Calls!Left(v) = Cardinality(EndsIn(At(w), w.limit)) /\ Calls!Left(v) \in Nat
             /\ Calls!StartOf(v.first) \in Nat
             /\ Calls!NumberOf(v) = Count(At(w)) /\ Calls!NumberOf(v) \in Nat
             /\ Cardinality(Held(w)) <= Calls!Left(v)
<1> DEFINE v == ByRecord(w, s)
           placed == reader.frames[s.first].start
           a == At(w)
           limit == w.limit
<1>1. ReaderOK /\ reader.base = 0
  BY WholeIs DEF Whole
<1>2. /\ a \in Nat /\ Loaded(w) \in Nat /\ a <= Loaded(w) /\ Loaded(w) <= limit
      /\ a = w.offset + w.pos /\ Held(w) = EndsIn(a, Loaded(w))
      /\ w.offset \in Nat /\ limit \in Nat /\ w.pos \in Nat /\ w.walked \in Nat /\ w.front \in Nat
      /\ w.eof \in BOOLEAN
  <2>1. /\ a \in Nat /\ Loaded(w) \in Nat /\ a <= Loaded(w)
        /\ a = reader.base + w.offset + w.pos /\ Loaded(w) <= reader.base + limit
        /\ Held(w) = EndsIn(a, Loaded(w))
        /\ w.offset \in Nat /\ limit \in Nat /\ w.pos \in Nat /\ w.walked \in Nat /\ w.front \in Nat
        /\ w.eof \in BOOLEAN
    BY <1>1, PlacesAre
  <2> HIDE DEF a, limit
  <2> QED
    BY <1>1, <2>1
<1>3. /\ s.first \in Nat /\ s.last \in Nat /\ s.first \in DOMAIN input.frames
      /\ s.last \in DOMAIN input.frames /\ placed \in Nat
  <2>1. /\ s.first \in DOMAIN input.frames /\ s.last \in DOMAIN input.frames
    BY DEF Over
  <2>2. DOMAIN reader.frames = DOMAIN input.frames
    BY WholeIs
  <2> QED
    <3>1. reader.frames[s.first].start \in Nat
      BY <1>1, <2>1, <2>2 DEF ReaderOK
    <3>2. s.first \in Nat /\ s.last \in Nat
      BY <2>1, FileIs
    <3> QED
      BY <2>1, <3>1, <3>2
<1>4. /\ v.first = s.first /\ v.last = s.last /\ v.walked = w.walked /\ v.front = w.front
      /\ v.eof = w.eof /\ v \in SpanType
  BY <1>2, <1>3 DEF ByRecord, SpanType
<1>5. /\ placed <= a /\ w.walked = Cardinality(EndsIn(placed, a))
      /\ limit = reader.frames[s.last].end
  <2>1. placed <= reader.base + w.offset /\ w.walked = Cardinality(EndsIn(placed, At(w)))
        /\ w.limit = reader.frames[s.last].end
    BY DEF Over, Counted
  <2> HIDE DEF placed
  <2>2. placed <= a
    BY <1>1, <1>2, <1>3, <2>1
  <2> QED
    BY <2>1, <2>2
<1>6. v.front <= v.walked
  BY <1>4 DEF Buffered
<1>7. /\ Calls!StartOf(v.first) = Count(placed)
      /\ FileOf(input).ends[v.last] = Count(limit)
  BY <1>3, <1>4, <1>5, FileByRecord
<1> HIDE DEF v, placed, a, limit
<1>8. /\ Count(a) = Count(placed) + Cardinality(EndsIn(placed, a))
      /\ Count(limit) = Count(a) + Cardinality(EndsIn(a, limit))
      /\ Cardinality(EndsIn(a, limit)) =
           Cardinality(EndsIn(a, Loaded(w))) + Cardinality(EndsIn(Loaded(w), limit))
  BY <1>2, <1>3, <1>5, CountSplit DEF Count
<1>9. /\ Count(a) \in Nat /\ Count(placed) \in Nat /\ Count(limit) \in Nat
      /\ Cardinality(EndsIn(placed, a)) \in Nat /\ Cardinality(EndsIn(a, limit)) \in Nat
      /\ Cardinality(EndsIn(a, Loaded(w))) \in Nat /\ Cardinality(EndsIn(Loaded(w), limit)) \in Nat
  BY <1>2, <1>3, CountIs DEF Count
<1>10. Calls!Left(v) = Count(limit) - Count(placed) - w.walked
  BY <1>4, <1>7 DEF Calls!Left
<1>11. Calls!NumberOf(v) = Count(placed) + w.walked
  BY <1>4, <1>7 DEF Calls!NumberOf
<1>12. Calls!Left(v) = Cardinality(EndsIn(a, limit)) /\ Calls!NumberOf(v) = Count(a)
  BY <1>5, <1>8, <1>9, <1>10, <1>11
<1>13. Cardinality(Held(w)) <= Calls!Left(v)
  BY <1>2, <1>8, <1>9, <1>12
<1> QED
  BY <1>4, <1>6, <1>7, <1>9, <1>12, <1>13 DEF v, a, limit

\* At the end of a record the window has taken no fragment, and what follows the
\* last record that ends there is one just when the file ends with one.
LEMMA WhatIsLeft ==
  ASSUME input \in Inputs, reader = Whole(input), NEW w, Buffered(w), NEW s, Over(w, s)
  PROVE  LET v == ByRecord(w, s)
         IN  /\ v.taken => w.eof
             /\ ~Taken(w) => ~v.taken
             /\ w.eof => /\ Loaded(w) = w.limit
                         /\ Calls!Left(v) = 0
                         /\ w.pos < w.filled <=> Calls!HasFragment(v)
                         /\ w.pos < w.filled =>
                              /\ s.last = Len(input.frames) /\ Bytes \notin input.ends
                              /\ Loaded(w) = Bytes /\ At(w) \in input.ends \cup {0}
                              /\ EndsIn(At(w), Bytes) = {}
<1> DEFINE v == ByRecord(w, s)
           n == Len(input.frames)
<1>1. ReaderOK /\ reader.base = 0 /\ Bytes \in Nat /\ n \in DOMAIN input.frames
      /\ Bytes = input.frames[n]
  BY WholeIs, FileIs DEF Whole, Bytes
<1>2. /\ s.first \in DOMAIN input.frames /\ s.last \in DOMAIN input.frames
      /\ Counted(w, reader.frames[s.first].start) /\ w.limit = reader.frames[s.last].end
      /\ w.eof => Held(w) = {}
  BY DEF Over
<1>3. /\ reader.frames[s.first].start \in input.ends \cup {0}
      /\ s.last # n => w.limit \in input.ends
      /\ s.last = n => w.limit = Bytes
      /\ Bytes > 0
      /\ FileOf(input).part = (Bytes \notin input.ends)
      /\ Len(FileOf(input).ends) = n
  BY <1>1, <1>2, FileByRecord
<1>4. v.taken = (w.eof /\ w.pos = w.filled /\ s.last = n /\ Bytes \notin input.ends)
  BY DEF ByRecord
<1>5. /\ At(w) \in input.ends \cup {0} \/ Taken(w)
      /\ w.eof => Loaded(w) = w.limit
  <2>1. /\ At(w) \in input.ends \cup {reader.frames[s.first].start} \/ Taken(w)
        /\ w.eof => Loaded(w) = reader.base + w.limit
    BY <1>2 DEF Counted
  <2>2. w.limit \in Nat
    BY <1>1, PlacesAre
  <2> QED
    BY <1>1, <1>3, <2>1, <2>2
<1>6. /\ At(w) \in Nat /\ Loaded(w) \in Nat /\ At(w) = w.offset + w.pos /\ Loaded(w) = w.offset + w.filled
      /\ At(w) <= Loaded(w) /\ Held(w) = EndsIn(At(w), Loaded(w))
      /\ w.offset \in Nat /\ w.pos \in Nat /\ w.filled \in Nat /\ w.limit \in Nat
  <2>1. /\ At(w) = reader.base + w.offset + w.pos /\ Loaded(w) = reader.base + w.offset + w.filled
        /\ At(w) \in Nat /\ Loaded(w) \in Nat /\ At(w) <= Loaded(w)
        /\ Held(w) = EndsIn(At(w), Loaded(w))
        /\ w.offset \in Nat /\ w.pos \in Nat /\ w.filled \in Nat /\ w.limit \in Nat
    BY <1>1, PlacesAre
  <2> QED
    BY <1>1, <2>1
<1>7. w.pos < w.filled <=> At(w) < Loaded(w)
  BY <1>6
<1>8. v.taken => Taken(w)
  <2> SUFFICES ASSUME v.taken PROVE Taken(w)
    OBVIOUS
  <2>1. w.eof /\ w.pos = w.filled /\ s.last = n /\ Bytes \notin input.ends
    BY <1>4
  <2>2. reader.base + w.limit = Bytes
    BY <1>1, <1>3, <2>1
  <2> QED
    BY <2>1, <2>2 DEF Taken
<1>9. ASSUME w.eof
      PROVE  /\ Calls!Left(v) = 0
             /\ w.pos < w.filled <=> Calls!HasFragment(v)
             /\ w.pos < w.filled =>
                  /\ s.last = n /\ Bytes \notin input.ends
                  /\ Loaded(w) = Bytes /\ At(w) \in input.ends \cup {0}
                  /\ EndsIn(At(w), Bytes) = {}
  <2>1. Loaded(w) = w.limit /\ EndsIn(At(w), w.limit) = {}
    BY <1>2, <1>5, <1>6, <1>9
  <2>2. Calls!Left(v) = 0
    BY <2>1, AsRecords, FS_EmptySet
  <2>3. Calls!HasFragment(v) <=> s.last = n /\ Bytes \notin input.ends /\ ~v.taken
    <3>1. v.last = s.last
      BY DEF ByRecord
    <3> QED
      BY <1>3, <3>1 DEF Calls!HasFragment, Calls!LastFrame
  <2>4. ASSUME w.pos < w.filled
        PROVE  s.last = n /\ Bytes \notin input.ends /\ ~v.taken
               /\ Loaded(w) = Bytes /\ At(w) \in input.ends \cup {0} /\ EndsIn(At(w), Bytes) = {}
    <3>1. w.limit \notin input.ends
      BY <1>6, <1>7, <2>1, <2>4 DEF EndsIn
    <3>2. s.last = n /\ w.limit = Bytes
      BY <1>3, <3>1
    <3>3. w.pos # w.filled
      BY <1>6, <2>4
    <3>4. ~Taken(w) /\ ~v.taken
      BY <1>4, <3>3 DEF Taken
    <3> QED
      BY <1>5, <2>1, <3>1, <3>2, <3>4
  <2>5. ASSUME s.last = n, Bytes \notin input.ends, ~v.taken
        PROVE  w.pos < w.filled
    <3>1. w.pos # w.filled /\ w.pos <= w.filled
      BY <1>4, <1>9, <2>5 DEF Buffered
    <3> QED
      BY <1>6, <3>1
  <2> QED
    BY <2>2, <2>3, <2>4, <2>5
<1>10. v.taken => w.eof
  BY <1>4
<1> QED
  BY <1>5, <1>8, <1>9, <1>10 DEF v, n

--------------------------------------------------------------------------------
(***************************************************************************)
(* Where a call is in a read of the window by record.                      *)
(***************************************************************************)
\* A call that has begun at v passes skip records and hands out n: it has walked
\* over those it no longer has to, the first record buffered is one it has stood
\* on, and what it handed out are the records behind those that were passed.
Underway(v, skip, n, short, w, s, c, answer) ==
  /\ v \in SpanType /\ v.first = s.first /\ v.last = s.last
  /\ skip \in Nat /\ n \in Nat /\ c.skip \in 0 .. skip /\ c.left \in 0 .. n
  /\ c.skip > 0 => c.left = n
  /\ w.walked = v.walked + (skip - c.skip) + (n - c.left)
  /\ IF v.eof THEN w.eof /\ w.front = v.front
     ELSE \/ ~w.eof /\ w.front \in {v.front} \cup v.walked .. w.walked - 1
          \/ w.front = w.walked /\ (c.skip > 0 \/ c.left > 0)
  /\ v.taken = ByRecord(w, s).taken
  /\ answer \in Seq(Nat \X Nat) /\ Len(answer) = n - c.left
  /\ \A i \in 1 .. n - c.left : NumberOf(answer[i]) = Calls!NumberOf(v) + skip + i - 1
  /\ short = IF c.skipWhole THEN Refused ELSE <<>>
  /\ Bytes \notin input.ends =>
       /\ c.include = (s.last = Len(input.frames) /\ input.separated)
       /\ c.reject = (s.last = Len(input.frames) /\ ~input.separated)

\* A window by record that some records have been walked past.
Behind(u, v, k, front) ==
  /\ u \in SpanType /\ u.walked = v.walked + k /\ u.front = front
  /\ u.first = v.first /\ u.last = v.last /\ u.eof = v.eof /\ u.taken = v.taken
  /\ Calls!Left(v) \in Int /\ Calls!Left(u) = Calls!Left(v) - k
  /\ Calls!NumberOf(v) \in Nat /\ Calls!NumberOf(u) = Calls!NumberOf(v) + k
  /\ Calls!HasFragment(u) = Calls!HasFragment(v)

LEMMA PassedOver ==
  ASSUME input \in Inputs, reader = Whole(input), NEW v \in SpanType,
         v.first \in DOMAIN input.frames, v.last \in DOMAIN input.frames,
         NEW k \in Nat, NEW front \in Nat,
         NEW u, u = [v EXCEPT !.walked = v.walked + k, !.front = front]
  PROVE  Behind(u, v, k, front)
<1> DEFINE end == FileOf(input).ends[v.last]
           start == Calls!StartOf(v.first)
<1>1. /\ u \in SpanType /\ u.walked = v.walked + k /\ u.front = front
      /\ u.first = v.first /\ u.last = v.last /\ u.eof = v.eof /\ u.taken = v.taken
      /\ v.walked \in Nat
  <2>1. v.walked \in Nat
    BY DEF SpanType
  <2>2. PICK m \in Nat : m = v.walked + k
    BY <2>1
  <2>3. u = [v EXCEPT !.walked = m, !.front = front]
    BY <2>2
  <2>4. /\ u \in SpanType /\ u.walked = m /\ u.front = front
        /\ u.first = v.first /\ u.last = v.last /\ u.eof = v.eof /\ u.taken = v.taken
    BY <2>3 DEF SpanType
  <2> QED
    BY <2>1, <2>2, <2>4
<1>2. end \in Nat /\ start \in Nat
  <2>1. ReaderOK /\ DOMAIN reader.frames = DOMAIN input.frames
    BY WholeIs
  <2>2. reader.frames[v.first].start \in Nat /\ reader.frames[v.last].end \in Nat
    BY <2>1 DEF ReaderOK
  <2>3. end = Count(reader.frames[v.last].end) /\ start = Count(reader.frames[v.first].start)
    BY FileByRecord
  <2> HIDE DEF end, start
  <2> QED
    BY <2>2, <2>3, CountIs DEF Count
<1>3. /\ Calls!Left(v) = end - start - v.walked /\ Calls!NumberOf(v) = start + v.walked
      /\ Calls!Left(u) = end - start - u.walked /\ Calls!NumberOf(u) = start + u.walked
  BY <1>1 DEF Calls!Left, Calls!NumberOf
<1>4. Calls!HasFragment(u) = Calls!HasFragment(v)
  BY <1>1 DEF Calls!HasFragment
<1> HIDE DEF end, start
<1>5. /\ Calls!Left(v) \in Int /\ Calls!Left(u) = Calls!Left(v) - k
      /\ Calls!NumberOf(v) \in Nat /\ Calls!NumberOf(u) = Calls!NumberOf(v) + k
  BY <1>1, <1>2, <1>3
<1> QED
  BY <1>1, <1>4, <1>5 DEF Behind

\* What is handed out of a window that some records have been walked past, is
\* read by a call that passes them.
LEMMA ReadBehind ==
  ASSUME NEW v, NEW skip, NEW n, NEW short, skip <= Calls!Left(v),
         NEW front \in {v.front} \cup IF v.eof THEN {} ELSE v.walked .. v.walked + skip - 1,
         NEW read \in Calls!HandOut([v EXCEPT !.walked = @ + skip, !.front = front], n)
  PROVE  read \in Calls!Read(v, skip, n, short)
<1>1. [v EXCEPT !.walked = @ + skip, !.front = front] \in Calls!Walk(v, skip)
  BY DEF Calls!Walk
<1> QED
  BY <1>1 DEF Calls!Read

\* The numbers of an answer.
NumbersFrom(m, k) == [i \in 1 .. k |-> m + i - 1]

LEMMA NumbersAre ==
  ASSUME NEW answer \in Seq(Nat \X Nat), NEW m \in Nat, NEW k \in Nat, Len(answer) = k,
         \A i \in 1 .. k : NumberOf(answer[i]) = m + i - 1
  PROVE  Numbers(answer) = NumbersFrom(m, k)
<1>1. answer # Refused
  BY RefusedAssumption
<1>2. DOMAIN answer = 1 .. k
  OBVIOUS
<1>3. Numbers(answer) = [i \in 1 .. k |-> NumberOf(answer[i])]
  BY <1>1, <1>2 DEF Numbers
<1> QED
  BY <1>3 DEF NumbersFrom

\* What is known of a call that is under way, in numbers.
LEMMA UnderwayIs ==
  ASSUME input \in Inputs, reader = Whole(input), NEW w, Buffered(w), NEW s, Over(w, s),
         NEW v, NEW skip, NEW n, NEW short, NEW c, NEW answer,
         Underway(v, skip, n, short, w, s, c, answer)
  PROVE  LET u == ByRecord(w, s)
         IN  /\ v \in SpanType /\ u \in SpanType /\ v.first \in DOMAIN input.frames
             /\ v.last \in DOMAIN input.frames /\ u.first = v.first /\ u.last = v.last
             /\ v.walked \in Nat /\ v.front \in Nat /\ v.eof \in BOOLEAN /\ v.taken \in BOOLEAN
             /\ u.walked = w.walked /\ u.front = w.front /\ u.eof = w.eof /\ u.taken = v.taken
             /\ w.walked \in Nat /\ w.front \in Nat /\ w.eof \in BOOLEAN
             /\ skip \in Nat /\ n \in Nat /\ c.skip \in Nat /\ c.left \in Nat
             /\ c.skip <= skip /\ c.left <= n
             /\ Calls!Left(u) \in Nat
             /\ Calls!Left(v) = Calls!Left(u) + (skip - c.skip) + (n - c.left)
             /\ Calls!NumberOf(u) = Calls!NumberOf(v) + (skip - c.skip) + (n - c.left)
             /\ Calls!NumberOf(v) \in Nat
             /\ Calls!HasFragment(u) = Calls!HasFragment(v)
<1> DEFINE u == ByRecord(w, s)
           k == (skip - c.skip) + (n - c.left)
<1>1. /\ u \in SpanType /\ u.first = s.first /\ u.last = s.last
      /\ u.walked = w.walked /\ u.front = w.front /\ u.eof = w.eof
      /\ Calls!Left(u) \in Nat
  BY AsRecords
<1>2. /\ v \in SpanType /\ v.first = s.first /\ v.last = s.last
      /\ skip \in Nat /\ n \in Nat /\ c.skip \in 0 .. skip /\ c.left \in 0 .. n
      /\ w.walked = v.walked + (skip - c.skip) + (n - c.left)
      /\ v.taken = u.taken
  BY DEF Underway
<1>3. s.first \in DOMAIN input.frames /\ s.last \in DOMAIN input.frames
  BY DEF Over
<1>4. /\ v.walked \in Nat /\ v.front \in Nat /\ v.eof \in BOOLEAN /\ v.taken \in BOOLEAN
      /\ u.walked \in Nat /\ u.front \in Nat /\ u.eof \in BOOLEAN
  BY <1>1, <1>2 DEF SpanType
<1> HIDE DEF u
<1>5. /\ c.skip \in Nat /\ c.left \in Nat /\ c.skip <= skip /\ c.left <= n
      /\ k \in Nat /\ u.walked = v.walked + k
  BY <1>1, <1>2, <1>4
<1> HIDE DEF k
<1>6. /\ Calls!Left(v) \in Int /\ Calls!NumberOf(v) \in Nat
      /\ Calls!Left(u) = Calls!Left(v) - k /\ Calls!NumberOf(u) = Calls!NumberOf(v) + k
      /\ Calls!HasFragment(u) = Calls!HasFragment(v)
  <2> DEFINE x == [v EXCEPT !.walked = @ + k, !.front = v.front]
  <2>1. Behind(x, v, k, v.front)
    <3>1. /\ v \in SpanType /\ v.first \in DOMAIN input.frames /\ v.last \in DOMAIN input.frames
          /\ k \in Nat /\ v.front \in Nat
      BY <1>2, <1>3, <1>4, <1>5
    <3>2. x = [v EXCEPT !.walked = v.walked + k, !.front = v.front]
      OBVIOUS
    <3> HIDE DEF x
    <3> QED
      BY <3>1, <3>2, PassedOver
  <2> HIDE DEF x
  <2>2. u.walked = x.walked /\ u.first = x.first /\ u.last = x.last /\ u.taken = x.taken
    BY <1>1, <1>2, <1>5, <2>1 DEF Behind
  <2>3. /\ Calls!Left(u) = Calls!Left(x) /\ Calls!NumberOf(u) = Calls!NumberOf(x)
        /\ Calls!HasFragment(u) = Calls!HasFragment(x)
    BY <2>2 DEF Calls!Left, Calls!NumberOf, Calls!HasFragment
  <2> QED
    BY <2>1, <2>3 DEF Behind
<1>7. /\ Calls!Left(v) = Calls!Left(u) + k /\ Calls!NumberOf(u) = Calls!NumberOf(v) + k
  BY <1>1, <1>5, <1>6
<1>8. Calls!Left(u) + k = Calls!Left(u) + (skip - c.skip) + (n - c.left)
      /\ Calls!NumberOf(v) + k = Calls!NumberOf(v) + (skip - c.skip) + (n - c.left)
  BY <1>1, <1>2, <1>5, <1>6 DEF k
<1>9. /\ Calls!Left(v) = Calls!Left(u) + (skip - c.skip) + (n - c.left)
      /\ Calls!NumberOf(u) = Calls!NumberOf(v) + (skip - c.skip) + (n - c.left)
  BY <1>7, <1>8
<1> QED
  BY <1>1, <1>2, <1>3, <1>4, <1>5, <1>6, <1>9 DEF u

--------------------------------------------------------------------------------
(***************************************************************************)
(* What a call that returns has read.                                      *)
(***************************************************************************)
\* It runs out among the records to pass.
LEMMA RanOutPassing ==
  ASSUME input \in Inputs, reader = Whole(input), NEW w, Buffered(w), NEW s, Over(w, s),
         NEW v, NEW skip, NEW n, NEW short, NEW c, NEW answer,
         Underway(v, skip, n, short, w, s, c, answer), c.skip > 0, w.eof
  PROVE  [window |-> ByRecord(w, s), got |-> short] \in Calls!Read(v, skip, n, short)
<1> DEFINE u == ByRecord(w, s)
           over == Calls!RunOut(v)
<1>1. /\ v \in SpanType /\ u \in SpanType /\ u.first = v.first /\ u.last = v.last
      /\ v.walked \in Nat /\ v.front \in Nat /\ v.eof \in BOOLEAN
      /\ u.walked = w.walked /\ u.front = w.front /\ u.eof = w.eof /\ u.taken = v.taken
      /\ w.walked \in Nat
      /\ skip \in Nat /\ c.skip \in Nat /\ c.skip <= skip /\ c.left \in Nat /\ n \in Nat
      /\ Calls!Left(v) = Calls!Left(u) + (skip - c.skip) + (n - c.left)
  <2>1. /\ v \in SpanType /\ u \in SpanType /\ v.first \in DOMAIN input.frames
        /\ v.last \in DOMAIN input.frames /\ u.first = v.first /\ u.last = v.last
        /\ v.walked \in Nat /\ v.front \in Nat /\ v.eof \in BOOLEAN
        /\ u.walked = w.walked /\ u.front = w.front /\ u.eof = w.eof /\ u.taken = v.taken
        /\ w.walked \in Nat /\ w.front \in Nat /\ w.eof \in BOOLEAN
    BY ONLY input \in Inputs, reader = Whole(input), Buffered(w), Over(w, s),
            Underway(v, skip, n, short, w, s, c, answer), UnderwayIs
  <2>2. /\ skip \in Nat /\ c.skip \in Nat /\ c.skip <= skip /\ c.left \in Nat /\ n \in Nat
        /\ Calls!Left(v) = Calls!Left(u) + (skip - c.skip) + (n - c.left)
    BY UnderwayIs
  <2> QED
    BY <2>1, <2>2
<1>2. Calls!Left(u) = 0
  BY WhatIsLeft
<1>3. /\ c.left = n /\ w.walked = v.walked + (skip - c.skip) + (n - c.left)
      /\ v.eof => w.front = v.front
      /\ ~v.eof => w.front = w.walked
  BY DEF Underway
<1> HIDE DEF u
<1>4. /\ Calls!Left(v) = skip - c.skip /\ Calls!Left(v) \in Nat
      /\ w.walked = v.walked + Calls!Left(v) /\ ~(skip <= Calls!Left(v))
  BY <1>1, <1>2, <1>3
<1>5. /\ over = [v EXCEPT !.walked = v.walked + Calls!Left(v), !.eof = TRUE,
                          !.front = IF v.eof THEN v.front ELSE v.walked + Calls!Left(v)]
  BY DEF Calls!RunOut
<1>6. PICK front \in Nat : front = (IF v.eof THEN v.front ELSE v.walked + Calls!Left(v))
  BY <1>1, <1>4
<1>7. over = [v EXCEPT !.walked = w.walked, !.eof = TRUE, !.front = front]
  BY <1>4, <1>5, <1>6
<1> HIDE DEF over
<1>8. /\ over \in SpanType /\ over.first = v.first /\ over.last = v.last
      /\ over.walked = w.walked /\ over.front = front /\ over.eof = TRUE /\ over.taken = v.taken
  BY <1>1, <1>7 DEF SpanType
<1>9. u.front = front /\ u.eof = TRUE
  <2>1. u.front = front
    BY <1>1, <1>3, <1>4, <1>6
  <2>2. w.eof \in BOOLEAN
    BY DEF Buffered, WindowType
  <2> QED
    BY <1>1, <2>1, <2>2
<1>10. u = over
  BY <1>1, <1>8, <1>9, SameSpan
<1>11. Calls!Read(v, skip, n, short) = {[window |-> over, got |-> short]}
  BY <1>4 DEF Calls!Read, over
<1> QED
  BY <1>10, <1>11 DEF u

\* It has handed out all it had to.
LEMMA HandedAll ==
  ASSUME input \in Inputs, reader = Whole(input), NEW w, Buffered(w), NEW s, Over(w, s),
         NEW v, NEW skip, NEW n, NEW short, NEW c, NEW answer,
         Underway(v, skip, n, short, w, s, c, answer), c.skip = 0, c.left = 0
  PROVE  [window |-> ByRecord(w, s), got |-> Numbers(answer)] \in Calls!Read(v, skip, n, short)
<1> DEFINE u == ByRecord(w, s)
           m == Calls!NumberOf(v) + skip
           from == IF w.front \in {v.front} \cup IF v.eof THEN {} ELSE v.walked .. v.walked + skip - 1
                   THEN w.front ELSE v.front
           x == [v EXCEPT !.walked = v.walked + skip, !.front = from]
           y == [x EXCEPT !.walked = x.walked + n, !.front = w.front]
<1>1. /\ v \in SpanType /\ u \in SpanType /\ v.first \in DOMAIN input.frames
      /\ v.last \in DOMAIN input.frames /\ u.first = v.first /\ u.last = v.last
      /\ v.walked \in Nat /\ v.front \in Nat /\ v.eof \in BOOLEAN
      /\ u.walked = w.walked /\ u.front = w.front /\ u.eof = w.eof /\ u.taken = v.taken
      /\ w.walked \in Nat /\ w.front \in Nat /\ w.eof \in BOOLEAN
      /\ skip \in Nat /\ n \in Nat
      /\ Calls!Left(u) \in Nat /\ Calls!NumberOf(v) \in Nat
      /\ Calls!Left(v) = Calls!Left(u) + (skip - c.skip) + (n - c.left)
  BY ONLY input \in Inputs, reader = Whole(input), Buffered(w), Over(w, s),
          Underway(v, skip, n, short, w, s, c, answer), UnderwayIs
<1>2. /\ w.walked = v.walked + (skip - c.skip) + (n - c.left)
      /\ v.eof => w.eof /\ w.front = v.front
      /\ ~v.eof => ~w.eof /\ w.front \in {v.front} \cup v.walked .. w.walked - 1
      /\ answer \in Seq(Nat \X Nat) /\ Len(answer) = n - c.left
      /\ \A i \in 1 .. n - c.left : NumberOf(answer[i]) = Calls!NumberOf(v) + skip + i - 1
  BY DEF Underway
<1> HIDE DEF u
<1>3. /\ w.walked = v.walked + skip + n /\ skip <= Calls!Left(v)
      /\ Calls!Left(v) = Calls!Left(u) + skip + n
  BY <1>1, <1>2
<1>4. from \in Nat /\ from \in {v.front} \cup IF v.eof THEN {} ELSE v.walked .. v.walked + skip - 1
  BY <1>1
<1>5. Behind(x, v, skip, from)
  <2>1. x = [v EXCEPT !.walked = v.walked + skip, !.front = from]
    OBVIOUS
  <2> HIDE DEF x, from
  <2> QED
    BY <1>1, <1>4, <2>1, PassedOver
<1>6. /\ x \in SpanType /\ x.walked = v.walked + skip /\ x.front = from /\ x.eof = v.eof
      /\ x.first = v.first /\ x.last = v.last /\ x.taken = v.taken
      /\ Calls!Left(x) = Calls!Left(v) - skip /\ Calls!NumberOf(x) = m
  BY <1>5 DEF Behind
<1> HIDE DEF x
<1>7. Behind(y, x, n, w.front)
  <2>1. y = [x EXCEPT !.walked = x.walked + n, !.front = w.front]
    OBVIOUS
  <2> HIDE DEF y
  <2>2. x.first \in DOMAIN input.frames /\ x.last \in DOMAIN input.frames
    BY <1>1, <1>6
  <2> QED
    BY <1>1, <1>6, <2>1, <2>2, PassedOver
<1>8. /\ w.front \in {x.front} \cup IF x.eof THEN {} ELSE x.walked .. x.walked + n - 1
      /\ x.eof = w.eof
  <2>1. CASE v.eof
    <3>1. from = w.front
      BY <1>2, <2>1
    <3> QED
      BY <1>1, <1>2, <1>6, <2>1, <3>1
  <2>2. CASE ~v.eof
    <3>1. CASE w.front \in {v.front} \cup v.walked .. v.walked + skip - 1
      <4>1. from = w.front
        BY <2>2, <3>1
      <4> QED
        BY <1>1, <1>2, <1>6, <2>2, <4>1
    <3>2. CASE ~(w.front \in {v.front} \cup v.walked .. v.walked + skip - 1)
      <4>1. w.front \in v.walked .. w.walked - 1
        BY <1>2, <2>2, <3>2
      <4> HIDE DEF from
      <4>2. w.front \in v.walked + skip .. v.walked + skip + n - 1
        BY <1>1, <1>3, <3>2, <4>1
      <4> QED
        BY <1>1, <1>2, <1>6, <2>2, <4>2
    <3> QED
      BY <3>1, <3>2
  <2> QED
    BY <2>1, <2>2
<1> HIDE DEF from
<1>9. y \in Calls!Walk(x, n)
  BY <1>8 DEF Calls!Walk
<1>10. u = y
  <2>1. /\ y \in SpanType /\ y.walked = x.walked + n /\ y.front = w.front
        /\ y.first = x.first /\ y.last = x.last /\ y.eof = x.eof /\ y.taken = x.taken
    BY <1>7 DEF Behind
  <2> HIDE DEF y
  <2>2. /\ u.walked = y.walked /\ u.front = y.front /\ u.first = y.first /\ u.last = y.last
        /\ u.eof = y.eof /\ u.taken = y.taken
    BY <1>1, <1>3, <1>6, <1>8, <2>1
  <2> QED
    BY <1>1, <2>1, <2>2, SameSpan
<1> HIDE DEF y
<1>11. Numbers(answer) = [i \in 1 .. n |-> m + i - 1] /\ m \in Nat
  <2>1. m \in Nat /\ n - c.left = n
    BY <1>1
  <2>2. Len(answer) = n /\ \A i \in 1 .. n : NumberOf(answer[i]) = m + i - 1
    BY <1>2, <2>1
  <2>3. answer \in Seq(Nat \X Nat) /\ n \in Nat
    BY <1>1, <1>2
  <2> HIDE DEF m
  <2>4. Numbers(answer) = NumbersFrom(m, n)
    BY ONLY <2>1, <2>2, <2>3, NumbersAre
  <2> QED
    BY <2>1, <2>4 DEF NumbersFrom
<1> HIDE DEF m
<1>12. [window |-> u, got |-> Numbers(answer)] \in Calls!HandOut(x, n)
  <2>1. n <= Calls!Left(x)
    BY <1>1, <1>3, <1>6
  <2>2. Numbers(answer) = [i \in 1 .. n |-> Calls!NumberOf(x) + i - 1]
    BY <1>6, <1>11
  <2> QED
    BY <1>9, <1>10, <2>1, <2>2 DEF Calls!HandOut
<1> QED
  BY <1>3, <1>4, <1>12, ReadBehind DEF u, x

\* It runs out among the records to hand out: then these are all there are, and
\* what the file may end with is handed out too, refused, or not there.
LEMMA RanOutHanding ==
  ASSUME input \in Inputs, reader = Whole(input), NEW w, Buffered(w), NEW s, Over(w, s),
         NEW v, NEW skip, NEW n, NEW short, NEW c, NEW answer,
         Underway(v, skip, n, short, w, s, c, answer), c.skip = 0, c.left > 0, w.eof
  PROVE  LET u == ByRecord(w, s)
             all(k) == [i \in 1 .. k |-> Calls!NumberOf(v) + skip + i - 1]
         IN  /\ ~Calls!HasFragment(u) =>
                  [window |-> u, got |-> all(n - c.left)] \in Calls!Read(v, skip, n, short)
             /\ Calls!HasFragment(u) /\ ~input.separated =>
                  [window |-> u, got |-> Refused] \in Calls!Read(v, skip, n, short)
             /\ Calls!HasFragment(u) /\ input.separated =>
                  [window |-> [u EXCEPT !.taken = TRUE], got |-> all(n - c.left + 1)]
                    \in Calls!Read(v, skip, n, short)
<1> DEFINE u == ByRecord(w, s)
           m == Calls!NumberOf(v) + skip
           k == n - c.left
           x == [v EXCEPT !.walked = v.walked + skip, !.front = v.front]
           over == Calls!RunOut(x)
<1>1. /\ v \in SpanType /\ u \in SpanType /\ v.first \in DOMAIN input.frames
      /\ v.last \in DOMAIN input.frames /\ u.first = v.first /\ u.last = v.last
      /\ v.walked \in Nat /\ v.front \in Nat /\ v.eof \in BOOLEAN
      /\ u.walked = w.walked /\ u.front = w.front /\ u.eof = w.eof /\ u.taken = v.taken
      /\ w.walked \in Nat /\ w.front \in Nat /\ w.eof \in BOOLEAN
      /\ skip \in Nat /\ n \in Nat /\ c.left \in Nat /\ c.left <= n
      /\ Calls!NumberOf(v) \in Nat
      /\ Calls!Left(v) = Calls!Left(u) + (skip - c.skip) + (n - c.left)
      /\ Calls!HasFragment(u) = Calls!HasFragment(v)
  BY ONLY input \in Inputs, reader = Whole(input), Buffered(w), Over(w, s),
          Underway(v, skip, n, short, w, s, c, answer), UnderwayIs
<1>2. Calls!Left(u) = 0
  BY WhatIsLeft
<1>3. /\ w.walked = v.walked + (skip - c.skip) + (n - c.left)
      /\ v.eof => w.front = v.front
      /\ ~v.eof => w.front = w.walked
  BY DEF Underway
<1> HIDE DEF u
<1>4. /\ k \in Nat /\ k + 1 \in Nat /\ ~(n <= k) /\ Calls!Left(v) = skip + k /\ skip <= Calls!Left(v)
      /\ w.walked = v.walked + skip + k /\ m \in Nat
  BY <1>1, <1>2, <1>3
<1> HIDE DEF k
<1>5. Behind(x, v, skip, v.front)
  <2>1. x = [v EXCEPT !.walked = v.walked + skip, !.front = v.front]
    OBVIOUS
  <2> HIDE DEF x
  <2> QED
    BY <1>1, <2>1, PassedOver
<1>6. /\ x \in SpanType /\ x.walked = v.walked + skip /\ x.front = v.front /\ x.eof = v.eof
      /\ x.first = v.first /\ x.last = v.last /\ x.taken = v.taken
      /\ Calls!Left(x) = Calls!Left(v) - skip /\ Calls!NumberOf(x) = m
      /\ Calls!HasFragment(x) = Calls!HasFragment(v)
  BY <1>5 DEF Behind
<1>7. /\ v.front \in {v.front} \cup IF v.eof THEN {} ELSE v.walked .. v.walked + skip - 1
      /\ x = [v EXCEPT !.walked = @ + skip, !.front = v.front]
  OBVIOUS
<1> HIDE DEF x
<1>8. Calls!Left(x) = k /\ x.walked + k = w.walked
  BY <1>1, <1>4, <1>6
<1>9. u = over
  <2>1. over = [x EXCEPT !.walked = x.walked + Calls!Left(x), !.eof = TRUE,
                         !.front = IF x.eof THEN x.front ELSE x.walked + Calls!Left(x)]
    BY DEF Calls!RunOut
  <2>2. w.front = (IF x.eof THEN x.front ELSE x.walked + Calls!Left(x))
    BY <1>1, <1>3, <1>6, <1>8
  <2>3. over = [x EXCEPT !.walked = w.walked, !.eof = TRUE, !.front = w.front]
    BY <1>8, <2>1, <2>2
  <2> HIDE DEF over
  <2>4. /\ over \in SpanType /\ over.first = x.first /\ over.last = x.last
        /\ over.walked = w.walked /\ over.front = w.front /\ over.eof = TRUE /\ over.taken = x.taken
    BY <1>1, <1>6, <2>3 DEF SpanType
  <2>5. /\ u \in SpanType /\ u.first = over.first /\ u.last = over.last /\ u.walked = over.walked
        /\ u.front = over.front /\ u.eof = over.eof /\ u.taken = over.taken
    BY <1>1, <1>6, <2>4
  <2> QED
    BY ONLY <2>4, <2>5, SameSpan
<1>10. ASSUME NEW read \in Calls!HandOut(x, n) PROVE read \in Calls!Read(v, skip, n, short)
  BY <1>4, <1>7, ReadBehind
<1> DEFINE numbers(j) == [i \in 1 .. j |-> m + i - 1]
<1>11. \A j : numbers(j) = [i \in 1 .. j |-> Calls!NumberOf(x) + i - 1]
  BY <1>6
<1>12. ~(n <= Calls!Left(x))
  BY <1>4, <1>8
<1>13. ASSUME ~Calls!HasFragment(u)
       PROVE  [window |-> u, got |-> numbers(k)] \in Calls!Read(v, skip, n, short)
  <2>1. ~Calls!HasFragment(x)
    BY <1>1, <1>6, <1>13
  <2>2. Calls!HandOut(x, n) =
          {[window |-> Calls!RunOut(x),
            got |-> [i \in 1 .. Calls!Left(x) |-> Calls!NumberOf(x) + i - 1]]}
    BY <1>12, <2>1 DEF Calls!HandOut
  <2>3. [window |-> u, got |-> numbers(k)] \in Calls!HandOut(x, n)
    BY <1>6, <1>8, <1>9, <2>2
  <2> QED
    BY <1>10, <2>3
<1>14. ASSUME Calls!HasFragment(u), ~input.separated
       PROVE  [window |-> u, got |-> Refused] \in Calls!Read(v, skip, n, short)
  <2>1. Calls!HasFragment(x) /\ ~Calls!TailIsRecord
    BY <1>1, <1>6, <1>14, FileByRecord DEF Calls!TailIsRecord
  <2>2. [window |-> u, got |-> Refused] \in Calls!HandOut(x, n)
    BY <1>9, <1>12, <2>1 DEF Calls!HandOut
  <2> QED
    BY <1>10, <2>2
<1>15. ASSUME Calls!HasFragment(u), input.separated
       PROVE  [window |-> [u EXCEPT !.taken = TRUE], got |-> numbers(k + 1)]
                \in Calls!Read(v, skip, n, short)
  <2>1. Calls!HasFragment(x) /\ Calls!TailIsRecord
    BY <1>1, <1>6, <1>15, FileByRecord DEF Calls!TailIsRecord
  <2>2. Calls!HandOut(x, n) =
          {[window |-> [Calls!RunOut(x) EXCEPT !.taken = TRUE],
            got |-> [i \in 1 .. Calls!Left(x) + 1 |-> Calls!NumberOf(x) + i - 1]]}
    BY <1>12, <2>1 DEF Calls!HandOut
  <2>3. [window |-> [u EXCEPT !.taken = TRUE], got |-> numbers(k + 1)] \in Calls!HandOut(x, n)
    BY <1>6, <1>8, <1>9, <2>2
  <2> QED
    BY <1>10, <2>3
<1> QED
  BY <1>13, <1>14, <1>15 DEF u, k

--------------------------------------------------------------------------------
(***************************************************************************)
(* The steps of a call.                                                    *)
(***************************************************************************)
\* What is appended follows what was there.
LEMMA Appended ==
  ASSUME NEW T, NEW a \in Seq(T), NEW b \in Seq(T)
  PROVE  /\ a \o b \in Seq(T) /\ Len(a \o b) = Len(a) + Len(b)
         /\ \A i \in 1 .. Len(a) + Len(b) : (a \o b)[i] = IF i <= Len(a) THEN a[i] ELSE b[i - Len(a)]
BY ConcatProperties

\* A run of records that are passed or handed out.
LEMMA RunGoesOn ==
  ASSUME input \in Inputs, reader = Whole(input), NEW w, Buffered(w), NEW s, Over(w, s),
         NEW v, NEW skip, NEW n, NEW short, NEW c, NEW answer,
         Underway(v, skip, n, short, w, s, c, answer), Held(w) # {},
         NEW want \in Nat \ {0}, want = (IF c.skip > 0 THEN c.skip ELSE c.left),
         NEW x, x = Walk(w, want), NEW d,
         d.skip = IF c.skip > 0 THEN c.skip - (x.walked - w.walked) ELSE c.skip,
         d.left = IF c.skip > 0 THEN c.left ELSE c.left - (x.walked - w.walked),
         d.skipWhole = c.skipWhole, d.include = c.include, d.reject = c.reject,
         NEW more, more = IF c.skip > 0 THEN answer ELSE answer \o Records(At(w), At(x))
  PROVE  Over(x, s) /\ Underway(v, skip, n, short, x, s, d, more)
<1> DEFINE placed == reader.frames[s.first].start
           count == x.walked - w.walked
           from == At(w)
           upto == At(x)
<1>1. ReaderOK /\ DOMAIN reader.frames = DOMAIN input.frames
  BY WholeIs
<1>2. /\ s.first \in DOMAIN input.frames /\ s.last \in DOMAIN input.frames /\ s.first <= s.last
      /\ Counted(w, placed) /\ w.limit = reader.frames[s.last].end
      /\ w.eof => Held(w) = {}
  BY DEF Over
<1>3. placed \in Nat /\ placed \in input.ends \cup {0}
  BY <1>1, <1>2, FileByRecord DEF ReaderOK
<1>4. w.eof \in BOOLEAN /\ w.eof = FALSE
  BY <1>2 DEF Buffered, WindowType
<1>5. /\ Buffered(x) /\ x.limit = w.limit /\ upto \in input.ends /\ from < upto
      /\ x.walked = w.walked + Cardinality(EndsIn(from, upto)) /\ count \in 1 .. want
  BY <1>1, WalkIs
<1>6. x.front = w.front /\ x.eof = FALSE
  BY <1>4 DEF Walk, Buffered, WindowType
<1>7. Counted(x, placed)
  <2> HIDE DEF placed
  <2> QED
    BY <1>1, <1>2, <1>3, WalkCounts
<1>8. Over(x, s)
  BY <1>2, <1>5, <1>6, <1>7 DEF Over
<1>9. /\ v \in SpanType /\ v.walked \in Nat /\ w.walked \in Nat /\ w.front \in Nat /\ v.eof \in BOOLEAN
      /\ skip \in Nat /\ n \in Nat /\ c.skip \in Nat /\ c.left \in Nat
      /\ c.skip <= skip /\ c.left <= n
      /\ Calls!NumberOf(ByRecord(w, s)) = Calls!NumberOf(v) + (skip - c.skip) + (n - c.left)
      /\ Calls!NumberOf(v) \in Nat
  BY ONLY input \in Inputs, reader = Whole(input), Buffered(w), Over(w, s),
          Underway(v, skip, n, short, w, s, c, answer), UnderwayIs
<1>10. /\ c.skip > 0 => c.left = n
       /\ w.walked = v.walked + (skip - c.skip) + (n - c.left)
       /\ v.eof => w.eof
       /\ ~v.eof => w.front \in {v.front} \cup v.walked .. w.walked - 1 \/ w.front = w.walked
  BY DEF Underway
<1>20. /\ c.skip \in Nat /\ c.left \in Nat /\ skip \in Nat /\ n \in Nat /\ c.skip <= skip /\ c.left <= n
      /\ v.walked \in Nat /\ w.walked \in Nat /\ v.eof \in BOOLEAN /\ w.front \in Nat
  BY <1>9
<1>11. /\ v.first = s.first /\ v.last = s.last
       /\ v.taken = ByRecord(w, s).taken
       /\ answer \in Seq(Nat \X Nat) /\ Len(answer) = n - c.left
       /\ \A i \in 1 .. n - c.left : NumberOf(answer[i]) = Calls!NumberOf(v) + skip + i - 1
       /\ short = IF d.skipWhole THEN Refused ELSE <<>>
       /\ Bytes \notin input.ends =>
            /\ d.include = (s.last = Len(input.frames) /\ input.separated)
            /\ d.reject = (s.last = Len(input.frames) /\ ~input.separated)
  BY DEF Underway
<1>12. count \in Nat /\ count >= 1 /\ x.walked = w.walked + count /\ count = Cardinality(EndsIn(from, upto))
  <2>1. Cardinality(EndsIn(from, upto)) \in Nat
    <3>1. from \in Nat /\ upto \in Nat
      BY <1>1, <1>5, PlacesAre
    <3> QED
      BY <3>1, CountIs
  <2>2. PICK k \in Nat : k = Cardinality(EndsIn(from, upto))
    BY <2>1
  <2>3. x.walked = w.walked + k /\ count \in 1 .. want
    BY <1>5, <2>2
  <2>4. w.walked \in Nat
    BY <1>9
  <2>5. count = k
    BY ONLY <2>2, <2>3, <2>4
  <2> HIDE DEF from, upto
  <2> QED
    BY ONLY <2>2, <2>3, <2>5, want \in Nat \ {0}
<1> HIDE DEF count, from, upto, placed
<1>13. /\ d.skip \in 0 .. skip /\ d.left \in 0 .. n
       /\ d.skip > 0 => d.left = n
       /\ x.walked = v.walked + (skip - d.skip) + (n - d.left)
  <2>1. CASE c.skip > 0
    <3>1. count <= c.skip /\ d.skip = c.skip - count /\ d.left = c.left /\ c.left = n
      BY <1>5, <1>10, <2>1 DEF count
    <3>2. w.walked = v.walked + (skip - c.skip) + (n - c.left)
      BY <1>10
    <3> QED
      BY ONLY <1>20, <1>12, <3>1, <3>2
  <2>2. CASE ~(c.skip > 0)
    <3>1. c.skip = 0
      BY ONLY <1>20, <2>2
    <3>2. d.skip = 0 /\ d.left = c.left - count /\ count <= c.left
      BY <1>5, <2>2, <3>1 DEF count
    <3>3. w.walked = v.walked + (skip - c.skip) + (n - c.left)
      BY <1>10
    <3> QED
      BY ONLY <1>20, <1>12, <3>1, <3>2, <3>3
  <2> QED
    BY <2>1, <2>2
<1>14. ~v.eof /\ x.front \in {v.front} \cup v.walked .. x.walked - 1
  <2>1. ~v.eof
    BY <1>4, <1>10
  <2>2. v.walked <= w.walked
    <3>1. w.walked = v.walked + (skip - c.skip) + (n - c.left)
      BY <1>10
    <3> QED
      BY ONLY <1>20, <3>1
  <2>3. w.front \in {v.front} \cup v.walked .. w.walked - 1 \/ w.front = w.walked
    BY <1>10, <2>1
  <2>4. w.front \in {v.front} \cup v.walked .. x.walked - 1
    BY ONLY <1>20, <1>12, <2>2, <2>3
  <2> QED
    BY <1>6, <2>1, <2>4
<1>15. v.taken = ByRecord(x, s).taken
  BY <1>4, <1>6, <1>11 DEF ByRecord
<1>16. /\ more \in Seq(Nat \X Nat) /\ Len(more) = n - d.left
       /\ \A i \in 1 .. n - d.left : NumberOf(more[i]) = Calls!NumberOf(v) + skip + i - 1
  <2>1. CASE c.skip > 0
    <3>1. more = answer /\ d.left = c.left
      BY <2>1
    <3> QED
      BY <1>11, <3>1
  <2>2. CASE ~(c.skip > 0)
    <3> DEFINE r == Records(from, upto)
               h == n - c.left
               m == Calls!NumberOf(v) + skip
    <3>1. more = answer \o r /\ c.skip = 0 /\ d.left = c.left - count
      <4>1. c.skip = 0
        BY ONLY <1>20, <2>2
      <4> QED
        BY <2>2, <4>1 DEF from, upto, count
    <3>2. from \in input.ends \cup {0} /\ from \in Nat /\ upto \in Nat /\ from <= upto
      <4>1. from \in input.ends \cup {placed} \/ Taken(w)
        BY <1>2 DEF Counted, from
      <4>2. ~Taken(w)
        BY <1>4 DEF Taken
      <4>3. from \in Nat /\ upto \in Nat
        BY <1>1, <1>5, PlacesAre DEF from, upto
      <4> QED
        BY <1>3, <1>5, <4>1, <4>2, <4>3
    <3>3. r \in Seq(Nat \X Nat) /\ Len(r) = count
      <4>1. Records(from, upto) \in Seq(Nat \X Nat)
            /\ Len(Records(from, upto)) = Cardinality(EndsIn(from, upto))
        BY ONLY input \in Inputs, <3>2, RecordsAre
      <4> QED
        BY <1>12, <4>1
    <3>4. h \in Nat /\ m \in Nat /\ n - d.left = h + count /\ Count(from) = m + h
      <4>1. Calls!NumberOf(ByRecord(w, s)) = Count(from)
        BY AsRecords DEF from
      <4>2. d.left = c.left - count /\ c.skip = 0
        BY <3>1
      <4>3. h \in Nat
        BY ONLY <1>20 DEF h
      <4>4. m \in Nat
        <5>1. Calls!NumberOf(v) \in Nat
          BY <1>9
        <5> HIDE DEF h
        <5> QED
          BY ONLY <1>20, <5>1 DEF m
      <4>5. n - d.left = h + count
        BY ONLY <1>20, <1>12, <4>2 DEF h
      <4>6. Calls!NumberOf(ByRecord(w, s)) = Calls!NumberOf(v) + (skip - c.skip) + (n - c.left)
            /\ Calls!NumberOf(v) \in Nat
        BY <1>9
      <4>7. PICK k : k = Calls!NumberOf(v)
        OBVIOUS
      <4>8. PICK q : q = Count(from)
        OBVIOUS
      <4>9. q = k + (skip - c.skip) + (n - c.left) /\ k \in Nat
        BY ONLY <4>1, <4>6, <4>7, <4>8
      <4>10. q = k + skip + h
        BY ONLY <1>20, <4>2, <4>9 DEF h
      <4>11. Count(from) = m + h
        BY ONLY <4>7, <4>8, <4>10 DEF m
      <4> QED
        BY <4>3, <4>4, <4>5, <4>11
    <3>5. ASSUME NEW i \in 1 .. count PROVE NumberOf(r[i]) = m + h + i - 1
      <4>1. NumberOf(r[i]) = Count(from) + i - 1
        BY <1>12, <3>2, <3>5, NumbersOfRecords
      <4> QED
        BY <3>4, <4>1
    <3>6. ASSUME NEW i \in 1 .. h PROVE NumberOf(answer[i]) = m + i - 1
      BY <1>11, <3>6
    <3> HIDE DEF r, h, m
    <3>7. Len(answer) = h /\ answer \in Seq(Nat \X Nat)
      BY <1>11 DEF h
    <3>8. /\ more \in Seq(Nat \X Nat) /\ Len(more) = h + count
          /\ \A i \in 1 .. h + count : more[i] = IF i <= h THEN answer[i] ELSE r[i - h]
      <4>1. more = answer \o r /\ Len(answer) = h /\ Len(r) = count
        BY <3>1, <3>3, <3>7
      <4>2. h \in Nat /\ count \in Nat /\ answer \in Seq(Nat \X Nat) /\ r \in Seq(Nat \X Nat)
        BY <1>12, <3>3, <3>4, <3>7
      <4>3. /\ answer \o r \in Seq(Nat \X Nat) /\ Len(answer \o r) = Len(answer) + Len(r)
            /\ \A i \in 1 .. Len(answer) + Len(r) :
                 (answer \o r)[i] = IF i <= Len(answer) THEN answer[i] ELSE r[i - Len(answer)]
        BY ONLY <4>2, Appended
      <4> QED
        BY <4>1, <4>3
    <3>9. ASSUME NEW i \in 1 .. h + count PROVE NumberOf(more[i]) = m + i - 1
      <4>1. CASE i <= h
        <5>1. i \in 1 .. h
          BY <3>4, <4>1
        <5> QED
          BY <3>6, <3>8, <4>1, <5>1
      <4>2. CASE ~(i <= h)
        <5>1. i - h \in 1 .. count /\ m + h + (i - h) - 1 = m + i - 1
          BY <1>12, <3>4, <4>2
        <5> QED
          BY <3>5, <3>8, <4>2, <5>1
      <4> QED
        BY <4>1, <4>2
    <3>10. n - d.left = h + count
      BY <3>4
    <3> QED
      BY <3>8, <3>9, <3>10 DEF m
  <2> QED
    BY <2>1, <2>2
<1> QED
  BY <1>6, <1>8, <1>9, <1>11, <1>13, <1>14, <1>15, <1>16 DEF Underway

\* Where no record ends in what is buffered, none is cut by a frame end.
LEMMA NothingIsCut ==
  ASSUME input \in Inputs, reader = Whole(input), NEW w, Buffered(w), Held(w) = {}
  PROVE  ~CutsARecord(w)
<1> SUFFICES ASSUME Passed(w) > 0 PROVE w.pos = w.filled
  BY DEF CutsARecord
<1>1. ReaderOK /\ reader.guard = FrameEnds(input)
  BY WholeIs DEF Whole
<1>2. PICK i \in DOMAIN reader.guard : reader.guard[i] = Loaded(w)
  <2> SUFFICES ASSUME {i \in DOMAIN reader.guard : i >= w.nextEnd /\ reader.guard[i] = Loaded(w)} = {}
               PROVE  FALSE
    OBVIOUS
  <2>1. Passed(w) = 0
    BY FS_EmptySet DEF Passed
  <2> QED
    BY <2>1
<1>3. Loaded(w) \in input.ends
  <2>1. i \in DOMAIN input.frames /\ i # Len(input.frames) /\ reader.guard[i] = input.frames[i]
    BY <1>1, FileIs DEF FrameEnds
  <2>2. reader.frames[i].end = input.frames[i] /\ reader.frames[i].end \in input.ends
    BY <2>1, FileByRecord
  <2> QED
    BY <1>2, <2>1, <2>2
<1>4. /\ At(w) \in Nat /\ Loaded(w) \in Nat /\ At(w) <= Loaded(w)
      /\ At(w) = reader.base + w.offset + w.pos /\ Loaded(w) = reader.base + w.offset + w.filled
      /\ Held(w) = EndsIn(At(w), Loaded(w)) /\ reader.base \in Nat /\ w.offset \in Nat
      /\ w.pos \in Nat /\ w.filled \in Nat
  BY <1>1, PlacesAre
<1>5. ~(At(w) < Loaded(w))
  BY <1>3, <1>4 DEF EndsIn
<1> QED
  BY <1>4, <1>5

\* What is read on leaves the call where it is.
LEMMA MoreGoesOn ==
  ASSUME input \in Inputs, reader = Whole(input), NEW w, Buffered(w), Guarded(w), NEW s, Over(w, s),
         NEW v, NEW skip, NEW n, NEW short, NEW c, NEW answer,
         Underway(v, skip, n, short, w, s, c, answer), c.skip > 0 \/ c.left > 0,
         Held(w) = {}, ~w.eof, NEW x \in Filled(Slid(Grown(w)))
  PROVE  Over(x, s) /\ Underway(v, skip, n, short, x, s, c, answer)
<1> DEFINE placed == reader.frames[s.first].start
           last == Len(input.frames)
<1>1. ReaderOK /\ DOMAIN reader.frames = DOMAIN input.frames /\ reader.base = 0
  BY WholeIs DEF Whole
<1>2. /\ s.first \in DOMAIN input.frames /\ s.last \in DOMAIN input.frames /\ s.first <= s.last
      /\ Counted(w, placed) /\ w.limit = reader.frames[s.last].end
  BY DEF Over
<1>3. placed \in Nat /\ placed \in input.ends \cup {0} /\ Bytes > 0 /\ Bytes \in Nat
  BY <1>1, <1>2, FileByRecord, FileIs DEF ReaderOK
<1>4. reader.frames[last].end = Bytes
  <2>1. last \in DOMAIN input.frames
    BY FileIs
  <2> QED
    BY <2>1, FileByRecord DEF Bytes
<1> HIDE DEF placed, last
<1>5. /\ Counted(x, placed) /\ Buffered(x) /\ x.limit = w.limit /\ x.walked = w.walked
      /\ x.pos = 0 /\ x.front = x.walked /\ (x.eof => Held(x) = {})
  BY <1>1, <1>2, <1>3, NothingIsCut, MoreCounts
<1>6. Over(x, s)
  BY <1>2, <1>5 DEF Over, placed
<1>7. ~ByRecord(x, s).taken
  <2> SUFFICES ASSUME ByRecord(x, s).taken PROVE FALSE
    OBVIOUS
  <2>1. x.eof /\ x.pos = x.filled /\ s.last = last /\ Bytes \notin input.ends
    BY DEF ByRecord, last
  <2>2. /\ x.offset \in input.ends \cup {placed} /\ Loaded(x) = x.limit
        /\ Loaded(x) = x.offset + x.filled /\ x.filled = 0 /\ x.offset \in Nat
    <3>1. /\ reader.base + x.offset \in input.ends \cup {placed}
          /\ Loaded(x) = reader.base + x.limit
      BY <1>5, <2>1 DEF Counted
    <3>2. Loaded(x) = reader.base + x.offset + x.filled /\ x.offset \in Nat /\ x.limit \in Nat
      BY <1>1, <1>5, PlacesAre
    <3> QED
      BY <1>1, <1>5, <2>1, <3>1, <3>2
  <2>3. x.limit = Bytes
    BY <1>2, <1>4, <1>5, <2>1
  <2>4. x.offset = Bytes
    <3>1. Loaded(x) = x.limit /\ Loaded(x) = x.offset + x.filled /\ x.filled = 0 /\ x.offset \in Nat
      BY <2>2
    <3> QED
      BY ONLY <2>3, <3>1
  <2> QED
    BY <1>3, <2>1, <2>2, <2>4
<1>8. ByRecord(w, s).taken = FALSE /\ ByRecord(x, s).taken = FALSE
  BY <1>7 DEF ByRecord
<1>9. x.walked = w.walked /\ x.front = x.walked
  BY <1>5
<1>10. Underway(v, skip, n, short, x, s, c, answer)
  BY ONLY <1>8, <1>9, ~w.eof, c.skip > 0 \/ c.left > 0,
          Underway(v, skip, n, short, w, s, c, answer) DEF Underway
<1> QED
  BY <1>6, <1>10

--------------------------------------------------------------------------------
(***************************************************************************)
(* How a call begins.                                                      *)
(***************************************************************************)
\* A call that has not done anything yet.
LEMMA NothingDone ==
  ASSUME input \in Inputs, reader = Whole(input), NEW w, Buffered(w), NEW s, Over(w, s),
         NEW skip \in Nat, NEW n \in Nat, NEW short, NEW c, c.skip = skip, c.left = n,
         short = (IF c.skipWhole THEN Refused ELSE <<>>),
         Bytes \notin input.ends =>
           /\ c.include = (s.last = Len(input.frames) /\ input.separated)
           /\ c.reject = (s.last = Len(input.frames) /\ ~input.separated)
  PROVE  Underway(ByRecord(w, s), skip, n, short, w, s, c, <<>>)
<1> DEFINE v == ByRecord(w, s)
<1>1. /\ v \in SpanType /\ v.first = s.first /\ v.last = s.last
      /\ v.walked = w.walked /\ v.front = w.front /\ v.eof = w.eof
  BY AsRecords
<1>2. v.walked \in Nat /\ v.front \in Nat /\ v.eof \in BOOLEAN
  BY <1>1 DEF SpanType
<1>3. v.taken = ByRecord(w, s).taken
  OBVIOUS
<1> HIDE DEF v
<1>4. /\ c.skip \in 0 .. skip /\ c.left \in 0 .. n
      /\ w.walked = v.walked + (skip - c.skip) + (n - c.left)
      /\ n - c.left = 0
  BY <1>1, <1>2
<1>5. <<>> \in Seq(Nat \X Nat) /\ Len(<<>>) = n - c.left
  BY <1>4
<1>6. IF v.eof THEN w.eof /\ w.front = v.front ELSE ~w.eof /\ w.front \in {v.front}
  BY <1>1
<1>7. \A i \in 1 .. n - c.left : FALSE
  BY <1>4
<1>8. Underway(v, skip, n, short, w, s, c, <<>>)
  BY ONLY c.left = n, skip \in Nat, n \in Nat, short = (IF c.skipWhole THEN Refused ELSE <<>>),
          Bytes \notin input.ends =>
            /\ c.include = (s.last = Len(input.frames) /\ input.separated)
            /\ c.reject = (s.last = Len(input.frames) /\ ~input.separated),
          <1>1, <1>3, <1>4, <1>5, <1>6, <1>7 DEF Underway
<1> QED
  BY <1>8 DEF v

\* A window that is placed.
LEMMA PlacedOver ==
  ASSUME input \in Inputs, reader = Whole(input), NEW w, NEW first \in DOMAIN input.frames,
         NEW last \in DOMAIN input.frames, first <= last,
         NEW x, x = SeekTo(w, reader.frames[first].start,
                           reader.frames[last].end - reader.frames[first].start),
         NEW s, s = [first |-> first, last |-> last]
  PROVE  Over(x, s) /\ ByRecord(x, s) = Calls!Point(first, last)
<1> DEFINE start == reader.frames[first].start
           end == reader.frames[last].end
<1>1. ReaderOK /\ DOMAIN reader.frames = DOMAIN input.frames /\ reader.base = 0
  BY WholeIs DEF Whole
<1>2. start \in Nat /\ end \in Nat /\ start <= end
  BY <1>1 DEF ReaderOK
<1>3. s.first = first /\ s.last = last
  OBVIOUS
<1> HIDE DEF start, end
<1>4. x = SeekTo(w, start, end - start) /\ end - start \in Nat /\ start + (end - start) = end
      /\ reader.base + start = start
  BY <1>1, <1>2 DEF start, end
<1>5. Counted(x, start)
  <2>1. Counted(SeekTo(w, start, end - start), reader.base + start)
    BY <1>1, <1>2, <1>4, SeekToCounts
  <2> QED
    BY <1>4, <2>1
<1>6. x.limit = end /\ x.walked = 0 /\ x.front = 0 /\ x.eof = FALSE
  BY <1>4 DEF SeekTo, Cleared
<1>7. Over(x, s)
  BY <1>2, <1>3, <1>5, <1>6 DEF Over, start, end
<1>8. ByRecord(x, s) = Calls!Point(first, last)
  BY <1>3, <1>6 DEF ByRecord, Calls!Point
<1> QED
  BY <1>7, <1>8

\* The window of a lookup.
LEMMA LookedUp ==
  ASSUME input \in Inputs, reader = Whole(input), NEW f \in DOMAIN input.frames, NEW index \in Nat,
         Buffered(window),
         NEW s, s = [first |-> f, last |-> f],
         frame = f => Over(window, s) /\ left.window = ByRecord(window, s),
         left.frame = frame,
         NEW x, x = IF frame = f /\ CanWalkFrom(window, index) THEN WalkFrom(window, index)
                    ELSE SeekTo(window, reader.frames[f].start,
                                reader.frames[f].end - reader.frames[f].start)
  PROVE  /\ Over(x, s)
         /\ Calls!WalkTo(f, index) = [window |-> ByRecord(x, s), skip |-> index - x.walked]
         /\ index - x.walked \in Nat
<1> DEFINE v == left.window
<1>1. ReaderOK /\ DOMAIN reader.frames = DOMAIN input.frames
  BY WholeIs
<1>2. s.first = f /\ s.last = f
  OBVIOUS
<1>3. f \in Nat
  BY FileIs
<1>4. CASE frame = f /\ CanWalkFrom(window, index)
  <2>1. Over(window, s) /\ v = ByRecord(window, s) /\ left.frame = f /\ index >= window.front
    BY <1>4 DEF CanWalkFrom
  <2>2. /\ v \in SpanType /\ v.walked = window.walked /\ v.front = window.front /\ v.eof = window.eof
        /\ v.walked \in Nat /\ v.front \in Nat /\ v.eof \in BOOLEAN
        /\ v.first = f /\ v.last = f
    BY <1>2, <2>1, AsRecords DEF SpanType
  <2>3. x = WalkFrom(window, index)
    BY <1>4
  <2> HIDE DEF v
  <2>4. CASE index >= window.walked
    <3>1. x = window
      BY <2>3, <2>4 DEF WalkFrom
    <3>2. Calls!WalkTo(f, index) = [window |-> left.window, skip |-> index - left.window.walked]
      BY <2>1, <2>2, <2>4 DEF Calls!WalkTo, v
    <3>3. index - window.walked \in Nat
      BY ONLY index \in Nat, <2>2, <2>4
    <3> QED
      BY <2>1, <2>2, <3>1, <3>2, <3>3 DEF v
  <2>5. CASE ~(index >= window.walked)
    <3>1. x = [window EXCEPT !.walked = window.front, !.pos = 0]
      BY <2>3, <2>5 DEF WalkFrom
    <3>2. /\ x.walked = window.front /\ x.front = window.front /\ x.eof = window.eof
          /\ x.limit = window.limit
      BY <3>1 DEF Buffered, WindowType
    <3>3. window.eof = FALSE
      <4>1. window.eof => window.front = window.walked
        BY <2>1 DEF Over
      <4> QED
        BY <2>1, <2>2, <2>5, <4>1
    <3>4. Counted(x, reader.frames[s.first].start)
      <4>1. reader.frames[s.first].start \in Nat /\ Counted(window, reader.frames[s.first].start)
        BY <1>1, <2>1 DEF ReaderOK, Over
      <4> QED
        BY <1>1, <2>3, <4>1, WalkFromCounts
    <3>5. Over(x, s)
      BY <2>1, <3>2, <3>3, <3>4 DEF Over
    <3>6. Calls!WalkTo(f, index) =
            [window |-> [left.window EXCEPT !.walked = left.window.front, !.taken = FALSE],
             skip |-> index - left.window.front]
      <4>1. ~(index >= left.window.walked) /\ index >= left.window.front /\ left.frame = f
        BY <2>1, <2>2, <2>5 DEF v
      <4> QED
        BY <4>1 DEF Calls!WalkTo
    <3>7. ByRecord(x, s) = [v EXCEPT !.walked = v.front, !.taken = FALSE]
      <4> DEFINE u == ByRecord(x, s)
                 z == [v EXCEPT !.walked = v.front, !.taken = FALSE]
      <4>1. /\ u.first = f /\ u.last = f /\ u.walked = v.front /\ u.front = v.front
            /\ u.eof = FALSE /\ u.taken = FALSE /\ u \in SpanType
        BY <1>2, <1>3, <2>2, <3>2, <3>3 DEF ByRecord, SpanType
      <4>2. /\ z.first = f /\ z.last = f /\ z.walked = v.front /\ z.front = v.front
            /\ z.eof = FALSE /\ z.taken = FALSE /\ z \in SpanType
        BY <2>2, <3>3 DEF SpanType
      <4> HIDE DEF u, z
      <4>3. u = z
        BY <4>1, <4>2, SameSpan
      <4> QED
        BY <4>3 DEF u, z
    <3>8. index - window.front \in Nat
      BY ONLY index \in Nat, <2>1, <2>2
    <3> QED
      BY <2>2, <3>2, <3>5, <3>6, <3>7, <3>8 DEF v
  <2> QED
    BY <2>4, <2>5
<1>5. CASE ~(frame = f /\ CanWalkFrom(window, index))
  <2>1. x = SeekTo(window, reader.frames[f].start, reader.frames[f].end - reader.frames[f].start)
    BY <1>5
  <2>2. Over(x, s) /\ ByRecord(x, s) = Calls!Point(f, f)
    BY <1>3, <2>1, PlacedOver
  <2>3. x.walked = 0
    BY <2>1 DEF SeekTo, Cleared
  <2>4. Calls!WalkTo(f, index) = [window |-> Calls!Point(f, f), skip |-> index]
    <3>1. CASE frame = f
      <4>1. ~(index >= window.front) /\ left.window = ByRecord(window, s) /\ left.frame = f
        BY <1>5, <3>1 DEF CanWalkFrom
      <4>2. /\ left.window.walked = window.walked /\ left.window.front = window.front
            /\ window.front <= window.walked /\ window.front \in Nat /\ window.walked \in Nat
        <5>1. /\ left.window.walked = window.walked /\ left.window.front = window.front
          BY <4>1 DEF ByRecord
        <5> QED
          BY <5>1 DEF Buffered, WindowType
      <4>3. ~(index >= left.window.front) /\ ~(index >= left.window.walked)
        BY ONLY <4>1, <4>2, index \in Nat
      <4> QED
        BY <4>1, <4>3 DEF Calls!WalkTo
    <3>2. CASE frame # f
      <4>1. left.frame # f
        BY <3>2
      <4> QED
        BY <4>1 DEF Calls!WalkTo
    <3> QED
      BY <3>1, <3>2
  <2>5. index - x.walked = index
    BY ONLY <2>3, index \in Nat
  <2> QED
    BY <2>2, <2>4, <2>5
<1> QED
  BY <1>4, <1>5

\* What a window is by record depends on the file alone.
LEMMA SameNumbers ==
  ASSUME input' = input
  PROVE  /\ FileOf(input)' = FileOf(input)
         /\ \A r : NumberOf(r)' = NumberOf(r)
         /\ \A v : /\ Calls!Left(v)' = Calls!Left(v) /\ Calls!NumberOf(v)' = Calls!NumberOf(v)
                   /\ Calls!HasFragment(v)' <=> Calls!HasFragment(v)
         /\ Calls!TailIsRecord' = Calls!TailIsRecord
<1>1. FileOf(input)' = FileOf(input)
  BY DEF FileOf
<1>2. ASSUME NEW r PROVE NumberOf(r)' = NumberOf(r)
  BY DEF NumberOf, EndsIn, Count, Bytes, NotARecord
<1>3. ASSUME NEW v
      PROVE  /\ Calls!Left(v)' = Calls!Left(v) /\ Calls!NumberOf(v)' = Calls!NumberOf(v)
             /\ Calls!HasFragment(v)' <=> Calls!HasFragment(v)
  BY <1>1 DEF Calls!Left, Calls!NumberOf, Calls!HasFragment, Calls!StartOf, Calls!LastFrame
<1>4. Calls!TailIsRecord' = Calls!TailIsRecord
  BY <1>1 DEF Calls!TailIsRecord
<1> QED
  BY <1>1, <1>2, <1>3, <1>4

LEMMA SameReads ==
  ASSUME input' = input, NEW v, NEW skip, NEW n, NEW short
  PROVE  Calls!Read(v, skip, n, short)' = Calls!Read(v, skip, n, short)
<1>1. ASSUME NEW w, NEW k
      PROVE  /\ Calls!Walk(w, k)' = Calls!Walk(w, k) /\ Calls!RunOut(w)' = Calls!RunOut(w)
             /\ Calls!HandOut(w, k)' = Calls!HandOut(w, k)
  <2>1. Calls!Walk(w, k)' = Calls!Walk(w, k)
    BY DEF Calls!Walk
  <2>2. Calls!RunOut(w)' = Calls!RunOut(w)
    BY SameNumbers DEF Calls!RunOut
  <2>3. Calls!HandOut(w, k)' = Calls!HandOut(w, k)
    <3> DEFINE numbers(j) == [i \in 1 .. j |-> Calls!NumberOf(w) + i - 1]
               fragment == IF Calls!TailIsRecord
                           THEN {[window |-> [Calls!RunOut(w) EXCEPT !.taken = TRUE],
                                  got |-> numbers(Calls!Left(w) + 1)]}
                           ELSE {[window |-> Calls!RunOut(w), got |-> Refused]}
    <3>1. ASSUME NEW j PROVE numbers(j)' = numbers(j)
      BY SameNumbers
    <3>2. Calls!HandOut(w, k) =
            IF k <= Calls!Left(w) THEN {[window |-> x, got |-> numbers(k)] : x \in Calls!Walk(w, k)}
            ELSE IF ~Calls!HasFragment(w)
            THEN {[window |-> Calls!RunOut(w), got |-> numbers(Calls!Left(w))]}
            ELSE fragment
      BY DEF Calls!HandOut
    <3>3. (Calls!HandOut(w, k) =
            IF k <= Calls!Left(w) THEN {[window |-> x, got |-> numbers(k)] : x \in Calls!Walk(w, k)}
            ELSE IF ~Calls!HasFragment(w)
            THEN {[window |-> Calls!RunOut(w), got |-> numbers(Calls!Left(w))]}
            ELSE fragment)'
      BY DEF Calls!HandOut
    <3> HIDE DEF numbers
    <3>4. fragment' = fragment
      BY <2>2, <3>1, SameNumbers
    <3> HIDE DEF fragment
    <3> QED
      BY <2>1, <2>2, <3>1, <3>2, <3>3, <3>4, SameNumbers
  <2> QED
    BY <2>1, <2>2, <2>3
<1>2. CASE skip <= Calls!Left(v)
  BY <1>1, <1>2, SameNumbers DEF Calls!Read
<1>3. CASE ~(skip <= Calls!Left(v))
  BY <1>1, <1>3, SameNumbers DEF Calls!Read
<1> QED
  BY <1>2, <1>3

LEMMA SameCall ==
  ASSUME input' = input, reader' = reader
  PROVE  \A w, s, c, a, v, skip, n, short, f :
           window' = w /\ span' = s /\ call' = c /\ got' = a =>
             /\ Over(window, span)' <=> Over(w, s)
             /\ ByRecord(window, span)' = ByRecord(w, s)
             /\ Numbers(got)' = Numbers(a)
             /\ Underway(v, skip, n, short, window, span, call, got)' <=>
                  Underway(v, skip, n, short, w, s, c, a)
<1> SUFFICES ASSUME NEW w, NEW s, NEW c, NEW a, NEW v, NEW skip, NEW n, NEW short,
                    window' = w, span' = s, call' = c, got' = a
             PROVE  /\ Over(window, span)' <=> Over(w, s)
                    /\ ByRecord(window, span)' = ByRecord(w, s)
                    /\ Numbers(got)' = Numbers(a)
                    /\ Underway(v, skip, n, short, window, span, call, got)' <=>
                         Underway(v, skip, n, short, w, s, c, a)
  OBVIOUS
<1>1. Bytes' = Bytes
  BY DEF Bytes
<1>2. ByRecord(window, span)' = ByRecord(w, s)
  BY <1>1 DEF ByRecord
<1>3. Over(window, span)' <=> Over(w, s)
  BY <1>1 DEF Over, Counted, Held, At, Loaded, Taken, EndsIn
<1>4. Numbers(got)' = Numbers(a)
  BY SameNumbers DEF Numbers
<1>5. Underway(v, skip, n, short, window, span, call, got)' <=> Underway(v, skip, n, short, w, s, c, a)
  BY <1>1, <1>2, SameNumbers DEF Underway
<1> QED
  BY <1>2, <1>3, <1>4, <1>5

\* A call that began at v is under way until the window is spent or it returns;
\* from then on the window and what was handed out are those of a read by record.
Doing(v, skip, n, short) ==
  IF call.busy /\ ~call.spent THEN Underway(v, skip, n, short, window, span, call, got)
  ELSE [window |-> ByRecord(window, span), got |-> Numbers(got)] \in Calls!Read(v, skip, n, short)

\* A run of records is passed or handed out.
LEMMA TakeRunGoes ==
  ASSUME CallsInv, call.watch = NoWatch, Over(window, span),
         NEW v, NEW skip, NEW n, NEW short, Doing(v, skip, n, short), TakeRun, span' = span
  PROVE  Over(window, span)' /\ call'.watch = NoWatch /\ Doing(v, skip, n, short)'
<1> DEFINE w == Walk(window, Wanted)
           count == w.walked - window.walked
           from == At(window)
           upto == At(w)
           d == [call EXCEPT !.skip = IF call.skip > 0 THEN @ - count ELSE @,
                             !.left = IF call.skip > 0 THEN @ ELSE @ - count,
                             !.watch = Saw(window, from, upto)]
           more == IF call.skip > 0 THEN got ELSE got \o Records(from, upto)
<1>1. /\ input' = input /\ reader' = reader /\ window' = w /\ Walking /\ Held(window) # {}
      /\ IF SawUneven(window, from, upto) THEN Answer(Refused) ELSE call' = d /\ got' = more
  BY DEF TakeRun
<1>2. /\ input \in Inputs /\ reader = Whole(input) /\ Buffered(window) /\ call \in CallType
  BY DEF CallsInv, WindowInv, CallOK
<1>3. /\ call.busy = TRUE /\ call.spent = FALSE /\ Wanted \in Nat \ {0}
  BY <1>1, <1>2 DEF Walking, CallType, Wanted
<1> HIDE DEF w, count, from, upto
<1>4. Reached(upto) = {} /\ ~SawUneven(window, from, upto)
  BY DEF Reached, SawUneven, NoWatch
<1>5. Saw(window, from, upto) = NoWatch
  <2>1. Cardinality(Reached(upto)) = 0
    BY <1>4, FS_EmptySet
  <2>2. Saw(window, from, upto) =
          [NoWatch EXCEPT !.next = @ + Cardinality(Reached(upto)), !.walked = @]
    BY <1>4 DEF Saw
  <2>3. Saw(window, from, upto) = [NoWatch EXCEPT !.next = @ + 0, !.walked = @]
    BY <2>1, <2>2
  <2> DEFINE u == [NoWatch EXCEPT !.next = @ + 0, !.walked = @]
  <2>4. NoWatch \in WatchType /\ NoWatch.next = 1
    BY CallIs DEF CallsInv
  <2>5. /\ u \in WatchType /\ u.at = NoWatch.at /\ u.next = NoWatch.next
        /\ u.walked = NoWatch.walked /\ u.first = NoWatch.first
    <3>1. PICK one : one = NoWatch.next + 0
      OBVIOUS
    <3>2. one = NoWatch.next
      BY ONLY <2>4, <3>1
    <3>3. u = [NoWatch EXCEPT !.next = one, !.walked = @]
      BY <3>1
    <3> HIDE DEF u
    <3> QED
      BY ONLY <2>4, <3>2, <3>3 DEF WatchType
  <2>6. u = NoWatch
    BY ONLY <2>4, <2>5 DEF WatchType
  <2> QED
    BY <2>3, <2>6
<1>6. call' = d /\ got' = more
  BY <1>1, <1>4
<1>7. /\ d.skip = IF call.skip > 0 THEN call.skip - count ELSE call.skip
      /\ d.left = IF call.skip > 0 THEN call.left ELSE call.left - count
      /\ d.watch = NoWatch /\ d.busy = call.busy /\ d.spent = call.spent
      /\ d.skipWhole = call.skipWhole /\ d.include = call.include /\ d.reject = call.reject
  BY <1>2, <1>5 DEF CallType
<1>8. Wanted = IF call.skip > 0 THEN call.skip ELSE call.left
  BY DEF Wanted
<1>9. more = IF call.skip > 0 THEN got ELSE got \o Records(from, upto)
  OBVIOUS
<1> HIDE DEF d, more
<1>10. Underway(v, skip, n, short, window, span, call, got)
  BY <1>3 DEF Doing
<1>11. Over(w, span) /\ Underway(v, skip, n, short, w, span, d, more)
  <2>1. /\ d.skip = IF call.skip > 0 THEN call.skip - (w.walked - window.walked) ELSE call.skip
        /\ d.left = IF call.skip > 0 THEN call.left ELSE call.left - (w.walked - window.walked)
        /\ d.skipWhole = call.skipWhole /\ d.include = call.include /\ d.reject = call.reject
    BY <1>7 DEF count
  <2>2. more = IF call.skip > 0 THEN got ELSE got \o Records(At(window), At(w))
    BY <1>9 DEF from, upto
  <2>3. w = Walk(window, Wanted)
    BY DEF w
  <2>4. /\ input \in Inputs /\ reader = Whole(input) /\ Buffered(window)
        /\ Held(window) # {} /\ Wanted \in Nat \ {0}
    BY <1>1, <1>2, <1>3
  <2>5. PICK want : want = Wanted
    OBVIOUS
  <2>6. want \in Nat \ {0} /\ want = (IF call.skip > 0 THEN call.skip ELSE call.left)
    BY <1>8, <2>4, <2>5
  <2>7. w = Walk(window, want)
    BY <2>3, <2>5
  <2>8. \A x, e, a :
          /\ x = Walk(window, want)
          /\ e.skip = IF call.skip > 0 THEN call.skip - (x.walked - window.walked) ELSE call.skip
          /\ e.left = IF call.skip > 0 THEN call.left ELSE call.left - (x.walked - window.walked)
          /\ e.skipWhole = call.skipWhole /\ e.include = call.include /\ e.reject = call.reject
          /\ a = IF call.skip > 0 THEN got ELSE got \o Records(At(window), At(x))
          => Over(x, span) /\ Underway(v, skip, n, short, x, span, e, a)
    BY ONLY <1>10, <2>4, <2>6, Over(window, span), RunGoesOn
  <2> QED
    BY ONLY <2>1, <2>2, <2>7, <2>8
<1>12. Over(window, span)' /\ Underway(v, skip, n, short, window, span, call, got)'
  BY <1>1, <1>6, <1>11, SameCall
<1>13. call'.busy /\ ~call'.spent /\ call'.watch = NoWatch
  BY <1>3, <1>6, <1>7
<1> QED
  BY <1>12, <1>13 DEF Doing

\* More is read.
LEMMA ReadMoreGoes ==
  ASSUME CallsInv, call.watch = NoWatch, Over(window, span),
         NEW v, NEW skip, NEW n, NEW short, Doing(v, skip, n, short), ReadMore, span' = span
  PROVE  Over(window, span)' /\ call'.watch = NoWatch /\ Doing(v, skip, n, short)'
<1>1. /\ input' = input /\ reader' = reader /\ Walking /\ Held(window) = {} /\ ~window.eof
      /\ \/ CutsARecord(window)
         \/ /\ window' \in Filled(Slid(Grown(window)))
            /\ UNCHANGED <<call, got>>
  BY DEF ReadMore
<1>2. /\ input \in Inputs /\ reader = Whole(input) /\ Buffered(window) /\ call \in CallType
      /\ call.busy => Guarded(window)
  BY DEF CallsInv, WindowInv, CallOK
<1>3. /\ call.busy = TRUE /\ call.spent = FALSE /\ (call.skip > 0 \/ call.left > 0)
  BY <1>1, <1>2 DEF Walking, CallType, Wanted
<1>4. ~CutsARecord(window)
  BY <1>1, <1>2, NothingIsCut
<1>5. PICK x \in Filled(Slid(Grown(window))) : window' = x
  BY <1>1, <1>4
<1>6. Underway(v, skip, n, short, window, span, call, got)
  BY <1>3 DEF Doing
<1>7. Over(x, span) /\ Underway(v, skip, n, short, x, span, call, got)
  BY <1>1, <1>2, <1>3, <1>6, MoreGoesOn
<1>8. call' = call /\ got' = got
  BY <1>1, <1>4
<1>9. Over(window, span)' /\ Underway(v, skip, n, short, window, span, call, got)'
  BY <1>1, <1>5, <1>7, <1>8, SameCall
<1> QED
  BY <1>3, <1>8, <1>9 DEF Doing

\* The source is spent among the records to pass.
LEMMA RunOutSkippingGoes ==
  ASSUME CallsInv, call.watch = NoWatch, Over(window, span),
         NEW v, NEW skip, NEW n, NEW short, Doing(v, skip, n, short), RunOutSkipping, span' = span
  PROVE  Over(window, span)' /\ call'.watch = NoWatch /\ Doing(v, skip, n, short)'
<1>1. /\ input' = input /\ reader' = reader /\ window' = window /\ Walking /\ call.skip > 0
      /\ window.eof
      /\ IF SpentUneven(window) \/ call.skipWhole THEN Answer(Refused)
         ELSE call' = [call EXCEPT !.skip = 0, !.spent = TRUE] /\ got' = got
  BY DEF RunOutSkipping
<1>2. /\ input \in Inputs /\ reader = Whole(input) /\ Buffered(window) /\ call \in CallType
  BY DEF CallsInv, WindowInv, CallOK
<1>3. call.busy = TRUE /\ call.spent = FALSE
  BY <1>1, <1>2 DEF Walking, CallType
<1>4. ~SpentUneven(window)
  BY DEF SpentUneven, NoWatch
<1>5. Underway(v, skip, n, short, window, span, call, got)
  BY <1>3 DEF Doing
<1>6. [window |-> ByRecord(window, span), got |-> short] \in Calls!Read(v, skip, n, short)
  BY <1>1, <1>2, <1>5, RanOutPassing
<1>7. Numbers(got') = short /\ call'.watch = NoWatch /\ (call'.spent \/ ~call'.busy)
  <2>1. short = (IF call.skipWhole THEN Refused ELSE <<>>) /\ got \in Seq(Nat \X Nat)
        /\ Len(got) = n - call.left /\ call.left = n /\ n \in Nat
    BY <1>1, <1>5 DEF Underway
  <2>2. CASE call.skipWhole
    <3>1. got' = Refused /\ call' = Idle
      BY <1>1, <2>2 DEF Answer
    <3>2. Numbers(got') = Refused
      BY <3>1 DEF Numbers
    <3> QED
      BY <2>1, <2>2, <3>1, <3>2 DEF Idle
  <2>3. CASE ~call.skipWhole
    <3>1. got' = got /\ call' = [call EXCEPT !.skip = 0, !.spent = TRUE]
      BY <1>1, <1>4, <2>3
    <3>2. call'.spent = TRUE /\ call'.watch = NoWatch
      BY <1>2, <3>1 DEF CallType
    <3>3. got = <<>>
      BY <2>1
    <3>4. <<>> # Refused
      <4>1. <<>> \in Seq(Nat \X Nat)
        OBVIOUS
      <4> QED
        BY <4>1, RefusedAssumption
    <3>5. Numbers(got') = <<>>
      BY <3>1, <3>3, <3>4 DEF Numbers
    <3> QED
      BY <2>1, <2>3, <3>2, <3>5
  <2> QED
    BY <2>2, <2>3
<1>8. /\ Over(window, span)' /\ ByRecord(window, span)' = ByRecord(window, span)
      /\ Numbers(got)' = Numbers(got')
  BY <1>1, SameCall
<1>9. Calls!Read(v, skip, n, short)' = Calls!Read(v, skip, n, short)
  BY <1>1, SameReads
<1> QED
  BY <1>6, <1>7, <1>8, <1>9 DEF Doing

\* The source is spent among the records to hand out.
LEMMA RunOutHandingGoes ==
  ASSUME CallsInv, call.watch = NoWatch, Over(window, span),
         NEW v, NEW skip, NEW n, NEW short, Doing(v, skip, n, short), RunOutHanding, span' = span
  PROVE  Over(window, span)' /\ call'.watch = NoWatch /\ Doing(v, skip, n, short)'
<1> DEFINE tail == window.pos < window.filled
           u == ByRecord(window, span)
           all(k) == [i \in 1 .. k |-> Calls!NumberOf(v) + skip + i - 1]
           x == [window EXCEPT !.pos = window.filled]
           d == [call EXCEPT !.left = @ - 1, !.spent = TRUE]
           e == [call EXCEPT !.spent = TRUE]
           more == Append(got, <<At(window), Loaded(window)>>)
<1>1. /\ input' = input /\ reader' = reader /\ Walking /\ call.skip = 0 /\ window.eof
      /\ IF tail /\ call.reject THEN Answer(Refused) /\ window' = window
         ELSE IF tail /\ call.include THEN got' = more /\ call' = d /\ window' = x
         ELSE call' = e /\ window' = window /\ got' = got
  BY DEF RunOutHanding
<1>2. /\ input \in Inputs /\ reader = Whole(input) /\ Buffered(window) /\ call \in CallType
      /\ ReaderOK
  BY DEF CallsInv, WindowInv, CallOK
<1>3. call.busy = TRUE /\ call.spent = FALSE /\ call.left \in Nat /\ call.left > 0
  BY <1>1, <1>2 DEF Walking, CallType, Wanted
<1>4. Underway(v, skip, n, short, window, span, call, got)
  BY <1>3 DEF Doing
<1>5. /\ ~Calls!HasFragment(u) =>
           [window |-> u, got |-> all(n - call.left)] \in Calls!Read(v, skip, n, short)
      /\ Calls!HasFragment(u) /\ ~input.separated =>
           [window |-> u, got |-> Refused] \in Calls!Read(v, skip, n, short)
      /\ Calls!HasFragment(u) /\ input.separated =>
           [window |-> [u EXCEPT !.taken = TRUE], got |-> all(n - call.left + 1)]
             \in Calls!Read(v, skip, n, short)
  BY ONLY <1>1, <1>2, <1>3, <1>4, Over(window, span), RanOutHanding
<1>6. /\ tail <=> Calls!HasFragment(u)
      /\ tail => /\ span.last = Len(input.frames) /\ Bytes \notin input.ends
                 /\ Loaded(window) = Bytes /\ At(window) \in input.ends \cup {0}
                 /\ EndsIn(At(window), Bytes) = {}
      /\ Loaded(window) = window.limit
  BY <1>1, <1>2, WhatIsLeft
<1>7. tail => call.include = input.separated /\ call.reject = ~input.separated
  <2> SUFFICES ASSUME tail PROVE call.include = input.separated /\ call.reject = ~input.separated
    OBVIOUS
  <2>1. /\ call.include = (span.last = Len(input.frames) /\ input.separated)
        /\ call.reject = (span.last = Len(input.frames) /\ ~input.separated)
    BY <1>4, <1>6 DEF Underway
  <2>2. input.separated \in BOOLEAN
    BY <1>2, InputsAssumption DEF InputType
  <2> QED
    BY <1>6, <2>1, <2>2
<1>8. /\ got \in Seq(Nat \X Nat) /\ Len(got) = n - call.left /\ n - call.left \in Nat
      /\ skip \in Nat /\ n \in Nat
      /\ \A i \in 1 .. n - call.left : NumberOf(got[i]) = Calls!NumberOf(v) + skip + i - 1
      /\ Calls!NumberOf(v) \in Nat
      /\ Calls!NumberOf(u) = Calls!NumberOf(v) + skip + (n - call.left)
      /\ Calls!NumberOf(u) = Count(At(window))
  <2>1. /\ got \in Seq(Nat \X Nat) /\ Len(got) = n - call.left
        /\ \A i \in 1 .. n - call.left : NumberOf(got[i]) = Calls!NumberOf(v) + skip + i - 1
    BY <1>4 DEF Underway
  <2>2. /\ skip \in Nat /\ n \in Nat /\ call.left <= n /\ Calls!NumberOf(v) \in Nat
        /\ Calls!NumberOf(u) = Calls!NumberOf(v) + (skip - call.skip) + (n - call.left)
    BY ONLY <1>2, <1>4, Over(window, span), UnderwayIs
  <2>3. Calls!NumberOf(u) = Count(At(window))
    BY <1>2, AsRecords
  <2> HIDE DEF u
  <2>4. n - call.left \in Nat
    BY ONLY <1>3, <2>2
  <2>5. Calls!NumberOf(u) = Calls!NumberOf(v) + skip + (n - call.left)
    BY ONLY <1>1, <2>2, <1>3
  <2> QED
    BY <2>1, <2>2, <2>3, <2>4, <2>5
<1> DEFINE m == Calls!NumberOf(v) + skip
           h == n - call.left
<1> HIDE DEF u, x, d, e, more, tail
<1>9. m \in Nat /\ h \in Nat /\ \A i \in 1 .. h : NumberOf(got[i]) = m + i - 1
  BY <1>8
<1>10. Calls!Read(v, skip, n, short)' = Calls!Read(v, skip, n, short)
  BY <1>1, SameReads
<1>11. CASE tail /\ ~input.separated
  <2>1. got' = Refused /\ call' = Idle /\ window' = window
    BY <1>1, <1>7, <1>11 DEF Answer
  <2>2. Over(window, span)' /\ ByRecord(window, span)' = u /\ Numbers(got)' = Numbers(Refused)
    BY <1>1, <2>1, SameCall DEF u
  <2>3. Numbers(Refused) = Refused
    BY DEF Numbers
  <2>4. call'.busy = FALSE /\ call'.watch = NoWatch
    BY <2>1 DEF Idle
  <2> QED
    BY <1>5, <1>6, <1>10, <1>11, <2>2, <2>3, <2>4 DEF Doing
<1>12. CASE tail /\ input.separated
  <2>1. got' = more /\ call' = d /\ window' = x
    BY <1>1, <1>7, <1>12
  <2>2. call'.spent = TRUE /\ call'.watch = NoWatch
    BY <1>2, <2>1 DEF d, CallType
  <2>3. x \in WindowType /\ x.pos = x.filled /\ x.filled = window.filled /\ x.offset = window.offset
        /\ x.limit = window.limit /\ x.walked = window.walked /\ x.front = window.front
        /\ x.eof = window.eof
    BY <1>2 DEF Buffered, WindowType, x
  <2>4. ByRecord(x, span) = [u EXCEPT !.taken = TRUE]
    <3> DEFINE a == ByRecord(x, span)
               b == [u EXCEPT !.taken = TRUE]
    <3>1. u \in SpanType
      BY <1>2, AsRecords DEF u
    <3>2. /\ a.first = u.first /\ a.last = u.last /\ a.walked = u.walked /\ a.front = u.front
          /\ a.eof = u.eof /\ a.taken = TRUE
      <4>1. x.eof = TRUE /\ window.eof = TRUE
        BY <1>1, <1>2, <2>3 DEF Buffered, WindowType
      <4> QED
        BY <1>6, <1>12, <2>3, <4>1 DEF ByRecord, u
    <3>3. /\ b \in SpanType /\ b.first = u.first /\ b.last = u.last /\ b.walked = u.walked
          /\ b.front = u.front /\ b.eof = u.eof /\ b.taken = TRUE
      BY <3>1 DEF SpanType
    <3>4. a \in SpanType
      <4>1. a = [first |-> a.first, last |-> a.last, walked |-> a.walked, front |-> a.front,
                 eof |-> a.eof, taken |-> a.taken]
        BY DEF ByRecord
      <4>2. /\ u.first \in Nat /\ u.last \in Nat /\ u.walked \in Nat /\ u.front \in Nat
            /\ u.eof \in BOOLEAN
        BY <3>1 DEF SpanType
      <4> HIDE DEF a
      <4> QED
        BY <3>2, <4>1, <4>2 DEF SpanType
    <3> HIDE DEF a, b
    <3>5. a = b
      BY <3>2, <3>3, <3>4, SameSpan
    <3> QED
      BY <3>5 DEF a, b
  <2>5. Over(x, span)
    <3> DEFINE placed == reader.frames[span.first].start
    <3>1. Loaded(x) = Loaded(window) /\ At(x) = Loaded(x) /\ Loaded(x) \in Nat
      BY <1>2, <2>3, PlacesAre DEF Loaded, At
    <3>2. /\ Counted(window, placed) /\ span.first \in DOMAIN input.frames
          /\ span.last \in DOMAIN input.frames /\ span.first <= span.last
          /\ window.limit = reader.frames[span.last].end
          /\ window.front = window.walked /\ Held(window) = {}
      BY <1>1 DEF Over
    <3>3. placed \in Nat /\ placed <= At(window) /\ At(window) \in Nat /\ At(window) <= Loaded(window)
      <4>1. placed \in Nat
        BY <1>2, <3>2, WholeIs DEF ReaderOK
      <4>2. /\ reader.base \in Nat /\ window.offset \in Nat /\ window.pos \in Nat
            /\ At(window) = reader.base + window.offset + window.pos
            /\ At(window) \in Nat /\ At(window) <= Loaded(window)
        BY <1>2, PlacesAre
      <4>3. placed <= reader.base + window.offset
        BY <3>2 DEF Counted
      <4> HIDE DEF placed
      <4> QED
        BY ONLY <4>1, <4>2, <4>3
    <3>4. reader.base = 0 /\ window.limit \in Nat
      BY <1>2, PlacesAre DEF Whole
    <3>5. Taken(x)
      BY <1>1, <1>6, <1>12, <2>3, <3>4 DEF Taken
    <3> HIDE DEF placed
    <3>6. EndsIn(placed, At(x)) = EndsIn(placed, At(window))
      <4>1. EndsIn(At(window), At(x)) = {} /\ At(x) = Loaded(window)
        BY <1>6, <1>12, <3>1
      <4>2. \A a \in input.ends : a \in Nat
        BY <1>2, FileIs
      <4>3. ASSUME NEW a \in input.ends, placed < a
            PROVE  a <= At(x) <=> a <= At(window)
        <5>1. a \in Nat /\ At(x) \in Nat
          BY <3>1, <4>2
        <5>2. ~(At(window) < a /\ a <= At(x))
          BY <4>1 DEF EndsIn
        <5> QED
          BY ONLY <3>3, <4>1, <5>1, <5>2
      <4> QED
        BY <4>3 DEF EndsIn
    <3>7. Held(x) = {}
      <4>1. \A a \in input.ends : a \in Nat
        BY <1>2, FileIs
      <4> QED
        BY <3>1, <4>1 DEF Held, EndsIn
    <3>8. Counted(x, placed)
      <4>1. /\ placed <= reader.base + window.offset
            /\ reader.base + window.offset \in input.ends \cup {placed}
            /\ window.front = Cardinality(EndsIn(placed, reader.base + window.offset))
            /\ window.walked = Cardinality(EndsIn(placed, At(window)))
            /\ window.eof => Loaded(window) = reader.base + window.limit
        BY <3>2 DEF Counted
      <4> QED
        BY <2>3, <3>1, <3>5, <3>6, <4>1 DEF Counted
    <3> QED
      BY <2>3, <3>2, <3>7, <3>8 DEF Over, placed
  <2>6. Numbers(more) = all(h + 1)
    <3> DEFINE last == <<At(window), Loaded(window)>>
    <3>1. /\ At(window) \in Nat /\ Loaded(window) \in Nat
      BY <1>2, PlacesAre
    <3>2. NumberOf(last) = Count(At(window))
      BY <1>6, <1>12 DEF NumberOf
    <3>3. last \in Nat \X Nat
      BY <3>1
    <3> HIDE DEF last, h, m
    <3>4. /\ more \in Seq(Nat \X Nat) /\ Len(more) = h + 1
          /\ \A i \in 1 .. h + 1 : more[i] = IF i <= h THEN got[i] ELSE last
      <4>1. got \in Seq(Nat \X Nat) /\ Len(got) = h
        BY ONLY <1>4 DEF Underway, h
      <4>2. more = Append(got, last)
        BY DEF more, last
      <4> QED
        BY ONLY <1>9, <3>3, <4>1, <4>2
    <3>5. NumberOf(last) = m + h
      BY <1>8, <3>2 DEF m, h
    <3>6. ASSUME NEW i \in 1 .. h + 1 PROVE NumberOf(more[i]) = m + i - 1
      <4>1. CASE i <= h
        <5>1. i \in 1 .. h /\ more[i] = got[i]
          BY <1>9, <3>4, <4>1
        <5> QED
          BY <1>9, <5>1
      <4>2. CASE ~(i <= h)
        <5>1. i = h + 1
          BY <1>9, <4>2
        <5>2. more[i] = last
          BY <3>4, <4>2
        <5>3. m + h = m + i - 1
          BY <1>9, <5>1
        <5> QED
          BY <3>5, <5>2, <5>3
      <4> QED
        BY <4>1, <4>2
    <3>7. h + 1 \in Nat
      BY <1>9
    <3>8. Numbers(more) = NumbersFrom(m, h + 1)
      BY ONLY <1>9, <3>4, <3>6, <3>7, NumbersAre
    <3> QED
      BY <3>8 DEF NumbersFrom, m
  <2>7. Over(window, span)' /\ ByRecord(window, span)' = ByRecord(x, span) /\ Numbers(got)' = Numbers(more)
    BY <1>1, <2>1, <2>5, SameCall
  <2> QED
    BY <1>5, <1>6, <1>10, <1>12, <2>2, <2>4, <2>6, <2>7 DEF Doing, h
<1>13. CASE ~tail
  <2>1. got' = got /\ call' = e /\ window' = window
    BY <1>1, <1>13
  <2>2. call'.spent = TRUE /\ call'.watch = NoWatch
    BY <1>2, <2>1 DEF e, CallType
  <2>3. Over(window, span)' /\ ByRecord(window, span)' = u /\ Numbers(got)' = Numbers(got)
    BY <1>1, <2>1, SameCall DEF u
  <2>4. Numbers(got) = all(h)
    <3> HIDE DEF m
    <3>1. got \in Seq(Nat \X Nat) /\ Len(got) = h
      BY ONLY <1>4 DEF Underway
    <3> HIDE DEF h
    <3>2. Numbers(got) = NumbersFrom(m, h)
      BY ONLY <1>9, <3>1, NumbersAre
    <3> QED
      BY <3>2 DEF NumbersFrom, m
  <2> QED
    BY <1>5, <1>6, <1>10, <1>13, <2>2, <2>3, <2>4 DEF Doing, h
<1> QED
  BY <1>11, <1>12, <1>13

\* The call returns.
LEMMA FinishGoes ==
  ASSUME CallsInv, call.watch = NoWatch, Over(window, span),
         NEW v, NEW skip, NEW n, NEW short, Doing(v, skip, n, short), Finish, span' = span
  PROVE  Over(window, span)' /\ call'.watch = NoWatch /\ Doing(v, skip, n, short)'
<1>1. /\ input' = input /\ reader' = reader /\ window' = window /\ call.busy
      /\ call.spent \/ Wanted = 0
      /\ Answer(IF (call.left > 0 /\ SpentUneven(window)) \/ FoundNothingUneven
                THEN Refused ELSE got)
  BY DEF Finish
<1>2. /\ input \in Inputs /\ reader = Whole(input) /\ Buffered(window) /\ call \in CallType
  BY DEF CallsInv, WindowInv, CallOK
<1>3. ~SpentUneven(window)
  BY DEF SpentUneven, NoWatch
<1>4. ~FoundNothingUneven
  BY <1>2 DEF FoundNothingUneven, Whole, NoJudge
<1>5. got' = got /\ call' = Idle
  BY <1>1, <1>3, <1>4 DEF Answer
<1>6. [window |-> ByRecord(window, span), got |-> Numbers(got)] \in Calls!Read(v, skip, n, short)
  <2>1. CASE call.spent
    BY <2>1 DEF Doing
  <2>2. CASE ~call.spent
    <3>1. Underway(v, skip, n, short, window, span, call, got)
      BY <1>1, <2>2 DEF Doing
    <3>2. call.skip = 0 /\ call.left = 0
      BY <1>1, <1>2, <2>2 DEF Wanted, CallType
    <3> QED
      BY <1>2, <3>1, <3>2, HandedAll
  <2> QED
    BY <2>1, <2>2
<1>7. /\ Over(window, span)' /\ ByRecord(window, span)' = ByRecord(window, span)
      /\ Numbers(got)' = Numbers(got)
  BY <1>1, <1>5, SameCall
<1>8. Calls!Read(v, skip, n, short)' = Calls!Read(v, skip, n, short)
  BY <1>1, SameReads
<1>9. call'.busy = FALSE /\ call'.watch = NoWatch
  BY <1>5 DEF Idle
<1> QED
  BY <1>6, <1>7, <1>8, <1>9 DEF Doing

LEMMA StepGoes ==
  ASSUME CallsInv, call.watch = NoWatch, Over(window, span),
         NEW v, NEW skip, NEW n, NEW short, Doing(v, skip, n, short), Step, span' = span
  PROVE  Over(window, span)' /\ call'.watch = NoWatch /\ Doing(v, skip, n, short)'
<1>1. CASE TakeRun
  BY <1>1, TakeRunGoes
<1>2. CASE ReadMore
  BY <1>2, ReadMoreGoes
<1>3. CASE RunOutSkipping
  BY <1>3, RunOutSkippingGoes
<1>4. CASE RunOutHanding
  BY <1>4, RunOutHandingGoes
<1>5. CASE Finish
  BY <1>5, FinishGoes
<1> QED
  BY <1>1, <1>2, <1>3, <1>4, <1>5 DEF Step

--------------------------------------------------------------------------------
\* How the call in progress has begun, at frame f: which read by record it is of
\* what the call before it left.
Began(f, v, skip, n, short) ==
  \/ /\ f \in DOMAIN input.frames
     /\ \E index \in 0 .. MaxSkip : Calls!WalkTo(f, index) = [window |-> v, skip |-> skip]
     /\ n = 1 /\ short = <<>>
  \/ /\ f = 0
     /\ \E first, last \in DOMAIN input.frames : first <= last /\ v = Calls!Point(first, last)
     /\ skip \in 0 .. MaxSkip /\ n \in 0 .. MaxLeft /\ short = Refused
  \/ /\ f = left.frame /\ v = left.window
     /\ v \in SpanType /\ Calls!Left(v) \in Nat
     /\ skip = 0 /\ n \in 0 .. MaxLeft /\ short = Refused

\* The inductive invariant.
SpanInv ==
  /\ CallsInv
  /\ call.busy \/ frame # 0 \/ window.limit > 0 => Over(window, span)
  /\ frame # 0 => span = [first |-> frame, last |-> frame]
  /\ call.watch = NoWatch
  /\ IF call.busy
     THEN \E v, skip, n, short : Began(frame, v, skip, n, short) /\ Doing(v, skip, n, short)
     ELSE left = Left(window, span, frame, got)

LEMMA SameBegan ==
  ASSUME input' = input, left' = left, NEW v, NEW skip, NEW n, NEW short
  PROVE  \A f : frame' = f =>
                  (Began(frame, v, skip, n, short)' <=> Began(f, v, skip, n, short))
<1> SUFFICES ASSUME NEW f, frame' = f
             PROVE  Began(frame, v, skip, n, short)' <=> Began(f, v, skip, n, short)
  OBVIOUS
<1>1. \A index : Calls!WalkTo(f, index)' = Calls!WalkTo(f, index)
  BY DEF Calls!WalkTo, Calls!Point
<1>2. \A first, last : Calls!Point(first, last)' = Calls!Point(first, last)
  BY DEF Calls!Point
<1>3. \A index : Calls!WalkTo(frame, index)' = Calls!WalkTo(f, index)
  BY DEF Calls!WalkTo, Calls!Point
<1> QED
  BY <1>2, <1>3, SameNumbers DEF Began

\* A read by record is a step of the window by record.
LEMMA ReadIsAStep ==
  ASSUME input \in Inputs, reader = Whole(input), input' = input, NEW f, frame' = f,
         NEW v, NEW skip, NEW n, NEW short, Began(f, v, skip, n, short),
         left' = Left(window, span, frame, got)',
         [window |-> left'.window, got |-> left'.got] \in Calls!Read(v, skip, n, short)
  PROVE  Calls!Next
<1> DEFINE read == [window |-> left'.window, got |-> left'.got]
<1>1. read \in Calls!Read(v, skip, n, short) /\ Calls!Answered(read) /\ left'.frame = f
  BY DEF Calls!Answered, Left
<1>2. FileOf(input)' = FileOf(input) /\ DOMAIN FileOf(input).ends = DOMAIN input.frames
  BY FileByRecord, SameNumbers
<1> HIDE DEF read
<1>3. ASSUME f \in DOMAIN input.frames, NEW index \in 0 .. MaxSkip,
             Calls!WalkTo(f, index) = [window |-> v, skip |-> skip], n = 1, short = <<>>
      PROVE  Calls!LookUp(f, index)
  BY <1>1, <1>3 DEF Calls!LookUp
<1>4. ASSUME f = 0, NEW first \in DOMAIN input.frames, NEW last \in DOMAIN input.frames,
             v = Calls!Point(first, last), short = Refused
      PROVE  Calls!ReadSpan(first, last, skip, n)
  BY <1>1, <1>4 DEF Calls!ReadSpan
<1>5. ASSUME f = left.frame, v = left.window, v \in SpanType, Calls!Left(v) \in Nat, skip = 0
      PROVE  Calls!GoOn(n)
  <2>1. Calls!Walk(v, 0) = {v}
    <3>1. v.walked \in Nat /\ v.front \in Nat
      BY <1>5 DEF SpanType
    <3>2. PICK k : k = v.walked + 0
      OBVIOUS
    <3>3. k = v.walked /\ v.walked .. v.walked + 0 - 1 = {}
      BY ONLY <3>1, <3>2
    <3>4. [v EXCEPT !.walked = k, !.front = v.front] = v
      BY <1>5, <3>1, <3>3 DEF SpanType
    <3>5. Calls!Walk(v, 0) = {[v EXCEPT !.walked = k, !.front = front] : front \in {v.front}}
      BY <3>2, <3>3 DEF Calls!Walk
    <3> QED
      BY <3>4, <3>5
  <2>2. read \in Calls!HandOut(v, n)
    <3>1. 0 <= Calls!Left(v)
      BY <1>5
    <3>2. Calls!Read(v, 0, n, short) = UNION {Calls!HandOut(u, n) : u \in Calls!Walk(v, 0)}
      BY <3>1 DEF Calls!Read
    <3> QED
      BY <1>1, <1>5, <2>1, <3>2
  <2> QED
    BY <1>1, <1>5, <2>2 DEF Calls!GoOn
<1>6. CASE /\ f \in DOMAIN input.frames
           /\ \E index \in 0 .. MaxSkip : Calls!WalkTo(f, index) = [window |-> v, skip |-> skip]
           /\ n = 1 /\ short = <<>>
  <2>1. PICK index \in 0 .. MaxSkip : Calls!WalkTo(f, index) = [window |-> v, skip |-> skip]
    BY <1>6
  <2>2. Calls!LookUp(f, index)
    BY <1>3, <1>6, <2>1
  <2> QED
    BY <1>2, <1>6, <2>2 DEF Calls!Next
<1>7. CASE /\ f = 0
           /\ \E first, last \in DOMAIN input.frames : first <= last /\ v = Calls!Point(first, last)
           /\ skip \in 0 .. MaxSkip /\ n \in 0 .. MaxLeft /\ short = Refused
  <2>1. PICK first \in DOMAIN input.frames, last \in DOMAIN input.frames :
               first <= last /\ v = Calls!Point(first, last)
    BY <1>7
  <2>2. Calls!ReadSpan(first, last, skip, n)
    BY <1>4, <1>7, <2>1
  <2> QED
    BY <1>2, <1>7, <2>1, <2>2 DEF Calls!Next
<1>8. CASE /\ f = left.frame /\ v = left.window
           /\ v \in SpanType /\ Calls!Left(v) \in Nat
           /\ skip = 0 /\ n \in 0 .. MaxLeft /\ short = Refused
  <2>1. Calls!GoOn(n)
    BY <1>5, <1>8
  <2> QED
    BY <1>2, <1>8, <2>1 DEF Calls!Next
<1> QED
  BY <1>6, <1>7, <1>8 DEF Began

\* A call begins over a window that is over its span.
LEMMA BegunIsKept ==
  ASSUME input \in Inputs, reader = Whole(input), input' = input, reader' = reader, left' = left,
         CallsInv', NEW f, frame' = f, f \in Nat, NEW x, window' = x, NEW s, span' = s, Over(x, s),
         f # 0 => s = [first |-> f, last |-> f],
         NEW skip \in Nat, NEW n \in Nat, NEW short, NEW d, call' = d, d.skip = skip, d.left = n,
         short = (IF d.skipWhole THEN Refused ELSE <<>>), d.watch = NoWatch, d.busy = TRUE,
         d.spent = FALSE,
         Bytes \notin input.ends =>
           /\ d.include = (s.last = Len(input.frames) /\ input.separated)
           /\ d.reject = (s.last = Len(input.frames) /\ ~input.separated),
         got' = <<>>, Began(f, ByRecord(x, s), skip, n, short)
  PROVE  SpanInv'
<1>1. Buffered(x)
  <2>1. Buffered(window)'
    BY DEF CallsInv, WindowInv
  <2> QED
    BY <2>1, SameFile
<1>2. PICK v : v = ByRecord(x, s)
  OBVIOUS
<1>3. Underway(v, skip, n, short, x, s, d, <<>>)
  BY <1>1, <1>2, NothingDone
<1>4. Over(window, span)' /\ Underway(v, skip, n, short, window, span, call, got)'
  BY <1>3, SameCall
<1>5. Began(frame, v, skip, n, short)'
  BY <1>2, SameBegan
<1>6. Doing(v, skip, n, short)'
  BY <1>4 DEF Doing
<1>7. frame' # 0 => span' = [first |-> frame', last |-> frame']
  OBVIOUS
<1>8. call'.busy = TRUE /\ call'.watch = NoWatch
  OBVIOUS
<1> QED
  BY <1>4, <1>5, <1>6, <1>7, <1>8 DEF SpanInv

\* The final read of a cursor is that of the last frame.
LEMMA FramesOfWhole ==
  ASSUME input \in Inputs, reader = Whole(input)
  PROVE  /\ Len(reader.frames) = Len(input.frames)
         /\ \A last \in DOMAIN input.frames :
              Bytes \notin input.ends =>
                ((reader.frames[last].end = reader.frames[Len(reader.frames)].end)
                  <=> (last = Len(input.frames)))
<1>1. Len(reader.frames) = Len(input.frames)
  BY SpansAre DEF Whole
<1>2. Len(input.frames) \in DOMAIN input.frames
  BY FileIs
<1>3. reader.frames[Len(input.frames)].end = Bytes
  BY <1>2, FileByRecord DEF Bytes
<1> QED
  BY <1>1, <1>3, FileByRecord

LEMMA LookUpGoes ==
  ASSUME SpanInv, CallsInv', LookUpRecord
  PROVE  SpanInv'
<1>1. PICK f \in DOMAIN input.frames, index \in 0 .. MaxSkip :
             LookUp(f, index, frame) /\ span' = [first |-> f, last |-> f]
  BY DEF LookUpRecord
<1> DEFINE x == IF frame = f /\ CanWalkFrom(window, index) THEN WalkFrom(window, index)
                ELSE SeekTo(window, reader.frames[f].start,
                            reader.frames[f].end - reader.frames[f].start)
           s == [first |-> f, last |-> f]
           skip == index - x.walked
           d == Cursor(skip, FALSE, 1, f = Len(reader.frames), NoWatch)
<1>2. /\ input' = input /\ reader' = reader /\ left' = left /\ frame' = f /\ window' = x
      /\ span' = s /\ call' = d /\ got' = <<>> /\ ~call.busy
  BY <1>1 DEF LookUpRecord, LookUp
<1>3. /\ input \in Inputs /\ reader = Whole(input) /\ Buffered(window)
  BY DEF SpanInv, CallsInv, WindowInv
<1>4. f \in Nat /\ f # 0 /\ index \in Nat
  BY <1>3, FileIs
<1>5. /\ frame = f => Over(window, s) /\ left.window = ByRecord(window, s)
      /\ left.frame = frame
  BY <1>2, <1>4 DEF SpanInv, Left
<1> HIDE DEF s
<1>6. s = [first |-> f, last |-> f] /\ s.last = f
  BY DEF s
<1> DEFINE w == x
<1>7. w = IF frame = f /\ CanWalkFrom(window, index) THEN WalkFrom(window, index)
          ELSE SeekTo(window, reader.frames[f].start,
                      reader.frames[f].end - reader.frames[f].start)
  OBVIOUS
<1>8. /\ Over(x, s)
      /\ Calls!WalkTo(f, index) = [window |-> ByRecord(x, s), skip |-> skip]
      /\ skip \in Nat
  <2> HIDE DEF w
  <2>1. /\ Over(w, s)
        /\ Calls!WalkTo(f, index) = [window |-> ByRecord(w, s), skip |-> index - w.walked]
        /\ index - w.walked \in Nat
    BY ONLY <1>3, <1>4, <1>5, <1>6, <1>7, LookedUp, f \in DOMAIN input.frames
  <2> QED
    BY <2>1 DEF w
<1> HIDE DEF x, w, skip
<1>9. /\ d.skip = skip /\ d.left = 1 /\ d.skipWhole = FALSE /\ d.watch = NoWatch /\ d.busy = TRUE
      /\ d.spent = FALSE
      /\ d.include = (f = Len(reader.frames) /\ input.separated)
      /\ d.reject = (f = Len(reader.frames) /\ ~input.separated)
  BY DEF Cursor
<1> HIDE DEF d
<1>10. Began(f, ByRecord(x, s), skip, 1, <<>>)
  BY <1>8 DEF Began
<1>11. /\ d.include = (s.last = Len(input.frames) /\ input.separated)
       /\ d.reject = (s.last = Len(input.frames) /\ ~input.separated)
  BY <1>3, <1>6, <1>9, FramesOfWhole
<1>12. <<>> = (IF d.skipWhole THEN Refused ELSE <<>>)
  BY <1>9
<1> QED
  BY <1>2, <1>3, <1>4, <1>6, <1>8, <1>9, <1>10, <1>11, <1>12, BegunIsKept

LEMMA ReadFramesGoes ==
  ASSUME SpanInv, CallsInv', ReadFrames
  PROVE  SpanInv'
<1>1. PICK first \in DOMAIN input.frames, last \in DOMAIN input.frames,
           skip \in 0 .. MaxSkip, n \in 0 .. MaxLeft :
             /\ first <= last
             /\ ReadSpan(first, last, skip, n, NoWatch)
             /\ span' = [first |-> first, last |-> last]
  BY DEF ReadFrames
<1> DEFINE x == SeekTo(window, reader.frames[first].start,
                       reader.frames[last].end - reader.frames[first].start)
           s == [first |-> first, last |-> last]
           d == Cursor(skip, TRUE, n,
                       reader.frames[last].end = reader.frames[Len(reader.frames)].end, NoWatch)
<1>2. /\ input' = input /\ reader' = reader /\ left' = left /\ frame' = 0 /\ window' = x
      /\ span' = s /\ call' = d /\ got' = <<>>
  BY <1>1 DEF ReadFrames, ReadSpan
<1>3. input \in Inputs /\ reader = Whole(input)
  BY DEF SpanInv, CallsInv, WindowInv
<1>4. skip \in Nat /\ n \in Nat /\ s.last = last
  OBVIOUS
<1>5. Over(x, s) /\ ByRecord(x, s) = Calls!Point(first, last)
  BY <1>1, <1>3, PlacedOver
<1>6. /\ d.skip = skip /\ d.left = n /\ d.skipWhole = TRUE /\ d.watch = NoWatch /\ d.busy = TRUE
      /\ d.spent = FALSE
      /\ d.include =
           (reader.frames[last].end = reader.frames[Len(reader.frames)].end /\ input.separated)
      /\ d.reject =
           (reader.frames[last].end = reader.frames[Len(reader.frames)].end /\ ~input.separated)
  BY DEF Cursor
<1> HIDE DEF x, s, d
<1>7. Bytes \notin input.ends =>
        /\ d.include = (s.last = Len(input.frames) /\ input.separated)
        /\ d.reject = (s.last = Len(input.frames) /\ ~input.separated)
  BY <1>3, <1>4, <1>6, FramesOfWhole
<1>8. Began(0, ByRecord(x, s), skip, n, Refused)
  BY <1>1, <1>5 DEF Began
<1>9. Refused = (IF d.skipWhole THEN Refused ELSE <<>>)
  BY <1>6
<1> QED
  BY <1>2, <1>3, <1>4, <1>5, <1>6, <1>7, <1>8, <1>9, BegunIsKept

LEMMA ReadOnGoes ==
  ASSUME SpanInv, CallsInv', ReadOn
  PROVE  SpanInv'
<1>1. PICK n \in 0 .. MaxLeft : GoOn(n, span.last = Len(input.frames))
  BY DEF ReadOn
<1> DEFINE d == Cursor(0, TRUE, n, span.last = Len(input.frames), NoWatch)
           v == ByRecord(window, span)
<1>2. /\ input' = input /\ reader' = reader /\ left' = left /\ frame' = frame /\ window' = window
      /\ span' = span /\ call' = d /\ got' = <<>> /\ ~call.busy /\ window.limit > 0
  BY <1>1 DEF ReadOn, GoOn
<1>3. input \in Inputs /\ reader = Whole(input) /\ Buffered(window) /\ frame \in 0 .. Len(reader.frames)
  BY DEF SpanInv, CallsInv, WindowInv
<1>4. /\ Over(window, span) /\ (frame # 0 => span = [first |-> frame, last |-> frame])
      /\ left.window = v /\ left.frame = frame
  BY <1>2 DEF SpanInv, Left
<1>5. v \in SpanType /\ Calls!Left(v) \in Nat
  BY <1>3, <1>4, AsRecords
<1>6. frame \in Nat /\ n \in Nat /\ 0 \in Nat
  <2>1. frame \in 0 .. Len(reader.frames)
    BY <1>3
  <2> QED
    BY <2>1
<1>7. /\ d.skip = 0 /\ d.left = n /\ d.skipWhole = TRUE /\ d.watch = NoWatch /\ d.busy = TRUE
      /\ d.spent = FALSE
      /\ d.include = (span.last = Len(input.frames) /\ input.separated)
      /\ d.reject = (span.last = Len(input.frames) /\ ~input.separated)
  BY DEF Cursor
<1> HIDE DEF d
<1>8. Began(frame, ByRecord(window, span), 0, n, Refused)
  BY <1>4, <1>5 DEF Began
<1>9. Refused = (IF d.skipWhole THEN Refused ELSE <<>>)
  BY <1>7
<1> QED
  BY <1>2, <1>3, <1>4, <1>6, <1>7, <1>8, <1>9, BegunIsKept

LEMMA CallGoes ==
  ASSUME SpanInv, CallsInv', StepOfCall
  PROVE  SpanInv' /\ [Calls!Next]_<<FileOf(input), left.window, left.frame, left.got>>
<1>1. /\ Step /\ span' = span /\ call.busy
      /\ left' = IF call'.busy THEN left ELSE Left(window', span, frame', got')
  BY DEF StepOfCall, Step, TakeRun, ReadMore, RunOutSkipping, RunOutHanding, Finish, Walking
<1>2. input' = input /\ reader' = reader /\ frame' = frame
  BY <1>1 DEF Step, TakeRun, ReadMore, RunOutSkipping, RunOutHanding, Finish
<1>3. /\ CallsInv /\ Over(window, span) /\ call.watch = NoWatch
      /\ (frame # 0 => span = [first |-> frame, last |-> frame])
      /\ input \in Inputs /\ reader = Whole(input)
  BY <1>1 DEF SpanInv, CallsInv, WindowInv
<1>4. PICK v, skip, n, short : Began(frame, v, skip, n, short) /\ Doing(v, skip, n, short)
  BY <1>1 DEF SpanInv
<1>5. Over(window, span)' /\ call'.watch = NoWatch /\ Doing(v, skip, n, short)'
  BY <1>1, <1>3, <1>4, StepGoes
<1>6. CASE call'.busy
  <2>1. left' = left
    BY <1>1, <1>6
  <2>2. Began(frame, v, skip, n, short)'
    BY <1>2, <1>4, <2>1, SameBegan
  <2>3. SpanInv'
    BY <1>1, <1>2, <1>3, <1>5, <1>6, <2>2 DEF SpanInv
  <2>4. FileOf(input)' = FileOf(input)
    BY <1>2, SameNumbers
  <2> QED
    BY <2>1, <2>3, <2>4
<1>7. CASE ~call'.busy
  <2>1. left' = Left(window, span, frame, got)'
    <3>1. left' = Left(window', span, frame', got')
      BY <1>1, <1>7
    <3>2. Numbers(got)' = Numbers(got') /\ ByRecord(window, span)' = ByRecord(window', span)
      BY <1>1, <1>2, SameCall
    <3> QED
      BY <3>1, <3>2 DEF Left
  <2>2. SpanInv'
    BY <1>1, <1>2, <1>3, <1>5, <1>7, <2>1 DEF SpanInv
  <2>3. [window |-> left'.window, got |-> left'.got] \in Calls!Read(v, skip, n, short)
    <3>1. [window |-> ByRecord(window, span)', got |-> Numbers(got)']
            \in Calls!Read(v, skip, n, short)'
      BY <1>5, <1>7 DEF Doing
    <3>2. left'.window = ByRecord(window, span)' /\ left'.got = Numbers(got)'
      BY <2>1 DEF Left
    <3> QED
      BY <1>2, <3>1, <3>2, SameReads
  <2>4. Calls!Next
    BY <1>2, <1>3, <1>4, <2>1, <2>3, ReadIsAStep
  <2> QED
    BY <2>2, <2>4
<1> QED
  BY <1>6, <1>7

\* The window of a reader that has just been opened is over no records.
LEMMA OpenedByRecord ==
  ASSUME Init
  PROVE  SpanInv /\ Calls!Init
<1>1. /\ input \in Inputs /\ window = Cleared(BufSize, 0, 0, 1) /\ frame = 0 /\ call = Idle
      /\ got = <<>> /\ span = NoSpan /\ left = Left(window, span, frame, got)
  BY DEF Init, OpenedAt
<1>2. window.limit = 0 /\ window.walked = 0 /\ window.front = 0 /\ window.eof = FALSE
  BY <1>1 DEF Cleared
<1>3. call.busy = FALSE /\ call.watch = NoWatch
  BY <1>1 DEF Idle
<1>4. SpanInv
  BY <1>1, <1>2, <1>3, CallsInit DEF SpanInv
<1>5. left.window = Calls!Point(1, 1)
  BY <1>1, <1>2 DEF Left, ByRecord, NoSpan, Calls!Point
<1>6. left.frame = 0 /\ left.got = <<>>
  <2>1. <<>> # Refused
    <3>1. <<>> \in Seq(Nat \X Nat)
      OBVIOUS
    <3> QED
      BY <3>1, RefusedAssumption
  <2> QED
    BY <1>1, <2>1 DEF Left, Numbers
<1>7. FileOf(input) \in {FileOf(i) : i \in Inputs}
  BY <1>1
<1> QED
  BY <1>4, <1>5, <1>6, <1>7 DEF Calls!Init, Calls!LookupInit

LEMMA CallsGoOn ==
  ASSUME SpanInv, CallsInv', [Next]_vars
  PROVE  SpanInv' /\ [Calls!Next]_<<FileOf(input), left.window, left.frame, left.got>>
<1>1. ASSUME input' = input, left' = left
      PROVE  UNCHANGED <<FileOf(input), left.window, left.frame, left.got>>
  BY <1>1, SameNumbers
<1>2. CASE LookUpRecord
  <2>1. input' = input /\ left' = left
    BY <1>2 DEF LookUpRecord, LookUp
  <2> QED
    BY <1>1, <1>2, <2>1, LookUpGoes
<1>3. CASE ReadFrames
  <2>1. input' = input /\ left' = left
    BY <1>3 DEF ReadFrames, ReadSpan
  <2> QED
    BY <1>1, <1>3, <2>1, ReadFramesGoes
<1>4. CASE ReadOn
  <2>1. input' = input /\ left' = left
    BY <1>4 DEF ReadOn, GoOn
  <2> QED
    BY <1>1, <1>4, <2>1, ReadOnGoes
<1>5. CASE StepOfCall
  BY <1>5, CallGoes
<1>6. CASE UNCHANGED vars
  <2>1. /\ input' = input /\ reader' = reader /\ window' = window /\ frame' = frame /\ call' = call
        /\ got' = got /\ span' = span /\ left' = left
    BY <1>6 DEF vars, windowVars
  <2>2. CASE call.busy
    <3>1. PICK v, skip, n, short : Began(frame, v, skip, n, short) /\ Doing(v, skip, n, short)
      BY <2>2 DEF SpanInv
    <3>2. Began(frame, v, skip, n, short)'
      BY <2>1, <3>1, SameBegan
    <3>3. /\ Over(window, span)' <=> Over(window, span)
          /\ ByRecord(window, span)' = ByRecord(window, span) /\ Numbers(got)' = Numbers(got)
          /\ Underway(v, skip, n, short, window, span, call, got)' <=>
               Underway(v, skip, n, short, window, span, call, got)
          /\ Calls!Read(v, skip, n, short)' = Calls!Read(v, skip, n, short)
      BY <2>1, SameCall, SameReads
    <3>4. Doing(v, skip, n, short)'
      BY <2>1, <3>1, <3>3 DEF Doing
    <3> QED
      BY <1>1, <2>1, <2>2, <3>2, <3>3, <3>4 DEF SpanInv
  <2>3. CASE ~call.busy
    <3>1. /\ Over(window, span)' <=> Over(window, span)
          /\ ByRecord(window, span)' = ByRecord(window, span) /\ Numbers(got)' = Numbers(got)
      BY <2>1, SameCall
    <3>2. left' = Left(window, span, frame, got)'
      BY <2>1, <2>3, <3>1 DEF SpanInv, Left
    <3> QED
      BY <1>1, <2>1, <2>3, <3>1, <3>2 DEF SpanInv
  <2> QED
    BY <2>2, <2>3
<1> QED
  BY <1>2, <1>3, <1>4, <1>5, <1>6 DEF Next

\* The window implements the window by record: whatever is looked up, read and
\* read on in whatever order, however little each read brings in and however the
\* buffer slides and grows, each call hands out the records that Lookup says.
THEOREM WindowIsByRecord == Spec => ImplementsLookup
<1>1. Init => SpanInv /\ Calls!Init
  BY OpenedByRecord
<1>2. SpanInv /\ CallsInv' /\ [Next]_vars =>
        SpanInv' /\ [Calls!Next]_(Calls!spanVars)
  BY CallsGoOn DEF Calls!spanVars
<1> QED
  BY <1>1, <1>2, CallsKept, PTL DEF Spec, ImplementsLookup, Calls!Spec
================================================================================
