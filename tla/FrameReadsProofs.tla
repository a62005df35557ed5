---------------------------- MODULE FrameReadsProofs ---------------------------
(***************************************************************************)
(* What verifying readers and sharing ones hand out: of any file no record *)
(* across the end of a frame, and nothing behind a frame that ought to     *)
(* have been refused; and of a file that keeps the invariant of            *)
(* docs/format.md exactly the records that are asked for.                  *)
(***************************************************************************)
EXTENDS FrameReads, RecordWindowProofs

--------------------------------------------------------------------------------
(***************************************************************************)
(* Quotients and products.                                                 *)
(***************************************************************************)
LEMMA Grows ==
  ASSUME NEW a \in Nat, NEW b \in Nat, NEW n \in Nat, a <= b
  PROVE  a * n \in Nat /\ b * n \in Nat /\ a * n <= b * n
<1>1. PICK d \in Nat : b = a + d
  <2>1. b - a \in Nat /\ b = a + (b - a)
    OBVIOUS
  <2> QED
    BY <2>1
<1>2. (a + d) * n = a * n + d * n
  OBVIOUS
<1>3. a * n \in Nat /\ d * n \in Nat
  OBVIOUS
<1> QED
  BY <1>1, <1>2, <1>3

LEMMA Divided ==
  ASSUME NEW i \in Nat, NEW n \in Nat \ {0}
  PROVE  /\ i \div n \in Nat
         /\ (i \div n) * n \in Nat
         /\ (i \div n) * n <= i /\ i < (i \div n) * n + n
OBVIOUS

LEMMA OneMore ==
  ASSUME NEW q \in Nat, NEW n \in Nat
  PROVE  (q + 1) * n = q * n + n
OBVIOUS

\* Division keeps the order, and stays below what the product stays below.
LEMMA DividedGrows ==
  ASSUME NEW i \in Nat, NEW j \in Nat, NEW n \in Nat \ {0}, NEW m \in Nat
  PROVE  /\ i <= j => i \div n <= j \div n
         /\ i < m * n => i \div n < m
         /\ (i \div n) \in Nat /\ (i \div n) * n <= i
<1>1. ASSUME NEW k \in Nat, NEW c \in Nat, k < c * n PROVE k \div n < c
  <2> SUFFICES ASSUME c <= k \div n PROVE FALSE
    BY Divided
  <2>1. k \div n \in Nat /\ (k \div n) * n \in Nat /\ (k \div n) * n <= k
    BY Divided
  <2>2. c * n <= (k \div n) * n /\ c * n \in Nat
    BY <2>1, Grows
  <2> QED
    BY <1>1, <2>1, <2>2
<1>2. ASSUME i <= j PROVE i \div n <= j \div n
  <2>1. j \div n \in Nat /\ i \div n \in Nat /\ (j \div n) * n \in Nat /\ j < (j \div n) * n + n
    BY Divided
  <2>2. ((j \div n) + 1) * n = (j \div n) * n + n
    BY <2>1, OneMore
  <2>3. i < ((j \div n) + 1) * n
    BY <1>2, <2>1, <2>2
  <2>4. i \div n < (j \div n) + 1
    BY <1>1, <2>1, <2>3
  <2> QED
    BY <2>1, <2>4
<1> QED
  BY <1>1, <1>2, Divided

--------------------------------------------------------------------------------
(***************************************************************************)
(* Opening a reader.                                                       *)
(***************************************************************************)
LEMMA GroupSizeIs ==
  ASSUME input \in Inputs, NEW f \in DOMAIN input.frames
  PROVE  GroupSize(input, f) \in Nat \ {0}
<1> DEFINE n == Len(input.frames)
           sizes == {input.frames[g] - (IF g = 1 THEN 0 ELSE input.frames[g - 1]) :
                      g \in DOMAIN input.frames}
           base == IF f = 1 THEN 0 ELSE input.frames[f - 1]
<1>1. /\ n \in Nat \ {0} /\ DOMAIN input.frames = 1 .. n
      /\ \A g \in DOMAIN input.frames : input.frames[g] \in Nat /\ input.frames[g] <= Bytes
      /\ \A g, h \in DOMAIN input.frames : g <= h => input.frames[g] <= input.frames[h]
      /\ Bytes \in Nat /\ Bytes = input.frames[n]
  BY FileIs, FramesGrow DEF Bytes
<1>2. CASE input.frames[n] - base <= Limit
  <2>1. GroupSize(input, f) = n - f + 1
    BY <1>2 DEF GroupSize
  <2> QED
    BY <1>1, <2>1
<1>3. CASE ~(input.frames[n] - base <= Limit)
  <2>1. GroupSize(input, f) = Max({1, Limit \div Max(sizes)})
    BY <1>3 DEF GroupSize
  <2>2. \A g \in DOMAIN input.frames : g # 1 => g - 1 \in DOMAIN input.frames /\ g - 1 <= g /\ ~(g <= g - 1)
    BY <1>1
  <2>3. base \in Nat /\ Limit \in Nat
    BY <1>1, <2>2, FrameReadsAssumption
  <2>4. input.frames[n] > 0
    BY <1>1, <1>3, <2>3
  <2> DEFINE some == {g \in DOMAIN input.frames : input.frames[g] > 0}
  <2>5. PICK g \in some : \A h \in some : g <= h
    <3>1. n \in some /\ some \in SUBSET Nat
      BY <1>1, <2>4
    <3> HIDE DEF some
    <3> QED
      BY <3>1, LeastOf
  <2>6. g \in DOMAIN input.frames /\ input.frames[g] > 0
    OBVIOUS
  <2>7. input.frames[g] - (IF g = 1 THEN 0 ELSE input.frames[g - 1]) > 0
    <3>1. CASE g = 1
      BY <1>1, <2>6, <3>1
    <3>2. CASE g # 1
      <4>1. g - 1 \in DOMAIN input.frames /\ ~(g <= g - 1)
        BY <2>2, <2>6, <3>2
      <4>2. g - 1 \notin some
        BY <2>5, <4>1
      <4>3. input.frames[g - 1] = 0
        BY <1>1, <4>1, <4>2
      <4> QED
        BY <1>1, <2>6, <3>2, <4>3
    <3> QED
      BY <3>1, <3>2
  <2>8. \A h \in DOMAIN input.frames :
          LET size == input.frames[h] - (IF h = 1 THEN 0 ELSE input.frames[h - 1])
          IN  size \in Nat /\ size <= Bytes
    <3> SUFFICES ASSUME NEW h \in DOMAIN input.frames
                 PROVE  LET size == input.frames[h] - (IF h = 1 THEN 0 ELSE input.frames[h - 1])
                        IN  size \in Nat /\ size <= Bytes
      OBVIOUS
    <3>1. CASE h = 1
      BY <1>1, <3>1
    <3>2. CASE h # 1
      <4>1. /\ input.frames[h - 1] \in Nat /\ input.frames[h] \in Nat
            /\ input.frames[h - 1] <= input.frames[h] /\ input.frames[h] <= Bytes
        BY <1>1, <2>2, <3>2
      <4>2. Bytes \in Nat
        BY <1>1, FrameReadsAssumption
      <4> QED
        BY <3>2, <4>1, <4>2
    <3> QED
      BY <3>1, <3>2
  <2>9. sizes \in SUBSET Nat /\ \A s \in sizes : s <= Bytes
    BY <2>8
  <2>10. \E s \in sizes : s > 0
    BY <2>6, <2>7
  <2> HIDE DEF sizes
  <2>11. Max(sizes) \in Nat \ {0}
    <3>1. Max(sizes) \in sizes /\ \A s \in sizes : s <= Max(sizes)
      BY <1>1, <2>9, <2>10, MaxIs
    <3>2. PICK s \in sizes : s > 0
      BY <2>10
    <3>3. s \in Nat /\ Max(sizes) \in Nat /\ s <= Max(sizes)
      BY <2>9, <3>1
    <3> QED
      BY <3>2, <3>3
  <2> DEFINE q == Limit \div Max(sizes)
  <2>12. q \in Nat
    BY <2>3, <2>11, Divided
  <2> HIDE DEF q
  <2>13. {1, q} \in SUBSET Nat /\ \A x \in {1, q} : x <= q + 1
    BY <2>12
  <2>14. Max({1, q}) \in {1, q} /\ \A x \in {1, q} : x <= Max({1, q})
    <3>1. q + 1 \in Nat /\ {1, q} # {}
      BY <2>12
    <3> QED
      BY <2>13, <3>1, MaxIs
  <2>15. Max({1, q}) \in Nat \ {0}
    <3>1. Max({1, q}) \in Nat /\ 1 <= Max({1, q})
      BY <2>13, <2>14
    <3> QED
      BY <3>1
  <2> QED
    BY <2>1, <2>15 DEF q
<1> QED
  BY <1>2, <1>3

\* The groups of frames of a reader that shares a file follow one another.
LEMMA GroupsAre ==
  ASSUME input \in Inputs, NEW f \in DOMAIN input.frames
  PROVE  LET base == IF f = 1 THEN 0 ELSE input.frames[f - 1]
             s == Groups(input, f)
         IN  /\ base \in Nat /\ base <= Bytes
             /\ Len(s) \in Nat \ {0} /\ DOMAIN s = 1 .. Len(s)
             /\ \A g \in DOMAIN s : s[g].start \in Nat /\ s[g].end \in Nat /\ base + s[g].end <= Bytes
             /\ \A g, h \in DOMAIN s : g <= h => s[g].start <= s[h].end
<1> DEFINE n == Len(input.frames)
           base == IF f = 1 THEN 0 ELSE input.frames[f - 1]
           size == GroupSize(input, f)
           index(g) == Min({f - 1 + g * size, n})
           endOf(g) == input.frames[index(g)] - base
           number == (n - f + size) \div size
           s == Groups(input, f)
<1>1. /\ n \in Nat \ {0} /\ DOMAIN input.frames = 1 .. n
      /\ \A g \in DOMAIN input.frames : input.frames[g] \in Nat /\ input.frames[g] <= Bytes
      /\ \A g, h \in DOMAIN input.frames : g <= h => input.frames[g] <= input.frames[h]
      /\ Bytes \in Nat
  BY FileIs, FramesGrow
<1>2. size \in Nat \ {0}
  BY GroupSizeIs
<1>3. base \in Nat /\ base <= Bytes /\ f \in Nat /\ 1 <= f /\ f <= n
  <2>1. f # 1 => f - 1 \in DOMAIN input.frames
    BY <1>1
  <2> QED
    BY <1>1, <2>1
<1>4. ASSUME NEW g \in DOMAIN input.frames, f <= g
      PROVE  base <= input.frames[g]
  <2>1. f # 1 => f - 1 \in DOMAIN input.frames /\ f - 1 <= g
    BY <1>1, <1>4
  <2> QED
    BY <1>1, <2>1
<1>5. s = [g \in 1 .. number |-> [start |-> IF g = 1 THEN 0 ELSE endOf(g - 1), end |-> endOf(g)]]
  BY DEF Groups
<1> HIDE DEF size, base, s
<1>6. number \in Nat \ {0}
  <2>1. n - f + size \in Nat
    BY <1>1, <1>2, <1>3
  <2>2. number \in Nat
    BY <1>2, <2>1, Divided
  <2>3. number # 0
    <3> SUFFICES ASSUME number = 0 PROVE FALSE
      OBVIOUS
    <3>1. n - f + size < number * size + size
      BY <1>2, <2>1, Divided
    <3> HIDE DEF number
    <3> QED
      BY <1>1, <1>2, <1>3, <3>1
  <2> QED
    BY <2>2, <2>3
<1> HIDE DEF number
<1>7. ASSUME NEW g \in Nat \ {0}
      PROVE  /\ index(g) \in DOMAIN input.frames /\ f <= index(g) /\ index(g) \in Nat
             /\ index(g) <= f - 1 + g * size /\ index(g) \in {f - 1 + g * size, n}
  <2> DEFINE p == f - 1 + g * size
  <2>1. 1 * size <= g * size /\ g * size \in Nat
    BY <1>2, Grows
  <2>2. p \in Nat /\ f <= p
    BY <1>2, <1>3, <2>1
  <2> HIDE DEF p
  <2>3. {p, n} \in SUBSET Nat /\ {p, n} # {}
    BY <1>1, <2>2
  <2>4. Min({p, n}) \in {p, n} /\ Min({p, n}) <= p /\ Min({p, n}) <= n
    BY <2>3, MinIs
  <2>5. Min({p, n}) \in 1 .. n /\ f <= Min({p, n}) /\ Min({p, n}) \in Nat
    BY <1>1, <1>3, <2>2, <2>4
  <2> QED
    BY <1>1, <2>4, <2>5 DEF p
<1> HIDE DEF index
<1>8. ASSUME NEW g \in Nat \ {0}, NEW h \in Nat \ {0}, g <= h
      PROVE  index(g) <= index(h)
  <2>1. g * size <= h * size /\ g * size \in Nat /\ h * size \in Nat
    BY <1>2, <1>8, Grows
  <2>2. index(g) <= f - 1 + g * size /\ index(g) \in 1 .. n /\ index(h) \in {f - 1 + h * size, n}
    BY <1>1, <1>7
  <2>3. CASE index(h) = n
    BY <1>1, <2>2, <2>3
  <2>4. CASE index(h) = f - 1 + h * size
    BY <1>1, <1>3, <2>1, <2>2, <2>4
  <2> QED
    BY <2>2, <2>3, <2>4
<1>9. ASSUME NEW g \in Nat \ {0}
      PROVE  endOf(g) \in Nat /\ base + endOf(g) <= Bytes
  <2>1. index(g) \in DOMAIN input.frames /\ f <= index(g)
    BY <1>7
  <2>2. base <= input.frames[index(g)] /\ input.frames[index(g)] \in Nat
        /\ input.frames[index(g)] <= Bytes
    BY <1>1, <1>4, <2>1
  <2> QED
    BY <1>1, <1>3, <2>2
<1>10. ASSUME NEW g \in Nat \ {0}, NEW h \in Nat \ {0}, g <= h
       PROVE  endOf(g) <= endOf(h)
  <2>1. input.frames[index(g)] <= input.frames[index(h)]
        /\ input.frames[index(g)] \in Nat /\ input.frames[index(h)] \in Nat
    BY <1>1, <1>7, <1>8, <1>10
  <2> QED
    BY <1>3, <2>1
<1> HIDE DEF endOf
<1>11. DOMAIN s = 1 .. number /\ Len(s) = number
  <2>1. DOMAIN s = 1 .. number
    BY <1>5
  <2>2. s \in [1 .. number -> {s[g] : g \in 1 .. number}]
    BY <1>5
  <2>3. s \in Seq({s[g] : g \in 1 .. number})
    BY <1>6, <2>2, SeqDef
  <2>4. Len(s) \in Nat /\ DOMAIN s = 1 .. Len(s)
    BY <2>3, LenProperties
  <2> QED
    BY <1>6, <2>1, <2>4
<1>12. ASSUME NEW g \in 1 .. number
       PROVE  /\ s[g].start \in Nat /\ s[g].end \in Nat /\ base + s[g].end <= Bytes
              /\ \A h \in 1 .. number : g <= h => s[g].start <= s[h].end
  <2>1. g \in Nat \ {0} /\ (g # 1 => g - 1 \in Nat \ {0})
    BY <1>6
  <2>2. s[g].start = (IF g = 1 THEN 0 ELSE endOf(g - 1)) /\ s[g].end = endOf(g)
    BY <1>5
  <2>3. ASSUME NEW h \in 1 .. number, g <= h PROVE s[g].start <= s[h].end
    <3>1. h \in Nat \ {0} /\ s[h].end = endOf(h) /\ endOf(h) \in Nat
      BY <1>5, <1>6, <1>9
    <3>2. CASE g = 1
      BY <2>2, <3>1, <3>2
    <3>3. CASE g # 1
      <4>1. g - 1 <= h
        BY <2>1, <2>3, <3>1
      <4> QED
        BY <1>10, <2>1, <2>2, <3>1, <3>3, <4>1
    <3> QED
      BY <3>2, <3>3
  <2> QED
    BY <1>9, <2>1, <2>2, <2>3
<1> QED
  BY <1>3, <1>6, <1>11, <1>12 DEF base, s

\* A reader of these: it guards the frame ends unless it verifies the whole file,
\* whose frames it then reads as they are, held to the count of the first.
OpenOK ==
  /\ ReaderOK
  /\ PerFrame(input) \in Nat \ {0} /\ reader.sepCnt \in Nat \ {0}
  /\ reader.judge.verifies \in BOOLEAN /\ reader.judge.shares \in BOOLEAN
  /\ reader.judge.verifies =>
       /\ reader.judge.first \in DOMAIN input.frames
       /\ reader.judge.last = Len(input.frames) - reader.judge.first
       /\ reader.judge.perFrame = PerFrame(input)
  /\ reader.judge.verifies /\ ~reader.judge.shares =>
       /\ reader.base = 0 /\ reader.frames = Spans(input) /\ reader.sepCnt = PerFrame(input)
       /\ reader.judge.first = 1
  /\ reader.guard = FrameEnds(input) \/ (reader.judge.verifies /\ ~reader.judge.shares)

\* The watch over a span that a verifying reader reads: what it watches are the
\* frames behind the first Skipping of the file, as far as the span reaches.
Skipping(watch) == watch.first + reader.judge.first - 1
Watches(watch, placed, upto) ==
  /\ Skipping(watch) \in 0 .. Len(input.frames)
  /\ \A g \in DOMAIN input.frames : g <= Skipping(watch) => input.frames[g] <= placed
  /\ \A g \in DOMAIN input.frames :
       Skipping(watch) < g /\ input.frames[g] <= upto => g - Skipping(watch) \in DOMAIN watch.at
  /\ \A k \in DOMAIN watch.at : /\ Skipping(watch) + k \in DOMAIN input.frames
                                /\ watch.at[k] = input.frames[Skipping(watch) + k]
                                /\ placed <= watch.at[k]
SpanEnd == reader.base + window.limit
Watching == Watches(call.watch, PlacedAt, SpanEnd)

\* A reader of the whole file that is asked for the record behind as many as all
\* frames can hold reads the last frame, of which it knows that it is full.
LastOnly ==
  /\ DOMAIN call.watch.at = {}
  /\ PlacedAt = FrameStart(Len(input.frames))
  /\ HeldIn(Len(input.frames)) = PerFrame(input)

\* What the watcher was told of a frame: where its walk of it began, and that it
\* holds what it should.
WatchedFrom(k) == IF k = 1 THEN PlacedAt ELSE call.watch.at[k - 1]
JudgedEven(k) ==
  LET held == Cardinality(EndsIn(WatchedFrom(k), call.watch.at[k]))
  IN  IF Skipping(call.watch) + k = Len(input.frames) THEN held <= PerFrame(input)
      ELSE held = PerFrame(input) /\ call.watch.at[k] \in input.ends

\* How far the walk has come, and the watcher with it.
Progress ==
  /\ PlacedAt <= At(window)
  /\ window.walked = Cardinality(EndsIn(PlacedAt, At(window)))
  /\ call.watch.next <= Len(call.watch.at) + 1
  /\ \A k \in DOMAIN call.watch.at :
       IF k < call.watch.next THEN call.watch.at[k] <= At(window)
       ELSE At(window) <= call.watch.at[k]
  /\ call.watch.walked =
       IF call.watch.next = 1 THEN 0
       ELSE Cardinality(EndsIn(PlacedAt, call.watch.at[call.watch.next - 1]))

Handed ==
  got # <<>> =>
    /\ LastHandedOut <= SpanEnd
    /\ LastHandedOut \in input.ends =>
         \A k \in DOMAIN call.watch.at : call.watch.at[k] <= LastHandedOut => k < call.watch.next

SpanInv ==
  /\ First(asked.from) \in DOMAIN reader.frames
  /\ Watching \/ LastOnly
  /\ ~call.spent => Progress
  /\ \A k \in DOMAIN call.watch.at : k < call.watch.next => JudgedEven(k)
  /\ Handed

FrameInv ==
  /\ WindowInv /\ OpenOK
  /\ call.busy => (call.lookup <=> asked.name = "record")
  /\ call.busy /\ call.lookup => frame # 0
  /\ call.busy /\ ~call.lookup /\ reader.judge.verifies => SpanInv
  /\ NoRecordCrossesAFrame
  /\ WalkedIsEven

LEMMA PerFrameIs ==
  ASSUME input \in Inputs
  PROVE  /\ PerFrame(input) = Cardinality(EndsIn(0, input.frames[1]))
         /\ PerFrame(input) \in Nat
<1>1. 1 \in DOMAIN input.frames /\ input.frames[1] \in Nat
  BY FileIs
<1>2. \A e \in input.ends : e \in Nat /\ 0 < e
  BY FileIs
<1>3. {e \in input.ends : e <= input.frames[1]} = EndsIn(0, input.frames[1])
  BY <1>2 DEF EndsIn
<1> QED
  BY <1>1, <1>3, EndsInHas DEF PerFrame

LEMMA OpenedIs ==
  ASSUME input \in Inputs, PerFrame(input) > 0, NEW kind \in AllKinds,
         NEW f \in DOMAIN input.frames, kind.shares \/ f = 1,
         reader = Opened(input, kind, f)
  PROVE  OpenOK
<1> DEFINE r == IF kind.shares THEN Sharing(input, f) ELSE Whole(input)
<1>1. kind.shares \in BOOLEAN /\ kind.verifies \in BOOLEAN
  BY DEF AllKinds
<1>2. PerFrame(input) \in Nat \ {0}
  BY PerFrameIs
<1>3. /\ Len(input.frames) \in Nat \ {0} /\ DOMAIN input.frames = 1 .. Len(input.frames)
      /\ Bytes \in Nat
  BY FileIs
<1>4. reader = IF kind.verifies THEN Verifying(input, r, f, kind.shares) ELSE r
  BY DEF Opened
<1> DEFINE fields == {"base", "guard", "frames", "sepCnt", "judge"}
<1>5. /\ DOMAIN r = fields
      /\ r.guard = FrameEnds(input) /\ r.judge = NoJudge
      /\ r.base = IF kind.shares THEN (IF f = 1 THEN 0 ELSE input.frames[f - 1]) ELSE 0
      /\ r.frames = IF kind.shares THEN Groups(input, f) ELSE Spans(input)
      /\ r.sepCnt = IF kind.shares THEN PerFrame(input) * GroupSize(input, f) ELSE PerFrame(input)
  BY <1>1 DEF Sharing, Whole
<1> HIDE DEF r
<1>6. /\ reader.base = r.base /\ reader.frames = r.frames /\ reader.sepCnt = r.sepCnt
      /\ reader.guard = (IF kind.verifies /\ ~kind.shares THEN <<>> ELSE FrameEnds(input))
      /\ reader.judge = IF kind.verifies
                        THEN [verifies |-> TRUE, shares |-> kind.shares, first |-> f,
                              last |-> Len(input.frames) - f, perFrame |-> PerFrame(input)]
                        ELSE NoJudge
  BY <1>1, <1>4, <1>5 DEF Verifying
<1>7. /\ reader.judge.verifies = kind.verifies
      /\ reader.judge.shares = (kind.verifies /\ kind.shares)
      /\ kind.verifies => /\ reader.judge.first = f
                          /\ reader.judge.last = Len(input.frames) - f
                          /\ reader.judge.perFrame = PerFrame(input)
  <2>1. CASE kind.verifies
    BY <1>1, <1>6, <2>1
  <2>2. CASE ~kind.verifies
    <3>1. reader.judge.verifies = FALSE /\ reader.judge.shares = FALSE /\ kind.verifies = FALSE
      BY <1>1, <1>6, <2>2 DEF NoJudge
    <3> QED
      BY <3>1
  <2> QED
    BY <2>1, <2>2
<1>8. ReaderOK /\ reader.sepCnt \in Nat \ {0}
  <2>1. CASE kind.shares
    <3> DEFINE base == IF f = 1 THEN 0 ELSE input.frames[f - 1]
               s == Groups(input, f)
    <3>1. /\ base \in Nat /\ base <= Bytes
          /\ Len(s) \in Nat \ {0} /\ DOMAIN s = 1 .. Len(s)
          /\ \A g \in DOMAIN s : s[g].start \in Nat /\ s[g].end \in Nat /\ base + s[g].end <= Bytes
          /\ \A g, h \in DOMAIN s : g <= h => s[g].start <= s[h].end
      BY GroupsAre
    <3>2. reader.base = base /\ reader.frames = s
      BY <1>5, <1>6, <2>1
    <3> HIDE DEF base, s
    <3>3. ReaderOK
      BY <1>6, <3>1, <3>2 DEF ReaderOK
    <3>4. GroupSize(input, f) \in Nat \ {0} /\ reader.sepCnt = PerFrame(input) * GroupSize(input, f)
      BY <1>5, <1>6, <2>1, GroupSizeIs
    <3>5. reader.sepCnt \in Nat \ {0}
      <4> DEFINE p == PerFrame(input)
                 q == GroupSize(input, f)
      <4>1. p \in Nat \ {0} /\ q \in Nat \ {0} /\ reader.sepCnt = p * q
        BY <1>2, <3>4
      <4> HIDE DEF p, q
      <4>2. 1 * q <= p * q /\ p * q \in Nat
        BY <4>1, Grows
      <4> QED
        BY <4>1, <4>2
    <3> QED
      BY <3>3, <3>5
  <2>2. CASE ~kind.shares
    <3> DEFINE s == Spans(input)
    <3>1. /\ Len(s) = Len(input.frames) /\ DOMAIN s = DOMAIN input.frames
          /\ \A g \in DOMAIN s : s[g].start \in Nat /\ s[g].end \in Nat /\ s[g].end <= Bytes
          /\ \A g, h \in DOMAIN s : g <= h => s[g].start <= s[h].end
      BY SpansAre
    <3>2. reader.base = 0 /\ reader.frames = s
      BY <1>5, <1>6, <2>2
    <3> HIDE DEF s
    <3>3. ReaderOK
      BY <1>3, <1>6, <3>1, <3>2 DEF ReaderOK
    <3> QED
      BY <1>2, <1>5, <1>6, <2>2, <3>3
  <2> QED
    BY <2>1, <2>2
<1>9. reader.judge.verifies /\ ~reader.judge.shares =>
        /\ reader.base = 0 /\ reader.frames = Spans(input) /\ reader.sepCnt = PerFrame(input)
        /\ reader.judge.first = 1
  <2> SUFFICES ASSUME kind.verifies, ~kind.shares
               PROVE  /\ reader.base = 0 /\ reader.frames = Spans(input)
                      /\ reader.sepCnt = PerFrame(input) /\ reader.judge.first = 1
    BY <1>1, <1>7
  <2>1. f = 1
    OBVIOUS
  <2> QED
    BY <1>5, <1>6, <1>7, <2>1
<1>10. reader.guard = FrameEnds(input) \/ (reader.judge.verifies /\ ~reader.judge.shares)
  BY <1>1, <1>6, <1>7
<1>11. /\ reader.judge.verifies \in BOOLEAN /\ reader.judge.shares \in BOOLEAN
       /\ reader.judge.verifies =>
            /\ reader.judge.first \in DOMAIN input.frames
            /\ reader.judge.last = Len(input.frames) - reader.judge.first
            /\ reader.judge.perFrame = PerFrame(input)
  BY <1>1, <1>7
<1> QED
  BY <1>2, <1>8, <1>9, <1>10, <1>11 DEF OpenOK

--------------------------------------------------------------------------------
(***************************************************************************)
(* Placing a read.                                                         *)
(***************************************************************************)
LEMMA PlacedIs ==
  ASSUME OpenOK, NEW from \in Nat, ~PastEnd(from)
  PROVE  /\ First(from) \in DOMAIN reader.frames /\ Frames \in DOMAIN reader.frames
         /\ Skipped(from) \in Nat
         /\ First(from) <= Frames
         /\ \A cnt \in Nat : Last(from, cnt) \in DOMAIN reader.frames /\ First(from) <= Last(from, cnt)
         /\ from \div reader.sepCnt >= Frames => from = Slots
         /\ from = Slots => First(from) = Frames /\ FinalSlotIsTail
<1> DEFINE n == reader.sepCnt
           m == Frames
           q == from \div n
<1>1. n \in Nat \ {0} /\ m \in Nat \ {0} /\ DOMAIN reader.frames = 1 .. m /\ Slots = n * m
  BY DEF OpenOK, ReaderOK, Frames, Slots
<1>2. First(from) = IF from = Slots THEN m ELSE q + 1
  BY DEF First
<1>3. Skipped(from) = from - (First(from) - 1) * n
  BY DEF Skipped
<1>4. ~(from > Slots) /\ (from = Slots => FinalSlotIsTail)
  BY DEF PastEnd
<1>5. \A cnt \in Nat : Last(from, cnt) = Min({(from + cnt + 1) \div n + 1, m})
  BY DEF Last
<1> HIDE DEF n, m
<1>6. Slots = m * n /\ m * n \in Nat
  <2>1. n * m = m * n /\ m * n \in Nat
    BY <1>1
  <2> QED
    BY <1>1, <2>1
<1>7. q \in Nat /\ q * n <= from /\ q * n \in Nat /\ (from < m * n => q < m)
  BY <1>1, DividedGrows, Divided
<1> HIDE DEF q
<1>8. First(from) \in 1 .. m /\ Skipped(from) \in Nat
  <2>1. CASE from = Slots
    <3>1. First(from) = m
      BY <1>2, <2>1
    <3>2. (m - 1) * n \in Nat /\ (m - 1) * n <= m * n
      <4>1. m - 1 \in Nat /\ m - 1 <= m /\ m \in Nat
        BY <1>1
      <4> QED
        BY <1>1, <4>1, Grows
    <3> QED
      BY <1>1, <1>3, <1>6, <2>1, <3>1, <3>2
  <2>2. CASE from # Slots
    <3>1. from < m * n /\ First(from) = q + 1
      BY <1>2, <1>4, <1>6, <2>2
    <3>2. First(from) \in 1 .. m
      BY <1>1, <1>7, <3>1
    <3>3. First(from) - 1 = q
      BY <1>7, <3>1
    <3> QED
      BY <1>3, <1>7, <3>2, <3>3
  <2> QED
    BY <2>1, <2>2
<1>9. ASSUME NEW cnt \in Nat
      PROVE  Last(from, cnt) \in 1 .. m /\ First(from) <= Last(from, cnt)
  <2> DEFINE p == (from + cnt + 1) \div n
  <2>1. p \in Nat /\ q <= p
    <3>1. from + cnt + 1 \in Nat /\ from <= from + cnt + 1
      OBVIOUS
    <3> QED
      BY <1>1, <3>1, DividedGrows DEF q
  <2>2. Last(from, cnt) = Min({p + 1, m})
    BY <1>5
  <2> HIDE DEF p
  <2>3. {p + 1, m} \in SUBSET Nat /\ {p + 1, m} # {}
    BY <1>1, <2>1
  <2>4. Min({p + 1, m}) \in {p + 1, m} /\ Min({p + 1, m}) <= p + 1 /\ Min({p + 1, m}) <= m
    BY <2>3, MinIs
  <2>5. CASE from = Slots
    <3>1. m <= p
      <4> SUFFICES ASSUME p < m PROVE FALSE
        BY <1>1, <2>1
      <4>1. p + 1 <= m /\ p + 1 \in Nat
        BY <1>1, <2>1
      <4>2. (p + 1) * n <= m * n /\ (p + 1) * n \in Nat /\ (p + 1) * n = p * n + n
        BY <1>1, <2>1, <4>1, Grows, OneMore
      <4>3. from + cnt + 1 < p * n + n /\ p * n \in Nat
        BY <1>1, Divided DEF p
      <4> QED
        BY <1>1, <1>6, <2>5, <4>2, <4>3
    <3>2. First(from) = m
      BY <1>2, <2>5
    <3> QED
      BY <1>1, <2>1, <2>2, <2>4, <3>1, <3>2
  <2>6. CASE from # Slots
    <3>1. First(from) = q + 1
      BY <1>2, <2>6
    <3> QED
      BY <1>1, <1>7, <1>8, <2>1, <2>2, <2>4, <3>1
  <2> QED
    BY <2>5, <2>6
<1>10. q >= m => from = Slots
  BY <1>1, <1>4, <1>6, <1>7
<1>11. /\ Frames = m /\ DOMAIN reader.frames = 1 .. m /\ m \in 1 .. m
       /\ from \div reader.sepCnt = q
  BY <1>1 DEF m, n, q
<1>12. from = Slots => First(from) = m /\ FinalSlotIsTail
  BY <1>2, <1>4
<1>13. First(from) <= m
  BY <1>1, <1>8
<1> QED
  BY <1>8, <1>9, <1>10, <1>11, <1>12, <1>13

\* The frames that end by some place are the first of them.
LEMMA FramesByIs ==
  ASSUME input \in Inputs, NEW upto \in Nat
  PROVE  /\ FramesBy(upto) \in 0 .. Len(input.frames)
         /\ \A g \in DOMAIN input.frames : input.frames[g] <= upto <=> g <= FramesBy(upto)
<1> DEFINE n == Len(input.frames)
           S == {f \in DOMAIN input.frames : input.frames[f] <= upto}
<1>1. /\ n \in Nat /\ DOMAIN input.frames = 1 .. n
      /\ \A g \in DOMAIN input.frames : input.frames[g] \in Nat
      /\ \A g, h \in DOMAIN input.frames : g <= h => input.frames[g] <= input.frames[h]
  BY FileIs, FramesGrow
<1>2. S \in SUBSET (1 .. n) /\ FramesBy(upto) = Cardinality(S)
  BY <1>1 DEF FramesBy
<1>3. \A i \in S : \A j \in 1 .. n : j <= i => j \in S
  BY <1>1
<1>4. \A g \in DOMAIN input.frames : input.frames[g] <= upto <=> g \in S
  OBVIOUS
<1> HIDE DEF n, S
<1>5. Cardinality(S) \in Nat /\ S = 1 .. 1 + Cardinality(S) - 1
  <2>1. 1 \in Nat /\ n \in Int
    BY <1>1
  <2> QED
    BY <1>2, <1>3, <2>1, LowerRange
<1>6. Cardinality(S) <= n
  <2>1. CASE Cardinality(S) = 0
    BY <1>1, <2>1
  <2>2. CASE Cardinality(S) # 0
    <3>1. Cardinality(S) \in S
      BY <1>5, <2>2
    <3>2. Cardinality(S) \in 1 .. n
      BY <1>2, <3>1
    <3> QED
      BY <1>1, <3>2
  <2> QED
    BY <2>1, <2>2
<1>7. ASSUME NEW g \in DOMAIN input.frames PROVE g \in S <=> g <= Cardinality(S)
  BY <1>1, <1>5
<1> QED
  BY <1>1, <1>2, <1>4, <1>5, <1>6, <1>7 DEF n

\* So are those, but for the last, that a group of frames comes after.
LEMMA EndedBeforeIs ==
  ASSUME input \in Inputs, NEW start \in Nat
  PROVE  /\ EndedBefore(start) \in 0 .. Len(input.frames) - 1
         /\ \A g \in DOMAIN input.frames :
              g # Len(input.frames) => (input.frames[g] <= start <=> g <= EndedBefore(start))
<1> DEFINE n == Len(input.frames)
           S == {g \in DOMAIN FrameEnds(input) : input.frames[g] <= start}
<1>1. /\ n \in Nat \ {0} /\ DOMAIN input.frames = 1 .. n
      /\ \A g \in DOMAIN input.frames : input.frames[g] \in Nat
      /\ \A g, h \in DOMAIN input.frames : g <= h => input.frames[g] <= input.frames[h]
      /\ DOMAIN FrameEnds(input) = 1 .. n - 1
  BY FileIs, FramesGrow, FrameEndsAre
<1>2. S \in SUBSET (1 .. n - 1) /\ EndedBefore(start) = Cardinality(S)
  BY <1>1 DEF EndedBefore
<1>3. \A i \in S : \A j \in 1 .. n - 1 : j <= i => j \in S
  BY <1>1
<1>4. \A g \in 1 .. n - 1 : input.frames[g] <= start <=> g \in S
  BY <1>1
<1> HIDE DEF n, S
<1>5. Cardinality(S) \in Nat /\ S = 1 .. 1 + Cardinality(S) - 1
  <2> DEFINE b == n - 1
  <2>1. 1 \in Nat /\ b \in Int
    BY <1>1
  <2>2. S \in SUBSET (1 .. b) /\ \A i \in S : \A j \in 1 .. b : j <= i => j \in S
    BY <1>2, <1>3
  <2> HIDE DEF b
  <2> QED
    BY <2>1, <2>2, LowerRange
<1>6. Cardinality(S) <= n - 1
  <2>1. CASE Cardinality(S) = 0
    BY <1>1, <2>1
  <2>2. CASE Cardinality(S) # 0
    <3>1. Cardinality(S) \in S
      BY <1>5, <2>2
    <3>2. Cardinality(S) \in 1 .. n - 1
      BY <1>2, <3>1
    <3> QED
      BY <1>1, <3>2
  <2> QED
    BY <2>1, <2>2
<1>7. ASSUME NEW g \in DOMAIN input.frames, g # n
      PROVE  input.frames[g] <= start <=> g <= Cardinality(S)
  <2>1. g \in 1 .. n - 1
    BY <1>1, <1>7
  <2>2. g \in S <=> g <= Cardinality(S)
    BY <1>1, <1>5, <2>1
  <2> QED
    BY <1>4, <2>1, <2>2
<1> QED
  BY <1>1, <1>2, <1>5, <1>6, <1>7 DEF n

\* A part of the frames of a file.
LEMMA SomeFrames ==
  ASSUME input \in Inputs, NEW m \in 0 .. Len(input.frames), NEW n \in 0 .. Len(input.frames)
  PROVE  LET at == SubSeq(input.frames, m + 1, n)
         IN  /\ at \in Seq(Nat) /\ DOMAIN at = 1 .. n - m
             /\ \A k \in DOMAIN at : m + k \in DOMAIN input.frames /\ at[k] = input.frames[m + k]
             /\ \A j, k \in DOMAIN at : j <= k => at[j] <= at[k]
<1> DEFINE s == input.frames
           at == SubSeq(s, m + 1, n)
<1>1. /\ s \in Seq(Nat) /\ Len(s) \in Nat \ {0} /\ DOMAIN s = 1 .. Len(s)
      /\ \A f \in DOMAIN s : s[f] \in Nat
      /\ \A f, g \in DOMAIN s : f <= g => s[f] <= s[g]
  BY FileIs, FramesGrow
<1>2. m \in Nat /\ n \in Nat /\ n <= Len(s) /\ m + 1 \in Int /\ n \in Int
  BY <1>1
<1>3. \A i \in m + 1 .. n : s[i] \in Nat
  BY <1>1, <1>2
<1> DEFINE b == m + 1
<1>4. /\ SubSeq(s, b, n) \in Seq(Nat)
      /\ Len(SubSeq(s, b, n)) = IF b <= n THEN n - b + 1 ELSE 0
      /\ \A i \in 1 .. n - b + 1 : SubSeq(s, b, n)[i] = s[b + i - 1]
  <2> HIDE DEF b
  <2>1. \A i \in b .. n : s[i] \in Nat
    BY <1>3 DEF b
  <2>2. b \in Int /\ n \in Int
    BY <1>2 DEF b
  <2> HIDE DEF s
  <2> QED
    BY <2>1, <2>2, SubSeqProperties
<1>5. at \in Seq(Nat) /\ at = SubSeq(s, b, n)
  BY <1>4
<1>6. DOMAIN at = 1 .. n - m
  <2>1. Len(at) = IF m + 1 <= n THEN n - m ELSE 0
    BY <1>2, <1>4
  <2>2. DOMAIN at = 1 .. Len(at)
    BY <1>5, LenProperties
  <2> QED
    BY <1>2, <2>1, <2>2
<1>7. ASSUME NEW k \in DOMAIN at PROVE m + k \in DOMAIN s /\ at[k] = s[m + k]
  <2>1. k \in 1 .. n - m
    BY <1>6
  <2>2. k \in 1 .. n - b + 1 /\ b + k - 1 = m + k
    BY <1>2, <2>1
  <2>3. at[k] = s[m + k]
    BY <1>4, <1>5, <2>2
  <2>4. m + k \in 1 .. Len(s)
    BY <1>1, <1>2, <2>1
  <2> QED
    BY <1>1, <2>3, <2>4
<1>8. ASSUME NEW j \in DOMAIN at, NEW k \in DOMAIN at, j <= k PROVE at[j] <= at[k]
  <2>1. m + j \in DOMAIN s /\ m + k \in DOMAIN s /\ at[j] = s[m + j] /\ at[k] = s[m + k]
    BY <1>7
  <2>2. m + j <= m + k
    <3>1. j \in Nat /\ k \in Nat
      BY <1>6
    <3> QED
      BY <1>2, <1>8, <3>1
  <2> QED
    BY <1>1, <2>1, <2>2
<1> HIDE DEF at
<1> QED
  BY <1>5, <1>6, <1>7, <1>8 DEF at

\* What is watched over a span that begins where a read was placed.
LEMMA WatchIs ==
  ASSUME input \in Inputs, OpenOK, NEW from \in Nat, ~PastEnd(from),
         NEW last \in DOMAIN reader.frames, First(from) <= last
  PROVE  LET watch == Watched(from, First(from), last)
             placed == reader.base + reader.frames[First(from)].start
             upto == reader.base + reader.frames[last].end
         IN  /\ watch \in WatchType /\ watch.next = 1 /\ watch.walked = 0
             /\ \A j, k \in DOMAIN watch.at : j <= k => watch.at[j] <= watch.at[k]
             /\ reader.judge.verifies =>
                  \/ Watches(watch, placed, upto)
                  \/ /\ DOMAIN watch.at = {}
                     /\ placed = FrameStart(Len(input.frames))
                     /\ HeldIn(Len(input.frames)) = PerFrame(input)
<1> DEFINE n == Len(input.frames)
           first == First(from)
           placed == reader.base + reader.frames[first].start
           upto == reader.base + reader.frames[last].end
           watch == Watched(from, first, last)
<1>1. /\ n \in Nat \ {0} /\ DOMAIN input.frames = 1 .. n
      /\ \A g \in DOMAIN input.frames : input.frames[g] \in Nat /\ input.frames[g] <= Bytes
      /\ \A g, h \in DOMAIN input.frames : g <= h => input.frames[g] <= input.frames[h]
      /\ Bytes \in Nat /\ Bytes = input.frames[n]
  BY FileIs, FramesGrow DEF Bytes
<1>2. /\ first \in DOMAIN reader.frames /\ Frames \in DOMAIN reader.frames
      /\ from \div reader.sepCnt >= Frames => from = Slots
      /\ from = Slots => first = Frames /\ FinalSlotIsTail
  BY PlacedIs
<1>3. /\ placed \in Nat /\ upto \in Nat /\ placed <= upto /\ upto <= Bytes
      /\ reader.base \in Nat /\ reader.frames[first].start \in Nat
  <2> HIDE DEF first
  <2>1. first <= last
    BY DEF first
  <2>2. /\ reader.base \in Nat /\ reader.frames[first].start \in Nat
        /\ reader.frames[last].end \in Nat /\ reader.base + reader.frames[last].end <= Bytes
        /\ reader.frames[first].start <= reader.frames[last].end
    BY <1>2, <2>1 DEF OpenOK, ReaderOK
  <2> QED
    BY <2>2
<1>4. /\ NoWatch \in WatchType /\ NoWatch.next = 1 /\ NoWatch.walked = 0 /\ DOMAIN NoWatch.at = {}
  BY DEF NoWatch, WatchType
<1>5. ASSUME NEW m \in 0 .. n, NEW f \in Int, m - (reader.judge.first - 1) = f,
             watch = [NoWatch EXCEPT !.at = SubSeq(input.frames, m + 1, FramesBy(upto)), !.first = f],
             reader.judge.verifies,
             \A g \in DOMAIN input.frames : g <= m => input.frames[g] <= placed,
             \A g \in DOMAIN input.frames : m < g => placed <= input.frames[g]
      PROVE  /\ watch \in WatchType /\ watch.next = 1 /\ watch.walked = 0
             /\ \A j, k \in DOMAIN watch.at : j <= k => watch.at[j] <= watch.at[k]
             /\ Watches(watch, placed, upto)
  <2> DEFINE c == FramesBy(upto)
             at == SubSeq(input.frames, m + 1, c)
  <2>1. /\ c \in 0 .. n
        /\ \A g \in DOMAIN input.frames : input.frames[g] <= upto <=> g <= c
    BY <1>3, FramesByIs
  <2> HIDE DEF c
  <2>2. /\ at \in Seq(Nat) /\ DOMAIN at = 1 .. c - m
        /\ \A k \in DOMAIN at : m + k \in DOMAIN input.frames /\ at[k] = input.frames[m + k]
        /\ \A j, k \in DOMAIN at : j <= k => at[j] <= at[k]
    BY <2>1, SomeFrames
  <2>3. watch = [NoWatch EXCEPT !.at = at, !.first = f]
    BY <1>5 DEF c
  <2> HIDE DEF at, watch
  <2>4. /\ watch = [at |-> at, next |-> 1, walked |-> 0, first |-> f]
    BY <2>3 DEF NoWatch
  <2>5. /\ watch \in WatchType /\ watch.next = 1 /\ watch.walked = 0 /\ watch.at = at
        /\ watch.first = f
    BY <2>2, <2>4 DEF WatchType
  <2>6. Skipping(watch) = m
    <3>1. reader.judge.first \in Nat
      BY <1>1, <1>5 DEF OpenOK
    <3> QED
      BY <1>5, <2>5, <3>1 DEF Skipping
  <2>7. ASSUME NEW g \in DOMAIN input.frames, m < g, input.frames[g] <= upto
        PROVE  g - m \in DOMAIN at
    <3>1. g <= c /\ g \in Nat /\ m \in Nat /\ c \in Nat
      BY <1>1, <2>1, <2>7
    <3> QED
      BY <2>2, <2>7, <3>1
  <2>8. ASSUME NEW k \in DOMAIN at PROVE placed <= at[k]
    <3>1. m + k \in DOMAIN input.frames /\ at[k] = input.frames[m + k]
      BY <2>2
    <3>2. m < m + k
      BY <1>1, <2>1, <2>2
    <3> QED
      BY <1>5, <3>1, <3>2
  <2>9. Watches(watch, placed, upto)
    <3> HIDE DEF placed, upto
    <3> QED
      BY <1>5, <2>2, <2>5, <2>6, <2>7, <2>8 DEF Watches
  <2> QED
    BY <2>2, <2>5, <2>9
<1>6. CASE ~reader.judge.verifies
  <2>1. watch = NoWatch
    BY <1>6 DEF Watched
  <2> HIDE DEF watch
  <2>2. /\ watch \in WatchType /\ watch.next = 1 /\ watch.walked = 0
        /\ \A j, k \in DOMAIN watch.at : j <= k => watch.at[j] <= watch.at[k]
    BY <1>4, <2>1
  <2> QED
    BY <1>6, <2>2 DEF watch
<1>7. CASE reader.judge.verifies /\ reader.judge.shares
  <2> DEFINE m == EndedBefore(placed)
             f == Physical(placed)
  <2>1. /\ m \in 0 .. n - 1
        /\ \A g \in DOMAIN input.frames : g # n => (input.frames[g] <= placed <=> g <= m)
    BY <1>3, EndedBeforeIs
  <2>2. watch = [NoWatch EXCEPT !.at = SubSeq(input.frames, m + 1, FramesBy(upto)), !.first = f]
    BY <1>7 DEF Watched, WatchPhysical
  <2>3. f = m - (reader.judge.first - 1)
    BY DEF Physical
  <2> HIDE DEF m, f, watch, placed, upto
  <2>4. reader.judge.first \in Nat
    BY <1>1, <1>7 DEF OpenOK
  <2>5. f \in Int /\ m - (reader.judge.first - 1) = f /\ m \in 0 .. n
    BY <1>1, <2>1, <2>3, <2>4
  <2>6. \A g \in DOMAIN input.frames : g <= m => input.frames[g] <= placed
    <3> SUFFICES ASSUME NEW g \in DOMAIN input.frames, g <= m PROVE input.frames[g] <= placed
      OBVIOUS
    <3>1. g # n
      BY <1>1, <2>1
    <3> QED
      BY <2>1, <3>1
  <2>7. \A g \in DOMAIN input.frames : m < g => placed <= input.frames[g]
    <3> SUFFICES ASSUME NEW g \in DOMAIN input.frames, m < g PROVE placed <= input.frames[g]
      OBVIOUS
    <3>1. CASE g = n
      BY <1>1, <1>3, <3>1
    <3>2. CASE g # n
      <4>1. ~(g <= m) /\ input.frames[g] \in Nat
        BY <1>1, <2>1
      <4>2. ~(input.frames[g] <= placed)
        BY <2>1, <3>2, <4>1
      <4> QED
        BY <1>3, <4>1, <4>2
    <3> QED
      BY <3>1, <3>2
  <2>8. /\ watch \in WatchType /\ watch.next = 1 /\ watch.walked = 0
        /\ \A j, k \in DOMAIN watch.at : j <= k => watch.at[j] <= watch.at[k]
        /\ Watches(watch, placed, upto)
    BY <1>5, <1>7, <2>2, <2>5, <2>6, <2>7
  <2> QED
    BY <2>8 DEF watch, placed, upto
<1>8. CASE reader.judge.verifies /\ ~reader.judge.shares
  <2>1. /\ reader.base = 0 /\ reader.frames = Spans(input) /\ reader.sepCnt = PerFrame(input)
        /\ reader.judge.first = 1
    BY <1>8 DEF OpenOK
  <2> DEFINE s == Spans(input)
  <2>2. /\ Len(s) = n /\ DOMAIN s = DOMAIN input.frames
        /\ \A g \in DOMAIN s : /\ s[g].start = (IF g = 1 THEN 0 ELSE input.frames[g - 1])
                               /\ s[g].end = input.frames[g]
    BY SpansAre
  <2> HIDE DEF s
  <2>3. Frames = n /\ first \in 1 .. n /\ placed = (IF first = 1 THEN 0 ELSE input.frames[first - 1])
    <3>1. reader.frames = s
      BY <2>1 DEF s
    <3>2. Frames = n /\ first \in 1 .. n /\ first \in DOMAIN s
      BY <1>1, <1>2, <2>2, <3>1 DEF Frames
    <3>3. reader.frames[first].start = (IF first = 1 THEN 0 ELSE input.frames[first - 1])
      BY <2>2, <3>1, <3>2
    <3> HIDE DEF first
    <3> QED
      BY <1>3, <2>1, <3>2, <3>3
  <2>4. CASE from \div reader.sepCnt >= Frames
    <3>1. from = Slots /\ first = n /\ FinalSlotIsTail
      BY <1>2, <2>3, <2>4
    <3>2. placed = FrameStart(n)
      <4> HIDE DEF first, placed
      <4> QED
        BY <2>3, <3>1 DEF FrameStart
    <3>3. Cardinality(EndsIn(reader.base + LastSpan.start, Bytes)) = reader.sepCnt
      BY <3>1 DEF FinalSlotIsTail
    <3>4. reader.base + LastSpan.start = placed
      BY <2>3, <3>1 DEF LastSpan
    <3>5. HeldIn(n) = PerFrame(input)
      <4> HIDE DEF placed, first
      <4> QED
        BY <1>1, <2>1, <3>2, <3>3, <3>4 DEF HeldIn
    <3>6. watch = NoWatch
      BY <1>8, <2>4 DEF Watched, WatchSpan
    <3> HIDE DEF watch
    <3>7. /\ watch \in WatchType /\ watch.next = 1 /\ watch.walked = 0
          /\ \A j, k \in DOMAIN watch.at : j <= k => watch.at[j] <= watch.at[k]
          /\ DOMAIN watch.at = {}
      BY <1>4, <3>6
    <3> QED
      BY <3>2, <3>5, <3>7 DEF watch
  <2>5. CASE ~(from \div reader.sepCnt >= Frames)
    <3> DEFINE m == first - 1
    <3>1. watch = [NoWatch EXCEPT !.at = SubSeq(input.frames, first, FramesBy(upto)), !.first = first - 1]
      BY <1>8, <2>5 DEF Watched, WatchSpan
    <3> HIDE DEF first, placed, upto, watch
    <3>2. m \in 0 .. n /\ m \in Int /\ first = m + 1 /\ m - (reader.judge.first - 1) = m
      BY <1>1, <2>1, <2>3
    <3>3. watch = [NoWatch EXCEPT !.at = SubSeq(input.frames, m + 1, FramesBy(upto)), !.first = m]
      BY <3>1, <3>2
    <3>4. placed = IF m = 0 THEN 0 ELSE input.frames[m]
      BY <2>3, <3>2
    <3> HIDE DEF m
    <3>5. \A g \in DOMAIN input.frames : g <= m => input.frames[g] <= placed
      BY <1>1, <3>2, <3>4
    <3>6. \A g \in DOMAIN input.frames : m < g => placed <= input.frames[g]
      <4> SUFFICES ASSUME NEW g \in DOMAIN input.frames, m < g PROVE placed <= input.frames[g]
        OBVIOUS
      <4>1. m # 0 => m \in DOMAIN input.frames /\ m <= g
        BY <1>1, <3>2
      <4> QED
        BY <1>1, <3>2, <3>4, <4>1
    <3>7. /\ watch \in WatchType /\ watch.next = 1 /\ watch.walked = 0
          /\ \A j, k \in DOMAIN watch.at : j <= k => watch.at[j] <= watch.at[k]
          /\ Watches(watch, placed, upto)
      BY <1>5, <1>8, <3>2, <3>3, <3>5, <3>6
    <3> QED
      BY <3>7 DEF watch, placed, upto, first
  <2> QED
    BY <2>4, <2>5
<1> QED
  BY <1>6, <1>7, <1>8 DEF OpenOK

--------------------------------------------------------------------------------
(***************************************************************************)
(* A run of records that is walked.                                        *)
(***************************************************************************)
\* A run that is not refused: where it goes from and to, and what the watcher
\* finds even.
RunOf(w, from, upto) ==
  /\ Walking /\ Held(window) # {}
  /\ w = Walk(window, Wanted) /\ from = At(window) /\ upto = At(w)

LEMMA RunIs ==
  ASSUME FrameInv, NEW w, NEW from, NEW upto, RunOf(w, from, upto)
  PROVE  /\ input \in Inputs /\ OpenOK /\ ReaderOK /\ CallOK /\ Buffered(window) /\ Guarded(window)
         /\ call.busy = TRUE /\ call.spent = FALSE
         /\ from \in Nat /\ upto \in Nat /\ from < upto /\ upto <= Loaded(window)
         /\ upto \in EndsIn(from, upto) /\ upto <= SpanEnd
         /\ window.walked \in Nat
         /\ w.walked = window.walked + Cardinality(EndsIn(from, upto))
         /\ w.limit = window.limit
<1>1. /\ input \in Inputs /\ OpenOK /\ ReaderOK /\ CallOK /\ Buffered(window) /\ WindowInv
  BY DEF FrameInv, WindowInv
<1>2. call.busy \in BOOLEAN /\ call.spent \in BOOLEAN /\ Wanted \in Nat
  BY <1>1, CallIs
<1>3. call.busy = TRUE /\ call.spent = FALSE /\ Wanted \in Nat \ {0} /\ Held(window) # {}
  BY <1>2 DEF RunOf, Walking
<1>4. Guarded(window)
  BY <1>1, <1>3 DEF WindowInv
<1>5. w = Walk(window, Wanted) /\ from = At(window) /\ upto = At(w)
  BY DEF RunOf
<1>6. /\ At(w) \in input.ends /\ At(window) < At(w) /\ At(w) <= Loaded(window)
      /\ w.walked = window.walked + Cardinality(EndsIn(At(window), At(w)))
      /\ w.limit = window.limit /\ Buffered(w)
  BY <1>1, <1>3, <1>5, WalkIs
<1>7. /\ At(window) \in Nat /\ Loaded(window) \in Nat /\ window.walked \in Nat
      /\ Loaded(window) <= SpanEnd /\ reader.base \in Nat /\ window.limit \in Nat
  BY <1>1, PlacesAre DEF SpanEnd
<1>8. At(w) \in Nat
  BY <1>1, <1>6, PlacesAre
<1>9. At(w) \in EndsIn(At(window), At(w))
  BY <1>6, <1>8 DEF EndsIn
<1>10. At(w) <= SpanEnd
  BY <1>6, <1>7, <1>8 DEF SpanEnd
<1> QED
  BY <1>1, <1>3, <1>4, <1>5, <1>6, <1>7, <1>8, <1>9, <1>10

\* No record of it lies across the end of a frame.
LEMMA RunIsWhole ==
  ASSUME FrameInv, NEW w, NEW from, NEW upto, RunOf(w, from, upto),
         ~SawUneven(window, from, upto), NEW r \in DOMAIN Records(from, upto), NEW f \in DOMAIN FrameEnds(input),
         Records(from, upto)[r][1] < input.frames[f], input.frames[f] < Records(from, upto)[r][2]
  PROVE  FALSE
<1> DEFINE a == Records(from, upto)[r][1]
           b == Records(from, upto)[r][2]
           n == Len(input.frames)
           e == input.frames[f]
<1>1. /\ input \in Inputs /\ OpenOK /\ ReaderOK /\ CallOK /\ Buffered(window) /\ Guarded(window)
      /\ call.busy = TRUE /\ call.spent = FALSE
      /\ from \in Nat /\ upto \in Nat /\ from < upto /\ upto <= Loaded(window)
      /\ upto <= SpanEnd
  BY RunIs
<1>2. /\ a \in Nat /\ b \in Nat /\ from <= a /\ b <= upto
      /\ \A x \in input.ends : ~(a < x /\ x < b)
  BY <1>1, RecordsAre
<1>3. /\ n \in Nat \ {0} /\ DOMAIN input.frames = 1 .. n
      /\ \A g \in DOMAIN input.frames : input.frames[g] \in Nat
      /\ \A g, h \in DOMAIN input.frames : g <= h => input.frames[g] <= input.frames[h]
      /\ f \in 1 .. n - 1 /\ f \in DOMAIN input.frames /\ FrameEnds(input)[f] = e
      /\ DOMAIN FrameEnds(input) = 1 .. n - 1
  BY <1>1, FileIs, FramesGrow, FrameEndsAre
<1>4. /\ from = reader.base + window.offset + window.pos /\ Loaded(window) <= reader.base + window.limit
      /\ Loaded(window) \in Nat /\ reader.base \in Nat /\ window.offset \in Nat /\ window.pos \in Nat
      /\ window.limit \in Nat
  BY <1>1, PlacesAre DEF RunOf
<1>5. a < e /\ e < b /\ e \in Nat
  BY <1>3
<1> HIDE DEF a, b, n, e
<1>6. CASE reader.guard = FrameEnds(input)
  <2>1. f \in DOMAIN reader.guard /\ reader.guard[f] = e
    BY <1>3, <1>6
  <2>2. e <= reader.base + window.offset \/ Loaded(window) <= e
    BY <1>1, <2>1 DEF Guarded
  <2> QED
    BY <1>1, <1>2, <1>4, <1>5, <2>2
<1>7. CASE reader.judge.verifies /\ ~reader.judge.shares /\ call.lookup
  <2>1. frame # 0 /\ reader.base = 0 /\ reader.frames = Spans(input)
    BY <1>1, <1>7 DEF FrameInv, OpenOK
  <2>2. /\ reader.frames[frame].start <= window.offset /\ window.limit = reader.frames[frame].end
        /\ frame \in DOMAIN reader.frames
    BY <1>1, <2>1 DEF FrameInv, WindowInv, ReaderOK
  <2> DEFINE s == Spans(input)
  <2>3. /\ DOMAIN s = DOMAIN input.frames
        /\ \A g \in DOMAIN s : /\ s[g].start = (IF g = 1 THEN 0 ELSE input.frames[g - 1])
                               /\ s[g].end = input.frames[g]
    BY <1>1, SpansAre
  <2> HIDE DEF s
  <2>4. /\ frame \in 1 .. n /\ window.limit = input.frames[frame]
        /\ (IF frame = 1 THEN 0 ELSE input.frames[frame - 1]) <= window.offset
    <3>1. reader.frames = s /\ frame \in DOMAIN s
      BY <2>1, <2>2, <2>3 DEF s
    <3> QED
      BY <1>3, <2>2, <2>3, <3>1
  <2>5. CASE f < frame
    <3>1. frame - 1 \in DOMAIN input.frames /\ f <= frame - 1 /\ frame # 1
      BY <1>3, <2>4, <2>5
    <3>2. e <= input.frames[frame - 1] /\ input.frames[frame - 1] \in Nat
      BY <1>3, <3>1 DEF e
    <3> QED
      BY <1>2, <1>4, <1>5, <2>1, <2>4, <3>1, <3>2
  <2>6. CASE ~(f < frame)
    <3>1. frame \in DOMAIN input.frames /\ frame <= f
      BY <1>3, <2>4, <2>6
    <3>2. input.frames[frame] <= e /\ input.frames[frame] \in Nat
      BY <1>3, <3>1 DEF e
    <3> QED
      BY <1>1, <1>2, <1>4, <1>5, <2>1, <2>4, <3>2
  <2> QED
    BY <2>5, <2>6
<1>8. CASE reader.judge.verifies /\ ~reader.judge.shares /\ ~call.lookup
  <2>1. SpanInv
    BY <1>1, <1>8 DEF FrameInv
  <2>2. PlacedAt <= from /\ PlacedAt \in Nat
    <3>1. Progress /\ First(asked.from) \in DOMAIN reader.frames
      BY <1>1, <2>1 DEF SpanInv
    <3>2. PlacedAt \in Nat
      BY <1>1, <3>1 DEF PlacedAt, ReaderOK
    <3> QED
      BY <3>1, <3>2 DEF Progress, RunOf
  <2>3. CASE LastOnly
    <3>1. PlacedAt = FrameStart(n)
      BY <2>3 DEF LastOnly, n
    <3>2. n # 1 /\ n - 1 \in DOMAIN input.frames /\ f <= n - 1
      BY <1>3
    <3>3. PlacedAt = input.frames[n - 1]
      BY <3>1, <3>2 DEF FrameStart
    <3>4. e <= input.frames[n - 1]
      BY <1>3, <3>2 DEF e
    <3> QED
      BY <1>1, <1>2, <1>5, <2>2, <3>3, <3>4
  <2>4. CASE Watching
    <3> DEFINE at == call.watch.at
               m == Skipping(call.watch)
               k == f - m
    <3>1. /\ m \in 0 .. n
          /\ \A g \in DOMAIN input.frames : g <= m => input.frames[g] <= PlacedAt
          /\ \A g \in DOMAIN input.frames : m < g /\ input.frames[g] <= SpanEnd => g - m \in DOMAIN at
          /\ \A j \in DOMAIN at : at[j] = input.frames[m + j]
      BY <2>4 DEF Watching, Watches, n
    <3> HIDE DEF at, m
    <3>2. m < f
      <4> SUFFICES ASSUME f <= m PROVE FALSE
        BY <1>3, <3>1
      <4>1. e <= PlacedAt
        BY <1>3, <3>1 DEF e
      <4> QED
        BY <1>1, <1>2, <1>5, <2>2, <4>1
    <3>3. e <= SpanEnd
      <4>1. SpanEnd \in Nat
        BY <1>4 DEF SpanEnd
      <4> QED
        BY <1>1, <1>2, <1>5, <4>1
    <3>4. k \in DOMAIN at /\ m + k = f
      <4>1. k \in DOMAIN at
        BY <1>3, <3>1, <3>2, <3>3 DEF e
      <4>2. m + k = f
        BY <1>3, <3>1
      <4> QED
        BY <4>1, <4>2
    <3>5. at[k] = e
      BY <3>1, <3>4 DEF e
    <3>6. k >= call.watch.next
      <4>1. IF k < call.watch.next THEN at[k] <= from ELSE from <= at[k]
        BY <1>1, <2>1, <3>4 DEF SpanInv, Progress, RunOf, at
      <4>2. call.watch.next \in Nat /\ k \in Int
        <5>1. call.watch.next \in Nat
          BY <1>1 DEF CallOK, CallType, WatchType
        <5> QED
          BY <1>3, <3>1, <5>1
      <4> QED
        BY <1>1, <1>2, <1>5, <3>5, <4>1, <4>2
    <3>7. k \in Reached(upto)
      <4>1. at[k] <= upto
        BY <1>1, <1>2, <1>5, <3>5
      <4> QED
        BY <3>4, <3>6, <4>1 DEF Reached, at
    <3>8. at[k] \in EndsIn(from, upto) \/ call.watch.first + k - 1 = reader.judge.last
      BY <3>7 DEF SawUneven, Uneven, at
    <3>9. call.watch.first + k - 1 # reader.judge.last
      <4>1. reader.judge.first = 1 /\ reader.judge.last = n - 1
        BY <1>1, <1>8 DEF OpenOK, n
      <4>2. call.watch.first = m /\ m \in Int
        <5>1. call.watch.first \in Int
          BY <1>1 DEF CallOK, CallType, WatchType
        <5> QED
          BY <4>1, <5>1 DEF Skipping, m
      <4> QED
        BY <1>3, <3>4, <4>1, <4>2
    <3>10. e \in input.ends
      BY <3>5, <3>8, <3>9 DEF EndsIn
    <3> QED
      BY <1>2, <1>5, <3>10
  <2> QED
    BY <2>1, <2>3, <2>4 DEF SpanInv
<1> QED
  BY <1>1, <1>6, <1>7, <1>8 DEF OpenOK

\* What is known of a span that is being walked, in numbers.
LEMMA SpanIs ==
  ASSUME FrameInv, NEW w, NEW from, NEW upto, RunOf(w, from, upto),
         reader.judge.verifies, ~call.lookup
  PROVE  /\ SpanInv /\ Progress
         /\ PlacedAt \in Nat /\ PlacedAt <= from
         /\ window.walked = Cardinality(EndsIn(PlacedAt, from))
         /\ call.watch \in WatchType /\ call.watch.next \in Nat \ {0} /\ call.watch.walked \in Nat
         /\ call.watch.first \in Int
         /\ DOMAIN call.watch.at = 1 .. Len(call.watch.at) /\ Len(call.watch.at) \in Nat
         /\ \A k \in DOMAIN call.watch.at :
              /\ call.watch.at[k] \in Nat /\ PlacedAt <= call.watch.at[k]
              /\ IF k < call.watch.next THEN call.watch.at[k] <= from ELSE from <= call.watch.at[k]
         /\ \A j, k \in DOMAIN call.watch.at : j <= k => call.watch.at[j] <= call.watch.at[k]
<1>1. /\ input \in Inputs /\ OpenOK /\ ReaderOK /\ CallOK /\ call.busy = TRUE /\ call.spent = FALSE
  BY RunIs
<1>2. SpanInv /\ Progress /\ First(asked.from) \in DOMAIN reader.frames
  BY <1>1 DEF FrameInv, SpanInv
<1>3. PlacedAt \in Nat
  BY <1>1, <1>2 DEF PlacedAt, ReaderOK
<1>4. PlacedAt <= from /\ window.walked = Cardinality(EndsIn(PlacedAt, from))
  BY <1>2 DEF Progress, RunOf
<1>5. /\ call.watch \in WatchType /\ call.watch.next \in Nat \ {0} /\ call.watch.walked \in Nat
      /\ call.watch.at \in Seq(Nat) /\ call.watch.first \in Int
  BY <1>1 DEF CallOK, CallType, WatchType
<1>6. /\ DOMAIN call.watch.at = 1 .. Len(call.watch.at) /\ Len(call.watch.at) \in Nat
      /\ \A k \in DOMAIN call.watch.at : call.watch.at[k] \in Nat
  BY <1>5, LenProperties, ElementOfSeq
<1>7. \A k \in DOMAIN call.watch.at : PlacedAt <= call.watch.at[k]
  BY <1>2 DEF SpanInv, Watching, Watches, LastOnly
<1>8. \A k \in DOMAIN call.watch.at :
        IF k < call.watch.next THEN call.watch.at[k] <= from ELSE from <= call.watch.at[k]
  BY <1>2 DEF Progress, RunOf
<1>9. \A j, k \in DOMAIN call.watch.at : j <= k => call.watch.at[j] <= call.watch.at[k]
  BY <1>1 DEF CallOK
<1> QED
  BY <1>2, <1>3, <1>4, <1>5, <1>6, <1>7, <1>8, <1>9

\* How many records ended before a frame end that is reported.
LEMMA BeforeIs ==
  ASSUME FrameInv, NEW w, NEW from, NEW upto, RunOf(w, from, upto),
         reader.judge.verifies, ~call.lookup,
         NEW k \in DOMAIN call.watch.at, k >= call.watch.next
  PROVE  Before(window, from, k) = Cardinality(EndsIn(PlacedAt, call.watch.at[k]))
<1> DEFINE p == PlacedAt
           e == call.watch.at[k]
<1>1. input \in Inputs /\ from \in Nat
  BY RunIs
<1>2. /\ p \in Nat /\ p <= from /\ window.walked = Cardinality(EndsIn(p, from))
      /\ e \in Nat /\ call.watch.next \in Nat /\ k \in Nat
      /\ IF k < call.watch.next THEN e <= from ELSE from <= e
  BY SpanIs
<1>3. from <= e
  BY <1>2
<1>4. Before(window, from, k) = window.walked + Cardinality(EndsIn(from, e))
  BY DEF Before
<1> HIDE DEF p, e
<1>5. Cardinality(EndsIn(p, e)) = Cardinality(EndsIn(p, from)) + Cardinality(EndsIn(from, e))
  BY <1>1, <1>2, <1>3, EndsInSplit
<1>6. Before(window, from, k) = Cardinality(EndsIn(p, e))
  BY <1>2, <1>4, <1>5
<1> QED
  BY <1>6 DEF p, e

\* How many records are reported of a frame.
LEMMA RunHolds ==
  ASSUME FrameInv, NEW w, NEW from, NEW upto, RunOf(w, from, upto),
         reader.judge.verifies, ~call.lookup, NEW k \in Reached(upto)
  PROVE  /\ Before(window, from, k) -
              (IF k = call.watch.next THEN call.watch.walked ELSE Before(window, from, k - 1)) =
              Cardinality(EndsIn(WatchedFrom(k), call.watch.at[k]))
         /\ Cardinality(EndsIn(WatchedFrom(k), call.watch.at[k])) \in Nat
         /\ call.watch.first + k - 1 = reader.judge.last <=>
              Skipping(call.watch) + k = Len(input.frames)
         /\ k \in DOMAIN call.watch.at /\ k \in Nat \ {0}
<1> DEFINE p == PlacedAt
           at == call.watch.at
           next == call.watch.next
           n == Len(input.frames)
           held == Cardinality(EndsIn(WatchedFrom(k), at[k]))
<1>1. input \in Inputs /\ from \in Nat /\ upto \in Nat /\ OpenOK /\ CallOK
  BY RunIs
<1>2. k \in DOMAIN at /\ k >= next /\ at[k] <= upto
  BY <1>1, ReachedIs
<1>3. /\ p \in Nat /\ next \in Nat \ {0} /\ DOMAIN at = 1 .. Len(at) /\ Len(at) \in Nat
      /\ \A j \in DOMAIN at : at[j] \in Nat /\ p <= at[j]
      /\ \A i, j \in DOMAIN at : i <= j => at[i] <= at[j]
      /\ call.watch.first \in Int
      /\ call.watch.walked = IF next = 1 THEN 0 ELSE Cardinality(EndsIn(p, at[next - 1]))
      /\ call.watch.walked \in Nat
  BY SpanIs DEF Progress
<1>4. Before(window, from, k) = Cardinality(EndsIn(p, at[k]))
  BY <1>2, BeforeIs
<1> DEFINE before == IF k = next THEN call.watch.walked ELSE Before(window, from, k - 1)
<1>5. Before(window, from, k) - before = held
  <2>1. CASE k = 1
    <3>1. next = 1 /\ k = next /\ before = 0 /\ WatchedFrom(k) = p
      BY <1>2, <1>3, <2>1 DEF WatchedFrom
    <3>2. held = Cardinality(EndsIn(p, at[k])) /\ held \in Nat
      <4>1. at[k] \in Nat
        BY <1>2, <1>3
      <4> HIDE DEF at, p
      <4> QED
        BY <1>1, <1>3, <3>1, <4>1, EndsInHas
    <3> HIDE DEF held, before
    <3> QED
      BY <1>4, <3>1, <3>2
  <2>2. CASE k # 1
    <3>1. k - 1 \in DOMAIN at /\ k - 1 <= k /\ k \in Nat /\ WatchedFrom(k) = at[k - 1]
      BY <1>2, <1>3, <2>2 DEF WatchedFrom
    <3>2. before = Cardinality(EndsIn(p, at[k - 1]))
      <4>1. CASE k = next
        BY <1>3, <2>2, <4>1
      <4>2. CASE k # next
        <5>1. k - 1 >= next
          BY <1>2, <1>3, <3>1, <4>2
        <5>2. Before(window, from, k - 1) = Cardinality(EndsIn(p, at[k - 1]))
          BY <3>1, <5>1, BeforeIs
        <5> QED
          BY <4>2, <5>2
      <4> QED
        BY <4>1, <4>2
    <3>3. p <= at[k - 1] /\ at[k - 1] <= at[k] /\ at[k - 1] \in Nat /\ at[k] \in Nat
      BY <1>2, <1>3, <3>1
    <3>4. held = Cardinality(EndsIn(at[k - 1], at[k]))
      BY <3>1
    <3> DEFINE x == at[k - 1]
               y == at[k]
    <3>5. /\ p <= x /\ x <= y /\ x \in Nat /\ y \in Nat /\ held = Cardinality(EndsIn(x, y))
          /\ before = Cardinality(EndsIn(p, x))
          /\ Before(window, from, k) = Cardinality(EndsIn(p, y))
      BY <1>4, <3>2, <3>3, <3>4
    <3> HIDE DEF x, y, p, held, before
    <3>6. Cardinality(EndsIn(p, y)) = Cardinality(EndsIn(p, x)) + Cardinality(EndsIn(x, y))
      BY <1>1, <1>3, <3>5, EndsInSplit
    <3>7. Cardinality(EndsIn(p, x)) \in Nat /\ Cardinality(EndsIn(x, y)) \in Nat
      BY <1>1, <1>3, <3>5, EndsInHas
    <3> QED
      BY <3>5, <3>6, <3>7
  <2> QED
    BY <2>1, <2>2
<1>6. held \in Nat
  <2>1. WatchedFrom(k) \in Nat /\ at[k] \in Nat
    <3>1. k # 1 => k - 1 \in DOMAIN at
      BY <1>2, <1>3
    <3> QED
      BY <1>2, <1>3, <3>1 DEF WatchedFrom
  <2> HIDE DEF at
  <2> QED
    BY <1>1, <2>1, EndsInHas
<1>7. /\ reader.judge.first \in Nat /\ reader.judge.last = n - reader.judge.first
      /\ reader.judge.perFrame = PerFrame(input) /\ n \in Nat /\ PerFrame(input) \in Nat
  <2>1. n \in Nat /\ DOMAIN input.frames = 1 .. n
    BY <1>1, FileIs
  <2> QED
    BY <1>1, <2>1 DEF OpenOK
<1>8. call.watch.first + k - 1 = reader.judge.last <=> Skipping(call.watch) + k = n
  <2>1. k \in Nat
    BY <1>2, <1>3
  <2> DEFINE a == call.watch.first
             b == reader.judge.first
  <2>2. a \in Int /\ b \in Nat /\ n \in Nat /\ reader.judge.last = n - b
        /\ Skipping(call.watch) = a + b - 1
    BY <1>3, <1>7 DEF Skipping
  <2> HIDE DEF n, a, b
  <2>3. a + k - 1 = n - b <=> (a + b - 1) + k = n
    BY <2>1, <2>2
  <2> QED
    BY <2>2, <2>3 DEF a
<1>9. k \in Nat \ {0}
  BY <1>2, <1>3
<1> HIDE DEF held, before
<1> QED
  BY <1>2, <1>5, <1>6, <1>8, <1>9 DEF held, before

\* What is reported and not refused is even.
LEMMA RunIsJudged ==
  ASSUME FrameInv, NEW w, NEW from, NEW upto, RunOf(w, from, upto),
         reader.judge.verifies, ~call.lookup, ~SawUneven(window, from, upto),
         NEW k \in Reached(upto)
  PROVE  JudgedEven(k)
<1> DEFINE at == call.watch.at
           n == Len(input.frames)
           held == Cardinality(EndsIn(WatchedFrom(k), at[k]))
           before == IF k = call.watch.next THEN call.watch.walked ELSE Before(window, from, k - 1)
<1>1. /\ Before(window, from, k) - before = held /\ held \in Nat
      /\ call.watch.first + k - 1 = reader.judge.last <=> Skipping(call.watch) + k = n
  BY RunHolds
<1>2. ~Uneven(call.watch.first + k - 1, held, at[k] \in EndsIn(from, upto))
  <2>1. ~Uneven(call.watch.first + k - 1, Before(window, from, k) - before, at[k] \in EndsIn(from, upto))
    BY DEF SawUneven
  <2> HIDE DEF before, held
  <2> QED
    BY <1>1, <2>1
<1>3. reader.judge.perFrame = PerFrame(input) /\ PerFrame(input) \in Nat
  <2>1. OpenOK
    BY RunIs
  <2> QED
    BY <2>1 DEF OpenOK
<1>4. IF Skipping(call.watch) + k = n THEN held <= PerFrame(input)
      ELSE held = PerFrame(input) /\ at[k] \in input.ends
  <2>1. at[k] \in EndsIn(from, upto) => at[k] \in input.ends
    BY DEF EndsIn
  <2> HIDE DEF held, n, at
  <2> QED
    BY <1>1, <1>2, <1>3, <2>1 DEF Uneven
<1> QED
  BY <1>4 DEF JudgedEven

\* Where a run is not refused, the walk and the watcher go on together.
LEMMA RunGoesOn ==
  ASSUME FrameInv, NEW w, NEW from, NEW upto, RunOf(w, from, upto),
         reader.judge.verifies, ~call.lookup, ~SawUneven(window, from, upto)
  PROVE  LET u == Saw(window, from, upto)
         IN  /\ PlacedAt <= upto /\ w.walked = Cardinality(EndsIn(PlacedAt, upto))
             /\ u \in WatchType /\ u.at = call.watch.at /\ u.first = call.watch.first
             /\ u.next <= Len(u.at) + 1 /\ call.watch.next <= u.next
             /\ \A k \in DOMAIN u.at : IF k < u.next THEN u.at[k] <= upto ELSE upto < u.at[k]
             /\ u.walked = IF u.next = 1 THEN 0 ELSE Cardinality(EndsIn(PlacedAt, u.at[u.next - 1]))
             /\ \A k \in DOMAIN u.at : k < u.next => JudgedEven(k)
<1> DEFINE p == PlacedAt
           at == call.watch.at
           next == call.watch.next
           u == Saw(window, from, upto)
           R == Reached(upto)
           c == Cardinality(R)
<1>1. /\ input \in Inputs /\ from \in Nat /\ upto \in Nat /\ OpenOK /\ CallOK
      /\ from < upto /\ window.walked \in Nat
      /\ w.walked = window.walked + Cardinality(EndsIn(from, upto))
  BY RunIs
<1>2. /\ p \in Nat /\ p <= from /\ window.walked = Cardinality(EndsIn(p, from))
      /\ next \in Nat \ {0} /\ DOMAIN at = 1 .. Len(at) /\ Len(at) \in Nat
      /\ \A j \in DOMAIN at : /\ at[j] \in Nat /\ p <= at[j]
                              /\ IF j < next THEN at[j] <= from ELSE from <= at[j]
      /\ SpanInv /\ Progress
  BY SpanIs
<1>3. /\ c \in Nat /\ R = next .. next + c - 1
      /\ R # {} => c > 0 /\ Max(R) = next + c - 1 /\ Max(R) \in R
      /\ \A k : k \in R <=> k \in DOMAIN at /\ k >= next /\ at[k] <= upto
  BY <1>1, ReachedIs
<1>4. /\ u \in WatchType /\ u.at = at /\ u.first = call.watch.first /\ u.next = next + c
      /\ u.walked = IF R = {} THEN call.watch.walked ELSE Before(window, from, Max(R))
  BY <1>1, SawIs
<1>5. p <= upto /\ w.walked = Cardinality(EndsIn(p, upto))
  <2> HIDE DEF p
  <2>1. Cardinality(EndsIn(p, upto)) = Cardinality(EndsIn(p, from)) + Cardinality(EndsIn(from, upto))
    BY <1>1, <1>2, EndsInSplit
  <2> QED
    BY <1>1, <1>2, <2>1
<1>6. u.next <= Len(at) + 1 /\ next <= u.next
  <2>1. CASE R = {}
    <3>1. c = 0
      BY <2>1, FS_EmptySet
    <3>2. next <= Len(at) + 1
      BY <1>2 DEF Progress
    <3> HIDE DEF c, R, next, at, u
    <3> QED
      BY <1>2, <1>4, <3>1, <3>2
  <2>2. CASE R # {}
    <3>1. next + c - 1 \in DOMAIN at
      BY <1>3, <2>2
    <3> HIDE DEF c, R, next, at, u
    <3> QED
      BY <1>2, <1>3, <1>4, <3>1
  <2> QED
    BY <2>1, <2>2
<1>7. ASSUME NEW k \in DOMAIN at
      PROVE  IF k < u.next THEN at[k] <= upto ELSE upto < at[k]
  <2>1. k \in Nat /\ at[k] \in Nat
    BY <1>2
  <2>2. CASE k < next
    <3>1. at[k] <= from
      BY <1>2, <2>2
    <3>2. k < u.next
      <4> HIDE DEF c, next, u
      <4> QED
        BY <1>2, <1>3, <1>4, <2>1, <2>2
    <3> QED
      BY <1>1, <2>1, <3>1, <3>2
  <2>3. CASE ~(k < next)
    <3>1. k \in R <=> k < u.next
      <4>1. k \in R <=> k \in next .. next + c - 1
        BY <1>3
      <4> HIDE DEF c, R, next, u
      <4> QED
        BY <1>2, <1>3, <1>4, <2>1, <2>3, <4>1
    <3>2. k \in R <=> at[k] <= upto
      <4>1. k >= next
        BY <1>2, <2>1, <2>3
      <4> QED
        BY <1>3, <4>1
    <3> HIDE DEF R, u, at
    <3> QED
      BY <1>1, <2>1, <3>1, <3>2
  <2> QED
    BY <2>2, <2>3
<1>8. u.walked = IF u.next = 1 THEN 0 ELSE Cardinality(EndsIn(p, at[u.next - 1]))
  <2>1. CASE R = {}
    <3>1. c = 0
      BY <2>1, FS_EmptySet
    <3>2. u.next = next /\ u.walked = call.watch.walked
      <4> HIDE DEF c, R, next, u
      <4> QED
        BY <1>2, <1>4, <2>1, <3>1
    <3>3. call.watch.walked = IF next = 1 THEN 0 ELSE Cardinality(EndsIn(p, at[next - 1]))
      BY <1>2 DEF Progress
    <3> HIDE DEF u
    <3> QED
      BY <3>2, <3>3
  <2>2. CASE R # {}
    <3>1. c > 0 /\ Max(R) = next + c - 1 /\ Max(R) \in DOMAIN at /\ Max(R) >= next
      BY <1>3, <2>2
    <3>2. u.walked = Cardinality(EndsIn(p, at[Max(R)]))
      BY <1>4, <2>2, <3>1, BeforeIs
    <3>3. u.next - 1 = Max(R) /\ u.next # 1
      <4> DEFINE m == Max(R)
      <4>1. m = next + c - 1
        BY <3>1
      <4> HIDE DEF c, R, next, u, m
      <4>2. u.next - 1 = m /\ u.next # 1
        BY <1>2, <1>3, <1>4, <3>1, <4>1
      <4> QED
        BY <4>2 DEF m
    <3> HIDE DEF u
    <3> QED
      BY <3>2, <3>3
  <2> QED
    BY <2>1, <2>2
<1>9. ASSUME NEW k \in DOMAIN at, k < u.next PROVE JudgedEven(k)
  <2>1. CASE k < next
    BY <1>2, <2>1 DEF SpanInv
  <2>2. CASE ~(k < next)
    <3>1. k >= next /\ at[k] <= upto
      BY <1>2, <1>7, <1>9, <2>2
    <3>2. k \in R
      BY <1>3, <3>1
    <3> QED
      BY <3>2, RunIsJudged
  <2> QED
    BY <2>1, <2>2
<1> HIDE DEF u
<1> QED
  BY <1>4, <1>5, <1>6, <1>7, <1>8, <1>9 DEF u

--------------------------------------------------------------------------------
(***************************************************************************)
(* The steps of a call keep it.                                            *)
(***************************************************************************)
LEMMA SameReader ==
  ASSUME input' = input, reader' = reader
  PROVE  /\ OpenOK' <=> OpenOK
         /\ FrameEnds(input)' = FrameEnds(input)
         /\ PerFrame(input)' = PerFrame(input)
         /\ \A f : FrameStart(f)' = FrameStart(f) /\ HeldIn(f)' = HeldIn(f)
         /\ \A f : Even(f)' <=> Even(f)
<1>1. ReaderOK' <=> ReaderOK
  BY SameFile
<1>2. /\ PerFrame(input)' = PerFrame(input) /\ FrameEnds(input)' = FrameEnds(input)
      /\ Spans(input)' = Spans(input)
  BY DEF PerFrame, FrameEnds, Spans
<1>3. OpenOK' <=> OpenOK
  BY <1>1, <1>2 DEF OpenOK
<1>4. \A f : FrameStart(f)' = FrameStart(f)
  BY DEF FrameStart
<1>5. \A f : HeldIn(f)' = HeldIn(f)
  BY <1>4 DEF HeldIn, EndsIn
<1>6. \A f : Even(f)' <=> Even(f)
  BY <1>2, <1>5 DEF Even, IsLast, EndsWhole
<1> QED
  BY <1>2, <1>3, <1>4, <1>5, <1>6

LEMMA SameSpan ==
  ASSUME input' = input, reader' = reader, asked' = asked, window'.limit = window.limit,
         call'.watch.at = call.watch.at, call'.watch.first = call.watch.first
  PROVE  /\ First(asked.from)' = First(asked.from)
         /\ PlacedAt' = PlacedAt /\ SpanEnd' = SpanEnd
         /\ Watching \/ LastOnly => Watching' \/ LastOnly'
         /\ \A k : JudgedEven(k)' <=> JudgedEven(k)
<1>1. First(asked.from)' = First(asked.from)
  BY DEF First, Slots, Frames
<1>2. PlacedAt' = PlacedAt
  BY <1>1 DEF PlacedAt
<1>3. SpanEnd' = SpanEnd
  BY DEF SpanEnd
<1>4. Skipping(call.watch)' = Skipping(call.watch)
  BY DEF Skipping
<1>5. Watching => Watching'
  BY <1>2, <1>3, <1>4 DEF Watching, Watches
<1>6. LastOnly => LastOnly'
  BY <1>2, SameReader DEF LastOnly
<1>7. \A k : JudgedEven(k)' <=> JudgedEven(k)
  <2>1. \A k : WatchedFrom(k)' = WatchedFrom(k)
    BY <1>2 DEF WatchedFrom
  <2> QED
    BY <1>4, <2>1, SameReader DEF JudgedEven, EndsIn
<1> QED
  BY <1>1, <1>2, <1>3, <1>5, <1>6, <1>7

\* A call that goes on, or that answers nothing or an error, says nothing wrong.
LEMMA NothingAnswered ==
  ASSUME call'.busy = TRUE \/ got' \in {Refused, <<>>}
  PROVE  WalkedIsEven'
BY DEF WalkedIsEven, VerifiedRead, Answered

LEMMA NothingMore ==
  ASSUME input' = input, reader' = reader, NoRecordCrossesAFrame,
         got' = Refused \/ got' = <<>> \/ got' = got
  PROVE  NoRecordCrossesAFrame'
<1>1. FrameEnds(input)' = FrameEnds(input)
  BY SameReader
<1>2. CASE got' = Refused
  BY <1>2 DEF NoRecordCrossesAFrame
<1>3. CASE got' = <<>>
  <2>1. DOMAIN got' = {}
    BY <1>3
  <2> QED
    BY <2>1 DEF NoRecordCrossesAFrame
<1>4. CASE got' = got
  BY <1>1, <1>4 DEF NoRecordCrossesAFrame
<1> QED
  BY <1>2, <1>3, <1>4

\* What is put together of two sequences is in what both are in.
LEMMA BothIn ==
  ASSUME NEW s \in Seq(Nat \X Nat), NEW t \in Seq(Nat \X Nat), NEW W,
         \A r \in DOMAIN s : s[r] \in W, \A r \in DOMAIN t : t[r] \in W
  PROVE  \A r \in DOMAIN (s \o t) : (s \o t)[r] \in W
<1> SUFFICES ASSUME NEW r \in DOMAIN (s \o t) PROVE (s \o t)[r] \in W
  OBVIOUS
<1>1. /\ Len(s) \in Nat /\ Len(t) \in Nat /\ DOMAIN s = 1 .. Len(s) /\ DOMAIN t = 1 .. Len(t)
      /\ DOMAIN (s \o t) = 1 .. Len(s) + Len(t)
      /\ (s \o t)[r] = IF r <= Len(s) THEN s[r] ELSE t[r - Len(s)]
  <2>1. /\ s \o t \in Seq(Nat \X Nat) /\ Len(s \o t) = Len(s) + Len(t)
        /\ \A i \in 1 .. Len(s) + Len(t) : (s \o t)[i] =
             IF i <= Len(s) THEN s[i] ELSE t[i - Len(s)]
    BY ConcatProperties
  <2>2. DOMAIN (s \o t) = 1 .. Len(s) + Len(t)
    BY <2>1, LenProperties
  <2> QED
    BY <2>1, <2>2, LenProperties
<1>2. CASE r <= Len(s)
  <2>1. r \in DOMAIN s
    BY <1>1, <1>2
  <2> QED
    BY <1>1, <1>2, <2>1
<1>3. CASE ~(r <= Len(s))
  <2>1. r - Len(s) \in DOMAIN t
    BY <1>1, <1>3
  <2> QED
    BY <1>1, <1>3, <2>1
<1> QED
  BY <1>2, <1>3

\* The records that lie in one frame, or that may lie across some.
Clean ==
  {p \in Nat \X Nat :
    \A f \in DOMAIN FrameEnds(input) :
      p[1] < input.frames[f] /\ input.frames[f] < p[2] => reader.guard = <<>> /\ p[2] \notin input.ends}

LEMMA CleanIs ==
  ASSUME got \in Seq(Nat \X Nat)
  PROVE  NoRecordCrossesAFrame <=> \A r \in DOMAIN got : got[r] \in Clean
<1>1. \A r \in DOMAIN got : got[r] \in Nat \X Nat
  BY ElementOfSeq, LenProperties
<1>2. got # Refused
  BY RefusedAssumption
<1> QED
  BY <1>1, <1>2 DEF NoRecordCrossesAFrame, Clean

LEMMA TakeRunFrames ==
  ASSUME FrameInv, TakeRun, asked' = asked
  PROVE  FrameInv'
<1> DEFINE w == Walk(window, Wanted)
           count == w.walked - window.walked
           from == At(window)
           upto == At(w)
<1>1. /\ input' = input /\ reader' = reader /\ frame' = frame /\ window' = w
      /\ Walking /\ Held(window) # {}
      /\ IF SawUneven(window, from, upto) THEN Answer(Refused)
         ELSE /\ call' = [call EXCEPT
                            !.skip = IF call.skip > 0 THEN @ - count ELSE @,
                            !.left = IF call.skip > 0 THEN @ ELSE @ - count,
                            !.watch = Saw(window, from, upto)]
              /\ got' = IF call.skip > 0 THEN got ELSE got \o Records(from, upto)
  BY DEF TakeRun
<1>2. WindowInv /\ OpenOK
  BY DEF FrameInv
<1>3. WindowInv' /\ OpenOK'
  BY <1>1, <1>2, TakeRunKeeps, SameReader
<1>4. CASE SawUneven(window, from, upto)
  <2>1. got' = Refused /\ call' = Idle
    BY <1>1, <1>4 DEF Answer
  <2>2. call'.busy = FALSE
    BY <1>2, <2>1, CallIs
  <2>3. NoRecordCrossesAFrame' /\ WalkedIsEven'
    BY <1>1, <2>1, NothingAnswered, NothingMore DEF FrameInv
  <2> QED
    BY <1>3, <2>2, <2>3 DEF FrameInv
<1>5. CASE ~SawUneven(window, from, upto)
  <2>1. RunOf(w, from, upto)
    BY <1>1 DEF RunOf
  <2>2. w = w /\ upto = At(w)
    OBVIOUS
  <2> HIDE DEF from, upto
  <2> DEFINE u == Saw(window, from, upto)
             s == IF call.skip > 0 THEN call.skip - count ELSE call.skip
             l == IF call.skip > 0 THEN call.left ELSE call.left - count
  <2>3. call' = [call EXCEPT !.skip = s, !.left = l, !.watch = u]
    BY <1>1, <1>5
  <2>4. got' = IF call.skip > 0 THEN got ELSE got \o Records(from, upto)
    BY <1>1, <1>5
  <2> HIDE DEF w, u, s, l
  <2>5. /\ input \in Inputs /\ ReaderOK /\ Buffered(window) /\ call.busy = TRUE /\ call.spent = FALSE
        /\ from \in Nat /\ upto \in Nat /\ from < upto /\ upto <= Loaded(window)
        /\ upto \in EndsIn(from, upto) /\ upto <= SpanEnd /\ w.limit = window.limit
    BY <2>1, RunIs
  <2>6. call'.busy = TRUE /\ call'.lookup = call.lookup /\ call'.spent = call.spent /\ call'.watch = u
    BY <1>2, <2>3, <2>5 DEF WindowInv, CallOK, CallType
  <2>7. got \in Seq(Nat \X Nat) /\ Records(from, upto) \in Seq(Nat \X Nat)
        /\ got' \in Seq(Nat \X Nat)
    <3>1. got \in Seq(Nat \X Nat) /\ Records(from, upto) \in Seq(Nat \X Nat)
      BY <1>2, <2>5, RecordsAre DEF WindowInv
    <3>2. got \o Records(from, upto) \in Seq(Nat \X Nat)
      BY <3>1, ConcatProperties
    <3> QED
      BY <2>4, <3>1, <3>2
  <2>8. NoRecordCrossesAFrame'
    <3>1. NoRecordCrossesAFrame
      BY DEF FrameInv
    <3>2. \A r \in DOMAIN got : got[r] \in Clean
      BY <2>7, <3>1, CleanIs
    <3>3. \A r \in DOMAIN Records(from, upto) : Records(from, upto)[r] \in Clean
      <4> SUFFICES ASSUME NEW r \in DOMAIN Records(from, upto)
                   PROVE  Records(from, upto)[r] \in Clean
        OBVIOUS
      <4>1. Records(from, upto)[r] \in Nat \X Nat
        BY <2>7, ElementOfSeq, LenProperties
      <4>2. \A f \in DOMAIN FrameEnds(input) :
              ~(Records(from, upto)[r][1] < input.frames[f] /\ input.frames[f] < Records(from, upto)[r][2])
        BY <1>5, <2>1, RunIsWhole
      <4> QED
        BY <4>1, <4>2 DEF Clean
    <3>4. \A r \in DOMAIN (got \o Records(from, upto)) : (got \o Records(from, upto))[r] \in Clean
      BY <2>7, <3>2, <3>3, BothIn
    <3>5. \A r \in DOMAIN got' : got'[r] \in Clean
      BY <2>4, <3>2, <3>4
    <3>6. FrameEnds(input)' = FrameEnds(input)
      BY <1>1, SameReader
    <3>7. \A r \in DOMAIN got' : got'[r] \in Clean'
      BY <1>1, <3>5, <3>6 DEF Clean
    <3> QED
      BY <1>1, <3>5, <3>6 DEF NoRecordCrossesAFrame, Clean
  <2>9. ASSUME ~call.lookup, reader.judge.verifies PROVE SpanInv'
    <3>1. /\ PlacedAt <= upto /\ w.walked = Cardinality(EndsIn(PlacedAt, upto))
          /\ u \in WatchType /\ u.at = call.watch.at /\ u.first = call.watch.first
          /\ u.next <= Len(u.at) + 1 /\ call.watch.next <= u.next
          /\ \A k \in DOMAIN u.at : IF k < u.next THEN u.at[k] <= upto ELSE upto < u.at[k]
          /\ u.walked = IF u.next = 1 THEN 0 ELSE Cardinality(EndsIn(PlacedAt, u.at[u.next - 1]))
          /\ \A k \in DOMAIN u.at : k < u.next => JudgedEven(k)
      BY <1>5, <2>1, <2>9, RunGoesOn DEF u
    <3>2. /\ PlacedAt \in Nat /\ SpanInv
          /\ call.watch.next \in Nat /\ DOMAIN call.watch.at = 1 .. Len(call.watch.at)
          /\ \A k \in DOMAIN call.watch.at : call.watch.at[k] \in Nat
      BY <2>1, <2>9, SpanIs
    <3>3. /\ First(asked.from)' = First(asked.from)
          /\ PlacedAt' = PlacedAt /\ SpanEnd' = SpanEnd
          /\ Watching' \/ LastOnly'
          /\ \A k : JudgedEven(k)' <=> JudgedEven(k)
      BY <1>1, <2>5, <2>6, <3>1, <3>2, SameSpan DEF SpanInv
    <3>4. At(window)' = upto
      <4>1. At(window)' = At(w)
        BY <1>1, SameFile
      <4> QED
        BY <2>2, <4>1
    <3>5. Progress'
      <4>1. \A k \in DOMAIN u.at : IF k < u.next THEN u.at[k] <= upto ELSE upto <= u.at[k]
        <5> SUFFICES ASSUME NEW k \in DOMAIN u.at
                     PROVE  IF k < u.next THEN u.at[k] <= upto ELSE upto <= u.at[k]
          OBVIOUS
        <5>1. u.at[k] \in Nat
          BY <3>1, <3>2
        <5> QED
          BY <2>5, <3>1, <5>1
      <4> QED
        BY <1>1, <2>6, <3>1, <3>3, <3>4, <4>1 DEF Progress, EndsIn
    <3>6. Handed'
      <4>1. CASE call.skip > 0
        <5>1. got' = got /\ LastHandedOut' = LastHandedOut
          BY <2>4, <4>1 DEF LastHandedOut
        <5>2. Handed
          BY <3>2 DEF SpanInv
        <5>3. \A k \in DOMAIN u.at : k < call.watch.next => k < u.next
          BY <3>1, <3>2 DEF WatchType
        <5> QED
          BY <1>1, <2>6, <3>1, <3>3, <5>1, <5>2, <5>3 DEF Handed
      <4>2. CASE ~(call.skip > 0)
        <5> DEFINE t == Records(from, upto)
                   n == Cardinality(EndsIn(from, upto))
        <5>1. Len(t) = n /\ n # 0 /\ t[n][2] = upto /\ n \in Nat
          BY <2>5, RecordsAre, EndsInHas
        <5>2. /\ Len(got \o t) = Len(got) + n /\ Len(got) \in Nat
              /\ \A i \in 1 .. Len(got) + n : (got \o t)[i] = IF i <= Len(got) THEN got[i] ELSE t[i - Len(got)]
          <6>1. /\ Len(got \o t) = Len(got) + Len(t)
                /\ \A i \in 1 .. Len(got) + Len(t) : (got \o t)[i] =
                     IF i <= Len(got) THEN got[i] ELSE t[i - Len(got)]
            BY <2>7, ConcatProperties
          <6> QED
            BY <2>7, <5>1, <6>1, LenProperties
        <5> HIDE DEF t, n
        <5>3. (got \o t)[Len(got \o t)] = t[n]
          <6> DEFINE k == Len(got) + n
          <6>1. Len(got \o t) = k /\ k \in 1 .. Len(got) + n /\ ~(k <= Len(got)) /\ k - Len(got) = n
            BY <5>1, <5>2
          <6> HIDE DEF k
          <6>2. (got \o t)[k] = t[k - Len(got)]
            BY <5>2, <6>1
          <6> QED
            BY <6>1, <6>2
        <5>4. got' = got \o t
          BY <2>4, <4>2 DEF t
        <5>5. LastHandedOut' = upto
          BY <5>1, <5>3, <5>4 DEF LastHandedOut
        <5>6. \A k \in DOMAIN u.at : u.at[k] <= upto => k < u.next
          <6> SUFFICES ASSUME NEW k \in DOMAIN u.at, u.at[k] <= upto, ~(k < u.next) PROVE FALSE
            OBVIOUS
          <6>1. upto < u.at[k] /\ u.at[k] \in Nat
            BY <3>1, <3>2
          <6> QED
            BY <2>5, <6>1
        <5> QED
          BY <2>5, <2>6, <3>3, <5>5, <5>6 DEF Handed
      <4> QED
        BY <4>1, <4>2
    <3>7. First(asked.from)' \in DOMAIN reader'.frames
      BY <1>1, <3>2, <3>3 DEF SpanInv
    <3>8. \A k \in DOMAIN call'.watch.at : k < call'.watch.next => JudgedEven(k)'
      BY <2>6, <3>1, <3>3
    <3> QED
      BY <3>3, <3>5, <3>6, <3>7, <3>8 DEF SpanInv
  <2>10. WalkedIsEven'
    BY <2>6, NothingAnswered
  <2> QED
    BY <1>1, <1>3, <2>5, <2>6, <2>8, <2>9, <2>10 DEF FrameInv
<1> QED
  BY <1>4, <1>5

\* A walk that has come no further.
LEMMA SpanGoesOn ==
  ASSUME SpanInv, input' = input, reader' = reader, asked' = asked, window'.limit = window.limit,
         call'.watch = call.watch, Handed',
         \/ call'.spent = TRUE
         \/ call'.spent = call.spent /\ At(window)' = At(window) /\ window'.walked = window.walked
  PROVE  SpanInv'
<1>1. /\ First(asked.from)' = First(asked.from)
      /\ PlacedAt' = PlacedAt
      /\ Watching \/ LastOnly => Watching' \/ LastOnly'
      /\ \A k : JudgedEven(k)' <=> JudgedEven(k)
  BY SameSpan
<1>2. First(asked.from)' \in DOMAIN reader'.frames
  BY <1>1 DEF SpanInv
<1>3. Watching' \/ LastOnly'
  BY <1>1 DEF SpanInv
<1>4. \A k \in DOMAIN call'.watch.at : k < call'.watch.next => JudgedEven(k)'
  BY <1>1 DEF SpanInv
<1>5. ~call'.spent => Progress'
  <2> SUFFICES ASSUME ~call'.spent PROVE Progress'
    OBVIOUS
  <2>1. Progress /\ At(window)' = At(window) /\ window'.walked = window.walked
    BY DEF SpanInv
  <2> QED
    BY <1>1, <2>1 DEF Progress, EndsIn
<1> QED
  BY <1>2, <1>3, <1>4, <1>5 DEF SpanInv

\* A call that goes on in that way.
LEMMA FramesGoOn ==
  ASSUME FrameInv, WindowInv', call.busy = TRUE, input' = input, reader' = reader, asked' = asked,
         frame' = frame, window'.limit = window.limit, call'.busy = TRUE,
         call'.watch = call.watch, call'.lookup = call.lookup,
         NoRecordCrossesAFrame', Handed => Handed',
         \/ call'.spent = TRUE
         \/ call'.spent = call.spent /\ At(window)' = At(window) /\ window'.walked = window.walked
  PROVE  FrameInv'
<1>1. OpenOK'
  BY SameReader DEF FrameInv
<1>2. call'.lookup <=> asked'.name = "record"
  BY DEF FrameInv
<1>3. call'.lookup => frame' # 0
  BY DEF FrameInv
<1>4. ~call'.lookup /\ reader'.judge.verifies => SpanInv'
  <2> SUFFICES ASSUME ~call'.lookup, reader'.judge.verifies PROVE SpanInv'
    OBVIOUS
  <2>1. SpanInv
    BY DEF FrameInv
  <2>2. Handed'
    BY <2>1 DEF SpanInv
  <2> QED
    BY <2>1, <2>2, SpanGoesOn
<1>5. WalkedIsEven'
  BY NothingAnswered
<1> QED
  BY <1>1, <1>2, <1>3, <1>4, <1>5 DEF FrameInv

\* A call that ends in an error.
LEMMA FramesRefused ==
  ASSUME FrameInv, WindowInv', input' = input, reader' = reader, Answer(Refused)
  PROVE  FrameInv'
<1>1. got' = Refused /\ call' = Idle
  BY DEF Answer
<1>2. call'.busy = FALSE /\ OpenOK'
  BY <1>1, CallIs, SameReader DEF FrameInv
<1>3. NoRecordCrossesAFrame' /\ WalkedIsEven'
  BY <1>1, NothingAnswered, NothingMore DEF FrameInv
<1> QED
  BY <1>2, <1>3 DEF FrameInv

\* What has been handed out stays so.
LEMMA SameHanded ==
  ASSUME input' = input, reader' = reader, window'.limit = window.limit,
         call'.watch = call.watch, got' = got
  PROVE  Handed => Handed'
BY DEF Handed, LastHandedOut, SpanEnd

LEMMA ReadMoreFrames ==
  ASSUME FrameInv, ReadMore, asked' = asked
  PROVE  FrameInv'
<1>1. WindowInv
  BY DEF FrameInv
<1>2. /\ WindowInv'
      /\ ~CutsARecord(window) => At(window)' = At(window) /\ window'.walked = window.walked
      /\ window'.limit = window.limit
  BY <1>1, ReadMoreKeeps
<1>3. input' = input /\ reader' = reader /\ frame' = frame /\ call.busy = TRUE
  BY <1>1, CallIs DEF ReadMore, Walking
<1>4. CASE CutsARecord(window)
  <2>1. Answer(Refused)
    BY <1>4 DEF ReadMore
  <2> QED
    BY <1>2, <1>3, <2>1, FramesRefused
<1>5. CASE ~CutsARecord(window)
  <2>1. call' = call /\ got' = got
    BY <1>5 DEF ReadMore
  <2>2. Handed => Handed'
    BY <1>2, <1>3, <2>1, SameHanded
  <2>3. NoRecordCrossesAFrame'
    BY <1>3, <2>1, NothingMore DEF FrameInv
  <2> QED
    BY <1>2, <1>3, <1>5, <2>1, <2>2, <2>3, FramesGoOn
<1> QED
  BY <1>4, <1>5

LEMMA RunOutSkippingFrames ==
  ASSUME FrameInv, RunOutSkipping, asked' = asked
  PROVE  FrameInv'
<1>1. WindowInv
  BY DEF FrameInv
<1>2. /\ WindowInv' /\ input' = input /\ reader' = reader /\ frame' = frame /\ window' = window
      /\ call.busy = TRUE
  BY <1>1, RunOutKeeps, CallIs DEF RunOutSkipping, Walking
<1>3. CASE Answer(Refused)
  BY <1>2, <1>3, FramesRefused
<1>4. CASE ~Answer(Refused)
  <2>1. call' = [call EXCEPT !.skip = 0, !.spent = TRUE] /\ got' = got
    BY <1>4 DEF RunOutSkipping
  <2>2. /\ call'.busy = TRUE /\ call'.watch = call.watch /\ call'.lookup = call.lookup
        /\ call'.spent = TRUE
    BY <1>1, <1>2, <2>1 DEF WindowInv, CallOK, CallType
  <2>3. Handed => Handed'
    BY <1>2, <2>1, <2>2, SameHanded
  <2>4. NoRecordCrossesAFrame'
    BY <1>2, <2>1, NothingMore DEF FrameInv
  <2> QED
    BY <1>2, <2>2, <2>3, <2>4, FramesGoOn
<1> QED
  BY <1>3, <1>4

\* A fragment that is handed out lies in one frame where frame ends are guarded,
\* and ends in no record where they are not.
LEMMA FragmentIs ==
  ASSUME FrameInv, call.busy = TRUE, Held(window) = {}, window.pos < window.filled
  PROVE  /\ <<At(window), Loaded(window)>> \in Clean
         /\ Loaded(window) <= SpanEnd /\ Loaded(window) \notin input.ends
<1>1. input \in Inputs /\ ReaderOK /\ Buffered(window) /\ Guarded(window)
  BY DEF FrameInv, WindowInv
<1>2. /\ At(window) \in Nat /\ Loaded(window) \in Nat /\ At(window) < Loaded(window)
      /\ Loaded(window) <= SpanEnd /\ reader.base + window.offset <= At(window)
      /\ EndsIn(At(window), Loaded(window)) = {}
  BY <1>1, PlacesAre DEF SpanEnd
<1>3. Loaded(window) \notin input.ends
  BY <1>1, <1>2, EndsInHas
<1>4. ASSUME NEW f \in DOMAIN FrameEnds(input),
             At(window) < input.frames[f], input.frames[f] < Loaded(window)
      PROVE  reader.guard = <<>>
  <2> SUFFICES ASSUME reader.guard # <<>> PROVE FALSE
    OBVIOUS
  <2>1. reader.guard = FrameEnds(input)
    BY <1>1 DEF ReaderOK
  <2>2. reader.guard[f] = input.frames[f] /\ f \in DOMAIN reader.guard /\ input.frames[f] \in Nat
    BY <1>1, <1>4, <2>1, FrameEndsAre, FileIs
  <2>3. reader.guard[f] <= reader.base + window.offset \/ Loaded(window) <= reader.guard[f]
    BY <1>1, <2>2 DEF Guarded
  <2>4. reader.base + window.offset \in Nat
    BY <1>1, PlacesAre
  <2> QED
    BY <1>2, <1>4, <2>2, <2>3, <2>4
<1> QED
  BY <1>2, <1>3, <1>4 DEF Clean

LEMMA RunOutHandingFrames ==
  ASSUME FrameInv, RunOutHanding, asked' = asked
  PROVE  FrameInv'
<1>1. WindowInv
  BY DEF FrameInv
<1>2. /\ WindowInv' /\ input' = input /\ reader' = reader /\ frame' = frame
      /\ call.busy = TRUE /\ Held(window) = {} /\ call.left \in Nat
  BY <1>1, RunOutKeeps, CallIs DEF RunOutHanding, Walking
<1>3. CASE window.pos < window.filled /\ call.reject
  <2>1. Answer(Refused)
    BY <1>3 DEF RunOutHanding
  <2> QED
    BY <1>2, <2>1, FramesRefused
<1>4. CASE ~(window.pos < window.filled /\ call.reject) /\ ~(window.pos < window.filled /\ call.include)
  <2>1. call' = [call EXCEPT !.spent = TRUE] /\ got' = got /\ window' = window
    BY <1>4 DEF RunOutHanding
  <2>2. /\ call'.busy = TRUE /\ call'.watch = call.watch /\ call'.lookup = call.lookup
        /\ call'.spent = TRUE
    BY <1>1, <1>2, <2>1 DEF WindowInv, CallOK, CallType
  <2>3. Handed => Handed'
    BY <1>2, <2>1, <2>2, SameHanded
  <2>4. NoRecordCrossesAFrame'
    BY <1>2, <2>1, NothingMore DEF FrameInv
  <2> QED
    BY <1>2, <2>1, <2>2, <2>3, <2>4, FramesGoOn
<1>5. CASE ~(window.pos < window.filled /\ call.reject) /\ window.pos < window.filled /\ call.include
  <2> DEFINE fragment == <<At(window), Loaded(window)>>
  <2>1. /\ call' = [call EXCEPT !.left = @ - 1, !.spent = TRUE]
        /\ got' = Append(got, fragment)
        /\ window' = [window EXCEPT !.pos = window.filled]
    BY <1>5 DEF RunOutHanding
  <2>2. /\ call'.busy = TRUE /\ call'.watch = call.watch /\ call'.lookup = call.lookup
        /\ call'.spent = TRUE
    BY <1>1, <1>2, <2>1 DEF WindowInv, CallOK, CallType
  <2>3. window'.limit = window.limit
    BY <1>1, <2>1 DEF WindowInv, Buffered, WindowType
  <2>4. /\ fragment \in Clean /\ Loaded(window) <= SpanEnd /\ Loaded(window) \notin input.ends
        /\ fragment \in Nat \X Nat
    BY <1>2, <1>5, FragmentIs DEF Clean
  <2>5. /\ got \in Seq(Nat \X Nat) /\ got' \in Seq(Nat \X Nat)
        /\ Len(got) \in Nat /\ DOMAIN got = 1 .. Len(got) /\ DOMAIN got' = 1 .. Len(got) + 1
        /\ Len(got') = Len(got) + 1
        /\ \A i \in 1 .. Len(got) : got'[i] = got[i]
        /\ got'[Len(got) + 1] = fragment
    <3>1. got \in Seq(Nat \X Nat)
      BY <1>1, <1>2 DEF WindowInv
    <3> HIDE DEF fragment
    <3>2. /\ got' \in Seq(Nat \X Nat) /\ Len(got') = Len(got) + 1
          /\ \A i \in 1 .. Len(got) : got'[i] = got[i]
          /\ got'[Len(got) + 1] = fragment
      BY <2>1, <2>4, <3>1, AppendProperties
    <3>3. Len(got) \in Nat /\ DOMAIN got = 1 .. Len(got) /\ DOMAIN got' = 1 .. Len(got')
      BY <3>1, <3>2, LenProperties
    <3> QED
      BY <3>1, <3>2, <3>3
  <2>6. Handed'
    <3> HIDE DEF fragment
    <3>1. got'[Len(got')] = fragment
      <4>1. Len(got') = Len(got) + 1 /\ got'[Len(got) + 1] = fragment
        BY <2>5
      <4> QED
        BY ONLY <4>1
    <3> USE DEF fragment
    <3>2. LastHandedOut' = Loaded(window)
      BY <3>1 DEF LastHandedOut
    <3>3. SpanEnd' = SpanEnd
      BY <1>2, <2>3 DEF SpanEnd
    <3> QED
      BY <1>2, <2>4, <3>2, <3>3 DEF Handed
  <2>7. NoRecordCrossesAFrame'
    <3>1. \A r \in DOMAIN got : got[r] \in Clean
      BY <2>5, CleanIs DEF FrameInv
    <3> HIDE DEF fragment
    <3>2. \A r \in DOMAIN got' : got'[r] \in Clean
      <4> SUFFICES ASSUME NEW r \in DOMAIN got' PROVE got'[r] \in Clean
        OBVIOUS
      <4>1. CASE r \in 1 .. Len(got)
        <5>1. got'[r] = got[r] /\ r \in DOMAIN got
          BY <2>5, <4>1
        <5> QED
          BY <3>1, <5>1
      <4>2. CASE r \notin 1 .. Len(got)
        <5>1. r = Len(got) + 1
          BY <2>5, <4>2
        <5> QED
          BY <2>4, <2>5, <5>1
      <4> QED
        BY <4>1, <4>2
    <3>3. FrameEnds(input)' = FrameEnds(input)
      BY <1>2, SameReader
    <3> QED
      BY <1>2, <3>2, <3>3 DEF NoRecordCrossesAFrame, Clean
  <2> QED
    BY <1>2, <2>2, <2>3, <2>6, <2>7, FramesGoOn
<1> QED
  BY <1>3, <1>4, <1>5

\* The frames that a read has walked past are even, as the watcher was told of
\* each of them.
LEMMA AnsweredIsEven ==
  ASSUME FrameInv, SpanInv, got # <<>>, LastHandedOut \in input.ends,
         NEW f \in DOMAIN input.frames, WalkedPast(f)
  PROVE  Even(f)
<1>1. /\ input \in Inputs /\ ReaderOK /\ call.watch \in WatchType
      /\ First(asked.from) \in DOMAIN reader.frames
  BY CallIs DEF FrameInv, WindowInv, SpanInv
<1>2. /\ PlacedAt \in Nat /\ LastHandedOut \in Nat
      /\ Len(input.frames) \in Nat \ {0} /\ f \in 1 .. Len(input.frames) /\ f \in Nat
      /\ DOMAIN input.frames = 1 .. Len(input.frames)
      /\ \A g \in DOMAIN input.frames : input.frames[g] \in Nat
  <2>1. PlacedAt \in Nat
    <3>1. reader.base \in Nat /\ reader.frames[First(asked.from)].start \in Nat
      BY <1>1 DEF ReaderOK
    <3> QED
      BY <3>1 DEF PlacedAt
  <2>2. LastHandedOut \in Nat
    BY <1>1, FileIs
  <2> QED
    BY <1>1, <2>1, <2>2, FileIs
<1>3. PlacedAt <= FrameStart(f) /\ PlacedAt < input.frames[f] /\ input.frames[f] <= LastHandedOut
  BY DEF WalkedPast
<1>4. CASE LastOnly
  <2>1. f = Len(input.frames)
    <3> SUFFICES ASSUME f # Len(input.frames) PROVE FALSE
      OBVIOUS
    <3> DEFINE g == Len(input.frames) - 1
    <3>1. g \in DOMAIN input.frames /\ f <= g /\ Len(input.frames) # 1
      BY <1>2
    <3>2. PlacedAt = input.frames[g]
      BY <1>4, <3>1 DEF LastOnly, FrameStart
    <3> HIDE DEF g
    <3>3. input.frames[f] <= input.frames[g]
      BY <1>1, <3>1, FramesGrow
    <3> QED
      BY <1>2, <1>3, <3>1, <3>2, <3>3
  <2>2. HeldIn(Len(input.frames)) = PerFrame(input) /\ PerFrame(input) \in Nat
    BY <1>1, <1>4, PerFrameIs DEF LastOnly
  <2> QED
    BY <2>1, <2>2 DEF Even, IsLast
<1>5. CASE Watching
  <2> DEFINE m == Skipping(call.watch)
             at == call.watch.at
             k == f - m
  <2>1. /\ m \in 0 .. Len(input.frames)
        /\ \A g \in DOMAIN input.frames : g <= m => input.frames[g] <= PlacedAt
        /\ \A g \in DOMAIN input.frames : m < g /\ input.frames[g] <= SpanEnd => g - m \in DOMAIN at
        /\ \A j \in DOMAIN at : /\ m + j \in DOMAIN input.frames
                                /\ at[j] = input.frames[m + j]
    BY <1>5 DEF Watching, Watches
  <2>2. DOMAIN at = 1 .. Len(at) /\ Len(at) \in Nat
    BY <1>1, LenProperties DEF WatchType
  <2> HIDE DEF m, at
  <2>3. m < f /\ m \in Nat
    BY <1>2, <1>3, <2>1
  <2>4. SpanEnd \in Nat /\ LastHandedOut <= SpanEnd
    <3>1. Buffered(window)
      BY DEF FrameInv, WindowInv
    <3>2. SpanEnd \in Nat
      BY <1>1, <3>1, PlacesAre DEF SpanEnd
    <3> QED
      BY <3>2 DEF SpanInv, Handed
  <2>5. input.frames[f] <= SpanEnd
    BY <1>2, <1>3, <2>4
  <2>6. k \in DOMAIN at /\ at[k] = input.frames[f] /\ m + k = f
    <3>1. k \in DOMAIN at /\ m + k = f
      BY <1>2, <2>1, <2>3, <2>5
    <3> QED
      BY <2>1, <3>1
  <2>7. JudgedEven(k)
    <3>1. k < call.watch.next
      BY <1>3, <2>6 DEF SpanInv, Handed, at
    <3> QED
      BY <2>6, <3>1 DEF SpanInv, at
  <2>8. WatchedFrom(k) = FrameStart(f)
    <3>1. CASE k = 1
      <4>1. f - 1 = m
        BY <1>2, <2>3, <3>1
      <4>2. FrameStart(f) <= PlacedAt /\ FrameStart(f) \in Nat
        <5>1. CASE f = 1
          BY <1>2, <5>1 DEF FrameStart
        <5>2. CASE f # 1
          <6>1. f - 1 \in DOMAIN input.frames
            BY <1>2, <5>2
          <6>2. input.frames[f - 1] <= PlacedAt /\ input.frames[f - 1] \in Nat
            BY <1>2, <2>1, <2>3, <4>1, <6>1
          <6> QED
            BY <5>2, <6>2 DEF FrameStart
        <5> QED
          BY <5>1, <5>2
      <4> QED
        BY <1>2, <1>3, <3>1, <4>2 DEF WatchedFrom
    <3>2. CASE k # 1
      <4>1. k - 1 \in DOMAIN at /\ m + (k - 1) = f - 1 /\ f # 1
        BY <1>2, <2>2, <2>3, <2>6, <3>2
      <4>2. at[k - 1] = input.frames[f - 1]
        BY <2>1, <4>1
      <4> QED
        BY <3>2, <4>1, <4>2 DEF WatchedFrom, FrameStart, at
    <3> QED
      BY <3>1, <3>2
  <2>9. /\ IF f = Len(input.frames) THEN HeldIn(f) <= PerFrame(input)
           ELSE HeldIn(f) = PerFrame(input) /\ input.frames[f] \in input.ends
    <3>1. Cardinality(EndsIn(WatchedFrom(k), at[k])) = HeldIn(f)
      BY <2>6, <2>8 DEF HeldIn
    <3> HIDE DEF k
    <3> QED
      BY <2>6, <2>7, <3>1 DEF JudgedEven, at, m
  <2> QED
    BY <2>9 DEF Even, IsLast, EndsWhole
<1> QED
  BY <1>4, <1>5 DEF SpanInv

LEMMA FinishFrames ==
  ASSUME FrameInv, Finish, asked' = asked
  PROVE  FrameInv'
<1>1. WindowInv
  BY DEF FrameInv
<1>2. /\ WindowInv' /\ input' = input /\ reader' = reader /\ call.busy = TRUE
      /\ Answer(Refused) \/ Answer(got)
  BY <1>1, RunOutKeeps, CallIs DEF Finish
<1>3. CASE Answer(Refused)
  BY <1>2, <1>3, FramesRefused
<1>4. CASE Answer(got)
  <2>1. got' = got /\ call' = Idle
    BY <1>4 DEF Answer
  <2>2. call'.busy = FALSE /\ OpenOK'
    BY <1>1, <1>2, <2>1, CallIs, SameReader DEF FrameInv
  <2>3. NoRecordCrossesAFrame'
    BY <1>2, <2>1, NothingMore DEF FrameInv
  <2>4. WalkedIsEven'
    <3>1. LastHandedOut' = LastHandedOut
      BY <2>1 DEF LastHandedOut
    <3>2. PlacedAt' = PlacedAt
      BY <1>2 DEF PlacedAt, First, Slots, Frames
    <3>3. \A f : FrameStart(f)' = FrameStart(f) /\ (Even(f)' <=> Even(f))
      BY <1>2, SameReader
    <3>4. ASSUME VerifiedRead', LastHandedOut' \in input'.ends,
                 NEW f \in DOMAIN input.frames, WalkedPast(f)'
          PROVE  Even(f)
      <4>1. reader.judge.verifies /\ got # <<>> /\ asked.name # "record"
        BY <1>2, <2>1, <3>4 DEF VerifiedRead
      <4>2. SpanInv
        BY <1>2, <4>1 DEF FrameInv
      <4>3. WalkedPast(f)
        BY <1>2, <3>1, <3>2, <3>3, <3>4 DEF WalkedPast
      <4> QED
        BY <1>2, <3>1, <3>4, <4>1, <4>2, <4>3, AnsweredIsEven
    <3> QED
      BY <1>2, <3>3, <3>4 DEF WalkedIsEven
  <2> QED
    BY <1>2, <2>2, <2>3, <2>4 DEF FrameInv
<1> QED
  BY <1>2, <1>3, <1>4

LEMMA StepFrames ==
  ASSUME FrameInv, Step, asked' = asked
  PROVE  FrameInv'
BY TakeRunFrames, ReadMoreFrames, RunOutSkippingFrames, RunOutHandingFrames, FinishFrames DEF Step

--------------------------------------------------------------------------------
(***************************************************************************)
(* Beginning a call does.                                                  *)
(***************************************************************************)
LEMMA SpanBegins ==
  ASSUME FrameInv, NEW from \in Nat, ~PastEnd(from), NEW last \in DOMAIN reader.frames,
         First(from) <= last, NEW cnt \in Nat,
         ReadSpan(First(from), last, Skipped(from), cnt, Watched(from, First(from), last)),
         asked'.from = from, asked'.name # "record"
  PROVE  FrameInv'
<1> DEFINE first == First(from)
           skip == Skipped(from)
           watch == Watched(from, First(from), last)
           placed == reader.base + reader.frames[First(from)].start
           upto == reader.base + reader.frames[last].end
<1>1. WindowInv /\ OpenOK /\ ReaderOK /\ input \in Inputs
  BY DEF FrameInv, WindowInv
<1>2. input' = input /\ reader' = reader /\ got' = <<>>
  BY DEF ReadSpan
<1>3. first \in DOMAIN reader.frames /\ skip \in Nat /\ first <= last
  BY <1>1, PlacedIs
<1>4. /\ watch \in WatchType /\ watch.next = 1 /\ watch.walked = 0
      /\ \A j, k \in DOMAIN watch.at : j <= k => watch.at[j] <= watch.at[k]
      /\ reader.judge.verifies =>
           \/ Watches(watch, placed, upto)
           \/ /\ DOMAIN watch.at = {}
              /\ placed = FrameStart(Len(input.frames))
              /\ HeldIn(Len(input.frames)) = PerFrame(input)
  BY <1>1, WatchIs
<1>5. ReadSpan(first, last, skip, cnt, watch)
  OBVIOUS
<1>6. first = First(from) /\ placed = reader.base + reader.frames[first].start
      /\ upto = reader.base + reader.frames[last].end
  OBVIOUS
<1> HIDE DEF first, skip, watch, placed, upto
<1>7. /\ WindowInv'
      /\ call'.busy = TRUE /\ call'.watch = watch /\ call'.lookup = FALSE
      /\ window'.offset = reader.frames[first].start /\ window'.pos = 0
      /\ window'.limit = reader.frames[last].end /\ window'.walked = 0
  BY <1>1, <1>3, <1>4, <1>5, ReadSpanKeeps
<1>8. OpenOK'
  BY <1>1, <1>2, SameReader
<1>9. First(asked.from)' = first /\ PlacedAt' = placed /\ SpanEnd' = upto
  <2>1. First(asked.from)' = First(from)
    BY <1>2 DEF First, Slots, Frames
  <2> QED
    BY <1>2, <1>6, <1>7, <2>1 DEF PlacedAt, SpanEnd
<1>10. ASSUME reader.judge.verifies PROVE SpanInv'
  <2>1. placed \in Nat
    <3>1. reader.base \in Nat /\ reader.frames[first].start \in Nat
      BY <1>1, <1>3 DEF ReaderOK
    <3> QED
      BY <1>6, <3>1
  <2>2. Watching' \/ LastOnly'
    <3>1. CASE Watches(watch, placed, upto)
      <4>1. Skipping(call.watch)' = Skipping(watch)
        BY <1>2, <1>7 DEF Skipping
      <4> QED
        BY <1>2, <1>7, <1>9, <3>1, <4>1 DEF Watching, Watches
    <3>2. CASE /\ DOMAIN watch.at = {}
               /\ placed = FrameStart(Len(input.frames))
               /\ HeldIn(Len(input.frames)) = PerFrame(input)
      BY <1>2, <1>7, <1>9, <3>2, SameReader DEF LastOnly
    <3> QED
      BY <1>4, <1>10, <3>1, <3>2
  <2>3. At(window)' = placed
    <3>1. reader.base \in Nat /\ reader.frames[first].start \in Nat
      BY <1>1, <1>3 DEF ReaderOK
    <3> QED
      BY <1>2, <1>6, <1>7, <3>1 DEF At
  <2>4. \A k \in DOMAIN watch.at : placed <= watch.at[k] /\ ~(k < 1)
    <3>1. DOMAIN watch.at = 1 .. Len(watch.at) /\ Len(watch.at) \in Nat
      BY <1>4, LenProperties DEF WatchType
    <3> QED
      BY <1>4, <1>10, <3>1 DEF Watches
  <2>5. Progress'
    <3>1. Cardinality(EndsIn(placed, placed)) = 0
      <4>1. EndsIn(placed, placed) = {}
        BY <1>1, <2>1, EndsInHas
      <4> QED
        BY <1>1, <2>1, <4>1, EndsInHas
    <3>2. watch.next <= Len(watch.at) + 1
      <4>1. Len(watch.at) \in Nat
        BY <1>4, LenProperties DEF WatchType
      <4> QED
        BY <1>4, <4>1
    <3>3. window'.walked = Cardinality(EndsIn(PlacedAt, At(window)))'
      BY <1>2, <1>7, <1>9, <2>3, <3>1 DEF EndsIn
    <3> QED
      BY <1>2, <1>4, <1>7, <1>9, <2>1, <2>3, <2>4, <3>2, <3>3 DEF Progress
  <2>6. \A k \in DOMAIN call'.watch.at : ~(k < call'.watch.next)
    BY <1>4, <1>7, <2>4
  <2> QED
    BY <1>2, <1>3, <1>9, <2>2, <2>5, <2>6 DEF SpanInv, Handed
<1>11. NoRecordCrossesAFrame' /\ WalkedIsEven'
  BY <1>2, <1>7, NothingMore, NothingAnswered DEF FrameInv
<1> QED
  BY <1>2, <1>7, <1>8, <1>10, <1>11 DEF FrameInv

\* A read that is not placed leaves the window where it is, or takes the note back.
LEMMA NotPlacedKeeps ==
  ASSUME FrameInv, NEW from, NEW answer \in {Refused, <<>>}, NotPlaced(from, answer),
         frame' \in {0, frame}
  PROVE  FrameInv'
<1>1. WindowInv /\ OpenOK /\ ~call.busy
  BY DEF FrameInv, NotPlaced
<1>2. /\ input' = input /\ reader' = reader /\ window' = window /\ call' = call
      /\ frame' = 0 \/ frame' = frame
      /\ got' \in {Refused, <<>>}
  BY DEF NotPlaced
<1>3. WindowInv'
  <2>1. /\ ReaderOK' <=> ReaderOK
        /\ Longest' = Longest
        /\ Buffered(window)' <=> Buffered(window)
        /\ Guarded(window)' <=> Guarded(window)
    BY <1>2, SameFile
  <2>2. CallOK'
    BY <1>1, <1>2 DEF WindowInv, CallOK
  <2>3. frame' \in 0 .. Len(reader.frames)
    BY <1>1, <1>2 DEF WindowInv, ReaderOK
  <2>4. got' = Refused \/ got' \in Seq(Nat \X Nat)
    BY <1>2, EmptySeq
  <2> QED
    BY <1>1, <1>2, <2>1, <2>2, <2>3, <2>4 DEF WindowInv
<1>4. OpenOK' /\ NoRecordCrossesAFrame' /\ WalkedIsEven'
  BY <1>1, <1>2, SameReader, NothingMore, NothingAnswered DEF FrameInv
<1> QED
  BY <1>1, <1>2, <1>3, <1>4 DEF FrameInv

LEMMA UnplacedKeeps ==
  ASSUME FrameInv, NEW from, NEW answer \in {Refused, <<>>}, Unplaced(from, answer)
  PROVE  FrameInv'
BY NotPlacedKeeps DEF Unplaced

LEMMA UnbegunKeeps ==
  ASSUME FrameInv, NEW from, Unbegun(from)
  PROVE  FrameInv'
BY NotPlacedKeeps DEF Unbegun

LEMMA RecordsToFrames ==
  ASSUME FrameInv, NEW from \in Nat, NEW cnt \in Nat, RecordsTo(from, cnt)
  PROVE  FrameInv'
<1>1. asked'.from = from /\ asked'.name # "record"
  BY DEF RecordsTo
<1>2. CASE Unplaced(from, Refused)
  BY <1>2, UnplacedKeeps
<1>3. CASE ~Unplaced(from, Refused)
  <2> DEFINE last == Last(from, cnt)
  <2>1. /\ ~PastEnd(from)
        /\ ReadSpan(First(from), last, Skipped(from), cnt, Watched(from, First(from), last))
    BY <1>3 DEF RecordsTo
  <2>2. last \in DOMAIN reader.frames /\ First(from) <= last
    BY <2>1, PlacedIs DEF FrameInv
  <2> HIDE DEF last
  <2> QED
    BY <1>1, <2>1, <2>2, SpanBegins
<1> QED
  BY <1>2, <1>3

LEMMA RecordsFromFrames ==
  ASSUME FrameInv, NEW from \in Nat, RecordsFrom(from)
  PROVE  FrameInv'
<1>1. asked'.from = from /\ asked'.name # "record"
  BY DEF RecordsFrom
<1>2. CASE Unbegun(from)
  BY <1>2, UnbegunKeeps
<1>3. CASE ~Unbegun(from)
  <2> DEFINE last == Frames
             cnt == Bytes + 1
  <2>1. /\ ~PastEnd(from)
        /\ ReadSpan(First(from), last, Skipped(from), cnt, Watched(from, First(from), last))
    BY <1>3 DEF RecordsFrom
  <2>2. last \in DOMAIN reader.frames /\ First(from) <= last
    BY <2>1, PlacedIs DEF FrameInv
  <2>3. cnt \in Nat
    BY FileIs DEF FrameInv, WindowInv
  <2> HIDE DEF last, cnt
  <2> QED
    BY <1>1, <2>1, <2>2, <2>3, SpanBegins
<1> QED
  BY <1>2, <1>3

LEMMA RecordFrames ==
  ASSUME FrameInv, NEW index \in Nat, Record(index)
  PROVE  FrameInv'
<1>1. asked'.name = "record"
  BY DEF Record
<1>2. CASE Unplaced(index, <<>>)
  BY <1>2, UnplacedKeeps
<1>3. CASE ~Unplaced(index, <<>>)
  <2> DEFINE f == First(index)
             skip == Skipped(index)
             noted == IF index = Slots THEN 0 ELSE frame
  <2>1. ~PastEnd(index) /\ LookUp(f, skip, noted) /\ noted \in {0, frame}
    BY <1>3 DEF Record
  <2>2. f \in DOMAIN reader.frames /\ skip \in Nat
    BY <2>1, PlacedIs DEF FrameInv
  <2> HIDE DEF f, skip, noted
  <2>3. WindowInv' /\ call'.busy = TRUE /\ call'.lookup = TRUE
    BY <2>1, <2>2, LookUpKeeps DEF FrameInv
  <2>4. input' = input /\ reader' = reader /\ got' = <<>> /\ frame' = f
    BY <2>1 DEF LookUp
  <2>5. frame' # 0
    BY <2>2, <2>4 DEF FrameInv, OpenOK, ReaderOK
  <2>6. OpenOK' /\ NoRecordCrossesAFrame' /\ WalkedIsEven'
    BY <2>3, <2>4, SameReader, NothingMore, NothingAnswered DEF FrameInv
  <2> QED
    BY <1>1, <2>3, <2>5, <2>6 DEF FrameInv
<1> QED
  BY <1>2, <1>3

--------------------------------------------------------------------------------
(***************************************************************************)
(* And so it always holds.                                                 *)
(***************************************************************************)
LEMMA FramesInit ==
  ASSUME Init
  PROVE  FrameInv
<1>1. PICK kind \in Kinds, f \in DOMAIN input.frames :
        /\ kind.shares \/ f = 1
        /\ OpenedAt(Opened(input, kind, f))
  BY DEF Init
<1>2. input \in Inputs /\ PerFrame(input) > 0 /\ kind \in AllKinds
  BY FrameReadsAssumption DEF Init
<1>3. reader = Opened(input, kind, f) /\ call = Idle /\ got = <<>>
  BY <1>1 DEF OpenedAt
<1>4. OpenOK
  BY <1>1, <1>2, <1>3, OpenedIs
<1>5. WindowInv
  <2> DEFINE r == Opened(input, kind, f)
  <2>1. OpenedAt(r)
    BY <1>1
  <2> HIDE DEF r
  <2> QED
    BY <1>2, <1>4, <2>1, OpenedAtKeeps DEF OpenOK
<1>6. call.busy = FALSE
  BY <1>3, <1>5, CallIs
<1>7. NoRecordCrossesAFrame
  <2>1. DOMAIN got = {}
    BY <1>3
  <2> QED
    BY <2>1 DEF NoRecordCrossesAFrame
<1>8. WalkedIsEven
  BY <1>3 DEF WalkedIsEven, VerifiedRead
<1> QED
  BY <1>4, <1>5, <1>6, <1>7, <1>8 DEF FrameInv

\* A step that changes nothing.
LEMMA FramesStay ==
  ASSUME FrameInv, UNCHANGED vars
  PROVE  FrameInv'
<1>1. UNCHANGED <<input, reader, window, frame, call, got, asked>>
  BY DEF vars, windowVars
<1>2. WindowInv'
  <2>1. ReaderOK' = ReaderOK /\ Longest' = Longest /\ Buffered(window)' = Buffered(window)
        /\ Guarded(window)' = Guarded(window) /\ CallOK' = CallOK
    BY <1>1 DEF ReaderOK, Longest, Buffered, Guarded, Loaded, CallOK, Bytes, FrameEnds
  <2> QED
    BY <1>1, <2>1 DEF FrameInv, WindowInv
<1>3. CASE call.busy
  <2>1. At(window)' = At(window)
    BY <1>1 DEF At
  <2>2. NoRecordCrossesAFrame' /\ (Handed => Handed')
    BY <1>1, NothingMore, SameHanded DEF FrameInv
  <2>3. call.busy = TRUE
    BY <1>3, CallIs DEF FrameInv
  <2> QED
    BY <1>1, <1>2, <2>1, <2>2, <2>3, FramesGoOn
<1>4. CASE ~call.busy
  <2>1. OpenOK' /\ NoRecordCrossesAFrame'
    BY <1>1, SameReader, NothingMore DEF FrameInv
  <2>2. WalkedIsEven'
    <3>1. /\ LastHandedOut' = LastHandedOut /\ PlacedAt' = PlacedAt
          /\ \A f : FrameStart(f)' = FrameStart(f) /\ (Even(f)' <=> Even(f))
      BY <1>1, SameReader DEF LastHandedOut, PlacedAt, First, Slots, Frames
    <3>2. VerifiedRead' <=> VerifiedRead
      BY <1>1 DEF VerifiedRead, Answered, NoCall
    <3>3. \A f : WalkedPast(f)' <=> WalkedPast(f)
      BY <1>1, <3>1 DEF WalkedPast
    <3> QED
      BY <1>1, <3>1, <3>2, <3>3 DEF FrameInv, WalkedIsEven
  <2> QED
    BY <1>1, <1>2, <1>4, <2>1, <2>2 DEF FrameInv
<1> QED
  BY <1>3, <1>4

LEMMA FramesNext ==
  ASSUME FrameInv, [Next]_vars
  PROVE  FrameInv'
<1>1. ASSUME NEW from \in 0 .. MaxIndex, NEW cnt \in 0 .. MaxCount, RecordsTo(from, cnt)
      PROVE  FrameInv'
  BY <1>1, RecordsToFrames, FrameReadsAssumption
<1>2. ASSUME NEW from \in 0 .. MaxIndex, RecordsFrom(from)
      PROVE  FrameInv'
  BY <1>2, RecordsFromFrames, FrameReadsAssumption
<1>3. ASSUME NEW index \in 0 .. MaxIndex, Record(index)
      PROVE  FrameInv'
  BY <1>3, RecordFrames, FrameReadsAssumption
<1>4. ASSUME Step, UNCHANGED asked
      PROVE  FrameInv'
  BY <1>4, StepFrames
<1>5. CASE UNCHANGED vars
  BY <1>5, FramesStay
<1> QED
  BY <1>1, <1>2, <1>3, <1>4, <1>5 DEF Next

LEMMA FramesKept == Spec => []FrameInv
<1>1. Init => FrameInv
  BY FramesInit
<1>2. FrameInv /\ [Next]_vars => FrameInv'
  BY FramesNext
<1> QED
  BY <1>1, <1>2, PTL DEF Spec

\* However a reader was opened and whatever it is asked: a record that is handed
\* out lies in one frame, or in frames that only a verifying reader of the whole
\* file reads on through.
THEOREM NoneCrosses == Spec => []NoRecordCrossesAFrame
<1>1. FrameInv => NoRecordCrossesAFrame
  BY DEF FrameInv
<1> QED
  BY <1>1, FramesKept, PTL

\* A verifying read that is answered, and whose last record ends, has walked past
\* no frame that breaks the invariant of docs/format.md.
THEOREM WalkedAreEven == Spec => []WalkedIsEven
<1>1. FrameInv => WalkedIsEven
  BY DEF FrameInv
<1> QED
  BY <1>1, FramesKept, PTL

\* What every read keeps of the window and the call, of any file.
THEOREM ReadsFit == Spec => [](TypeOK /\ GrowthIsBounded)
<1>1. ASSUME FrameInv PROVE TypeOK /\ GrowthIsBounded
  <2>1. WindowInv
    BY <1>1 DEF FrameInv
  <2>2. call.busy \in BOOLEAN /\ call.skip \in Nat /\ call.left \in Nat
    BY <2>1, CallIs
  <2> QED
    BY <2>1, <2>2 DEF WindowInv, Buffered, WindowType, TypeOK, GrowthIsBounded
<1>2. FrameInv => TypeOK /\ GrowthIsBounded
  BY <1>1
<1> QED
  BY <1>2, FramesKept, PTL

--------------------------------------------------------------------------------
(***************************************************************************)
(* Files that keep the invariant of docs/format.md, and where the frames   *)
(* of a reader lie in them.                                                *)
(***************************************************************************)
LEMMA FrameStartIs ==
  ASSUME input \in Inputs, NEW f \in DOMAIN input.frames
  PROVE  /\ FrameStart(f) \in Nat /\ input.frames[f] \in Nat
         /\ FrameStart(f) <= input.frames[f] /\ input.frames[f] <= Bytes
         /\ f # 1 => f - 1 \in DOMAIN input.frames /\ FrameStart(f) = input.frames[f - 1]
         /\ FrameStart(1) = 0
<1>1. /\ DOMAIN input.frames = 1 .. Len(input.frames) /\ Len(input.frames) \in Nat
      /\ \A g \in DOMAIN input.frames : input.frames[g] \in Nat
      /\ \A g, h \in DOMAIN input.frames : g <= h => input.frames[g] <= input.frames[h]
      /\ \A g \in DOMAIN input.frames : input.frames[g] <= Bytes
  BY FileIs, FramesGrow
<1>2. FrameStart(1) = 0
  BY DEF FrameStart
<1>3. CASE f = 1
  BY <1>1, <1>2, <1>3
<1>4. CASE f # 1
  <2>1. f - 1 \in DOMAIN input.frames /\ f - 1 <= f
    BY <1>1, <1>4
  <2>2. FrameStart(f) = input.frames[f - 1]
    BY <1>4 DEF FrameStart
  <2> QED
    BY <1>1, <1>2, <1>4, <2>1, <2>2
<1> QED
  BY <1>3, <1>4

\* Each frame of such a file but the last holds as many records as the first.
LEMMA EvenIs ==
  ASSUME input \in Inputs, Intact, NEW f \in DOMAIN input.frames
  PROVE  /\ HeldIn(f) \in Nat /\ HeldIn(f) <= PerFrame(input)
         /\ HeldIn(f) = Cardinality(EndsIn(FrameStart(f), input.frames[f]))
         /\ f # Len(input.frames) => HeldIn(f) = PerFrame(input) /\ input.frames[f] \in input.ends
<1>1. HeldIn(f) = Cardinality(EndsIn(FrameStart(f), input.frames[f]))
  BY DEF HeldIn
<1>2. HeldIn(f) \in Nat
  <2>1. FrameStart(f) \in Nat /\ input.frames[f] \in Nat
    BY FrameStartIs
  <2> QED
    BY <1>1, <2>1, CountIs
<1>3. PerFrame(input) \in Nat /\ Even(f)
  BY PerFrameIs DEF Intact
<1> QED
  BY <1>1, <1>2, <1>3 DEF Even, IsLast, EndsWhole

\* What the frames from b up to f hold.
FramesHold(b, f) ==
  /\ FrameStart(b) <= FrameStart(f)
  /\ FrameStart(f) \in input.ends \cup {FrameStart(b)}
  /\ Cardinality(EndsIn(FrameStart(b), FrameStart(f))) = (f - b) * PerFrame(input)

\* If the frames up to one hold all their records then so do those up to the next.
LEMMA NextHolds ==
  ASSUME input \in Inputs, Intact, NEW b \in DOMAIN input.frames, NEW f \in DOMAIN input.frames,
         b <= f, f + 1 \in DOMAIN input.frames, FramesHold(b, f)
  PROVE  FramesHold(b, f + 1)
<1> DEFINE p == FrameStart(b)
           x == FrameStart(f)
           y == FrameStart(f + 1)
           n == PerFrame(input)
<1>1. f \in Nat /\ b \in Nat /\ f # Len(input.frames) /\ f + 1 # 1 /\ (f + 1) - 1 = f
  <2>1. DOMAIN input.frames = 1 .. Len(input.frames) /\ Len(input.frames) \in Nat
    BY FileIs
  <2> QED
    BY <2>1
<1>2. p \in Nat /\ x \in Nat /\ y \in Nat /\ y = input.frames[f] /\ x <= y
  BY <1>1, FrameStartIs
<1>3. y \in input.ends /\ Cardinality(EndsIn(x, y)) = n /\ n \in Nat
  BY <1>1, <1>2, EvenIs, PerFrameIs
<1>4. p <= x
  BY DEF FramesHold
<1>9. Cardinality(EndsIn(p, x)) = (f - b) * n
  BY DEF FramesHold
<1>5. ((f - b) + 1) * n = (f - b) * n + n /\ (f - b) + 1 = (f + 1) - b
  <2>1. f - b \in Nat
    BY <1>1
  <2> QED
    BY <1>1, <1>3, <2>1, OneMore
<1> HIDE DEF p, x, y, n
<1>6. Cardinality(EndsIn(p, y)) = Cardinality(EndsIn(p, x)) + Cardinality(EndsIn(x, y))
  BY <1>2, <1>4, CountSplit
<1>7. Cardinality(EndsIn(p, y)) = ((f + 1) - b) * n
  BY <1>3, <1>5, <1>6, <1>9
<1>8. p <= y
  BY <1>2, <1>4
<1> QED
  BY <1>3, <1>7, <1>8 DEF FramesHold, p, y, n

\* All frames of such a file but the last hold as many records as it declares.
LEMMA FramesHoldAll ==
  ASSUME input \in Inputs, Intact, NEW b \in DOMAIN input.frames, NEW f \in DOMAIN input.frames,
         b <= f
  PROVE  FramesHold(b, f)
<1> DEFINE S == {k \in Nat : b + k \in DOMAIN input.frames /\ ~FramesHold(b, b + k)}
<1>1. DOMAIN input.frames = 1 .. Len(input.frames) /\ Len(input.frames) \in Nat
  BY FileIs
<1>2. b \in Nat /\ f \in Nat /\ f - b \in Nat /\ b + (f - b) = f
  BY <1>1
<1>3. S = {}
  <2> SUFFICES ASSUME S # {} PROVE FALSE
    OBVIOUS
  <2>1. PICK k \in S : \A j \in S : k <= j
    <3>1. S \in SUBSET Nat
      OBVIOUS
    <3> HIDE DEF S
    <3> QED
      BY <3>1, LeastOf
  <2>2. k \in Nat /\ b + k \in DOMAIN input.frames /\ ~FramesHold(b, b + k)
    OBVIOUS
  <2>3. CASE k = 0
    <3>1. b + k = b /\ b - b = 0
      BY <1>2, <2>3
    <3>2. FrameStart(b) \in Nat /\ PerFrame(input) \in Nat
      BY FrameStartIs, PerFrameIs
    <3>4. Cardinality(EndsIn(FrameStart(b), FrameStart(b))) = 0
      BY <3>2, CountIs
    <3>5. 0 * PerFrame(input) = 0
      BY <3>2
    <3>6. FramesHold(b, b)
      BY <3>1, <3>2, <3>4, <3>5 DEF FramesHold
    <3> QED
      BY <2>2, <3>1, <3>6
  <2>4. CASE k # 0
    <3>1. /\ k - 1 \in Nat /\ ~(k <= k - 1) /\ b + (k - 1) \in DOMAIN input.frames
          /\ b <= b + (k - 1) /\ (b + (k - 1)) + 1 = b + k
      <4>1. b \in 1 .. Len(input.frames) /\ b + k \in 1 .. Len(input.frames)
        BY <1>1, <2>2
      <4> HIDE DEF S
      <4>2. b + (k - 1) \in 1 .. Len(input.frames)
        BY <1>1, <2>2, <2>4, <4>1
      <4> QED
        BY <1>1, <1>2, <2>2, <2>4, <4>2
    <3>2. FramesHold(b, b + (k - 1))
      <4>1. k - 1 \notin S
        BY <2>1, <3>1
      <4> QED
        BY <3>1, <4>1
    <3> DEFINE g == b + (k - 1)
    <3>3. g \in DOMAIN input.frames /\ b <= g /\ g + 1 = b + k /\ FramesHold(b, g)
      BY <3>1, <3>2
    <3> HIDE DEF g, S
    <3>4. FramesHold(b, g + 1)
      BY <2>2, <3>3, NextHolds
    <3> QED
      BY <2>2, <3>3, <3>4
  <2> QED
    BY <2>3, <2>4
<1> QED
  BY <1>2, <1>3

--------------------------------------------------------------------------------
(***************************************************************************)
(* Where the frames of a reader lie: in groups of size frames of the file, *)
(* from frame first on.                                                    *)
(***************************************************************************)
StartOf(g) == reader.base + reader.frames[g].start
EndOf(g) == reader.base + reader.frames[g].end
LaidOut(first, size, g) ==
  /\ first + (g - 1) * size \in DOMAIN input.frames
  /\ StartOf(g) = FrameStart(first + (g - 1) * size)
  /\ g # Frames => EndOf(g) = StartOf(g + 1)
  /\ g = Frames => EndOf(g) = Bytes /\ Len(input.frames) < first + g * size
Laid(first, size) ==
  /\ first \in DOMAIN input.frames /\ size \in Nat \ {0}
  /\ reader.base = FrameStart(first) /\ reader.sepCnt = PerFrame(input) * size
  /\ \A g \in DOMAIN reader.frames : LaidOut(first, size, g)

\* Of a reader of the whole file, one by one.
LEMMA WholeIsLaid ==
  ASSUME input \in Inputs, reader.base = 0, reader.frames = Spans(input),
         reader.sepCnt = PerFrame(input)
  PROVE  Laid(1, 1)
<1> DEFINE n == Len(input.frames)
           s == Spans(input)
<1>1. n \in Nat \ {0} /\ DOMAIN input.frames = 1 .. n /\ Bytes = input.frames[n]
  BY FileIs DEF Bytes
<1>2. /\ Len(s) = n /\ DOMAIN s = DOMAIN input.frames
      /\ \A f \in DOMAIN s : /\ s[f].start = (IF f = 1 THEN 0 ELSE input.frames[f - 1])
                             /\ s[f].end = input.frames[f]
  BY SpansAre
<1>3. Frames = n /\ reader.frames = s
  BY <1>2 DEF Frames
<1> HIDE DEF s
<1>4. ASSUME NEW g \in DOMAIN reader.frames PROVE LaidOut(1, 1, g)
  <2>1. g \in 1 .. n /\ g \in DOMAIN s /\ g \in Nat
    BY <1>1, <1>2, <1>3
  <2>2. 1 + (g - 1) * 1 = g /\ 1 + g * 1 = g + 1
    BY <2>1
  <2>3. FrameStart(g) \in Nat /\ input.frames[g] \in Nat
    BY <1>1, <2>1, FrameStartIs
  <2>4. StartOf(g) = FrameStart(g) /\ EndOf(g) = input.frames[g]
    <3>1. s[g].start = FrameStart(g) /\ s[g].end = input.frames[g]
      BY <1>2, <2>1 DEF FrameStart
    <3> QED
      BY <1>3, <2>3, <3>1 DEF StartOf, EndOf
  <2>5. ASSUME g # n PROVE EndOf(g) = StartOf(g + 1)
    <3>1. g + 1 \in 1 .. n /\ g + 1 # 1 /\ (g + 1) - 1 = g
      BY <1>1, <2>1, <2>5
    <3>2. s[g + 1].start = input.frames[g]
      BY <1>1, <1>2, <3>1
    <3> QED
      BY <1>3, <2>3, <2>4, <3>2 DEF StartOf
  <2>6. g = n => EndOf(g) = Bytes /\ n < g + 1
    BY <1>1, <2>4
  <2> QED
    BY <1>1, <1>3, <2>1, <2>2, <2>4, <2>5, <2>6 DEF LaidOut
<1>5. FrameStart(1) = 0 /\ PerFrame(input) * 1 = PerFrame(input) /\ 1 \in DOMAIN input.frames
  BY <1>1, PerFrameIs DEF FrameStart
<1> QED
  BY <1>4, <1>5 DEF Laid

\* Of one that shares the file, by groups.
LEMMA GroupNumber ==
  ASSUME NEW n \in Nat \ {0}, NEW f \in 1 .. n, NEW size \in Nat \ {0},
         NEW g \in Nat \ {0}, g <= (n - f + size) \div size
  PROVE  /\ (g - 1) * size \in Nat /\ g * size \in Nat /\ g * size = (g - 1) * size + size
         /\ f + (g - 1) * size \in 1 .. n
         /\ g = (n - f + size) \div size => n < f + g * size
         /\ g # (n - f + size) \div size => f + g * size <= n
<1> DEFINE m == (n - f + size) \div size
<1>1. n - f + size \in Nat
  OBVIOUS
<1>2. m \in Nat /\ m * size \in Nat /\ m * size <= n - f + size /\ n - f + size < m * size + size
  BY <1>1, Divided
<1> HIDE DEF m
<1>3. g - 1 \in Nat /\ (g - 1) + 1 = g /\ g \in Nat /\ size \in Nat
  OBVIOUS
<1>4. (g - 1) * size \in Nat /\ g * size \in Nat /\ g * size = (g - 1) * size + size
  <2>1. ((g - 1) + 1) * size = (g - 1) * size + size
    BY <1>3, OneMore
  <2>2. (g - 1) * size \in Nat
    BY <1>3
  <2> QED
    BY <1>3, <2>1, <2>2
<1>5. g <= m
  BY DEF m
<1>6. g * size <= m * size
  BY <1>2, <1>3, <1>5, Grows
<1>7. ASSUME g # m PROVE f + g * size <= n
  <2>1. g + 1 <= m /\ g + 1 \in Nat
    BY <1>2, <1>3, <1>5, <1>7
  <2>2. (g + 1) * size <= m * size /\ (g + 1) * size = g * size + size
    BY <1>2, <1>3, <2>1, Grows, OneMore
  <2> DEFINE a == g * size
             b == (g + 1) * size
             c == m * size
  <2>3. a \in Nat /\ b = a + size /\ b <= c /\ c <= n - f + size /\ c \in Nat
    BY <1>2, <1>4, <2>2
  <2> HIDE DEF a, b, c
  <2>4. f + a <= n
    BY <2>3
  <2> QED
    BY <2>4 DEF a
<1>8. f + (g - 1) * size \in 1 .. n
  <2> DEFINE a == (g - 1) * size
             b == g * size
             c == m * size
  <2>1. a \in Nat /\ b = a + size /\ b <= c /\ c <= n - f + size /\ c \in Nat
    BY <1>2, <1>4, <1>6
  <2> HIDE DEF a, b, c
  <2>2. f + a \in 1 .. n
    BY <2>1
  <2> QED
    BY <2>2 DEF a
<1>9. ASSUME g = m PROVE n < f + g * size
  <2> DEFINE b == g * size
  <2>1. b \in Nat /\ n - f + size < b + size
    BY <1>2, <1>4, <1>9
  <2> HIDE DEF b
  <2>2. n < f + b
    BY <2>1
  <2> QED
    BY <2>2 DEF b
<1> QED
  BY <1>4, <1>7, <1>8, <1>9 DEF m

\* The frames of a sharing reader are groups of the frames of the file.
LEMMA SharingIsLaid ==
  ASSUME input \in Inputs, NEW f \in DOMAIN input.frames,
         reader.base = FrameStart(f), reader.frames = Groups(input, f),
         reader.sepCnt = PerFrame(input) * GroupSize(input, f)
  PROVE  Laid(f, GroupSize(input, f))
<1> DEFINE n == Len(input.frames)
           size == GroupSize(input, f)
           base == reader.base
           index(g) == Min({f - 1 + g * size, n})
           endOf(g) == input.frames[index(g)] - base
           number == (n - f + size) \div size
           s == Groups(input, f)
<1>1. /\ n \in Nat \ {0} /\ DOMAIN input.frames = 1 .. n /\ Bytes = input.frames[n] /\ f \in 1 .. n
      /\ \A g \in DOMAIN input.frames : input.frames[g] \in Nat
  BY FileIs DEF Bytes
<1>2. size \in Nat \ {0}
  BY GroupSizeIs
<1>3. base = (IF f = 1 THEN 0 ELSE input.frames[f - 1]) /\ base \in Nat
  BY FrameStartIs DEF FrameStart
<1>4. s = [g \in 1 .. number |-> [start |-> IF g = 1 THEN 0 ELSE endOf(g - 1), end |-> endOf(g)]]
  BY <1>3 DEF Groups
<1>5. DOMAIN s = 1 .. Len(s) /\ Len(s) \in Nat \ {0}
  BY GroupsAre
<1> HIDE DEF size, s, base
<1>6. number \in Nat
  <2>1. n - f + size \in Nat
    BY <1>1, <1>2
  <2> QED
    BY <1>2, <2>1, Divided
<1>7. reader.frames = s
  BY DEF s
<1>8. DOMAIN s = 1 .. number /\ Frames = number
  <2>1. DOMAIN s = 1 .. number
    BY <1>4
  <2> HIDE DEF number
  <2>2. Len(s) = number
    <3>1. 1 .. Len(s) = 1 .. number /\ Len(s) \in Nat
      BY <1>5, <2>1
    <3> QED
      BY <1>6, <3>1
  <2> QED
    BY <1>7, <2>1, <2>2 DEF Frames
<1>9. ASSUME NEW g \in 1 .. number
      PROVE  /\ g \in Nat \ {0} /\ (g - 1) * size \in Nat /\ g * size \in Nat
             /\ g * size = (g - 1) * size + size
             /\ f + (g - 1) * size \in 1 .. n
             /\ g = number => n < f + g * size
             /\ g # number => f + g * size <= n
  <2>1. g \in Nat \ {0} /\ g <= (n - f + size) \div size
    <3>1. g \in 1 .. number /\ number = (n - f + size) \div size
      OBVIOUS
    <3> HIDE DEF number
    <3>2. g \in Nat \ {0} /\ g <= number
      BY <1>6, <3>1
    <3> QED
      BY <3>1, <3>2
  <2>2. n \in Nat \ {0} /\ f \in 1 .. n /\ number = (n - f + size) \div size
    BY <1>1
  <2> HIDE DEF n, number
  <2>3. /\ (g - 1) * size \in Nat /\ g * size \in Nat /\ g * size = (g - 1) * size + size
        /\ f + (g - 1) * size \in 1 .. n
        /\ g = (n - f + size) \div size => n < f + g * size
        /\ g # (n - f + size) \div size => f + g * size <= n
    BY ONLY <1>2, <2>1, <2>2, GroupNumber
  <2> QED
    BY <2>1, <2>2, <2>3
<1> HIDE DEF number
<1>10. ASSUME NEW g \in 1 .. number
       PROVE  IF g = number THEN index(g) = n ELSE index(g) = f - 1 + g * size /\ index(g) \in 1 .. n
  <2> DEFINE a == g * size
             p == f - 1 + a
  <2>1. /\ a \in Nat /\ p \in Nat /\ index(g) = Min({p, n})
        /\ g = number => n <= p
        /\ g # number => p <= n /\ p \in 1 .. n
    <3>1. a \in Nat /\ (g = number => n < f + a) /\ (g # number => f + a <= n)
      BY <1>9
    <3>2. g * size = (g - 1) * size + size /\ (g - 1) * size \in Nat
      BY <1>9
    <3>3. a >= 1
      <4> DEFINE b == (g - 1) * size
      <4>1. a = b + size /\ b \in Nat
        BY <3>2
      <4> HIDE DEF a, b
      <4> QED
        BY <1>2, <4>1
    <3> HIDE DEF a
    <3>4. p \in Nat /\ (g = number => n <= p) /\ (g # number => p <= n /\ p \in 1 .. n)
      BY <1>1, <3>1, <3>3
    <3> QED
      BY <3>1, <3>4 DEF a
  <2> HIDE DEF a, p, index
  <2>2. {p, n} \in SUBSET Nat /\ {p, n} # {}
    BY <1>1, <2>1
  <2>3. Min({p, n}) \in {p, n} /\ Min({p, n}) <= p /\ Min({p, n}) <= n
    BY <2>2, MinIs
  <2>4. IF g = number THEN index(g) = n ELSE index(g) = p /\ index(g) \in 1 .. n
    BY <1>1, <2>1, <2>3
  <2> QED
    BY <2>4 DEF p, a
<1> HIDE DEF index
<1>11. ASSUME NEW g \in 1 .. number
       PROVE  base + endOf(g) = IF g = number THEN Bytes ELSE input.frames[f - 1 + g * size]
  <2>1. index(g) \in 1 .. n
    BY <1>1, <1>10
  <2>2. base + endOf(g) = input.frames[index(g)]
    <3>1. input.frames[index(g)] \in Nat
      BY <1>1, <2>1
    <3> QED
      BY <1>3, <3>1
  <2> HIDE DEF endOf
  <2> QED
    BY <1>1, <1>10, <2>2
<1>12. ASSUME NEW g \in 1 .. number
       PROVE  /\ EndOf(g) = base + endOf(g)
              /\ StartOf(g) = IF g = 1 THEN base ELSE base + endOf(g - 1)
  <2>1. s[g].end = endOf(g) /\ s[g].start = IF g = 1 THEN 0 ELSE endOf(g - 1)
    BY <1>4
  <2> HIDE DEF endOf
  <2> QED
    BY <1>3, <1>7, <2>1 DEF EndOf, StartOf, base
<1> HIDE DEF endOf
<1>13. ASSUME NEW g \in DOMAIN reader.frames PROVE LaidOut(f, size, g)
  <2>1. g \in 1 .. number /\ g \in Nat /\ number \in Nat
    BY <1>6, <1>7, <1>8
  <2>2. f + (g - 1) * size \in DOMAIN input.frames
    BY <1>1, <1>9, <2>1
  <2>3. StartOf(g) = FrameStart(f + (g - 1) * size)
    <3>1. CASE g = 1
      <4>1. (g - 1) * size = 0
        BY <1>2, <3>1
      <4>2. f + (g - 1) * size = f
        BY <1>1, <4>1
      <4>3. StartOf(g) = base
        BY <1>12, <2>1, <3>1
      <4> QED
        BY <4>2, <4>3 DEF base
    <3>2. CASE g # 1
      <4>1. g - 1 \in 1 .. number /\ g - 1 # number
        BY <2>1, <3>2
      <4>2. StartOf(g) = input.frames[f - 1 + (g - 1) * size]
        BY <1>11, <1>12, <2>1, <3>2, <4>1
      <4>3. (g - 1) * size \in Nat /\ (g - 1) * size >= 1
        <5> DEFINE a == (g - 1) * size
                   b == ((g - 1) - 1) * size
        <5>1. a \in Nat /\ b \in Nat /\ a = b + size
          BY <1>9, <4>1
        <5> HIDE DEF a, b
        <5>2. a \in Nat /\ a >= 1
          BY <1>2, <5>1
        <5> QED
          BY <5>2 DEF a
      <4> DEFINE a == (g - 1) * size
      <4>4. a \in Nat /\ a >= 1 /\ StartOf(g) = input.frames[f - 1 + a]
        BY <4>2, <4>3
      <4> HIDE DEF a
      <4>5. f + a # 1 /\ (f + a) - 1 = f - 1 + a
        BY <1>1, <4>4
      <4>6. StartOf(g) = FrameStart(f + a)
        BY <4>4, <4>5 DEF FrameStart
      <4> QED
        BY <4>6 DEF a
    <3> QED
      BY <3>1, <3>2
  <2>4. ASSUME g # Frames PROVE EndOf(g) = StartOf(g + 1)
    <3>1. g + 1 \in 1 .. number /\ g + 1 # 1 /\ (g + 1) - 1 = g
      BY <1>8, <2>1, <2>4
    <3> QED
      BY <1>12, <2>1, <3>1
  <2>5. ASSUME g = Frames PROVE EndOf(g) = Bytes /\ n < f + g * size
    BY <1>8, <1>9, <1>11, <1>12, <2>1, <2>5
  <2> QED
    BY <2>2, <2>3, <2>4, <2>5 DEF LaidOut
<1>14. reader.base = FrameStart(f) /\ reader.sepCnt = PerFrame(input) * size
  BY DEF size
<1> QED
  BY <1>2, <1>13, <1>14 DEF Laid, size

\* However a reader was opened.
LEMMA OpenedIsLaid ==
  ASSUME input \in Inputs, NEW kind \in AllKinds,
         NEW f \in DOMAIN input.frames, kind.shares \/ f = 1,
         reader = Opened(input, kind, f)
  PROVE  \E first, size : Laid(first, size)
<1> DEFINE r == IF kind.shares THEN Sharing(input, f) ELSE Whole(input)
<1>1. kind.shares \in BOOLEAN /\ kind.verifies \in BOOLEAN
  BY DEF AllKinds
<1>2. reader = IF kind.verifies THEN Verifying(input, r, f, kind.shares) ELSE r
  BY DEF Opened
<1>3. /\ DOMAIN r = {"base", "guard", "frames", "sepCnt", "judge"}
      /\ r.base = IF kind.shares THEN (IF f = 1 THEN 0 ELSE input.frames[f - 1]) ELSE 0
      /\ r.frames = IF kind.shares THEN Groups(input, f) ELSE Spans(input)
      /\ r.sepCnt = IF kind.shares THEN PerFrame(input) * GroupSize(input, f) ELSE PerFrame(input)
  BY <1>1 DEF Sharing, Whole
<1> HIDE DEF r
<1>4. reader.base = r.base /\ reader.frames = r.frames /\ reader.sepCnt = r.sepCnt
  BY <1>1, <1>2, <1>3 DEF Verifying
<1>5. CASE kind.shares
  <2>1. reader.base = FrameStart(f) /\ reader.frames = Groups(input, f)
        /\ reader.sepCnt = PerFrame(input) * GroupSize(input, f)
    BY <1>3, <1>4, <1>5 DEF FrameStart
  <2>2. Laid(f, GroupSize(input, f))
    BY <2>1, SharingIsLaid
  <2> QED
    BY <2>2
<1>6. CASE ~kind.shares
  <2>1. Laid(1, 1)
    BY <1>3, <1>4, <1>6, WholeIsLaid
  <2> QED
    BY <2>1
<1> QED
  BY <1>5, <1>6

--------------------------------------------------------------------------------
\* How many records of the reader's end by some place.
Ended(upto) == Cardinality(EndsIn(reader.base, upto))

\* In a file that keeps the invariant each frame of a reader but the last holds
\* as many records as the reader counts on, and ends with one; what a guard marks
\* is the end of a record.
SpacedAt(g) ==
  /\ \E f \in DOMAIN input.frames : StartOf(g) = FrameStart(f)
  /\ reader.base <= StartOf(g)
  /\ StartOf(g) \in input.ends \cup {reader.base}
  /\ Ended(StartOf(g)) = (g - 1) * reader.sepCnt
  /\ g # Frames => EndOf(g) = StartOf(g + 1)
Spaced ==
  /\ \A g \in DOMAIN reader.frames : SpacedAt(g)
  /\ EndOf(Frames) = Bytes
  /\ Ended(Bytes) <= Frames * reader.sepCnt
  /\ \A k \in DOMAIN reader.guard : reader.guard[k] \in input.ends
  /\ reader.base = Bytes => Bytes \in input.ends

\* Factors change places.
LEMMA Regrouped ==
  ASSUME NEW a \in Nat, NEW n \in Nat, NEW m \in Nat
  PROVE  (a * m) * n = a * (n * m) /\ a * m \in Nat /\ a * (n * m) \in Nat
OBVIOUS

\* A reader whose frames are groups of frames of such a file finds its slots there.
LEMMA LaidIsSpaced ==
  ASSUME input \in Inputs, OpenOK, Intact, NEW first, NEW size, Laid(first, size)
  PROVE  Spaced
<1> DEFINE n == PerFrame(input)
           N == Len(input.frames)
           base == reader.base
           m == reader.sepCnt
<1>1. /\ N \in Nat \ {0} /\ DOMAIN input.frames = 1 .. N /\ Bytes = input.frames[N] /\ Bytes \in Nat
      /\ N \in DOMAIN input.frames
  BY FileIs DEF Bytes
<1>2. /\ first \in DOMAIN input.frames /\ first \in Nat /\ size \in Nat \ {0} /\ base = FrameStart(first)
      /\ m = n * size /\ \A g \in DOMAIN reader.frames : LaidOut(first, size, g)
  BY <1>1 DEF Laid
<1>3. n \in Nat \ {0} /\ base \in Nat /\ Frames \in DOMAIN reader.frames /\ Frames \in Nat
      /\ DOMAIN reader.frames = 1 .. Frames
  BY DEF OpenOK, ReaderOK, Frames
<1>4. ASSUME NEW g \in DOMAIN reader.frames PROVE SpacedAt(g)
  <2> DEFINE a == (g - 1) * size
             f == first + a
  <2>1. g - 1 \in Nat /\ size \in Nat
    BY <1>2, <1>3
  <2>2. a \in Nat /\ a * n = (g - 1) * m
    <3> DEFINE d == g - 1
    <3> HIDE DEF d, n, m
    <3>1. d * size \in Nat /\ (d * size) * n = d * (n * size)
      BY <1>2, <1>3, <2>1, Regrouped DEF d
    <3> QED
      BY <1>2, <3>1 DEF d
  <2>3. f \in DOMAIN input.frames /\ StartOf(g) = FrameStart(f)
        /\ (g # Frames => EndOf(g) = StartOf(g + 1))
    BY <1>2 DEF LaidOut
  <2> HIDE DEF a
  <2>4. first <= f /\ f - first = a
    BY <1>2, <2>2
  <2> HIDE DEF f, n, m, base
  <2>5. FramesHold(first, f)
    BY <1>2, <2>3, <2>4, FramesHoldAll
  <2>6. /\ base <= FrameStart(f) /\ FrameStart(f) \in input.ends \cup {base}
        /\ Cardinality(EndsIn(base, FrameStart(f))) = a * n
    BY <1>2, <2>4, <2>5 DEF FramesHold, n
  <2> QED
    BY <2>2, <2>3, <2>6 DEF SpacedAt, Ended, base, m
<1>5. EndOf(Frames) = Bytes /\ N < first + Frames * size
  BY <1>2, <1>3 DEF LaidOut
<1>6. Ended(Bytes) <= Frames * m
  <2> DEFINE x == FrameStart(N)
             d == N - first
  <2>1. d \in Nat /\ first <= N
    BY <1>1, <1>2
  <2>2. x \in Nat /\ x <= Bytes
    BY <1>1, FrameStartIs
  <2>3. Cardinality(EndsIn(x, Bytes)) <= n /\ Cardinality(EndsIn(x, Bytes)) \in Nat
    BY <1>1, EvenIs
  <2>4. FramesHold(first, N)
    BY <1>1, <1>2, <2>1, FramesHoldAll
  <2>5. base <= x /\ Cardinality(EndsIn(base, x)) = d * n
    BY <1>2, <2>4 DEF FramesHold
  <2> DEFINE c == Frames * size
  <2>6. c \in Nat /\ c * n = Frames * m
    <3> HIDE DEF n, m
    <3>1. size \in Nat /\ n \in Nat
      BY <1>2, <1>3
    <3>2. (Frames * size) * n = Frames * (n * size) /\ Frames * size \in Nat
      BY <1>3, <3>1, Regrouped
    <3> QED
      BY <1>2, <3>2
  <2>7. d + 1 <= c
    <3>1. N < first + c
      BY <1>5
    <3> HIDE DEF c
    <3> QED
      BY <1>1, <1>2, <2>6, <3>1
  <2> HIDE DEF c, x, d, n, m, base
  <2>8. (d + 1) * n <= c * n /\ (d + 1) * n = d * n + n /\ d * n \in Nat /\ c * n \in Nat
    <3>1. d + 1 \in Nat /\ n \in Nat
      BY <1>3, <2>1
    <3>2. (d + 1) * n <= c * n /\ c * n \in Nat
      BY <2>6, <2>7, <3>1, Grows
    <3>3. (d + 1) * n = d * n + n /\ d * n \in Nat
      BY <2>1, <3>1, OneMore
    <3> QED
      BY <3>2, <3>3
  <2>9. Cardinality(EndsIn(base, Bytes)) = Cardinality(EndsIn(base, x)) + Cardinality(EndsIn(x, Bytes))
    BY <1>1, <1>3, <2>2, <2>5, CountSplit
  <2> DEFINE p == d * n
             q == c * n
             r == (d + 1) * n
             y == Cardinality(EndsIn(x, Bytes))
  <2>10. /\ Cardinality(EndsIn(base, Bytes)) = p + y /\ y <= n /\ y \in Nat /\ p \in Nat /\ q \in Nat
         /\ r <= q /\ r = p + n /\ q = Frames * m /\ n \in Nat
    BY <1>3, <2>3, <2>5, <2>6, <2>8, <2>9
  <2> HIDE DEF p, q, r, y
  <2>11. p + y <= q
    BY <2>10
  <2> QED
    BY <2>10, <2>11 DEF Ended, base
<1>7. ASSUME NEW k \in DOMAIN reader.guard PROVE reader.guard[k] \in input.ends
  <2>1. reader.guard = FrameEnds(input)
    <3>1. reader.guard \in {FrameEnds(input), <<>>}
      BY DEF OpenOK, ReaderOK
    <3> QED
      BY <3>1
  <2>2. /\ DOMAIN FrameEnds(input) = 1 .. N - 1
        /\ FrameEnds(input)[k] = input.frames[k] /\ k \in DOMAIN input.frames
    BY <2>1, FrameEndsAre
  <2>3. k # N
    BY <1>1, <2>1, <2>2
  <2> QED
    BY <2>1, <2>2, <2>3, EvenIs
<1>8. ASSUME base = Bytes PROVE Bytes \in input.ends
  <2>1. CASE first = 1
    <3>1. base = 0 /\ 1 \in DOMAIN input.frames /\ input.frames[1] <= 0 /\ input.frames[1] \in Nat
      BY <1>1, <1>2, <1>8, <2>1, FrameStartIs
    <3>2. n = Cardinality(EndsIn(0, input.frames[1]))
      BY PerFrameIs
    <3>3. n = 0
      BY <3>1, <3>2, CountIs
    <3> QED
      BY <1>3, <3>3
  <2>2. CASE first # 1
    <3>1. first - 1 \in DOMAIN input.frames /\ base = input.frames[first - 1]
      BY <1>2, <2>2, FrameStartIs
    <3>2. first - 1 # N
      BY <1>1, <1>2
    <3> QED
      BY <1>8, <3>1, <3>2, EvenIs
  <2> QED
    BY <2>1, <2>2
<1> QED
  BY <1>4, <1>5, <1>6, <1>7, <1>8 DEF Spaced

--------------------------------------------------------------------------------
(***************************************************************************)
(* The records a reader reads, by their numbers.                           *)
(***************************************************************************)
\* The record that ends at e is the one of its number.
LEMMA NthEnd ==
  ASSUME input \in Inputs, NEW a \in Nat, NEW b \in Nat, NEW e \in EndsIn(a, b)
  PROVE  /\ Cardinality(EndsIn(a, e)) \in 1 .. Cardinality(EndsIn(a, b))
         /\ Nth(EndsIn(a, b), Cardinality(EndsIn(a, e))) = e
<1> DEFINE S == EndsIn(a, b)
           k == Cardinality(EndsIn(a, e))
<1>1. S \in SUBSET Nat /\ (\A x \in S : x <= b) /\ \A x : x \in S <=> x \in input.ends /\ a < x /\ x <= b
  BY EndsInHas
<1>2. e \in Nat /\ e \in input.ends /\ a < e /\ e <= b
  BY <1>1
<1>3. EndsIn(a, e) = Upto(S, e)
  <2>1. \A x : x \in EndsIn(a, e) <=> x \in input.ends /\ a < x /\ x <= e
    BY <1>2, EndsInHas
  <2>2. \A x : x \in Upto(S, e) <=> x \in S /\ x <= e
    BY <1>1, UptoHas
  <2>3. ASSUME NEW x PROVE x \in EndsIn(a, e) <=> x \in Upto(S, e)
    <3>1. x \in input.ends => x \in Nat
      BY FileIs
    <3>2. x \in Nat /\ x <= e => x <= b
      BY <1>2
    <3> QED
      BY <1>1, <2>1, <2>2, <3>1, <3>2
  <2> QED
    BY <2>3
<1>4. e \in EndsIn(a, e)
  BY <1>2, EndsInHas
<1>5. k \in Nat /\ k # 0
  BY <1>2, <1>4, EndsInHas
<1>6. k <= Cardinality(S) /\ Cardinality(S) \in Nat
  BY <1>1, <1>2, <1>3, UptoIs
<1>7. k \in 1 .. Cardinality(S)
  <2> HIDE DEF k, S
  <2> QED
    BY <1>5, <1>6
<1> DEFINE x == Nth(S, k)
<1>8. x \in S /\ x \in Nat /\ Cardinality(Upto(S, x)) = k
  <2> HIDE DEF k, S
  <2>1. x \in S /\ Cardinality(Upto(S, x)) = k
    BY <1>1, <1>7, NthIs
  <2> QED
    BY <1>1, <2>1
<1>9. Cardinality(Upto(S, e)) = k
  BY <1>3
<1>10. e \in S
  BY <1>1, <1>2
<1> HIDE DEF x, k, S
<1>11. ASSUME NEW m \in Nat, NEW j \in Nat, j <= m, Cardinality(Upto(S, j)) = Cardinality(Upto(S, m))
       PROVE  Upto(S, j) = Upto(S, m)
  BY <1>1, <1>11, UptoIs
<1>12. ASSUME x < e PROVE FALSE
  <2>1. Upto(S, x) = Upto(S, e)
    <3>1. x <= e
      BY <1>2, <1>8, <1>12
    <3> QED
      BY <1>2, <1>8, <1>9, <1>11, <3>1
  <2>2. e \in Upto(S, e)
    BY <1>1, <1>2, <1>10, UptoHas
  <2>3. e <= x
    BY <1>1, <2>1, <2>2, UptoHas
  <2> QED
    BY <1>2, <1>8, <1>12, <2>3
<1>13. ASSUME e < x PROVE FALSE
  <2>1. Upto(S, e) = Upto(S, x)
    <3>1. e <= x
      BY <1>2, <1>8, <1>13
    <3> QED
      BY <1>2, <1>8, <1>9, <1>11, <3>1
  <2>2. x \in Upto(S, x)
    BY <1>1, <1>8, UptoHas
  <2>3. x <= e
    BY <1>1, <2>1, <2>2, UptoHas
  <2> QED
    BY <1>2, <1>8, <1>13, <2>3
<1>14. x = e
  BY <1>2, <1>8, <1>12, <1>13
<1> QED
  BY <1>7, <1>14 DEF x, k, S

\* The i-th of the records behind a is as many on among those behind an earlier p.
LEMMA NthBehind ==
  ASSUME input \in Inputs, NEW p \in Nat, NEW a \in Nat, NEW b \in Nat, NEW c \in Nat,
         p <= a, b <= c, NEW i \in 1 .. Cardinality(EndsIn(a, b))
  PROVE  /\ Cardinality(EndsIn(p, a)) + i \in 1 .. Cardinality(EndsIn(p, c))
         /\ Nth(EndsIn(p, c), Cardinality(EndsIn(p, a)) + i) = Nth(EndsIn(a, b), i)
<1> DEFINE S == EndsIn(a, b)
           e == Nth(S, i)
<1>1. S \in SUBSET Nat /\ (\A x \in S : x <= b) /\ \A x : x \in S <=> x \in input.ends /\ a < x /\ x <= b
  BY EndsInHas
<1>2. e \in S
  <2> HIDE DEF S
  <2> QED
    BY <1>1, NthIs DEF S
<1>3. e \in Nat /\ e \in input.ends /\ a < e /\ e <= b
  BY <1>1, <1>2
<1>4. Cardinality(EndsIn(a, e)) = i
  <2>1. Cardinality(Upto(S, e)) = i
    <3> HIDE DEF S
    <3> QED
      BY <1>1, NthIs DEF S
  <2>2. EndsIn(a, e) = Upto(S, e)
    <3> HIDE DEF S, e
    <3>1. \A x : x \in EndsIn(a, e) <=> x \in input.ends /\ a < x /\ x <= e
      BY <1>3, EndsInHas
    <3>2. \A x : x \in Upto(S, e) <=> x \in S /\ x <= e
      BY <1>1, UptoHas
    <3>3. ASSUME NEW x PROVE x \in EndsIn(a, e) <=> x \in Upto(S, e)
      <4>1. x \in input.ends => x \in Nat
        BY FileIs
      <4>2. x \in Nat /\ x <= e => x <= b
        BY <1>3
      <4> QED
        BY <1>1, <3>1, <3>2, <4>1, <4>2
    <3> QED
      BY <3>3
  <2> QED
    BY <2>1, <2>2
<1> HIDE DEF S, e
<1>5. Cardinality(EndsIn(p, e)) = Cardinality(EndsIn(p, a)) + i
  <2>1. a <= e
    BY <1>3
  <2> QED
    BY <1>3, <1>4, <2>1, CountSplit
<1>6. e \in EndsIn(p, c)
  <2>1. p < e /\ e <= c
    BY <1>3
  <2> QED
    BY <1>3, <2>1, EndsInHas
<1>7. /\ Cardinality(EndsIn(p, e)) \in 1 .. Cardinality(EndsIn(p, c))
      /\ Nth(EndsIn(p, c), Cardinality(EndsIn(p, e))) = e
  BY <1>6, NthEnd
<1> QED
  BY <1>5, <1>7 DEF e, S

\* The records behind a place where one begins are those of their numbers.
LEMMA RecordsBehind ==
  ASSUME input \in Inputs, NEW p \in Nat, NEW a \in Nat, NEW b \in Nat, NEW c \in Nat,
         p <= a, b <= c, a \in input.ends \cup {p}, NEW i \in 1 .. Cardinality(EndsIn(a, b))
  PROVE  /\ Cardinality(EndsIn(p, a)) + i \in 1 .. Cardinality(EndsIn(p, c))
         /\ Records(p, c)[Cardinality(EndsIn(p, a)) + i] = Records(a, b)[i]
<1> DEFINE S == EndsIn(a, b)
           T == EndsIn(p, c)
           n == Cardinality(S)
           t == Cardinality(T)
           q == Cardinality(EndsIn(p, a))
<1>1. q \in Nat /\ t \in Nat /\ n \in Nat
  BY CountIs
<1>2. Records(a, b) = [j \in 1 .. n |-> <<IF j = 1 THEN a ELSE Nth(S, j - 1), Nth(S, j)>>]
  BY DEF Records
<1>3. Records(p, c) = [j \in 1 .. t |-> <<IF j = 1 THEN p ELSE Nth(T, j - 1), Nth(T, j)>>]
  BY DEF Records
<1>4. ASSUME NEW j \in 1 .. n PROVE q + j \in 1 .. t /\ Nth(T, q + j) = Nth(S, j)
  BY NthBehind
<1>5. (IF q + i = 1 THEN p ELSE Nth(T, (q + i) - 1)) = (IF i = 1 THEN a ELSE Nth(S, i - 1))
  <2>1. i \in Nat /\ i >= 1
    BY <1>1
  <2>2. CASE i # 1
    <3>1. i - 1 \in 1 .. n
      <4>1. i \in 1 .. n
        OBVIOUS
      <4> HIDE DEF n
      <4> QED
        BY <1>1, <2>2, <4>1
    <3>2. Nth(T, q + (i - 1)) = Nth(S, i - 1)
      BY <1>4, <3>1
    <3> HIDE DEF q
    <3>3. q + (i - 1) = (q + i) - 1 /\ q + i # 1
      BY <1>1, <2>1, <2>2
    <3> QED
      BY <2>2, <3>2, <3>3
  <2>3. CASE i = 1
    <3>1. (q + i) - 1 = q /\ (q + i = 1 <=> q = 0)
      <4> HIDE DEF q
      <4> QED
        BY <1>1, <2>3
    <3>2. CASE a = p
      <4>1. q = 0
        BY <3>2, CountIs
      <4> QED
        BY <2>3, <3>1, <3>2, <4>1
    <3>3. CASE a # p
      <4>1. a \in input.ends /\ p < a
        BY <3>3
      <4>2. EndsIn(a, b) # {}
        <5>1. n # 0
          <6>1. i \in 1 .. n
            OBVIOUS
          <6> HIDE DEF n
          <6> QED
            BY <1>1, <6>1
        <5> QED
          BY <5>1, EndsInHas
      <4>3. a <= c
        <5>1. PICK e \in EndsIn(a, b) : TRUE
          BY <4>2
        <5>2. e \in Nat /\ a < e /\ e <= b
          BY EndsInHas
        <5> QED
          BY <5>2
      <4>4. a \in T
        BY <4>1, <4>3, EndsInHas
      <4>5. q \in 1 .. t /\ Nth(T, q) = a
        BY <4>4, NthEnd
      <4>6. q # 0
        BY <4>5
      <4> QED
        BY <2>3, <3>1, <4>5, <4>6
    <3> QED
      BY <3>2, <3>3
  <2> QED
    BY <2>2, <2>3
<1>6. q + i \in 1 .. t /\ Nth(T, q + i) = Nth(S, i)
  BY <1>4
<1> HIDE DEF S, T, q, n, t
<1>7. Records(p, c)[q + i] = <<IF q + i = 1 THEN p ELSE Nth(T, (q + i) - 1), Nth(T, q + i)>>
  BY <1>3, <1>6
<1>8. i \in 1 .. n
  BY DEF n, S
<1>9. Records(a, b)[i] = <<IF i = 1 THEN a ELSE Nth(S, i - 1), Nth(S, i)>>
  BY <1>2, <1>8
<1> QED
  BY <1>5, <1>6, <1>7, <1>9 DEF q, t, T

\* The records that may be read: those that end, and the rest behind a separator.
LEMMA PresentIs ==
  ASSUME input \in Inputs, ReaderOK
  PROVE  LET most == Ended(Bytes)
             tail == input.separated /\ Bytes \notin input.ends
         IN  /\ Present \in Seq(Nat \X Nat) /\ most \in Nat
             /\ Len(Present) = IF tail THEN most + 1 ELSE most
             /\ \A i \in 1 .. most : Present[i] = Records(reader.base, Bytes)[i]
             /\ tail => Present[most + 1] =
                          <<Max({reader.base} \cup EndsIn(reader.base, Bytes)), Bytes>>
<1> DEFINE most == Ended(Bytes)
           tail == input.separated /\ Bytes \notin input.ends
           s == Records(reader.base, Bytes)
           S == {reader.base} \cup EndsIn(reader.base, Bytes)
           t == IF tail THEN <<<<Max(S), Bytes>>>> ELSE <<>>
<1>1. Bytes \in Nat /\ reader.base \in Nat /\ reader.base <= Bytes
  BY FileIs DEF ReaderOK
<1>2. s \in Seq(Nat \X Nat) /\ Len(s) = most /\ most \in Nat
  BY <1>1, RecordsAre, CountIs DEF Ended
<1>3. Max(S) \in Nat
  <2>1. S \in SUBSET Nat /\ S # {} /\ \A x \in S : x <= Bytes
    BY <1>1, EndsInHas
  <2> HIDE DEF S
  <2> QED
    BY <1>1, <2>1, MaxIs
<1>4. Present = s \o t
  BY DEF Present
<1> HIDE DEF s, S, most
<1>5. t \in Seq(Nat \X Nat) /\ Len(t) = IF tail THEN 1 ELSE 0
  <2> DEFINE pair == <<Max(S), Bytes>>
  <2>1. pair \in Nat \X Nat
    BY <1>1, <1>3
  <2>2. t = IF tail THEN <<pair>> ELSE <<>>
    OBVIOUS
  <2> HIDE DEF pair, t, tail
  <2>3. CASE tail
    BY <2>1, <2>2, <2>3
  <2>4. CASE ~tail
    BY <2>2, <2>4
  <2> QED
    BY <2>3, <2>4
<1>6. tail => t[1] = <<Max(S), Bytes>>
  OBVIOUS
<1> HIDE DEF t, tail
<1>7. /\ s \o t \in Seq(Nat \X Nat) /\ Len(s \o t) = Len(s) + Len(t)
      /\ \A i \in 1 .. Len(s) + Len(t) : (s \o t)[i] = IF i <= Len(s) THEN s[i] ELSE t[i - Len(s)]
  BY <1>2, <1>5, ConcatProperties
<1>8. Len(Present) = IF tail THEN most + 1 ELSE most
  BY <1>2, <1>4, <1>5, <1>7
<1>9. \A i \in 1 .. most : Present[i] = s[i]
  BY <1>2, <1>4, <1>5, <1>7
<1>10. ASSUME tail PROVE Present[most + 1] = <<Max(S), Bytes>>
  <2>1. most + 1 \in 1 .. Len(s) + Len(t) /\ ~(most + 1 <= Len(s)) /\ (most + 1) - Len(s) = 1
    BY <1>2, <1>5, <1>10
  <2>2. Present[most + 1] = t[1]
    BY <1>4, <1>7, <2>1
  <2> QED
    BY <1>6, <1>10, <2>2
<1> QED
  BY <1>2, <1>4, <1>7, <1>8, <1>9, <1>10 DEF most, tail, s, S

\* Handing out what ends behind them goes on with the next.
LEMMA HandedOn ==
  ASSUME input \in Inputs, ReaderOK, NEW a \in Nat, NEW b \in Nat, NEW m \in Nat,
         reader.base <= a, a <= b, b <= Bytes, a \in input.ends \cup {reader.base},
         m <= Ended(a)
  PROVE  /\ SubSeq(Present, m + 1, Ended(a)) \o Records(a, b) = SubSeq(Present, m + 1, Ended(b))
         /\ Ended(b) = Ended(a) + Cardinality(EndsIn(a, b)) /\ Ended(b) <= Ended(Bytes)
         /\ Ended(a) \in Nat /\ Ended(b) \in Nat /\ Ended(Bytes) \in Nat
<1> DEFINE p == reader.base
           q == Ended(a)
           d == Cardinality(EndsIn(a, b))
           r == Ended(b)
           most == Ended(Bytes)
           s == Records(a, b)
           P == Present
<1>1. p \in Nat /\ Bytes \in Nat /\ q \in Nat /\ d \in Nat /\ r \in Nat /\ most \in Nat
  BY FileIs, CountIs DEF Ended, ReaderOK
<1>2. r = q + d
  BY <1>1, CountSplit DEF Ended
<1>3. r <= most
  <2> DEFINE x == Cardinality(EndsIn(b, Bytes))
  <2>1. p <= b
    BY <1>1
  <2>2. most = r + x
    BY <1>1, <2>1, CountSplit DEF Ended
  <2>3. x \in Nat
    BY <1>1, CountIs
  <2> HIDE DEF r, most, x
  <2> QED
    BY <1>1, <2>2, <2>3
<1>4. P \in Seq(Nat \X Nat) /\ Len(P) \in Nat /\ most <= Len(P)
      /\ \A i \in 1 .. most : P[i] = Records(p, Bytes)[i]
  <2>1. P \in Seq(Nat \X Nat) /\ (Len(P) = most + 1 \/ Len(P) = most)
        /\ \A i \in 1 .. most : P[i] = Records(p, Bytes)[i]
    BY PresentIs
  <2> HIDE DEF most, P
  <2> QED
    BY <1>1, <2>1
<1>5. s \in Seq(Nat \X Nat) /\ Len(s) = d
  BY RecordsAre
<1>6. ASSUME NEW i \in 1 .. d PROVE q + i \in 1 .. most /\ P[q + i] = s[i]
  <2>1. q + i \in 1 .. most /\ Records(p, Bytes)[q + i] = s[i]
    <3>1. i \in 1 .. Cardinality(EndsIn(a, b)) /\ p <= a /\ a \in input.ends \cup {p}
      OBVIOUS
    <3>2. p \in Nat /\ Bytes \in Nat
      BY <1>1
    <3> DEFINE x == Cardinality(EndsIn(p, a)) + i
    <3>3. x \in 1 .. Cardinality(EndsIn(p, Bytes)) /\ Records(p, Bytes)[x] = Records(a, b)[i]
      <4> HIDE DEF p
      <4> QED
        BY <3>1, <3>2, RecordsBehind
    <3> QED
      BY <3>3 DEF Ended
  <2> QED
    BY <1>4, <2>1
<1>7. m <= q
  OBVIOUS
<1> HIDE DEF p, q, d, r, most, s, P
<1> DEFINE t == SubSeq(P, q + 1, r)
<1>8. t = s
  <2>1. q + 1 \in Int /\ r \in Int /\ \A i \in q + 1 .. r : P[i] \in Nat \X Nat
    <3>1. ASSUME NEW i \in q + 1 .. r PROVE P[i] \in Nat \X Nat
      <4>1. i \in 1 .. Len(P)
        BY <1>1, <1>3, <1>4
      <4> QED
        BY <1>4, <4>1, ElementOfSeq
    <3> QED
      BY <1>1, <3>1
  <2>2. /\ t \in Seq(Nat \X Nat) /\ Len(t) = (IF q + 1 <= r THEN r - (q + 1) + 1 ELSE 0)
        /\ \A i \in 1 .. r - (q + 1) + 1 : t[i] = P[(q + 1) + i - 1]
    BY <2>1, SubSeqProperties
  <2>3. Len(t) = d /\ r - (q + 1) + 1 = d
    BY <1>1, <1>2, <2>2
  <2>4. ASSUME NEW i \in 1 .. d PROVE t[i] = s[i]
    <3>1. t[i] = P[(q + 1) + i - 1] /\ (q + 1) + i - 1 = q + i
      BY <1>1, <2>2, <2>3
    <3> QED
      BY <1>6, <3>1
  <2> HIDE DEF t
  <2> QED
    BY <1>5, <2>2, <2>3, <2>4, SeqEqual
<1>9. SubSeq(P, m + 1, q) \o t = SubSeq(P, m + 1, r)
  <2>1. /\ m + 1 \in 1 .. Len(P) + 1 /\ q \in (m + 1) - 1 .. Len(P) /\ r \in q .. Len(P)
    BY <1>1, <1>2, <1>3, <1>4, <1>7
  <2> QED
    BY <1>4, <2>1, ConcatAdjacentSubSeq
<1> HIDE DEF t
<1> QED
  BY <1>1, <1>2, <1>3, <1>8, <1>9 DEF p, q, d, r, most, s, P

\* Where none ends behind a any more, what is left over is the last.
LEMMA FragmentIsLast ==
  ASSUME input \in Inputs, ReaderOK, NEW a \in Nat, NEW m \in Nat,
         reader.base <= a, a <= Bytes, a \in input.ends \cup {reader.base}, m <= Ended(a),
         EndsIn(a, Bytes) = {}, input.separated, Bytes \notin input.ends
  PROVE  /\ Append(SubSeq(Present, m + 1, Ended(a)), <<a, Bytes>>) =
              SubSeq(Present, m + 1, Len(Present))
         /\ Len(Present) = Ended(a) + 1
<1> DEFINE q == Ended(a)
           P == Present
           S == {reader.base} \cup EndsIn(reader.base, Bytes)
<1>1. reader.base \in Nat /\ Bytes \in Nat /\ q \in Nat
  BY FileIs, CountIs DEF Ended, ReaderOK
<1>2. Ended(Bytes) = q
  <2>1. Cardinality(EndsIn(a, Bytes)) = 0
    BY FS_EmptySet
  <2>2. Ended(Bytes) = q + Cardinality(EndsIn(a, Bytes))
    BY <1>1, CountSplit DEF Ended
  <2> HIDE DEF q
  <2> QED
    BY <1>1, <2>1, <2>2
<1>3. P \in Seq(Nat \X Nat) /\ Len(P) = q + 1 /\ P[q + 1] = <<Max(S), Bytes>>
  BY <1>2, PresentIs
<1>4. Max(S) = a
  <2>1. S \in SUBSET Nat /\ S # {} /\ \A x \in S : x <= Bytes
    <3>1. reader.base <= Bytes
      BY <1>1
    <3> QED
      BY <1>1, <3>1, EndsInHas
  <2>2. Max(S) \in S /\ \A y \in S : y <= Max(S)
    <3> HIDE DEF S
    <3> QED
      BY <1>1, <2>1, MaxIs
  <2>3. a \in S
    <3>1. CASE a = reader.base
      BY <3>1
    <3>2. CASE a # reader.base
      <4>1. a \in input.ends /\ reader.base < a
        BY <1>1, <3>2
      <4> QED
        BY <1>1, <4>1, EndsInHas
    <3> QED
      BY <3>1, <3>2
  <2>4. ASSUME NEW x \in S PROVE x <= a
    <3>1. CASE x = reader.base
      BY <3>1
    <3>2. CASE x \in EndsIn(reader.base, Bytes)
      <4>1. x \in input.ends /\ x <= Bytes /\ x \in Nat
        BY <1>1, <3>2, EndsInHas
      <4>2. ~(a < x)
        <5>1. x \notin EndsIn(a, Bytes)
          OBVIOUS
        <5> QED
          BY <1>1, <4>1, <5>1, EndsInHas
      <4> QED
        BY <4>1, <4>2
    <3> QED
      BY <3>1, <3>2
  <2> DEFINE x == Max(S)
  <2>5. x \in Nat /\ x <= a /\ a <= x
    BY <2>1, <2>2, <2>3, <2>4
  <2> HIDE DEF x
  <2>6. x = a
    BY <2>5
  <2> QED
    BY <2>6 DEF x
<1> HIDE DEF S, q, P
<1>5. m <= q
  BY DEF q
<1>6. SubSeq(P, m + 1, q + 1) = SubSeq(P, m + 1, (q + 1) - 1) \o <<P[q + 1]>>
  <2>1. m + 1 \in 1 .. Len(P) /\ q + 1 \in m + 1 .. Len(P)
    BY <1>1, <1>3, <1>5
  <2> QED
    BY <1>3, <2>1, SubSeqRecursiveSecond
<1>7. (q + 1) - 1 = q
  BY <1>1
<1>8. SubSeq(P, m + 1, q) \in Seq(Nat \X Nat)
  <2>1. \A i \in m + 1 .. q : P[i] \in Nat \X Nat
    <3>1. ASSUME NEW i \in m + 1 .. q PROVE P[i] \in Nat \X Nat
      <4>1. i \in 1 .. Len(P)
        BY <1>1, <1>3
      <4> QED
        BY <1>3, <4>1, ElementOfSeq
    <3> QED
      BY <3>1
  <2>2. m + 1 \in Int /\ q \in Int
    BY <1>1
  <2> QED
    BY <2>1, <2>2, SubSeqProperties
<1>9. Append(SubSeq(P, m + 1, q), <<a, Bytes>>) = SubSeq(P, m + 1, q) \o <<<<a, Bytes>>>>
  BY <1>8, AppendIsConcat
<1> QED
  BY <1>3, <1>4, <1>6, <1>7, <1>9 DEF q, P

--------------------------------------------------------------------------------
(***************************************************************************)
(* What holds while such a file is read.                                   *)
(***************************************************************************)
\* What the call that is asked for may answer.
Right(answer) ==
  LET total == Len(Present)
      fragment == ~input.separated /\ Bytes \notin input.ends
      upto == Min({asked.from + asked.cnt, total})
  IN  \/ /\ asked.from < total
         /\ answer = SubSeq(Present, asked.from + 1, upto)
      \/ /\ asked.from + asked.cnt > total /\ fragment
         /\ answer = Refused
      \/ /\ asked.from >= total
         /\ answer = <<>> \/ (asked.name # "record" /\ answer = Refused)
      \/ /\ asked.name = "record" /\ asked.from = total - 1 /\ asked.again
         /\ Bytes \notin input.ends
         /\ answer = <<>>
      \/ /\ asked.name = "record"
         /\ \/ asked.from >= total
            \/ asked.from = total - 1 /\ asked.again /\ Bytes \notin input.ends
         /\ reader.judge.verifies /\ reader.judge.shares
         /\ answer = Refused

\* The walk stands where a record ends, or where it was placed.
AtEnd(placed) == At(window) \in input.ends \cup {placed}

\* The watcher of a read begins with the frame that the read was placed at, and
\* what it has not been told of is ahead of the walk, but for a last frame.
Ahead ==
  /\ reader.judge.verifies /\ ~call.lookup
  /\ Skipping(call.watch) + 1 \in DOMAIN input.frames
  /\ PlacedAt = FrameStart(Skipping(call.watch) + 1)
  /\ \A k \in DOMAIN call.watch.at :
       k >= call.watch.next => \/ At(window) < call.watch.at[k]
                               \/ Skipping(call.watch) + k = Len(input.frames)

\* A call that has not run out has passed or handed out all records up to where
\* it is; one that has, hands out what it ought to.  Only a lookup after the final
\* record was handed out may be behind what has no end.
Underway ==
  /\ DOMAIN call.watch.at = {} \/ Ahead
  /\ AtEnd(PlacedAt) \/ (call.lookup /\ asked.again /\ got = <<>>)
  /\ Ended(At(window)) + call.skip = asked.from + Len(got)
  /\ Len(got) + call.left = asked.cnt
  /\ call.skip > 0 => got = <<>>
  /\ got = SubSeq(Present, asked.from + 1, asked.from + Len(got))
RanOut ==
  /\ Right(got)
  /\ Held(window) = {} /\ window.eof /\ SpanEnd = Bytes
  /\ call.left > 0 => ~SpentUneven(window)
  /\ call.lookup => AtEnd(PlacedAt) \/ BehindTail

Reading ==
  /\ asked.from \in Nat /\ asked.cnt \in Nat /\ ~PastEnd(asked.from)
  /\ call.skipWhole = ~call.lookup
  /\ IF call.lookup THEN frame = First(asked.from) /\ asked.cnt = 1 ELSE frame = 0
  /\ Counted(window, PlacedAt)
  /\ SpanEnd = Bytes \/ asked.from + asked.cnt <= Ended(SpanEnd)
  /\ SpanEnd = Bytes /\ Bytes \notin input.ends =>
       /\ call.include = input.separated
       /\ call.reject = ~input.separated
  /\ IF call.spent THEN RanOut ELSE Underway

IntactInv ==
  Intact =>
    /\ Spaced
    /\ frame # 0 => Counted(window, StartOf(frame))
    /\ call.busy => Reading
    /\ ~call.busy /\ frame # 0 => AtEnd(StartOf(frame)) \/ BehindTail
    /\ Answered => Right(got)

\* What is known of a call in numbers.
LEMMA ReadingIs ==
  ASSUME FrameInv, IntactInv, Intact, call.busy = TRUE
  PROVE  /\ input \in Inputs /\ OpenOK /\ ReaderOK /\ CallOK /\ Buffered(window) /\ Guarded(window)
         /\ Spaced /\ Reading /\ First(asked.from) \in DOMAIN reader.frames
         /\ SpacedAt(First(asked.from)) /\ PlacedAt = StartOf(First(asked.from))
         /\ PlacedAt \in Nat /\ PlacedAt \in input.ends \cup {reader.base}
         /\ reader.base \in Nat /\ reader.base <= PlacedAt /\ PlacedAt <= At(window)
         /\ At(window) \in Nat /\ Loaded(window) \in Nat /\ SpanEnd \in Nat /\ Bytes \in Nat
         /\ At(window) <= Loaded(window) /\ Loaded(window) <= SpanEnd /\ SpanEnd <= Bytes
         /\ asked.from \in Nat /\ asked.cnt \in Nat
         /\ got \in Seq(Nat \X Nat) /\ Len(got) \in Nat
         /\ call.skip \in Nat /\ call.left \in Nat
<1>1. /\ input \in Inputs /\ OpenOK /\ ReaderOK /\ CallOK /\ Buffered(window) /\ WindowInv
      /\ Guarded(window) /\ got \in Seq(Nat \X Nat) /\ Spaced /\ Reading
  BY DEF FrameInv, WindowInv, IntactInv
<1>2. asked.from \in Nat /\ asked.cnt \in Nat /\ ~PastEnd(asked.from) /\ Counted(window, PlacedAt)
  BY <1>1 DEF Reading
<1>3. First(asked.from) \in DOMAIN reader.frames
  BY <1>1, <1>2, PlacedIs
<1>4. SpacedAt(First(asked.from)) /\ PlacedAt = StartOf(First(asked.from))
  BY <1>1, <1>3 DEF Spaced, PlacedAt, StartOf
<1>5. PlacedAt \in Nat /\ reader.base \in Nat
  BY <1>1, <1>3 DEF PlacedAt, ReaderOK
<1>6. PlacedAt \in input.ends \cup {reader.base} /\ reader.base <= PlacedAt
  BY <1>4 DEF SpacedAt
<1>7. /\ At(window) \in Nat /\ Loaded(window) \in Nat /\ window.limit \in Nat
      /\ At(window) <= Loaded(window) /\ Loaded(window) <= reader.base + window.limit
      /\ At(window) = reader.base + window.offset + window.pos
      /\ window.offset \in Nat /\ window.pos \in Nat /\ Bytes \in Nat
  BY <1>1, PlacesAre
<1>8. SpanEnd \in Nat /\ SpanEnd <= Bytes /\ SpanEnd = reader.base + window.limit
  BY <1>1, <1>5, <1>7 DEF SpanEnd, Buffered
<1>9. PlacedAt <= At(window)
  <2>1. PlacedAt <= reader.base + window.offset
    BY <1>2 DEF Counted
  <2> QED
    BY <1>5, <1>7, <2>1
<1>10. Len(got) \in Nat /\ call.skip \in Nat /\ call.left \in Nat
  BY <1>1, CallIs, LenProperties
<1> QED
  BY <1>1, <1>2, <1>3, <1>4, <1>5, <1>6, <1>7, <1>8, <1>9, <1>10

\* Nothing is refused at the end of a frame, as a record ends there.
LEMMA NoneCut ==
  ASSUME FrameInv, IntactInv, Intact, call.busy = TRUE, Held(window) = {}
  PROVE  ~CutsARecord(window)
<1>1. /\ input \in Inputs /\ ReaderOK /\ Buffered(window) /\ Spaced
      /\ At(window) \in Nat /\ Loaded(window) \in Nat /\ At(window) <= Loaded(window)
  BY ReadingIs
<1>2. SUFFICES ASSUME CutsARecord(window) PROVE FALSE
  OBVIOUS
<1> DEFINE S == {i \in DOMAIN reader.guard : i >= window.nextEnd /\ reader.guard[i] = Loaded(window)}
<1>3. S # {} /\ window.pos # window.filled
  <2>1. Cardinality(S) > 0 /\ window.pos # window.filled
    BY <1>2 DEF CutsARecord, Passed
  <2>2. S = {} => Cardinality(S) = 0
    BY FS_EmptySet
  <2> HIDE DEF S
  <2> QED
    BY <2>1, <2>2
<1>4. Loaded(window) \in input.ends
  <2>1. PICK i \in DOMAIN reader.guard : reader.guard[i] = Loaded(window)
    BY <1>3
  <2> QED
    BY <1>1, <2>1 DEF Spaced
<1>5. At(window) < Loaded(window)
  <2>1. /\ At(window) = reader.base + window.offset + window.pos
        /\ Loaded(window) = reader.base + window.offset + window.filled
        /\ reader.base \in Nat /\ window.offset \in Nat /\ window.pos \in Nat /\ window.filled \in Nat
    BY <1>1, PlacesAre
  <2> HIDE DEF S
  <2> QED
    BY <1>1, <1>3, <2>1
<1>6. Loaded(window) \in EndsIn(At(window), Loaded(window))
  BY <1>1, <1>4, <1>5, EndsInHas
<1>7. Held(window) = EndsIn(At(window), Loaded(window))
  BY DEF Held
<1> QED
  BY <1>6, <1>7

\* Nor by the judge.
LEMMA NoneUneven ==
  ASSUME FrameInv, Intact, NEW w, NEW from, NEW upto, RunOf(w, from, upto),
         DOMAIN call.watch.at = {} \/ Ahead
  PROVE  ~SawUneven(window, from, upto)
<1> SUFFICES ASSUME SawUneven(window, from, upto) PROVE FALSE
  OBVIOUS
<1> DEFINE at == call.watch.at
           m == Skipping(call.watch)
           n == Len(input.frames)
<1>1. /\ input \in Inputs /\ OpenOK /\ CallOK /\ from \in Nat /\ upto \in Nat
      /\ call.busy = TRUE /\ call.spent = FALSE /\ from = At(window)
  BY RunIs DEF RunOf
<1>2. PICK k \in Reached(upto) :
        Uneven(call.watch.first + k - 1,
               Before(window, from, k) - IF k = call.watch.next THEN call.watch.walked
                                         ELSE Before(window, from, k - 1),
               at[k] \in EndsIn(from, upto))
  BY DEF SawUneven
<1>3. k \in DOMAIN at /\ k >= call.watch.next /\ at[k] <= upto
  BY <1>1, ReachedIs
<1>4. Ahead /\ reader.judge.verifies /\ ~call.lookup
  BY <1>3 DEF Ahead
<1> DEFINE held == Cardinality(EndsIn(WatchedFrom(k), at[k]))
<1>5. /\ Uneven(call.watch.first + k - 1, held, at[k] \in EndsIn(from, upto))
      /\ call.watch.first + k - 1 = reader.judge.last <=> m + k = n
      /\ held \in Nat /\ k \in Nat \ {0}
  <2> DEFINE before == IF k = call.watch.next THEN call.watch.walked ELSE Before(window, from, k - 1)
  <2>1. /\ Before(window, from, k) - before = held /\ held \in Nat
        /\ call.watch.first + k - 1 = reader.judge.last <=> m + k = n
        /\ k \in Nat \ {0}
    BY <1>4, RunHolds
  <2>2. Uneven(call.watch.first + k - 1, Before(window, from, k) - before, at[k] \in EndsIn(from, upto))
    BY <1>2
  <2> HIDE DEF before, held, at, m, n
  <2> QED
    BY <2>1, <2>2
<1>6. Watching
  <2>1. SpanInv
    BY <1>1, <1>4 DEF FrameInv
  <2> QED
    BY <1>3, <2>1 DEF SpanInv, LastOnly
<1>7. /\ m \in 0 .. n /\ n \in Nat
      /\ \A j \in DOMAIN at : m + j \in DOMAIN input.frames /\ at[j] = input.frames[m + j]
      /\ DOMAIN at = 1 .. Len(at) /\ Len(at) \in Nat
  <2>1. at \in Seq(Nat) /\ n \in Nat
    BY <1>1, FileIs DEF CallOK, CallType, WatchType
  <2>2. DOMAIN at = 1 .. Len(at) /\ Len(at) \in Nat
    BY <2>1, LenProperties
  <2> QED
    BY <1>6, <2>1, <2>2 DEF Watching, Watches
<1> DEFINE g == m + k
<1>8. g \in DOMAIN input.frames /\ at[k] = input.frames[g] /\ at[k] \in Nat
  BY <1>1, <1>3, <1>7, FileIs
<1>9. WatchedFrom(k) = FrameStart(g)
  <2>1. CASE k = 1
    BY <1>4, <2>1 DEF WatchedFrom, Ahead
  <2>2. CASE k # 1
    <3>1. k - 1 \in DOMAIN at
      BY <1>3, <1>5, <1>7, <2>2
    <3>2. at[k - 1] = input.frames[m + (k - 1)] /\ m + (k - 1) = g - 1 /\ g # 1
      <4> HIDE DEF at, m, n
      <4> QED
        BY <1>5, <1>7, <2>2, <3>1
    <3> HIDE DEF g
    <3> QED
      BY <2>2, <3>2 DEF WatchedFrom, FrameStart
  <2> QED
    BY <2>1, <2>2
<1>10. held = HeldIn(g)
  BY <1>8, <1>9 DEF HeldIn
<1> HIDE DEF g
<1>11. /\ held <= PerFrame(input) /\ PerFrame(input) \in Nat
       /\ g # n => held = PerFrame(input) /\ at[k] \in input.ends
  BY <1>1, <1>8, <1>10, EvenIs, PerFrameIs
<1>12. g # n => from < at[k]
  BY <1>1, <1>3, <1>4 DEF Ahead, g
<1>13. g # n => at[k] \in EndsIn(from, upto)
  <2> SUFFICES ASSUME g # n PROVE at[k] \in EndsIn(from, upto)
    OBVIOUS
  <2> QED
    BY <1>1, <1>3, <1>8, <1>11, <1>12, EndsInHas
<1>14. reader.judge.perFrame = PerFrame(input)
  BY <1>1, <1>4 DEF OpenOK
<1>15. call.watch.first + k - 1 = reader.judge.last <=> g = n
  BY <1>5 DEF g
<1> HIDE DEF at, held, n
<1> QED
  BY <1>5, <1>11, <1>13, <1>14, <1>15 DEF Uneven

--------------------------------------------------------------------------------
\* What neither the file nor the reader changing leaves as it is.
LEMMA SameFrames ==
  ASSUME input' = input, reader' = reader
  PROVE  /\ Intact' <=> Intact
         /\ Spaced' <=> Spaced
         /\ Bytes' = Bytes /\ Present' = Present /\ Frames' = Frames
         /\ \A e : Ended(e)' = Ended(e)
         /\ \A g : StartOf(g)' = StartOf(g)
         /\ \A v, p : window' = v => (Counted(window, p)' <=> Counted(v, p))
         /\ \A v, p : window' = v => Held(window)' = Held(v)
         /\ \A i : First(i)' = First(i) /\ (PastEnd(i)' <=> PastEnd(i))
<1>1. Bytes' = Bytes /\ Frames' = Frames /\ Slots' = Slots /\ \A f : FrameStart(f)' = FrameStart(f)
  BY SameFile DEF Frames, Slots, FrameStart
<1>2. \A a, b : EndsIn(a, b)' = EndsIn(a, b)
  BY DEF EndsIn
<1>3. Intact' <=> Intact
  <2>1. \A f : Even(f)' <=> Even(f)
    BY SameReader
  <2> QED
    BY <2>1 DEF Intact
<1>4. \A e : Ended(e)' = Ended(e)
  BY DEF Ended, EndsIn
<1>5. \A g : StartOf(g)' = StartOf(g) /\ EndOf(g)' = EndOf(g)
  BY DEF StartOf, EndOf
<1>6. Spaced' <=> Spaced
  BY <1>1 DEF Spaced, SpacedAt, StartOf, EndOf, Ended, EndsIn
<1>7. Present' = Present
  BY <1>1 DEF Present, Records, EndsIn
<1>8. \A v, p : window' = v => (Counted(window, p)' <=> Counted(v, p))
  <2> SUFFICES ASSUME NEW v, NEW p, window' = v PROVE Counted(window, p)' <=> Counted(v, p)
    OBVIOUS
  <2>1. At(window)' = At(v) /\ Loaded(window)' = Loaded(v)
    BY SameFile
  <2>2. Taken(window)' <=> Taken(v)
    BY <1>1 DEF Taken
  <2> QED
    BY <2>1, <2>2 DEF Counted, EndsIn
<1>9. \A v, p : window' = v => Held(window)' = Held(v)
  BY DEF Held, EndsIn, At, Loaded
<1>10. \A i : First(i)' = First(i) /\ (PastEnd(i)' <=> PastEnd(i))
  BY <1>1 DEF First, PastEnd, FinalSlotIsTail, ProbeFails, LastSpan, EndsIn
<1> QED
  BY <1>1, <1>3, <1>4, <1>5, <1>6, <1>7, <1>8, <1>9, <1>10

\* Nor what the call may answer.
LEMMA SameAsked ==
  ASSUME input' = input, reader' = reader, asked' = asked
  PROVE  /\ PlacedAt' = PlacedAt
         /\ First(asked.from)' = First(asked.from)
         /\ PastEnd(asked.from)' <=> PastEnd(asked.from)
         /\ \A a : got' = a => (Right(got)' <=> Right(a))
<1>1. /\ Bytes' = Bytes /\ Present' = Present
      /\ \A i : First(i)' = First(i) /\ (PastEnd(i)' <=> PastEnd(i))
  BY SameFrames
<1>2. First(asked.from)' = First(asked.from)
  BY DEF First, Frames, Slots
<1>3. PlacedAt' = PlacedAt
  BY <1>2 DEF PlacedAt
<1>4. PastEnd(asked.from)' <=> PastEnd(asked.from)
  BY <1>1 DEF PastEnd, FinalSlotIsTail, ProbeFails, LastSpan, EndsIn, Slots, Frames
<1>5. \A a : got' = a => (Right(got)' <=> Right(a))
  BY <1>1 DEF Right
<1> QED
  BY <1>2, <1>3, <1>4, <1>5

--------------------------------------------------------------------------------
\* The call goes on.
LEMMA ReadingGoesOn ==
  ASSUME FrameInv, IntactInv, Intact, call.busy = TRUE, call'.busy = TRUE,
         input' = input, reader' = reader, asked' = asked, frame' = frame,
         window'.limit = window.limit,
         call'.skipWhole = call.skipWhole, call'.include = call.include,
         call'.reject = call.reject, call'.lookup = call.lookup,
         Counted(window, PlacedAt)',
         IF call'.spent THEN RanOut' ELSE Underway'
  PROVE  IntactInv'
<1>1. Reading /\ PlacedAt = StartOf(First(asked.from))
  BY ReadingIs
<1>2. /\ PlacedAt' = PlacedAt /\ First(asked.from)' = First(asked.from)
      /\ PastEnd(asked.from)' <=> PastEnd(asked.from)
  BY SameAsked
<1>3. (Spaced' <=> Spaced) /\ Bytes' = Bytes
  BY SameFrames
<1>4. SpanEnd' = SpanEnd /\ Ended(SpanEnd)' = Ended(SpanEnd)
  BY DEF SpanEnd, Ended, EndsIn
<1>5. frame' # 0 => Counted(window, StartOf(frame))'
  <2> SUFFICES ASSUME frame # 0 PROVE Counted(window, StartOf(frame))'
    OBVIOUS
  <2>1. StartOf(frame)' = PlacedAt'
    BY <1>1, <1>2 DEF Reading, StartOf, PlacedAt
  <2> QED
    BY <2>1 DEF Counted
<1>6. Reading'
  <2>1. /\ asked.from \in Nat /\ asked.cnt \in Nat /\ ~PastEnd(asked.from)
        /\ call.skipWhole = ~call.lookup
        /\ IF call.lookup THEN frame = First(asked.from) /\ asked.cnt = 1 ELSE frame = 0
        /\ SpanEnd = Bytes \/ asked.from + asked.cnt <= Ended(SpanEnd)
        /\ SpanEnd = Bytes /\ Bytes \notin input.ends =>
             /\ call.include = input.separated
             /\ call.reject = ~input.separated
    BY <1>1 DEF Reading
  <2>2. /\ asked'.from \in Nat /\ asked'.cnt \in Nat /\ ~PastEnd(asked.from)'
        /\ call'.skipWhole = ~call'.lookup
        /\ IF call'.lookup THEN frame' = First(asked.from)' /\ asked'.cnt = 1 ELSE frame' = 0
    BY <1>2, <2>1
  <2>3. SpanEnd' = Bytes' \/ asked'.from + asked'.cnt <= Ended(SpanEnd)'
    BY <1>3, <1>4, <2>1
  <2>4. SpanEnd' = Bytes' /\ Bytes' \notin input'.ends =>
          /\ call'.include = input'.separated
          /\ call'.reject = ~input'.separated
    BY <1>3, <1>4, <2>1
  <2> QED
    BY <2>2, <2>3, <2>4 DEF Reading
<1>7. Spaced'
  BY <1>3 DEF IntactInv
<1>8. ~Answered'
  BY DEF Answered
<1> QED
  BY <1>5, <1>6, <1>7, <1>8 DEF IntactInv

\* It is answered.
LEMMA ReadingEnds ==
  ASSUME FrameInv, IntactInv, Intact, call.busy = TRUE, NEW a, Answer(a), Right(a),
         input' = input, reader' = reader, asked' = asked, frame' = frame,
         Counted(window, PlacedAt)', call.lookup => AtEnd(PlacedAt)' \/ BehindTail'
  PROVE  IntactInv'
<1>1. Reading /\ PlacedAt = StartOf(First(asked.from)) /\ Spaced
  BY ReadingIs
<1>2. call'.busy = FALSE /\ got' = a
  BY DEF Answer, Idle
<1>3. Right(got)'
  BY <1>2, SameAsked
<1>4. frame' # 0 => Counted(window, StartOf(frame))'
  <2> SUFFICES ASSUME frame # 0 PROVE Counted(window, StartOf(frame))'
    OBVIOUS
  <2>1. First(asked.from)' = First(asked.from)
    BY SameAsked
  <2>2. StartOf(frame)' = PlacedAt'
    BY <1>1, <2>1 DEF Reading, StartOf, PlacedAt
  <2> QED
    BY <2>2 DEF Counted
<1>5. Spaced'
  BY <1>1, SameFrames
<1>6. frame' # 0 => AtEnd(StartOf(frame))' \/ BehindTail'
  <2> SUFFICES ASSUME frame # 0 PROVE AtEnd(StartOf(frame))' \/ BehindTail'
    OBVIOUS
  <2>1. call.lookup /\ First(asked.from)' = First(asked.from)
    BY <1>1, SameAsked DEF Reading
  <2>2. StartOf(frame)' = PlacedAt'
    BY <1>1, <2>1 DEF Reading, StartOf, PlacedAt
  <2> QED
    BY <2>1, <2>2 DEF AtEnd
<1> QED
  BY <1>2, <1>3, <1>4, <1>5, <1>6 DEF IntactInv

--------------------------------------------------------------------------------
\* A run of records is passed or handed out.
LEMMA TakeRunReads ==
  ASSUME FrameInv, IntactInv, TakeRun, asked' = asked
  PROVE  IntactInv'
<1>1. input' = input /\ reader' = reader /\ frame' = frame
  BY DEF TakeRun
<1> SUFFICES ASSUME Intact PROVE IntactInv'
  <2>1. Intact' <=> Intact
    BY <1>1, SameFrames
  <2> QED
    BY <2>1 DEF IntactInv
<1> DEFINE w == Walk(window, Wanted)
           from == At(window)
           upto == At(w)
           count == w.walked - window.walked
<1>2. RunOf(w, from, upto)
  BY DEF TakeRun, RunOf
<1>3. /\ input \in Inputs /\ OpenOK /\ ReaderOK /\ CallOK /\ Buffered(window)
      /\ call.busy = TRUE /\ call.spent = FALSE
      /\ from \in Nat /\ upto \in Nat /\ from < upto /\ upto <= Loaded(window)
      /\ upto \in EndsIn(from, upto) /\ upto <= SpanEnd /\ window.walked \in Nat
      /\ w.walked = window.walked + Cardinality(EndsIn(from, upto)) /\ w.limit = window.limit
  <2> HIDE DEF w, from, upto
  <2> QED
    BY <1>2, RunIs
<1>4. /\ Reading /\ PlacedAt \in Nat /\ PlacedAt \in input.ends \cup {reader.base}
      /\ reader.base \in Nat /\ reader.base <= PlacedAt /\ PlacedAt <= At(window)
      /\ SpanEnd \in Nat /\ SpanEnd <= Bytes /\ Bytes \in Nat
      /\ asked.from \in Nat /\ asked.cnt \in Nat /\ got \in Seq(Nat \X Nat)
      /\ Len(got) \in Nat /\ call.skip \in Nat /\ call.left \in Nat
  BY <1>3, ReadingIs
<1>5. Underway /\ Counted(window, PlacedAt)
  BY <1>3, <1>4 DEF Reading
<1>6. Held(window) # {} /\ Wanted \in Nat \ {0}
  BY <1>4 DEF TakeRun, Walking, Wanted
<1>7. ~SawUneven(window, from, upto)
  <2>1. DOMAIN call.watch.at = {} \/ Ahead
    BY <1>5 DEF Underway
  <2> HIDE DEF w, from, upto
  <2> QED
    BY <1>2, <2>1, NoneUneven
<1>8. /\ window' = w
      /\ call' = [call EXCEPT !.skip = IF call.skip > 0 THEN @ - count ELSE @,
                              !.left = IF call.skip > 0 THEN @ ELSE @ - count,
                              !.watch = Saw(window, from, upto)]
      /\ got' = IF call.skip > 0 THEN got ELSE got \o Records(from, upto)
  BY <1>7 DEF TakeRun
<1>9. Counted(w, PlacedAt)
  BY <1>3, <1>4, <1>5, <1>6, WalkCounts
<1>10. count \in 1 .. Wanted /\ count = Cardinality(EndsIn(from, upto))
  <2>1. count \in 1 .. Wanted
    BY <1>3, <1>6, WalkIs
  <2>2. Cardinality(EndsIn(from, upto)) \in Nat
    BY <1>3, CountIs
  <2> HIDE DEF w, from, upto
  <2> QED
    BY <1>3, <2>1, <2>2
<1> HIDE DEF w, from, upto, count
<1>11. /\ call'.skip = (IF call.skip > 0 THEN call.skip - count ELSE call.skip)
       /\ call'.left = (IF call.skip > 0 THEN call.left ELSE call.left - count)
       /\ call'.watch = Saw(window, from, upto)
       /\ call'.busy = TRUE /\ call'.spent = FALSE /\ call'.skipWhole = call.skipWhole
       /\ call'.include = call.include /\ call'.reject = call.reject
       /\ call'.lookup = call.lookup
  BY <1>3, <1>8 DEF CallOK, CallType
<1>12. from \in input.ends \cup {reader.base}
  <2>1. ~Taken(window)
    <3> SUFFICES ASSUME window.pos = window.filled PROVE FALSE
      BY DEF Taken
    <3>1. At(window) = Loaded(window) /\ At(window) \in Nat
      BY <1>3, PlacesAre
    <3>2. EndsIn(At(window), At(window)) = {}
      BY <1>3, <3>1, CountIs
    <3> QED
      BY <1>6, <3>1, <3>2 DEF Held
  <2> QED
    BY <1>4, <1>5, <2>1 DEF Counted, from
<1>13. reader.base <= from /\ from <= upto /\ upto <= Bytes
  <2>1. PlacedAt <= from
    BY <1>4 DEF from
  <2> QED
    BY <1>3, <1>4, <2>1
<1>14. /\ Ended(from) \in Nat /\ Ended(upto) \in Nat /\ Ended(upto) = Ended(from) + count
  <2>1. Ended(from) \in Nat
    BY <1>3, <1>4, CountIs DEF Ended
  <2>2. /\ Ended(upto) = Ended(from) + Cardinality(EndsIn(from, upto)) /\ Ended(upto) \in Nat
    BY <1>3, <1>12, <1>13, <2>1, HandedOn
  <2> QED
    BY <1>10, <2>1, <2>2
<1>15. ASSUME asked.from <= Ended(from)
       PROVE  SubSeq(Present, asked.from + 1, Ended(from)) \o Records(from, upto) =
                SubSeq(Present, asked.from + 1, Ended(upto))
  <2>1. PICK m \in Nat : m = asked.from
    BY <1>4
  <2>2. m <= Ended(from)
    BY <1>15, <2>1
  <2>3. /\ input \in Inputs /\ ReaderOK /\ from \in Nat /\ upto \in Nat
        /\ reader.base <= from /\ from <= upto /\ upto <= Bytes
        /\ from \in input.ends \cup {reader.base}
    BY <1>3, <1>12, <1>13
  <2>4. SubSeq(Present, m + 1, Ended(from)) \o Records(from, upto) =
          SubSeq(Present, m + 1, Ended(upto))
    BY ONLY <2>2, <2>3, HandedOn, m \in Nat
  <2> QED
    BY <2>1, <2>4
<1>16. /\ Ended(from) + call.skip = asked.from + Len(got)
       /\ Len(got) + call.left = asked.cnt
       /\ call.skip > 0 => got = <<>>
  BY <1>5 DEF Underway, from
<1>17. got = SubSeq(Present, asked.from + 1, asked.from + Len(got))
  BY <1>5 DEF Underway
<1>18. /\ Ended(upto) + call'.skip = asked.from + Len(got')
       /\ Len(got') + call'.left = asked.cnt
       /\ call'.skip > 0 => got' = <<>>
       /\ got' = SubSeq(Present, asked.from + 1, asked.from + Len(got'))
  <2>1. CASE call.skip > 0
    <3>1. Wanted = call.skip /\ call'.skip = call.skip - count /\ call'.left = call.left /\ got' = got
      BY <1>8, <1>11, <2>1 DEF Wanted
    <3>2. Ended(upto) + call'.skip = asked.from + Len(got')
      BY <1>4, <1>10, <1>14, <1>16, <3>1
    <3>3. got' = <<>> /\ Len(got') + call'.left = asked.cnt
      BY <1>16, <2>1, <3>1
    <3> QED
      BY <1>17, <3>1, <3>2, <3>3
  <2>2. CASE ~(call.skip > 0)
    <3> DEFINE s == Records(from, upto)
    <3>1. /\ call.skip = 0 /\ Wanted = call.left /\ call'.skip = 0 /\ call'.left = call.left - count
          /\ got' = got \o s
      BY <1>4, <1>8, <1>11, <2>2 DEF Wanted
    <3>2. s \in Seq(Nat \X Nat) /\ Len(s) = count
      BY <1>3, <1>10, RecordsAre
    <3> HIDE DEF s
    <3>3. Len(got') = Len(got) + count
      BY <1>4, <1>10, <3>1, <3>2
    <3>4. /\ Ended(from) = asked.from + Len(got) /\ asked.from <= Ended(from)
          /\ Ended(upto) = asked.from + Len(got')
      BY <1>4, <1>10, <1>14, <1>16, <3>1, <3>3
    <3>5. got' = SubSeq(Present, asked.from + 1, Ended(upto))
      BY <1>15, <1>17, <3>1, <3>4 DEF s
    <3>6. Len(got') + call'.left = asked.cnt
      BY <1>4, <1>10, <1>16, <3>1, <3>3
    <3>7. Ended(upto) + call'.skip = asked.from + Len(got') /\ ~(call'.skip > 0)
      BY <1>14, <3>1, <3>4
    <3> QED
      BY <3>4, <3>5, <3>6, <3>7
  <2> QED
    BY <2>1, <2>2
<1>19. At(window)' = upto
  BY <1>8, SameFile, <1>1 DEF upto
<1>20. DOMAIN call'.watch.at = {} \/ Ahead'
  <2>1. call'.watch.at = call.watch.at /\ call'.watch.first = call.watch.first
    BY <1>3, <1>11, SawIs
  <2>2. ASSUME Ahead PROVE Ahead'
    <3>1. /\ reader.judge.verifies /\ ~call.lookup
          /\ Skipping(call.watch) + 1 \in DOMAIN input.frames
          /\ PlacedAt = FrameStart(Skipping(call.watch) + 1)
      BY <2>2 DEF Ahead
    <3>2. \A k \in DOMAIN call.watch.at : k >= call'.watch.next => upto < call.watch.at[k]
      <4>1. /\ Saw(window, from, upto).next \in Nat
            /\ \A k \in DOMAIN call.watch.at :
                 IF k < Saw(window, from, upto).next THEN call.watch.at[k] <= upto
                 ELSE upto < call.watch.at[k]
        BY <1>2, <1>7, <2>1, <3>1, RunGoesOn, <1>11 DEF WatchType
      <4>2. DOMAIN call.watch.at \subseteq Nat
        BY <1>3 DEF CallOK, CallType, WatchType
      <4> QED
        BY <1>11, <4>1, <4>2
    <3>3. Skipping(call.watch)' = Skipping(call.watch)
      BY <1>1, <2>1 DEF Skipping
    <3>4. PlacedAt' = PlacedAt
      BY <1>1, SameAsked
    <3>5. FrameStart(Skipping(call.watch) + 1)' = FrameStart(Skipping(call.watch) + 1)
      BY <1>1, <3>3 DEF FrameStart
    <3> QED
      BY <1>1, <1>11, <1>19, <2>1, <3>1, <3>2, <3>3, <3>4, <3>5 DEF Ahead
  <2> QED
    BY <1>5, <2>1, <2>2 DEF Underway
<1>21. Underway'
  <2>1. Ended(At(window))' = Ended(upto) /\ Present' = Present
    BY <1>1, <1>19, SameFrames DEF Ended, EndsIn
  <2>2. At(window)' \in input'.ends
    BY <1>1, <1>3, <1>19 DEF EndsIn
  <2> QED
    BY <1>20, <1>18, <2>1, <2>2 DEF Underway, AtEnd
<1>22. Counted(window, PlacedAt)'
  <2>1. PlacedAt' = PlacedAt
    BY <1>1, SameAsked
  <2>2. Counted(window, PlacedAt)' <=> Counted(w, PlacedAt)
    <3>1. At(window)' = At(w) /\ Loaded(window)' = Loaded(w) /\ Bytes' = Bytes
      BY <1>1, <1>8, SameFile
    <3>2. Taken(window)' <=> Taken(w)
      BY <1>1, <1>8, <3>1 DEF Taken
    <3> QED
      BY <1>1, <1>8, <2>1, <3>1, <3>2 DEF Counted, EndsIn
  <2> QED
    BY <1>9, <2>2
<1>23. window'.limit = window.limit
  BY <1>3, <1>8
<1> QED
  BY <1>1, <1>3, <1>11, <1>21, <1>22, <1>23, ReadingGoesOn

\* More is read, and no record is found to be cut.
LEMMA ReadMoreReads ==
  ASSUME FrameInv, IntactInv, ReadMore, asked' = asked
  PROVE  IntactInv'
<1>1. input' = input /\ reader' = reader /\ frame' = frame /\ Walking /\ Held(window) = {}
  BY DEF ReadMore
<1> SUFFICES ASSUME Intact PROVE IntactInv'
  <2>1. Intact' <=> Intact
    BY <1>1, SameFrames
  <2> QED
    BY <2>1 DEF IntactInv
<1>2. WindowInv /\ call.busy = TRUE /\ ~call.spent
  BY <1>1, CallIs DEF FrameInv, Walking
<1>3. Reading /\ PlacedAt \in Nat
  BY <1>2, ReadingIs
<1>4. ~CutsARecord(window)
  BY <1>1, <1>2, NoneCut
<1>5. call' = call /\ got' = got
  BY <1>4 DEF ReadMore
<1>6. At(window)' = At(window) /\ window'.limit = window.limit
  BY <1>2, <1>4, ReadMoreKeeps
<1>7. Counted(window, PlacedAt)'
  <2> DEFINE p == PlacedAt
  <2>1. p \in Nat /\ Counted(window, p)
    BY <1>3 DEF Reading
  <2>2. PlacedAt' = p
    BY <1>1, SameAsked
  <2> HIDE DEF p
  <2>3. PICK q \in Nat : q = p
    BY <2>1
  <2>4. Counted(window, q)'
    BY <1>2, <1>4, <2>1, <2>3, ReadMoreCounts
  <2> QED
    BY <2>2, <2>3, <2>4 DEF Counted
<1>8. Underway'
  <2>1. Underway
    BY <1>2, <1>3 DEF Reading
  <2>2. PlacedAt' = PlacedAt /\ Present' = Present
    BY <1>1, SameAsked, SameFrames
  <2>3. Ended(At(window))' = Ended(At(window))
    BY <1>1, <1>6 DEF Ended, EndsIn
  <2>4. Ahead => Ahead'
    <3>1. Skipping(call.watch)' = Skipping(call.watch)
      BY <1>1, <1>5 DEF Skipping
    <3>2. FrameStart(Skipping(call.watch) + 1)' = FrameStart(Skipping(call.watch) + 1)
      BY <1>1, <3>1 DEF FrameStart
    <3> QED
      BY <1>1, <1>5, <1>6, <2>2, <3>1, <3>2 DEF Ahead
  <2> QED
    BY <1>1, <1>5, <1>6, <2>1, <2>2, <2>3, <2>4 DEF Underway, AtEnd
<1> QED
  BY <1>1, <1>2, <1>5, <1>6, <1>7, <1>8, ReadingGoesOn

--------------------------------------------------------------------------------
\* Where all of the file has been read, the watcher is told of nothing uneven.
LEMMA SpentEven ==
  ASSUME FrameInv, IntactInv, Intact, call.busy = TRUE, ~call.spent,
         Held(window) = {}, Loaded(window) = Bytes, NEW v, v.walked = window.walked
  PROVE  ~SpentUneven(v)
<1> SUFFICES ASSUME SpentUneven(v) PROVE FALSE
  OBVIOUS
<1> DEFINE at == call.watch.at
           m == Skipping(call.watch)
           n == Len(input.frames)
           k == call.watch.next
           g == m + k
           held == window.walked - call.watch.walked
<1>1. /\ input \in Inputs /\ OpenOK /\ ReaderOK /\ CallOK /\ Buffered(window)
      /\ PlacedAt \in Nat /\ PlacedAt <= At(window)
      /\ At(window) \in Nat /\ Loaded(window) \in Nat /\ Bytes \in Nat
      /\ At(window) <= Loaded(window)
  BY ReadingIs
<1>2. Underway
  BY ReadingIs DEF Reading
<1>3. /\ k <= Len(at)
      /\ \/ held # reader.judge.perFrame
              /\ ~(call.watch.first + k - 1 = reader.judge.last /\ held < reader.judge.perFrame)
         \/ call.watch.first + k - 1 # reader.judge.last
  BY DEF SpentUneven, Uneven
<1>4. /\ at \in Seq(Nat) /\ k \in Nat \ {0} /\ Len(at) \in Nat /\ DOMAIN at = 1 .. Len(at)
      /\ call.watch.first \in Int /\ call.watch.walked \in Nat
  <2>1. at \in Seq(Nat) /\ k \in Nat \ {0} /\ call.watch.first \in Int /\ call.watch.walked \in Nat
    BY <1>1 DEF CallOK, CallType, WatchType
  <2> QED
    BY <2>1, LenProperties
<1>5. k \in DOMAIN at
  BY <1>3, <1>4
<1>6. Ahead
  BY <1>2, <1>5 DEF Underway
<1>7. Watching /\ Progress
  <2>1. SpanInv
    BY <1>6 DEF FrameInv, Ahead
  <2> QED
    BY <1>5, <2>1 DEF SpanInv, LastOnly
<1>8. /\ m \in 0 .. n /\ n \in Nat
      /\ \A j \in DOMAIN at : m + j \in DOMAIN input.frames /\ at[j] = input.frames[m + j]
                              /\ PlacedAt <= at[j]
  BY <1>1, <1>7, FileIs DEF Watching, Watches
<1>9. g \in DOMAIN input.frames /\ at[k] = input.frames[g] /\ g \in Nat
  <2>1. m + k \in DOMAIN input.frames /\ at[k] = input.frames[m + k]
    BY <1>5, <1>8
  <2>2. DOMAIN input.frames \subseteq Nat
    BY <1>1, FileIs
  <2> HIDE DEF m, k, at
  <2> QED
    BY <2>1, <2>2
<1>10. g = n
  <2>0. SUFFICES ASSUME g # n PROVE FALSE
    OBVIOUS
  <2>1. at[k] \in input.ends /\ at[k] \in Nat /\ at[k] <= Bytes
    BY <1>1, <1>9, <2>0, EvenIs, FrameStartIs
  <2>2. At(window) < at[k]
    <3>1. k >= call.watch.next
      BY <1>4
    <3> QED
      BY <1>5, <1>6, <2>0, <3>1 DEF Ahead
  <2>3. at[k] \in EndsIn(At(window), Loaded(window))
    BY <1>1, <2>1, <2>2, EndsInHas
  <2> QED
    BY <2>3 DEF Held
<1>11. call.watch.first + k - 1 = reader.judge.last
  <2>1. reader.judge.last = n - reader.judge.first /\ reader.judge.first \in DOMAIN input.frames
    BY <1>1, <1>6 DEF Ahead, OpenOK
  <2>2. reader.judge.first \in Nat
    <3>1. DOMAIN input.frames \subseteq Nat
      BY <1>1, FileIs
    <3> QED
      BY <2>1, <3>1
  <2>3. m = call.watch.first + reader.judge.first - 1
    BY DEF Skipping
  <2>4. m + k = n /\ n \in Nat
    BY <1>8, <1>10
  <2>5. k \in Nat /\ call.watch.first \in Int /\ reader.judge.last = n - reader.judge.first
    BY <1>4, <2>1
  <2> HIDE DEF m, n, k
  <2> QED
    BY <2>2, <2>3, <2>4, <2>5
<1> DEFINE x == FrameStart(n)
<1>12. /\ x \in Nat /\ x <= At(window) /\ held = Cardinality(EndsIn(x, At(window)))
  <2>1. window.walked = Cardinality(EndsIn(PlacedAt, At(window)))
    BY <1>7 DEF Progress
  <2>2. call.watch.walked = IF k = 1 THEN 0 ELSE Cardinality(EndsIn(PlacedAt, at[k - 1]))
    BY <1>7 DEF Progress
  <2>3. Cardinality(EndsIn(PlacedAt, At(window))) \in Nat
    BY <1>1, CountIs
  <2>4. CASE k = 1
    <3>1. PlacedAt = x
      BY <1>6, <1>10, <2>4 DEF Ahead
    <3> QED
      BY <1>1, <2>1, <2>2, <2>3, <2>4, <3>1
  <2>5. CASE k # 1
    <3> DEFINE y == at[k - 1]
    <3>1. k - 1 \in DOMAIN at /\ k - 1 < k
      BY <1>4, <1>5, <2>5
    <3>2. y = input.frames[m + (k - 1)] /\ m + (k - 1) = n - 1 /\ n # 1 /\ PlacedAt <= y
      <4>1. m \in Nat
        BY <1>8
      <4> HIDE DEF m, n, k
      <4>2. m + (k - 1) = n - 1
        BY <1>4, <1>8, <1>10, <4>1
      <4>3. n # 1
        BY <1>4, <1>10, <2>5, <4>1, <1>8
      <4> QED
        BY <1>8, <3>1, <4>2, <4>3
    <3>3. y = x
      BY <3>2 DEF FrameStart
    <3>4. y <= At(window)
      BY <1>7, <3>1 DEF Progress
    <3>5. y \in Nat
      <4> HIDE DEF k, at
      <4>1. at \in Seq(Nat) /\ k - 1 \in DOMAIN at
        BY <1>4, <3>1
      <4> QED
        BY ONLY <4>1, ElementOfSeq DEF y
    <3> HIDE DEF y, x, k, at
    <3>6. Cardinality(EndsIn(PlacedAt, At(window))) =
            Cardinality(EndsIn(PlacedAt, y)) + Cardinality(EndsIn(y, At(window)))
      BY <1>1, <3>2, <3>4, <3>5, CountSplit
    <3>7. Cardinality(EndsIn(PlacedAt, y)) \in Nat /\ Cardinality(EndsIn(y, At(window))) \in Nat
      BY <1>1, <3>5, CountIs
    <3>8. call.watch.walked = Cardinality(EndsIn(PlacedAt, y))
      BY <2>2, <2>5 DEF y
    <3>9. held = Cardinality(EndsIn(y, At(window)))
      BY <2>1, <3>6, <3>7, <3>8
    <3> QED
      BY <3>3, <3>4, <3>5, <3>9
  <2> QED
    BY <2>4, <2>5
<1>13. held <= PerFrame(input) /\ PerFrame(input) \in Nat /\ held \in Nat
  <2>1. n \in DOMAIN input.frames /\ input.frames[n] = Bytes
    BY <1>9, <1>10 DEF Bytes
  <2>2. HeldIn(n) <= PerFrame(input) /\ HeldIn(n) = Cardinality(EndsIn(x, Bytes)) /\ HeldIn(n) \in Nat
    BY <1>1, <2>1, EvenIs
  <2>3. PerFrame(input) \in Nat
    BY <1>1, PerFrameIs
  <2> HIDE DEF x, n, held
  <2>4. /\ Cardinality(EndsIn(x, Bytes)) =
             Cardinality(EndsIn(x, At(window))) + Cardinality(EndsIn(At(window), Bytes))
        /\ Cardinality(EndsIn(x, At(window))) \in Nat /\ Cardinality(EndsIn(At(window), Bytes)) \in Nat
    BY <1>1, <1>12, CountSplit, CountIs
  <2> QED
    BY <1>12, <2>2, <2>3, <2>4
<1>14. reader.judge.perFrame = PerFrame(input)
  BY <1>1, <1>6 DEF OpenOK, Ahead
<1> HIDE DEF held
<1> QED
  BY <1>3, <1>11, <1>13, <1>14

--------------------------------------------------------------------------------
\* How many records there are.
LEMMA TotalIs ==
  ASSUME input \in Inputs, ReaderOK
  PROVE  /\ Len(Present) \in Nat /\ Ended(Bytes) \in Nat
         /\ input.separated /\ Bytes \notin input.ends => Len(Present) = Ended(Bytes) + 1
         /\ ~(input.separated /\ Bytes \notin input.ends) => Len(Present) = Ended(Bytes)
         /\ Len(Present) <= Ended(Bytes) + 1
<1>1. /\ Ended(Bytes) \in Nat
      /\ Len(Present) = IF input.separated /\ Bytes \notin input.ends THEN Ended(Bytes) + 1
                        ELSE Ended(Bytes)
  BY PresentIs
<1> QED
  BY <1>1

\* Only a walk to the end of the file runs out.
LEMMA RunsOutAtTheEnd ==
  ASSUME FrameInv, IntactInv, Intact, Walking, Held(window) = {}, window.eof
  PROVE  /\ call.busy = TRUE /\ ~call.spent /\ Underway /\ Reading
         /\ SpanEnd = Bytes /\ Loaded(window) = Bytes
         /\ Ended(At(window)) = Ended(Bytes) /\ Ended(Bytes) \in Nat
         /\ asked.from + asked.cnt > Ended(Bytes)
         /\ \A v : v.walked = window.walked => ~SpentUneven(v)
<1>1. call.busy = TRUE /\ ~call.spent
  BY CallIs DEF Walking, FrameInv
<1>2. /\ input \in Inputs /\ ReaderOK /\ Buffered(window) /\ Reading
      /\ reader.base \in Nat /\ reader.base <= PlacedAt /\ PlacedAt <= At(window) /\ PlacedAt \in Nat
      /\ At(window) \in Nat /\ Loaded(window) \in Nat /\ SpanEnd \in Nat
      /\ At(window) <= Loaded(window)
      /\ asked.from \in Nat /\ asked.cnt \in Nat /\ Len(got) \in Nat
      /\ call.skip \in Nat /\ call.left \in Nat
  BY <1>1, ReadingIs
<1>3. Underway /\ Counted(window, PlacedAt)
  BY <1>1, <1>2 DEF Reading
<1>4. Loaded(window) = SpanEnd
  BY <1>3 DEF Counted, SpanEnd
<1>5. Ended(At(window)) = Ended(SpanEnd) /\ Ended(SpanEnd) \in Nat
  <2> DEFINE p == reader.base
             a == At(window)
             b == SpanEnd
  <2>1. p \in Nat /\ a \in Nat /\ b \in Nat /\ p <= a /\ a <= b /\ input \in Inputs
    BY <1>2, <1>4
  <2>2. Cardinality(EndsIn(a, b)) = 0
    <3>1. EndsIn(a, b) = {}
      BY <1>4 DEF Held
    <3> QED
      BY <3>1, FS_EmptySet
  <2> HIDE DEF p, a, b
  <2>3. /\ Cardinality(EndsIn(p, b)) = Cardinality(EndsIn(p, a)) + Cardinality(EndsIn(a, b))
        /\ Cardinality(EndsIn(p, a)) \in Nat
    BY ONLY <2>1, CountSplit, CountIs
  <2>4. Cardinality(EndsIn(p, a)) = Cardinality(EndsIn(p, b)) /\ Cardinality(EndsIn(p, b)) \in Nat
    BY <2>2, <2>3
  <2> QED
    BY <2>4 DEF Ended, p, a, b
<1>6. asked.from + asked.cnt > Ended(SpanEnd)
  <2>1. /\ Ended(At(window)) + call.skip = asked.from + Len(got)
        /\ Len(got) + call.left = asked.cnt
    BY <1>3 DEF Underway
  <2>2. call.skip + call.left > 0
    BY <1>2 DEF Walking, Wanted
  <2>3. Len(got) \in Nat /\ call.skip \in Nat /\ call.left \in Nat /\ asked.from \in Nat
    BY <1>2
  <2>4. asked.from + asked.cnt = Ended(At(window)) + (call.skip + call.left)
    BY <1>5, <2>1, <2>3
  <2>5. Ended(At(window)) + (call.skip + call.left) > Ended(SpanEnd)
    BY <1>5, <2>2, <2>3
  <2> QED
    BY <2>4, <2>5
<1>7. SpanEnd = Bytes
  <2>1. SpanEnd = Bytes \/ asked.from + asked.cnt <= Ended(SpanEnd)
    BY <1>2 DEF Reading
  <2>2. ~(asked.from + asked.cnt <= Ended(SpanEnd))
    BY <1>2, <1>5, <1>6
  <2> QED
    BY <2>1, <2>2
<1>8. \A v : v.walked = window.walked => ~SpentUneven(v)
  BY <1>1, <1>4, <1>7, SpentEven
<1> QED
  BY <1>1, <1>2, <1>3, <1>4, <1>5, <1>6, <1>7, <1>8

\* Among the records to pass.
LEMMA RunOutSkippingReads ==
  ASSUME FrameInv, IntactInv, RunOutSkipping, asked' = asked
  PROVE  IntactInv'
<1>1. /\ input' = input /\ reader' = reader /\ frame' = frame /\ window' = window
      /\ Walking /\ Held(window) = {} /\ window.eof /\ call.skip > 0
  BY DEF RunOutSkipping
<1> SUFFICES ASSUME Intact PROVE IntactInv'
  <2>1. Intact' <=> Intact
    BY <1>1, SameFrames
  <2> QED
    BY <2>1 DEF IntactInv
<1>2. /\ call.busy = TRUE /\ ~call.spent /\ Underway /\ Reading
      /\ SpanEnd = Bytes /\ Ended(At(window)) = Ended(Bytes) /\ Ended(Bytes) \in Nat
      /\ ~SpentUneven(window)
  BY <1>1, RunsOutAtTheEnd
<1>3. /\ input \in Inputs /\ ReaderOK /\ CallOK /\ asked.from \in Nat /\ Len(got) \in Nat
      /\ call.skip \in Nat /\ got \in Seq(Nat \X Nat)
  BY <1>2, ReadingIs
<1>4. got = <<>> /\ asked.from >= Len(Present)
  <2>1. got = <<>> /\ Ended(At(window)) + call.skip = asked.from + Len(got)
    BY <1>1, <1>2 DEF Underway
  <2>2. Len(got) = 0
    BY <2>1
  <2>3. Len(Present) <= Ended(Bytes) + 1 /\ Len(Present) \in Nat
    BY <1>3, TotalIs
  <2> QED
    BY <1>1, <1>2, <1>3, <2>1, <2>2, <2>3
<1>5. Counted(window, PlacedAt)'
  <2>1. PlacedAt' = PlacedAt
    BY <1>1, SameAsked
  <2> QED
    BY <1>1, <1>2, <2>1 DEF Reading, Counted, Taken, At, Loaded, EndsIn, Bytes
<1>6. CASE call.skipWhole
  <2>1. Answer(Refused)
    BY <1>6 DEF RunOutSkipping
  <2>2. asked.name # "record" /\ ~call.lookup
    BY <1>2, <1>6 DEF Reading, FrameInv
  <2>3. Right(Refused)
    BY <1>4, <2>2 DEF Right
  <2> QED
    BY <1>1, <1>2, <1>5, <2>1, <2>2, <2>3, ReadingEnds
<1>7. CASE ~call.skipWhole
  <2>1. call' = [call EXCEPT !.skip = 0, !.spent = TRUE] /\ got' = got
    BY <1>2, <1>7 DEF RunOutSkipping
  <2>2. /\ call'.busy = TRUE /\ call'.skipWhole = call.skipWhole /\ call'.include = call.include
        /\ call'.reject = call.reject /\ call'.lookup = call.lookup
        /\ call'.spent = TRUE /\ call'.left = call.left /\ call'.watch = call.watch
    BY <1>2, <1>3, <2>1 DEF CallOK, CallType
  <2>3. Right(got)'
    <3>1. Right(got)
      BY <1>4 DEF Right
    <3> QED
      BY <1>1, <2>1, <3>1, SameAsked
  <2>4. Held(window)' = {} /\ SpanEnd' = Bytes'
    BY <1>1, <1>2 DEF Held, At, Loaded, EndsIn, SpanEnd, Bytes
  <2>5. ~SpentUneven(window)'
    BY <1>1, <1>2, <2>2 DEF SpentUneven, Uneven
  <2>6. AtEnd(PlacedAt)' \/ BehindTail'
    <3>1. PlacedAt' = PlacedAt /\ At(window)' = At(window)
      BY <1>1, SameAsked DEF At
    <3>2. AtEnd(PlacedAt) \/ (asked.again /\ got = <<>>)
      BY <1>2 DEF Underway
    <3> QED
      BY <1>1, <2>1, <3>1, <3>2 DEF AtEnd, BehindTail
  <2>7. RanOut'
    BY <1>1, <2>3, <2>4, <2>5, <2>6 DEF RanOut
  <2> QED
    BY <1>1, <1>2, <1>5, <2>2, <2>7, ReadingGoesOn
<1> QED
  BY <1>6, <1>7

--------------------------------------------------------------------------------
\* Where something is left over, the file does not end with the end of a record.
LEMMA LeftOver ==
  ASSUME FrameInv, IntactInv, Intact, Walking, Held(window) = {}, window.eof
  PROVE  /\ window.pos < window.filled =>
              /\ Bytes \notin input.ends /\ At(window) \in input.ends \cup {reader.base}
              /\ call.include = input.separated /\ call.reject = ~input.separated
         /\ ~(window.pos < window.filled) => At(window) = Bytes
<1>1. /\ call.busy = TRUE /\ Reading /\ Loaded(window) = Bytes /\ SpanEnd = Bytes
  BY RunsOutAtTheEnd
<1>2. /\ input \in Inputs /\ ReaderOK /\ Buffered(window) /\ PlacedAt \in input.ends \cup {reader.base}
      /\ At(window) \in Nat /\ Bytes \in Nat
  BY <1>1, ReadingIs
<1>3. /\ At(window) = reader.base + window.offset + window.pos
      /\ Loaded(window) = reader.base + window.offset + window.filled
      /\ reader.base \in Nat /\ window.offset \in Nat /\ window.pos \in Nat /\ window.filled \in Nat
  BY <1>2, PlacesAre
<1>4. window.pos <= window.filled
  BY <1>2 DEF Buffered
<1>5. ASSUME window.pos < window.filled
      PROVE  /\ Bytes \notin input.ends /\ At(window) \in input.ends \cup {reader.base}
             /\ call.include = input.separated /\ call.reject = ~input.separated
  <2>1. At(window) < Bytes
    BY <1>1, <1>3, <1>5
  <2>2. Bytes \notin input.ends
    <3> SUFFICES ASSUME Bytes \in input.ends PROVE FALSE
      OBVIOUS
    <3>1. Bytes \in EndsIn(At(window), Bytes)
      <4>1. Bytes <= Bytes
        BY <1>2
      <4> QED
        BY <2>1, <4>1 DEF EndsIn
    <3> QED
      BY <1>1, <3>1 DEF Held
  <2>3. At(window) \in input.ends \cup {PlacedAt}
    <3>1. ~(window.pos = window.filled)
      BY <1>3, <1>5
    <3> QED
      BY <1>1, <3>1 DEF Reading, Counted, Taken
  <2> QED
    BY <1>1, <1>2, <2>2, <2>3 DEF Reading
<1>6. ~(window.pos < window.filled) => At(window) = Bytes
  BY <1>1, <1>3, <1>4
<1> QED
  BY <1>5, <1>6

\* Among the records to hand out: a fragment is refused,
LEMMA FragmentRefused ==
  ASSUME FrameInv, IntactInv, Intact, RunOutHanding, asked' = asked,
         window.pos < window.filled, call.reject
  PROVE  IntactInv'
<1>1. /\ input' = input /\ reader' = reader /\ frame' = frame /\ window' = window
      /\ Answer(Refused) /\ Walking /\ Held(window) = {} /\ window.eof
  BY DEF RunOutHanding
<1>2. /\ call.busy = TRUE /\ Reading /\ Ended(Bytes) \in Nat
      /\ asked.from + asked.cnt > Ended(Bytes)
      /\ Bytes \notin input.ends /\ call.reject = ~input.separated
  BY <1>1, RunsOutAtTheEnd, LeftOver
<1>3. /\ input \in Inputs /\ ReaderOK
  BY <1>2, ReadingIs
<1>4. ~input.separated /\ Len(Present) = Ended(Bytes)
  BY <1>2, <1>3, TotalIs
<1>5. Right(Refused)
  BY <1>2, <1>4 DEF Right
<1>6. Counted(window, PlacedAt)'
  <2>1. PlacedAt' = PlacedAt
    BY <1>1, SameAsked
  <2> QED
    BY <1>1, <1>2, <2>1 DEF Reading, Counted, Taken, At, Loaded, EndsIn, Bytes
<1>7. AtEnd(PlacedAt)' \/ BehindTail'
  <2>1. PlacedAt' = PlacedAt /\ At(window)' = At(window) /\ got' = Refused
    BY <1>1, SameAsked DEF At, Answer
  <2>2. AtEnd(PlacedAt) \/ (asked.again /\ got = <<>>)
    BY <1>1, RunsOutAtTheEnd DEF Underway
  <2> QED
    BY <1>1, <2>1, <2>2 DEF AtEnd, BehindTail
<1> QED
  BY <1>1, <1>2, <1>5, <1>6, <1>7, ReadingEnds

\* or is the last record,
LEMMA FragmentHandedOut ==
  ASSUME FrameInv, IntactInv, Intact, RunOutHanding, asked' = asked,
         window.pos < window.filled, ~call.reject, call.include
  PROVE  IntactInv'
<1> DEFINE a == At(window)
           w == [window EXCEPT !.pos = window.filled]
<1>1. /\ input' = input /\ reader' = reader /\ frame' = frame /\ window' = w
      /\ got' = Append(got, <<a, Loaded(window)>>)
      /\ call' = [call EXCEPT !.left = @ - 1, !.spent = TRUE]
      /\ Walking /\ Held(window) = {} /\ window.eof /\ call.skip = 0
  BY DEF RunOutHanding
<1>2. /\ call.busy = TRUE /\ Reading /\ Underway /\ Ended(Bytes) \in Nat /\ Ended(a) = Ended(Bytes)
      /\ asked.from + asked.cnt > Ended(Bytes) /\ SpanEnd = Bytes /\ Loaded(window) = Bytes
      /\ Bytes \notin input.ends /\ a \in input.ends \cup {reader.base}
      /\ call.include = input.separated
  BY <1>1, RunsOutAtTheEnd, LeftOver
<1>3. \A v : v.walked = window.walked => ~SpentUneven(v)
  BY <1>1, RunsOutAtTheEnd
<1>4. /\ input \in Inputs /\ ReaderOK /\ CallOK /\ Buffered(window)
      /\ PlacedAt \in Nat /\ reader.base \in Nat /\ reader.base <= PlacedAt /\ PlacedAt <= a
      /\ a \in Nat /\ Bytes \in Nat /\ a <= Loaded(window)
      /\ asked.from \in Nat /\ asked.cnt \in Nat /\ Len(got) \in Nat
  BY <1>2, ReadingIs
<1>5. input.separated
  BY <1>2, <1>4, FileIs
<1>6. /\ w.pos = window.filled /\ w.filled = window.filled /\ w.offset = window.offset
      /\ w.limit = window.limit /\ w.walked = window.walked /\ w.front = window.front
      /\ w.eof = window.eof
  BY <1>4 DEF Buffered, WindowType
<1>7. At(w) = Bytes /\ Loaded(w) = Bytes
  BY <1>2, <1>6 DEF At, Loaded
<1> HIDE DEF w, a
<1>8. EndsIn(a, Bytes) = {} /\ Cardinality(EndsIn(a, Bytes)) = 0
  <2>1. EndsIn(a, Bytes) = {}
    BY <1>1, <1>2 DEF Held, a
  <2> QED
    BY <2>1, FS_EmptySet
<1>9. /\ Ended(a) + call.skip = asked.from + Len(got)
      /\ got = SubSeq(Present, asked.from + 1, asked.from + Len(got))
  BY <1>2 DEF Underway, a
<1>10. Ended(a) = asked.from + Len(got) /\ asked.from <= Ended(a)
  <2>1. Ended(a) \in Nat
    BY <1>2
  <2>2. Ended(a) + call.skip = asked.from + Len(got) /\ call.skip = 0
    BY <1>1, <1>9
  <2> QED
    BY <1>4, <2>1, <2>2
<1>11. /\ got' = SubSeq(Present, asked.from + 1, Len(Present)) /\ Len(Present) = Ended(a) + 1
  <2>1. PICK m \in Nat : m = asked.from
    BY <1>4
  <2>2. got = SubSeq(Present, m + 1, Ended(a)) /\ got' = Append(got, <<a, Bytes>>) /\ m <= Ended(a)
    BY <1>1, <1>2, <1>9, <1>10, <2>1
  <2>3. /\ input \in Inputs /\ ReaderOK /\ a \in Nat /\ reader.base <= a /\ a <= Bytes
        /\ a \in input.ends \cup {reader.base}
    BY <1>2, <1>4
  <2>4. /\ Append(SubSeq(Present, m + 1, Ended(a)), <<a, Bytes>>) = SubSeq(Present, m + 1, Len(Present))
        /\ Len(Present) = Ended(a) + 1
    BY ONLY <1>2, <1>5, <1>8, <2>2, <2>3, FragmentIsLast, m \in Nat
  <2> QED
    BY <2>1, <2>2, <2>4
<1>12. Right(got')
  <2> DEFINE total == Len(Present)
             S == {asked.from + asked.cnt, total}
  <2>1. total \in Nat /\ asked.from < total /\ total <= asked.from + asked.cnt
    <3>1. Len(Present) = Ended(Bytes) + 1 /\ asked.from <= Ended(Bytes)
      BY <1>2, <1>10, <1>11
    <3>2. Ended(Bytes) \in Nat /\ asked.from + asked.cnt > Ended(Bytes)
      BY <1>2
    <3>3. asked.from \in Nat /\ asked.cnt \in Nat
      BY <1>4
    <3> QED
      BY <3>1, <3>2, <3>3
  <2>2. Min(S) = total
    <3> HIDE DEF total
    <3>1. S \in SUBSET Nat /\ S # {}
      BY <1>4, <2>1
    <3>2. Min(S) \in S /\ \A y \in S : Min(S) <= y
      <4> HIDE DEF S
      <4> QED
        BY <3>1, MinIs
    <3> QED
      BY <1>4, <2>1, <3>2
  <2> QED
    BY <1>11, <2>1, <2>2 DEF Right
<1>13. Right(got)'
  <2>1. got' = got'
    OBVIOUS
  <2>2. Len(Present)' = Len(Present) /\ Bytes' = Bytes /\ Present' = Present
    BY <1>1, SameFrames
  <2> QED
    BY <1>1, <1>12, <2>2 DEF Right
<1>14. Counted(w, PlacedAt)
  <2>1. /\ PlacedAt <= reader.base + window.offset
        /\ reader.base + window.offset \in input.ends \cup {PlacedAt}
        /\ window.front = Cardinality(EndsIn(PlacedAt, reader.base + window.offset))
        /\ window.walked = Cardinality(EndsIn(PlacedAt, a))
        /\ Loaded(window) = reader.base + window.limit
    BY <1>1, <1>2 DEF Reading, Counted, a
  <2>2. Cardinality(EndsIn(PlacedAt, Bytes)) = Cardinality(EndsIn(PlacedAt, a))
    <3> DEFINE p == PlacedAt
    <3>1. p \in Nat /\ a \in Nat /\ Bytes \in Nat /\ p <= a /\ a <= Bytes /\ input \in Inputs
      BY <1>2, <1>4
    <3> HIDE DEF p
    <3>2. /\ Cardinality(EndsIn(p, Bytes)) = Cardinality(EndsIn(p, a)) + Cardinality(EndsIn(a, Bytes))
          /\ Cardinality(EndsIn(p, a)) \in Nat
      BY ONLY <3>1, CountSplit, CountIs
    <3>3. Cardinality(EndsIn(p, Bytes)) = Cardinality(EndsIn(p, a))
      BY <1>8, <3>2
    <3> QED
      BY <3>3 DEF p
  <2>3. Taken(w)
    BY <1>1, <1>2, <1>6 DEF Taken, SpanEnd
  <2>4. w.eof => Loaded(w) = reader.base + w.limit
    BY <1>2, <1>6, <1>7 DEF SpanEnd
  <2> QED
    BY <1>6, <1>7, <2>1, <2>2, <2>3, <2>4 DEF Counted
<1>15. Counted(window, PlacedAt)'
  <2>1. PlacedAt' = PlacedAt
    BY <1>1, SameAsked
  <2>2. At(window)' = At(w) /\ Loaded(window)' = Loaded(w) /\ Bytes' = Bytes
    BY <1>1, SameFile
  <2>3. Taken(window)' <=> Taken(w)
    BY <1>1, <2>2 DEF Taken
  <2> QED
    BY <1>1, <1>14, <2>1, <2>2, <2>3 DEF Counted, EndsIn
<1>16. /\ call'.busy = TRUE /\ call'.skipWhole = call.skipWhole /\ call'.include = call.include
       /\ call'.reject = call.reject /\ call'.lookup = call.lookup
       /\ call'.spent = TRUE /\ call'.watch = call.watch
  BY <1>1, <1>2, <1>4 DEF CallOK, CallType
<1>19. call'.lookup => BehindTail'
  <2> SUFFICES ASSUME call.lookup PROVE BehindTail'
    BY <1>16
  <2>1. asked.name = "record" /\ asked.cnt = 1
    BY <1>2 DEF Reading, FrameInv
  <2>2. got = <<>>
    <3>1. Len(got) + call.left = 1 /\ call.left > 0
      BY <1>1, <1>2, <2>1 DEF Underway, Walking, Wanted
    <3>2. call.left \in Nat /\ got \in Seq(Nat \X Nat)
      BY <1>2, ReadingIs
    <3>3. Len(got) = 0
      BY <1>4, <3>1, <3>2
    <3> QED
      BY <3>2, <3>3
  <2>3. got' = <<<<a, Bytes>>>>
    BY <1>1, <1>2, <2>2
  <2>4. got' \in Seq(Nat \X Nat) /\ got' # <<>> /\ got'[1][2] = Bytes
    BY <1>4, <2>3
  <2>5. got' # Refused
    BY <2>4, RefusedAssumption
  <2> QED
    BY <1>1, <1>2, <2>1, <2>4, <2>5 DEF BehindTail
<1>17. RanOut'
  <2>1. Held(window)' = {}
    <3>1. EndsIn(Bytes, Bytes) = {}
      BY <1>4, CountIs
    <3>2. Held(w) = {}
      BY <1>7, <3>1 DEF Held
    <3> QED
      BY <1>1, <3>2, SameFrames
  <2>2. SpanEnd' = Bytes' /\ window'.eof
    BY <1>1, <1>2, <1>6 DEF SpanEnd, Bytes
  <2>3. ~SpentUneven(window)'
    <3>1. ~SpentUneven(w)
      BY <1>3, <1>6
    <3> QED
      BY <1>1, <1>16, <3>1 DEF SpentUneven, Uneven
  <2> QED
    BY <1>13, <1>19, <2>1, <2>2, <2>3 DEF RanOut
<1>18. window'.limit = window.limit
  BY <1>1, <1>6
<1> QED
  BY <1>1, <1>2, <1>15, <1>16, <1>17, <1>18, ReadingGoesOn

\* The lesser of two numbers.
LEMMA LesserIs ==
  ASSUME NEW a \in Nat, NEW b \in Nat, a <= b
  PROVE  Min({a, b}) = a /\ Min({b, a}) = a
<1> DEFINE S == {a, b}
<1>1. S \in SUBSET Nat /\ S # {} /\ a \in S /\ \A x \in S : x = a \/ x = b
  OBVIOUS
<1> HIDE DEF S
<1>2. Min(S) \in S /\ Min(S) <= a
  BY <1>1, MinIs
<1>3. Min(S) = a
  <2> DEFINE x == Min(S)
  <2>1. (x = a \/ x = b) /\ x <= a
    BY <1>1, <1>2
  <2> HIDE DEF x
  <2>2. x = a
    BY <2>1
  <2> QED
    BY <2>2 DEF x
<1>4. {b, a} = S
  BY DEF S
<1> QED
  BY <1>3, <1>4 DEF S

\* One element of a sequence.
LEMMA OneRecord ==
  ASSUME NEW s \in Seq(Nat \X Nat), NEW i \in 1 .. Len(s)
  PROVE  Len(SubSeq(s, i, i)) = 1
OBVIOUS

\* or there is nothing left over.
LEMMA NothingLeftOver ==
  ASSUME FrameInv, IntactInv, Intact, RunOutHanding, asked' = asked,
         ~(window.pos < window.filled /\ call.reject),
         ~(window.pos < window.filled /\ call.include)
  PROVE  IntactInv'
<1>1. /\ input' = input /\ reader' = reader /\ frame' = frame /\ window' = window /\ got' = got
      /\ call' = [call EXCEPT !.spent = TRUE]
      /\ Walking /\ Held(window) = {} /\ window.eof /\ call.skip = 0
  BY DEF RunOutHanding
<1>2. /\ call.busy = TRUE /\ Reading /\ Underway /\ Ended(Bytes) \in Nat
      /\ Ended(At(window)) = Ended(Bytes)
      /\ asked.from + asked.cnt > Ended(Bytes) /\ SpanEnd = Bytes
  BY <1>1, RunsOutAtTheEnd
<1>3. ~SpentUneven(window)
  BY <1>1, RunsOutAtTheEnd
<1>4. /\ input \in Inputs /\ OpenOK /\ ReaderOK /\ CallOK /\ Spaced
      /\ PlacedAt \in input.ends \cup {reader.base}
      /\ asked.from \in Nat /\ asked.cnt \in Nat /\ Len(got) \in Nat /\ got \in Seq(Nat \X Nat)
      /\ call.left \in Nat
  BY <1>2, ReadingIs
<1>5. At(window) = Bytes
  <2>1. ~(window.pos < window.filled)
    <3> SUFFICES ASSUME window.pos < window.filled PROVE FALSE
      OBVIOUS
    <3>1. call.include = input.separated /\ call.reject = ~input.separated
      BY <1>1, LeftOver
    <3> QED
      BY <1>4, <3>1
  <2> QED
    BY <1>1, <2>1, LeftOver
<1>6. /\ Ended(Bytes) = asked.from + Len(got) /\ Len(got) + call.left = asked.cnt
      /\ got = SubSeq(Present, asked.from + 1, Ended(Bytes))
  <2>1. /\ Ended(At(window)) + call.skip = asked.from + Len(got) /\ Len(got) + call.left = asked.cnt
        /\ got = SubSeq(Present, asked.from + 1, asked.from + Len(got))
    BY <1>2 DEF Underway
  <2>2. Ended(Bytes) = asked.from + Len(got)
    BY <1>1, <1>2, <2>1
  <2> QED
    BY <2>1, <2>2
<1>7. /\ Len(Present) \in Nat
      /\ input.separated /\ Bytes \notin input.ends => Len(Present) = Ended(Bytes) + 1
      /\ ~(input.separated /\ Bytes \notin input.ends) => Len(Present) = Ended(Bytes)
  BY <1>4, TotalIs
<1>8. Right(got)
  <2>1. CASE Bytes \in input.ends
    <3>1. Len(Present) = Ended(Bytes)
      BY <1>7, <2>1
    <3>2. CASE asked.from < Len(Present)
      <4>1. asked.from + asked.cnt \in Nat /\ Len(Present) <= asked.from + asked.cnt
        BY <1>2, <1>4, <3>1
      <4>2. Min({asked.from + asked.cnt, Len(Present)}) = Len(Present)
        BY <1>7, <4>1, LesserIs
      <4> QED
        BY <1>6, <3>1, <3>2, <4>2 DEF Right
    <3>3. CASE ~(asked.from < Len(Present))
      <4>1. Ended(Bytes) = asked.from + Len(got)
        BY <1>6
      <4>2. Len(got) = 0 /\ asked.from >= Len(Present)
        BY <1>2, <1>4, <3>1, <3>3, <4>1
      <4>3. got = <<>>
        BY <1>4, <4>2
      <4> QED
        BY <4>2, <4>3 DEF Right
    <3> QED
      BY <3>2, <3>3
  <2>2. CASE Bytes \notin input.ends
    <3>1. call.lookup /\ asked.again
      <4> SUFFICES ASSUME ~(call.lookup /\ asked.again) PROVE FALSE
        OBVIOUS
      <4>1. Bytes \in input.ends \cup {PlacedAt}
        BY <1>2, <1>5 DEF Underway, AtEnd
      <4>2. Bytes = reader.base
        BY <1>4, <2>2, <4>1
      <4> QED
        BY <1>4, <2>2, <4>2 DEF Spaced
    <3>2. asked.cnt = 1 /\ asked.name = "record"
      BY <1>2, <3>1 DEF Reading, FrameInv
    <3>3. Len(got) = 0
      <4>1. call.left > 0
        BY <1>1 DEF Walking, Wanted
      <4>2. Len(got) + call.left = 1
        BY <1>6, <3>2
      <4> QED
        BY <1>4, <4>1, <4>2
    <3>4. got = <<>> /\ asked.from = Ended(Bytes)
      <4>1. Ended(Bytes) = asked.from + Len(got)
        BY <1>6
      <4> QED
        BY <1>4, <3>3, <4>1
    <3>5. CASE input.separated
      <4>1. asked.from = Len(Present) - 1
        BY <1>2, <1>7, <2>2, <3>4, <3>5
      <4> QED
        BY <2>2, <3>1, <3>2, <3>4, <4>1 DEF Right
    <3>6. CASE ~input.separated
      <4>1. asked.from >= Len(Present)
        BY <1>4, <1>7, <2>2, <3>4, <3>6
      <4> QED
        BY <3>4, <4>1 DEF Right
    <3> QED
      BY <3>5, <3>6
  <2> QED
    BY <2>1, <2>2
<1>9. /\ call'.busy = TRUE /\ call'.skipWhole = call.skipWhole /\ call'.include = call.include
      /\ call'.reject = call.reject /\ call'.lookup = call.lookup
      /\ call'.spent = TRUE /\ call'.watch = call.watch
  BY <1>1, <1>2, <1>4 DEF CallOK, CallType
<1>10. RanOut'
  <2>1. Right(got)'
    BY <1>1, <1>8, SameAsked
  <2>2. Held(window)' = {} /\ SpanEnd' = Bytes'
    BY <1>1, <1>2 DEF Held, At, Loaded, EndsIn, SpanEnd, Bytes
  <2>3. ~SpentUneven(window)'
    BY <1>1, <1>3, <1>9 DEF SpentUneven, Uneven
  <2>4. call.lookup => AtEnd(PlacedAt)' \/ BehindTail'
    <3>1. PlacedAt' = PlacedAt /\ At(window)' = At(window)
      BY <1>1, SameAsked DEF At
    <3>2. AtEnd(PlacedAt) \/ (asked.again /\ got = <<>>)
      BY <1>2 DEF Underway
    <3> QED
      BY <1>1, <3>1, <3>2 DEF AtEnd, BehindTail
  <2> QED
    BY <1>1, <1>9, <2>1, <2>2, <2>3, <2>4 DEF RanOut
<1>11. Counted(window, PlacedAt)'
  <2>1. PlacedAt' = PlacedAt
    BY <1>1, SameAsked
  <2> QED
    BY <1>1, <1>2, <2>1 DEF Reading, Counted, Taken, At, Loaded, EndsIn, Bytes
<1> QED
  BY <1>1, <1>2, <1>9, <1>10, <1>11, ReadingGoesOn

\* Running out while records are handed out answers the call rightly.
LEMMA RunOutHandingReads ==
  ASSUME FrameInv, IntactInv, RunOutHanding, asked' = asked
  PROVE  IntactInv'
<1>1. CASE ~Intact
  <2>1. input' = input /\ reader' = reader
    BY DEF RunOutHanding
  <2>2. Intact' <=> Intact
    BY <2>1, SameFrames
  <2> QED
    BY <1>1, <2>2 DEF IntactInv
<1>2. CASE Intact
  <2>1. CASE window.pos < window.filled /\ call.reject
    BY <1>2, <2>1, FragmentRefused
  <2>2. CASE window.pos < window.filled /\ ~call.reject /\ call.include
    BY <1>2, <2>2, FragmentHandedOut
  <2>3. CASE /\ ~(window.pos < window.filled /\ call.reject)
             /\ ~(window.pos < window.filled /\ call.include)
    BY <1>2, <2>3, NothingLeftOver
  <2> QED
    BY <2>1, <2>2, <2>3
<1> QED
  BY <1>1, <1>2

--------------------------------------------------------------------------------
\* A lookup that found nothing in a file that is verified from its first frame has
\* walked one that holds what it ought to.
LEMMA FoundNothingEven ==
  ASSUME FrameInv, IntactInv, Intact, call.busy = TRUE, call.spent = TRUE, call.lookup,
         reader.judge.verifies, ~reader.judge.shares
  PROVE  ~FoundNothingUneven
<1> SUFFICES ASSUME FoundNothingUneven PROVE FALSE
  OBVIOUS
<1>1. /\ input \in Inputs /\ OpenOK /\ ReaderOK /\ Buffered(window) /\ Reading
      /\ First(asked.from) \in DOMAIN reader.frames
      /\ PlacedAt \in Nat /\ PlacedAt <= At(window)
      /\ At(window) \in Nat /\ Bytes \in Nat /\ At(window) <= Loaded(window)
  BY ReadingIs
<1>2. RanOut /\ Counted(window, PlacedAt) /\ frame = First(asked.from)
  BY <1>1 DEF Reading
<1>3. Loaded(window) = Bytes /\ SpanEnd = Bytes
  BY <1>2 DEF RanOut, Counted, SpanEnd
<1>4. /\ reader.base = 0 /\ reader.frames = Spans(input) /\ reader.judge.first = 1
      /\ reader.judge.last = Len(input.frames) - 1 /\ reader.judge.perFrame = PerFrame(input)
  BY <1>1 DEF OpenOK
<1> DEFINE f == frame
<1>5. /\ f \in DOMAIN input.frames
      /\ reader.frames[f].start = FrameStart(f) /\ reader.frames[f].end = input.frames[f]
  BY <1>1, <1>2, <1>4, SpansAre DEF FrameStart
<1>6. PlacedAt = FrameStart(f) /\ f \in Nat /\ f # 0 /\ input.frames[f] \in Nat
  <2>1. f \in Nat /\ f # 0 /\ input.frames[f] \in Nat
    BY <1>1, <1>5, FileIs
  <2>2. FrameStart(f) \in Nat
    BY <1>1, <1>5, FrameStartIs
  <2>3. PlacedAt = reader.base + reader.frames[f].start
    BY <1>2 DEF PlacedAt
  <2> QED
    BY <1>4, <1>5, <2>1, <2>2, <2>3
<1>7. input.frames[f] = Bytes
  <2>1. window.limit = reader.frames[frame].end
    BY <1>6 DEF FrameInv, WindowInv
  <2> QED
    BY <1>3, <1>4, <1>5, <1>6, <2>1 DEF SpanEnd
<1>8. window.walked = HeldIn(f) /\ HeldIn(f) \in Nat
  <2>1. window.walked = Cardinality(EndsIn(PlacedAt, At(window)))
    BY <1>2 DEF Counted
  <2>2. EndsIn(At(window), Bytes) = {}
    BY <1>2, <1>3 DEF RanOut, Held
  <2> DEFINE p == PlacedAt
             a == At(window)
  <2>3. p \in Nat /\ a \in Nat /\ Bytes \in Nat /\ p <= a /\ a <= Bytes /\ input \in Inputs
    BY <1>1, <1>3
  <2>4. Cardinality(EndsIn(a, Bytes)) = 0
    BY <2>2, FS_EmptySet
  <2>5. HeldIn(f) = Cardinality(EndsIn(p, Bytes))
    BY <1>6, <1>7 DEF HeldIn
  <2> HIDE DEF p, a, f
  <2>6. /\ Cardinality(EndsIn(p, Bytes)) = Cardinality(EndsIn(p, a)) + Cardinality(EndsIn(a, Bytes))
        /\ Cardinality(EndsIn(p, a)) \in Nat
    BY ONLY <2>3, CountSplit, CountIs
  <2>7. Cardinality(EndsIn(p, Bytes)) = Cardinality(EndsIn(p, a))
    BY <2>4, <2>6
  <2> QED
    BY <2>1, <2>5, <2>6, <2>7 DEF p, a
<1>9. HeldIn(f) <= PerFrame(input) /\ (f # Len(input.frames) => HeldIn(f) = PerFrame(input))
  BY <1>1, <1>5, EvenIs
<1>10. PerFrame(input) \in Nat
  BY <1>1, PerFrameIs
<1>11. /\ HeldIn(f) # PerFrame(input)
       /\ ~(f - 1 = Len(input.frames) - 1 /\ HeldIn(f) < PerFrame(input))
  BY <1>4, <1>8 DEF FoundNothingUneven, Uneven
<1> HIDE DEF f
<1> QED
  BY <1>8, <1>9, <1>10, <1>11

\* The call returns.
LEMMA FinishReads ==
  ASSUME FrameInv, IntactInv, Finish, asked' = asked
  PROVE  IntactInv'
<1>1. input' = input /\ reader' = reader /\ frame' = frame /\ window' = window
  BY DEF Finish
<1> SUFFICES ASSUME Intact PROVE IntactInv'
  <2>1. Intact' <=> Intact
    BY <1>1, SameFrames
  <2> QED
    BY <2>1 DEF IntactInv
<1>2. /\ call.busy = TRUE /\ call.spent \in BOOLEAN /\ call.left \in Nat /\ call.skip \in Nat
      /\ call.spent \/ Wanted = 0
  BY CallIs DEF Finish, FrameInv
<1> DEFINE uneven == (call.left > 0 /\ SpentUneven(window)) \/ FoundNothingUneven
           a == IF uneven THEN Refused ELSE got
<1>3. Answer(a)
  BY DEF Finish
<1>4. /\ input \in Inputs /\ OpenOK /\ ReaderOK /\ Reading /\ got \in Seq(Nat \X Nat)
      /\ reader.base \in Nat /\ reader.base <= PlacedAt /\ PlacedAt <= At(window) /\ PlacedAt \in Nat
      /\ At(window) \in Nat /\ Loaded(window) \in Nat /\ SpanEnd \in Nat /\ Bytes \in Nat
      /\ At(window) <= Loaded(window) /\ Loaded(window) <= SpanEnd /\ SpanEnd <= Bytes
      /\ asked.from \in Nat /\ asked.cnt \in Nat /\ Len(got) \in Nat
  BY <1>2, ReadingIs
<1>5. /\ Len(Present) \in Nat /\ Ended(Bytes) \in Nat /\ Ended(Bytes) <= Len(Present)
      /\ Present \in Seq(Nat \X Nat)
  <2>1. Present \in Seq(Nat \X Nat)
    BY <1>4, PresentIs
  <2>2. Len(Present) \in Nat /\ Ended(Bytes) \in Nat
        /\ (Len(Present) = Ended(Bytes) + 1 \/ Len(Present) = Ended(Bytes))
    BY <1>4, TotalIs
  <2> QED
    BY <2>1, <2>2
<1>6. call.lookup => asked.cnt = 1 /\ asked.name = "record"
  BY <1>2, <1>4 DEF Reading, FrameInv
<1>7. Right(a)
  <2>1. CASE call.spent
    <3>1. Right(got) /\ (call.left > 0 => ~SpentUneven(window))
      BY <1>4, <2>1 DEF Reading, RanOut
    <3>2. CASE ~FoundNothingUneven
      BY <3>1, <3>2
    <3>3. CASE FoundNothingUneven
      <4>1. reader.judge.verifies /\ call.lookup /\ got = <<>> /\ a = Refused
        BY <3>3 DEF FoundNothingUneven
      <4>2. reader.judge.shares
        <5> SUFFICES ASSUME ~reader.judge.shares PROVE FALSE
          OBVIOUS
        <5>1. call.spent = TRUE
          BY <1>2, <2>1
        <5> QED
          BY <1>2, <3>3, <4>1, <5>1, FoundNothingEven
      <4>3. ~(/\ asked.from < Len(Present)
              /\ got = SubSeq(Present, asked.from + 1, Min({asked.from + asked.cnt, Len(Present)})))
        <5>0. SUFFICES ASSUME /\ asked.from < Len(Present)
                              /\ got = SubSeq(Present, asked.from + 1,
                                              Min({asked.from + asked.cnt, Len(Present)}))
                       PROVE  FALSE
          OBVIOUS
        <5> HIDE DEF a, uneven
        <5>1. asked.from + 1 \in Nat /\ asked.from + 1 <= Len(Present)
          <6>1. asked.from < Len(Present)
            BY <5>0
          <6>2. asked.from \in Nat /\ Len(Present) \in Nat
            BY <1>4, <1>5
          <6> QED
            BY <6>1, <6>2
        <5>2. Min({asked.from + asked.cnt, Len(Present)}) = asked.from + 1
          BY <1>5, <1>6, <4>1, <5>1, LesserIs
        <5>3. got = SubSeq(Present, asked.from + 1, asked.from + 1)
          BY <5>0, <5>2
        <5>4. Len(SubSeq(Present, asked.from + 1, asked.from + 1)) = 1
          <6>1. asked.from + 1 \in 1 .. Len(Present)
            BY <1>4, <1>5, <5>1
          <6> QED
            BY <1>5, <6>1, OneRecord
        <5>5. Len(got) = 0
          BY <4>1
        <5>6. Len(got) = 1
          BY <5>3, <5>4
        <5> QED
          BY <5>5, <5>6
      <4>4. got # Refused
        BY <1>4, RefusedAssumption
      <4>5. asked.from >= Len(Present) \/ (asked.from = Len(Present) - 1 /\ asked.again /\ Bytes \notin input.ends)
        <5> HIDE DEF a, uneven
        <5> QED
          BY <3>1, <4>3, <4>4 DEF Right
      <4> QED
        BY <1>6, <4>1, <4>2, <4>5 DEF Right
    <3> QED
      BY <3>2, <3>3
  <2>2. CASE ~call.spent
    <3>1. Underway
      BY <1>4, <2>2 DEF Reading
    <3>2. call.skip = 0 /\ call.left = 0
      BY <1>2, <2>2 DEF Wanted
    <3>3. /\ Len(got) = asked.cnt /\ Ended(At(window)) = asked.from + asked.cnt
          /\ got = SubSeq(Present, asked.from + 1, asked.from + asked.cnt)
      <4>1. /\ Ended(At(window)) + call.skip = asked.from + Len(got)
            /\ Len(got) + call.left = asked.cnt
            /\ got = SubSeq(Present, asked.from + 1, asked.from + Len(got))
        BY <3>1 DEF Underway
      <4>2. Len(got) = asked.cnt
        BY <1>4, <3>2, <4>1
      <4>3. Ended(At(window)) \in Nat
        BY <1>4, CountIs DEF Ended
      <4>4. Ended(At(window)) = asked.from + Len(got)
        BY <3>2, <4>1, <4>3
      <4> QED
        BY <4>1, <4>2, <4>4
    <3>4. a = got
      <4>1. ~(call.left > 0)
        BY <3>2
      <4>2. ~FoundNothingUneven
        <5> SUFFICES ASSUME call.lookup, got = <<>> PROVE FALSE
          BY DEF FoundNothingUneven
        <5>1. Len(got) = 1
          BY <1>6, <3>3
        <5> QED
          BY <5>1
      <4> QED
        BY <4>1, <4>2
    <3>5. asked.from + asked.cnt <= Len(Present)
      <4> DEFINE p == reader.base
                 x == At(window)
      <4>1. p \in Nat /\ x \in Nat /\ Bytes \in Nat /\ p <= x /\ x <= Bytes /\ input \in Inputs
        BY <1>4
      <4> HIDE DEF p, x
      <4>2. /\ Cardinality(EndsIn(p, Bytes)) = Cardinality(EndsIn(p, x)) + Cardinality(EndsIn(x, Bytes))
            /\ Cardinality(EndsIn(p, x)) \in Nat /\ Cardinality(EndsIn(x, Bytes)) \in Nat
        BY ONLY <4>1, CountSplit, CountIs
      <4>3. Cardinality(EndsIn(p, x)) <= Cardinality(EndsIn(p, Bytes))
        BY <4>2
      <4>4. Ended(At(window)) <= Ended(Bytes)
        BY <4>3 DEF Ended, p, x
      <4> QED
        BY <1>4, <1>5, <3>3, <4>4
    <3>6. Right(got)
      <4>1. CASE asked.from < Len(Present)
        <5>1. asked.from + asked.cnt \in Nat
          BY <1>4
        <5>2. Min({asked.from + asked.cnt, Len(Present)}) = asked.from + asked.cnt
          BY <1>5, <3>5, <5>1, LesserIs
        <5> QED
          BY <3>3, <4>1, <5>2 DEF Right
      <4>2. CASE ~(asked.from < Len(Present))
        <5>1. asked.cnt = 0 /\ asked.from >= Len(Present)
          BY <1>4, <1>5, <3>5, <4>2
        <5>2. got = <<>>
          BY <1>4, <3>3, <5>1
        <5> QED
          BY <5>1, <5>2 DEF Right
      <4> QED
        BY <4>1, <4>2
    <3> QED
      BY <3>4, <3>6
  <2> QED
    BY <1>2, <2>1, <2>2
<1>8. Counted(window, PlacedAt)'
  <2>1. PlacedAt' = PlacedAt
    BY <1>1, SameAsked
  <2> QED
    BY <1>1, <1>4, <2>1 DEF Reading, Counted, Taken, At, Loaded, EndsIn, Bytes
<1>9. call.lookup => AtEnd(PlacedAt)' \/ BehindTail'
  <2> SUFFICES ASSUME call.lookup PROVE AtEnd(PlacedAt)' \/ BehindTail'
    OBVIOUS
  <2>1. PlacedAt' = PlacedAt /\ At(window)' = At(window) /\ got' = a
    BY <1>1, <1>3, SameAsked DEF At, Answer
  <2>2. AtEnd(PlacedAt) => AtEnd(PlacedAt)'
    BY <1>1, <2>1 DEF AtEnd
  <2>3. CASE call.spent
    <3>1. (AtEnd(PlacedAt) \/ BehindTail) /\ (call.left > 0 => ~SpentUneven(window))
      BY <1>4, <2>3 DEF Reading, RanOut
    <3>2. a \in {Refused, got} /\ (got # <<>> => a = got)
      BY <3>1 DEF FoundNothingUneven
    <3> HIDE DEF a
    <3>3. BehindTail => BehindTail'
      BY <1>1, <2>1, <3>2 DEF BehindTail
    <3> QED
      BY <2>2, <3>1, <3>3
  <2>4. CASE ~call.spent
    <3>1. /\ AtEnd(PlacedAt) \/ got = <<>>
          /\ Len(got) + call.left = asked.cnt
      BY <1>4, <2>4 DEF Reading, Underway
    <3>2. call.left = 0 /\ asked.cnt = 1
      BY <1>2, <1>6, <2>4 DEF Wanted
    <3>3. got # <<>>
      BY <3>1, <3>2
    <3> QED
      BY <2>2, <3>1, <3>3
  <2> QED
    BY <2>3, <2>4
<1> HIDE DEF a
<1> QED
  BY <1>1, <1>2, <1>3, <1>7, <1>8, <1>9, ReadingEnds

\* Every step of a call that goes on.
LEMMA StepReads ==
  ASSUME FrameInv, IntactInv, Step, asked' = asked
  PROVE  IntactInv'
BY TakeRunReads, ReadMoreReads, RunOutSkippingReads, RunOutHandingReads, FinishReads DEF Step

--------------------------------------------------------------------------------
(***************************************************************************)
(* How such a read begins.                                                 *)
(***************************************************************************)
\* No file that keeps the invariant makes the walk of the last frame fail.
LEMMA ProbeIsFine ==
  ASSUME Spaced
  PROVE  ~ProbeFails
BY DEF Spaced, ProbeFails

\* Behind the slots there are no records.
LEMMA PastEndIs ==
  ASSUME input \in Inputs, OpenOK, Spaced, NEW from \in Nat, PastEnd(from)
  PROVE  from >= Len(Present)
<1> DEFINE m == reader.sepCnt
           n == Frames
           total == Len(Present)
           most == Ended(Bytes)
           s == StartOf(n)
<1>1. ReaderOK /\ m \in Nat \ {0} /\ n \in Nat \ {0} /\ n \in DOMAIN reader.frames
  BY DEF OpenOK, ReaderOK, Frames
<1>2. /\ total \in Nat /\ most \in Nat /\ total <= most + 1
      /\ input.separated /\ Bytes \notin input.ends => total = most + 1
      /\ ~(input.separated /\ Bytes \notin input.ends) => total = most
  BY <1>1, TotalIs
<1>3. n * m \in Nat /\ (n - 1) * m \in Nat /\ n * m = (n - 1) * m + m /\ Slots = n * m
  <2>1. n - 1 \in Nat /\ (n - 1) + 1 = n /\ m \in Nat /\ n \in Nat
    BY <1>1
  <2>2. Slots = m * n
    BY DEF Slots
  <2> HIDE DEF m, n
  <2>3. ((n - 1) + 1) * m = (n - 1) * m + m
    BY <2>1, OneMore
  <2>4. n * m \in Nat /\ (n - 1) * m \in Nat
    BY <2>1, Grows
  <2>5. m * n = n * m
    BY <2>1
  <2> QED
    BY <2>1, <2>2, <2>3, <2>4, <2>5
<1>4. most <= n * m
  BY DEF Spaced
<1>5. CASE from > Slots
  <2> DEFINE p == n * m
  <2>1. p \in Nat /\ Slots = p /\ most <= p /\ total \in Nat /\ most \in Nat /\ total <= most + 1
    BY <1>2, <1>3, <1>4
  <2> HIDE DEF m, n, total, most, p
  <2>2. from > p
    BY <1>5, <2>1
  <2>3. from >= total
    BY <2>1, <2>2
  <2> QED
    BY <2>3 DEF total
<1>6. CASE from = Slots /\ ~FinalSlotIsTail
  <2> SUFFICES ASSUME ~(from >= total) PROVE FALSE
    OBVIOUS
  <2>1. total = most + 1 /\ most = n * m
    <3> HIDE DEF m, n, total, most
    <3>1. ~(n * m >= total)
      BY <1>3, <1>6
    <3>2. total # most
      BY <1>2, <1>3, <1>4, <3>1
    <3>3. total = most + 1
      BY <1>2, <3>2
    <3> QED
      BY <1>2, <1>3, <1>4, <3>1, <3>3
  <2>2. input.separated /\ Bytes \notin input.ends
    <3> HIDE DEF m, n, total, most
    <3>1. total # most
      BY <1>2, <2>1
    <3> QED
      BY <1>2, <3>1
  <2>3. /\ s \in Nat /\ reader.base \in Nat /\ reader.base <= s /\ s <= Bytes /\ Bytes \in Nat
        /\ Ended(s) = (n - 1) * m
    <3>1. SpacedAt(n)
      BY <1>1 DEF Spaced
    <3>2. reader.base <= s /\ Ended(s) = (n - 1) * m
      BY <3>1 DEF SpacedAt
    <3>3. /\ reader.base \in Nat /\ reader.frames[n].start \in Nat /\ reader.frames[n].end \in Nat
          /\ reader.frames[n].start <= reader.frames[n].end
          /\ reader.base + reader.frames[n].end <= Bytes
      <4>1. n <= n
        BY <1>1
      <4> QED
        BY <1>1, <4>1 DEF ReaderOK
    <3>4. Bytes \in Nat
      BY FileIs
    <3>5. s = reader.base + reader.frames[n].start
      BY DEF StartOf
    <3>6. s \in Nat /\ s <= Bytes
      <4> DEFINE a == reader.frames[n].start
                 e == reader.frames[n].end
                 b == Bytes
                 p == reader.base
      <4>1. p \in Nat /\ a \in Nat /\ e \in Nat /\ a <= e /\ p + e <= b /\ b \in Nat
        BY <3>3, <3>4
      <4>2. s = p + a
        BY <3>5
      <4> HIDE DEF s, n, a, e, b, p
      <4>3. s \in Nat /\ s <= b
        BY ONLY <4>1, <4>2
      <4> QED
        BY <4>3 DEF b
    <3> HIDE DEF s, n, m
    <3> QED
      BY <3>2, <3>3, <3>4, <3>6
  <2>4. Cardinality(EndsIn(s, Bytes)) = m
    <3> DEFINE p == reader.base
               b == Bytes
    <3>1. p \in Nat /\ s \in Nat /\ b \in Nat /\ p <= s /\ s <= b /\ input \in Inputs
      BY <2>3
    <3>2. most = Cardinality(EndsIn(p, b)) /\ Cardinality(EndsIn(p, s)) = (n - 1) * m
      BY <2>3 DEF Ended
    <3>3. most = (n - 1) * m + m
      BY <1>3, <2>1
    <3> HIDE DEF p, b, s, m, n, most
    <3>4. /\ Cardinality(EndsIn(p, b)) = Cardinality(EndsIn(p, s)) + Cardinality(EndsIn(s, b))
          /\ Cardinality(EndsIn(s, b)) \in Nat
      BY ONLY <3>1, CountSplit, CountIs
    <3>5. (n - 1) * m \in Nat /\ m \in Nat
      BY <1>1, <1>3
    <3> DEFINE x == (n - 1) * m
               c == Cardinality(EndsIn(s, b))
    <3>6. x + c = x + m /\ x \in Nat /\ c \in Nat /\ m \in Nat
      BY <3>2, <3>3, <3>4, <3>5
    <3> HIDE DEF x, c
    <3>7. c = m
      BY <3>6
    <3> QED
      BY <3>7 DEF b, c
  <2>5. s = reader.base + LastSpan.start
    BY DEF StartOf, LastSpan
  <2>6. FinalSlotIsTail
    BY <2>2, <2>4, <2>5, ProbeIsFine DEF FinalSlotIsTail
  <2> QED
    BY <1>6, <2>6
<1> QED
  BY <1>5, <1>6 DEF PastEnd

\* A read that is not placed answers at once.
LEMMA NotPlacedReads ==
  ASSUME FrameInv, IntactInv, NEW from \in Nat, NEW answer, NotPlaced(from, answer),
         asked'.from = from, answer = <<>> \/ (asked'.name # "record" /\ answer = Refused),
         frame' \in {0, frame}, frame' # 0 => (asked'.again <=> BehindTail)
  PROVE  IntactInv'
<1>1. /\ input' = input /\ reader' = reader /\ window' = window /\ call' = call /\ ~call.busy
      /\ PastEnd(from)
      /\ got' = IF from = Slots /\ input.separated /\ ProbeFails THEN Refused ELSE answer
  BY DEF NotPlaced
<1> SUFFICES ASSUME Intact PROVE IntactInv'
  <2>1. Intact' <=> Intact
    BY <1>1, SameFrames
  <2> QED
    BY <2>1 DEF IntactInv
<1>2. Spaced /\ (frame # 0 => Counted(window, StartOf(frame)))
  BY DEF IntactInv
<1>3. got' = answer
  BY <1>1, <1>2, ProbeIsFine
<1>4. Spaced' /\ Present' = Present
  BY <1>1, <1>2, SameFrames
<1>5. frame' # 0 => Counted(window, StartOf(frame))'
  <2> SUFFICES ASSUME frame' # 0 PROVE Counted(window, StartOf(frame))'
    OBVIOUS
  <2>1. frame' = frame /\ Counted(window, StartOf(frame))
    BY <1>1, <1>2
  <2> QED
    BY <1>1, <2>1 DEF Counted, Taken, At, Loaded, EndsIn, Bytes, StartOf
<1>6. Right(got)'
  <2>1. from >= Len(Present)
    BY <1>1, <1>2, PastEndIs DEF FrameInv, WindowInv
  <2>2. Len(Present)' = Len(Present)
    BY <1>4
  <2> QED
    BY <1>3, <2>1, <2>2 DEF Right
<1>7. frame' # 0 => AtEnd(StartOf(frame))' \/ BehindTail'
  <2> SUFFICES ASSUME frame' # 0 PROVE AtEnd(StartOf(frame))' \/ BehindTail'
    OBVIOUS
  <2>1. frame' = frame /\ (AtEnd(StartOf(frame)) \/ BehindTail)
    BY <1>1 DEF IntactInv
  <2>2. AtEnd(StartOf(frame))' <=> AtEnd(StartOf(frame))
    BY <1>1, <2>1 DEF AtEnd, At, StartOf
  <2>3. BehindTail => BehindTail'
    BY <1>3 DEF BehindTail
  <2> QED
    BY <2>1, <2>2, <2>3
<1> QED
  BY <1>1, <1>4, <1>5, <1>6, <1>7 DEF IntactInv

LEMMA UnplacedReads ==
  ASSUME FrameInv, IntactInv, NEW from \in Nat, NEW answer, Unplaced(from, answer),
         asked'.from = from, answer = <<>> \/ (asked'.name # "record" /\ answer = Refused),
         from # Slots => (asked'.again <=> BehindTail)
  PROVE  IntactInv'
BY NotPlacedReads DEF Unplaced

LEMMA UnbegunReads ==
  ASSUME FrameInv, IntactInv, NEW from \in Nat, Unbegun(from),
         asked'.from = from, asked'.name # "record", (asked'.again <=> BehindTail)
  PROVE  IntactInv'
BY NotPlacedReads DEF Unbegun

\* In each frame but the last a record ends.
LEMMA FramesAreLong ==
  ASSUME input \in Inputs, OpenOK, Intact,
         NEW f \in DOMAIN input.frames, NEW g \in DOMAIN input.frames, f <= g,
         g # Len(input.frames)
  PROVE  FrameStart(f) < input.frames[g]
<1>1. /\ FrameStart(f) \in Nat /\ FrameStart(g) \in Nat /\ input.frames[g] \in Nat
      /\ FrameStart(1) = 0 /\ f \in Nat /\ g \in Nat
  BY FrameStartIs, FileIs
<1>2. FrameStart(g) < input.frames[g]
  <2> SUFFICES ASSUME input.frames[g] <= FrameStart(g) PROVE FALSE
    BY <1>1
  <2>1. Cardinality(EndsIn(FrameStart(g), input.frames[g])) = 0
    BY <1>1, CountIs
  <2>2. Cardinality(EndsIn(FrameStart(g), input.frames[g])) = PerFrame(input)
    BY EvenIs
  <2>3. PerFrame(input) # 0
    BY DEF OpenOK
  <2> QED
    BY <2>1, <2>2, <2>3
<1>3. FrameStart(f) <= FrameStart(g)
  <2>1. CASE f = 1
    BY <1>1, <2>1
  <2>2. CASE f # 1
    <3>1. f - 1 \in DOMAIN input.frames /\ FrameStart(f) = input.frames[f - 1]
      BY <2>2, FrameStartIs
    <3>2. g # 1
      BY <1>1, <2>2, FileIs
    <3>3. g - 1 \in DOMAIN input.frames /\ FrameStart(g) = input.frames[g - 1]
      BY <3>2, FrameStartIs
    <3>4. f - 1 <= g - 1
      BY <1>1
    <3> QED
      BY <3>1, <3>3, <3>4, FramesGrow
  <2> QED
    BY <2>1, <2>2
<1> QED
  BY <1>1, <1>2, <1>3

\* The watcher of a read begins with the frame that the read is placed at.
BeginsAhead(watch, placed) ==
  /\ reader.judge.verifies
  /\ Skipping(watch) + 1 \in DOMAIN input.frames
  /\ placed = FrameStart(Skipping(watch) + 1)
  /\ \A k \in DOMAIN watch.at :
       placed < watch.at[k] \/ Skipping(watch) + k = Len(input.frames)

\* The frames that a read is to watch are ahead of where it is placed.
LEMMA FramesAreAhead ==
  ASSUME input \in Inputs, OpenOK, Intact, reader.judge.verifies,
         NEW m \in Nat, m + 1 \in DOMAIN input.frames, NEW placed, placed = FrameStart(m + 1),
         NEW f \in Int, m - (reader.judge.first - 1) = f, NEW upto \in Nat,
         NEW watch, watch = [NoWatch EXCEPT !.at = SubSeq(input.frames, m + 1, FramesBy(upto)),
                                            !.first = f]
  PROVE  BeginsAhead(watch, placed)
<1> DEFINE n == Len(input.frames)
           c == FramesBy(upto)
           at == SubSeq(input.frames, m + 1, c)
<1>1. n \in Nat \ {0} /\ DOMAIN input.frames = 1 .. n
  BY FileIs
<1>2. c \in 0 .. n /\ m \in 0 .. n
  BY <1>1, FramesByIs
<1> HIDE DEF c
<1>3. /\ at \in Seq(Nat) /\ DOMAIN at = 1 .. c - m
      /\ \A k \in DOMAIN at : m + k \in DOMAIN input.frames /\ at[k] = input.frames[m + k]
  BY <1>2, SomeFrames
<1>4. watch = [NoWatch EXCEPT !.at = at, !.first = f]
  BY DEF c
<1> HIDE DEF at
<1>5. watch.at = at /\ watch.first = f
  BY <1>4 DEF NoWatch
<1>6. Skipping(watch) = m
  <2>1. reader.judge.first \in DOMAIN input.frames
    BY DEF OpenOK
  <2>2. reader.judge.first \in Nat
    BY <1>1, <2>1
  <2>3. Skipping(watch) = f + reader.judge.first - 1
    BY <1>5 DEF Skipping
  <2> QED
    BY <2>2, <2>3
<1>7. ASSUME NEW k \in DOMAIN at, m + k # n
      PROVE  placed < at[k]
  <2>1. m + k \in DOMAIN input.frames /\ at[k] = input.frames[m + k]
    BY <1>3
  <2>2. m + 1 <= m + k
    BY <1>2, <1>3
  <2> DEFINE g == m + k
             b == m + 1
  <2>3. g \in DOMAIN input.frames /\ b \in DOMAIN input.frames /\ b <= g /\ g # Len(input.frames)
    BY <1>7, <2>1, <2>2
  <2> HIDE DEF g, b
  <2>4. FrameStart(b) < input.frames[g]
    BY <2>3, FramesAreLong
  <2> QED
    BY <2>1, <2>4 DEF g, b
<1> QED
  BY <1>5, <1>6, <1>7 DEF BeginsAhead

\* What a read watches when it begins.
LEMMA WatchIsAhead ==
  ASSUME input \in Inputs, OpenOK, Intact, Spaced, NEW from \in Nat, ~PastEnd(from),
         NEW last \in DOMAIN reader.frames, First(from) <= last
  PROVE  LET watch == Watched(from, First(from), last)
         IN  DOMAIN watch.at = {} \/ BeginsAhead(watch, StartOf(First(from)))
<1> DEFINE n == Len(input.frames)
           first == First(from)
           placed == StartOf(first)
           upto == EndOf(last)
           watch == Watched(from, first, last)
<1>1. n \in Nat \ {0} /\ DOMAIN input.frames = 1 .. n
  BY FileIs
<1>2. /\ first \in DOMAIN reader.frames /\ Frames \in DOMAIN reader.frames
  BY PlacedIs
<1>3. placed \in Nat /\ upto \in Nat
  <2>1. /\ reader.base \in Nat /\ reader.frames[first].start \in Nat
        /\ reader.frames[last].end \in Nat
    BY <1>2 DEF OpenOK, ReaderOK
  <2> QED
    BY <2>1 DEF StartOf, EndOf
<1>4. DOMAIN NoWatch.at = {}
  BY DEF NoWatch
<1>5. CASE ~reader.judge.verifies
  <2>1. watch = NoWatch
    BY <1>5 DEF Watched
  <2> QED
    BY <1>4, <2>1
<1>6. CASE reader.judge.verifies /\ reader.judge.shares
  <2> DEFINE m == EndedBefore(placed)
             f == Physical(placed)
  <2>1. /\ m \in 0 .. n - 1
        /\ \A g \in DOMAIN input.frames : g # n => (input.frames[g] <= placed <=> g <= m)
    BY <1>3, EndedBeforeIs
  <2>2. watch = [NoWatch EXCEPT !.at = SubSeq(input.frames, m + 1, FramesBy(upto)), !.first = f]
    BY <1>6 DEF Watched, WatchPhysical, StartOf, EndOf
  <2>3. f = m - (reader.judge.first - 1)
    BY DEF Physical
  <2>4. PICK g \in DOMAIN input.frames : placed = FrameStart(g)
    BY <1>2 DEF Spaced, SpacedAt
  <2> HIDE DEF m, f, watch, placed, upto
  <2>5. m \in Nat /\ m + 1 \in DOMAIN input.frames /\ g \in Nat /\ 1 <= g /\ g <= n
    BY <1>1, <2>1
  <2>6. m < g
    <3>1. CASE g = n
      BY <1>1, <2>1, <3>1
    <3>2. CASE g # n
      <4>1. g <= g
        BY <2>5
      <4>2. placed < input.frames[g]
        BY <2>4, <3>2, <4>1, FramesAreLong
      <4>3. input.frames[g] \in Nat
        BY FileIs
      <4>4. ~(input.frames[g] <= placed)
        BY <1>3, <4>2, <4>3
      <4>5. ~(g <= m)
        BY <2>1, <3>2, <4>4
      <4> QED
        BY <2>5, <4>5
    <3> QED
      BY <3>1, <3>2
  <2>7. g - 1 <= m
    <3>1. CASE g = 1
      BY <2>5, <3>1
    <3>2. CASE g # 1
      <4>1. g - 1 \in DOMAIN input.frames /\ placed = input.frames[g - 1]
        BY <2>4, <3>2, FrameStartIs
      <4>2. g - 1 # n
        BY <1>1, <2>5
      <4>3. input.frames[g - 1] <= placed
        BY <1>3, <4>1
      <4> QED
        BY <2>1, <4>1, <4>2, <4>3
    <3> QED
      BY <3>1, <3>2
  <2>8. g = m + 1
    BY <2>5, <2>6, <2>7
  <2>9. f \in Int /\ m - (reader.judge.first - 1) = f
    <3>1. reader.judge.first \in DOMAIN input.frames
      BY <1>6 DEF OpenOK
    <3>2. reader.judge.first \in Nat
      BY <1>1, <3>1
    <3> QED
      BY <2>3, <2>5, <3>2
  <2>10. placed = FrameStart(m + 1) /\ reader.judge.verifies
    BY <1>6, <2>4, <2>8
  <2>11. BeginsAhead(watch, placed)
    BY <1>3, <2>2, <2>5, <2>9, <2>10, FramesAreAhead
  <2> QED
    BY <2>11 DEF watch, placed
<1>7. CASE reader.judge.verifies /\ ~reader.judge.shares
  <2>1. /\ reader.base = 0 /\ reader.frames = Spans(input) /\ reader.judge.first = 1
    BY <1>7 DEF OpenOK
  <2>2. CASE from \div reader.sepCnt >= Frames
    <3>1. watch = NoWatch
      BY <1>7, <2>2 DEF Watched, WatchSpan
    <3> QED
      BY <1>4, <3>1
  <2>3. CASE ~(from \div reader.sepCnt >= Frames)
    <3> DEFINE m == first - 1
    <3>1. watch = [NoWatch EXCEPT !.at = SubSeq(input.frames, first, FramesBy(upto)), !.first = m]
      BY <1>7, <2>3 DEF Watched, WatchSpan, EndOf
    <3>2. first \in DOMAIN input.frames /\ reader.frames[first].start = FrameStart(first)
      <4> HIDE DEF first
      <4> QED
        BY <1>2, <2>1, SpansAre DEF FrameStart
    <3>3. placed = FrameStart(first)
      <4>1. FrameStart(first) \in Nat
        BY <3>2, FrameStartIs
      <4>2. placed = reader.base + reader.frames[first].start
        BY DEF StartOf
      <4> HIDE DEF first, placed
      <4> QED
        BY <2>1, <3>2, <4>1, <4>2
    <3> HIDE DEF first, watch, placed, upto
    <3>4. m \in Nat /\ m + 1 = first /\ m \in Int /\ m - (reader.judge.first - 1) = m
      BY <1>1, <2>1, <3>2
    <3> HIDE DEF m
    <3>5. /\ m + 1 \in DOMAIN input.frames /\ placed = FrameStart(m + 1)
          /\ watch = [NoWatch EXCEPT !.at = SubSeq(input.frames, m + 1, FramesBy(upto)), !.first = m]
      BY <3>1, <3>2, <3>3, <3>4
    <3>6. reader.judge.verifies
      BY <1>7
    <3>7. BeginsAhead(watch, placed)
      BY <1>3, <3>4, <3>5, <3>6, FramesAreAhead
    <3> QED
      BY <3>7 DEF watch, placed, first
  <2> QED
    BY <2>2, <2>3
<1> QED
  BY <1>5, <1>6, <1>7

\* A call has begun.
LEMMA ReadingBegins ==
  ASSUME IntactInv, Intact, input' = input, reader' = reader, call'.busy = TRUE, Reading',
         frame' # 0 => PlacedAt' = StartOf(frame)'
  PROVE  IntactInv'
<1>1. Spaced'
  BY SameFrames DEF IntactInv
<1>2. Counted(window, PlacedAt)'
  BY DEF Reading
<1>3. frame' # 0 => Counted(window, StartOf(frame))'
  BY <1>2 DEF Counted
<1>4. ~Answered'
  BY DEF Answered
<1> QED
  BY <1>1, <1>3, <1>4 DEF IntactInv

\* Where a call begins.
LEMMA PlaceIs ==
  ASSUME input \in Inputs, OpenOK, Spaced, NEW from \in Nat, ~PastEnd(from)
  PROVE  LET first == First(from)
         IN  /\ first \in DOMAIN reader.frames /\ first \in Nat \ {0} /\ first <= Frames
             /\ reader.frames[first].start \in Nat
             /\ StartOf(first) = reader.base + reader.frames[first].start
             /\ StartOf(first) \in Nat /\ StartOf(first) \in input.ends \cup {reader.base}
             /\ reader.base \in Nat /\ reader.base <= StartOf(first)
             /\ Skipped(from) \in Nat /\ Ended(StartOf(first)) \in Nat
             /\ Ended(StartOf(first)) + Skipped(from) = from
<1> DEFINE first == First(from)
           m == reader.sepCnt
           p == (first - 1) * m
<1>1. /\ first \in DOMAIN reader.frames /\ Skipped(from) \in Nat /\ first <= Frames
  BY PlacedIs
<1>2. first \in Nat \ {0} /\ m \in Nat \ {0}
  BY <1>1 DEF OpenOK, ReaderOK
<1>3. /\ reader.base \in Nat /\ reader.frames[first].start \in Nat
      /\ StartOf(first) = reader.base + reader.frames[first].start
  BY <1>1 DEF OpenOK, ReaderOK, StartOf
<1>4. /\ reader.base <= StartOf(first) /\ StartOf(first) \in input.ends \cup {reader.base}
      /\ Ended(StartOf(first)) = p
  BY <1>1 DEF Spaced, SpacedAt
<1>5. Skipped(from) = from - p
  BY DEF Skipped
<1>6. StartOf(first) \in Nat
  <2> HIDE DEF first
  <2> QED
    BY <1>3
<1>7. p \in Nat
  <2> HIDE DEF first, m
  <2>1. first - 1 \in Nat /\ m \in Nat
    BY <1>2
  <2> QED
    BY <2>1, Grows
<1> HIDE DEF first, p, m
<1>8. p + Skipped(from) = from
  BY <1>5, <1>7
<1> QED
  BY <1>1, <1>2, <1>3, <1>4, <1>6, <1>7, <1>8 DEF first

\* A read of a span of frames.
LEMMA SpanReads ==
  ASSUME FrameInv, IntactInv, Intact, NEW from \in Nat, ~PastEnd(from),
         NEW last \in DOMAIN reader.frames, First(from) <= last, NEW cnt \in Nat,
         EndOf(last) = Bytes \/ from + cnt <= Ended(EndOf(last)),
         ReadSpan(First(from), last, Skipped(from), cnt, Watched(from, First(from), last)),
         asked'.from = from, asked'.cnt = cnt
  PROVE  IntactInv'
<1> DEFINE first == First(from)
           skip == Skipped(from)
           watch == Watched(from, First(from), last)
           placed == StartOf(First(from))
           start == reader.frames[First(from)].start
           end == reader.frames[last].end
           len == end - start
           final == end = reader.frames[Len(reader.frames)].end
           w == SeekTo(window, start, len)
<1>1. /\ input \in Inputs /\ OpenOK /\ ReaderOK /\ WindowInv /\ Spaced
  BY DEF FrameInv, WindowInv, IntactInv
<1>2. /\ input' = input /\ reader' = reader /\ got' = <<>> /\ frame' = 0 /\ window' = w
      /\ call' = Cursor(skip, TRUE, cnt, final, watch)
  BY DEF ReadSpan
<1>3. /\ first \in DOMAIN reader.frames /\ start \in Nat /\ placed = reader.base + start
      /\ placed \in Nat /\ reader.base \in Nat
      /\ skip \in Nat /\ Ended(placed) \in Nat /\ Ended(placed) + skip = from
  BY <1>1, PlaceIs
<1>4. first = First(from) /\ placed = StartOf(first) /\ watch = Watched(from, first, last)
  OBVIOUS
<1>5. DOMAIN watch.at = {} \/ BeginsAhead(watch, placed)
  BY <1>1, WatchIsAhead
<1>6. end \in Nat /\ start <= end
  <2>1. first <= last
    OBVIOUS
  <2> HIDE DEF first
  <2> QED
    BY <1>1, <1>3, <1>4, <2>1 DEF ReaderOK
<1>7. len \in Nat /\ start + len = end
  <2> HIDE DEF start, end
  <2> QED
    BY <1>3, <1>6
<1>8. Counted(w, placed)
  <2>1. Counted(w, reader.base + start)
    <3> HIDE DEF start, len
    <3> QED
      BY <1>1, <1>3, <1>7, SeekToCounts
  <2> QED
    BY <1>3, <2>1
<1>9. w.offset = start /\ w.pos = 0 /\ w.limit = start + len
  BY DEF SeekTo, Cleared
<1>10. /\ call'.busy = TRUE /\ call'.spent = FALSE /\ call'.skip = skip /\ call'.left = cnt
       /\ call'.watch = watch /\ call'.skipWhole = TRUE /\ call'.lookup = FALSE
       /\ call'.include = (final /\ input.separated) /\ call'.reject = (final /\ ~input.separated)
  BY <1>2 DEF Cursor
<1>11. EndOf(last) = reader.base + end /\ EndOf(Frames) = Bytes
       /\ Bytes = reader.base + reader.frames[Frames].end
  BY <1>1 DEF EndOf, Spaced
<1>12. reader.frames[Frames].end \in Nat /\ Frames = Len(reader.frames)
  BY <1>1 DEF ReaderOK, Frames
<1> HIDE DEF first, skip, watch, placed, start, end, len, w
<1>13. First(asked.from)' = first /\ PlacedAt' = placed /\ (PastEnd(asked.from)' <=> PastEnd(from))
  <2>1. First(asked.from)' = First(from)
    BY <1>2 DEF First, Slots, Frames
  <2>2. PastEnd(asked.from)' <=> PastEnd(from)
    BY <1>2 DEF PastEnd, FinalSlotIsTail, ProbeFails, LastSpan, EndsIn, Slots, Frames, Bytes
  <2>3. PlacedAt' = reader.base + reader.frames[first].start
    BY <1>2, <1>4, <2>1 DEF PlacedAt
  <2> QED
    BY <1>4, <2>1, <2>2, <2>3 DEF StartOf
<1>14. Bytes' = Bytes /\ Present' = Present
  BY <1>2, SameFrames
<1>15. SpanEnd' = EndOf(last)
  <2>1. w.limit = end
    BY <1>7, <1>9
  <2> QED
    BY <1>2, <1>11, <2>1 DEF SpanEnd
<1>16. Counted(window, PlacedAt)'
  <2>1. At(window)' = At(w) /\ Loaded(window)' = Loaded(w)
    BY <1>2, SameFile
  <2>2. Taken(window)' <=> Taken(w)
    BY <1>2, <1>14 DEF Taken
  <2> QED
    BY <1>2, <1>8, <1>13, <2>1, <2>2 DEF Counted, EndsIn
<1>17. At(window)' = placed
  <2>1. At(w) = placed
    BY <1>3, <1>9 DEF At
  <2> QED
    BY <1>2, <2>1, SameFile
<1>18. Underway'
  <2>1. DOMAIN call'.watch.at = {} \/ Ahead'
    <3> SUFFICES ASSUME BeginsAhead(watch, placed) PROVE Ahead'
      BY <1>5, <1>10
    <3>1. Skipping(call.watch)' = Skipping(watch)
      BY <1>2, <1>10 DEF Skipping
    <3>2. FrameStart(Skipping(call.watch) + 1)' = FrameStart(Skipping(watch) + 1)
      BY <1>2, <3>1 DEF FrameStart
    <3>3. /\ reader'.judge.verifies /\ ~call'.lookup
          /\ Skipping(call.watch)' + 1 \in DOMAIN input'.frames
      BY <1>2, <1>10, <3>1 DEF BeginsAhead
    <3>4. PlacedAt' = FrameStart(Skipping(call.watch) + 1)'
      BY <1>13, <3>2 DEF BeginsAhead
    <3>5. \A k \in DOMAIN call'.watch.at :
            \/ At(window)' < call'.watch.at[k]
            \/ Skipping(call.watch)' + k = Len(input'.frames)
      <4>1. call'.watch.at = watch.at /\ Len(input'.frames) = Len(input.frames)
        BY <1>2, <1>10
      <4>2. \A k \in DOMAIN watch.at :
              placed < watch.at[k] \/ Skipping(watch) + k = Len(input.frames)
        BY DEF BeginsAhead
      <4> QED
        BY <1>17, <3>1, <4>1, <4>2
    <3> QED
      BY <3>3, <3>4, <3>5 DEF Ahead
  <2>2. Ended(At(window))' = Ended(placed)
    BY <1>2, <1>17 DEF Ended, EndsIn
  <2>3. Len(got') = 0
    BY <1>2
  <2>4. got' = SubSeq(Present, asked'.from + 1, asked'.from + Len(got'))
    <3>1. SubSeq(Present, from + 1, from + 0) = <<>>
      BY SubSeqEmpty
    <3> QED
      BY <1>2, <2>3, <3>1
  <2>5. Ended(At(window))' + call'.skip = asked'.from + Len(got')
    BY <1>3, <1>10, <2>2, <2>3
  <2>6. Len(got') + call'.left = asked'.cnt
    BY <1>10, <2>3
  <2>7. At(window)' \in input'.ends \cup {PlacedAt'}
    BY <1>13, <1>17
  <2> QED
    BY <1>2, <1>14, <2>1, <2>4, <2>5, <2>6, <2>7 DEF Underway, AtEnd
<1>19. Reading'
  <2>1. SpanEnd' = Bytes' \/ asked'.from + asked'.cnt <= Ended(SpanEnd)'
    <3>1. Ended(SpanEnd)' = Ended(EndOf(last))
      BY <1>2, <1>15 DEF Ended, EndsIn
    <3> QED
      BY <1>14, <1>15, <3>1
  <2>2. SpanEnd' = Bytes' /\ Bytes' \notin input'.ends =>
          /\ call'.include = input'.separated
          /\ call'.reject = ~input'.separated
    <3> SUFFICES ASSUME EndOf(last) = Bytes
                 PROVE  call'.include = input.separated /\ call'.reject = ~input.separated
      BY <1>2, <1>14, <1>15
    <3>1. end = reader.frames[Frames].end
      <4> DEFINE e == reader.frames[Frames].end
      <4>1. reader.base + end = reader.base + e
        BY <1>11
      <4>2. e \in Nat
        BY <1>12
      <4> HIDE DEF e
      <4>3. end = e
        BY <1>3, <1>6, <4>1, <4>2
      <4> QED
        BY <4>3 DEF e
    <3>2. final
      BY <1>12, <3>1 DEF end
    <3>3. input.separated \in BOOLEAN
      BY <1>1, FileIs
    <3> HIDE DEF final
    <3> QED
      BY <1>10, <3>2, <3>3
  <2> QED
    BY <1>2, <1>10, <1>13, <1>16, <1>18, <2>1, <2>2 DEF Reading
<1> QED
  BY <1>2, <1>10, <1>19, ReadingBegins

\* A call for some records.
LEMMA RecordsToReads ==
  ASSUME FrameInv, IntactInv, NEW from \in Nat, NEW cnt \in Nat, RecordsTo(from, cnt)
  PROVE  IntactInv'
<1>1. asked'.from = from /\ asked'.cnt = cnt /\ asked'.name # "record"
  BY DEF RecordsTo
<1>2. CASE Unplaced(from, Refused)
  <2>1. from # Slots => (asked'.again <=> BehindTail)
    BY <1>2 DEF RecordsTo, Unplaced, NotPlaced, PastEnd
  <2> QED
    BY <1>1, <1>2, <2>1, UnplacedReads
<1>3. CASE ~Unplaced(from, Refused)
  <2> DEFINE last == Last(from, cnt)
             m == reader.sepCnt
             q == (from + cnt + 1) \div m
  <2>1. /\ ~PastEnd(from)
        /\ ReadSpan(First(from), last, Skipped(from), cnt, Watched(from, First(from), last))
    BY <1>3 DEF RecordsTo
  <2>2. last \in DOMAIN reader.frames /\ First(from) <= last
    BY <2>1, PlacedIs DEF FrameInv
  <2>3. input' = input /\ reader' = reader
    BY <2>1 DEF ReadSpan
  <2> SUFFICES ASSUME Intact PROVE IntactInv'
    <3>1. Intact' <=> Intact
      BY <2>3, SameFrames
    <3> QED
      BY <3>1 DEF IntactInv
  <2>4. Spaced /\ OpenOK /\ ReaderOK /\ m \in Nat \ {0} /\ Frames \in Nat \ {0}
        /\ DOMAIN reader.frames = 1 .. Frames
    BY DEF IntactInv, FrameInv, OpenOK, ReaderOK, Frames
  <2>5. q \in Nat /\ q * m \in Nat /\ from + cnt + 1 < q * m + m
    <3>1. from + cnt + 1 \in Nat
      OBVIOUS
    <3> HIDE DEF m
    <3> QED
      BY <2>4, <3>1, Divided
  <2>6. last = Min({q + 1, Frames})
    BY DEF Last
  <2> HIDE DEF last, q, m
  <2>7. EndOf(last) = Bytes \/ from + cnt <= Ended(EndOf(last))
    <3>1. CASE Frames <= q + 1
      <4>1. last = Frames
        BY <2>4, <2>5, <2>6, <3>1, LesserIs
      <4> QED
        BY <2>4, <4>1 DEF Spaced
    <3>2. CASE ~(Frames <= q + 1)
      <4>1. q + 1 \in Nat /\ q + 1 <= Frames /\ q + 1 # Frames
        BY <2>4, <2>5, <3>2
      <4>2. last = q + 1
        BY <2>4, <2>6, <4>1, LesserIs
      <4>3. last + 1 \in DOMAIN reader.frames
        BY <2>4, <2>5, <4>1, <4>2
      <4>4. EndOf(last) = StartOf(last + 1) /\ Ended(StartOf(last + 1)) = ((last + 1) - 1) * m
        BY <2>2, <2>4, <4>1, <4>2, <4>3 DEF Spaced, SpacedAt, m
      <4>5. (last + 1) - 1 = q + 1
        BY <2>5, <4>2
      <4>6. (q + 1) * m = q * m + m
        BY <2>4, <2>5, OneMore
      <4>7. Ended(EndOf(last)) = q * m + m
        BY <4>4, <4>5, <4>6
      <4> DEFINE p == q * m
      <4>8. p \in Nat /\ from + cnt + 1 < p + m /\ m \in Nat
        BY <2>4, <2>5
      <4> HIDE DEF p
      <4>9. from + cnt <= p + m
        BY <4>8
      <4> QED
        BY <4>7, <4>9 DEF p
    <3> QED
      BY <3>1, <3>2
  <2> QED
    BY <1>1, <2>1, <2>2, <2>7, SpanReads
<1> QED
  BY <1>2, <1>3

\* A call for all records from one on.
LEMMA RecordsFromReads ==
  ASSUME FrameInv, IntactInv, NEW from \in Nat, RecordsFrom(from)
  PROVE  IntactInv'
<1>1. asked'.from = from /\ asked'.cnt = Bytes + 1 /\ asked'.name # "record"
  BY DEF RecordsFrom
<1>2. CASE Unbegun(from)
  <2>1. asked'.again <=> BehindTail
    BY <1>2 DEF RecordsFrom, Unbegun, NotPlaced
  <2> QED
    BY <1>1, <1>2, <2>1, UnbegunReads
<1>3. CASE ~Unbegun(from)
  <2> DEFINE last == Frames
             cnt == Bytes + 1
  <2>1. /\ ~PastEnd(from)
        /\ ReadSpan(First(from), last, Skipped(from), cnt, Watched(from, First(from), last))
    BY <1>3 DEF RecordsFrom
  <2>2. last \in DOMAIN reader.frames /\ First(from) <= last
    BY <2>1, PlacedIs DEF FrameInv
  <2>3. cnt \in Nat
    BY FileIs DEF FrameInv, WindowInv
  <2>4. input' = input /\ reader' = reader
    BY <2>1 DEF ReadSpan
  <2> SUFFICES ASSUME Intact PROVE IntactInv'
    <3>1. Intact' <=> Intact
      BY <2>4, SameFrames
    <3> QED
      BY <3>1 DEF IntactInv
  <2>5. EndOf(last) = Bytes
    BY DEF IntactInv, Spaced
  <2>6. asked'.cnt = cnt
    BY <1>1
  <2> HIDE DEF last, cnt
  <2> QED
    BY <1>1, <2>1, <2>2, <2>3, <2>5, <2>6, SpanReads
<1> QED
  BY <1>2, <1>3

\* The window of a lookup, which goes on from where it is or is placed anew.
LEMMA LookUpCounts ==
  ASSUME FrameInv, IntactInv, Intact, NEW f \in DOMAIN reader.frames, f # 0, NEW index \in Nat,
         NEW noted \in {0, frame}, StartOf(f) \in Nat
  PROVE  LET start == reader.frames[f].start
             end == reader.frames[f].end
             w == IF noted = f /\ CanWalkFrom(window, index) THEN WalkFrom(window, index)
                  ELSE SeekTo(window, start, end - start)
         IN  Counted(w, StartOf(f)) /\ w.limit = end
<1> DEFINE start == reader.frames[f].start
           end == reader.frames[f].end
           len == end - start
           w == IF noted = f /\ CanWalkFrom(window, index) THEN WalkFrom(window, index)
                ELSE SeekTo(window, start, len)
<1>1. WindowInv /\ input \in Inputs /\ ReaderOK /\ Buffered(window)
  BY DEF FrameInv, WindowInv
<1>2. start \in Nat /\ end \in Nat /\ start <= end /\ StartOf(f) = reader.base + start
      /\ reader.base \in Nat
  <2>1. reader.base \in Nat /\ start \in Nat /\ end \in Nat
    BY <1>1 DEF ReaderOK
  <2>2. start <= end
    <3>1. f \in Nat
      BY <1>1 DEF ReaderOK
    <3>2. f <= f
      BY ONLY <3>1
    <3>3. \A g, h \in DOMAIN reader.frames : g <= h => reader.frames[g].start <= reader.frames[h].end
      BY <1>1 DEF ReaderOK
    <3> QED
      BY <3>2, <3>3
  <2>3. StartOf(f) = reader.base + start
    BY DEF StartOf
  <2> HIDE DEF start, end
  <2> QED
    BY <2>1, <2>2, <2>3
<1>3. CASE noted = f /\ CanWalkFrom(window, index)
  <2>1. w = WalkFrom(window, index)
    BY <1>3
  <2>2. frame = f
    BY <1>3
  <2>3. Counted(window, StartOf(f)) /\ window.limit = end
    BY <1>1, <2>2 DEF IntactInv, WindowInv
  <2> HIDE DEF w, end
  <2> QED
    BY <1>1, <1>3, <2>1, <2>3, WalkFromIs, WalkFromCounts DEF w, end
<1>4. CASE ~(noted = f /\ CanWalkFrom(window, index))
  <2>1. w = SeekTo(window, start, len)
    BY <1>4
  <2>2. len \in Nat /\ start + len = end
    <3> HIDE DEF start, end
    <3> QED
      BY <1>2
  <2>3. w.limit = start + len
    BY <2>1 DEF SeekTo, Cleared
  <2> HIDE DEF w, start, len, end
  <2>4. Counted(w, reader.base + start)
    BY <1>1, <1>2, <2>1, <2>2, SeekToCounts
  <2>5. Counted(w, StartOf(f)) /\ w.limit = end
    BY <1>2, <2>2, <2>3, <2>4
  <2> QED
    BY <2>5 DEF w, start, end, len
<1> QED
  BY <1>3, <1>4

\* It is behind what has no end only if it goes on from there.
LEMMA LookUpStands ==
  ASSUME FrameInv, IntactInv, Intact, ~call.busy, NEW f \in DOMAIN reader.frames, f # 0,
         NEW index \in Nat, NEW noted \in {0, frame}, StartOf(f) \in Nat
  PROVE  LET w == IF noted = f /\ CanWalkFrom(window, index) THEN WalkFrom(window, index)
                  ELSE SeekTo(window, reader.frames[f].start,
                              reader.frames[f].end - reader.frames[f].start)
         IN  At(w) \in input.ends \cup {StartOf(f)} \/ (noted # 0 /\ BehindTail)
<1> DEFINE w == IF noted = f /\ CanWalkFrom(window, index) THEN WalkFrom(window, index)
                ELSE SeekTo(window, reader.frames[f].start,
                            reader.frames[f].end - reader.frames[f].start)
<1> SUFFICES At(w) \in input.ends \cup {StartOf(f)} \/ (noted # 0 /\ BehindTail)
  OBVIOUS
<1>1. /\ Buffered(window) /\ window.offset \in Nat /\ reader.base \in Nat
      /\ reader.frames[f].start \in Nat
  BY DEF FrameInv, WindowInv, Buffered, WindowType, ReaderOK
<1>2. CASE noted = f /\ CanWalkFrom(window, index)
  <2>1. frame = f /\ noted # 0 /\ w = WalkFrom(window, index)
    BY <1>2
  <2>2. /\ Counted(window, StartOf(f))
        /\ At(window) \in input.ends \cup {StartOf(f)} \/ BehindTail
    BY <2>1 DEF IntactInv, AtEnd
  <2> HIDE DEF w
  <2>3. CASE index >= window.walked
    BY <2>1, <2>2, <2>3 DEF WalkFrom
  <2>4. CASE ~(index >= window.walked)
    <3>1. w = [window EXCEPT !.walked = window.front, !.pos = 0]
      BY <2>1, <2>4 DEF WalkFrom
    <3>2. w.offset = window.offset /\ w.pos = 0
      BY <1>1, <3>1 DEF Buffered, WindowType
    <3>3. At(w) = reader.base + window.offset
      BY <1>1, <3>2 DEF At
    <3> QED
      BY <2>2, <3>3 DEF Counted
  <2> QED
    BY <2>3, <2>4
<1>3. CASE ~(noted = f /\ CanWalkFrom(window, index))
  <2> DEFINE start == reader.frames[f].start
  <2>1. w.offset = start /\ w.pos = 0
    BY <1>3 DEF SeekTo, Cleared
  <2> HIDE DEF w, start
  <2>2. At(w) = reader.base + start
    BY <1>1, <2>1 DEF At, start
  <2>3. At(w) = StartOf(f)
    BY <2>2 DEF StartOf, start
  <2> QED
    BY <2>3
<1> QED
  BY <1>2, <1>3

\* The end of the frame that a record is looked up in.
LEMMA LookedUpIn ==
  ASSUME input \in Inputs, OpenOK, Spaced, NEW index \in Nat, ~PastEnd(index)
  PROVE  /\ EndOf(First(index)) = Bytes \/ index + 1 <= Ended(EndOf(First(index)))
         /\ EndOf(First(index)) = Bytes /\ Bytes \notin input.ends => First(index) = Frames
<1> DEFINE f == First(index)
           m == reader.sepCnt
           q == index \div m
<1>1. /\ f \in DOMAIN reader.frames /\ f <= Frames /\ (index = Slots => f = Frames)
  BY PlacedIs
<1>2. /\ m \in Nat \ {0} /\ Frames \in Nat \ {0} /\ DOMAIN reader.frames = 1 .. Frames
  BY DEF OpenOK, ReaderOK, Frames
<1>3. CASE f = Frames
  <2>1. EndOf(f) = Bytes
    BY <1>3 DEF Spaced
  <2> QED
    BY <1>3, <2>1
<1>4. CASE f # Frames
  <2>1. f = q + 1
    BY <1>1, <1>4 DEF First
  <2>2. q \in Nat /\ q * m \in Nat /\ index < q * m + m
    <3> HIDE DEF m
    <3> QED
      BY <1>2, Divided
  <2> HIDE DEF f, q, m
  <2>3. f \in Nat /\ f + 1 \in DOMAIN reader.frames
    BY <1>1, <1>2, <1>4
  <2>4. /\ EndOf(f) = StartOf(f + 1) /\ Ended(StartOf(f + 1)) = ((f + 1) - 1) * m
        /\ StartOf(f + 1) \in input.ends \cup {reader.base}
    BY <1>1, <1>4, <2>3 DEF Spaced, SpacedAt, m
  <2>5. (f + 1) - 1 = q + 1
    BY <2>1, <2>2, <2>3
  <2>6. (q + 1) * m = q * m + m
    BY <1>2, <2>2, OneMore
  <2>7. Ended(EndOf(f)) = q * m + m
    BY <2>4, <2>5, <2>6
  <2> DEFINE p == q * m
  <2>8. p \in Nat /\ index < p + m /\ m \in Nat
    BY <1>2, <2>2
  <2> HIDE DEF p
  <2>9. index + 1 <= p + m
    BY <2>8
  <2>10. index + 1 <= Ended(EndOf(f))
    BY <2>7, <2>9 DEF p
  <2>11. ~(EndOf(f) = Bytes /\ Bytes \notin input.ends)
    <3> SUFFICES ASSUME EndOf(f) = Bytes, Bytes \notin input.ends PROVE FALSE
      OBVIOUS
    <3>1. reader.base = Bytes
      BY <2>4
    <3> QED
      BY <3>1 DEF Spaced
  <2> QED
    BY <2>10, <2>11 DEF f
<1> QED
  BY <1>3, <1>4

\* A call for one record.
LEMMA RecordReads ==
  ASSUME FrameInv, IntactInv, NEW index \in Nat, Record(index)
  PROVE  IntactInv'
<1>1. asked'.from = index /\ asked'.cnt = 1 /\ asked'.name = "record"
  BY DEF Record
<1>2. CASE Unplaced(index, <<>>)
  <2>1. index # Slots => (asked'.again <=> BehindTail)
    BY <1>2 DEF Record
  <2> QED
    BY <1>1, <1>2, <2>1, UnplacedReads
<1>3. CASE ~Unplaced(index, <<>>)
  <2> DEFINE f == First(index)
             skip == Skipped(index)
             start == reader.frames[First(index)].start
             end == reader.frames[First(index)].end
             noted == IF index = Slots THEN 0 ELSE frame
             w == IF noted = f /\ CanWalkFrom(window, skip) THEN WalkFrom(window, skip)
                  ELSE SeekTo(window, start, end - start)
             final == f = Len(reader.frames)
             placed == StartOf(First(index))
  <2>1. /\ ~PastEnd(index) /\ LookUp(f, skip, noted) /\ noted \in {0, frame}
        /\ noted # 0 => (asked'.again <=> BehindTail)
        /\ ~call.busy
    BY <1>3 DEF Record, LookUp
  <2>2. /\ input' = input /\ reader' = reader /\ got' = <<>> /\ frame' = f /\ window' = w
        /\ call' = Cursor(skip - w.walked, FALSE, 1, final, NoWatch)
    BY <2>1 DEF LookUp
  <2> SUFFICES ASSUME Intact PROVE IntactInv'
    <3>1. Intact' <=> Intact
      BY <2>2, SameFrames
    <3> QED
      BY <3>1 DEF IntactInv
  <2>3. /\ input \in Inputs /\ OpenOK /\ ReaderOK /\ Spaced
    BY DEF FrameInv, WindowInv, IntactInv
  <2>4. /\ f \in DOMAIN reader.frames /\ f \in Nat \ {0}
        /\ placed \in Nat /\ reader.base \in Nat /\ reader.base <= placed
        /\ skip \in Nat /\ Ended(placed) \in Nat /\ Ended(placed) + skip = index
    BY <2>1, <2>3, PlaceIs
  <2>5. Counted(w, placed) /\ w.limit = end
    <3>1. placed = StartOf(f) /\ f # 0
      BY <2>4
    <3>2. start = reader.frames[f].start /\ end = reader.frames[f].end
      OBVIOUS
    <3> HIDE DEF f, skip, noted
    <3> QED
      BY <2>1, <2>4, <3>1, <3>2, LookUpCounts
  <2>6. /\ call'.busy = TRUE /\ call'.spent = FALSE /\ call'.skip = skip - w.walked /\ call'.left = 1
        /\ call'.watch = NoWatch /\ call'.skipWhole = FALSE /\ call'.lookup = TRUE
        /\ call'.include = (final /\ input.separated) /\ call'.reject = (final /\ ~input.separated)
    BY <2>2 DEF Cursor
  <2>7. /\ EndOf(f) = Bytes \/ index + 1 <= Ended(EndOf(f))
        /\ EndOf(f) = Bytes /\ Bytes \notin input.ends => f = Frames
        /\ EndOf(f) = reader.base + end
    BY <2>1, <2>3, LookedUpIn DEF EndOf
  <2>16. At(w) \in input.ends \cup {placed} \/ asked'.again
    <3>1. placed = StartOf(f) /\ f # 0
      BY <2>4
    <3>2. start = reader.frames[f].start /\ end = reader.frames[f].end
      OBVIOUS
    <3> HIDE DEF f, skip, noted
    <3>3. At(w) \in input.ends \cup {placed} \/ (noted # 0 /\ BehindTail)
      BY <2>1, <2>4, <3>1, <3>2, LookUpStands
    <3> HIDE DEF w, placed
    <3> QED
      BY <2>1, <3>3
  <2> HIDE DEF f, skip, noted, start, end, w, placed
  <2>8. First(asked.from)' = f /\ PlacedAt' = placed /\ (PastEnd(asked.from)' <=> PastEnd(index))
    <3>1. First(asked.from)' = First(index)
      BY <1>1, <2>2 DEF First, Slots, Frames
    <3>2. PastEnd(asked.from)' <=> PastEnd(index)
      BY <1>1, <2>2 DEF PastEnd, FinalSlotIsTail, ProbeFails, LastSpan, EndsIn, Slots, Frames, Bytes
    <3>3. PlacedAt' = reader.base + reader.frames[First(index)].start
      BY <2>2, <3>1 DEF PlacedAt
    <3> QED
      BY <3>1, <3>2, <3>3 DEF StartOf, f, placed
  <2>9. Bytes' = Bytes /\ Present' = Present
    BY <2>2, SameFrames
  <2>10. SpanEnd' = EndOf(f) /\ Ended(SpanEnd)' = Ended(EndOf(f))
    <3>1. SpanEnd' = EndOf(f)
      BY <2>2, <2>5, <2>7 DEF SpanEnd
    <3> QED
      BY <2>2, <3>1 DEF Ended, EndsIn
  <2>11. Counted(window, PlacedAt)'
    <3>1. At(window)' = At(w) /\ Loaded(window)' = Loaded(w)
      BY <2>2, SameFile
    <3>2. Taken(window)' <=> Taken(w)
      BY <2>2, <2>9 DEF Taken
    <3> QED
      BY <2>2, <2>5, <2>8, <3>1, <3>2 DEF Counted, EndsIn
  <2>12. Ended(At(window))' + call'.skip = index
    <3> DEFINE p == reader.base
               a == At(w)
    <3>1. /\ w.walked = Cardinality(EndsIn(placed, a)) /\ placed <= reader.base + w.offset
      BY <2>5 DEF Counted
    <3>2. Buffered(w)
      <4>1. WindowInv'
        BY <2>1, <2>4, LookUpKeeps DEF FrameInv
      <4>2. Buffered(window)'
        BY <4>1 DEF WindowInv
      <4> QED
        BY <2>2, <4>2, SameFile
    <3>3. a \in Nat /\ a = reader.base + w.offset + w.pos /\ w.offset \in Nat /\ w.pos \in Nat
      BY <2>3, <3>2, PlacesAre
    <3>4. p \in Nat /\ placed \in Nat /\ p <= placed /\ placed <= a
      BY <2>4, <3>1, <3>3
    <3>5. Ended(At(window))' = Cardinality(EndsIn(p, a))
      <4>1. At(window)' = a
        BY <2>2, SameFile
      <4> QED
        BY <2>2, <4>1 DEF Ended, EndsIn
    <3> HIDE DEF p, a
    <3>6. /\ Cardinality(EndsIn(p, a)) = Cardinality(EndsIn(p, placed)) + Cardinality(EndsIn(placed, a))
          /\ Cardinality(EndsIn(placed, a)) \in Nat
      BY <2>3, <3>3, <3>4, CountSplit, CountIs
    <3>7. Ended(placed) = Cardinality(EndsIn(p, placed))
      BY DEF Ended, p
    <3>8. call'.skip = skip - Cardinality(EndsIn(placed, a))
      BY <2>6, <3>1
    <3> QED
      BY <2>4, <3>5, <3>6, <3>7, <3>8
  <2>13. Underway'
    <3>1. DOMAIN call'.watch.at = {}
      BY <2>6 DEF NoWatch
    <3>2. Len(got') = 0
      BY <2>2
    <3>3. got' = SubSeq(Present, asked'.from + 1, asked'.from + Len(got'))
      <4>1. SubSeq(Present, index + 1, index + 0) = <<>>
        BY SubSeqEmpty
      <4> QED
        BY <1>1, <2>2, <3>2, <4>1
    <3>4. Ended(At(window))' + call'.skip = asked'.from + Len(got')
      BY <1>1, <2>12, <3>2
    <3>5. Len(got') + call'.left = asked'.cnt
      BY <1>1, <2>6, <3>2
    <3>6. AtEnd(PlacedAt)' \/ asked'.again
      <4>1. At(window)' = At(w)
        BY <2>2, SameFile
      <4> QED
        BY <2>2, <2>8, <2>16, <4>1 DEF AtEnd
    <3> QED
      BY <2>2, <2>6, <2>9, <3>1, <3>3, <3>4, <3>5, <3>6 DEF Underway
  <2>14. Reading'
    <3>1. SpanEnd' = Bytes' \/ asked'.from + asked'.cnt <= Ended(SpanEnd)'
      BY <1>1, <2>7, <2>9, <2>10
    <3>2. SpanEnd' = Bytes' /\ Bytes' \notin input'.ends =>
            /\ call'.include = input'.separated
            /\ call'.reject = ~input'.separated
      <4> SUFFICES ASSUME EndOf(f) = Bytes, Bytes \notin input.ends
                   PROVE  call'.include = input.separated /\ call'.reject = ~input.separated
        BY <2>2, <2>9, <2>10
      <4>1. final
        BY <2>7 DEF Frames
      <4>2. input.separated \in BOOLEAN
        BY <2>3, FileIs
      <4> HIDE DEF final
      <4> QED
        BY <2>6, <4>1, <4>2
    <3>3. asked'.from \in Nat /\ asked'.cnt = 1 /\ asked'.cnt \in Nat
      <4>1. asked'.from = index /\ asked'.cnt = 1
        BY <1>1
      <4> QED
        BY ONLY <4>1, index \in Nat
    <3>4. ~PastEnd(asked.from)' /\ frame' = First(asked.from)'
      BY <2>1, <2>2, <2>8
    <3>5. call'.skipWhole = ~call'.lookup /\ call'.lookup /\ ~call'.spent
      BY <2>6
    <3> QED
      BY <2>11, <2>13, <3>1, <3>2, <3>3, <3>4, <3>5 DEF Reading
  <2>15. frame' # 0 => PlacedAt' = StartOf(frame)'
    BY <2>2, <2>8 DEF StartOf, placed, f
  <2> QED
    BY <2>2, <2>6, <2>14, <2>15, ReadingBegins
<1> QED
  BY <1>2, <1>3

--------------------------------------------------------------------------------
(***************************************************************************)
(* And so such a file is read.                                             *)
(***************************************************************************)
LEMMA IntactInit ==
  ASSUME Init
  PROVE  IntactInv
<1>1. PICK kind \in Kinds, f \in DOMAIN input.frames :
        /\ kind.shares \/ f = 1
        /\ OpenedAt(Opened(input, kind, f))
  BY DEF Init
<1>2. input \in Inputs /\ PerFrame(input) > 0 /\ kind \in AllKinds
  BY FrameReadsAssumption DEF Init
<1>3. reader = Opened(input, kind, f) /\ call = Idle /\ frame = 0
  BY <1>1 DEF OpenedAt
<1>4. OpenOK
  BY <1>1, <1>2, <1>3, OpenedIs
<1>5. PICK first, size : Laid(first, size)
  BY <1>1, <1>2, <1>3, OpenedIsLaid
<1>6. Intact => Spaced
  BY <1>2, <1>4, <1>5, LaidIsSpaced
<1>7. call.busy = FALSE /\ ~Answered
  BY <1>3 DEF Idle, Answered, Init
<1> QED
  BY <1>3, <1>6, <1>7 DEF IntactInv

\* A step of nothing.
LEMMA IntactStays ==
  ASSUME FrameInv, IntactInv, UNCHANGED vars
  PROVE  IntactInv'
<1>1. UNCHANGED <<input, reader, window, frame, call, got, asked>>
  BY DEF vars, windowVars
<1>2. /\ Intact' <=> Intact
      /\ Spaced' <=> Spaced
      /\ Bytes' = Bytes /\ Present' = Present
  BY <1>1, SameFrames
<1> SUFFICES ASSUME Intact PROVE IntactInv'
  BY <1>2 DEF IntactInv
<1>3. PlacedAt' = PlacedAt
  BY <1>1, SameAsked
<1>4. CASE call.busy
  <2>1. call.busy = TRUE
    BY <1>4, CallIs DEF FrameInv
  <2>2. Reading
    BY <1>4 DEF IntactInv
  <2>3. Counted(window, PlacedAt)'
    BY <1>1, <1>3, <2>2 DEF Reading, Counted, Taken, At, Loaded, EndsIn, Bytes
  <2>4. CASE call.spent
    <3>1. RanOut
      BY <2>2, <2>4 DEF Reading
    <3>2. Right(got)'
      BY <1>1, <3>1, SameAsked DEF RanOut
    <3>3. Held(window)' = {} /\ SpanEnd' = Bytes'
      BY <1>1, <3>1 DEF RanOut, Held, At, Loaded, EndsIn, SpanEnd, Bytes
    <3>4. SpentUneven(window)' <=> SpentUneven(window)
      BY <1>1 DEF SpentUneven, Uneven
    <3>5. RanOut'
      <4>1. call'.lookup => AtEnd(PlacedAt)' \/ BehindTail'
        <5>1. call.lookup => AtEnd(PlacedAt) \/ BehindTail
          BY <3>1 DEF RanOut
        <5> QED
          BY <1>1, <1>3, <5>1 DEF AtEnd, BehindTail, At
      <4> QED
        BY <1>1, <3>1, <3>2, <3>3, <3>4, <4>1 DEF RanOut
    <3> QED
      BY <1>1, <2>1, <2>3, <2>4, <3>5, ReadingGoesOn
  <2>5. CASE ~call.spent
    <3>1. Underway
      BY <2>2, <2>5 DEF Reading
    <3>2. Ended(At(window))' = Ended(At(window)) /\ At(window)' = At(window)
      BY <1>1 DEF Ended, EndsIn, At
    <3>3. Ahead => Ahead'
      <4>1. Skipping(call.watch)' = Skipping(call.watch)
        BY <1>1 DEF Skipping
      <4>2. FrameStart(Skipping(call.watch) + 1)' = FrameStart(Skipping(call.watch) + 1)
        BY <1>1, <4>1 DEF FrameStart
      <4> QED
        BY <1>1, <1>3, <3>2, <4>1, <4>2 DEF Ahead
    <3>4. Underway'
      BY <1>1, <1>2, <1>3, <3>1, <3>2, <3>3 DEF Underway, AtEnd
    <3> QED
      BY <1>1, <2>1, <2>3, <2>5, <3>4, ReadingGoesOn
  <2> QED
    BY <2>4, <2>5
<1>5. CASE ~call.busy
  <2>1. frame' # 0 => Counted(window, StartOf(frame))'
    <3> SUFFICES ASSUME frame # 0 PROVE Counted(window, StartOf(frame))'
      BY <1>1
    <3>1. Counted(window, StartOf(frame))
      BY DEF IntactInv
    <3> QED
      BY <1>1, <3>1 DEF Counted, Taken, At, Loaded, EndsIn, Bytes, StartOf
  <2>2. Answered' => Right(got)'
    <3> SUFFICES ASSUME Answered' PROVE Right(got)'
      OBVIOUS
    <3>1. Answered
      BY <1>1 DEF Answered, NoCall
    <3>2. Right(got)
      BY <3>1 DEF IntactInv
    <3> QED
      BY <1>1, <3>2, SameAsked
  <2>3. frame' # 0 => AtEnd(StartOf(frame))' \/ BehindTail'
    <3> SUFFICES ASSUME frame # 0 PROVE AtEnd(StartOf(frame))' \/ BehindTail'
      BY <1>1
    <3>1. AtEnd(StartOf(frame)) \/ BehindTail
      BY <1>5 DEF IntactInv
    <3> QED
      BY <1>1, <3>1 DEF AtEnd, BehindTail, At, StartOf
  <2> QED
    BY <1>1, <1>2, <1>5, <2>1, <2>2, <2>3 DEF IntactInv
<1> QED
  BY <1>4, <1>5

\* Every step keeps it.
LEMMA IntactNext ==
  ASSUME FrameInv, IntactInv, [Next]_vars
  PROVE  IntactInv'
<1>1. ASSUME NEW from \in 0 .. MaxIndex, NEW cnt \in 0 .. MaxCount, RecordsTo(from, cnt)
      PROVE  IntactInv'
  BY <1>1, RecordsToReads, FrameReadsAssumption
<1>2. ASSUME NEW from \in 0 .. MaxIndex, RecordsFrom(from)
      PROVE  IntactInv'
  BY <1>2, RecordsFromReads, FrameReadsAssumption
<1>3. ASSUME NEW index \in 0 .. MaxIndex, Record(index)
      PROVE  IntactInv'
  BY <1>3, RecordReads, FrameReadsAssumption
<1>4. ASSUME Step, UNCHANGED asked
      PROVE  IntactInv'
  BY <1>4, StepReads
<1>5. CASE UNCHANGED vars
  BY <1>5, IntactStays
<1> QED
  BY <1>1, <1>2, <1>3, <1>4, <1>5 DEF Next

\* Of a file that keeps the invariant of docs/format.md, however it was opened,
\* record, records_to and records_from answer the records of the numbers asked for.
\* They are refused only past the last of these, where nothing or a fragment is. Of
\* a final record without an end a lookup finds nothing where it has just been
\* handed out. No borrowed iterator is begun behind all full frames while a
\* lookup's note of its frame stands (Unbegun): the note would be stale after it.
THEOREM IntactFilesAreRead == Spec => []IntactIsRead
<1>1. Init => IntactInv
  BY IntactInit
<1>2. FrameInv /\ IntactInv /\ [Next]_vars => IntactInv'
  BY IntactNext
<1>3. IntactInv => IntactIsRead
  BY DEF IntactInv, IntactIsRead, Right
<1> QED
  BY <1>1, <1>2, <1>3, FramesKept, PTL DEF Spec

================================================================================
