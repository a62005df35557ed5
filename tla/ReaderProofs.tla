------------------------------ MODULE ReaderProofs -----------------------------
(***************************************************************************)
(* That the note of where the window is can be trusted, that every call    *)
(* answers as it should whatever was called before, and that the iterators *)
(* are queues, for every file and every sequence of calls in which no      *)
(* borrowed iterator is begun right behind all full frames.                *)
(***************************************************************************)
EXTENDS Reader, TLAPS

WindowFields == {"first", "last", "walked", "front", "eof", "taken"}
IterFields == {"kind", "front", "backFrame", "backLeft", "armed", "spent", "call", "item"}

\* The invariant: a borrowed iterator that has not read yet has something to
\* read, so that it will not be refused after moving the window; only an owned
\* one that has not ended reads backwards.
Shapes ==
  /\ file \in Files
  /\ DOMAIN window = WindowFields
  /\ DOMAIN iter = IterFields
  /\ iter.kind \in {None, Borrowed, Owned}
  /\ iter.backFrame \in Nat \ {0}
BorrowedCanRead ==
  iter.kind = Borrowed /\ ~iter.armed => iter.front # Slots \/ FinalSlotIsTail
BackIsOwned == iter.call = Back => iter.kind = Owned /\ ~iter.spent
NoteInv == Shapes /\ WindowIsNoted /\ BorrowedCanRead /\ BackIsOwned

--------------------------------------------------------------------------------
\* Walking moves on within the frames the window was pointed at.
SameSpan(v, w) == DOMAIN v = WindowFields /\ v.first = w.first /\ v.last = w.last

LEMMA WalkStays ==
  ASSUME NEW w, DOMAIN w = WindowFields, NEW n, NEW v \in Walk(w, n)
  PROVE  SameSpan(v, w)
BY DEF Walk, SameSpan, WindowFields

LEMMA RunOutStays ==
  ASSUME NEW w, DOMAIN w = WindowFields
  PROVE  SameSpan(RunOut(w), w)
BY DEF RunOut, SameSpan, WindowFields

LEMMA HandOutStays ==
  ASSUME NEW w, DOMAIN w = WindowFields, NEW n, NEW read \in HandOut(w, n)
  PROVE  SameSpan(read.window, w)
<1> DEFINE over == RunOut(w)
           taken == [over EXCEPT !.taken = TRUE]
<1>1. SameSpan(over, w)
  BY RunOutStays
<1>2. SameSpan(taken, w)
  BY <1>1 DEF SameSpan, WindowFields
<1>3. read.window \in Walk(w, n) \/ read.window = over \/ read.window = taken
  <2>1. CASE n <= Left(w)
    BY <2>1 DEF HandOut
  <2>2. CASE ~(n <= Left(w)) /\ ~HasFragment(w)
    BY <2>2 DEF HandOut
  <2>3. CASE ~(n <= Left(w)) /\ HasFragment(w) /\ TailIsRecord
    BY <2>3 DEF HandOut
  <2>4. CASE ~(n <= Left(w)) /\ HasFragment(w) /\ ~TailIsRecord
    BY <2>4 DEF HandOut
  <2> QED
    BY <2>1, <2>2, <2>3, <2>4
<1> HIDE DEF over, taken
<1> QED
  BY <1>1, <1>2, <1>3, WalkStays

LEMMA ReadStays ==
  ASSUME NEW w, DOMAIN w = WindowFields, NEW skip, NEW n, NEW short,
         NEW read \in Read(w, skip, n, short)
  PROVE  SameSpan(read.window, w)
<1>1. CASE skip <= Left(w)
  <2>1. PICK v \in Walk(w, skip) : read \in HandOut(v, n)
    BY <1>1 DEF Read
  <2>2. SameSpan(v, w)
    BY WalkStays
  <2>3. SameSpan(read.window, v)
    BY <2>1, <2>2, HandOutStays DEF SameSpan
  <2> QED
    BY <2>2, <2>3 DEF SameSpan
<1>2. CASE ~(skip <= Left(w))
  BY <1>2, RunOutStays DEF Read
<1> QED
  BY <1>1, <1>2

LEMMA PointShape ==
  ASSUME NEW f, NEW g
  PROVE  DOMAIN Point(f, g) = WindowFields /\ Point(f, g).first = f /\ Point(f, g).last = g
BY DEF Point, WindowFields

\* walk_to leaves a window over the frame asked for, if its note is true.
LEMMA WalkToPlaces ==
  ASSUME DOMAIN window = WindowFields,
         frame # 0 => window.first = frame /\ window.last = frame,
         NEW f, f # 0, NEW index
  PROVE  LET w == WalkTo(f, index).window
         IN  DOMAIN w = WindowFields /\ w.first = f /\ w.last = f
<1> DEFINE back == [window EXCEPT !.walked = window.front, !.taken = FALSE]
           w == WalkTo(f, index).window
<1>1. \/ w = window /\ frame = f
      \/ w = back /\ frame = f
      \/ w = Point(f, f)
  BY DEF WalkTo
<1>2. SameSpan(back, window)
  BY DEF SameSpan, WindowFields
<1> HIDE DEF back, w
<1>3. DOMAIN w = WindowFields /\ w.first = f /\ w.last = f
  BY <1>1, <1>2, PointShape DEF SameSpan
<1> QED
  BY <1>3 DEF w

--------------------------------------------------------------------------------
\* Files have frames, so 0 is no frame's number.
LEMMA FramesAreNumbered ==
  ASSUME file \in Files
  PROVE  LastFrame \in Nat \ {0} /\ PerFrame \in Nat \ {0}
<1>1. file \in FileType /\ file.ends # <<>> /\ file.ends[1] > 0
  BY FilesAssumption
<1>2. file.ends \in Seq(Nat) /\ Len(file.ends) \in Nat /\ Len(file.ends) # 0
  BY <1>1 DEF FileType
<1>3. file.ends[1] \in Nat
  BY <1>2
<1> QED
  BY <1>1, <1>2, <1>3 DEF LastFrame, PerFrame

LEMMA Initially ==
  Init => NoteInv
BY DEF Init, LookupInit, NoIter, NoteInv, Shapes, WindowIsNoted, BorrowedCanRead,
       BackIsOwned, Point, WindowFields, IterFields, None, Borrowed, Idle, Back

\* A call that leaves no note, or one that names the window's only frame, and
\* there being no iterator.
LEMMA CallKeeps ==
  ASSUME NoteInv, iter = NoIter, UNCHANGED <<file, iter>>,
         DOMAIN window' = WindowFields,
         frame' # 0 => window'.first = frame' /\ window'.last = frame'
  PROVE  NoteInv'
BY DEF NoteInv, Shapes, WindowIsNoted, BorrowedCanRead, BackIsOwned, NoIter,
       None, Borrowed, Owned, Idle, Back

LEMMA ProbedShape ==
  ASSUME NEW w, DOMAIN w = WindowFields, NEW from
  PROVE  DOMAIN Probed(w, from) = WindowFields
BY PointShape, RunOutStays DEF Probed, SameSpan

LEMMA RecordKeeps ==
  ASSUME NoteInv, NEW i \in Nat, Record(i)
  PROVE  NoteInv'
<1> USE DEF NoteInv, Shapes
<1> DEFINE f == FirstFrame(i)
           at == IF i = Slots THEN [window |-> Point(f, f), skip |-> Skipped(i)]
                 ELSE WalkTo(f, Skipped(i))
<1>1. iter = NoIter /\ UNCHANGED <<file, iter>>
  BY DEF Record
<1>2. frame # 0 => window.first = frame /\ window.last = frame
  BY <1>1 DEF WindowIsNoted, NoIter, None, Owned
<1>3. CASE PastEnd(i) /\ window' = Probed(window, i)
             /\ frame' = (IF i = Slots THEN 0 ELSE frame)
  <2>1. i # Slots => window' = window
    BY <1>3 DEF Probed
  <2>2. DOMAIN window' = WindowFields
    BY <1>3, ProbedShape
  <2> QED
    BY <1>1, <1>2, <1>3, <2>1, <2>2, CallKeeps
<1>4. CASE /\ \E read \in Read(at.window, at.skip, 1, <<>>) : window' = read.window
           /\ frame' = f
  <2>1. f # 0
    BY FramesAreNumbered DEF FirstFrame, FrameOf
  <2>2. DOMAIN at.window = WindowFields /\ at.window.first = f /\ at.window.last = f
    <3>1. CASE i = Slots
      BY <3>1, PointShape
    <3>2. CASE i # Slots
      BY <3>2, <1>2, <2>1, WalkToPlaces
    <3> QED
      BY <3>1, <3>2
  <2> HIDE DEF f, at
  <2>3. SameSpan(window', at.window)
    BY <1>4, <2>2, ReadStays
  <2> QED
    BY <1>1, <1>4, <2>2, <2>3, CallKeeps DEF SameSpan
<1> QED
  BY <1>3, <1>4 DEF Record

LEMMA OtherCallsKeep ==
  ASSUME NoteInv, NEW i \in Nat, NEW cnt \in Nat,
         RecordsTo(i, cnt) \/ FoldRecords(i, cnt) \/ TotalRecords
  PROVE  NoteInv'
<1> USE DEF NoteInv, Shapes
<1>1. iter = NoIter /\ UNCHANGED <<file, iter>>
  BY DEF RecordsTo, FoldRecords, TotalRecords
<1>2. frame # 0 => window.first = frame /\ window.last = frame
  BY <1>1 DEF WindowIsNoted, NoIter, None, Owned
<1>3. CASE RecordsTo(i, cnt)
  <2>1. CASE window' = Probed(window, i) /\ frame' = (IF i = Slots THEN 0 ELSE frame)
    <3>1. i # Slots => window' = window
      BY <2>1 DEF Probed
    <3> QED
      BY <1>1, <1>2, <2>1, <3>1, ProbedShape, CallKeeps
  <2>2. CASE /\ \E read \in Read(Span(i, cnt), Skipped(i), cnt, Refused) :
                  window' = read.window
             /\ frame' = 0
    <3>1. DOMAIN window' = WindowFields
      BY <2>2, PointShape, ReadStays DEF Span, SameSpan
    <3> QED
      BY <1>1, <2>2, <3>1, CallKeeps
  <2> QED
    BY <1>3, <2>1, <2>2 DEF RecordsTo
<1>4. CASE FoldRecords(i, cnt)
  <2>1. CASE UNCHANGED <<window, frame>>
    BY <1>1, <1>2, <2>1, CallKeeps
  <2>2. CASE /\ \E read \in Read(Span(i, cnt), Skipped(i), cnt, Refused) :
                  window' = read.window
             /\ frame' = 0
    <3>1. DOMAIN window' = WindowFields
      BY <2>2, PointShape, ReadStays DEF Span, SameSpan
    <3> QED
      BY <1>1, <2>2, <3>1, CallKeeps
  <2> QED
    BY <1>4, <2>1, <2>2 DEF FoldRecords
<1>5. CASE TotalRecords
  <2>1. DOMAIN window' = WindowFields /\ frame' = 0
    BY <1>5, PointShape, HandOutStays DEF TotalRecords, ReadAll, SameSpan
  <2> QED
    BY <1>1, <2>1, CallKeeps
<1> QED
  BY <1>3, <1>4, <1>5

--------------------------------------------------------------------------------
\* What the file is does not change, nor what is behind its full frames.
LEMMA FileStays ==
  ASSUME UNCHANGED file
  PROVE  Slots' = Slots /\ FinalSlotIsTail' = FinalSlotIsTail
BY DEF Slots, FinalSlotIsTail, PerFrame, LastFrame, TailIsRecord, StartOf

\* next, from any window and note that a call of next or next_back may have.
LEMMA ForwardKeeps ==
  ASSUME NoteInv, iter.kind # None, ~PastTheEnd, UNCHANGED file,
         NEW w, NEW f, DOMAIN w = WindowFields,
         ~(iter.kind = Owned /\ iter.spent) => (f # 0 => w.first = f /\ w.last = f),
         Forward(w, f)
  PROVE  NoteInv'
<1> USE DEF NoteInv, Shapes
<1>1. CASE /\ iter' = [iter EXCEPT !.item = <<>>, !.call = Idle]
           /\ window' = w /\ frame' = f
  BY <1>1, FileStays DEF WindowIsNoted, BorrowedCanRead, BackIsOwned, IterFields, Idle, Back
<1>2. ASSUME NEW got, Give(got)
      PROVE  /\ DOMAIN iter' = IterFields /\ iter'.backFrame = iter.backFrame
             /\ iter'.kind = iter.kind /\ iter'.armed /\ iter'.call = Idle
             /\ iter'.spent = (got \in {<<>>, Refused})
  BY <1>2 DEF Give, IterFields
<1>3. ASSUME NEW got, Give(got), DOMAIN window' = WindowFields,
             \/ iter.kind = Owned /\ got = Refused
             \/ frame' # 0 => window'.first = frame' /\ window'.last = frame'
      PROVE  NoteInv'
  <2> HIDE DEF Give
  <2>1. /\ DOMAIN iter' = IterFields /\ iter'.backFrame = iter.backFrame
        /\ iter'.kind = iter.kind /\ iter'.armed /\ iter'.call = Idle
        /\ iter'.spent = (got \in {<<>>, Refused})
    BY <1>2, <1>3
  <2>2. WindowIsNoted'
    BY <1>3, <2>1 DEF WindowIsNoted
  <2> QED
    BY <1>3, <2>1, <2>2 DEF BorrowedCanRead, BackIsOwned, Idle, Back
<1>4. CASE /\ ~iter.spent /\ ~iter.armed /\ PastEnd(iter.front)
           /\ Give(Refused)
           /\ window' = Probed(w, iter.front) /\ frame' = f
  <2>1. DOMAIN window' = WindowFields
    BY <1>4, ProbedShape
  <2>2. CASE iter.kind = Owned
    BY <1>3, <1>4, <2>1, <2>2
  <2>3. CASE iter.kind = Borrowed
    <3>1. Slots \in Nat
      BY FramesAreNumbered DEF Slots
    <3>2. iter.front # Slots
      BY <1>4, <2>3, <3>1 DEF BorrowedCanRead, PastEnd
    <3>3. window' = w
      BY <1>4, <3>2 DEF Probed
    <3> QED
      BY <1>3, <1>4, <2>1, <3>3
  <2> QED
    BY <2>2, <2>3
<1>5. CASE /\ \E read \in Read(SpanToEnd(iter.front), Skipped(iter.front), 1, Refused) :
                Give(read.got) /\ window' = read.window
           /\ frame' = 0
  <2>1. DOMAIN window' = WindowFields
    BY <1>5, PointShape, ReadStays DEF SpanToEnd, SameSpan
  <2> QED
    BY <1>3, <1>5, <2>1
<1>6. CASE /\ ~iter.spent
           /\ \E read \in HandOut(w, 1) : Give(read.got) /\ window' = read.window
           /\ frame' = f
  <2>1. SameSpan(window', w)
    BY <1>6, HandOutStays
  <2> QED
    BY <1>3, <1>6, <2>1 DEF SameSpan
<1> QED
  BY <1>1, <1>4, <1>5, <1>6 DEF Forward

LEMMA StartKeeps ==
  ASSUME NoteInv, ~PastTheEnd, NEW i \in Nat, RecordsFrom(i) \/ IntoRecordsFrom(i)
  PROVE  NoteInv'
<1> USE DEF NoteInv, Shapes
<1>1. iter = NoIter /\ UNCHANGED <<file, window, frame>>
  BY DEF RecordsFrom, IntoRecordsFrom
<1>2. frame # 0 => window.first = frame /\ window.last = frame
  BY <1>1 DEF WindowIsNoted, NoIter, None, Owned
<1>3. /\ iter' = Iter(Borrowed, i) \/ iter' = Iter(Owned, i)
      /\ iter' = Iter(Borrowed, i) => i # Slots \/ FinalSlotIsTail
  BY DEF RecordsFrom, IntoRecordsFrom, Iter, Borrowed, Owned
<1>4. LastFrame \in Nat \ {0}
  BY FramesAreNumbered
<1>5. /\ DOMAIN iter' = IterFields /\ iter'.backFrame = LastFrame
      /\ iter'.front = i /\ iter'.call = Idle
      /\ iter'.kind \in {Borrowed, Owned}
      /\ iter'.kind = Borrowed => i # Slots \/ FinalSlotIsTail
  BY <1>3 DEF Iter, IterFields, Borrowed, Owned
<1>6. WindowIsNoted'
  BY <1>1, <1>2 DEF WindowIsNoted
<1>7. BorrowedCanRead'
  BY <1>1, <1>5, FileStays DEF BorrowedCanRead
<1> QED
  BY <1>1, <1>4, <1>5, <1>6, <1>7 DEF BackIsOwned, Idle, Back

LEMMA CountFrameKeeps ==
  ASSUME NoteInv, ~PastTheEnd, CountFrame
  PROVE  NoteInv'
<1> USE DEF NoteInv, Shapes
<1> DEFINE f == iter.backFrame
           w == WalkTo(f, 0).window
<1>1. iter.kind = Owned /\ ~iter.spent /\ iter.call = Back /\ UNCHANGED file
  BY DEF CountFrame, BackIsOwned
<1>2. DOMAIN w = WindowFields /\ w.first = f /\ w.last = f
  BY <1>1, WalkToPlaces DEF WindowIsNoted
<1>3. PICK read \in ReadAll(w) :
        \/ Give(Refused) /\ window' = read.window /\ frame' = f
        \/ Forward(read.window, 0)
        \/ /\ iter' = [iter EXCEPT !.backLeft = Len(read.got)]
           /\ window' = read.window /\ frame' = 0
  BY DEF CountFrame
<1> HIDE DEF w
<1>4. SameSpan(read.window, w)
  BY <1>2, <1>3, HandOutStays DEF ReadAll
<1>5. CASE Give(Refused) /\ window' = read.window /\ frame' = f
  <2>1. iter' = [iter EXCEPT !.item = Refused, !.call = Idle, !.armed = TRUE,
                             !.front = iter.front, !.spent = TRUE]
    BY <1>5 DEF Give
  <2> QED
    BY <1>1, <1>2, <1>4, <1>5, <2>1
       DEF SameSpan, WindowIsNoted, BorrowedCanRead, BackIsOwned, IterFields, Owned,
           Borrowed, Idle, Back
<1>6. CASE Forward(read.window, 0)
  BY <1>1, <1>2, <1>4, <1>6, ForwardKeeps DEF SameSpan, None, Owned
<1>7. CASE /\ iter' = [iter EXCEPT !.backLeft = Len(read.got)]
           /\ window' = read.window /\ frame' = 0
  BY <1>1, <1>2, <1>4, <1>7
     DEF SameSpan, WindowIsNoted, BorrowedCanRead, BackIsOwned, IterFields, Owned, Borrowed
<1> QED
  BY <1>3, <1>5, <1>6, <1>7

LEMMA GiveBackKeeps ==
  ASSUME NoteInv, GiveBack
  PROVE  NoteInv'
<1> USE DEF NoteInv, Shapes
<1> DEFINE f == iter.backFrame
           at == WalkTo(f, iter.backLeft - 1)
<1>1. iter.kind = Owned /\ ~iter.spent /\ UNCHANGED file
  BY DEF GiveBack, BackIsOwned
<1>2. DOMAIN at.window = WindowFields /\ at.window.first = f /\ at.window.last = f
  BY <1>1, WalkToPlaces DEF WindowIsNoted
<1>3. CASE /\ iter' = [iter EXCEPT !.spent = TRUE, !.item = <<>>, !.call = Idle]
           /\ UNCHANGED <<window, frame>>
  BY <1>1, <1>3
     DEF WindowIsNoted, BorrowedCanRead, BackIsOwned, IterFields, Owned, Borrowed, Idle, Back
<1>4. ASSUME NEW read \in Read(at.window, at.skip, 1, Refused),
             window' = read.window, frame' = f,
             \/ iter' = [iter EXCEPT !.item = Refused, !.spent = TRUE, !.call = Idle]
             \/ iter' = [iter EXCEPT !.backLeft = iter.backLeft - 1]
             \/ iter' = [iter EXCEPT !.item = read.got, !.backLeft = iter.backLeft - 1,
                                     !.call = Idle]
      PROVE  NoteInv'
  <2> HIDE DEF at
  <2>1. SameSpan(window', at.window)
    BY <1>2, <1>4, ReadStays
  <2>2. DOMAIN window' = WindowFields /\ window'.first = f /\ window'.last = f
    BY <1>2, <2>1 DEF SameSpan
  <2>3. DOMAIN iter' = IterFields /\ iter'.kind = Owned /\ iter'.backFrame = f
    BY <1>1, <1>4 DEF IterFields
  <2>4. iter'.call = Back => ~iter'.spent
    BY <1>1, <1>4 DEF IterFields, Idle, Back
  <2> QED
    BY <1>1, <1>4, <2>2, <2>3, <2>4
       DEF WindowIsNoted, BorrowedCanRead, BackIsOwned, Owned, Borrowed
<1> QED
  BY <1>3, <1>4 DEF GiveBack

LEMMA Inductive ==
  ASSUME ~PastTheEnd, NoteInv, [Next]_vars
  PROVE  NoteInv'
<1> USE DEF NoteInv, Shapes
<1>1. ASSUME NEW i \in 0..MaxIndex, Record(i) \/ RecordsFrom(i) \/ IntoRecordsFrom(i)
      PROVE  NoteInv'
  BY <1>1, ReaderAssumption, RecordKeeps, StartKeeps
<1>2. ASSUME NEW i \in 0..MaxIndex, NEW cnt \in 0..MaxCount,
             RecordsTo(i, cnt) \/ FoldRecords(i, cnt)
      PROVE  NoteInv'
  BY <1>2, ReaderAssumption, OtherCallsKeep
<1>3. CASE TotalRecords
  <2>1. 0 \in Nat
    OBVIOUS
  <2> QED
    BY <1>3, <2>1, OtherCallsKeep
<1>4. CASE NextItem
  <2>1. iter.kind # None => iter.kind \in {Borrowed, Owned}
    OBVIOUS
  <2> QED
    BY <1>4, <2>1, ForwardKeeps DEF NextItem, WindowIsNoted
<1>5. CASE NextBack
  BY <1>5 DEF NextBack, WindowIsNoted, BorrowedCanRead, BackIsOwned, IterFields,
              Owned, Borrowed, Idle, Back
<1>6. CASE CountFrame
  BY <1>6, CountFrameKeeps
<1>7. CASE FrameBefore
  BY <1>7 DEF FrameBefore, WindowIsNoted, BorrowedCanRead, BackIsOwned, IterFields,
              Owned, Borrowed, Idle, Back
<1>8. CASE GiveBack
  BY <1>8, GiveBackKeeps
<1>9. CASE DropIter
  BY <1>9 DEF DropIter, NoIter, WindowIsNoted, BorrowedCanRead, BackIsOwned, IterFields,
              None, Owned, Borrowed, Idle, Back
<1>10. CASE UNCHANGED vars
  BY <1>10, FileStays DEF vars, WindowIsNoted, BorrowedCanRead, BackIsOwned
<1> QED
  BY <1>1, <1>2, <1>3, <1>4, <1>5, <1>6, <1>7, <1>8, <1>9, <1>10 DEF Next

--------------------------------------------------------------------------------
\* Lookup.frame never names a frame the window is not on, as long as no borrowed
\* iterator begins behind all full frames: what walk_to goes on from is what it
\* says (src/src/reader.rs, Lookup).
THEOREM NoteIsTrue ==
  ASSUME ~PastTheEnd
  PROVE  Spec => []WindowIsNoted
<1>1. NoteInv => WindowIsNoted
  BY DEF NoteInv
<1> QED
  BY <1>1, Initially, Inductive, PTL DEF Spec

--------------------------------------------------------------------------------
(***************************************************************************)
(* Where a record is, by division.                                         *)
(***************************************************************************)
LEMMA TimesGrows ==
  ASSUME NEW a \in Nat, NEW b \in Nat, NEW n \in Nat, a <= b
  PROVE  a * n <= b * n
<1>1. PICK d \in Nat : b = a + d
  <2>1. b - a \in Nat /\ b = a + (b - a)
    OBVIOUS
  <2> QED
    BY <2>1
<1>2. (a + d) * n = a * n + d * n
  OBVIOUS
<1>3. a * n \in Nat /\ d * n \in Nat
  OBVIOUS
<1> QED
  BY <1>1, <1>2, <1>3

LEMMA OneLess ==
  ASSUME NEW f \in Nat \ {0}, NEW n \in Nat
  PROVE  (f - 1) * n \in Nat /\ f * n \in Nat /\ (f - 1) * n + n = f * n
OBVIOUS

\* A seek table of a uniform file: every frame begins at a multiple of the
\* count, and all but the last end at the next.
LEMMA FramesAreEven ==
  ASSUME file \in Files
  PROVE  /\ LastFrame \in Nat \ {0} /\ PerFrame \in Nat \ {0} /\ Records \in Nat
         /\ \A f \in 1 .. LastFrame :
              /\ file.ends[f] \in Nat
              /\ StartOf(f) \in Nat /\ StartOf(f) = (f - 1) * PerFrame
              /\ StartOf(f) <= file.ends[f] /\ file.ends[f] <= StartOf(f) + PerFrame
              /\ f < LastFrame => file.ends[f] = f * PerFrame
                                  /\ file.ends[f] = StartOf(f) + PerFrame
         /\ Slots \in Nat /\ Slots = StartOf(LastFrame) + PerFrame
         /\ file.part \in BOOLEAN /\ file.separated \in BOOLEAN
<1>1. LastFrame \in Nat \ {0} /\ PerFrame \in Nat \ {0}
  BY FramesAreNumbered
<1>2. /\ file.ends \in Seq(Nat) /\ file.part \in BOOLEAN /\ file.separated \in BOOLEAN
      /\ \A i \in 1 .. Len(file.ends) - 1 : file.ends[i] = i * file.ends[1]
      /\ file.ends[Len(file.ends)]
           \in (Len(file.ends) - 1) * file.ends[1] .. Len(file.ends) * file.ends[1]
  BY FilesAssumption, UniformAssumption DEF FileType
<1>3. \A f \in 1 .. LastFrame : file.ends[f] \in Nat
  BY <1>2 DEF LastFrame
<1>4. \A f \in 1 .. LastFrame - 1 : file.ends[f] = f * PerFrame
  BY <1>2 DEF LastFrame, PerFrame
<1>5. /\ (LastFrame - 1) * PerFrame <= file.ends[LastFrame]
      /\ file.ends[LastFrame] <= LastFrame * PerFrame
  <2>1. (LastFrame - 1) * PerFrame \in Nat /\ LastFrame * PerFrame \in Nat
    BY <1>1, OneLess
  <2>2. file.ends[LastFrame] \in (LastFrame - 1) * PerFrame .. LastFrame * PerFrame
    BY <1>2 DEF LastFrame, PerFrame
  <2> QED
    BY <2>1, <2>2
<1>6. ASSUME NEW f \in 1 .. LastFrame
      PROVE  StartOf(f) \in Nat /\ StartOf(f) = (f - 1) * PerFrame
  <2>1. CASE f = 1
    BY <1>1, <2>1 DEF StartOf
  <2>2. CASE f # 1
    <3>1. f - 1 \in 1 .. LastFrame - 1 /\ f - 1 \in 1 .. LastFrame
      BY <1>1, <2>2
    <3> QED
      BY <1>3, <1>4, <2>2, <3>1 DEF StartOf
  <2> QED
    BY <2>1, <2>2
<1>7. ASSUME NEW f \in 1 .. LastFrame
      PROVE  /\ StartOf(f) <= file.ends[f] /\ file.ends[f] <= StartOf(f) + PerFrame
             /\ f < LastFrame => file.ends[f] = f * PerFrame
                                  /\ file.ends[f] = StartOf(f) + PerFrame
  <2>1. /\ (f - 1) * PerFrame \in Nat /\ f * PerFrame \in Nat
        /\ (f - 1) * PerFrame + PerFrame = f * PerFrame
    BY <1>1, OneLess
  <2>2. CASE f < LastFrame
    <3>1. f \in 1 .. LastFrame - 1
      BY <1>1, <2>2
    <3>2. file.ends[f] = f * PerFrame
      BY <1>4, <3>1
    <3> QED
      BY <1>1, <1>6, <2>1, <3>2
  <2>3. CASE f = LastFrame
    BY <1>1, <1>3, <1>5, <1>6, <2>1, <2>3
  <2> QED
    BY <1>1, <2>2, <2>3
<1>8. Slots \in Nat /\ Slots = StartOf(LastFrame) + PerFrame
  <2>1. /\ (LastFrame - 1) * PerFrame + PerFrame = LastFrame * PerFrame
        /\ LastFrame * PerFrame \in Nat
    BY <1>1, OneLess
  <2>2. LastFrame \in 1 .. LastFrame
    BY <1>1
  <2>3. Slots = LastFrame * PerFrame
    BY <1>1 DEF Slots
  <2> QED
    BY <1>6, <2>1, <2>2, <2>3
<1>9. Records \in Nat
  BY <1>1, <1>3 DEF Records
<1> QED
  BY <1>1, <1>2, <1>3, <1>6, <1>7, <1>8, <1>9

LEMMA SpansAreNat ==
  ASSUME file \in Files, NEW f \in 1 .. LastFrame, NEW g \in f .. LastFrame
  PROVE  g \in 1 .. LastFrame /\ StartOf(f) <= file.ends[g] /\ StartOf(f) <= StartOf(g)
<1>1. /\ LastFrame \in Nat /\ PerFrame \in Nat
      /\ \A h \in 1 .. LastFrame :
           /\ file.ends[h] \in Nat /\ StartOf(h) \in Nat /\ StartOf(h) = (h - 1) * PerFrame
           /\ StartOf(h) <= file.ends[h]
  BY FramesAreEven
<1>2. g \in 1 .. LastFrame /\ f - 1 \in Nat /\ g - 1 \in Nat /\ f - 1 <= g - 1
  BY <1>1
<1>3. (f - 1) * PerFrame <= (g - 1) * PerFrame
  BY <1>1, <1>2, TimesGrows
<1>4. StartOf(f) <= StartOf(g) /\ StartOf(g) <= file.ends[g]
  BY <1>1, <1>2, <1>3
<1> QED
  BY <1>1, <1>2, <1>4

LEMMA Quotient ==
  ASSUME NEW i \in Nat, NEW n \in Nat \ {0}
  PROVE  /\ i \div n \in Nat
         /\ (i \div n) * n <= i /\ i < (i \div n) * n + n
OBVIOUS

\* The frame a number is placed in, whether or not there is such a frame.
LEMMA FrameOfIs ==
  ASSUME file \in Files, NEW i \in Nat
  PROVE  /\ FrameOf(i) \in Nat \ {0}
         /\ (FrameOf(i) - 1) * PerFrame <= i /\ i < FrameOf(i) * PerFrame
         /\ i < Slots => FrameOf(i) <= LastFrame
         /\ i >= Slots => FrameOf(i) > LastFrame
         /\ \A j \in Nat : i <= j => FrameOf(i) <= FrameOf(j)
<1>1. LastFrame \in Nat \ {0} /\ PerFrame \in Nat \ {0} /\ Slots = LastFrame * PerFrame
  BY FramesAreEven DEF Slots
<1>2. ASSUME NEW j \in Nat
      PROVE  /\ FrameOf(j) \in Nat \ {0}
             /\ (FrameOf(j) - 1) * PerFrame \in Nat
             /\ (FrameOf(j) - 1) * PerFrame <= j /\ j < FrameOf(j) * PerFrame
             /\ FrameOf(j) * PerFrame \in Nat
  <2> DEFINE q == j \div PerFrame
  <2>1. q \in Nat /\ q * PerFrame <= j /\ j < q * PerFrame + PerFrame
    BY <1>1, Quotient
  <2>2. FrameOf(j) = q + 1
    BY DEF FrameOf
  <2> HIDE DEF q
  <2>3. q + 1 \in Nat \ {0} /\ (q + 1) - 1 = q
    BY <2>1
  <2>4. q * PerFrame + PerFrame = (q + 1) * PerFrame /\ q * PerFrame \in Nat
        /\ (q + 1) * PerFrame \in Nat
    BY <1>1, <2>1, <2>3, OneLess
  <2> QED
    BY <2>1, <2>2, <2>3, <2>4
<1>3. ASSUME NEW a \in Nat \ {0}, NEW b \in Nat, (a - 1) * PerFrame < b * PerFrame
      PROVE  a <= b
  <2>1. SUFFICES ASSUME b <= a - 1 PROVE FALSE
    OBVIOUS
  <2>2. a - 1 \in Nat
    OBVIOUS
  <2>3. b * PerFrame <= (a - 1) * PerFrame
    BY <1>1, <2>1, <2>2, TimesGrows
  <2>4. b * PerFrame \in Nat /\ (a - 1) * PerFrame \in Nat
    BY <1>1, <2>2
  <2> QED
    BY <1>3, <2>3, <2>4
<1>4. i < Slots => FrameOf(i) <= LastFrame
  <2>1. LastFrame * PerFrame \in Nat
    BY <1>1
  <2>2. i < Slots => (FrameOf(i) - 1) * PerFrame < LastFrame * PerFrame
    BY <1>1, <1>2, <2>1
  <2> QED
    BY <1>1, <1>2, <1>3, <2>2
<1>5. i >= Slots => FrameOf(i) > LastFrame
  <2>1. LastFrame * PerFrame \in Nat /\ LastFrame \in Nat
    BY <1>1
  <2>2. i >= Slots /\ FrameOf(i) <= LastFrame => FrameOf(i) * PerFrame <= LastFrame * PerFrame
    BY <1>1, <1>2, <2>1, TimesGrows
  <2> QED
    BY <1>1, <1>2, <2>1, <2>2
<1>6. ASSUME NEW j \in Nat, i <= j PROVE FrameOf(i) <= FrameOf(j)
  <2>1. (FrameOf(i) - 1) * PerFrame < FrameOf(j) * PerFrame
    BY <1>2, <1>6
  <2> QED
    BY <1>2, <1>3, <2>1
<1> QED
  BY <1>2, <1>4, <1>5, <1>6

--------------------------------------------------------------------------------
(***************************************************************************)
(* What a read hands out.                                                  *)
(***************************************************************************)
\* A window of the file, walked no further than its records go.  The fragment at
\* the end is handed out behind all of them.
WindowOK(w) ==
  /\ DOMAIN w = WindowFields
  /\ w.first \in 1 .. LastFrame /\ w.last \in w.first .. LastFrame
  /\ w.walked \in 0 .. file.ends[w.last] - StartOf(w.first)
  /\ w.front \in 0 .. w.walked
  /\ w.eof \in BOOLEAN /\ w.taken \in BOOLEAN
  /\ w.taken => /\ w.last = LastFrame /\ w.walked = Records - StartOf(w.first)
                /\ file.part /\ TailIsRecord

\* What comes of asking a window that ends before record end for n records from
\* number from on.
Numbers(from, k) == [i \in 1..k |-> from + i - 1]
Handed(end, fragment, from, n, got) ==
  IF from + n <= end THEN got = Numbers(from, n)
  ELSE IF ~fragment THEN got = Numbers(from, end - from)
  ELSE IF TailIsRecord THEN got = Numbers(from, end - from + 1)
  ELSE got = Refused

LEMMA WindowSpan ==
  ASSUME file \in Files, NEW w, WindowOK(w)
  PROVE  /\ w.walked \in Nat /\ w.front \in Nat /\ w.front <= w.walked
         /\ StartOf(w.first) \in Nat /\ file.ends[w.last] \in Nat
         /\ Left(w) \in Nat /\ Left(w) = file.ends[w.last] - StartOf(w.first) - w.walked
         /\ NumberOf(w) \in Nat /\ NumberOf(w) = StartOf(w.first) + w.walked
<1>1. w.first \in 1 .. LastFrame /\ w.last \in 1 .. LastFrame
  BY SpansAreNat DEF WindowOK
<1>2. StartOf(w.first) \in Nat /\ file.ends[w.last] \in Nat
  BY <1>1, FramesAreEven
<1> QED
  BY <1>2 DEF WindowOK, Left, NumberOf

LEMMA PointIs ==
  ASSUME file \in Files, NEW f \in 1 .. LastFrame, NEW g \in f .. LastFrame
  PROVE  WindowOK(Point(f, g)) /\ NumberOf(Point(f, g)) = StartOf(f)
<1>1. StartOf(f) <= file.ends[g] /\ StartOf(f) \in Nat /\ file.ends[g] \in Nat
  BY SpansAreNat, FramesAreEven
<1> QED
  BY <1>1 DEF Point, WindowOK, WindowFields, NumberOf

LEMMA WalkIs ==
  ASSUME file \in Files, NEW w, WindowOK(w), NEW n \in Nat, n <= Left(w), NEW v \in Walk(w, n)
  PROVE  WindowOK(v) /\ SameSpan(v, w) /\ v.walked = w.walked + n /\ v.taken = w.taken
<1>1. /\ w.walked \in Nat /\ w.front \in Nat /\ w.front <= w.walked
      /\ StartOf(w.first) \in Nat /\ file.ends[w.last] \in Nat
      /\ Left(w) = file.ends[w.last] - StartOf(w.first) - w.walked
  BY WindowSpan
<1>2. PICK front \in {w.front} \cup (w.walked .. w.walked + n - 1) :
        v = [w EXCEPT !.walked = w.walked + n, !.front = front]
  BY DEF Walk
<1>3. /\ DOMAIN v = WindowFields /\ v.first = w.first /\ v.last = w.last
      /\ v.walked = w.walked + n /\ v.front = front /\ v.eof = w.eof /\ v.taken = w.taken
  BY <1>2 DEF WindowOK, WindowFields
<1>4. front \in 0 .. w.walked + n
  BY <1>1
<1>5. w.taken => n = 0
  BY <1>1 DEF WindowOK, Records
<1> QED
  BY <1>1, <1>3, <1>4, <1>5 DEF WindowOK, SameSpan

LEMMA RunOutIs ==
  ASSUME file \in Files, NEW w, WindowOK(w)
  PROVE  /\ WindowOK(RunOut(w)) /\ SameSpan(RunOut(w), w)
         /\ RunOut(w).walked = w.walked + Left(w) /\ RunOut(w).taken = w.taken
         /\ LET taken == [RunOut(w) EXCEPT !.taken = TRUE]
            IN  /\ taken.walked = w.walked + Left(w) /\ taken.taken
                /\ HasFragment(w) /\ TailIsRecord => WindowOK(taken)
<1>1. /\ w.walked \in Nat /\ w.front \in Nat /\ w.front <= w.walked
      /\ StartOf(w.first) \in Nat /\ file.ends[w.last] \in Nat /\ Left(w) \in Nat
      /\ Left(w) = file.ends[w.last] - StartOf(w.first) - w.walked
  BY WindowSpan
<1> DEFINE over == RunOut(w)
           taken == [over EXCEPT !.taken = TRUE]
<1>2. /\ DOMAIN over = WindowFields /\ over.first = w.first /\ over.last = w.last
      /\ over.walked = w.walked + Left(w)
      /\ over.front \in {w.front, w.walked + Left(w)}
      /\ over.eof \in BOOLEAN /\ over.taken = w.taken
  BY DEF RunOut, WindowOK, WindowFields
<1> HIDE DEF over
<1>3. /\ DOMAIN taken = WindowFields /\ taken.first = w.first /\ taken.last = w.last
      /\ taken.walked = over.walked /\ taken.front = over.front
      /\ taken.eof = over.eof /\ taken.taken = TRUE
  BY <1>2 DEF WindowFields
<1> HIDE DEF taken
<1>4. over.walked \in 0 .. file.ends[w.last] - StartOf(w.first) /\ over.front \in 0 .. over.walked
  BY <1>1, <1>2
<1>5. w.last = LastFrame => over.walked = Records - StartOf(w.first)
  BY <1>1, <1>2 DEF Records
<1>6. /\ w.first \in 1 .. LastFrame /\ w.last \in w.first .. LastFrame
      /\ w.taken => w.last = LastFrame /\ file.part /\ TailIsRecord
      /\ w.taken \in BOOLEAN
  BY DEF WindowOK
<1>7. WindowOK(over) /\ SameSpan(over, w)
  BY <1>5, <1>6, <1>2, <1>4 DEF WindowOK, SameSpan
<1>8. HasFragment(w) /\ TailIsRecord => WindowOK(taken)
  BY <1>5, <1>6, <1>2, <1>3, <1>4 DEF WindowOK, HasFragment
<1> QED
  BY <1>2, <1>3, <1>7, <1>8 DEF over, taken

LEMMA NumbersAre ==
  ASSUME NEW from \in Nat, NEW k \in Nat
  PROVE  /\ Numbers(from, k) \in Seq(Nat) /\ Len(Numbers(from, k)) = k
         /\ Numbers(from, k) # Refused
         /\ Numbers(from, k) = <<>> <=> k = 0
         /\ k = 1 => Numbers(from, k) = <<from>>
<1>1. Numbers(from, k) \in Seq(Nat) /\ Len(Numbers(from, k)) = k
  BY DEF Numbers
<1>2. k = 1 => Numbers(from, k) = <<from>>
  BY DEF Numbers
<1>3. Numbers(from, k) = <<>> <=> k = 0
  BY <1>1
<1> QED
  BY <1>1, <1>2, <1>3, FilesAssumption

LEMMA HandOutIs ==
  ASSUME file \in Files, NEW w, WindowOK(w), NEW n \in Nat, NEW read \in HandOut(w, n)
  PROVE  /\ WindowOK(read.window) /\ SameSpan(read.window, w)
         /\ Handed(file.ends[w.last], HasFragment(w), NumberOf(w), n, read.got)
         /\ IF n <= Left(w) THEN read.window.walked = w.walked + n /\ read.window.taken = w.taken
            ELSE /\ read.window.walked = w.walked + Left(w)
                 /\ read.window.taken <=> w.taken \/ (HasFragment(w) /\ TailIsRecord)
<1> DEFINE over == RunOut(w)
           taken == [over EXCEPT !.taken = TRUE]
           end == file.ends[w.last]
<1>1. /\ end \in Nat /\ NumberOf(w) \in Nat /\ Left(w) \in Nat /\ Left(w) = end - NumberOf(w)
  BY WindowSpan
<1>2. n <= Left(w) <=> NumberOf(w) + n <= end
  BY <1>1
<1>3. SameSpan(read.window, w) /\ w.taken \in BOOLEAN /\ HasFragment(w) \in BOOLEAN
      /\ TailIsRecord \in BOOLEAN
  BY HandOutStays, FramesAreEven DEF WindowOK, HasFragment, TailIsRecord
<1>4. CASE n <= Left(w)
  <2>1. PICK v \in Walk(w, n) : read = [window |-> v, got |-> Numbers(NumberOf(w), n)]
    BY <1>4 DEF HandOut, Numbers
  <2> QED
    BY <1>2, <1>3, <1>4, <2>1, WalkIs DEF Handed
<1>5. CASE ~(n <= Left(w)) /\ ~HasFragment(w)
  <2>1. read = [window |-> over, got |-> Numbers(NumberOf(w), Left(w))]
    BY <1>5 DEF HandOut, Numbers
  <2>2. WindowOK(over) /\ over.walked = w.walked + Left(w) /\ over.taken = w.taken
    BY RunOutIs
  <2> HIDE DEF over
  <2> QED
    BY <1>1, <1>2, <1>3, <1>5, <2>1, <2>2 DEF Handed
<1>6. CASE ~(n <= Left(w)) /\ HasFragment(w) /\ TailIsRecord
  <2>1. read = [window |-> taken, got |-> Numbers(NumberOf(w), Left(w) + 1)]
    BY <1>6 DEF HandOut, Numbers
  <2>2. WindowOK(taken) /\ taken.walked = w.walked + Left(w) /\ taken.taken
    BY <1>6, RunOutIs
  <2> HIDE DEF taken
  <2> QED
    BY <1>1, <1>2, <1>3, <1>6, <2>1, <2>2 DEF Handed
<1>7. CASE ~(n <= Left(w)) /\ HasFragment(w) /\ ~TailIsRecord
  <2>1. read = [window |-> over, got |-> Refused]
    BY <1>7 DEF HandOut
  <2>2. WindowOK(over) /\ over.walked = w.walked + Left(w) /\ over.taken = w.taken
    BY RunOutIs
  <2> HIDE DEF over
  <2> QED
    BY <1>2, <1>3, <1>7, <2>1, <2>2 DEF Handed
<1> QED
  BY <1>4, <1>5, <1>6, <1>7

LEMMA ReadIs ==
  ASSUME file \in Files, NEW w, WindowOK(w), NEW skip \in Nat, NEW n \in Nat, NEW short,
         NEW read \in Read(w, skip, n, short)
  PROVE  /\ WindowOK(read.window) /\ SameSpan(read.window, w)
         /\ IF NumberOf(w) + skip > file.ends[w.last] THEN read.got = short
            ELSE Handed(file.ends[w.last], HasFragment(w), NumberOf(w) + skip, n, read.got)
<1>1. /\ file.ends[w.last] \in Nat /\ NumberOf(w) \in Nat
      /\ Left(w) \in Nat /\ Left(w) = file.ends[w.last] - NumberOf(w)
  <2>1. /\ w.walked \in Nat /\ StartOf(w.first) \in Nat /\ file.ends[w.last] \in Nat
        /\ Left(w) \in Nat /\ Left(w) = file.ends[w.last] - StartOf(w.first) - w.walked
        /\ NumberOf(w) \in Nat /\ NumberOf(w) = StartOf(w.first) + w.walked
    BY WindowSpan
  <2> QED
    BY <2>1
<1>2. skip <= Left(w) <=> ~(NumberOf(w) + skip > file.ends[w.last])
  BY <1>1
<1>3. CASE skip <= Left(w)
  <2>1. PICK v \in Walk(w, skip) : read \in HandOut(v, n)
    BY <1>3 DEF Read
  <2>2. WindowOK(v) /\ SameSpan(v, w) /\ v.walked = w.walked + skip /\ v.taken = w.taken
    BY <1>3, <2>1, WalkIs
  <2>3. NumberOf(v) = NumberOf(w) + skip
    BY <2>2, WindowSpan DEF SameSpan
  <2>4. HasFragment(v) = HasFragment(w) /\ v.last = w.last /\ v.first = w.first
    BY <2>2 DEF HasFragment, SameSpan
  <2>5. /\ WindowOK(read.window) /\ SameSpan(read.window, v)
        /\ Handed(file.ends[v.last], HasFragment(v), NumberOf(v), n, read.got)
    BY <2>1, <2>2, HandOutIs
  <2> QED
    BY <1>2, <1>3, <2>3, <2>4, <2>5 DEF SameSpan
<1>4. CASE ~(skip <= Left(w))
  <2>1. read = [window |-> RunOut(w), got |-> short]
    BY <1>4 DEF Read
  <2> QED
    BY <1>2, <1>4, <2>1, RunOutIs
<1> QED
  BY <1>3, <1>4

\* Which reads hand out the fragment.
LEMMA ReadTakes ==
  ASSUME file \in Files, NEW w, WindowOK(w), NEW skip \in Nat, NEW n \in Nat, NEW short,
         NEW read \in Read(w, skip, n, short)
  PROVE  read.window.taken <=>
           \/ w.taken
           \/ /\ HasFragment(w) /\ TailIsRecord
              /\ NumberOf(w) + skip <= file.ends[w.last]
              /\ NumberOf(w) + skip + n > file.ends[w.last]
<1>1. /\ file.ends[w.last] \in Nat /\ NumberOf(w) \in Nat
      /\ Left(w) \in Nat /\ Left(w) = file.ends[w.last] - NumberOf(w)
  <2>1. /\ w.walked \in Nat /\ StartOf(w.first) \in Nat /\ file.ends[w.last] \in Nat
        /\ Left(w) \in Nat /\ Left(w) = file.ends[w.last] - StartOf(w.first) - w.walked
        /\ NumberOf(w) \in Nat /\ NumberOf(w) = StartOf(w.first) + w.walked
    BY WindowSpan
  <2> QED
    BY <2>1
<1>2. skip <= Left(w) <=> NumberOf(w) + skip <= file.ends[w.last]
  BY <1>1
<1>3. CASE skip <= Left(w)
  <2>1. PICK v \in Walk(w, skip) : read \in HandOut(v, n)
    BY <1>3 DEF Read
  <2>2. WindowOK(v) /\ SameSpan(v, w) /\ v.walked = w.walked + skip /\ v.taken = w.taken
    BY <1>3, <2>1, WalkIs
  <2>3. NumberOf(v) = NumberOf(w) + skip
    BY <2>2, WindowSpan DEF SameSpan
  <2>4. HasFragment(v) = HasFragment(w) /\ v.last = w.last
    BY <2>2 DEF HasFragment, SameSpan
  <2>5. /\ IF n <= Left(v) THEN read.window.taken = v.taken
           ELSE read.window.taken <=> v.taken \/ (HasFragment(v) /\ TailIsRecord)
    BY <2>1, <2>2, HandOutIs
  <2>6. Left(v) = file.ends[w.last] - NumberOf(v) /\ Left(v) \in Nat
    <3>1. /\ v.walked \in Nat /\ StartOf(v.first) \in Nat /\ file.ends[v.last] \in Nat
          /\ Left(v) \in Nat /\ Left(v) = file.ends[v.last] - StartOf(v.first) - v.walked
          /\ NumberOf(v) \in Nat /\ NumberOf(v) = StartOf(v.first) + v.walked
      BY <2>2, WindowSpan
    <3> QED
      BY <2>4, <3>1
  <2>7. n <= Left(v) <=> ~(NumberOf(w) + skip + n > file.ends[w.last])
    BY <1>1, <2>3, <2>6
  <2>8. w.taken \in BOOLEAN
    BY DEF WindowOK
  <2> QED
    BY <1>2, <1>3, <2>2, <2>4, <2>5, <2>7, <2>8
<1>4. CASE ~(skip <= Left(w))
  <2>1. read = [window |-> RunOut(w), got |-> short]
    BY <1>4 DEF Read
  <2>2. read.window.taken = w.taken
    BY <2>1, RunOutIs
  <2> QED
    BY <1>2, <1>4, <2>2
<1> QED
  BY <1>3, <1>4

\* walk_to, from a window that its note is true of.
LEMMA WalkToIs ==
  ASSUME file \in Files, WindowOK(window),
         frame # 0 => window.first = frame /\ window.last = frame,
         NEW f \in 1 .. LastFrame, NEW index \in Nat
  PROVE  LET at == WalkTo(f, index)
         IN  /\ WindowOK(at.window) /\ at.window.first = f /\ at.window.last = f
             /\ at.skip \in Nat
             /\ NumberOf(at.window) + at.skip = StartOf(f) + index
             /\ at.window.taken => at.window = window /\ frame = f /\ index >= window.walked
<1> DEFINE at == WalkTo(f, index)
           back == [window EXCEPT !.walked = window.front, !.taken = FALSE]
<1>1. /\ window.walked \in Nat /\ window.front \in Nat /\ window.front <= window.walked
      /\ StartOf(window.first) \in Nat /\ file.ends[window.last] \in Nat
      /\ NumberOf(window) = StartOf(window.first) + window.walked
  BY WindowSpan
<1>2. /\ DOMAIN back = WindowFields /\ back.first = window.first /\ back.last = window.last
      /\ back.walked = window.front /\ back.front = window.front
      /\ back.eof = window.eof /\ back.taken = FALSE
  BY DEF WindowOK, WindowFields
<1> HIDE DEF back
<1>3. WindowOK(back) /\ NumberOf(back) = StartOf(window.first) + window.front
  <2>1. window.front \in 0 .. file.ends[window.last] - StartOf(window.first)
        /\ window.front \in 0 .. window.front
    BY <1>1 DEF WindowOK
  <2> QED
    BY <1>2, <2>1 DEF WindowOK, NumberOf
<1>4. CASE frame = f /\ index >= window.walked
  <2>1. at = [window |-> window, skip |-> index - window.walked]
    BY <1>4 DEF WalkTo
  <2> HIDE DEF at
  <2>2. at.window = window /\ at.skip = index - window.walked /\ window.first = f /\ window.last = f
    BY <1>4, <2>1
  <2>3. /\ WindowOK(at.window) /\ at.window.first = f /\ at.window.last = f
        /\ at.skip \in Nat /\ NumberOf(at.window) + at.skip = StartOf(f) + index
    BY <1>1, <1>4, <2>2
  <2> QED
    BY <1>4, <2>2, <2>3 DEF at
<1>5. CASE frame = f /\ ~(index >= window.walked) /\ index >= window.front
  <2>1. at = [window |-> back, skip |-> index - window.front]
    BY <1>5 DEF WalkTo, back
  <2> HIDE DEF at
  <2>2. at.window = back /\ at.skip = index - window.front /\ window.first = f /\ window.last = f
    BY <1>5, <2>1
  <2>3. /\ WindowOK(at.window) /\ at.window.first = f /\ at.window.last = f
        /\ at.skip \in Nat /\ NumberOf(at.window) + at.skip = StartOf(f) + index
    BY <1>1, <1>2, <1>3, <1>5, <2>2
  <2> QED
    BY <1>2, <2>2, <2>3 DEF at
<1>6. CASE ~(frame = f /\ index >= window.front)
  <2>1. at = [window |-> Point(f, f), skip |-> index]
    BY <1>1, <1>6 DEF WalkTo
  <2>2. WindowOK(Point(f, f)) /\ NumberOf(Point(f, f)) = StartOf(f)
    <3>1. f \in f .. LastFrame
      BY FramesAreNumbered
    <3> QED
      BY <3>1, PointIs
  <2>3. Point(f, f).first = f /\ Point(f, f).last = f /\ Point(f, f).taken = FALSE
    BY DEF Point
  <2> HIDE DEF at
  <2>4. at.window = Point(f, f) /\ at.skip = index
    BY <2>1
  <2> QED
    BY <2>2, <2>3, <2>4 DEF at
<1> QED
  BY <1>4, <1>5, <1>6

\* How many records the calls can hand out, and where the last of them is.
LEMMA LengthIs ==
  ASSUME file \in Files
  PROVE  /\ Records \in Nat /\ Length \in {Records, Records + 1} /\ Records <= Slots
         /\ Length = Records + 1 <=> TailIsRecord /\ file.part
         /\ TailIsRecord \in BOOLEAN /\ file.part \in BOOLEAN
         /\ StartOf(LastFrame) <= Records /\ StartOf(LastFrame) \in Nat
         /\ FinalSlotIsTail <=> Records = Slots /\ Length = Records + 1
         /\ Complete <=> TailIsRecord \/ ~file.part
<1>1. /\ Records \in Nat /\ LastFrame \in 1 .. LastFrame /\ PerFrame \in Nat
      /\ StartOf(LastFrame) \in Nat /\ Slots = StartOf(LastFrame) + PerFrame
      /\ StartOf(LastFrame) <= Records /\ Records <= StartOf(LastFrame) + PerFrame
      /\ file.part \in BOOLEAN /\ file.separated \in BOOLEAN
  <2>1. LastFrame \in 1 .. LastFrame
    BY FramesAreNumbered
  <2> QED
    BY <2>1, FramesAreEven DEF Records
<1>2. Length \in {Records, Records + 1} /\ (Length = Records + 1 <=> TailIsRecord /\ file.part)
  BY <1>1 DEF Length
<1>3. FinalSlotIsTail <=> Records = Slots /\ Length = Records + 1
  <2>1. Records - StartOf(LastFrame) = PerFrame <=> Records = Slots
    BY <1>1
  <2> QED
    BY <1>2, <2>1 DEF FinalSlotIsTail, Records
<1> QED
  BY <1>1, <1>2, <1>3 DEF TailIsRecord, Complete

LEMMA ProbedIs ==
  ASSUME file \in Files, NEW w, WindowOK(w), NEW from
  PROVE  WindowOK(Probed(w, from))
<1>1. LastFrame \in 1 .. LastFrame /\ LastFrame \in LastFrame .. LastFrame
  BY FramesAreNumbered
<1>2. WindowOK(Point(LastFrame, LastFrame))
  BY <1>1, PointIs
<1> QED
  BY <1>2, RunOutIs DEF Probed

\* The frame a read begins in, where one begins at all.
LEMMA FirstFrameIs ==
  ASSUME file \in Files, NEW from \in Nat, from <= Slots
  PROVE  /\ FirstFrame(from) \in 1 .. LastFrame /\ Skipped(from) \in Nat
         /\ StartOf(FirstFrame(from)) + Skipped(from) = from
         /\ FirstFrame(from) < LastFrame => from < file.ends[FirstFrame(from)]
         /\ FirstFrame(from) <= FrameOf(from)
<1>1. /\ LastFrame \in Nat \ {0} /\ PerFrame \in Nat \ {0} /\ Slots \in Nat
      /\ Slots = StartOf(LastFrame) + PerFrame /\ LastFrame \in 1 .. LastFrame
  BY FramesAreEven
<1>2. /\ FrameOf(from) \in Nat \ {0}
      /\ (FrameOf(from) - 1) * PerFrame <= from /\ from < FrameOf(from) * PerFrame
      /\ from < Slots => FrameOf(from) <= LastFrame
      /\ from >= Slots => FrameOf(from) > LastFrame
  BY FrameOfIs
<1> DEFINE f == FirstFrame(from)
<1>3. f \in 1 .. LastFrame /\ f <= FrameOf(from) /\ (from # Slots => f = FrameOf(from))
  BY <1>1, <1>2 DEF FirstFrame
<1>4. from = Slots => f = LastFrame
  BY DEF FirstFrame
<1> HIDE DEF f
<1>5. /\ StartOf(f) \in Nat /\ StartOf(f) = (f - 1) * PerFrame
      /\ f < LastFrame => file.ends[f] = f * PerFrame
  BY <1>3, FramesAreEven
<1>6. StartOf(f) <= from
  BY <1>1, <1>2, <1>3, <1>4, <1>5
<1>7. Skipped(from) = from - StartOf(f)
  BY <1>5 DEF Skipped, f
<1>8. f < LastFrame => from < file.ends[f]
  BY <1>1, <1>2, <1>3, <1>4, <1>5
<1> QED
  BY <1>3, <1>5, <1>6, <1>7, <1>8 DEF f

\* records_to and fold_records, from wherever a read may begin.
LEMMA RangeRead ==
  ASSUME file \in Files, NEW from \in Nat, NEW cnt \in Nat, from <= Slots,
         NEW read \in Read(Span(from, cnt), Skipped(from), cnt, Refused)
  PROVE  /\ WindowOK(read.window)
         /\ \/ read.got = Numbers(from, Upto(from + cnt) - Upto(from))
               /\ Upto(from + cnt) - Upto(from) \in Nat
            \/ /\ read.got = Refused
               /\ from >= Length \/ (~Complete /\ from + cnt > Length)
<1> DEFINE f == FirstFrame(from)
           g == FrameReached(from, cnt)
           w == Point(f, g)
<1>1. /\ f \in 1 .. LastFrame /\ Skipped(from) \in Nat /\ StartOf(f) + Skipped(from) = from
      /\ f <= FrameOf(from)
  BY FirstFrameIs
<1>2. /\ LastFrame \in Nat \ {0} /\ Records \in Nat /\ Length \in {Records, Records + 1}
      /\ (Length = Records + 1 <=> TailIsRecord /\ file.part)
      /\ StartOf(LastFrame) <= Records /\ StartOf(LastFrame) \in Nat
      /\ Complete <=> TailIsRecord \/ ~file.part
  BY LengthIs, FramesAreNumbered
<1>3. /\ g \in f .. LastFrame
      /\ g < LastFrame => g = FrameOf(from + cnt + 1)
  <2>1. from + cnt + 1 \in Nat /\ from <= from + cnt + 1
    OBVIOUS
  <2>2. /\ FrameOf(from) \in Nat /\ FrameOf(from + cnt + 1) \in Nat
        /\ FrameOf(from) <= FrameOf(from + cnt + 1)
    BY <2>1, FrameOfIs
  <2>3. g = IF FrameOf(from + cnt + 1) < LastFrame THEN FrameOf(from + cnt + 1) ELSE LastFrame
    BY DEF FrameReached
  <2> HIDE DEF f, g
  <2> QED
    BY <1>1, <1>2, <2>2, <2>3
<1>4. g \in 1 .. LastFrame
  BY <1>1, <1>3, SpansAreNat
<1>5. g < LastFrame => /\ file.ends[g] \in Nat /\ from + cnt < file.ends[g]
                      /\ file.ends[g] <= Records
  <2>1. ASSUME g < LastFrame
        PROVE  /\ file.ends[g] \in Nat /\ file.ends[g] = g * PerFrame
               /\ from + cnt + 1 < g * PerFrame
               /\ g * PerFrame <= StartOf(LastFrame)
    <3>1. from + cnt + 1 \in Nat
      OBVIOUS
    <3>2. from + cnt + 1 < FrameOf(from + cnt + 1) * PerFrame
      BY <3>1, FrameOfIs
    <3>3. /\ file.ends[g] \in Nat /\ file.ends[g] = g * PerFrame /\ PerFrame \in Nat
          /\ LastFrame \in 1 .. LastFrame
          /\ StartOf(LastFrame) = (LastFrame - 1) * PerFrame
      BY <1>4, <2>1, FramesAreEven
    <3>4. g \in Nat /\ LastFrame - 1 \in Nat /\ g <= LastFrame - 1
      BY <1>2, <1>4, <2>1
    <3>5. g * PerFrame <= (LastFrame - 1) * PerFrame
      BY <3>3, <3>4, TimesGrows
    <3> QED
      BY <1>3, <2>1, <3>2, <3>3, <3>5
  <2> HIDE DEF g
  <2> QED
    BY <1>2, <2>1
<1>6. WindowOK(w) /\ NumberOf(w) = StartOf(f) /\ Span(from, cnt) = w
      /\ w.last = g /\ (HasFragment(w) <=> g = LastFrame /\ file.part)
  BY <1>1, <1>3, PointIs DEF Span, HasFragment, Point
<1> HIDE DEF f, g, w
<1>7. /\ WindowOK(read.window)
      /\ IF from > file.ends[g] THEN read.got = Refused
         ELSE Handed(file.ends[g], HasFragment(w), from, cnt, read.got)
  BY <1>1, <1>6, ReadIs
<1>8. CASE g < LastFrame
  <2>1. from + cnt < file.ends[g] /\ file.ends[g] \in Nat /\ file.ends[g] <= Records
    BY <1>5, <1>8
  <2>2. read.got = Numbers(from, cnt)
    BY <1>7, <2>1 DEF Handed
  <2>3. Upto(from + cnt) - Upto(from) = cnt
    BY <1>2, <2>1 DEF Upto
  <2> QED
    BY <1>7, <2>2, <2>3
<1>9. CASE g = LastFrame
  <2>1. file.ends[g] = Records /\ (HasFragment(w) <=> file.part)
    BY <1>6, <1>9 DEF Records
  <2>2. CASE from > Records
    BY <1>2, <1>7, <2>1, <2>2
  <2>3. CASE from <= Records /\ from + cnt <= Records
    <3>1. read.got = Numbers(from, cnt)
      BY <1>2, <1>7, <2>1, <2>3 DEF Handed
    <3>2. Upto(from + cnt) - Upto(from) = cnt
      BY <1>2, <2>3 DEF Upto
    <3> QED
      BY <1>7, <3>1, <3>2
  <2>4. CASE from <= Records /\ from + cnt > Records /\ ~file.part
    <3>1. read.got = Numbers(from, Records - from)
      BY <1>2, <1>7, <2>1, <2>4 DEF Handed
    <3>2. Upto(from + cnt) - Upto(from) = Records - from /\ Records - from \in Nat
      BY <1>2, <2>4 DEF Upto
    <3> QED
      BY <1>7, <3>1, <3>2
  <2>5. CASE from <= Records /\ from + cnt > Records /\ file.part /\ TailIsRecord
    <3>1. read.got = Numbers(from, Records - from + 1)
      BY <1>2, <1>7, <2>1, <2>5 DEF Handed
    <3>2. Upto(from + cnt) - Upto(from) = Records - from + 1 /\ Records - from + 1 \in Nat
      BY <1>2, <2>5 DEF Upto
    <3> QED
      BY <1>7, <3>1, <3>2
  <2>6. CASE from <= Records /\ from + cnt > Records /\ file.part /\ ~TailIsRecord
    <3>1. read.got = Refused
      BY <1>2, <1>7, <2>1, <2>6 DEF Handed
    <3>2. ~Complete /\ from + cnt > Length
      BY <1>2, <2>6
    <3> QED
      BY <1>7, <3>1, <3>2
  <2> QED
    BY <1>2, <2>2, <2>3, <2>4, <2>5, <2>6
<1> QED
  BY <1>2, <1>4, <1>8, <1>9

LEMMA RecordRead ==
  ASSUME file \in Files, NEW i \in Nat, i <= Slots, NEW w, WindowOK(w), NEW skip \in Nat,
         w.first = FirstFrame(i), w.last = FirstFrame(i), NumberOf(w) + skip = i,
         i = Slots => FinalSlotIsTail /\ ~w.taken,
         NEW read \in Read(w, skip, 1, <<>>)
  PROVE  /\ WindowOK(read.window)
         /\ read.window.first = FirstFrame(i) /\ read.window.last = FirstFrame(i)
         /\ IF i < Length THEN read.got = IF i = Records /\ w.taken THEN <<>> ELSE <<i>>
            ELSE read.got = <<>> \/ (read.got = Refused /\ ~Complete)
         /\ i >= Records => FirstFrame(i) = LastFrame
         /\ FirstFrame(i) = LastFrame /\ read.window.taken
              <=> read.got = <<Records>> \/ (w.taken /\ read.got = <<>>)
<1> DEFINE f == FirstFrame(i)
<1>1. /\ f \in 1 .. LastFrame /\ (f < LastFrame => i < file.ends[f])
  BY FirstFrameIs
<1>2. /\ Records \in Nat /\ Length \in {Records, Records + 1}
      /\ Length = Records + 1 <=> TailIsRecord /\ file.part
      /\ Complete <=> TailIsRecord \/ ~file.part
      /\ StartOf(LastFrame) <= Records /\ StartOf(LastFrame) \in Nat
      /\ LastFrame \in Nat \ {0}
  BY LengthIs, FramesAreNumbered
<1> HIDE DEF f
<1>3. /\ WindowOK(read.window) /\ SameSpan(read.window, w)
      /\ IF i > file.ends[f] THEN read.got = <<>>
         ELSE Handed(file.ends[f], HasFragment(w), i, 1, read.got)
  BY ReadIs DEF f
<1>4. ASSUME f < LastFrame PROVE file.ends[f] \in Nat /\ file.ends[f] <= Records
  <2>1. /\ file.ends[f] \in Nat /\ file.ends[f] = f * PerFrame /\ PerFrame \in Nat
        /\ StartOf(LastFrame) = (LastFrame - 1) * PerFrame
    <3>1. LastFrame \in 1 .. LastFrame
      BY <1>2
    <3>2. PerFrame \in Nat /\ StartOf(LastFrame) = (LastFrame - 1) * PerFrame
      BY <3>1, FramesAreEven
    <3>3. file.ends[f] \in Nat /\ file.ends[f] = f * PerFrame
      BY <1>1, <1>4, FramesAreEven
    <3> QED
      BY <3>2, <3>3
  <2>2. f \in Nat /\ LastFrame - 1 \in Nat /\ f <= LastFrame - 1
    BY <1>1, <1>2, <1>4
  <2>3. f * PerFrame <= (LastFrame - 1) * PerFrame
    BY <2>1, <2>2, TimesGrows
  <2> QED
    BY <1>2, <2>1, <2>3
<1>5. Numbers(i, 1) = <<i>> /\ Numbers(i, 0) = <<>>
  BY NumbersAre
<1>8. <<i>> # <<>> /\ (<<i>> = <<Records>> <=> i = Records) /\ <<Records>> # <<>>
  OBVIOUS
<1>9. Refused # <<>> /\ Refused # <<Records>>
  <2>1. <<>> \in Seq(Nat) /\ <<Records>> \in Seq(Nat)
    BY <1>2
  <2> QED
    BY <2>1, FilesAssumption
<1>10. /\ WindowOK(read.window)
       /\ read.window.first = FirstFrame(i) /\ read.window.last = FirstFrame(i)
  BY <1>3 DEF SameSpan, f
<1>6. CASE f < LastFrame
  <2>1. i + 1 <= file.ends[f] /\ i < Records
    BY <1>1, <1>2, <1>4, <1>6
  <2>2. read.got = <<i>>
    BY <1>2, <1>3, <1>4, <1>5, <1>6, <2>1 DEF Handed
  <2>3. i < Length /\ i # Records /\ ~(i >= Records) /\ f # LastFrame
    BY <1>1, <1>2, <1>6, <2>1
  <2> QED
    BY <1>8, <1>10, <2>2, <2>3 DEF f
<1>7. CASE f = LastFrame
  <2>1. file.ends[f] = Records /\ w.last = LastFrame /\ w.first = f
    BY <1>7 DEF Records, f
  <2>2. HasFragment(w) <=> file.part /\ ~w.taken
    BY <2>1 DEF HasFragment
  <2>3. w.taken => file.part /\ TailIsRecord /\ i >= Records
    <3>1. w.taken => /\ file.part /\ TailIsRecord
                     /\ w.walked = Records - StartOf(w.first)
      BY DEF WindowOK
    <3>2. NumberOf(w) = StartOf(w.first) + w.walked /\ StartOf(w.first) \in Nat
      BY WindowSpan
    <3> QED
      BY <1>2, <3>1, <3>2
  <2>4. read.window.taken <=>
          w.taken \/ (file.part /\ TailIsRecord /\ i = Records)
    <3>1. read.window.taken <=>
            w.taken \/ (HasFragment(w) /\ TailIsRecord /\ i <= Records /\ i + 1 > Records)
      BY <2>1, ReadTakes
    <3>2. i <= Records /\ i + 1 > Records <=> i = Records
      BY <1>2
    <3> QED
      BY <2>2, <3>1, <3>2
  <2>5. IF i > Records THEN read.got = <<>>
        ELSE Handed(Records, HasFragment(w), i, 1, read.got)
    BY <1>3, <2>1
  <2>6. f = FirstFrame(i)
    BY DEF f
  <2>7. CASE i < Records
    <3>1. i + 1 <= Records /\ i < Length /\ i # Records /\ ~(i > Records)
      BY <1>2, <2>7
    <3>2. read.got = <<i>>
      BY <1>5, <2>5, <3>1 DEF Handed
    <3>3. ~w.taken
      BY <1>2, <2>3, <2>7
    <3> QED
      BY <1>7, <1>8, <1>10, <2>4, <2>6, <3>1, <3>2, <3>3
  <2>8. CASE i > Records
    <3>1. ~(i < Length) /\ i # Records
      BY <1>2, <2>8
    <3> QED
      BY <1>7, <1>8, <1>10, <2>4, <2>5, <2>6, <2>8, <3>1
  <2>9. CASE i = Records
    <3>1. ~(i + 1 <= Records) /\ Records - i = 0 /\ Records - i + 1 = 1 /\ ~(i > Records)
      BY <1>2, <2>9
    <3>2. IF ~HasFragment(w) THEN read.got = <<>>
          ELSE IF TailIsRecord THEN read.got = <<i>> ELSE read.got = Refused
      BY <1>5, <2>5, <3>1 DEF Handed
    <3>3. i < Length <=> TailIsRecord /\ file.part
      BY <1>2, <2>9
    <3>4. CASE w.taken
      BY <1>7, <1>8, <1>10, <2>2, <2>3, <2>4, <2>6, <2>9, <3>2, <3>3, <3>4
    <3>5. CASE ~w.taken /\ ~file.part
      BY <1>7, <1>8, <1>10, <2>2, <2>4, <2>6, <3>2, <3>3, <3>5
    <3>6. CASE ~w.taken /\ file.part /\ TailIsRecord
      BY <1>7, <1>8, <1>10, <2>2, <2>4, <2>6, <2>9, <3>2, <3>3, <3>6
    <3>7. CASE ~w.taken /\ file.part /\ ~TailIsRecord
      BY <1>2, <1>7, <1>9, <1>10, <2>2, <2>4, <2>6, <3>2, <3>3, <3>7
    <3> QED
      BY <3>4, <3>5, <3>6, <3>7
  <2> QED
    BY <1>2, <2>7, <2>8, <2>9
<1> QED
  BY <1>1, <1>2, <1>6, <1>7

\* All of one frame's records: the fragment too, unless it has been handed out
\* or is no record.
LEMMA FrameRead ==
  ASSUME file \in Files, NEW f \in 1 .. LastFrame, NEW w, WindowOK(w),
         w.first = f, w.last = f, NumberOf(w) = StartOf(f),
         NEW read \in ReadAll(w)
  PROVE  /\ WindowOK(read.window) /\ read.window.first = f /\ read.window.last = f
         /\ IF ~HasFragment(w) THEN read.got = Numbers(StartOf(f), file.ends[f] - StartOf(f))
            ELSE IF TailIsRecord
            THEN read.got = Numbers(StartOf(f), file.ends[f] - StartOf(f) + 1)
            ELSE read.got = Refused
         /\ StartOf(f) \in Nat /\ file.ends[f] - StartOf(f) \in 0 .. PerFrame
<1>1. Left(w) \in Nat /\ NumberOf(w) \in Nat /\ file.ends[f] \in Nat
      /\ Left(w) = file.ends[f] - NumberOf(w)
  <2>1. /\ w.walked \in Nat /\ StartOf(w.first) \in Nat /\ file.ends[w.last] \in Nat
        /\ Left(w) \in Nat /\ Left(w) = file.ends[w.last] - StartOf(w.first) - w.walked
        /\ NumberOf(w) \in Nat /\ NumberOf(w) = StartOf(w.first) + w.walked
    BY WindowSpan
  <2> QED
    BY <2>1
<1>2. Left(w) + 1 \in Nat /\ ~(NumberOf(w) + (Left(w) + 1) <= file.ends[f])
  BY <1>1
<1>3. /\ WindowOK(read.window) /\ SameSpan(read.window, w)
      /\ Handed(file.ends[f], HasFragment(w), NumberOf(w), Left(w) + 1, read.got)
  BY <1>2, HandOutIs DEF ReadAll
<1>4. /\ StartOf(f) \in Nat /\ PerFrame \in Nat /\ StartOf(f) <= file.ends[f]
      /\ file.ends[f] <= StartOf(f) + PerFrame
  BY FramesAreEven
<1> QED
  BY <1>1, <1>2, <1>3, <1>4 DEF Handed, SameSpan

LEMMA TotalRead ==
  ASSUME file \in Files, NEW read \in ReadAll(Point(LastFrame, LastFrame))
  PROVE  /\ WindowOK(read.window)
         /\ (IF read.got = Refused THEN Refused
             ELSE <<PerFrame * (LastFrame - 1) + Len(read.got)>>)
            = IF Complete THEN <<Length>> ELSE Refused
<1> DEFINE w == Point(LastFrame, LastFrame)
<1>1. /\ LastFrame \in Nat \ {0} /\ LastFrame \in 1 .. LastFrame /\ PerFrame \in Nat
      /\ LastFrame \in LastFrame .. LastFrame
  BY FramesAreNumbered
<1>2. /\ WindowOK(w) /\ NumberOf(w) = StartOf(LastFrame) /\ w.first = LastFrame
      /\ w.last = LastFrame /\ (HasFragment(w) <=> file.part)
  BY <1>1, PointIs DEF Point, HasFragment
<1> HIDE DEF w
<1>3. /\ Records \in Nat /\ Length \in {Records, Records + 1}
      /\ Length = Records + 1 <=> TailIsRecord /\ file.part
      /\ Complete <=> TailIsRecord \/ ~file.part
      /\ StartOf(LastFrame) \in Nat /\ StartOf(LastFrame) <= Records
  BY LengthIs
<1>4. PerFrame * (LastFrame - 1) = StartOf(LastFrame)
  <2>1. StartOf(LastFrame) = (LastFrame - 1) * PerFrame
    BY <1>1, FramesAreEven
  <2> QED
    BY <1>1, <2>1
<1>5. /\ WindowOK(read.window)
      /\ IF ~file.part THEN read.got = Numbers(StartOf(LastFrame), Records - StartOf(LastFrame))
         ELSE IF TailIsRecord
         THEN read.got = Numbers(StartOf(LastFrame), Records - StartOf(LastFrame) + 1)
         ELSE read.got = Refused
  BY <1>1, <1>2, FrameRead DEF Records, w
<1>6. CASE ~file.part
  <2>1. Records - StartOf(LastFrame) \in Nat
    BY <1>3
  <2>2. read.got # Refused /\ Len(read.got) = Records - StartOf(LastFrame)
    BY <1>3, <1>5, <1>6, <2>1, NumbersAre
  <2>3. Length = Records /\ Complete
    BY <1>3, <1>6
  <2>4. StartOf(LastFrame) + Len(read.got) = Length
    BY <1>3, <2>2, <2>3
  <2> QED
    BY <1>4, <1>5, <2>2, <2>3, <2>4
<1>7. CASE file.part /\ TailIsRecord
  <2>1. Records - StartOf(LastFrame) + 1 \in Nat
    BY <1>3
  <2>2. read.got # Refused /\ Len(read.got) = Records - StartOf(LastFrame) + 1
    BY <1>3, <1>5, <1>7, <2>1, NumbersAre
  <2>3. Length = Records + 1 /\ Complete
    BY <1>3, <1>7
  <2>4. StartOf(LastFrame) + Len(read.got) = Length
    BY <1>3, <2>2, <2>3
  <2> QED
    BY <1>4, <1>5, <2>2, <2>3, <2>4
<1>8. CASE file.part /\ ~TailIsRecord
  BY <1>3, <1>5, <1>8
<1> QED
  BY <1>6, <1>7, <1>8

--------------------------------------------------------------------------------
(***************************************************************************)
(* What the calls answer.                                                  *)
(***************************************************************************)
\* What a caller knows of the fragment is what the window shows: it was handed
\* out and nothing was read since, if it is taken from a window that is noted.  A
\* borrowed iterator that has read leaves no note.
HandedInv ==
  /\ handed \in BOOLEAN
  /\ iter.kind # Owned => (handed <=> frame = LastFrame /\ window.taken)
  /\ iter.kind = Borrowed => /\ iter.backLeft = Uncounted
                             /\ iter.armed /\ ~iter.spent => frame = 0

\* The window is one of the file whatever is called, and where it is noted to
\* be: so each call reads on from the number it takes itself to be at.
FitInv ==
  /\ NoteInv /\ HandedInv /\ TypeOK /\ WindowOK(window)
  /\ RecordIsTrue /\ RangeIsTrue /\ TotalIsTrue

LEMMA WindowOKStays ==
  ASSUME UNCHANGED file, WindowOK(window')
  PROVE  WindowOK(window)'
BY DEF WindowOK, LastFrame, StartOf, Records, TailIsRecord

LEMMA WindowTypes ==
  ASSUME WindowOK(window)
  PROVE  /\ window.first \in 1 .. LastFrame /\ window.last \in window.first .. LastFrame
         /\ window.walked \in 0 .. file.ends[window.last] - StartOf(window.first)
         /\ window.front \in 0 .. window.walked
         /\ window.eof \in BOOLEAN /\ window.taken \in BOOLEAN
BY DEF WindowOK

LEMMA AnswersStand ==
  ASSUME UNCHANGED file
  PROVE  /\ LastFrame' = LastFrame /\ PerFrame' = PerFrame /\ Records' = Records
         /\ Length' = Length /\ Complete' = Complete
         /\ UNCHANGED answer => /\ RecordIsTrue' = RecordIsTrue
                                /\ RangeIsTrue' = RangeIsTrue
                                /\ TotalIsTrue' = TotalIsTrue
<1>1. /\ LastFrame' = LastFrame /\ PerFrame' = PerFrame /\ Records' = Records
      /\ Length' = Length /\ Complete' = Complete
  BY DEF LastFrame, PerFrame, Records, Length, Complete, TailIsRecord
<1>2. ASSUME UNCHANGED answer
      PROVE  RecordIsTrue' = RecordIsTrue /\ TotalIsTrue' = TotalIsTrue
  BY <1>1, <1>2 DEF RecordIsTrue, TotalIsTrue
<1>3. ASSUME UNCHANGED answer
      PROVE  RangeIsTrue' = RangeIsTrue
  BY <1>1, <1>3 DEF RangeIsTrue, Upto
<1> QED
  BY <1>1, <1>2, <1>3

IterTypes(it) ==
  /\ it.kind \in {None, Borrowed, Owned}
  /\ it.front \in Nat
  /\ it.backFrame \in 1 .. LastFrame
  /\ it.backLeft \in 0 .. PerFrame + 1 \cup {Uncounted}
  /\ it.armed \in BOOLEAN /\ it.spent \in BOOLEAN
  /\ it.call \in {Idle, Back}
  /\ it.item = Refused \/ it.item \in Seq(Nat)

\* What a step of an iterator leaves of it.
LEMMA IterTypesKept ==
  ASSUME TypeOK, NEW it, it.kind = iter.kind, it.front \in {iter.front, iter.front + 1},
         it.backFrame = iter.backFrame \/ it.backFrame \in 1 .. LastFrame,
         it.backLeft = iter.backLeft \/ it.backLeft \in 0 .. PerFrame + 1 \cup {Uncounted},
         it.armed \in {iter.armed, TRUE, FALSE}, it.spent \in {iter.spent, TRUE, FALSE},
         it.call \in {iter.call, Idle, Back},
         it.item = iter.item \/ it.item = Refused \/ it.item \in Seq(Nat)
  PROVE  IterTypes(it)
<1>1. it.kind \in {None, Borrowed, Owned} /\ it.front \in Nat
  BY DEF TypeOK
<1>2. it.backFrame \in 1 .. LastFrame
  BY DEF TypeOK
<1>3. it.backLeft \in 0 .. PerFrame + 1 \cup {Uncounted}
  BY DEF TypeOK
<1>4. it.armed \in BOOLEAN /\ it.spent \in BOOLEAN /\ it.call \in {Idle, Back}
  BY DEF TypeOK
<1>5. it.item = Refused \/ it.item \in Seq(Nat)
  BY DEF TypeOK
<1> QED
  BY <1>1, <1>2, <1>3, <1>4, <1>5 DEF IterTypes

\* The file, and what is behind its frames, are as they were.
LEMMA TypesStand ==
  ASSUME TypeOK, UNCHANGED file, WindowOK(window'), frame' \in 0 .. LastFrame,
         \/ UNCHANGED answer \/ answer'.got = Refused \/ answer'.got \in Seq(Nat),
         IterTypes(iter')
  PROVE  TypeOK' /\ WindowOK(window)'
<1>1. WindowOK(window)'
  BY WindowOKStays
<1>2. /\ window'.first \in 1 .. LastFrame' /\ window'.last \in window'.first .. LastFrame'
      /\ window'.walked \in 0 .. file'.ends[window'.last] - StartOf(window.first)'
      /\ window'.front \in 0 .. window'.walked
      /\ window'.eof \in BOOLEAN /\ window'.taken \in BOOLEAN
  BY <1>1 DEF WindowOK
<1>3. LastFrame' = LastFrame /\ PerFrame' = PerFrame
  BY AnswersStand
<1>4. file' \in Files /\ (answer'.got = Refused \/ answer'.got \in Seq(Nat))
  BY DEF TypeOK
<1> QED
  BY <1>1, <1>2, <1>3, <1>4 DEF TypeOK, IterTypes

\* A call of the reader itself.
LEMMA CallFits ==
  ASSUME FitInv, NoteInv', HandedInv', UNCHANGED <<file, iter>>,
         WindowOK(window'), frame' \in 0 .. LastFrame,
         answer'.got = Refused \/ answer'.got \in Seq(Nat),
         RecordIsTrue', RangeIsTrue', TotalIsTrue'
  PROVE  FitInv'
<1>1. IterTypes(iter')
  BY DEF FitInv, TypeOK, IterTypes
<1>2. TypeOK' /\ WindowOK(window)'
  BY <1>1, TypesStand DEF FitInv
<1> QED
  BY <1>2 DEF FitInv

LEMMA PastEndIs ==
  ASSUME file \in Files, NEW from \in Nat
  PROVE  /\ PastEnd(from) => from >= Length
         /\ ~PastEnd(from) => from <= Slots /\ (from = Slots => FinalSlotIsTail)
<1>1. /\ Records \in Nat /\ Length \in {Records, Records + 1} /\ Records <= Slots
      /\ Slots \in Nat /\ (FinalSlotIsTail <=> Records = Slots /\ Length = Records + 1)
  BY LengthIs, FramesAreEven
<1> QED
  BY <1>1 DEF PastEnd

\* A lookup that is placed.
LEMMA RecordAnswers ==
  ASSUME FitInv, NEW i \in Nat, iter = NoIter, UNCHANGED <<file, iter>>, ~PastEnd(i),
         frame' = FirstFrame(i),
         LET f == FirstFrame(i)
             at == IF i = Slots THEN [window |-> Point(f, f), skip |-> Skipped(i)]
                   ELSE WalkTo(f, Skipped(i))
         IN  \E read \in Read(at.window, at.skip, 1, <<>>) :
               window' = read.window /\ answer' = LookedUp(i, read.got),
         handed' = (answer'.got = <<Records>> \/ (handed /\ i # Slots /\ answer'.got = <<>>))
  PROVE  /\ WindowOK(window') /\ frame' \in 0 .. LastFrame
         /\ answer'.call = "record" /\ answer'.from = i
         /\ IF i < Length THEN answer'.got = IF answer'.again THEN <<>> ELSE <<i>>
            ELSE answer'.got = <<>> \/ (answer'.got = Refused /\ ~Complete)
         /\ handed' <=> frame' = LastFrame /\ window'.taken
<1> DEFINE f == FirstFrame(i)
           at == IF i = Slots THEN [window |-> Point(f, f), skip |-> Skipped(i)]
                 ELSE WalkTo(f, Skipped(i))
<1>1. /\ file \in Files /\ WindowOK(window) /\ frame \in 0 .. LastFrame
      /\ LastFrame \in Nat \ {0} /\ i <= Slots /\ (i = Slots => FinalSlotIsTail)
      /\ f \in 1 .. LastFrame /\ Skipped(i) \in Nat /\ StartOf(f) + Skipped(i) = i
  <2>1. file \in Files /\ WindowOK(window) /\ frame \in 0 .. LastFrame
    BY DEF FitInv, TypeOK
  <2>2. i <= Slots /\ (i = Slots => FinalSlotIsTail)
    BY <2>1, PastEndIs
  <2>3. /\ FirstFrame(i) \in 1 .. LastFrame /\ Skipped(i) \in Nat
        /\ StartOf(FirstFrame(i)) + Skipped(i) = i
    BY <2>1, <2>2, FirstFrameIs
  <2> QED
    BY <2>1, <2>2, <2>3, FramesAreNumbered
<1>2. /\ frame # 0 => window.first = frame /\ window.last = frame
      /\ handed <=> frame = LastFrame /\ window.taken
  BY DEF FitInv, NoteInv, HandedInv, WindowIsNoted, NoIter, None, Owned
<1>3. /\ WindowOK(at.window) /\ at.window.first = f /\ at.window.last = f
      /\ at.skip \in Nat /\ NumberOf(at.window) + at.skip = i
      /\ i = Slots => ~at.window.taken
      /\ at.window.taken => at.window = window /\ frame = f
  <2>1. CASE i = Slots
    <3>1. f \in f .. LastFrame
      BY <1>1
    <3>2. WindowOK(Point(f, f)) /\ NumberOf(Point(f, f)) = StartOf(f)
      BY <1>1, <3>1, PointIs
    <3>3. Point(f, f).first = f /\ Point(f, f).last = f /\ Point(f, f).taken = FALSE
      BY DEF Point
    <3>4. at.window = Point(f, f) /\ at.skip = Skipped(i)
      BY <2>1
    <3> HIDE DEF f, at
    <3> QED
      BY <1>1, <3>2, <3>3, <3>4
  <2>2. CASE i # Slots
    <3>1. at = WalkTo(f, Skipped(i))
      BY <2>2
    <3> HIDE DEF f, at
    <3> QED
      BY <1>1, <1>2, <2>2, <3>1, WalkToIs
  <2> QED
    BY <2>1, <2>2
<1>4. ASSUME i >= Records, i # Slots, frame = LastFrame, window.taken, f = LastFrame
      PROVE  at.window.taken
  <2>1. /\ window.first = LastFrame /\ window.walked = Records - StartOf(window.first)
    BY <1>1, <1>2, <1>4 DEF WindowOK
  <2>2. StartOf(LastFrame) \in Nat /\ Records \in Nat
    BY <1>1, LengthIs
  <2>3. Skipped(i) >= window.walked
    BY <1>1, <1>4, <2>1, <2>2
  <2>4. WalkTo(f, Skipped(i)).window = window
    BY <1>4, <2>3 DEF WalkTo
  <2>5. at.window = window
    BY <1>4, <2>4
  <2> QED
    BY <1>4, <2>5
<1>5. PICK read \in Read(at.window, at.skip, 1, <<>>) :
        window' = read.window /\ answer' = LookedUp(i, read.got)
  OBVIOUS
<1>6. f = FirstFrame(i)
  OBVIOUS
<1> HIDE DEF at, f
<1>7. /\ WindowOK(read.window)
      /\ IF i < Length THEN read.got = IF i = Records /\ at.window.taken THEN <<>> ELSE <<i>>
         ELSE read.got = <<>> \/ (read.got = Refused /\ ~Complete)
      /\ i >= Records => f = LastFrame
      /\ f = LastFrame /\ read.window.taken
           <=> read.got = <<Records>> \/ (at.window.taken /\ read.got = <<>>)
  BY <1>1, <1>3, <1>5, <1>6, RecordRead
<1>8. /\ answer'.call = "record" /\ answer'.from = i /\ answer'.got = read.got
      /\ answer'.again = (handed /\ i = Records /\ i # Slots)
  BY <1>5 DEF LookedUp, Called
<1>9. Records \in Nat /\ Length \in {Records, Records + 1}
  BY <1>1, LengthIs
<1>10. at.window.taken => handed /\ i # Slots
  <2>1. ASSUME at.window.taken PROVE frame = LastFrame
    BY <1>1, <1>2, <1>3, <2>1 DEF WindowOK
  <2> QED
    BY <1>2, <1>3, <2>1
<1>11. i >= Records => (at.window.taken <=> handed /\ i # Slots)
  BY <1>2, <1>4, <1>7, <1>10
<1>12. read.got = <<>> => i >= Records
  <2>1. ASSUME i < Records PROVE read.got # <<>>
    <3>1. i < Length /\ i # Records
      BY <1>9, <2>1
    <3>2. read.got = <<i>>
      BY <1>7, <3>1
    <3> QED
      BY <3>2
  <2> QED
    BY <1>9, <2>1
<1>13. IF i < Length THEN answer'.got = IF answer'.again THEN <<>> ELSE <<i>>
       ELSE answer'.got = <<>> \/ (answer'.got = Refused /\ ~Complete)
  <2>1. i = Records => i >= Records
    BY <1>9
  <2>2. i = Records /\ at.window.taken <=> answer'.again
    BY <1>8, <1>11, <2>1
  <2> QED
    BY <1>7, <1>8, <2>2
<1>14. handed' <=> frame' = LastFrame /\ window'.taken
  <2>1. handed' <=> read.got = <<Records>> \/ (handed /\ i # Slots /\ read.got = <<>>)
    BY <1>8
  <2> QED
    BY <1>5, <1>6, <1>7, <1>11, <1>12, <2>1
<1>15. frame' \in 0 .. LastFrame
  BY <1>1, <1>6
<1> QED
  BY <1>5, <1>7, <1>8, <1>13, <1>14, <1>15

LEMMA RecordFits ==
  ASSUME FitInv, NEW i \in Nat, Record(i), NoteInv'
  PROVE  FitInv'
<1>1. /\ file \in Files /\ WindowOK(window) /\ frame \in 0 .. LastFrame
      /\ LastFrame \in Nat \ {0} /\ iter = NoIter /\ UNCHANGED <<file, iter>>
      /\ handed \in BOOLEAN /\ (handed <=> frame = LastFrame /\ window.taken)
      /\ handed' = (answer'.got = <<Records>> \/ (handed /\ i # Slots /\ answer'.got = <<>>))
  BY FramesAreNumbered DEF FitInv, TypeOK, Record, HandedInv, NoIter, None, Owned
<1>2. Records' = Records /\ Length' = Length /\ Complete' = Complete /\ LastFrame' = LastFrame
  BY <1>1, AnswersStand
<1>3. ASSUME answer'.call = "record", answer'.from = i,
             IF i < Length THEN answer'.got = IF answer'.again THEN <<>> ELSE <<i>>
             ELSE answer'.got = <<>> \/ (answer'.got = Refused /\ ~Complete),
             handed' <=> frame' = LastFrame /\ window'.taken
      PROVE  /\ RecordIsTrue' /\ RangeIsTrue' /\ TotalIsTrue' /\ HandedInv'
             /\ answer'.got = Refused \/ answer'.got \in Seq(Nat)
  <2>1. answer'.got \in {<<i>>, <<>>, Refused}
    BY <1>3
  <2>2. <<i>> \in Seq(Nat) /\ <<>> \in Seq(Nat)
    OBVIOUS
  <2>3. handed' \in BOOLEAN /\ iter'.kind = None
    BY <1>1 DEF NoIter
  <2>4. HandedInv'
    BY <1>2, <1>3, <2>3 DEF HandedInv, None, Borrowed
  <2> QED
    BY <1>2, <1>3, <2>1, <2>2, <2>4 DEF RecordIsTrue, RangeIsTrue, TotalIsTrue
<1>4. CASE PastEnd(i) /\ window' = Probed(window, i)
             /\ frame' = (IF i = Slots THEN 0 ELSE frame)
             /\ answer' = LookedUp(i, <<>>)
  <2>1. WindowOK(window') /\ frame' \in 0 .. LastFrame
    BY <1>1, <1>4, ProbedIs
  <2>2. i >= Length /\ Length \in Nat /\ Records \in Nat /\ Records <= Length
    BY <1>1, <1>4, PastEndIs, LengthIs
  <2>3. answer'.call = "record" /\ answer'.from = i /\ answer'.got = <<>>
    BY <1>4 DEF LookedUp, Called
  <2>4. ~(i < Length)
    BY <2>2
  <2>5. handed' <=> frame' = LastFrame /\ window'.taken
    <3>1. handed' <=> handed /\ i # Slots
      <4>1. <<Records>> # <<>>
        OBVIOUS
      <4> QED
        BY <1>1, <2>3, <4>1
    <3>2. CASE i = Slots
      BY <1>1, <1>4, <3>1, <3>2
    <3>3. CASE i # Slots
      BY <1>1, <1>4, <3>1, <3>3 DEF Probed
    <3> QED
      BY <3>2, <3>3
  <2> QED
    BY <1>1, <1>3, <2>1, <2>3, <2>4, <2>5, CallFits
<1>5. CASE /\ ~PastEnd(i) /\ frame' = FirstFrame(i)
           /\ LET f == FirstFrame(i)
                  at == IF i = Slots THEN [window |-> Point(f, f), skip |-> Skipped(i)]
                        ELSE WalkTo(f, Skipped(i))
              IN  \E read \in Read(at.window, at.skip, 1, <<>>) :
                    window' = read.window /\ answer' = LookedUp(i, read.got)
  <2>1. /\ WindowOK(window') /\ frame' \in 0 .. LastFrame
        /\ answer'.call = "record" /\ answer'.from = i
        /\ IF i < Length THEN answer'.got = IF answer'.again THEN <<>> ELSE <<i>>
           ELSE answer'.got = <<>> \/ (answer'.got = Refused /\ ~Complete)
        /\ handed' <=> frame' = LastFrame /\ window'.taken
    BY ONLY <1>1, <1>5, FitInv, i \in Nat, RecordAnswers
  <2> QED
    BY <1>1, <1>3, <2>1, CallFits
<1> QED
  BY <1>4, <1>5 DEF Record

LEMMA RangeFits ==
  ASSUME FitInv, NEW from \in Nat, NEW cnt \in Nat,
         RecordsTo(from, cnt) \/ FoldRecords(from, cnt), NoteInv', HandedInv'
  PROVE  FitInv'
<1>1. /\ file \in Files /\ WindowOK(window) /\ frame \in 0 .. LastFrame
      /\ LastFrame \in Nat \ {0} /\ UNCHANGED <<file, iter>>
  BY FramesAreNumbered DEF FitInv, TypeOK, RecordsTo, FoldRecords
<1>2. ASSUME NEW name \in {"records_to", "fold_records"}, NEW got,
             answer' = Called(name, from, cnt, got),
             \/ /\ got = Numbers(from, Upto(from + cnt) - Upto(from))
                /\ Upto(from + cnt) - Upto(from) \in Nat
             \/ /\ got = Refused
                /\ from >= Length \/ (~Complete /\ from + cnt > Length)
      PROVE  /\ RecordIsTrue' /\ RangeIsTrue' /\ TotalIsTrue'
             /\ answer'.got = Refused \/ answer'.got \in Seq(Nat)
  <2>1. Length' = Length /\ Complete' = Complete
    BY <1>1, AnswersStand
  <2>2. /\ answer'.call = name /\ answer'.from = from /\ answer'.cnt = cnt
        /\ answer'.got = got
    BY <1>2 DEF Called
  <2>3. got = Refused \/ got \in Seq(Nat)
    BY <1>2, NumbersAre
  <2>4. Upto(answer.from + answer.cnt)' = Upto(from + cnt) /\ Upto(answer.from)' = Upto(from)
    BY <2>1, <2>2 DEF Upto
  <2> QED
    BY <1>2, <2>1, <2>2, <2>3, <2>4 DEF RecordIsTrue, RangeIsTrue, TotalIsTrue, Numbers
<1>3. CASE RecordsTo(from, cnt)
  <2>1. CASE PastEnd(from) /\ window' = Probed(window, from)
               /\ frame' = (IF from = Slots THEN 0 ELSE frame)
               /\ answer' = Called("records_to", from, cnt, Refused)
    <3>1. WindowOK(window') /\ frame' \in 0 .. LastFrame
      BY <1>1, <2>1, ProbedIs
    <3>2. from >= Length
      BY <1>1, <2>1, PastEndIs
    <3>3. /\ RecordIsTrue' /\ RangeIsTrue' /\ TotalIsTrue'
          /\ answer'.got = Refused \/ answer'.got \in Seq(Nat)
      BY <1>2, <2>1, <3>2
    <3> QED
      BY <1>1, <3>1, <3>3, CallFits
  <2>2. CASE /\ ~PastEnd(from) /\ frame' = 0
             /\ \E read \in Read(Span(from, cnt), Skipped(from), cnt, Refused) :
                  window' = read.window /\ answer' = Called("records_to", from, cnt, read.got)
    <3>1. PICK read \in Read(Span(from, cnt), Skipped(from), cnt, Refused) :
            window' = read.window /\ answer' = Called("records_to", from, cnt, read.got)
      BY <2>2
    <3>2. from <= Slots
      BY <1>1, <2>2, PastEndIs
    <3>3. /\ WindowOK(read.window)
          /\ \/ read.got = Numbers(from, Upto(from + cnt) - Upto(from))
                /\ Upto(from + cnt) - Upto(from) \in Nat
             \/ /\ read.got = Refused
                /\ from >= Length \/ (~Complete /\ from + cnt > Length)
      BY <1>1, <3>1, <3>2, RangeRead
    <3>4. /\ RecordIsTrue' /\ RangeIsTrue' /\ TotalIsTrue'
          /\ answer'.got = Refused \/ answer'.got \in Seq(Nat)
      BY <1>2, <3>1, <3>3
    <3> QED
      BY <1>1, <2>2, <3>1, <3>3, <3>4, CallFits
  <2> QED
    BY <1>3, <2>1, <2>2 DEF RecordsTo
<1>4. CASE FoldRecords(from, cnt)
  <2>1. CASE /\ from > Slots /\ UNCHANGED <<window, frame>>
             /\ answer' = Called("fold_records", from, cnt, Refused)
    <3>1. from >= Length
      BY <1>1, <2>1, PastEndIs DEF PastEnd
    <3>2. /\ RecordIsTrue' /\ RangeIsTrue' /\ TotalIsTrue'
          /\ answer'.got = Refused \/ answer'.got \in Seq(Nat)
      BY <1>2, <2>1, <3>1
    <3> QED
      BY <1>1, <2>1, <3>2, CallFits
  <2>2. CASE /\ from <= Slots /\ frame' = 0
             /\ \E read \in Read(Span(from, cnt), Skipped(from), cnt, Refused) :
                  window' = read.window /\ answer' = Called("fold_records", from, cnt, read.got)
    <3>1. PICK read \in Read(Span(from, cnt), Skipped(from), cnt, Refused) :
            window' = read.window /\ answer' = Called("fold_records", from, cnt, read.got)
      BY <2>2
    <3>2. /\ WindowOK(read.window)
          /\ \/ read.got = Numbers(from, Upto(from + cnt) - Upto(from))
                /\ Upto(from + cnt) - Upto(from) \in Nat
             \/ /\ read.got = Refused
                /\ from >= Length \/ (~Complete /\ from + cnt > Length)
      BY <1>1, <2>2, <3>1, RangeRead
    <3>3. /\ RecordIsTrue' /\ RangeIsTrue' /\ TotalIsTrue'
          /\ answer'.got = Refused \/ answer'.got \in Seq(Nat)
      BY <1>2, <3>1, <3>2
    <3> QED
      BY <1>1, <2>2, <3>1, <3>2, <3>3, CallFits
  <2> QED
    BY <1>4, <2>1, <2>2 DEF FoldRecords
<1> QED
  BY <1>3, <1>4

LEMMA TotalFits ==
  ASSUME FitInv, TotalRecords, NoteInv', HandedInv'
  PROVE  FitInv'
<1>1. /\ file \in Files /\ UNCHANGED <<file, iter>> /\ frame' = 0
      /\ LastFrame \in Nat \ {0}
  BY FramesAreNumbered DEF FitInv, TypeOK, TotalRecords
<1>2. PICK read \in ReadAll(Point(LastFrame, LastFrame)) :
        /\ window' = read.window
        /\ answer' = Called("total_records", 0, 0,
                            IF read.got = Refused THEN Refused
                            ELSE <<PerFrame * (LastFrame - 1) + Len(read.got)>>)
  BY DEF TotalRecords
<1>3. /\ WindowOK(read.window)
      /\ (IF read.got = Refused THEN Refused
          ELSE <<PerFrame * (LastFrame - 1) + Len(read.got)>>)
         = IF Complete THEN <<Length>> ELSE Refused
  BY <1>1, <1>2, TotalRead
<1>4. /\ answer'.call = "total_records"
      /\ answer'.got = IF Complete THEN <<Length>> ELSE Refused
  BY <1>2, <1>3 DEF Called
<1>5. Length' = Length /\ Complete' = Complete /\ Length \in Nat
  BY <1>1, AnswersStand, LengthIs
<1>6. RecordIsTrue' /\ RangeIsTrue' /\ TotalIsTrue'
  BY <1>4, <1>5 DEF RecordIsTrue, RangeIsTrue, TotalIsTrue
<1>7. answer'.got = Refused \/ answer'.got \in Seq(Nat)
  <2>1. <<Length>> \in Seq(Nat)
    BY <1>5
  <2> QED
    BY <1>4, <2>1
<1>8. WindowOK(window') /\ frame' \in 0 .. LastFrame
  BY <1>1, <1>2, <1>3
<1> QED
  BY <1>1, <1>6, <1>7, <1>8, CallFits

\* A step of an iterator, which answers no call of the reader.
LEMMA IterFits ==
  ASSUME FitInv, NoteInv', HandedInv', UNCHANGED file, UNCHANGED answer \/ answer' = NoAnswer,
         WindowOK(window'), frame' \in 0 .. LastFrame,
         IterTypes(iter')
  PROVE  FitInv'
<1>1. UNCHANGED answer \/ answer'.got \in Seq(Nat)
  <2>1. NoAnswer.got = <<>> /\ <<>> \in Seq(Nat)
    BY DEF NoAnswer, Called
  <2> QED
    BY <2>1
<1>2. TypeOK' /\ WindowOK(window)'
  BY <1>1, TypesStand DEF FitInv
<1>3. RecordIsTrue' /\ RangeIsTrue' /\ TotalIsTrue'
  <2>1. CASE UNCHANGED answer
    BY <2>1, AnswersStand DEF FitInv
  <2>2. CASE answer' = NoAnswer
    BY <2>2 DEF NoAnswer, Called, None, RecordIsTrue, RangeIsTrue, TotalIsTrue
  <2> QED
    BY <2>1, <2>2
<1> QED
  BY <1>2, <1>3 DEF FitInv

LEMMA HandedType ==
  ASSUME NEW end \in Nat, NEW fragment, NEW from \in Nat, NEW n \in Nat, NEW got,
         from <= end, Handed(end, fragment, from, n, got)
  PROVE  got = Refused \/ got \in Seq(Nat)
<1>1. end - from \in Nat /\ end - from + 1 \in Nat
  OBVIOUS
<1> QED
  BY <1>1, NumbersAre DEF Handed

\* What the first step of a forward walk reads, and what each further step does.
LEMMA FirstItem ==
  ASSUME file \in Files, NEW from \in Nat, ~PastEnd(from),
         NEW read \in Read(SpanToEnd(from), Skipped(from), 1, Refused)
  PROVE  /\ WindowOK(read.window) /\ read.window.last = LastFrame
         /\ read.got = Refused \/ read.got \in Seq(Nat)
         /\ IF from > Records THEN read.got = Refused
            ELSE Handed(Records, file.part, from, 1, read.got)
<1> DEFINE f == FirstFrame(from)
           w == Point(f, LastFrame)
<1>1. /\ f \in 1 .. LastFrame /\ Skipped(from) \in Nat /\ StartOf(f) + Skipped(from) = from
  BY PastEndIs, FirstFrameIs
<1>2. LastFrame \in f .. LastFrame /\ LastFrame \in 1 .. LastFrame /\ Records \in Nat
  BY <1>1, FramesAreNumbered, LengthIs
<1> HIDE DEF f
<1>3. /\ WindowOK(w) /\ NumberOf(w) = StartOf(f) /\ SpanToEnd(from) = w
      /\ w.last = LastFrame /\ file.ends[w.last] = Records /\ HasFragment(w) = file.part
  BY <1>1, <1>2, PointIs, FramesAreEven DEF SpanToEnd, HasFragment, Point, Records, f
<1> HIDE DEF w
<1>4. /\ WindowOK(read.window) /\ SameSpan(read.window, w)
      /\ IF from > Records THEN read.got = Refused
         ELSE Handed(Records, file.part, from, 1, read.got)
  BY <1>1, <1>3, ReadIs
<1>5. read.got = Refused \/ read.got \in Seq(Nat)
  BY <1>2, <1>4, HandedType
<1> QED
  BY <1>3, <1>4, <1>5 DEF SameSpan

LEMMA NextHanded ==
  ASSUME file \in Files, NEW w, WindowOK(w), NEW n \in Nat, NEW read \in HandOut(w, n)
  PROVE  WindowOK(read.window) /\ (read.got = Refused \/ read.got \in Seq(Nat))
<1>1. file.ends[w.last] \in Nat /\ NumberOf(w) \in Nat /\ NumberOf(w) <= file.ends[w.last]
  <2>1. /\ w.walked \in Nat /\ StartOf(w.first) \in Nat /\ file.ends[w.last] \in Nat
        /\ Left(w) \in Nat /\ Left(w) = file.ends[w.last] - StartOf(w.first) - w.walked
        /\ NumberOf(w) \in Nat /\ NumberOf(w) = StartOf(w.first) + w.walked
    BY WindowSpan
  <2> QED
    BY <2>1
<1>2. /\ WindowOK(read.window)
      /\ Handed(file.ends[w.last], HasFragment(w), NumberOf(w), n, read.got)
  BY HandOutIs
<1> QED
  BY <1>1, <1>2, HandedType

LEMMA ForwardFits ==
  ASSUME FitInv, NoteInv', HandedInv', iter.kind # None, UNCHANGED <<file, answer>>,
         NEW w, WindowOK(w), NEW f \in 0 .. LastFrame, Forward(w, f)
  PROVE  FitInv'
<1>1. /\ file \in Files /\ DOMAIN iter = IterFields /\ iter.front \in Nat
      /\ iter.kind \in {Borrowed, Owned} /\ iter.backFrame \in 1 .. LastFrame
      /\ iter.backLeft \in 0 .. PerFrame + 1 \cup {Uncounted}
      /\ iter.armed \in BOOLEAN /\ iter.spent \in BOOLEAN
      /\ 0 \in 0 .. LastFrame
  BY FramesAreNumbered DEF FitInv, NoteInv, Shapes, TypeOK
<1>2. <<>> \in Seq(Nat) /\ UNCHANGED file /\ UNCHANGED answer
  OBVIOUS
<1>3. ASSUME NEW got, Give(got), got = Refused \/ got \in Seq(Nat),
             WindowOK(window'), frame' \in 0 .. LastFrame
      PROVE  FitInv'
  <2>1. /\ iter'.kind = iter.kind /\ iter'.backFrame = iter.backFrame
        /\ iter'.backLeft = iter.backLeft /\ iter'.call = Idle /\ iter'.armed = TRUE
        /\ iter'.front \in {iter.front, iter.front + 1}
        /\ iter'.spent = (got \in {<<>>, Refused}) /\ iter'.item = got
    BY <1>1, <1>3 DEF Give, IterFields
  <2>2. iter'.spent \in {iter.spent, TRUE, FALSE}
    <3>1. CASE got \in {<<>>, Refused}
      BY <2>1, <3>1
    <3>2. CASE ~(got \in {<<>>, Refused})
      <4>1. (got \in {<<>>, Refused}) = FALSE
        BY <3>2
      <4> QED
        BY <2>1, <4>1
    <3> QED
      BY <3>1, <3>2
  <2>3. IterTypes(iter')
    BY <1>3, <2>1, <2>2, IterTypesKept DEF FitInv
  <2> QED
    BY <1>2, <1>3, <2>3, IterFits
<1>4. CASE /\ iter' = [iter EXCEPT !.item = <<>>, !.call = Idle]
           /\ window' = w /\ frame' = f
  <2>1. /\ iter'.kind = iter.kind /\ iter'.backFrame = iter.backFrame
        /\ iter'.backLeft = iter.backLeft /\ iter'.call = Idle /\ iter'.armed = iter.armed
        /\ iter'.front = iter.front /\ iter'.spent = iter.spent /\ iter'.item = <<>>
    BY <1>1, <1>4 DEF IterFields
  <2>2. IterTypes(iter')
    BY <1>2, <2>1, IterTypesKept DEF FitInv
  <2> QED
    BY <1>2, <1>4, <2>2, IterFits
<1>5. CASE Give(Refused) /\ window' = Probed(w, iter.front) /\ frame' = f
  BY <1>1, <1>3, <1>5, ProbedIs
<1>6. CASE /\ ~PastEnd(iter.front)
           /\ \E read \in Read(SpanToEnd(iter.front), Skipped(iter.front), 1, Refused) :
                Give(read.got) /\ window' = read.window
           /\ frame' = 0
  BY <1>1, <1>3, <1>6, FirstItem
<1>7. CASE /\ \E read \in HandOut(w, 1) : Give(read.got) /\ window' = read.window
           /\ frame' = f
  BY <1>1, <1>3, <1>7, NextHanded
<1> QED
  BY <1>4, <1>5, <1>6, <1>7 DEF Forward

\* The window count_frame reads through, at the start of the frame.
LEMMA CountedWindow ==
  ASSUME FitInv, NEW f \in 1 .. LastFrame, iter.kind = Owned, ~iter.spent
  PROVE  LET w == WalkTo(f, 0).window
         IN  /\ WindowOK(w) /\ w.first = f /\ w.last = f /\ NumberOf(w) = StartOf(f)
             /\ w.taken => w = window
<1> DEFINE at == WalkTo(f, 0)
<1>1. file \in Files /\ WindowOK(window)
      /\ (frame # 0 => window.first = frame /\ window.last = frame)
  BY DEF FitInv, TypeOK, NoteInv, WindowIsNoted
<1>2. /\ WindowOK(at.window) /\ at.window.first = f /\ at.window.last = f
      /\ at.skip \in Nat /\ NumberOf(at.window) + at.skip = StartOf(f) + 0
      /\ at.window.taken => at.window = window
  BY <1>1, WalkToIs
<1> HIDE DEF at
<1>3. /\ at.window.walked \in Nat /\ StartOf(f) \in Nat
      /\ NumberOf(at.window) = StartOf(f) + at.window.walked
  BY <1>1, <1>2, WindowSpan
<1>4. NumberOf(at.window) = StartOf(f)
  BY <1>2, <1>3
<1> QED
  BY <1>2, <1>4 DEF at

LEMMA CountFrameFits ==
  ASSUME FitInv, NoteInv', HandedInv', CountFrame
  PROVE  FitInv'
<1> DEFINE f == iter.backFrame
           w == WalkTo(f, 0).window
<1>1. /\ file \in Files /\ DOMAIN iter = IterFields /\ iter.front \in Nat
      /\ iter.kind = Owned /\ ~iter.spent /\ iter.call = Back /\ f \in 1 .. LastFrame
      /\ iter.backLeft \in 0 .. PerFrame + 1 \cup {Uncounted}
      /\ iter.armed \in BOOLEAN /\ (iter.item = Refused \/ iter.item \in Seq(Nat))
      /\ UNCHANGED <<file, answer>> /\ LastFrame \in Nat /\ PerFrame \in Nat
  BY FramesAreNumbered DEF FitInv, NoteInv, Shapes, BackIsOwned, TypeOK, CountFrame
<1>2. /\ WindowOK(w) /\ w.first = f /\ w.last = f /\ NumberOf(w) = StartOf(f)
  BY <1>1, CountedWindow
<1>3. PICK read \in ReadAll(w) :
        \/ read.got = Refused /\ Give(Refused) /\ window' = read.window /\ frame' = f
        \/ Forward(read.window, 0)
        \/ /\ read.got # Refused
           /\ iter' = [iter EXCEPT !.backLeft = Len(read.got)]
           /\ window' = read.window /\ frame' = 0
  BY DEF CountFrame
<1> HIDE DEF f, w
<1>4. /\ WindowOK(read.window)
      /\ IF ~HasFragment(w) THEN read.got = Numbers(StartOf(f), file.ends[f] - StartOf(f))
         ELSE IF TailIsRecord
         THEN read.got = Numbers(StartOf(f), file.ends[f] - StartOf(f) + 1)
         ELSE read.got = Refused
      /\ StartOf(f) \in Nat /\ file.ends[f] - StartOf(f) \in 0 .. PerFrame
  BY <1>1, <1>2, <1>3, FrameRead
<1>5. read.got # Refused => Len(read.got) \in 0 .. PerFrame + 1
  <2> DEFINE k == file.ends[f] - StartOf(f)
  <2>1. k \in Nat /\ k + 1 \in Nat /\ k \in 0 .. PerFrame + 1 /\ k + 1 \in 0 .. PerFrame + 1
    BY <1>1, <1>4
  <2> HIDE DEF k
  <2>2. read.got # Refused => read.got \in {Numbers(StartOf(f), k), Numbers(StartOf(f), k + 1)}
    BY <1>4 DEF k
  <2> QED
    BY <1>4, <2>1, <2>2, NumbersAre
<1>6. CASE Give(Refused) /\ window' = read.window /\ frame' = f
  <2>1. /\ iter'.kind = iter.kind /\ iter'.backFrame = iter.backFrame
        /\ iter'.backLeft = iter.backLeft /\ iter'.call = Idle /\ iter'.armed = TRUE
        /\ iter'.front = iter.front /\ iter'.spent = TRUE /\ iter'.item = Refused
    BY <1>1, <1>6 DEF Give, IterFields
  <2>2. f \in 0 .. LastFrame /\ UNCHANGED file /\ UNCHANGED answer
    BY <1>1
  <2>3. IterTypes(iter')
    BY <2>1, IterTypesKept DEF FitInv
  <2> QED
    BY <1>4, <1>6, <2>2, <2>3, IterFits
<1>7. CASE Forward(read.window, 0)
  BY <1>1, <1>4, <1>7, ForwardFits DEF None, Owned
<1>8. CASE /\ read.got # Refused
           /\ iter' = [iter EXCEPT !.backLeft = Len(read.got)]
           /\ window' = read.window /\ frame' = 0
  <2>1. /\ iter'.kind = iter.kind /\ iter'.backFrame = iter.backFrame
        /\ iter'.backLeft = Len(read.got) /\ iter'.call = iter.call /\ iter'.armed = iter.armed
        /\ iter'.front = iter.front /\ iter'.spent = iter.spent /\ iter'.item = iter.item
    BY <1>1, <1>8 DEF IterFields
  <2>2. 0 \in 0 .. LastFrame /\ UNCHANGED file /\ UNCHANGED answer
    BY <1>1
  <2>3. IterTypes(iter')
    BY <1>5, <1>8, <2>1, IterTypesKept DEF FitInv
  <2> QED
    BY <1>4, <1>8, <2>2, <2>3, IterFits
<1> QED
  BY <1>3, <1>6, <1>7, <1>8

LEMMA GiveBackFits ==
  ASSUME FitInv, NoteInv', HandedInv', GiveBack
  PROVE  FitInv'
<1> DEFINE f == iter.backFrame
           index == iter.backLeft - 1
           at == WalkTo(f, index)
<1>1. /\ file \in Files /\ DOMAIN iter = IterFields /\ iter.front \in Nat
      /\ iter.kind = Owned /\ ~iter.spent /\ iter.call = Back /\ f \in 1 .. LastFrame
      /\ iter.backLeft \in 0 .. PerFrame + 1 \cup {Uncounted} /\ iter.backLeft > 0
      /\ iter.armed \in BOOLEAN /\ (iter.item = Refused \/ iter.item \in Seq(Nat))
      /\ UNCHANGED <<file, answer>> /\ LastFrame \in Nat /\ PerFrame \in Nat
      /\ WindowOK(window) /\ frame \in 0 .. LastFrame
      /\ (frame # 0 => window.first = frame /\ window.last = frame)
  BY FramesAreNumbered
  DEF FitInv, NoteInv, Shapes, BackIsOwned, WindowIsNoted, TypeOK, GiveBack
<1>2. index \in 0 .. PerFrame + 1 /\ index \in Nat
  BY <1>1 DEF Uncounted
<1>3. UNCHANGED file /\ UNCHANGED answer /\ <<>> \in Seq(Nat) /\ f \in 0 .. LastFrame
  BY <1>1
<1>4. CASE /\ iter' = [iter EXCEPT !.spent = TRUE, !.item = <<>>, !.call = Idle]
           /\ UNCHANGED <<window, frame>>
  <2>1. /\ iter'.kind = iter.kind /\ iter'.backFrame = iter.backFrame
        /\ iter'.backLeft = iter.backLeft /\ iter'.call = Idle /\ iter'.armed = iter.armed
        /\ iter'.front = iter.front /\ iter'.spent = TRUE /\ iter'.item = <<>>
    BY <1>1, <1>4 DEF IterFields
  <2>2. IterTypes(iter')
    BY <1>3, <2>1, IterTypesKept DEF FitInv
  <2>3. WindowOK(window') /\ frame' \in 0 .. LastFrame
    BY <1>1, <1>4
  <2> QED
    BY <1>3, <2>2, <2>3, IterFits
<1>5. ASSUME NEW read \in Read(at.window, at.skip, 1, Refused),
             window' = read.window, frame' = f,
             iter' = IF read.got = Refused
                     THEN [iter EXCEPT !.item = Refused, !.spent = TRUE, !.call = Idle]
                     ELSE IF read.got = <<>>
                     THEN [iter EXCEPT !.backLeft = index]
                     ELSE [iter EXCEPT !.item = read.got, !.backLeft = index, !.call = Idle]
      PROVE  FitInv'
  <2>1. WindowOK(at.window) /\ at.skip \in Nat
    BY <1>1, <1>2, WalkToIs
  <2> HIDE DEF at, f, index
  <2>2. /\ WindowOK(read.window)
        /\ IF NumberOf(at.window) + at.skip > file.ends[at.window.last] THEN read.got = Refused
           ELSE Handed(file.ends[at.window.last], HasFragment(at.window),
                       NumberOf(at.window) + at.skip, 1, read.got)
    BY <1>1, <1>5, <2>1, ReadIs
  <2>3. read.got = Refused \/ read.got \in Seq(Nat)
    <3>1. file.ends[at.window.last] \in Nat /\ NumberOf(at.window) \in Nat
      BY <1>1, <2>1, WindowSpan
    <3>2. NumberOf(at.window) + at.skip \in Nat
      BY <2>1, <3>1
    <3> QED
      BY <2>2, <3>1, <3>2, HandedType
  <2>4. /\ iter'.kind = iter.kind /\ iter'.backFrame = iter.backFrame
        /\ iter'.backLeft \in {iter.backLeft, index} /\ iter'.call \in {iter.call, Idle}
        /\ iter'.armed = iter.armed /\ iter'.front = iter.front
        /\ iter'.spent \in {iter.spent, TRUE} /\ iter'.item \in {iter.item, read.got}
    BY <1>1, <1>5 DEF IterFields
  <2>5. iter'.backLeft \in 0 .. PerFrame + 1 \cup {Uncounted}
    BY <1>1, <1>2, <2>4
  <2>6. iter.spent = FALSE \/ iter.spent = TRUE
    BY DEF FitInv, TypeOK
  <2>7. IterTypes(iter')
    BY <2>3, <2>4, <2>5, IterTypesKept DEF FitInv
  <2> QED
    BY <1>3, <1>5, <2>2, <2>7, IterFits
<1> QED
  BY <1>4, <1>5 DEF GiveBack

LEMMA FitInitially ==
  Init => FitInv
<1> SUFFICES ASSUME Init PROVE FitInv
  OBVIOUS
<1>1. /\ file \in Files /\ LastFrame \in Nat \ {0} /\ PerFrame \in Nat \ {0}
      /\ window = Point(1, 1) /\ frame = 0 /\ answer = NoAnswer /\ iter = NoIter
  BY FramesAreNumbered DEF Init, LookupInit
<1>2. WindowOK(window)
  <2>1. 1 \in 1 .. LastFrame
    BY <1>1
  <2> QED
    BY <1>1, <2>1, PointIs
<1>3. <<>> \in Seq(Nat) /\ answer.got = <<>> /\ answer.call = "none"
  BY <1>1 DEF NoAnswer, Called, None
<1>4. /\ iter.kind = None /\ iter.front = 0 /\ iter.backFrame = 1 /\ iter.backLeft = Uncounted
      /\ iter.armed = FALSE /\ iter.spent = FALSE /\ iter.call = Idle /\ iter.item = <<>>
  BY <1>1 DEF NoIter
<1>5. 0 \in 0 .. LastFrame /\ 1 \in 1 .. LastFrame
  BY <1>1
<1>6. IterTypes(iter)
  <2>1. iter.front \in Nat /\ iter.backFrame \in 1 .. LastFrame
    BY <1>4, <1>5
  <2>2. iter.backLeft \in 0 .. PerFrame + 1 \cup {Uncounted}
    BY <1>4
  <2>3. iter.armed \in BOOLEAN /\ iter.spent \in BOOLEAN /\ iter.call \in {Idle, Back}
    BY <1>4
  <2>4. iter.item \in Seq(Nat)
    BY <1>3, <1>4
  <2> QED
    BY <1>4, <2>1, <2>2, <2>3, <2>4 DEF IterTypes
<1>7. TypeOK
  BY <1>1, <1>2, <1>3, <1>5, <1>6, WindowTypes DEF TypeOK, IterTypes
<1>8. HandedInv
  <2>1. handed = FALSE
    BY DEF Init
  <2> QED
    BY <1>1, <1>4, <2>1 DEF HandedInv, None, Borrowed
<1> QED
  BY <1>2, <1>3, <1>7, <1>8, Initially DEF FitInv, RecordIsTrue, RangeIsTrue, TotalIsTrue

\* An owned iterator's reader is looked nothing up in any more.
LEMMA OwnedHands ==
  ASSUME handed' \in BOOLEAN, iter'.kind = Owned
  PROVE  HandedInv'
BY DEF HandedInv, Owned, Borrowed

LEMMA NextItemHands ==
  ASSUME ~PastTheEnd, FitInv, NextItem
  PROVE  HandedInv'
<1>1. /\ handed \in BOOLEAN /\ handed' \in BOOLEAN /\ DOMAIN iter = IterFields
      /\ iter.kind \in {Borrowed, Owned} /\ UNCHANGED file
      /\ iter.spent \in BOOLEAN /\ iter.armed \in BOOLEAN
      /\ handed' = (handed /\ (iter.spent \/ PastEnd(iter.front)))
      /\ LastFrame \in Nat \ {0} /\ file \in Files /\ LastFrame' = LastFrame
  BY FramesAreNumbered, AnswersStand
  DEF FitInv, NoteInv, Shapes, TypeOK, HandedInv, NextItem
<1>2. iter'.kind = iter.kind /\ iter'.backLeft = iter.backLeft
  BY <1>1 DEF NextItem, Forward, Give, IterFields
<1>3. CASE iter.kind = Owned
  BY <1>1, <1>2, <1>3, OwnedHands
<1>4. CASE iter.kind = Borrowed
  <2>1. /\ iter.backLeft = Uncounted /\ (iter.armed /\ ~iter.spent => frame = 0)
        /\ handed <=> frame = LastFrame /\ window.taken
        /\ ~iter.armed => iter.front # Slots \/ FinalSlotIsTail
    BY <1>4 DEF FitInv, HandedInv, NoteInv, BorrowedCanRead, Borrowed, Owned
  <2>2. ASSUME handed' <=> frame' = LastFrame /\ window'.taken,
               iter'.armed /\ ~iter'.spent => frame' = 0
        PROVE  HandedInv'
    BY <1>1, <1>2, <1>4, <2>1, <2>2 DEF HandedInv, Borrowed, Owned
  <2>3. CASE /\ iter.spent
             /\ iter' = [iter EXCEPT !.item = <<>>, !.call = Idle]
             /\ window' = window /\ frame' = frame
    <3>1. iter'.spent
      BY <1>1, <2>3 DEF IterFields
    <3> QED
      BY <1>1, <2>1, <2>2, <2>3, <3>1
  <2>4. CASE /\ ~iter.spent /\ ~iter.armed /\ PastEnd(iter.front)
             /\ Give(Refused)
             /\ window' = Probed(window, iter.front) /\ frame' = frame
    <3>1. iter'.spent = TRUE
      BY <1>1, <2>4 DEF Give, IterFields
    <3>2. window' = window
      <4>1. Slots \in Nat
        BY FramesAreNumbered DEF Slots, FitInv, TypeOK
      <4>2. iter.front # Slots
        BY <2>1, <2>4, <4>1 DEF PastEnd
      <4> QED
        BY <2>4, <4>2 DEF Probed
    <3> QED
      BY <1>1, <2>1, <2>2, <2>4, <3>1, <3>2
  <2>5. CASE ~iter.spent /\ ~PastEnd(iter.front) /\ frame' = 0
    BY <1>1, <2>2, <2>5
  <2>6. CASE ~iter.spent /\ iter.armed /\ frame' = frame
    BY <1>1, <2>1, <2>2, <2>6
  <2> QED
    BY <2>1, <2>3, <2>4, <2>5, <2>6 DEF NextItem, Forward, MetTheReverseRead
<1> QED
  BY <1>1, <1>3, <1>4

LEMMA HandedNext ==
  ASSUME ~PastTheEnd, FitInv, [Next]_vars, \A i \in 0 .. MaxIndex : ~Record(i)
  PROVE  HandedInv'
<1>1. /\ handed \in BOOLEAN /\ DOMAIN iter = IterFields
      /\ LastFrame \in Nat \ {0} /\ file \in Files
      /\ iter.kind # Owned => (handed <=> frame = LastFrame /\ window.taken)
      /\ iter.call = Back => iter.kind = Owned
  BY FramesAreNumbered DEF FitInv, NoteInv, Shapes, TypeOK, HandedInv, BackIsOwned
<1>2. ASSUME UNCHANGED file PROVE LastFrame' = LastFrame
  BY <1>2, AnswersStand
<1>3. ASSUME iter = NoIter, UNCHANGED <<file, iter>>,
             \/ ~handed' /\ frame' = 0
             \/ UNCHANGED <<window, frame, handed>>,
             handed' \in BOOLEAN
      PROVE  HandedInv'
  BY <1>1, <1>2, <1>3 DEF HandedInv, NoIter, None, Borrowed, Owned
<1>4. ASSUME NEW i \in 0 .. MaxIndex, RecordsFrom(i) \/ IntoRecordsFrom(i)
      PROVE  HandedInv'
  <2>1. /\ iter = NoIter /\ UNCHANGED <<file, window, frame, handed>>
        /\ iter' \in {Iter(Borrowed, i), Iter(Owned, i)}
    BY <1>4 DEF RecordsFrom, IntoRecordsFrom
  <2>2. iter'.armed = FALSE /\ iter'.backLeft = Uncounted
    BY <2>1 DEF Iter
  <2> QED
    BY <1>1, <1>2, <2>1, <2>2 DEF HandedInv, NoIter, None, Owned
<1>5. ASSUME NEW from \in 0 .. MaxIndex, NEW cnt \in 0 .. MaxCount,
             RecordsTo(from, cnt) \/ FoldRecords(from, cnt)
      PROVE  HandedInv'
  <2>1. /\ iter = NoIter /\ UNCHANGED <<file, iter>> /\ from \in Nat
        /\ handed' = (handed /\ from > Slots)
    BY <1>5, ReaderAssumption DEF RecordsTo, FoldRecords
  <2>2. Slots \in Nat /\ (~PastEnd(from) => from <= Slots)
    <3>1. Slots \in Nat
      BY <1>1, FramesAreNumbered DEF Slots
    <3> QED
      BY <1>1, <2>1, <3>1, PastEndIs
  <2>3. from <= Slots => frame' = 0
    BY <1>5, <2>1, <2>2 DEF RecordsTo, FoldRecords, PastEnd
  <2>4. from > Slots => UNCHANGED <<window, frame>>
    BY <1>5, <2>1, <2>2 DEF RecordsTo, FoldRecords, Probed
  <2>5. handed' \in BOOLEAN
    BY <2>1
  <2>6. CASE from <= Slots
    <3>1. ~(from > Slots)
      BY <2>1, <2>2, <2>6
    <3>2. ~handed' /\ frame' = 0
      BY <2>1, <2>3, <2>6, <3>1
    <3> QED
      BY <1>3, <2>1, <2>5, <3>2
  <2>7. CASE from > Slots
    <3>1. handed' = handed
      BY <1>1, <2>1, <2>7
    <3> QED
      BY <1>3, <2>1, <2>4, <2>5, <2>7, <3>1
  <2> QED
    BY <2>1, <2>2, <2>6, <2>7
<1>6. CASE TotalRecords
  BY <1>3, <1>6 DEF TotalRecords
<1>7. CASE NextItem
  BY <1>7, NextItemHands
<1>8. CASE NextBack
  <2>1. iter'.kind = iter.kind /\ iter.kind = Owned /\ handed' = handed
    BY <1>1, <1>8 DEF NextBack, IterFields
  <2> QED
    BY <1>1, <2>1, OwnedHands
<1>9. CASE CountFrame
  <2>1. iter'.kind = iter.kind /\ iter.call = Back /\ handed' = handed
    BY <1>1, <1>9 DEF CountFrame, Forward, Give, IterFields
  <2> QED
    BY <1>1, <2>1, OwnedHands
<1>10. CASE FrameBefore
  <2>1. iter'.kind = iter.kind /\ iter.call = Back /\ handed' = handed
    BY <1>1, <1>10 DEF FrameBefore, IterFields
  <2> QED
    BY <1>1, <2>1, OwnedHands
<1>11. CASE GiveBack
  <2>1. iter'.kind = iter.kind /\ iter.call = Back /\ handed' = handed
    BY <1>1, <1>11 DEF GiveBack, IterFields
  <2> QED
    BY <1>1, <2>1, OwnedHands
<1>12. CASE DropIter
  <2>1. /\ iter' = NoIter /\ iter.kind # Owned /\ UNCHANGED <<file, window, frame, handed>>
    BY <1>12 DEF DropIter, Borrowed, Owned
  <2> QED
    BY <1>1, <1>2, <2>1 DEF HandedInv, NoIter, None, Borrowed
<1>13. CASE UNCHANGED vars
  <2>1. UNCHANGED <<file, window, frame, iter, handed>>
    BY <1>13 DEF vars
  <2> QED
    BY <1>2, <2>1 DEF FitInv, HandedInv
<1> QED
  BY <1>4, <1>5, <1>6, <1>7, <1>8, <1>9, <1>10, <1>11, <1>12, <1>13 DEF Next

LEMMA FitNext ==
  ASSUME ~PastTheEnd, FitInv, [Next]_vars
  PROVE  FitInv'
<1>1. /\ NoteInv'
      /\ (\A i \in 0..MaxIndex : ~Record(i)) => HandedInv'
  BY Inductive, HandedNext DEF FitInv
<1>0. ASSUME NEW i \in 0..MaxIndex, Record(i) PROVE FitInv'
  BY <1>0, <1>1, ReaderAssumption, RecordFits
<1>14. SUFFICES ASSUME HandedInv' PROVE FitInv'
  BY <1>0, <1>1
<1>2. /\ file \in Files /\ WindowOK(window) /\ frame \in 0 .. LastFrame
      /\ DOMAIN iter = IterFields /\ iter.backFrame \in 1 .. LastFrame
      /\ LastFrame \in Nat \ {0} /\ LastFrame \in 1 .. LastFrame
      /\ <<>> \in Seq(Nat)
  BY FramesAreNumbered DEF FitInv, NoteInv, Shapes, TypeOK
<1>3. ASSUME NEW i \in 0..MaxIndex, Record(i) \/ RecordsFrom(i) \/ IntoRecordsFrom(i)
      PROVE  FitInv'
  <2>1. i \in Nat
    BY ReaderAssumption
  <2>2. CASE Record(i)
    BY <1>0, <2>2
  <2>3. CASE RecordsFrom(i) \/ IntoRecordsFrom(i)
    <3>1. /\ UNCHANGED <<window, frame>> /\ UNCHANGED file /\ answer' = NoAnswer
          /\ iter' \in {Iter(Borrowed, i), Iter(Owned, i)}
      BY <2>3 DEF RecordsFrom, IntoRecordsFrom
    <3>2. /\ iter'.kind \in {Borrowed, Owned} /\ iter'.front = i /\ iter'.backFrame = LastFrame
          /\ iter'.backLeft = Uncounted /\ iter'.armed = FALSE /\ iter'.spent = FALSE
          /\ iter'.call = Idle /\ iter'.item = <<>>
      BY <3>1 DEF Iter
    <3>3. IterTypes(iter')
      BY <1>2, <2>1, <3>2 DEF IterTypes
    <3> QED
      BY <1>1, <1>14, <1>2, <3>1, <3>3, IterFits
  <2> QED
    BY <1>3, <2>2, <2>3
<1>4. ASSUME NEW i \in 0..MaxIndex, NEW cnt \in 0..MaxCount,
             RecordsTo(i, cnt) \/ FoldRecords(i, cnt)
      PROVE  FitInv'
  BY <1>1, <1>14, <1>4, ReaderAssumption, RangeFits
<1>5. CASE TotalRecords
  BY <1>1, <1>14, <1>5, TotalFits
<1>6. CASE NextItem
  BY <1>1, <1>14, <1>2, <1>6, ForwardFits DEF NextItem
<1>7. ASSUME UNCHANGED file, UNCHANGED answer, UNCHANGED <<window, frame>>, IterTypes(iter')
      PROVE  FitInv'
  BY <1>1, <1>14, <1>2, <1>7, IterFits
<1>8. CASE NextBack
  <2>1. /\ iter'.kind = iter.kind /\ iter'.front = iter.front
        /\ iter'.backFrame = iter.backFrame /\ iter'.backLeft = iter.backLeft
        /\ iter'.armed = FALSE /\ iter'.spent = iter.spent /\ iter'.call \in {iter.call, Back}
        /\ iter'.item \in {iter.item, <<>>}
    BY <1>2, <1>8 DEF NextBack, IterFields
  <2>2. IterTypes(iter')
    BY <1>2, <2>1, IterTypesKept DEF FitInv
  <2> QED
    BY <1>7, <1>8, <2>2 DEF NextBack
<1>9. CASE CountFrame
  BY <1>1, <1>14, <1>9, CountFrameFits
<1>10. CASE FrameBefore
  <2>1. /\ iter'.kind = iter.kind /\ iter'.front = iter.front
        /\ \/ iter'.backFrame = iter.backFrame
           \/ iter.backFrame # 1 /\ iter'.backFrame = iter.backFrame - 1
        /\ iter'.backLeft \in {iter.backLeft, Uncounted}
        /\ iter'.armed = iter.armed /\ iter'.spent \in {iter.spent, TRUE}
        /\ iter'.call \in {iter.call, Idle} /\ iter'.item \in {iter.item, <<>>}
    BY <1>2, <1>10 DEF FrameBefore, IterFields
  <2>2. iter'.backFrame = iter.backFrame \/ iter'.backFrame \in 1 .. LastFrame
    BY <1>2, <2>1
  <2>3. Uncounted \in 0 .. PerFrame + 1 \cup {Uncounted}
    OBVIOUS
  <2>4. IterTypes(iter')
    BY <1>2, <2>1, <2>2, <2>3, IterTypesKept DEF FitInv
  <2> QED
    BY <1>7, <1>10, <2>4 DEF FrameBefore
<1>11. CASE GiveBack
  BY <1>1, <1>14, <1>11, GiveBackFits
<1>12. CASE DropIter
  <2>1. /\ iter'.kind = None /\ iter'.front = 0 /\ iter'.backFrame = 1
        /\ iter'.backLeft = Uncounted /\ iter'.armed = FALSE /\ iter'.spent = FALSE
        /\ iter'.call = Idle /\ iter'.item = <<>>
    BY <1>12 DEF DropIter, NoIter
  <2>2. 0 \in Nat /\ 1 \in 1 .. LastFrame
    BY <1>2
  <2>3. IterTypes(iter')
    BY <1>2, <2>1, <2>2 DEF IterTypes
  <2> QED
    BY <1>7, <1>12, <2>3 DEF DropIter
<1>13. CASE UNCHANGED vars
  <2>1. IterTypes(iter')
    BY <1>13 DEF FitInv, TypeOK, IterTypes, vars
  <2> QED
    BY <1>7, <1>13, <2>1 DEF vars
<1> QED
  BY <1>3, <1>4, <1>5, <1>6, <1>8, <1>9, <1>10, <1>11, <1>12, <1>13 DEF Next

\* Whatever is called in whatever order: the window is where it is noted to be, was
\* never walked past a record that is not of the frames it spans, and what it can
\* go back to is (src/src/record.rs, Reader; src/src/reader.rs, Lookup).
THEOREM ReaderFits ==
  ASSUME ~PastTheEnd
  PROVE  Spec => []FitInv
BY FitInitially, FitNext, PTL DEF Spec

\* Every variable keeps its type, and the window its bounds: it is never walked
\* past the records of the frames it reads (src/src/record.rs, Reader).
THEOREM TypeCorrect ==
  ASSUME ~PastTheEnd
  PROVE  Spec => []TypeOK
<1>1. FitInv => TypeOK
  BY DEF FitInv
<1> QED
  BY <1>1, ReaderFits, PTL

\* Whatever was called before and wherever it left the window, record hands out
\* the record of the number asked for and says None of what is not there
\* (src/src/reader.rs, record), but for a final record without an end: it is handed
\* out the first time, and None is said of it exactly where it is asked for again
\* with nothing read in between (src/src/record.rs, final_record and walk_from).
THEOREM RecordsAreFound ==
  ASSUME ~PastTheEnd
  PROVE  Spec => []RecordIsTrue
<1>1. FitInv => RecordIsTrue
  BY DEF FitInv
<1> QED
  BY <1>1, ReaderFits, PTL

\* A range read hands out the records asked for, as many as there are, each once
\* and in order (src/src/reader.rs, records_to and fold_records).
THEOREM RangesAreWhole ==
  ASSUME ~PastTheEnd
  PROVE  Spec => []RangeIsTrue
<1>1. FitInv => RangeIsTrue
  BY DEF FitInv
<1> QED
  BY <1>1, ReaderFits, PTL

\* The total is the number of records the other calls can hand out, though only
\* the last frame is counted (src/src/reader.rs, total_records).
THEOREM TotalsAreTrue ==
  ASSUME ~PastTheEnd
  PROVE  Spec => []TotalIsTrue
<1>1. FitInv => TotalIsTrue
  BY DEF FitInv
<1> QED
  BY <1>1, ReaderFits, PTL

--------------------------------------------------------------------------------
(***************************************************************************)
(* The iterators, and the queue they are.                                  *)
(***************************************************************************)
Hi ==
  IF iter.kind = None THEN 0
  ELSE IF iter.backLeft # Uncounted THEN (iter.backFrame - 1) * PerFrame + iter.backLeft
  ELSE IF iter.backFrame = LastFrame THEN Length
  ELSE iter.backFrame * PerFrame
Open == iter.kind # None /\ ~iter.spent

\* Between two calls the frame that is taken apart from the back has been
\* counted, unless nothing has been; an unterminated record, counted, is handed
\* out at once.
CountIsTrue ==
  Open =>
    /\ iter.backLeft # Uncounted =>
         /\ iter.backFrame < LastFrame => iter.backLeft <= PerFrame
         /\ Hi <= Length
         /\ Hi > Records => iter.call = Back /\ frame = 0
    /\ iter.backLeft = Uncounted /\ iter.call = Idle => iter.backFrame = LastFrame

\* An armed window stands where the iterator does.
ArmedIsNext ==
  Open /\ iter.armed =>
    /\ iter.call = Idle /\ window.last = LastFrame
    /\ IF window.taken THEN iter.front = Length ELSE NumberOf(window) = iter.front

QueueInv == FitInv /\ CountIsTrue /\ ArmedIsNext

QueueStep == [Queue!Next]_(Queue!vars)

\* The steps of the queue, of the iterator.
LEMMA QueueSteps ==
  ASSUME UNCHANGED file
  PROVE  /\ /\ Open /\ iter.front < Hi /\ iter'.item = <<iter.front>>
            /\ iter'.front = iter.front + 1 /\ Hi' = Hi /\ Open' = Open
            => QueueStep
         /\ /\ Open /\ iter.front < Hi /\ iter'.item = <<Hi - 1>>
            /\ Hi' = Hi - 1 /\ iter'.front = iter.front /\ Open' = Open
            => QueueStep
         /\ /\ Open => iter.front >= Hi
            /\ iter'.item = <<>> /\ Open' \in {Open, FALSE}
            /\ Hi' = Hi /\ iter'.front = iter.front
            => QueueStep
         /\ /\ Open /\ (iter.front >= Hi \/ ~Complete)
            /\ iter'.item = Refused /\ Open' = FALSE
            /\ Hi' = Hi /\ iter'.front = iter.front
            => QueueStep
         /\ /\ iter'.front = 0 /\ Hi' = 0 /\ Open' = FALSE /\ iter'.item = <<>>
            => QueueStep
         /\ /\ iter'.front \in Nat /\ Hi' = Length /\ Open' = TRUE /\ iter'.item = <<>>
            => QueueStep
         /\ /\ iter'.front = iter.front /\ Hi' = Hi /\ Open' = Open /\ iter'.item = iter.item
            => QueueStep
<1>1. Length' = Length /\ Complete' = Complete
  BY AnswersStand
<1>2. /\ Queue!vars = <<Length, Complete, iter.front, Hi, Open, iter.item>>
      /\ Queue!vars' = <<Length', Complete', iter'.front, Hi', Open', iter'.item>>
  BY DEF Queue!vars, Hi, Open
<1>3. /\ Queue!PopFront <=> /\ Open /\ iter.front < Hi /\ iter'.item = <<iter.front>>
                            /\ iter'.front = iter.front + 1 /\ Hi' = Hi /\ Open' = Open
      /\ Queue!PopBack <=> /\ Open /\ iter.front < Hi /\ iter'.item = <<Hi - 1>>
                           /\ Hi' = Hi - 1 /\ iter'.front = iter.front /\ Open' = Open
  BY DEF Queue!PopFront, Queue!PopBack, Hi, Open
<1>4. /\ Queue!Exhausted <=> /\ Open => iter.front >= Hi
                             /\ iter'.item = <<>> /\ Open' \in {Open, FALSE}
                             /\ Hi' = Hi /\ iter'.front = iter.front
      /\ Queue!Refuse <=> /\ Open /\ (iter.front >= Hi \/ ~Complete)
                          /\ iter'.item = Refused /\ Open' = FALSE
                          /\ Hi' = Hi /\ iter'.front = iter.front
  BY DEF Queue!Exhausted, Queue!Refuse, Hi, Open
<1>5. /\ Queue!Drop <=> iter'.front = 0 /\ Hi' = 0 /\ Open' = FALSE /\ iter'.item = <<>>
      /\ Queue!Begin <=> /\ iter'.front \in Nat /\ Hi' = Length
                         /\ Open' = TRUE /\ iter'.item = <<>>
  BY DEF Queue!Drop, Queue!Begin, Hi, Open
<1> QED
  BY <1>1, <1>2, <1>3, <1>4, <1>5 DEF QueueStep, Queue!Next

\* What is handed out of a window that ends with the file for one record asked
\* for, and where that leaves it.
Popped(n, read) ==
  \/ /\ n < Records /\ read.got = <<n>>
     /\ ~read.window.taken /\ NumberOf(read.window) = n + 1
  \/ /\ n = Records /\ Length = Records + 1 /\ read.got = <<n>>
     /\ read.window.taken
  \/ /\ n >= Length
     /\ read.got = <<>> \/ read.got = Refused
  \/ /\ n >= Records /\ ~Complete /\ read.got = Refused

LEMMA NextAt ==
  ASSUME file \in Files, NEW w, WindowOK(w), w.last = LastFrame, NEW read \in HandOut(w, 1)
  PROVE  /\ read.window.last = LastFrame
         /\ IF w.taken THEN read.got = <<>> ELSE Popped(NumberOf(w), read)
<1> DEFINE n == NumberOf(w)
           v == read.window
<1>1. /\ Records \in Nat /\ Length \in {Records, Records + 1}
      /\ Length = Records + 1 <=> TailIsRecord /\ file.part
      /\ Complete <=> TailIsRecord \/ ~file.part
      /\ file.ends[w.last] = Records
  BY LengthIs DEF Records
<1>2. /\ w.walked \in Nat /\ StartOf(w.first) \in Nat /\ Left(w) \in Nat /\ n \in Nat
      /\ Left(w) = Records - StartOf(w.first) - w.walked /\ n = StartOf(w.first) + w.walked
      /\ Left(w) = Records - n
  <2>1. /\ w.walked \in Nat /\ StartOf(w.first) \in Nat /\ Left(w) \in Nat /\ n \in Nat
        /\ Left(w) = Records - StartOf(w.first) - w.walked /\ n = StartOf(w.first) + w.walked
    BY <1>1, WindowSpan
  <2> HIDE DEF n
  <2> QED
    BY <1>1, <2>1
<1>3. /\ WindowOK(v) /\ SameSpan(v, w)
      /\ Handed(Records, HasFragment(w), n, 1, read.got)
      /\ IF 1 <= Left(w) THEN v.walked = w.walked + 1 /\ v.taken = w.taken
         ELSE /\ v.walked = w.walked + Left(w)
              /\ v.taken <=> w.taken \/ (HasFragment(w) /\ TailIsRecord)
  <2>1. 1 \in Nat
    OBVIOUS
  <2> QED
    BY <1>1, <2>1, HandOutIs
<1>4. v.last = LastFrame /\ NumberOf(v) = StartOf(w.first) + v.walked
  BY <1>3, WindowSpan DEF SameSpan
<1>5. w.taken => Records = n /\ ~HasFragment(w)
  BY <1>1, <1>2 DEF WindowOK, HasFragment
<1>6. HasFragment(w) <=> file.part /\ ~w.taken
  BY DEF HasFragment
<1>7. Numbers(n, 1) = <<n>> /\ Numbers(n, 0) = <<>>
  BY <1>2, NumbersAre
<1> HIDE DEF n, v
<1>8. CASE w.taken
  <2>1. ~(n + 1 <= Records) /\ Records - n = 0
    BY <1>1, <1>2, <1>5, <1>8
  <2>2. read.got = <<>>
    BY <1>3, <1>5, <1>7, <1>8, <2>1 DEF Handed
  <2> QED
    BY <1>4, <1>8, <2>2 DEF v
<1>9. CASE ~w.taken /\ n < Records
  <2>1. n + 1 <= Records /\ 1 <= Left(w)
    BY <1>1, <1>2, <1>9
  <2>2. read.got = <<n>>
    BY <1>3, <1>7, <2>1 DEF Handed
  <2>3. ~v.taken /\ NumberOf(v) = n + 1
    BY <1>2, <1>3, <1>4, <1>9, <2>1
  <2> QED
    BY <1>4, <1>9, <2>2, <2>3 DEF v, n, Popped
<1>10. CASE ~w.taken /\ ~(n < Records)
  <2>1. n = Records /\ ~(n + 1 <= Records) /\ Records - n = 0 /\ Records - n + 1 = 1
        /\ ~(1 <= Left(w))
    BY <1>1, <1>2, <1>10
  <2>2. CASE ~file.part
    <3>1. read.got = <<>> /\ n >= Length
      BY <1>1, <1>3, <1>6, <1>7, <2>1, <2>2 DEF Handed
    <3> QED
      BY <1>4, <1>10, <3>1 DEF v, n, Popped
  <2>3. CASE file.part /\ TailIsRecord
    <3>1. read.got = <<n>> /\ v.taken /\ Length = Records + 1
      BY <1>1, <1>3, <1>6, <1>7, <1>10, <2>1, <2>3 DEF Handed
    <3> QED
      BY <1>4, <1>10, <2>1, <3>1 DEF v, n, Popped
  <2>4. CASE file.part /\ ~TailIsRecord
    <3>1. read.got = Refused /\ ~Complete /\ n >= Records
      BY <1>1, <1>3, <1>6, <1>7, <1>10, <2>1, <2>4 DEF Handed
    <3> QED
      BY <1>4, <1>10, <3>1 DEF v, n, Popped
  <2> QED
    BY <2>2, <2>3, <2>4
<1> QED
  BY <1>8, <1>9, <1>10

LEMMA FirstAt ==
  ASSUME file \in Files, NEW from \in Nat, ~PastEnd(from),
         NEW read \in Read(SpanToEnd(from), Skipped(from), 1, Refused)
  PROVE  read.window.last = LastFrame /\ Popped(from, read)
<1> DEFINE f == FirstFrame(from)
           w == Point(f, LastFrame)
           skip == Skipped(from)
<1>1. /\ f \in 1 .. LastFrame /\ skip \in Nat /\ StartOf(f) + skip = from
  BY PastEndIs, FirstFrameIs
<1>2. /\ LastFrame \in f .. LastFrame /\ LastFrame \in 1 .. LastFrame /\ Records \in Nat
      /\ Length \in {Records, Records + 1}
  BY <1>1, FramesAreNumbered, LengthIs
<1> HIDE DEF f
<1>3. /\ WindowOK(w) /\ NumberOf(w) = StartOf(f) /\ SpanToEnd(from) = w
      /\ w.last = LastFrame /\ w.taken = FALSE
  BY <1>1, <1>2, PointIs DEF SpanToEnd, Point, f
<1> HIDE DEF w, skip
<1>4. CASE skip <= Left(w)
  <2>1. PICK v \in Walk(w, skip) : read \in HandOut(v, 1)
    BY <1>3, <1>4 DEF Read, skip
  <2>2. WindowOK(v) /\ SameSpan(v, w) /\ v.walked = w.walked + skip /\ v.taken = FALSE
    BY <1>1, <1>3, <1>4, <2>1, WalkIs
  <2>3. NumberOf(v) = from
    <3>1. /\ NumberOf(v) = StartOf(w.first) + v.walked
          /\ NumberOf(w) = StartOf(w.first) + w.walked /\ w.walked \in Nat
          /\ StartOf(w.first) \in Nat
      BY <1>3, <2>2, WindowSpan DEF SameSpan
    <3> QED
      BY <1>1, <1>3, <2>2, <3>1
  <2> QED
    BY <1>3, <2>1, <2>2, <2>3, NextAt DEF SameSpan
<1>5. CASE ~(skip <= Left(w))
  <2>1. read.got = Refused /\ read.window = RunOut(w)
    BY <1>3, <1>5 DEF Read, skip
  <2>2. read.window.last = LastFrame
    BY <1>3, <2>1, RunOutIs DEF SameSpan
  <2>3. from > Records
    <3>1. /\ w.walked \in Nat /\ StartOf(w.first) \in Nat /\ Left(w) \in Nat
          /\ Left(w) = Records - StartOf(w.first) - w.walked
          /\ NumberOf(w) = StartOf(w.first) + w.walked
      BY <1>3, WindowSpan DEF Records
    <3> QED
      BY <1>1, <1>2, <1>3, <1>5, <3>1
  <2> QED
    BY <1>2, <2>1, <2>2, <2>3 DEF Popped
<1> QED
  BY <1>4, <1>5

LEMMA HiIs ==
  ASSUME FitInv
  PROVE  /\ Hi \in Nat /\ Length \in Nat /\ Records \in Nat /\ Records <= Length
         /\ LastFrame \in Nat \ {0} /\ PerFrame \in Nat \ {0}
         /\ iter.front \in Nat /\ iter.backFrame \in 1 .. LastFrame
         /\ (iter.backFrame - 1) * PerFrame \in Nat
         /\ StartOf(iter.backFrame) = (iter.backFrame - 1) * PerFrame
         /\ iter.backLeft \in Nat \/ iter.backLeft = Uncounted
         /\ DOMAIN iter = IterFields /\ file \in Files
<1>1. /\ file \in Files /\ DOMAIN iter = IterFields /\ iter.backFrame \in 1 .. LastFrame
      /\ iter.front \in Nat /\ iter.backLeft \in 0 .. PerFrame + 1 \cup {Uncounted}
  BY DEF FitInv, NoteInv, Shapes, TypeOK
<1>2. /\ LastFrame \in Nat \ {0} /\ PerFrame \in Nat \ {0}
      /\ Length \in {Records, Records + 1} /\ Records \in Nat
      /\ StartOf(iter.backFrame) = (iter.backFrame - 1) * PerFrame
      /\ StartOf(iter.backFrame) \in Nat
  BY <1>1, FramesAreEven, LengthIs
<1>3. iter.backLeft \in Nat \/ iter.backLeft = Uncounted
  BY <1>1, <1>2
<1>4. Length \in Nat /\ Records <= Length /\ iter.backFrame * PerFrame \in Nat
  BY <1>1, <1>2
<1>5. Hi \in Nat
  <2>1. iter.backLeft # Uncounted => (iter.backFrame - 1) * PerFrame + iter.backLeft \in Nat
    BY <1>2, <1>3
  <2> QED
    BY <1>4, <2>1 DEF Hi
<1> QED
  BY <1>1, <1>2, <1>3, <1>4, <1>5

\* What of the iterator Hi and Open look at.
LEMMA HiStays ==
  ASSUME UNCHANGED file, iter'.kind = iter.kind, iter'.backFrame = iter.backFrame,
         iter'.backLeft = iter.backLeft
  PROVE  Hi' = Hi /\ (iter'.spent = iter.spent => Open' = Open)
         /\ (iter'.spent = TRUE => Open' = FALSE)
<1>1. Length' = Length /\ LastFrame' = LastFrame /\ PerFrame' = PerFrame
  BY AnswersStand
<1> QED
  BY <1>1 DEF Hi, Open, Uncounted, None

\* next, from any window and note that a call of next or next_back may have:
\* armed, it stands where the iterator does.
LEMMA ForwardPops ==
  ASSUME QueueInv, FitInv', iter.kind # None, UNCHANGED <<file, answer>>,
         NEW w, WindowOK(w), NEW f, Forward(w, f),
         Open => /\ iter.backLeft = Uncounted => iter.backFrame = LastFrame
                 /\ iter.backLeft # Uncounted => Hi <= Records,
         Open /\ iter.armed =>
           /\ w.last = LastFrame
           /\ IF w.taken THEN iter.front = Length ELSE NumberOf(w) = iter.front
  PROVE  QueueInv' /\ QueueStep
<1>1. /\ Hi \in Nat /\ Length \in Nat /\ Records \in Nat /\ Records <= Length
      /\ iter.front \in Nat /\ DOMAIN iter = IterFields /\ file \in Files
      /\ UNCHANGED file
  BY HiIs DEF QueueInv
<1>2. Length' = Length /\ Records' = Records /\ LastFrame' = LastFrame /\ PerFrame' = PerFrame
  BY AnswersStand
<1>3. Open => Hi <= Length
  BY <1>1 DEF Hi, Open
<1>4. MetTheReverseRead <=> iter.backLeft # Uncounted /\ iter.front >= Hi
  BY DEF MetTheReverseRead, Hi
<1>5. Open /\ ~MetTheReverseRead => iter.front < Hi \/ (iter.backLeft = Uncounted /\ Hi = Length)
  <2>1. iter.backLeft # Uncounted => iter.front < Hi \/ iter.front >= Hi
    BY <1>1
  <2> QED
    BY <1>4, <2>1 DEF Hi, Open
<1>6. ASSUME iter'.kind = iter.kind, iter'.backFrame = iter.backFrame,
             iter'.backLeft = iter.backLeft, iter'.spent = iter.spent \/ iter'.spent = TRUE
      PROVE  /\ Hi' = Hi /\ (Open' => Open) /\ CountIsTrue'
             /\ (iter'.spent = iter.spent => Open' = Open)
             /\ (iter'.spent = TRUE => Open' = FALSE)
  <2>1. /\ Hi' = Hi /\ (iter'.spent = iter.spent => Open' = Open)
        /\ (iter'.spent = TRUE => Open' = FALSE)
    BY <1>1, <1>6, HiStays
  <2>2. Open' => Open
    BY <1>6, <2>1
  <2>3. ASSUME Open'
        PROVE  /\ iter'.backLeft # Uncounted =>
                    /\ iter'.backFrame < LastFrame => iter'.backLeft <= PerFrame
                    /\ Hi' <= Length /\ Hi' <= Records
               /\ iter'.backLeft = Uncounted => iter'.backFrame = LastFrame
    BY <1>1, <1>3, <1>6, <2>1, <2>2, <2>3 DEF QueueInv, CountIsTrue
  <2>4. CountIsTrue'
    BY <1>1, <1>2, <2>1, <2>3 DEF CountIsTrue, Uncounted
  <2> QED
    BY <2>1, <2>2, <2>4
<1>7. CASE /\ iter.spent \/ MetTheReverseRead
           /\ iter' = [iter EXCEPT !.item = <<>>, !.call = Idle]
           /\ window' = w
  <2>1. /\ iter'.kind = iter.kind /\ iter'.backFrame = iter.backFrame
        /\ iter'.backLeft = iter.backLeft /\ iter'.call = Idle /\ iter'.armed = iter.armed
        /\ iter'.front = iter.front /\ iter'.spent = iter.spent /\ iter'.item = <<>>
    BY <1>1, <1>7 DEF IterFields
  <2>2. Hi' = Hi /\ Open' = Open /\ CountIsTrue'
    BY <1>6, <2>1
  <2>3. Open => iter.front >= Hi
    BY <1>4, <1>7 DEF Open
  <2>4. NumberOf(window)' = NumberOf(w)
    BY <1>1, <1>7 DEF NumberOf, StartOf
  <2>5. ArmedIsNext'
    BY <1>2, <1>7, <2>1, <2>2, <2>4 DEF ArmedIsNext, Idle
  <2>6. QueueStep
    BY <1>1, <2>1, <2>2, <2>3, QueueSteps
  <2> QED
    BY <2>2, <2>5, <2>6 DEF QueueInv
<1>8. ASSUME NEW got, Give(got), Open
      PROVE  /\ iter'.kind = iter.kind /\ iter'.backFrame = iter.backFrame
             /\ iter'.backLeft = iter.backLeft /\ iter'.call = Idle /\ iter'.armed
             /\ iter'.item = got /\ Hi' = Hi /\ CountIsTrue'
             /\ IF got \in {<<>>, Refused} THEN iter'.front = iter.front /\ Open' = FALSE
                ELSE iter'.front = iter.front + 1 /\ Open' = Open
  <2>1. /\ iter'.kind = iter.kind /\ iter'.backFrame = iter.backFrame
        /\ iter'.backLeft = iter.backLeft /\ iter'.call = Idle /\ iter'.armed
        /\ iter'.item = got
    BY <1>1, <1>8 DEF Give, IterFields
  <2>2. CASE got \in {<<>>, Refused}
    <3>1. iter'.front = iter.front /\ iter'.spent = TRUE
      BY <1>1, <1>8, <2>2 DEF Give, IterFields
    <3> QED
      BY <1>6, <2>1, <2>2, <3>1
  <2>3. CASE ~(got \in {<<>>, Refused})
    <3>1. (got \in {<<>>, Refused}) = FALSE
      BY <2>3
    <3>2. iter'.front = iter.front + 1 /\ iter'.spent = FALSE
      BY <1>1, <1>8, <2>3, <3>1 DEF Give, IterFields
    <3>3. iter.spent = FALSE
      BY <1>8 DEF Open, QueueInv, FitInv, TypeOK
    <3> QED
      BY <1>6, <2>1, <2>3, <3>2, <3>3
  <2> QED
    BY <2>1, <2>2, <2>3
<1>9. ASSUME NEW read, Open, ~MetTheReverseRead, Give(read.got), window' = read.window,
             read.window.last = LastFrame, Popped(iter.front, read)
      PROVE  QueueInv' /\ QueueStep
  <2>1. /\ iter'.call = Idle /\ iter'.armed /\ iter'.item = read.got
        /\ Hi' = Hi /\ CountIsTrue'
        /\ IF read.got \in {<<>>, Refused} THEN iter'.front = iter.front /\ Open' = FALSE
           ELSE iter'.front = iter.front + 1 /\ Open' = Open
    BY <1>8, <1>9
  <2>2. <<iter.front>> # <<>> /\ <<iter.front>> # Refused
    <3>1. <<iter.front>> \in Seq(Nat)
      BY <1>1
    <3> QED
      BY <3>1, FilesAssumption
  <2>3. iter.front < Hi \/ Hi = Length
    BY <1>5, <1>9
  <2>4. NumberOf(window)' = NumberOf(read.window)
    BY <1>1, <1>9 DEF NumberOf, StartOf
  <2>5. CASE read.got = <<iter.front>>
             /\ \/ iter.front < Records /\ ~read.window.taken
                   /\ NumberOf(read.window) = iter.front + 1
                \/ iter.front = Records /\ Length = Records + 1 /\ read.window.taken
    <3>1. iter'.front = iter.front + 1 /\ Open' = Open
      BY <2>1, <2>2, <2>5
    <3>2. iter.front < Length
      BY <1>1, <2>5
    <3>3. iter.front < Hi
      BY <2>3, <3>2
    <3>4. QueueStep
      BY <1>1, <1>9, <2>1, <2>5, <3>1, <3>3, QueueSteps
    <3>5. ArmedIsNext'
      BY <1>2, <1>9, <2>1, <2>4, <2>5, <3>1 DEF ArmedIsNext, Idle
    <3> QED
      BY <2>1, <3>4, <3>5 DEF QueueInv
  <2>6. CASE read.got \in {<<>>, Refused}
             /\ (iter.front >= Length \/ (~Complete /\ read.got = Refused))
    <3>1. iter'.front = iter.front /\ Open' = FALSE
      BY <2>1, <2>6
    <3>2. iter.front >= Length => iter.front >= Hi
      BY <1>1, <1>3, <1>9
    <3>3. QueueStep
      BY <1>1, <1>9, <2>1, <2>6, <3>1, <3>2, QueueSteps
    <3>4. ArmedIsNext'
      BY <3>1 DEF ArmedIsNext
    <3> QED
      BY <2>1, <3>3, <3>4 DEF QueueInv
  <2> QED
    BY <1>9, <2>5, <2>6 DEF Popped
<1>10. CASE /\ ~iter.spent /\ ~MetTheReverseRead
            /\ PastEnd(iter.front) /\ Give(Refused)
  <2>1. Open
    BY <1>10 DEF Open
  <2>2. /\ iter'.item = Refused /\ Hi' = Hi /\ CountIsTrue'
        /\ iter'.front = iter.front /\ Open' = FALSE
    BY <1>8, <1>10, <2>1
  <2>3. iter.front >= Hi
    <3>1. iter.front >= Length
      BY <1>1, <1>10, PastEndIs
    <3> QED
      BY <1>1, <1>3, <2>1, <3>1
  <2>4. QueueStep
    BY <1>1, <2>1, <2>2, <2>3, QueueSteps
  <2>5. ArmedIsNext'
    BY <2>2 DEF ArmedIsNext
  <2> QED
    BY <2>2, <2>4, <2>5 DEF QueueInv
<1>11. CASE /\ ~iter.spent /\ ~MetTheReverseRead /\ ~PastEnd(iter.front)
            /\ \E read \in Read(SpanToEnd(iter.front), Skipped(iter.front), 1, Refused) :
                 Give(read.got) /\ window' = read.window
  <2>1. PICK read \in Read(SpanToEnd(iter.front), Skipped(iter.front), 1, Refused) :
          Give(read.got) /\ window' = read.window
    BY <1>11
  <2>2. read.window.last = LastFrame /\ Popped(iter.front, read)
    BY <1>1, <1>11, <2>1, FirstAt
  <2> QED
    BY <1>9, <1>11, <2>1, <2>2 DEF Open
<1>12. CASE /\ ~iter.spent /\ ~MetTheReverseRead /\ iter.armed
            /\ \E read \in HandOut(w, 1) : Give(read.got) /\ window' = read.window
  <2>1. PICK read \in HandOut(w, 1) : Give(read.got) /\ window' = read.window
    BY <1>12
  <2>2. Open /\ w.last = LastFrame
        /\ IF w.taken THEN iter.front = Length ELSE NumberOf(w) = iter.front
    BY <1>12 DEF Open
  <2>3. /\ read.window.last = LastFrame
        /\ IF w.taken THEN read.got = <<>> ELSE Popped(NumberOf(w), read)
    BY <1>1, <2>1, <2>2, NextAt
  <2>4. Popped(iter.front, read)
    <3>1. Length >= Length
      BY <1>1
    <3> QED
      BY <2>2, <2>3, <3>1 DEF Popped
  <2> QED
    BY <1>9, <1>12, <2>1, <2>2, <2>3, <2>4
<1> QED
  BY <1>7, <1>10, <1>11, <1>12 DEF Forward

NoLoneTail == \A f \in Files : ~LoneTail(f)

\* A walk back to the start of a frame finds the fragment at the end of the file
\* not yet handed out, unless the walk there had nothing else to pass.
LEMMA FragmentIsThere ==
  ASSUME NoLoneTail, file \in Files, NEW w, WindowOK(w), w.first = w.last,
         NumberOf(w) = StartOf(w.first)
  PROVE  ~w.taken
<1> SUFFICES ASSUME w.taken PROVE FALSE
  OBVIOUS
<1>1. /\ w.last = LastFrame /\ w.walked = Records - StartOf(w.first)
      /\ file.part /\ file.separated
  BY DEF WindowOK, TailIsRecord
<1>2. /\ LastFrame \in Nat \ {0} /\ Records \in Nat /\ PerFrame \in Nat \ {0}
      /\ StartOf(LastFrame) \in Nat
  BY FramesAreEven, LengthIs
<1>3. Records = StartOf(LastFrame)
  <2>1. NumberOf(w) = StartOf(LastFrame) + w.walked /\ w.walked = Records - StartOf(LastFrame)
    BY <1>1 DEF NumberOf
  <2>2. NumberOf(w) = StartOf(LastFrame)
    BY <1>1
  <2> QED
    BY <1>2, <2>1, <2>2
<1>4. CASE LastFrame = 1
  BY <1>2, <1>3, <1>4 DEF Records, StartOf, PerFrame
<1>5. CASE LastFrame # 1
  <2>1. file.ends[LastFrame] = file.ends[LastFrame - 1] /\ LastFrame > 1
    BY <1>2, <1>3, <1>5 DEF Records, StartOf
  <2> QED
    BY <1>1, <2>1 DEF NoLoneTail, LoneTail, LastFrame
<1> QED
  BY <1>4, <1>5

LEMMA CountFramePops ==
  ASSUME NoLoneTail, QueueInv, FitInv', CountFrame
  PROVE  QueueInv' /\ QueueStep
<1> DEFINE f == iter.backFrame
           w == WalkTo(f, 0).window
           k == file.ends[f] - StartOf(f)
<1>1. /\ Hi \in Nat /\ Length \in Nat /\ Records \in Nat /\ Records <= Length
      /\ iter.front \in Nat /\ DOMAIN iter = IterFields /\ file \in Files
      /\ f \in 1 .. LastFrame /\ LastFrame \in Nat \ {0} /\ PerFrame \in Nat \ {0}
      /\ StartOf(f) = (f - 1) * PerFrame
  BY HiIs DEF QueueInv
<1>2. /\ UNCHANGED file /\ UNCHANGED answer /\ iter.call = Back /\ iter.backLeft = Uncounted
      /\ iter.kind = Owned /\ ~iter.spent /\ Open
      /\ iter.spent = FALSE
  BY DEF CountFrame, QueueInv, FitInv, NoteInv, BackIsOwned, Open, None, Owned, TypeOK
<1>3. ~iter.armed
  BY <1>2 DEF QueueInv, ArmedIsNext, Idle, Back
<1>4. Length' = Length /\ Records' = Records /\ LastFrame' = LastFrame /\ PerFrame' = PerFrame
  BY <1>2, AnswersStand
<1>5. PICK read \in ReadAll(w) :
        \/ read.got = Refused /\ Give(Refused)
        \/ read.got # Refused /\ f = LastFrame /\ Forward(read.window, 0)
        \/ /\ read.got # Refused
           /\ iter' = [iter EXCEPT !.backLeft = Len(read.got)]
           /\ window' = read.window /\ frame' = 0
  BY DEF CountFrame
<1>6. /\ WindowOK(w) /\ w.first = f /\ w.last = f /\ NumberOf(w) = StartOf(f)
  BY <1>1, <1>2, CountedWindow DEF QueueInv
<1>7. ~w.taken
  BY <1>1, <1>6, FragmentIsThere
<1> HIDE DEF f, w
<1>8. /\ WindowOK(read.window)
      /\ IF ~HasFragment(w) THEN read.got = Numbers(StartOf(f), k)
         ELSE IF TailIsRecord THEN read.got = Numbers(StartOf(f), k + 1)
         ELSE read.got = Refused
      /\ StartOf(f) \in Nat /\ k \in 0 .. PerFrame
  BY <1>1, <1>5, <1>6, FrameRead
<1>9. HasFragment(w) <=> f = LastFrame /\ file.part
  BY <1>6, <1>7 DEF HasFragment
<1>10. /\ file.ends[f] \in Nat /\ (f < LastFrame => file.ends[f] = f * PerFrame)
       /\ f = LastFrame => file.ends[f] = Records
  BY <1>1, FramesAreEven DEF Records
<1>11. /\ Length = Records + 1 <=> TailIsRecord /\ file.part
       /\ Length \in {Records, Records + 1}
       /\ Complete <=> TailIsRecord \/ ~file.part
  BY <1>1, LengthIs
<1>12. Hi = IF f = LastFrame THEN Length ELSE f * PerFrame
  BY <1>2 DEF Hi, Open, f
<1>13. CASE read.got = Refused /\ Give(Refused)
  <2>1. /\ iter'.kind = iter.kind /\ iter'.backFrame = iter.backFrame
        /\ iter'.backLeft = iter.backLeft /\ iter'.spent = TRUE
        /\ iter'.front = iter.front /\ iter'.item = Refused
    BY <1>1, <1>13 DEF Give, IterFields
  <2>2. Hi' = Hi /\ Open' = FALSE
    BY <1>2, <2>1, HiStays
  <2>3. ~Complete
    <3>1. k \in Nat /\ k + 1 \in Nat
      BY <1>1, <1>8
    <3> HIDE DEF k
    <3>2. HasFragment(w) /\ ~TailIsRecord
      BY <1>8, <1>13, <3>1, NumbersAre
    <3> QED
      BY <1>9, <1>11, <3>2
  <2>4. QueueStep
    BY <1>2, <2>1, <2>2, <2>3, QueueSteps
  <2> QED
    BY <2>2, <2>4 DEF QueueInv, CountIsTrue, ArmedIsNext
<1>14. CASE f = LastFrame /\ Forward(read.window, 0)
  BY <1>2, <1>3, <1>8, <1>14, ForwardPops DEF f, None, Owned
<1>15. CASE /\ read.got # Refused
            /\ iter' = [iter EXCEPT !.backLeft = Len(read.got)]
            /\ window' = read.window /\ frame' = 0
  <2> DEFINE n == Len(read.got)
  <2>1. /\ iter'.kind = iter.kind /\ iter'.backFrame = iter.backFrame
        /\ iter'.backLeft = n /\ iter'.spent = iter.spent /\ iter'.armed = iter.armed
        /\ iter'.front = iter.front /\ iter'.item = iter.item /\ iter'.call = iter.call
    BY <1>1, <1>15 DEF IterFields
  <2>2. n \in Nat /\ StartOf(f) + n = Hi /\ (f < LastFrame => n <= PerFrame)
    <3>1. k \in Nat /\ k + 1 \in Nat /\ k <= PerFrame /\ StartOf(f) + k = file.ends[f]
          /\ StartOf(f) + (k + 1) = file.ends[f] + 1
      BY <1>1, <1>8, <1>10
    <3> HIDE DEF k
    <3>2. CASE ~HasFragment(w)
      <4>1. n = k
        BY <1>8, <3>1, <3>2, NumbersAre
      <4>2. Hi = file.ends[f]
        BY <1>1, <1>9, <1>10, <1>11, <1>12, <3>2
      <4> QED
        BY <3>1, <4>1, <4>2
    <3>3. CASE HasFragment(w)
      <4>1. n = k + 1 /\ TailIsRecord
        BY <1>8, <1>15, <3>1, <3>3, NumbersAre
      <4>2. f = LastFrame /\ Hi = Records + 1
        BY <1>9, <1>11, <1>12, <3>3, <4>1
      <4> QED
        BY <1>1, <1>10, <3>1, <4>1, <4>2
    <3> QED
      BY <3>2, <3>3
  <2> HIDE DEF n
  <2>3. n # Uncounted
    BY <2>2 DEF Uncounted
  <2>4. Hi' = StartOf(f) + n /\ Open' = Open
    BY <1>1, <1>2, <1>4, <2>1, <2>3 DEF Hi, Open, None, Owned, Uncounted, f
  <2>5. Hi' = Hi
    BY <2>2, <2>4
  <2>6. Hi <= Length
    <3>1. CASE f = LastFrame
      BY <1>1, <1>12, <3>1
    <3>2. CASE f < LastFrame
      <4>1. LastFrame \in 1 .. LastFrame /\ f \in Nat /\ LastFrame - 1 \in Nat /\ f <= LastFrame - 1
        BY <1>1, <3>2
      <4>2. f * PerFrame <= (LastFrame - 1) * PerFrame
        BY <1>1, <4>1, TimesGrows
      <4>3. StartOf(LastFrame) = (LastFrame - 1) * PerFrame
        BY <1>1, <4>1, FramesAreEven
      <4>4. StartOf(LastFrame) <= Records /\ StartOf(LastFrame) \in Nat
        BY <1>1, LengthIs
      <4> QED
        BY <1>1, <1>12, <3>2, <4>2, <4>3, <4>4
    <3> QED
      BY <1>1, <3>1, <3>2
  <2>7. iter'.call = Back /\ frame' = 0 /\ ~iter'.armed /\ iter'.backLeft = n /\ iter'.backFrame = f
    BY <1>2, <1>3, <1>15, <2>1 DEF f
  <2>8. CountIsTrue'
    BY <1>4, <2>2, <2>3, <2>5, <2>6, <2>7 DEF CountIsTrue, Uncounted
  <2>9. ArmedIsNext'
    BY <2>7 DEF ArmedIsNext
  <2>10. QueueStep
    BY <1>2, <2>1, <2>4, <2>5, QueueSteps
  <2> QED
    BY <2>8, <2>9, <2>10 DEF QueueInv
<1> QED
  BY <1>5, <1>13, <1>14, <1>15

LEMMA FrameBeforePops ==
  ASSUME QueueInv, FitInv', FrameBefore
  PROVE  QueueInv' /\ QueueStep
<1>1. /\ Hi \in Nat /\ LastFrame \in Nat \ {0} /\ PerFrame \in Nat \ {0}
      /\ iter.front \in Nat /\ iter.backFrame \in 1 .. LastFrame
      /\ DOMAIN iter = IterFields /\ UNCHANGED file
      /\ (iter.backFrame - 1) * PerFrame \in Nat
  BY HiIs DEF QueueInv, FrameBefore
<1>2. /\ iter.call = Back /\ iter.backLeft = 0 /\ iter.kind = Owned /\ ~iter.spent /\ Open
      /\ iter.spent = FALSE
  BY DEF FrameBefore, QueueInv, FitInv, NoteInv, BackIsOwned, Open, None, Owned, TypeOK
<1>3. ~iter.armed
  BY <1>2 DEF QueueInv, ArmedIsNext, Idle, Back
<1>4. Length' = Length /\ LastFrame' = LastFrame /\ PerFrame' = PerFrame
  BY <1>1, AnswersStand
<1>5. Hi = (iter.backFrame - 1) * PerFrame
  BY <1>1, <1>2 DEF Hi, Open, Uncounted
<1>6. CASE iter.backFrame = 1
  <2>1. /\ iter'.kind = iter.kind /\ iter'.backFrame = iter.backFrame
        /\ iter'.backLeft = iter.backLeft /\ iter'.spent = TRUE
        /\ iter'.front = iter.front /\ iter'.item = <<>>
    BY <1>1, <1>6 DEF FrameBefore, IterFields
  <2>2. Hi' = Hi /\ Open' = FALSE
    BY <1>1, <2>1, HiStays
  <2>3. iter.front >= Hi
    BY <1>1, <1>5, <1>6
  <2>4. QueueStep
    BY <1>1, <2>1, <2>2, <2>3, QueueSteps
  <2> QED
    BY <2>2, <2>4 DEF QueueInv, CountIsTrue, ArmedIsNext
<1>7. CASE iter.backFrame # 1
  <2>1. /\ iter'.kind = iter.kind /\ iter'.backFrame = iter.backFrame - 1
        /\ iter'.backLeft = Uncounted /\ iter'.spent = iter.spent /\ iter'.armed = iter.armed
        /\ iter'.front = iter.front /\ iter'.item = iter.item /\ iter'.call = iter.call
    BY <1>1, <1>7 DEF FrameBefore, IterFields
  <2>2. iter'.backFrame # LastFrame
    BY <1>1, <2>1
  <2>3. Hi' = Hi /\ Open' = Open
    BY <1>2, <1>4, <1>5, <2>1, <2>2 DEF Hi, Open, None, Owned, Uncounted
  <2>4. CountIsTrue' /\ ArmedIsNext'
    BY <1>2, <1>3, <2>1 DEF CountIsTrue, ArmedIsNext, Idle, Back, Uncounted
  <2>5. QueueStep
    BY <1>1, <2>1, <2>3, QueueSteps
  <2> QED
    BY <2>4, <2>5 DEF QueueInv
<1> QED
  BY <1>6, <1>7

\* The last record that is left of a counted frame is there to be read.
LEMMA LastIsThere ==
  ASSUME QueueInv, GiveBack,
         NEW read \in LET at == WalkTo(iter.backFrame, iter.backLeft - 1)
                      IN  Read(at.window, at.skip, 1, Refused)
  PROVE  read.got = <<Hi - 1>>
<1> DEFINE f == iter.backFrame
           index == iter.backLeft - 1
           at == WalkTo(f, index)
           end == file.ends[f]
           n == Hi - 1
<1>1. /\ Hi \in Nat /\ Length \in Nat /\ Records \in Nat /\ Records <= Length
      /\ file \in Files /\ f \in 1 .. LastFrame /\ LastFrame \in Nat \ {0}
      /\ PerFrame \in Nat \ {0} /\ StartOf(f) = (f - 1) * PerFrame
      /\ (f - 1) * PerFrame \in Nat /\ (iter.backLeft \in Nat \/ iter.backLeft = Uncounted)
  BY HiIs DEF QueueInv
<1>2. /\ iter.call = Back /\ iter.backLeft > 0 /\ iter.kind = Owned /\ ~iter.spent /\ Open
  BY DEF GiveBack, QueueInv, FitInv, NoteInv, BackIsOwned, Open, None, Owned
<1>3. iter.backLeft \in Nat /\ iter.backLeft # Uncounted
  BY <1>1, <1>2 DEF Uncounted
<1>4. Hi = (f - 1) * PerFrame + iter.backLeft
  BY <1>2, <1>3 DEF Hi, Open
<1>5. /\ f < LastFrame => iter.backLeft <= PerFrame
      /\ Hi <= Length /\ (Hi > Records => frame = 0)
  BY <1>2, <1>3 DEF QueueInv, CountIsTrue
<1>6. index \in Nat /\ n \in Nat /\ StartOf(f) + index = n
  BY <1>1, <1>2, <1>3, <1>4
<1>7. /\ end \in Nat /\ (f < LastFrame => end = f * PerFrame)
      /\ f = LastFrame => end = Records
  BY <1>1, FramesAreEven DEF Records
<1>8. /\ WindowOK(at.window) /\ at.window.first = f /\ at.window.last = f
      /\ at.skip \in Nat /\ NumberOf(at.window) + at.skip = StartOf(f) + index
      /\ at.window.taken => frame = f
  <2>1. WindowOK(window) /\ (frame # 0 => window.first = frame /\ window.last = frame)
    BY <1>2 DEF QueueInv, FitInv, NoteInv, WindowIsNoted
  <2> QED
    BY <1>1, <1>6, <2>1, WalkToIs
<1>9. read \in Read(at.window, at.skip, 1, Refused)
  OBVIOUS
<1> HIDE DEF f, index, at, end, n
<1>10. IF n > end THEN read.got = Refused
       ELSE Handed(end, HasFragment(at.window), n, 1, read.got)
  BY <1>1, <1>6, <1>8, <1>9, ReadIs DEF end
<1>11. Numbers(n, 1) = <<n>>
  BY <1>6, NumbersAre
<1>12. CASE f < LastFrame \/ Hi <= Records
  <2>1. n + 1 <= end
    <3>1. CASE f < LastFrame
      <4>1. (f - 1) * PerFrame + PerFrame = f * PerFrame
        BY <1>1, OneLess
      <4> QED
        BY <1>1, <1>3, <1>4, <1>5, <1>7, <3>1, <4>1 DEF n
    <3>2. CASE ~(f < LastFrame) /\ Hi <= Records
      BY <1>1, <1>7, <3>2 DEF n
    <3> QED
      BY <1>12, <3>1, <3>2
  <2>2. ~(n > end)
    BY <1>6, <1>7, <2>1
  <2> QED
    BY <1>10, <1>11, <2>1, <2>2 DEF Handed, n
<1>13. CASE f = LastFrame /\ Hi > Records
  <2>1. /\ Length = Records + 1 => TailIsRecord /\ file.part
        /\ Length \in {Records, Records + 1}
    BY <1>1, LengthIs
  <2>2. n = Records /\ TailIsRecord /\ file.part
    BY <1>1, <1>5, <1>13, <2>1 DEF n
  <2>3. HasFragment(at.window)
    <3>1. frame # f
      BY <1>1, <1>5, <1>13
    <3> QED
      BY <1>8, <1>13, <2>2, <3>1 DEF HasFragment
  <2>4. ~(n > end) /\ ~(n + 1 <= end) /\ end - n + 1 = 1
    BY <1>1, <1>7, <1>13, <2>2
  <2> QED
    BY <1>10, <1>11, <2>2, <2>3, <2>4 DEF Handed, n
<1> QED
  BY <1>1, <1>12, <1>13

LEMMA GiveBackPops ==
  ASSUME QueueInv, FitInv', GiveBack
  PROVE  QueueInv' /\ QueueStep
<1> DEFINE f == iter.backFrame
           index == iter.backLeft - 1
           at == WalkTo(f, index)
<1>1. /\ Hi \in Nat /\ Length \in Nat /\ Records \in Nat /\ Records <= Length
      /\ iter.front \in Nat /\ DOMAIN iter = IterFields /\ UNCHANGED file
      /\ file \in Files /\ f \in 1 .. LastFrame /\ (f - 1) * PerFrame \in Nat
      /\ iter.backLeft \in Nat \/ iter.backLeft = Uncounted
      /\ LastFrame \in Nat \ {0} /\ PerFrame \in Nat \ {0}
  BY HiIs DEF QueueInv, GiveBack
<1>2. /\ iter.call = Back /\ iter.backLeft > 0 /\ iter.kind = Owned /\ ~iter.spent /\ Open
      /\ iter.spent = FALSE
  BY DEF GiveBack, QueueInv, FitInv, NoteInv, BackIsOwned, Open, None, Owned, TypeOK
<1>3. ~iter.armed
  BY <1>2 DEF QueueInv, ArmedIsNext, Idle, Back
<1>4. Length' = Length /\ Records' = Records /\ LastFrame' = LastFrame /\ PerFrame' = PerFrame
  BY <1>1, AnswersStand
<1>5. iter.backLeft \in Nat /\ iter.backLeft # Uncounted /\ index \in Nat
  BY <1>1, <1>2 DEF Uncounted
<1>6. Hi = (f - 1) * PerFrame + iter.backLeft
  BY <1>2, <1>5 DEF Hi, Open
<1>7. (f - 1) * PerFrame + index = Hi - 1
  BY <1>1, <1>5, <1>6
<1>8. CASE /\ (f - 1) * PerFrame + index < iter.front
           /\ iter' = [iter EXCEPT !.spent = TRUE, !.item = <<>>, !.call = Idle]
  <2>1. /\ iter'.kind = iter.kind /\ iter'.backFrame = iter.backFrame
        /\ iter'.backLeft = iter.backLeft /\ iter'.spent = TRUE
        /\ iter'.front = iter.front /\ iter'.item = <<>>
    BY <1>1, <1>8 DEF IterFields
  <2>2. Hi' = Hi /\ Open' = FALSE
    BY <1>1, <2>1, HiStays
  <2>3. iter.front >= Hi
    BY <1>1, <1>7, <1>8
  <2>4. QueueStep
    BY <1>1, <2>1, <2>2, <2>3, QueueSteps
  <2> QED
    BY <2>2, <2>4 DEF QueueInv, CountIsTrue, ArmedIsNext
<1>9. ASSUME (f - 1) * PerFrame + index >= iter.front,
             NEW read \in Read(at.window, at.skip, 1, Refused),
             iter' = IF read.got = Refused
                     THEN [iter EXCEPT !.item = Refused, !.spent = TRUE, !.call = Idle]
                     ELSE IF read.got = <<>>
                     THEN [iter EXCEPT !.backLeft = index]
                     ELSE [iter EXCEPT !.item = read.got, !.backLeft = index, !.call = Idle]
      PROVE  QueueInv' /\ QueueStep
  <2>1. read.got = <<Hi - 1>>
    BY <1>9, LastIsThere
  <2>2. read.got # Refused /\ read.got # <<>>
    <3>1. ASSUME NEW n \in Nat PROVE <<n>> # Refused /\ <<n>> # <<>>
      <4>1. <<n>> \in Seq(Nat)
        OBVIOUS
      <4> QED
        BY <4>1, FilesAssumption
    <3>2. Hi - 1 \in Nat
      BY <1>1, <1>5, <1>7
    <3> QED
      BY <2>1, <3>1, <3>2
  <2>3. /\ iter'.kind = iter.kind /\ iter'.backFrame = f
        /\ iter'.backLeft = index /\ iter'.spent = iter.spent /\ iter'.armed = iter.armed
        /\ iter'.front = iter.front /\ iter'.item = <<Hi - 1>> /\ iter'.call = Idle
    BY <1>1, <1>9, <2>1, <2>2 DEF IterFields
  <2> HIDE DEF index, f
  <2>4. index # Uncounted
    BY <1>5 DEF Uncounted
  <2>5. Hi' = Hi - 1 /\ Open' = Open
    BY <1>2, <1>4, <1>7, <2>3, <2>4 DEF Hi, Open, None, Owned, f
  <2>6. QueueStep
    <3>1. iter.front < Hi
      BY <1>1, <1>7, <1>9
    <3> QED
      BY <1>1, <1>2, <2>3, <2>5, <3>1, QueueSteps
  <2>7. CountIsTrue'
    <3>1. /\ f < LastFrame => iter.backLeft <= PerFrame
          /\ Hi <= Length
      BY <1>2, <1>5 DEF QueueInv, CountIsTrue, f
    <3>2. Length \in {Records, Records + 1}
      BY <1>1, LengthIs
    <3>3. /\ f < LastFrame => index <= PerFrame
          /\ Hi - 1 <= Length /\ ~(Hi - 1 > Records)
      BY <1>1, <1>5, <3>1, <3>2 DEF index
    <3> QED
      BY <1>4, <2>3, <2>4, <2>5, <3>3 DEF CountIsTrue
  <2>8. ArmedIsNext'
    BY <1>3, <2>3 DEF ArmedIsNext
  <2> QED
    BY <2>6, <2>7, <2>8 DEF QueueInv
<1> QED
  BY <1>8, <1>9 DEF GiveBack

LEMMA NextItemPops ==
  ASSUME QueueInv, FitInv', NextItem
  PROVE  QueueInv' /\ QueueStep
<1>1. Hi \in Nat /\ Records \in Nat
  BY HiIs DEF QueueInv
<1>2. Open => /\ iter.backLeft = Uncounted => iter.backFrame = LastFrame
              /\ iter.backLeft # Uncounted => Hi <= Records
  BY <1>1 DEF QueueInv, CountIsTrue, NextItem, Idle, Back
<1>3. WindowOK(window) /\ Forward(window, frame) /\ iter.kind # None /\ UNCHANGED <<file, answer>>
  BY DEF QueueInv, FitInv, NextItem
<1>4. Open /\ iter.armed =>
        /\ window.last = LastFrame
        /\ IF window.taken THEN iter.front = Length ELSE NumberOf(window) = iter.front
  BY DEF QueueInv, ArmedIsNext
<1> QED
  BY <1>2, <1>3, <1>4, ForwardPops

LEMMA NextBackPops ==
  ASSUME QueueInv, FitInv', NextBack
  PROVE  QueueInv' /\ QueueStep
<1>1. /\ DOMAIN iter = IterFields /\ UNCHANGED file /\ iter.kind = Owned /\ iter.call = Idle
      /\ iter.spent \in BOOLEAN /\ Hi \in Nat /\ Records \in Nat
  BY HiIs DEF QueueInv, NextBack, FitInv, TypeOK
<1>2. /\ iter'.kind = iter.kind /\ iter'.backFrame = iter.backFrame
      /\ iter'.backLeft = iter.backLeft /\ iter'.spent = iter.spent /\ iter'.armed = FALSE
      /\ iter'.front = iter.front
      /\ iter'.item = IF iter.spent THEN <<>> ELSE iter.item
  BY <1>1 DEF NextBack, IterFields
<1>3. Hi' = Hi /\ Open' = Open
  BY <1>1, <1>2, HiStays
<1>4. ArmedIsNext'
  BY <1>2 DEF ArmedIsNext
<1>5. CountIsTrue'
  <2>1. LastFrame' = LastFrame /\ PerFrame' = PerFrame /\ Records' = Records /\ Length' = Length
    BY <1>1, AnswersStand
  <2>2. Open => /\ iter.backLeft # Uncounted =>
                     /\ iter.backFrame < LastFrame => iter.backLeft <= PerFrame
                     /\ Hi <= Length /\ ~(Hi > Records)
                /\ iter.backLeft = Uncounted => iter.backFrame = LastFrame
    BY <1>1 DEF QueueInv, CountIsTrue, Idle, Back
  <2> QED
    BY <1>2, <1>3, <2>1, <2>2 DEF CountIsTrue
<1>6. QueueStep
  <2>1. CASE iter.spent
    <3>1. Open = FALSE /\ iter'.item = <<>>
      BY <1>2, <2>1 DEF Open
    <3> QED
      BY <1>1, <1>2, <1>3, <3>1, QueueSteps
  <2>2. CASE ~iter.spent
    BY <1>1, <1>2, <1>3, <2>2, QueueSteps
  <2> QED
    BY <2>1, <2>2
<1> QED
  BY <1>4, <1>5, <1>6 DEF QueueInv

\* Beginning an iterator and giving the reader back.
LEMMA BeginPops ==
  ASSUME QueueInv, FitInv', UNCHANGED file, NEW from \in Nat,
         iter' \in {Iter(Borrowed, from), Iter(Owned, from), NoIter}
  PROVE  QueueInv' /\ QueueStep
<1>1. LastFrame' = LastFrame /\ Length' = Length
  BY AnswersStand
<1>2. CASE iter' = NoIter
  <2>1. iter'.front = 0 /\ iter'.kind = None /\ iter'.item = <<>>
    BY <1>2 DEF NoIter
  <2>2. Hi' = 0 /\ Open' = FALSE
    BY <2>1 DEF Hi, Open, None
  <2> QED
    BY <2>1, <2>2, QueueSteps DEF QueueInv, CountIsTrue, ArmedIsNext
<1>3. CASE iter' \in {Iter(Borrowed, from), Iter(Owned, from)}
  <2>1. /\ iter'.kind \in {Borrowed, Owned} /\ iter'.front = from /\ iter'.backFrame = LastFrame
        /\ iter'.backLeft = Uncounted /\ iter'.armed = FALSE /\ iter'.spent = FALSE
        /\ iter'.item = <<>>
    BY <1>3 DEF Iter
  <2>2. Hi' = Length /\ Open' = TRUE
    BY <1>1, <2>1 DEF Hi, Open, None, Borrowed, Owned, Uncounted
  <2>3. CountIsTrue' /\ ArmedIsNext'
    BY <1>1, <2>1 DEF CountIsTrue, ArmedIsNext, Uncounted
  <2>4. QueueStep
    BY <2>1, <2>2, QueueSteps
  <2> QED
    BY <2>3, <2>4 DEF QueueInv
<1> QED
  BY <1>2, <1>3

\* While there is no iterator, the queue is empty and stays so.
LEMMA CallPops ==
  ASSUME QueueInv, FitInv', UNCHANGED file, iter = NoIter, UNCHANGED iter
  PROVE  QueueInv' /\ QueueStep
<1>1. Open = FALSE
  BY DEF Open, NoIter
<1>2. Hi' = Hi /\ Open' = Open
  BY HiStays
<1> QED
  BY <1>1, <1>2, QueueSteps DEF QueueInv, CountIsTrue, ArmedIsNext

LEMMA StutterPops ==
  ASSUME QueueInv, FitInv', UNCHANGED vars
  PROVE  QueueInv' /\ QueueStep
<1>1. UNCHANGED file /\ UNCHANGED iter /\ UNCHANGED window /\ UNCHANGED frame
  BY DEF vars
<1>2. Hi' = Hi /\ Open' = Open
  BY <1>1, HiStays
<1>3. LastFrame' = LastFrame /\ PerFrame' = PerFrame /\ Records' = Records /\ Length' = Length
  BY <1>1, AnswersStand
<1>4. NumberOf(window)' = NumberOf(window)
  BY <1>1 DEF NumberOf, StartOf
<1>5. CountIsTrue'
  BY <1>1, <1>2, <1>3 DEF QueueInv, CountIsTrue
<1>6. ArmedIsNext'
  BY <1>1, <1>2, <1>3, <1>4 DEF QueueInv, ArmedIsNext
<1>7. QueueStep
  BY <1>1, <1>2, QueueSteps
<1> QED
  BY <1>5, <1>6, <1>7 DEF QueueInv

LEMMA QueueInitially ==
  Init => QueueInv /\ Queue!Init
<1> SUFFICES ASSUME Init PROVE QueueInv /\ Queue!Init
  OBVIOUS
<1>1. FitInv /\ iter = NoIter
  BY FitInitially DEF Init
<1>2. Length \in Nat /\ Complete \in BOOLEAN
  <2>1. file \in Files
    BY <1>1 DEF FitInv, TypeOK
  <2> QED
    BY <1>1, <2>1, HiIs, LengthIs DEF Complete
<1>3. iter.front = 0 /\ iter.kind = None /\ iter.item = <<>>
  BY <1>1 DEF NoIter
<1>4. Open = FALSE
  BY <1>3 DEF Open
<1> QED
  BY <1>1, <1>2, <1>3, <1>4 DEF QueueInv, CountIsTrue, ArmedIsNext, Queue!Init

LEMMA QueueNext ==
  ASSUME ~PastTheEnd, NoLoneTail, QueueInv, [Next]_vars
  PROVE  QueueInv' /\ QueueStep
<1>1. FitInv'
  BY FitNext DEF QueueInv
<1>2. ASSUME NEW i \in 0..MaxIndex, Record(i) \/ RecordsFrom(i) \/ IntoRecordsFrom(i)
      PROVE  QueueInv' /\ QueueStep
  <2>1. i \in Nat
    BY ReaderAssumption
  <2>2. CASE Record(i)
    BY <1>1, <2>2, CallPops DEF Record
  <2>3. CASE RecordsFrom(i) \/ IntoRecordsFrom(i)
    BY <1>1, <2>1, <2>3, BeginPops DEF RecordsFrom, IntoRecordsFrom
  <2> QED
    BY <1>2, <2>2, <2>3
<1>3. ASSUME NEW i \in 0..MaxIndex, NEW cnt \in 0..MaxCount,
             RecordsTo(i, cnt) \/ FoldRecords(i, cnt)
      PROVE  QueueInv' /\ QueueStep
  BY <1>1, <1>3, CallPops DEF RecordsTo, FoldRecords
<1>4. CASE TotalRecords
  BY <1>1, <1>4, CallPops DEF TotalRecords
<1>5. CASE NextItem
  BY <1>1, <1>5, NextItemPops
<1>6. CASE NextBack
  BY <1>1, <1>6, NextBackPops
<1>7. CASE CountFrame
  BY <1>1, <1>7, CountFramePops
<1>8. CASE FrameBefore
  BY <1>1, <1>8, FrameBeforePops
<1>9. CASE GiveBack
  BY <1>1, <1>9, GiveBackPops
<1>10. CASE DropIter
  <2>1. 0 \in Nat
    OBVIOUS
  <2> QED
    BY <1>1, <1>10, <2>1, BeginPops DEF DropIter
<1>11. CASE UNCHANGED vars
  BY <1>1, <1>11, StutterPops
<1> QED
  BY <1>2, <1>3, <1>4, <1>5, <1>6, <1>7, <1>8, <1>9, <1>10, <1>11 DEF Next

\* Both iterators are queues of what is left between the two directions: each
\* record once and in order, none skipped or handed out twice where the two
\* meet, in frames counted from the back as they are come to (src/src/reader.rs,
\* RecordIter, BorrowedRecordIter).
THEOREM IteratorsAreQueues ==
  ASSUME ~PastTheEnd, NoLoneTail
  PROVE  Spec => IteratorIsAQueue
<1>1. QueueInv /\ [Next]_vars => QueueInv' /\ [Queue!Next]_(Queue!vars)
  BY QueueNext DEF QueueStep
<1> QED
  BY <1>1, QueueInitially, PTL DEF Spec, IteratorIsAQueue, Queue!Spec

================================================================================
