------------------------------ MODULE RecordWindow -----------------------------
(***************************************************************************)
(* The window through which records are read (src/src/record.rs, Reader,   *)
(* Window and RecordUnitCursor), by byte: what is buffered, where the walk *)
(* is, how the buffer slides, doubles and stops at frame ends, and what a  *)
(* watcher is told of the frames that are walked past (Watch, and the      *)
(* FrameJudge of src/src/reader.rs that it reports to).                    *)
(*                                                                         *)
(* A byte is its position in the decompressed file and a record is where   *)
(* it ends.  A call is in steps: each takes the records that end in the    *)
(* buffer, or reads on.                                                    *)
(***************************************************************************)
EXTENDS Integers, Sequences, FiniteSets, FiniteSetsExt

CONSTANTS
  Inputs,    \* the files there are to read
  BufSize,   \* READ_FRAME_BUF_SIZE, the length of the buffer to begin with
  Refused    \* the answer of a call that returns an error

\* A file is where its records end and where its frames end; separated is
\* whether a separator ends the records rather than a finder saying where.
InputType == [ends : SUBSET Nat, frames : Seq(Nat), separated : BOOLEAN]
ASSUME InputsAssumption ==
  /\ Inputs \subseteq InputType
  /\ \A i \in Inputs : /\ i.frames # <<>>
                       /\ \A f \in DOMAIN i.frames : f > 1 => i.frames[f - 1] <= i.frames[f]
                       /\ \A e \in i.ends : e \in 1 .. i.frames[Len(i.frames)]
ASSUME BufSizeAssumption == BufSize \in Nat \ {0}
ASSUME RefusedAssumption == Refused \notin Seq(Nat \X Nat)

VARIABLES
  input,    \* the file
  reader,   \* what the reader was opened with: its guard and its judge
  window,   \* Window
  frame,    \* Lookup.frame, 0 for None
  call,     \* the call in progress: the cursor and its watcher
  got       \* what the call has handed out, each record from where to where

windowVars == <<input, reader, window, frame, call, got>>

Bytes == input.frames[Len(input.frames)]
EndsIn(from, upto) == {e \in input.ends : from < e /\ e <= upto}
Nth(S, n) == CHOOSE e \in S : Cardinality({x \in S : x <= e}) = n

--------------------------------------------------------------------------------
\* Readers.  Positions are counted from base, the start of the frame that a
\* reader sharing a file begins at; its frames are spans of those of the file.

\* The ends an unfinished record must not cross, all but the last frame's.
FrameEnds(i) == SubSeq(i.frames, 1, Len(i.frames) - 1)
Spans(i) == [f \in DOMAIN i.frames |->
              [start |-> IF f = 1 THEN 0 ELSE i.frames[f - 1], end |-> i.frames[f]]]

\* The judge holds every frame but the last to the count of frame 0; a reader
\* that does not verify has none.
NoJudge == [verifies |-> FALSE, shares |-> FALSE, first |-> 1, last |-> 0, perFrame |-> 0]

\* from_reader.
PerFrame(i) == Cardinality({e \in i.ends : e <= i.frames[1]})
Whole(i) == [base |-> 0, guard |-> FrameEnds(i), frames |-> Spans(i),
             sepCnt |-> PerFrame(i), judge |-> NoJudge]

--------------------------------------------------------------------------------
\* The window.

Cleared(cap, start, len, next) ==
  [offset |-> start, limit |-> start + len, cap |-> cap, filled |-> 0, pos |-> 0,
   eof |-> FALSE, walked |-> 0, front |-> 0, nextEnd |-> next]

\* seek_to: the buffer keeps the length it has grown to.
SeekTo(w, start, len) ==
  Cleared(w.cap, start, len,
          Cardinality({i \in DOMAIN reader.guard :
                        reader.guard[i] <= start + reader.base}) + 1)

\* Where the walk is, and where what is buffered ends, in the file.
At(w) == reader.base + w.offset + w.pos
Loaded(w) == reader.base + w.offset + w.filled
Held(w) == EndsIn(At(w), Loaded(w))

\* walk: up to want of the records that end in the buffer.
Walk(w, want) ==
  LET count == Min({want, Cardinality(Held(w))})
      stop == Nth(Held(w), count)
  IN  [w EXCEPT !.pos = @ + stop - At(w), !.walked = @ + count]

\* walk_from: back to what is still buffered, if that will do.
CanWalkFrom(w, index) == index >= w.front
WalkFrom(w, index) ==
  IF index >= w.walked THEN w ELSE [w EXCEPT !.walked = w.front, !.pos = 0]

\* A mistake: a full buffer is as long as it gets.
NotGrown(w) == w

\* A mistake: it doubles though something of it has been consumed.
GrownEarly(w) == IF w.filled = w.cap THEN [w EXCEPT !.cap = 2 * @] ELSE w

\* grow_if_full.
Grown(w) == IF w.pos = 0 /\ w.filled = w.cap THEN [w EXCEPT !.cap = 2 * @] ELSE w

\* The record at the front once the buffer has slid: the one the walk is on.
\* A mistake: it is taken to be the one it was.
FrontUnmoved(w) == w.front
Front(w) == IF w.pos > 0 THEN w.walked ELSE w.front

\* refill: past the frame ends that have been reached, at which nothing may be
\* left over, and what is not consumed to the front.
Passed(w) ==
  Cardinality({i \in DOMAIN reader.guard : i >= w.nextEnd /\ reader.guard[i] = Loaded(w)})
CutsARecord(w) == Passed(w) > 0 /\ w.pos # w.filled
Slid(w) ==
  [w EXCEPT !.nextEnd = @ + Passed(w), !.filled = @ - w.pos, !.offset = @ + w.pos,
            !.pos = 0, !.front = Front(w)]

\* How much one read may bring in: up to the end of the buffer, of the span and
\* of the next frame.  A mistake: frames are read across.
RoomUnguarded(w) == Min({w.cap - w.filled, reader.base + w.limit - Loaded(w)})
Room(w) ==
  Min({w.cap - w.filled, reader.base + w.limit - Loaded(w)}
      \cup IF w.nextEnd \in DOMAIN reader.guard
           THEN {reader.guard[w.nextEnd] - Loaded(w)} ELSE {})

\* A mistake: a read of nothing is not the end of the source.
FilledEndlessly(w) == {[w EXCEPT !.filled = @ + read] : read \in Min({1, Room(w)}) .. Room(w)}
Filled(w) ==
  IF Room(w) = 0 THEN {[w EXCEPT !.eof = TRUE]}
  ELSE {[w EXCEPT !.filled = @ + read] : read \in 1 .. Room(w)}

--------------------------------------------------------------------------------
\* The watcher, told of every frame end that the walk reaches.

NoWatch == [at |-> <<>>, next |-> 1, walked |-> 0, first |-> 0]

\* A mistake: what follows the last record of a frame is not asked about.
UnevenInCount(f, held, whole) ==
  held # reader.judge.perFrame /\ ~(f = reader.judge.last /\ held < reader.judge.perFrame)

\* verify_frame_count and verify_frame_ends_whole: the last frame may hold fewer
\* records, and bytes after them.
Uneven(f, held, whole) ==
  \/ held # reader.judge.perFrame /\ ~(f = reader.judge.last /\ held < reader.judge.perFrame)
  \/ ~whole /\ f # reader.judge.last

\* Watch::saw, of the records between from and upto: the frame ends among them
\* are reported, each with how many records ended before it.
Reached(upto) ==
  {k \in DOMAIN call.watch.at : k >= call.watch.next /\ call.watch.at[k] <= upto}
Before(w, from, k) == w.walked + Cardinality(EndsIn(from, call.watch.at[k]))
Saw(w, from, upto) ==
  [call.watch EXCEPT
    !.next = @ + Cardinality(Reached(upto)),
    !.walked = IF Reached(upto) = {} THEN @ ELSE Before(w, from, Max(Reached(upto)))]
SawUneven(w, from, upto) ==
  \E k \in Reached(upto) :
    Uneven(call.watch.first + k - 1,
           Before(w, from, k) - IF k = call.watch.next THEN call.watch.walked
                                ELSE Before(w, from, k - 1),
           call.watch.at[k] \in EndsIn(from, upto))

\* Watch::spent: the frame the walk stopped in is judged as if it ended there.
SpentUneven(w) ==
  /\ call.watch.next <= Len(call.watch.at)
  /\ Uneven(call.watch.first + call.watch.next - 1, w.walked - call.watch.walked,
            w.pos = w.filled)

--------------------------------------------------------------------------------
\* The cursor: records to pass, whether running out among them is an error,
\* records to hand out, and what becomes of a fragment at the end of the file.

Idle ==
  [busy |-> FALSE, skip |-> 0, skipWhole |-> FALSE, left |-> 0, include |-> FALSE,
   reject |-> FALSE, spent |-> FALSE, watch |-> NoWatch, lookup |-> FALSE]

\* RecordUnitCursor::new, with what the callers set where a read reaches the end
\* of the file.
Cursor(skip, skipWhole, left, final, watch) ==
  [busy |-> TRUE, skip |-> skip, skipWhole |-> skipWhole, left |-> left,
   include |-> final /\ input.separated, reject |-> final /\ ~input.separated,
   spent |-> FALSE, watch |-> watch, lookup |-> ~skipWhole]

Wanted == IF call.skip > 0 THEN call.skip ELSE call.left
Walking == call.busy /\ ~call.spent /\ Wanted > 0

\* The records that end in (from, upto].
Records(from, upto) ==
  LET ends == EndsIn(from, upto)
  IN  [i \in 1 .. Cardinality(ends) |->
        <<IF i = 1 THEN from ELSE Nth(ends, i - 1), Nth(ends, i)>>]

Answer(a) == got' = a /\ call' = Idle

\* Records::next, where records end in what is buffered: a run of them is passed
\* or handed out, and the watcher is told.
TakeRun ==
  /\ Walking
  /\ Held(window) # {}
  /\ LET w == Walk(window, Wanted)
         count == w.walked - window.walked
         from == At(window)
         upto == At(w)
     IN  /\ window' = w
         /\ IF SawUneven(window, from, upto) THEN Answer(Refused)
            ELSE /\ call' = [call EXCEPT
                               !.skip = IF call.skip > 0 THEN @ - count ELSE @,
                               !.left = IF call.skip > 0 THEN @ ELSE @ - count,
                               !.watch = Saw(window, from, upto)]
                 /\ got' = IF call.skip > 0 THEN got ELSE got \o Records(from, upto)
  /\ UNCHANGED <<input, reader, frame>>

\* Where none does: the buffer grows if it has to, and more is read.
ReadMore ==
  /\ Walking
  /\ Held(window) = {}
  /\ ~window.eof
  /\ \/ /\ CutsARecord(window)
        /\ window' = Grown(window)
        /\ Answer(Refused)
     \/ /\ ~CutsARecord(window)
        /\ window' \in Filled(Slid(Grown(window)))
        /\ UNCHANGED <<call, got>>
  /\ UNCHANGED <<input, reader, frame>>

\* The source is spent among the records to pass (pass_skip).
RunOutSkipping ==
  /\ Walking
  /\ call.skip > 0
  /\ Held(window) = {} /\ window.eof
  /\ IF SpentUneven(window) \/ call.skipWhole THEN Answer(Refused)
     ELSE /\ call' = [call EXCEPT !.skip = 0, !.spent = TRUE]
          /\ got' = got
  /\ UNCHANGED <<input, reader, window, frame>>

\* It is spent among those to hand out (next_run and final_record): what is left
\* over is a record where a separator would have ended it.
RunOutHanding ==
  /\ Walking
  /\ call.skip = 0
  /\ Held(window) = {} /\ window.eof
  /\ IF window.pos < window.filled /\ call.reject
     THEN Answer(Refused) /\ UNCHANGED window
     ELSE IF window.pos < window.filled /\ call.include
     THEN /\ got' = Append(got, <<At(window), Loaded(window)>>)
          /\ call' = [call EXCEPT !.left = @ - 1, !.spent = TRUE]
          /\ window' = [window EXCEPT !.pos = window.filled]
     ELSE /\ call' = [call EXCEPT !.spent = TRUE]
          /\ UNCHANGED <<window, got>>
  /\ UNCHANGED <<input, reader, frame>>

\* The call returns.  The watcher is told where a walk that ran out has stopped;
\* a verifying lookup that found nothing judges the frame (verify_walked_frame).
FoundNothingUneven ==
  reader.judge.verifies /\ call.lookup /\ got = <<>> /\ Uneven(frame - 1, window.walked, TRUE)
Finish ==
  /\ call.busy
  /\ call.spent \/ Wanted = 0
  /\ Answer(IF (call.left > 0 /\ SpentUneven(window)) \/ FoundNothingUneven
            THEN Refused ELSE got)
  /\ UNCHANGED <<input, reader, window, frame>>

Step == TakeRun \/ ReadMore \/ RunOutSkipping \/ RunOutHanding \/ Finish

--------------------------------------------------------------------------------
\* Beginning a call.

\* A read of some frames of the reader (point_window): the note is taken back.
ReadSpan(first, last, skip, left, watch) ==
  /\ ~call.busy
  /\ window' = SeekTo(window, reader.frames[first].start,
                      reader.frames[last].end - reader.frames[first].start)
  /\ call' = Cursor(skip, TRUE, left,
                    reader.frames[last].end = reader.frames[Len(reader.frames)].end, watch)
  /\ frame' = 0
  /\ got' = <<>>
  /\ UNCHANGED <<input, reader>>

\* A lookup of record index of frame f (walk_to), where the window is noted to be
\* at frame noted: on from where the last one of the same frame left it if that
\* will do.
LookUp(f, index, noted) ==
  /\ ~call.busy
  /\ LET w == IF noted = f /\ CanWalkFrom(window, index) THEN WalkFrom(window, index)
              ELSE SeekTo(window, reader.frames[f].start,
                          reader.frames[f].end - reader.frames[f].start)
     IN  /\ window' = w
         /\ call' = Cursor(index - w.walked, FALSE, 1, f = Len(reader.frames), NoWatch)
  /\ frame' = f
  /\ got' = <<>>
  /\ UNCHANGED <<input, reader>>

\* The next left records of a span that is being read.
GoOn(left, final) ==
  /\ ~call.busy
  /\ call' = Cursor(0, TRUE, left, final, NoWatch)
  /\ got' = <<>>
  /\ UNCHANGED <<input, reader, window, frame>>

OpenedAt(r) ==
  /\ reader = r
  /\ window = Cleared(BufSize, 0, 0, 1)
  /\ frame = 0
  /\ call = Idle
  /\ got = <<>>

--------------------------------------------------------------------------------
\* Properties.

TypeOK ==
  /\ input \in Inputs
  /\ window \in [offset : Nat, limit : Nat, cap : Nat, filled : Nat, pos : Nat,
                 eof : BOOLEAN, walked : Nat, front : Nat, nextEnd : Nat]
  /\ window.pos <= window.filled /\ window.filled <= window.cap
  /\ window.front <= window.walked
  /\ window.offset + window.filled <= window.limit
  /\ frame \in 0 .. Len(reader.frames)
  /\ call.busy \in BOOLEAN /\ call.skip \in Nat /\ call.left \in Nat
  /\ got = Refused \/ got \in Seq(Nat \X Nat)

\* The buffer doubles only for a record or a fragment that fills it, so that it
\* stays below twice the longest of them whatever is read in what order
\* (record.rs:147, "the growth is bounded by the frame being read").
Longest ==
  LET marks == input.ends \cup {0, Bytes}
      gaps == {m \in marks \X marks :
                m[1] <= m[2] /\ \A x \in marks : ~(m[1] < x /\ x < m[2])}
  IN  Max({gap[2] - gap[1] : gap \in gaps})
GrowthIsBounded == window.cap = BufSize \/ window.cap <= 2 * Longest
================================================================================
