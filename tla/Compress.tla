-------------------------------- MODULE Compress -------------------------------
(***************************************************************************)
(* The compressor (src/src/seekzstdsep_lib.rs): the conversion, which cuts *)
(* a stream into frames at ends of records, and the retry around it, which *)
(* starts over where more is buffered without an end than the limit        *)
(* allows.                                                                 *)
(*                                                                         *)
(* An input is where its records end and how many bytes it has; those      *)
(* behind the last end are a fragment.  A frame is the bytes it holds.     *)
(* The encoder ends a frame before each next one and the last when it is   *)
(* finished.  What has been compressed is not seen by anybody before that: *)
(* the retry delivers its staging file only then, and a conversion into    *)
(* the caller's own writer that fails is the caller's to throw away.       *)
(***************************************************************************)
EXTENDS Integers, Sequences, FiniteSets

CONSTANTS
  Inputs,       \* what there is to compress
  FrameSizes,   \* frame_size, in bytes
  Multipliers,  \* limit_multiplier
  Givens,       \* max_of_separator, the count per frame, or Unset
  ReadSize,     \* READ_BUF_SIZE, how much one read brings in at most
  UsizeMax      \* the largest usize

\* -1 stands for no count yet in max_of_separator.
Unset == -1

InputType == [ends : Seq(Nat), size : Nat]
ASSUME InputsAssumption ==
  /\ Inputs \subseteq InputType
  /\ \A x \in Inputs :
       /\ \A i \in DOMAIN x.ends : x.ends[i] \in 1..x.size
       /\ \A i, j \in DOMAIN x.ends : i < j => x.ends[i] < x.ends[j]
ASSUME OptionsAssumption ==
  /\ FrameSizes \subseteq Nat
  /\ Multipliers \subseteq Nat
  /\ Givens \subseteq Nat \cup {Unset}
ASSUME ReadAssumption == ReadSize \in Nat \ {0}

\* No input comes near half of a usize.
ASSUME UsizeAssumption ==
  /\ UsizeMax \in Nat
  /\ \A x \in Inputs : Len(x.ends) < UsizeMax \div 2

VARIABLES
  input,      \* what is compressed
  keep,       \* is_same_record_cnt: the count is to be the same in all frames
  retries,    \* whether the retry is around the conversion
  multiplier,
  frameSize,  \* that of this attempt,
  asked,      \* and its max_of_separator, Unset for None
  pc,         \* "fill", "scan", "rest", "retry", "done", "failed"
  read,       \* how many bytes have been read
  start,      \* where in the input the stream's buffer starts
  scanned,    \* how many ends of records have been found
  frameEnd,   \* frame_end, an offset into the buffer
  max, cnt,   \* max_of_separator and cnt_of_seprator of the conversion
  staged      \* the frames compressed so far

job == <<input, keep, retries, multiplier>>
attempt == <<frameSize, asked>>
stream == <<read, start, scanned>>
cutter == <<frameEnd, max, cnt, staged>>
vars == <<job, attempt, pc, stream, cutter>>

EndOf(k) == IF k = 0 THEN 0 ELSE input.ends[k]
Limit == frameSize * multiplier

\* The conversion's local state as it starts, with a count given or not.
Fresh(count) ==
  /\ pc' = "fill"
  /\ read' = 0 /\ start' = 0 /\ scanned' = 0
  /\ frameEnd' = 0 /\ max' = count /\ cnt' = 0

Init ==
  /\ input \in Inputs
  /\ keep \in BOOLEAN /\ retries \in BOOLEAN
  /\ multiplier \in Multipliers
  /\ frameSize \in FrameSizes
  /\ asked \in Givens
  /\ pc = "fill"
  /\ read = 0 /\ start = 0 /\ scanned = 0
  /\ frameEnd = 0 /\ max = asked /\ cnt = 0
  /\ staged = <<>>

--------------------------------------------------------------------------------
\* Stream::fill: one read.  The limit is on what has been read behind the last
\* end found, and looked at before the ends in what is new are.
Fill ==
  /\ pc = "fill"
  /\ \E n \in 1..ReadSize :
       /\ read + n <= input.size
       /\ read' = read + n
  /\ pc' = IF read' - EndOf(scanned) <= Limit THEN "scan"
           ELSE IF keep /\ retries THEN "retry"
           ELSE "failed"
  /\ UNCHANGED <<job, attempt, start, scanned, cutter>>

\* The source is spent.
FillNothing ==
  /\ pc = "fill"
  /\ read = input.size
  /\ pc' = "rest"
  /\ UNCHANGED <<job, attempt, stream, cutter>>

\* A mistake: an end is found a byte too early.
EndedEarly(k) == k \in DOMAIN input.ends /\ input.ends[k] <= read + 1

\* Whether record k ends in what has been read.
Ended(k) == k \in DOMAIN input.ends /\ input.ends[k] <= read

\* A mistake: a frame goes on if it is of just the size.
DuePast(records, end) ==
  IF keep /\ max # Unset THEN records >= max ELSE end > frameSize

\* Whether a frame is cut that so far holds so many records and bytes: by the
\* count where there is one, and by the size before that or without.
Due(records, end) ==
  IF keep /\ max # Unset THEN records >= max ELSE end >= frameSize

\* A mistake: the records of the first frame are counted for the second too.
CutCounting(records, end) ==
  /\ staged' = Append(staged, [from |-> start, to |-> start + end])
  /\ start' = start + end
  /\ frameEnd' = 0
  /\ max' = IF keep /\ max = Unset THEN records ELSE max
  /\ cnt' = IF keep /\ max # Unset THEN 0 ELSE records

\* A mistake: frame_end stays where the frame ended.
CutEndStays(records, end) ==
  /\ staged' = Append(staged, [from |-> start, to |-> start + end])
  /\ start' = start + end
  /\ frameEnd' = end
  /\ max' = IF keep /\ max = Unset THEN records ELSE max
  /\ cnt' = IF keep THEN 0 ELSE records

\* encode_frame_*: the frame compressed and dropped from the buffer, and its
\* count taken for all that follow if there was none.
CutFrame(records, end) ==
  /\ staged' = Append(staged, [from |-> start, to |-> start + end])
  /\ start' = start + end
  /\ frameEnd' = 0
  /\ max' = IF keep /\ max = Unset THEN records ELSE max
  /\ cnt' = IF keep THEN 0 ELSE records

\* One more end found, and a frame cut there or not.
NextEnd ==
  /\ pc = "scan"
  /\ Ended(scanned + 1)
  /\ scanned' = scanned + 1
  /\ LET records == IF keep THEN cnt + 1 ELSE cnt
         end == EndOf(scanned + 1) - start
     IN  \/ Due(records, end) /\ CutFrame(records, end)
         \/ /\ ~Due(records, end)
            /\ frameEnd' = end /\ cnt' = records
            /\ UNCHANGED <<start, max, staged>>
  /\ UNCHANGED <<job, attempt, pc, read>>

\* When the buffer is cut back although no frame was cut.
Drops == ~(keep /\ (max = Unset \/ cnt # max)) /\ frameEnd > frameSize

\* No more ends in what has been read.
ScanEnds ==
  /\ pc = "scan"
  /\ ~Ended(scanned + 1)
  /\ \/ Drops /\ start' = start + frameEnd /\ frameEnd' = 0
     \/ ~Drops /\ UNCHANGED <<start, frameEnd>>
  /\ pc' = "fill"
  /\ UNCHANGED <<job, attempt, read, scanned, max, cnt, staged>>

\* What is left at the end of the source makes the last frame.
Finish ==
  /\ pc = "rest"
  /\ staged' = IF start < read THEN Append(staged, [from |-> start, to |-> read]) ELSE staged
  /\ pc' = "done"
  /\ UNCHANGED <<job, attempt, stream, frameEnd, max, cnt>>

--------------------------------------------------------------------------------
\* current_line_num_per_frame as usize: none yet is the largest there is.
Current == IF max = Unset THEN UsizeMax ELSE max

\* A mistake: the size stays.
SizeAgainSame == frameSize

\* The frame size of the next attempt.
SizeAgain == IF Current < 2 THEN 2 * frameSize ELSE frameSize

\* A mistake: the staging file is not emptied.
RetryAppends ==
  /\ pc = "retry"
  /\ frameSize' = SizeAgain
  /\ asked' = IF Current < 2 THEN Current ELSE Current \div 2
  /\ Fresh(asked')
  /\ UNCHANGED <<job, staged>>

\* The next attempt, from the start of the input and with the staging file
\* emptied.
Retry ==
  /\ pc = "retry"
  /\ frameSize' = SizeAgain
  /\ asked' = IF Current < 2 THEN Current ELSE Current \div 2
  /\ Fresh(asked')
  /\ staged' = <<>>
  /\ UNCHANGED job

\* Reading, compressing, rewinding or delivering fails.
Fail ==
  /\ pc \notin {"done", "failed"}
  /\ pc' = "failed"
  /\ UNCHANGED <<job, attempt, stream, cutter>>

Proceed == Fill \/ FillNothing \/ NextEnd \/ ScanEnds \/ Finish \/ Retry
Next == Proceed \/ Fail

Spec == Init /\ [][Next]_vars

\* A loop on the caller's thread, whose reads and writes return.
FairSpec == Spec /\ WF_vars(Proceed)
--------------------------------------------------------------------------------
\* What inspect_frames says each frame holds in fast mode, i counted from 0 as
\* there.  frame_len - 3 is a subtraction of usize, which wraps around where the
\* build does not check it.
Held(i) ==
  LET f == staged[i + 1]
  IN  Cardinality({k \in DOMAIN input.ends : f.from < input.ends[k] /\ input.ends[k] <= f.to})
\* A mistake: the last frame is taken to be like the first.
LastButNone == Len(staged)
LastButTwo == IF Len(staged) < 3 THEN UsizeMax - (2 - Len(staged)) ELSE Len(staged) - 3
Reported(i) == IF i = 0 \/ i > LastButTwo THEN Held(i) ELSE Held(0)

--------------------------------------------------------------------------------
\* Types, and that no record is found before its last byte has been read.
TypeOK ==
  /\ input \in Inputs
  /\ keep \in BOOLEAN /\ retries \in BOOLEAN
  /\ multiplier \in Nat /\ frameSize \in Nat
  /\ asked \in Nat \cup {Unset}
  /\ pc \in {"fill", "scan", "rest", "retry", "done", "failed"}
  /\ read \in 0..input.size
  /\ scanned \in 0..Len(input.ends)
  /\ EndOf(scanned) <= read
  /\ start \in 0..read
  /\ frameEnd \in Nat
  /\ max \in Nat \cup {Unset}
  /\ cnt \in Nat
  /\ staged \in Seq([from : Nat, to : Nat])

\* The frames are the input, cut: no byte is dropped that was not compressed,
\* none is compressed twice, no frame is of nothing, and nothing is left of an
\* attempt that was given up.
Written == IF staged = <<>> THEN 0 ELSE staged[Len(staged)].to
NothingLost ==
  /\ \A i \in DOMAIN staged :
       /\ staged[i].from = IF i = 1 THEN 0 ELSE staged[i - 1].to
       /\ staged[i].from < staged[i].to
  /\ pc \in {"fill", "scan", "rest"} => start = Written
  /\ pc = "done" => Written = input.size

\* "Every frame contains exactly the same number of separators, except the final
\* data frame, which may contain fewer" (docs/format.md): this is what reading by
\* division and appending rest on, and each frame but the last ends with a record.
PerFrame == IF max = 0 THEN 1 ELSE max
UniformOutput ==
  keep /\ pc = "done" =>
    /\ \A i \in 1 .. Len(staged) - 1 :
         /\ i * PerFrame \in 1..Len(input.ends)
         /\ staged[i].to = EndOf(i * PerFrame)
    /\ max # Unset => Len(input.ends) <= Len(staged) * PerFrame
    /\ max = Unset => Len(staged) <= 1

\* frame_size is a target: a frame that is cut by size ends at the first end of
\* a record at or after it.  With the count kept that is the first frame alone.
BySize == {i \in 1 .. Len(staged) - 1 : ~keep \/ (i = 1 /\ asked = Unset)}
FrameTarget ==
  \A i \in BySize :
    LET f == staged[i] IN
    \E k \in DOMAIN input.ends :
      /\ f.to = input.ends[k] /\ f.to - f.from >= frameSize
      /\ \A j \in 1 .. k - 1 : input.ends[j] - f.from < frameSize \/ input.ends[j] <= f.from

\* The buffer is never cut back but where a frame is: the drain at the end of the
\* read loop, which would lose records, is not reached ("not reached by anything
\* here", tests/compress_equivalence.rs, nor by anything else).
DrainIsIdle == pc = "scan" /\ ~Ended(scanned + 1) => ~Drops

\* However often it starts over, a compression comes to an end.
RetryEnds == <>(pc \in {"done", "failed"})

\* "Measure separators only in frame 0 and the last two frames, assuming that
\* count for the rest" (InspectOptions): with equal counts that is every
\* frame's.  Not so with two frames, where the subtraction of 3 wraps around and
\* the second is given the count of the first.
InspectIsTrue ==
  keep /\ pc = "done" /\ Len(staged) # 2 =>
    \A i \in 0 .. Len(staged) - 1 : Reported(i) = Held(i)

================================================================================
