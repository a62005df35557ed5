--------------------------------- MODULE Edit ---------------------------------
(***************************************************************************)
(* The operations of src/src/edit.rs on one file: append_records, in place *)
(* and without a lock, append_frames, truncate, and copy_range, which      *)
(* writes a file of its own.                                               *)
(*                                                                         *)
(* An operation reads the seek table and decides everything before it      *)
(* writes: it is refused, or it has a plan, which is where the file is cut *)
(* and what follows the cut.  From the cut to the last write, that of the  *)
(* new seek table, the file has none and cannot be opened.  A write may    *)
(* fail, or the process die, at any step.  Nobody else touches the file    *)
(* meanwhile: the operations take it exclusively, and FileUpdate is about  *)
(* who calls them.                                                         *)
(***************************************************************************)
EXTENDS Records

CONSTANTS
  Operations,  \* which of "records", "frames", "truncate", "copy" are called
  Files,       \* the files there may be at first, as sequences of frames
  Inputs,      \* the files append_frames copies from
  Data,        \* what append_records is given to append
  Counts,      \* the records-per-frame counts callers give
  MaxSize,     \* bound: records and fragments a file holds
  Ids,         \* the records there are
  None

Bytes == [recs : Seq(Ids \cup {Sealed, Merged}), part : BOOLEAN]

ASSUME FilesAssumption == \A fs \in Files : fs \in Seq(Bytes) /\ Uniform(fs)

\* Whatever cut an input into frames cut it at ends of records.
ASSUME InputsAssumption ==
  \A fs \in Inputs :
    /\ fs \in Seq(Bytes) \ {<<>>}
    /\ \A i, j \in DOMAIN fs : i < j /\ Size(fs[j]) > 0 => ~fs[i].part
ASSUME NoneAssumption == None \notin Seq(Nat)
ASSUME DataAssumption == Data \subseteq Bytes
ASSUME BoundAssumption == MaxSize \in Nat /\ Counts \subseteq 1..MaxSize

VARIABLES
  frames,  \* the data frames on disk
  table,   \* the seek table behind them: each frame's size, or None
  pc,      \* where the operation is: "idle", "cut", "write"
  plan,    \* what it decided, or None
  prev,    \* the AppendResult the caller keeps, or None
  fresh,   \* whether the file is as that result left it
  answer,  \* what the last call returned
  copied   \* the last file copy_range wrote, or None

file == <<frames, table>>
cache == <<prev, fresh>>
vars == <<file, pc, plan, cache, answer, copied>>

Init ==
  /\ frames \in Files
  /\ table = Sizes(frames)
  /\ pc = "idle"
  /\ plan = None
  /\ prev = None
  /\ fresh = FALSE
  /\ answer = "none"
  /\ copied = None

-------------------------------------------------------------------------------
(***************************************************************************)
(* What the operations check first                                         *)
(***************************************************************************)
Count(fs, i) == Len(fs[i].recs)

\* validate_separator: the first frame against the last but one, trailing
\* frames of nothing counted; the count, in a set that is empty on refusal.
ValidateSeparator(fs) ==
  {n \in {Count(fs, 1)} : /\ Len(fs) >= 3
                          /\ n > 0
                          /\ Count(fs, Len(fs) - 1) = n}

\* A mistake: a file of two data frames is not compared at all.
ValidateTwoFrames(fs, last, n) ==
  \A i \in {1, last - 1} \cap 2..(last - 1) : Count(fs, i) = n /\ Whole(fs[i])

\* validate_records_per_frame: the first frame and the one before the last,
\* where there are such.
ValidateRecordsPerFrame(fs, last, n) ==
  \A i \in {1, last - 1} \cap 1..(last - 1) : Count(fs, i) = n /\ Whole(fs[i])

\* records_per_frame: frame 0 alone, which has to end whole and not be the last
\* one, or the last that has to be full as well.
RecordsPerFrame(fs, check) ==
  LET last == LastDataFrame(fs) IN
  {n \in {Count(fs, 1)} :
     /\ last > 1
     /\ Whole(fs[1])
     /\ check = "TwoFrames" => last > 2 /\ Count(fs, last - 1) = n}

\* A mistake: a range may start inside a frame.
FrameRangeRounded(fs, n, from, cnt) ==
  LET last == LastDataFrame(fs)
      end  == IF cnt = None THEN 0 ELSE from + cnt
  IN IF from \div n + 1 > last THEN {}
     ELSE IF cnt # None /\ end % n = 0 /\ end \div n < last
     THEN {[first |-> from \div n + 1, past |-> end \div n + 1, toEnd |-> FALSE]}
     ELSE IF cnt # None /\ end # n * (last - 1) + Count(fs, last) THEN {}
     ELSE {[first |-> from \div n + 1, past |-> last + 1, toEnd |-> TRUE]}

\* frame_range: the frames first..past-1 that records from, from+1, ... are in,
\* and whether the range runs to the end of the file.
FrameRange(fs, n, from, cnt) ==
  LET last  == LastDataFrame(fs)
      first == from \div n + 1
      end   == IF cnt = None THEN 0 ELSE from + cnt
  IN IF from % n # 0 \/ first > last THEN {}
     ELSE IF cnt # None /\ end % n = 0 /\ end \div n < last
     THEN {[first |-> first, past |-> end \div n + 1, toEnd |-> FALSE]}
     ELSE IF cnt # None /\ end # n * (last - 1) + Count(fs, last) THEN {}
     ELSE {[first |-> first, past |-> last + 1, toEnd |-> TRUE]}

\* check_range_uniform: only the frame the range ends at may be short, and only
\* where the file ends with it.
CheckRangeUniform(fs, n, range) ==
  \A i \in range.first..(range.past - 1) :
    \/ Count(fs, i) = n
    \/ i = range.past - 1 /\ i = LastDataFrame(fs) /\ Count(fs, i) < n

-------------------------------------------------------------------------------
(***************************************************************************)
(* Plans, and how they are carried out                                     *)
(***************************************************************************)
\* An operation that is not refused cuts the file to its first kept frames,
\* writes the new ones, and last the table it has logged.
Begin(request, cut, new, log, result) ==
  /\ pc' = "cut"
  /\ plan' = [request |-> request, before |-> frames, cut |-> cut,
              target |-> SubSeq(frames, 1, cut) \o new, log |-> log, result |-> result]
  /\ answer' = "none"
  /\ UNCHANGED <<file, cache, copied>>

Refuse ==
  /\ answer' = "refused"
  /\ UNCHANGED <<file, pc, plan, cache, copied>>

\* A mistake: the start of the last frame to keep, for its end.
CutAtStart ==
  /\ pc = "cut"
  /\ pc' = "write"
  /\ frames' = SubSeq(frames, 1, plan.cut - 1)
  /\ table' = None
  /\ fresh' = FALSE
  /\ UNCHANGED <<plan, prev, answer, copied>>

\* cut_at: set_len drops the table, whatever else it drops.
Cut ==
  /\ pc = "cut"
  /\ pc' = "write"
  /\ frames' = SubSeq(frames, 1, plan.cut)
  /\ table' = None
  /\ fresh' = FALSE
  /\ UNCHANGED <<plan, prev, answer, copied>>

WriteFrame ==
  /\ pc = "write"
  /\ Len(frames) < Len(plan.target)
  /\ frames' = Append(frames, plan.target[Len(frames) + 1])
  /\ UNCHANGED <<table, pc, plan, cache, answer, copied>>

\* The caller may keep the result, or an older one.
WriteSeekTable ==
  /\ pc = "write"
  /\ Len(frames) = Len(plan.target)
  /\ pc' = "idle"
  /\ table' = plan.log
  /\ plan' = None
  /\ answer' = "ok"
  /\ \/ UNCHANGED cache
     \/ plan.result # None /\ prev' = plan.result /\ fresh' = TRUE
  /\ UNCHANGED <<frames, copied>>

\* Reading the data, compressing or writing fails, or the process dies.
Fail ==
  /\ pc # "idle"
  /\ pc' = "idle"
  /\ plan' = IF table = None THEN plan ELSE None
  /\ answer' = "failed"
  /\ UNCHANGED <<file, cache, copied>>

-------------------------------------------------------------------------------
(***************************************************************************)
(* append_records                                                          *)
(***************************************************************************)
last == LastDataFrame(frames)

\* Mistakes: a result is taken for the file's by its frame count, or whatever
\* count the caller gives.
MatchesByCount(result) == result.frame_count = Len(table)

\* AppendResult::matches, and the filter on the count the caller gives.
Matches(result) ==
  /\ result.frame_count = Len(table)
  /\ result.last_frame = last
  /\ result.last_size = table[last]
UsableAnyCount(result, given) == IF result # None /\ Matches(result) THEN result ELSE None

Usable(result, given) ==
  IF result # None /\ Matches(result) /\ given \in {None, result.records_per_frame}
  THEN result ELSE None

\* The count to append by, in a set that is empty on refusal: given and
\* trusted, given and compared with the file, cached, or read off the file.
\* Only a result whose own count was checked stands for a comparison.
Validated(previous) == previous # None /\ previous.count_validated
RecordsPerFrameToUse(given, trust, previous) ==
  IF given # None
  THEN {n \in {given} : /\ Size(frames[last]) > 0
                        /\ \/ trust
                           \/ Validated(previous)
                           \/ ValidateRecordsPerFrame(frames, last, n)}
  ELSE IF trust THEN {}
  ELSE IF Validated(previous) THEN {previous.records_per_frame}
  ELSE ValidateSeparator(frames)

\* What the last data frame holds: cached, or read.
LastState(previous) ==
  IF previous # None /\ previous.last_records # None
  THEN [count |-> previous.last_records, whole |-> previous.last_whole]
  ELSE [count |-> Count(frames, last), whole |-> Whole(frames[last])]
PreserveLast(state, n) == state.whole /\ state.count = n

\* The bytes in front of the appended ones: none where the last frame is full,
\* else that frame's, closed if need be.
TailBytes(state, n) ==
  IF PreserveLast(state, n) THEN Empty
  ELSE IF state.whole THEN frames[last] ELSE Seal(frames[last])

\* The Cutter: groups of n records, and what fills none in a frame of its own.
Groups(bytes, n) ==
  LET total == Len(bytes.recs)
      count == (Size(bytes) + n - 1) \div n
  IN [i \in 1..count |->
        [recs |-> SubSeq(bytes.recs, (i - 1) * n + 1, IF i * n <= total THEN i * n ELSE total),
         part |-> bytes.part /\ i = count]]

\* Mistakes: a full last frame is dropped, from the file or from the table, and
\* the result reports every last frame as full.
CutAtLast(state, n) == last - 1
KeptButLast(state, n) == last - 1
AppendResultFull(n, validated, sizes, at, records, whole) ==
  [records_per_frame |-> n, count_validated |-> validated, frame_count |-> Len(sizes),
   last_frame |-> at, last_size |-> sizes[at], last_records |-> n, last_whole |-> whole]

\* Where the file is cut, and how many entries of the old table stay.
CutAt(state, n) == IF PreserveLast(state, n) THEN last ELSE last - 1
KeptFrames(state, n) == last - 1 + (IF PreserveLast(state, n) THEN 1 ELSE 0)

\* What the caller keeps for its next append.
AppendResult(n, validated, sizes, at, records, whole) ==
  [records_per_frame |-> n, count_validated |-> validated, frame_count |-> Len(sizes),
   last_frame |-> at, last_size |-> sizes[at], last_records |-> records, last_whole |-> whole]

\* A fragment is closed only on request, and by a trusted count the last frame
\* may not be overfull.
Joinable(insert, trust, state, n) ==
  /\ state.whole \/ insert
  /\ trust => state.count + (IF state.whole THEN 0 ELSE 1) <= n

\* The documented duties of a caller.  A result may be passed back only to the
\* unchanged file; one whose table differs is to be told apart by the code.  A
\* count is trusted only if all frames before the last hold it.
CallerOfAppend(given, trust, passed) ==
  /\ pc = "idle"
  /\ table # None
  /\ passed # None =>
       \/ fresh
       \/ <<passed.frame_count, passed.last_frame, passed.last_size>>
             # <<Len(frames), last, Size(frames[last])>>
  /\ trust /\ given # None =>
       \A i \in 1..(last - 1) : Count(frames, i) = given /\ ~frames[i].part

AppendRefused(data, insert, given, trust, passed) ==
  /\ CallerOfAppend(given, trust, passed)
  /\ LET previous == Usable(passed, given) IN
     \A n \in RecordsPerFrameToUse(given, trust, previous) :
       data # Empty /\ ~Joinable(insert, trust, LastState(previous), n)
  /\ Refuse

\* Nothing to append: the table and the checks are all there is to report.
AppendNothing(given, trust, passed) ==
  /\ CallerOfAppend(given, trust, passed)
  /\ LET previous  == Usable(passed, given)
         validated == ~trust \/ Validated(previous)
     IN \E n \in RecordsPerFrameToUse(given, trust, previous) :
          prev' = IF previous # None
                  THEN [previous EXCEPT !.records_per_frame = n, !.count_validated = validated]
                  ELSE AppendResult(n, validated, table, last, None, FALSE)
  /\ fresh' = TRUE
  /\ answer' = "ok"
  /\ UNCHANGED <<file, pc, plan, copied>>

AppendRecords(data, insert, given, trust, passed) ==
  /\ CallerOfAppend(given, trust, passed)
  /\ data # Empty
  /\ Size(Contents(frames)) + 1 + Size(data) <= MaxSize
  /\ LET previous == Usable(passed, given)
         state    == LastState(previous)
     IN \E n \in RecordsPerFrameToUse(given, trust, previous) :
          /\ Joinable(insert, trust, state, n)
          /\ LET new   == Groups(Join(TailBytes(state, n), data), n)
                 sizes == SubSeq(table, 1, KeptFrames(state, n)) \o Sizes(new)
             IN Begin([op |-> "append", insert |-> insert, data |-> data],
                      CutAt(state, n), new, sizes,
                      AppendResult(n, ~trust \/ Validated(previous), sizes, Len(sizes),
                                   Count(new, Len(new)), Whole(new[Len(new)])))

-------------------------------------------------------------------------------
(***************************************************************************)
(* append_frames, truncate, copy_range                                     *)
(***************************************************************************)
\* A mistake: frames are copied after a short one.
FramesAfterShort(input, from, cnt, check) ==
  UNION {FrameRange(input, n, from, cnt) : n \in
    {m \in ValidateSeparator(frames) :
       /\ Whole(frames[last])
       /\ m \in RecordsPerFrame(input, "FirstFrame")
       /\ \A range \in FrameRange(input, m, from, cnt) :
            check = "EveryFrame" => CheckRangeUniform(input, m, range)}}

\* The range of an input that can follow the file as it stands, in a set that
\* is empty on refusal.
FramesToAppend(input, from, cnt, check) ==
  UNION {FrameRange(input, n, from, cnt) : n \in
    {m \in ValidateSeparator(frames) :
       /\ Whole(frames[last])
       /\ Count(frames, last) = m
       /\ m \in RecordsPerFrame(input, "FirstFrame")
       /\ \A range \in FrameRange(input, m, from, cnt) :
            check = "EveryFrame" => CheckRangeUniform(input, m, range)}}

\* Reading the count of frame 0 alone rests on an input of one count.
CallerOfFrames(input, check) ==
  /\ pc = "idle"
  /\ table # None
  /\ check = "FirstFrame" => Uniform(input)

FramesRefused(input, from, cnt, check) ==
  /\ CallerOfFrames(input, check)
  /\ FramesToAppend(input, from, cnt, check) = {}
  /\ Refuse

FramesNothing(input, from, cnt, check) ==
  /\ CallerOfFrames(input, check)
  /\ \E range \in FramesToAppend(input, from, cnt, check) : range.first = range.past
  /\ answer' = "ok"
  /\ UNCHANGED <<file, pc, plan, cache, copied>>

\* The records of fs a range stands for: to the end of the file, or so many.  A
\* range that ends with the last record takes the fragment in its frame along.
RangeOf(fs, from, cnt) ==
  LET all == Contents(fs) IN
  [recs |-> SubSeq(all.recs, from + 1,
             IF cnt = None \/ from + cnt > Len(all.recs) THEN Len(all.recs) ELSE from + cnt),
   part |-> /\ all.part
            /\ \/ cnt = None
               \/ from + cnt = Len(all.recs) /\ Count(fs, LastDataFrame(fs)) > 0]

\* A mistake: the table keeps the entries of trailing frames of nothing.
AppendFramesAll(input, from, cnt, check) ==
  /\ CallerOfFrames(input, check)
  /\ \E range \in FramesToAppend(input, from, cnt, check) :
       LET new == SubSeq(input, range.first, range.past - 1) IN
       /\ range.first < range.past
       /\ Size(Contents(frames)) + Size(Contents(new)) <= MaxSize
       /\ Begin([op |-> "append", insert |-> FALSE, data |-> RangeOf(input, from, cnt)],
                last, new, table \o Sizes(new), None)

AppendFrames(input, from, cnt, check) ==
  /\ CallerOfFrames(input, check)
  /\ \E range \in FramesToAppend(input, from, cnt, check) :
       LET new == SubSeq(input, range.first, range.past - 1) IN
       /\ range.first < range.past
       /\ Size(Contents(frames)) + Size(Contents(new)) <= MaxSize
       /\ Begin([op |-> "append", insert |-> FALSE,
                 data |-> RangeOf(input, from, cnt)],
                last, new, SubSeq(table, 1, last) \o Sizes(new), None)

\* A mistake: a length of nothing is let through.
FramesToKeepOrNone(len) ==
  {k \in 0..Len(frames) : \E n \in ValidateSeparator(frames) :
     LET held == Count(frames, Len(frames)) IN
     /\ len = k * n
     /\ len <= n * (Len(frames) - 1) + held
     /\ k >= Len(frames) => held = n}

\* The frames truncate keeps for len records, in a set that is empty on refusal.
FramesToKeep(len) ==
  {k \in 1..Len(frames) : \E n \in ValidateSeparator(frames) :
     LET held == Count(frames, Len(frames)) IN
     /\ len = k * n
     /\ len <= n * (Len(frames) - 1) + held
     /\ k >= Len(frames) => held = n}

TruncateRefused(len) ==
  /\ pc = "idle"
  /\ table # None
  /\ FramesToKeep(len) = {}
  /\ Refuse

Truncate(len) ==
  /\ pc = "idle"
  /\ table # None
  /\ \E k \in FramesToKeep(len) :
       Begin([op |-> "truncate", len |-> len], k, <<>>, SubSeq(table, 1, k), None)

\* A mistake: alignment is not asked for.
FramesToCopyAnyhow(from, cnt, align, check) ==
  UNION {{range \in FrameRange(frames, n, from, cnt) : cnt # 0}
         : n \in RecordsPerFrame(frames, check)}

\* The range copy_range takes, in a set that is empty on refusal.
FramesToCopy(from, cnt, align, check) ==
  UNION {{range \in FrameRange(frames, n, from, cnt) :
            /\ cnt # 0
            /\ range.toEnd /\ align = "Required" => Count(frames, last) = n}
         : n \in RecordsPerFrame(frames, check)}

CopyRefused(from, cnt, align, check) ==
  /\ pc = "idle"
  /\ table # None
  /\ FramesToCopy(from, cnt, align, check) = {}
  /\ Refuse

CopyRange(from, cnt, align, check) ==
  /\ pc = "idle"
  /\ table # None
  /\ \E range \in FramesToCopy(from, cnt, align, check) :
       copied' = [from |-> from, cnt |-> cnt, align |-> align,
                  frames |-> SubSeq(frames, range.first, range.past - 1)]
  /\ answer' = "ok"
  /\ UNCHANGED <<file, pc, plan, cache>>

\* The table cannot be read: every operation says so.
OpenRefused ==
  /\ pc = "idle"
  /\ table = None
  /\ Refuse

-------------------------------------------------------------------------------
(***************************************************************************)
(* What a reader makes of a file (src/src/reader.rs)                       *)
(***************************************************************************)
\* total_records counts the last frame, of nothing or not, and takes the count
\* of frame 0 for all the others.
TotalRecords(fs) == Count(fs, 1) * (Len(fs) - 1) + Size(fs[Len(fs)])

\* records_request: the frame an index is in and the records to skip there.  The
\* fragment of a file whose last frame is as long as the first comes last there.
Placed(fs, i) ==
  LET n     == Count(fs, 1)
      frame == IF i = n * Len(fs) THEN Len(fs) ELSE i \div n + 1
  IN [frame |-> frame, skip |-> i - (frame - 1) * n]

-------------------------------------------------------------------------------
AppendCall ==
  \E insert, trust \in BOOLEAN, given \in Counts \cup {None}, passed \in {None, prev} :
    \/ AppendNothing(given, trust, passed)
    \/ \E data \in Data :
         \/ AppendRecords(data, insert, given, trust, passed)
         \/ AppendRefused(data, insert, given, trust, passed)

Next ==
  \/ "records" \in Operations /\ AppendCall
  \/ "frames" \in Operations /\
       \E input \in Inputs, from \in 0..MaxSize, cnt \in 0..MaxSize \cup {None},
          check \in {"FirstFrame", "EveryFrame"} :
         \/ FramesNothing(input, from, cnt, check)
         \/ AppendFrames(input, from, cnt, check)
         \/ FramesRefused(input, from, cnt, check)
  \/ "truncate" \in Operations /\
       \E len \in 0..MaxSize : Truncate(len) \/ TruncateRefused(len)
  \/ "copy" \in Operations /\
       \E from \in 0..MaxSize, cnt \in 0..MaxSize \cup {None},
          align \in {"Required", "NotRequired"}, check \in {"FirstFrame", "TwoFrames"} :
         CopyRange(from, cnt, align, check) \/ CopyRefused(from, cnt, align, check)
  \/ OpenRefused
  \/ Cut \/ WriteFrame \/ WriteSeekTable \/ Fail

Spec == Init /\ [][Next]_vars
-------------------------------------------------------------------------------
Results == [records_per_frame : Nat \ {0}, count_validated : BOOLEAN,
            frame_count : Nat, last_frame : Nat, last_size : Nat,
            last_records : Nat \cup {None}, last_whole : BOOLEAN]
ASSUME ResultsAssumption == None \notin Results

TypeOK ==
  /\ frames \in Seq(Bytes)
  /\ table \in (Seq(Nat) \ {<<>>}) \cup {None}
  /\ pc \in {"idle", "cut", "write"}
  /\ prev \in Results \cup {None}
  /\ fresh \in BOOLEAN
  /\ answer \in {"none", "ok", "refused", "failed"}

\* Whenever there is a table it is this file's: what was logged entry by entry
\* is what was written frame by frame.
TableDescribesFile == table # None => table = Sizes(frames)

\* The invariant of docs/format.md, "every frame contains exactly the same
\* number of separators, except the final data frame": no sequence of appends
\* (counts given, trusted, cached or read off the file; fragments closed),
\* frame copies and truncations that all go through breaks it.
UniformFile == table # None => Uniform(frames)

\* What the reader makes of it: every record is in the frame and at the place
\* that dividing its index by the count of frame 0 gives, a fragment at the end
\* being the last record, and counting the last frame alone gives the total.  Two
\* things are excepted, both of files whose last frame holds nothing: total_records
\* takes a short data frame for a full one, and a fragment behind a full data frame
\* is looked for in the frame of nothing.
FragmentMislaid(fs, i) ==
  /\ i = Len(Contents(fs).recs)
  /\ Count(fs, LastDataFrame(fs)) = Count(fs, 1)
  /\ LastDataFrame(fs) < Len(fs)
AddressedByDivision ==
  table # None /\ Count(frames, 1) > 0 =>
    LET all == Contents(frames) IN
    /\ Size(frames[Len(frames)]) > 0 => TotalRecords(frames) = Size(all)
    /\ \A i \in 0..(Size(all) - 1) : ~FragmentMislaid(frames, i) =>
         LET place == Placed(frames, i)
             held  == frames[place.frame]
         IN /\ place.frame \in DOMAIN frames
            /\ IF i = Len(all.recs) THEN place.skip = Len(held.recs) /\ held.part
               ELSE place.skip < Len(held.recs) /\ held.recs[place.skip + 1] = all.recs[i + 1]

\* An AppendResult passed back to the unchanged file says nothing of it that is
\* not so, whatever chain of checked, trusted and empty appends it comes from.
Full(fs, n) == \A i \in 1..(LastDataFrame(fs) - 1) : Count(fs, i) = n /\ ~fs[i].part
Tells(result, fs) ==
  LET end == LastDataFrame(fs) IN
  /\ result.frame_count = Len(fs)
  /\ result.last_frame = end
  /\ result.last_size = Size(fs[end])
  /\ result.last_records # None =>
       result.last_records = Count(fs, end) /\ result.last_whole = Whole(fs[end])
  /\ result.count_validated => Full(fs, result.records_per_frame)
CacheIsTrue == prev # None /\ fresh => table # None /\ Tells(prev, frames)

\* "Rewrite nothing before the first byte they affect": however an append is
\* interrupted, all data frames before the last are on disk, and the last one
\* too where it was full or frames are copied after it.
InterruptedAppendKeeps ==
  table = None /\ plan.request.op = "append" =>
    LET old  == plan.before
        end  == LastDataFrame(old)
        full == /\ Whole(old[end])
                /\ plan.result = None \/ plan.result.records_per_frame = Count(old, end)
    IN IsPrefix(SubSeq(old, 1, IF full THEN end ELSE end - 1), frames)

\* A copy holds the range it was asked for, is uniform, and where alignment is
\* required holds the same count in every frame.
CopyIsTheRange ==
  [][copied' # copied =>
       LET copy == copied' IN
       /\ Contents(copy.frames) = RangeOf(frames, copy.from, copy.cnt)
       /\ Uniform(copy.frames)
       /\ copy.align = "Required" =>
            \A i \in DOMAIN copy.frames : Count(copy.frames, i) = Count(frames, 1)]_vars

\* Why: a plan is a uniform file whose table is already drawn up and of which
\* its result tells the truth, what stays of the old file is its beginning, and
\* what has been written is a beginning of it.
Planned ==
  pc # "idle" =>
    /\ plan.target \in Seq(Bytes)
    /\ Uniform(plan.target)
    /\ plan.log = Sizes(plan.target)
    /\ plan.cut \in 0..Len(plan.target)
    /\ plan.result # None => plan.result \in Results /\ Tells(plan.result, plan.target)
OnDisk ==
  /\ pc = "cut" => /\ table # None
                   /\ plan.cut <= Len(frames)
                   /\ SubSeq(frames, 1, plan.cut) = SubSeq(plan.target, 1, plan.cut)
  /\ pc = "write" => /\ table = None
                     /\ Len(frames) <= Len(plan.target)
                     /\ frames = SubSeq(plan.target, 1, Len(frames))
EditInv ==
  /\ TableDescribesFile
  /\ UniformFile
  /\ CacheIsTrue
  /\ Planned
  /\ OnDisk

\* What a caller may ask for.
Requests ==
  [op : {"truncate"}, len : Nat] \cup [op : {"append"}, insert : BOOLEAN, data : Bytes]
ASSUME RequestsAssumption == None \notin Requests

\* Each operation changes the records by its effect in one step or not at all;
\* none is lost, repeated, reordered or merged with its neighbour.
Log == INSTANCE RecordLog WITH
  Initial  <- {Contents(fs) : fs \in Files},
  value    <- IF table = None THEN Contents(plan.before) ELSE Contents(frames),
  readable <- pc # "idle" \/ table # None,
  request  <- IF pc = "idle" THEN None ELSE plan.request
EditsAreAtomic == Log!Spec
===============================================================================
