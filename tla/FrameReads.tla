------------------------------- MODULE FrameReads ------------------------------
(***************************************************************************)
(* Readers of any file, whether or not it keeps the invariant of           *)
(* docs/format.md (src/src/reader.rs): ones that verify the frames they    *)
(* walk and ones that do not, opened on the whole file or sharing another  *)
(* reader's file from a frame on.  A reader places its reads by the count  *)
(* of frame 0.                                                             *)
(***************************************************************************)
EXTENDS RecordWindow

CONSTANTS
  Limit,      \* u32::MAX, what one frame of a seek table may hold
  Kinds,      \* the ways readers are opened
  MaxIndex,   \* a bound on the indices that callers ask for
  MaxCount    \* and on how many records they ask for

\* plain and verifying readers of the whole file, and sharing ones.
AllKinds == [shares : BOOLEAN, verifies : BOOLEAN]
ASSUME FrameReadsAssumption ==
  Kinds \subseteq AllKinds /\ MaxIndex \in Nat /\ MaxCount \in Nat /\ Limit \in Nat \ {0}

VARIABLES
  asked   \* the call that was made last: its name and arguments, and as history
          \* whether the window was behind a final record that has no end

vars == <<windowVars, asked>>

NoCall == [name |-> "none", from |-> 0, cnt |-> 0, again |-> FALSE]

--------------------------------------------------------------------------------
\* Opening.

\* open_from_frame: the frames from f on, in groups as large as a seek table of
\* their own can describe them; one group if it can describe all.
GroupSize(i, f) ==
  LET sizes == {i.frames[g] - (IF g = 1 THEN 0 ELSE i.frames[g - 1]) : g \in DOMAIN i.frames}
  IN  IF i.frames[Len(i.frames)] - (IF f = 1 THEN 0 ELSE i.frames[f - 1]) <= Limit
      THEN Len(i.frames) - f + 1
      ELSE Max({1, Limit \div Max(sizes)})

Groups(i, f) ==
  LET base == IF f = 1 THEN 0 ELSE i.frames[f - 1]
      size == GroupSize(i, f)
      endOf(g) == i.frames[Min({f - 1 + g * size, Len(i.frames)})] - base
  IN  [g \in 1 .. (Len(i.frames) - f + size) \div size |->
        [start |-> IF g = 1 THEN 0 ELSE endOf(g - 1), end |-> endOf(g)]]

Sharing(i, f) ==
  [base |-> IF f = 1 THEN 0 ELSE i.frames[f - 1], guard |-> FrameEnds(i),
   frames |-> Groups(i, f), sepCnt |-> PerFrame(i) * GroupSize(i, f), judge |-> NoJudge]

\* verifying: the judge counts physical frames from the reader's first.  The
\* guard is only kept by a reader that shares.
Verifying(i, r, f, shares) ==
  [r EXCEPT !.guard = IF shares THEN @ ELSE <<>>,
            !.judge = [verifies |-> TRUE, shares |-> shares, first |-> f, last |-> Len(i.frames) - f,
                       perFrame |-> PerFrame(i)]]

Opened(i, kind, f) ==
  LET r == IF kind.shares THEN Sharing(i, f) ELSE Whole(i)
  IN  IF kind.verifies THEN Verifying(i, r, f, kind.shares) ELSE r

\* from_reader refuses a file in whose frame 0 no record ends.
Init ==
  /\ input \in {i \in Inputs : PerFrame(i) > 0}
  /\ \E kind \in Kinds, f \in DOMAIN input.frames :
       /\ kind.shares \/ f = 1
       /\ OpenedAt(Opened(input, kind, f))
  /\ asked = NoCall

--------------------------------------------------------------------------------
\* Placing a read by division.

Frames == Len(reader.frames)
Slots == reader.sepCnt * Frames
First(from) == IF from = Slots THEN Frames ELSE from \div reader.sepCnt + 1
\* A mistake: a range ends in the frame that its first record is in.
LastAsFirst(from, cnt) == Min({from \div reader.sepCnt + 1, Frames})
Last(from, cnt) == Min({(from + cnt + 1) \div reader.sepCnt + 1, Frames})
Skipped(from) == from - (First(from) - 1) * reader.sepCnt

\* final_slot_is_tail walks the last frame: whether it can, and whether a record
\* with no end follows as many as every frame holds.
LastSpan == reader.frames[Frames]
ProbeFails ==
  \E g \in DOMAIN reader.guard :
    /\ reader.base + LastSpan.start < reader.guard[g]
    /\ reader.guard[g] <= reader.base + LastSpan.end
    /\ reader.guard[g] \notin input.ends
FinalSlotIsTail ==
  /\ input.separated /\ ~ProbeFails
  /\ Cardinality(EndsIn(reader.base + LastSpan.start, Bytes)) = reader.sepCnt
  /\ Bytes \notin input.ends
PastEnd(from) == from > Slots \/ (from = Slots /\ ~FinalSlotIsTail)

\* What a read that is not placed answers.  One of the slot behind all full
\* frames has walked the last frame to tell.
NotPlaced(from, answer) ==
  /\ ~call.busy /\ PastEnd(from)
  /\ got' = IF from = Slots /\ input.separated /\ ProbeFails THEN Refused ELSE answer
  /\ UNCHANGED <<input, reader, window, call>>

\* record and records_to take the note back before they walk it, so that the next
\* call points the window anew.
Unplaced(from, answer) ==
  /\ NotPlaced(from, answer)
  /\ frame' = IF from = Slots THEN 0 ELSE frame

\* An iterator does not (position_iter_span): the note goes stale if there is
\* one, which is shown by Reader and kept out here.
Unbegun(from) ==
  /\ NotPlaced(from, Refused)
  /\ from = Slots /\ input.separated => frame = 0
  /\ UNCHANGED frame

\* A lookup has handed out the final record, which has no end, and the window has
\* been left behind it since.
BehindTail ==
  \/ /\ asked.name = "record" /\ got \notin {Refused, <<>>}
     /\ got[1][2] \notin input.ends
  \/ asked.again /\ got \in {Refused, <<>>}

\* frame_ends_from: of frames in the order of their ends, as many as end by upto.
FramesBy(upto) == Cardinality({f \in DOMAIN input.frames : input.frames[f] <= upto})

\* watch_span: the frames that end in the span, the read having been placed by
\* record from.
WatchSpan(from, first, upto) ==
  IF from \div reader.sepCnt >= Frames THEN NoWatch
  ELSE [NoWatch EXCEPT !.at = SubSeq(input.frames, first, FramesBy(upto)), !.first = first - 1]

\* watch_verified_span, of a reader that shares: the physical frames that do,
\* the first of them numbered from the reader's first.
\* A mistake: from the file's first.
PhysicalOfFile(start) ==
  Cardinality({g \in DOMAIN FrameEnds(input) : input.frames[g] <= start})
EndedBefore(start) ==
  Cardinality({g \in DOMAIN FrameEnds(input) : input.frames[g] <= start})
Physical(start) == EndedBefore(start) - (reader.judge.first - 1)
WatchPhysical(start, upto) ==
  [NoWatch EXCEPT !.at = SubSeq(input.frames, EndedBefore(start) + 1, FramesBy(upto)),
                  !.first = Physical(start)]

Watched(from, first, last) ==
  LET start == reader.base + reader.frames[first].start
      upto == reader.base + reader.frames[last].end
  IN  IF ~reader.judge.verifies THEN NoWatch
      ELSE IF reader.judge.shares THEN WatchPhysical(start, upto)
      ELSE WatchSpan(from, first, upto)

\* records_to.
RecordsTo(from, cnt) ==
  /\ \/ Unplaced(from, Refused)
     \/ /\ ~PastEnd(from)
        /\ ReadSpan(First(from), Last(from, cnt), Skipped(from), cnt,
                    Watched(from, First(from), Last(from, cnt)))
  /\ asked' = [name |-> "records_to", from |-> from, cnt |-> cnt,
               again |-> from > Slots /\ BehindTail]

\* records_from and into_records_from, taken from until they end.
RecordsFrom(from) ==
  /\ \/ Unbegun(from)
     \/ /\ ~PastEnd(from)
        /\ ReadSpan(First(from), Frames, Skipped(from), Bytes + 1,
                    Watched(from, First(from), Frames))
  /\ asked' = [name |-> "records_from", from |-> from, cnt |-> Bytes + 1,
               again |-> PastEnd(from) /\ BehindTail]

\* record.  The slot behind all full frames is looked up with no note.
Record(index) ==
  /\ \/ Unplaced(index, <<>>)
     \/ /\ ~PastEnd(index)
        /\ LookUp(First(index), Skipped(index), IF index = Slots THEN 0 ELSE frame)
  /\ asked' = [name |-> "record", from |-> index, cnt |-> 1,
               again |-> index # Slots /\ BehindTail]

Next ==
  \/ \E from \in 0 .. MaxIndex, cnt \in 0 .. MaxCount : RecordsTo(from, cnt)
  \/ \E from \in 0 .. MaxIndex : RecordsFrom(from)
  \/ \E index \in 0 .. MaxIndex : Record(index)
  \/ Step /\ UNCHANGED asked

Spec == Init /\ [][Next]_vars

--------------------------------------------------------------------------------
\* What the calls ought to answer.

Answered == ~call.busy /\ asked # NoCall

\* The records of the frames a reader reads, the last one perhaps with no end.
Present ==
  Records(reader.base, Bytes) \o
  IF input.separated /\ Bytes \notin input.ends
  THEN <<<<Max({reader.base} \cup EndsIn(reader.base, Bytes)), Bytes>>>> ELSE <<>>

FrameStart(f) == IF f = 1 THEN 0 ELSE input.frames[f - 1]
EndsWhole(f) == input.frames[f] \in input.ends
HeldIn(f) == Cardinality(EndsIn(FrameStart(f), input.frames[f]))
IsLast(f) == f = Len(input.frames)

\* docs/format.md.
Even(f) ==
  IF IsLast(f) THEN HeldIn(f) <= PerFrame(input)
  ELSE HeldIn(f) = PerFrame(input) /\ EndsWhole(f)
Intact == \A f \in DOMAIN input.frames : Even(f)

\* A file that keeps the invariant is read right however the reader was opened,
\* and verifying it refuses nothing: each call answers the records of these
\* numbers, counted from the frame the reader begins at.  Only of a final record
\* that has no end and that a lookup has just handed out may a lookup find nothing
\* (see RecordIsTrue in Reader).  Where a lookup finds nothing, a verifying reader
\* that shares a file from a frame on may refuse it, as it judges the group of
\* frames that ran out as if it were one.
IntactIsRead ==
  Answered /\ Intact =>
    LET total == Len(Present)
        fragment == ~input.separated /\ Bytes \notin input.ends
        upto == Min({asked.from + asked.cnt, total})
    IN  \/ /\ asked.from < total
           /\ got = SubSeq(Present, asked.from + 1, upto)
        \/ /\ asked.from + asked.cnt > total /\ fragment
           /\ got = Refused
        \/ /\ asked.from >= total
           /\ got = <<>> \/ (asked.name # "record" /\ got = Refused)
        \/ /\ asked.name = "record" /\ asked.from = total - 1 /\ asked.again
           /\ Bytes \notin input.ends
           /\ got = <<>>
        \/ /\ asked.name = "record"
           /\ \/ asked.from >= total
              \/ asked.from = total - 1 /\ asked.again /\ Bytes \notin input.ends
           /\ reader.judge.verifies /\ reader.judge.shares
           /\ got = Refused

\* A verifying read that was answered has walked past no frame whose count is
\* another than frame 0's, or that holds bytes after its last record, but for a
\* last frame that may: wherever runs end, whatever is handed out at once.  A read
\* whose last record is a fragment is excepted, as that is handed out unjudged.
LastHandedOut == got[Len(got)][2]
PlacedAt == reader.base + reader.frames[First(asked.from)].start
WalkedPast(f) ==
  PlacedAt <= FrameStart(f) /\ PlacedAt < input.frames[f] /\ input.frames[f] <= LastHandedOut
VerifiedRead ==
  Answered /\ reader.judge.verifies /\ asked.name # "record" /\ got \notin {Refused, <<>>}
WalkedIsEven ==
  VerifiedRead /\ LastHandedOut \in input.ends =>
    \A f \in DOMAIN input.frames : WalkedPast(f) => Even(f)

\* No record handed out lies across the end of a frame but the last
\* (record.rs:469, "incomplete record at nonfinal frame boundary"); but a
\* reader of the whole file that verifies may hand out a fragment that does.
NoRecordCrossesAFrame ==
  got # Refused =>
    \A r \in DOMAIN got, f \in DOMAIN FrameEnds(input) :
      got[r][1] < input.frames[f] /\ input.frames[f] < got[r][2] =>
        reader.guard = <<>> /\ got[r][2] \notin input.ends
================================================================================
