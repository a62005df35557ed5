--------------------------------- MODULE Reader --------------------------------
(***************************************************************************)
(* A record reader (src/src/reader.rs): the calls that share one Lookup,   *)
(* and the two iterators, which borrow it (records_from) or take it for    *)
(* good (into_records_from).                                               *)
(***************************************************************************)
EXTENDS Lookup

CONSTANTS
  MaxIndex,    \* a bound on the indices that callers ask for
  MaxCount,    \* and on how many records they ask for
  PastTheEnd   \* whether a borrowed iterator is begun right behind all full frames

ASSUME ReaderAssumption ==
  MaxIndex \in Nat /\ MaxCount \in Nat /\ PastTheEnd \in BOOLEAN

\* docs/format.md: every frame holds the same number of records, the last one
\* that many or fewer.
ASSUME UniformAssumption ==
  \A f \in Files :
    /\ \A i \in 1 .. Len(f.ends) - 1 : f.ends[i] = i * f.ends[1]
    /\ f.ends[Len(f.ends)] \in (Len(f.ends) - 1) * f.ends[1] .. Len(f.ends) * f.ends[1]

VARIABLES
  answer,   \* the last call answered: its name, arguments and result
  iter,     \* the iterator there is, if any
  handed    \* history: whether record has handed out an unterminated last record,
            \* and nothing was read since

vars == <<file, window, frame, answer, iter, handed>>

\* The kinds of iterator and the phases of a call of next_back.
None == "none"
Borrowed == "borrowed"
Owned == "owned"
Idle == "idle"
Back == "back"

\* back_left before the frame is counted.
Uncounted == -1

Iter(kind, from) ==
  [kind |-> kind, front |-> from, backFrame |-> LastFrame, backLeft |-> Uncounted,
   armed |-> FALSE, spent |-> FALSE, call |-> Idle, item |-> <<>>]
NoIter ==
  [kind |-> None, front |-> 0, backFrame |-> 1, backLeft |-> Uncounted,
   armed |-> FALSE, spent |-> FALSE, call |-> Idle, item |-> <<>>]

\* again: whether a lookup asks for the record that was just handed out.
Called(name, from, cnt, got) ==
  [call |-> name, from |-> from, cnt |-> cnt, got |-> got, again |-> FALSE]
NoAnswer == Called(None, 0, 0, <<>>)

--------------------------------------------------------------------------------
\* Placing a read by division.

Slots == PerFrame * LastFrame
FrameOf(i) == i \div PerFrame + 1

\* final_slot_is_tail: whether the number behind all full frames is that of an
\* unterminated record; and the window it leaves, having read the last frame.
FinalSlotIsTail ==
  /\ TailIsRecord
  /\ file.ends[LastFrame] - StartOf(LastFrame) = PerFrame
  /\ file.part
Probed(w, from) ==
  IF from = Slots /\ TailIsRecord THEN RunOut(Point(LastFrame, LastFrame)) ELSE w

\* No read begins here.
PastEnd(from) ==
  \/ from = Slots /\ ~FinalSlotIsTail
  \/ from > Slots

\* records_request: the frames that cnt records from from may lie in, and how
\* many records come before them.
FirstFrame(from) == IF from = Slots THEN LastFrame ELSE FrameOf(from)
Skipped(from) == from - (FirstFrame(from) - 1) * PerFrame
\* A mistake: a range ends where its first frame does.
FrameReachedFirst(from, cnt) == FirstFrame(from)
FrameReached(from, cnt) ==
  IF FrameOf(from + cnt + 1) < LastFrame THEN FrameOf(from + cnt + 1) ELSE LastFrame
Span(from, cnt) == Point(FirstFrame(from), FrameReached(from, cnt))
SpanToEnd(from) == Point(FirstFrame(from), LastFrame)

--------------------------------------------------------------------------------
\* Calls of the reader itself.

LookedUp(i, got) ==
  [Called("record", i, 1, got) EXCEPT !.again = handed /\ i = Records /\ i # Slots]

\* record: on from where the last lookup left the window if that will do.
Record(i) ==
  /\ iter = NoIter
  /\ \/ /\ PastEnd(i)
        /\ window' = Probed(window, i)
        /\ frame' = IF i = Slots THEN 0 ELSE frame
        /\ answer' = LookedUp(i, <<>>)
     \/ /\ ~PastEnd(i)
        /\ LET f == FirstFrame(i)
               at == IF i = Slots
                     THEN [window |-> Point(f, f), skip |-> Skipped(i)]
                     ELSE WalkTo(f, Skipped(i))
           IN  /\ \E read \in Read(at.window, at.skip, 1, <<>>) :
                    /\ window' = read.window
                    /\ answer' = LookedUp(i, read.got)
               /\ frame' = f
  /\ handed' = \/ answer'.got = <<Records>>
               \/ handed /\ i # Slots /\ answer'.got = <<>>
  /\ UNCHANGED <<file, iter>>

\* records_to, and records that gathers what it writes.
RecordsTo(from, cnt) ==
  /\ iter = NoIter
  /\ \/ /\ PastEnd(from)
        /\ window' = Probed(window, from)
        /\ frame' = IF from = Slots THEN 0 ELSE frame
        /\ answer' = Called("records_to", from, cnt, Refused)
     \/ /\ ~PastEnd(from)
        /\ \E read \in Read(Span(from, cnt), Skipped(from), cnt, Refused) :
             /\ window' = read.window
             /\ answer' = Called("records_to", from, cnt, read.got)
        /\ frame' = 0
  /\ handed' = (handed /\ from > Slots)
  /\ UNCHANGED <<file, iter>>

\* fold_records: as records_to, but the slot behind all full frames is read for
\* without asking whether anything is there.
FoldRecords(from, cnt) ==
  /\ iter = NoIter
  /\ \/ /\ from > Slots
        /\ answer' = Called("fold_records", from, cnt, Refused)
        /\ UNCHANGED <<window, frame>>
     \/ /\ from <= Slots
        /\ \E read \in Read(Span(from, cnt), Skipped(from), cnt, Refused) :
             /\ window' = read.window
             /\ answer' = Called("fold_records", from, cnt, read.got)
        /\ frame' = 0
  /\ handed' = (handed /\ from > Slots)
  /\ UNCHANGED <<file, iter>>

\* A mistake: the note is left as it was.
TotalRecordsNoted ==
  /\ iter = NoIter
  /\ \E read \in ReadAll(Point(LastFrame, LastFrame)) : window' = read.window
  /\ UNCHANGED <<file, frame, answer, iter, handed>>

\* total_records: all frames but the last hold PerFrame, the last is counted.
TotalRecords ==
  /\ iter = NoIter
  /\ \E read \in ReadAll(Point(LastFrame, LastFrame)) :
       /\ window' = read.window
       /\ answer' = Called("total_records", 0, 0,
                           IF read.got = Refused THEN Refused
                           ELSE <<PerFrame * (LastFrame - 1) + Len(read.got)>>)
  /\ frame' = 0
  /\ handed' = FALSE
  /\ UNCHANGED <<file, iter>>

--------------------------------------------------------------------------------
\* Iterators.  Nothing is read before the first item is asked for.

RecordsFrom(from) ==
  /\ iter = NoIter
  /\ PastTheEnd \/ from # Slots \/ FinalSlotIsTail
  /\ iter' = Iter(Borrowed, from)
  /\ answer' = NoAnswer
  /\ UNCHANGED <<file, window, frame, handed>>

IntoRecordsFrom(from) ==
  /\ iter = NoIter
  /\ iter' = Iter(Owned, from)
  /\ answer' = NoAnswer
  /\ UNCHANGED <<file, window, frame, handed>>

\* A mistake: the directions meet one record too late.
MetTooLate ==
  /\ iter.backLeft # Uncounted
  /\ iter.front > (iter.backFrame - 1) * PerFrame + iter.backLeft

\* The first record a reverse read has handed out (met_the_reverse_read), where
\* it knows.
MetTheReverseRead ==
  /\ iter.backLeft # Uncounted
  /\ iter.front >= (iter.backFrame - 1) * PerFrame + iter.backLeft

\* One item, none, or an error; the last two are for good, and whether the
\* window is armed is of no interest after them.
Give(got) ==
  iter' = [iter EXCEPT !.item = got, !.call = Idle, !.armed = TRUE,
                       !.front = IF got \in {<<>>, Refused} THEN @ ELSE @ + 1,
                       !.spent = got \in {<<>>, Refused}]

\* next of RecordIter and of BorrowedRecordIter, from a window w noted to be at
\* frame f.  The borrowed one never goes backwards and so is armed but once.
Forward(w, f) ==
  \/ /\ iter.spent \/ MetTheReverseRead
     /\ iter' = [iter EXCEPT !.item = <<>>, !.call = Idle]
     /\ window' = w /\ frame' = f
  \/ /\ ~iter.spent /\ ~MetTheReverseRead
     /\ ~iter.armed /\ PastEnd(iter.front)
     /\ Give(Refused)
     /\ window' = Probed(w, iter.front) /\ frame' = f
  \/ /\ ~iter.spent /\ ~MetTheReverseRead
     /\ ~iter.armed /\ ~PastEnd(iter.front)
     /\ \E read \in Read(SpanToEnd(iter.front), Skipped(iter.front), 1, Refused) :
          Give(read.got) /\ window' = read.window
     /\ frame' = 0
  \/ /\ ~iter.spent /\ ~MetTheReverseRead
     /\ iter.armed
     /\ \E read \in HandOut(w, 1) : Give(read.got) /\ window' = read.window
     /\ frame' = f

NextItem ==
  /\ iter.kind # None /\ iter.call = Idle
  /\ Forward(window, frame)
  /\ handed' = (handed /\ (iter.spent \/ PastEnd(iter.front)))
  /\ UNCHANGED <<file, answer>>

\* next_back.  Its loop, which may count several frames, takes a step for each
\* turn; nothing else happens to the reader meanwhile.
NextBack ==
  /\ iter.kind = Owned /\ iter.call = Idle
  /\ iter' = IF iter.spent THEN [iter EXCEPT !.armed = FALSE, !.item = <<>>]
             ELSE [iter EXCEPT !.armed = FALSE, !.call = Back]
  /\ UNCHANGED <<file, window, frame, answer, handed>>

\* count_frame, all of the frame's records; a start behind them is for the
\* forward walk to refuse.
CountFrame ==
  /\ iter.call = Back /\ iter.backLeft = Uncounted
  /\ \E read \in ReadAll(WalkTo(iter.backFrame, 0).window) :
       IF read.got = Refused
       THEN /\ Give(Refused)
            /\ window' = read.window
            /\ frame' = iter.backFrame
       ELSE IF /\ iter.backFrame = LastFrame
               /\ iter.front > (LastFrame - 1) * PerFrame + Len(read.got)
       THEN Forward(read.window, 0)
       ELSE /\ iter' = [iter EXCEPT !.backLeft = Len(read.got)]
            /\ window' = read.window
            /\ frame' = 0
  /\ UNCHANGED <<file, answer, handed>>

\* A mistake: the frame is counted again instead of the one before.
FrameAgain ==
  /\ iter.call = Back /\ iter.backLeft = 0
  /\ iter' = IF iter.backFrame = 1
             THEN [iter EXCEPT !.spent = TRUE, !.item = <<>>, !.call = Idle]
             ELSE [iter EXCEPT !.backLeft = Uncounted]
  /\ UNCHANGED <<file, window, frame, answer, handed>>

\* A mistake: there is always a frame before.
FrameBeforeFirst ==
  /\ iter.call = Back /\ iter.backLeft = 0
  /\ iter' = [iter EXCEPT !.backFrame = @ - 1, !.backLeft = Uncounted]
  /\ UNCHANGED <<file, window, frame, answer, handed>>

\* On to the frame before, if there is one.
FrameBefore ==
  /\ iter.call = Back /\ iter.backLeft = 0
  /\ iter' = IF iter.backFrame = 1
             THEN [iter EXCEPT !.spent = TRUE, !.item = <<>>, !.call = Idle]
             ELSE [iter EXCEPT !.backFrame = @ - 1, !.backLeft = Uncounted]
  /\ UNCHANGED <<file, window, frame, answer, handed>>

\* The last record left of the counted frame, unless the forward read has had it.
GiveBack ==
  /\ iter.call = Back /\ iter.backLeft > 0
  /\ LET index == iter.backLeft - 1
         at == WalkTo(iter.backFrame, index)
     IN  \/ /\ (iter.backFrame - 1) * PerFrame + index < iter.front
            /\ iter' = [iter EXCEPT !.spent = TRUE, !.item = <<>>, !.call = Idle]
            /\ UNCHANGED <<window, frame>>
         \/ /\ (iter.backFrame - 1) * PerFrame + index >= iter.front
            /\ \E read \in Read(at.window, at.skip, 1, Refused) :
                 /\ window' = read.window
                 /\ iter' = IF read.got = Refused
                            THEN [iter EXCEPT !.item = Refused, !.spent = TRUE, !.call = Idle]
                            ELSE IF read.got = <<>>
                            THEN [iter EXCEPT !.backLeft = index]
                            ELSE [iter EXCEPT !.item = read.got, !.backLeft = index,
                                              !.call = Idle]
            /\ frame' = iter.backFrame
  /\ UNCHANGED <<file, answer, handed>>

\* A borrowed iterator gives the reader back.
DropIter ==
  /\ iter.kind = Borrowed
  /\ iter' = NoIter
  /\ UNCHANGED <<file, window, frame, answer, handed>>

--------------------------------------------------------------------------------

Init ==
  /\ LookupInit
  /\ answer = NoAnswer
  /\ iter = NoIter
  /\ handed = FALSE

Next ==
  \/ \E i \in 0..MaxIndex : Record(i) \/ RecordsFrom(i) \/ IntoRecordsFrom(i)
  \/ \E i \in 0..MaxIndex, cnt \in 0..MaxCount : RecordsTo(i, cnt) \/ FoldRecords(i, cnt)
  \/ TotalRecords
  \/ NextItem \/ NextBack \/ CountFrame \/ FrameBefore \/ GiveBack
  \/ DropIter

Spec == Init /\ [][Next]_vars

\* next_back is a loop on the caller's thread.
FairSpec == Spec /\ WF_vars(CountFrame) /\ WF_vars(FrameBefore) /\ WF_vars(GiveBack)

--------------------------------------------------------------------------------
\* What the calls ought to answer, whatever was called before.

Length == IF TailIsRecord /\ file.part THEN Records + 1 ELSE Records
Complete == TailIsRecord \/ ~file.part
Upto(i) == IF i < Length THEN i ELSE Length

\* Types, and bounds that tie the window to the file.
TypeOK ==
  /\ file \in Files
  /\ window.first \in 1..LastFrame /\ window.last \in window.first..LastFrame
  /\ window.walked \in 0 .. file.ends[window.last] - StartOf(window.first)
  /\ window.front \in 0 .. window.walked
  /\ window.eof \in BOOLEAN /\ window.taken \in BOOLEAN
  /\ frame \in 0..LastFrame
  /\ answer.got = Refused \/ answer.got \in Seq(Nat)
  /\ iter.kind \in {None, Borrowed, Owned}
  /\ iter.front \in Nat
  /\ iter.backFrame \in 1..LastFrame
  /\ iter.backLeft \in 0 .. PerFrame + 1 \cup {Uncounted}
  /\ iter.armed \in BOOLEAN /\ iter.spent \in BOOLEAN
  /\ iter.call \in {Idle, Back}
  /\ iter.item = Refused \/ iter.item \in Seq(Nat)

\* Lookup.frame is never stale: while it names a frame, that is the one the
\* window reads, whole records of which have been walked (Lookup::walk_to goes
\* on from there).  A refused owned iterator may leave it so: nothing reads after.
WindowIsNoted ==
  frame # 0 /\ ~(iter.kind = Owned /\ iter.spent) => window.first = frame /\ window.last = frame

\* record hands out the record of that number, and says None where there is
\* none.  Of a record that is there it says None in one case: an unterminated
\* one asked for again right after it was handed out, for which no record was
\* walked past, so that the window has nothing to go back to.  Not where it
\* follows a full last frame, which is pointed at anew each time.
RecordIsTrue ==
  answer.call = "record" =>
    LET i == answer.from IN
    IF i < Length THEN answer.got = IF answer.again THEN <<>> ELSE <<i>>
    ELSE answer.got = <<>> \/ (answer.got = Refused /\ ~Complete)

\* A range read hands out the records asked for as far as there are any; it may
\* refuse to begin at the end, or to meet a fragment that is no record.
RangeIsTrue ==
  answer.call \in {"records_to", "fold_records"} =>
    \/ answer.got = [k \in 1 .. Upto(answer.from + answer.cnt) - Upto(answer.from)
                       |-> answer.from + k - 1]
    \/ /\ answer.got = Refused
       /\ answer.from >= Length \/ (~Complete /\ answer.from + answer.cnt > Length)

\* total_records counts what the other calls can hand out.
TotalIsTrue ==
  answer.call = "total_records" =>
    answer.got = IF Complete THEN <<Length>> ELSE Refused

\* A last frame that holds an unterminated record and nothing else: once record
\* has handed that out, an iterator that starts from its back loses it.
LoneTail(f) ==
  /\ f.part /\ f.separated
  /\ Len(f.ends) > 1 /\ f.ends[Len(f.ends)] = f.ends[Len(f.ends) - 1]

\* Both iterators are queues of what is left between the two directions: each
\* record once, in order, none skipped where they meet.
Queue ==
  INSTANCE RecordQueue WITH
    length <- Length, complete <- Complete,
    lo <- iter.front,
    hi <- IF iter.kind = None THEN 0
          ELSE IF iter.backLeft # Uncounted
          THEN (iter.backFrame - 1) * PerFrame + iter.backLeft
          ELSE IF iter.backFrame = LastFrame THEN Length
          ELSE iter.backFrame * PerFrame,
    open <- iter.kind # None /\ ~iter.spent,
    item <- iter.item
IteratorIsAQueue == Queue!Spec

\* next_back returns, however many frames of nothing it passes.
BackReturns == iter.call = Back ~> iter.call = Idle

================================================================================
