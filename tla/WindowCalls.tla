------------------------------ MODULE WindowCalls ------------------------------
(***************************************************************************)
(* Every sequence of the calls a reader makes of its window, on files that *)
(* keep the invariant of docs/format.md, and what the window is at the     *)
(* granularity of records.                                                 *)
(***************************************************************************)
EXTENDS RecordWindow

CONSTANTS
  MaxSkip,   \* a bound on the records a call passes
  MaxLeft    \* and on those it asks for

\* Each frame but the last ends where a record does, and the first holds one.
ASSUME FramesAssumption ==
  \A i \in Inputs : /\ PerFrame(i) > 0
                    /\ \A f \in DOMAIN i.frames : f # Len(i.frames) => i.frames[f] \in i.ends

VARIABLES
  span,   \* the frames the window is over
  left    \* the window as the last call left it, by record, and the note

vars == <<windowVars, span, left>>

\* By record: how many ends come before the end of each frame.
Count(upto) == Cardinality(EndsIn(0, upto))
FileOf(i) ==
  [ends |-> [f \in DOMAIN i.frames |-> Cardinality({e \in i.ends : e <= i.frames[f]})],
   part |-> i.frames[Len(i.frames)] \notin i.ends,
   separated |-> i.separated]

\* What was handed out by number, where it is one record from its start to its
\* end; a fragment has the number after all others.
NotARecord == -1
NumberOf(r) ==
  IF \/ EndsIn(r[1], r[2]) = {r[2]}
     \/ r[2] = Bytes /\ Bytes \notin input.ends /\ EndsIn(r[1], r[2]) = {}
  THEN IF r[1] \in input.ends \cup {0} THEN Count(r[1]) ELSE NotARecord
  ELSE NotARecord
Numbers(answer) ==
  IF answer = Refused THEN Refused ELSE [i \in DOMAIN answer |-> NumberOf(answer[i])]

\* The window by record.  A fragment was taken where nothing is left of it.
ByRecord(w, s) ==
  [first |-> s.first, last |-> s.last, walked |-> w.walked, front |-> w.front,
   eof |-> w.eof,
   taken |-> /\ w.eof /\ w.pos = w.filled /\ s.last = Len(input.frames)
             /\ Bytes \notin input.ends]

NoSpan == [first |-> 1, last |-> 1]
Left(w, s, f, answer) == [window |-> ByRecord(w, s), frame |-> f, got |-> Numbers(answer)]

Init ==
  /\ input \in Inputs
  /\ OpenedAt(Whole(input))
  /\ span = NoSpan
  /\ left = Left(window, span, frame, got)

LookUpRecord ==
  /\ \E f \in DOMAIN input.frames, index \in 0 .. MaxSkip :
       LookUp(f, index, frame) /\ span' = [first |-> f, last |-> f]
  /\ UNCHANGED left

ReadFrames ==
  /\ \E first, last \in DOMAIN input.frames, skip \in 0 .. MaxSkip, n \in 0 .. MaxLeft :
       /\ first <= last
       /\ ReadSpan(first, last, skip, n, NoWatch)
       /\ span' = [first |-> first, last |-> last]
  /\ UNCHANGED left

ReadOn ==
  /\ window.limit > 0
  /\ \E n \in 0 .. MaxLeft : GoOn(n, span.last = Len(input.frames))
  /\ UNCHANGED <<span, left>>

\* The state a call leaves is what the next one finds.
StepOfCall ==
  /\ Step
  /\ left' = IF call'.busy THEN left ELSE Left(window', span, frame', got')
  /\ UNCHANGED span

Next == LookUpRecord \/ ReadFrames \/ ReadOn \/ StepOfCall

Spec == Init /\ [][Next]_vars

\* A call runs on its caller's thread to its end, and every read of it returns.
FairSpec == Spec /\ WF_vars(StepOfCall)

--------------------------------------------------------------------------------
\* The window hands out the records of the file, in order, whatever each read
\* brings in, however often the buffer slides and grows, and wherever calls
\* before it have left it: it implements the window of Lookup.
Calls ==
  INSTANCE RecordSpan WITH
    Files <- {FileOf(i) : i \in Inputs}, file <- FileOf(input),
    window <- left.window, frame <- left.frame, got <- left.got
ImplementsLookup == Calls!Spec

\* Every call returns.
CallsReturn == call.busy ~> ~call.busy
================================================================================
