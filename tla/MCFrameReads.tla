------------------------------ MODULE MCFrameReads -----------------------------
EXTENDS FrameReads

\* All files of up to three bytes in two or three frames, and longer ones that
\* keep the invariant, that hold too many or too few records in a frame, frames
\* of nothing, and records that lie across the end of a frame.
Frames3 == {<<a, b, c>> : a, b, c \in 1 .. 3} \cup {<<a, b>> : a, b \in 1 .. 3}
Small ==
  {s \in [ends : SUBSET (1 .. 3), frames : Frames3] :
    /\ \A f \in 2 .. Len(s.frames) : s.frames[f - 1] <= s.frames[f]
    /\ \A e \in s.ends : e <= s.frames[Len(s.frames)]}
Shapes ==
  {[ends |-> {1, 2, 4}, frames |-> <<2, 5>>],
   [ends |-> {1, 2, 3}, frames |-> <<1, 2, 3>>],
   [ends |-> {1, 2, 3, 4, 5}, frames |-> <<2, 4, 5>>],
   [ends |-> {1, 2, 3, 4}, frames |-> <<1, 3, 5>>],
   [ends |-> {1, 2, 3, 4}, frames |-> <<2, 3, 4>>],
   [ends |-> {1, 2, 3, 4}, frames |-> <<1, 5>>],
   [ends |-> {1, 3}, frames |-> <<2, 4>>],
   [ends |-> {1, 2, 4}, frames |-> <<1, 3, 4>>],
   [ends |-> {1, 2}, frames |-> <<1, 2, 2>>],
   [ends |-> {2, 3, 4, 5}, frames |-> <<3, 3, 5>>]}
MCInputs ==
  {[ends |-> s.ends, frames |-> s.frames, separated |-> b] :
    s \in Small \cup Shapes, b \in BOOLEAN}
================================================================================
