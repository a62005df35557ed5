-------------------------------- MODULE MCWindow -------------------------------
EXTENDS WindowCalls

\* Files of one to three frames, of records of one to three bytes, with a
\* fragment and without, read by a separator and by a finder.
MCInputs ==
  {[ends |-> s.ends, frames |-> s.frames, separated |-> b] :
    b \in BOOLEAN,
    s \in {[ends |-> {1, 4}, frames |-> <<4>>],
           [ends |-> {3}, frames |-> <<5>>],
           [ends |-> {2, 3, 4}, frames |-> <<3, 6>>],
           [ends |-> {1, 2}, frames |-> <<1, 2, 5>>],
           [ends |-> {1, 2, 5, 6}, frames |-> <<2, 6>>]}}
================================================================================
