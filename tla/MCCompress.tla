------------------------------ MODULE MCCompress -------------------------------
EXTENDS Compress, TLC

\* Inputs of none to five records of one to three bytes, of lengths that do not
\* repeat, with a fragment of up to two bytes or without.
Input(ends, rest) ==
  [ends |-> ends, size |-> rest + IF ends = <<>> THEN 0 ELSE ends[Len(ends)]]
MCInputs ==
  {Input(ends, rest) :
     ends \in {<<>>, <<1>>, <<3>>, <<1, 2>>, <<3, 4>>, <<1, 2, 5>>, <<3, 4, 5, 6>>,
               <<1, 2, 3, 6>>, <<1, 2, 4, 5, 8>>, <<2, 4, 5, 6, 7>>},
     rest \in 0..2}

MCGivens == {Unset, 0, 1, 2, 3}
================================================================================
