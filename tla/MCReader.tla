-------------------------------- MODULE MCReader -------------------------------
EXTENDS Reader, TLC

\* Files of one to three frames of one to three records, the last frame full,
\* short, or holding no whole record, with a fragment and without, read by a
\* separator and by a finder.
MCEnds ==
  {<<1>>, <<3>>, <<1, 1>>, <<1, 2>>, <<2, 2>>, <<2, 3>>, <<2, 4>>, <<3, 5>>,
   <<1, 2, 2>>, <<1, 2, 3>>, <<2, 4, 4>>, <<2, 4, 5>>, <<2, 4, 6>>}
AllFiles == [ends : MCEnds, part : BOOLEAN, separated : BOOLEAN]

\* IteratorIsAQueue is checked without the files it does not hold of.
MCFiles == {f \in AllFiles : ~LoneTail(f)}
================================================================================
