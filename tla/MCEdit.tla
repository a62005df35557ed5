-------------------------------- MODULE MCEdit --------------------------------
EXTENDS Edit, TLC

CONSTANTS a, b

\* A stream of k records, told apart enough that a swap or a repeat shows, and
\* perhaps a fragment.
Stream(k, part) == [recs |-> [i \in 1..k |-> IF i % 3 = 1 THEN a ELSE b], part |-> part]

\* No data and no inputs, where a run has no use for them.
Nothing == {}

\* Files of up to five records and a fragment, cut into frames of one or two,
\* or held in one frame, or with a fragment in a full last frame, or
\* followed by a frame of nothing.
Uncut == {Stream(k, part) : k \in 1..4, part \in BOOLEAN}
FilesOfOneFrame == {<<s>> : s \in Uncut}
FilesOfGroups == {Groups(s, n) : s \in Uncut \cup {Stream(5, FALSE)}, n \in 1..2}

\* A last frame as full as the others, with a fragment behind: compress cuts so
\* only by size, where all frames happen to come out even.
Overhanging ==
  {Append([i \in 1..k |-> Stream(2, FALSE)], Stream(2, TRUE)) : k \in 1..2}

MCFiles == FilesOfOneFrame \cup FilesOfGroups \cup Overhanging
             \cup {Append(<<Stream(3, FALSE)>>, Empty)}
             \cup {Append(fs, Empty) : fs \in Overhanging}
             \cup {Append(Groups(Stream(k, FALSE), 2), Empty) : k \in 3..4}
MCData ==
  {Empty, [recs |-> <<b>>, part |-> FALSE], [recs |-> <<a>>, part |-> TRUE],
   [recs |-> <<a, b, b>>, part |-> FALSE]}

\* What append_frames is given to copy.
UniformInputs == {Groups(Stream(k, part), 2) : k \in 3..5, part \in BOOLEAN}
===============================================================================
