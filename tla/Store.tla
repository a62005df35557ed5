--------------------------------- MODULE Store ---------------------------------
\* The directory the plugin's commands read and write: names, the inodes behind
\* them and what those hold. Writing a path changes the inode that readers of it
\* have open; removing or renaming changes only the name.
EXTENDS Naturals, Sequences, FiniteSets

CONSTANTS
  Paths,      \* the files of one directory
  Inodes,     \* inodes, taken again once nothing refers to them
  Finders,    \* ways to find where a record ends
  Holds,      \* Holds[n][f]: the records of the n-th content written, as f finds them
  None        \* no inode

\* What a reader makes of a file: the records that total_records counts, the
\* numbers at which record finds one, and whether the last that is counted has no
\* end, in a frame that is not full. The numbers are those below the count unless
\* a frame holds more records than frame 0 (docs/bugs.md:15).
Reading == [total : Nat, found : SUBSET Nat, noEnd : BOOLEAN]

ASSUME StoreAssumption ==
  /\ IsFiniteSet(Paths) /\ None \notin Paths \cup Inodes
  /\ DOMAIN Holds \subseteq Nat /\ \A n \in DOMAIN Holds : Holds[n] \in [Finders -> Reading]

VARIABLES
  dir,        \* the inode each path names, or None
  content,    \* what each inode holds
  made        \* how many contents have been written so far

\* Every file written is told apart: where it was written, and as which content.
Content == [path : Paths, n : DOMAIN Holds]
\* An empty or half written file, or one whose seek table is gone.
Torn == [path |-> None, n |-> 0]

Count(file, finder) == Holds[file.n][finder].total
Reached(file, finder) == Holds[file.n][finder].found
\* The record without an end, which is found by reading to the end of the file.
IsTail(file, finder, number) ==
  Holds[file.n][finder].noEnd /\ number + 1 = Count(file, finder)

\* RecordReader::open: the file has a seek table, and the finder finds a record
\* in frame 0, without which opening is refused.
Opens(path, finder) ==
  /\ dir[path] # None
  /\ content[dir[path]] # Torn
  /\ Count(content[dir[path]], finder) > 0

\* A file opened: the inode, and what it held when its seek table was read.
OpenFile(path) == [inode |-> dir[path], was |-> content[dir[path]]]

\* What was read of the seek table is still true of the inode.
Untouched(file) == content[file.inode] = file.was

Named(i) == \E p \in Paths : dir[p] = i

\* The next content, written to path.
CanMake == made + 1 \in DOMAIN Holds
Made(path) == [path |-> path, n |-> made + 1]
================================================================================
