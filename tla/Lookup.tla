--------------------------------- MODULE Lookup --------------------------------
(***************************************************************************)
(* The window that every call of a record reader goes through              *)
(* (src/src/record.rs, Reader and RecordUnitCursor) and the note of the    *)
(* frame it is pointed at (src/src/reader.rs, Lookup), at the granularity  *)
(* of records.  A record is its number in the file; an unterminated last   *)
(* one, a fragment, has the number after those of all the others.          *)
(*                                                                         *)
(* How much one read brings in is left open: the first record that is      *)
(* still buffered may be any that the walk has stood on, as each refill    *)
(* slides away what has been handed out.                                   *)
(***************************************************************************)
EXTENDS Integers, Sequences

CONSTANTS
  Files,    \* the files there are to read, each with the boundary it is read by
  Refused   \* the answer of a call that returns an error

\* A file is a sequence of frames, ends[f] of whose records end in frames 1 to
\* f, as a seek table holds ends; part is whether bytes follow the last end, and
\* separated whether records end with a separator rather than where a finder says.
FileType == [ends : Seq(Nat), part : BOOLEAN, separated : BOOLEAN]
ASSUME FilesAssumption ==
  /\ Files \subseteq FileType
  /\ \A file \in Files : file.ends # <<>> /\ file.ends[1] > 0
  /\ Refused \notin Seq(Nat)

VARIABLES
  file,     \* what is read: the table is read once, and a file held open stays
  window,   \* the frames it reads over, and where in them it is
  frame     \* Lookup.frame, 0 for None

LastFrame == Len(file.ends)
PerFrame == file.ends[1]      \* sep_cnt, the count of frame 0
StartOf(f) == IF f = 1 THEN 0 ELSE file.ends[f - 1]
Records == file.ends[LastFrame]

\* Only a separator makes what follows the last end a record (tail_is_record).
TailIsRecord == file.separated

\* seek_to: the records of frames first to last, from the first of them on.
Point(first, last) ==
  [first |-> first, last |-> last, walked |-> 0, front |-> 0,
   eof |-> FALSE, taken |-> FALSE]

Left(w) == file.ends[w.last] - StartOf(w.first) - w.walked
NumberOf(w) == StartOf(w.first) + w.walked
HasFragment(w) == w.last = LastFrame /\ file.part /\ ~w.taken

\* n more records walked past.  Every refill on the way slides up to the record
\* the walk stands on; none happens once the source is spent.
Walk(w, n) ==
  {[w EXCEPT !.walked = @ + n, !.front = front] :
    front \in {w.front} \cup
              IF w.eof THEN {} ELSE w.walked .. w.walked + n - 1}

\* The walk runs out: one more refill finds the source spent, after a slide.
RunOut(w) ==
  [w EXCEPT !.walked = @ + Left(w), !.eof = TRUE,
            !.front = IF w.eof THEN @ ELSE w.walked + Left(w)]

\* RecordUnitCursor::next_run and write_to: up to n records handed out, the
\* fragment at the end of the file among them, or an error in its place.
HandOut(w, n) ==
  LET numbers(k) == [i \in 1..k |-> NumberOf(w) + i - 1]
      over == RunOut(w)
  IN  IF n <= Left(w)
      THEN {[window |-> v, got |-> numbers(n)] : v \in Walk(w, n)}
      ELSE IF ~HasFragment(w)
      THEN {[window |-> over, got |-> numbers(Left(w))]}
      ELSE IF TailIsRecord
      THEN {[window |-> [over EXCEPT !.taken = TRUE], got |-> numbers(Left(w) + 1)]}
      ELSE {[window |-> over, got |-> Refused]}

\* The same after passing skip records; short is the answer where there are
\* fewer (skip_records and skip_up_to).
Read(w, skip, n, short) ==
  IF skip <= Left(w) THEN UNION {HandOut(v, n) : v \in Walk(w, skip)}
  ELSE {[window |-> RunOut(w), got |-> short]}

\* A mistake: the fragment at the end does not count.
ReadWhole(w) == HandOut(w, Left(w))

\* All of the window's records, the fragment included.
ReadAll(w) == HandOut(w, Left(w) + 1)

\* A mistake: what a slide has dropped is taken to be there.
WalkBack(f, index) ==
  IF frame = f /\ index >= window.walked
  THEN [window |-> window, skip |-> index - window.walked]
  ELSE IF frame = f
  THEN [window |-> [window EXCEPT !.walked = window.front, !.taken = FALSE], skip |-> 0]
  ELSE [window |-> Point(f, f), skip |-> index]

\* Lookup::walk_to: the window to read record index of frame f from, and how
\* many records it still has to pass.
WalkTo(f, index) ==
  IF frame = f /\ index >= window.walked
  THEN [window |-> window, skip |-> index - window.walked]
  ELSE IF frame = f /\ index >= window.front
  THEN [window |-> [window EXCEPT !.walked = window.front, !.taken = FALSE],
        skip |-> index - window.front]
  ELSE [window |-> Point(f, f), skip |-> index]

LookupInit ==
  /\ file \in Files
  /\ window = Point(1, 1)
  /\ frame = 0
================================================================================
