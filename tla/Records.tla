-------------------------------- MODULE Records --------------------------------
(***************************************************************************)
(* Decompressed bytes as the operations of src/src/edit.rs see them: the   *)
(* records that end in them, and the fragment that may follow the last     *)
(* end.  A file's frames cut such bytes into pieces.                       *)
(***************************************************************************)
EXTENDS Integers, Sequences, SequencesExt

\* What becomes of a fragment: a record of its own once a separator closes it,
\* and one record with whatever is written straight after it.
Sealed == "sealed"
Merged == "merged"

Empty == [recs |-> <<>>, part |-> FALSE]

\* The length in records and fragments: all that sizes are compared for.
Size(s) == Len(s.recs) + (IF s.part THEN 1 ELSE 0)

\* record::ends_whole: empty bytes end with neither a record nor a fragment.
Whole(s) == ~s.part /\ s.recs # <<>>

\* t written after s.
Join(s, t) ==
  IF ~s.part THEN [recs |-> s.recs \o t.recs, part |-> t.part]
  ELSE IF t.recs = <<>> THEN s
  ELSE [recs |-> s.recs \o <<Merged>> \o Tail(t.recs), part |-> t.part]

\* A separator written after s.
Seal(s) == [recs |-> Append(s.recs, Sealed), part |-> FALSE]

\* All the bytes of a sequence of frames.
Contents(frames) ==
  LET joined[n \in 0..Len(frames)] ==
        IF n = 0 THEN Empty ELSE Join(joined[n - 1], frames[n])
  IN joined[Len(frames)]

\* The last frame that carries data; frames of nothing may follow it.
LastDataFrame(frames) ==
  CHOOSE i \in DOMAIN frames :
    /\ \A j \in DOMAIN frames : j > i => Size(frames[j]) = 0
    /\ i = 1 \/ Size(frames[i]) > 0

Sizes(frames) == [i \in DOMAIN frames |-> Size(frames[i])]

\* docs/format.md: every frame holds the same number of records except the
\* last data frame, which may hold fewer and alone may end in a fragment.
UniformBy(frames, n) ==
  \A i, j \in DOMAIN frames : i < j =>
    /\ Size(frames[j]) > 0 => Len(frames[i].recs) = n /\ ~frames[i].part
    /\ Len(frames[j].recs) <= n
Uniform(frames) == frames # <<>> /\ UniformBy(frames, Len(frames[1].recs))
================================================================================
