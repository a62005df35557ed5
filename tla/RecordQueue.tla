------------------------------ MODULE RecordQueue ------------------------------
(***************************************************************************)
(* What an iterator over records promises (src/src/reader.rs,              *)
(* into_records, records_from): the records from lo up to hi in a queue    *)
(* that is popped at both ends, each once and in order.                    *)
(***************************************************************************)
EXTENDS Integers, Sequences

CONSTANT Refused   \* what a call gives that returns an error

VARIABLES
  length,        \* how many records there are, numbered from 0
  complete,      \* whether they are all of the bytes; an iterator may refuse if not
  lo, hi,        \* what is left to hand out: lo .. hi - 1
  open,          \* whether it still hands out
  item           \* what the last call handed out: <<record>>, <<>> or Refused

vars == <<length, complete, lo, hi, open, item>>

Init ==
  /\ length \in Nat /\ complete \in BOOLEAN
  /\ lo = 0 /\ hi = 0 /\ ~open /\ item = <<>>

\* An iterator begins, anywhere.
Begin ==
  /\ lo' \in Nat
  /\ hi' = length
  /\ open' = TRUE
  /\ item' = <<>>

PopFront ==
  /\ open /\ lo < hi
  /\ item' = <<lo>>
  /\ lo' = lo + 1
  /\ UNCHANGED <<hi, open>>

PopBack ==
  /\ open /\ lo < hi
  /\ item' = <<hi - 1>>
  /\ hi' = hi - 1
  /\ UNCHANGED <<lo, open>>

\* The end, met from either side.
Exhausted ==
  /\ open => lo >= hi
  /\ item' = <<>>
  /\ open' \in {open, FALSE}
  /\ UNCHANGED <<lo, hi>>

\* It began at or past the end, or not all of the bytes are records.
Refuse ==
  /\ open
  /\ lo >= hi \/ ~complete
  /\ item' = Refused
  /\ open' = FALSE
  /\ UNCHANGED <<lo, hi>>

Drop == lo' = 0 /\ hi' = 0 /\ open' = FALSE /\ item' = <<>>

Next ==
  /\ Begin \/ PopFront \/ PopBack \/ Exhausted \/ Refuse \/ Drop
  /\ UNCHANGED <<length, complete>>

Spec == Init /\ [][Next]_vars
================================================================================
