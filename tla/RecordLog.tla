------------------------------- MODULE RecordLog -------------------------------
(***************************************************************************)
(* What the editing operations of src/src/edit.rs promise: a file is the   *)
(* records it holds, and each operation changes them in one step by the    *)
(* effect it was asked for or not at all.  An operation that fails once it *)
(* has begun to write may leave a file that cannot be read.                *)
(***************************************************************************)
EXTENDS Records

CONSTANTS
  Initial,   \* what the file may hold at first
  Requests,  \* the requests a caller makes
  None

VARIABLES value, readable, request, answer

vars == <<value, readable, request, answer>>

\* A fragment at the end is closed by a separator before anything follows it.
Joined(v, data) ==
  [recs |-> (IF v.part THEN Append(v.recs, Sealed) ELSE v.recs) \o data.recs, part |-> data.part]

\* Truncated to all its records, a file may keep the fragment behind them: edit.rs
\* drops whole frames, and that fragment may be in one it keeps.
Shortened(v, len, part) == [recs |-> SubSeq(v.recs, 1, len), part |-> part]
Effects(r, v) ==
  IF r.op = "truncate" THEN
    {Shortened(v, r.len, part) : part \in {FALSE, v.part /\ r.len = Len(v.recs)}}
  ELSE {Joined(v, r.data)}

\* A fragment is closed only for a caller that asks for it, and nothing is
\* truncated to a length the file has not got.
Allowed(r, v) ==
  IF r.op = "truncate" THEN r.len \in 1..Len(v.recs) ELSE v.part => r.insert

Init ==
  /\ value \in Initial
  /\ readable = TRUE
  /\ request = None
  /\ answer = "none"

Ask ==
  /\ readable
  /\ request = None
  /\ request' \in {r \in Requests : Allowed(r, value)}
  /\ answer' = "none"
  /\ UNCHANGED <<value, readable>>

Apply ==
  /\ request # None
  /\ value' \in Effects(request, value)
  /\ request' = None
  /\ answer' = "ok"
  /\ UNCHANGED readable

\* Nothing to do.
Nothing ==
  /\ readable
  /\ request = None
  /\ answer' = "ok"
  /\ UNCHANGED <<value, readable, request>>

Refuse ==
  /\ request = None
  /\ answer' = "refused"
  /\ UNCHANGED <<value, readable, request>>

Fail ==
  /\ request # None
  /\ request' = None
  /\ answer' = "failed"
  /\ readable' \in BOOLEAN
  /\ UNCHANGED value

Next == Ask \/ Apply \/ Nothing \/ Refuse \/ Fail

Spec == Init /\ [][Next]_vars
================================================================================
