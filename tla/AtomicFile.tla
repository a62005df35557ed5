------------------------------ MODULE AtomicFile ------------------------------
(***************************************************************************)
(* What an update of a seekable file promises its caller                   *)
(* (src/src/file_update.rs): the target changes in one step, once per      *)
(* call, and a call that answers Ok has changed it.                        *)
(***************************************************************************)
EXTENDS Sequences

CONSTANT Writers

VARIABLES
  value,    \* the updates the target holds, oldest first
  call,     \* what each writer's call has done so far
  answer    \* what each writer's last call returned

vars == <<value, call, answer>>

Init ==
  /\ value = <<>>
  /\ call = [w \in Writers |-> "idle"]
  /\ answer = [w \in Writers |-> "none"]

Start(w) ==
  /\ call[w] = "idle"
  /\ call' = [call EXCEPT ![w] = "running"]
  /\ answer' = [answer EXCEPT ![w] = "none"]
  /\ UNCHANGED value

\* Another writer is at work: an error at once, and nothing touched.
Refuse(w) ==
  /\ call[w] = "idle"
  /\ answer' = [answer EXCEPT ![w] = "failed"]
  /\ UNCHANGED <<value, call>>

Publish(w) ==
  /\ call[w] = "running"
  /\ value' = Append(value, w)
  /\ call' = [call EXCEPT ![w] = "published"]
  /\ UNCHANGED answer

\* Ok only of a published update.  An error may follow a publication: the lock
\* could not be removed.
Return(w) ==
  /\ call[w] # "idle"
  /\ \E a \in (IF call[w] = "published" THEN {"ok", "failed"} ELSE {"failed"}) :
       answer' = [answer EXCEPT ![w] = a]
  /\ call' = [call EXCEPT ![w] = "idle"]
  /\ UNCHANGED value

Die(w) ==
  /\ call[w] # "idle"
  /\ call' = [call EXCEPT ![w] = "idle"]
  /\ UNCHANGED <<value, answer>>

Next ==
  \E w \in Writers : Start(w) \/ Refuse(w) \/ Publish(w) \/ Return(w) \/ Die(w)

Spec == Init /\ [][Next]_vars
===============================================================================
