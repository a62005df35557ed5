------------------------------- MODULE RecordSpan ------------------------------
(***************************************************************************)
(* What the window of src/src/record.rs promises the calls of a reader:    *)
(* each of them changes the window of Lookup in one step, and is answered  *)
(* with the numbers of the records it asks for.                            *)
(***************************************************************************)
EXTENDS Lookup

CONSTANTS
  MaxSkip,   \* a bound on the records a call passes
  MaxLeft    \* and on those it asks for

VARIABLE got   \* the answer of the last call

spanVars == <<file, window, frame, got>>

Answered(read) == window' = read.window /\ got' = read.got

\* A record of a frame, by a lookup.
LookUp(f, index) ==
  LET at == WalkTo(f, index)
  IN  /\ \E read \in Read(at.window, at.skip, 1, <<>>) : Answered(read)
      /\ frame' = f

\* Records of some frames, after passing others.
ReadSpan(first, last, skip, n) ==
  /\ \E read \in Read(Point(first, last), skip, n, Refused) : Answered(read)
  /\ frame' = 0

\* More of what is being read.
GoOn(n) ==
  /\ \E read \in HandOut(window, n) : Answered(read)
  /\ UNCHANGED frame

Init ==
  /\ LookupInit
  /\ got = <<>>

Next ==
  /\ \/ \E f \in DOMAIN file.ends, index \in 0 .. MaxSkip : LookUp(f, index)
     \/ \E first, last \in DOMAIN file.ends, skip \in 0 .. MaxSkip, n \in 0 .. MaxLeft :
          first <= last /\ ReadSpan(first, last, skip, n)
     \/ \E n \in 0 .. MaxLeft : GoOn(n)
  /\ UNCHANGED file

Spec == Init /\ [][Next]_spanVars
================================================================================
