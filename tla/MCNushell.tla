------------------------------- MODULE MCNushell -------------------------------
EXTENDS Nushell, TLC

CONSTANTS p, q, i1, i2, i3, i4

\* What the contents written one after another hold, as each finder finds it: two
\* records, the last without an end; one; and two of which one is not reached. A
\* finder may end no record in a file, and then does not open it.
Holding(total, found, noEnd) == [total |-> total, found |-> found, noEnd |-> noEnd]
MCHolds ==
  <<[sep |-> Holding(2, {0, 1}, TRUE), fixed |-> Holding(1, {0}, FALSE)],
    [sep |-> Holding(1, {0}, FALSE), fixed |-> Holding(0, {}, FALSE)],
    [sep |-> Holding(2, {0}, FALSE), fixed |-> Holding(1, {0}, FALSE)]>>
MCSources ==
  {[paths |-> <<p>>, finder |-> "sep"], [paths |-> <<p, q>>, finder |-> "sep"],
   [paths |-> <<p, q>>, finder |-> "fixed"]}

Symmetry == Permutations(Inodes)
================================================================================
