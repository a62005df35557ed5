----------------------------- MODULE MCFileUpdate -----------------------------
EXTENDS FileUpdate, TLC

\* Nothing is computed from a writer, a reader or an inode.
Symmetry == Permutations(Writers) \cup Permutations(Readers) \cup Permutations(Inodes)
===============================================================================
