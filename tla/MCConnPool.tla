----------------------------- MODULE MCConnPool -----------------------------
(* ConnPool for TLC.  Connections are interchangeable, and so are readers.  *)
EXTENDS ConnPool, TLC

Symmetry == Permutations(Conns) \cup Permutations(Readers)
=============================================================================
