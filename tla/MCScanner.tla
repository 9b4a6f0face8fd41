------------------------------ MODULE MCScanner ------------------------------
(* Scanner for TLC: it needs no symmetry, fields differ in what they take.  *)
EXTENDS Scanner
=============================================================================
