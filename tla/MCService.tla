------------------------------ MODULE MCService ------------------------------
(* Service for TLC.  Users are interchangeable.                             *)
EXTENDS Service, TLC

Symmetry == Permutations(Users)
=============================================================================
