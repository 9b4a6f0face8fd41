------------------------------ MODULE MCIngest ------------------------------
(* Ingest for TLC.  Request slots are interchangeable, and so are devices.  *)
EXTENDS Ingest, TLC

Symmetry == Permutations(Requests) \cup Permutations(Devices)
=============================================================================
