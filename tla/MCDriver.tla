------------------------------ MODULE MCDriver ------------------------------
(* Driver for TLC: three segments, the one in the middle without a rate.      *)
EXTENDS Driver

MCRates == <<1, 0, 2>>
=============================================================================
