----------------------------- MODULE MCApplyCh ------------------------------
(* Values of the constants of ApplyCh for model checking.                  *)
EXTENDS ApplyCh

CONSTANTS s1, s2

Two == {s1, s2}
=============================================================================
