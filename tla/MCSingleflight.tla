----------------------------- MODULE MCSingleflight -----------------------------
(* Instances of Singleflight for TLC.                                      *)
EXTENDS Singleflight, TLC

CONSTANTS c1, c2, c3
MCCallers == {c1, c2, c3}
MCPatient == {c1}
=============================================================================
