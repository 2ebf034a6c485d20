------------------------------ MODULE MCExcimerTimer ------------------------------
(* ExcimerTimer for TLC.                                                   *)
EXTENDS ExcimerTimer, TLC

Symmetry == Permutations(Timers)
===================================================================================
