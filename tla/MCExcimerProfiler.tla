----------------------------- MODULE MCExcimerProfiler -----------------------------
(* ExcimerProfiler for TLC: event types, periods and depths are only copied *)
(* and compared, so each is a set of model values that may be permuted.    *)
EXTENDS ExcimerProfiler, TLC

Symmetry == Permutations(EventTypes) \cup Permutations(Periods) \cup Permutations(Depths)
===================================================================================
