-------------------------- MODULE MCExcimerTimerObjects --------------------------
(* ExcimerTimerObjects for TLC: the timers are interchangeable.            *)
EXTENDS ExcimerTimerObjects, TLC

Symmetry == Permutations(Timers)
===================================================================================
