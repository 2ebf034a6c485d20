------------------------------ MODULE MCKqueueGetTime ------------------------------
(* KqueueGetTime for TLC, with a second of four nanoseconds.               *)
EXTENDS KqueueGetTime

MCModes == {[period |-> 6, initial |-> 3], [period |-> 4, initial |-> 4],
            [period |-> 3, initial |-> 6], [period |-> 0, initial |-> 5]}
===================================================================================
