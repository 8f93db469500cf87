------------------------------- MODULE MCTime -------------------------------
(* Values of the constants of CpuTime for model checking. *)
EXTENDS CpuTime

OneProc  == {1}
=============================================================================
