------------------------------- MODULE MCList -------------------------------
(* Values of the constants of CList for model checking. *)
EXTENDS CList

ThreeAddrs == {1, 2, 3}
=============================================================================
