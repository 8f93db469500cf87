------------------------------- MODULE MCTest -------------------------------
(* Values of the constants of P2Test for model checking. *)
EXTENDS P2Test

term0 == [line |-> 7, dev |-> 0, recv |-> FALSE]

Terminal == {term0}
NoSems   == {}
Given    == {-4, -2, -1, 1, 2, 4}
Zeros    == SemZero
Names    == Sems
NotOver  == {FALSE}

Child2 == {"child2"}
=============================================================================
