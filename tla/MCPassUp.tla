------------------------------ MODULE MCPassUp ------------------------------
(* Values of the constants of PassUp for model checking. *)
EXTENDS PassUp

TwoProcs == {1, 2}
Kinds    == {"sysbp", "pgmtr"}
ByFirst  == {1} \X Kinds \X Mode
=============================================================================
