----------------------------- MODULE MCNucleus ------------------------------
(* Values of the constants of Nucleus for model checking. *)
EXTENDS Nucleus

s1 == <<"user", 1, 0>>

OneSem  == {s1}
NoSems  == {}

Zero   == [a \in UserSem |-> 0]

disk0 == [line |-> 3, dev |-> 0, recv |-> FALSE]
term0 == [line |-> 7, dev |-> 0, recv |-> FALSE]
term1 == [line |-> 7, dev |-> 1, recv |-> FALSE]
read0 == [line |-> 7, dev |-> 0, recv |-> TRUE]

NoUnits    == {}
Disk       == {disk0}
DiskTerms  == {disk0, term0, term1}
Terminal   == {term0, read0}

Units     == {-1, 1}
Pairs     == {-2, -1, 2}
DownNone  == {-1, 0}

SemCalls   == {"CREATEPROCESS", "SEMOP"}
IoCalls    == {"CREATEPROCESS", "IODEVOP"}
ClockCalls == {"CREATEPROCESS", "WAITCLOCK"}
KillCalls  == {"CREATEPROCESS", "TERMINATEPROCESS"}
SemClock   == SemCalls \cup ClockCalls
SemKill    == SemCalls \cup KillCalls
ClockKill  == ClockCalls \cup SemKill
AllCalls   == SYS

NeverOver == {FALSE}
MayBeOver == {FALSE, TRUE}
=============================================================================
