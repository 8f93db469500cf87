----------------------------- MODULE TrapStack ------------------------------
(***************************************************************************)
(* What the pass-up of exceptions promises to processes: an exception for  *)
(* which a process has a handler is a call of the handler, SYS7 is the     *)
(* return from it, and nothing that other processes or interrupts do is    *)
(* seen by the process.  A process that raises an exception of a kind it   *)
(* is handling already, or executes SYS7 without one to return from, has   *)
(* no such promise; the others keep it.                                    *)
(***************************************************************************)
EXTENDS Integers, Sequences, SequencesExt

CONSTANTS Proc, NoProc, Kind, Mode, Reg

VARIABLES
  running,
  procs,      \* the processes there are
  frames      \* of each: the programs it is in, main first, each with its mode
              \* and registers; none without the promise

vars == <<running, procs, frames>>

None == [p \in Proc |-> <<>>]
Handling(s) == {s[i].at : i \in DOMAIN s}
WithTop(s, reg) == IF s = <<>> THEN s ELSE Append(Front(s), [Last(s) EXCEPT !.r = reg])

Init == \E p \in Proc, mode \in Mode, reg \in Reg :
  /\ running = NoProc /\ procs = {p}
  /\ frames = [None EXCEPT ![p] = <<[at |-> "main", mode |-> mode, r |-> reg]>>]

Run(p) == running = NoProc /\ p \in procs /\ running' = p /\ UNCHANGED <<procs, frames>>
Stop == running' = NoProc /\ UNCHANGED <<procs, frames>>

Now == frames[running]
Becomes(s) == /\ running # NoProc
              /\ UNCHANGED <<running, procs>>
              /\ frames' = [frames EXCEPT ![running] = s]

\* The program goes on, or a system call returns a value to it.
Step(reg) == Becomes(WithTop(Now, reg))

Raise(k, mode, reg) ==
  /\ Now # <<>> /\ k \notin Handling(Now)
  /\ Becomes(Append(Now, [at |-> k, mode |-> mode, r |-> reg]))

\* SYS7, with the value it returns to the program that raised the exception.
Return(k, reg) == Len(Now) > 1 /\ Last(Now).at = k /\ Becomes(WithTop(Front(Now), reg))

Misuse == Becomes(<<>>)

\* SYS1, with the value it returns.
Create(p, mode, r, reg) ==
  /\ running # NoProc /\ UNCHANGED running
  /\ p \notin procs /\ procs' = procs \cup {p}
  /\ frames' = [frames EXCEPT ![p] = <<[at |-> "main", mode |-> mode, r |-> r]>>,
                              ![running] = WithTop(@, reg)]

\* SYS2, or an exception without a handler.
End(S) == /\ procs' = procs \ S
          /\ frames' = [p \in Proc |-> IF p \in S THEN <<>> ELSE frames[p]]
          /\ running' = IF running \in S THEN NoProc ELSE running

Next == \/ Stop \/ \E p \in Proc : Run(p)
        \/ /\ running # NoProc /\ UNCHANGED <<running, procs>>
           /\ \/ \E reg \in Reg : Step(reg)
              \/ \E k \in Kind, mode \in Mode, reg \in Reg : Raise(k, mode, reg)
              \/ \E k \in Kind, reg \in Reg : Return(k, reg)
              \/ Misuse
        \/ \E p \in Proc, mode \in Mode, r, reg \in Reg : Create(p, mode, r, reg)
        \/ \E S \in SUBSET Proc : End(S)

Spec == Init /\ [][Next]_vars
=============================================================================
