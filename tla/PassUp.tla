------------------------------- MODULE PassUp -------------------------------
(***************************************************************************)
(* Processor states in the nucleus: exceptions.c passes exceptions up to   *)
(* the handlers that processes specify with SYS4 to SYS6, and returns from *)
(* them with SYS7; the other handlers save and restore the state of the    *)
(* process they interrupt.                                                 *)
(*                                                                         *)
(* A handler runs with interrupts disabled and is one action; the old      *)
(* areas of the machine, which it reads first, are the processor's state   *)
(* at the exception.  Which of the live processes are ready, and which are *)
(* whose progeny, is in Nucleus.                                           *)
(***************************************************************************)
EXTENDS Integers, Sequences, SequencesExt

CONSTANTS
  Proc,        \* the pcbs
  Kind,        \* "sysbp", "pgmtr", "tlb"
  Specifiable, \* <<pid, kind, mode>>: the handlers that processes specify, a
               \* bound
  MaxPid       \* bound on abs_process_count

NULL == 0
Reg  == 0 .. 1               \* the contents of the registers
Mode == {"user", "system"}

ASSUME PassUpAssumption ==
  /\ NULL \notin Proc /\ Kind \subseteq {"sysbp", "pgmtr", "tlb"}
  /\ MaxPid \in Nat

(***************************************************************************)
(* A state_t: the process whose program it runs, the program ("main" or    *)
(* the handler of a kind), the mode in its cpsr, its registers.  A new     *)
(* area is such a state; Zero is what a_memset leaves.                     *)
(***************************************************************************)
State == [own : Nat, at : Kind \cup {"main"}, mode : Mode, r : Reg]
Zero  == [own |-> 0, at |-> "zero", mode |-> "user", r |-> 0]
Zeros == {[Zero EXCEPT !.r = reg] : reg \in Reg}

VARIABLES
  g_current_process,
  cpu,                 \* the processor's state while a process runs
  live,                \* the pcbs that are allocated
  p_pid, p_s, old_area, new_area,
  abs_process_count,
  orderly,             \* history: the processes whose exceptions have nested
                       \* as calls do, always of different kinds,
  handling             \* and of each of them, the kinds of those it handles

history == <<orderly, handling>>
vars == <<g_current_process, cpu, live, p_pid, p_s, old_area, new_area,
          abs_process_count, history>>

\* A process runs, and what it runs is a program: nothing is said of what the
\* processor does in a state of zeros.
Running == g_current_process # NULL /\ cpu.at # "zero"

-----------------------------------------------------------------------------
\* p goes on handling the exceptions h, if it does what a call or return does.
nests(p, asCall, h) ==
  IF p \in orderly /\ asCall
  THEN handling' = [handling EXCEPT ![p] = h] /\ UNCHANGED orderly
  ELSE handling' = [handling EXCEPT ![p] = <<>>] /\ orderly' = orderly \ {p}

\* copyState to p_s of the state the exception interrupts.
saved == [p_s EXCEPT ![g_current_process] = cpu]

\* terminateProcess: the processes S, and their pcbs go to the free list.
terminate(S) ==
  /\ live' = live \ S
  /\ g_current_process' = IF g_current_process \in S THEN NULL ELSE g_current_process
  /\ UNCHANGED <<p_pid, old_area, new_area, abs_process_count, history>>

\* The running process is terminated with progeny of its.
dies == \E S \in SUBSET live : g_current_process \in S /\ terminate(S) /\ cpu' = Zero

\* The program computes (external).
computes ==
  /\ Running
  /\ \E reg \in Reg : cpu' = [cpu EXCEPT !.r = reg]
  /\ UNCHANGED <<g_current_process, live, p_pid, p_s, old_area, new_area,
                 abs_process_count, history>>

-----------------------------------------------------------------------------
(* The pass-up: sysAboveBP and commonSubHandler.  info is what the handler *)
(* finds in a1: of a system call above 11 or a breakpoint the mode it was  *)
(* raised in, of a trap its cause.                                         *)

keptFor_ps(k) == [old_area EXCEPT ![g_current_process][k] =
                    p_s[g_current_process]]               \* mutant
keptFor(k) == [old_area EXCEPT ![g_current_process][k] = cpu]

passUp(k, info) ==
  LET p == g_current_process IN
  /\ Running
  /\ p_s' = saved
  /\ IF new_area[p][k] = Zero
     THEN dies
     ELSE /\ old_area' = keptFor(k)
          /\ cpu' = [new_area[p][k] EXCEPT !.r = info]
          /\ new_area' = [new_area EXCEPT ![p][k] = cpu']
          /\ nests(p, k \notin ToSet(handling[p]), Append(handling[p], k))
          /\ UNCHANGED <<g_current_process, live, p_pid, abs_process_count>>

sysAboveBP == "sysbp" \in Kind /\ passUp("sysbp", IF cpu.mode = "system" THEN 1 ELSE 0)

trap(k) == k # "sysbp" /\ \E cause \in Reg : passUp(k, cause)

RESERVEDINSTR == 1
\* SYS1 to SYS11 in user mode.
reservedInstr == "pgmtr" \in Kind /\ cpu.mode = "user" /\ passUp("pgmtr", RESERVEDINSTR)

-----------------------------------------------------------------------------
(* System calls, in kernel mode *)

Calls == Running /\ cpu.mode = "system"

\* SYS4 to SYS6.
commonSys(k, mode) ==
  LET p == g_current_process IN
  /\ Calls
  /\ <<p_pid[p], k, mode>> \in Specifiable                 \* bound
  /\ p_s' = saved
  /\ IF new_area[p][k] = Zero
     THEN /\ new_area' = [new_area EXCEPT ![p][k] =
                            [own |-> p_pid[p], at |-> k, mode |-> mode, r |-> 0]]
          /\ UNCHANGED <<g_current_process, cpu, live, p_pid, old_area,
                         abs_process_count, history>>
     ELSE dies

\* SYS7.  The return value is written into the old area, too.  An excptype
\* other than 0..2, which ends in PANIC, is left out.
exitTrap(k, retval) ==
  LET p == g_current_process
      s == [old_area[p][k] EXCEPT !.r = retval]
  IN  /\ Calls
      /\ p_s' = saved
      /\ old_area' = [old_area EXCEPT ![p][k] = s]
      /\ cpu' = s
      /\ nests(p, handling[p] # <<>> /\ Last(handling[p]) = k, Front(handling[p]))
      /\ UNCHANGED <<g_current_process, live, p_pid, new_area, abs_process_count>>

\* A system call that returns to its caller, which finds a value in a1 (SYS11,
\* SYS1 without a pcb) or its registers as they were.
returns ==
  /\ Calls
  /\ p_s' = saved
  /\ \E reg \in Reg : cpu' = [cpu EXCEPT !.r = reg]
  /\ UNCHANGED <<g_current_process, live, p_pid, old_area, new_area,
                 abs_process_count, history>>

allocPcb_dirty(p) == UNCHANGED <<old_area, new_area>>     \* mutant

\* The pcb is filled with zeros.
allocPcb(p) ==
  /\ old_area' = [old_area EXCEPT ![p] = [k \in Kind |-> Zero]]
  /\ new_area' = [new_area EXCEPT ![p] = [k \in Kind |-> Zero]]

\* SYS1 with a free pcb.
createProcess(p, mode, reg) ==
  /\ Calls
  /\ p \notin live /\ abs_process_count < MaxPid           \* bound
  /\ allocPcb(p)
  /\ live' = live \cup {p}
  /\ abs_process_count' = abs_process_count + 1
  /\ p_pid' = [p_pid EXCEPT ![p] = abs_process_count']
  /\ p_s' = [saved EXCEPT ![p] =
               [own |-> abs_process_count', at |-> "main", mode |-> mode, r |-> reg]]
  /\ orderly' = orderly \cup {p} /\ handling' = [handling EXCEPT ![p] = <<>>]
  /\ \E ret \in Reg : cpu' = [cpu EXCEPT !.r = ret]
  /\ UNCHANGED g_current_process

\* SYS2.
terminateProcess ==
  /\ Calls
  /\ p_s' = saved
  /\ \/ dies
     \/ \E S \in SUBSET (live \ {g_current_process}) : terminate(S) /\ UNCHANGED cpu

-----------------------------------------------------------------------------
(* Interrupts and dispatch *)

\* An interrupt after which the process goes on.
interrupt ==
  /\ Running
  /\ p_s' = saved
  /\ UNCHANGED <<g_current_process, cpu, live, p_pid, old_area, new_area,
                 abs_process_count, history>>

\* The end of a slice, or a system call that blocks.
suspend ==
  /\ Running
  /\ p_s' = saved
  /\ g_current_process' = NULL /\ cpu' = Zero
  /\ UNCHANGED <<live, p_pid, old_area, new_area, abs_process_count, history>>

\* scheduler loads p_s.
dispatch(p) ==
  /\ g_current_process = NULL /\ p \in live
  /\ g_current_process' = p
  /\ cpu' = p_s[p]
  /\ UNCHANGED <<live, p_pid, p_s, old_area, new_area, abs_process_count, history>>

\* No process is left, or the processor is in a state of zeros.
stopped == /\ live = {} \/ (g_current_process # NULL /\ ~Running)
           /\ UNCHANGED vars

-----------------------------------------------------------------------------
\* main: one process, with pid 1, in system mode.
Init ==
  /\ g_current_process = NULL /\ cpu = Zero
  /\ \E first \in Proc :
       /\ live = {first} /\ orderly = {first}
       /\ p_pid = [p \in Proc |-> IF p = first THEN 1 ELSE 0]
       /\ p_s = [p \in Proc |-> IF p = first
                  THEN [own |-> 1, at |-> "main", mode |-> "system", r |-> 0] ELSE Zero]
  /\ old_area = [p \in Proc |-> [k \in Kind |-> Zero]]
  /\ new_area = [p \in Proc |-> [k \in Kind |-> Zero]]
  /\ abs_process_count = 1
  /\ handling = [p \in Proc |-> <<>>]

Exception == sysAboveBP \/ reservedInstr \/ \E k \in Kind : trap(k)

Call == \/ \E k \in Kind, mode \in Mode : commonSys(k, mode)
        \/ \E k \in Kind, reg \in Reg : exitTrap(k, reg)
        \/ \E p \in Proc, mode \in Mode, reg \in Reg : createProcess(p, mode, reg)
        \/ terminateProcess \/ returns

Next == \/ Exception \/ Call \/ computes \/ interrupt \/ suspend \/ stopped
        \/ \E p \in Proc : dispatch(p)

Spec == Init /\ [][Next]_vars

-----------------------------------------------------------------------------
TypeOK ==
  /\ g_current_process \in live \cup {NULL} /\ live \subseteq Proc
  /\ cpu \in State \cup Zeros
  /\ g_current_process = NULL => cpu = Zero
  /\ p_pid \in [Proc -> Nat] /\ abs_process_count \in Nat
  /\ orderly \subseteq Proc /\ handling \in [Proc -> Seq(Kind)]
  /\ p_s \in [Proc -> State \cup {Zero}]
  /\ old_area \in [Proc -> [Kind -> State \cup Zeros]]
  /\ new_area \in [Proc -> [Kind -> State \cup {Zero}]]

Owns(p, s) == s.own = p_pid[p] \/ s.at = "zero"

\* Whatever a process does with its handlers, every state it can come to run
\* in is its own: not another process', and not that of a process that had
\* its pcb before.
OwnStates ==
  /\ \A p \in live : /\ p_s[p].own = p_pid[p]
                     /\ \A k \in Kind : Owns(p, old_area[p][k]) /\ Owns(p, new_area[p][k])
  /\ g_current_process # NULL => Owns(g_current_process, cpu)

-----------------------------------------------------------------------------
(* Exceptions are calls *)

StateOf(p) == IF p = g_current_process THEN cpu ELSE p_s[p]
Frame(s) == [at |-> s.at, mode |-> s.mode, r |-> s.r]

\* A process in state s that handles the exceptions h.
FrameSeq(h, areas, s) ==
  [i \in 1 .. Len(h) + 1 |-> Frame(IF i > Len(h) THEN s ELSE areas[h[i]])]

Frames(p) == IF p \notin live \cap orderly THEN <<>>
             ELSE FrameSeq(handling[p], old_area[p], StateOf(p))

Stack == INSTANCE TrapStack WITH
  NoProc  <- NULL,
  running <- g_current_process,
  procs   <- live,
  frames  <- [p \in Proc |-> Frames(p)]

\* The handlers implement the stack of calls: saving, restoring and passing up
\* states, through any preemptions and creations, loses and mixes up none.
ExceptionsNest == Stack!Spec
=============================================================================
