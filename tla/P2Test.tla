------------------------------- MODULE P2Test -------------------------------
(***************************************************************************)
(* p2test.c on the nucleus: the processes of the test program make the     *)
(* calls of Nucleus, in the order of their functions.  A function is the   *)
(* sequence of its system calls, exceptions and accesses to variables that *)
(* several processes share; a print of an error, or control behind a call  *)
(* that should not return, is the end of the sequence (NoError).           *)
(*                                                                         *)
(* Left out: stacks and the tests of times (SYS8 is in CpuTime); what an   *)
(* exception's handler is given and returns (PassUp).                      *)
(***************************************************************************)
EXTENDS Nucleus

CONSTANTS
  CHARS,      \* characters in a message
  RUNS,       \* incarnations of p8 (4 in the code)
  Sliced,     \* the functions in which a time slice may end ...
  MaxSlices   \* ... and the bound on how often that happens, or a loop of
              \* WAITCLOCK makes another pass

VARIABLES
  run,        \* of each pcb: how far it has come, its handlers, the last result
  mem,        \* the variables that processes share
  slices      \* slices ended and passes made again so far

pvars == <<vars, run, mem, slices>>

-----------------------------------------------------------------------------
(* Instructions *)

S(name) == <<name, 0, 0>>          \* the address of a semaphore

SemNames == {"term_mut", "s", "testsem", "startp2", "endp2", "endp3", "blkp4",
             "synp4", "endp4", "blkp5a", "blkp5b", "blkp5c", "blkp5cint",
             "endp5", "blkp6", "endp6", "endp8", "endcreate", "blkleaves",
             "blkp8"}

Sems    == {S(x) : x \in SemNames}
SemZero == [a \in Sems |-> IF a \in {S("term_mut"), S("blkp4"), S("blkp5cint")}
                           THEN 1 ELSE 0]

V(x, n)    == [op |-> "semop", arg |-> x, n |-> n]
W(x, n)    == [op |-> "semop", arg |-> x, n |-> -n]        \* P(x)
Reset(x)   == [op |-> "reset", arg |-> x]
Create(f)  == [op |-> "create", arg |-> f]
Store(x)   == [op |-> "store", arg |-> x]         \* x = the result of a call
Incr(x)    == [op |-> "incr", arg |-> x]
Ensure(c)  == [op |-> "ensure", arg |-> c]
Kill(x)    == [op |-> "kill", arg |-> x]          \* SYS2 with a pid
Exit       == [op |-> "exit"]                     \* SYS2 with 0
GetPid     == [op |-> "getPid"]
WaitClock  == [op |-> "clock"]
Until(c)   == [op |-> "until", arg |-> c]       \* else back to WAITCLOCK
IoDevop    == [op |-> "io"]
Status     == [op |-> "ensure", arg |-> "status"]
SpecHdl(k) == [op |-> "spec", arg |-> k]
Raise(k, f) == [op |-> "raise", arg |-> k, to |-> f]
ExitTrap   == [op |-> "exitTrap"]
Branch(x, f, g) == [op |-> "branch", arg |-> x, to |-> f, else |-> g]
Again(x, n) == [op |-> "again", arg |-> x, n |-> n]   \* x < RUNS: back by n
Message    == [op |-> "print"]                    \* a call of print

print_unlocked == [i \in 1 .. 2 * CHARS |-> IF i % 2 = 1 THEN IoDevop ELSE Status]
                                                             \* mutant

print == <<W("term_mut", 1)>>
         \o [i \in 1 .. 2 * CHARS |-> IF i % 2 = 1 THEN IoDevop ELSE Status]
         \o <<V("term_mut", 1)>>

-----------------------------------------------------------------------------
(* The functions *)

p8round_alive == <<W("blkp8", 1), Reset("blkleaves"), Create("p8root"),
                   Store("creation"), Ensure("created"), W("endp8", 1),
                   WaitClock, Until("any"), V("blkp8", 1)>>     \* mutant

p8round == <<W("blkp8", 1), Reset("blkleaves"), Create("p8root"),
             Store("creation"), Ensure("created"), W("endp8", 1),
             Kill("p8pid"), WaitClock, Until("any"), V("blkp8", 1)>>

test ==
  <<V("testsem", 1), Ensure("testsem"), Message, Create("p2"), Message,
    V("startp2", 1), W("endp2", 1), Ensure("p1p2synch"),
    Create("p3"), Store("p3pid"), Message, W("endp3", 1), Message,
    Create("p4"), Create("p5"), Create("p6"), Create("p7"), W("endp5", 1),
    Message, W("blkp4", 1), Message, V("blkp6", 1), W("endp6", 1), V("blkp8", 1)>>
  \o p8round
  \o <<Incr("p8inc"), Again("p8inc", Len(p8round) + 1), Message,
       Raise("pgm", "none")>>

\* The loop over s[] is one passage, over one of its semaphores.
p2 == <<W("startp2", 1), Message, Reset("s"), V("s", 1), W("s", 1), Ensure("s"),
        Message, Message, Incr("p1p2synch"), V("endp2", 1), Exit>>

p3 == <<GetPid, Ensure("ppid"), WaitClock, Until("any"), Message, WaitClock,
        Message, V("endp3", 1), Exit>>

p4_unsynced == <<Message, Incr("p4inc"), W("blkp4", 1), Ensure("p4inc"), Message,
                 Create("p4"), V("endp4", 1), Message, Exit>>     \* mutant

p4 == <<Message, Incr("p4inc"), V("synp4", 1), W("blkp4", 1), Ensure("p4inc"),
        W("synp4", 1), Message, Create("p4"), W("synp4", 1), V("endp4", 1),
        Message, Exit>>

p5 == <<Message, W("endp4", 1), WaitClock, Until("p4dead"), V("blkp4", 2),
        Create("p5a"), W("blkp5a", 1), Create("p5b"), W("blkp5b", 1),
        Create("p5c"), Create("p5c"), W("blkp5c", 1), Message, V("endp5", 1),
        SpecHdl("pgm"), SpecHdl("pgm")>>

p5a == <<SpecHdl("pgm"), Message, Raise("pgm", "p5prog_fetch")>>

p5b == <<SpecHdl("tlb"), Message, Raise("tlb", "p5mm")>>

p5c == <<SpecHdl("sys"), SpecHdl("pgm"), W("blkp5cint", 1),
         Branch("p5dmode", "p5c_user", "p5c_kernel")>>

\* In user mode the second call, SYS11, is a program trap.
p5c_user == <<Incr("p5dmode"), Message, Raise("sys", "p5sys_user"),
              Raise("pgm", "p5prog_instr")>>

p5c_kernel == <<Message, Raise("sys", "p5sys_kernel"), Message, Message,
                V("blkp5c", 1), Exit>>

p5prog_fetch == <<Message, V("blkp5a", 1), Exit>>
p5prog_instr == <<Message, V("blkp5cint", 1), Exit>>
p5mm         == <<Message, V("blkp5b", 1), Exit>>
p5sys_user   == <<Message, Message, ExitTrap>>
p5sys_kernel == <<Message, ExitTrap>>

p6_greedy == <<Message, W("blkp6", 3), Message, V("endp6", 1),
               Raise("sys", "none")>>                           \* mutant

p6 == <<Message, W("blkp6", 2), Message, V("endp6", 1), Raise("sys", "none")>>

p7 == <<Message, Message, V("blkp6", 1), Raise("pgm", "none")>>

p8root_hasty == <<GetPid, Store("p8pid"), Message, Create("child1"),
                  Create("child2"), W("endcreate", 1), Kill("leaf1pid"),
                  Kill("leaf2pid"), Kill("leaf3pid"), Kill("leaf4pid"),
                  V("blkleaves", 4), V("endp8", 1), W("blkp8", 1)>>
                                                                \* mutant

p8root == <<GetPid, Store("p8pid"), Message, Create("child1"), Create("child2"),
            W("endcreate", 4), Kill("leaf1pid"), Kill("leaf2pid"),
            Kill("leaf3pid"), Kill("leaf4pid"), V("blkleaves", 4),
            V("endp8", 1), W("blkp8", 1)>>

child1 == <<Message, Create("p8leaf"), Store("leaf1pid"),
            Create("p8leaf"), Store("leaf2pid"), W("blkp8", 1)>>

child2_late == <<Message, Create("p8leaf"), Store("leaf3pid"),
                 Create("p8leaf"), W("blkp8", 1), Store("leaf4pid")>>
                                                                \* mutant

child2 == <<Message, Create("p8leaf"), Store("leaf3pid"),
            Create("p8leaf"), Store("leaf4pid"), W("blkp8", 1)>>

p8leaf == <<Message, V("endcreate", 1), W("blkleaves", 1)>>

Code ==
  [test |-> test, p2 |-> p2, p3 |-> p3, p4 |-> p4, p5 |-> p5, p5a |-> p5a,
   p5b |-> p5b, p5c |-> p5c, p5c_user |-> p5c_user, p5c_kernel |-> p5c_kernel,
   p5prog_fetch |-> p5prog_fetch, p5prog_instr |-> p5prog_instr, p5mm |-> p5mm,
   p5sys_user |-> p5sys_user, p5sys_kernel |-> p5sys_kernel, p6 |-> p6,
   p7 |-> p7, p8root |-> p8root, child1 |-> child1, child2 |-> child2,
   p8leaf |-> p8leaf]

\* p5hdlflags: the handlers of exceptions run with interrupts disabled.
Handlers == {"p5prog_fetch", "p5prog_instr", "p5mm", "p5sys_user", "p5sys_kernel"}
Family   == {"p8root", "child1", "child2", "p8leaf"}

ASSUME TestAssumption ==
  /\ CHARS \in Nat \ {0} /\ RUNS \in Nat \ {0} /\ MaxSlices \in Nat
  /\ Sliced \subseteq DOMAIN Code
  /\ UserSem = Sems /\ SemInit = SemZero /\ Overrun = {}
  /\ Unit = {[line |-> IL_TERMINAL, dev |-> 0, recv |-> FALSE]}
  /\ Calls = SYS /\ Exclusive = FALSE /\ Weights = {-4, -2, -1, 1, 2, 4}

-----------------------------------------------------------------------------
(* Execution *)

\* at: the position in the function; in: the one in print, when it is called.
Started(f) == [fun |-> f, at |-> 1, in |-> 1, hdl |-> {}, back |-> <<>>, a1 |-> 0,
               failed |-> FALSE]

Me      == g_current_process
here    == run[Me].at
Past(r) == r.at > Len(Code[r.fun])
Prints(r) == ~Past(r) /\ Code[r.fun][r.at] = Message

\* p has come to the end of its function, or to the print of an error.
Done(p) == Past(run[p]) \/ run[p].failed
instr   == IF Prints(run[Me]) THEN print[run[Me].in] ELSE Code[run[Me].fun][here]

After(r)  == IF Prints(r) /\ r.in < Len(print) THEN [r EXCEPT !.in = @ + 1]
             ELSE [r EXCEPT !.in = 1, !.at = @ + 1]

Runs(op)  == phase = "user" /\ ~Done(Me) /\ instr.op = op
Goto(r)   == run' = [run EXCEPT ![Me] = r]
Advance   == Goto(After(run[Me]))
Result(v) == Goto([After(run[Me]) EXCEPT !.a1 = v])
Fail      == Goto([run[Me] EXCEPT !.failed = TRUE])

\* A call of semop does not come back from its PANIC.
Return    == IF phase' = "noSemd" THEN UNCHANGED run ELSE Advance

\* What the function compares before it prints an error.
Holds(c) ==
  CASE c = "testsem"   -> semval[S("testsem")] = 1
    [] c = "p1p2synch" -> mem.p1p2synch # 0
    [] c = "ppid"      -> run[Me].a1 = mem.p3pid
    [] c = "created"   -> mem.creation # -1
    [] c = "p4inc"     -> mem.p4inc # 3
    [] c = "s"         -> semval[S("s")] = 0
    [] c = "status"    -> p_a1[Me] = p_pid[Me]

\* An assumption, of p4 only: the loop of WAITCLOCK in p5, there "to be
\* reasonably sure p4 and its offspring are dead", does not end before they are.
Enough(c) ==
  c = "p4dead" => \A p \in Live : run[p].fun # "p4"

semopCall ==
  /\ Runs("semop")
  /\ semop(S(instr.arg), instr.n)
  /\ Return /\ UNCHANGED mem

createCall ==
  /\ Runs("create") /\ UNCHANGED mem
  /\ \/ /\ createProcess
        /\ run' = [run EXCEPT ![Me] = [After(@) EXCEPT !.a1 = pid_selector],
                              ![Head(pcbFree)] = Started(instr.arg)]
     \/ /\ g_process_count = MAXPROC
        /\ Result(-1) /\ UNCHANGED vars

\* SYS2 does nothing for a caller without children.
killCall ==
  /\ Runs("kill") /\ Advance /\ UNCHANGED mem
  /\ LET pid == mem[instr.arg] IN
       \/ pid = 0 /\ terminateSelf
       \/ terminateByPid(pid)
       \/ pid # 0 /\ p_children[Me] = <<>> /\ UNCHANGED vars

exitCall == Runs("exit") /\ terminateSelf /\ Advance /\ UNCHANGED mem

clockCall == Runs("clock") /\ waitClock /\ Return /\ UNCHANGED mem

ioCall ==
  /\ Runs("io")
  /\ \E u \in Unit : ioDevop(u)
  /\ Return /\ UNCHANGED mem

\* SYS4 to SYS6 terminate a process that has specified this handler before.
specCall ==
  /\ Runs("spec") /\ UNCHANGED mem
  /\ \/ /\ instr.arg \notin run[Me].hdl
        /\ Goto([run[Me] EXCEPT !.at = here + 1, !.hdl = @ \cup {instr.arg}])
        /\ UNCHANGED vars
     \/ instr.arg \in run[Me].hdl /\ terminateSelf /\ Advance

\* An exception is passed up to the handler of its kind or terminates.
raise ==
  /\ Runs("raise") /\ UNCHANGED mem
  /\ \/ /\ instr.arg \in run[Me].hdl
        /\ Goto([run[Me] EXCEPT !.fun = instr.to, !.at = 1,
                               !.back = <<run[Me].fun, here + 1>>])
        /\ UNCHANGED vars
     \/ instr.arg \notin run[Me].hdl /\ terminateSelf /\ Advance

exitTrap ==
  /\ Runs("exitTrap") /\ UNCHANGED <<mem, vars>>
  /\ Goto([run[Me] EXCEPT !.fun = run[Me].back[1], !.at = run[Me].back[2],
                         !.back = <<>>])

getPid == Runs("getPid") /\ Result(p_pid[Me]) /\ UNCHANGED <<mem, vars>>

\* What a process does to the variables it shares.
store ==
  /\ Runs("store") /\ Advance /\ UNCHANGED vars
  /\ mem' = [mem EXCEPT ![instr.arg] = run[Me].a1]

incr ==
  /\ Runs("incr") /\ Advance /\ UNCHANGED vars
  /\ mem' = [mem EXCEPT ![instr.arg] = @ + 1]

reset ==
  /\ Runs("reset") /\ Advance /\ UNCHANGED mem
  /\ semval' = [semval EXCEPT ![S(instr.arg)] = 0]
  /\ UNCHANGED <<pcbFree, g_ready_queue, g_current_process, treeVars, aslVars,
                 p_a1, countVars, dev, phase, killVars, vop>>

ensure ==
  /\ Runs("ensure") /\ UNCHANGED <<mem, vars>>
  /\ IF Holds(instr.arg) THEN Advance ELSE Fail

branch ==
  /\ Runs("branch") /\ UNCHANGED <<mem, vars>>
  /\ Goto([run[Me] EXCEPT !.at = 1,
              !.fun = IF mem[instr.arg] = 0 THEN instr.to ELSE instr.else])

until ==
  /\ Runs("until") /\ UNCHANGED <<mem, vars>>
  /\ Goto([run[Me] EXCEPT !.at = IF Enough(instr.arg) THEN @ + 1 ELSE @ - 1])

again ==
  /\ Runs("again") /\ UNCHANGED <<mem, vars>>
  /\ Goto([run[Me] EXCEPT !.at = IF mem[instr.arg] < RUNS THEN @ - instr.n
                                 ELSE @ + 1])

Program == \/ semopCall \/ createCall \/ killCall \/ exitCall \/ clockCall
           \/ ioCall \/ specCall \/ raise \/ exitTrap \/ getPid
           \/ store \/ incr \/ reset \/ ensure \/ branch \/ until
           \/ again

-----------------------------------------------------------------------------
(* The program on the nucleus *)

TestInit ==
  /\ Init
  /\ run = [p \in Proc |-> Started("test")]
  /\ mem = [p1p2synch |-> 0, p4inc |-> 1, p5dmode |-> 0, p8inc |-> 0, creation |-> 0,
            p3pid |-> 0, p8pid |-> 0, leaf1pid |-> 0, leaf2pid |-> 0,
            leaf3pid |-> 0, leaf4pid |-> 0]
  /\ slices = 0

\* The slice of the running process ends.
switch ==
  /\ slices < MaxSlices                                     \* bound
  /\ Me # NULL /\ run[Me].fun \in Sliced
  /\ slice(TRUE)
  /\ slices' = slices + 1 /\ UNCHANGED <<run, mem>>

\* A pass of a loop of WAITCLOCK has taken less than half the clock's interval,
\* because it began late in the period: there is another.
anotherPass ==
  /\ slices < MaxSlices                                     \* bound
  /\ Runs("until") /\ Enough(instr.arg)
  /\ Goto([run[Me] EXCEPT !.at = @ - 1])
  /\ slices' = slices + 1 /\ UNCHANGED <<mem, vars>>

handlers == \/ scheduler \/ childByPid \/ killChild \/ reap
            \/ wake \/ endV \/ tick \/ slice(FALSE)

Unmasked == phase = "user" => run[Me].fun \notin Handlers

timer(expired) == Unmasked /\ handleTimer(expired)

terminal == Unmasked /\ \E u \in Unit : handleDevices(u)

printed == \E u \in Unit : deviceDone(u)

TestNext ==
  \/ Program /\ UNCHANGED slices
  \/ switch \/ anotherPass
  \/ /\ UNCHANGED <<run, mem, slices>>
     /\ \/ handlers \/ terminal \/ printed \/ stopped
        \/ \E expired \in BOOLEAN : timer(expired)

TestSpec == TestInit /\ [][TestNext]_pvars

TestFair ==
  /\ TestSpec
  /\ SF_pvars(Program /\ UNCHANGED slices)
  /\ WF_pvars(handlers /\ UNCHANGED <<run, mem, slices>>)
  /\ SF_pvars(timer(TRUE) /\ UNCHANGED <<run, mem, slices>>)
  /\ SF_pvars(terminal /\ UNCHANGED <<run, mem, slices>>)
  /\ WF_pvars(printed /\ UNCHANGED <<run, mem, slices>>)

-----------------------------------------------------------------------------
(* Properties *)

\* Every comparison of the test program finds what it should, no process gets
\* past a call that should end it or past a semaphore on which it is to be
\* killed, and the nucleus does not stop but by HALT.
TestPasses ==
  /\ phase = "user" => ~Done(Me)
  /\ phase \notin Final \ {"halt"}

\* Processes use the terminal one at a time: who starts an operation finds it
\* idle and nobody waiting, which is the discipline called Exclusive.
TerminalShared ==
  Runs("io") => \A u \in Unit : dev[u].st = "idle" /\ headBlocked(IoSem(u)) = NULL

\* p has begun to print and is past its P on term_mut.
Holding(p) == run[p].in > 1 /\ ~(p \in Blocked /\ WaitsOn(p) = S("term_mut"))

\* The lock of the terminal is free or held by one live process: none is
\* terminated while it prints or waits to print.
LockKept ==
  Cardinality({p \in Live : Holding(p)}) + SemVal(S("term_mut")) = 1

\* A pid that is passed to SYS2 is that of a live process: the results of
\* SYS1 are stored before anybody uses them, and none is left from an earlier
\* incarnation of p8.
KillHits ==
  Runs("kill") => \E p \in Live : p_pid[p] = mem[instr.arg] /\ run[p].fun \in Family

\* When p1 has terminated p8, all that p8 has brought forth is dead.
FamilyDies ==
  Runs("clock") /\ run[Me].fun = "test" =>
    \A p \in Live : run[p].fun \notin Family

\* The test program ends.
TestEnds == <>(phase = "halt")
=============================================================================
