----------------------------- MODULE TestProofs -----------------------------
(***************************************************************************)
(* The test program on the nucleus, for every number of pcbs, of           *)
(* incarnations of p8, of characters in a message and of slices that end,  *)
(* wherever they end: who holds the lock of the terminal is alive, an      *)
(* operation of the terminal finds it idle, and SYS2 with the pid of       *)
(* p8root leaves nobody of its family behind.                              *)
(*                                                                         *)
(* That nobody dies in print rests on what the semaphores of the program   *)
(* see to (TestSync), and that they do on who is alive.  So all of it is   *)
(* one induction, over a view of the state that leaves out those whom the  *)
(* recursion of SYS2 is about to free.                                     *)
(***************************************************************************)
EXTENDS TestSync, NucleusProofs

-----------------------------------------------------------------------------
(* The state of the test program, seen from its processes *)

Closed(X) == \A p \in X : ToSet(p_children[p]) \subseteq X

\* Those that the recursion of SYS2 will terminate, and the others.
Doomed == {p \in Live : \A X \in SUBSET Live :
                           ToSet(stack) \subseteq X /\ Closed(X) => p \in X}
Standing == Live \ Doomed

\* The position of a process; one that is blocked in a call is still there.
pos(p) == IF p \in Blocked /\ run[p].in = 1 THEN run[p].at - 1 ELSE run[p].at

View == [live |-> Standing,
         fun  |-> [p \in Proc |-> run[p].fun],
         pos  |-> [p \in Proc |-> pos(p)],
         par  |-> p_parent,
         val  |-> [x \in Counted |-> SemVal(S(x))],
         mode |-> mem.p5dmode]

RunType == [fun : Functions, at : Nat, in : Nat, hdl : SUBSET Kinds,
            back : {<<>>} \cup (Functions \X Nat), a1 : Int, failed : BOOLEAN]

RunTypes == /\ run \in [Proc -> RunType]
            /\ mem \in [MemNames -> Int] /\ mem.p5dmode \in Nat

Fits(r) ==
  /\ r.at \in 1 .. Len(Code[r.fun]) + 1
  /\ r.in \in 1 .. Len(print) /\ (r.in > 1 => Prints(r))
  /\ r.fun \in {"test", "p6", "p7"} => r.hdl = {}
  /\ r.fun = "p5sys_user" => r.back = <<"p5c_user", 4>>
  /\ r.fun = "p5sys_kernel" => r.back = <<"p5c_kernel", 3>>

RunOK == \A p \in Proc : Fits(run[p])

\* The call in which p is blocked.
Prev(p) == IF run[p].in > 1 THEN print[run[p].in - 1] ELSE Code[run[p].fun][run[p].at - 1]

BlockedIn(p, c) ==
  \/ c.op = "semop" /\ WaitsOn(p) = S(c.arg) /\ res_requested[p] = -c.n
  \/ c.op = "clock" /\ WaitsOn(p) = Clock
  \/ c.op = "io" /\ res_requested[p] = 1 /\ \E u \in Unit : WaitsOn(p) = IoSem(u)

BlockedAt ==
  \A p \in Blocked : (run[p].in > 1 \/ run[p].at > 1) /\ BlockedIn(p, Prev(p))

SearchOK ==
  phase = "search" =>
    \/ run[Me].fun = "test" /\ run[Me].at = 32
    \/ run[Me].fun = "p8root" /\ run[Me].at \in 8 .. 11 /\ run[cursor].fun \in Family

DoomOK == \A p \in Doomed : run[p].in = 1

Stands ==
  /\ Standing # {} => 1 \in Standing
  /\ 1 \in Standing => p_parent[1] = NULL /\ Sync(View)

\* The terminal.
Waiting(a) == {p \in Blocked : WaitsOn(p) = a}
Signals(a) == phase = "semop" /\ vop.sem = a

TermOK ==
  \A u \in Unit :
    LET a == IoSem(u) IN
    /\ semval[a] = 0
    /\ IF Signals(a)
       THEN dev[u].st = "idle" /\ vop.free = N(Waiting(a) # {})
       ELSE dev[u].st # "idle" => Waiting(a) # {}

SInv ==
  /\ TInv /\ RunTypes /\ RunOK /\ BlockedAt /\ SearchOK /\ LockKept /\ TermOK
  /\ phase # "wild" => DoomOK /\ Stands

-----------------------------------------------------------------------------
(* What the parts of the nucleus do to queues *)

Same(p) == WaitsOn(p)' = WaitsOn(p) /\ res_requested'[p] = res_requested[p]

QSame   == Blocked' = Blocked /\ \A p \in Blocked : Same(p)
QIn(p, a, n) ==
  /\ p \notin Blocked /\ Blocked' = Blocked \cup {p}
  /\ s_semAdd'[p_cursem'[p]] = a /\ res_requested'[p] = n
  /\ \A q \in Blocked : Same(q)
QOut(p) == Blocked' = Blocked \ {p} /\ \A q \in Blocked \ {p} : Same(q)

LEMMA Alive ==
  ASSUME TInv, phase \in {"user", "search", "kill"}
  PROVE  /\ Base /\ Me \in Proc /\ Me \in Live /\ Me \notin Blocked
         /\ phase # "kill" => stack = <<>>
<1>1. Base
  BY NotWild
<1>2. Me \in Proc
  BY <1>1 DEF Base, TypeOK, ProcTypes, PhaseTypes, Me
<1> QED BY <1>1, <1>2 DEF Base, Structure, Apart, Live, Blocked, Queued, Me, TInv, Kills

LEMMA NotNull == NULL \notin Proc /\ Proc \subseteq Nat \ {0} /\ 1 \in Proc
BY ConstAssumption DEF NULL, Proc

\* Of a process that is blocked p_cursem names its queue.
LEMMA BlockedFacts ==
  ASSUME TInv
  PROVE  /\ \A p \in Blocked : /\ p \in Proc /\ p_cursem[p] \in aslh
                               /\ p_cursem[p] \in Semd /\ p \in Queued(p_cursem[p])
                               /\ WaitsOn(p) \in Sem /\ res_requested[p] > 0
         /\ \A p : p \in Blocked <=> \E d \in Semd : p \in Queued(d)
         /\ phase # "wild" => \A p \in Blocked : p \in Live
<1>1. \A p : p \in Blocked <=> \E d \in Semd : p \in Queued(d)
  BY DEF Blocked, Queued
<1>2. ASSUME NEW p \in Blocked
      PROVE  /\ p \in Proc /\ p_cursem[p] \in aslh
             /\ p_cursem[p] \in Semd /\ p \in Queued(p_cursem[p])
             /\ WaitsOn(p) \in Sem /\ res_requested[p] > 0
  <2>1. PICK d \in Semd : p \in Queued(d)
    BY <1>1
  <2>2. p_cursem[p] = d /\ res_requested[p] > 0
    BY <2>1 DEF TInv, AslInv, AslCursem
  <2>3. s_procq[d] # <<>> /\ p \in Proc
    BY <2>1 DEF Queued, ToSet, TInv, TypeOK, SemTypes
  <2>4. d \in aslh
    BY <2>3 DEF TInv, AslInv, AslQueues
  <2> QED BY <2>1, <2>2, <2>3, <2>4 DEF WaitsOn, TInv, AslInv, AslAddr
<1>3. ASSUME phase # "wild", NEW p \in Blocked PROVE p \in Live
  BY <1>1, <1>2, <1>3 DEF TInv, Apart, Live
<1> QED BY <1>1, <1>2, <1>3

LEMMA QStays ==
  ASSUME UNCHANGED <<s_procq, p_cursem, s_semAdd, res_requested>>
  PROVE  QSame
BY DEF QSame, Same, Blocked, WaitsOn

\* The process that runs takes what it asks for, or it blocks, or no
\* descriptor is left.
LEMMA PCases ==
  ASSUME TInv, phase = "user", NEW a \in Sem, NEW w \in Int, w < 0, P(a, w)
  PROVE  \/ /\ phase' = "user" /\ QSame /\ headBlocked(a) = NULL /\ semval[a] + w >= 0
            /\ semval' = [semval EXCEPT ![a] = @ + w]
         \/ /\ phase' = "sched" /\ QIn(Me, a, -w) /\ UNCHANGED semval
            /\ ~granted(a, w)
         \/ phase' = "noSemd" /\ QSame /\ UNCHANGED semval
<1>1. Base /\ Me \in Proc /\ Me \notin Blocked
  BY Alive
<1>2. CASE granted(a, w)
  BY <1>2, QStays DEF P, granted, aslVars
<1>3. CASE ~granted(a, w) /\ ~CanInsert(a)
  BY <1>3, QStays DEF P, aslVars
<1>4. CASE ~granted(a, w) /\ CanInsert(a)
  <2>1. /\ insertBlocked(a, Me) /\ res_requested' = [res_requested EXCEPT ![Me] = -w]
        /\ phase' = "sched" /\ UNCHANGED semval
    BY <1>4 DEF P, Me
  <2>2. \A e \in Semd : Me \notin Queued(e)
    BY <1>1 DEF Blocked, Queued
  <2>3. PICK d \in Semd : Inserted(a, Me, d)
    BY <1>1, <1>4, <2>1, <2>2, InsertEffect
  <2>4. /\ \A e \in Semd \ {d} : Queued(e)' = Queued(e)
        /\ Queued(d)' = Queued(d) \cup {Me}
    BY <2>3 DEF Inserted, Queued
  <2>5. Blocked' = Blocked \cup {Me}
    <3>1. \A q : q \in Blocked <=> \E e \in Semd : q \in Queued(e)
      BY DEF Blocked, Queued
    <3>2. \A q : q \in Blocked' <=> \E e \in Semd : q \in Queued(e)'
      BY DEF Blocked, Queued
    <3> QED BY <2>4, <3>1, <3>2
  <2>6. p_cursem \in [Proc -> Semd \cup {NULL}] /\ res_requested \in [Proc -> Nat]
        /\ s_semAdd \in [Semd -> Sem \cup {NoAddr}]
    BY DEF TInv, TypeOK, SemTypes
  <2>7. s_semAdd'[p_cursem'[Me]] = a /\ res_requested'[Me] = -w
    <3>1. p_cursem' = [p_cursem EXCEPT ![Me] = d] /\ s_semAdd'[d] = a
      BY <2>3 DEF Inserted
    <3>2. p_cursem'[Me] = d
      BY <1>1, <2>6, <3>1, Zenon
    <3>3. res_requested'[Me] = -w
      BY <1>1, <2>1, <2>6, Zenon
    <3> QED BY <3>1, <3>2, <3>3
  <2>8. ASSUME NEW q \in Blocked PROVE Same(q)
    <3>1. /\ q \in Proc /\ q # Me /\ p_cursem[q] \in aslh /\ p_cursem[q] \in Semd
      BY <1>1, BlockedFacts
    <3>2. p_cursem'[q] = p_cursem[q] /\ res_requested'[q] = res_requested[q]
      BY <2>1, <2>3, <2>6, <3>1 DEF Inserted
    <3>3. s_semAdd'[p_cursem[q]] = s_semAdd[p_cursem[q]]
      BY <2>3, <2>6, <3>1 DEF Inserted
    <3> QED BY <3>2, <3>3 DEF Same, WaitsOn
  <2> QED BY <1>1, <1>4, <2>1, <2>5, <2>7, <2>8 DEF QIn
<1> QED BY <1>2, <1>3, <1>4

-----------------------------------------------------------------------------
(* Every step of the test program is one that the nucleus allows *)

LEMMA NextKeeps ==
  ASSUME TInv, [Next]_vars
  PROVE  TInv'
<1>1. TypeOK' /\ CountMatches'
  BY TypeNext, CountNext DEF TInv
<1>2. AslInv' /\ (phase' # "wild" => Apart' /\ Placed')
  BY PlacesStep
<1>3. TreeInv' /\ Kills' /\ PidInv'
  BY TreeStep
<1> QED BY <1>1, <1>2, <1>3 DEF TInv

\* SYS2 with any pid.
LEMMA PidKeeps ==
  ASSUME TInv, NEW pid \in Int, terminateByPid(pid)
  PROVE  TInv'
<1>1. TypeOK'
  BY TypeTerminate DEF TInv
<1>2. TreeInv' /\ Kills' /\ PidInv'
  BY TerminateTree
<1>3. /\ UNCHANGED <<pcbFree, g_ready_queue, g_current_process, aslVars, g_process_count>>
      /\ phase = "user"
  BY DEF terminateByPid, unchangedBySearch, countVars, Issues
<1>4. CountMatches' /\ AslInv' /\ Apart' /\ Placed'
  BY <1>3 DEF TInv, CountMatches, aslVars, AslInv, AslQueues, AslDistinct, AslCursem, AslFree,
              AslAddr, Apart, Placed, Queued
<1> QED BY <1>1, <1>2, <1>4 DEF TInv

LEMMA ResetKeeps ==
  ASSUME TInv, NEW x \in SemNames, semval' = [semval EXCEPT ![S(x)] = 0],
         UNCHANGED <<pcbFree, g_ready_queue, g_current_process, treeVars, aslVars,
                     p_a1, countVars, dev, phase, killVars, vop>>
  PROVE  TInv'
<1> USE DEF aslVars, treeVars, countVars, killVars
<1>1. TypeOK'
  <2>1. SemTypes'
    BY DEF TInv, TypeOK, SemTypes
  <2>2. ProcTypes' /\ CountTypes' /\ PhaseTypes'
    BY DEF TInv, TypeOK, ProcTypes, CountTypes, PhaseTypes
  <2> QED BY <2>1, <2>2 DEF TypeOK
<1>2. TreeInv' /\ Kills' /\ PidInv'
  BY TreeStays
<1>3. CountMatches' /\ AslInv' /\ (phase' # "wild" => Apart' /\ Placed')
  BY DEF TInv, CountMatches, AslInv, AslQueues, AslDistinct, AslCursem, AslFree,
         AslAddr, Apart, Placed, Queued
<1> QED BY <1>1, <1>2, <1>3 DEF TInv

\* What the running process does next.
LEMMA InstrIs ==
  ASSUME RunTypes, RunOK, Me \in Proc, ~Done(Me)
  PROVE  LET r == run[Me] IN
         /\ r.fun \in Functions /\ r.at \in 1 .. Len(Code[r.fun]) /\ r.in \in 1 .. Len(print)
         /\ Prints(r) <=> r.at \in Loud[r.fun]
         /\ Prints(r) => /\ instr = print[r.in] /\ Code[r.fun][r.at] = Message
                         /\ r.in = 1 => instr = W("term_mut", 1)
                         /\ r.in = Len(print) => instr = V("term_mut", 1)
                         /\ r.in \in 2 .. Len(print) - 1 => instr \in {IoDevop, Status}
         /\ ~Prints(r) => instr = Code[r.fun][r.at] /\ r.in = 1
         /\ Legal(r.fun, r.at, Code[r.fun][r.at])
<1> DEFINE r == run[Me]
<1>1. r \in RunType /\ Fits(r) /\ ~Past(r)
  BY DEF RunTypes, RunOK, Done
<1>2. r.fun \in Functions /\ r.in \in Nat /\ r.at \in Nat
  BY <1>1 DEF RunType
<1>3. /\ Len(Code[r.fun]) \in Nat
      /\ \A k \in 1 .. Len(Code[r.fun]) : Legal(r.fun, k, Code[r.fun][k])
  BY <1>2, Text
<1>4. r.at \in 1 .. Len(Code[r.fun]) /\ r.in \in 1 .. Len(print) /\ (r.in > 1 => Prints(r))
  BY <1>1, <1>2, <1>3 DEF Fits, Past
<1>5. Legal(r.fun, r.at, Code[r.fun][r.at])
  BY <1>3, <1>4
<1>6. Prints(r) <=> Code[r.fun][r.at] = Message
  BY <1>1, Zenon DEF Prints
<1>7. Prints(r) <=> r.at \in Loud[r.fun]
  BY <1>5, <1>6, Zenon DEF Legal, DataAt
<1>8. instr = IF Prints(r) THEN print[r.in] ELSE Code[r.fun][r.at]
  BY DEF instr, here
<1>9. ~Prints(r) => r.in = 1
  BY <1>2, <1>4
<1> QED BY <1>2, <1>4, <1>5, <1>6, <1>7, <1>8, <1>9, PrintIs, Zenon

LEMMA SemsAre ==
  /\ \A x \in SemNames : S(x) \in UserSem /\ S(x) \in Sem /\ S(x) # Clock
  /\ \A x \in SemNames, u \in Unit : S(x) # IoSem(u)
  /\ \A u \in Unit : IoSem(u) = IntSem(u) /\ IoSem(u) \in Sem /\ IoSem(u) # Clock
  /\ \A u, v \in Unit : u = v
  /\ \A x, y \in SemNames : S(x) = S(y) => x = y
<1>1. UserSem = Sems /\ Unit = {[line |-> IL_TERMINAL, dev |-> 0, recv |-> FALSE]}
  BY TestAssumption
<1>2. \A x \in SemNames : S(x) \in UserSem /\ S(x) \in Sem
  BY <1>1 DEF Sems, Sem
<1>3. \A u \in Unit : IoSem(u) \in DevCells /\ IoSem(u) \in Sem
  BY DEF DevCells, Sem
<1>4. UserSem \cap (DevCells \cup {Clock}) = {} /\ Clock \notin DevCells
  BY AddrAssumption
<1>5. \A u \in Unit : IoSem(u) = IntSem(u)
  BY <1>1 DEF IoSem, IntSem, IL_TERMINAL, DEV_IL_START
<1>6. \A x, y \in SemNames : S(x) = S(y) => x = y
  BY DEF S
<1>7. \A u, v \in Unit : u = v
  BY <1>1
<1> QED BY <1>2, <1>3, <1>4, <1>5, <1>6, <1>7

\* A call of semop is in print, on the terminal's lock, or of those counted.
LEMMA SemopIs ==
  ASSUME RunTypes, RunOK, Me \in Proc, ~Done(Me), instr.op = "semop"
  PROVE  instr.n \in Weights /\ instr.n # 0 /\ instr.n \in Int /\ instr.arg \in SemNames
<1>1. CASE Prints(run[Me])
  <2>1. run[Me].in \in 1 .. Len(print) /\ Len(print) \in Nat
    BY InstrIs, PrintIs
  <2>2. run[Me].in = 1 \/ run[Me].in = Len(print) \/ run[Me].in \in 2 .. Len(print) - 1
    BY <2>1
  <2>3. instr \in {W("term_mut", 1), V("term_mut", 1), IoDevop, Status}
    BY <1>1, <2>2, InstrIs
  <2> QED BY <2>3, TestAssumption DEF W, V, IoDevop, Status, SemNames
<1>2. CASE ~Prints(run[Me])
  <2>1. Legal(run[Me].fun, run[Me].at, instr)
    BY <1>2, InstrIs
  <2> QED BY <2>1, TestAssumption DEF Legal, SemopAt
<1> QED BY <1>1, <1>2

LEMMA ProgramKeeps ==
  ASSUME TInv, RunTypes, RunOK, Program
  PROVE  TInv'
<1>1. phase = "user" /\ ~Done(Me) /\ Me \in Proc
  <2>1. phase = "user" /\ ~Done(Me)
    BY DEF Program, semopCall, createCall, killCall, exitCall, clockCall, ioCall, specCall,
           raise, exitTrap, getPid, store, incr, reset, ensure, branch, until, again, Runs
  <2> QED BY <2>1, Alive
<1>2. CASE semopCall
  <2>1. semop(S(instr.arg), instr.n) /\ instr.op = "semop"
    BY <1>2 DEF semopCall, Runs
  <2>2. S(instr.arg) \in UserSem /\ instr.n \in Weights
    BY <1>1, <2>1, SemopIs, SemsAre
  <2>3. Next
    BY <2>1, <2>2 DEF Next, Call
  <2> QED BY <2>3, NextKeeps
<1>3. CASE terminateSelf \/ createProcess \/ waitClock \/ \E u \in Unit : ioDevop(u)
  <2>1. Next
    BY <1>3 DEF Next, Call
  <2> QED BY <2>1, NextKeeps
<1>4. CASE UNCHANGED vars
  BY <1>4, NextKeeps
<1>5. CASE killCall
  <2>1. instr.op = "kill" /\ ~Prints(run[Me])
    <3>1. instr.op = "kill"
      BY <1>5 DEF killCall, Runs
    <3>2. CASE Prints(run[Me])
      <4>1. run[Me].in \in 1 .. Len(print) /\ Len(print) \in Nat
        BY <1>1, InstrIs, PrintIs
      <4>2. run[Me].in = 1 \/ run[Me].in = Len(print) \/ run[Me].in \in 2 .. Len(print) - 1
        BY <4>1
      <4>3. instr \in {W("term_mut", 1), V("term_mut", 1), IoDevop, Status}
        BY <1>1, <3>2, <4>2, InstrIs
      <4> QED BY <3>1, <4>3 DEF W, V, IoDevop, Status
    <3> QED BY <3>1, <3>2
  <2>2. mem[instr.arg] \in Int
    <3>1. Legal(run[Me].fun, run[Me].at, instr)
      BY <1>1, <2>1, InstrIs
    <3> QED BY <2>1, <3>1 DEF Legal, EndAt, RunTypes
  <2>3. terminateSelf \/ terminateByPid(mem[instr.arg]) \/ UNCHANGED vars
    BY <1>5 DEF killCall
  <2> QED BY <1>3, <1>4, <2>2, <2>3, PidKeeps
<1>6. CASE reset
  <2>1. instr.op = "reset" /\ ~Prints(run[Me])
    <3>1. instr.op = "reset"
      BY <1>6 DEF reset, Runs
    <3>2. CASE Prints(run[Me])
      <4>1. run[Me].in \in 1 .. Len(print) /\ Len(print) \in Nat
        BY <1>1, InstrIs, PrintIs
      <4>2. run[Me].in = 1 \/ run[Me].in = Len(print) \/ run[Me].in \in 2 .. Len(print) - 1
        BY <4>1
      <4>3. instr \in {W("term_mut", 1), V("term_mut", 1), IoDevop, Status}
        BY <1>1, <3>2, <4>2, InstrIs
      <4> QED BY <3>1, <4>3 DEF W, V, IoDevop, Status
    <3> QED BY <3>1, <3>2
  <2>2. instr.arg \in SemNames
    <3>1. Legal(run[Me].fun, run[Me].at, instr)
      BY <1>1, <2>1, InstrIs
    <3> QED BY <2>1, <3>1 DEF Legal, DataAt, SemNames
  <2> QED BY <1>6, <2>2, ResetKeeps DEF reset
<1>7. CASE createCall \/ exitCall \/ clockCall \/ ioCall \/ specCall \/ raise \/ exitTrap
           \/ getPid \/ store \/ incr \/ ensure \/ branch \/ until \/ again
  BY <1>3, <1>4, <1>7
     DEF createCall, exitCall, clockCall, ioCall, specCall, raise, exitTrap, getPid, store,
         incr, ensure, branch, until, again
<1> QED BY <1>2, <1>5, <1>6, <1>7 DEF Program

LEMMA TestKeeps ==
  ASSUME TInv, RunTypes, RunOK, [TestNext]_pvars
  PROVE  TInv'
<1>1. CASE Program
  BY <1>1, ProgramKeeps
<1>2. CASE switch
  <2>1. Next
    BY <1>2 DEF switch, Next, Internal
  <2> QED BY <2>1, NextKeeps
<1>3. CASE handlers \/ terminal \/ printed \/ stopped \/ \E expired \in BOOLEAN : timer(expired)
  <2>1. Next
    BY <1>3 DEF handlers, terminal, printed, timer, Next, Internal, Interrupt
  <2> QED BY <2>1, NextKeeps
<1>4. CASE UNCHANGED pvars \/ anotherPass
  BY <1>4, NextKeeps DEF pvars, anotherPass
<1> QED BY <1>1, <1>2, <1>3, <1>4 DEF TestNext

-----------------------------------------------------------------------------
(* Those that SYS2 terminates, and the others *)

LEMMA DoomedFacts ==
  ASSUME TInv
  PROVE  /\ Live \subseteq Proc /\ Doomed \subseteq Live /\ Standing \subseteq Live
         /\ ToSet(stack) \subseteq Doomed /\ ToSet(stack) \subseteq Proc
         /\ Closed(Doomed) /\ Closed(Live)
         /\ \A X \in SUBSET Live : ToSet(stack) \subseteq X /\ Closed(X) => Doomed \subseteq X
         /\ stack = <<>> => Doomed = {} /\ Standing = Live
         /\ \A q \in Live : p_parent[q] # NULL => p_parent[q] \in Live
         /\ \A q \in Standing : p_parent[q] # NULL => p_parent[q] \in Standing
         /\ \A p, c \in Proc : c \in ToSet(p_children[p]) <=> p_parent[c] = p
         /\ \A p \in Proc : ToSet(p_children[p]) \subseteq Proc
<1>1. /\ stack \in Seq(Proc) /\ pcbFree \in Seq(Proc) /\ p_children \in [Proc -> Seq(Proc)]
      /\ p_parent \in [Proc -> Proc \cup {NULL}]
  BY DEF TInv, TypeOK, ProcTypes, PhaseTypes
<1>2. /\ Live \subseteq Proc /\ ToSet(stack) \subseteq Live /\ ToSet(stack) \subseteq Proc
      /\ \A p \in Proc : ToSet(p_children[p]) \subseteq Proc
  <2>1. \A q \in Seq(Proc) : ToSet(q) \subseteq Proc
    BY DEF ToSet
  <2> QED BY <1>1, <2>1 DEF Live, TInv, TreeInv, Stacked
<1>3. \A p, c \in Proc : c \in ToSet(p_children[p]) <=> p_parent[c] = p
  BY DEF TInv, TreeInv, Links
<1>4. \A p \in ToSet(pcbFree) : p_parent[p] = NULL /\ p_children[p] = <<>>
  BY DEF TInv, TreeInv, FreeBare
<1>5. NULL \notin Proc /\ ToSet(<<>>) = {}
  BY NotNull DEF ToSet
<1>6. Closed(Live)
  <2> SUFFICES ASSUME NEW p \in Live, NEW c \in ToSet(p_children[p]) PROVE c \in Live
    BY DEF Closed
  <2>1. p \in Proc /\ c \in Proc
    BY <1>2
  <2>2. p_parent[c] = p /\ p # NULL
    BY <1>3, <1>5, <2>1
  <2> QED BY <1>4, <2>1, <2>2 DEF Live
<1>7. Doomed \subseteq Live /\ ToSet(stack) \subseteq Doomed
  BY <1>2 DEF Doomed
<1>8. \A X \in SUBSET Live : ToSet(stack) \subseteq X /\ Closed(X) => Doomed \subseteq X
  BY DEF Doomed
<1>9. Closed(Doomed)
  <2> SUFFICES ASSUME NEW p \in Doomed, NEW c \in ToSet(p_children[p]) PROVE c \in Doomed
    BY DEF Closed
  <2>1. p \in Live /\ c \in Live
    BY <1>6, <1>7 DEF Closed
  <2> SUFFICES ASSUME NEW X \in SUBSET Live, ToSet(stack) \subseteq X, Closed(X) PROVE c \in X
    BY <2>1 DEF Doomed
  <2>2. p \in X
    BY DEF Doomed
  <2> QED BY <2>2 DEF Closed
<1>10. ASSUME stack = <<>> PROVE Doomed = {} /\ Standing = Live
  <2>1. {} \in SUBSET Live /\ ToSet(stack) \subseteq {} /\ Closed({})
    BY <1>5, <1>10 DEF Closed
  <2>2. Doomed \subseteq {}
    BY <1>8, <2>1
  <2> QED BY <2>2 DEF Standing
<1>11. \A q \in Live : p_parent[q] # NULL => p_parent[q] \in Live
  <2> SUFFICES ASSUME NEW q \in Live, p_parent[q] # NULL, p_parent[q] \notin Live PROVE FALSE
    OBVIOUS
  <2>1. q \in Proc /\ p_parent[q] \in Proc
    BY <1>1, <1>2
  <2>2. p_parent[q] \in ToSet(pcbFree) /\ q \in ToSet(p_children[p_parent[q]])
    BY <1>3, <2>1 DEF Live
  <2> QED BY <1>4, <1>5, <2>2
<1>12. \A q \in Standing : p_parent[q] # NULL => p_parent[q] \in Standing
  <2> SUFFICES ASSUME NEW q \in Standing, p_parent[q] # NULL, p_parent[q] \in Doomed PROVE FALSE
    BY <1>11 DEF Standing
  <2>1. q \in ToSet(p_children[p_parent[q]])
    BY <1>1, <1>2, <1>3 DEF Standing
  <2> QED BY <1>9, <2>1 DEF Closed, Standing
<1> QED BY <1>2, <1>3, <1>6, <1>7, <1>8, <1>9, <1>10, <1>11, <1>12 DEF Standing

LEMMA StillStands ==
  ASSUME UNCHANGED <<pcbFree, p_children, stack>>
  PROVE  Live' = Live /\ Doomed' = Doomed /\ Standing' = Standing
<1>1. Live' = Live
  BY DEF Live
<1>2. \A X : Closed(X)' <=> Closed(X)
  BY DEF Closed
<1>3. Doomed' = Doomed
  BY <1>1, <1>2 DEF Doomed
<1> QED BY <1>1, <1>3 DEF Standing

LEMMA KillStands ==
  ASSUME TInv, killChild
  PROVE  /\ Live' = Live /\ Doomed' = Doomed /\ Standing' = Standing
         /\ \A q \in Standing : p_parent'[q] = p_parent[q]
<1> DEFINE l == Last(stack)
           c == Head(p_children[l])
<1>1. /\ stack \in Seq(Proc) /\ stack # <<>> /\ p_children \in [Proc -> Seq(Proc)]
      /\ p_parent \in [Proc -> Proc \cup {NULL}]
  BY DEF killChild, TInv, TypeOK, ProcTypes, PhaseTypes
<1>2. l \in Proc /\ l \in ToSet(stack)
  BY <1>1, FrontProperties
<1>3. /\ p_children[l] # <<>> /\ p_children' = [p_children EXCEPT ![l] = Tail(@)]
      /\ p_parent' = [p_parent EXCEPT ![c] = NULL]
      /\ stack' = Append(stack, c) /\ pcbFree' = pcbFree
  BY DEF killChild, unchangedBySearch
<1>4. /\ c \in Proc /\ c \in ToSet(p_children[l])
      /\ ToSet(Tail(p_children[l])) = ToSet(p_children[l]) \ {c}
  <2>1. p_children[l] \in Seq(Proc) /\ IsInjective(p_children[l])
    BY <1>1, <1>2 DEF TInv, TreeInv, Links
  <2> QED BY <1>3, <2>1, TailProperties
<1> HIDE DEF l, c
<1>5. \A p \in Proc : ToSet(p_children'[p]) = IF p = l THEN ToSet(p_children[l]) \ {c}
                                              ELSE ToSet(p_children[p])
  BY <1>1, <1>2, <1>3, <1>4
<1>6. ToSet(stack') = ToSet(stack) \cup {c}
  BY <1>1, <1>3, <1>4, AppendList
<1>7. Live' = Live /\ Live \subseteq Proc
  BY <1>3 DEF Live
<1>8. \A X \in SUBSET Live : (ToSet(stack) \subseteq X /\ Closed(X))
                               <=> (ToSet(stack') \subseteq X /\ Closed(X)')
  <2> SUFFICES ASSUME NEW X \in SUBSET Live
               PROVE (ToSet(stack) \subseteq X /\ Closed(X))
                               <=> (ToSet(stack') \subseteq X /\ Closed(X)')
    OBVIOUS
  <2>1. \A p \in X : p \in Proc
    BY <1>7
  <2>2. ASSUME ToSet(stack) \subseteq X, Closed(X) PROVE ToSet(stack') \subseteq X /\ Closed(X)'
    BY <1>2, <1>4, <1>5, <1>6, <2>1, <2>2 DEF Closed
  <2>3. ASSUME ToSet(stack') \subseteq X, Closed(X)' PROVE ToSet(stack) \subseteq X /\ Closed(X)
    BY <1>2, <1>4, <1>5, <1>6, <2>1, <2>3 DEF Closed
  <2> QED BY <2>2, <2>3
<1>9. Doomed' = Doomed
  BY <1>7, <1>8 DEF Doomed
<1>10. c \in Doomed
  BY <1>2, <1>4, DoomedFacts DEF Closed
<1> QED BY <1>1, <1>3, <1>7, <1>9, <1>10 DEF Standing

LEMMA ReapStands ==
  ASSUME TInv, reap
  PROVE  /\ Live' = Live \ {Last(stack)} /\ Last(stack) \in Doomed
         /\ Doomed' = Doomed \ {Last(stack)} /\ Standing' = Standing
<1> DEFINE l == Last(stack)
<1>1. Reaped(l)
  BY ReapEffect
<1>2. /\ stack \in Seq(Proc) /\ stack # <<>> /\ IsInjective(stack)
      /\ stack' = Front(stack) /\ p_children' = p_children /\ p_children[l] = <<>>
      /\ p_parent[l] = NULL
  <2>1. stack \in Seq(Proc) /\ stack # <<>> /\ IsInjective(stack)
    BY DEF reap, TInv, TypeOK, PhaseTypes, TreeInv, Stacked
  <2>2. l \in ToSet(stack)
    BY <2>1, FrontProperties
  <2> QED BY <2>1, <2>2 DEF reap, treeVars, TInv, TreeInv, Stacked
<1>3. l \notin ToSet(Front(stack)) /\ ToSet(stack) = ToSet(Front(stack)) \cup {l}
  BY <1>2, FrontProperties
<1>4. Live' = Live \ {l} /\ l \in Doomed /\ l \in Live
  <2>1. Live' = Live \ {l}
    BY <1>1 DEF Reaped, Live
  <2> QED BY <1>3, <2>1, DoomedFacts
<1> HIDE DEF l
<1>5. \A p \in Proc : l \notin ToSet(p_children[p])
  BY <1>1, <1>2, NotNull, DoomedFacts DEF Reaped
<1>6. ToSet(p_children[l]) = {}
  BY <1>2 DEF ToSet
<1>7. \A q \in Doomed : q # l => q \in Doomed'
  <2> SUFFICES ASSUME NEW q \in Doomed, q # l, NEW X \in SUBSET (Live'),
                      ToSet(stack') \subseteq X, Closed(X)'
               PROVE  q \in X
    BY <1>4, DoomedFacts DEF Doomed
  <2>1. X \cup {l} \in SUBSET Live /\ ToSet(stack) \subseteq X \cup {l} /\ Closed(X \cup {l})
    BY <1>2, <1>3, <1>4, <1>6 DEF Closed
  <2>2. q \in X \cup {l}
    BY <2>1 DEF Doomed
  <2> QED BY <2>2
<1>8. \A q \in Doomed' : q \in Doomed /\ q # l
  <2> SUFFICES ASSUME NEW q \in Doomed', NEW X \in SUBSET Live, ToSet(stack) \subseteq X, Closed(X)
               PROVE  q \in X /\ q # l /\ q \in Live
    BY <1>4 DEF Doomed
  <2>1. q \in Live'
    BY DEF Doomed
  <2>2. /\ X \ {l} \in SUBSET (Live') /\ ToSet(stack') \subseteq X \ {l}
    BY <1>2, <1>3, <1>4
  <2>3. \A p \in X \ {l} : ToSet(p_children'[p]) \subseteq X \ {l}
    <3>1. \A p \in X : p \in Proc /\ ToSet(p_children[p]) \subseteq X
      BY DoomedFacts DEF Closed
    <3> QED BY <1>2, <1>5, <3>1
  <2>4. q \in X \ {l}
    BY <2>2, <2>3 DEF Doomed, Closed
  <2> QED BY <1>4, <2>1, <2>4
<1> QED BY <1>4, <1>7, <1>8 DEF Standing, l

\* enter(c): whoever is not below c is spared.
LEMMA EnterStands ==
  ASSUME TInv, NEW c \in Live, enter(c), UNCHANGED pcbFree
  PROVE  /\ Live' = Live /\ c \in Doomed' /\ Doomed' \subseteq Live
         /\ \A X \in SUBSET Live : c \in X /\ Closed(X) => Doomed' \subseteq X
         /\ \A q \in Standing' : p_parent'[q] = p_parent[q]
         /\ \A q \in Standing' : p_parent[q] # NULL => p_parent[q] \in Standing'
<1>1. /\ p_parent \in [Proc -> Proc \cup {NULL}] /\ c \in Proc /\ Live \subseteq Proc
      /\ stack' = <<c>> /\ Live' = Live
  BY DEF TInv, TypeOK, ProcTypes, Live, enter
<1>2. Cut(c)
  <2>1. outChild(c)
    BY DEF enter
  <2> QED BY <1>1, <2>1, OutChildCuts DEF TInv
<1>3. ToSet(stack') = {c}
  BY <1>1 DEF ToSet
<1>4. \A p \in Proc : ToSet(p_children'[p]) = ToSet(p_children[p]) \ {c}
  BY <1>2 DEF Cut
<1>5. \A X \in SUBSET Live : c \in X => (Closed(X)' <=> Closed(X))
  <2> SUFFICES ASSUME NEW X \in SUBSET Live, c \in X PROVE Closed(X)' <=> Closed(X)
    OBVIOUS
  <2>1. \A p \in X : p \in Proc
    BY <1>1
  <2> QED BY <1>4, <2>1 DEF Closed
<1>6. Doomed' = {q \in Live : \A X \in SUBSET Live : c \in X /\ Closed(X) => q \in X}
  <2>1. \A X \in SUBSET Live : (ToSet(stack') \subseteq X /\ Closed(X)') <=> (c \in X /\ Closed(X))
    BY <1>3, <1>5
  <2> QED BY <1>1, <2>1 DEF Doomed
<1>7. c \in Doomed'
  BY <1>6
<1>8. \A q \in Standing' : q # c /\ q \in Live /\ q \in Proc /\ q \notin Doomed'
  BY <1>1, <1>7 DEF Standing
<1>9. \A q \in Standing' : p_parent'[q] = p_parent[q]
  BY <1>1, <1>2, <1>8 DEF Cut
<1>10. ASSUME NEW q \in Standing', p_parent[q] # NULL PROVE p_parent[q] \in Standing'
  <2>1. p_parent[q] \in Live /\ q \in ToSet(p_children[p_parent[q]])
    BY <1>1, <1>8, <1>10, DoomedFacts
  <2>2. p_parent[q] \notin Doomed'
    <3> SUFFICES ASSUME p_parent[q] \in Doomed' PROVE q \in Doomed'
      BY <1>8
    <3> SUFFICES ASSUME NEW X \in SUBSET Live, c \in X, Closed(X) PROVE q \in X
      BY <1>6, <1>8
    <3>1. p_parent[q] \in X
      BY <1>6
    <3> QED BY <2>1, <3>1 DEF Closed
  <2> QED BY <1>1, <2>1, <2>2 DEF Standing
<1> QED BY <1>1, <1>6, <1>7, <1>9, <1>10

-----------------------------------------------------------------------------
(* The view *)

LEMMA ViewIs ==
  /\ View.live = Standing /\ View.par = p_parent /\ View.mode = mem.p5dmode
  /\ \A p \in Proc : View.fun[p] = run[p].fun /\ View.pos[p] = pos(p)
  /\ \A x \in Counted : View.val[x] = SemVal(S(x))
BY DEF View

LEMMA CountedAre == Counted \subseteq SemNames \ {"term_mut", "s", "blkleaves"}
BY DEF Counted, SemNames

LEMMA ViewTyped ==
  ASSUME TInv, RunTypes, RunOK, BlockedAt
  PROVE  Typed(View) /\ Known(View) /\ IsFiniteSet(Standing)
<1>1. Standing \subseteq Proc /\ View.live = Standing
  BY DoomedFacts, ViewIs
<1>2. \A p \in Proc : run[p] \in RunType /\ Fits(run[p])
  BY DEF RunTypes, RunOK
<1>3. ASSUME NEW p \in Proc PROVE pos(p) \in Nat \ {0} /\ run[p].fun \in Functions
  <2>1. run[p].fun \in Functions /\ Len(Code[run[p].fun]) \in Nat /\ run[p].at \in Nat
        /\ run[p].in \in Nat
    BY <1>2, Text DEF RunType
  <2>2. run[p].at \in 1 .. Len(Code[run[p].fun]) + 1 /\ run[p].in \in 1 .. Len(print)
    BY <1>2 DEF Fits
  <2>3. p \in Blocked /\ run[p].in = 1 => run[p].at > 1
    BY DEF BlockedAt
  <2> QED BY <2>1, <2>2, <2>3 DEF pos
<1>4. \A x \in Counted : SemVal(S(x)) \in Nat
  <2>1. semval \in [Sem -> Nat] /\ vop.free \in Nat
    BY DEF TInv, TypeOK, SemTypes, PhaseTypes
  <2> QED BY <2>1, SemsAre, CountedAre DEF SemVal
<1>5. mem.p5dmode \in Nat
  BY DEF RunTypes
<1>6. Typed(View)
  <2>1. \A p \in View.live : View.pos[p] \in Nat \ {0}
    BY <1>1, <1>3, ViewIs
  <2> QED BY <1>4, <1>5, <2>1, ViewIs DEF Typed
<1>7. Known(View)
  BY <1>1, <1>3, ViewIs, CodeIs DEF Known
<1>8. IsFiniteSet(Proc)
  <2>1. MAXPROC \in Int /\ 1 \in Int
    BY ConstAssumption
  <2>2. IsFiniteSet(1 .. MAXPROC)
    BY <2>1, FS_Interval, Zenon
  <2> QED BY <2>2 DEF Proc
<1>9. IsFiniteSet(Standing)
  BY <1>1, <1>8, FS_Subset
<1> QED BY <1>6, <1>7, <1>9

\* One of whom the view says that it does not print.
LEMMA QuietIn ==
  ASSUME TInv, RunTypes, RunOK, NEW q \in Proc, Quiet(View, q)
  PROVE  run[q].in = 1
<1> SUFFICES ASSUME run[q].in # 1 PROVE FALSE
  OBVIOUS
<1>1. run[q] \in RunType /\ Fits(run[q])
  BY DEF RunTypes, RunOK
<1>2. run[q].fun \in Functions /\ run[q].in \in Nat /\ run[q].in > 1 /\ run[q].at \in Nat
      /\ Len(print) \in Nat
  BY <1>1, PrintIs DEF RunType, Fits
<1>3. Prints(run[q]) /\ Len(Code[run[q].fun]) \in Nat
      /\ run[q].at \in 1 .. Len(Code[run[q].fun]) + 1
  BY <1>1, <1>2, Text DEF Fits
<1>4. run[q].at \in 1 .. Len(Code[run[q].fun]) /\ Code[run[q].fun][run[q].at] = Message
  BY <1>2, <1>3 DEF Prints, Past
<1>5. run[q].at \in Loud[run[q].fun]
  BY <1>2, <1>4, Text DEF Legal, DataAt
<1>6. pos(q) = run[q].at
  BY <1>2 DEF pos
<1> QED BY <1>5, <1>6, ViewIs DEF Quiet

\* Whoever is left has p1 left.
LEMMA Depth ==
  ASSUME NEW s, Tree(s), Known(s), 1 \in s.live, NEW X \in SUBSET s.live, X # {},
         \A q \in X \ {1} : s.par[q] \in X
  PROVE  1 \in X
<1> SUFFICES ASSUME 1 \notin X PROVE FALSE
  OBVIOUS
<1>1. \A q \in X : /\ s.par[q] \in X /\ s.par[q] # 1 /\ q \in s.live \ {1}
  OBVIOUS
<1>2. \A q \in X : s.fun[q] \notin {"p2", "p3", "p5", "p6", "p7", "p8root"}
  BY <1>1 DEF Tree
<1>3. \A q \in X : s.fun[q] # "p4"
  BY <1>1 DEF Tree
<1>4. \A q \in X : s.fun[q] \notin Fetch \cup Mm \cup Both
  BY <1>1, <1>2 DEF Tree
<1>5. \A q \in X : s.fun[q] \notin Kids
  BY <1>1, <1>2 DEF Tree
<1>6. \A q \in X : s.fun[q] # "p8leaf"
  BY <1>1, <1>5 DEF Tree
<1>7. \A q \in X : s.fun[q] # "test" /\ s.fun[q] \in DOMAIN Loud
  BY <1>1 DEF Tree, Known
<1>8. PICK q \in X : TRUE
  OBVIOUS
<1> QED BY <1>2, <1>3, <1>4, <1>5, <1>6, <1>7, <1>8, CodeIs
       DEF Functions, Fetch, Mm, Both, Kernel, Kids

ViewOK == Typed(View) /\ Known(View) /\ IsFiniteSet(Standing)

\* A step that the view shows as one of those, or not at all.
LEMMA StandsBy ==
  ASSUME ViewOK, ViewOK', Stands, Standing' # {} => 1 \in Standing',
         1 \in Standing' =>
           /\ 1 \in Standing /\ p_parent'[1] = p_parent[1]
           /\ \/ Loses(View, View')
              \/ \E p : Goes(View, View', p)
              \/ \E p, c : Forks(View, View', p, c)
  PROVE  Stands'
<1> SUFFICES ASSUME 1 \in Standing'
             PROVE  p_parent'[1] = NULL /\ Sync(View')
  BY DEF Stands
<1>1. 1 \in Standing /\ p_parent'[1] = p_parent[1] /\ p_parent[1] = NULL /\ Sync(View)
  BY DEF Stands
<1>2. Typed(View) /\ IsFiniteSet(View.live) /\ 1 \in View.live /\ 1 \in View'.live
  BY <1>1, ViewIs DEF ViewOK, View
<1>3. Typed(View')
  BY DEF ViewOK
<1>4. CASE Loses(View, View')
  BY <1>1, <1>2, <1>3, <1>4, SyncLoses
<1>5. CASE \E p : Goes(View, View', p)
  BY <1>1, <1>2, <1>3, <1>5, SyncGoes
<1>6. CASE \E p, c : Forks(View, View', p, c)
  BY <1>1, <1>2, <1>3, <1>6, SyncForks
<1> QED BY <1>1, <1>4, <1>5, <1>6

\* Nobody moves, and the values stay.
LEMMA LosesNone ==
  ASSUME TInv, ViewOK, Stands, 1 \in Standing, Standing' = Standing, UNCHANGED mem,
         \A q \in Standing : /\ p_parent'[q] = p_parent[q] /\ run'[q].fun = run[q].fun
                             /\ pos(q)' = pos(q),
         \A x \in Counted : SemVal(S(x))' = SemVal(S(x))
  PROVE  Loses(View, View')
<1> DEFINE s == View
           t == View'
<1>1. Standing \subseteq Proc /\ \A p \in Standing : pos(p)' = pos(p)
  BY DoomedFacts
<1>2. /\ s.live = Standing /\ s.par = p_parent /\ s.mode = mem.p5dmode
      /\ \A p \in Proc : s.fun[p] = run[p].fun /\ s.pos[p] = pos(p)
      /\ \A x \in Counted : s.val[x] = SemVal(S(x))
  BY ViewIs
<1>3. /\ t.live = Standing' /\ t.par = p_parent' /\ t.mode = mem'.p5dmode
      /\ \A p \in Proc : t.fun[p] = run'[p].fun /\ t.pos[p] = pos(p)'
      /\ \A x \in Counted : t.val[x] = SemVal(S(x))'
  BY DEF View
<1>4. Tree(s)
  BY DEF Stands, Sync
<1> HIDE DEF s, t
<1>5. /\ t.live = s.live
      /\ \A q \in t.live : t.par[q] = s.par[q] /\ t.fun[q] = s.fun[q] /\ t.pos[q] = s.pos[q]
      /\ t.mode = s.mode /\ \A x \in Counted : t.val[x] = s.val[x]
  BY <1>1, <1>2, <1>3
<1>6. \A q \in t.live \ {1} : s.par[q] \in t.live
  BY <1>4, <1>5 DEF Tree
<1>7. Young(s) \subseteq s.live /\ \A r : Leaves(s, r) \subseteq s.live
  BY DEF Young, Leaves, Of
<1>8. Loses(s, t)
  BY <1>5, <1>6, <1>7 DEF Loses
<1> QED BY <1>8 DEF s, t

-----------------------------------------------------------------------------
(* Those that are blocked *)

RunInv == TInv /\ RunTypes /\ RunOK /\ BlockedAt

\* The call in which a process is blocked is one of print or of its function.
LEMMA PrevIs ==
  ASSUME RunInv, NEW p \in Blocked
  PROVE  /\ BlockedIn(p, Prev(p)) /\ p \in Proc
         /\ run[p].in > 1 => Prev(p) \in {W("term_mut", 1), IoDevop, Status}
         /\ run[p].in = 1 => /\ run[p].fun \in Functions
                             /\ run[p].at - 1 \in 1 .. Len(Code[run[p].fun])
                             /\ Prev(p) = Code[run[p].fun][run[p].at - 1]
                             /\ Legal(run[p].fun, run[p].at - 1, Prev(p))
         /\ run[p].in \in Nat \ {0} /\ run[p].at \in Nat
<1> DEFINE r == run[p]
<1>1. p \in Proc /\ r \in RunType /\ Fits(r) /\ BlockedIn(p, Prev(p)) /\ (r.in > 1 \/ r.at > 1)
  BY BlockedFacts DEF RunInv, RunTypes, RunOK, BlockedAt
<1>2. r.fun \in Functions /\ r.in \in Nat /\ r.at \in Nat /\ Len(print) \in Nat /\ Len(print) > 2
  BY <1>1, PrintIs DEF RunType
<1>3. r.at \in 1 .. Len(Code[r.fun]) + 1 /\ r.in \in 1 .. Len(print)
  BY <1>1 DEF Fits
<1>4. /\ Len(Code[r.fun]) \in Nat
      /\ \A k \in 1 .. Len(Code[r.fun]) : Legal(r.fun, k, Code[r.fun][k])
  BY <1>2, Text
<1>5. CASE r.in > 1
  <2>1. Prev(p) = print[r.in - 1]
    BY <1>5 DEF Prev
  <2>2. r.in - 1 = 1 \/ r.in - 1 \in 2 .. Len(print) - 1
    BY <1>2, <1>3, <1>5
  <2>3. Prev(p) \in {W("term_mut", 1), IoDevop, Status}
    BY <2>1, <2>2, PrintIs
  <2> QED BY <1>1, <1>2, <1>5, <2>3
<1>6. CASE r.in = 1
  <2>1. Prev(p) = Code[r.fun][r.at - 1]
    BY <1>6 DEF Prev
  <2>2. r.at - 1 \in 1 .. Len(Code[r.fun])
    BY <1>1, <1>2, <1>3, <1>4, <1>6
  <2> QED BY <1>1, <1>2, <1>4, <1>6, <2>1, <2>2
<1> QED BY <1>2, <1>3, <1>5, <1>6

LEMMA IoWaiter ==
  ASSUME RunInv, NEW u \in Unit, NEW p \in Waiting(IoSem(u))
  PROVE  res_requested[p] = 1 /\ run[p].in > 1 /\ Holding(p) /\ p \in Proc
<1>1. p \in Blocked /\ WaitsOn(p) = IoSem(u)
  BY DEF Waiting
<1>2. BlockedIn(p, Prev(p)) /\ IoSem(u) # Clock /\ \A x \in SemNames : S(x) # IoSem(u)
  BY <1>1, PrevIs, SemsAre
<1>3. run[p].in \in Nat \ {0} /\ p \in Proc
  BY <1>1, PrevIs
<1>4. CASE run[p].in = 1
  <2>1. Legal(run[p].fun, run[p].at - 1, Prev(p))
    BY <1>1, <1>4, PrevIs
  <2>2. Prev(p).op # "io" /\ (Prev(p).op = "semop" => Prev(p).arg \in SemNames)
    BY <2>1 DEF Legal, DataAt, SemopAt
  <2> QED BY <1>1, <1>2, <2>2 DEF BlockedIn
<1>5. CASE run[p].in > 1
  <2>1. Prev(p) \in {W("term_mut", 1), IoDevop, Status}
    BY <1>1, <1>5, PrevIs
  <2>2. Prev(p) = IoDevop
    BY <1>1, <1>2, <2>1 DEF BlockedIn, W, Status, SemNames
  <2>3. res_requested[p] = 1
    BY <1>2, <2>2 DEF BlockedIn, IoDevop
  <2>4. WaitsOn(p) # S("term_mut")
    BY <1>1, <1>2 DEF SemNames
  <2> QED BY <1>3, <1>5, <2>3, <2>4 DEF Holding
<1> QED BY <1>3, <1>4, <1>5

LEMMA LockWaiter ==
  ASSUME RunInv, NEW p \in Waiting(S("term_mut"))
  PROVE  res_requested[p] = 1 /\ run[p].in > 1 /\ ~Holding(p) /\ p \in Proc
<1>1. p \in Blocked /\ WaitsOn(p) = S("term_mut")
  BY DEF Waiting
<1>2. /\ BlockedIn(p, Prev(p)) /\ S("term_mut") # Clock
      /\ \A u \in Unit : S("term_mut") # IoSem(u)
      /\ \A x \in SemNames : S(x) = S("term_mut") => x = "term_mut"
  BY <1>1, PrevIs, SemsAre DEF SemNames
<1>3. run[p].in \in Nat \ {0} /\ p \in Proc
  BY <1>1, PrevIs
<1>4. CASE run[p].in = 1
  <2>1. Legal(run[p].fun, run[p].at - 1, Prev(p))
    BY <1>1, <1>4, PrevIs
  <2>2. Prev(p).op = "semop" => Prev(p).arg \in SemNames \ {"term_mut"}
    BY <2>1 DEF Legal, SemopAt
  <2> QED BY <1>1, <1>2, <2>2 DEF BlockedIn
<1>5. CASE run[p].in > 1
  <2>1. Prev(p) \in {W("term_mut", 1), IoDevop, Status}
    BY <1>1, <1>5, PrevIs
  <2>2. Prev(p) = W("term_mut", 1)
    BY <1>1, <1>2, <2>1 DEF BlockedIn, IoDevop, Status
  <2>3. res_requested[p] = 1
    BY <1>2, <2>2 DEF BlockedIn, W
  <2> QED BY <1>1, <1>3, <1>5, <2>3 DEF Holding
<1> QED BY <1>3, <1>4, <1>5

\* The holders of the terminal's lock.
Holders == {p \in Live : Holding(p)}

LEMMA HoldersFinite == TInv => IsFiniteSet(Holders) /\ Holders \subseteq Proc
<1> SUFFICES ASSUME TInv PROVE IsFiniteSet(Holders) /\ Holders \subseteq Proc
  OBVIOUS
<1>1. MAXPROC \in Int /\ 1 \in Int
  BY ConstAssumption
<1>2. IsFiniteSet(1 .. MAXPROC)
  BY <1>1, FS_Interval, Zenon
<1>3. Holders \subseteq Proc
  BY DEF Holders, Live
<1> QED BY <1>2, <1>3, FS_Subset DEF Proc

LEMMA OneHolder ==
  ASSUME TInv, LockKept, NEW p \in Holders
  PROVE  Holders = {p} /\ SemVal(S("term_mut")) = 0
<1>1. IsFiniteSet(Holders) /\ Cardinality(Holders) + SemVal(S("term_mut")) = 1
  BY HoldersFinite DEF LockKept, Holders
<1>2. SemVal(S("term_mut")) \in Nat
  <2>1. semval \in [Sem -> Nat] /\ vop.free \in Nat
    BY DEF TInv, TypeOK, SemTypes, PhaseTypes
  <2> QED BY <2>1, SemsAre DEF SemVal, SemNames
<1>3. /\ IsFiniteSet(Holders \ {p}) /\ Cardinality(Holders \ {p}) = Cardinality(Holders) - 1
      /\ Cardinality(Holders \ {p}) \in Nat
  BY <1>1, FS_RemoveElement, FS_CardinalityType
<1>4. Cardinality(Holders) \in Nat
  BY <1>1, FS_CardinalityType
<1>5. Cardinality(Holders \ {p}) = 0 /\ SemVal(S("term_mut")) = 0
  BY <1>1, <1>2, <1>3, <1>4
<1>6. Holders \ {p} = {}
  BY <1>3, <1>5, FS_EmptySet
<1> QED BY <1>5, <1>6

LEMMA OneWaiter ==
  ASSUME RunInv, LockKept, phase # "wild", NEW u \in Unit,
         NEW p \in Waiting(IoSem(u)), NEW q \in Waiting(IoSem(u))
  PROVE  p = q
<1>1. Holding(p) /\ Holding(q) /\ TInv
  BY IoWaiter DEF RunInv
<1>2. p \in Live /\ q \in Live
  BY <1>1, BlockedFacts DEF Waiting
<1>3. p \in Holders /\ q \in Holders
  BY <1>1, <1>2 DEF Holders
<1> QED BY <1>1, <1>3, OneHolder

-----------------------------------------------------------------------------
(* Steps that move no process *)

Calm ==
  /\ UNCHANGED <<run, mem, pcbFree>> /\ QSame
  /\ \A x \in SemNames : SemVal(S(x))' = SemVal(S(x))

Idle == Calm /\ UNCHANGED <<p_parent, p_children, stack>>

LEMMA ViewState == RunInv => ViewOK
BY ViewTyped DEF RunInv, ViewOK

LEMMA ViewNext == ASSUME RunInv' PROVE ViewOK'
BY ViewState, PTL

LEMMA CalmRun ==
  ASSUME RunInv, LockKept, Calm
  PROVE  RunTypes' /\ RunOK' /\ BlockedAt' /\ LockKept'
<1>1. RunTypes' /\ RunOK'
  BY DEF RunInv, Calm, RunTypes, RunOK
<1>2. Blocked' = Blocked /\ \A p \in Blocked : Same(p)
  BY DEF Calm, QSame
<1>3. BlockedAt'
  <2>1. \A p : Prev(p)' = Prev(p)
    BY DEF Calm, Prev
  <2>2. \A c : \A p \in Blocked : BlockedIn(p, c)' <=> BlockedIn(p, c)
    BY <1>2 DEF BlockedIn, Same
  <2>3. run' = run
    BY DEF Calm
  <2> QED BY <1>2, <2>1, <2>2, <2>3 DEF RunInv, BlockedAt
<1>4. Live' = Live /\ \A p \in Proc : Holding(p)' <=> Holding(p)
  BY <1>2 DEF Calm, Holding, Same, Live
<1>5. Holders' = Holders
  BY <1>4 DEF Holders, Live
<1>6. SemVal(S("term_mut"))' = SemVal(S("term_mut"))
  BY DEF Calm, SemNames
<1>7. LockKept'
  BY <1>5, <1>6 DEF LockKept, Holders
<1> QED BY <1>1, <1>3, <1>7

LEMMA IdleStands ==
  ASSUME RunInv, RunInv', Idle, DoomOK, Stands
  PROVE  DoomOK' /\ Stands'
<1>1. Doomed' = Doomed /\ Standing' = Standing /\ run' = run /\ p_parent' = p_parent /\ mem' = mem
  BY StillStands DEF Idle, Calm
<1>2. ViewOK /\ ViewOK' /\ TInv
  BY ViewState, ViewNext DEF RunInv
<1>3. \A p : pos(p)' = pos(p)
  BY <1>1 DEF pos, Idle, Calm, QSame
<1>4. \A x \in Counted : SemVal(S(x))' = SemVal(S(x))
  BY CountedAre DEF Idle, Calm
<1>5. 1 \in Standing => Loses(View, View')
  BY <1>1, <1>2, <1>3, <1>4, LosesNone
<1>6. Stands'
  BY <1>1, <1>2, <1>5, StandsBy DEF Stands
<1>7. DoomOK'
  BY <1>1 DEF DoomOK
<1> QED BY <1>6, <1>7

\* The nucleus but for the V operations that wake and the terminations.
Rests == \/ scheduler \/ tick \/ endV \/ (\E over \in BOOLEAN : slice(over))
         \/ (\E expired \in BOOLEAN : handleTimer(expired))
         \/ (\E u \in Unit : handleDevices(u) \/ deviceDone(u))
         \/ UNCHANGED vars \/ (childByPid /\ phase' # "kill")

LEMMA SemValSame ==
  ASSUME UNCHANGED semval, NEW x \in SemNames, phase # "semop",
         phase' = "semop" => vop'.sem # S(x)
  PROVE  SemVal(S(x))' = SemVal(S(x))
BY DEF SemVal

LEMMA RestsIdle ==
  ASSUME RunInv, TermOK, Rests, UNCHANGED <<run, mem>>
  PROVE  Idle /\ (phase' # "wild" => phase # "wild")
<1> USE DEF treeVars, aslVars, killVars
<1>1. CASE scheduler
  <2>1. UNCHANGED <<pcbFree, p_parent, p_children, stack, s_procq, p_cursem, s_semAdd,
                    res_requested, semval>>
        /\ phase = "sched" /\ phase' # "semop"
    BY <1>1 DEF scheduler
  <2> QED BY <2>1, QStays, SemValSame DEF Idle, Calm
<1>2. CASE tick
  <2>1. UNCHANGED <<pcbFree, p_parent, p_children, stack, s_procq, p_cursem, s_semAdd,
                    res_requested, semval>>
        /\ phase = "tick" /\ (phase' = "semop" => vop'.sem = Clock)
    BY <1>2 DEF tick, startV
  <2> QED BY <2>1, QStays, SemValSame, SemsAre DEF Idle, Calm
<1>3. CASE \E over \in BOOLEAN : slice(over)
  <2>1. UNCHANGED <<pcbFree, p_parent, p_children, stack, s_procq, p_cursem, s_semAdd,
                    res_requested, semval>>
        /\ phase = "slice" /\ phase' # "semop"
    BY <1>3 DEF slice, Resumed
  <2> QED BY <2>1, QStays, SemValSame DEF Idle, Calm
<1>4. CASE \E expired \in BOOLEAN : handleTimer(expired)
  <2>1. UNCHANGED <<pcbFree, p_parent, p_children, stack, s_procq, p_cursem, s_semAdd,
                    res_requested, semval>>
        /\ phase \in {"user", "idle"} /\ phase' # "semop"
    BY <1>4 DEF handleTimer, Interruptible
  <2> QED BY <2>1, QStays, SemValSame DEF Idle, Calm
<1>5. CASE \E u \in Unit : handleDevices(u)
  <2>1. PICK u \in Unit : handleDevices(u)
    BY <1>5
  <2>2. UNCHANGED <<pcbFree, p_parent, p_children, stack, s_procq, p_cursem, s_semAdd,
                    res_requested, semval>>
        /\ phase \in {"user", "idle"} /\ (phase' = "semop" => vop'.sem = IntSem(u))
    BY <2>1 DEF handleDevices, Interruptible, startV, Resumed
  <2> QED BY <2>2, QStays, SemValSame, SemsAre DEF Idle, Calm
<1>6. CASE (\E u \in Unit : deviceDone(u)) \/ UNCHANGED vars
  <2>1. UNCHANGED <<pcbFree, p_parent, p_children, stack, s_procq, p_cursem, s_semAdd,
                    res_requested, semval, phase, vop>>
    BY <1>6 DEF deviceDone, vars
  <2> QED BY <2>1, QStays DEF Idle, Calm, SemVal
<1>7. CASE childByPid /\ phase' # "kill"
  <2>1. UNCHANGED <<p_parent, p_children, stack>>
    BY <1>7 DEF childByPid, enter
  <2>2. UNCHANGED <<pcbFree, s_procq, p_cursem, s_semAdd, res_requested, semval>>
        /\ phase = "search" /\ phase' # "semop"
    BY <1>7 DEF childByPid, unchangedBySearch, enter
  <2> QED BY <2>1, <2>2, QStays, SemValSame DEF Idle, Calm
<1>8. CASE endV
  <2>1. UNCHANGED <<pcbFree, p_parent, p_children, stack, s_procq, p_cursem, s_semAdd,
                    res_requested>>
        /\ phase = "semop" /\ phase' # "semop"
        /\ semval' = [semval EXCEPT ![vop.sem] = vop.free]
    BY <1>8 DEF endV, Resumed
  <2>2. semval \in [Sem -> Nat]
    BY DEF RunInv, TInv, TypeOK, SemTypes
  <2>3. \A x \in SemNames : SemVal(S(x))' = SemVal(S(x))
    BY <2>1, <2>2, SemsAre DEF SemVal
  <2> QED BY <2>1, <2>3, QStays DEF Idle, Calm
<1> QED BY <1>1, <1>2, <1>3, <1>4, <1>5, <1>6, <1>7, <1>8 DEF Rests

-----------------------------------------------------------------------------
(* The terminal, as long as no process is waked *)

LEMMA RestsTerm ==
  ASSUME RunInv, LockKept, TermOK, Rests, QSame
  PROVE  TermOK'
<1> SUFFICES ASSUME NEW u \in Unit
             PROVE  LET a == IoSem(u) IN
                    /\ semval'[a] = 0
                    /\ IF Signals(a)'
                       THEN dev'[u].st = "idle" /\ vop'.free = N(Waiting(a)' # {})
                       ELSE dev'[u].st # "idle" => Waiting(a)' # {}
  BY DEF TermOK
<1> USE DEF treeVars, aslVars, killVars
<1> DEFINE a == IoSem(u)
           w == Waiting(a)
<1>1. /\ semval[a] = 0
      /\ IF Signals(a) THEN dev[u].st = "idle" /\ vop.free = N(w # {})
         ELSE dev[u].st # "idle" => w # {}
  BY DEF TermOK
<1>2. Waiting(a)' = w
  BY DEF Waiting, QSame, Same
<1>3. /\ a \in Sem /\ a # Clock /\ a = IntSem(u) /\ semval \in [Sem -> Nat]
      /\ dev \in [Unit -> [st : {"idle", "busy", "done"}, by : Int]]
      /\ \A v \in Unit : v = u
  BY SemsAre DEF RunInv, TInv, TypeOK, SemTypes, CountTypes
<1> HIDE DEF a, w
<1> SUFFICES /\ semval'[a] = 0
             /\ IF Signals(a)' THEN dev'[u].st = "idle" /\ vop'.free = N(w # {})
                ELSE dev'[u].st # "idle" => w # {}
  BY <1>2 DEF a
<1>4. CASE scheduler \/ (\E over \in BOOLEAN : slice(over))
           \/ (\E expired \in BOOLEAN : handleTimer(expired))
           \/ (childByPid /\ phase' # "kill") \/ UNCHANGED vars
  <2>1. UNCHANGED <<semval, dev>> /\ (UNCHANGED <<phase, vop>> \/ (phase # "semop" /\ phase' # "semop"))
    <3>1. CASE childByPid /\ phase' # "kill"
      BY <3>1 DEF childByPid, unchangedBySearch, enter
    <3>2. CASE scheduler \/ (\E over \in BOOLEAN : slice(over))
      BY <3>2 DEF scheduler, slice, Resumed
    <3>3. CASE (\E expired \in BOOLEAN : handleTimer(expired)) \/ UNCHANGED vars
      BY <3>3 DEF handleTimer, vars, Interruptible
    <3> QED BY <1>4, <3>1, <3>2, <3>3
  <2> QED BY <1>1, <2>1 DEF Signals
<1>5. CASE tick
  <2>1. UNCHANGED <<semval, dev>> /\ phase # "semop" /\ (phase' = "semop" => vop'.sem = Clock)
    BY <1>5 DEF tick, startV
  <2> QED BY <1>1, <1>3, <2>1 DEF Signals
<1>6. CASE \E v \in Unit : handleDevices(v)
  <2>1. handleDevices(u)
    BY <1>3, <1>6
  <2>2. phase # "semop" /\ dev[u].st = "done" /\ ack(u) /\ UNCHANGED semval
        /\ startV(a, 1, "dev", headBlocked(a), statusOf(u))
    BY <1>1, <1>3, <2>1 DEF handleDevices, Interruptible
  <2>3. w # {} /\ dev'[u].st = "idle" /\ vop'.free = 1
    BY <1>1, <1>3, <2>2 DEF Signals, ack, startV
  <2>4. phase' = "semop" /\ vop'.sem = a
    BY <2>2 DEF startV
  <2> QED BY <1>1, <2>2, <2>3, <2>4 DEF Signals, N
<1>7. CASE \E v \in Unit : deviceDone(v)
  <2>1. deviceDone(u)
    BY <1>3, <1>7
  <2>2. dev[u].st = "busy" /\ UNCHANGED <<semval, phase, vop>>
    BY <2>1 DEF deviceDone
  <2> QED BY <1>1, <2>2 DEF Signals
<1>8. CASE endV
  <2>1. phase = "semop" /\ phase' # "semop" /\ UNCHANGED dev /\ ~satisfied(headBlocked(vop.sem))
        /\ semval' = [semval EXCEPT ![vop.sem] = vop.free]
    BY <1>8 DEF endV, Resumed
  <2>2. CASE vop.sem # a
    BY <1>1, <1>3, <2>1, <2>2 DEF Signals
  <2>3. CASE vop.sem = a
    <3>1. Signals(a) /\ vop.free = N(w # {}) /\ dev[u].st = "idle"
      BY <1>1, <2>1, <2>3 DEF Signals
    <3>2. w = {}
      <4> SUFFICES ASSUME NEW p \in w PROVE FALSE
        OBVIOUS
      <4>1. p \in Blocked /\ s_semAdd[p_cursem[p]] = a /\ p_cursem[p] \in aslh
        BY BlockedFacts DEF w, Waiting, RunInv, WaitsOn
      <4>2. OnAsl(a) /\ TypeOK /\ AslInv
        BY <4>1 DEF OnAsl, RunInv, TInv
      <4> DEFINE h == headBlocked(a)
      <4>3. /\ h \in Proc /\ h \in Queued(semdOf(a)) /\ semdOf(a) \in Semd
            /\ s_semAdd[semdOf(a)] = a
        BY <4>2, OnAslFacts
      <4>4. h \in Blocked /\ WaitsOn(h) = a
        BY <4>2, <4>3 DEF Blocked, Queued, WaitsOn, AslInv, AslCursem
      <4>5. h \in Waiting(IoSem(u))
        BY <4>4 DEF Waiting, a
      <4>6. res_requested[h] = 1 /\ h # NULL
        BY <4>3, <4>5, IoWaiter, NotNull
      <4> QED BY <2>1, <2>3, <3>1, <4>6 DEF satisfied, N
    <3> QED BY <1>3, <2>1, <2>3, <3>1, <3>2 DEF N, Signals
  <2> QED BY <2>2, <2>3
<1> QED BY <1>4, <1>5, <1>6, <1>7, <1>8 DEF Rests

-----------------------------------------------------------------------------
(* Terminations *)

LEMMA SearchFacts ==
  ASSUME RunInv, Stands, SearchOK, phase = "search"
  PROVE  /\ \E X \in SUBSET Live :
              /\ Closed(X) /\ 1 \notin X
              /\ ToSet(p_children[cursor]) \subseteq X
              /\ \A q \in X : run[q].in = 1
              /\ \A r \in Young(View) : View.pos[r] > 6
         /\ \A c \in ToSet(p_children[cursor]) :
              run[Me].fun = "p8root" => run[c].fun \in Family
         /\ stack = <<>> /\ Standing = Live
         /\ \A c \in ToSet(p_children[cursor]) : c \in Live
<1>1. TInv /\ stack = <<>> /\ Me \in Live /\ Me \in Proc /\ Me \notin Blocked
  BY Alive DEF RunInv
<1>2. Standing = Live /\ Live \subseteq Proc /\ cursor \in Proc
  BY <1>1, DoomedFacts DEF TInv, TypeOK, PhaseTypes
<1>3. 1 \in Live /\ p_parent[1] = NULL /\ Sync(View) /\ View.live = Live
  BY <1>1, <1>2, ViewIs DEF Stands
<1>4. Typed(View) /\ Known(View) /\ Tree(View)
  BY <1>3, ViewState DEF ViewOK, Sync
<1>5. pos(Me) = run[Me].at
  BY <1>1 DEF pos
<1>6. \A p, c \in Proc : c \in ToSet(p_children[p]) <=> p_parent[c] = p
  BY <1>1, DoomedFacts
<1>7. \A p \in Proc : ToSet(p_children[p]) \subseteq Proc /\ 1 \notin ToSet(p_children[p])
  BY <1>1, <1>3, <1>6, DoomedFacts, NotNull
<1>8. \A c \in ToSet(p_children[cursor]) : c \in Live /\ c # 1 /\ p_parent[c] = cursor
  <2>1. \A c \in ToSet(p_children[cursor]) : c \in Proc /\ c # 1 /\ p_parent[c] = cursor
    BY <1>2, <1>6, <1>7
  <2>2. \A c \in ToSet(pcbFree) : p_parent[c] = NULL
    BY <1>1 DEF TInv, TreeInv, FreeBare
  <2> QED BY <1>2, <2>1, <2>2, NotNull DEF Live
<1>9. CASE run[Me].fun = "test" /\ run[Me].at = 32
  <2>1. Me = 1
    BY <1>1, <1>3, <1>4, <1>9, ViewIs DEF Tree
  <2>2. Main(View) = 32
    BY <1>1, <1>5, <1>9, <2>1, ViewIs DEF Main
  <2>3. (\A q \in Live \ {1} : Quiet(View, q)) /\ Young(View) = {}
    BY <1>3, <1>4, <2>2, QuietAll
  <2>4. \A q \in Live \ {1} : run[q].in = 1
    BY <1>1, <1>2, <2>3, QuietIn DEF RunInv
  <2>5. Closed(Live \ {1})
    BY <1>1, <1>2, <1>7, DoomedFacts DEF Closed
  <2>6. ToSet(p_children[cursor]) \subseteq Live \ {1}
    BY <1>8
  <2> QED BY <1>1, <1>2, <1>8, <1>9, <2>3, <2>4, <2>5, <2>6
<1>10. CASE run[Me].fun = "p8root" /\ run[Me].at \in 8 .. 11 /\ run[cursor].fun \in Family
  <2>1. Me \in Of(View, {"p8root"}) /\ View.pos[Me] \in 7 .. 12
    BY <1>1, <1>3, <1>5, <1>10, ViewIs DEF Of
  <2>2. /\ \A q \in Of(View, Family) : Quiet(View, q)
        /\ \A q \in Young(View) : View.pos[q] > 6
        /\ \A q \in Live \ {1} : View.fun[View.par[q]] \in Family => View.fun[q] \in Family
    BY <1>3, <1>4, <2>1, QuietFamily
  <2> DEFINE X == {q \in Live : run[q].fun \in Family}
  <2>3. \A q \in X : run[q].in = 1 /\ q \in Proc /\ q \in Live
    <3> SUFFICES ASSUME NEW q \in X PROVE run[q].in = 1 /\ q \in Proc /\ q \in Live
      OBVIOUS
    <3>1. q \in Proc /\ q \in Of(View, Family)
      BY <1>2, <1>3, ViewIs DEF Of
    <3> QED BY <1>1, <2>2, <3>1, QuietIn DEF RunInv
  <2>4. 1 \notin X
    <3>1. View.fun[1] = "test"
      BY <1>3, <1>4 DEF Tree
    <3> QED BY <3>1, NotNull, ViewIs DEF Family
  <2>5. \A p \in Proc : \A c \in ToSet(p_children[p]) :
          c \in Live /\ run[p].fun \in Family => c \in X
    <3> SUFFICES ASSUME NEW p \in Proc, NEW c \in ToSet(p_children[p]), c \in Live,
                        run[p].fun \in Family
                 PROVE  run[c].fun \in Family
      OBVIOUS
    <3>1. c \in Proc /\ c # 1 /\ p_parent[c] = p
      BY <1>6, <1>7
    <3>2. View.par[c] = p /\ View.fun[p] = run[p].fun /\ View.fun[c] = run[c].fun
      BY <3>1, ViewIs
    <3> QED BY <2>2, <3>1, <3>2
  <2>6. Closed(X)
    <3>1. \A p \in Live : ToSet(p_children[p]) \subseteq Live
      BY <1>1, DoomedFacts DEF Closed
    <3> QED BY <2>3, <2>5, <3>1 DEF Closed
  <2>7. ToSet(p_children[cursor]) \subseteq X
    BY <1>2, <1>8, <1>10, <2>5
  <2>8. \A q \in X : run[q].fun \in Family
    OBVIOUS
  <2>9. X \in SUBSET Live
    OBVIOUS
  <2> HIDE DEF X
  <2> QED BY <1>1, <1>2, <1>8, <2>2, <2>3, <2>4, <2>6, <2>7, <2>8, <2>9
<1> QED BY <1>9, <1>10 DEF SearchOK

LEMMA EnterStep ==
  ASSUME RunInv, RunInv', Stands, stack = <<>>, NEW c \in Live, enter(c), QSame,
         UNCHANGED <<pcbFree, mem>>, \A x \in Counted : SemVal(S(x))' = SemVal(S(x)),
         \A q \in Live \ {c} : run'[q] = run[q],
         NEW X \in SUBSET Live, c \in X, Closed(X), \A q \in X : run'[q].in = 1,
         \/ c = 1
         \/ \A r \in Young(View) :
              View.pos[r] > 6 \/ (r \notin X /\ Leaves(View, r) \cap X = {})
  PROVE  DoomOK' /\ Stands'
<1>1. TInv /\ Standing = Live /\ Live \subseteq Proc
  BY DoomedFacts DEF RunInv
<1>2. 1 \in Live /\ p_parent[1] = NULL /\ Sync(View) /\ View.live = Live
  BY <1>1, ViewIs DEF Stands
<1>3. Tree(View) /\ Known(View) /\ ViewOK /\ ViewOK'
  BY <1>2, ViewState, ViewNext DEF ViewOK, Sync
<1>4. /\ Live' = Live /\ c \in Doomed' /\ Doomed' \subseteq X
      /\ \A q \in Standing' : p_parent'[q] = p_parent[q]
      /\ \A q \in Standing' : p_parent[q] # NULL => p_parent[q] \in Standing'
  BY <1>1, EnterStands
<1>5. DoomOK'
  BY <1>4 DEF DoomOK
<1>6. Standing' = Live \ Doomed' /\ c \notin Standing'
  BY <1>4 DEF Standing
<1>7. NULL \notin Live
  BY <1>1, NotNull
<1>8. \A q \in Standing' \ {1} : View.par[q] \in Standing'
  BY <1>2, <1>3, <1>4, <1>6, <1>7, ViewIs DEF Tree
<1>9. Standing' # {} => 1 \in Standing'
  BY <1>2, <1>3, <1>6, <1>8, Depth
<1>10. ASSUME 1 \in Standing' PROVE Loses(View, View')
  <2> DEFINE s == View
             t == View'
  <2>1. \A q \in Standing' : pos(q)' = pos(q) /\ run'[q] = run[q]
    BY <1>6 DEF pos, QSame
  <2>2. /\ s.par = p_parent /\ s.mode = mem.p5dmode
        /\ \A p \in Proc : s.fun[p] = run[p].fun /\ s.pos[p] = pos(p)
        /\ \A x \in Counted : s.val[x] = SemVal(S(x))
    BY ViewIs
  <2>3. /\ t.live = Standing' /\ t.par = p_parent' /\ t.mode = mem'.p5dmode
        /\ \A p \in Proc : t.fun[p] = run'[p].fun /\ t.pos[p] = pos(p)'
        /\ \A x \in Counted : t.val[x] = SemVal(S(x))'
    BY DEF View
  <2>4. \A q \in t.live \ {1} : s.par[q] \in t.live
    BY <1>8, <2>3
  <2>5. c # 1
    BY <1>6, <1>10
  <2>6. Young(s) \subseteq s.live /\ \A r : Leaves(s, r) \subseteq s.live
    BY DEF Young, Leaves, Of
  <2>7. \A r \in Young(s) : s.pos[r] \in Nat
    BY <1>3, <2>6 DEF ViewOK, Typed
  <2>8. \A r \in Young(s) : s.pos[r] <= 6 => r \in Standing' /\ Leaves(s, r) \subseteq Standing'
    BY <1>2, <1>4, <1>6, <2>5, <2>6, <2>7
  <2> HIDE DEF s, t
  <2>9. \A q \in t.live : t.par[q] = s.par[q] /\ t.fun[q] = s.fun[q] /\ t.pos[q] = s.pos[q]
    BY <1>1, <1>4, <1>6, <2>1, <2>2, <2>3
  <2>10. t.live \subseteq s.live
    BY <1>2, <1>6, <2>3 DEF s
  <2>11. Loses(s, t)
    BY <2>2, <2>3, <2>4, <2>8, <2>9, <2>10 DEF Loses
  <2> QED BY <2>11 DEF s, t
<1>11. Stands'
  BY <1>1, <1>2, <1>3, <1>4, <1>9, <1>10, StandsBy
<1> QED BY <1>5, <1>11

-----------------------------------------------------------------------------
(* A process is waked *)

LEMMA WakeEffectIs ==
  ASSUME RunInv, wake
  PROVE  LET h == headBlocked(vop.sem) IN
         /\ h \in Blocked /\ h \in Proc /\ h \in Live /\ WaitsOn(h) = vop.sem /\ QOut(h)
         /\ phase = "semop" /\ phase' = "semop" /\ vop'.sem = vop.sem
         /\ vop'.free = vop.free - res_requested[h]
         /\ UNCHANGED <<semval, pcbFree, p_parent, p_children, stack, dev>>
<1> DEFINE h == headBlocked(vop.sem)
<1>1. /\ phase = "semop" /\ phase' = "semop" /\ h # NULL /\ removeBlocked(vop.sem)
      /\ res_requested' = [res_requested EXCEPT ![h] = 0]
      /\ vop' = [vop EXCEPT !.free = vop.free - res_requested[h]]
      /\ UNCHANGED <<semval, pcbFree, p_parent, p_children, stack, dev, p_cursem, s_semAdd>>
  BY DEF wake, satisfied, freeLeft, treeVars, killVars
<1>2. TInv /\ Base /\ Apart
  BY <1>1, NotWild DEF RunInv, Base, Structure
<1>3. vop \in [sem : Sem, free : Nat, ret : {"user", "tick", "dev"},
               head : Proc \cup {NULL}, status : Int]
  BY <1>2 DEF TInv, TypeOK, PhaseTypes
<1>4. PICK d \in Semd : d \in aslh /\ s_semAdd[d] = vop.sem /\ Removed(d, h)
  BY <1>1, <1>2, RemoveEffect
<1> HIDE DEF h
<1>5. h \in Queued(d) /\ h \in Blocked /\ p_cursem[h] = d
  BY <1>2, <1>4 DEF Removed, Queued, Blocked, TInv, AslInv, AslCursem
<1>6. h \in Proc /\ h \in Live /\ WaitsOn(h) = vop.sem
  BY <1>1, <1>2, <1>4, <1>5, BlockedFacts DEF WaitsOn
<1>7. Blocked' = Blocked \ {h}
  <2>1. \A q : q \in Blocked <=> \E e \in Semd : q \in Queued(e)
    BY DEF Blocked, Queued
  <2>2. \A q : q \in Blocked' <=> \E e \in Semd : q \in Queued(e)'
    BY DEF Blocked, Queued
  <2>3. /\ \A e \in Semd \ {d} : Queued(e)' = Queued(e) /\ h \notin Queued(e)
        /\ Queued(d)' = Queued(d) \ {h}
    BY <1>2, <1>4, <1>5 DEF Removed, Queued, Apart
  <2> QED BY <2>1, <2>2, <2>3
<1>8. \A q \in Blocked \ {h} : Same(q)
  <2>1. \A q \in Blocked : q \in Proc
    BY <1>2, BlockedFacts
  <2>2. res_requested \in [Proc -> Nat]
    BY <1>2 DEF TInv, TypeOK, SemTypes
  <2> QED BY <1>1, <1>6, <2>1, <2>2 DEF Same, WaitsOn
<1> QED BY <1>1, <1>3, <1>5, <1>6, <1>7, <1>8 DEF QOut, h

LEMMA OutRun ==
  ASSUME RunInv, NEW p, QOut(p), UNCHANGED <<run, mem>>
  PROVE  RunTypes' /\ RunOK' /\ BlockedAt'
<1>1. RunTypes' /\ RunOK'
  BY DEF RunInv, RunTypes, RunOK
<1>2. \A q : Prev(q)' = Prev(q)
  BY DEF Prev
<1>3. Blocked' = Blocked \ {p} /\ \A q \in Blocked \ {p} : Same(q)
  BY DEF QOut
<1>4. \A c : \A q \in Blocked \ {p} : BlockedIn(q, c)' <=> BlockedIn(q, c)
  BY <1>3 DEF BlockedIn, Same
<1>5. BlockedAt'
  BY <1>2, <1>3, <1>4 DEF RunInv, BlockedAt
<1> QED BY <1>1, <1>5

LEMMA WakeLock ==
  ASSUME RunInv, LockKept, wake, UNCHANGED <<run, mem>>
  PROVE  LockKept'
<1>1. PICK h \in Proc :
      /\ h = headBlocked(vop.sem) /\ h \in Blocked /\ h \in Live /\ WaitsOn(h) = vop.sem /\ QOut(h)
      /\ phase = "semop" /\ phase' = "semop" /\ vop'.sem = vop.sem
      /\ vop'.free = vop.free - res_requested[h]
      /\ UNCHANGED <<semval, pcbFree>>
  BY WakeEffectIs
<1>2. Live' = Live
  BY <1>1 DEF Live
<1>3. \A q \in Proc : q # h => (Holding(q)' <=> Holding(q))
  BY <1>1 DEF Holding, QOut, Same
<1>4. Holding(h)' <=> run[h].in > 1
  BY <1>1 DEF Holding, QOut
<1>5. TInv /\ Live \subseteq Proc
  BY DoomedFacts DEF RunInv
<1>6. Cardinality(Holders) + SemVal(S("term_mut")) = 1 /\ IsFiniteSet(Holders)
  BY <1>5, HoldersFinite DEF LockKept, Holders
<1>7. CASE vop.sem = S("term_mut")
  <2>1. res_requested[h] = 1 /\ run[h].in > 1 /\ ~Holding(h)
    BY <1>1, <1>7, LockWaiter DEF Waiting
  <2>2. Holders' = Holders \cup {h} /\ h \notin Holders
    BY <1>1, <1>2, <1>3, <1>4, <1>5, <2>1 DEF Holders
  <2>3. Cardinality(Holders \cup {h}) = Cardinality(Holders) + 1
    BY <1>6, <2>2, FS_AddElement
  <2>4. SemVal(S("term_mut")) = vop.free /\ SemVal(S("term_mut"))' = vop.free - 1
    BY <1>1, <1>7, <2>1 DEF SemVal
  <2>5. vop.free \in Nat /\ Cardinality(Holders) \in Nat
    BY <1>5, <1>6, FS_CardinalityType DEF TInv, TypeOK, PhaseTypes
  <2>6. Cardinality(Holders') + SemVal(S("term_mut"))' = 1
    BY <1>6, <2>2, <2>3, <2>4, <2>5
  <2> QED BY <2>6 DEF LockKept, Holders
<1>8. CASE vop.sem # S("term_mut")
  <2>1. Holders' = Holders
    BY <1>1, <1>2, <1>3, <1>4, <1>5, <1>8 DEF Holders, Holding
  <2>2. SemVal(S("term_mut"))' = SemVal(S("term_mut"))
    BY <1>1, <1>8 DEF SemVal
  <2>3. Cardinality(Holders') + SemVal(S("term_mut"))' = 1
    BY <1>6, <2>1, <2>2
  <2> QED BY <2>3 DEF LockKept, Holders
<1> QED BY <1>7, <1>8

LEMMA WakeTerm ==
  ASSUME RunInv, LockKept, TermOK, wake, UNCHANGED <<run, mem>>
  PROVE  TermOK'
<1> SUFFICES ASSUME NEW u \in Unit
             PROVE  LET a == IoSem(u) IN
                    /\ semval'[a] = 0
                    /\ IF Signals(a)'
                       THEN dev'[u].st = "idle" /\ vop'.free = N(Waiting(a)' # {})
                       ELSE dev'[u].st # "idle" => Waiting(a)' # {}
  BY DEF TermOK
<1> DEFINE a == IoSem(u)
<1>1. PICK h \in Proc :
      /\ h = headBlocked(vop.sem) /\ h \in Blocked /\ h \in Live /\ WaitsOn(h) = vop.sem /\ QOut(h)
      /\ phase = "semop" /\ phase' = "semop" /\ vop'.sem = vop.sem
      /\ vop'.free = vop.free - res_requested[h]
      /\ UNCHANGED <<semval, dev>>
  BY WakeEffectIs
<1>2. /\ semval[a] = 0
      /\ IF Signals(a) THEN dev[u].st = "idle" /\ vop.free = N(Waiting(a) # {})
         ELSE dev[u].st # "idle" => Waiting(a) # {}
  BY DEF TermOK
<1>3. Waiting(a)' = Waiting(a) \ {h}
  BY <1>1 DEF Waiting, QOut, Same
<1>4. CASE vop.sem = a
  <2>1. h \in Waiting(a) /\ res_requested[h] = 1
    BY <1>1, <1>4, IoWaiter DEF Waiting
  <2>2. \A q \in Waiting(a) : q = h
    BY <1>1, <2>1, OneWaiter
  <2>3. vop.free = 1 /\ dev[u].st = "idle"
    BY <1>1, <1>2, <1>4, <2>1 DEF Signals, N
  <2> QED BY <1>1, <1>2, <1>3, <1>4, <2>1, <2>2, <2>3 DEF Signals, N
<1>5. CASE vop.sem # a
  <2>1. h \notin Waiting(a)
    BY <1>1, <1>5 DEF Waiting
  <2> QED BY <1>1, <1>2, <1>3, <1>5, <2>1 DEF Signals
<1> QED BY <1>4, <1>5

-----------------------------------------------------------------------------
(* Steps that move one process *)

LEMMA EffectBy ==
  ASSUME NEW s, NEW t, NEW p, Typed(s), s.pos[p] \in Nat,
         \A x \in Counted : t.val[x] = s.val[x] + Tally(s.fun[p], s.pos[p])[x],
         t.mode = s.mode + N(At(s, p, "p5c_user", 1))
  PROVE  Effect(s, t, p)
<1>1. \A x \in Counted : s.val[x] \in Nat
  BY DEF Typed
<1>2. \A f, k : N(At(s, p, f, k)) \in {0, 1}
  BY Zenon DEF N
<1> DEFINE at(f, k) == N(At(s, p, f, k))
           T == Tally(s.fun[p], s.pos[p])
<1>4. /\ T["endp2"] = at("p2", 10) - at("test", 7)
      /\ T["endp3"] = at("p3", 8) - at("test", 12)
      /\ T["synp4"] = at("p4", 3) - at("p4", 6) - at("p4", 9)
      /\ T["blkp4"] = 2 * at("p5", 5) - at("p4", 4) - at("test", 20)
      /\ T["blkp5a"] = at("p5prog_fetch", 2) - at("p5", 7)
      /\ T["blkp5b"] = at("p5mm", 2) - at("p5", 9)
      /\ T["blkp5c"] = at("p5c_kernel", 5) - at("p5", 12)
      /\ T["blkp5cint"] = at("p5prog_instr", 2) - at("p5c", 3)
      /\ T["endp5"] = at("p5", 14) - at("test", 18)
      /\ T["blkp6"] = at("p7", 3) + at("test", 22) - 2 * at("p6", 2)
      /\ T["endp6"] = at("p6", 4) - at("test", 23)
      /\ T["endp8"] = at("p8root", 12) - at("test", 30)
      /\ T["endcreate"] = at("p8leaf", 2) - 4 * at("p8root", 6)
  BY Zenon DEF Tally, At
<1>5. \A x \in Counted : t.val[x] = s.val[x] + T[x]
  OBVIOUS
<1> HIDE DEF T
<1>6. \A f, k : at(f, k) \in {0, 1}
  BY <1>2
<1> HIDE DEF at
<1>7. /\ t.val["endp2"]  = s.val["endp2"] + at("p2", 10) - at("test", 7)
      /\ t.val["endp3"]  = s.val["endp3"] + at("p3", 8) - at("test", 12)
      /\ t.val["synp4"]  = s.val["synp4"] + at("p4", 3) - at("p4", 6) - at("p4", 9)
      /\ t.val["blkp4"]  = s.val["blkp4"] + 2 * at("p5", 5) - at("p4", 4) - at("test", 20)
  BY <1>1, <1>4, <1>5, <1>6 DEF Counted
<1>8. /\ t.val["blkp5a"] = s.val["blkp5a"] + at("p5prog_fetch", 2) - at("p5", 7)
      /\ t.val["blkp5b"] = s.val["blkp5b"] + at("p5mm", 2) - at("p5", 9)
      /\ t.val["blkp5c"] = s.val["blkp5c"] + at("p5c_kernel", 5) - at("p5", 12)
      /\ t.val["blkp5cint"] = s.val["blkp5cint"] + at("p5prog_instr", 2) - at("p5c", 3)
      /\ t.val["endp5"]  = s.val["endp5"] + at("p5", 14) - at("test", 18)
  BY <1>1, <1>4, <1>5, <1>6 DEF Counted
<1>9. /\ t.val["blkp6"]  = s.val["blkp6"] + at("p7", 3) + at("test", 22) - 2 * at("p6", 2)
      /\ t.val["endp6"]  = s.val["endp6"] + at("p6", 4) - at("test", 23)
      /\ t.val["endp8"]  = s.val["endp8"] + at("p8root", 12) - at("test", 30)
      /\ t.val["endcreate"] = s.val["endcreate"] + at("p8leaf", 2) - 4 * at("p8root", 6)
  BY <1>1, <1>4, <1>5, <1>6 DEF Counted
<1>10. t.mode = s.mode + at("p5c_user", 1)
  BY DEF at
<1> QED BY <1>7, <1>8, <1>9, <1>10 DEF Effect, at

LEMMA GoesBy ==
  ASSUME RunInv, NEW p \in Standing, Standing' = Standing,
         \A q \in Standing : p_parent'[q] = p_parent[q],
         \A q \in Standing \ {p} : run'[q].fun = run[q].fun /\ pos(q)' = pos(q),
         \A x \in Counted : SemVal(S(x))' = SemVal(S(x)) + Tally(run[p].fun, pos(p))[x],
         mem'.p5dmode = mem.p5dmode + N(run[p].fun = "p5c_user" /\ pos(p) = 1),
         Where(View, View', p)
  PROVE  Goes(View, View', p)
<1> DEFINE s == View
           t == View'
<1>1. Standing \subseteq Proc /\ p \in Proc
  BY DoomedFacts DEF RunInv
<1>2. /\ s.live = Standing /\ s.par = p_parent /\ s.mode = mem.p5dmode
      /\ \A q \in Proc : s.fun[q] = run[q].fun /\ s.pos[q] = pos(q)
      /\ \A x \in Counted : s.val[x] = SemVal(S(x))
  BY ViewIs
<1>3. /\ t.live = Standing' /\ t.par = p_parent' /\ t.mode = mem'.p5dmode
      /\ \A q \in Proc : t.fun[q] = run'[q].fun /\ t.pos[q] = pos(q)'
      /\ \A x \in Counted : t.val[x] = SemVal(S(x))'
  BY DEF View
<1>4. Typed(s)
  BY ViewState DEF ViewOK
<1> HIDE DEF s, t
<1>5. Frame(s, t, p)
  <2>1. p \in s.live /\ t.live = s.live
    BY <1>2, <1>3
  <2>2. \A q \in s.live : t.par[q] = s.par[q]
    BY <1>2, <1>3
  <2>3. \A q \in s.live \ {p} : t.fun[q] = s.fun[q] /\ t.pos[q] = s.pos[q]
    BY <1>1, <1>2, <1>3
  <2> QED BY <2>1, <2>2, <2>3 DEF Frame
<1>6. Effect(s, t, p)
  <2>1. s.pos[p] \in Nat /\ s.fun[p] = run[p].fun /\ s.pos[p] = pos(p)
    BY <1>1, <1>2, <1>4 DEF Typed
  <2>2. \A x \in Counted : t.val[x] = s.val[x] + Tally(s.fun[p], s.pos[p])[x]
    BY <1>2, <1>3, <2>1
  <2>3. t.mode = s.mode + N(At(s, p, "p5c_user", 1))
    BY <1>2, <1>3, <2>1 DEF At
  <2> QED BY <1>4, <2>1, <2>2, <2>3, EffectBy
<1> QED BY <1>5, <1>6 DEF Goes, s, t

LEMMA WhereOn ==
  ASSUME NEW p \in Proc, run'[p].fun = run[p].fun, pos(p)' = pos(p) + 1,
         run[p].fun = "p5" /\ pos(p) = 4 => Of(View, {"p4"}) = {},
         pos(p) = 4 => run[p].fun \notin {"p5c", "p5c_user"}
  PROVE  Where(View, View', p)
<1>1. View.fun[p] = run[p].fun /\ View.pos[p] = pos(p)
  BY ViewIs
<1>2. View'.fun[p] = run'[p].fun /\ View'.pos[p] = pos(p)'
  BY DEF View
<1>3. On(View, View', p)
  BY <1>1, <1>2 DEF On
<1>4. /\ At(View, p, "p5", 4) => Of(View, {"p4"}) = {}
      /\ ~At(View, p, "p5c", 4) /\ ~At(View, p, "p5c_user", 4)
  BY <1>1 DEF At
<1> QED BY <1>3, <1>4 DEF Where

LEMMA GoesStands ==
  ASSUME RunInv, RunInv', Stands, NEW p \in Standing, Standing' = Standing,
         \A q \in Standing : p_parent'[q] = p_parent[q], Goes(View, View', p)
  PROVE  Stands'
<1>1. ViewOK /\ ViewOK'
  BY ViewState, ViewNext
<1> QED BY <1>1, StandsBy DEF Stands

LEMMA WakeStands ==
  ASSUME RunInv, RunInv', DoomOK, Stands, wake, UNCHANGED <<run, mem>>
  PROVE  DoomOK' /\ Stands'
<1>1. PICK h \in Proc :
         /\ h = headBlocked(vop.sem) /\ h \in Blocked /\ h \in Live /\ WaitsOn(h) = vop.sem
         /\ QOut(h) /\ phase = "semop" /\ phase' = "semop" /\ vop'.sem = vop.sem
         /\ vop'.free = vop.free - res_requested[h]
         /\ UNCHANGED <<semval, pcbFree, p_parent, p_children, stack, dev>>
  BY WakeEffectIs
<1>2. Doomed' = Doomed /\ Standing' = Standing
  BY <1>1, StillStands
<1>3. TInv /\ ViewOK /\ ViewOK' /\ stack = <<>>
  BY <1>1, ViewState, ViewNext DEF RunInv, TInv, Kills
<1>4. Standing = Live /\ h \in Standing /\ Standing \subseteq Proc
  BY <1>1, <1>3, DoomedFacts
<1>5. DoomOK'
  BY <1>2 DEF DoomOK
<1>6. \A q \in Proc \ {h} : pos(q)' = pos(q)
  BY <1>1 DEF pos, QOut
<1>7. /\ BlockedIn(h, Prev(h)) /\ run[h].in \in Nat \ {0} /\ run[h].at \in Nat
      /\ run[h].in = 1 => /\ run[h].fun \in Functions
                          /\ run[h].at - 1 \in 1 .. Len(Code[run[h].fun])
                          /\ Prev(h) = Code[run[h].fun][run[h].at - 1]
                          /\ Legal(run[h].fun, run[h].at - 1, Prev(h))
      /\ run[h].in > 1 => Prev(h) \in {W("term_mut", 1), IoDevop, Status}
  BY <1>1, PrevIs
<1>8. vop.free \in Nat /\ res_requested[h] \in Nat
  BY <1>1, <1>3 DEF TInv, TypeOK, PhaseTypes, SemTypes
<1>9. \A x \in Counted : S(x) # vop.sem => SemVal(S(x))' = SemVal(S(x))
  BY <1>1 DEF SemVal
<1>10. CASE run[h].in = 1
  <2> DEFINE f == run[h].fun
             k == run[h].at - 1
             i == Prev(h)
  <2>1. Legal(f, k, i) /\ BlockedIn(h, i) /\ k \in Nat /\ f \in Functions
    BY <1>7, <1>10
  <2>2. pos(h) = k /\ pos(h)' = k + 1
    BY <1>1, <1>7, <1>10 DEF pos, QOut
  <2> HIDE DEF f, k, i
  <2>3. i.op \in {"semop", "clock"}
    BY <2>1 DEF Legal, DataAt, BlockedIn
  <2>4. mem.p5dmode \in Nat /\ ~(f = "p5c_user" /\ k = 1)
    BY <2>1, <2>3 DEF Legal, DataAt, RunInv, RunTypes
  <2>5. mem'.p5dmode = mem.p5dmode + N(f = "p5c_user" /\ k = 1)
    BY <2>4 DEF N
  <2>6. ~(f = "p5" /\ k = 4) /\ (k = 4 => f \notin {"p5c", "p5c_user"})
    BY <2>1, <2>3 DEF Legal, JumpAt, Until
  <2>7. ASSUME NEW x \in Counted
        PROVE  SemVal(S(x))' = SemVal(S(x)) + Tally(f, k)[x]
    <3>1. x \in SemNames /\ SemVal(S(x)) \in Nat
      <4>1. \A y \in Counted : SemVal(S(y)) \in Nat
        BY <1>3, ViewIs DEF ViewOK, Typed
      <4> QED BY <4>1, CountedAre
    <3>2. CASE i.op = "clock"
      <4>1. vop.sem = Clock /\ Tally(f, k)[x] = 0
        BY <1>1, <2>1, <3>2 DEF BlockedIn, Legal, SemopAt
      <4> QED BY <1>9, <3>1, <4>1, SemsAre
    <3>3. CASE i.op = "semop"
      <4>1. /\ vop.sem = S(i.arg) /\ res_requested[h] = -i.n /\ i.arg \in SemNames
            /\ Tally(f, k)[x] = IF i.arg = x THEN i.n ELSE 0
            /\ i.n \in Int
        BY <1>1, <2>1, <3>3 DEF BlockedIn, Legal, SemopAt
      <4>2. CASE i.arg = x
        <5>1. SemVal(S(x)) = vop.free /\ SemVal(S(x))' = vop.free - res_requested[h]
          BY <1>1, <4>1, <4>2 DEF SemVal
        <5> QED BY <1>8, <4>1, <4>2, <5>1
      <4>3. CASE i.arg # x
        <5>1. S(x) # vop.sem
          BY <3>1, <4>1, <4>3, SemsAre
        <5> QED BY <1>9, <3>1, <4>1, <4>3, <5>1
      <4> QED BY <4>2, <4>3
    <3> QED BY <2>3, <3>2, <3>3
  <2>8. Where(View, View', h)
    BY <2>2, <2>6, WhereOn DEF f
  <2>9. Goes(View, View', h)
    BY <1>1, <1>2, <1>4, <1>6, <2>2, <2>5, <2>7, <2>8, GoesBy DEF f
  <2>10. Stands'
    BY <1>1, <1>2, <1>4, <2>9, GoesStands
  <2> QED BY <1>5, <2>10
<1>11. CASE run[h].in > 1
  <2>1. pos(h)' = pos(h)
    BY <1>11 DEF pos
  <2>2. vop.sem \in {S("term_mut")} \cup {IoSem(u) : u \in Unit}
    <3>1. Prev(h) \in {W("term_mut", 1), IoDevop, Status}
      BY <1>7, <1>11
    <3> QED BY <1>1, <1>7, <3>1 DEF BlockedIn, W, IoDevop, Status
  <2>3. \A x \in Counted : S(x) # vop.sem
    <3>1. \A x \in Counted : x \in SemNames /\ x # "term_mut"
      BY CountedAre
    <3> QED BY <2>2, <3>1, SemsAre DEF SemNames
  <2>4. 1 \in Standing => Loses(View, View')
    BY <1>1, <1>2, <1>3, <1>4, <1>6, <1>9, <2>1, <2>3, LosesNone
  <2>5. Stands'
    BY <1>1, <1>2, <1>3, <2>4, StandsBy DEF Stands
  <2> QED BY <1>5, <2>5
<1> QED BY <1>7, <1>10, <1>11

-----------------------------------------------------------------------------
(* Every step of the nucleus *)

LEMMA TermStays ==
  ASSUME TermOK, UNCHANGED <<semval, dev>>, phase # "semop", phase' # "semop",
         \A u \in Unit : Waiting(IoSem(u))' = Waiting(IoSem(u))
  PROVE  TermOK'
BY DEF TermOK, Signals

LEMMA QSameWaits == ASSUME QSame, NEW a PROVE Waiting(a)' = Waiting(a)
BY DEF QSame, Waiting, Same

LEMMA KillKeeps ==
  ASSUME SInv, TInv', killChild, UNCHANGED <<run, mem>>
  PROVE  SInv'
<1>1. /\ phase = "kill" /\ phase' = "kill"
      /\ UNCHANGED <<pcbFree, semval, dev, vop, s_procq, p_cursem, s_semAdd, res_requested>>
  BY DEF killChild, unchangedBySearch, aslVars
<1>2. RunInv /\ LockKept /\ TermOK /\ DoomOK /\ Stands
  BY <1>1 DEF SInv, RunInv
<1>3. QSame /\ Calm
  BY <1>1, QStays DEF Calm, SemVal
<1>4. RunTypes' /\ RunOK' /\ BlockedAt' /\ LockKept'
  BY <1>2, <1>3, CalmRun
<1>5. TermOK'
  BY <1>1, <1>2, <1>3, QSameWaits, TermStays
<1>6. RunInv'
  BY <1>4 DEF RunInv
<1>7. ViewOK /\ ViewOK' /\ TInv
  BY <1>2, <1>6, ViewState, ViewNext DEF RunInv
<1>8. /\ Doomed' = Doomed /\ Standing' = Standing
      /\ \A q \in Standing : p_parent'[q] = p_parent[q]
  BY <1>7, KillStands
<1>9. \A p : pos(p)' = pos(p)
  BY <1>3 DEF pos, QSame
<1>10. \A x \in Counted : SemVal(S(x))' = SemVal(S(x))
  BY <1>1 DEF SemVal
<1>11. 1 \in Standing => Loses(View, View')
  BY <1>2, <1>7, <1>8, <1>9, <1>10, LosesNone
<1>12. Stands'
  BY <1>2, <1>7, <1>8, <1>11, StandsBy DEF Stands
<1>13. DoomOK'
  BY <1>2, <1>8 DEF DoomOK
<1> QED BY <1>1, <1>4, <1>5, <1>12, <1>13 DEF SInv, SearchOK

LEMMA ReapKeeps ==
  ASSUME SInv, TInv', reap, UNCHANGED <<run, mem>>
  PROVE  SInv'
<1>1. /\ phase = "kill" /\ phase' \in {"wild", "kill", "sched", "user"}
      /\ UNCHANGED <<semval, dev, vop, p_parent>>
  BY DEF reap, treeVars
<1>2. RunInv /\ LockKept /\ TermOK /\ DoomOK /\ Stands /\ TInv
  BY <1>1 DEF SInv, RunInv
<1>3. PICK p \in Proc : p = Last(stack) /\ Reaped(p)
  <2>1. Reaped(Last(stack))
    BY <1>2, ReapEffect
  <2> QED BY <2>1 DEF Reaped
<1>4. /\ Live' = Live \ {p} /\ p \in Doomed /\ Doomed' = Doomed \ {p} /\ Standing' = Standing
  BY <1>2, <1>3, ReapStands
<1>5. run[p].in = 1
  BY <1>2, <1>4 DEF DoomOK
<1>6. QOut(p)
  <2>1. /\ \A e \in Semd : Queued(e)' = Queued(e) \ {p}
        /\ UNCHANGED <<p_cursem, res_requested, s_semAdd>>
    BY <1>3 DEF Reaped, Left
  <2>2. \A q : q \in Blocked <=> \E e \in Semd : q \in Queued(e)
    BY DEF Blocked, Queued
  <2>3. \A q : q \in Blocked' <=> \E e \in Semd : q \in Queued(e)'
    BY DEF Blocked, Queued
  <2>4. Blocked' = Blocked \ {p}
    BY <2>1, <2>2, <2>3
  <2> QED BY <2>1, <2>4 DEF QOut, Same, WaitsOn
<1>7. RunTypes' /\ RunOK' /\ BlockedAt'
  BY <1>2, <1>6, OutRun
<1>8. LockKept'
  <2>1. \A q \in Proc \ {p} : Holding(q)' <=> Holding(q)
    BY <1>6 DEF Holding, QOut, Same
  <2>2. ~Holding(p)
    BY <1>5 DEF Holding
  <2>3. Holders' = Holders
    BY <1>4, <2>1, <2>2 DEF Holders, Live
  <2>4. SemVal(S("term_mut"))' = SemVal(S("term_mut"))
    BY <1>1 DEF SemVal
  <2> QED BY <1>2, <2>3, <2>4 DEF LockKept, Holders
<1>9. TermOK'
  <2>1. \A u \in Unit : p \notin Waiting(IoSem(u))
    BY <1>2, <1>5, IoWaiter
  <2>2. \A u \in Unit : Waiting(IoSem(u))' = Waiting(IoSem(u))
    BY <1>6, <2>1 DEF Waiting, QOut, Same
  <2> QED BY <1>1, <1>2, <2>2, TermStays
<1>10. RunInv'
  BY <1>7 DEF RunInv
<1>11. ViewOK /\ ViewOK'
  BY <1>2, <1>10, ViewState, ViewNext
<1>12. \A q \in Proc \ {p} : pos(q)' = pos(q)
  BY <1>6 DEF pos, QOut
<1>13. \A x \in Counted : SemVal(S(x))' = SemVal(S(x))
  BY <1>1 DEF SemVal
<1>14. Standing \subseteq Proc /\ p \notin Standing
  BY <1>2, <1>4, DoomedFacts DEF Standing
<1>15. 1 \in Standing => Loses(View, View')
  BY <1>1, <1>2, <1>4, <1>11, <1>12, <1>13, <1>14, LosesNone
<1>16. Stands'
  BY <1>1, <1>2, <1>4, <1>11, <1>15, StandsBy DEF Stands
<1>17. DoomOK'
  BY <1>2, <1>4 DEF DoomOK
<1> QED BY <1>1, <1>7, <1>8, <1>9, <1>16, <1>17 DEF SInv, SearchOK

\* childByPid finds the process.
LEMMA HitKeeps ==
  ASSUME SInv, TInv', childByPid, phase' = "kill", UNCHANGED <<run, mem>>
  PROVE  SInv'
<1>1. /\ phase = "search"
      /\ UNCHANGED <<pcbFree, semval, dev, vop, s_procq, p_cursem, s_semAdd, res_requested>>
  BY DEF childByPid, unchangedBySearch, aslVars
<1>2. RunInv /\ LockKept /\ TermOK /\ DoomOK /\ Stands /\ SearchOK /\ TInv
  BY <1>1 DEF SInv, RunInv
<1>3. QSame /\ Calm
  BY <1>1, QStays DEF Calm, SemVal
<1>4. RunTypes' /\ RunOK' /\ BlockedAt' /\ LockKept'
  BY <1>2, <1>3, CalmRun
<1>5. TermOK'
  BY <1>1, <1>2, <1>3, QSameWaits, TermStays
<1>6. RunInv'
  BY <1>4 DEF RunInv
<1>7. PICK i \in DOMAIN p_children[cursor] : enter(p_children[cursor][i])
  BY <1>1 DEF childByPid
<1>8. p_children[cursor][i] \in ToSet(p_children[cursor])
  BY <1>7 DEF ToSet
<1>9. PICK X \in SUBSET Live :
        /\ Closed(X) /\ 1 \notin X /\ ToSet(p_children[cursor]) \subseteq X
        /\ \A q \in X : run[q].in = 1
        /\ \A r \in Young(View) : View.pos[r] > 6
  BY <1>1, <1>2, SearchFacts
<1>10. stack = <<>>
  BY <1>1, <1>2, SearchFacts
<1>11. \A x \in Counted : SemVal(S(x))' = SemVal(S(x))
  BY <1>1 DEF SemVal
<1>12. PICK c \in Live : c = p_children[cursor][i] /\ c \in X
  BY <1>8, <1>9
<1>13. DoomOK' /\ Stands'
  BY <1>1, <1>2, <1>3, <1>6, <1>7, <1>9, <1>10, <1>11, <1>12, EnterStep
<1> QED BY <1>4, <1>5, <1>13 DEF SInv, SearchOK

LEMMA SearchRests ==
  ASSUME SInv, Rests, UNCHANGED <<run, mem>>
  PROVE  SearchOK'
<1> SUFFICES ASSUME phase' = "search"
             PROVE  \/ run'[Me'].fun = "test" /\ run'[Me'].at = 32
                    \/ run'[Me'].fun = "p8root" /\ run'[Me'].at \in 8 .. 11
                       /\ run'[cursor'].fun \in Family
  BY DEF SearchOK, Me
<1>1. phase = "search"
  BY DEF Rests, scheduler, tick, startV, endV, slice, handleTimer, handleDevices, deviceDone,
         vars, childByPid, Resumed
<1>2. SearchOK /\ RunInv /\ Stands
  BY <1>1 DEF SInv, RunInv
<1>3. CASE UNCHANGED <<cursor, g_current_process>>
  BY <1>1, <1>2, <1>3 DEF SearchOK, Me
<1>4. CASE childByPid
  <2>1. g_current_process' = g_current_process
        /\ \E i \in DOMAIN p_children[cursor] : cursor' = p_children[cursor][i]
    BY <1>4 DEF childByPid, unchangedBySearch, enter, descend
  <2>2. cursor' \in ToSet(p_children[cursor])
    BY <2>1 DEF ToSet
  <2>3. run[Me].fun = "p8root" => run[cursor'].fun \in Family
    BY <1>1, <1>2, <2>2, SearchFacts
  <2> QED BY <1>1, <1>2, <2>1, <2>3 DEF SearchOK, Me
<1>5. childByPid \/ UNCHANGED <<cursor, g_current_process>>
  BY <1>1 DEF Rests, scheduler, tick, endV, slice, handleTimer, handleDevices, deviceDone,
         vars, killVars, Interruptible
<1> QED BY <1>3, <1>4, <1>5

LEMMA NucleusKeeps ==
  ASSUME SInv, TInv', UNCHANGED <<run, mem>>,
         Rests \/ wake \/ killChild \/ reap \/ childByPid
  PROVE  SInv'
<1>1. RunInv /\ LockKept /\ TermOK
  BY DEF SInv, RunInv
<1>2. CASE Rests
  <2>1. Idle /\ (phase' # "wild" => phase # "wild")
    BY <1>1, <1>2, RestsIdle
  <2>2. RunTypes' /\ RunOK' /\ BlockedAt' /\ LockKept'
    BY <1>1, <2>1, CalmRun DEF Idle
  <2>3. TermOK'
    BY <1>1, <1>2, <2>1, RestsTerm DEF Idle, Calm
  <2>4. phase' # "wild" => DoomOK' /\ Stands'
    BY <1>1, <2>1, <2>2, IdleStands DEF SInv, RunInv
  <2> QED BY <1>2, <2>2, <2>3, <2>4, SearchRests DEF SInv
<1>3. CASE wake
  <2>1. phase = "semop" /\ phase' = "semop"
    BY <1>3 DEF wake
  <2>2. RunTypes' /\ RunOK' /\ BlockedAt'
    <3>1. PICK h \in Proc : h = headBlocked(vop.sem) /\ QOut(h)
      BY <1>1, <1>3, WakeEffectIs
    <3> QED BY <1>1, <3>1, OutRun
  <2>3. LockKept' /\ TermOK'
    BY <1>1, <1>3, WakeLock, WakeTerm
  <2>4. DoomOK' /\ Stands'
    BY <1>1, <1>3, <2>1, <2>2, WakeStands DEF SInv, RunInv
  <2> QED BY <2>1, <2>2, <2>3, <2>4 DEF SInv, SearchOK
<1>4. CASE childByPid /\ phase' # "kill"
  BY <1>2, <1>4 DEF Rests
<1> QED BY <1>2, <1>3, <1>4, KillKeeps, ReapKeeps, HitKeeps

-----------------------------------------------------------------------------
(* The process that runs *)

LEMMA RunsFacts ==
  ASSUME SInv, phase = "user"
  PROVE  /\ RunInv /\ TInv /\ Base /\ LockKept /\ TermOK /\ DoomOK /\ Stands
         /\ Me \in Proc /\ Me \in Live /\ Me \notin Blocked /\ stack = <<>>
         /\ Standing = Live /\ Doomed = {} /\ 1 \in Live /\ p_parent[1] = NULL
         /\ Sync(View) /\ ViewOK /\ pos(Me) = run[Me].at /\ Live \subseteq Proc
         /\ run[Me] \in RunType /\ Fits(run[Me])
<1>1. RunInv /\ TInv /\ LockKept /\ TermOK /\ DoomOK /\ Stands
  BY DEF SInv, RunInv
<1>2. Base /\ Me \in Proc /\ Me \in Live /\ Me \notin Blocked /\ stack = <<>>
  BY <1>1, Alive
<1>3. Standing = Live /\ Doomed = {} /\ Live \subseteq Proc
  BY <1>1, <1>2, DoomedFacts
<1>4. ViewOK /\ pos(Me) = run[Me].at
  BY <1>1, <1>2, ViewState DEF pos
<1>5. run[Me] \in RunType /\ Fits(run[Me])
  BY <1>1, <1>2 DEF RunInv, RunTypes, RunOK
<1> QED BY <1>1, <1>2, <1>3, <1>4, <1>5 DEF Stands

LEMMA AfterIs ==
  ASSUME NEW r \in RunType, Fits(r), ~Past(r)
  PROVE  /\ After(r) \in RunType /\ Fits(After(r))
         /\ After(r).fun = r.fun /\ After(r).hdl = r.hdl
         /\ IF Prints(r) /\ r.in < Len(print)
            THEN After(r).at = r.at /\ After(r).in = r.in + 1
            ELSE After(r).at = r.at + 1 /\ After(r).in = 1
<1>1. /\ r.fun \in Functions /\ r.at \in Nat /\ r.in \in Nat /\ Len(Code[r.fun]) \in Nat
      /\ Len(print) \in Nat /\ Len(print) > 2
  BY Text, PrintIs DEF RunType
<1>2. r.at \in 1 .. Len(Code[r.fun]) /\ r.in \in 1 .. Len(print)
  BY <1>1 DEF Fits, Past
<1>3. CASE Prints(r) /\ r.in < Len(print)
  <2>1. After(r) = [r EXCEPT !.in = @ + 1]
    BY <1>3 DEF After
  <2>2. After(r) \in RunType /\ After(r).at = r.at /\ After(r).in = r.in + 1
        /\ After(r).fun = r.fun /\ After(r).hdl = r.hdl /\ After(r).back = r.back
    BY <2>1 DEF RunType
  <2>3. Prints(After(r))
    BY <1>3, <2>2 DEF Prints, Past
  <2>4. Fits(After(r))
    BY <1>1, <1>2, <1>3, <2>2, <2>3 DEF Fits
  <2> QED BY <1>3, <2>2, <2>4
<1>4. CASE ~(Prints(r) /\ r.in < Len(print))
  <2>1. After(r) = [r EXCEPT !.in = 1, !.at = @ + 1]
    BY <1>4 DEF After
  <2> DEFINE q == [r EXCEPT !.in = 1]
  <2>2. q \in RunType /\ q.at = r.at /\ q.fun = r.fun /\ q.hdl = r.hdl /\ q.back = r.back /\ q.in = 1
    BY DEF RunType
  <2>3. After(r) = [q EXCEPT !.at = r.at + 1]
    BY <2>1 DEF RunType
  <2> HIDE DEF q
  <2>4. After(r) \in RunType /\ After(r).at = r.at + 1 /\ After(r).in = 1
        /\ After(r).fun = r.fun /\ After(r).hdl = r.hdl /\ After(r).back = r.back
    BY <1>1, <2>2, <2>3 DEF RunType
  <2>5. Fits(After(r))
    BY <1>1, <1>2, <2>4 DEF Fits
  <2> QED BY <1>4, <2>4, <2>5
<1> QED BY <1>3, <1>4

LEMMA MoveRun ==
  ASSUME RunInv, NEW m \in Proc, m \notin Blocked, NEW r \in RunType, Fits(r),
         run' = [run EXCEPT ![m] = r], mem' \in [MemNames -> Int], mem'.p5dmode \in Nat,
         QSame
  PROVE  RunTypes' /\ RunOK' /\ BlockedAt'
<1>1. run \in [Proc -> RunType] /\ \A p \in Proc : Fits(run[p])
  BY DEF RunInv, RunTypes, RunOK
<1>2. RunTypes'
  BY <1>1 DEF RunTypes
<1>3. RunOK'
  <2>1. \A p \in Proc : run'[p] = IF p = m THEN r ELSE run[p]
    BY <1>1
  <2> QED BY <1>1, <2>1 DEF RunOK
<1>4. BlockedAt'
  <2>1. Blocked' = Blocked /\ \A p \in Blocked : Same(p) /\ p \in Proc
    BY BlockedFacts DEF QSame, RunInv
  <2>2. \A p \in Blocked : run'[p] = run[p]
    BY <1>1, <2>1
  <2>3. \A p \in Blocked : Prev(p)' = Prev(p)
    BY <2>2 DEF Prev
  <2>4. \A c : \A p \in Blocked : BlockedIn(p, c)' <=> BlockedIn(p, c)
    BY <2>1 DEF BlockedIn, Same
  <2> QED BY <2>1, <2>2, <2>3, <2>4 DEF RunInv, BlockedAt
<1> QED BY <1>2, <1>3, <1>4

LEMMA BlockRun ==
  ASSUME RunInv, NEW m \in Proc, m = Me, ~Done(m), m \notin Blocked,
         run' = [run EXCEPT ![m] = After(run[m])], UNCHANGED mem,
         NEW a, NEW n, QIn(m, a, n), NEW c, c = instr,
         run[m].in = Len(print) => ~Prints(run[m]),
         \/ c.op = "semop" /\ a = S(c.arg) /\ n = -c.n
         \/ c.op = "clock" /\ a = Clock
         \/ c.op = "io" /\ n = 1 /\ \E u \in Unit : a = IoSem(u)
  PROVE  RunTypes' /\ RunOK' /\ BlockedAt'
<1>1. run \in [Proc -> RunType] /\ \A p \in Proc : Fits(run[p])
  BY DEF RunInv, RunTypes, RunOK
<1> DEFINE r == run[m]
           r1 == After(run[m])
<1>2. r \in RunType /\ Fits(r) /\ ~Past(r)
  BY <1>1 DEF Done
<1>3. /\ r1 \in RunType /\ Fits(r1) /\ r1.fun = r.fun
      /\ IF Prints(r) /\ r.in < Len(print)
         THEN r1.at = r.at /\ r1.in = r.in + 1
         ELSE r1.at = r.at + 1 /\ r1.in = 1
  BY <1>2, AfterIs
<1>4. RunTypes'
  BY <1>1, <1>3 DEF RunTypes, RunInv
<1>5. \A p \in Proc : run'[p] = IF p = m THEN r1 ELSE run[p]
  BY <1>1
<1>6. RunOK'
  BY <1>1, <1>3, <1>5 DEF RunOK
<1>7. /\ r.at \in 1 .. Len(Code[r.fun]) /\ r.in \in 1 .. Len(print) /\ Len(Code[r.fun]) \in Nat
      /\ Len(print) \in Nat /\ r.at \in Nat /\ r.in \in Nat
  <2>1. r.fun \in Functions /\ r.at \in Nat /\ r.in \in Nat
    BY <1>2 DEF RunType
  <2>2. Len(Code[r.fun]) \in Nat /\ Len(print) \in Nat
    BY <2>1, Text, PrintIs
  <2> QED BY <1>2, <2>1, <2>2 DEF Fits, Past
<1>8. /\ run'[m].in > 1 \/ run'[m].at > 1
      /\ Prev(m)' = c
  <2>1. c = IF Prints(r) THEN print[r.in] ELSE Code[r.fun][r.at]
    BY DEF instr, here
  <2>2. run'[m] = r1
    BY <1>5
  <2>3. CASE Prints(r) /\ r.in < Len(print)
    <3>1. r1.in > 1 /\ r1.in - 1 = r.in
      BY <1>3, <1>7, <2>3
    <3> QED BY <2>1, <2>2, <2>3, <3>1 DEF Prev
  <2>4. CASE ~Prints(r)
    <3>1. r1.in = 1 /\ r1.at - 1 = r.at /\ r1.at > 1 /\ ~(r1.in > 1)
      BY <1>3, <1>7, <2>4
    <3> QED BY <1>3, <2>1, <2>2, <2>4, <3>1 DEF Prev
  <2> QED BY <1>7, <2>3, <2>4
<1>9. BlockedIn(m, c)'
  BY DEF QIn, BlockedIn, WaitsOn
<1>10. Blocked' = Blocked \cup {m} /\ \A p \in Blocked : Same(p) /\ p \in Proc /\ p # m
  BY BlockedFacts DEF QIn, RunInv
<1>11. \A p \in Blocked : run'[p] = run[p]
  BY <1>5, <1>10
<1>12. \A p \in Blocked : Prev(p)' = Prev(p)
  BY <1>11 DEF Prev
<1>13. \A d : \A p \in Blocked : BlockedIn(p, d)' <=> BlockedIn(p, d)
  BY <1>10 DEF BlockedIn, Same
<1>14. BlockedAt'
  <2> SUFFICES ASSUME NEW p \in Blocked'
               PROVE  (run'[p].in > 1 \/ run'[p].at > 1) /\ BlockedIn(p, Prev(p))'
    BY DEF BlockedAt
  <2>1. CASE p = m
    BY <1>8, <1>9, <2>1
  <2>2. CASE p \in Blocked
    BY <1>11, <1>12, <1>13, <2>2 DEF RunInv, BlockedAt
  <2> QED BY <1>10, <2>1, <2>2
<1> QED BY <1>4, <1>6, <1>14

-----------------------------------------------------------------------------
(* Steps of the running process that leave the tree as it is *)

\* How the running process m takes the lock, gives it back, or neither.
LockMoves(m) ==
  LET x == S("term_mut") IN
  \/ (Holding(m)' <=> Holding(m)) /\ SemVal(x)' = SemVal(x)
  \/ ~Holding(m) /\ Holding(m)' /\ SemVal(x)' = SemVal(x) - 1
  \/ Holding(m) /\ ~Holding(m)' /\ SemVal(x)' = SemVal(x) + 1

LEMMA LockBy ==
  ASSUME TInv, LockKept, Live' = Live, NEW m \in Live, LockMoves(m),
         \A q \in Live \ {m} : Holding(q)' <=> Holding(q)
  PROVE  LockKept'
<1> DEFINE H == Holders
           G == Holders'
           v == SemVal(S("term_mut"))
           w == SemVal(S("term_mut"))'
<1>1. IsFiniteSet(H) /\ Cardinality(H) \in Nat /\ Cardinality(H) + v = 1
  BY HoldersFinite, FS_CardinalityType DEF LockKept, Holders
<1>2. v \in Nat
  <2>1. semval \in [Sem -> Nat] /\ vop.free \in Nat
    BY DEF TInv, TypeOK, SemTypes, PhaseTypes
  <2> QED BY <2>1, SemsAre DEF SemVal, SemNames
<1>3. G = {p \in Live : Holding(p)'} /\ H = {p \in Live : Holding(p)}
  BY DEF Holders
<1>4. Cardinality(G) + w = 1
  <2>1. CASE (Holding(m)' <=> Holding(m)) /\ w = v
    <3>1. G = H
      BY <1>3, <2>1
    <3> QED BY <1>1, <2>1, <3>1
  <2>2. CASE ~Holding(m) /\ Holding(m)' /\ w = v - 1
    <3>1. G = H \cup {m} /\ m \notin H
      BY <1>3, <2>2
    <3> HIDE DEF G, H
    <3>2. Cardinality(G) = Cardinality(H) + 1
      BY <1>1, <3>1, FS_AddElement
    <3> QED BY <1>1, <1>2, <2>2, <3>2
  <2>3. CASE Holding(m) /\ ~Holding(m)' /\ w = v + 1
    <3>1. G = H \ {m} /\ m \in H
      BY <1>3, <2>3
    <3> HIDE DEF G, H
    <3>2. Cardinality(G) = Cardinality(H) - 1
      BY <1>1, <3>1, FS_RemoveElement
    <3> QED BY <1>1, <1>2, <2>3, <3>2
  <2> QED BY <2>1, <2>2, <2>3 DEF LockMoves
<1> QED BY <1>4 DEF LockKept, Holders

\* m does not move ...
Keeps(m) == /\ run'[m].fun = run[m].fun /\ pos(m)' = pos(m) /\ UNCHANGED mem
            /\ \A x \in Counted : SemVal(S(x))' = SemVal(S(x))

\* ... or it does what the text says.
Moves(m) ==
  /\ Where(View, View', m)
  /\ mem'.p5dmode = mem.p5dmode + N(run[m].fun = "p5c_user" /\ run[m].at = 1)
  /\ \A x \in Counted :
       SemVal(S(x))' = SemVal(S(x)) + Tally(run[m].fun, run[m].at)[x]

LEMMA ProcessKeeps ==
  ASSUME SInv, TInv', phase = "user", NEW m \in Proc, m = Me,
         RunTypes', RunOK', BlockedAt', SearchOK', TermOK',
         UNCHANGED <<pcbFree, p_parent, p_children, stack>>,
         \A q \in Proc \ {m} : run'[q] = run[q],
         QSame \/ \E a, n : QIn(m, a, n),
         LockMoves(m), Keeps(m) \/ Moves(m)
  PROVE  SInv'
<1>1. /\ RunInv /\ TInv /\ LockKept /\ Stands /\ m \in Live /\ m \notin Blocked
      /\ Standing = Live /\ Doomed = {} /\ 1 \in Live /\ Live \subseteq Proc
      /\ Sync(View) /\ ViewOK /\ pos(m) = run[m].at
  BY RunsFacts
<1>2. Live' = Live /\ Doomed' = Doomed /\ Standing' = Standing
  BY StillStands
<1>3. \A q \in Proc \ {m} : q \in Blocked' <=> q \in Blocked
  BY DEF QSame, QIn
<1>4. \A q \in Blocked : Same(q)
  BY DEF QSame, QIn
<1>5. \A q \in Proc \ {m} : pos(q)' = pos(q) /\ run'[q].fun = run[q].fun
  BY <1>3 DEF pos
<1>6. \A q \in Live \ {m} : Holding(q)' <=> Holding(q)
  BY <1>1, <1>3, <1>4 DEF Holding, Same
<1>7. LockKept'
  BY <1>1, <1>2, <1>6, LockBy
<1>8. RunInv'
  BY DEF RunInv
<1>9. Stands'
  <2>1. CASE Keeps(m)
    <3>1. UNCHANGED mem /\ \A q \in Standing : /\ p_parent'[q] = p_parent[q]
                                               /\ run'[q].fun = run[q].fun /\ pos(q)' = pos(q)
      BY <1>1, <1>5, <2>1 DEF Keeps
    <3>2. Loses(View, View')
      BY <1>1, <1>2, <2>1, <3>1, LosesNone DEF Keeps
    <3> QED BY <1>1, <1>2, <1>8, <3>2, StandsBy, ViewNext DEF Stands
  <2>2. CASE Moves(m)
    <3>1. Goes(View, View', m)
      BY <1>1, <1>2, <1>5, <2>2, GoesBy DEF Moves
    <3> QED BY <1>1, <1>2, <1>8, <3>1, GoesStands
  <2> QED BY <2>1, <2>2
<1>10. DoomOK'
  BY <1>1, <1>2 DEF DoomOK
<1> QED BY <1>7, <1>9, <1>10 DEF SInv

LEMMA TermBy ==
  ASSUME TermOK, UNCHANGED dev, phase = "user",
         \A u \in Unit : /\ semval'[IoSem(u)] = semval[IoSem(u)]
                         /\ phase' = "semop" => vop'.sem # IoSem(u)
                         /\ Waiting(IoSem(u))' = Waiting(IoSem(u))
  PROVE  TermOK'
BY DEF TermOK, Signals

\* No process is queued or leaves a queue.
LEMMA MovedKeeps ==
  ASSUME SInv, TInv', phase = "user", NEW m \in Proc, m = Me,
         NEW r \in RunType, Fits(r), run' = [run EXCEPT ![m] = r],
         mem' \in [MemNames -> Int], mem'.p5dmode \in Nat, QSame,
         UNCHANGED <<pcbFree, p_parent, p_children, stack, dev>>,
         \A u \in Unit : semval'[IoSem(u)] = semval[IoSem(u)],
         phase' = "semop" => \E x \in SemNames : vop'.sem = S(x),
         SearchOK', LockMoves(m), Keeps(m) \/ Moves(m)
  PROVE  SInv'
<1>1. RunInv /\ TermOK /\ m \notin Blocked /\ run \in [Proc -> RunType]
  BY RunsFacts DEF SInv, RunTypes
<1>2. RunTypes' /\ RunOK' /\ BlockedAt'
  BY <1>1, MoveRun
<1>3. \A u \in Unit : /\ Waiting(IoSem(u))' = Waiting(IoSem(u))
                      /\ phase' = "semop" => vop'.sem # IoSem(u)
  BY QSameWaits, SemsAre
<1>4. TermOK'
  BY <1>1, <1>3, TermBy
<1>5. \A q \in Proc \ {m} : run'[q] = run[q]
  BY <1>1
<1> QED BY <1>2, <1>4, <1>5, ProcessKeeps

\* A process that stays where it is: insertBlocked found no descriptor, or a
\* comparison failed.
LEMMA StaysKeeps ==
  ASSUME SInv, TInv', phase = "user", NEW m \in Proc, m = Me, UNCHANGED mem,
         UNCHANGED run \/ run' = [run EXCEPT ![m] = [run[m] EXCEPT !.failed = TRUE]],
         QSame, UNCHANGED <<pcbFree, p_parent, p_children, stack, dev, semval>>,
         phase' \notin {"semop", "search"}
  PROVE  SInv'
<1>1. /\ RunInv /\ m \notin Blocked /\ run \in [Proc -> RunType] /\ run[m] \in RunType
      /\ Fits(run[m]) /\ mem \in [MemNames -> Int] /\ mem.p5dmode \in Nat
  BY RunsFacts DEF SInv, RunTypes
<1>2. PICK r \in RunType : /\ run' = [run EXCEPT ![m] = r]
                           /\ r.fun = run[m].fun /\ r.at = run[m].at /\ r.in = run[m].in
                           /\ r.hdl = run[m].hdl /\ r.back = run[m].back
  <2>1. CASE UNCHANGED run
    <3>1. run' = [run EXCEPT ![m] = run[m]]
      BY <1>1, <2>1
    <3> QED BY <1>1, <3>1
  <2>2. CASE run' = [run EXCEPT ![m] = [run[m] EXCEPT !.failed = TRUE]]
    <3> DEFINE r == [run[m] EXCEPT !.failed = TRUE]
    <3>1. r \in RunType /\ r.fun = run[m].fun /\ r.at = run[m].at /\ r.in = run[m].in
          /\ r.hdl = run[m].hdl /\ r.back = run[m].back
      BY <1>1 DEF RunType
    <3> QED BY <2>2, <3>1
  <2> QED BY <2>1, <2>2
<1>3. Fits(r)
  BY <1>1, <1>2 DEF Fits, Prints, Past
<1>4. run'[m] = r /\ m \notin Blocked'
  BY <1>1, <1>2 DEF QSame
<1>5. \A x \in SemNames : SemVal(S(x))' = SemVal(S(x))
  BY SemValSame
<1>6. LockMoves(m)
  <2>1. Holding(m) <=> run[m].in > 1
    BY <1>1 DEF Holding
  <2>2. Holding(m)' <=> r.in > 1
    BY <1>4 DEF Holding
  <2>3. SemVal(S("term_mut"))' = SemVal(S("term_mut"))
    BY <1>5 DEF SemNames
  <2> QED BY <1>2, <2>1, <2>2, <2>3 DEF LockMoves
<1>7. Keeps(m)
  <2>1. pos(m)' = pos(m)
    BY <1>1, <1>2, <1>4 DEF pos
  <2> QED BY <1>2, <1>4, <1>5, <2>1, CountedAre DEF Keeps
<1>8. SearchOK'
  BY DEF SearchOK
<1> QED BY <1>1, <1>2, <1>3, <1>6, <1>7, <1>8, MovedKeeps

-----------------------------------------------------------------------------
(* A process that prints *)

LEMMA PrintFacts ==
  ASSUME SInv, phase = "user", NEW m \in Proc, m = Me, ~Done(m), Prints(run[m])
  PROVE  LET r == run[m] IN
         /\ r \in RunType /\ Fits(r) /\ m \notin Blocked /\ pos(m) = r.at
         /\ r.in \in 1 .. Len(print) /\ Len(print) \in Nat /\ Len(print) > 2 /\ r.in \in Nat
         /\ After(r) \in RunType /\ Fits(After(r)) /\ After(r).fun = r.fun
         /\ r.in < Len(print) => After(r).at = r.at /\ After(r).in = r.in + 1
         /\ r.in = Len(print) => After(r).at = r.at + 1 /\ After(r).in = 1
         /\ Holding(m) <=> r.in > 1
         /\ run \in [Proc -> RunType] /\ mem \in [MemNames -> Int] /\ mem.p5dmode \in Nat
         /\ semval \in [Sem -> Nat]
         /\ \A x \in Counted : Tally(r.fun, r.at)[x] = 0
         /\ r.fun = "p5" => r.at # 4
         /\ r.at = 4 => r.fun \notin {"p5c", "p5c_user"}
         /\ ~(r.fun = "p5c_user" /\ r.at = 1)
<1> DEFINE r == run[m]
<1>1. /\ RunInv /\ TInv /\ r \in RunType /\ Fits(r) /\ m \notin Blocked /\ pos(m) = r.at
      /\ run \in [Proc -> RunType] /\ mem \in [MemNames -> Int] /\ mem.p5dmode \in Nat
  BY RunsFacts DEF SInv, RunTypes
<1>2. ~Past(r)
  BY DEF Done
<1>3. r.fun \in Functions /\ r.at \in 1 .. Len(Code[r.fun]) /\ r.in \in 1 .. Len(print)
      /\ Code[r.fun][r.at] = Message /\ Legal(r.fun, r.at, Message)
  BY <1>1, InstrIs DEF RunInv
<1>4. Len(print) \in Nat /\ Len(print) > 2 /\ r.in \in Nat
  BY <1>1, PrintIs DEF RunType
<1>5. semval \in [Sem -> Nat]
  BY <1>1 DEF TInv, TypeOK, SemTypes
<1>6. \A x \in Counted : Tally(r.fun, r.at)[x] = 0
  BY <1>3 DEF Legal, SemopAt, Message
<1>7. /\ r.fun = "p5" => r.at # 4
      /\ r.at = 4 => r.fun \notin {"p5c", "p5c_user"}
  BY <1>3 DEF Legal, JumpAt, Message, Until
<1>8. ~(r.fun = "p5c_user" /\ r.at = 1)
  BY <1>3 DEF Legal, DataAt, Message
<1>9. Holding(m) <=> r.in > 1
  BY <1>1 DEF Holding
<1>10. /\ After(r) \in RunType /\ Fits(After(r)) /\ After(r).fun = r.fun
       /\ r.in < Len(print) => After(r).at = r.at /\ After(r).in = r.in + 1
       /\ r.in = Len(print) => After(r).at = r.at + 1 /\ After(r).in = 1
  BY <1>1, <1>2, <1>4, AfterIs
<1> QED BY <1>1, <1>3, <1>4, <1>5, <1>6, <1>7, <1>8, <1>9, <1>10

LEMMA MinusOne == \A k \in Int : k + 1 = 0 => -k = 1
OBVIOUS

\* The P of print on the lock.
LEMMA LockKeeps ==
  ASSUME SInv, TInv', phase = "user", NEW m \in Proc, m = Me, ~Done(m), Prints(run[m]),
         run[m].in = 1, semop(S("term_mut"), -1), Return, UNCHANGED mem
  PROVE  SInv'
<1> DEFINE r == run[m]
           x == S("term_mut")
<1>1. /\ r \in RunType /\ Fits(r) /\ m \notin Blocked /\ pos(m) = r.at
      /\ After(r) \in RunType /\ Fits(After(r)) /\ After(r).fun = r.fun
      /\ After(r).at = r.at /\ After(r).in = 2 /\ ~Holding(m) /\ Len(print) \in Nat /\ Len(print) > 2
      /\ run \in [Proc -> RunType] /\ mem \in [MemNames -> Int] /\ mem.p5dmode \in Nat
      /\ semval \in [Sem -> Nat]
  <2>1. Len(print) \in Nat /\ Len(print) > 2
    BY PrintIs
  <2> QED BY <2>1, PrintFacts
<1>2. /\ x \in Sem /\ (\A u \in Unit : IoSem(u) # x) /\ (\A y \in Counted : S(y) # x)
      /\ \A y \in Counted : S(y) \in Sem
  BY SemsAre, CountedAre DEF SemNames
<1>3. /\ P(x, -1) /\ UNCHANGED <<vop, pcbFree, treeVars, dev, killVars>>
  BY DEF semop
<1>4. RunInv /\ TInv /\ TermOK
  BY DEF SInv, RunInv
<1>5. phase' = "noSemd" \/ run' = [run EXCEPT ![m] = After(r)]
  BY DEF Return, Advance, Goto
<1>6. CASE phase' = "user" /\ QSame /\ semval' = [semval EXCEPT ![x] = @ + (-1)]
  <2>1. run' = [run EXCEPT ![m] = After(r)] /\ run'[m] = After(r) /\ m \notin Blocked'
    BY <1>1, <1>5, <1>6 DEF QSame
  <2>2. semval'[x] = semval[x] - 1 /\ \A a \in Sem \ {x} : semval'[a] = semval[a]
    BY <1>1, <1>2, <1>6
  <2>3. LockMoves(m)
    <3>1. Holding(m)'
      BY <1>1, <2>1 DEF Holding
    <3>2. SemVal(x)' = SemVal(x) - 1
      BY <1>6, <2>2 DEF SemVal
    <3> QED BY <1>1, <3>1, <3>2 DEF LockMoves
  <2>4. Keeps(m)
    <3>1. pos(m)' = pos(m)
      BY <1>1, <2>1 DEF pos
    <3>2. \A y \in Counted : SemVal(S(y))' = SemVal(S(y))
      BY <1>2, <1>6, <2>2 DEF SemVal
    <3> QED BY <1>1, <2>1, <3>1, <3>2 DEF Keeps
  <2>5. \A u \in Unit : semval'[IoSem(u)] = semval[IoSem(u)]
    BY <1>2, <2>2, SemsAre
  <2>6. UNCHANGED <<pcbFree, p_parent, p_children, stack, dev>>
    BY <1>3 DEF treeVars, killVars
  <2>7. SearchOK'
    BY <1>6 DEF SearchOK
  <2>8. mem' \in [MemNames -> Int] /\ mem'.p5dmode \in Nat
    BY <1>1
  <2> QED BY <1>1, <1>6, <2>1, <2>3, <2>4, <2>5, <2>6, <2>7, <2>8, MovedKeeps
<1>7. CASE phase' = "sched" /\ QIn(m, x, 1) /\ UNCHANGED semval
  <2>1. run' = [run EXCEPT ![m] = After(r)] /\ run'[m] = After(r) /\ m \in Blocked'
    BY <1>1, <1>5, <1>7 DEF QIn
  <2>2. RunTypes' /\ RunOK' /\ BlockedAt'
    <3>1. PICK c : c = instr
      OBVIOUS
    <3>2. instr = W("term_mut", 1)
      BY <1>1, <1>4, InstrIs DEF RunInv
    <3>3. c.op = "semop" /\ x = S(c.arg) /\ c.n \in Int /\ c.n + 1 = 0
      BY <3>1, <3>2 DEF W
    <3>5. 1 = -c.n
      BY <3>3, MinusOne, Zenon
    <3>4. r.in = Len(print) => ~Prints(r)
      BY <1>1
    <3> QED BY <1>1, <1>4, <1>7, <2>1, <3>1, <3>3, <3>4, <3>5, BlockRun
  <2>3. LockMoves(m)
    <3>1. WaitsOn(m)' = x
      BY <1>7 DEF QIn, WaitsOn
    <3>2. ~Holding(m)'
      BY <2>1, <3>1 DEF Holding
    <3>3. SemVal(x)' = SemVal(x)
      BY <1>7 DEF SemVal
    <3> QED BY <1>1, <3>2, <3>3 DEF LockMoves
  <2>4. Keeps(m)
    <3>1. pos(m)' = pos(m)
      BY <1>1, <2>1 DEF pos
    <3>2. \A y \in Counted : SemVal(S(y))' = SemVal(S(y))
      BY <1>7 DEF SemVal
    <3> QED BY <1>1, <2>1, <3>1, <3>2 DEF Keeps
  <2>5. \A u \in Unit : Waiting(IoSem(u))' = Waiting(IoSem(u))
    <3>1. WaitsOn(m)' = x
      BY <1>7 DEF QIn, WaitsOn
    <3> QED BY <1>2, <1>7, <3>1 DEF QIn, Waiting, Same
  <2>6. TermOK'
    BY <1>3, <1>4, <1>7, <2>5, TermBy
  <2>7. UNCHANGED <<pcbFree, p_parent, p_children, stack>> /\ SearchOK'
    BY <1>3, <1>7 DEF treeVars, killVars, SearchOK
  <2>8. \A q \in Proc \ {m} : run'[q] = run[q]
    BY <1>1, <2>1
  <2> QED BY <1>7, <2>2, <2>3, <2>4, <2>6, <2>7, <2>8, ProcessKeeps
<1>8. CASE phase' = "noSemd" /\ QSame /\ UNCHANGED semval
  <2>1. UNCHANGED run
    BY <1>8 DEF Return
  <2>2. UNCHANGED <<pcbFree, p_parent, p_children, stack, dev>>
    BY <1>3 DEF treeVars, killVars
  <2> QED BY <1>8, <2>1, <2>2, StaysKeeps
<1>9. \/ phase' = "user" /\ QSame /\ semval' = [semval EXCEPT ![x] = @ + (-1)]
      \/ phase' = "sched" /\ QIn(m, x, 1) /\ UNCHANGED semval
      \/ phase' = "noSemd" /\ QSame /\ UNCHANGED semval
  <2>1. PICK n : n = -1
    OBVIOUS
  <2>2. n \in Int /\ n + 1 = 0 /\ n < 0
    BY <2>1
  <2>3. n \in Int /\ n < 0 /\ -n = 1 /\ P(x, n)
    BY <1>3, <2>1, <2>2, MinusOne, Zenon
  <2>4. \/ phase' = "user" /\ QSame /\ semval' = [semval EXCEPT ![x] = @ + n]
        \/ phase' = "sched" /\ QIn(m, x, -n) /\ UNCHANGED semval
        \/ phase' = "noSemd" /\ QSame /\ UNCHANGED semval
    BY <1>2, <1>4, <2>3, PCases
  <2> QED BY <2>1, <2>3, <2>4, Zenon
<1> QED BY <1>6, <1>7, <1>8, <1>9

\* The V of print on the lock.
LEMMA UnlockKeeps ==
  ASSUME SInv, TInv', phase = "user", NEW m \in Proc, m = Me, ~Done(m), Prints(run[m]),
         run[m].in = Len(print), semop(S("term_mut"), 1), Return, UNCHANGED mem
  PROVE  SInv'
<1> DEFINE r == run[m]
           x == S("term_mut")
<1>1. /\ r \in RunType /\ Fits(r) /\ m \notin Blocked /\ pos(m) = r.at
      /\ After(r) \in RunType /\ Fits(After(r)) /\ After(r).fun = r.fun
      /\ After(r).at = r.at + 1 /\ After(r).in = 1 /\ Holding(m)
      /\ run \in [Proc -> RunType] /\ mem \in [MemNames -> Int] /\ mem.p5dmode \in Nat
      /\ semval \in [Sem -> Nat]
  BY PrintFacts
<1>2. /\ \A y \in Counted : Tally(r.fun, r.at)[y] = 0
      /\ r.fun = "p5" => r.at # 4
      /\ r.at = 4 => r.fun \notin {"p5c", "p5c_user"}
      /\ ~(r.fun = "p5c_user" /\ r.at = 1)
  BY PrintFacts
<1>3. /\ x \in Sem /\ (\A u \in Unit : IoSem(u) # x) /\ (\A y \in Counted : S(y) # x)
      /\ "term_mut" \in SemNames
  BY SemsAre, CountedAre DEF SemNames
<1>4. /\ phase' = "semop" /\ vop'.sem = x /\ vop'.free = 1 + semval[x]
      /\ UNCHANGED <<aslVars, semval, pcbFree, treeVars, dev, killVars>>
  BY DEF semop, startV
<1>5. /\ UNCHANGED <<s_procq, p_cursem, s_semAdd, res_requested>>
      /\ UNCHANGED <<pcbFree, p_parent, p_children, stack, dev, semval>>
  BY <1>4 DEF aslVars, treeVars, killVars
<1>6. QSame
  BY <1>5, QStays
<1>7. run' = [run EXCEPT ![m] = After(r)] /\ run'[m] = After(r) /\ m \notin Blocked'
  BY <1>1, <1>4, <1>6 DEF Return, Advance, Goto, QSame
<1>8. LockMoves(m)
  <2>1. ~Holding(m)'
    BY <1>1, <1>7 DEF Holding
  <2>2. SemVal(x)' = SemVal(x) + 1
    BY <1>1, <1>3, <1>4 DEF SemVal
  <2> QED BY <1>1, <2>1, <2>2 DEF LockMoves
<1>9. \A y \in Counted : SemVal(S(y))' = SemVal(S(y)) /\ SemVal(S(y)) \in Nat
  <2>1. \A y \in Counted : S(y) \in Sem
    BY SemsAre, CountedAre
  <2> QED BY <1>1, <1>3, <1>4, <2>1 DEF SemVal
<1>10. Moves(m)
  <2>1. pos(m)' = pos(m) + 1
    BY <1>1, <1>7 DEF pos
  <2>2. Where(View, View', m)
    BY <1>1, <1>2, <1>7, <2>1, WhereOn
  <2>3. mem'.p5dmode = mem.p5dmode + N(r.fun = "p5c_user" /\ r.at = 1)
    BY <1>1, <1>2 DEF N
  <2>4. \A y \in Counted : SemVal(S(y))' = SemVal(S(y)) + Tally(r.fun, r.at)[y]
    BY <1>2, <1>9
  <2> QED BY <2>2, <2>3, <2>4 DEF Moves
<1>11. SearchOK'
  BY <1>4 DEF SearchOK
<1>12. mem' \in [MemNames -> Int] /\ mem'.p5dmode \in Nat
  BY <1>1
<1>13. \A u \in Unit : semval'[IoSem(u)] = semval[IoSem(u)]
  BY <1>5
<1> QED BY <1>1, <1>3, <1>4, <1>5, <1>6, <1>7, <1>8, <1>10, <1>11, <1>12, <1>13, MovedKeeps

\* SYS10 in print blocks.
LEMMA IoKeeps ==
  ASSUME SInv, TInv', phase = "user", NEW m \in Proc, m = Me, ~Done(m), Prints(run[m]),
         run[m].in \in 2 .. Len(print) - 1, instr = IoDevop,
         NEW u \in Unit, ioDevop(u), Return, UNCHANGED mem
  PROVE  SInv'
<1> DEFINE r == run[m]
           x == IoSem(u)
<1>1. /\ r \in RunType /\ Fits(r) /\ m \notin Blocked /\ pos(m) = r.at
      /\ After(r) \in RunType /\ Fits(After(r)) /\ After(r).fun = r.fun
      /\ After(r).at = r.at /\ After(r).in = r.in + 1 /\ Holding(m) /\ r.in > 1
      /\ run \in [Proc -> RunType] /\ r.in \in Nat /\ Len(print) \in Nat
  <2>1. Len(print) \in Nat /\ r.in \in Nat
    BY PrintFacts
  <2>2. r.in < Len(print) /\ r.in > 1
    BY <2>1
  <2> QED BY <2>1, <2>2, PrintFacts
<1>2. /\ x \in Sem /\ (\A y \in SemNames : S(y) # x) /\ \A v \in Unit : v = u
  BY SemsAre
<1>3. RunInv /\ TInv /\ TermOK
  BY DEF SInv, RunInv
<1>4. semval[x] = 0
  BY <1>3 DEF TermOK
<1>5. P(x, -1) /\ UNCHANGED <<vop, pcbFree, treeVars, killVars>>
      /\ (phase' = "noSemd" => UNCHANGED dev)
  BY DEF ioDevop
<1>6. \/ phase' = "sched" /\ QIn(m, x, 1) /\ UNCHANGED semval
      \/ phase' = "noSemd" /\ QSame /\ UNCHANGED semval
  <2>1. PICK n : n = -1
    OBVIOUS
  <2>2. n \in Int /\ n + 1 = 0 /\ n < 0 /\ ~(0 + n >= 0)
    BY <2>1
  <2>3. n \in Int /\ n < 0 /\ -n = 1 /\ P(x, n)
    BY <1>5, <2>1, <2>2, MinusOne, Zenon
  <2>4. \/ phase' = "user" /\ semval[x] + n >= 0
        \/ phase' = "sched" /\ QIn(m, x, -n) /\ UNCHANGED semval
        \/ phase' = "noSemd" /\ QSame /\ UNCHANGED semval
    BY <1>2, <1>3, <2>3, PCases
  <2> QED BY <1>4, <2>2, <2>3, <2>4
<1>7. CASE phase' = "sched" /\ QIn(m, x, 1) /\ UNCHANGED semval
  <2>1. run' = [run EXCEPT ![m] = After(r)] /\ run'[m] = After(r) /\ m \in Blocked'
    BY <1>1, <1>7 DEF Return, Advance, Goto, QIn
  <2>2. RunTypes' /\ RunOK' /\ BlockedAt'
    <3>1. PICK c : c = instr
      OBVIOUS
    <3>2. c.op = "io"
      BY <3>1 DEF IoDevop
    <3>3. r.in = Len(print) => ~Prints(r)
      BY <1>1
    <3> QED BY <1>1, <1>3, <1>7, <2>1, <3>1, <3>2, <3>3, BlockRun
  <2>3. WaitsOn(m)' = x /\ x # S("term_mut")
    BY <1>2, <1>7 DEF QIn, WaitsOn, SemNames
  <2>4. LockMoves(m)
    <3>1. Holding(m)'
      BY <1>1, <2>1, <2>3 DEF Holding
    <3>2. SemVal(S("term_mut"))' = SemVal(S("term_mut"))
      BY <1>7 DEF SemVal
    <3> QED BY <1>1, <3>1, <3>2 DEF LockMoves
  <2>5. Keeps(m)
    <3>1. pos(m)' = pos(m)
      BY <1>1, <2>1 DEF pos
    <3>2. \A y \in Counted : SemVal(S(y))' = SemVal(S(y))
      BY <1>7 DEF SemVal
    <3> QED BY <1>1, <2>1, <3>1, <3>2 DEF Keeps
  <2>6. m \in Waiting(x)'
    BY <2>1, <2>3 DEF Waiting
  <2>7. TermOK'
    BY <1>2, <1>3, <1>7, <2>6 DEF TermOK, Signals
  <2>8. UNCHANGED <<pcbFree, p_parent, p_children, stack>> /\ SearchOK'
    BY <1>5, <1>7 DEF treeVars, killVars, SearchOK
  <2>9. \A q \in Proc \ {m} : run'[q] = run[q]
    BY <1>1, <2>1
  <2> QED BY <1>7, <2>2, <2>4, <2>5, <2>7, <2>8, <2>9, ProcessKeeps
<1>8. CASE phase' = "noSemd" /\ QSame /\ UNCHANGED semval
  <2>1. UNCHANGED run
    BY <1>8 DEF Return
  <2>2. UNCHANGED <<pcbFree, p_parent, p_children, stack, dev>>
    BY <1>5, <1>8 DEF treeVars, killVars
  <2> QED BY <1>8, <2>1, <2>2, StaysKeeps
<1> QED BY <1>6, <1>7, <1>8

\* The comparison of the status in print.
LEMMA StatusKeeps ==
  ASSUME SInv, TInv', phase = "user", NEW m \in Proc, m = Me, ~Done(m), Prints(run[m]),
         run[m].in \in 2 .. Len(print) - 1,
         run' = [run EXCEPT ![m] = After(run[m])], UNCHANGED <<mem, vars>>
  PROVE  SInv'
<1> DEFINE r == run[m]
<1>1. /\ r \in RunType /\ Fits(r) /\ m \notin Blocked /\ pos(m) = r.at
      /\ After(r) \in RunType /\ Fits(After(r)) /\ After(r).fun = r.fun
      /\ After(r).at = r.at /\ After(r).in = r.in + 1 /\ Holding(m) /\ r.in > 1
      /\ run \in [Proc -> RunType] /\ r.in \in Nat
      /\ mem \in [MemNames -> Int] /\ mem.p5dmode \in Nat
  <2>1. Len(print) \in Nat /\ r.in \in Nat
    BY PrintFacts
  <2>2. r.in < Len(print) /\ r.in > 1
    BY <2>1
  <2> QED BY <2>1, <2>2, PrintFacts
<1>2. UNCHANGED <<pcbFree, p_parent, p_children, stack, dev, semval, phase, vop>> /\ QSame
  BY QStays DEF vars, treeVars, aslVars, killVars
<1>3. run'[m] = After(r) /\ m \notin Blocked'
  BY <1>1, <1>2 DEF QSame
<1>4. \A x \in SemNames : SemVal(S(x))' = SemVal(S(x))
  BY <1>2 DEF SemVal
<1>5. LockMoves(m)
  <2>1. Holding(m)'
    BY <1>1, <1>3 DEF Holding
  <2> QED BY <1>1, <1>4, <2>1 DEF LockMoves, SemNames
<1>6. Keeps(m)
  <2>1. pos(m)' = pos(m)
    BY <1>1, <1>3 DEF pos
  <2> QED BY <1>1, <1>3, <1>4, <2>1, CountedAre DEF Keeps
<1>7. SearchOK' /\ mem' \in [MemNames -> Int] /\ mem'.p5dmode \in Nat /\ phase' # "semop"
      /\ \A u \in Unit : semval'[IoSem(u)] = semval[IoSem(u)]
  BY <1>1, <1>2 DEF SearchOK
<1> QED BY <1>1, <1>2, <1>5, <1>6, <1>7, MovedKeeps

LEMMA PrintsKeeps ==
  ASSUME SInv, TInv', phase = "user", ~Done(Me), Prints(run[Me]), Program
  PROVE  SInv'
<1>1. PICK m \in Proc : m = Me
  BY RunsFacts
<1>2. RunTypes /\ RunOK /\ Len(print) \in Nat /\ Len(print) > 2 /\ run[m].in \in 1 .. Len(print)
  BY <1>1, PrintFacts DEF SInv
<1>3. CASE run[m].in = 1
  <2>1. instr = W("term_mut", 1)
    BY <1>1, <1>2, <1>3, InstrIs
  <2>2. semopCall
    BY <2>1 DEF W, Program, semopCall, createCall, killCall, exitCall, clockCall, ioCall, specCall,
           raise, exitTrap, getPid, store, incr, reset, ensure, branch, until, again, Runs
  <2>3. semop(S("term_mut"), -1) /\ Return /\ UNCHANGED mem
    BY <2>1, <2>2 DEF semopCall, W
  <2> QED BY <1>1, <1>3, <2>3, LockKeeps
<1>4. CASE run[m].in = Len(print)
  <2>1. instr = V("term_mut", 1)
    BY <1>1, <1>2, <1>4, InstrIs
  <2>2. semopCall
    BY <2>1 DEF V, Program, semopCall, createCall, killCall, exitCall, clockCall, ioCall, specCall,
           raise, exitTrap, getPid, store, incr, reset, ensure, branch, until, again, Runs
  <2>3. semop(S("term_mut"), 1) /\ Return /\ UNCHANGED mem
    BY <2>1, <2>2 DEF semopCall, V
  <2> QED BY <1>1, <1>4, <2>3, UnlockKeeps
<1>5. CASE run[m].in \in 2 .. Len(print) - 1
  <2>1. instr = IoDevop \/ instr = Status
    BY <1>1, <1>2, <1>5, InstrIs
  <2>2. CASE instr = IoDevop
    <3>1. ioCall
      BY <2>2 DEF IoDevop, Program, semopCall, createCall, killCall, exitCall, clockCall, ioCall,
             specCall, raise, exitTrap, getPid, store, incr, reset, ensure, branch, until, again,
             Runs
    <3> QED BY <1>1, <1>5, <2>2, <3>1, IoKeeps DEF ioCall
  <2>3. CASE instr = Status
    <3>1. ensure
      BY <2>3 DEF Status, Program, semopCall, createCall, killCall, exitCall, clockCall, ioCall,
             specCall, raise, exitTrap, getPid, store, incr, reset, ensure, branch, until, again,
             Runs
    <3>2. UNCHANGED <<mem, vars>> /\ (Advance \/ Fail)
      BY <3>1 DEF ensure
    <3>3. CASE Advance
      BY <1>1, <1>5, <3>2, <3>3, StatusKeeps DEF Advance, Goto
    <3>4. CASE Fail
      <4>1. run' = [run EXCEPT ![m] = [run[m] EXCEPT !.failed = TRUE]]
        BY <1>1, <3>4 DEF Fail, Goto
      <4>2. UNCHANGED <<pcbFree, p_parent, p_children, stack, dev, semval, phase>> /\ QSame
        BY <3>2, QStays DEF vars, treeVars, aslVars, killVars
      <4> QED BY <1>1, <3>2, <4>1, <4>2, StaysKeeps
    <3> QED BY <3>2, <3>3, <3>4
  <2> QED BY <2>1, <2>2, <2>3
<1> QED BY <1>2, <1>3, <1>4, <1>5

-----------------------------------------------------------------------------
(* A process that does not print *)

\* Where control goes on but at the next position.
Jump(f, k, g, n) ==
  \/ f = "test" /\ k = 33 /\ g = "test" /\ n = 32
  \/ f = "test" /\ k = 36 /\ g = "test" /\ n = 25
  \/ f = "p3" /\ k = 4 /\ g = "p3" /\ n = 3
  \/ f = "p5" /\ k = 4 /\ g = "p5" /\ n = 3
  \/ f = "p5a" /\ g = "p5prog_fetch" /\ n = 1
  \/ f = "p5b" /\ g = "p5mm" /\ n = 1
  \/ f = "p5c" /\ k = 4 /\ mem.p5dmode = 0 /\ g = "p5c_user" /\ n = 1
  \/ f = "p5c" /\ k = 4 /\ mem.p5dmode > 0 /\ g = "p5c_kernel" /\ n = 1
  \/ f = "p5c_user" /\ k = 3 /\ g = "p5sys_user" /\ n = 1
  \/ f = "p5c_user" /\ k = 4 /\ g = "p5prog_instr" /\ n = 1
  \/ f = "p5c_kernel" /\ k = 2 /\ g = "p5sys_kernel" /\ n = 1
  \/ f = "p5sys_user" /\ g = "p5c_user" /\ n = 4
  \/ f = "p5sys_kernel" /\ g = "p5c_kernel" /\ n = 3

\* The next position, where it is not a jump that is to be made.
Steps(r, q) ==
  /\ q.fun = r.fun /\ q.at = r.at + 1
  /\ r.fun = "p5" /\ r.at = 4 => Of(View, {"p4"}) = {}
  /\ r.at = 4 => r.fun \notin {"p5c", "p5c_user"}

LEMMA WhereJump ==
  ASSUME NEW m \in Proc, Jump(run[m].fun, pos(m), run'[m].fun, pos(m)')
  PROVE  Where(View, View', m)
<1> DEFINE s == View
           t == View'
<1>1. s.fun[m] = run[m].fun /\ s.pos[m] = pos(m) /\ s.mode = mem.p5dmode
  BY ViewIs
<1>2. t.fun[m] = run'[m].fun /\ t.pos[m] = pos(m)'
  BY DEF View
<1> HIDE DEF s, t
<1>3. Where(s, t, m)
  BY <1>1, <1>2 DEF Jump, Where, At, To
<1> QED BY <1>3 DEF s, t

LEMMA CodeFacts ==
  ASSUME SInv, phase = "user", NEW m \in Proc, m = Me, ~Done(m), ~Prints(run[m])
  PROVE  LET r == run[m] IN
         /\ r \in RunType /\ Fits(r) /\ m \notin Blocked /\ pos(m) = r.at /\ r.in = 1
         /\ r.fun \in Functions /\ r.at \in 1 .. Len(Code[r.fun]) /\ Len(Code[r.fun]) \in Nat
         /\ instr = Code[r.fun][r.at] /\ Legal(r.fun, r.at, instr)
         /\ After(r) \in RunType /\ Fits(After(r)) /\ After(r).fun = r.fun
         /\ After(r).hdl = r.hdl /\ After(r).at = r.at + 1 /\ After(r).in = 1
         /\ ~Holding(m)
         /\ run \in [Proc -> RunType] /\ mem \in [MemNames -> Int] /\ mem.p5dmode \in Nat
         /\ semval \in [Sem -> Nat]
         /\ instr.op # "semop" => \A x \in Counted : Tally(r.fun, r.at)[x] = 0
         /\ instr.op # "until" => ~(r.fun = "p5" /\ r.at = 4)
         /\ instr.op \notin {"branch", "raise"} => (r.at = 4 => r.fun \notin {"p5c", "p5c_user"})
<1> DEFINE r == run[m]
<1>1. /\ RunInv /\ TInv /\ r \in RunType /\ Fits(r) /\ m \notin Blocked /\ pos(m) = r.at
      /\ run \in [Proc -> RunType] /\ mem \in [MemNames -> Int] /\ mem.p5dmode \in Nat
  BY RunsFacts DEF SInv, RunTypes
<1>2. ~Past(r)
  BY DEF Done
<1>3. /\ r.fun \in Functions /\ r.at \in 1 .. Len(Code[r.fun]) /\ r.in = 1
      /\ instr = Code[r.fun][r.at] /\ Legal(r.fun, r.at, instr)
  BY <1>1, InstrIs DEF RunInv
<1>4. Len(Code[r.fun]) \in Nat
  BY <1>3, Text
<1>5. semval \in [Sem -> Nat]
  BY <1>1 DEF TInv, TypeOK, SemTypes
<1>6. instr.op # "semop" => \A x \in Counted : Tally(r.fun, r.at)[x] = 0
  <2>1. SemopAt(r.fun, r.at, instr)
    BY <1>3, Zenon DEF Legal
  <2> HIDE DEF r
  <2> QED BY <2>1 DEF SemopAt
<1>7. instr.op # "until" => ~(r.fun = "p5" /\ r.at = 4)
  <2>1. JumpAt(r.fun, r.at, instr)
    BY <1>3, Zenon DEF Legal
  <2> SUFFICES ASSUME r.fun = "p5", r.at = 4 PROVE instr.op = "until"
    OBVIOUS
  <2>2. instr = Until("p4dead")
    BY <2>1, Zenon DEF JumpAt
  <2> QED BY <2>2 DEF Until
<1>8. instr.op \notin {"branch", "raise"} => (r.at = 4 => r.fun \notin {"p5c", "p5c_user"})
  BY <1>3 DEF Legal, JumpAt
<1>9. ~Holding(m)
  BY <1>1, <1>3 DEF Holding
<1>10. /\ After(r) \in RunType /\ Fits(After(r)) /\ After(r).fun = r.fun
       /\ After(r).hdl = r.hdl /\ After(r).at = r.at + 1 /\ After(r).in = 1
  BY <1>1, <1>2, AfterIs
<1> QED BY <1>1, <1>3, <1>4, <1>5, <1>6, <1>7, <1>8, <1>9, <1>10

LEMMA GoKeeps ==
  ASSUME SInv, TInv', phase = "user", NEW m \in Proc, m = Me, ~Done(m), ~Prints(run[m]),
         NEW q \in RunType, Fits(q), q.in = 1, run' = [run EXCEPT ![m] = q],
         mem' \in [MemNames -> Int], mem'.p5dmode \in Nat, QSame,
         UNCHANGED <<pcbFree, p_parent, p_children, stack, dev>>,
         \A u \in Unit : semval'[IoSem(u)] = semval[IoSem(u)],
         phase' = "semop" => \E x \in SemNames : vop'.sem = S(x),
         SearchOK', SemVal(S("term_mut"))' = SemVal(S("term_mut")),
         \A x \in Counted :
           SemVal(S(x))' = SemVal(S(x)) + Tally(run[m].fun, run[m].at)[x],
         mem'.p5dmode = mem.p5dmode + N(run[m].fun = "p5c_user" /\ run[m].at = 1),
         Steps(run[m], q) \/ Jump(run[m].fun, run[m].at, q.fun, q.at)
  PROVE  SInv'
<1> DEFINE r == run[m]
<1>1. r \in RunType /\ m \notin Blocked /\ pos(m) = r.at /\ ~Holding(m) /\ run \in [Proc -> RunType]
  BY CodeFacts
<1>2. run'[m] = q /\ m \notin Blocked'
  BY <1>1 DEF QSame
<1>3. pos(m)' = q.at
  BY <1>2 DEF pos
<1>4. LockMoves(m)
  <2>1. q.in \in Nat /\ ~(q.in > 1)
    OBVIOUS
  <2>2. ~Holding(m)'
    BY <1>2, <2>1 DEF Holding
  <2> QED BY <1>1, <2>2 DEF LockMoves
<1>5. Where(View, View', m)
  <2>1. CASE Steps(r, q)
    BY <1>1, <1>2, <1>3, <2>1, WhereOn DEF Steps
  <2>2. CASE Jump(r.fun, r.at, q.fun, q.at)
    BY <1>1, <1>2, <1>3, <2>2, WhereJump
  <2> QED BY <2>1, <2>2
<1>6. Moves(m)
  BY <1>5 DEF Moves
<1> QED BY <1>4, <1>6, MovedKeeps

\* A step in which the nucleus has no part.
LEMMA PlainKeeps ==
  ASSUME SInv, TInv', phase = "user", NEW m \in Proc, m = Me, ~Done(m), ~Prints(run[m]),
         instr.op # "semop", UNCHANGED vars,
         NEW q \in RunType, Fits(q), q.in = 1, run' = [run EXCEPT ![m] = q],
         mem' \in [MemNames -> Int], mem'.p5dmode \in Nat,
         mem'.p5dmode = mem.p5dmode + N(run[m].fun = "p5c_user" /\ run[m].at = 1),
         Steps(run[m], q) \/ Jump(run[m].fun, run[m].at, q.fun, q.at)
  PROVE  SInv'
<1>1. UNCHANGED <<pcbFree, p_parent, p_children, stack, dev, semval, phase, vop>> /\ QSame
  BY QStays DEF vars, treeVars, aslVars, killVars
<1>2. \A x \in SemNames : SemVal(S(x))' = SemVal(S(x)) /\ SemVal(S(x)) \in Nat
  <2>1. semval \in [Sem -> Nat]
    BY CodeFacts
  <2>2. \A x \in SemNames : S(x) \in Sem
    BY SemsAre
  <2> QED BY <1>1, <2>1, <2>2 DEF SemVal
<1>3. \A x \in Counted : Tally(run[m].fun, run[m].at)[x] = 0
  BY CodeFacts
<1>4. /\ SemVal(S("term_mut"))' = SemVal(S("term_mut"))
      /\ \A x \in Counted : SemVal(S(x))' = SemVal(S(x)) + Tally(run[m].fun, run[m].at)[x]
  <2>1. ASSUME NEW x \in Counted
        PROVE  SemVal(S(x))' = SemVal(S(x)) + Tally(run[m].fun, run[m].at)[x]
    <3>1. PICK a \in Nat : a = SemVal(S(x)) /\ SemVal(S(x))' = a
      BY <1>2, CountedAre
    <3> QED BY <1>3, <3>1
  <2> QED BY <1>2, <2>1 DEF SemNames
<1>5. SearchOK' /\ phase' # "semop" /\ \A u \in Unit : semval'[IoSem(u)] = semval[IoSem(u)]
  BY <1>1 DEF SearchOK
<1> QED BY <1>1, <1>4, <1>5, GoKeeps

LEMMA AdvanceKeeps ==
  ASSUME SInv, TInv', phase = "user", NEW m \in Proc, m = Me, ~Done(m), ~Prints(run[m]),
         instr.op \notin {"semop", "until", "branch", "raise"}, UNCHANGED vars,
         NEW q \in RunType, q \in {After(run[m])} \cup {[After(run[m]) EXCEPT !.a1 = v] : v \in Int},
         run' = [run EXCEPT ![m] = q],
         mem' \in [MemNames -> Int], mem'.p5dmode \in Nat,
         mem'.p5dmode = mem.p5dmode + N(run[m].fun = "p5c_user" /\ run[m].at = 1)
  PROVE  SInv'
<1> DEFINE r == run[m]
           a == After(r)
<1>1. a \in RunType /\ Fits(a) /\ a.fun = r.fun /\ a.at = r.at + 1 /\ a.in = 1
  BY CodeFacts
<1>2. q.fun = a.fun /\ q.at = a.at /\ q.in = a.in /\ q.hdl = a.hdl /\ q.back = a.back
  <2>1. q = a \/ \E v \in Int : q = [a EXCEPT !.a1 = v]
    OBVIOUS
  <2> HIDE DEF a
  <2> QED BY <1>1, <2>1 DEF RunType
<1>3. Fits(q) /\ q.in = 1
  <2> HIDE DEF a
  <2> QED BY <1>1, <1>2 DEF Fits, Prints, Past
<1>4. Steps(r, q)
  BY <1>1, <1>2, CodeFacts DEF Steps
<1> QED BY <1>3, <1>4, PlainKeeps

\* p5dmode is changed by p5c in user mode only.
LEMMA ModeStays ==
  ASSUME SInv, phase = "user", NEW m \in Proc, m = Me, ~Done(m), ~Prints(run[m]),
         instr.op = "incr" => instr.arg # "p5dmode", mem'.p5dmode = mem.p5dmode
  PROVE  mem'.p5dmode = mem.p5dmode + N(run[m].fun = "p5c_user" /\ run[m].at = 1)
<1>1. Legal(run[m].fun, run[m].at, instr) /\ mem.p5dmode \in Nat
  BY CodeFacts
<1>2. ~(run[m].fun = "p5c_user" /\ run[m].at = 1)
  BY <1>1 DEF Legal, DataAt
<1> QED BY <1>1, <1>2 DEF N

\* A step that only moves on.
LEMMA OnlyKeeps ==
  ASSUME SInv, TInv', phase = "user", NEW m \in Proc, m = Me, ~Done(m), ~Prints(run[m]),
         instr.op \notin {"semop", "until", "branch", "raise", "incr"}, UNCHANGED <<mem, vars>>,
         NEW v \in Int, Advance \/ Result(v)
  PROVE  SInv'
<1> DEFINE a == After(run[m])
<1>1. a \in RunType /\ mem \in [MemNames -> Int] /\ mem.p5dmode \in Nat
  BY CodeFacts
<1>2. PICK q : /\ q = a \/ q = [a EXCEPT !.a1 = v]
               /\ run' = [run EXCEPT ![m] = q]
  BY DEF Advance, Result, Goto
<1>3. q \in RunType
  <2> HIDE DEF a
  <2> QED BY <1>1, <1>2 DEF RunType
<1>4. mem'.p5dmode = mem.p5dmode + N(run[m].fun = "p5c_user" /\ run[m].at = 1)
  BY ModeStays
<1>5. mem' \in [MemNames -> Int] /\ mem'.p5dmode \in Nat
  BY <1>1
<1>6. q \in {a} \cup {[a EXCEPT !.a1 = w] : w \in Int}
  BY <1>2
<1> QED BY <1>2, <1>3, <1>4, <1>5, <1>6, AdvanceKeeps

LEMMA StoreKeeps ==
  ASSUME SInv, TInv', phase = "user", NEW m \in Proc, m = Me, ~Done(m), ~Prints(run[m]),
         store \/ incr
  PROVE  SInv'
<1> DEFINE r == run[m]
           a == After(r)
<1>1. /\ a \in RunType /\ mem \in [MemNames -> Int] /\ mem.p5dmode \in Nat /\ r \in RunType
      /\ Legal(r.fun, r.at, instr)
  BY CodeFacts
<1>2. UNCHANGED vars /\ run' = [run EXCEPT ![m] = a]
  BY DEF store, incr, Advance, Goto
<1>3. CASE store
  <2>1. instr.op = "store" /\ mem' = [mem EXCEPT ![instr.arg] = r.a1]
    BY <1>3 DEF store, Runs
  <2>2. instr.arg \in MemNames \ {"p5dmode"} /\ r.a1 \in Int
    BY <1>1, <2>1 DEF Legal, DataAt, RunType, Stores, MemNames
  <2>3. mem' \in [MemNames -> Int] /\ mem'.p5dmode = mem.p5dmode
    BY <1>1, <2>1, <2>2 DEF MemNames
  <2>4. mem'.p5dmode = mem.p5dmode + N(r.fun = "p5c_user" /\ r.at = 1)
    BY <2>1, <2>3, ModeStays
  <2> QED BY <1>1, <1>2, <2>1, <2>3, <2>4, AdvanceKeeps
<1>4. CASE incr
  <2>1. instr.op = "incr" /\ mem' = [mem EXCEPT ![instr.arg] = @ + 1]
    BY <1>4 DEF incr, Runs
  <2>2. /\ instr.arg \in MemNames
        /\ instr.arg = "p5dmode" <=> r.fun = "p5c_user" /\ r.at = 1
    BY <1>1, <2>1 DEF Legal, DataAt, MemNames
  <2>3. PICK x \in MemNames : x = instr.arg
    BY <2>2
  <2>4. mem' = [mem EXCEPT ![x] = mem[x] + 1] /\ mem[x] \in Int
    BY <1>1, <2>1, <2>3
  <2>5. mem' \in [MemNames -> Int]
    BY <1>1, <2>4
  <2>6. mem'.p5dmode = IF x = "p5dmode" THEN mem.p5dmode + 1 ELSE mem.p5dmode
    BY <1>1, <2>4 DEF MemNames
  <2>7. mem'.p5dmode = mem.p5dmode + N(r.fun = "p5c_user" /\ r.at = 1) /\ mem'.p5dmode \in Nat
    BY <1>1, <2>2, <2>3, <2>6 DEF N
  <2> QED BY <1>1, <1>2, <2>1, <2>5, <2>7, AdvanceKeeps
<1> QED BY <1>3, <1>4

LEMMA EnsureKeeps ==
  ASSUME SInv, TInv', phase = "user", NEW m \in Proc, m = Me, ~Done(m), ~Prints(run[m]),
         ensure
  PROVE  SInv'
<1>1. UNCHANGED <<mem, vars>> /\ instr.op = "ensure" /\ (Advance \/ Fail)
  BY DEF ensure, Runs
<1>2. CASE Advance
  <2>1. 0 \in Int
    OBVIOUS
  <2> QED BY <1>1, <1>2, <2>1, OnlyKeeps
<1>3. CASE Fail
  <2>1. run' = [run EXCEPT ![m] = [run[m] EXCEPT !.failed = TRUE]]
    BY <1>3 DEF Fail, Goto
  <2>2. UNCHANGED <<pcbFree, p_parent, p_children, stack, dev, semval, phase>> /\ QSame
    BY <1>1, QStays DEF vars, treeVars, aslVars, killVars
  <2> QED BY <1>1, <2>1, <2>2, StaysKeeps
<1> QED BY <1>1, <1>2, <1>3

LEMMA SpecKeeps ==
  ASSUME SInv, TInv', phase = "user", NEW m \in Proc, m = Me, ~Done(m), ~Prints(run[m]),
         specCall, UNCHANGED vars
  PROVE  SInv'
<1> DEFINE r == run[m]
<1>1. instr.op = "spec" /\ UNCHANGED mem
  BY DEF specCall, Runs
<1>2. /\ r \in RunType /\ Fits(r) /\ r.in = 1 /\ r.at \in 1 .. Len(Code[r.fun])
      /\ Len(Code[r.fun]) \in Nat /\ Legal(r.fun, r.at, instr)
      /\ mem \in [MemNames -> Int] /\ mem.p5dmode \in Nat
  BY CodeFacts
<1>3. instr.arg \in Kinds /\ r.fun \notin {"test", "p6", "p7"}
  BY <1>1, <1>2 DEF Legal, EndAt
<1>4. phase' = "user"
  BY DEF vars
<1>5. run' = [run EXCEPT ![m] = [r EXCEPT !.at = r.at + 1, !.hdl = @ \cup {instr.arg}]]
  BY <1>4 DEF specCall, Goto, here, terminateSelf, enter
<1>6. PICK q : q = [r EXCEPT !.at = r.at + 1, !.hdl = @ \cup {instr.arg}]
  OBVIOUS
<1>7. /\ q \in RunType /\ q.fun = r.fun /\ q.at = r.at + 1 /\ q.in = 1 /\ q.back = r.back
  <2>1. PICK h : h = r.hdl \cup {instr.arg}
    OBVIOUS
  <2>2. PICK k : k = r.at + 1
    OBVIOUS
  <2>3. h \in SUBSET Kinds /\ k \in Nat
    BY <1>2, <1>3, <2>1, <2>2 DEF RunType
  <2> DEFINE a == [r EXCEPT !.at = k]
  <2>4. a \in RunType /\ a.fun = r.fun /\ a.at = k /\ a.in = r.in /\ a.back = r.back
    BY <1>2, <2>3 DEF RunType
  <2>5. q = [a EXCEPT !.hdl = h]
    BY <1>2, <1>6, <2>1, <2>2 DEF RunType
  <2> HIDE DEF a
  <2>6. q \in RunType /\ q.fun = a.fun /\ q.at = a.at /\ q.in = a.in /\ q.back = a.back
    BY <2>3, <2>4, <2>5 DEF RunType
  <2> QED BY <1>2, <2>2, <2>4, <2>6
<1>8. Fits(q)
  BY <1>2, <1>3, <1>7, PrintIs DEF Fits
<1>9. Steps(r, q)
  BY <1>1, <1>7, CodeFacts DEF Steps
<1>10. mem'.p5dmode = mem.p5dmode + N(r.fun = "p5c_user" /\ r.at = 1)
  BY <1>1, ModeStays
<1>11. mem' \in [MemNames -> Int] /\ mem'.p5dmode \in Nat
  BY <1>1, <1>2
<1> QED BY <1>1, <1>5, <1>6, <1>7, <1>8, <1>9, <1>10, <1>11, PlainKeeps

LEMMA RaiseKeeps ==
  ASSUME SInv, TInv', phase = "user", NEW m \in Proc, m = Me, ~Done(m), ~Prints(run[m]),
         raise, UNCHANGED vars
  PROVE  SInv'
<1> DEFINE r == run[m]
<1>1. instr.op = "raise" /\ UNCHANGED mem
  BY DEF raise, Runs
<1>2. /\ r \in RunType /\ Fits(r) /\ r.in = 1 /\ r.fun \in Functions /\ Legal(r.fun, r.at, instr)
      /\ mem \in [MemNames -> Int] /\ mem.p5dmode \in Nat
  BY CodeFacts
<1>3. phase' = "user"
  BY DEF vars
<1>4. /\ instr.arg \in r.hdl
      /\ run' = [run EXCEPT ![m] = [r EXCEPT !.fun = instr.to, !.at = 1,
                                             !.back = <<r.fun, r.at + 1>>]]
  BY <1>3 DEF raise, Goto, here, terminateSelf, enter
<1>5. <<r.fun, r.at, instr.to>> \in Raises
  <2>1. r.fun \notin {"test", "p6", "p7"}
    BY <1>2, <1>4 DEF Fits
  <2> QED BY <1>1, <1>2, <2>1 DEF Legal, JumpAt
<1>6. PICK q : q = [r EXCEPT !.fun = instr.to, !.at = 1, !.back = <<r.fun, r.at + 1>>]
  OBVIOUS
<1>7. PICK f, k, g : f = r.fun /\ k = r.at /\ g = instr.to /\ <<f, k, g>> \in Raises
  BY <1>5
<1>8. \/ f = "p5a" /\ k = 3 /\ g = "p5prog_fetch"
      \/ f = "p5b" /\ k = 3 /\ g = "p5mm"
      \/ f = "p5c_user" /\ k = 3 /\ g = "p5sys_user"
      \/ f = "p5c_user" /\ k = 4 /\ g = "p5prog_instr"
      \/ f = "p5c_kernel" /\ k = 2 /\ g = "p5sys_kernel"
  BY <1>7 DEF Raises
<1>9. g \in Functions /\ f \in Functions /\ k \in Nat
  BY <1>8 DEF Functions
<1>10. /\ q \in RunType /\ q.fun = g /\ q.at = 1 /\ q.in = 1 /\ q.back = <<f, k + 1>>
  <2>1. <<f, k + 1>> \in Functions \X Nat
    BY <1>9
  <2>2. q = [r EXCEPT !.fun = g, !.at = 1, !.back = <<f, k + 1>>]
    BY <1>6, <1>7
  <2> QED BY <1>2, <1>9, <2>1, <2>2 DEF RunType
<1>11. Fits(q)
  <2>1. Len(Code[g]) \in Nat /\ Len(print) \in Nat /\ Len(print) > 2
    BY <1>9, Text, PrintIs
  <2> QED BY <1>8, <1>10, <2>1 DEF Fits
<1>12. Jump(r.fun, r.at, q.fun, q.at)
  BY <1>7, <1>8, <1>10 DEF Jump
<1>13. mem'.p5dmode = mem.p5dmode + N(r.fun = "p5c_user" /\ r.at = 1)
  BY <1>1, ModeStays
<1>14. mem' \in [MemNames -> Int] /\ mem'.p5dmode \in Nat
  BY <1>1, <1>2
<1> QED BY <1>1, <1>4, <1>6, <1>10, <1>11, <1>12, <1>13, <1>14, PlainKeeps

LEMMA JumpKeeps ==
  ASSUME SInv, TInv', phase = "user", NEW m \in Proc, m = Me, ~Done(m), ~Prints(run[m]),
         instr.op \notin {"semop", "incr"}, UNCHANGED <<mem, vars>>,
         NEW g \in Functions, NEW k \in Nat, k \in 1 .. Len(Code[g]) + 1,
         g \in {"test", "p6", "p7"} => run[m].fun = g,
         g \notin {"p5sys_user", "p5sys_kernel"},
         NEW b \in {<<>>} \cup (Functions \X Nat),
         run' = [run EXCEPT ![m] = [run[m] EXCEPT !.fun = g, !.at = k, !.back = b]],
         \/ Jump(run[m].fun, run[m].at, g, k)
         \/ /\ g = run[m].fun /\ k = run[m].at + 1
            /\ g = "p5" /\ run[m].at = 4 => Of(View, {"p4"}) = {}
            /\ run[m].at = 4 => g \notin {"p5c", "p5c_user"}
  PROVE  SInv'
<1> DEFINE r == run[m]
<1>1. /\ r \in RunType /\ Fits(r) /\ r.in = 1 /\ r.fun \in Functions
      /\ mem \in [MemNames -> Int] /\ mem.p5dmode \in Nat
  BY CodeFacts
<1>2. PICK q : q = [r EXCEPT !.fun = g, !.at = k, !.back = b]
  OBVIOUS
<1>3. q \in RunType /\ q.fun = g /\ q.at = k /\ q.in = 1 /\ q.hdl = r.hdl
  <2> DEFINE c == [r EXCEPT !.fun = g]
             d == [c EXCEPT !.at = k]
  <2>1. c \in RunType /\ c.fun = g /\ c.in = r.in /\ c.hdl = r.hdl
    BY <1>1 DEF RunType
  <2>2. d = [r EXCEPT !.fun = g, !.at = k]
    BY <1>1 DEF RunType
  <2> HIDE DEF c
  <2>3. d \in RunType /\ d.fun = g /\ d.at = k /\ d.in = r.in /\ d.hdl = r.hdl
    BY <2>1 DEF RunType
  <2>4. q = [d EXCEPT !.back = b]
    BY <1>1, <1>2, <2>2 DEF RunType
  <2> HIDE DEF d
  <2> QED BY <1>1, <2>3, <2>4 DEF RunType
<1>4. Fits(q)
  BY <1>1, <1>3, PrintIs DEF Fits
<1>5. Steps(r, q) \/ Jump(r.fun, r.at, q.fun, q.at)
  BY <1>3 DEF Steps
<1>6. mem'.p5dmode = mem.p5dmode + N(r.fun = "p5c_user" /\ r.at = 1)
  BY ModeStays
<1>7. mem' \in [MemNames -> Int] /\ mem'.p5dmode \in Nat
  BY <1>1
<1> QED BY <1>2, <1>3, <1>4, <1>5, <1>6, <1>7, PlainKeeps

\* How long some of the functions are.
LEMMA LensOf ==
  /\ Len(Code["test"]) = 38 /\ Len(Code["p3"]) = 9 /\ Len(Code["p5"]) = 16
  /\ Len(Code["p5c_user"]) = 4 /\ Len(Code["p5c_kernel"]) = 6
BY CodeIs, Lens

LEMMA ExitTrapKeeps ==
  ASSUME SInv, TInv', phase = "user", NEW m \in Proc, m = Me, ~Done(m), ~Prints(run[m]),
         exitTrap
  PROVE  SInv'
<1> DEFINE r == run[m]
<1>1. /\ instr.op = "exitTrap" /\ UNCHANGED <<mem, vars>>
      /\ run' = [run EXCEPT ![m] = [r EXCEPT !.fun = r.back[1], !.at = r.back[2],
                                             !.back = <<>>]]
  BY DEF exitTrap, Runs, Goto
<1>2. Fits(r) /\ Legal(r.fun, r.at, instr)
  BY CodeFacts
<1>3. r.fun \in {"p5sys_user", "p5sys_kernel"}
  BY <1>1, <1>2 DEF Legal, JumpAt
<1>4. \/ r.fun = "p5sys_user" /\ r.back = <<"p5c_user", 4>>
      \/ r.fun = "p5sys_kernel" /\ r.back = <<"p5c_kernel", 3>>
  BY <1>2, <1>3 DEF Fits
<1>5. PICK g, k : /\ g = r.back[1] /\ k = r.back[2]
                  /\ \/ r.fun = "p5sys_user" /\ g = "p5c_user" /\ k = 4
                     \/ r.fun = "p5sys_kernel" /\ g = "p5c_kernel" /\ k = 3
  BY <1>4
<1>6. /\ g \in Functions /\ k \in Nat /\ k \in 1 .. Len(Code[g]) + 1
      /\ g \in {"test", "p6", "p7"} => r.fun = g
      /\ g \notin {"p5sys_user", "p5sys_kernel"} /\ <<>> \in {<<>>} \cup (Functions \X Nat)
      /\ instr.op \notin {"semop", "incr"}
  <2>1. CASE g = "p5c_user" /\ k = 4
    BY <1>1, <2>1, LensOf DEF Functions
  <2>2. CASE g = "p5c_kernel" /\ k = 3
    BY <1>1, <2>2, LensOf DEF Functions
  <2> QED BY <1>5, <2>1, <2>2
<1>7. \/ Jump(r.fun, r.at, g, k)
      \/ /\ g = r.fun /\ k = r.at + 1
         /\ g = "p5" /\ r.at = 4 => Of(View, {"p4"}) = {}
         /\ r.at = 4 => g \notin {"p5c", "p5c_user"}
  BY <1>5 DEF Jump
<1>8. run' = [run EXCEPT ![m] = [r EXCEPT !.fun = g, !.at = k, !.back = <<>>]]
  BY <1>1, <1>5
<1>9. UNCHANGED <<mem, vars>>
  BY <1>1
<1> QED BY <1>6, <1>7, <1>8, <1>9, JumpKeeps, Zenon

LEMMA BranchKeeps ==
  ASSUME SInv, TInv', phase = "user", NEW m \in Proc, m = Me, ~Done(m), ~Prints(run[m]),
         branch
  PROVE  SInv'
<1> DEFINE r == run[m]
<1>1. /\ instr.op = "branch" /\ UNCHANGED <<mem, vars>>
      /\ run' = [run EXCEPT ![m] =
                   [r EXCEPT !.at = 1,
                      !.fun = IF mem[instr.arg] = 0 THEN instr.to ELSE instr.else]]
  BY DEF branch, Runs, Goto
<1>2. /\ r \in RunType /\ Legal(r.fun, r.at, instr) /\ mem \in [MemNames -> Int]
      /\ mem.p5dmode \in Nat
  BY CodeFacts
<1>3. r.fun = "p5c" /\ r.at = 4 /\ instr = Branch("p5dmode", "p5c_user", "p5c_kernel")
  BY <1>1, <1>2 DEF Legal, JumpAt
<1>4. PICK g : g = IF mem.p5dmode = 0 THEN "p5c_user" ELSE "p5c_kernel"
  OBVIOUS
<1>5. run' = [run EXCEPT ![m] = [r EXCEPT !.at = 1, !.fun = g]]
  BY <1>1, <1>3, <1>4 DEF Branch
<1>6. \/ Jump(r.fun, r.at, g, 1)
      \/ /\ g = r.fun /\ 1 = r.at + 1
         /\ g = "p5" /\ r.at = 4 => Of(View, {"p4"}) = {}
         /\ r.at = 4 => g \notin {"p5c", "p5c_user"}
  BY <1>2, <1>3, <1>4 DEF Jump
<1>7. r.back \in {<<>>} \cup (Functions \X Nat)
  BY <1>2 DEF RunType
<1>8. [r EXCEPT !.at = 1, !.fun = g] = [r EXCEPT !.fun = g, !.at = 1, !.back = r.back]
  BY <1>2 DEF RunType
<1>9. /\ g \in Functions /\ 1 \in Nat /\ 1 \in 1 .. Len(Code[g]) + 1
      /\ g \in {"test", "p6", "p7"} => r.fun = g
      /\ g \notin {"p5sys_user", "p5sys_kernel"} /\ instr.op \notin {"semop", "incr"}
  BY <1>1, <1>4, LensOf DEF Functions
<1>10. run' = [run EXCEPT ![m] = [r EXCEPT !.fun = g, !.at = 1, !.back = r.back]]
  BY <1>5, <1>8
<1>11. UNCHANGED <<mem, vars>>
  BY <1>1
<1>12. PICK k : k = 1
  OBVIOUS
<1>13. /\ k \in Nat /\ k \in 1 .. Len(Code[g]) + 1
       /\ run' = [run EXCEPT ![m] = [r EXCEPT !.fun = g, !.at = k, !.back = r.back]]
       /\ \/ Jump(r.fun, r.at, g, k)
          \/ /\ g = r.fun /\ k = r.at + 1
             /\ g = "p5" /\ r.at = 4 => Of(View, {"p4"}) = {}
             /\ r.at = 4 => g \notin {"p5c", "p5c_user"}
  BY <1>6, <1>9, <1>10, <1>12
<1> QED BY <1>7, <1>9, <1>11, <1>13, JumpKeeps, Zenon

LEMMA LoopKeeps ==
  ASSUME SInv, TInv', phase = "user", NEW m \in Proc, m = Me, ~Done(m), ~Prints(run[m]),
         until \/ again \/ anotherPass
  PROVE  SInv'
<1> DEFINE r == run[m]
<1>1. /\ r \in RunType /\ Legal(r.fun, r.at, instr) /\ r.fun \in Functions
      /\ r.at \in 1 .. Len(Code[r.fun]) /\ Len(Code[r.fun]) \in Nat
  BY CodeFacts
<1>2. instr.op \in {"until", "again"} /\ UNCHANGED <<mem, vars>>
  BY DEF until, again, anotherPass, Runs
<1>3. PICK k \in Int :
        /\ run' = [run EXCEPT ![m] = [r EXCEPT !.at = k]]
        /\ \/ /\ k = r.at + 1
              /\ r.fun = "p5" /\ r.at = 4 => Of(View, {"p4"}) = {}
           \/ instr.op = "until" /\ k = r.at - 1
           \/ instr.op = "again" /\ k = r.at - instr.n
  <2>1. CASE until
    <3>1. instr.op = "until"
      BY <2>1 DEF until, Runs
    <3>2. run' = [run EXCEPT ![m] = [r EXCEPT !.at = IF Enough(instr.arg) THEN r.at + 1 ELSE r.at - 1]]
      BY <2>1 DEF until, Goto
    <3>3. CASE Enough(instr.arg)
      <4>1. ASSUME r.fun = "p5", r.at = 4 PROVE Of(View, {"p4"}) = {}
        <5>1. instr = Until("p4dead")
          BY <1>1, <4>1 DEF Legal, JumpAt
        <5>2. \A p \in Live : run[p].fun # "p4"
          BY <3>3, <5>1 DEF Enough, Until
        <5>3. Standing = Live /\ Live \subseteq Proc
          BY RunsFacts
        <5> QED BY <5>2, <5>3, ViewIs DEF Of
      <4>2. r.at + 1 \in Int
        BY <1>1
      <4> QED BY <3>2, <3>3, <4>1, <4>2
    <3>4. CASE ~Enough(instr.arg)
      <4>1. r.at - 1 \in Int
        BY <1>1
      <4> QED BY <3>1, <3>2, <3>4, <4>1
    <3> QED BY <3>3, <3>4
  <2>3. CASE anotherPass
    <3>1. instr.op = "until" /\ run' = [run EXCEPT ![m] = [r EXCEPT !.at = r.at - 1]]
      BY <2>3 DEF anotherPass, Runs, Goto
    <3>2. r.at - 1 \in Int
      BY <1>1
    <3> QED BY <3>1, <3>2
  <2>2. CASE again
    <3>1. instr.op = "again"
      BY <2>2 DEF again, Runs
    <3>2. run' = [run EXCEPT ![m] = [r EXCEPT !.at = IF mem[instr.arg] < RUNS THEN r.at - instr.n ELSE r.at + 1]]
      BY <2>2 DEF again, Goto
    <3>3. r.fun = "test" /\ r.at = 36 /\ instr.n = 11
      BY <1>1, <3>1 DEF Legal, JumpAt
    <3>4. r.at + 1 \in Int /\ r.at - instr.n \in Int
      BY <3>3
    <3>5. CASE mem[instr.arg] < RUNS
      BY <3>1, <3>2, <3>4, <3>5
    <3>6. CASE ~(mem[instr.arg] < RUNS)
      BY <3>2, <3>3, <3>4, <3>6
    <3> QED BY <3>5, <3>6
  <2> QED BY <2>1, <2>2, <2>3
<1>4. PICK g : g = r.fun
  OBVIOUS
<1>5. /\ instr.op = "until" => <<r.fun, r.at>> \in {<<"test", 33>>, <<"p3", 4>>, <<"p5", 4>>}
      /\ instr.op = "again" => r.fun = "test" /\ r.at = 36 /\ instr.n = 11
  BY <1>1 DEF Legal, JumpAt
<1>6. /\ g \in {"test", "p3", "p5"} /\ k \in Nat /\ k \in 1 .. Len(Code[g]) + 1
  BY <1>1, <1>2, <1>3, <1>4, <1>5, LensOf
<1>7. \/ Jump(r.fun, r.at, g, k)
      \/ /\ g = r.fun /\ k = r.at + 1
         /\ g = "p5" /\ r.at = 4 => Of(View, {"p4"}) = {}
         /\ r.at = 4 => g \notin {"p5c", "p5c_user"}
  BY <1>1, <1>2, <1>3, <1>4, <1>5, <1>6 DEF Jump
<1>8. r.back \in {<<>>} \cup (Functions \X Nat) /\ g \in Functions
  BY <1>1, <1>6 DEF RunType, Functions
<1>9. [r EXCEPT !.at = k] = [r EXCEPT !.fun = g, !.at = k, !.back = r.back]
  BY <1>1, <1>4 DEF RunType
<1>10. /\ g \in {"test", "p6", "p7"} => r.fun = g
       /\ g \notin {"p5sys_user", "p5sys_kernel"} /\ instr.op \notin {"semop", "incr"}
  BY <1>2, <1>4, <1>6
<1>11. run' = [run EXCEPT ![m] = [r EXCEPT !.fun = g, !.at = k, !.back = r.back]]
  BY <1>3, <1>9
<1> QED BY <1>2, <1>6, <1>7, <1>8, <1>10, <1>11, JumpKeeps, Zenon

\* A process that blocks, but for a device or the lock.
LEMMA BlocksKeeps ==
  ASSUME SInv, TInv', phase = "user", NEW m \in Proc, m = Me, ~Done(m), ~Prints(run[m]),
         NEW a, NEW n, QIn(m, a, n), \A u \in Unit : a # IoSem(u),
         \/ instr.op = "semop" /\ a = S(instr.arg) /\ n = -instr.n
         \/ instr.op = "clock" /\ a = Clock,
         phase' = "sched", run' = [run EXCEPT ![m] = After(run[m])],
         UNCHANGED <<mem, semval, dev, pcbFree, p_parent, p_children, stack>>
  PROVE  SInv'
<1> DEFINE r == run[m]
<1>1. /\ r \in RunType /\ m \notin Blocked /\ pos(m) = r.at /\ r.in = 1
      /\ After(r) \in RunType /\ After(r).fun = r.fun /\ After(r).at = r.at + 1
      /\ After(r).in = 1 /\ ~Holding(m) /\ run \in [Proc -> RunType]
  BY CodeFacts
<1>2. RunInv /\ TermOK
  BY DEF SInv, RunInv
<1>3. run'[m] = After(r) /\ m \in Blocked'
  BY <1>1 DEF QIn
<1>4. RunTypes' /\ RunOK' /\ BlockedAt'
  <2>1. PICK c : c = instr
    OBVIOUS
  <2> QED BY <1>1, <1>2, <2>1, BlockRun
<1>5. LockMoves(m)
  <2>1. ~Holding(m)'
    BY <1>1, <1>3 DEF Holding
  <2>2. SemVal(S("term_mut"))' = SemVal(S("term_mut"))
    BY DEF SemVal
  <2> QED BY <1>1, <2>1, <2>2 DEF LockMoves
<1>6. Keeps(m)
  <2>1. r.at \in Nat
    BY <1>1 DEF RunType
  <2>2. pos(m)' = pos(m)
    BY <1>1, <1>3, <2>1 DEF pos
  <2>3. \A y \in Counted : SemVal(S(y))' = SemVal(S(y))
    BY DEF SemVal
  <2> QED BY <1>1, <1>3, <2>2, <2>3 DEF Keeps
<1>7. \A u \in Unit : Waiting(IoSem(u))' = Waiting(IoSem(u))
  <2>1. WaitsOn(m)' = a
    BY DEF QIn, WaitsOn
  <2> QED BY <2>1 DEF QIn, Waiting, Same
<1>8. TermOK'
  BY <1>2, <1>7, TermBy
<1>9. SearchOK' /\ \A q \in Proc \ {m} : run'[q] = run[q]
  BY <1>1 DEF SearchOK
<1> QED BY <1>4, <1>5, <1>6, <1>8, <1>9, ProcessKeeps

\* A process that goes on with its next call.
LEMMA PassKeeps ==
  ASSUME SInv, TInv', phase = "user", NEW m \in Proc, m = Me, ~Done(m), ~Prints(run[m]),
         instr.op \notin {"until", "branch", "raise", "incr"},
         run' = [run EXCEPT ![m] = After(run[m])], QSame,
         UNCHANGED <<mem, dev, pcbFree, p_parent, p_children, stack>>,
         \A u \in Unit : semval'[IoSem(u)] = semval[IoSem(u)],
         phase' = "semop" => \E x \in SemNames : vop'.sem = S(x),
         SearchOK', SemVal(S("term_mut"))' = SemVal(S("term_mut")),
         \A x \in Counted :
           SemVal(S(x))' = SemVal(S(x)) + Tally(run[m].fun, run[m].at)[x]
  PROVE  SInv'
<1> DEFINE r == run[m]
<1>1. After(r) \in RunType /\ Fits(After(r)) /\ After(r).in = 1
      /\ mem \in [MemNames -> Int] /\ mem.p5dmode \in Nat
  BY CodeFacts
<1>2. Steps(r, After(r))
  BY CodeFacts DEF Steps
<1>3. mem'.p5dmode = mem.p5dmode + N(r.fun = "p5c_user" /\ r.at = 1)
  BY ModeStays
<1>4. mem' \in [MemNames -> Int] /\ mem'.p5dmode \in Nat
  BY <1>1
<1> QED BY <1>1, <1>2, <1>3, <1>4, GoKeeps

LEMMA SemopKeeps ==
  ASSUME SInv, TInv', phase = "user", NEW m \in Proc, m = Me, ~Done(m), ~Prints(run[m]),
         semopCall
  PROVE  SInv'
<1> DEFINE r == run[m]
<1>1. Legal(r.fun, r.at, instr) /\ semval \in [Sem -> Nat] /\ run \in [Proc -> RunType]
  BY CodeFacts
<1>2. PICK x, n : x = instr.arg /\ n = instr.n
  OBVIOUS
<1>3. instr.op = "semop" /\ semop(S(x), n) /\ Return /\ UNCHANGED mem
  BY <1>2 DEF semopCall, Runs
<1>4. /\ n \in {-4, -2, -1, 1, 2, 4} /\ x \in SemNames \ {"term_mut"}
      /\ \A y \in Counted : Tally(r.fun, r.at)[y] = IF x = y THEN n ELSE 0
  BY <1>1, <1>2, <1>3 DEF Legal, SemopAt
<1>5. PICK a : a = S(x)
  OBVIOUS
<1>6. /\ a \in Sem /\ (\A u \in Unit : IoSem(u) # a) /\ a # S("term_mut")
      /\ \A y \in SemNames : S(y) \in Sem /\ (S(y) = a <=> y = x)
  BY <1>4, <1>5, SemsAre DEF SemNames
<1>7. n \in Int /\ n # 0
  BY <1>4
<1>8. semop(a, n) /\ UNCHANGED <<pcbFree, treeVars, dev, killVars>>
  BY <1>3, <1>5 DEF semop
<1>9. UNCHANGED <<pcbFree, p_parent, p_children, stack, dev>>
  BY <1>8 DEF treeVars, killVars
<1>10. phase' = "noSemd" \/ run' = [run EXCEPT ![m] = After(r)]
  BY <1>3 DEF Return, Advance, Goto
<1>11. ASSUME phase' \in {"user", "semop"}, QSame, \A c \in Sem \ {a} : semval'[c] = semval[c],
              phase' = "semop" => vop'.sem = a,
              SemVal(a)' = SemVal(a) + n
       PROVE  SInv'
  <2>1. run' = [run EXCEPT ![m] = After(r)]
    BY <1>10, <1>11
  <2>2. \A c \in Sem \ {a} : SemVal(c)' = SemVal(c) /\ SemVal(c) \in Nat
    BY <1>1, <1>11 DEF SemVal
  <2>3. SemVal(S("term_mut"))' = SemVal(S("term_mut"))
    BY <1>6, <2>2 DEF SemNames
  <2>4. ASSUME NEW y \in Counted
        PROVE  SemVal(S(y))' = SemVal(S(y)) + Tally(r.fun, r.at)[y]
    <3>1. CASE y = x
      BY <1>4, <1>5, <1>11, <3>1
    <3>2. CASE y # x
      <4>1. PICK v \in Nat : v = SemVal(S(y)) /\ SemVal(S(y))' = v
        BY <1>6, <2>2, <3>2, CountedAre
      <4> QED BY <1>4, <3>2, <4>1
    <3> QED BY <3>1, <3>2
  <2>5. \A u \in Unit : semval'[IoSem(u)] = semval[IoSem(u)]
    BY <1>6, <1>11, SemsAre
  <2>6. SearchOK' /\ (phase' = "semop" => \E y \in SemNames : vop'.sem = S(y))
    BY <1>4, <1>5, <1>11 DEF SearchOK
  <2> QED BY <1>3, <1>9, <1>11, <2>1, <2>3, <2>4, <2>5, <2>6, PassKeeps
<1>12. CASE n > 0
  <2>1. /\ phase' = "semop" /\ vop'.sem = a /\ vop'.free = n + semval[a]
        /\ UNCHANGED <<aslVars, semval>>
    BY <1>7, <1>8, <1>12 DEF semop, startV
  <2>2. QSame
    BY <2>1, QStays DEF aslVars
  <2>3. SemVal(a)' = SemVal(a) + n
    BY <1>1, <1>6, <1>7, <2>1 DEF SemVal
  <2> QED BY <1>11, <2>1, <2>2, <2>3
<1>13. CASE n < 0
  <2>1. P(a, n)
    BY <1>7, <1>8, <1>13 DEF semop
  <2>2. \/ phase' = "user" /\ QSame /\ semval' = [semval EXCEPT ![a] = @ + n]
        \/ phase' = "sched" /\ QIn(m, a, -n) /\ UNCHANGED semval
        \/ phase' = "noSemd" /\ QSame /\ UNCHANGED semval
    <3>1. TInv
      BY DEF SInv
    <3> QED BY <1>6, <1>7, <1>13, <2>1, <3>1, PCases
  <2>3. CASE phase' = "user" /\ QSame /\ semval' = [semval EXCEPT ![a] = @ + n]
    <3>1. semval'[a] = semval[a] + n /\ \A c \in Sem \ {a} : semval'[c] = semval[c]
      BY <1>1, <1>6, <2>3
    <3>2. SemVal(a)' = SemVal(a) + n
      BY <2>3, <3>1 DEF SemVal
    <3> QED BY <1>11, <2>3, <3>1, <3>2
  <2>4. CASE phase' = "sched" /\ QIn(m, a, -n) /\ UNCHANGED semval
    <3>1. run' = [run EXCEPT ![m] = After(r)]
      BY <1>10, <2>4
    <3>2. a = S(instr.arg) /\ -n = -instr.n
      BY <1>2, <1>5
    <3>3. PICK k : k = -n
      OBVIOUS
    <3> QED BY <1>3, <1>6, <1>9, <2>4, <3>1, <3>2, <3>3, BlocksKeeps
  <2>5. CASE phase' = "noSemd" /\ QSame /\ UNCHANGED semval
    <3>1. UNCHANGED run
      BY <1>3, <2>5 DEF Return
    <3> QED BY <1>3, <1>9, <2>5, <3>1, StaysKeeps
  <2> QED BY <2>2, <2>3, <2>4, <2>5
<1> QED BY <1>7, <1>12, <1>13

LEMMA ClockKeeps ==
  ASSUME SInv, TInv', phase = "user", NEW m \in Proc, m = Me, ~Done(m), ~Prints(run[m]),
         clockCall
  PROVE  SInv'
<1> DEFINE r == run[m]
<1>1. semval \in [Sem -> Nat] /\ run \in [Proc -> RunType]
  BY CodeFacts
<1>2. instr.op = "clock" /\ waitClock /\ Return /\ UNCHANGED mem
  BY DEF clockCall, Runs
<1>3. P(Clock, -1) /\ UNCHANGED <<pcbFree, treeVars, dev, killVars, vop>>
  BY <1>2 DEF waitClock
<1>4. UNCHANGED <<pcbFree, p_parent, p_children, stack, dev>>
  BY <1>3 DEF treeVars, killVars
<1>5. phase' = "noSemd" \/ run' = [run EXCEPT ![m] = After(r)]
  BY <1>2 DEF Return, Advance, Goto
<1>6. /\ Clock \in Sem /\ (\A u \in Unit : Clock # IoSem(u)) /\ \A y \in SemNames : S(y) # Clock
      /\ \A y \in SemNames : S(y) \in Sem
  BY SemsAre DEF Sem
<1>7. PICK n : n = -1
  OBVIOUS
<1>8. n \in Int /\ n + 1 = 0 /\ n < 0
  BY <1>7
<1>9. -n = 1 /\ P(Clock, n)
  BY <1>3, <1>7, <1>8, MinusOne, Zenon
<1>10. \/ phase' = "user" /\ QSame /\ semval' = [semval EXCEPT ![Clock] = @ + n]
       \/ phase' = "sched" /\ QIn(m, Clock, 1) /\ UNCHANGED semval
       \/ phase' = "noSemd" /\ QSame /\ UNCHANGED semval
  <2>1. TInv
    BY DEF SInv
  <2>2. \/ phase' = "user" /\ QSame /\ semval' = [semval EXCEPT ![Clock] = @ + n]
        \/ phase' = "sched" /\ QIn(m, Clock, -n) /\ UNCHANGED semval
        \/ phase' = "noSemd" /\ QSame /\ UNCHANGED semval
    BY <1>6, <1>8, <1>9, <2>1, PCases
  <2> QED BY <1>9, <2>2, Zenon
<1>11. CASE phase' = "user" /\ QSame /\ semval' = [semval EXCEPT ![Clock] = @ + n]
  <2>1. run' = [run EXCEPT ![m] = After(r)]
    BY <1>5, <1>11
  <2>2. \A c \in Sem \ {Clock} : semval'[c] = semval[c] /\ semval[c] \in Nat
    BY <1>1, <1>11
  <2>3. \A y \in SemNames : SemVal(S(y))' = SemVal(S(y)) /\ SemVal(S(y)) \in Nat
    BY <1>6, <1>11, <2>2 DEF SemVal
  <2>4. \A y \in Counted : Tally(r.fun, r.at)[y] = 0
    BY <1>2, CodeFacts
  <2>5. ASSUME NEW y \in Counted
        PROVE  SemVal(S(y))' = SemVal(S(y)) + Tally(r.fun, r.at)[y]
    <3>1. PICK v \in Nat : v = SemVal(S(y)) /\ SemVal(S(y))' = v
      BY <2>3, CountedAre
    <3> QED BY <2>4, <3>1
  <2>6. SemVal(S("term_mut"))' = SemVal(S("term_mut"))
    BY <2>3 DEF SemNames
  <2>7. \A u \in Unit : semval'[IoSem(u)] = semval[IoSem(u)]
    BY <1>6, <2>2, SemsAre
  <2>8. SearchOK'
    BY <1>11 DEF SearchOK
  <2> QED BY <1>2, <1>4, <1>11, <2>1, <2>5, <2>6, <2>7, <2>8, PassKeeps
<1>12. CASE phase' = "sched" /\ QIn(m, Clock, 1) /\ UNCHANGED semval
  <2>1. run' = [run EXCEPT ![m] = After(r)]
    BY <1>5, <1>12
  <2> QED BY <1>2, <1>4, <1>6, <1>12, <2>1, BlocksKeeps
<1>13. CASE phase' = "noSemd" /\ QSame /\ UNCHANGED semval
  <2>1. UNCHANGED run
    BY <1>2, <1>13 DEF Return
  <2> QED BY <1>2, <1>4, <1>13, <2>1, StaysKeeps
<1> QED BY <1>10, <1>11, <1>12, <1>13

LEMMA ZeroKeeps ==
  ASSUME SInv, TInv', phase = "user", NEW m \in Proc, m = Me, ~Done(m), ~Prints(run[m]),
         reset
  PROVE  SInv'
<1> DEFINE r == run[m]
<1>1. Legal(r.fun, r.at, instr) /\ semval \in [Sem -> Nat] /\ run \in [Proc -> RunType]
  BY CodeFacts
<1>2. PICK x : x = instr.arg
  OBVIOUS
<1>3. /\ instr.op = "reset" /\ semval' = [semval EXCEPT ![S(x)] = 0] /\ UNCHANGED mem
      /\ run' = [run EXCEPT ![m] = After(r)]
  BY <1>2 DEF reset, Runs, Advance, Goto
<1>4. x \in {"blkleaves", "s"}
  BY <1>1, <1>2, <1>3 DEF Legal, DataAt
<1>5. x \in SemNames /\ x \notin Counted /\ x # "term_mut"
  BY <1>4 DEF SemNames, Counted
<1>6. UNCHANGED <<pcbFree, p_parent, p_children, stack, dev, phase, vop, aslVars>>
  BY DEF reset, treeVars, killVars
<1>7. QSame
  BY <1>6, QStays DEF aslVars
<1>8. \A y \in SemNames \ {x} : SemVal(S(y))' = SemVal(S(y)) /\ SemVal(S(y)) \in Nat
  BY <1>1, <1>3, <1>5, <1>6, SemsAre DEF SemVal
<1>9. \A y \in Counted : Tally(r.fun, r.at)[y] = 0
  BY <1>3, CodeFacts
<1>10. ASSUME NEW y \in Counted
       PROVE  SemVal(S(y))' = SemVal(S(y)) + Tally(r.fun, r.at)[y]
  <2>1. PICK v \in Nat : v = SemVal(S(y)) /\ SemVal(S(y))' = v
    BY <1>5, <1>8, CountedAre
  <2> QED BY <1>9, <2>1
<1>11. SemVal(S("term_mut"))' = SemVal(S("term_mut"))
  BY <1>5, <1>8 DEF SemNames
<1>12. \A u \in Unit : semval'[IoSem(u)] = semval[IoSem(u)]
  BY <1>1, <1>3, <1>5, SemsAre
<1>13. SearchOK' /\ phase' # "semop"
  BY <1>6 DEF SearchOK
<1> QED BY <1>3, <1>6, <1>7, <1>10, <1>11, <1>12, <1>13, PassKeeps

Spared == stack = <<>> => Doomed = {} /\ Standing = Live

LEMMA NoneDoomed == TInv => Spared
BY DoomedFacts DEF Spared

LEMMA SparedNext == ASSUME TInv' PROVE Spared'
BY NoneDoomed, PTL

LEMMA NoneDoomedNext == ASSUME TInv', stack' = <<>> PROVE Doomed' = {} /\ Standing' = Live'
BY SparedNext DEF Spared

\* SYS1 takes a pcb that no queue holds.
LEMMA BirthFacts ==
  ASSUME SInv, phase = "user", NEW m \in Proc, m = Me, createProcess
  PROVE  \E n \in Proc :
           /\ n = Head(pcbFree) /\ n \notin Live /\ n # m /\ n # 1 /\ Live' = Live \cup {n}
           /\ p_parent' = [p_parent EXCEPT ![n] = m]
           /\ QSame /\ n \notin Blocked /\ UNCHANGED <<semval, dev, phase, vop, stack>>
<1>1. TInv /\ m \in Live /\ 1 \in Live
  BY RunsFacts
<1>2. PICK n \in Proc : Born(n)
  BY <1>1, CreateEffect
<1>3. /\ pcbFree \in Seq(Proc) /\ p_parent \in [Proc -> Proc \cup {NULL}]
      /\ p_cursem \in [Proc -> Semd \cup {NULL}] /\ res_requested \in [Proc -> Nat]
  BY <1>1 DEF TInv, TypeOK, ProcTypes, SemTypes
<1>4. PICK h : h = Head(pcbFree)
  OBVIOUS
<1>5. /\ h \in Proc /\ p_parent' = [p_parent EXCEPT ![h] = m]
      /\ p_cursem' = [p_cursem EXCEPT ![h] = NULL]
      /\ res_requested' = [res_requested EXCEPT ![h] = 0]
      /\ UNCHANGED <<s_procq, s_semAdd, semval, dev, phase, vop, stack>>
  BY <1>3, <1>4 DEF createProcess, killVars, Me
<1>6. n = h
  <2>1. p_parent[n] = NULL
    BY <1>1, <1>2 DEF Born, TInv, TreeInv, FreeBare
  <2>2. p_parent'[n] = m /\ m # NULL
    BY <1>2, <1>3, NotNull DEF Born, Me
  <2> QED BY <1>3, <1>5, <2>1, <2>2
<1>7. n \notin Live /\ n # m /\ n # 1 /\ Live' = Live \cup {n}
  BY <1>1, <1>2 DEF Born, Live
<1>8. n \notin Blocked
  BY <1>1, <1>7, BlockedFacts
<1>9. QSame
  <2>1. Blocked' = Blocked
    BY <1>5 DEF Blocked
  <2>2. \A p \in Blocked : p \in Proc /\ p # n
    BY <1>1, <1>8, BlockedFacts
  <2>3. \A p \in Blocked : p_cursem'[p] = p_cursem[p] /\ res_requested'[p] = res_requested[p]
    BY <1>3, <1>5, <1>6, <2>2
  <2> QED BY <1>5, <2>1, <2>3 DEF QSame, Same, WaitsOn
<1> QED BY <1>4, <1>5, <1>6, <1>7, <1>8, <1>9

LEMMA ForkKeeps ==
  ASSUME SInv, TInv', phase = "user", NEW m \in Proc, m = Me, ~Done(m), ~Prints(run[m]),
         createCall
  PROVE  SInv'
<1> DEFINE r == run[m]
<1>1. /\ RunInv /\ TInv /\ LockKept /\ TermOK /\ Stands /\ m \in Live /\ 1 \in Live
      /\ p_parent[1] = NULL /\ Standing = Live /\ ViewOK /\ Live \subseteq Proc /\ stack = <<>>
  BY RunsFacts
<1>2. /\ r \in RunType /\ m \notin Blocked /\ pos(m) = r.at /\ r.at \in Nat
      /\ Legal(r.fun, r.at, instr) /\ After(r) \in RunType /\ Fits(After(r))
      /\ After(r).fun = r.fun /\ After(r).at = r.at + 1 /\ After(r).in = 1 /\ ~Holding(m)
      /\ run \in [Proc -> RunType] /\ mem \in [MemNames -> Int] /\ mem.p5dmode \in Nat
  BY CodeFacts DEF RunType
<1>3. instr.op = "create" /\ UNCHANGED mem
  BY DEF createCall, Runs
<1>4. PICK f : f = instr.arg
  OBVIOUS
<1>5. <<r.fun, r.at, f>> \in Makes
  BY <1>2, <1>3, <1>4 DEF Legal, DataAt
<1>6. f \in Functions /\ f \notin {"p5sys_user", "p5sys_kernel"}
  BY <1>5 DEF Makes, Functions
<1>7. CASE Result(-1) /\ UNCHANGED vars
  <2>1. -1 \in Int
    OBVIOUS
  <2> QED BY <1>3, <1>7, <2>1, OnlyKeeps
<1>8. CASE /\ createProcess
           /\ run' = [run EXCEPT ![Me] = [After(@) EXCEPT !.a1 = pid_selector],
                                 ![Head(pcbFree)] = Started(instr.arg)]
  <2>1. PICK n \in Proc :
           /\ n = Head(pcbFree) /\ n \notin Live /\ n # m /\ n # 1 /\ Live' = Live \cup {n}
           /\ p_parent' = [p_parent EXCEPT ![n] = m]
           /\ QSame /\ n \notin Blocked /\ UNCHANGED <<semval, dev, phase, vop, stack>>
    BY <1>8, BirthFacts
  <2>2. PICK q, b : /\ q = [After(r) EXCEPT !.a1 = pid_selector] /\ b = Started(f)
                    /\ run' = [run EXCEPT ![m] = q, ![n] = b]
    BY <1>4, <1>8, <2>1
  <2>3. /\ q \in RunType /\ q.fun = r.fun /\ q.at = r.at + 1 /\ q.in = 1
        /\ q.hdl = After(r).hdl /\ q.back = After(r).back
    <3>1. pid_selector \in Int
      BY <1>1 DEF TInv, TypeOK, CountTypes, pid_selector
    <3>2. PICK a : a = After(r)
      OBVIOUS
    <3> QED BY <1>2, <2>2, <3>1, <3>2 DEF RunType
  <2>4. Fits(q)
    BY <1>2, <2>3 DEF Fits, Prints, Past
  <2>5. b \in RunType /\ b.fun = f /\ b.at = 1 /\ b.in = 1 /\ b.hdl = {}
    BY <1>6, <2>2 DEF Started, RunType
  <2>6. Fits(b)
    <3>1. Len(Code[f]) \in Nat /\ Len(print) \in Nat /\ Len(print) > 2
      BY <1>6, Text, PrintIs
    <3> QED BY <1>6, <2>5, <3>1 DEF Fits
  <2>7. \A p \in Proc : run'[p] = IF p = n THEN b ELSE IF p = m THEN q ELSE run[p]
    BY <1>2, <2>2
  <2>8. RunTypes' /\ RunOK'
    <3>1. run' \in [Proc -> RunType]
      BY <1>2, <2>2, <2>3, <2>5
    <3> QED BY <1>1, <1>2, <1>3, <2>4, <2>6, <2>7, <3>1 DEF RunTypes, RunOK, RunInv
  <2>9. Blocked' = Blocked /\ \A p \in Blocked : Same(p) /\ p \in Proc /\ p # m /\ p # n
    BY <1>1, <1>2, <2>1, BlockedFacts DEF QSame
  <2>10. BlockedAt'
    <3>1. \A p \in Blocked : run'[p] = run[p]
      BY <2>7, <2>9
    <3>2. \A p \in Blocked : Prev(p)' = Prev(p)
      BY <3>1 DEF Prev
    <3>3. \A c : \A p \in Blocked : BlockedIn(p, c)' <=> BlockedIn(p, c)
      BY <2>9 DEF BlockedIn, Same
    <3> QED BY <1>1, <2>9, <3>1, <3>2, <3>3 DEF RunInv, BlockedAt
  <2>11. \A x : SemVal(x)' = SemVal(x)
    BY <2>1 DEF SemVal
  <2>12. LockKept'
    <3>1. \A p \in Live : Holding(p)' <=> Holding(p)
      <4>1. ~Holding(m)'
        BY <2>1, <2>3, <2>7 DEF Holding
      <4>2. \A p \in Live \ {m} : run'[p] = run[p]
        BY <1>1, <2>1, <2>7
      <4>3. \A p \in Live \ {m} : Holding(p)' <=> Holding(p)
        BY <2>9, <4>2 DEF Holding, Same
      <4> QED BY <1>2, <4>1, <4>3
    <3>2. ~Holding(n)'
      BY <2>1, <2>5, <2>7 DEF Holding
    <3>3. Holders' = Holders
      BY <2>1, <3>1, <3>2 DEF Holders
    <3> QED BY <1>1, <2>11, <3>3 DEF LockKept, Holders
  <2>13. SearchOK'
    BY <2>1 DEF SearchOK
  <2>14. TermOK'
    BY <1>1, <2>1, QSameWaits, TermBy
  <2>15. Doomed' = {} /\ Standing' = Standing \cup {n}
    BY <1>1, <2>1, NoneDoomedNext
  <2>16. Forks(View, View', m, n)
    <3>1. /\ View.live = Standing /\ View.par = p_parent /\ View.mode = mem.p5dmode
          /\ \A p \in Proc : View.fun[p] = run[p].fun /\ View.pos[p] = pos(p)
          /\ \A x \in Counted : View.val[x] = SemVal(S(x))
      BY ViewIs
    <3>2. /\ View'.live = Standing' /\ View'.par = p_parent' /\ View'.mode = mem'.p5dmode
          /\ \A p \in Proc : View'.fun[p] = run'[p].fun /\ View'.pos[p] = pos(p)'
          /\ \A x \in Counted : View'.val[x] = SemVal(S(x))'
      BY DEF View
    <3>3. /\ pos(m)' = pos(m) + 1 /\ pos(n)' = 1
          /\ \A p \in Live \ {m} : pos(p)' = pos(p)
      BY <1>1, <1>2, <2>1, <2>3, <2>5, <2>7, <2>9 DEF pos
    <3>4. \A p \in Live : run'[p].fun = run[p].fun
      BY <1>1, <2>1, <2>3, <2>7
    <3>5. p_parent'[n] = m /\ \A p \in Live : p_parent'[p] = p_parent[p]
      <4>1. p_parent \in [Proc -> Proc \cup {NULL}]
        BY <1>1 DEF TInv, TypeOK, ProcTypes
      <4> QED BY <1>1, <2>1, <4>1
    <3>6. run'[n].fun = f
      BY <2>5, <2>7
    <3> DEFINE s == View
               t == View'
    <3> HIDE DEF s, t
    <3>7. /\ m \in s.live /\ n \notin s.live /\ t.live = s.live \cup {n}
          /\ \A p \in s.live : t.par[p] = s.par[p] /\ t.fun[p] = s.fun[p]
          /\ \A p \in s.live \ {m} : t.pos[p] = s.pos[p]
      BY <1>1, <2>1, <2>15, <3>1, <3>2, <3>3, <3>4, <3>5 DEF s, t
    <3>8. /\ t.pos[m] = s.pos[m] + 1 /\ t.par[n] = m /\ t.pos[n] = 1
          /\ <<s.fun[m], s.pos[m], t.fun[n]>> \in Makes
      BY <1>2, <1>5, <3>1, <3>2, <3>3, <3>5, <3>6 DEF s, t
    <3>9. t.mode = s.mode /\ \A x \in Counted : t.val[x] = s.val[x]
      BY <1>3, <2>11, <3>1, <3>2 DEF s, t
    <3>10. Forks(s, t, m, n)
      BY <3>7, <3>8, <3>9 DEF Forks
    <3> QED BY <3>10 DEF s, t
  <2>17. Stands'
    <3>1. ViewOK'
      BY <2>8, <2>10, ViewNext DEF RunInv
    <3>2. p_parent'[1] = p_parent[1]
      <4>1. p_parent \in [Proc -> Proc \cup {NULL}]
        BY <1>1 DEF TInv, TypeOK, ProcTypes
      <4> QED BY <2>1, <4>1, NotNull
    <3> QED BY <1>1, <2>15, <2>16, <3>1, <3>2, StandsBy
  <2>18. DoomOK'
    BY <2>15 DEF DoomOK
  <2> QED BY <2>8, <2>10, <2>12, <2>13, <2>14, <2>17, <2>18 DEF SInv
<1> QED BY <1>7, <1>8 DEF createCall

-----------------------------------------------------------------------------
(* Terminations by the program *)

\* SYS2 of the caller and of what is below it, all in X.
LEMMA EndKeeps ==
  ASSUME SInv, TInv', phase = "user", NEW m \in Proc, m = Me, ~Done(m), ~Prints(run[m]),
         enter(m), unchangedBySearch,
         run' = [run EXCEPT ![m] = After(run[m])], UNCHANGED mem,
         NEW X \in SUBSET Live, m \in X, Closed(X), \A q \in X \ {m} : run[q].in = 1,
         \/ m = 1
         \/ \A r \in Young(View) :
              View.pos[r] > 6 \/ (r \notin X /\ Leaves(View, r) \cap X = {})
  PROVE  SInv'
<1>1. /\ RunInv /\ TInv /\ LockKept /\ TermOK /\ Stands /\ m \in Live /\ stack = <<>>
      /\ Live \subseteq Proc
  BY RunsFacts
<1>2. /\ m \notin Blocked /\ After(run[m]) \in RunType /\ Fits(After(run[m]))
      /\ After(run[m]).in = 1 /\ ~Holding(m)
      /\ run \in [Proc -> RunType] /\ mem \in [MemNames -> Int] /\ mem.p5dmode \in Nat
  BY CodeFacts
<1>3. /\ UNCHANGED <<pcbFree, semval, dev, vop>> /\ QSame /\ phase' = "kill"
  BY QStays DEF enter, unchangedBySearch, aslVars
<1>4. \A x : SemVal(x)' = SemVal(x)
  BY <1>3 DEF SemVal
<1>5. run'[m] = After(run[m]) /\ \A q \in Proc \ {m} : run'[q] = run[q]
  BY <1>2
<1>6. RunTypes' /\ RunOK' /\ BlockedAt'
  <2>1. PICK q \in RunType : q = After(run[m])
    BY <1>2
  <2>2. Fits(q) /\ run' = [run EXCEPT ![m] = q] /\ mem' \in [MemNames -> Int] /\ mem'.p5dmode \in Nat
    BY <1>2, <2>1
  <2> QED BY <1>1, <1>2, <1>3, <2>2, MoveRun
<1>7. RunInv'
  BY <1>6 DEF RunInv
<1>8. Live' = Live
  BY <1>1, <1>3, EnterStands
<1>9. LockKept'
  <2>1. \A q \in Live \ {m} : Holding(q)' <=> Holding(q)
    <3>1. \A q \in Live \ {m} : run'[q] = run[q]
      BY <1>1, <1>5
    <3>2. Blocked' = Blocked /\ \A q \in Blocked : Same(q)
      BY <1>3 DEF QSame
    <3> QED BY <3>1, <3>2 DEF Holding, Same
  <2>2. ~Holding(m)'
    BY <1>2, <1>5 DEF Holding
  <2>3. LockMoves(m)
    BY <1>2, <1>4, <2>2 DEF LockMoves
  <2> QED BY <1>1, <1>8, <2>1, <2>3, LockBy
<1>10. TermOK'
  <2>1. \A u \in Unit : Waiting(IoSem(u))' = Waiting(IoSem(u))
    BY <1>3, QSameWaits
  <2> QED BY <1>1, <1>3, <2>1, TermBy
<1>11. DoomOK' /\ Stands'
  <2>1. \A q \in X : run'[q].in = 1
    BY <1>1, <1>2, <1>5
  <2>2. \A q \in Live \ {m} : run'[q] = run[q]
    BY <1>1, <1>5
  <2>3. \A x \in Counted : SemVal(S(x))' = SemVal(S(x))
    BY <1>4
  <2>4. UNCHANGED <<pcbFree, mem>>
    BY <1>3
  <2> QED BY <1>1, <1>3, <1>7, <2>1, <2>2, <2>3, <2>4, EnterStep
<1>12. SearchOK'
  BY <1>3 DEF SearchOK
<1> QED BY <1>6, <1>9, <1>10, <1>11, <1>12 DEF SInv

\* The family of p8, and everybody, as what the recursion stays in.
LEMMA FamilyClosed ==
  ASSUME SInv, phase = "user", NEW m \in Proc, m = Me, run[m].fun = "p8root",
         run[m].at \in 7 .. 12
  PROVE  \E X \in SUBSET Live :
           /\ m \in X /\ Closed(X) /\ \A q \in X : run[q].in = 1
           /\ \A r \in Young(View) : View.pos[r] > 6
<1>1. /\ TInv /\ RunTypes /\ RunOK /\ Standing = Live /\ Live \subseteq Proc /\ 1 \in Live
      /\ Sync(View) /\ ViewOK /\ m \in Live /\ pos(m) = run[m].at /\ p_parent[1] = NULL
  BY RunsFacts DEF RunInv
<1>2. View.live = Live /\ Typed(View) /\ Known(View) /\ Tree(View)
  BY <1>1, ViewIs DEF ViewOK, Sync
<1>3. m \in Of(View, {"p8root"}) /\ View.pos[m] \in 7 .. 12
  BY <1>1, <1>2, ViewIs DEF Of
<1>4. /\ \A q \in Of(View, Family) : Quiet(View, q)
      /\ \A q \in Young(View) : View.pos[q] > 6
      /\ \A q \in Live \ {1} : View.fun[View.par[q]] \in Family => View.fun[q] \in Family
  BY <1>1, <1>2, <1>3, QuietFamily
<1> DEFINE X == {q \in Live : run[q].fun \in Family}
<1>5. \A q \in X : run[q].in = 1
  <2> SUFFICES ASSUME NEW q \in X PROVE run[q].in = 1
    OBVIOUS
  <2>1. q \in Proc /\ q \in Of(View, Family)
    BY <1>1, <1>2, ViewIs DEF Of
  <2> QED BY <1>1, <1>4, <2>1, QuietIn
<1>6. m \in X
  BY <1>1 DEF Family
<1>7. Closed(X)
  <2>1. /\ \A p, c \in Proc : c \in ToSet(p_children[p]) <=> p_parent[c] = p
        /\ \A p \in Live : ToSet(p_children[p]) \subseteq Live
    BY <1>1, DoomedFacts DEF Closed
  <2> SUFFICES ASSUME NEW p \in X, NEW c \in ToSet(p_children[p]) PROVE c \in X
    BY DEF Closed
  <2>2. p \in Proc /\ p \in Live /\ run[p].fun \in Family /\ c \in Live /\ c \in Proc
    BY <1>1, <2>1
  <2>3. p_parent[c] = p /\ c # 1
    BY <1>1, <2>1, <2>2, NotNull
  <2>4. View.par[c] = p /\ View.fun[p] = run[p].fun /\ View.fun[c] = run[c].fun
    BY <2>2, <2>3, ViewIs
  <2> QED BY <1>4, <2>2, <2>3, <2>4
<1> QED BY <1>4, <1>5, <1>6, <1>7

LEMMA AllClosed ==
  ASSUME SInv, phase = "user", NEW m \in Proc, m = Me, run[m].fun = "test",
         run[m].at > 30
  PROVE  m = 1 /\ Closed(Live) /\ \A q \in Live \ {m} : run[q].in = 1
<1>1. /\ TInv /\ RunTypes /\ RunOK /\ Standing = Live /\ Live \subseteq Proc /\ 1 \in Live
      /\ Sync(View) /\ ViewOK /\ m \in Live /\ pos(m) = run[m].at
  BY RunsFacts DEF RunInv
<1>2. View.live = Live /\ Typed(View) /\ Known(View) /\ Tree(View)
  BY <1>1, ViewIs DEF ViewOK, Sync
<1>3. m = 1
  BY <1>1, <1>2, ViewIs DEF Tree
<1>4. Main(View) > 30
  BY <1>1, <1>3, ViewIs DEF Main
<1>5. \A q \in Live \ {1} : Quiet(View, q)
  BY <1>1, <1>2, <1>4, QuietAll
<1>6. \A q \in Live \ {1} : run[q].in = 1
  BY <1>1, <1>5, QuietIn
<1> QED BY <1>1, <1>3, <1>6, DoomedFacts

LEMMA BelowClosed ==
  ASSUME SInv, phase = "user", NEW m \in Proc, m = Me, m # 1, run[m].fun \notin Family,
         run[m].fun = "p4" => run[m].at > 9, run[m].fun = "p5" => run[m].at > 14
  PROVE  \E X \in SUBSET Live :
           /\ m \in X /\ Closed(X) /\ \A q \in X \ {m} : run[q].in = 1
           /\ \A r \in Young(View) : r \notin X /\ Leaves(View, r) \cap X = {}
<1>1. /\ TInv /\ RunTypes /\ RunOK /\ Standing = Live /\ Live \subseteq Proc /\ 1 \in Live
      /\ Sync(View) /\ ViewOK /\ m \in Live /\ pos(m) = run[m].at /\ p_parent[1] = NULL
  BY RunsFacts DEF RunInv
<1>2. View.live = Live /\ Typed(View) /\ Known(View)
  BY <1>1, ViewIs DEF ViewOK
<1>3. View.fun[m] = run[m].fun /\ View.pos[m] = run[m].at
  BY <1>1, ViewIs
<1> DEFINE X == Below(View, m)
<1>4. /\ \A q \in X \ {m} : Quiet(View, q)
      /\ \A q \in X : View.fun[q] \notin Family
      /\ \A q \in Live \ {1} : View.par[q] \in X => q \in X
      /\ 1 \notin X
  <2>1. m \in View.live
    BY <1>1, <1>2
  <2>2. View.fun[m] \notin Family /\ (View.fun[m] = "p4" => View.pos[m] > 9)
        /\ (View.fun[m] = "p5" => View.pos[m] > 14)
    BY <1>3
  <2>3. PICK s : s = View
    OBVIOUS
  <2>4. /\ \A q \in Below(s, m) \ {m} : Quiet(s, q)
        /\ \A q \in Below(s, m) : s.fun[q] \notin Family
        /\ \A q \in s.live \ {1} : s.par[q] \in Below(s, m) => q \in Below(s, m)
        /\ 1 \notin Below(s, m)
    BY <1>1, <1>2, <2>1, <2>2, <2>3, QuietEnd
  <2> QED BY <1>2, <2>3, <2>4
<1>5. X \in SUBSET Live /\ m \in X
  BY <1>1, <1>2 DEF Below
<1>6. \A q \in X \ {m} : run[q].in = 1
  <2>1. \A q \in X : q \in Proc
    BY <1>1, <1>5
  <2> QED BY <1>1, <1>4, <2>1, QuietIn
<1> HIDE DEF X
<1>7. Closed(X)
  <2>1. /\ \A p, c \in Proc : c \in ToSet(p_children[p]) <=> p_parent[c] = p
        /\ \A p \in Live : ToSet(p_children[p]) \subseteq Live
    BY <1>1, DoomedFacts DEF Closed
  <2> SUFFICES ASSUME NEW p \in X, NEW c \in ToSet(p_children[p]) PROVE c \in X
    BY DEF Closed
  <2>2. p \in Proc /\ p \in Live /\ c \in Live /\ c \in Proc
    BY <1>1, <1>5, <2>1
  <2>3. p_parent[c] = p /\ c # 1
    BY <1>1, <2>1, <2>2, NotNull
  <2>4. View.par[c] = p
    BY <2>3, ViewIs
  <2> QED BY <1>4, <2>2, <2>3, <2>4
<1>8. \A r \in Young(View) : r \notin X /\ Leaves(View, r) \cap X = {}
  BY <1>4 DEF Young, Leaves, Of, Family
<1> QED BY <1>5, <1>6, <1>7, <1>8

\* A process ends: by SYS2, or by an exception for which it has no handler.
LEMMA QuitKeeps ==
  ASSUME SInv, TInv', phase = "user", NEW m \in Proc, m = Me, ~Done(m), ~Prints(run[m]),
         instr.op \in {"exit", "spec", "raise"}, terminateSelf, Advance, UNCHANGED mem
  PROVE  SInv'
<1>1. Legal(run[m].fun, run[m].at, instr)
  BY CodeFacts
<1>2. /\ run[m].fun \notin Family /\ (run[m].fun = "test" => run[m].at = 38)
      /\ run[m].fun = "p4" => run[m].at > 9
      /\ run[m].fun = "p5" => run[m].at > 14
  BY <1>1 DEF Legal, EndAt
<1>3. /\ enter(m) /\ unchangedBySearch /\ run' = [run EXCEPT ![m] = After(run[m])]
  BY DEF terminateSelf, Advance, Goto, Me
<1>4. m \in Live
  BY RunsFacts
<1>5. CASE m = 1
  <2>1. run[m].fun = "test"
    <3>1. Standing = Live /\ Sync(View)
      BY RunsFacts
    <3>2. View.fun[1] = "test"
      BY <1>4, <1>5, <3>1, ViewIs DEF Sync, Tree
    <3> QED BY <1>5, <3>2, ViewIs
  <2>2. Closed(Live) /\ \A q \in Live \ {m} : run[q].in = 1
    BY <1>2, <2>1, AllClosed
  <2>3. Live \in SUBSET Live
    OBVIOUS
  <2> QED BY <1>3, <1>4, <1>5, <2>2, <2>3, EndKeeps
<1>6. CASE m # 1
  <2>1. PICK X \in SUBSET Live :
           /\ m \in X /\ Closed(X) /\ \A q \in X \ {m} : run[q].in = 1
           /\ \A r \in Young(View) : r \notin X /\ Leaves(View, r) \cap X = {}
    BY <1>2, <1>6, BelowClosed
  <2> QED BY <1>3, <2>1, EndKeeps
<1> QED BY <1>5, <1>6

LEMMA KillCallKeeps ==
  ASSUME SInv, TInv', phase = "user", NEW m \in Proc, m = Me, ~Done(m), ~Prints(run[m]),
         killCall
  PROVE  SInv'
<1>1. /\ instr.op = "kill" /\ Advance /\ UNCHANGED mem /\ Legal(run[m].fun, run[m].at, instr)
      /\ run' = [run EXCEPT ![m] = After(run[m])]
  BY CodeFacts DEF killCall, Runs, Advance, Goto
<1>2. \/ run[m].fun = "test" /\ run[m].at = 31
      \/ run[m].fun = "p8root" /\ run[m].at \in 7 .. 10
  BY <1>1 DEF Legal, EndAt
<1>3. PICK pid : /\ pid = mem[instr.arg]
                 /\ \/ pid = 0 /\ terminateSelf
                    \/ terminateByPid(pid)
                    \/ pid # 0 /\ p_children[Me] = <<>> /\ UNCHANGED vars
  BY DEF killCall
<1>4. CASE terminateSelf
  <2>1. enter(m) /\ unchangedBySearch
    BY <1>4 DEF terminateSelf, Me
  <2>2. m \in Live
    BY RunsFacts
  <2>3. CASE run[m].fun = "test" /\ run[m].at = 31
    <3>1. m = 1 /\ Closed(Live) /\ \A q \in Live \ {m} : run[q].in = 1
      BY <2>3, AllClosed
    <3>2. Live \in SUBSET Live
      OBVIOUS
    <3> QED BY <1>1, <2>1, <2>2, <3>1, <3>2, EndKeeps
  <2>4. CASE run[m].fun = "p8root" /\ run[m].at \in 7 .. 10
    <3>1. PICK X \in SUBSET Live :
           /\ m \in X /\ Closed(X) /\ \A q \in X : run[q].in = 1
           /\ \A r \in Young(View) : View.pos[r] > 6
      BY <2>4, FamilyClosed
    <3> QED BY <1>1, <2>1, <3>1, EndKeeps
  <2> QED BY <1>2, <2>3, <2>4
<1>5. CASE terminateByPid(pid)
  <2>1. /\ UNCHANGED <<pcbFree, p_parent, p_children, stack, semval, dev, vop>> /\ QSame
        /\ phase' = "search" /\ cursor' = m /\ UNCHANGED g_current_process
    BY <1>5, QStays DEF terminateByPid, unchangedBySearch, aslVars, Me
  <2>2. /\ After(run[m]) \in RunType /\ Fits(After(run[m])) /\ After(run[m]).fun = run[m].fun
        /\ After(run[m]).at = run[m].at + 1 /\ After(run[m]).in = 1
        /\ run \in [Proc -> RunType] /\ mem \in [MemNames -> Int] /\ mem.p5dmode \in Nat
        /\ semval \in [Sem -> Nat]
        /\ \A x \in Counted : Tally(run[m].fun, run[m].at)[x] = 0
    BY <1>1, CodeFacts
  <2>3. PICK q \in RunType : q = After(run[m])
    BY <2>2
  <2>4. Fits(q) /\ q.in = 1 /\ run' = [run EXCEPT ![m] = q] /\ q.fun = run[m].fun /\ q.at = run[m].at + 1
    BY <1>1, <2>2, <2>3
  <2>5. run'[m] = q
    BY <2>2, <2>4
  <2>6. SearchOK'
    <3>1. Me' = m
      BY <2>1 DEF Me
    <3>2. \/ q.fun = "test" /\ q.at = 32
          \/ q.fun = "p8root" /\ q.at \in 8 .. 11 /\ q.fun \in Family
      BY <1>2, <2>4 DEF Family
    <3> QED BY <2>1, <2>5, <3>1, <3>2 DEF SearchOK
  <2>7. Steps(run[m], q)
    BY <1>2, <2>4 DEF Steps
  <2>8. \A x \in SemNames : SemVal(S(x))' = SemVal(S(x)) /\ SemVal(S(x)) \in Nat
    <3>1. \A x \in SemNames : S(x) \in Sem
      BY SemsAre
    <3> QED BY <2>1, <2>2, <3>1 DEF SemVal
  <2>9. /\ SemVal(S("term_mut"))' = SemVal(S("term_mut"))
        /\ \A x \in Counted : SemVal(S(x))' = SemVal(S(x)) + Tally(run[m].fun, run[m].at)[x]
    <3>1. ASSUME NEW x \in Counted
          PROVE  SemVal(S(x))' = SemVal(S(x)) + Tally(run[m].fun, run[m].at)[x]
      <4>1. PICK a \in Nat : a = SemVal(S(x)) /\ SemVal(S(x))' = a
        BY <2>8, CountedAre
      <4> QED BY <2>2, <4>1
    <3> QED BY <2>8, <3>1 DEF SemNames
  <2>10. mem'.p5dmode = mem.p5dmode + N(run[m].fun = "p5c_user" /\ run[m].at = 1)
    BY <1>1, <1>2, <2>2 DEF N
  <2>11. mem' \in [MemNames -> Int] /\ mem'.p5dmode \in Nat /\ phase' # "semop"
         /\ \A u \in Unit : semval'[IoSem(u)] = semval[IoSem(u)]
    BY <1>1, <2>1, <2>2
  <2> QED BY <2>1, <2>4, <2>6, <2>7, <2>9, <2>10, <2>11, GoKeeps
<1>6. CASE UNCHANGED vars
  <2>1. UNCHANGED <<mem, vars>> /\ 0 \in Int /\ instr.op \notin {"semop", "until", "branch", "raise", "incr"}
    BY <1>1, <1>6
  <2> QED BY <1>1, <2>1, OnlyKeeps
<1> QED BY <1>3, <1>4, <1>5, <1>6

\* Every step of the program.
LEMMA ProgramStep ==
  ASSUME SInv, TInv', Program
  PROVE  SInv'
<1>1. phase = "user" /\ ~Done(Me)
  BY DEF Program, semopCall, createCall, killCall, exitCall, clockCall, ioCall, specCall, raise,
         exitTrap, getPid, store, incr, reset, ensure, branch, until, again, Runs
<1>2. Me \in Proc
  BY <1>1, RunsFacts
<1>3. CASE Prints(run[Me])
  BY <1>1, <1>3, PrintsKeeps
<1>4. CASE ~Prints(run[Me])
  <2>1. PICK m \in Proc : m = Me
    BY <1>2
  <2>2. ~Done(m) /\ ~Prints(run[m])
    BY <1>1, <1>4, <2>1
  <2>3. Legal(run[m].fun, run[m].at, instr)
    BY <1>1, <2>1, <2>2, CodeFacts
  <2>4. CASE semopCall
    BY <1>1, <2>1, <2>2, <2>4, SemopKeeps
  <2>5. CASE createCall
    BY <1>1, <2>1, <2>2, <2>5, ForkKeeps
  <2>6. CASE killCall
    BY <1>1, <2>1, <2>2, <2>6, KillCallKeeps
  <2>7. CASE exitCall
    <3>1. instr.op \in {"exit", "spec", "raise"} /\ terminateSelf /\ Advance /\ UNCHANGED mem
      BY <2>7 DEF exitCall, Runs
    <3> QED BY <1>1, <2>1, <2>2, <3>1, QuitKeeps
  <2>8. CASE clockCall
    BY <1>1, <2>1, <2>2, <2>8, ClockKeeps
  <2>9. CASE ioCall
    <3>1. instr.op = "io"
      BY <2>9 DEF ioCall, Runs
    <3> QED BY <2>3, <3>1 DEF Legal, DataAt
  <2>10. CASE specCall
    <3>1. CASE UNCHANGED vars
      BY <1>1, <2>1, <2>2, <2>10, <3>1, SpecKeeps
    <3>2. CASE terminateSelf /\ Advance
      <4>1. instr.op \in {"exit", "spec", "raise"} /\ UNCHANGED mem
        BY <2>10 DEF specCall, Runs
      <4> QED BY <1>1, <2>1, <2>2, <3>2, <4>1, QuitKeeps
    <3> QED BY <2>10, <3>1, <3>2 DEF specCall
  <2>11. CASE raise
    <3>1. CASE UNCHANGED vars
      BY <1>1, <2>1, <2>2, <2>11, <3>1, RaiseKeeps
    <3>2. CASE terminateSelf /\ Advance
      <4>1. instr.op \in {"exit", "spec", "raise"} /\ UNCHANGED mem
        BY <2>11 DEF raise, Runs
      <4> QED BY <1>1, <2>1, <2>2, <3>2, <4>1, QuitKeeps
    <3> QED BY <2>11, <3>1, <3>2 DEF raise
  <2>12. CASE exitTrap
    BY <1>1, <2>1, <2>2, <2>12, ExitTrapKeeps
  <2>13. CASE getPid
    <3>1. /\ instr.op = "getPid" /\ Result(p_pid[Me]) /\ UNCHANGED <<mem, vars>>
      BY <2>13 DEF getPid, Runs
    <3>2. TInv
      BY DEF SInv
    <3>3. p_pid[Me] \in Int
      BY <1>2, <3>2 DEF TInv, TypeOK, ProcTypes
    <3>4. instr.op \notin {"semop", "until", "branch", "raise", "incr"}
      BY <3>1
    <3> QED BY <1>1, <2>1, <2>2, <3>1, <3>3, <3>4, OnlyKeeps
  <2>14. CASE store \/ incr
    BY <1>1, <2>1, <2>2, <2>14, StoreKeeps
  <2>15. CASE reset
    BY <1>1, <2>1, <2>2, <2>15, ZeroKeeps
  <2>16. CASE ensure
    BY <1>1, <2>1, <2>2, <2>16, EnsureKeeps
  <2>17. CASE branch
    BY <1>1, <2>1, <2>2, <2>17, BranchKeeps
  <2>18. CASE until \/ again
    BY <1>1, <2>1, <2>2, <2>18, LoopKeeps
  <2> QED BY <2>4, <2>5, <2>6, <2>7, <2>8, <2>9, <2>10, <2>11, <2>12, <2>13, <2>14, <2>15,
             <2>16, <2>17, <2>18 DEF Program
<1> QED BY <1>3, <1>4

\* The loops of WAITCLOCK are not in print.
LEMMA LoopPlace ==
  ASSUME SInv, anotherPass
  PROVE  phase = "user" /\ ~Done(Me) /\ Me \in Proc /\ ~Prints(run[Me])
<1>1. phase = "user" /\ ~Done(Me) /\ instr.op = "until"
  BY DEF anotherPass, Runs
<1>2. Me \in Proc /\ RunInv
  BY <1>1, RunsFacts
<1>3. CASE Prints(run[Me])
  <2>1. run[Me].in \in 1 .. Len(print) /\ Len(print) \in Nat
    BY <1>1, <1>2, <1>3, PrintFacts
  <2>2. run[Me].in = 1 \/ run[Me].in = Len(print) \/ run[Me].in \in 2 .. Len(print) - 1
    BY <2>1
  <2>3. instr \in {W("term_mut", 1), V("term_mut", 1), IoDevop, Status}
    BY <1>1, <1>2, <1>3, <2>2, InstrIs DEF RunInv
  <2> QED BY <1>1, <2>3 DEF W, V, IoDevop, Status
<1> QED BY <1>1, <1>2, <1>3

LEMMA TestStep ==
  ASSUME SInv, [TestNext]_pvars
  PROVE  SInv'
<1>1. TInv'
  BY TestKeeps DEF SInv
<1>2. CASE Program
  BY <1>1, <1>2, ProgramStep
<1>3. CASE switch
  <2>1. (\E over \in BOOLEAN : slice(over)) /\ UNCHANGED <<run, mem>>
    BY <1>3 DEF switch
  <2> QED BY <1>1, <2>1, NucleusKeeps DEF Rests
<1>4. CASE UNCHANGED <<run, mem, slices>> /\ (handlers \/ terminal \/ printed \/ stopped
              \/ \E expired \in BOOLEAN : timer(expired))
  <2>1. UNCHANGED <<run, mem>>
    BY <1>4
  <2>2. Rests \/ wake \/ killChild \/ reap \/ childByPid
    <3>1. CASE handlers
      BY <3>1 DEF handlers, Rests
    <3>2. CASE terminal \/ printed
      BY <3>2 DEF terminal, printed, Rests
    <3>3. CASE stopped
      BY <3>3 DEF stopped, Rests
    <3>4. CASE \E expired \in BOOLEAN : timer(expired)
      BY <3>4 DEF timer, Rests
    <3> QED BY <1>4, <3>1, <3>2, <3>3, <3>4
  <2> QED BY <1>1, <2>1, <2>2, NucleusKeeps
<1>5. CASE UNCHANGED pvars
  <2>1. UNCHANGED vars /\ UNCHANGED <<run, mem>>
    BY <1>5 DEF pvars
  <2>2. Rests
    BY <2>1 DEF Rests
  <2> QED BY <1>1, <2>1, <2>2, NucleusKeeps
<1>6. CASE anotherPass
  <2>1. PICK m \in Proc : m = Me
    BY <1>6, LoopPlace
  <2> QED BY <1>1, <1>6, <2>1, LoopPlace, LoopKeeps
<1> QED BY <1>2, <1>3, <1>4, <1>5, <1>6 DEF TestNext

-----------------------------------------------------------------------------
(* The initial state *)

LEMMA FirstLive ==
  ASSUME TestInit
  PROVE  Live = {1} /\ Standing = {1} /\ Doomed = {} /\ Blocked = {}
<1>1. Init /\ MAXPROC \in Nat \ {0} /\ Proc = 1 .. MAXPROC
  BY ConstAssumption DEF TestInit, Proc
<1>2. TInv
  BY <1>1, TInit
<1>3. ToSet(pcbFree) = 2 .. MAXPROC
  <2>1. pcbFree = [i \in 1 .. MAXPROC - 1 |-> i + 1]
    BY <1>1 DEF Init
  <2>2. DOMAIN pcbFree = 1 .. MAXPROC - 1
    BY <2>1
  <2>3. \A n \in 2 .. MAXPROC : \E i \in 1 .. MAXPROC - 1 : i + 1 = n
    <3> SUFFICES ASSUME NEW n \in 2 .. MAXPROC PROVE \E i \in 1 .. MAXPROC - 1 : i + 1 = n
      OBVIOUS
    <3>1. n - 1 \in 1 .. MAXPROC - 1 /\ (n - 1) + 1 = n
      BY <1>1
    <3> QED BY <3>1
  <2>4. \A i \in 1 .. MAXPROC - 1 : pcbFree[i] = i + 1 /\ i + 1 \in 2 .. MAXPROC
    BY <1>1, <2>1
  <2>5. ToSet(pcbFree) = {pcbFree[i] : i \in 1 .. MAXPROC - 1}
    BY <2>2 DEF ToSet
  <2>6. \A n : n \in ToSet(pcbFree) <=> \E i \in 1 .. MAXPROC - 1 : n = pcbFree[i]
    BY <2>5
  <2> HIDE DEF ToSet
  <2>7. \A n : n \in ToSet(pcbFree) <=> \E i \in 1 .. MAXPROC - 1 : n = i + 1
    BY <2>4, <2>6
  <2>8. \A n : n \in ToSet(pcbFree) <=> n \in 2 .. MAXPROC
    BY <2>3, <2>4, <2>7
  <2> QED BY <2>8
<1>4. Live = {1}
  BY <1>1, <1>3 DEF Live
<1>5. stack = <<>> /\ s_procq = [d \in Semd |-> <<>>] /\ aslh = {}
  BY <1>1 DEF Init
<1>6. Blocked = {}
  <2>1. \A d \in Semd : s_procq[d] = <<>>
    BY <1>5
  <2>2. \A d \in Semd : ToSet(s_procq[d]) = {}
    BY <2>1 DEF ToSet
  <2> QED BY <2>2 DEF Blocked
<1> QED BY <1>2, <1>4, <1>5, <1>6, DoomedFacts

\* Before its first step only test is there, and no semaphore has a unit but
\* those that start with one.
LEMMA SyncStart ==
  ASSUME NEW s, s.live = {1}, s.fun[1] = "test", s.pos[1] = 1, s.mode = 0,
         \A x \in Counted : s.val[x] = IF x \in {"blkp4", "blkp5cint"} THEN 1 ELSE 0
  PROVE  Sync(s)
<1>1. Main(s) = 1
  BY DEF Main
<1>2. \A F : "test" \notin F => Of(s, F) = {}
  BY DEF Of
<1>3. /\ Of(s, {"p2"}) = {} /\ Of(s, {"p3"}) = {} /\ Of(s, {"p4"}) = {} /\ Of(s, {"p5"}) = {}
      /\ Of(s, {"p6"}) = {} /\ Of(s, {"p7"}) = {} /\ Of(s, {"p8root"}) = {}
      /\ Of(s, {"p8leaf"}) = {} /\ Of(s, Fetch) = {} /\ Of(s, Mm) = {} /\ Of(s, Both) = {}
      /\ Of(s, Kernel) = {} /\ Of(s, Kids) = {} /\ Of(s, Pairs) = {}
      /\ Of(s, {"p5c"} \cup Kernel) = {}
  BY <1>2 DEF Fetch, Mm, Both, Kernel, Kids, Pairs
<1>4. /\ s.val["endp2"] = 0 /\ s.val["endp3"] = 0 /\ s.val["blkp4"] = 1 /\ s.val["synp4"] = 0
      /\ s.val["blkp5a"] = 0 /\ s.val["blkp5b"] = 0 /\ s.val["blkp5c"] = 0
      /\ s.val["blkp5cint"] = 1 /\ s.val["endp5"] = 0 /\ s.val["blkp6"] = 0
      /\ s.val["endp6"] = 0 /\ s.val["endp8"] = 0 /\ s.val["endcreate"] = 0
  BY DEF Counted
<1>5. Tree(s) /\ Births(s)
  BY DEF Tree, Births
<1>6. Ones(s)
  BY <1>3 DEF Ones, Single, One
<1>7. Two(s) /\ Three(s)
  BY <1>1, <1>4 DEF Two, Three
<1>8. Four(s)
  BY <1>1, <1>3, <1>4 DEF Four, Syn4, Blk4, Dead4, First, Second
<1>9. Traps(s) /\ FiveEnd(s)
  BY <1>1, <1>3, <1>4 DEF Traps, Trap, FiveEnd
<1>10. FiveC(s)
  BY <1>1, <1>3, <1>4 DEF FiveC, Cint, Mode, Last5
<1>11. Six(s)
  BY <1>1, <1>3, <1>4 DEF Six, N
<1>12. Eight(s)
  <2>1. Young(s) = {}
    BY <1>3 DEF Young
  <2> QED BY <1>1, <1>3, <1>4, <2>1 DEF Eight, Root, Grown, Counts
<1> QED BY <1>5, <1>6, <1>7, <1>8, <1>9, <1>10, <1>11, <1>12 DEF Sync

LEMMA FirstVal ==
  ASSUME TestInit
  PROVE  /\ \A x \in SemNames : SemVal(S(x)) = SemZero[S(x)]
         /\ \A u \in Unit : semval[IoSem(u)] = 0
<1>1. PICK past : semval = [a \in Sem |-> IF a \in UserSem THEN SemInit[a]
                                ELSE IF a \in PastEnd THEN past[a] ELSE 0]
  BY DEF TestInit, Init
<1>2. UserSem = Sems /\ SemInit = SemZero
  BY TestAssumption
<1>3. \A x \in SemNames : semval[S(x)] = SemZero[S(x)]
  BY <1>1, <1>2, SemsAre
<1>4. \A u \in Unit : IoSem(u) \in Sem /\ IoSem(u) \notin UserSem
  BY SemsAre, AddrAssumption DEF DevCells
<1>5. \A u \in Unit : IoSem(u) \notin PastEnd
  <2> SUFFICES ASSUME NEW u \in Unit PROVE IoSem(u)[2] # N_DEV_TYPES
    BY DEF PastEnd
  <2>1. IoSem(u) = <<"g_dev_s", 4, 0>>
    BY TestAssumption DEF IoSem, Cell, IL_TERMINAL
  <2> QED BY <2>1 DEF N_DEV_TYPES, N_EXT_IL
<1>6. phase = "sched"
  BY DEF TestInit, Init
<1> QED BY <1>1, <1>3, <1>4, <1>5, <1>6 DEF SemVal

LEMMA TestStart == TestInit => SInv
<1> SUFFICES ASSUME TestInit PROVE SInv
  OBVIOUS
<1>1. TInv
  BY TInit DEF TestInit
<1>2. Live = {1} /\ Standing = {1} /\ Doomed = {} /\ Blocked = {} /\ 1 \in Proc
  BY FirstLive, NotNull
<1>3. /\ run = [p \in Proc |-> Started("test")]
      /\ mem = [p1p2synch |-> 0, p4inc |-> 1, p5dmode |-> 0, p8inc |-> 0, creation |-> 0,
            p3pid |-> 0, p8pid |-> 0, leaf1pid |-> 0, leaf2pid |-> 0,
            leaf3pid |-> 0, leaf4pid |-> 0]
      /\ phase = "sched" /\ p_parent[1] = NULL
      /\ dev = [u \in Unit |-> [st |-> "idle", by |-> 0]]
  BY <1>2 DEF TestInit, Init
<1>4. PICK b : b = Started("test")
  OBVIOUS
<1>5. /\ b \in RunType /\ b.fun = "test" /\ b.at = 1 /\ b.in = 1 /\ b.hdl = {}
  BY <1>4 DEF Started, RunType, Functions
<1>6. Fits(b)
  <2>1. Len(print) \in Nat /\ Len(print) > 2 /\ Len(Code["test"]) = 38
    BY PrintIs, LensOf
  <2> QED BY <1>5, <2>1 DEF Fits
<1>7. \A p \in Proc : run[p] = b
  BY <1>3, <1>4
<1>8. RunTypes /\ RunOK
  <2>1. run \in [Proc -> RunType]
    BY <1>3, <1>4, <1>5
  <2>2. mem \in [MemNames -> Int] /\ mem.p5dmode \in Nat
    BY <1>3 DEF MemNames
  <2> QED BY <1>6, <1>7, <2>1, <2>2 DEF RunTypes, RunOK
<1>9. BlockedAt /\ SearchOK /\ DoomOK
  BY <1>2, <1>3 DEF BlockedAt, SearchOK, DoomOK
<1>10. LockKept
  <2>1. {p \in Live : Holding(p)} = {}
    BY <1>2, <1>5, <1>7 DEF Holding
  <2>2. SemVal(S("term_mut")) = 1
    <3>1. "term_mut" \in SemNames /\ S("term_mut") \in Sems
      BY DEF SemNames, Sems
    <3>2. SemVal(S("term_mut")) = SemZero[S("term_mut")]
      BY <3>1, FirstVal
    <3>3. SemZero[S("term_mut")] = 1
      BY <3>1 DEF SemZero
    <3> QED BY <3>2, <3>3
  <2>3. Cardinality({p \in Live : Holding(p)}) = 0
    BY <2>1, FS_EmptySet
  <2> QED BY <2>2, <2>3 DEF LockKept
<1>11. TermOK
  <2>1. \A u \in Unit : semval[IoSem(u)] = 0 /\ dev[u].st = "idle" /\ ~Signals(IoSem(u))
    BY <1>3, FirstVal DEF Signals
  <2> QED BY <2>1 DEF TermOK
<1>12. Stands
  <2>1. /\ View.live = {1} /\ View.mode = 0 /\ View.fun[1] = "test" /\ View.pos[1] = 1
    <3>1. pos(1) = 1
      BY <1>2, <1>5, <1>7 DEF pos
    <3> QED BY <1>2, <1>3, <1>5, <1>7, <3>1, ViewIs
  <2>2. \A x \in Counted : View.val[x] = IF x \in {"blkp4", "blkp5cint"} THEN 1 ELSE 0
    <3> SUFFICES ASSUME NEW x \in Counted
                 PROVE  View.val[x] = IF x \in {"blkp4", "blkp5cint"} THEN 1 ELSE 0
      OBVIOUS
    <3>1. x \in SemNames /\ x # "term_mut" /\ S(x) \in Sems
      BY CountedAre DEF Sems
    <3>2. View.val[x] = SemZero[S(x)]
      BY <3>1, FirstVal, ViewIs
    <3>3. S(x) \in {S("term_mut"), S("blkp4"), S("blkp5cint")} <=> x \in {"blkp4", "blkp5cint"}
      BY <3>1 DEF S
    <3> QED BY <3>1, <3>2, <3>3 DEF SemZero
  <2>3. PICK s : s = View
    OBVIOUS
  <2>4. Sync(s)
    BY <2>1, <2>2, <2>3, SyncStart
  <2> QED BY <1>2, <1>3, <2>3, <2>4 DEF Stands
<1> QED BY <1>1, <1>8, <1>9, <1>10, <1>11, <1>12 DEF SInv

-----------------------------------------------------------------------------
(* The family of p8 *)

\* The incarnations of p8, and the search of test for one of them.
Roots == {p \in Standing : run[p].fun = "p8root"}
Hunt  == phase = "search" /\ Me = 1

\* A p5 that has told test of its end is the process that runs.
LastOfFive == \A p \in Standing : run[p].fun = "p5" /\ run[p].at > 14 => p = Me

\* There is one p8root at most, while test waits for it and looks for it, and
\* p8pid is its pid from when it has stored it.
OneRoot  == \A p, q \in Roots : p = q
RootTime == Roots # {} => run[1].at \in 28 .. 31 \/ Hunt
RootPid  == \A r \in Roots : /\ run[r].at = 2 => run[r].a1 = p_pid[r]
                             /\ run[r].at > 2 => mem.p8pid = p_pid[r]
HuntOK   == Hunt => cursor = 1 /\ target = mem.p8pid

FamOK == LastOfFive /\ OneRoot /\ RootTime /\ RootPid /\ HuntOK
FInv  == phase # "wild" => FamOK

\* What is called where a family begins and where it is to end.
LEMMA FamText ==
  /\ Code["p8root"][1] = GetPid /\ Code["p8root"][2] = Store("p8pid")
  /\ Code["test"][28] = Store("creation") /\ Code["test"][29] = Ensure("created")
  /\ Code["test"][30] = W("endp8", 1) /\ Code["test"][31] = Kill("p8pid")
  /\ Code["p5"][14] = V("endp5", 1)
  /\ Code["p5"][15] = SpecHdl("pgm") /\ Code["p5"][16] = SpecHdl("pgm")
<1>1. p8root[1] = GetPid /\ p8root[2] = Store("p8pid")
  BY DEF p8root
<1>2. /\ test[28] = Store("creation") /\ test[29] = Ensure("created")
      /\ test[30] = W("endp8", 1) /\ test[31] = Kill("p8pid")
  BY SMTT(30) DEF test, p8round
<1>3. p5[14] = V("endp5", 1) /\ p5[15] = SpecHdl("pgm") /\ p5[16] = SpecHdl("pgm")
  BY DEF p5
<1> QED BY <1>1, <1>2, <1>3, CodeIs

LEMMA FamFacts ==
  ASSUME SInv, FInv, phase # "wild"
  PROVE  /\ FamOK /\ TInv /\ RunInv /\ Stands /\ Standing \subseteq Live /\ Live \subseteq Proc
         /\ Roots \subseteq Standing /\ \A r \in Roots : run[r].fun = "p8root" /\ r \in Proc
BY DoomedFacts DEF SInv, RunInv, FInv, Roots

\* Nobody moves.
LEMMA FamBy ==
  ASSUME SInv, FInv, phase # "wild", UNCHANGED <<run, mem>>, Standing' \subseteq Standing,
         \A p \in Standing : p_pid'[p] = p_pid[p],
         \A p \in Standing' : run[p].fun = "p5" /\ run[p].at > 14 /\ p = Me => Me' = p,
         Hunt' => Hunt /\ UNCHANGED <<cursor, target>>,
         Hunt => Hunt' \/ \A p \in Standing' : run[p].fun # "p8root"
  PROVE  FInv'
<1>1. FamOK
  BY FamFacts
<1>2. Roots' \subseteq Roots
  BY DEF Roots
<1>3. LastOfFive'
  BY <1>1 DEF FamOK, LastOfFive
<1>4. OneRoot'
  BY <1>1, <1>2 DEF FamOK, OneRoot
<1>5. RootTime'
  BY <1>1, <1>2 DEF FamOK, RootTime, Roots
<1>6. RootPid'
  BY <1>1, <1>2 DEF FamOK, RootPid, Roots
<1>7. HuntOK'
  BY <1>1 DEF FamOK, HuntOK
<1> QED BY <1>3, <1>4, <1>5, <1>6, <1>7 DEF FInv, FamOK

\* The running process m goes on as q, and nobody is born.
LEMMA FamMoves ==
  ASSUME SInv, FInv, phase = "user", NEW m \in Proc, m = Me, NEW q,
         run' = [run EXCEPT ![m] = q], Standing' \subseteq Live, UNCHANGED p_pid,
         q.fun = "p8root" => /\ run[m].fun = "p8root"
                             /\ q.at = 2 => q.a1 = p_pid[m]
                             /\ q.at > 2 => mem'.p8pid = p_pid[m],
         run[m].fun # "p8root" => mem'.p8pid = mem.p8pid,
         q.fun = "p5" /\ q.at > 14 => Me' = m \/ m \notin Standing',
         m = 1 => \/ run[m].at \in 28 .. 31 => q.at \in 28 .. 31
                  \/ Hunt'
                  \/ \A p \in Standing' : run'[p].fun # "p8root",
         Hunt' => cursor' = 1 /\ target' = mem'.p8pid
  PROVE  FInv'
<1>1. FamOK /\ Standing = Live /\ Live \subseteq Proc /\ run \in [Proc -> RunType] /\ m \in Live
  BY FamFacts, RunsFacts DEF RunInv, RunTypes
<1>2. run'[m] = q /\ \A p \in Proc \ {m} : run'[p] = run[p]
  BY <1>1
<1>3. ~Hunt
  BY DEF Hunt
<1>4. Roots' \subseteq Roots
  BY <1>1, <1>2 DEF Roots
<1>5. LastOfFive'
  <2> SUFFICES ASSUME NEW p \in Standing', run'[p].fun = "p5", run'[p].at > 14
               PROVE  p = Me'
    BY DEF LastOfFive, Me
  <2>1. CASE p = m
    BY <1>2, <2>1
  <2>2. CASE p # m
    BY <1>1, <1>2, <2>2 DEF FamOK, LastOfFive
  <2> QED BY <2>1, <2>2
<1>6. OneRoot'
  BY <1>1, <1>4 DEF FamOK, OneRoot
<1>7. RootTime'
  <2> SUFFICES ASSUME NEW p \in Roots' PROVE run'[1].at \in 28 .. 31 \/ Hunt'
    BY DEF RootTime
  <2>1. run[1].at \in 28 .. 31
    BY <1>1, <1>3, <1>4 DEF FamOK, RootTime
  <2>2. run'[p].fun = "p8root" /\ p \in Standing'
    BY DEF Roots
  <2>3. CASE m = 1
    BY <1>2, <2>1, <2>2, <2>3
  <2>4. CASE m # 1
    BY <1>2, <2>1, <2>4, NotNull
  <2> QED BY <2>3, <2>4
<1>8. RootPid'
  <2> SUFFICES ASSUME NEW r \in Roots'
               PROVE  /\ run'[r].at = 2 => run'[r].a1 = p_pid[r]
                      /\ run'[r].at > 2 => mem'.p8pid = p_pid[r]
    BY DEF RootPid
  <2>1. r \in Roots /\ r \in Proc /\ run'[r].fun = "p8root"
    BY <1>1, <1>4 DEF Roots
  <2>2. CASE r = m
    BY <1>2, <2>1, <2>2
  <2>3. CASE r # m
    <3>1. run[m].fun # "p8root"
      BY <1>1, <2>1, <2>3 DEF FamOK, OneRoot, Roots
    <3> QED BY <1>1, <1>2, <2>1, <2>3, <3>1 DEF FamOK, RootPid
  <2> QED BY <2>2, <2>3
<1>9. HuntOK'
  BY DEF HuntOK
<1> QED BY <1>5, <1>6, <1>7, <1>8, <1>9 DEF FInv, FamOK

-----------------------------------------------------------------------------
LEMMA FamIdle ==
  ASSUME SInv, FInv, Rests, UNCHANGED <<run, mem>>, ~childByPid,
         g_current_process' # g_current_process => Me = NULL \/ run[Me].fun # "p5"
  PROVE  FInv'
<1> SUFFICES ASSUME phase' # "wild" PROVE FInv'
  BY DEF FInv
<1>1. Idle /\ phase # "wild"
  BY RestsIdle DEF SInv, RunInv
<1>2. Standing' = Standing
  BY <1>1, StillStands DEF Idle, Calm
<1>3. UNCHANGED p_pid
  BY DEF Rests, scheduler, tick, endV, slice, handleTimer, handleDevices, deviceDone, vars, treeVars
<1>4. \/ phase # "search" /\ phase' # "search"
      \/ UNCHANGED <<phase, g_current_process, cursor, target>>
  <2>1. CASE \E over \in BOOLEAN : slice(over)
    BY <2>1 DEF slice, Resumed
  <2>2. CASE \E expired \in BOOLEAN : handleTimer(expired)
    BY <2>2 DEF handleTimer, Interruptible
  <2>3. CASE \E u \in Unit : handleDevices(u)
    BY <2>3 DEF handleDevices, Interruptible, startV, Resumed
  <2>4. CASE (\E u \in Unit : deviceDone(u)) \/ UNCHANGED vars
    BY <2>4 DEF deviceDone, vars, killVars
  <2>5. CASE scheduler \/ tick \/ endV
    BY <2>5 DEF scheduler, tick, endV, startV, Resumed
  <2> QED BY <2>1, <2>2, <2>3, <2>4, <2>5 DEF Rests
<1>5. Hunt' => Hunt /\ UNCHANGED <<cursor, target>>
  BY <1>4 DEF Hunt, Me
<1>6. Hunt => Hunt'
  BY <1>4 DEF Hunt, Me
<1>7. ASSUME NEW p \in Standing', run[p].fun = "p5", p = Me PROVE Me' = p
  <2>1. p \in Proc
    BY <1>2, <1>7, FamFacts, <1>1
  <2> QED BY <1>7, <2>1, NotNull DEF Me
<1> QED BY <1>1, <1>2, <1>3, <1>5, <1>6, <1>7, FamBy

\* Who has a child below test, but for a p8root, is p4, or p5.
LEMMA HuntStays ==
  ASSUME SInv, FInv, Hunt, NEW c \in Live, p_parent[c] = 1, p_children[c] # <<>>
  PROVE  c \in Roots
<1>1. /\ TInv /\ RunInv /\ Stands /\ SearchOK /\ FamOK /\ phase = "search" /\ Me = 1
  BY FamFacts DEF Hunt, SInv
<1>2. /\ stack = <<>> /\ Standing = Live /\ Live \subseteq Proc
      /\ Me \in Live /\ Me \notin Blocked
  BY <1>1, SearchFacts, Alive, DoomedFacts
<1>3. Sync(View) /\ View.live = Live /\ Typed(View)
  BY <1>1, <1>2, ViewIs, ViewState DEF Stands, ViewOK
<1>4. View.fun[1] = "test" /\ run[1].fun = "test"
  BY <1>1, <1>2, <1>3, ViewIs DEF Sync, Tree
<1>5. run[1].at = 32 /\ Main(View) = 32
  BY <1>1, <1>2, <1>4, ViewIs DEF SearchOK, Main, pos
<1>6. Of(View, {"p4"}) = {} /\ All(View, "p5", 14)
  BY <1>3, <1>5 DEF Sync, FiveEnd
<1>7. c \in Proc /\ c # 1
  BY <1>1, <1>2, NotNull DEF Stands
<1>8. PICK d \in Live : p_parent[d] = c
  <2>1. p_children[c] \in Seq(Proc)
    BY <1>1, <1>7 DEF TInv, TypeOK, ProcTypes
  <2>2. PICK d : d \in ToSet(p_children[c])
    BY <2>1, TailProperties
  <2> QED BY <1>1, <1>2, <1>7, <2>2, DoomedFacts DEF Closed
<1>9. d \in Live \ {1} /\ View.par[d] = c /\ View.par[c] = 1
  <2>1. p_parent[1] = NULL /\ c # NULL
    BY <1>1, <1>2, <1>7, NotNull DEF Stands
  <2> QED BY <1>7, <1>8, <2>1, ViewIs
<1>10. View.fun[d] \in DOMAIN Loud /\ View.fun[d] # "test"
  BY <1>3, <1>9, <1>1, ViewState DEF ViewOK, Known, Sync, Tree
<1>11. View.fun[d] \notin {"p2", "p3", "p5", "p6", "p7", "p8root", "p4"}
  BY <1>3, <1>6, <1>7, <1>9 DEF Sync, Tree, Of
<1>12. View.fun[d] # "p8leaf"
  <2> SUFFICES ASSUME View.fun[d] = "p8leaf" PROVE FALSE
    OBVIOUS
  <2>1. View.fun[c] \in Kids
    BY <1>3, <1>9 DEF Sync, Tree
  <2>2. View.fun[1] = "p8root"
    BY <1>3, <1>7, <1>9, <2>1 DEF Sync, Tree
  <2> QED BY <1>4, <2>2
<1>13. View.fun[c] # "p5"
  <2> SUFFICES ASSUME View.fun[c] = "p5" PROVE FALSE
    OBVIOUS
  <2>1. View.pos[c] > 14
    BY <1>3, <1>6 DEF All, Of
  <2>2. run[c].fun = "p5" /\ pos(c) > 14
    BY <1>7, <2>1, ViewIs
  <2>3. run[c].at > 14
    <3>1. run[c].at \in Nat
      BY <1>1, <1>7 DEF RunInv, RunTypes, RunType
    <3> QED BY <2>2, <3>1 DEF pos
  <2>4. c = 1
    BY <1>1, <1>2, <2>2, <2>3 DEF FamOK, LastOfFive
  <2> QED BY <1>7, <2>4
<1>14. View.fun[d] \notin Fetch \cup Mm \cup Both
  BY <1>3, <1>9, <1>13 DEF Sync, Tree
<1>15. View.fun[d] \in Kids
  BY <1>10, <1>11, <1>12, <1>14, CodeIs DEF Functions, Kids, Fetch, Mm, Both, Kernel
<1>16. View.fun[c] = "p8root"
  BY <1>3, <1>9, <1>15 DEF Sync, Tree
<1> QED BY <1>2, <1>7, <1>16, ViewIs DEF Roots

\* The search of test ends with its p8root, as long as there is one.
LEMMA FamSearch ==
  ASSUME SInv, SInv', FInv, childByPid, UNCHANGED <<run, mem>>
  PROVE  FInv'
<1> SUFFICES ASSUME phase' # "wild" PROVE FInv'
  BY DEF FInv
<1>1. phase = "search" /\ UNCHANGED <<pcbFree, p_pid, g_current_process>>
  BY DEF childByPid, unchangedBySearch
<1>2. /\ TInv /\ RunInv /\ Stands /\ SearchOK /\ FamOK
  BY <1>1, FamFacts DEF SInv
<1>3. /\ stack = <<>> /\ Standing = Live /\ Live \subseteq Proc /\ cursor \in Proc
      /\ Me \in Live /\ Me \notin Blocked /\ p_children[cursor] \in Seq(Proc)
      /\ \A i \in DOMAIN p_children[cursor] :
           p_children[cursor][i] \in ToSet(p_children[cursor]) /\ p_children[cursor][i] \in Live
  <2>1. \A i \in DOMAIN p_children[cursor] : p_children[cursor][i] \in ToSet(p_children[cursor])
    BY DEF ToSet
  <2>2. cursor \in Proc /\ p_children \in [Proc -> Seq(Proc)]
    BY <1>1, <1>2 DEF TInv, TypeOK, PhaseTypes, ProcTypes
  <2> QED BY <1>1, <1>2, <2>1, <2>2, SearchFacts, Alive, DoomedFacts
<1>4. PICK ch : ch = p_children[cursor]
  OBVIOUS
<1>5. \/ /\ \A i \in DOMAIN ch : p_pid[ch[i]] # target
         /\ phase' = "user" /\ UNCHANGED <<stack, p_children>>
      \/ \E i \in DOMAIN ch : p_pid[ch[i]] = target /\ enter(ch[i])
      \/ \E i \in DOMAIN ch : /\ p_pid[ch[i]] # target /\ p_children[ch[i]] # <<>>
                              /\ UNCHANGED <<target, phase, stack, p_children>>
  BY <1>4 DEF childByPid
<1>6. Standing' \subseteq Standing
  <2>1. CASE UNCHANGED <<stack, p_children>>
    BY <1>1, <2>1, StillStands
  <2>2. CASE \E i \in DOMAIN ch : enter(ch[i])
    <3>1. PICK i \in DOMAIN ch : enter(ch[i])
      BY <2>2
    <3>2. PICK c \in Live : c = ch[i]
      BY <1>3, <1>4
    <3>3. Live' = Live
      BY <1>1, <1>2, <3>1, <3>2, EnterStands
    <3> QED BY <1>3, <3>3 DEF Standing
  <2> QED BY <1>5, <2>1, <2>2
<1>7. CASE Me # 1
  <2>1. ~Hunt /\ ~Hunt' /\ Me' = Me
    BY <1>1, <1>7 DEF Hunt, Me
  <2> QED BY <1>1, <1>6, <2>1, FamBy
<1>8. CASE Me = 1
  <2>1. Hunt /\ cursor = 1 /\ target = mem.p8pid /\ Me' = Me
    BY <1>1, <1>2, <1>8 DEF Hunt, FamOK, HuntOK, Me
  <2>2. ASSUME NEW r \in Roots
        PROVE  p_pid[r] = target /\ r \in Live /\ r \in ToSet(ch)
    <3>1. Sync(View) /\ View.live = Live /\ Typed(View)
      BY <1>2, <1>3, ViewIs, ViewState DEF Stands, ViewOK
    <3>2. r \in Live /\ r \in Proc /\ run[r].fun = "p8root" /\ View.fun[r] = "p8root"
      BY <1>3, ViewIs DEF Roots
    <3>3. View.fun[1] = "test" /\ r # 1 /\ p_parent[r] = 1
      BY <1>3, <1>8, <3>1, <3>2, ViewIs DEF Sync, Tree
    <3>4. run[1].at = 32 /\ Main(View) = 32
      BY <1>1, <1>2, <1>3, <1>8, <3>3, ViewIs DEF SearchOK, Main, pos
    <3>5. View.pos[r] > 12
      <4>1. View.pos[r] \in Nat
        BY <3>1, <3>2 DEF Typed
      <4> QED BY <3>1, <3>2, <3>4, <4>1 DEF Sync, Eight, Root, Young, Of
    <3>6. run[r].at > 2
      <4>1. run[r].at \in Nat
        BY <1>2, <3>2 DEF RunInv, RunTypes, RunType
      <4>2. pos(r) > 12
        BY <3>2, <3>5, ViewIs
      <4> QED BY <4>1, <4>2 DEF pos
    <3> QED BY <1>2, <1>3, <1>4, <2>1, <3>2, <3>3, <3>6, DoomedFacts DEF FamOK, RootPid
  <2>3. CASE /\ \A i \in DOMAIN ch : p_pid[ch[i]] # target
             /\ phase' = "user" /\ UNCHANGED <<stack, p_children>>
    <3>1. Roots = {}
      BY <2>2, <2>3 DEF ToSet
    <3>2. \A p \in Standing' : run[p].fun # "p8root"
      BY <1>6, <3>1 DEF Roots
    <3>3. ~Hunt'
      BY <2>3 DEF Hunt
    <3> QED BY <1>1, <1>6, <2>1, <3>2, <3>3, FamBy
  <2>4. CASE \E i \in DOMAIN ch : p_pid[ch[i]] = target /\ enter(ch[i])
    <3>1. PICK i \in DOMAIN ch : p_pid[ch[i]] = target /\ enter(ch[i])
      BY <2>4
    <3>2. PICK c \in Live : c = ch[i]
      BY <1>3, <1>4
    <3>3. c \in Doomed'
      BY <1>1, <1>2, <3>1, <3>2, EnterStands
    <3>4. \A r \in Roots : r = c
      BY <1>2, <2>2, <3>1, <3>2 DEF TInv, PidInv, PidsDistinct
    <3>5. \A p \in Standing' : run[p].fun # "p8root"
      BY <1>6, <3>3, <3>4 DEF Roots, Standing
    <3>6. ~Hunt'
      BY <3>1 DEF enter, Hunt
    <3> QED BY <1>1, <1>6, <2>1, <3>5, <3>6, FamBy
  <2>5. CASE \E i \in DOMAIN ch : p_pid[ch[i]] # target /\ p_children[ch[i]] # <<>>
    <3>1. PICK i \in DOMAIN ch : p_pid[ch[i]] # target /\ p_children[ch[i]] # <<>>
      BY <2>5
    <3>2. PICK c \in Live : c = ch[i] /\ c \in ToSet(ch)
      BY <1>3, <1>4
    <3>3. p_parent[c] = 1
      BY <1>2, <1>3, <1>4, <2>1, <3>2, DoomedFacts
    <3>4. c \in Roots
      BY <2>1, <3>1, <3>2, <3>3, HuntStays
    <3> QED BY <2>2, <3>1, <3>2, <3>4
  <2> QED BY <1>5, <2>3, <2>4, <2>5
<1> QED BY <1>7, <1>8

LEMMA FamEnds ==
  ASSUME SInv, FInv, killChild \/ reap, UNCHANGED <<run, mem>>
  PROVE  FInv'
<1> SUFFICES ASSUME phase' # "wild" PROVE FInv'
  BY DEF FInv
<1>1. phase = "kill" /\ UNCHANGED p_pid /\ phase' # "search" /\ TInv
  BY DEF killChild, reap, treeVars, unchangedBySearch, SInv
<1>2. ~Hunt /\ ~Hunt'
  BY <1>1 DEF Hunt
<1>3. Standing' = Standing
  BY <1>1, KillStands, ReapStands
<1>4. ASSUME NEW p \in Standing, p = Me PROVE Me' = p
  <2>1. CASE killChild
    BY <1>4, <2>1 DEF killChild, unchangedBySearch, Me
  <2>2. CASE reap
    <3> SUFFICES ASSUME Me' # Me PROVE FALSE
      BY <1>4
    <3>1. Len(stack) = 1 /\ target = 0
      BY <2>2 DEF reap, Me
    <3>2. Last(stack) = stack[1] /\ stack[1] = Me
      BY <1>1, <3>1 DEF Last, TInv, Kills, Me
    <3>3. Last(stack) \in Doomed
      BY <1>1, <2>2, ReapStands
    <3> QED BY <1>4, <3>2, <3>3 DEF Standing
  <2> QED BY <2>1, <2>2
<1> QED BY <1>1, <1>2, <1>3, <1>4, FamBy

LEMMA FamWakes ==
  ASSUME SInv, FInv, wake, UNCHANGED <<run, mem>>
  PROVE  FInv'
<1>1. /\ phase = "semop" /\ phase' = "semop" /\ UNCHANGED <<p_pid, g_current_process>>
      /\ UNCHANGED <<pcbFree, p_children, stack>>
  BY DEF wake, treeVars, killVars
<1>2. Standing' = Standing /\ ~Hunt /\ ~Hunt' /\ Me' = Me
  BY <1>1, StillStands DEF Hunt, Me
<1> QED BY <1>1, <1>2, FamBy

-----------------------------------------------------------------------------
\* A call that brings nobody forth and ends nobody.
Stay == /\ UNCHANGED <<pcbFree, p_children, stack, p_pid>> /\ phase' # "search"

\* Where the running process m goes on: at the next call or at the same.
FamOn(m, q) ==
  /\ q.fun = run[m].fun /\ q.at \in {run[m].at, run[m].at + 1}
  /\ q.at = run[m].at => q.a1 = run[m].a1

LEMMA FamRuns ==
  ASSUME SInv, FInv, phase = "user", NEW m \in Proc, m = Me, ~Done(m),
         NEW q, run' = [run EXCEPT ![m] = q], FamOn(m, q), Stay, mem'.p8pid = mem.p8pid,
         run[m].at = q.at \/ Prints(run[m]) \/ instr # Store("p8pid"),
         run[m].at = q.at \/ Prints(run[m]) \/ instr.op # "kill",
         run[m].at = q.at \/ Prints(run[m]) \/ (instr.op = "getPid" => q.a1 = p_pid[m]),
         Me' = Me \/ Prints(run[m]) \/ instr.op = "clock" \/ (instr.op = "semop" /\ instr.n < 0)
  PROVE  FInv'
<1> DEFINE r == run[m]
<1>1. /\ FamOK /\ Standing = Live /\ m \in Live /\ r \in RunType /\ Fits(r) /\ RunInv
      /\ Live \subseteq Proc /\ Sync(View)
  BY FamFacts, RunsFacts
<1>2. /\ r.at \in Nat /\ r.at \in 1 .. Len(Code[r.fun]) /\ Len(Code[r.fun]) \in Nat
      /\ r.fun \in Functions
      /\ Prints(r) <=> r.at \in Loud[r.fun]
      /\ ~Prints(r) => instr = Code[r.fun][r.at]
  <2>1. /\ r.fun \in Functions /\ r.at \in 1 .. Len(Code[r.fun])
        /\ Prints(r) <=> r.at \in Loud[r.fun]
        /\ ~Prints(r) => instr = Code[r.fun][r.at]
    BY <1>1, InstrIs DEF RunInv
  <2> QED BY <1>1, <2>1, Text DEF RunType
<1>3. Standing' \subseteq Live
  BY <1>1, StillStands DEF Stay
<1>4. ASSUME q.fun = "p8root"
      PROVE  r.fun = "p8root" /\ (q.at = 2 => q.a1 = p_pid[m]) /\ (q.at > 2 => mem'.p8pid = p_pid[m])
  <2>1. r.fun = "p8root" /\ m \in Roots
    BY <1>1, <1>4 DEF FamOn, Roots
  <2>2. CASE q.at = r.at
    BY <1>1, <2>1, <2>2 DEF FamOn, FamOK, RootPid
  <2>3. CASE q.at = r.at + 1
    <3>1. r.at = 1 \/ r.at = 2 => ~Prints(r)
      BY <1>2, <2>1 DEF Loud
    <3>2. r.at = 1 => instr = GetPid
      BY <1>2, <2>1, <3>1, FamText
    <3>3. r.at = 2 => instr = Store("p8pid")
      BY <1>2, <2>1, <3>1, FamText
    <3>4. r.at # 2
      BY <1>2, <2>3, <3>1, <3>3
    <3>5. r.at = 1 => q.a1 = p_pid[m]
      BY <1>2, <2>3, <3>1, <3>2 DEF GetPid
    <3> QED BY <1>1, <1>2, <2>1, <2>3, <3>4, <3>5 DEF FamOK, RootPid
  <2> QED BY <2>2, <2>3, <1>1 DEF FamOn
<1>5. ASSUME q.fun = "p5", q.at > 14 PROVE Me' = m
  <2>1. r.fun = "p5" /\ r.at > 13
    BY <1>2, <1>5 DEF FamOn
  <2>2. ~Prints(r) /\ r.at \in 14 .. 16
    BY <1>2, <2>1, LensOf DEF Loud
  <2>3. instr \in {V("endp5", 1), SpecHdl("pgm")}
    BY <1>2, <2>1, <2>2, FamText
  <2>4. instr.op # "clock" /\ ~(instr.op = "semop" /\ instr.n < 0)
    BY <2>3 DEF V, SpecHdl
  <2> QED BY <2>2, <2>4
<1>6. ASSUME m = 1, r.at \in 28 .. 31 PROVE q.at \in 28 .. 31
  <2>1. r.fun = "test"
    <3>1. View.fun[1] = "test"
      BY <1>1, <1>6, ViewIs DEF Sync, Tree
    <3> QED BY <1>6, <3>1, ViewIs
  <2>2. ~Prints(r)
    BY <1>2, <1>6, <2>1 DEF Loud
  <2>3. r.at = 31 => instr.op = "kill"
    BY <1>2, <2>1, <2>2, FamText DEF Kill
  <2>4. r.at = 31 => q.at = r.at
    BY <2>2, <2>3
  <2>5. q.at \in {r.at, r.at + 1} /\ r.at \in Nat
    BY <1>2 DEF FamOn
  <2> HIDE DEF r
  <2> QED BY <1>6, <2>4, <2>5
<1>7. ~Hunt'
  BY DEF Stay, Hunt
<1> HIDE DEF r
<1> QED BY <1>3, <1>4, <1>5, <1>6, <1>7, FamMoves DEF Stay, r

\* What the running process is after a call.
LEMMA FamNext ==
  ASSUME SInv, phase = "user", NEW m \in Proc, m = Me, ~Done(m)
  PROVE  LET a == After(run[m]) IN
         /\ FamOn(m, a) /\ a \in RunType /\ run[m].at \in Nat
         /\ ~Prints(run[m]) => a.at = run[m].at + 1
         /\ \A v \in Int : LET q == [a EXCEPT !.a1 = v] IN
                           q.fun = run[m].fun /\ q.at = a.at /\ q.a1 = v
<1> DEFINE r == run[m]
           a == After(r)
<1>1. r \in RunType /\ Fits(r) /\ ~Past(r)
  BY RunsFacts DEF Done
<1>2. /\ a \in RunType /\ a.fun = r.fun /\ a.at \in {r.at, r.at + 1}
      /\ ~Prints(r) => a.at = r.at + 1
  BY <1>1, AfterIs
<1>3. a.a1 = r.a1
  BY <1>1, Zenon DEF After, RunType
<1>4. ASSUME NEW v \in Int
      PROVE  [a EXCEPT !.a1 = v].fun = r.fun /\ [a EXCEPT !.a1 = v].at = a.at /\ [a EXCEPT !.a1 = v].a1 = v
  <2> HIDE DEF a
  <2> QED BY <1>2 DEF RunType
<1>5. r.at \in Nat
  BY <1>1 DEF RunType
<1> QED BY <1>2, <1>3, <1>4, <1>5 DEF FamOn

LEMMA FamOnward ==
  ASSUME SInv, FInv, phase = "user", NEW m \in Proc, m = Me, ~Done(m),
         run' = [run EXCEPT ![m] = After(run[m])] \/ UNCHANGED run,
         Stay, mem'.p8pid = mem.p8pid,
         Prints(run[m]) \/ instr.op \notin {"getPid", "kill"},
         Prints(run[m]) \/ instr # Store("p8pid"),
         Me' = Me \/ Prints(run[m]) \/ instr.op = "clock" \/ (instr.op = "semop" /\ instr.n < 0)
  PROVE  FInv'
<1>1. CASE run' = [run EXCEPT ![m] = After(run[m])]
  <2>1. PICK q : q = After(run[m])
    OBVIOUS
  <2>2. FamOn(m, q)
    BY <2>1, FamNext
  <2>3. run' = [run EXCEPT ![m] = q]
    BY <1>1, <2>1
  <2> QED BY <2>2, <2>3, FamRuns
<1>2. CASE UNCHANGED run
  <2>1. PICK q : q = run[m]
    OBVIOUS
  <2>2. run \in [Proc -> RunType]
    BY RunsFacts DEF RunInv, RunTypes
  <2>3. run' = [run EXCEPT ![m] = q]
    BY <1>2, <2>1, <2>2
  <2>4. FamOn(m, q) /\ run[m].at = q.at
    BY <2>1 DEF FamOn
  <2> QED BY <2>3, <2>4, FamRuns
<1> QED BY <1>1, <1>2

LEMMA FamSemop ==
  ASSUME SInv, FInv, phase = "user", NEW m \in Proc, m = Me, ~Done(m), semopCall
  PROVE  FInv'
<1>1. instr.op = "semop" /\ semop(S(instr.arg), instr.n) /\ Return /\ UNCHANGED mem
  BY DEF semopCall, Runs
<1>2. Stay
  BY <1>1 DEF semop, P, startV, treeVars, killVars, Stay
<1>3. Me' = Me \/ instr.n < 0
  BY <1>1 DEF semop, Me
<1>4. run' = [run EXCEPT ![m] = After(run[m])] \/ UNCHANGED run
  BY <1>1 DEF Return, Advance, Goto
<1>5. instr # Store("p8pid") /\ instr.op \notin {"getPid", "kill"}
  BY <1>1 DEF Store
<1> QED BY <1>1, <1>2, <1>3, <1>4, <1>5, FamOnward

LEMMA FamClock ==
  ASSUME SInv, FInv, phase = "user", NEW m \in Proc, m = Me, ~Done(m), clockCall
  PROVE  FInv'
<1>1. instr.op = "clock" /\ waitClock /\ Return /\ UNCHANGED mem
  BY DEF clockCall, Runs
<1>2. Stay
  BY <1>1 DEF waitClock, P, treeVars, killVars, Stay
<1>3. run' = [run EXCEPT ![m] = After(run[m])] \/ UNCHANGED run
  BY <1>1 DEF Return, Advance, Goto
<1>4. instr # Store("p8pid") /\ instr.op \notin {"getPid", "kill"}
  BY <1>1 DEF Store
<1> QED BY <1>1, <1>2, <1>3, <1>4, FamOnward

LEMMA FamIo ==
  ASSUME SInv, FInv, phase = "user", NEW m \in Proc, m = Me, ~Done(m), ioCall
  PROVE  FInv'
<1>1. instr.op = "io" /\ Return /\ UNCHANGED mem
  BY DEF ioCall, Runs
<1>2. PICK u \in Unit : ioDevop(u)
  BY DEF ioCall
<1>3. Stay
  BY <1>2 DEF ioDevop, P, treeVars, killVars, Stay
<1>4. run' = [run EXCEPT ![m] = After(run[m])] \/ UNCHANGED run
  BY <1>1 DEF Return, Advance, Goto
<1>5. Prints(run[m])
  <2> SUFFICES ASSUME ~Prints(run[m]) PROVE FALSE
    OBVIOUS
  <2>1. Legal(run[m].fun, run[m].at, instr)
    BY CodeFacts
  <2> QED BY <1>1, <2>1 DEF Legal, DataAt
<1> QED BY <1>1, <1>3, <1>4, <1>5, FamOnward

\* What processes do to variables, and what they compare.
LEMMA FamPlain ==
  ASSUME SInv, FInv, phase = "user", NEW m \in Proc, m = Me, ~Done(m),
         ensure \/ incr \/ reset
  PROVE  FInv'
<1>1. instr.op \in {"ensure", "incr", "reset"}
  BY DEF ensure, incr, reset, Runs
<1>2. run \in [Proc -> RunType] /\ mem \in [MemNames -> Int]
  BY RunsFacts DEF RunInv, RunTypes
<1>3. Stay /\ Me' = Me
  BY DEF ensure, incr, reset, vars, treeVars, killVars, Stay, Me
<1>4. mem'.p8pid = mem.p8pid
  <2>1. CASE ensure \/ reset
    BY <2>1 DEF ensure, reset
  <2>2. CASE incr
    <3>1. instr.op = "incr" /\ mem' = [mem EXCEPT ![instr.arg] = @ + 1]
      BY <2>2 DEF incr, Runs
    <3>2. ~Prints(run[m])
      <4> SUFFICES ASSUME Prints(run[m]) PROVE FALSE
        OBVIOUS
      <4>1. run[m].in \in 1 .. Len(print) /\ Len(print) \in Nat
        BY PrintFacts
      <4>2. run[m].in = 1 \/ run[m].in = Len(print) \/ run[m].in \in 2 .. Len(print) - 1
        BY <4>1
      <4>3. instr \in {W("term_mut", 1), V("term_mut", 1), IoDevop, Status}
        BY <4>2, RunsFacts, InstrIs DEF RunInv
      <4> QED BY <3>1, <4>3 DEF W, V, IoDevop, Status
    <3>3. Legal(run[m].fun, run[m].at, instr)
      BY <3>2, CodeFacts
    <3>4. instr.arg \in MemNames \ {"p8pid"}
      BY <3>1, <3>3 DEF Legal, DataAt, MemNames
    <3> QED BY <1>2, <3>1, <3>4 DEF MemNames
  <2> QED BY <2>1, <2>2
<1>5. instr # Store("p8pid") /\ instr.op \notin {"getPid", "kill"}
  BY <1>1 DEF Store
<1>6. CASE run' = [run EXCEPT ![m] = After(run[m])]
  BY <1>3, <1>4, <1>5, <1>6, FamOnward
<1>7. CASE run' = [run EXCEPT ![m] = [run[m] EXCEPT !.failed = TRUE]]
  <2>1. PICK q : q = [run[m] EXCEPT !.failed = TRUE]
    OBVIOUS
  <2>2. q.fun = run[m].fun /\ q.at = run[m].at /\ q.a1 = run[m].a1
    BY <1>2, <2>1 DEF RunType
  <2>3. FamOn(m, q)
    BY <2>2 DEF FamOn
  <2> QED BY <1>3, <1>4, <1>7, <2>1, <2>2, <2>3, FamRuns
<1> QED BY <1>6, <1>7 DEF ensure, incr, reset, Advance, Fail, Goto

\* A call whose result the process is given.
LEMMA FamGiven ==
  ASSUME SInv, FInv, phase = "user", NEW m \in Proc, m = Me, ~Done(m), ~Prints(run[m]),
         UNCHANGED <<mem, vars>>, NEW v \in Int, Result(v), instr.op \notin {"kill", "store"},
         instr.op = "getPid" => v = p_pid[m]
  PROVE  FInv'
<1>1. PICK q : q = [After(run[m]) EXCEPT !.a1 = v]
  OBVIOUS
<1>2. run' = [run EXCEPT ![m] = q]
  BY <1>1 DEF Result, Goto
<1>3. q.fun = run[m].fun /\ q.at = run[m].at + 1 /\ q.a1 = v /\ run[m].at \in Nat
  BY <1>1, FamNext
<1>4. FamOn(m, q)
  BY <1>3 DEF FamOn
<1>5. Stay /\ Me' = Me /\ instr # Store("p8pid")
  BY DEF vars, treeVars, killVars, Stay, Me, Store
<1> QED BY <1>2, <1>3, <1>4, <1>5, FamRuns

LEMMA MainIs ==
  ASSUME SInv, phase = "user"
  PROVE  run[1].fun = "test" /\ 1 \in Live /\ 1 \in Proc
<1>1. Standing = Live /\ Sync(View) /\ 1 \in Live
  BY RunsFacts
<1>2. View.fun[1] = "test"
  BY <1>1, ViewIs DEF Sync, Tree
<1> QED BY <1>1, <1>2, ViewIs, NotNull

LEMMA FamStore ==
  ASSUME SInv, FInv, phase = "user", NEW m \in Proc, m = Me, ~Done(m), ~Prints(run[m]),
         store
  PROVE  FInv'
<1> DEFINE r == run[m]
<1>1. /\ instr.op = "store" /\ UNCHANGED vars /\ run' = [run EXCEPT ![m] = After(r)]
      /\ mem' = [mem EXCEPT ![instr.arg] = r.a1]
  BY DEF store, Runs, Advance, Goto
<1>2. /\ Legal(r.fun, r.at, instr) /\ mem \in [MemNames -> Int] /\ r.fun \in Functions
  BY CodeFacts
<1>3. Stay /\ Me' = Me
  BY <1>1 DEF vars, treeVars, killVars, Stay, Me
<1>4. instr.arg \in MemNames /\ (instr.arg = "p8pid" => r.fun = "p8root" /\ r.at = 2)
  BY <1>1, <1>2 DEF Legal, DataAt, Stores, MemNames
<1>5. CASE instr.arg # "p8pid"
  <2>1. mem'.p8pid = mem.p8pid
    BY <1>1, <1>2, <1>4, <1>5 DEF MemNames
  <2>2. instr # Store("p8pid")
    BY <1>5 DEF Store
  <2> QED BY <1>1, <1>3, <2>1, <2>2, FamOnward
<1>6. CASE instr.arg = "p8pid"
  <2>1. r.fun = "p8root" /\ r.at = 2 /\ mem'.p8pid = r.a1
    BY <1>1, <1>2, <1>4, <1>6 DEF MemNames
  <2>2. FamOK /\ m \in Roots
    BY <2>1, FamFacts, RunsFacts DEF Roots
  <2>3. mem'.p8pid = p_pid[m]
    BY <2>1, <2>2 DEF FamOK, RootPid
  <2>4. PICK q : q = After(r)
    OBVIOUS
  <2>5. q.fun = "p8root" /\ q.at = 3
    BY <2>1, <2>4, FamNext DEF FamOn
  <2>6. m # 1
    BY <2>1, MainIs
  <2>7. Standing' \subseteq Live
    BY <1>3, StillStands DEF Stay, Standing
  <2>8. ~Hunt' /\ UNCHANGED p_pid
    BY <1>3 DEF Stay, Hunt
  <2>9. run' = [run EXCEPT ![m] = q]
    BY <1>1, <2>4
  <2>10. q.fun = "p8root" => /\ run[m].fun = "p8root"
                             /\ q.at = 2 => q.a1 = p_pid[m]
                             /\ q.at > 2 => mem'.p8pid = p_pid[m]
    BY <2>1, <2>3, <2>5
  <2>11. run[m].fun # "p8root" => mem'.p8pid = mem.p8pid
    BY <2>1
  <2>12. q.fun = "p5" /\ q.at > 14 => Me' = m \/ m \notin Standing'
    BY <1>3
  <2>13. m = 1 => \/ run[m].at \in 28 .. 31 => q.at \in 28 .. 31
                  \/ Hunt'
                  \/ \A p \in Standing' : run'[p].fun # "p8root"
    BY <2>6
  <2>14. Hunt' => cursor' = 1 /\ target' = mem'.p8pid
    BY <2>8
  <2> HIDE DEF r
  <2> QED BY <2>7, <2>8, <2>9, <2>10, <2>11, <2>12, <2>13, <2>14, FamMoves
<1> QED BY <1>5, <1>6

\* A process that goes on elsewhere.
LEMMA FamJump ==
  ASSUME SInv, FInv, phase = "user", NEW m \in Proc, m = Me, ~Done(m), ~Prints(run[m]),
         raise \/ exitTrap \/ branch \/ until \/ again \/ anotherPass, UNCHANGED vars
  PROVE  FInv'
<1> DEFINE r == run[m]
<1>1. UNCHANGED mem /\ instr.op \in {"raise", "exitTrap", "branch", "until", "again"}
  BY DEF raise, exitTrap, branch, until, again, anotherPass, Runs
<1>2. /\ r \in RunType /\ Fits(r) /\ r.fun \in Functions /\ Legal(r.fun, r.at, instr)
      /\ r.at \in Nat
  BY CodeFacts DEF RunType
<1>3. Stay /\ Me' = Me /\ UNCHANGED p_pid /\ ~Hunt'
  BY DEF vars, treeVars, killVars, Stay, Me, Hunt
<1>4. \E q : /\ run' = [run EXCEPT ![m] = q] /\ q.fun # "p8root"
             /\ q.fun = "p5" => q.at \in {3, 5}
             /\ r.fun = "test" => r.at \in {33, 36}
  <2>1. CASE raise
    <3>1. instr.op = "raise" /\ phase' = "user"
      BY <2>1 DEF raise, Runs, vars
    <3>2. /\ instr.arg \in r.hdl
          /\ run' = [run EXCEPT ![m] = [r EXCEPT !.fun = instr.to, !.at = 1,
                                                 !.back = <<r.fun, r.at + 1>>]]
      BY <2>1, <3>1 DEF raise, Goto, here, terminateSelf, enter
    <3>3. r.fun \notin {"test", "p6", "p7"}
      BY <1>2, <3>2 DEF Fits
    <3>4. <<r.fun, r.at, instr.to>> \in Raises
      BY <1>2, <3>1, <3>3 DEF Legal, JumpAt
    <3>5. instr.to \notin {"p8root", "p5"}
      BY <3>4 DEF Raises
    <3>6. [r EXCEPT !.fun = instr.to, !.at = 1, !.back = <<r.fun, r.at + 1>>].fun = instr.to
      BY <1>2 DEF RunType
    <3> QED BY <3>2, <3>3, <3>5, <3>6
  <2>2. CASE exitTrap
    <3>1. /\ instr.op = "exitTrap"
          /\ run' = [run EXCEPT ![m] = [r EXCEPT !.fun = r.back[1], !.at = r.back[2],
                                                 !.back = <<>>]]
      BY <2>2 DEF exitTrap, Runs, Goto
    <3>2. r.fun \in {"p5sys_user", "p5sys_kernel"}
      BY <1>2, <3>1 DEF Legal, JumpAt
    <3>3. r.back[1] \in {"p5c_user", "p5c_kernel"}
      BY <1>2, <3>2 DEF Fits
    <3>4. [r EXCEPT !.fun = r.back[1], !.at = r.back[2], !.back = <<>>].fun = r.back[1]
      BY <1>2 DEF RunType
    <3> QED BY <3>1, <3>2, <3>3, <3>4
  <2>3. CASE branch
    <3>1. /\ instr.op = "branch"
          /\ run' = [run EXCEPT ![m] =
                   [r EXCEPT !.at = 1,
                      !.fun = IF mem[instr.arg] = 0 THEN instr.to ELSE instr.else]]
      BY <2>3 DEF branch, Runs, Goto
    <3>2. r.fun = "p5c" /\ instr = Branch("p5dmode", "p5c_user", "p5c_kernel")
      BY <1>2, <3>1 DEF Legal, JumpAt
    <3>3. PICK g : g = IF mem[instr.arg] = 0 THEN instr.to ELSE instr.else
      OBVIOUS
    <3>4. g \in {"p5c_user", "p5c_kernel"}
      BY <3>2, <3>3 DEF Branch
    <3>5. [r EXCEPT !.at = 1, !.fun = g].fun = g
      BY <1>2 DEF RunType
    <3> QED BY <3>1, <3>2, <3>3, <3>4, <3>5
  <2>4. CASE until \/ again \/ anotherPass
    <3>1. PICK k : /\ run' = [run EXCEPT ![m] = [r EXCEPT !.at = k]]
                   /\ ((until \/ anotherPass) /\ k \in {r.at + 1, r.at - 1}) \/ again
      BY <2>4 DEF until, again, anotherPass, Goto
    <3>2. [r EXCEPT !.at = k].fun = r.fun /\ [r EXCEPT !.at = k].at = k
      BY <1>2 DEF RunType
    <3>3. CASE until \/ anotherPass
      <4>1. instr.op = "until" /\ k \in {r.at + 1, r.at - 1}
        <5>1. instr.op = "until"
          BY <3>3 DEF until, anotherPass, Runs
        <5>2. ~again
          BY <5>1 DEF again, Runs
        <5> QED BY <3>1, <5>1, <5>2
      <4>2. <<r.fun, r.at>> \in {<<"test", 33>>, <<"p3", 4>>, <<"p5", 4>>}
        BY <1>2, <4>1 DEF Legal, JumpAt
      <4>3. \/ r.fun = "test" /\ r.at = 33
            \/ r.fun = "p3"
            \/ r.fun = "p5" /\ k \in {3, 5}
        BY <4>1, <4>2
      <4>4. PICK q : q = [r EXCEPT !.at = k]
        OBVIOUS
      <4>5. run' = [run EXCEPT ![m] = q] /\ q.fun = r.fun /\ q.at = k
        BY <3>1, <3>2, <4>4
      <4> QED BY <4>3, <4>5
    <3>4. CASE again
      <4>1. instr.op = "again"
        BY <3>4 DEF again, Runs
      <4>2. r.fun = "test" /\ r.at = 36
        BY <1>2, <4>1 DEF Legal, JumpAt
      <4> QED BY <3>1, <3>2, <4>2
    <3> QED BY <2>4, <3>3, <3>4
  <2> QED BY <2>1, <2>2, <2>3, <2>4
<1>5. PICK q : /\ run' = [run EXCEPT ![m] = q] /\ q.fun # "p8root"
               /\ q.fun = "p5" => q.at \in {3, 5}
               /\ r.fun = "test" => r.at \in {33, 36}
  BY <1>4
<1>6. m = 1 => r.at \notin 28 .. 31
  BY <1>5, MainIs
<1>7. Standing' \subseteq Live
  BY <1>3, StillStands DEF Stay, Standing
<1>8. ~(q.fun = "p5" /\ q.at > 14)
  BY <1>5
<1>9. mem' = mem
  BY <1>1
<1> HIDE DEF r
<1> QED BY <1>3, <1>5, <1>6, <1>7, <1>8, <1>9, FamMoves DEF r

\* A process that is terminated goes on nowhere.
LEMMA FamLeaves ==
  ASSUME SInv, SInv', FInv, phase = "user", NEW m \in Proc, m = Me, ~Done(m), ~Prints(run[m]),
         enter(m), unchangedBySearch, run' = [run EXCEPT ![m] = After(run[m])], UNCHANGED mem,
         run[m].fun = "p8root" => run[m].at > 2
  PROVE  FInv'
<1>1. /\ UNCHANGED <<pcbFree, p_pid>> /\ phase' = "kill"
  BY DEF enter, unchangedBySearch
<1>2. TInv /\ m \in Live /\ Standing = Live /\ Live \subseteq Proc /\ FamOK
  BY RunsFacts, FamFacts
<1>3. Live' = Live /\ m \in Doomed' /\ Standing' \subseteq Live
  <2>1. PICK c \in Live : c = m
    BY <1>2
  <2>2. enter(c)
    BY <2>1
  <2>3. Live' = Live /\ c \in Doomed'
    BY <1>1, <1>2, <2>2, EnterStands
  <2> QED BY <2>1, <2>3 DEF Standing
<1>4. PICK q : q = After(run[m])
  OBVIOUS
<1>5. q.fun = run[m].fun /\ q.at = run[m].at + 1 /\ run[m].at \in Nat
  BY <1>4, FamNext DEF FamOn
<1>6. q.fun = "p8root" => /\ run[m].fun = "p8root"
                          /\ q.at = 2 => q.a1 = p_pid[m]
                          /\ q.at > 2 => mem'.p8pid = p_pid[m]
  <2> SUFFICES ASSUME q.fun = "p8root" PROVE q.at # 2 /\ mem'.p8pid = p_pid[m]
    BY <1>5
  <2>1. run[m].fun = "p8root" /\ run[m].at > 2
    BY <1>5
  <2>2. m \in Roots
    BY <1>2, <2>1 DEF Roots
  <2> QED BY <1>2, <1>5, <2>1, <2>2 DEF FamOK, RootPid
<1>7. m \notin Standing'
  BY <1>3 DEF Standing
<1>8. m = 1 => \/ run[m].at \in 28 .. 31 => q.at \in 28 .. 31
               \/ Hunt'
               \/ \A p \in Standing' : run'[p].fun # "p8root"
  <2>1. Stands'
    BY <1>1 DEF SInv
  <2>2. m = 1 => Standing' = {}
    BY <1>7, <2>1 DEF Stands
  <2> QED BY <2>2
<1>9. Hunt' => cursor' = 1 /\ target' = mem'.p8pid
  BY <1>1 DEF Hunt
<1>10. run' = [run EXCEPT ![m] = q] /\ UNCHANGED p_pid
  BY <1>1, <1>4
<1>11. run[m].fun # "p8root" => mem'.p8pid = mem.p8pid
  OBVIOUS
<1>12. q.fun = "p5" /\ q.at > 14 => Me' = m \/ m \notin Standing'
  BY <1>7
<1> QED BY <1>3, <1>6, <1>8, <1>9, <1>10, <1>11, <1>12, FamMoves

LEMMA FamQuit ==
  ASSUME SInv, SInv', FInv, phase = "user", NEW m \in Proc, m = Me, ~Done(m), ~Prints(run[m]),
         instr.op \in {"exit", "spec", "raise"}, terminateSelf, Advance, UNCHANGED mem
  PROVE  FInv'
<1>1. Legal(run[m].fun, run[m].at, instr)
  BY CodeFacts
<1>2. run[m].fun \notin Family
  BY <1>1 DEF Legal, EndAt
<1>3. enter(m) /\ unchangedBySearch /\ run' = [run EXCEPT ![m] = After(run[m])]
  BY DEF terminateSelf, Advance, Goto, Me
<1>4. run[m].fun = "p8root" => run[m].at > 2
  BY <1>2 DEF Family
<1> QED BY <1>3, <1>4, FamLeaves

\* The handlers of exceptions.
LEMMA FamSpec ==
  ASSUME SInv, FInv, phase = "user", NEW m \in Proc, m = Me, ~Done(m), ~Prints(run[m]),
         specCall, UNCHANGED vars
  PROVE  FInv'
<1> DEFINE r == run[m]
<1>1. instr.op = "spec" /\ UNCHANGED mem /\ phase' = "user"
  BY DEF specCall, Runs, vars
<1>2. run' = [run EXCEPT ![m] = [r EXCEPT !.at = r.at + 1, !.hdl = @ \cup {instr.arg}]]
  BY <1>1 DEF specCall, Goto, here, terminateSelf, enter
<1>3. PICK q : q = [r EXCEPT !.at = r.at + 1, !.hdl = @ \cup {instr.arg}]
  OBVIOUS
<1>4. r \in RunType /\ r.at \in Nat
  BY CodeFacts DEF RunType
<1>5. q.fun = r.fun /\ q.at = r.at + 1
  <2>1. PICK h : h = r.hdl \cup {instr.arg}
    OBVIOUS
  <2>2. q = [r EXCEPT !.at = r.at + 1, !.hdl = h]
    BY <1>3, <2>1
  <2> QED BY <1>4, <2>2 DEF RunType
<1>6. FamOn(m, q)
  BY <1>4, <1>5 DEF FamOn
<1>7. Stay /\ Me' = Me /\ instr # Store("p8pid") /\ instr.op \notin {"kill", "getPid"}
  BY <1>1 DEF vars, treeVars, killVars, Stay, Me, Store
<1>8. run' = [run EXCEPT ![m] = q] /\ mem'.p8pid = mem.p8pid
  BY <1>1, <1>2, <1>3
<1> QED BY <1>6, <1>7, <1>8, FamRuns

\* SYS2 with a pid: test looks for its p8root, or there is none.
LEMMA FamKill ==
  ASSUME SInv, SInv', FInv, phase = "user", NEW m \in Proc, m = Me, ~Done(m), ~Prints(run[m]),
         killCall
  PROVE  FInv'
<1> DEFINE r == run[m]
<1>1. /\ instr.op = "kill" /\ UNCHANGED mem /\ Legal(r.fun, r.at, instr)
      /\ run' = [run EXCEPT ![m] = After(r)] /\ r.fun \in Functions
  BY CodeFacts DEF killCall, Runs, Advance, Goto
<1>2. \/ r.fun = "test" /\ r.at = 31
      \/ r.fun = "p8root" /\ r.at \in 7 .. 10
  BY <1>1 DEF Legal, EndAt
<1>3. PICK pid : /\ pid = mem[instr.arg]
                 /\ \/ pid = 0 /\ terminateSelf
                    \/ terminateByPid(pid)
                    \/ pid # 0 /\ p_children[Me] = <<>> /\ UNCHANGED vars
  BY DEF killCall
<1>4. CASE terminateSelf
  <2>1. enter(m) /\ unchangedBySearch
    BY <1>4 DEF terminateSelf, Me
  <2>2. r.fun = "p8root" => r.at > 2
    BY <1>2
  <2> HIDE DEF r
  <2> QED BY <1>1, <2>1, <2>2, FamLeaves DEF r
<1>5. ASSUME UNCHANGED <<pcbFree, p_children, stack, p_pid>>,
             Hunt' => m = 1 /\ cursor' = 1 /\ target' = mem.p8pid,
             m = 1 => Hunt' \/ \A p \in Live : run'[p].fun # "p8root"
      PROVE  FInv'
  <2>1. PICK q : q = After(r)
    OBVIOUS
  <2>2. q.fun = r.fun /\ q.at = r.at + 1 /\ r.at \in Nat
    BY <2>1, FamNext DEF FamOn
  <2>3. run' = [run EXCEPT ![m] = q] /\ UNCHANGED p_pid
    BY <1>1, <1>5, <2>1
  <2>4. Standing' \subseteq Live
    BY <1>5, StillStands DEF Standing
  <2>5. q.fun = "p8root" => /\ run[m].fun = "p8root"
                            /\ q.at = 2 => q.a1 = p_pid[m]
                            /\ q.at > 2 => mem'.p8pid = p_pid[m]
    <3> SUFFICES ASSUME q.fun = "p8root" PROVE q.at # 2 /\ mem'.p8pid = p_pid[m]
      BY <2>2
    <3>1. r.fun = "p8root" /\ r.at > 2 /\ q.at > 7
      BY <1>2, <2>2
    <3>2. m \in Roots /\ FamOK
      BY <3>1, RunsFacts, FamFacts DEF Roots
    <3> QED BY <1>1, <3>1, <3>2 DEF FamOK, RootPid
  <2>6. run[m].fun # "p8root" => mem'.p8pid = mem.p8pid
    BY <1>1
  <2>7. q.fun = "p5" /\ q.at > 14 => Me' = m \/ m \notin Standing'
    BY <1>2, <2>2
  <2>8. m = 1 => \/ run[m].at \in 28 .. 31 => q.at \in 28 .. 31
                 \/ Hunt'
                 \/ \A p \in Standing' : run'[p].fun # "p8root"
    BY <1>5, <2>4
  <2>9. Hunt' => cursor' = 1 /\ target' = mem'.p8pid
    BY <1>1, <1>5
  <2> HIDE DEF r
  <2> QED BY <2>3, <2>4, <2>5, <2>6, <2>7, <2>8, <2>9, FamMoves
<1>6. CASE terminateByPid(pid)
  <2>1. /\ UNCHANGED <<pcbFree, p_children, stack, p_pid, g_current_process>>
        /\ phase' = "search" /\ cursor' = m /\ target' = pid
    BY <1>6 DEF terminateByPid, unchangedBySearch, Me
  <2>2. Hunt' <=> m = 1
    BY <2>1 DEF Hunt, Me
  <2>3. m = 1 => pid = mem.p8pid
    <3> SUFFICES ASSUME m = 1 PROVE pid = mem.p8pid
      OBVIOUS
    <3>1. r.fun = "test" /\ r.at = 31
      BY <1>2, MainIs
    <3>2. instr = Code["test"][31]
      BY <3>1, CodeFacts
    <3> QED BY <1>3, <3>2, FamText DEF Kill
  <2> QED BY <1>5, <2>1, <2>2, <2>3
<1>7. CASE p_children[Me] = <<>> /\ UNCHANGED vars
  <2>1. UNCHANGED <<pcbFree, p_children, stack, p_pid>> /\ ~Hunt'
    BY <1>7 DEF vars, treeVars, killVars, Hunt
  <2>2. ASSUME m = 1, NEW p \in Live, run'[p].fun = "p8root" PROVE FALSE
    <3>1. /\ TInv /\ Sync(View) /\ Standing = Live /\ Live \subseteq Proc
      BY RunsFacts
    <3>2. p # 1
      <4>1. After(r).fun = r.fun /\ run \in [Proc -> RunType]
        BY CodeFacts
      <4>2. run'[1].fun = "test"
        BY <1>1, <2>2, <4>1, MainIs
      <4> QED BY <2>2, <4>2
    <3>3. run[p].fun = "p8root" /\ p \in Proc
      <4>1. run \in [Proc -> RunType]
        BY CodeFacts
      <4> QED BY <1>1, <2>2, <3>1, <3>2, <4>1
    <3>4. p_parent[p] = 1
      <4>1. View.fun[p] = "p8root" /\ p \in View.live
        BY <2>2, <3>1, <3>3, ViewIs
      <4>2. View.par[p] = 1
        BY <3>1, <3>2, <4>1, ViewIs DEF Sync, Tree
      <4> QED BY <4>2, ViewIs
    <3>5. p \in ToSet(p_children[1])
      BY <3>1, <3>3, <3>4, DoomedFacts, NotNull
    <3>6. p_children[1] = <<>>
      BY <1>7, <2>2
    <3> QED BY <3>5, <3>6 DEF ToSet
  <2> QED BY <1>5, <2>1, <2>2
<1> QED BY <1>3, <1>4, <1>6, <1>7

\* SYS1: test brings forth a p8root when it has none.
LEMMA FamBirth ==
  ASSUME SInv, SInv', FInv, phase = "user", NEW m \in Proc, m = Me, ~Done(m), ~Prints(run[m]),
         createCall
  PROVE  FInv'
<1> DEFINE r == run[m]
<1>1. /\ instr.op = "create" /\ UNCHANGED mem /\ Legal(r.fun, r.at, instr)
      /\ run \in [Proc -> RunType] /\ r.at \in Nat
  BY CodeFacts DEF createCall, Runs, RunType
<1>2. PICK f : f = instr.arg
  OBVIOUS
<1>3. <<r.fun, r.at, f>> \in Makes
  BY <1>1, <1>2 DEF Legal, DataAt
<1>4. CASE Result(-1) /\ UNCHANGED vars
  <2>1. -1 \in Int /\ instr.op \notin {"kill", "store", "getPid"} /\ UNCHANGED <<mem, vars>>
    BY <1>1, <1>4
  <2> QED BY <1>4, <2>1, FamGiven
<1>5. CASE /\ createProcess
           /\ run' = [run EXCEPT ![Me] = [After(@) EXCEPT !.a1 = pid_selector],
                                 ![Head(pcbFree)] = Started(instr.arg)]
  <2>1. PICK n \in Proc : /\ n = Head(pcbFree) /\ n \notin Live /\ n # m /\ n # 1
                          /\ Live' = Live \cup {n} /\ UNCHANGED <<phase, stack>>
    BY <1>5, BirthFacts
  <2>2. /\ \A p \in Proc \ {n} : p_pid'[p] = p_pid[p]
        /\ UNCHANGED g_current_process
    <3>1. p_pid' = [p_pid EXCEPT ![n] = pid_selector] /\ UNCHANGED g_current_process
      BY <1>5, <2>1 DEF createProcess
    <3>2. p_pid \in [Proc -> Int]
      BY RunsFacts DEF TInv, TypeOK, ProcTypes
    <3> QED BY <3>1, <3>2
  <2>3. /\ FamOK /\ Standing = Live /\ m \in Live /\ Sync(View) /\ Live \subseteq Proc
        /\ stack = <<>> /\ ~Hunt /\ ~Hunt' /\ Me' = Me
    BY <2>1, <2>2, FamFacts, RunsFacts DEF Hunt, Me
  <2>4. Standing' = Live'
    <3>1. TInv' /\ stack' = <<>>
      BY <2>1, <2>3 DEF SInv
    <3> QED BY <3>1, NoneDoomedNext
  <2>5. PICK a, b : a = [After(r) EXCEPT !.a1 = pid_selector] /\ b = Started(f)
    OBVIOUS
  <2>6. a.fun = r.fun /\ a.at = r.at + 1
    <3>1. pid_selector \in Int
      BY RunsFacts DEF TInv, TypeOK, CountTypes, pid_selector
    <3> QED BY <2>5, <3>1, FamNext
  <2>7. b.fun = f /\ b.at = 1
    BY <2>5 DEF Started
  <2>8. run'[m] = a /\ run'[n] = b /\ \A p \in Proc \ {m, n} : run'[p] = run[p]
    <3>1. run' = [[run EXCEPT ![m] = a] EXCEPT ![n] = b]
      BY <1>1, <1>2, <1>5, <2>1, <2>5
    <3> QED BY <1>1, <2>1, <3>1
  <2>9. \A p \in Live : run'[p].fun = run[p].fun
    BY <2>1, <2>3, <2>6, <2>8
  <2>10. r.fun = "test" => m = 1
    <3>1. View.fun[m] = r.fun /\ m \in View.live
      BY <2>3, ViewIs
    <3> QED BY <2>3, <3>1 DEF Sync, Tree
  <2>11. m = 1 => r.at < 28
    BY <1>3, MainIs DEF Makes
  <2>12. f = "p8root" => m = 1 /\ r.at = 27
    BY <1>3, <2>10 DEF Makes
  <2>13. IF f = "p8root" THEN Roots = {} /\ Roots' = {n} ELSE Roots' = Roots
    <3>1. f = "p8root" => Roots = {}
      BY <2>3, <2>12 DEF FamOK, RootTime
    <3>2. Roots' = {p \in Live \cup {n} : run'[p].fun = "p8root"}
      BY <2>1, <2>4 DEF Roots
    <3>3. Roots = {p \in Live : run[p].fun = "p8root"}
      BY <2>3 DEF Roots
    <3> QED BY <2>7, <2>8, <2>9, <3>1, <3>2, <3>3
  <2>14. LastOfFive'
    <3> SUFFICES ASSUME NEW p \in Standing', run'[p].fun = "p5", run'[p].at > 14 PROVE p = Me'
      BY DEF LastOfFive, Me
    <3>1. p \in Live \cup {n}
      BY <2>1, <2>4
    <3> QED BY <2>3, <2>7, <2>8, <3>1 DEF FamOK, LastOfFive
  <2>15. OneRoot'
    BY <2>3, <2>13 DEF FamOK, OneRoot
  <2>16. RootTime'
    <3> SUFFICES ASSUME Roots' # {} PROVE run'[1].at \in 28 .. 31
      BY DEF RootTime
    <3>1. CASE f = "p8root"
      BY <2>6, <2>8, <2>12, <3>1
    <3>2. CASE f # "p8root"
      <4>1. run[1].at \in 28 .. 31
        BY <2>3, <2>13, <3>2 DEF FamOK, RootTime
      <4> QED BY <2>1, <2>8, <2>11, <4>1, NotNull
    <3> QED BY <3>1, <3>2
  <2>17. RootPid'
    <3> SUFFICES ASSUME NEW t \in Roots'
                 PROVE  /\ run'[t].at = 2 => run'[t].a1 = p_pid'[t]
                        /\ run'[t].at > 2 => mem'.p8pid = p_pid'[t]
      BY DEF RootPid
    <3>1. CASE t = n
      BY <2>7, <2>8, <3>1
    <3>2. CASE t # n
      <4>1. t \in Roots /\ t \in Live /\ t \in Proc /\ run[t].fun = "p8root"
        BY <2>3, <2>13, <3>2 DEF Roots
      <4>2. p_pid'[t] = p_pid[t] /\ mem' = mem
        BY <1>1, <2>2, <3>2, <4>1
      <4>3. CASE t = m
        <5>1. r.at > 2
          BY <1>3, <4>1, <4>3 DEF Makes
        <5> QED BY <1>1, <2>3, <2>6, <2>8, <4>1, <4>2, <4>3, <5>1 DEF FamOK, RootPid
      <4>4. CASE t # m
        BY <2>3, <2>8, <3>2, <4>1, <4>2, <4>4 DEF FamOK, RootPid
      <4> QED BY <4>3, <4>4
    <3> QED BY <3>1, <3>2
  <2>18. HuntOK'
    BY <2>3 DEF HuntOK
  <2> QED BY <2>14, <2>15, <2>16, <2>17, <2>18 DEF FInv, FamOK
<1> QED BY <1>4, <1>5 DEF createCall

LEMMA FamProgram ==
  ASSUME SInv, SInv', FInv, Program
  PROVE  FInv'
<1>1. phase = "user" /\ ~Done(Me)
  BY DEF Program, semopCall, createCall, killCall, exitCall, clockCall, ioCall, specCall, raise,
         exitTrap, getPid, store, incr, reset, ensure, branch, until, again, Runs
<1>2. PICK m \in Proc : m = Me
  BY <1>1, RunsFacts
<1>3. ~Done(m)
  BY <1>1, <1>2
<1>4. semopCall \/ clockCall \/ ioCall \/ ensure \/ incr \/ reset => FInv'
  BY <1>1, <1>2, <1>3, FamSemop, FamClock, FamIo, FamPlain
<1>5. CASE Prints(run[m])
  <2>1. instr \in {W("term_mut", 1), V("term_mut", 1), IoDevop, Status}
    <3>1. run[m].in \in 1 .. Len(print) /\ Len(print) \in Nat
      BY <1>1, <1>2, <1>3, <1>5, PrintFacts
    <3>2. run[m].in = 1 \/ run[m].in = Len(print) \/ run[m].in \in 2 .. Len(print) - 1
      BY <3>1
    <3> QED BY <1>1, <1>2, <1>3, <1>5, <3>2, RunsFacts, InstrIs DEF RunInv
  <2>2. instr.op \in {"semop", "io", "ensure"}
    BY <2>1 DEF W, V, IoDevop, Status
  <2>3. semopCall \/ ioCall \/ ensure
    BY <2>2 DEF Program, semopCall, createCall, killCall, exitCall, clockCall, ioCall, specCall,
                raise, exitTrap, getPid, store, incr, reset, ensure, branch, until, again, Runs
  <2> QED BY <1>4, <2>3
<1>6. CASE ~Prints(run[m])
  <2>1. CASE createCall
    BY <1>1, <1>2, <1>3, <1>6, <2>1, FamBirth
  <2>2. CASE killCall
    BY <1>1, <1>2, <1>3, <1>6, <2>2, FamKill
  <2>3. ASSUME terminateSelf /\ Advance /\ UNCHANGED mem /\ instr.op \in {"exit", "spec", "raise"}
        PROVE  FInv'
    BY <1>1, <1>2, <1>3, <1>6, <2>3, FamQuit
  <2>4. CASE exitCall
    BY <2>3, <2>4 DEF exitCall, Runs
  <2>5. CASE specCall
    <3>1. CASE UNCHANGED vars
      BY <1>1, <1>2, <1>3, <1>6, <2>5, <3>1, FamSpec
    <3> QED BY <2>3, <2>5, <3>1 DEF specCall, Runs
  <2>6. CASE raise \/ exitTrap \/ branch \/ until \/ again
    <3>1. CASE UNCHANGED vars
      BY <1>1, <1>2, <1>3, <1>6, <2>6, <3>1, FamJump
    <3>2. UNCHANGED vars \/ raise
      BY <2>6 DEF exitTrap, branch, until, again
    <3>3. CASE raise
      BY <2>3, <3>1, <3>3 DEF raise, Runs
    <3> QED BY <3>1, <3>2, <3>3
  <2>7. CASE getPid
    <3>1. PICK v : v = p_pid[m]
      OBVIOUS
    <3>2. v \in Int /\ Result(v) /\ UNCHANGED <<mem, vars>> /\ instr.op = "getPid"
      BY <1>1, <1>2, <2>7, <3>1, RunsFacts DEF getPid, Runs, TInv, TypeOK, ProcTypes
    <3>3. instr.op \notin {"kill", "store"}
      BY <3>2
    <3> QED BY <1>1, <1>2, <1>3, <1>6, <3>1, <3>2, <3>3, FamGiven
  <2>8. CASE store
    BY <1>1, <1>2, <1>3, <1>6, <2>8, FamStore
  <2> QED BY <1>4, <2>1, <2>2, <2>4, <2>5, <2>6, <2>7, <2>8 DEF Program
<1> QED BY <1>5, <1>6

-----------------------------------------------------------------------------
\* Every step of the test program, when p5 is not interrupted between telling
\* test that it is done and its end.
LEMMA FamStep ==
  ASSUME "p5" \notin Sliced, SInv, FInv, [TestNext]_pvars
  PROVE  FInv'
<1>1. SInv'
  BY TestStep
<1>2. TInv
  BY DEF SInv
<1>3. CASE Program
  BY <1>1, <1>3, FamProgram
<1>4. CASE switch
  <2>1. slice(TRUE) /\ UNCHANGED <<run, mem>> /\ run[Me].fun # "p5" /\ phase = "slice"
    BY <1>4 DEF switch, slice
  <2>2. Rests /\ ~childByPid
    BY <2>1 DEF Rests, childByPid
  <2> QED BY <2>1, <2>2, FamIdle
<1>5. CASE UNCHANGED <<run, mem, slices>> /\ (handlers \/ terminal \/ printed \/ stopped
              \/ \E expired \in BOOLEAN : timer(expired))
  <2>1. UNCHANGED <<run, mem>>
    BY <1>5
  <2>2. CASE childByPid
    BY <1>1, <2>1, <2>2, FamSearch
  <2>3. CASE killChild \/ reap
    BY <2>1, <2>3, FamEnds
  <2>4. CASE wake
    BY <2>1, <2>4, FamWakes
  <2>5. CASE ~(childByPid \/ killChild \/ reap \/ wake)
    <3>1. Rests /\ (g_current_process' # g_current_process => Me = NULL \/ run[Me].fun # "p5")
      <4>1. CASE scheduler
        <5>1. phase = "sched"
          BY <4>1 DEF scheduler
        <5>2. Me = NULL
          BY <1>2, <5>1 DEF TInv, TypeOK, PhaseTypes, Me
        <5> QED BY <4>1, <5>2 DEF Rests
      <4>2. CASE tick \/ endV
        BY <4>2 DEF Rests, tick, endV, Resumed
      <4>3. CASE slice(FALSE)
        <5>1. UNCHANGED g_current_process
          BY <4>3 DEF slice, Resumed
        <5> QED BY <4>3, <5>1 DEF Rests
      <4>4. CASE terminal \/ printed
        BY <4>4 DEF Rests, terminal, printed, handleDevices, deviceDone, Resumed
      <4>5. CASE stopped
        BY <4>5 DEF stopped, Rests, vars
      <4>6. CASE \E expired \in BOOLEAN : timer(expired)
        BY <4>6 DEF timer, Rests, handleTimer
      <4> QED BY <1>5, <2>5, <4>1, <4>2, <4>3, <4>4, <4>5, <4>6 DEF handlers
    <3> QED BY <2>1, <2>5, <3>1, FamIdle
  <2> QED BY <2>2, <2>3, <2>4, <2>5
<1>7. CASE anotherPass
  <2>1. PICK m \in Proc : m = Me
    BY <1>7, LoopPlace
  <2>2. UNCHANGED vars
    BY <1>7 DEF anotherPass
  <2> QED BY <1>7, <2>1, <2>2, LoopPlace, FamJump
<1>6. CASE UNCHANGED pvars
  <2>1. UNCHANGED vars /\ UNCHANGED <<run, mem>> /\ UNCHANGED g_current_process
    BY <1>6 DEF pvars, vars
  <2>2. Rests
    BY <2>1 DEF Rests
  <2>3. CASE childByPid
    BY <1>1, <2>1, <2>3, FamSearch
  <2> QED BY <2>1, <2>2, <2>3, FamIdle
<1> QED BY <1>3, <1>4, <1>5, <1>6, <1>7 DEF TestNext

LEMMA FamStart == TestInit => FInv
<1> SUFFICES ASSUME TestInit PROVE FamOK
  BY DEF FInv
<1>1. Standing = {1} /\ 1 \in Proc /\ phase = "sched"
  BY FirstLive, NotNull DEF TestInit, Init
<1>2. run[1].fun = "test"
  BY <1>1 DEF TestInit, Started
<1>3. Roots = {} /\ ~Hunt /\ LastOfFive
  BY <1>1, <1>2 DEF Roots, Hunt, LastOfFive
<1> QED BY <1>3 DEF FamOK, OneRoot, RootTime, RootPid, HuntOK

-----------------------------------------------------------------------------
(* Theorems *)

\* The invariant of the test program: the tree, the queues and the ASL of the
\* nucleus (TInv); what each process has read of its function and what it waits
\* for (RunTypes, RunOK, BlockedAt); whom a loop of childByPid or a recursion of
\* terminateProgeny is at (SearchOK, DoomOK); the lock of the terminal and the
\* terminal (LockKept, TermOK); and what the semaphores say about positions, of
\* those who are not about to be freed (Stands).
THEOREM TestInvariant == TestSpec => []SInv
<1>1. SInv /\ [TestNext]_pvars => SInv'
  BY TestStep
<1> QED BY TestStart, <1>1, PTL DEF TestSpec

\* term_mut is free and nobody holds it, or it is taken and one process does,
\* alive: print's P and V of p2test.c:144,166 are never parted by SYS2, although
\* test() kills p8root's family while it may be printing, p4 and p5 end with
\* children, and slices end.
THEOREM LockAlwaysKept == TestSpec => []LockKept
<1>1. SInv => LockKept
  BY DEF SInv
<1> QED BY <1>1, TestInvariant, PTL

\* An operation of the terminal (p2test.c:152) is issued when the terminal is
\* idle and nobody waits for it: the issuer is in print and holds the lock, so
\* that nobody else is.
THEOREM TerminalAlwaysShared == TestSpec => []TerminalShared
<1>1. SInv => TerminalShared
  <2> SUFFICES ASSUME SInv, Runs("io"), NEW u \in Unit
               PROVE  dev[u].st = "idle" /\ headBlocked(IoSem(u)) = NULL
    BY DEF TerminalShared
  <2>1. /\ phase = "user" /\ ~Done(Me) /\ instr.op = "io"
    BY DEF Runs
  <2>2. /\ RunInv /\ TInv /\ LockKept /\ TermOK /\ Me \in Proc /\ Me \in Live /\ Me \notin Blocked
    BY <2>1, RunsFacts
  <2>3. PICK m \in Proc : m = Me
    BY <2>2
  <2>4. Prints(run[m])
    <3> SUFFICES ASSUME ~Prints(run[m]) PROVE FALSE
      OBVIOUS
    <3>1. Legal(run[m].fun, run[m].at, instr)
      BY <2>1, <2>3, CodeFacts
    <3> QED BY <2>1, <3>1 DEF Legal, DataAt
  <2>5. run[m].in > 1
    <3>1. run[m].in = 1 => instr = W("term_mut", 1)
      BY <2>1, <2>2, <2>3, <2>4, InstrIs DEF RunInv
    <3>2. run[m].in \in Nat /\ run[m].in \in 1 .. Len(print) /\ Len(print) \in Nat
      BY <2>1, <2>3, <2>4, PrintFacts
    <3>3. W("term_mut", 1).op # "io"
      BY DEF W
    <3> QED BY <2>1, <3>1, <3>2, <3>3
  <2>6. m \in Holders
    BY <2>2, <2>3, <2>5 DEF Holders, Holding
  <2>7. Waiting(IoSem(u)) = {}
    <3> SUFFICES ASSUME NEW q \in Waiting(IoSem(u)) PROVE FALSE
      OBVIOUS
    <3>1. Holding(q) /\ q \in Proc /\ q \in Blocked
      BY <2>2, IoWaiter DEF Waiting
    <3>2. q \in Live
      BY <2>1, <2>2, <3>1, BlockedFacts
    <3>3. q \in Holders
      BY <3>1, <3>2 DEF Holders
    <3> QED BY <2>2, <2>3, <2>6, <3>1, <3>3, OneHolder
  <2>8. dev[u].st = "idle"
    BY <2>1, <2>2, <2>7 DEF TermOK, Signals
  <2>9. headBlocked(IoSem(u)) = NULL
    <3>1. TypeOK /\ AslInv
      BY <2>2 DEF TInv
    <3>2. IoSem(u) \in Sem
      BY SemsAre
    <3>3. ASSUME OnAsl(IoSem(u)) PROVE FALSE
      <4> DEFINE a == IoSem(u)
                 h == headBlocked(a)
      <4>1. /\ h \in Proc /\ h \in Queued(semdOf(a)) /\ semdOf(a) \in Semd
            /\ s_semAdd[semdOf(a)] = a
        BY <3>1, <3>3, OnAslFacts
      <4>2. h \in Blocked /\ WaitsOn(h) = a
        BY <3>1, <4>1 DEF Blocked, Queued, WaitsOn, AslInv, AslCursem
      <4> QED BY <2>7, <4>2 DEF Waiting
    <3> QED BY <3>3 DEF headBlocked
  <2> QED BY <2>8, <2>9
<1> QED BY <1>1, TestInvariant, PTL

\* What the nucleus promises (pcb.c, asl.c, SYS1 and SYS2) holds with its test
\* program, too, which is not the client that Nucleus' own specification has: it
\* writes a semaphore itself (p2test.c:328), chooses its calls, and kills a
\* family by pid four times over.  The tree, the pids, the count of processes,
\* the places of pcbs and the ASL stay right.
THEOREM NucleusKept ==
  TestSpec => [](TypeOK /\ OrphanFree /\ PidsDistinct /\ CountMatches /\ OnePlace /\ AslConsistent)
<1>1. SInv => TInv
  BY DEF SInv
<1>2. TInv => OrphanFree /\ PidsDistinct /\ OnePlace /\ AslConsistent
  BY TInvMeans
<1>3. TInv => TypeOK /\ CountMatches
  BY DEF TInv
<1> QED BY <1>1, <1>2, <1>3, TestInvariant, PTL

\* When p1 has killed p8root by its pid (p2test.c:340) and goes on to wait for
\* the clock, nobody of that family is alive: p8pid is the pid of the one p8root
\* there is, and childByPid, which looks for it below p1, is not led astray, as
\* by then p8root is the only child of p1 that may have children.  For p5, whose
\* children may be alive when it tells p1 of its end (p2test.c:619), that
\* needs it to end before another process runs.
THEOREM FamilyAlwaysDies ==
  ASSUME "p5" \notin Sliced
  PROVE  TestSpec => []FamilyDies
<1>1. TestInit => SInv /\ FInv
  BY TestStart, FamStart
<1>2. SInv /\ FInv /\ [TestNext]_pvars => SInv' /\ FInv'
  BY TestStep, FamStep
<1>3. SInv /\ FInv => FamilyDies
  <2> SUFFICES ASSUME SInv, FInv, Runs("clock"), run[Me].fun = "test",
                      NEW p \in Live, run[p].fun \in Family
               PROVE  FALSE
    BY DEF FamilyDies
  <2>1. phase = "user" /\ ~Done(Me) /\ instr.op = "clock"
    BY DEF Runs
  <2>2. /\ FamOK /\ Standing = Live /\ Sync(View) /\ Me \in Live /\ Live \subseteq Proc
        /\ p_parent[1] = NULL
    BY <2>1, RunsFacts, FamFacts
  <2>3. PICK m \in Proc : m = Me
    BY <2>2
  <2>4. m = 1
    <3>1. View.fun[m] = "test" /\ m \in View.live
      BY <2>2, <2>3, ViewIs
    <3> QED BY <2>2, <3>1 DEF Sync, Tree
  <2>5. run[m].at = 32
    <3>1. ~Prints(run[m])
      <4> SUFFICES ASSUME Prints(run[m]) PROVE FALSE
        OBVIOUS
      <4>1. run[m].in \in 1 .. Len(print) /\ Len(print) \in Nat
        BY <2>1, <2>3, PrintFacts
      <4>2. run[m].in = 1 \/ run[m].in = Len(print) \/ run[m].in \in 2 .. Len(print) - 1
        BY <4>1
      <4>3. instr \in {W("term_mut", 1), V("term_mut", 1), IoDevop, Status}
        BY <2>1, <2>3, <4>2, RunsFacts, InstrIs DEF RunInv
      <4> QED BY <2>1, <4>3 DEF W, V, IoDevop, Status
    <3>2. Legal(run[m].fun, run[m].at, instr)
      BY <2>1, <2>3, <3>1, CodeFacts
    <3> QED BY <2>1, <2>3, <3>2 DEF Legal, DataAt
  <2>6. Roots = {}
    <3>1. ~Hunt
      BY <2>1 DEF Hunt
    <3> QED BY <2>2, <2>3, <2>4, <2>5, <3>1 DEF FamOK, RootTime
  <2>7. \A q \in Live : View.fun[q] # "p8root"
    BY <2>2, <2>6, ViewIs DEF Roots
  <2>8. \A q \in Live : View.fun[q] \notin Kids
    <3> SUFFICES ASSUME NEW q \in Live, View.fun[q] \in Kids PROVE FALSE
      OBVIOUS
    <3>1. q # 1
      BY <2>2, <2>3, <2>4, ViewIs DEF Kids
    <3>2. View.fun[View.par[q]] = "p8root" /\ View.par[q] \in Live
      BY <2>2, <3>1, ViewIs DEF Sync, Tree
    <3> QED BY <2>7, <3>2
  <2>9. View.fun[p] = "p8leaf" /\ p # 1
    <3>1. View.fun[p] \in Family
      BY <2>2, ViewIs
    <3> QED BY <2>2, <2>3, <2>4, <2>7, <2>8, <3>1, ViewIs DEF Family, Kids
  <2>10. View.fun[View.par[p]] \in Kids /\ View.par[p] \in Live
    BY <2>2, <2>9, ViewIs DEF Sync, Tree
  <2> QED BY <2>8, <2>10
<1> QED BY <1>1, <1>2, <1>3, PTL DEF TestSpec
=============================================================================
