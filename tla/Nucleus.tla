------------------------------ MODULE Nucleus -------------------------------
(***************************************************************************)
(* The JaeOS nucleus: the system calls, the interrupt handler and the      *)
(* scheduler, under any sequence of calls of the processes and any timing  *)
(* of the timer and the devices.                                           *)
(***************************************************************************)
EXTENDS Interrupts

-----------------------------------------------------------------------------
(* init.c and scheduler.c *)

\* The words after g_dev_s that handleDevices takes for semaphores hold what
\* the linker put there: a value below 1 or not.
PastEnd == {a \in DevCells : a[2] = N_DEV_TYPES}

\* What main leaves to scheduler.  Its loops set only rows and columns from 1
\* on of g_dev_s; that the cells in row 0 and column 0, where the first disk,
\* tape and terminal are, hold 0 rests on the loader's zeroing of bss.
Init ==
  /\ pcbFree = [i \in 1 .. MAXPROC - 1 |-> i + 1]
  /\ g_ready_queue = <<1>> /\ g_current_process = NULL
  /\ p_parent = [p \in Proc |-> NULL]
  /\ p_children = [p \in Proc |-> <<>>]
  /\ p_pid = [p \in Proc |-> IF p = 1 THEN 1 ELSE 0]
  /\ p_cursem = [p \in Proc |-> NULL]
  /\ res_requested = [p \in Proc |-> 0]
  /\ p_a1 = [p \in Proc |-> 0]
  /\ aslh = {} /\ semdFree = [i \in 1 .. MAXPROC |-> i]
  /\ s_semAdd = [d \in Semd |-> NoAddr] /\ s_procq = [d \in Semd |-> <<>>]
  /\ \E past \in [PastEnd -> {0, 1}] :
       semval = [a \in Sem |-> IF a \in UserSem THEN SemInit[a]
                               ELSE IF a \in PastEnd THEN past[a] ELSE 0]
  /\ g_process_count = 1 /\ g_soft_block_count = 0
  /\ g_pseudoClockBlk = 0 /\ abs_process_count = 1
  /\ dev = [u \in Unit |-> [st |-> "idle", by |-> 0]]
  /\ phase = "sched"
  /\ target = 0 /\ cursor = NULL /\ stack = <<>>
  /\ vop = NoV

\* With the ready queue empty: HALT without processes, WAIT when one is
\* blocked on a device or on the clock, PANIC otherwise.
scheduler ==
  /\ phase = "sched"
  /\ \/ /\ g_ready_queue # <<>>
        /\ g_current_process' = Head(g_ready_queue)
        /\ g_ready_queue' = Tail(g_ready_queue)
        /\ phase' = "user"
     \/ /\ g_ready_queue = <<>>
        /\ phase' = IF g_process_count <= 0 \/ g_process_count > MAXPROC
                    THEN "halt"
                    ELSE IF g_soft_block_count > 0 THEN "idle" ELSE "deadlock"
        /\ UNCHANGED <<g_ready_queue, g_current_process>>
  /\ UNCHANGED <<pcbFree, treeVars, aslVars, p_a1, semval, countVars, dev,
                 killVars, vop>>

\* HALT and PANIC stop the machine; nothing is said of a wild one.
stopped == phase \in Final /\ UNCHANGED vars

\* The loops and recursions of the handlers.
Internal == \/ scheduler \/ childByPid \/ killChild \/ reap
            \/ wake \/ endV \/ tick
            \/ \E over \in BOOLEAN : slice(over)

Call == \/ createProcess \/ terminateSelf
        \/ \E p \in Proc : terminateByPid(p_pid[p])
        \/ \E a \in UserSem, w \in Weights : semop(a, w)
        \/ waitClock
        \/ \E u \in Unit : ioDevop(u)

Interrupt == \/ \E expired \in BOOLEAN : handleTimer(expired)
             \/ \E u \in Unit : handleDevices(u)

Next == \/ Internal \/ Call \/ Interrupt
        \/ \E u \in Unit : deviceDone(u)
        \/ stopped

Spec == Init /\ [][Next]_vars

\* The processor goes on with a handler it has entered; a device completes;
\* the timer, which every handler sets to the nearest deadline, fires, and
\* finds each of the deadlines passed time and again; a pending interrupt is
\* not passed over for ever by those of other lines.
Fairness ==
  /\ WF_vars(Internal)
  /\ SF_vars(handleTimer(TRUE))
  /\ SF_vars(g_current_process # NULL /\ slice(TRUE))
  /\ \A u \in Unit : WF_vars(deviceDone(u)) /\ SF_vars(handleDevices(u))

FairSpec == Spec /\ Fairness

-----------------------------------------------------------------------------
Live    == Proc \ ToSet(pcbFree)
Blocked == UNION {ToSet(s_procq[d]) : d \in Semd}
WaitsOn(p) == s_semAdd[p_cursem[p]]        \* of a blocked process

ProcTypes ==
  /\ pcbFree \in Seq(Proc) /\ g_ready_queue \in Seq(Proc)
  /\ g_current_process \in Proc \cup {NULL}
  /\ p_parent \in [Proc -> Proc \cup {NULL}]
  /\ p_children \in [Proc -> Seq(Proc)]
  /\ p_pid \in [Proc -> Int]
  /\ p_a1 \in [Proc -> Int]

SemTypes ==
  /\ p_cursem \in [Proc -> Semd \cup {NULL}]
  /\ res_requested \in [Proc -> Nat]
  /\ aslh \subseteq Semd /\ semdFree \in Seq(Semd)
  /\ s_semAdd \in [Semd -> Sem \cup {NoAddr}]
  /\ s_procq \in [Semd -> Seq(Proc)]
  /\ semval \in [Sem -> Nat]

CountTypes ==
  /\ g_process_count \in Int /\ g_soft_block_count \in Int
  /\ g_pseudoClockBlk \in Nat /\ abs_process_count \in Nat
  /\ dev \in [Unit -> [st : {"idle", "busy", "done"}, by : Int]]

PhaseTypes ==
  /\ phase \in Phases
  /\ target \in Int /\ cursor \in Proc \cup {NULL} /\ stack \in Seq(Proc)
  /\ vop \in [sem : Sem, free : Nat, ret : {"user", "tick", "dev"},
              head : Proc \cup {NULL}, status : Int]
  /\ phase \in {"user", "search", "kill"} => g_current_process # NULL
  /\ phase \in {"sched", "idle"} => g_current_process = NULL
  /\ phase = "search" => cursor # NULL
  /\ phase = "kill" => stack # <<>>

\* Every variable has its type, and in every phase the process that the phase
\* speaks of exists: a process runs in "user", none is current in "sched".
\* Semaphores and free resources are never negative, so that semop's unsigned
\* comparison of them with res_requested, a size_t, is the one of integers.
TypeOK == ProcTypes /\ SemTypes /\ CountTypes /\ PhaseTypes

-----------------------------------------------------------------------------
(* Safety *)

Lists == {<<"free">>, <<"ready">>} \cup {<<"sem", d>> : d \in Semd}
OnList(l) == IF l = <<"free">> THEN pcbFree
             ELSE IF l = <<"ready">> THEN g_ready_queue ELSE s_procq[l[2]]

\* The lists linked through p_list share no pcb and repeat none, the running
\* process is on no list, and no pcb is lost: p_list is in one list at a time
\* whatever the handlers do.
OnePlace ==
  phase # "wild" =>
    /\ \A l \in Lists :
         /\ IsInjective(OnList(l))
         /\ g_current_process \notin ToSet(OnList(l))
    /\ \A l, m \in Lists :
         l # m => ToSet(OnList(l)) \cap ToSet(OnList(m)) = {}
    /\ \A p \in Proc :
         p = g_current_process \/ \E l \in Lists : p \in ToSet(OnList(l))

\* g_process_count counts the pcbs that are not free.
CountMatches == g_process_count + Len(pcbFree) = MAXPROC

\* createProcess' test of g_process_count is enough for the call to allocPcb
\* that follows, whose NULL it does not check.
AllocSucceeds == g_process_count < MAXPROC => pcbFree # <<>>

\* The descriptors of the ASL are those with blocked processes, one for each
\* semaphore; the processes queued there name it in p_cursem and have asked
\* for something.
AslConsistent ==
  /\ \A d \in Semd : d \in aslh <=> s_procq[d] # <<>>
  /\ \A d, e \in aslh : s_semAdd[d] = s_semAdd[e] => d = e
  /\ \A d \in Semd : \A p \in ToSet(s_procq[d]) :
       p_cursem[p] = d /\ res_requested[p] > 0
  /\ aslh \cap ToSet(semdFree) = {} /\ IsInjective(semdFree)

\* Without terminations no descriptor is ever lost, so that insertBlocked has
\* one for each process that blocks.
NoSemdLost == aslh \cup ToSet(semdFree) = Semd /\ phase # "noSemd"

\* Unless a V on its semaphore is in progress, the first process of a queue
\* asks for more than the semaphore has.
NoLostWakeup ==
  \A d \in aslh :
    \/ phase = "semop" /\ vop.sem = s_semAdd[d]
    \/ semval[s_semAdd[d]] < res_requested[Head(s_procq[d])]

AwaitsIO(p) == p \in Blocked /\ WaitsOn(p) \in DevCells \cup {Clock}

\* g_soft_block_count is the number of processes that wait for a device or
\* for the clock.
SoftExact == g_soft_block_count = Cardinality({p \in Proc : AwaitsIO(p)})

\* The processor waits only for a process that a device or the clock will
\* wake; it never waits for one that only a process could.
IdleJustified == phase = "idle" => \E p \in Proc : AwaitsIO(p)

\* PANIC reports a deadlock only when no interrupt could wake a process.
NoFalseDeadlock == phase = "deadlock" => \A p \in Proc : ~AwaitsIO(p)

\* A process tree: the two directions of the links agree, and every process
\* but the first and those being terminated has a live parent that is older.
OrphanFree ==
  /\ \A p, c \in Proc : c \in ToSet(p_children[p]) <=> p_parent[c] = p
  /\ \A p \in Live :
       \/ p_pid[p] = 1 \/ p \in ToSet(stack)
       \/ p_parent[p] \in Live /\ p_pid[p_parent[p]] < p_pid[p]

\* Live processes have distinct pids, although pid_selector combines two
\* counters one of which goes down.
PidsDistinct == \A p, q \in Live : p_pid[p] = p_pid[q] => p = q

\* As long as a process waits for the clock the next tick finds a positive
\* g_pseudoClockBlk, enough for all of them.
ClockCovered ==
  phase = "semop"
  \/ Cardinality({p \in Blocked : WaitsOn(p) = Clock}) <= g_pseudoClockBlk

\* An operation that a device has accepted has its issuer waiting for it, in
\* the queue of the semaphore that its interrupt will signal.
OwnerWaits ==
  \A u \in Unit : dev[u].st # "idle" =>
    \E p \in Blocked : WaitsOn(p) = IntSem(u) /\ p_pid[p] = dev[u].by

\* A process that waits for a device has an operation in progress on it, or
\* the V for its interrupt is being done.
NoLostIo ==
  \A p \in Blocked : \A u \in Unit : WaitsOn(p) = IoSem(u) =>
    \/ dev[u].st # "idle"
    \/ phase = "semop" /\ vop.ret = "dev" /\ vop.head = p

\* The status a process is given is never that of another's operation; a
\* terminal's is that of the operation the process has waited for.  (That of
\* another device is read too late to be any operation's.)
OwnStatus ==
  /\ \A p \in Live : p_a1[p] \in {0, p_pid[p]}
  /\ \A u \in Unit : u.line = IL_TERMINAL /\ phase = "semop" /\ vop.ret = "dev"
                      /\ vop.sem = IntSem(u) /\ vop.head # NULL
                    => vop.status = p_pid[vop.head]

-----------------------------------------------------------------------------
(* semop implements semaphores for several units *)

Amounts == 1 .. MaxVal \cup {1} \cup {w \in Weights : w > 0}
           \cup {-w : w \in {v \in Weights : v < 0}}

\* The value of a semaphore a V is in progress on is what is free by then.
SemVal(a) == IF phase = "semop" /\ vop.sem = a THEN vop.free ELSE semval[a]

SemQueue(a) == IF OnAsl(a)
               THEN LET q == s_procq[semdOf(a)]
                    IN  [i \in DOMAIN q |-> <<q[i], res_requested[q[i]]>>]
               ELSE <<>>

Semaphores == INSTANCE WeightedSemaphore WITH
  Amount <- Amounts,
  val    <- [a \in Sem |-> SemVal(a)],
  queue  <- [a \in Sem |-> SemQueue(a)]

\* Without terminations, SYS3, SYS9 and the interrupts take, give and hand on
\* units as first-come first-served semaphores do, although a V hands them on
\* one process at a time.
UnitsServed == Semaphores!Spec

-----------------------------------------------------------------------------
(* What comments and headers of the code say and the code does not do *)

\* A pcb that has been freed is not in the ready queue: terminateProgeny
\* removes it from there when it is not waiting on a semaphore.
ReadyIsLive == ToSet(g_ready_queue) \cap ToSet(pcbFree) = {}

\* The ancestors of p, itself included.
Line(p) == LET up[n \in 0 .. MAXPROC] ==
                 IF n = 0 THEN {p} ELSE up[n-1] \cup {p_parent[q] : q \in up[n-1] \ {NULL}}
           IN  up[MAXPROC] \ {NULL}

\* childByPid finds the process of the caller's progeny that has the pid: the
\* search never leaves the subtree in which that process is.
SearchOnTrack ==
  phase = "search" =>
    \A p \in Live : p_pid[p] = target /\ g_current_process \in Line(p)
                     => cursor \in Line(p)

-----------------------------------------------------------------------------
(* Action properties *)

\* SYS10 does not return before the operation it starts is complete.
IoDevopWaits ==
  [][\A u \in Unit : phase = "user" /\ dev'[u].by = p_pid[g_current_process]
                       /\ dev'[u] # dev[u] /\ dev'[u].st = "busy"
                     => g_current_process' = NULL]_vars

\* SYS9 blocks its caller.
WaitClockBlocks ==
  [][g_pseudoClockBlk' > g_pseudoClockBlk => g_current_process' = NULL]_vars

-----------------------------------------------------------------------------
(* Liveness *)

\* Every handler returns: its loops and recursions end.
HandlersReturn == []<>(phase \in {"user", "idle"} \cup Final)

\* The ready queue is served: no process waits in it for ever, although those
\* before it may never give up the processor.
ReadyRuns == \A p \in Proc :
  p \in ToSet(g_ready_queue)
    ~> g_current_process = p \/ p \notin Live \/ phase \in Final

\* The next tick or interrupt will be for p: it waits for the clock, or is the
\* first to wait for a device that has an operation, its own or another's.
Expects(p) ==
  /\ p \in Blocked
  /\ \/ WaitsOn(p) = Clock
     \/ \E u \in Unit : /\ dev[u].st # "idle" /\ WaitsOn(p) = IoSem(u)
                        /\ headBlocked(IoSem(u)) = p

\* A process that waits for the clock becomes ready, and so does the first that
\* waits for a device in use, whether or not others use it at the same time.
AwaitedComes == \A p \in Proc :
  Expects(p) ~> ~AwaitsIO(p) \/ phase \in Final
=============================================================================
