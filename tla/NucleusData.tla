---------------------------- MODULE NucleusData ----------------------------
(***************************************************************************)
(* The data the JaeOS nucleus keeps, and the list operations of pcb.c and  *)
(* asl.c on it: process control blocks, the process tree, the active       *)
(* semaphore list, the semaphores, the counters of init.h.                 *)
(*                                                                         *)
(* A circular list (clist.h) is the sequence of its elements from head to  *)
(* tail.  A pcb or a semaphore descriptor is the index of its entry in     *)
(* proc_blk or semdTable; NULL is 0.                                       *)
(***************************************************************************)
EXTENDS ListOps, FiniteSets

CONSTANTS
  MAXPROC,    \* entries of proc_blk and of semdTable
  UserSem,    \* addresses of the semaphores that processes declare
  Overrun,    \* the user semaphores linked within the words after g_dev_s
  Unit,       \* the devices: [line, dev, recv]; recv only of a terminal
  Calls,      \* the system calls the processes issue
  Weights,    \* the weights they pass to SYS3
  SemInit,    \* the initial values of the user semaphores
  Exclusive,  \* TRUE: processes use a device one at a time
  NullSlice,  \* outcomes of reading p_time_slice through NULL on the build
  MaxPid,     \* bound on abs_process_count
  MaxVal      \* bound on semaphore values and on g_pseudoClockBlk

NULL == 0
Proc == 1 .. MAXPROC
Semd == 1 .. MAXPROC

N_EXT_IL    == 5              \* interrupt lines with external devices
N_DEV_TYPES == N_EXT_IL + 1
DEV_IL_START == 3             \* the first of these lines
IL_TERMINAL == 7

(***************************************************************************)
(* Addresses of semaphores.  g_dev_s has the rows 0 .. N_DEV_TYPES-1; row  *)
(* N_DEV_TYPES is the memory that follows it.                              *)
(***************************************************************************)
Cell(row, dnum) == <<"g_dev_s", row, dnum>>
Clock  == <<"g_pc_timer_s", 0, 0>>
NoAddr == <<"NULL", 0, 0>>

\* The semaphore ioDevop blocks its caller on.
IoSem(u) == IF u.line = IL_TERMINAL
            THEN Cell(IF u.recv THEN 5 ELSE 4, u.dev)
            ELSE Cell(u.line - DEV_IL_START, u.dev)

IntSem_first(u) == Cell(IF u.recv THEN N_DEV_TYPES ELSE u.line - DEV_IL_START, 0) \* mutant

\* The semaphore handleDevices operates on.
IntSem(u) == Cell(IF u.recv THEN N_DEV_TYPES ELSE u.line - DEV_IL_START, u.dev)

DevCells == {IoSem(u) : u \in Unit} \cup {IntSem(u) : u \in Unit}
Sem      == UserSem \cup {Clock} \cup DevCells

isDev_noClock(a) == a \in DevCells                        \* mutant
isDev_all(a) == TRUE                                      \* mutant

\* The range test of isDev reaches one row past the end of g_dev_s.
isDev(a) == a = Clock \/ a \in DevCells \/ a \in Overrun

SYS == {"CREATEPROCESS", "TERMINATEPROCESS", "SEMOP", "WAITCLOCK", "IODEVOP"}

ASSUME ConstAssumption ==
  /\ MAXPROC \in Nat \ {0} /\ MAXPROC < 32
  /\ Overrun \subseteq UserSem
  /\ Calls \subseteq SYS
  /\ Weights \subseteq Int
  /\ SemInit \in [UserSem -> Nat]
  /\ Exclusive \in BOOLEAN
  /\ NullSlice \in (SUBSET BOOLEAN) \ {{}}
  /\ MaxPid \in Nat /\ MaxPid < 2^27
  /\ MaxVal \in Nat

ASSUME UnitAssumption ==
  /\ Unit \subseteq [line : DEV_IL_START .. IL_TERMINAL, dev : 0 .. 7,
                     recv : BOOLEAN]
  /\ \A u \in Unit : u.recv => u.line = IL_TERMINAL

\* The addresses of distinct objects differ.
ASSUME AddrAssumption ==
  UserSem \cap (DevCells \cup {Clock}) = {} /\ Clock \notin DevCells

-----------------------------------------------------------------------------
VARIABLES
  pcbFree, g_ready_queue,          \* lists of pcbs
  g_current_process,
  p_parent, p_children, p_pid,     \* the process tree
  p_cursem, res_requested,         \* of each pcb: semaphore, request
  p_a1,                            \* of each pcb: p_s.a1, as a device status
  aslh, semdFree,                  \* descriptors in use and free
  s_semAdd, s_procq,               \* of each descriptor: address, queue
  semval,                          \* the values of the semaphores
  g_process_count, g_soft_block_count, g_pseudoClockBlk,
  abs_process_count,
  dev,                             \* the device registers
  phase,                           \* what the processor is executing
  target, cursor,                  \* SYS2: its argument, childByPid's p
  stack,                           \* activations of terminateProgeny
  vop                              \* the V operation of semop in progress

treeVars == <<p_parent, p_children, p_pid>>
aslVars  == <<p_cursem, res_requested, aslh, semdFree, s_semAdd, s_procq>>
countVars == <<g_process_count, g_soft_block_count, g_pseudoClockBlk,
               abs_process_count>>
killVars == <<target, cursor, stack>>
vars == <<pcbFree, g_ready_queue, g_current_process, treeVars, aslVars, p_a1,
          semval, countVars, dev, phase, killVars, vop>>

(***************************************************************************)
(* phase: a process runs ("user"), the processor sits in WAIT ("idle"), or *)
(* the nucleus runs with interrupts disabled: the loops and recursions of  *)
(* its handlers take one step per iteration, and nothing else is enabled   *)
(* between two of them.  The last values are final: HALT, the PANICs by    *)
(* their cause, and "wild", memory the lists no longer describe.           *)
(***************************************************************************)
Final  == {"halt", "deadlock", "noSemd", "badWeight", "wild"}
Phases == {"user", "idle", "sched", "search", "kill", "semop", "tick",
           "slice"} \cup Final

\* vop when no V operation is in progress.  target, cursor and stack are 0
\* and empty, too, while SYS2 is not.
NoV == [sem |-> Clock, free |-> 0, ret |-> "user", head |-> NULL, status |-> 0]

-----------------------------------------------------------------------------
(* pcb.c *)

insertProcQ_push(p) == g_ready_queue' = <<p>> \o g_ready_queue   \* mutant

insertProcQ(p) == g_ready_queue' = Append(g_ready_queue, p)

outChild_kept(p) == p_parent' = [p_parent EXCEPT ![p] = NULL]
                    /\ UNCHANGED p_children                       \* mutant

\* outChild: p leaves its parent's children.
outChild(p) ==
  IF p_parent[p] = NULL
  THEN UNCHANGED <<p_parent, p_children>>
  ELSE /\ p_children' = [p_children EXCEPT ![p_parent[p]] = Without(@, p)]
       /\ p_parent' = [p_parent EXCEPT ![p] = NULL]

-----------------------------------------------------------------------------
(* asl.c *)

OnAsl(a)  == \E d \in aslh : s_semAdd[d] = a
semdOf(a) == CHOOSE d \in aslh : s_semAdd[d] = a

headBlocked(a) == IF OnAsl(a) /\ s_procq[semdOf(a)] # <<>>
                  THEN Head(s_procq[semdOf(a)])
                  ELSE NULL

setProcq_stays(d, q) == s_procq' = [s_procq EXCEPT ![d] = q]
                        /\ UNCHANGED <<aslh, semdFree>>            \* mutant

\* The process queue of d becomes q; an emptied descriptor leaves the ASL.
setProcq(d, q) ==
  /\ s_procq' = [s_procq EXCEPT ![d] = q]
  /\ IF q = <<>>
     THEN aslh' = aslh \ {d} /\ semdFree' = enqueueFree(semdFree, d)
     ELSE UNCHANGED <<aslh, semdFree>>

removeBlocked(a) == setProcq(semdOf(a), Tail(s_procq[semdOf(a)]))

outBlocked_kept(p) == UNCHANGED <<aslh, semdFree, s_procq>>       \* mutant

outBlocked(p) == setProcq(p_cursem[p], Without(s_procq[p_cursem[p]], p))

CanInsert(a) == OnAsl(a) \/ semdFree # <<>>

insertBlocked(a, p) ==
  LET d == IF OnAsl(a) THEN semdOf(a) ELSE Head(semdFree)
  IN  /\ p_cursem' = [p_cursem EXCEPT ![p] = d]
      /\ IF OnAsl(a)
         THEN /\ s_procq' = [s_procq EXCEPT ![d] = Append(@, p)]
              /\ UNCHANGED <<aslh, semdFree, s_semAdd>>
         ELSE /\ s_procq' = [s_procq EXCEPT ![d] = <<p>>]
              /\ s_semAdd' = [s_semAdd EXCEPT ![d] = a]
              /\ aslh' = aslh \cup {d}
              /\ semdFree' = Tail(semdFree)
=============================================================================
