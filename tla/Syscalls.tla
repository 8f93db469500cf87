------------------------------ MODULE Syscalls ------------------------------
(***************************************************************************)
(* The system calls of exceptions.c that change the nucleus' data:         *)
(* SYS1 createProcess, SYS2 terminateProcess, SYS3 semop, SYS9 waitClock   *)
(* and SYS10 ioDevop.  A call is made by the process that is running, in   *)
(* kernel mode; sysBP_Handler returns to it (phase "user") or, when        *)
(* g_current_process has become NULL, calls scheduler (phase "sched").     *)
(***************************************************************************)
EXTENDS NucleusData

Issues(call) == phase = "user" /\ call \in Calls

Resumed_swapped(p) == IF p = NULL THEN "user" ELSE "sched"    \* mutant

\* How a handler ends: with LDST or with scheduler.
Resumed(p) == IF p = NULL THEN "sched" ELSE "user"

-----------------------------------------------------------------------------
(* SYS1 *)

pid_selector_countOnly == g_process_count + 1             \* mutant

\* The pid of the next process: the incremented count shifted left by 5
\* bits, or'ed with the number of processes (below 32).
pid_selector == (abs_process_count + 1) * 32 + g_process_count + 1

\* The NULL that allocPcb returns for an empty list is not checked: that the
\* list is not empty is AllocSucceeds in Nucleus.
createProcess ==
  /\ Issues("CREATEPROCESS")
  /\ g_process_count < MAXPROC /\ pcbFree # <<>>
  /\ abs_process_count < MaxPid                            \* bound
  /\ LET p == Head(pcbFree) IN
       /\ pcbFree' = Tail(pcbFree)
       /\ g_process_count' = g_process_count + 1
       /\ abs_process_count' = abs_process_count + 1
       /\ p_pid' = [p_pid EXCEPT ![p] = pid_selector]
       /\ p_parent' = [p_parent EXCEPT ![p] = g_current_process]
       /\ p_children' = [[p_children EXCEPT ![p] = <<>>]
                           EXCEPT ![g_current_process] = Append(@, p)]
       /\ p_cursem' = [p_cursem EXCEPT ![p] = NULL]
       /\ res_requested' = [res_requested EXCEPT ![p] = 0]
       /\ p_a1' = [p_a1 EXCEPT ![p] = 0]
       /\ insertProcQ(p)
  /\ UNCHANGED <<g_current_process, aslh, semdFree, s_semAdd, s_procq, semval,
                 g_soft_block_count, g_pseudoClockBlk, dev, phase, killVars,
                 vop>>

-----------------------------------------------------------------------------
(* SYS2.  terminateProgeny enters an activation for a pcb with outChild    *)
(* done; the sequence "stack" holds the pcbs of its open activations.      *)

enter(p) == phase' = "kill" /\ stack' = <<p>> /\ outChild(p)

unchangedBySearch ==
  UNCHANGED <<pcbFree, g_ready_queue, g_current_process, p_pid, aslVars, p_a1,
              semval, countVars, dev, vop>>

\* terminateProcess(0): by SYS2, or because the process raised an exception
\* for which it specified no handler.
terminateSelf ==
  /\ Issues("TERMINATEPROCESS")
  /\ target' = 0
  /\ enter(g_current_process)
  /\ UNCHANGED cursor
  /\ unchangedBySearch

\* terminateProcess(pid): starts the search below the caller.
terminateByPid(pid) ==
  /\ Issues("TERMINATEPROCESS")
  /\ pid # 0
  /\ p_children[g_current_process] # <<>>
  /\ target' = pid
  /\ cursor' = g_current_process
  /\ phase' = "search"
  /\ UNCHANGED <<stack, p_parent, p_children>>
  /\ unchangedBySearch

\* One activation of childByPid(cursor, target): the first child that has the
\* pid is the answer; the first that has children is where the search goes on.
descend_stuck(c) == UNCHANGED cursor                      \* mutant
descend(c) == cursor' = c

childByPid ==
  LET ch     == p_children[cursor]
      hit(c) == p_pid[c] = target \/ p_children[c] # <<>>
  IN  /\ phase = "search"
      /\ \/ /\ \A i \in DOMAIN ch : ~hit(ch[i])
            /\ phase' = "user" /\ target' = 0 /\ cursor' = NULL
            /\ UNCHANGED <<stack, p_parent, p_children>>
         \/ \E i \in DOMAIN ch :
              /\ hit(ch[i]) /\ \A j \in 1 .. (i-1) : ~hit(ch[j])
              /\ UNCHANGED target
              /\ \/ /\ p_pid[ch[i]] = target
                    /\ enter(ch[i]) /\ cursor' = NULL
                 \/ /\ p_pid[ch[i]] # target
                    /\ descend(ch[i])
                    /\ UNCHANGED <<phase, stack, p_parent, p_children>>
      /\ unchangedBySearch

\* The while loop of terminateProgeny: the first child is removed and entered.
killChild ==
  /\ phase = "kill"
  /\ LET p == Last(stack)
         c == Head(p_children[p])
     IN  /\ p_children[p] # <<>>
         /\ p_children' = [p_children EXCEPT ![p] = Tail(@)]
         /\ p_parent' = [p_parent EXCEPT ![c] = NULL]
         /\ stack' = Append(stack, c)
  /\ UNCHANGED <<phase, target, cursor>>
  /\ unchangedBySearch

freePcb_lost(p) == g_process_count' = g_process_count - 1
                   /\ UNCHANGED pcbFree                           \* mutant
freePcb_uncounted(p) == pcbFree' = Append(pcbFree, p)
                        /\ UNCHANGED g_process_count              \* mutant

freePcb(p) == /\ pcbFree' = Append(pcbFree, p)
              /\ g_process_count' = g_process_count - 1

\* The rest of the activation: a pcb without children leaves the queue its
\* p_cursem names, or the ready queue, and is freed.  isDev is given the
\* address of the descriptor, so g_soft_block_count stays: this assumes that
\* semdTable, unlike the semaphores in Overrun, is not linked in the words
\* after g_dev_s that isDev's range takes in.  The pcb may still be linked in
\* the ready queue when freePcb relinks it: the two lists are then cross-linked.
reap ==
  /\ phase = "kill"
  /\ LET p == Last(stack) IN
       /\ p_children[p] = <<>>
       /\ IF p_cursem[p] # NULL
          THEN outBlocked(p) /\ UNCHANGED g_ready_queue
          ELSE /\ g_ready_queue' = Without(g_ready_queue, p)
               /\ UNCHANGED <<aslh, semdFree, s_procq>>
       /\ freePcb(p)
       /\ stack' = Front(stack)
       /\ g_current_process' = IF Len(stack) = 1 /\ target = 0
                               THEN NULL ELSE g_current_process
       /\ target' = IF Len(stack) = 1 THEN 0 ELSE target
       /\ phase' = IF p \in ToSet(g_ready_queue') THEN "wild"
                   ELSE IF Len(stack) > 1 THEN "kill"
                   ELSE IF target = 0 THEN "sched" ELSE "user"
  /\ UNCHANGED <<treeVars, p_cursem, res_requested, s_semAdd, p_a1, semval,
                 g_soft_block_count, g_pseudoClockBlk, abs_process_count, dev,
                 cursor, vop>>

-----------------------------------------------------------------------------
(* SYS3 *)

granted_strict(a, weight) ==
  headBlocked(a) = NULL /\ semval[a] + weight > 0          \* mutant

granted_barging(a, weight) == semval[a] + weight >= 0     \* mutant

granted(a, weight) == headBlocked(a) = NULL /\ semval[a] + weight >= 0

\* semop(a, weight) with weight < 0, called by the running process.  The
\* counters and the device are the caller's to set.
P(a, weight) ==
  \/ /\ granted(a, weight)
     /\ semval' = [semval EXCEPT ![a] = @ + weight]
     /\ UNCHANGED <<aslVars, g_current_process, g_soft_block_count, phase>>
  \/ /\ ~granted(a, weight) /\ CanInsert(a)
     /\ insertBlocked(a, g_current_process)
     /\ res_requested' = [res_requested EXCEPT ![g_current_process] = -weight]
     /\ g_current_process' = NULL
     /\ g_soft_block_count' = IF isDev(a) THEN g_soft_block_count + 1
                              ELSE g_soft_block_count
     /\ phase' = "sched"
     /\ UNCHANGED semval
  \/ /\ ~granted(a, weight) /\ ~CanInsert(a)
     /\ phase' = "noSemd"
     /\ UNCHANGED <<aslVars, semval, g_current_process, g_soft_block_count>>

\* semop(a, weight) with weight > 0 enters its loop; ret names the caller,
\* head and status are handleDevices' locals.
startV(a, weight, ret, head, status) ==
  /\ phase' = "semop"
  /\ vop' = [sem |-> a, free |-> weight + semval[a], ret |-> ret,
             head |-> head, status |-> status]

satisfied(h)  == h # NULL /\ vop.free >= res_requested[h]
freeLeft_kept(h) == vop.free                              \* mutant
freeLeft(h) == vop.free - res_requested[h]

\* One iteration: the first blocked process gets what it asked for.
wake ==
  LET a == vop.sem
      h == headBlocked(a)
  IN  /\ phase = "semop"
      /\ satisfied(h)
      /\ vop' = [vop EXCEPT !.free = freeLeft(h)]
      /\ res_requested' = [res_requested EXCEPT ![h] = 0]
      /\ removeBlocked(a)
      /\ insertProcQ(h)
      /\ g_soft_block_count' = IF isDev(s_semAdd[p_cursem[h]])
                               THEN g_soft_block_count - 1
                               ELSE g_soft_block_count
      /\ UNCHANGED <<pcbFree, g_current_process, treeVars, p_cursem, s_semAdd,
                     p_a1, semval, g_process_count, g_pseudoClockBlk,
                     abs_process_count, dev, phase, killVars>>

\* The loop ends, the value is stored, and semop returns: to the process, to
\* handleTimer's loop, or to handleDevices, which gives its status word to the
\* process that was first in the queue if that process has been awakened.
endV ==
  LET a == vop.sem
      h == headBlocked(a)
  IN  /\ phase = "semop"
      /\ ~satisfied(h)
      /\ semval' = [semval EXCEPT ![a] = vop.free]
      /\ p_a1' = IF vop.ret = "dev" /\ vop.head # h
                 THEN [p_a1 EXCEPT ![vop.head] = vop.status] ELSE p_a1
      /\ vop' = NoV
      /\ phase' = IF vop.ret = "tick" THEN "tick"
                  ELSE Resumed(g_current_process)
      /\ UNCHANGED <<pcbFree, g_ready_queue, g_current_process, treeVars,
                     aslVars, countVars, dev, killVars>>

semop(a, weight) ==
  /\ Issues("SEMOP")
  /\ \/ /\ weight > 0
        /\ semval[a] + weight <= MaxVal                        \* bound
        /\ startV(a, weight, "user", NULL, 0)
        /\ UNCHANGED <<aslVars, semval, g_current_process, g_soft_block_count>>
     \/ /\ weight < 0
        /\ P(a, weight)
        /\ UNCHANGED vop
     \/ /\ weight = 0
        /\ phase' = "badWeight"
        /\ UNCHANGED <<aslVars, semval, g_current_process, g_soft_block_count,
                       vop>>
  /\ UNCHANGED <<pcbFree, g_ready_queue, treeVars, p_a1, g_process_count,
                 g_pseudoClockBlk, abs_process_count, dev, killVars>>

-----------------------------------------------------------------------------
(* SYS9 and SYS10 *)

countWaiter_once == g_pseudoClockBlk' = IF phase' = "noSemd"
                                        THEN g_pseudoClockBlk ELSE 1  \* mutant

countWaiter == g_pseudoClockBlk' = IF phase' = "noSemd" THEN g_pseudoClockBlk
                                   ELSE g_pseudoClockBlk + 1

waitClock ==
  /\ Issues("WAITCLOCK")
  /\ g_pseudoClockBlk < MaxVal /\ semval[Clock] < MaxVal       \* bounds
  /\ P(Clock, -1)
  /\ countWaiter
  /\ UNCHANGED <<pcbFree, g_ready_queue, treeVars, p_a1, g_process_count,
                 abs_process_count, dev, killVars, vop>>

command_lost(u, pid) == UNCHANGED dev                     \* mutant

\* A write to a device's command register (external).  An idle device starts
\* the operation; one that is not may ignore the command or take it instead.
command(u, pid) ==
  \/ dev' = [dev EXCEPT ![u] = [st |-> "busy", by |-> pid]]
  \/ dev[u].st # "idle" /\ UNCHANGED dev

\* The command is written after semop, whether or not the caller blocked.  The
\* caller's a1 holds no status yet.
ioDevop(u) ==
  /\ Issues("IODEVOP")
  /\ Exclusive => headBlocked(IoSem(u)) = NULL            \* discipline
  /\ P(IoSem(u), -1)
  /\ p_a1' = [p_a1 EXCEPT ![g_current_process] = 0]
  /\ IF phase' = "noSemd" THEN UNCHANGED dev
     ELSE command(u, p_pid[g_current_process])
  /\ UNCHANGED <<pcbFree, g_ready_queue, treeVars, g_process_count,
                 g_pseudoClockBlk, abs_process_count, killVars, vop>>
=============================================================================
