----------------------------- MODULE Interrupts -----------------------------
(***************************************************************************)
(* interrupt.c: the interval timer and the devices.  An interrupt is taken *)
(* while a process runs or the processor waits; the handler returns to the *)
(* process (phase "user") or, when there is none, calls scheduler.         *)
(***************************************************************************)
EXTENDS Syscalls

Interruptible == phase \in {"user", "idle"}

-----------------------------------------------------------------------------
(* handleTimer.  Which of the two deadlines has passed is left open: the   *)
(* time arithmetic is not part of this module.                             *)

\* The interval timer fires; "expired": g_leftTo100 has run out.
handleTimer(expired) ==
  /\ Interruptible
  /\ phase' = IF expired THEN "tick" ELSE "slice"
  /\ UNCHANGED <<pcbFree, g_ready_queue, g_current_process, treeVars, aslVars,
                 p_a1, semval, countVars, dev, killVars, vop>>

\* One iteration of the loop over g_pseudoClockBlk: a V of that weight.
tick ==
  /\ phase = "tick"
  /\ IF g_pseudoClockBlk > 0
     THEN /\ startV(Clock, g_pseudoClockBlk, "tick", NULL, 0)
          /\ g_pseudoClockBlk' = g_pseudoClockBlk - 1
     ELSE /\ phase' = "slice"
          /\ UNCHANGED <<g_pseudoClockBlk, vop>>
  /\ UNCHANGED <<pcbFree, g_ready_queue, g_current_process, treeVars, aslVars,
                 p_a1, semval, g_process_count, g_soft_block_count,
                 abs_process_count, dev, killVars>>

\* The test of p_time_slice.  When no process is current it reads through
\* NULL, and a value above the slice makes insertProcQ write through NULL.
slice(over) ==
  /\ phase = "slice"
  /\ g_current_process = NULL => over \in NullSlice
  /\ g_current_process' = IF over THEN NULL ELSE g_current_process
  /\ IF over /\ g_current_process # NULL THEN insertProcQ(g_current_process)
     ELSE UNCHANGED g_ready_queue
  /\ phase' = IF over /\ g_current_process = NULL THEN "wild"
              ELSE Resumed(g_current_process')
  /\ UNCHANGED <<pcbFree, treeVars, aslVars, p_a1, semval, countVars, dev,
                 killVars, vop>>

-----------------------------------------------------------------------------
(* handleDevices *)

\* The order in which pending interrupts are served: by line, then by device,
\* of a terminal the receiver first.
Before(v, u) == \/ v.line < u.line
                \/ v.line = u.line /\ v.dev < u.dev
                \/ v.line = u.line /\ v.dev = u.dev /\ v.recv /\ ~u.recv

ack_missed(u) == UNCHANGED dev                            \* mutant

ack(u) == dev' = [dev EXCEPT ![u] = [st |-> "idle", by |-> 0]]

\* devStatus, as the pid of the process whose operation it is the result of.
\* Only a terminal's register is read before the acknowledgement, which makes
\* the status that of a ready device, the result of no operation: 0.
statusOf(u) == IF u.line = IL_TERMINAL THEN dev[u].by ELSE dev'[u].by

\* The interrupt is acknowledged; a V on the semaphore unless it is positive.
handleDevices(u) ==
  LET a == IntSem(u) IN
  /\ Interruptible
  /\ dev[u].st = "done"
  /\ \A v \in Unit : dev[v].st = "done" => ~Before(v, u)
  /\ ack(u)
  /\ \/ semval[a] < 1 /\ startV(a, 1, "dev", headBlocked(a), statusOf(u))
     \/ semval[a] >= 1 /\ phase' = Resumed(g_current_process)
        /\ UNCHANGED vop
  /\ UNCHANGED <<pcbFree, g_ready_queue, g_current_process, treeVars, aslVars,
                 p_a1, semval, countVars, killVars>>

\* A device completes its operation and raises its interrupt (external).
deviceDone(u) ==
  /\ dev[u].st = "busy"
  /\ dev' = [dev EXCEPT ![u].st = "done"]
  /\ UNCHANGED <<pcbFree, g_ready_queue, g_current_process, treeVars, aslVars,
                 p_a1, semval, countVars, phase, killVars, vop>>
=============================================================================
