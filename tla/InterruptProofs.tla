-------------------------- MODULE InterruptProofs --------------------------
(***************************************************************************)
(* What interrupts do for the processes that wait for them, as long as no  *)
(* process is terminated: the scheduler's conclusions from                 *)
(* g_soft_block_count, the waiters of the clock and of the devices, and    *)
(* that semop and iodevInterruptReturn implement WeightedSemaphore.        *)
(***************************************************************************)
EXTENDS NucleusProofs

-----------------------------------------------------------------------------
(* WAIT and PANIC.  No semaphore of a process may lie where isDev takes it  *)
(* for a device's.                                                         *)

DevSem == DevCells \cup {Clock}

\* The processes in the queues of the semaphores of devices and of the clock.
IoWaiters == {p \in Proc : \E d \in Semd : p \in Queued(d) /\ s_semAdd[d] \in DevSem}

Count == g_soft_block_count = Cardinality(IoWaiters)

Verdict == /\ phase = "idle" => g_soft_block_count > 0
           /\ phase = "deadlock" => g_soft_block_count <= 0

LEMMA IoWaitersFinite == IsFiniteSet(IoWaiters) /\ Cardinality(IoWaiters) \in Nat
<1>1. MAXPROC \in Int /\ 1 \in Int
  BY ConstAssumption
<1>2. IsFiniteSet(Proc)
  BY <1>1, FS_Interval, Zenon DEF Proc
<1>3. IoWaiters \subseteq Proc
  BY Zenon DEF IoWaiters
<1>4. IsFiniteSet(IoWaiters)
  BY <1>2, <1>3, FS_Subset, Zenon
<1> QED BY <1>4, FS_CardinalityType, Zenon

LEMMA AwaitsIoMeans ==
  ASSUME TypeOK, AslInv
  PROVE  {p \in Proc : AwaitsIO(p)} = IoWaiters
<1>1. ASSUME NEW p \in Proc, AwaitsIO(p)
      PROVE  p \in IoWaiters
  <2>1. PICK d \in Semd : p \in Queued(d)
    BY <1>1 DEF AwaitsIO, Blocked, Queued
  <2>2. p_cursem[p] = d
    BY <2>1 DEF AslInv, AslCursem
  <2> QED BY <1>1, <2>1, <2>2 DEF AwaitsIO, WaitsOn, IoWaiters, DevSem
<1>2. ASSUME NEW p \in IoWaiters
      PROVE  p \in Proc /\ AwaitsIO(p)
  <2>1. PICK d \in Semd : p \in Queued(d) /\ s_semAdd[d] \in DevSem
    BY <1>2 DEF IoWaiters
  <2>2. p_cursem[p] = d
    BY <2>1 DEF AslInv, AslCursem
  <2>3. p \in Blocked
    BY <2>1 DEF Blocked, Queued
  <2> QED BY <1>2, <2>1, <2>2, <2>3 DEF AwaitsIO, WaitsOn, IoWaiters, DevSem
<1> QED BY <1>1, <1>2

LEMMA CountStays ==
  ASSUME Count, UNCHANGED <<s_procq, s_semAdd, g_soft_block_count>>
  PROVE  Count'
<1>1. IoWaiters' = IoWaiters
  BY DEF IoWaiters, Queued
<1> QED BY <1>1 DEF Count

\* A P operation counts its caller if and only if it blocks it on the
\* semaphore of a device or on the clock.
LEMMA PCounts ==
  ASSUME QInv, Overrun = {}, Count, NEW a \in Sem, NEW weight, phase = "user",
         P(a, weight)
  PROVE  Count'
<1>1. CASE UNCHANGED <<s_procq, s_semAdd, g_soft_block_count>>
  BY <1>1, CountStays
<1>2. CASE /\ CanInsert(a) /\ insertBlocked(a, g_current_process)
           /\ g_soft_block_count' = IF isDev(a) THEN g_soft_block_count + 1
                                    ELSE g_soft_block_count
  <2>1. PICK q \in Proc : q = g_current_process
    BY DEF QInv, Base, Structure, TypeOK, ProcTypes, PhaseTypes
  <2>2. \A e \in Semd : q \notin Queued(e)
    BY <2>1 DEF QInv, Base, Structure, Apart
  <2>3. PICK d \in Semd : Inserted(a, q, d)
    BY <1>2, <2>1, <2>2, InsertEffect, Zenon DEF QInv
  <2>4. \A e \in Semd : Queued(e)' = IF e = d THEN Queued(d) \cup {q} ELSE Queued(e)
    BY <2>3 DEF Inserted, Queued
  <2>5. /\ s_semAdd'[d] = a
        /\ \A e \in Semd \ {d} : s_semAdd'[e] = s_semAdd[e]
        /\ \A r \in Queued(d) : s_semAdd[d] = a
    <3>1. s_semAdd \in [Semd -> Sem \cup {NoAddr}]
      BY DEF QInv, Base, Structure, TypeOK, SemTypes
    <3>2. d \notin aslh => Queued(d) = {}
      BY DEF QInv, Base, Structure, AslInv, AslQueues, Queued, ToSet
    <3> QED BY <2>3, <3>1, <3>2 DEF Inserted
  <2>6. IoWaiters' = IF a \in DevSem THEN IoWaiters \cup {q} ELSE IoWaiters
    BY <2>4, <2>5 DEF IoWaiters
  <2>7. q \notin IoWaiters
    BY <2>2 DEF IoWaiters
  <2>8. isDev(a) <=> a \in DevSem
    BY DEF isDev, DevSem
  <2>9. Cardinality(IoWaiters \cup {q}) = Cardinality(IoWaiters) + 1
    BY <2>7, IoWaitersFinite, FS_AddElement, Zenon
  <2> QED BY <1>2, <2>6, <2>8, <2>9 DEF Count
<1> QED BY <1>1, <1>2 DEF P, aslVars

\* A V operation uncounts whom it wakes.
LEMMA WakeCounts ==
  ASSUME QInv, Overrun = {}, Count, wake
  PROVE  Count'
<1>1. /\ satisfied(headBlocked(vop.sem)) /\ removeBlocked(vop.sem)
      /\ g_soft_block_count' = IF isDev(s_semAdd[p_cursem[headBlocked(vop.sem)]])
                               THEN g_soft_block_count - 1
                               ELSE g_soft_block_count
      /\ UNCHANGED s_semAdd
  BY Zenon DEF wake
<1>2. headBlocked(vop.sem) # NULL
  BY <1>1, Zenon DEF satisfied
<1>3. PICK h \in Proc : h = headBlocked(vop.sem)
  BY <1>2, HeadBlockedType, Zenon DEF QInv, Base, Structure, TypeOK
<1>4. PICK d \in Semd : d \in aslh /\ Removed(d, h)
  BY <1>1, <1>2, <1>3, RemoveEffect, Zenon DEF QInv
<1>5. h \in Queued(d) /\ \A e \in Semd \ {d} : h \notin Queued(e)
  BY <1>4 DEF Removed, Queued, QInv, Base, Structure, Apart
<1>6. \A e \in Semd : Queued(e)' = IF e = d THEN Queued(d) \ {h} ELSE Queued(e)
  BY <1>4 DEF Removed, Queued
<1>7. p_cursem[h] = d
  BY <1>5 DEF QInv, Base, Structure, AslInv, AslCursem
<1>8. isDev(s_semAdd[d]) <=> s_semAdd[d] \in DevSem
  BY DEF isDev, DevSem
<1>9. CASE s_semAdd[d] \in DevSem
  <2>1. h \in IoWaiters /\ IoWaiters' = IoWaiters \ {h}
    BY <1>1, <1>5, <1>6, <1>9 DEF IoWaiters
  <2>2. Cardinality(IoWaiters \ {h}) = Cardinality(IoWaiters) - 1
    BY <2>1, IoWaitersFinite, FS_RemoveElement, Zenon
  <2> QED BY <1>1, <1>3, <1>7, <1>8, <1>9, <2>1, <2>2 DEF Count
<1>10. CASE s_semAdd[d] \notin DevSem
  <2>1. IoWaiters' = IoWaiters
    BY <1>1, <1>5, <1>6, <1>10 DEF IoWaiters
  <2> QED BY <1>1, <1>3, <1>7, <1>8, <1>10, <2>1 DEF Count
<1> QED BY <1>9, <1>10

LEMMA CountStep ==
  ASSUME NoKill, Overrun = {}, Inv, Count, [Next]_vars
  PROVE  Count'
<1>0. QInv /\ phase \notin {"search", "kill"}
  BY DEF Inv, QInv, Base, Structure, NotKilling
<1>1. CASE wake
  BY <1>0, <1>1, WakeCounts
<1>2. CASE \E a \in Sem, w \in Int : phase = "user" /\ P(a, w)
  BY <1>0, <1>2, PCounts
<1>3. CASE UNCHANGED <<s_procq, s_semAdd, g_soft_block_count>>
  BY <1>3, CountStays
<1>4. \/ wake \/ \E a \in Sem, w \in Int : phase = "user" /\ P(a, w)
      \/ UNCHANGED <<s_procq, s_semAdd, g_soft_block_count>>
  <2> USE DEF aslVars, countVars
  <2>1. CASE Internal /\ ~wake
    BY <1>0, <2>1 DEF Internal, scheduler, childByPid, killChild, reap, endV,
                      tick, slice
  <2>2. CASE createProcess \/ terminateSelf \/ \E p \in Proc : terminateByPid(p_pid[p])
    BY <2>2 DEF createProcess, terminateSelf, terminateByPid, unchangedBySearch
  <2>3. ASSUME NEW a \in UserSem, NEW w \in Weights, semop(a, w)
        PROVE  (phase = "user" /\ P(a, w) /\ a \in Sem /\ w \in Int)
               \/ UNCHANGED <<s_procq, s_semAdd, g_soft_block_count>>
    BY <2>3, ConstAssumption DEF semop, Issues, Sem
  <2>4. CASE waitClock \/ \E u \in Unit : ioDevop(u)
    <3>1. -1 \in Int
      OBVIOUS
    <3> QED BY <2>4, <3>1 DEF waitClock, ioDevop, Issues, Sem, DevCells
  <2>5. CASE Interrupt
    BY <2>5 DEF Interrupt, handleTimer, handleDevices
  <2>6. CASE (\E u \in Unit : deviceDone(u)) \/ stopped \/ UNCHANGED vars
    BY <2>6 DEF deviceDone, stopped, vars
  <2> QED BY <2>1, <2>2, <2>3, <2>4, <2>5, <2>6, Zenon DEF Next, Call
<1> QED BY <1>1, <1>2, <1>3, <1>4

LEMMA VerdictStep ==
  ASSUME NoKill, Inv, Verdict, [Next]_vars
  PROVE  Verdict'
<1> USE DEF countVars
<1>0. phase \notin {"search", "kill"} /\ g_soft_block_count \in Int
  BY DEF Inv, QInv, Base, Structure, NotKilling, TypeOK, CountTypes
<1>1. CASE scheduler
  BY <1>0, <1>1 DEF scheduler, Verdict
<1>2. CASE phase' \notin {"idle", "deadlock"}
  BY <1>2 DEF Verdict
<1>3. CASE UNCHANGED <<phase, g_soft_block_count>>
  BY <1>3 DEF Verdict
<1>4. \/ scheduler \/ phase' \notin {"idle", "deadlock"}
      \/ UNCHANGED <<phase, g_soft_block_count>>
  <2>1. CASE Internal /\ ~scheduler
    BY <1>0, <2>1 DEF Internal, childByPid, killChild, reap, wake, endV, tick,
                      slice, startV, Resumed
  <2>2. ASSUME NEW a, NEW w, phase = "user", P(a, w)
        PROVE  phase' \notin {"idle", "deadlock"}
    BY <2>2 DEF P
  <2>3. CASE Call
    BY <2>2, <2>3 DEF Call, createProcess, terminateSelf, terminateByPid, semop,
                      waitClock, ioDevop, Issues, enter, startV
  <2>4. CASE Interrupt
    BY <2>4 DEF Interrupt, handleTimer, handleDevices, startV, Resumed
  <2>5. CASE (\E u \in Unit : deviceDone(u)) \/ stopped \/ UNCHANGED vars
    BY <2>5 DEF deviceDone, stopped, vars
  <2> QED BY <2>1, <2>3, <2>4, <2>5, Zenon DEF Next
<1> QED BY <1>1, <1>2, <1>3, <1>4

-----------------------------------------------------------------------------
IdleInv == Inv /\ Count /\ Verdict

LEMMA IdleInvariant == ASSUME NoKill, Overrun = {} PROVE Spec => []IdleInv
<1>1. Init => IdleInv
  <2> SUFFICES ASSUME Init PROVE IdleInv
    OBVIOUS
  <2>1. \A d \in Semd : Queued(d) = {}
    BY DEF Init, Queued, ToSet
  <2>2. IoWaiters = {}
    BY <2>1 DEF IoWaiters
  <2>3. Cardinality(IoWaiters) = 0
    BY <2>2, FS_EmptySet
  <2> QED BY <2>3, QInit DEF Init, IdleInv, Count, Verdict
<1>2. IdleInv /\ [Next]_vars => IdleInv'
  <2> SUFFICES ASSUME IdleInv, [Next]_vars PROVE IdleInv'
    OBVIOUS
  <2>1. TypeOK'
    BY TypeNext DEF IdleInv, Inv, QInv, Base, Structure
  <2>2. Inv'
    BY <2>1, StepKeeps DEF IdleInv, Inv, QInv, Base, Structure
  <2> QED BY <2>2, CountStep, VerdictStep DEF IdleInv
<1> QED BY <1>1, <1>2, PTL DEF Spec

\* Without terminations g_soft_block_count is the number of processes that
\* wait for a device or for the clock.
THEOREM SoftCountExact ==
  ASSUME NoKill, Overrun = {} PROVE Spec => []SoftExact
<1>1. IdleInv => SoftExact
  BY AwaitsIoMeans DEF IdleInv, Inv, QInv, Base, Structure, Count, SoftExact
<1> QED BY <1>1, IdleInvariant, PTL

\* Without terminations the processor waits only when an interrupt will make
\* a process ready.
THEOREM WaitIsJustified ==
  ASSUME NoKill, Overrun = {} PROVE Spec => []IdleJustified
<1>1. IdleInv => IdleJustified
  <2> SUFFICES ASSUME IdleInv, phase = "idle"
               PROVE  {p \in Proc : AwaitsIO(p)} # {}
    BY DEF IdleJustified
  <2>1. Cardinality(IoWaiters) > 0
    BY DEF IdleInv, Count, Verdict
  <2>2. IoWaiters # {}
    BY <2>1, FS_EmptySet
  <2> QED BY <2>2, AwaitsIoMeans DEF IdleInv, Inv, QInv, Base, Structure
<1> QED BY <1>1, IdleInvariant, PTL

\* Without terminations the PANIC for a deadlock is one: no process is left
\* that an interrupt could wake.
THEOREM PanicIsDeadlock ==
  ASSUME NoKill, Overrun = {} PROVE Spec => []NoFalseDeadlock
<1>1. IdleInv => NoFalseDeadlock
  <2> SUFFICES ASSUME IdleInv, phase = "deadlock"
               PROVE  {p \in Proc : AwaitsIO(p)} = {}
    BY DEF NoFalseDeadlock
  <2>1. Cardinality(IoWaiters) <= 0
    BY DEF IdleInv, Count, Verdict
  <2>2. Cardinality(IoWaiters) = 0
    BY <2>1, IoWaitersFinite
  <2>3. IoWaiters = {}
    BY <2>2, IoWaitersFinite, FS_EmptySet, Zenon
  <2> QED BY <2>3, AwaitsIoMeans DEF IdleInv, Inv, QInv, Base, Structure
<1> QED BY <1>1, IdleInvariant, PTL
-----------------------------------------------------------------------------
(* The waiters of a semaphore *)

Waiters(a) == {p \in Proc : \E d \in Semd : p \in Queued(d) /\ s_semAdd[d] = a}

LEMMA WaitersAre ==
  ASSUME QInv, NEW a \in Sem
  PROVE  /\ {p \in Blocked : WaitsOn(p) = a} = Waiters(a)
         /\ headBlocked(a) = NULL => Waiters(a) = {}
         /\ headBlocked(a) # NULL => headBlocked(a) \in Waiters(a)
         /\ g_current_process \notin Waiters(a)
         /\ Waiters(a) \cap ToSet(pcbFree) = {}
<1> USE DEF QInv, Base, Structure
<1>1. \A d \in Semd : \A p \in Queued(d) : p_cursem[p] = d /\ p \in Proc
  BY DEF AslInv, AslCursem, TypeOK, SemTypes, Queued, ToSet
<1>2. {p \in Blocked : WaitsOn(p) = a} = Waiters(a)
  BY <1>1 DEF Blocked, WaitsOn, Waiters, Queued
<1>3. ASSUME headBlocked(a) = NULL
      PROVE  Waiters(a) = {}
  <2>1. \A d \in aslh : s_semAdd[d] # a
    BY <1>3, OnAslFacts
  <2>2. \A d \in Semd \ aslh : Queued(d) = {}
    BY DEF AslInv, AslQueues, Queued, ToSet
  <2> QED BY <2>1, <2>2 DEF Waiters
<1>4. headBlocked(a) # NULL => headBlocked(a) \in Waiters(a)
  BY OnAslFacts DEF Waiters
<1> QED BY <1>2, <1>3, <1>4 DEF Apart, Waiters

\* A P operation without success adds its caller to the waiters of its
\* semaphore, and to no others.
LEMMA PWaiters ==
  ASSUME QInv, NEW a \in Sem, NEW weight \in Int, weight < 0, phase = "user",
         P(a, weight)
  PROVE  /\ \A b \in Sem \ {a} : Waiters(b)' = Waiters(b)
         /\ \A b \in Sem \ {a} : \A p \in Waiters(b) : res_requested'[p] = res_requested[p]
         /\ \/ /\ UNCHANGED aslVars /\ Waiters(a)' = Waiters(a) /\ UNCHANGED phase
               /\ granted(a, weight) /\ semval' = [semval EXCEPT ![a] = @ + weight]
            \/ /\ UNCHANGED semval
               /\ Waiters(a)' = Waiters(a) \cup {g_current_process}
               /\ g_current_process \in Proc /\ g_current_process \notin Waiters(a)
               /\ g_current_process' = NULL /\ phase' = "sched"
               /\ res_requested' = [res_requested EXCEPT ![g_current_process] = 0 - weight]
<1>1. CASE /\ granted(a, weight)
           /\ semval' = [semval EXCEPT ![a] = @ + weight]
           /\ UNCHANGED <<aslVars, g_current_process, g_soft_block_count, phase>>
  BY <1>1 DEF Waiters, Queued, aslVars
<1>2. CASE /\ ~granted(a, weight) /\ CanInsert(a)
           /\ insertBlocked(a, g_current_process)
           /\ res_requested' =
                [res_requested EXCEPT ![g_current_process] = -weight]
           /\ g_current_process' = NULL
           /\ phase' = "sched"
           /\ UNCHANGED semval
  <2>1. PICK q \in Proc : q = g_current_process
    BY DEF QInv, Base, TypeOK, ProcTypes, PhaseTypes
  <2>2. \A e \in Semd : q \notin Queued(e)
    BY <2>1 DEF QInv, Base, Structure, Apart
  <2>3. PICK d \in Semd : Inserted(a, q, d)
    BY <1>2, <2>1, <2>2, InsertEffect, Zenon DEF QInv
  <2>4. \A e \in Semd : Queued(e)' = IF e = d THEN Queued(d) \cup {q} ELSE Queued(e)
    BY <2>3 DEF Inserted, Queued
  <2>5. /\ s_semAdd'[d] = a
        /\ \A e \in Semd \ {d} : s_semAdd'[e] = s_semAdd[e]
        /\ \A r \in Queued(d) : s_semAdd[d] = a
    <3>1. s_semAdd \in [Semd -> Sem \cup {NoAddr}]
      BY DEF QInv, Base, TypeOK, SemTypes
    <3>2. d \notin aslh => Queued(d) = {}
      BY DEF QInv, Base, Structure, AslInv, AslQueues, Queued, ToSet
    <3> QED BY <2>3, <3>1, <3>2 DEF Inserted
  <2>6. Waiters(a)' = Waiters(a) \cup {q}
    BY <2>4, <2>5 DEF Waiters
  <2>7. \A b \in Sem \ {a} : Waiters(b)' = Waiters(b)
    BY <2>4, <2>5 DEF Waiters
  <2>8. \A b : q \notin Waiters(b)
    BY <2>2 DEF Waiters
  <2>9. res_requested \in [Proc -> Nat] /\ \A b : Waiters(b) \subseteq Proc
    BY DEF QInv, Base, TypeOK, SemTypes, Waiters
  <2>10. \A b \in Sem \ {a} : \A p \in Waiters(b) : res_requested'[p] = res_requested[p]
    BY <1>2, <2>1, <2>8, <2>9
  <2>11. -weight = 0 - weight
    OBVIOUS
  <2> QED BY <1>2, <2>1, <2>6, <2>7, <2>8, <2>10, <2>11
<1> QED BY <1>1, <1>2, PHasSemd DEF P

\* A step of a V takes the head from the waiters of its semaphore.
LEMMA WakeWaiters ==
  ASSUME QInv, wake
  PROVE  LET h == headBlocked(vop.sem) IN
         /\ h \in Waiters(vop.sem) /\ Waiters(vop.sem)' = Waiters(vop.sem) \ {h}
         /\ vop.free >= res_requested[h]
         /\ vop' = [vop EXCEPT !.free = vop.free - res_requested[h]]
         /\ \A b \in Sem \ {vop.sem} : Waiters(b)' = Waiters(b) /\ h \notin Waiters(b)
         /\ res_requested' = [res_requested EXCEPT ![h] = 0]
<1>1. /\ satisfied(headBlocked(vop.sem)) /\ removeBlocked(vop.sem)
      /\ res_requested' = [res_requested EXCEPT ![headBlocked(vop.sem)] = 0]
      /\ vop' = [vop EXCEPT !.free = vop.free - res_requested[headBlocked(vop.sem)]]
      /\ UNCHANGED s_semAdd
  BY Zenon DEF wake, freeLeft
<1>2. /\ headBlocked(vop.sem) # NULL
      /\ vop.free >= res_requested[headBlocked(vop.sem)]
  BY <1>1, Zenon DEF satisfied
<1>3. PICK h \in Proc : h = headBlocked(vop.sem)
  BY <1>2, HeadBlockedType, Zenon DEF QInv, Base, TypeOK
<1>4. PICK d \in Semd : d \in aslh /\ s_semAdd[d] = vop.sem /\ Removed(d, h)
  BY <1>1, <1>2, <1>3, RemoveEffect, Zenon DEF QInv
<1>5. h \in Queued(d) /\ \A e \in Semd \ {d} : h \notin Queued(e)
  BY <1>4 DEF Removed, Queued, QInv, Base, Structure, Apart
<1>6. \A e \in Semd : Queued(e)' = IF e = d THEN Queued(d) \ {h} ELSE Queued(e)
  BY <1>4 DEF Removed, Queued
<1>7. h \in Waiters(vop.sem)
  BY <1>4, <1>5 DEF Waiters
<1>8. UNCHANGED s_semAdd
  BY <1>1
<1>9. \A b \in Sem \ {vop.sem} : Waiters(b)' = Waiters(b) /\ h \notin Waiters(b)
  BY <1>4, <1>5, <1>6, <1>8 DEF Waiters
<1>10. \A p \in Proc : (\E e \in Semd : p \in Queued(e)' /\ s_semAdd[e] = vop.sem)
                       <=> p # h /\ \E e \in Semd : p \in Queued(e) /\ s_semAdd[e] = vop.sem
  BY <1>4, <1>5, <1>6
<1> DEFINE W(s) == {p \in Proc : \E e \in Semd : p \in Queued(e)' /\ s_semAdd[e] = s}
<1>11. W(vop.sem) = Waiters(vop.sem) \ {h}
  BY <1>10 DEF Waiters
<1> QED BY <1>1, <1>2, <1>3, <1>7, <1>8, <1>9, <1>11 DEF Waiters

\* A step that moves no blocked process.
LEMMA WaitersStay ==
  ASSUME UNCHANGED <<s_procq, s_semAdd>>
  PROVE  \A a : Waiters(a)' = Waiters(a)
BY DEF Waiters, Queued

LEMMA WaitersFinite ==
  ASSUME NEW a
  PROVE  IsFiniteSet(Waiters(a)) /\ Cardinality(Waiters(a)) \in Nat
<1>1. MAXPROC \in Int /\ 1 \in Int
  BY ConstAssumption
<1>2. IsFiniteSet(Proc)
  BY <1>1, FS_Interval, Zenon DEF Proc
<1>3. Waiters(a) \subseteq Proc
  BY DEF Waiters
<1>4. IsFiniteSet(Waiters(a))
  BY <1>2, <1>3, FS_Subset, Zenon
<1> QED BY <1>4, FS_CardinalityType, Zenon

\* A new process is not one that waits.
LEMMA CreateWaiters ==
  ASSUME QInv, createProcess
  PROVE  /\ \A a : Waiters(a)' = Waiters(a)
         /\ \A a : \A p \in Waiters(a) : /\ res_requested'[p] = res_requested[p]
                                         /\ p_pid'[p] = p_pid[p]
<1>1. PICK n \in Proc : n = Head(pcbFree) /\ n \in ToSet(pcbFree)
  BY TailProperties, Zenon DEF createProcess, QInv, Base, TypeOK, ProcTypes
<1>2. /\ UNCHANGED <<s_procq, s_semAdd>>
      /\ res_requested' = [res_requested EXCEPT ![n] = 0]
      /\ p_pid' = [p_pid EXCEPT ![n] = pid_selector]
  BY <1>1 DEF createProcess
<1>3. \A a : Waiters(a) \subseteq Proc \ {n}
  BY <1>1 DEF QInv, Base, Structure, Apart, Waiters
<1>4. /\ res_requested \in [Proc -> Nat] /\ p_pid \in [Proc -> Int]
  BY DEF QInv, Base, TypeOK, SemTypes, ProcTypes
<1> QED BY <1>2, <1>3, <1>4, WaitersStay

-----------------------------------------------------------------------------
(* The waiters of the clock *)

\* What the next tick, or the one in progress, has for the waiters.
Covered == IF phase = "semop" /\ vop.sem = Clock THEN vop.free
                                                ELSE g_pseudoClockBlk

ClockInv == /\ \A p \in Waiters(Clock) : res_requested[p] = 1
            /\ Cardinality(Waiters(Clock)) <= Covered

LEMMA ClockStays ==
  ASSUME ClockInv, UNCHANGED <<s_procq, s_semAdd, g_pseudoClockBlk>>,
         \A p \in Waiters(Clock) : res_requested'[p] = res_requested[p],
         /\ phase = "semop" /\ vop.sem = Clock
           <=> phase' = "semop" /\ vop'.sem = Clock,
         phase = "semop" => UNCHANGED vop
  PROVE  ClockInv'
BY WaitersStay DEF ClockInv, Covered

LEMMA ClockStep ==
  ASSUME NoKill, Inv, ClockInv, [Next]_vars
  PROVE  ClockInv'
<1> USE DEF countVars, aslVars
<1>0. QInv /\ phase \notin {"search", "kill"} /\ Clock \in Sem
  BY DEF Inv, QInv, NotKilling, Sem
<1>1. /\ semval \in [Sem -> Nat] /\ vop.free \in Nat /\ vop.sem \in Sem
      /\ g_pseudoClockBlk \in Nat /\ res_requested \in [Proc -> Nat]
      /\ vop \in [sem : Sem, free : Nat, ret : {"user", "tick", "dev"},
                   head : Proc \cup {NULL}, status : Int]
  BY <1>0 DEF QInv, Base, TypeOK, SemTypes, PhaseTypes, CountTypes
<1>2. /\ IsFiniteSet(Waiters(Clock)) /\ Cardinality(Waiters(Clock)) \in Nat
      /\ Waiters(Clock) \subseteq Proc
  BY WaitersFinite DEF Waiters
<1>3. CASE wake
  <2>1. phase = "semop" /\ phase' = "semop" /\ UNCHANGED g_pseudoClockBlk
    BY <1>3 DEF wake
  <2>2. PICK h : h = headBlocked(vop.sem)
    OBVIOUS
  <2>3. /\ h \in Waiters(vop.sem) /\ Waiters(vop.sem)' = Waiters(vop.sem) \ {h}
        /\ vop.free >= res_requested[h]
        /\ vop' = [vop EXCEPT !.free = vop.free - res_requested[h]]
        /\ \A b \in Sem \ {vop.sem} : Waiters(b)' = Waiters(b) /\ h \notin Waiters(b)
        /\ res_requested' = [res_requested EXCEPT ![h] = 0]
    BY <1>0, <1>3, <2>2, WakeWaiters
  <2>4. CASE vop.sem = Clock
    <3>1. vop'.sem = Clock /\ vop'.free = vop.free - 1
      BY <1>1, <2>3, <2>4 DEF ClockInv
    <3>2. Cardinality(Waiters(Clock) \ {h}) = Cardinality(Waiters(Clock)) - 1
      BY <1>2, <2>3, <2>4, FS_RemoveElement, Zenon
    <3>3. Waiters(Clock)' = Waiters(Clock) \ {h}
      BY <2>3, <2>4
    <3> QED BY <1>1, <1>2, <2>1, <2>3, <2>4, <3>1, <3>2, <3>3 DEF ClockInv, Covered
  <2>5. CASE vop.sem # Clock
    <3>1. vop'.sem # Clock
      BY <1>1, <2>3, <2>5
    <3>2. Waiters(Clock)' = Waiters(Clock) /\ h \notin Waiters(Clock)
      BY <1>0, <2>3, <2>5
    <3> QED BY <1>1, <1>2, <2>1, <2>3, <2>5, <3>1, <3>2 DEF ClockInv, Covered
  <2> QED BY <2>4, <2>5
<1>4. CASE endV
  <2>1. /\ ~satisfied(headBlocked(vop.sem)) /\ phase = "semop" /\ phase' # "semop"
        /\ UNCHANGED <<s_procq, s_semAdd, res_requested, g_pseudoClockBlk>>
    BY <1>4 DEF endV, Resumed
  <2>2. CASE vop.sem = Clock
    <3>1. Waiters(Clock) = {}
      <4>1. CASE headBlocked(Clock) = NULL
        BY <1>0, <4>1, WaitersAre
      <4>2. CASE headBlocked(Clock) # NULL
        <5>1. headBlocked(Clock) \in Waiters(Clock)
          BY <1>0, <4>2, WaitersAre
        <5>2. res_requested[headBlocked(Clock)] = 1
          BY <5>1 DEF ClockInv
        <5>3. ~(vop.free >= 1)
          BY <2>1, <2>2, <4>2, <5>2 DEF satisfied
        <5>4. Cardinality(Waiters(Clock)) = 0
          BY <1>1, <1>2, <2>1, <2>2, <5>3 DEF ClockInv, Covered
        <5> QED BY <1>2, <5>4, FS_EmptySet, Zenon
      <4> QED BY <4>1, <4>2
    <3>2. Waiters(Clock)' = {}
      BY <2>1, <3>1, WaitersStay
    <3>3. Cardinality(Waiters(Clock)') = 0
      BY <3>2, FS_EmptySet
    <3> QED BY <1>1, <2>1, <3>2, <3>3 DEF ClockInv, Covered
  <2>3. CASE vop.sem # Clock
    BY <2>1, <2>3, WaitersStay DEF ClockInv, Covered
  <2> QED BY <2>2, <2>3
<1>5. CASE tick
  <2>1. /\ phase = "tick"
        /\ UNCHANGED <<s_procq, s_semAdd, res_requested>>
    BY <1>5 DEF tick
  <2>2. CASE /\ phase' = "semop" /\ vop'.sem = Clock
             /\ vop'.free = g_pseudoClockBlk + semval[Clock]
    <3>1. semval[Clock] \in Nat
      BY <1>0, <1>1
    <3> QED BY <1>1, <1>2, <2>1, <2>2, <3>1, WaitersStay DEF ClockInv, Covered
  <2>3. CASE phase' = "slice" /\ UNCHANGED g_pseudoClockBlk
    BY <2>1, <2>3, WaitersStay DEF ClockInv, Covered
  <2> QED BY <1>5, <2>2, <2>3 DEF tick, startV
<1>6. CASE waitClock
  <2>1. /\ phase = "user" /\ P(Clock, -1) /\ countWaiter
    BY <1>6 DEF waitClock, Issues
  <2>2. phase' # "noSemd"
    BY <1>0, <2>1, PHasSemd
  <2>3. g_pseudoClockBlk' = g_pseudoClockBlk + 1
    BY <2>1, <2>2 DEF countWaiter
  <2>4. -1 \in Int /\ -1 < 0 /\ 0 - (-1) = 1
    OBVIOUS
  <2>5. CASE UNCHANGED aslVars /\ Waiters(Clock)' = Waiters(Clock) /\ UNCHANGED phase
    BY <1>1, <1>2, <2>1, <2>3, <2>5 DEF ClockInv, Covered
  <2>6. CASE /\ Waiters(Clock)' = Waiters(Clock) \cup {g_current_process}
             /\ g_current_process \in Proc /\ g_current_process \notin Waiters(Clock)
             /\ phase' = "sched"
             /\ res_requested' = [res_requested EXCEPT ![g_current_process] = 0 - (-1)]
    <3>1. Cardinality(Waiters(Clock) \cup {g_current_process})
            = Cardinality(Waiters(Clock)) + 1
      BY <1>2, <2>6, FS_AddElement, Zenon
    <3>2. Cardinality(Waiters(Clock)') <= Covered'
      BY <1>1, <1>2, <2>1, <2>3, <2>6, <3>1 DEF ClockInv, Covered
    <3>3. \A p \in Waiters(Clock)' : res_requested'[p] = 1
      BY <1>1, <1>2, <2>4, <2>6 DEF ClockInv
    <3> QED BY <3>2, <3>3 DEF ClockInv
  <2> QED BY <1>0, <2>1, <2>4, <2>5, <2>6, PWaiters
<1>7. ASSUME NEW a \in Sem \ {Clock}, NEW w \in Int, w < 0, phase = "user", P(a, w),
             UNCHANGED g_pseudoClockBlk
      PROVE  ClockInv'
  <2>1. /\ Waiters(Clock)' = Waiters(Clock) /\ phase' # "semop"
        /\ \A p \in Waiters(Clock) : res_requested'[p] = res_requested[p]
    BY <1>0, <1>7, PWaiters
  <2> QED BY <1>7, <2>1 DEF ClockInv, Covered
<1>8. CASE createProcess
  <2>1. UNCHANGED <<phase, vop, g_pseudoClockBlk>>
    BY <1>8 DEF createProcess
  <2> QED BY <1>0, <1>8, <2>1, CreateWaiters DEF ClockInv, Covered
<1>9. Clock \notin UserSem \cup DevCells
  BY AddrAssumption
<1>10. CASE \E a \in UserSem, w \in Weights : semop(a, w)
  <2>1. PICK a \in UserSem, w \in Weights : semop(a, w)
    BY <1>10
  <2>2. a \in Sem \ {Clock} /\ w \in Int /\ phase = "user" /\ UNCHANGED g_pseudoClockBlk
    BY <1>9, <2>1, ConstAssumption DEF Sem, semop, Issues
  <2>3. CASE w < 0 /\ P(a, w)
    BY <1>7, <2>2, <2>3
  <2>4. CASE /\ phase' \in {"semop", "badWeight"}
             /\ phase' = "semop" => vop'.sem = a
             /\ UNCHANGED <<s_procq, s_semAdd, res_requested>>
    BY <2>2, <2>4, ClockStays
  <2> QED BY <2>1, <2>3, <2>4 DEF semop, startV
<1>11. CASE \E u \in Unit : ioDevop(u)
  <2>1. PICK u \in Unit : ioDevop(u)
    BY <1>11
  <2>2. /\ IoSem(u) \in Sem \ {Clock} /\ phase = "user" /\ P(IoSem(u), -1)
        /\ UNCHANGED g_pseudoClockBlk /\ -1 \in Int /\ -1 < 0
    BY <1>9, <2>1 DEF Sem, DevCells, ioDevop, Issues
  <2> QED BY <1>7, <2>2
<1>12. CASE \E u \in Unit : handleDevices(u)
  <2>1. PICK u \in Unit : handleDevices(u)
    BY <1>12
  <2>2. /\ IntSem(u) # Clock /\ phase \in {"user", "idle"}
        /\ phase' = "semop" => vop'.sem = IntSem(u)
        /\ UNCHANGED <<s_procq, s_semAdd, res_requested, g_pseudoClockBlk>>
    BY <1>9, <2>1 DEF DevCells, handleDevices, Interruptible, startV, Resumed
  <2> QED BY <2>2, ClockStays
<1>13. ASSUME UNCHANGED <<s_procq, s_semAdd, res_requested, g_pseudoClockBlk>>,
              \/ phase # "semop" /\ phase' # "semop"
              \/ UNCHANGED <<phase, vop>>
       PROVE  ClockInv'
  BY <1>13, ClockStays
<1>14. \/ wake \/ endV \/ tick \/ Call \/ \E u \in Unit : handleDevices(u)
       \/ /\ UNCHANGED <<s_procq, s_semAdd, res_requested, g_pseudoClockBlk>>
          /\ \/ phase # "semop" /\ phase' # "semop"
             \/ UNCHANGED <<phase, vop>>
  BY <1>0 DEF Next, Internal, Interrupt, scheduler, childByPid, killChild, reap,
              slice, Resumed, handleTimer, Interruptible, deviceDone, stopped, vars
<1> QED
  <2>1. CASE Call
    <3>1. ~terminateSelf /\ \A p \in Proc : ~terminateByPid(p_pid[p])
      BY DEF NoKill, terminateSelf, terminateByPid, Issues
    <3> QED BY <1>6, <1>8, <1>10, <1>11, <2>1, <3>1, Zenon DEF Call
  <2> QED BY <1>3, <1>4, <1>5, <1>12, <1>13, <1>14, <2>1, Zenon

LEMMA ClockMeans ==
  ASSUME Inv, ClockInv
  PROVE  ClockCovered
<1>1. {p \in Blocked : WaitsOn(p) = Clock} = Waiters(Clock)
  BY WaitersAre DEF Inv, Sem
<1> QED BY <1>1 DEF ClockInv, Covered, ClockCovered

\* Without terminations every tick finds a g_pseudoClockBlk that wakes all
\* who wait for the clock, however many of the earlier ticks' units are left.
THEOREM ClockWakesAll == ASSUME NoKill PROVE Spec => []ClockCovered
<1>1. Init => Inv /\ ClockInv
  <2> SUFFICES ASSUME Init PROVE ClockInv
    BY QInit
  <2>1. Waiters(Clock) = {}
    BY DEF Init, Waiters, Queued, ToSet
  <2>2. Cardinality(Waiters(Clock)) = 0
    BY <2>1, FS_EmptySet
  <2> QED BY <2>1, <2>2 DEF Init, ClockInv, Covered
<1>2. Inv /\ ClockInv /\ [Next]_vars => (Inv /\ ClockInv)'
  <2> SUFFICES ASSUME Inv, ClockInv, [Next]_vars PROVE Inv' /\ ClockInv'
    OBVIOUS
  <2>1. TypeOK'
    BY TypeNext DEF Inv, QInv, Base
  <2>2. Structure' /\ Rest' /\ NotKilling' /\ phase' # "noSemd"
    BY StepKeeps
  <2> QED BY <2>1, <2>2, ClockStep DEF Inv, QInv, Base
<1>3. Inv /\ ClockInv => ClockCovered
  BY ClockMeans
<1> QED BY <1>1, <1>2, <1>3, PTL DEF Spec

-----------------------------------------------------------------------------
(* The waiters of the devices, when processes use a device one at a time   *)
(* and none is the receiver of a terminal, which handleDevices looks for   *)
(* behind g_dev_s.                                                         *)

OneAtATime == Exclusive /\ \A u \in Unit : ~u.recv

Signalling(a) == phase = "semop" /\ vop.sem = a

\* The V for the interrupt of u is in progress: its loop has yet to wake the
\* process that handleDevices noted, or has done so.
Delivering(u) ==
  /\ vop.ret = "dev" /\ dev[u].st = "idle"
  /\ vop.head \in Proc
  /\ vop.status = IF u.line = IL_TERMINAL THEN p_pid[vop.head] ELSE 0
  /\ \/ Waiters(IoSem(u)) = {vop.head} /\ vop.free = 1
     \/ Waiters(IoSem(u)) = {} /\ vop.free = 0

\* The issuer of the operation on u, and no other process, waits for it.
Awaiting(u) ==
  IF dev[u].st = "idle" THEN Waiters(IoSem(u)) = {}
  ELSE \E p \in Proc : Waiters(IoSem(u)) = {p} /\ p_pid[p] = dev[u].by

UnitInv(u) ==
  /\ semval[IoSem(u)] = 0
  /\ \A p \in Waiters(IoSem(u)) : res_requested[p] = 1
  /\ IF Signalling(IoSem(u)) THEN Delivering(u) ELSE Awaiting(u)

StatusInv ==
  /\ \A p \in Proc : p_a1[p] \in {0, p_pid[p]}
  /\ phase = "semop" /\ vop.ret = "dev" => \E u \in Unit : vop.sem = IoSem(u)

IoInv == (\A u \in Unit : UnitInv(u)) /\ StatusInv

LEMMA UnitSems ==
  ASSUME OneAtATime, NEW u \in Unit
  PROVE  /\ IoSem(u) = IntSem(u) /\ IoSem(u) \in Sem /\ IoSem(u) \in DevCells
         /\ IoSem(u) # Clock /\ IoSem(u) \notin UserSem /\ IoSem(u) \notin PastEnd
         /\ \A v \in Unit : IoSem(v) = IoSem(u) => v = u
<1>1. u.line \in DEV_IL_START .. IL_TERMINAL
  BY UnitAssumption
<1>2. \A v \in Unit : IoSem(v) = Cell(v.line - DEV_IL_START, v.dev)
                     /\ IntSem(v) = Cell(v.line - DEV_IL_START, v.dev)
  BY DEF OneAtATime, IoSem, IntSem, Cell, DEV_IL_START, IL_TERMINAL
<1>3. IoSem(u) \in DevCells
  BY DEF DevCells
<1>4. IoSem(u) \notin PastEnd
  BY <1>1, <1>2 DEF PastEnd, Cell, N_DEV_TYPES, N_EXT_IL, DEV_IL_START, IL_TERMINAL
<1>5. ASSUME NEW v \in Unit, IoSem(v) = IoSem(u)
      PROVE  v = u
  <2>1. u.line - DEV_IL_START = v.line - DEV_IL_START /\ u.dev = v.dev
    BY <1>2, <1>5 DEF Cell
  <2>2. u.line = v.line
    BY <2>1, UnitAssumption DEF DEV_IL_START, IL_TERMINAL
  <2>3. u.recv = v.recv
    BY UnitAssumption DEF OneAtATime
  <2> QED BY <2>1, <2>2, <2>3, UnitAssumption
<1> QED BY <1>2, <1>3, <1>4, <1>5, AddrAssumption DEF Sem

\* A step that neither concerns u nor its semaphore.
LEMMA UnitStays ==
  ASSUME NEW u \in Unit, UnitInv(u),
         Waiters(IoSem(u))' = Waiters(IoSem(u)),
         \A p \in Waiters(IoSem(u)) : /\ res_requested'[p] = res_requested[p]
                                      /\ p_pid'[p] = p_pid[p],
         semval'[IoSem(u)] = semval[IoSem(u)],
         dev'[u].st = "idle" <=> dev[u].st = "idle",
         dev'[u].by = dev[u].by,
         Signalling(IoSem(u))' <=> Signalling(IoSem(u)),
         Signalling(IoSem(u)) => UNCHANGED <<vop, p_pid>>
  PROVE  UnitInv(u)'
<1>1. CASE Signalling(IoSem(u))
  BY <1>1 DEF UnitInv, Delivering
<1>2. CASE ~Signalling(IoSem(u))
  BY <1>2 DEF UnitInv, Awaiting
<1> QED BY <1>1, <1>2

\* The caller of ioDevop finds no unit and waits.
LEMMA IoDevopIo ==
  ASSUME OneAtATime, QInv, IoInv, NEW u \in Unit, ioDevop(u)
  PROVE  IoInv' /\ g_current_process' = NULL
<1>1. /\ phase = "user" /\ headBlocked(IoSem(u)) = NULL /\ P(IoSem(u), -1)
      /\ p_a1' = [p_a1 EXCEPT ![g_current_process] = 0]
      /\ phase' = "noSemd" \/ command(u, p_pid[g_current_process])
      /\ UNCHANGED <<p_pid, vop>>
  BY DEF ioDevop, Issues, OneAtATime, treeVars
<1>2. phase' # "noSemd"
  BY <1>1, PHasSemd
<1>3. IoSem(u) \in Sem /\ -1 \in Int /\ -1 < 0 /\ 0 - (-1) = 1
  BY UnitSems
<1>4. Waiters(IoSem(u)) = {} /\ semval[IoSem(u)] = 0 /\ dev[u].st = "idle"
  <2>1. Waiters(IoSem(u)) = {}
    BY <1>1, <1>3, WaitersAre
  <2> QED BY <1>1, <2>1 DEF IoInv, UnitInv, Signalling, Awaiting
<1>5. ~granted(IoSem(u), -1)
  BY <1>4 DEF granted
<1>6. /\ UNCHANGED semval
      /\ Waiters(IoSem(u))' = Waiters(IoSem(u)) \cup {g_current_process}
      /\ g_current_process \in Proc /\ g_current_process' = NULL /\ phase' = "sched"
      /\ res_requested' = [res_requested EXCEPT ![g_current_process] = 0 - (-1)]
  BY <1>1, <1>3, <1>5, PWaiters
<1>7. \A b \in Sem \ {IoSem(u)} :
        /\ Waiters(b)' = Waiters(b)
        /\ \A p \in Waiters(b) : res_requested'[p] = res_requested[p]
  BY <1>1, <1>3, PWaiters
<1>8. /\ res_requested \in [Proc -> Nat] /\ p_a1 \in [Proc -> Int]
      /\ dev \in [Unit -> [st : {"idle", "busy", "done"}, by : Int]]
  BY DEF QInv, Base, TypeOK, SemTypes, ProcTypes, CountTypes
<1>9. dev' = [dev EXCEPT ![u] = [st |-> "busy", by |-> p_pid[g_current_process]]]
  BY <1>1, <1>2, <1>4 DEF command
<1>10. UnitInv(u)'
  <2>1. Waiters(IoSem(u))' = {g_current_process}
    BY <1>4, <1>6
  <2>2. res_requested'[g_current_process] = 1
    BY <1>3, <1>6, <1>8
  <2>3. dev'[u].st = "busy" /\ dev'[u].by = p_pid'[g_current_process]
    BY <1>1, <1>8, <1>9
  <2>4. semval'[IoSem(u)] = 0 /\ phase' # "semop"
    BY <1>4, <1>6
  <2>5. Awaiting(u)'
    BY <1>6, <2>1, <2>3 DEF Awaiting
  <2> QED BY <2>1, <2>2, <2>4, <2>5 DEF UnitInv, Signalling
<1>11. ASSUME NEW v \in Unit, v # u
       PROVE  UnitInv(v)'
  <2>1. IoSem(v) \in Sem \ {IoSem(u)}
    BY <1>11, UnitSems
  <2>2. dev'[v] = dev[v]
    BY <1>8, <1>9, <1>11
  <2>3. ~Signalling(IoSem(v))' /\ ~Signalling(IoSem(v))
    BY <1>1, <1>6 DEF Signalling
  <2> QED BY <1>1, <1>6, <1>7, <2>1, <2>2, <2>3, UnitStays DEF IoInv
<1>12. StatusInv'
  <2>1. \A p \in Proc : p_a1'[p] \in {0, p_pid'[p]}
    BY <1>1, <1>8 DEF IoInv, StatusInv
  <2> QED BY <1>6, <2>1 DEF StatusInv
<1> QED BY <1>6, <1>10, <1>11, <1>12 DEF IoInv

\* handleDevices finds the issuer at the head of the queue and starts a V.
LEMMA HandleDevicesIo ==
  ASSUME OneAtATime, QInv, IoInv, NEW u \in Unit, handleDevices(u)
  PROVE  IoInv'
<1>1. /\ phase \in {"user", "idle"} /\ dev[u].st = "done" /\ IoSem(u) = IntSem(u)
      /\ dev' = [dev EXCEPT ![u] = [st |-> "idle", by |-> 0]]
      /\ \/ semval[IoSem(u)] >= 1
         \/ startV(IoSem(u), 1, "dev", headBlocked(IoSem(u)), statusOf(u))
      /\ UNCHANGED <<s_procq, s_semAdd, res_requested, semval, p_pid, p_a1>>
  BY UnitSems DEF handleDevices, Interruptible, ack, aslVars, treeVars
<1>2. PICK p \in Proc : Waiters(IoSem(u)) = {p} /\ p_pid[p] = dev[u].by
  BY <1>1 DEF IoInv, UnitInv, Signalling, Awaiting
<1>3. headBlocked(IoSem(u)) = p
  BY <1>2, UnitSems, WaitersAre
<1>4. semval[IoSem(u)] = 0
  BY DEF IoInv, UnitInv
<1>6. dev \in [Unit -> [st : {"idle", "busy", "done"}, by : Int]]
  BY DEF QInv, Base, TypeOK, CountTypes
<1>5. /\ phase' = "semop"
      /\ vop' = [sem |-> IoSem(u), free |-> 1, ret |-> "dev", head |-> p,
                 status |-> IF u.line = IL_TERMINAL THEN p_pid[p] ELSE 0]
  <2>1. statusOf(u) = IF u.line = IL_TERMINAL THEN p_pid[p] ELSE 0
    BY <1>1, <1>2, <1>6 DEF statusOf
  <2> QED BY <1>1, <1>3, <1>4, <2>1 DEF startV
<1>7. UnitInv(u)'
  <2>1. dev'[u].st = "idle"
    BY <1>1, <1>6
  <2>2. Waiters(IoSem(u))' = {p}
    BY <1>1, <1>2, WaitersStay
  <2>3. Delivering(u)'
    BY <1>1, <1>5, <2>1, <2>2 DEF Delivering
  <2>4. res_requested'[p] = 1
    BY <1>1, <1>2 DEF IoInv, UnitInv
  <2>5. Signalling(IoSem(u))'
    BY <1>5 DEF Signalling
  <2> QED BY <1>1, <1>4, <2>2, <2>3, <2>4, <2>5 DEF UnitInv
<1>8. ASSUME NEW v \in Unit, v # u
      PROVE  UnitInv(v)'
  <2>1. IoSem(v) # IoSem(u)
    BY <1>8, UnitSems
  <2>2. dev'[v] = dev[v]
    BY <1>1, <1>6, <1>8
  <2>3. ~Signalling(IoSem(v))' /\ ~Signalling(IoSem(v))
    BY <1>1, <1>5, <2>1 DEF Signalling
  <2> QED BY <1>1, <2>2, <2>3, UnitStays, WaitersStay DEF IoInv
<1>9. StatusInv'
  BY <1>1, <1>5 DEF IoInv, StatusInv
<1> QED BY <1>7, <1>8, <1>9 DEF IoInv

\* The loop of a V on the semaphore of a device wakes the process noted.
LEMMA WakeIo ==
  ASSUME OneAtATime, QInv, IoInv, wake
  PROVE  IoInv'
<1>1. /\ phase = "semop" /\ phase' = "semop"
      /\ UNCHANGED <<semval, dev, p_pid, p_a1>>
  BY DEF wake, treeVars
<1>2. PICK h : h = headBlocked(vop.sem)
  OBVIOUS
<1>3. /\ h \in Waiters(vop.sem) /\ Waiters(vop.sem)' = Waiters(vop.sem) \ {h}
      /\ vop' = [vop EXCEPT !.free = vop.free - res_requested[h]]
      /\ \A b \in Sem \ {vop.sem} : Waiters(b)' = Waiters(b) /\ h \notin Waiters(b)
      /\ res_requested' = [res_requested EXCEPT ![h] = 0]
  BY <1>2, WakeWaiters
<1>4. /\ vop \in [sem : Sem, free : Nat, ret : {"user", "tick", "dev"},
                  head : Proc \cup {NULL}, status : Int]
      /\ res_requested \in [Proc -> Nat]
  BY DEF QInv, Base, TypeOK, SemTypes, PhaseTypes
<1>5. /\ vop'.sem = vop.sem /\ vop'.ret = vop.ret /\ vop'.head = vop.head
      /\ vop'.status = vop.status /\ vop'.free = vop.free - res_requested[h]
  BY <1>3, <1>4
<1>6. ASSUME NEW u \in Unit
      PROVE  UnitInv(u)'
  <2>1. CASE vop.sem = IoSem(u)
    <3>1. Delivering(u) /\ res_requested[h] = 1 /\ semval[IoSem(u)] = 0
      BY <1>1, <1>3, <2>1 DEF IoInv, UnitInv, Signalling
    <3>2. Waiters(IoSem(u)) = {h} /\ vop.free = 1 /\ vop.head = h
      BY <1>3, <2>1, <3>1 DEF Delivering
    <3>3. Waiters(IoSem(u))' = {} /\ vop'.free = 0
      BY <1>3, <1>5, <2>1, <3>1, <3>2
    <3>4. Delivering(u)'
      BY <1>1, <1>5, <3>1, <3>3 DEF Delivering
    <3>5. Signalling(IoSem(u))'
      BY <1>1, <1>5, <2>1 DEF Signalling
    <3> QED BY <1>1, <3>1, <3>3, <3>4, <3>5 DEF UnitInv
  <2>2. CASE vop.sem # IoSem(u)
    <3>1. /\ Waiters(IoSem(u))' = Waiters(IoSem(u)) /\ h \notin Waiters(IoSem(u))
          /\ Waiters(IoSem(u)) \subseteq Proc
      BY <1>3, <2>2, UnitSems DEF Waiters
    <3>2. ~Signalling(IoSem(u))' /\ ~Signalling(IoSem(u))
      BY <1>5, <2>2 DEF Signalling
    <3> QED BY <1>1, <1>3, <1>4, <3>1, <3>2, UnitStays DEF IoInv
  <2> QED BY <2>1, <2>2
<1>7. StatusInv'
  BY <1>1, <1>5 DEF IoInv, StatusInv
<1> QED BY <1>6, <1>7 DEF IoInv

\* When it ends the process noted is awake, and is given its own status.
LEMMA EndVIo ==
  ASSUME OneAtATime, QInv, IoInv, endV
  PROVE  IoInv'
<1>1. /\ phase = "semop" /\ phase' # "semop"
      /\ ~satisfied(headBlocked(vop.sem))
      /\ semval' = [semval EXCEPT ![vop.sem] = vop.free]
      /\ UNCHANGED <<s_procq, s_semAdd, res_requested, dev, p_pid>>
      /\ p_a1' = IF vop.ret = "dev" /\ vop.head # headBlocked(vop.sem)
                 THEN [p_a1 EXCEPT ![vop.head] = vop.status] ELSE p_a1
  BY Zenon DEF endV, Resumed, aslVars, treeVars
<1>2. /\ semval \in [Sem -> Nat] /\ p_a1 \in [Proc -> Int]
      /\ vop.sem \in Sem
  BY DEF QInv, Base, TypeOK, SemTypes, PhaseTypes, ProcTypes
<1>3. ASSUME NEW u \in Unit
      PROVE  UnitInv(u)'
  <2>0. Waiters(IoSem(u))' = Waiters(IoSem(u)) /\ ~Signalling(IoSem(u))'
    BY <1>1, WaitersStay DEF Signalling
  <2>1. CASE vop.sem = IoSem(u)
    <3>1. Delivering(u)
      BY <1>1, <2>1 DEF IoInv, UnitInv, Signalling
    <3>2. Waiters(IoSem(u)) = {} /\ vop.free = 0
      <4>1. SUFFICES ASSUME Waiters(IoSem(u)) = {vop.head}, vop.free = 1
                     PROVE  FALSE
        BY <3>1 DEF Delivering
      <4>2. headBlocked(IoSem(u)) = vop.head /\ headBlocked(IoSem(u)) # NULL
        BY <4>1, UnitSems, WaitersAre
      <4>3. res_requested[vop.head] = 1
        BY <4>1 DEF IoInv, UnitInv
      <4> QED BY <1>1, <2>1, <4>1, <4>2, <4>3 DEF satisfied
    <3>3. semval'[IoSem(u)] = 0
      BY <1>1, <1>2, <2>1, <3>2
    <3>4. Awaiting(u)'
      BY <1>1, <2>0, <3>1, <3>2 DEF Delivering, Awaiting
    <3> QED BY <2>0, <3>2, <3>3, <3>4 DEF UnitInv
  <2>2. CASE vop.sem # IoSem(u)
    <3>1. semval'[IoSem(u)] = semval[IoSem(u)]
      BY <1>1, <1>2, <2>2, UnitSems
    <3>2. ~Signalling(IoSem(u))
      BY <2>2 DEF Signalling
    <3> QED BY <1>1, <2>0, <3>1, <3>2, UnitStays DEF IoInv
  <2> QED BY <2>1, <2>2
<1>4. StatusInv'
  <2>1. SUFFICES ASSUME NEW p \in Proc, vop.ret = "dev"
                 PROVE  p_a1'[p] \in {0, p_pid[p]}
    BY <1>1 DEF IoInv, StatusInv
  <2>2. PICK u \in Unit : vop.sem = IoSem(u)
    BY <1>1, <2>1 DEF IoInv, StatusInv
  <2>3. vop.status \in {0, p_pid[vop.head]} /\ vop.head \in Proc
    BY <1>1, <2>2 DEF IoInv, UnitInv, Signalling, Delivering
  <2> QED BY <1>1, <1>2, <2>3 DEF IoInv, StatusInv
<1> QED BY <1>3, <1>4 DEF IoInv

\* A P on another semaphore.
LEMMA OtherPIo ==
  ASSUME OneAtATime, QInv, IoInv, NEW a \in Sem, NEW w \in Int, w < 0,
         phase = "user", P(a, w), a \notin DevCells, UNCHANGED <<p_pid, p_a1, dev>>
  PROVE  IoInv'
<1>1. /\ \A b \in Sem \ {a} :
           /\ Waiters(b)' = Waiters(b)
           /\ \A p \in Waiters(b) : res_requested'[p] = res_requested[p]
      /\ phase' # "semop"
      /\ \/ semval' = semval
         \/ semval' = [semval EXCEPT ![a] = @ + w]
  BY PWaiters
<1>2. semval \in [Sem -> Nat]
  BY DEF QInv, Base, TypeOK, SemTypes
<1>3. ASSUME NEW u \in Unit
      PROVE  UnitInv(u)'
  <2>1. IoSem(u) \in Sem \ {a}
    BY UnitSems
  <2>2. semval'[IoSem(u)] = semval[IoSem(u)]
    BY <1>1, <1>2, <2>1
  <2>3. ~Signalling(IoSem(u))' /\ ~Signalling(IoSem(u))
    BY <1>1 DEF Signalling
  <2> QED BY <1>1, <2>1, <2>2, <2>3, UnitStays DEF IoInv
<1> QED BY <1>1, <1>3 DEF IoInv, StatusInv

\* A step that moves no blocked process and starts no V for a device.
LEMMA QuietIo ==
  ASSUME OneAtATime, QInv, IoInv,
         UNCHANGED <<s_procq, s_semAdd, res_requested, semval, p_pid, p_a1>>,
         \A u \in Unit : /\ dev'[u].by = dev[u].by
                         /\ dev'[u].st = "idle" <=> dev[u].st = "idle",
         \/ UNCHANGED <<phase, vop>>
         \/ phase # "semop" /\ phase' # "semop"
         \/ phase # "semop" /\ vop'.sem \notin DevCells /\ vop'.ret # "dev"
  PROVE  IoInv'
<1>1. ASSUME NEW u \in Unit
      PROVE  UnitInv(u)'
  <2>1. /\ Signalling(IoSem(u))' <=> Signalling(IoSem(u))
        /\ Signalling(IoSem(u)) => UNCHANGED <<vop, p_pid>>
    BY UnitSems DEF Signalling
  <2>2. Waiters(IoSem(u))' = Waiters(IoSem(u)) /\ UnitInv(u)
    BY WaitersStay DEF IoInv
  <2> QED BY <2>1, <2>2, UnitStays
<1>2. StatusInv'
  BY DEF IoInv, StatusInv
<1> QED BY <1>1, <1>2 DEF IoInv

LEMMA IoStep ==
  ASSUME OneAtATime, NoKill, Inv, IoInv, [Next]_vars
  PROVE  IoInv'
<1> USE DEF countVars, aslVars, treeVars
<1>0. QInv /\ phase \notin {"search", "kill"}
  BY DEF Inv, QInv, NotKilling
<1>1. Clock \notin DevCells /\ UserSem \cap DevCells = {}
  BY AddrAssumption
<1>2. CASE Internal
  <2>1. CASE tick
    <3>1. /\ UNCHANGED <<s_procq, s_semAdd, res_requested, semval, p_pid, p_a1, dev>>
          /\ \/ phase # "semop" /\ phase' # "semop"
             \/ phase # "semop" /\ vop'.sem \notin DevCells /\ vop'.ret # "dev"
      BY <1>1, <2>1 DEF tick, startV
    <3> QED BY <1>0, <3>1, QuietIo
  <2>2. CASE scheduler \/ \E over \in BOOLEAN : slice(over)
    <3>1. /\ UNCHANGED <<s_procq, s_semAdd, res_requested, semval, p_pid, p_a1, dev>>
          /\ phase # "semop" /\ phase' # "semop"
      BY <2>2 DEF scheduler, slice, Resumed
    <3> QED BY <1>0, <3>1, QuietIo
  <2>3. ~childByPid /\ ~killChild /\ ~reap
    BY <1>0 DEF childByPid, killChild, reap
  <2> QED BY <1>0, <1>2, <2>1, <2>2, <2>3, WakeIo, EndVIo, Zenon DEF Internal
<1>3. CASE Call
  <2>1. CASE createProcess
    <3>1. PICK n \in Proc : n = Head(pcbFree)
      BY <1>0, <2>1, TailProperties, Zenon DEF createProcess, QInv, Base, TypeOK, ProcTypes
    <3>2. /\ phase # "semop" /\ UNCHANGED <<phase, vop, semval, dev>>
          /\ p_pid' = [p_pid EXCEPT ![n] = pid_selector]
          /\ p_a1' = [p_a1 EXCEPT ![n] = 0]
      BY <2>1, <3>1 DEF createProcess, Issues
    <3>3. p_pid \in [Proc -> Int] /\ p_a1 \in [Proc -> Int]
      BY <1>0 DEF QInv, Base, TypeOK, ProcTypes
    <3>4. ASSUME NEW u \in Unit
          PROVE  UnitInv(u)'
      <4>1. ~Signalling(IoSem(u))' /\ ~Signalling(IoSem(u))
        BY <3>2 DEF Signalling
      <4> QED BY <1>0, <2>1, <3>2, <4>1, CreateWaiters, UnitStays DEF IoInv
    <3>5. StatusInv'
      BY <3>2, <3>3 DEF IoInv, StatusInv
    <3> QED BY <3>4, <3>5 DEF IoInv
  <2>2. ~terminateSelf /\ \A p \in Proc : ~terminateByPid(p_pid[p])
    BY DEF NoKill, terminateSelf, terminateByPid, Issues
  <2>3. ASSUME NEW a \in UserSem, NEW w \in Weights, semop(a, w)
        PROVE  IoInv'
    <3>1. /\ a \in Sem /\ w \in Int /\ phase = "user" /\ a \notin DevCells
          /\ UNCHANGED <<p_pid, p_a1, dev>>
      BY <1>1, <2>3, ConstAssumption DEF Sem, semop, Issues
    <3>2. CASE w < 0 /\ P(a, w)
      BY <1>0, <3>1, <3>2, OtherPIo
    <3>3. CASE /\ \/ phase' = "badWeight"
                  \/ vop'.sem = a /\ vop'.ret = "user"
               /\ UNCHANGED <<s_procq, s_semAdd, res_requested, semval>>
      BY <1>0, <3>1, <3>3, QuietIo
    <3> QED BY <2>3, <3>2, <3>3 DEF semop, startV
  <2>4. CASE waitClock
    <3>1. /\ phase = "user" /\ P(Clock, -1) /\ UNCHANGED <<p_pid, p_a1, dev>>
      BY <2>4 DEF waitClock, Issues
    <3>2. Clock \in Sem /\ -1 \in Int /\ -1 < 0
      BY DEF Sem
    <3> QED BY <1>0, <1>1, <3>1, <3>2, OtherPIo
  <2> QED BY <1>0, <1>3, <2>1, <2>2, <2>3, <2>4, IoDevopIo, Zenon DEF Call
<1>4. CASE Interrupt
  <2>1. CASE \E expired \in BOOLEAN : handleTimer(expired)
    <3>1. /\ UNCHANGED <<s_procq, s_semAdd, res_requested, semval, p_pid, p_a1, dev>>
          /\ phase # "semop" /\ phase' # "semop"
      BY <2>1 DEF handleTimer, Interruptible
    <3> QED BY <1>0, <3>1, QuietIo
  <2> QED BY <1>0, <1>4, <2>1, HandleDevicesIo, Zenon DEF Interrupt
<1>5. CASE \E u \in Unit : deviceDone(u)
  <2>1. PICK u \in Unit : deviceDone(u)
    BY <1>5
  <2>2. dev \in [Unit -> [st : {"idle", "busy", "done"}, by : Int]]
    BY <1>0 DEF QInv, Base, TypeOK, CountTypes
  <2>3. /\ UNCHANGED <<s_procq, s_semAdd, res_requested, semval, p_pid, p_a1,
                       phase, vop>>
        /\ dev[u].st = "busy" /\ dev' = [dev EXCEPT ![u].st = "done"]
    BY <2>1 DEF deviceDone
  <2>4. \A v \in Unit : /\ dev'[v].by = dev[v].by
                        /\ dev'[v].st = "idle" <=> dev[v].st = "idle"
    BY <2>2, <2>3
  <2> QED BY <1>0, <2>3, <2>4, QuietIo
<1>6. CASE stopped \/ UNCHANGED vars
  <2>1. UNCHANGED <<s_procq, s_semAdd, res_requested, semval, p_pid, p_a1, dev,
                    phase, vop>>
    BY <1>6 DEF stopped, vars
  <2> QED BY <1>0, <2>1, QuietIo
<1> QED BY <1>2, <1>3, <1>4, <1>5, <1>6, Zenon DEF Next

LEMMA IoInvariant ==
  ASSUME NoKill, OneAtATime PROVE Spec => [](Inv /\ IoInv)
<1>1. Init => Inv /\ IoInv
  <2> SUFFICES ASSUME Init PROVE IoInv
    BY QInit
  <2>1. \A a : Waiters(a) = {}
    BY DEF Init, Waiters, Queued, ToSet
  <2>2. ASSUME NEW u \in Unit
        PROVE  UnitInv(u)
    <3>1. semval[IoSem(u)] = 0
      BY UnitSems DEF Init
    <3>2. dev[u].st = "idle" /\ phase # "semop"
      BY DEF Init
    <3> QED BY <2>1, <3>1, <3>2 DEF UnitInv, Awaiting, Signalling
  <2> QED BY <2>2 DEF Init, IoInv, StatusInv
<1>2. Inv /\ IoInv /\ [Next]_vars => (Inv /\ IoInv)'
  <2> SUFFICES ASSUME Inv, IoInv, [Next]_vars PROVE Inv' /\ IoInv'
    OBVIOUS
  <2>1. TypeOK'
    BY TypeNext DEF Inv, QInv, Base
  <2>2. Structure' /\ Rest' /\ NotKilling' /\ phase' # "noSemd"
    BY StepKeeps
  <2> QED BY <2>1, <2>2, IoStep DEF Inv, QInv, Base
<1> QED BY <1>1, <1>2, PTL DEF Spec

LEMMA IoMeans ==
  ASSUME OneAtATime, Inv, IoInv
  PROVE  OwnerWaits /\ NoLostIo /\ OwnStatus
<1>0. QInv
  BY DEF Inv
<1>1. \A u \in Unit : {p \in Blocked : WaitsOn(p) = IoSem(u)} = Waiters(IoSem(u))
  BY <1>0, UnitSems, WaitersAre
<1>2. OwnerWaits
  <2>1. SUFFICES ASSUME NEW u \in Unit, dev[u].st # "idle"
                 PROVE  \E p \in Blocked : /\ WaitsOn(p) = IntSem(u)
                                           /\ p_pid[p] = dev[u].by
    BY DEF OwnerWaits
  <2>2. Awaiting(u)
    BY <2>1 DEF IoInv, UnitInv, Delivering
  <2>3. PICK p \in Proc : Waiters(IoSem(u)) = {p} /\ p_pid[p] = dev[u].by
    BY <2>1, <2>2 DEF Awaiting
  <2>4. p \in Blocked /\ WaitsOn(p) = IoSem(u)
    BY <1>1, <2>3
  <2> QED BY <2>3, <2>4, UnitSems
<1>3. NoLostIo
  <2>1. SUFFICES ASSUME NEW p \in Blocked, NEW u \in Unit, WaitsOn(p) = IoSem(u),
                        dev[u].st = "idle"
                 PROVE  phase = "semop" /\ vop.ret = "dev" /\ vop.head = p
    BY DEF NoLostIo
  <2>2. p \in Waiters(IoSem(u))
    BY <1>1, <2>1
  <2>3. Signalling(IoSem(u)) /\ Delivering(u)
    BY <2>1, <2>2 DEF IoInv, UnitInv, Awaiting
  <2> QED BY <2>2, <2>3 DEF Signalling, Delivering
<1>4. OwnStatus
  <2>1. \A p \in Live : p_a1[p] \in {0, p_pid[p]}
    BY DEF IoInv, StatusInv, Live
  <2>2. ASSUME NEW u \in Unit, u.line = IL_TERMINAL, phase = "semop",
               vop.sem = IntSem(u)
        PROVE  vop.status = p_pid[vop.head]
    BY <2>2, UnitSems DEF IoInv, UnitInv, Signalling, Delivering
  <2> QED BY <2>1, <2>2 DEF OwnStatus
<1> QED BY <1>2, <1>3, <1>4

\* An operation that a device has accepted has its issuer in the queue that
\* its interrupt will signal.
THEOREM IssuerWaits ==
  ASSUME NoKill, OneAtATime PROVE Spec => []OwnerWaits
<1>1. Inv /\ IoInv => OwnerWaits
  BY IoMeans
<1> QED BY <1>1, IoInvariant, PTL

\* No interrupt is lost: who waits for a device has an operation under way on
\* it, or is about to be woken.
THEOREM NoInterruptLost ==
  ASSUME NoKill, OneAtATime PROVE Spec => []NoLostIo
<1>1. Inv /\ IoInv => NoLostIo
  BY IoMeans
<1> QED BY <1>1, IoInvariant, PTL

\* The status in a process' a1 is never that of another's operation, and what
\* a terminal's interrupt hands on is that of the operation waited for.
THEOREM StatusIsOwn ==
  ASSUME NoKill, OneAtATime PROVE Spec => []OwnStatus
<1>1. Inv /\ IoInv => OwnStatus
  BY IoMeans
<1> QED BY <1>1, IoInvariant, PTL

\* SYS10 blocks whoever starts an operation.
THEOREM IoDevopBlocks ==
  ASSUME NoKill, OneAtATime PROVE Spec => IoDevopWaits
<1>1. ASSUME Inv, IoInv, [Next]_vars, NEW u \in Unit, phase = "user",
             dev'[u] # dev[u], dev'[u].st = "busy"
      PROVE  g_current_process' = NULL
  <2>1. CASE \E v \in Unit : ioDevop(v)
    BY <1>1, <2>1, IoDevopIo DEF Inv
  <2>2. dev \in [Unit -> [st : {"idle", "busy", "done"}, by : Int]]
    BY <1>1 DEF Inv, QInv, Base, TypeOK, CountTypes
  <2>3. CASE \E v \in Unit : handleDevices(v)
    <3>1. PICK v \in Unit : dev' = [dev EXCEPT ![v] = [st |-> "idle", by |-> 0]]
      BY <2>3 DEF handleDevices, ack
    <3> QED BY <1>1, <2>2, <3>1
  <2>4. CASE \E v \in Unit : deviceDone(v)
    <3>1. PICK v \in Unit : dev' = [dev EXCEPT ![v].st = "done"]
      BY <2>4 DEF deviceDone
    <3> QED BY <1>1, <2>2, <3>1
  <2>5. CASE UNCHANGED dev
    BY <1>1, <2>5
  <2>6. \/ UNCHANGED dev \/ \E v \in Unit : ioDevop(v)
        \/ \E v \in Unit : handleDevices(v) \/ deviceDone(v)
    BY <1>1 DEF Next, Internal, Call, Interrupt, scheduler, childByPid, killChild,
                reap, wake, endV, tick, slice, createProcess, terminateSelf,
                terminateByPid, semop, waitClock, handleTimer, stopped, vars,
                unchangedBySearch
  <2> QED BY <2>1, <2>3, <2>4, <2>5, <2>6
<1>2. Inv /\ IoInv /\ [Next]_vars =>
        [\A u \in Unit : phase = "user" /\ dev'[u].by = p_pid[g_current_process]
                            /\ dev'[u] # dev[u] /\ dev'[u].st = "busy"
                          => g_current_process' = NULL]_vars
  BY <1>1
<1> QED BY <1>2, IoInvariant, PTL DEF Spec, IoDevopWaits

-----------------------------------------------------------------------------
(***************************************************************************)
(* As long as no process is terminated, the system calls and interrupts    *)
(* implement the semaphores of WeightedSemaphore, for every number of      *)
(* processes and all weights.                                              *)
(***************************************************************************)

-----------------------------------------------------------------------------
(* A queue of pcbs, as the abstract semaphore has it *)

Slots(q, res) == [i \in DOMAIN q |-> <<q[i], res[q[i]]>>]

LEMMA SlotsType ==
  ASSUME NEW q \in Seq(Proc), NEW res \in [Proc -> Nat]
  PROVE  /\ Slots(q, res) \in Seq(Proc \X Nat)
         /\ Len(Slots(q, res)) = Len(q)
         /\ \A i \in 1 .. Len(q) : Slots(q, res)[i] = <<q[i], res[q[i]]>>
<1> DEFINE s == Slots(q, res)
<1>1. Len(q) \in Nat /\ DOMAIN q = 1 .. Len(q) /\ \A i \in 1 .. Len(q) : q[i] \in Proc
  BY LenProperties, ElementOfSeq
<1>2. \A i \in 1 .. Len(q) : s[i] = <<q[i], res[q[i]]>> /\ s[i] \in Proc \X Nat
  BY <1>1 DEF Slots
<1>3. DOMAIN s = 1 .. Len(q) /\ s = [i \in 1 .. Len(q) |-> s[i]]
  BY <1>1 DEF Slots
<1> HIDE DEF s
<1>4. s \in [1 .. Len(q) -> Proc \X Nat]
  BY <1>2, <1>3
<1>5. s \in Seq(Proc \X Nat) /\ Len(s) = Len(q)
  BY <1>1, <1>3, <1>4, LenProperties, SeqDef
<1> QED BY <1>2, <1>5 DEF s

LEMMA SlotsSame ==
  ASSUME NEW q \in Seq(Proc), NEW res \in [Proc -> Nat], NEW res2 \in [Proc -> Nat],
         \A p \in ToSet(q) : res2[p] = res[p]
  PROVE  Slots(q, res2) = Slots(q, res)
<1>1. \A i \in DOMAIN q : res2[q[i]] = res[q[i]]
  BY DEF ToSet
<1> QED BY <1>1 DEF Slots

\* p, which is not in the queue, joins it and asks for n.
LEMMA SlotsAppend ==
  ASSUME NEW q \in Seq(Proc), NEW res \in [Proc -> Nat], NEW p \in Proc,
         p \notin ToSet(q), NEW n \in Nat
  PROVE  Slots(Append(q, p), [res EXCEPT ![p] = n]) = Append(Slots(q, res), <<p, n>>)
<1> DEFINE q2 == Append(q, p)
           res2 == [res EXCEPT ![p] = n]
           s == Slots(q, res)
           t == Slots(q2, res2)
           u == Append(s, <<p, n>>)
<1>1. /\ Len(q) \in Nat /\ q2 \in Seq(Proc) /\ Len(q2) = Len(q) + 1
      /\ \A i \in 1 .. Len(q) : q2[i] = q[i] /\ q[i] \in Proc /\ q[i] # p
      /\ q2[Len(q) + 1] = p
  BY LenProperties, ElementOfSeq, AppendProperties DEF ToSet
<1>2. res2 \in [Proc -> Nat] /\ res2[p] = n /\ \A r \in Proc : r # p => res2[r] = res[r]
  OBVIOUS
<1> HIDE DEF q2, res2
<1>3. /\ s \in Seq(Proc \X Nat) /\ Len(s) = Len(q)
      /\ \A i \in 1 .. Len(q) : s[i] = <<q[i], res[q[i]]>>
  BY SlotsType
<1>4. /\ t \in Seq(Proc \X Nat) /\ Len(t) = Len(q2)
      /\ \A i \in 1 .. Len(q2) : t[i] = <<q2[i], res2[q2[i]]>>
  BY <1>1, <1>2, SlotsType
<1> HIDE DEF s, t
<1>5. /\ u \in Seq(Proc \X Nat) /\ Len(u) = Len(q) + 1
      /\ \A i \in 1 .. Len(q) : u[i] = s[i]
      /\ u[Len(q) + 1] = <<p, n>>
  <2>1. <<p, n>> \in Proc \X Nat
    OBVIOUS
  <2> QED BY <1>3, <2>1, AppendProperties
<1> HIDE DEF u
<1>6. ASSUME NEW i \in 1 .. Len(q)
      PROVE  t[i] = u[i]
  <2>1. i \in 1 .. Len(q2)
    BY <1>1
  <2>2. q2[i] = q[i] /\ q[i] \in Proc /\ q[i] # p
    BY <1>1
  <2>3. res2[q2[i]] = res[q[i]]
    BY <1>2, <2>2
  <2>4. t[i] = <<q[i], res[q[i]]>> /\ s[i] = <<q[i], res[q[i]]>>
    BY <1>3, <1>4, <2>1, <2>2, <2>3
  <2> QED BY <1>5, <2>4
<1>7. t[Len(q) + 1] = u[Len(q) + 1]
  <2>1. Len(q) + 1 \in 1 .. Len(q2)
    BY <1>1
  <2> QED BY <1>1, <1>2, <1>4, <1>5, <2>1
<1>8. \A i \in 1 .. Len(t) : t[i] = u[i]
  <2>1. \A i \in 1 .. Len(t) : i \in 1 .. Len(q) \/ i = Len(q) + 1
    BY <1>1, <1>4
  <2> QED BY <1>6, <1>7, <2>1
<1>9. t = u
  <2>1. Len(t) = Len(u)
    BY <1>1, <1>4, <1>5
  <2> QED BY <1>4, <1>5, <1>8, <2>1, SeqEqual
<1> QED BY <1>9 DEF s, t, u, q2, res2

\* The head leaves the queue.
LEMMA SlotsTail ==
  ASSUME NEW q \in Seq(Proc), q # <<>>, IsInjective(q), NEW res \in [Proc -> Nat],
         NEW n \in Nat
  PROVE  Slots(Tail(q), [res EXCEPT ![Head(q)] = n]) = Tail(Slots(q, res))
<1> DEFINE h == Head(q)
           q2 == Tail(q)
           res2 == [res EXCEPT ![h] = n]
           s == Slots(q, res)
           t == Slots(q2, res2)
           u == Tail(s)
<1>1. Len(q) \in Nat \ {0} /\ DOMAIN q = 1 .. Len(q) /\ h = q[1]
  BY LenProperties, EmptySeq
<1>2. /\ h \in Proc /\ q2 \in Seq(Proc) /\ Len(q2) = Len(q) - 1
      /\ \A i \in 1 .. Len(q2) : q2[i] = q[i+1]
  BY HeadTailProperties
<1>3. \A i \in 2 .. Len(q) : q[i] \in Proc /\ q[i] # h
  <2>1. \A i \in 1 .. Len(q) : q[i] \in Proc
    BY ElementOfSeq
  <2> QED BY <1>1, <2>1 DEF IsInjective
<1>4. res2 \in [Proc -> Nat] /\ \A r \in Proc : r # h => res2[r] = res[r]
  OBVIOUS
<1> HIDE DEF h, q2, res2
<1>5. /\ s \in Seq(Proc \X Nat) /\ Len(s) = Len(q)
      /\ \A i \in 1 .. Len(q) : s[i] = <<q[i], res[q[i]]>>
  BY SlotsType
<1>6. /\ t \in Seq(Proc \X Nat) /\ Len(t) = Len(q2)
      /\ \A i \in 1 .. Len(q2) : t[i] = <<q2[i], res2[q2[i]]>>
  BY <1>2, <1>4, SlotsType
<1> HIDE DEF s, t
<1>7. s # <<>>
  BY <1>1, <1>5, EmptySeq
<1>8. /\ u \in Seq(Proc \X Nat) /\ Len(u) = Len(s) - 1
      /\ \A i \in 1 .. Len(u) : u[i] = s[i+1]
  BY <1>5, <1>7, HeadTailProperties
<1> HIDE DEF u
<1>9. ASSUME NEW i \in 1 .. Len(t)
      PROVE  t[i] = u[i]
  <2>1. /\ i \in 1 .. Len(q2) /\ i \in 1 .. Len(u)
        /\ i+1 \in 1 .. Len(q) /\ i+1 \in 2 .. Len(q)
    BY <1>1, <1>2, <1>5, <1>6, <1>8
  <2>2. q2[i] = q[i+1] /\ res2[q2[i]] = res[q[i+1]]
    BY <1>2, <1>3, <1>4, <2>1
  <2> QED BY <1>5, <1>6, <1>8, <2>1, <2>2
<1>10. t = u
  <2>1. Len(t) = Len(u)
    BY <1>1, <1>2, <1>5, <1>6, <1>8
  <2>2. \A i \in 1 .. Len(t) : t[i] = u[i]
    BY <1>9
  <2> QED BY <1>6, <1>8, <2>1, <2>2, SeqEqual
<1> QED BY <1>10 DEF s, t, u, q2, res2, h

-----------------------------------------------------------------------------
(* The queues of semaphores *)

\* What the ASL says of the queue of a semaphore.
LEMMA SemQueueIs ==
  ASSUME QInv, NEW a
  PROVE  /\ OnAsl(a) => /\ SemQueue(a) = Slots(s_procq[semdOf(a)], res_requested)
                        /\ SemQueue(a) # <<>>
                        /\ Head(SemQueue(a))[2] = res_requested[headBlocked(a)]
         /\ ~OnAsl(a) => SemQueue(a) = <<>>
         /\ headBlocked(a) = NULL <=> ~OnAsl(a)
<1>1. ASSUME OnAsl(a)
      PROVE  /\ SemQueue(a) = Slots(s_procq[semdOf(a)], res_requested)
             /\ SemQueue(a) # <<>>
             /\ Head(SemQueue(a))[2] = res_requested[headBlocked(a)]
  <2> DEFINE q == s_procq[semdOf(a)]
  <2>1. q \in Seq(Proc) /\ q # <<>> /\ headBlocked(a) = Head(q)
    BY <1>1, OnAslFacts, Zenon DEF QInv, Base, Structure
  <2>2. SemQueue(a) = Slots(q, res_requested)
    BY <1>1 DEF SemQueue, Slots
  <2>3. res_requested \in [Proc -> Nat]
    BY DEF QInv, Base, Structure, TypeOK, SemTypes
  <2> HIDE DEF q
  <2>4. Len(q) \in Nat \ {0} /\ Head(q) = q[1]
    BY <2>1, LenProperties, EmptySeq
  <2>5. /\ Slots(q, res_requested) \in Seq(Proc \X Nat)
        /\ Len(Slots(q, res_requested)) = Len(q)
        /\ Slots(q, res_requested)[1] = <<q[1], res_requested[q[1]]>>
    BY <2>1, <2>3, <2>4, SlotsType
  <2>6. Slots(q, res_requested) # <<>>
        /\ Head(Slots(q, res_requested)) = Slots(q, res_requested)[1]
    BY <2>4, <2>5, LenProperties, EmptySeq
  <2> QED BY <2>1, <2>2, <2>4, <2>5, <2>6 DEF q
<1>2. headBlocked(a) = NULL <=> ~OnAsl(a)
  BY OnAslFacts, Zenon DEF QInv, Base, Structure
<1> QED BY <1>1, <1>2 DEF SemQueue

\* Where the queue of a semaphore is after a step.
LEMMA NextQueueIs ==
  ASSUME AslDistinct', NEW a
  PROVE  /\ \A d \in aslh' : s_semAdd'[d] = a =>
              SemQueue(a)' = Slots(s_procq'[d], res_requested')
         /\ (\A d \in aslh' : s_semAdd'[d] # a) => SemQueue(a)' = <<>>
<1>1. ASSUME NEW d \in aslh', s_semAdd'[d] = a
      PROVE  OnAsl(a)' /\ semdOf(a)' = d
  BY <1>1, Zenon DEF OnAsl, semdOf, AslDistinct
<1>2. (\A d \in aslh' : s_semAdd'[d] # a) => ~OnAsl(a)'
  BY DEF OnAsl
<1> QED BY <1>1, <1>2 DEF SemQueue, Slots

\* A semaphore whose queue a step leaves alone.
LEMMA QueueKept ==
  ASSUME QInv, QInv', NEW a,
         \A d \in Semd : d \in aslh' /\ s_semAdd'[d] = a
                         <=> d \in aslh /\ s_semAdd[d] = a,
         \A d \in aslh : s_semAdd[d] = a =>
            /\ s_procq'[d] = s_procq[d]
            /\ \A p \in Queued(d) : res_requested'[p] = res_requested[p]
  PROVE  SemQueue(a)' = SemQueue(a)
<1>1. /\ AslDistinct' /\ aslh \subseteq Semd /\ aslh' \subseteq Semd
      /\ res_requested \in [Proc -> Nat] /\ res_requested' \in [Proc -> Nat]
      /\ s_procq \in [Semd -> Seq(Proc)]
  BY DEF QInv, Base, Structure, AslInv, TypeOK, SemTypes
<1>2. CASE OnAsl(a)
  <2>1. PICK d \in aslh : s_semAdd[d] = a /\ d = semdOf(a)
    BY <1>2, OnAslFacts, Zenon DEF QInv, Base, Structure
  <2>2. SemQueue(a) = Slots(s_procq[d], res_requested)
    BY <1>2, <2>1, SemQueueIs
  <2>3. SemQueue(a)' = Slots(s_procq'[d], res_requested')
    BY <1>1, <2>1, NextQueueIs
  <2>4. Slots(s_procq[d], res_requested') = Slots(s_procq[d], res_requested)
    BY <1>1, <2>1, SlotsSame DEF Queued
  <2> QED BY <2>1, <2>2, <2>3, <2>4
<1>3. CASE ~OnAsl(a)
  <2>1. SemQueue(a) = <<>>
    BY <1>3, SemQueueIs
  <2>2. \A d \in aslh' : s_semAdd'[d] # a
    BY <1>1, <1>3 DEF OnAsl
  <2>3. SemQueue(a)' = <<>>
    BY <1>1, <2>2, NextQueueIs
  <2> QED BY <2>1, <2>3
<1> QED BY <1>2, <1>3

-----------------------------------------------------------------------------
(* Steps *)

\* Between V operations nobody waits for what is there.
LEMMA SettledIs ==
  ASSUME QInv, phase # "semop"
  PROVE  Semaphores!Settled
<1> SUFFICES ASSUME NEW a \in Sem, SemQueue(a) # <<>>, Head(SemQueue(a))[2] <= SemVal(a)
             PROVE  FALSE
  BY DEF Semaphores!Settled, Semaphores!CanServe
<1>1. OnAsl(a)
  BY SemQueueIs
<1>2. PICK d \in aslh : d = semdOf(a) /\ s_semAdd[d] = a
  BY <1>1, OnAslFacts, Zenon DEF QInv, Base, Structure
<1>3. semval[a] < res_requested[Head(s_procq[d])]
  BY <1>2 DEF QInv, Rest, NoLostWakeup
<1>4. headBlocked(a) = Head(s_procq[d]) /\ headBlocked(a) \in Proc
  BY <1>1, <1>2, OnAslFacts, Zenon DEF QInv, Base, Structure
<1>5. Head(SemQueue(a))[2] = res_requested[headBlocked(a)] /\ SemVal(a) = semval[a]
  BY <1>1, SemQueueIs DEF SemVal
<1>6. semval[a] \in Nat /\ res_requested[headBlocked(a)] \in Nat
  BY <1>4 DEF QInv, Base, Structure, TypeOK, SemTypes
<1> QED BY <1>3, <1>4, <1>5, <1>6

queues == <<aslh, s_semAdd, s_procq>>

\* The running process or one from the free list asks for something else; the
\* queues stay.
LEMMA QueuesKept ==
  ASSUME QInv, QInv', UNCHANGED queues,
         \A d \in Semd : \A p \in Queued(d) : res_requested'[p] = res_requested[p]
  PROVE  [a \in Sem |-> SemQueue(a)]' = [a \in Sem |-> SemQueue(a)]
<1>1. \A a \in Sem : SemQueue(a)' = SemQueue(a)
  BY QueueKept DEF queues, QInv, Base, Structure, TypeOK, SemTypes
<1> QED BY <1>1

LEMMA StutterWhen ==
  ASSUME QInv, QInv', UNCHANGED queues, UNCHANGED semval,
         \A d \in Semd : \A p \in Queued(d) : res_requested'[p] = res_requested[p],
         (phase # "semop" /\ phase' # "semop") \/ UNCHANGED <<phase, vop>>
  PROVE  UNCHANGED Semaphores!vars
<1>1. \A a \in Sem : SemVal(a)' = SemVal(a)
  BY DEF SemVal
<1>2. [a \in Sem |-> SemVal(a)]' = [a \in Sem |-> SemVal(a)]
  BY <1>1
<1> QED BY <1>2, QueuesKept DEF Semaphores!vars

\* A P operation that is granted.
LEMMA TakeStep ==
  ASSUME QInv, QInv', NEW a \in Sem, NEW n \in Amounts, n \in Nat,
         phase # "semop", phase' # "semop", granted(a, -n),
         semval' = [semval EXCEPT ![a] = @ - n],
         UNCHANGED queues, UNCHANGED res_requested
  PROVE  Semaphores!Next
<1>1. semval \in [Sem -> Nat]
  BY DEF QInv, Base, Structure, TypeOK, SemTypes
<1>2. SemQueue(a) = <<>> /\ n <= SemVal(a)
  BY <1>1, SemQueueIs DEF granted, SemVal
<1>3. \A b \in Sem : SemVal(b) = semval[b] /\ SemVal(b)' = semval'[b]
  BY DEF SemVal
<1>4. [b \in Sem |-> SemVal(b)]'
        = [[b \in Sem |-> SemVal(b)] EXCEPT ![a] = @ - n]
  BY <1>1, <1>3
<1>5. Semaphores!Take(a, n)
  BY <1>2, <1>4 DEF Semaphores!Take
<1>6. UNCHANGED [b \in Sem |-> SemQueue(b)]
  BY QueuesKept
<1> QED BY <1>5, <1>6, SettledIs DEF Semaphores!Next

\* A V operation begins.
LEMMA GiveStep ==
  ASSUME QInv, QInv', NEW a \in Sem, NEW n \in Amounts, phase # "semop",
         phase' = "semop", vop'.sem = a, vop'.free = n + semval[a], n \in Int,
         UNCHANGED queues, UNCHANGED <<res_requested, semval>>
  PROVE  Semaphores!Next
<1>1. semval \in [Sem -> Nat]
  BY DEF QInv, Base, Structure, TypeOK, SemTypes
<1>2. \A b \in Sem : /\ SemVal(b) = semval[b]
                     /\ SemVal(b)' = IF b = a THEN semval[b] + n ELSE semval[b]
  BY <1>1 DEF SemVal
<1>3. [b \in Sem |-> SemVal(b)]'
        = [[b \in Sem |-> SemVal(b)] EXCEPT ![a] = @ + n]
  BY <1>2
<1>4. Semaphores!Give(a, n)
  BY <1>3 DEF Semaphores!Give
<1>5. UNCHANGED [b \in Sem |-> SemQueue(b)]
  BY QueuesKept
<1> QED BY <1>4, <1>5, SettledIs DEF Semaphores!Next

\* A P operation that blocks the running process.
LEMMA WaitStep ==
  ASSUME QInv, QInv', NEW a \in Sem, NEW n \in Amounts, n \in Nat, phase = "user",
         ~granted(a, -n), CanInsert(a), insertBlocked(a, g_current_process),
         res_requested' = [res_requested EXCEPT ![g_current_process] = n],
         phase' = "sched", UNCHANGED semval
  PROVE  Semaphores!Next
<1>1. PICK p \in Proc : p = g_current_process
  BY DEF QInv, Base, Structure, TypeOK, ProcTypes, PhaseTypes
<1>2. \A d \in Semd : p \notin Queued(d)
  BY <1>1 DEF QInv, Base, Structure, Apart
<1>3. /\ res_requested \in [Proc -> Nat] /\ s_procq \in [Semd -> Seq(Proc)]
      /\ semval \in [Sem -> Nat] /\ s_semAdd \in [Semd -> Sem \cup {NoAddr}]
      /\ aslh \subseteq Semd /\ AslDistinct'
  BY DEF QInv, Base, Structure, TypeOK, SemTypes, AslInv
<1>4. SemQueue(a)' = Append(SemQueue(a), <<p, n>>)
  <2>1. CASE OnAsl(a)
    <3>1. PICK d \in aslh : d = semdOf(a) /\ s_semAdd[d] = a
      BY <2>1, OnAslFacts, Zenon DEF QInv, Base, Structure
    <3>2. /\ s_procq' = [s_procq EXCEPT ![d] = Append(s_procq[d], p)]
          /\ UNCHANGED <<aslh, s_semAdd>>
      BY <1>1, <2>1, <3>1, Zenon DEF insertBlocked
    <3>3. s_procq'[d] = Append(s_procq[d], p) /\ d \in Semd
      BY <1>3, <3>1, <3>2
    <3>4. SemQueue(a)' = Slots(s_procq'[d], res_requested')
      BY <1>3, <3>1, <3>2, NextQueueIs
    <3>5. SemQueue(a) = Slots(s_procq[d], res_requested)
      BY <2>1, <3>1, SemQueueIs
    <3>6. s_procq[d] \in Seq(Proc) /\ p \notin ToSet(s_procq[d])
      BY <1>2, <1>3, <3>3 DEF Queued
    <3>7. Slots(Append(s_procq[d], p), [res_requested EXCEPT ![p] = n])
            = Append(Slots(s_procq[d], res_requested), <<p, n>>)
      <4> DEFINE q == s_procq[d]
      <4>1. /\ q \in Seq(Proc) /\ p \notin ToSet(q) /\ p \in Proc /\ n \in Nat
            /\ res_requested \in [Proc -> Nat]
        BY <1>3, <3>6
      <4> HIDE DEF q
      <4>2. Slots(Append(q, p), [res_requested EXCEPT ![p] = n])
              = Append(Slots(q, res_requested), <<p, n>>)
        BY <4>1, SlotsAppend, Zenon
      <4> QED BY <4>2, Zenon DEF q
    <3> QED BY <1>1, <3>3, <3>4, <3>5, <3>7
  <2>2. CASE ~OnAsl(a)
    <3>1. PICK d \in Semd : d = Head(semdFree)
      <4>1. semdFree \in Seq(Semd) /\ semdFree # <<>>
        BY <2>2 DEF QInv, Base, Structure, TypeOK, SemTypes, CanInsert
      <4> QED BY <4>1, TailProperties, Zenon
    <3>2. /\ s_procq' = [s_procq EXCEPT ![d] = <<p>>]
          /\ s_semAdd' = [s_semAdd EXCEPT ![d] = a]
          /\ aslh' = aslh \cup {d}
      BY <1>1, <2>2, <3>1, Zenon DEF insertBlocked
    <3>3. s_procq'[d] = <<p>> /\ s_semAdd'[d] = a /\ d \in aslh'
      BY <1>3, <3>2
    <3>4. SemQueue(a)' = Slots(<<p>>, res_requested')
      BY <1>3, <3>3, NextQueueIs
    <3>5. SemQueue(a) = Slots(<<>>, res_requested)
      BY <2>2, SemQueueIs DEF Slots
    <3>6. <<>> \in Seq(Proc) /\ ToSet(<<>>) = {} /\ Append(<<>>, p) = <<p>>
      BY DEF ToSet
    <3>7. Slots(Append(<<>>, p), [res_requested EXCEPT ![p] = n])
            = Append(Slots(<<>>, res_requested), <<p, n>>)
      BY <1>3, <3>6, SlotsAppend
    <3> QED BY <1>1, <3>4, <3>5, <3>6, <3>7
  <2> QED BY <2>1, <2>2
<1>5. ASSUME NEW b \in Sem, b # a
      PROVE  SemQueue(b)' = SemQueue(b)
  <2>1. PICK d \in Semd : Inserted(a, p, d)
    BY <1>1, <1>2, InsertEffect, Zenon DEF QInv
  <2>2. \A e \in Semd : e \in aslh' /\ s_semAdd'[e] = b <=> e \in aslh /\ s_semAdd[e] = b
    <3>1. CASE d \in aslh /\ UNCHANGED <<aslh, s_semAdd>>
      BY <3>1
    <3>2. CASE /\ d \notin aslh /\ aslh' = aslh \cup {d}
               /\ s_semAdd' = [s_semAdd EXCEPT ![d] = a]
      BY <1>3, <1>5, <3>2
    <3> QED BY <2>1, <3>1, <3>2 DEF Inserted
  <2>3. ASSUME NEW e \in aslh, s_semAdd[e] = b
        PROVE  /\ s_procq'[e] = s_procq[e]
               /\ \A r \in Queued(e) : res_requested'[r] = res_requested[r]
    <3>1. e # d
      BY <1>3, <1>5, <2>1, <2>2, <2>3 DEF Inserted
    <3>2. s_procq'[e] = s_procq[e]
      BY <1>3, <2>1, <2>3, <3>1 DEF Inserted
    <3>3. ASSUME NEW r \in Queued(e)
          PROVE  res_requested'[r] = res_requested[r]
      <4>1. r # p /\ r \in Proc
        BY <1>2, <1>3 DEF Queued, ToSet
      <4> QED BY <1>1, <1>3, <4>1
    <3> QED BY <3>2, <3>3
  <2> QED BY <2>2, <2>3, QueueKept
<1>6. \A b \in Sem : SemVal(b) = semval[b] /\ SemVal(b)' = SemVal(b)
  BY DEF SemVal
<1>7. SemQueue(a) # <<>> \/ n > SemVal(a)
  BY <1>3, <1>6, SemQueueIs DEF granted
<1>8. [b \in Sem |-> SemQueue(b)]'
        = [[b \in Sem |-> SemQueue(b)] EXCEPT ![a] = Append(@, <<p, n>>)]
  BY <1>4, <1>5
<1>9. Semaphores!Wait(a, p, n)
  BY <1>7, <1>8 DEF Semaphores!Wait
<1>10. UNCHANGED [b \in Sem |-> SemVal(b)]
  BY <1>6
<1> QED BY <1>9, <1>10, SettledIs DEF Semaphores!Next

\* The head of the queue gets what it asked for.
LEMMA ServeStep ==
  ASSUME QInv, QInv', wake
  PROVE  Semaphores!Next
<1>1. PICK a \in Sem : a = vop.sem
  BY DEF QInv, Base, Structure, TypeOK, PhaseTypes
<1>2. PICK h \in Proc : h = headBlocked(a) /\ h # NULL
  <2>1. headBlocked(a) # NULL
    BY <1>1 DEF wake, satisfied
  <2> QED BY <2>1, OnAslFacts, Zenon DEF QInv, Base, Structure
<1>3. /\ phase = "semop" /\ phase' = "semop" /\ vop.free >= res_requested[h]
      /\ vop' = [vop EXCEPT !.free = vop.free - res_requested[h]]
      /\ res_requested' = [res_requested EXCEPT ![h] = 0]
      /\ removeBlocked(a) /\ UNCHANGED <<s_semAdd, semval>>
  BY <1>1, <1>2 DEF wake, satisfied, freeLeft
<1>4. OnAsl(a)
  BY <1>2, OnAslFacts, Zenon DEF QInv, Base, Structure
<1>5. PICK d \in aslh : d = semdOf(a) /\ s_semAdd[d] = a /\ s_procq[d] # <<>>
                       /\ h = Head(s_procq[d])
  BY <1>2, <1>4, OnAslFacts, Zenon DEF QInv, Base, Structure
<1>6. /\ res_requested \in [Proc -> Nat] /\ s_procq \in [Semd -> Seq(Proc)]
      /\ semval \in [Sem -> Nat] /\ s_semAdd \in [Semd -> Sem \cup {NoAddr}]
      /\ aslh \subseteq Semd /\ AslDistinct' /\ d \in Semd
      /\ IsInjective(s_procq[d])
  BY DEF QInv, Base, Structure, TypeOK, SemTypes, AslInv, Apart
<1>7. /\ s_procq' = [s_procq EXCEPT ![d] = Tail(s_procq[d])]
      /\ aslh' = IF Tail(s_procq[d]) = <<>> THEN aslh \ {d} ELSE aslh
  BY <1>3, <1>5, Zenon DEF removeBlocked, setProcq
<1>8. SemQueue(a) = Slots(s_procq[d], res_requested)
  BY <1>4, <1>5, SemQueueIs
<1>9. Slots(Tail(s_procq[d]), res_requested') = Tail(Slots(s_procq[d], res_requested))
  BY <1>3, <1>5, <1>6, SlotsTail
<1>10. SemQueue(a)' = Tail(SemQueue(a))
  <2>1. CASE Tail(s_procq[d]) = <<>>
    <3>1. \A e \in aslh' : s_semAdd'[e] # a
      BY <1>3, <1>5, <1>6, <1>7, <2>1 DEF QInv, Base, Structure, AslInv, AslDistinct
    <3>2. SemQueue(a)' = <<>>
      BY <1>6, <3>1, NextQueueIs
    <3>3. Slots(<<>>, res_requested') = <<>>
      BY DEF Slots
    <3> QED BY <1>8, <1>9, <2>1, <3>2, <3>3
  <2>2. CASE Tail(s_procq[d]) # <<>>
    <3>1. d \in aslh' /\ s_semAdd'[d] = a /\ s_procq'[d] = Tail(s_procq[d])
      BY <1>3, <1>5, <1>6, <1>7, <2>2
    <3>2. SemQueue(a)' = Slots(s_procq'[d], res_requested')
      BY <1>6, <3>1, NextQueueIs
    <3> QED BY <1>8, <1>9, <3>1, <3>2
  <2> QED BY <2>1, <2>2
<1>11. ASSUME NEW b \in Sem, b # a
       PROVE  SemQueue(b)' = SemQueue(b)
  <2>1. \A e \in Semd : e \in aslh' /\ s_semAdd'[e] = b <=> e \in aslh /\ s_semAdd[e] = b
    BY <1>3, <1>5, <1>7, <1>11
  <2>2. ASSUME NEW e \in aslh, s_semAdd[e] = b
        PROVE  /\ s_procq'[e] = s_procq[e]
               /\ \A r \in Queued(e) : res_requested'[r] = res_requested[r]
    <3>1. e # d /\ e \in Semd
      BY <1>5, <1>6, <1>11, <2>2
    <3>2. s_procq'[e] = s_procq[e]
      BY <1>6, <1>7, <3>1
    <3>3. h \in Queued(d)
      BY <1>5, <1>6, TailProperties DEF Queued
    <3>4. ASSUME NEW r \in Queued(e)
          PROVE  res_requested'[r] = res_requested[r]
      <4>1. r # h
        BY <1>6, <3>1, <3>3 DEF QInv, Base, Structure, Apart
      <4>2. r \in Proc
        BY <1>6, <3>1 DEF Queued, ToSet
      <4> QED BY <1>3, <1>6, <4>1, <4>2
    <3> QED BY <3>2, <3>4
  <2> QED BY <2>1, <2>2, QueueKept
<1>12. /\ SemQueue(a) # <<>> /\ Head(SemQueue(a))[2] = res_requested[h]
       /\ SemVal(a) = vop.free
  BY <1>1, <1>2, <1>3, <1>4, SemQueueIs DEF SemVal
<1>13. /\ vop \in [sem : Sem, free : Nat, ret : {"user", "tick", "dev"},
                    head : Proc \cup {NULL}, status : Int]
       /\ res_requested[h] \in Nat
  BY <1>6 DEF QInv, Base, Structure, TypeOK, PhaseTypes
<1>14. \A b \in Sem : SemVal(b)' = IF b = a THEN SemVal(b) - res_requested[h] ELSE SemVal(b)
  BY <1>1, <1>3, <1>13 DEF SemVal
<1>15. [b \in Sem |-> SemVal(b)]'
         = [[b \in Sem |-> SemVal(b)] EXCEPT ![a] = @ - Head(SemQueue(a))[2]]
  BY <1>12, <1>14
<1>16. [b \in Sem |-> SemQueue(b)]'
         = [[b \in Sem |-> SemQueue(b)] EXCEPT ![a] = Tail(@)]
  BY <1>10, <1>11
<1>17. Semaphores!Serve(a)
  BY <1>3, <1>12, <1>13, <1>15, <1>16 DEF Semaphores!Serve, Semaphores!CanServe
<1> QED BY <1>17 DEF Semaphores!Next

\* The end of a V operation stores what is left.
LEMMA EndStep ==
  ASSUME QInv, QInv', endV
  PROVE  UNCHANGED Semaphores!vars
<1>1. PICK a \in Sem : a = vop.sem
  BY DEF QInv, Base, Structure, TypeOK, PhaseTypes
<1>2. /\ phase = "semop" /\ phase' # "semop"
      /\ semval' = [semval EXCEPT ![a] = vop.free]
      /\ UNCHANGED queues /\ UNCHANGED res_requested
  BY <1>1 DEF endV, Resumed, aslVars, queues
<1>3. semval \in [Sem -> Nat]
  BY DEF QInv, Base, Structure, TypeOK, SemTypes
<1>4. \A b \in Sem : SemVal(b)' = SemVal(b)
  BY <1>1, <1>2, <1>3 DEF SemVal
<1>5. [b \in Sem |-> SemVal(b)]' = [b \in Sem |-> SemVal(b)]
  BY <1>4
<1> QED BY <1>2, <1>5, QueuesKept DEF Semaphores!vars

\* A P operation of the running process, which does not panic.
LEMMA PStep ==
  ASSUME QInv, QInv', NEW a \in Sem, NEW n \in Amounts, n \in Nat, phase = "user",
         P(a, -n)
  PROVE  Semaphores!Next
<1>0. phase' # "noSemd"
  BY PHasSemd, Zenon
<1>1. CASE /\ granted(a, -n) /\ semval' = [semval EXCEPT ![a] = @ + (-n)]
           /\ UNCHANGED <<aslVars, phase>>
  <2>1. semval' = [semval EXCEPT ![a] = @ - n]
    BY <1>1 DEF QInv, Base, Structure, TypeOK, SemTypes
  <2> QED BY <1>1, <2>1, TakeStep DEF aslVars, queues
<1>2. CASE /\ ~granted(a, -n) /\ CanInsert(a)
           /\ insertBlocked(a, g_current_process)
           /\ res_requested' = [res_requested EXCEPT ![g_current_process] = -(-n)]
           /\ phase' = "sched" /\ UNCHANGED semval
  <2>1. -(-n) = n
    OBVIOUS
  <2> QED BY <1>2, <2>1, WaitStep
<1> QED BY <1>0, <1>1, <1>2 DEF P

-----------------------------------------------------------------------------
(* The refinement *)

\* A tick gives at most MaxVal units at once.
Bounded == g_pseudoClockBlk <= MaxVal

SInv == Inv /\ Bounded

LEMMA AmountsAre == 1 \in Amounts /\ \A n \in 1 .. MaxVal : n \in Amounts
BY DEF Amounts

LEMMA BoundedNext ==
  ASSUME Inv, Bounded, [Next]_vars
  PROVE  Bounded'
<1>1. g_pseudoClockBlk \in Nat /\ MaxVal \in Nat
  BY ConstAssumption DEF Inv, QInv, Base, Structure, TypeOK, CountTypes
<1>2. UNCHANGED g_pseudoClockBlk => Bounded'
  BY DEF Bounded
<1>3. CASE waitClock
  BY <1>1, <1>3 DEF waitClock, countWaiter, Bounded
<1>4. CASE tick
  BY <1>1, <1>4 DEF tick, Bounded
<1>5. CASE Internal
  <2>1. CASE scheduler \/ childByPid \/ killChild \/ reap \/ wake \/ endV
    BY <1>2, <2>1 DEF scheduler, childByPid, killChild, reap, wake, endV, countVars,
                      unchangedBySearch
  <2>2. CASE \E over \in BOOLEAN : slice(over)
    BY <1>2, <2>2 DEF slice, countVars
  <2> QED BY <1>4, <1>5, <2>1, <2>2 DEF Internal
<1>6. CASE Call
  <2>1. CASE createProcess \/ terminateSelf \/ \E p \in Proc : terminateByPid(p_pid[p])
    BY <1>2, <2>1 DEF createProcess, terminateSelf, terminateByPid, countVars,
                      unchangedBySearch
  <2>2. CASE \E a \in UserSem, w \in Weights : semop(a, w)
    BY <1>2, <2>2 DEF semop, countVars
  <2>3. CASE \E u \in Unit : ioDevop(u)
    BY <1>2, <2>3 DEF ioDevop
  <2> QED BY <1>3, <1>6, <2>1, <2>2, <2>3 DEF Call
<1>7. CASE Interrupt
  BY <1>2, <1>7 DEF Interrupt, handleTimer, handleDevices, countVars
<1>8. CASE (\E u \in Unit : deviceDone(u)) \/ stopped \/ UNCHANGED vars
  BY <1>2, <1>8 DEF deviceDone, stopped, vars, countVars
<1> QED BY <1>5, <1>6, <1>7, <1>8 DEF Next

LEMMA InitRefines == Init => SInv /\ Semaphores!Init
<1> SUFFICES ASSUME Init PROVE SInv /\ Semaphores!Init
  OBVIOUS
<1>1. Inv
  BY QInit
<1>2. Bounded
  BY ConstAssumption DEF Init, Bounded
<1>3. aslh = {} /\ phase = "sched"
  BY DEF Init
<1>4. \A a \in Sem : SemQueue(a) = <<>> /\ SemVal(a) = semval[a]
  BY <1>3 DEF SemQueue, OnAsl, SemVal
<1>5. \A a \in Sem : semval[a] \in Nat
  BY <1>1 DEF Inv, QInv, Base, Structure, TypeOK, SemTypes
<1> QED BY <1>1, <1>2, <1>4, <1>5 DEF SInv, Semaphores!Init

LEMMA CallRefines ==
  ASSUME NoKill, QInv, QInv', Call
  PROVE  [Semaphores!Next]_(Semaphores!vars)
<1> DEFINE Goal == [Semaphores!Next]_(Semaphores!vars)
<1>1. CASE createProcess
  <2>1. /\ phase = "user" /\ phase' = phase /\ pcbFree # <<>>
        /\ res_requested' = [res_requested EXCEPT ![Head(pcbFree)] = 0]
        /\ UNCHANGED queues /\ UNCHANGED semval
    BY <1>1 DEF createProcess, Issues, queues
  <2>2. Head(pcbFree) \in ToSet(pcbFree) /\ Head(pcbFree) \in Proc
    BY <2>1, TailProperties DEF QInv, Base, Structure, TypeOK, ProcTypes
  <2>3. ASSUME NEW d \in Semd, NEW p \in Queued(d)
        PROVE  res_requested'[p] = res_requested[p]
    <3>1. p # Head(pcbFree) /\ p \in Proc
      <4>1. p # Head(pcbFree)
        BY <2>2 DEF QInv, Base, Structure, Apart
      <4>2. s_procq[d] \in Seq(Proc)
        BY DEF QInv, Base, Structure, TypeOK, SemTypes
      <4> QED BY <4>1, <4>2 DEF Queued, ToSet
    <3> QED BY <2>1, <3>1 DEF QInv, Base, Structure, TypeOK, SemTypes
  <2> QED BY <2>1, <2>3, StutterWhen
<1>2. CASE terminateSelf \/ \E p \in Proc : terminateByPid(p_pid[p])
  BY <1>2 DEF terminateSelf, terminateByPid, Issues, NoKill
<1>3. ASSUME NEW a \in UserSem, NEW w \in Weights, semop(a, w)
      PROVE  Goal
  <2>1. a \in Sem /\ phase = "user" /\ w \in Int
    BY <1>3, ConstAssumption DEF semop, Issues, Sem
  <2>2. CASE w > 0
    <3>1. /\ phase' = "semop" /\ vop'.sem = a /\ vop'.free = w + semval[a]
          /\ UNCHANGED queues /\ UNCHANGED <<res_requested, semval>>
      BY <1>3, <2>1, <2>2 DEF semop, startV, aslVars, queues
    <3>2. w \in Amounts
      BY <2>2 DEF Amounts
    <3> QED BY <2>1, <3>1, <3>2, GiveStep
  <2>3. CASE w < 0
    <3>1. P(a, w) /\ -w \in Nat /\ -(-w) = w
      BY <1>3, <2>1, <2>3 DEF semop
    <3>2. -w \in Amounts
      BY <2>3 DEF Amounts
    <3>3. P(a, -(-w))
      BY <3>1
    <3> QED BY <2>1, <3>1, <3>2, <3>3, PStep
  <2>4. CASE w = 0
    <3>1. phase' = "badWeight" /\ UNCHANGED queues /\ UNCHANGED <<res_requested, semval>>
      BY <1>3, <2>4 DEF semop, aslVars, queues
    <3> QED BY <2>1, <3>1, StutterWhen
  <2> QED BY <2>1, <2>2, <2>3, <2>4
<1>4. CASE waitClock \/ \E u \in Unit : ioDevop(u)
  <2>1. PICK a \in Sem : P(a, -1)
    BY <1>4 DEF waitClock, ioDevop, Sem, DevCells
  <2>2. phase = "user"
    BY <1>4 DEF waitClock, ioDevop, Issues
  <2>3. 1 \in Amounts /\ 1 \in Nat
    BY AmountsAre
  <2> QED BY <2>1, <2>2, <2>3, PStep
<1> QED BY <1>1, <1>2, <1>3, <1>4 DEF Call

LEMMA NextRefines ==
  ASSUME NoKill, SInv, [Next]_vars
  PROVE  SInv' /\ [Semaphores!Next]_(Semaphores!vars)
<1> DEFINE Goal == [Semaphores!Next]_(Semaphores!vars)
<1>1. Inv'
  <2>1. Structure' /\ Rest' /\ NotKilling' /\ phase' # "noSemd"
    BY StepKeeps DEF SInv
  <2>2. TypeOK'
    BY TypeNext DEF SInv, Inv, QInv, Base, Structure
  <2> QED BY <2>1, <2>2 DEF Inv, QInv, Base
<1>2. Bounded'
  BY BoundedNext DEF SInv
<1>3. QInv /\ QInv' /\ phase \notin {"search", "kill"}
  BY <1>1 DEF SInv, Inv, QInv, Base, Structure, NotKilling
<1> SUFFICES Goal
  BY <1>1, <1>2 DEF SInv
<1>4. ASSUME UNCHANGED queues, UNCHANGED <<res_requested, semval>>,
             (phase # "semop" /\ phase' # "semop") \/ UNCHANGED <<phase, vop>>
      PROVE  Goal
  BY <1>3, <1>4, StutterWhen
<1>5. CASE Internal
  <2>1. CASE scheduler
    BY <1>4, <2>1 DEF scheduler, aslVars, queues
  <2>2. CASE childByPid \/ killChild \/ reap
    BY <1>3, <2>2 DEF childByPid, killChild, reap
  <2>3. CASE wake
    BY <1>3, <2>3, ServeStep
  <2>4. CASE endV
    BY <1>3, <2>4, EndStep
  <2>5. CASE tick
    <3>1. /\ phase = "tick" /\ UNCHANGED queues /\ UNCHANGED <<res_requested, semval>>
      BY <2>5 DEF tick, aslVars, queues
    <3>2. CASE g_pseudoClockBlk > 0
      <4>1. /\ phase' = "semop" /\ vop'.sem = Clock
            /\ vop'.free = g_pseudoClockBlk + semval[Clock]
        BY <2>5, <3>2 DEF tick, startV
      <4>2. PICK n \in 1 .. MaxVal : n = g_pseudoClockBlk
        BY <1>3, <3>2, ConstAssumption DEF SInv, Bounded, QInv, Base, Structure, TypeOK, CountTypes
      <4>3. n \in Amounts /\ Clock \in Sem
        BY AmountsAre DEF Sem
      <4> QED BY <1>3, <3>1, <4>1, <4>2, <4>3, GiveStep
    <3>3. CASE ~(g_pseudoClockBlk > 0)
      BY <1>4, <2>5, <3>1, <3>3 DEF tick
    <3> QED BY <3>2, <3>3
  <2>6. CASE \E over \in BOOLEAN : slice(over)
    BY <1>4, <2>6 DEF slice, Resumed, aslVars, queues
  <2> QED BY <1>5, <2>1, <2>2, <2>3, <2>4, <2>5, <2>6 DEF Internal
<1>6. CASE Call
  BY <1>3, <1>6, CallRefines
<1>7. CASE Interrupt
  <2>1. ASSUME NEW expired \in BOOLEAN, handleTimer(expired)
        PROVE  Goal
    BY <1>4, <2>1 DEF handleTimer, Interruptible, aslVars, queues
  <2>2. ASSUME NEW u \in Unit, handleDevices(u)
        PROVE  Goal
    <3>1. /\ phase # "semop" /\ UNCHANGED queues
          /\ UNCHANGED <<res_requested, semval>>
      BY <2>2 DEF handleDevices, Interruptible, aslVars, queues
    <3>2. CASE phase' = Resumed(g_current_process)
      BY <1>4, <3>1, <3>2 DEF Resumed
    <3>3. CASE startV(IntSem(u), 1, "dev", headBlocked(IntSem(u)), statusOf(u))
      <4>1. IntSem(u) \in Sem /\ 1 \in Amounts
        BY AmountsAre DEF Sem, DevCells
      <4>2. /\ phase' = "semop" /\ vop'.sem = IntSem(u)
            /\ vop'.free = 1 + semval[IntSem(u)]
        BY <3>3 DEF startV
      <4> QED BY <1>3, <3>1, <4>1, <4>2, GiveStep
    <3> QED BY <2>2, <3>2, <3>3 DEF handleDevices
  <2> QED BY <1>7, <2>1, <2>2 DEF Interrupt
<1>8. CASE (\E u \in Unit : deviceDone(u)) \/ stopped \/ UNCHANGED vars
  BY <1>4, <1>8 DEF deviceDone, stopped, vars, aslVars, queues
<1> QED BY <1>5, <1>6, <1>7, <1>8 DEF Next

\* As long as no process is terminated, SYS3, SYS9, SYS10 and the interrupts
\* take, give and hand on units as first-come first-served semaphores do, for
\* any weights and any number of processes.
THEOREM SemaphoresImplemented == ASSUME NoKill PROVE Spec => UnitsServed
<1>1. Init => SInv /\ Semaphores!Init
  BY InitRefines
<1>2. SInv /\ [Next]_vars => SInv' /\ [Semaphores!Next]_(Semaphores!vars)
  BY NextRefines
<1> QED BY <1>1, <1>2, PTL DEF Spec, UnitsServed, Semaphores!Spec
=============================================================================
