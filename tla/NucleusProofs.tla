--------------------------- MODULE NucleusProofs ----------------------------
(***************************************************************************)
(* Theorems about Nucleus, for every value of its constants: the types and *)
(* the pool of pcbs; queues and ASL as long as nobody is terminated; then  *)
(* the tree, the pids, the queues and the ASL with SYS2 (TInv).            *)
(***************************************************************************)
EXTENDS Nucleus, ListLemmas, FiniteSetTheorems

-----------------------------------------------------------------------------
(* Types of the operations of pcb.c and asl.c *)

LEMMA OutChildType ==
  ASSUME ProcTypes, NEW p \in Proc, outChild(p)
  PROVE  /\ p_parent' \in [Proc -> Proc \cup {NULL}]
         /\ p_children' \in [Proc -> Seq(Proc)]
<1>1. CASE p_parent[p] = NULL
  BY <1>1 DEF ProcTypes, outChild
<1>2. CASE p_parent[p] # NULL
  <2>1. p_parent[p] \in Proc /\ p_children[p_parent[p]] \in Seq(Proc)
    BY <1>2 DEF ProcTypes
  <2>2. Without(p_children[p_parent[p]], p) \in Seq(Proc)
    BY <2>1, WithoutProperties, Zenon
  <2> QED BY <1>2, <2>1, <2>2 DEF ProcTypes, outChild
<1> QED BY <1>1, <1>2

LEMMA InsertProcQType ==
  ASSUME ProcTypes, NEW p \in Proc, insertProcQ(p)
  PROVE  g_ready_queue' \in Seq(Proc)
<1>1. Append(g_ready_queue, p) \in Seq(Proc)
  BY AppendList, Zenon DEF ProcTypes
<1> QED BY <1>1 DEF insertProcQ

LEMMA SetProcqType ==
  ASSUME SemTypes, NEW d \in Semd, NEW q \in Seq(Proc), setProcq(d, q)
  PROVE  /\ s_procq' \in [Semd -> Seq(Proc)]
         /\ aslh' \subseteq Semd /\ semdFree' \in Seq(Semd)
<1>1. enqueueFree(semdFree, d) \in Seq(Semd)
  BY EnqueueFreeType DEF SemTypes
<1> QED BY <1>1 DEF SemTypes, setProcq

\* headBlocked yields a process or NULL; a process, of a semaphore on the ASL.
LEMMA HeadBlockedType ==
  ASSUME SemTypes, NEW a
  PROVE  /\ headBlocked(a) \in Proc \cup {NULL}
         /\ OnAsl(a) => semdOf(a) \in aslh /\ semdOf(a) \in Semd
         /\ headBlocked(a) # NULL => /\ OnAsl(a)
                                     /\ s_procq[semdOf(a)] # <<>>
                                     /\ headBlocked(a) = Head(s_procq[semdOf(a)])
                                     /\ headBlocked(a) \in Proc
<1>1. OnAsl(a) => semdOf(a) \in aslh /\ semdOf(a) \in Semd
  BY DEF SemTypes, OnAsl, semdOf
<1>2. CASE OnAsl(a) /\ s_procq[semdOf(a)] # <<>>
  <2>1. s_procq[semdOf(a)] \in Seq(Proc)
    BY <1>1, <1>2 DEF SemTypes
  <2>2. Head(s_procq[semdOf(a)]) \in Proc
    BY <1>2, <2>1, TailProperties, Zenon
  <2> QED BY <1>1, <1>2, <2>2, Zenon DEF headBlocked
<1>3. CASE ~(OnAsl(a) /\ s_procq[semdOf(a)] # <<>>)
  BY <1>1, <1>3, Zenon DEF headBlocked
<1> QED BY <1>2, <1>3

LEMMA RemoveBlockedType ==
  ASSUME SemTypes, NEW a, headBlocked(a) # NULL, removeBlocked(a)
  PROVE  /\ s_procq' \in [Semd -> Seq(Proc)]
         /\ aslh' \subseteq Semd /\ semdFree' \in Seq(Semd)
<1>1. semdOf(a) \in Semd /\ s_procq[semdOf(a)] # <<>>
  BY HeadBlockedType, Zenon
<1>2. s_procq[semdOf(a)] \in Seq(Proc)
  BY <1>1 DEF SemTypes
<1>3. Tail(s_procq[semdOf(a)]) \in Seq(Proc)
  BY <1>1, <1>2, TailProperties, Zenon
<1>4. setProcq(semdOf(a), Tail(s_procq[semdOf(a)]))
  BY DEF removeBlocked
<1> QED BY <1>1, <1>3, <1>4, SetProcqType, Zenon

LEMMA OutBlockedType ==
  ASSUME SemTypes, NEW p \in Proc, p_cursem[p] # NULL, outBlocked(p)
  PROVE  /\ s_procq' \in [Semd -> Seq(Proc)]
         /\ aslh' \subseteq Semd /\ semdFree' \in Seq(Semd)
<1>1. p_cursem[p] \in Semd /\ s_procq[p_cursem[p]] \in Seq(Proc)
  BY DEF SemTypes
<1>2. Without(s_procq[p_cursem[p]], p) \in Seq(Proc)
  BY <1>1, WithoutProperties, Zenon
<1>3. setProcq(p_cursem[p], Without(s_procq[p_cursem[p]], p))
  BY DEF outBlocked
<1> QED BY <1>1, <1>2, <1>3, SetProcqType, Zenon

LEMMA InsertBlockedType ==
  ASSUME SemTypes, NEW a \in Sem, NEW p \in Proc, CanInsert(a),
         insertBlocked(a, p)
  PROVE  /\ p_cursem' \in [Proc -> Semd \cup {NULL}]
         /\ aslh' \subseteq Semd /\ semdFree' \in Seq(Semd)
         /\ s_semAdd' \in [Semd -> Sem \cup {NoAddr}]
         /\ s_procq' \in [Semd -> Seq(Proc)]
<1>1. CASE OnAsl(a)
  <2>1. semdOf(a) \in Semd /\ s_procq[semdOf(a)] \in Seq(Proc)
    BY <1>1, HeadBlockedType, Zenon DEF SemTypes
  <2>2. Append(s_procq[semdOf(a)], p) \in Seq(Proc)
    BY <2>1, AppendList, Zenon
  <2> QED BY <1>1, <2>1, <2>2 DEF SemTypes, insertBlocked
<1>2. CASE ~OnAsl(a)
  <2>1. semdFree \in Seq(Semd) /\ semdFree # <<>>
    BY <1>2 DEF SemTypes, CanInsert
  <2>2. Head(semdFree) \in Semd /\ Tail(semdFree) \in Seq(Semd)
    BY <2>1, TailProperties, Zenon
  <2>3. <<p>> \in Seq(Proc)
    OBVIOUS
  <2> QED BY <1>2, <2>2, <2>3 DEF SemTypes, insertBlocked
<1> QED BY <1>1, <1>2

\* A P operation of the running process leaves the semaphores well formed:
\* what a granted request takes was there.
LEMMA PType ==
  ASSUME TypeOK, NEW a \in Sem, NEW weight \in Int, weight < 0,
         phase = "user", P(a, weight)
  PROVE  /\ SemTypes'
         /\ g_soft_block_count' \in Int
         /\ \/ phase' = "user" /\ g_current_process' = g_current_process
            \/ phase' = "sched" /\ g_current_process' = NULL
            \/ phase' = "noSemd" /\ g_current_process' = g_current_process
<1>1. g_current_process \in Proc
  BY DEF TypeOK, ProcTypes, PhaseTypes
<1>2. CASE granted(a, weight) /\ semval' = [semval EXCEPT ![a] = @ + weight]
           /\ UNCHANGED <<aslVars, g_current_process, g_soft_block_count, phase>>
  <2>1. semval[a] + weight \in Nat
    BY <1>2 DEF TypeOK, SemTypes, granted
  <2> QED BY <1>2, <2>1 DEF TypeOK, SemTypes, CountTypes, aslVars
<1>3. CASE /\ ~granted(a, weight) /\ CanInsert(a)
           /\ insertBlocked(a, g_current_process)
           /\ res_requested' =
                [res_requested EXCEPT ![g_current_process] = -weight]
           /\ g_current_process' = NULL
           /\ g_soft_block_count' = IF isDev(a) THEN g_soft_block_count + 1
                                    ELSE g_soft_block_count
           /\ phase' = "sched"
           /\ UNCHANGED semval
  <2>1. -weight \in Nat
    OBVIOUS
  <2>2. res_requested' \in [Proc -> Nat] /\ semval' \in [Sem -> Nat]
    BY <1>1, <1>3, <2>1 DEF TypeOK, SemTypes
  <2>3. /\ p_cursem' \in [Proc -> Semd \cup {NULL}]
        /\ aslh' \subseteq Semd /\ semdFree' \in Seq(Semd)
        /\ s_semAdd' \in [Semd -> Sem \cup {NoAddr}]
        /\ s_procq' \in [Semd -> Seq(Proc)]
    BY <1>1, <1>3, InsertBlockedType, Zenon DEF TypeOK
  <2>4. g_soft_block_count' \in Int
    BY <1>3 DEF TypeOK, CountTypes
  <2> QED BY <1>3, <2>2, <2>3, <2>4 DEF SemTypes
<1>4. CASE /\ ~granted(a, weight) /\ ~CanInsert(a) /\ phase' = "noSemd"
           /\ UNCHANGED <<aslVars, semval, g_current_process,
                          g_soft_block_count>>
  BY <1>4 DEF TypeOK, SemTypes, CountTypes, aslVars
<1> QED BY <1>2, <1>3, <1>4 DEF P

-----------------------------------------------------------------------------
(* Type correctness *)

LEMMA TypeInit == Init => TypeOK
<1> SUFFICES ASSUME Init PROVE TypeOK
  OBVIOUS
<1>1. MAXPROC \in Nat \ {0} /\ SemInit \in [UserSem -> Nat]
  BY ConstAssumption
<1>2. /\ [i \in 1 .. MAXPROC-1 |-> i+1] \in Seq(Proc)
      /\ [i \in 1 .. MAXPROC |-> i] \in Seq(Semd)
  BY <1>1 DEF Proc, Semd
<1>3. <<1>> \in Seq(Proc) /\ <<>> \in Seq(Proc)
  BY <1>1 DEF Proc
<1>4. semval \in [Sem -> Nat]
  <2>1. PICK past \in [PastEnd -> {0, 1}] :
          semval = [a \in Sem |-> IF a \in UserSem THEN SemInit[a]
                                  ELSE IF a \in PastEnd THEN past[a] ELSE 0]
    BY DEF Init
  <2> QED BY <1>1, <2>1
<1>5. NoV \in [sem : Sem, free : Nat, ret : {"user", "tick", "dev"},
               head : Proc \cup {NULL}, status : Int]
  BY DEF NoV, NULL, Sem
<1>6. ProcTypes
  BY <1>1, <1>2, <1>3 DEF Init, ProcTypes, NULL
<1>7. SemTypes
  BY <1>2, <1>3, <1>4 DEF Init, SemTypes, NULL, NoAddr
<1>8. CountTypes
  BY DEF Init, CountTypes
<1>9. PhaseTypes
  BY <1>3, <1>5 DEF Init, PhaseTypes, Phases, NULL
<1> QED BY <1>6, <1>7, <1>8, <1>9 DEF TypeOK

LEMMA TypeScheduler == TypeOK /\ scheduler => TypeOK'
<1> SUFFICES ASSUME TypeOK, scheduler PROVE TypeOK'
  OBVIOUS
<1> USE DEF TypeOK, scheduler, treeVars, aslVars, countVars, killVars
<1>1. SemTypes' /\ CountTypes'
  BY DEF SemTypes, CountTypes
<1>2. CASE g_ready_queue # <<>>
  <2>1. Head(g_ready_queue) \in Proc /\ Tail(g_ready_queue) \in Seq(Proc)
    BY <1>2, TailProperties, Zenon DEF ProcTypes
  <2>2. ProcTypes'
    BY <1>2, <2>1 DEF ProcTypes
  <2>3. g_current_process' # NULL
    BY <1>2, <2>1, ConstAssumption DEF Proc, NULL
  <2>4. PhaseTypes'
    BY <1>2, <2>3 DEF PhaseTypes, Phases
  <2> QED BY <1>1, <2>2, <2>4
<1>3. CASE g_ready_queue = <<>>
  <2>1. ProcTypes'
    BY <1>3 DEF ProcTypes
  <2>2. PhaseTypes'
    BY <1>3 DEF PhaseTypes, Phases, Final
  <2> QED BY <1>1, <2>1, <2>2
<1> QED BY <1>2, <1>3

LEMMA TypeCreateProcess == TypeOK /\ createProcess => TypeOK'
<1> SUFFICES ASSUME TypeOK, createProcess PROVE TypeOK'
  OBVIOUS
<1> USE DEF TypeOK, createProcess, Issues
<1> DEFINE p == Head(pcbFree)
           c == g_current_process
<1>1. p \in Proc /\ Tail(pcbFree) \in Seq(Proc)
  BY TailProperties, Zenon DEF ProcTypes
<1>2. c \in Proc
  BY DEF ProcTypes, PhaseTypes
<1>3. g_ready_queue' \in Seq(Proc)
  BY <1>1, InsertProcQType, Zenon
<1>4. p_children' \in [Proc -> Seq(Proc)]
  <2> DEFINE f == [p_children EXCEPT ![p] = <<>>]
  <2>1. p_children' = [f EXCEPT ![c] = Append(f[c], p)]
    OBVIOUS
  <2>2. f \in [Proc -> Seq(Proc)]
    BY <1>1 DEF ProcTypes
  <2>3. Append(f[c], p) \in Seq(Proc)
    BY <1>1, <1>2, <2>2, AppendList, Zenon
  <2> HIDE DEF createProcess, p, c, f
  <2> QED BY <1>1, <1>2, <2>1, <2>2, <2>3
<1>5. pid_selector \in Int
  BY DEF pid_selector, CountTypes
<1>6. ProcTypes'
  <2>1. /\ pcbFree' = Tail(pcbFree) /\ g_current_process' = c
        /\ p_pid' = [p_pid EXCEPT ![p] = pid_selector]
        /\ p_parent' = [p_parent EXCEPT ![p] = c]
        /\ p_a1' = [p_a1 EXCEPT ![p] = 0]
    OBVIOUS
  <2> HIDE DEF createProcess, p, c
  <2>2. p_pid' \in [Proc -> Int] /\ p_a1' \in [Proc -> Int]
    BY <1>1, <1>5, <2>1 DEF ProcTypes
  <2>3. p_parent' \in [Proc -> Proc \cup {NULL}]
    BY <1>1, <1>2, <2>1 DEF ProcTypes
  <2>4. pcbFree' \in Seq(Proc) /\ g_current_process' \in Proc \cup {NULL}
    BY <1>1, <1>2, <2>1
  <2> QED BY <1>3, <1>4, <2>2, <2>3, <2>4, Zenon DEF ProcTypes
<1>7. SemTypes'
  BY <1>1 DEF SemTypes
<1>8. CountTypes' /\ PhaseTypes'
  BY DEF CountTypes, PhaseTypes, killVars
<1> QED BY <1>6, <1>7, <1>8

LEMMA TypeTerminate ==
  ASSUME TypeOK, NEW pid \in Int, terminateSelf \/ terminateByPid(pid)
  PROVE  TypeOK'
<1> USE DEF TypeOK, Issues, unchangedBySearch, aslVars, countVars
<1>1. g_current_process \in Proc
  BY DEF terminateSelf, terminateByPid, ProcTypes, PhaseTypes
<1>2. SemTypes' /\ CountTypes'
  BY DEF SemTypes, CountTypes, terminateSelf, terminateByPid
<1>3. CASE terminateSelf
  <2>1. p_parent' \in [Proc -> Proc \cup {NULL}] /\ p_children' \in [Proc -> Seq(Proc)]
    BY <1>1, <1>3, OutChildType, Zenon DEF terminateSelf, enter
  <2>2. ProcTypes'
    BY <1>3, <2>1 DEF ProcTypes, terminateSelf
  <2>3. stack' \in Seq(Proc) /\ stack' # <<>>
    BY <1>1, <1>3 DEF terminateSelf, enter
  <2>4. PhaseTypes'
    BY <1>3, <2>3 DEF PhaseTypes, terminateSelf, enter, Phases
  <2> QED BY <1>2, <2>2, <2>4
<1>4. CASE terminateByPid(pid)
  <2>1. ProcTypes'
    BY <1>4 DEF ProcTypes, terminateByPid
  <2>2. PhaseTypes'
    BY <1>1, <1>4 DEF PhaseTypes, terminateByPid, Phases
  <2> QED BY <1>2, <2>1, <2>2
<1> QED BY <1>3, <1>4

LEMMA TypeChildByPid == TypeOK /\ childByPid => TypeOK'
<1> SUFFICES ASSUME TypeOK, childByPid PROVE TypeOK'
  OBVIOUS
<1> USE DEF TypeOK, unchangedBySearch, aslVars, countVars
<1> DEFINE ch == p_children[cursor]
           hit(c) == p_pid[c] = target \/ p_children[c] # <<>>
<1>1. cursor \in Proc /\ ch \in Seq(Proc) /\ g_current_process # NULL
  BY DEF childByPid, ProcTypes, PhaseTypes
<1>2. SemTypes' /\ CountTypes'
  BY DEF SemTypes, CountTypes, childByPid
<1>3. CASE phase' = "user" /\ target' = 0 /\ cursor' = NULL
           /\ UNCHANGED <<stack, p_parent, p_children>>
  <2>1. ProcTypes'
    BY <1>3 DEF ProcTypes, childByPid
  <2>2. PhaseTypes'
    BY <1>1, <1>3 DEF PhaseTypes, Phases, childByPid
  <2> QED BY <1>2, <2>1, <2>2
<1>4. ASSUME NEW i \in DOMAIN ch, target' = target,
             \/ enter(ch[i]) /\ cursor' = NULL
             \/ descend(ch[i]) /\ UNCHANGED <<phase, stack, p_parent, p_children>>
      PROVE  TypeOK'
  <2>1. ch[i] \in Proc
    BY <1>1
  <2>2. CASE enter(ch[i]) /\ cursor' = NULL
    <3>1. p_parent' \in [Proc -> Proc \cup {NULL}] /\ p_children' \in [Proc -> Seq(Proc)]
      BY <2>1, <2>2, OutChildType, Zenon DEF enter
    <3>2. ProcTypes'
      BY <3>1 DEF ProcTypes, childByPid
    <3>3. stack' \in Seq(Proc) /\ stack' # <<>> /\ phase' = "kill"
      BY <2>1, <2>2 DEF enter
    <3>4. vop' = vop /\ g_current_process' = g_current_process
      BY DEF childByPid
    <3>5. PhaseTypes'
      BY <1>1, <1>4, <2>2, <3>3, <3>4 DEF PhaseTypes, Phases
    <3> QED BY <1>2, <3>2, <3>5
  <2>3. CASE descend(ch[i]) /\ UNCHANGED <<phase, stack, p_parent, p_children>>
    <3>1. ProcTypes'
      BY <2>3 DEF ProcTypes, childByPid
    <3>2. cursor' \in Proc /\ vop' = vop /\ g_current_process' = g_current_process
      BY <2>1, <2>3 DEF descend, childByPid
    <3>3. cursor' # NULL
      BY <3>2, ConstAssumption DEF Proc, NULL
    <3>4. PhaseTypes'
      BY <1>1, <1>4, <2>3, <3>2, <3>3 DEF PhaseTypes
    <3> QED BY <1>2, <3>1, <3>4
  <2> QED BY <1>4, <2>2, <2>3
<1> QED BY <1>3, <1>4, Zenon DEF childByPid

LEMMA TypeKillChild == TypeOK /\ killChild => TypeOK'
<1> SUFFICES ASSUME TypeOK, killChild PROVE TypeOK'
  OBVIOUS
<1> USE DEF TypeOK, killChild, unchangedBySearch, aslVars, countVars
<1> DEFINE p == Last(stack)
           c == Head(p_children[p])
<1>1. p \in Proc /\ stack \in Seq(Proc)
  BY FrontProperties, Zenon DEF PhaseTypes
<1>2. p_children[p] \in Seq(Proc) /\ p_children[p] # <<>>
  BY <1>1 DEF ProcTypes
<1>3. c \in Proc /\ Tail(p_children[p]) \in Seq(Proc)
  BY <1>2, TailProperties, Zenon
<1>4. stack' = Append(stack, c)
      /\ p_children' = [p_children EXCEPT ![p] = Tail(p_children[p])]
      /\ p_parent' = [p_parent EXCEPT ![c] = NULL]
  OBVIOUS
<1>5. SemTypes' /\ CountTypes'
  BY DEF SemTypes, CountTypes
<1>6. ProcTypes'
  <2>1. UNCHANGED <<pcbFree, g_ready_queue, g_current_process, p_pid, p_a1>>
    OBVIOUS
  <2> HIDE DEF killChild, p, c
  <2> QED BY <1>1, <1>3, <1>4, <2>1 DEF ProcTypes
<1>7. PhaseTypes'
  <2>1. UNCHANGED <<phase, target, cursor, vop, g_current_process>>
    OBVIOUS
  <2> HIDE DEF killChild, p, c
  <2>2. Append(stack, c) \in Seq(Proc) /\ Len(Append(stack, c)) = Len(stack) + 1
    BY <1>1, <1>3, AppendList, Zenon
  <2>3. stack' \in Seq(Proc) /\ stack' # <<>>
    BY <1>1, <1>4, <2>2, LenProperties
  <2> QED BY <2>1, <2>3 DEF PhaseTypes
<1> QED BY <1>5, <1>6, <1>7

LEMMA TypeReap == TypeOK /\ reap => TypeOK'
<1> SUFFICES ASSUME TypeOK, reap PROVE TypeOK'
  OBVIOUS
<1> USE DEF TypeOK
<1> DEFINE p == Last(stack)
<1>1. p \in Proc /\ Front(stack) \in Seq(Proc) /\ Len(Front(stack)) = Len(stack) - 1
  BY FrontProperties, Zenon DEF PhaseTypes, reap
<1>2. /\ phase = "kill" /\ freePcb(p) /\ stack' = Front(stack)
      /\ g_current_process' = IF Len(stack) = 1 /\ target = 0
                              THEN NULL ELSE g_current_process
      /\ target' = IF Len(stack) = 1 THEN 0 ELSE target
      /\ phase' = IF p \in ToSet(g_ready_queue') THEN "wild"
                  ELSE IF Len(stack) > 1 THEN "kill"
                  ELSE IF target = 0 THEN "sched" ELSE "user"
      /\ UNCHANGED <<treeVars, p_cursem, res_requested, s_semAdd, p_a1, semval,
                     g_soft_block_count, g_pseudoClockBlk, abs_process_count,
                     dev, cursor, vop>>
  BY Zenon DEF reap
<1>3. IF p_cursem[p] # NULL
      THEN outBlocked(p) /\ UNCHANGED g_ready_queue
      ELSE /\ g_ready_queue' = Without(g_ready_queue, p)
           /\ UNCHANGED <<aslh, semdFree, s_procq>>
  BY Zenon DEF reap
<1> HIDE DEF p
<1>4. SemTypes'
  <2>1. CASE p_cursem[p] # NULL
    <3>1. /\ s_procq' \in [Semd -> Seq(Proc)]
          /\ aslh' \subseteq Semd /\ semdFree' \in Seq(Semd)
      BY <1>1, <1>3, <2>1, OutBlockedType, Zenon
    <3> QED BY <1>2, <3>1 DEF SemTypes
  <2>2. CASE p_cursem[p] = NULL
    BY <1>2, <1>3, <2>2 DEF SemTypes
  <2> QED BY <2>1, <2>2
<1>5. ProcTypes'
  <2>1. Append(pcbFree, p) \in Seq(Proc)
    BY <1>1, AppendList, Zenon DEF ProcTypes
  <2>2. Without(g_ready_queue, p) \in Seq(Proc)
    BY WithoutProperties, Zenon DEF ProcTypes
  <2>3. g_ready_queue' \in Seq(Proc)
    BY <1>3, <2>2 DEF ProcTypes
  <2> QED BY <1>2, <2>1, <2>3 DEF ProcTypes, freePcb, treeVars
<1>6. CountTypes'
  BY <1>2 DEF CountTypes, freePcb
<1>7. PhaseTypes'
  <2>1. stack \in Seq(Proc) /\ stack # <<>> /\ g_current_process # NULL
    BY <1>2 DEF PhaseTypes
  <2>2. Len(stack) \in Nat /\ Len(stack) # 0
    BY <2>1, LenProperties, EmptySeq
  <2>3. Len(stack) > 1 => Front(stack) # <<>>
    BY <1>1, <2>2, EmptySeq
  <2>4. Len(stack) > 1 <=> Len(stack) # 1
    <3>1. \A n \in Nat \ {0} : n > 1 <=> n # 1
      OBVIOUS
    <3> QED BY <2>2, <3>1, Zenon
  <2>5. \/ phase' = "wild"
        \/ phase' = "kill" /\ Len(stack) > 1
        \/ phase' = "sched" /\ Len(stack) = 1 /\ target = 0
        \/ phase' = "user" /\ target # 0
    BY <1>2, <2>4
  <2>6. target' \in Int /\ UNCHANGED <<cursor, vop>> /\ stack' = Front(stack)
    BY <1>2 DEF PhaseTypes
  <2> DEFINE last == Len(stack) = 1 /\ target = 0
  <2>7. \/ phase' = "wild"
        \/ phase' = "kill" /\ ~last
        \/ phase' = "sched" /\ last
        \/ phase' = "user" /\ ~last
    BY <2>4, <2>5, Zenon
  <2>8. g_current_process' = IF last THEN NULL ELSE g_current_process
    BY <1>2
  <2>9. /\ phase' \in {"user", "search", "kill"} => g_current_process' # NULL
        /\ phase' \in {"sched", "idle"} => g_current_process' = NULL
    <3> HIDE DEF last
    <3> QED BY <2>1, <2>7, <2>8
  <2> QED BY <1>1, <2>3, <2>5, <2>6, <2>9 DEF PhaseTypes, Phases, Final
<1> QED BY <1>4, <1>5, <1>6, <1>7

LEMMA TypeWake == TypeOK /\ wake => TypeOK'
<1> SUFFICES ASSUME TypeOK, wake PROVE TypeOK'
  OBVIOUS
<1> USE DEF TypeOK
<1> DEFINE h == headBlocked(vop.sem)
<1>1. /\ phase = "semop" /\ satisfied(h) /\ removeBlocked(vop.sem)
      /\ insertProcQ(h)
      /\ vop' = [vop EXCEPT !.free = vop.free - res_requested[h]]
      /\ res_requested' = [res_requested EXCEPT ![h] = 0]
      /\ g_soft_block_count' = IF isDev(s_semAdd[p_cursem[h]])
                               THEN g_soft_block_count - 1
                               ELSE g_soft_block_count
      /\ UNCHANGED <<pcbFree, g_current_process, treeVars, p_cursem, s_semAdd,
                     p_a1, semval, g_process_count, g_pseudoClockBlk,
                     abs_process_count, dev, phase, killVars>>
  BY Zenon DEF wake, freeLeft
<1>2. h # NULL /\ vop.free >= res_requested[h]
  BY <1>1, Zenon DEF satisfied
<1>3. h \in Proc
  BY <1>2, HeadBlockedType, Zenon
<1>4. /\ s_procq' \in [Semd -> Seq(Proc)]
      /\ aslh' \subseteq Semd /\ semdFree' \in Seq(Semd)
  BY <1>1, <1>2, RemoveBlockedType, Zenon
<1>5. g_ready_queue' \in Seq(Proc)
  BY <1>1, <1>3, InsertProcQType, Zenon
<1> HIDE DEF h
<1>6. ProcTypes'
  BY <1>1, <1>5 DEF ProcTypes, treeVars
<1>7. SemTypes'
  BY <1>1, <1>4 DEF SemTypes
<1>8. CountTypes'
  BY <1>1 DEF CountTypes
<1>9. PhaseTypes'
  <2>1. vop.free - res_requested[h] \in Nat
    BY <1>2, <1>3 DEF PhaseTypes, SemTypes
  <2> QED BY <1>1, <2>1 DEF PhaseTypes, killVars
<1> QED BY <1>6, <1>7, <1>8, <1>9

LEMMA TypeEndV == TypeOK /\ endV => TypeOK'
<1> SUFFICES ASSUME TypeOK, endV PROVE TypeOK'
  OBVIOUS
<1> USE DEF TypeOK
<1>1. /\ phase = "semop"
      /\ semval' = [semval EXCEPT ![vop.sem] = vop.free]
      /\ \/ p_a1' = p_a1
         \/ p_a1' = [p_a1 EXCEPT ![vop.head] = vop.status]
      /\ vop' = NoV
      /\ \/ phase' = "tick"
         \/ phase' = Resumed(g_current_process)
      /\ UNCHANGED <<pcbFree, g_ready_queue, g_current_process, treeVars,
                     aslVars, countVars, dev, killVars>>
  BY DEF endV
<1>2. ProcTypes'
  BY <1>1 DEF ProcTypes, PhaseTypes, treeVars
<1>3. SemTypes'
  BY <1>1 DEF SemTypes, PhaseTypes, aslVars
<1>4. CountTypes'
  BY <1>1 DEF CountTypes, countVars
<1>5. NoV \in [sem : Sem, free : Nat, ret : {"user", "tick", "dev"},
               head : Proc \cup {NULL}, status : Int]
  BY DEF NoV, NULL, Sem
<1>6. PhaseTypes'
  BY <1>1, <1>5 DEF PhaseTypes, Phases, Resumed, killVars
<1> QED BY <1>2, <1>3, <1>4, <1>6

\* The loop of a V operation is entered with a well-formed vop.
LEMMA StartVType ==
  ASSUME TypeOK, NEW a \in Sem, NEW weight \in Nat,
         NEW ret \in {"user", "tick", "dev"}, NEW head \in Proc \cup {NULL},
         NEW status \in Int, startV(a, weight, ret, head, status),
         UNCHANGED <<g_current_process, killVars>>
  PROVE  PhaseTypes'
<1>1. weight + semval[a] \in Nat
  BY DEF TypeOK, SemTypes
<1> QED BY <1>1 DEF TypeOK, PhaseTypes, Phases, startV, killVars

LEMMA TypeTick == TypeOK /\ tick => TypeOK'
<1> SUFFICES ASSUME TypeOK, tick PROVE TypeOK'
  OBVIOUS
<1> USE DEF TypeOK, tick
<1>1. ProcTypes' /\ SemTypes'
  BY DEF ProcTypes, SemTypes, treeVars, aslVars
<1>2. CASE g_pseudoClockBlk > 0
  <2>1. CountTypes'
    BY <1>2 DEF CountTypes
  <2>2. g_pseudoClockBlk \in Nat /\ Clock \in Sem
    BY DEF CountTypes, Sem
  <2>3. startV(Clock, g_pseudoClockBlk, "tick", NULL, 0)
        /\ UNCHANGED <<g_current_process, killVars>>
    BY <1>2
  <2>4. PhaseTypes'
    BY <2>2, <2>3, StartVType
  <2> QED BY <1>1, <2>1, <2>4
<1>3. CASE ~ g_pseudoClockBlk > 0
  BY <1>1, <1>3 DEF CountTypes, PhaseTypes, Phases, killVars
<1> QED BY <1>2, <1>3

LEMMA TypeSlice ==
  ASSUME TypeOK, NEW over \in BOOLEAN, slice(over) PROVE TypeOK'
<1> USE DEF TypeOK, slice
<1>1. SemTypes' /\ CountTypes'
  BY DEF SemTypes, CountTypes, aslVars, countVars
<1>2. PhaseTypes'
  BY DEF PhaseTypes, Phases, Final, Resumed, killVars
<1>3. g_ready_queue' \in Seq(Proc)
  <2>1. CASE over /\ g_current_process # NULL
    <3>1. g_current_process \in Proc /\ insertProcQ(g_current_process)
      BY <2>1 DEF ProcTypes
    <3> QED BY <3>1, InsertProcQType, Zenon
  <2>2. CASE ~(over /\ g_current_process # NULL)
    BY <2>2 DEF ProcTypes
  <2> QED BY <2>1, <2>2
<1>4. ProcTypes'
  BY <1>3 DEF ProcTypes, treeVars
<1> QED BY <1>1, <1>2, <1>4

\* The system calls on semaphores: the P operations by PType, the rest of the
\* state is theirs to set.
LEMMA TypeSemop ==
  ASSUME TypeOK, NEW a \in UserSem, NEW weight \in Weights, semop(a, weight)
  PROVE  TypeOK'
<1> USE DEF TypeOK
<1>1. a \in Sem /\ weight \in Int
  BY ConstAssumption DEF Sem
<1>2. /\ phase = "user"
      /\ UNCHANGED <<pcbFree, g_ready_queue, treeVars, p_a1, g_process_count,
                     g_pseudoClockBlk, abs_process_count, dev, killVars>>
  BY DEF semop, Issues
<1>3. CASE weight > 0 /\ startV(a, weight, "user", NULL, 0)
           /\ UNCHANGED <<aslVars, semval, g_current_process,
                          g_soft_block_count>>
  <2>1. weight \in Nat /\ UNCHANGED <<g_current_process, killVars>>
    BY <1>1, <1>2, <1>3
  <2>2. PhaseTypes'
    BY <1>1, <1>3, <2>1, StartVType
  <2> QED BY <1>2, <1>3, <2>2 DEF ProcTypes, SemTypes, CountTypes, treeVars, aslVars
<1>4. CASE weight < 0 /\ P(a, weight) /\ UNCHANGED vop
  <2>1. /\ SemTypes'
        /\ g_soft_block_count' \in Int
        /\ \/ phase' = "user" /\ g_current_process' = g_current_process
           \/ phase' = "sched" /\ g_current_process' = NULL
           \/ phase' = "noSemd" /\ g_current_process' = g_current_process
    BY <1>1, <1>2, <1>4, PType
  <2> QED BY <1>2, <1>4, <2>1
          DEF ProcTypes, CountTypes, PhaseTypes, Phases, Final, treeVars, killVars
<1>5. CASE phase' = "badWeight"
           /\ UNCHANGED <<aslVars, semval, g_current_process,
                          g_soft_block_count, vop>>
  BY <1>2, <1>5 DEF ProcTypes, SemTypes, CountTypes, PhaseTypes, Phases,
                    Final, treeVars, aslVars, killVars
<1> QED BY <1>3, <1>4, <1>5 DEF semop

LEMMA TypeWaitClock == TypeOK /\ waitClock => TypeOK'
<1> SUFFICES ASSUME TypeOK, waitClock PROVE TypeOK'
  OBVIOUS
<1> USE DEF TypeOK
<1>1. /\ phase = "user" /\ P(Clock, -1) /\ countWaiter
      /\ UNCHANGED <<pcbFree, g_ready_queue, treeVars, p_a1, g_process_count,
                     abs_process_count, dev, killVars, vop>>
  BY DEF waitClock, Issues
<1>2. Clock \in Sem /\ -1 \in Int /\ -1 < 0
  BY DEF Sem
<1>3. /\ SemTypes'
      /\ g_soft_block_count' \in Int
      /\ \/ phase' = "user" /\ g_current_process' = g_current_process
         \/ phase' = "sched" /\ g_current_process' = NULL
         \/ phase' = "noSemd" /\ g_current_process' = g_current_process
  BY <1>1, <1>2, PType
<1>4. g_pseudoClockBlk' \in Nat
  BY <1>1 DEF countWaiter, CountTypes
<1> QED BY <1>1, <1>3, <1>4
        DEF ProcTypes, CountTypes, PhaseTypes, Phases, Final, treeVars, killVars

LEMMA TypeIoDevop == ASSUME TypeOK, NEW u \in Unit, ioDevop(u) PROVE TypeOK'
<1> USE DEF TypeOK
<1> DEFINE c == g_current_process
<1>1. /\ phase = "user" /\ P(IoSem(u), -1)
      /\ p_a1' = [p_a1 EXCEPT ![c] = 0]
      /\ dev' = dev \/ dev' = [dev EXCEPT ![u] = [st |-> "busy", by |-> p_pid[c]]]
      /\ UNCHANGED <<pcbFree, g_ready_queue, treeVars, g_process_count,
                     g_pseudoClockBlk, abs_process_count, killVars, vop>>
  BY DEF ioDevop, Issues, command
<1>2. IoSem(u) \in Sem /\ -1 \in Int /\ -1 < 0
  BY DEF Sem, DevCells
<1>3. /\ SemTypes'
      /\ g_soft_block_count' \in Int
      /\ \/ phase' = "user" /\ g_current_process' = c
         \/ phase' = "sched" /\ g_current_process' = NULL
         \/ phase' = "noSemd" /\ g_current_process' = c
  BY <1>1, <1>2, PType
<1>4. p_pid[c] \in Int
  BY <1>1 DEF ProcTypes, PhaseTypes
<1>5. dev' \in [Unit -> [st : {"idle", "busy", "done"}, by : Int]]
  <2>1. dev \in [Unit -> [st : {"idle", "busy", "done"}, by : Int]]
    BY DEF CountTypes
  <2>2. [st |-> "busy", by |-> p_pid[c]] \in [st : {"idle", "busy", "done"}, by : Int]
    BY <1>4
  <2> QED BY <1>1, <2>1, <2>2
<1>6. ProcTypes'
  <2>1. c \in Proc /\ p_a1' \in [Proc -> Int]
    BY <1>1 DEF ProcTypes, PhaseTypes
  <2> QED BY <1>1, <1>3, <2>1 DEF ProcTypes, treeVars
<1>7. CountTypes'
  BY <1>1, <1>3, <1>5 DEF CountTypes
<1>8. PhaseTypes'
  BY <1>1, <1>3 DEF PhaseTypes, Phases, Final, killVars
<1> QED BY <1>3, <1>6, <1>7, <1>8

LEMMA TypeHandleDevices ==
  ASSUME TypeOK, NEW u \in Unit, handleDevices(u) PROVE TypeOK'
<1> USE DEF TypeOK
<1> DEFINE a == IntSem(u)
<1>1. /\ phase \in {"user", "idle"} /\ ack(u)
      /\ \/ startV(a, 1, "dev", headBlocked(a), statusOf(u))
         \/ phase' = Resumed(g_current_process) /\ UNCHANGED vop
      /\ UNCHANGED <<pcbFree, g_ready_queue, g_current_process, treeVars,
                     aslVars, p_a1, semval, countVars, killVars>>
  BY DEF handleDevices, Interruptible
<1>2. dev \in [Unit -> [st : {"idle", "busy", "done"}, by : Int]]
  BY DEF CountTypes
<1>3. a \in Sem /\ 1 \in Nat /\ statusOf(u) \in Int
      /\ headBlocked(a) \in Proc \cup {NULL}
  <2>1. headBlocked(a) \in Proc \cup {NULL}
    BY HeadBlockedType, Zenon
  <2>2. dev[u].by \in Int /\ dev'[u].by \in Int
    BY <1>1, <1>2 DEF ack
  <2> QED BY <2>1, <2>2 DEF Sem, DevCells, statusOf
<1>4. PhaseTypes'
  <2>1. CASE startV(a, 1, "dev", headBlocked(a), statusOf(u))
    <3> HIDE DEF a
    <3> QED BY <1>1, <1>3, <2>1, StartVType
  <2>2. CASE phase' = Resumed(g_current_process) /\ UNCHANGED vop
    BY <1>1, <2>2 DEF PhaseTypes, Phases, Resumed, killVars
  <2> QED BY <1>1, <2>1, <2>2
<1>5. CountTypes'
  <2>1. dev' \in [Unit -> [st : {"idle", "busy", "done"}, by : Int]]
    BY <1>1, <1>2 DEF ack
  <2> QED BY <1>1, <2>1 DEF CountTypes, countVars
<1> QED BY <1>1, <1>4, <1>5 DEF ProcTypes, SemTypes, treeVars, aslVars

LEMMA TypeQuiet ==
  ASSUME TypeOK,
         \/ \E expired \in BOOLEAN : handleTimer(expired)
         \/ \E u \in Unit : deviceDone(u)
         \/ UNCHANGED vars
  PROVE  TypeOK'
<1> USE DEF TypeOK, treeVars, aslVars, countVars, killVars
<1>1. CASE \E expired \in BOOLEAN : handleTimer(expired)
  BY <1>1 DEF handleTimer, Interruptible, ProcTypes, SemTypes, CountTypes,
              PhaseTypes, Phases
<1>2. ASSUME NEW u \in Unit, deviceDone(u) PROVE TypeOK'
  <2>1. dev' \in [Unit -> [st : {"idle", "busy", "done"}, by : Int]]
    BY <1>2 DEF deviceDone, CountTypes
  <2> QED BY <1>2, <2>1 DEF deviceDone, ProcTypes, SemTypes, CountTypes, PhaseTypes
<1>3. CASE UNCHANGED vars
  BY <1>3 DEF vars, ProcTypes, SemTypes, CountTypes, PhaseTypes
<1> QED BY <1>1, <1>2, <1>3

LEMMA TypeNext == TypeOK /\ [Next]_vars => TypeOK'
<1> SUFFICES ASSUME TypeOK, [Next]_vars PROVE TypeOK'
  OBVIOUS
<1>1. CASE Internal
  BY <1>1, TypeScheduler, TypeChildByPid, TypeKillChild, TypeReap, TypeWake,
     TypeEndV, TypeTick, TypeSlice, Zenon DEF Internal
<1>2. CASE Call
  <2>1. \A p \in Proc : p_pid[p] \in Int
    BY DEF TypeOK, ProcTypes
  <2>2. 0 \in Int
    OBVIOUS
  <2> QED BY <1>2, <2>1, <2>2, TypeCreateProcess, TypeTerminate, TypeSemop,
             TypeWaitClock, TypeIoDevop, Zenon DEF Call
<1>3. CASE Interrupt
  BY <1>3, TypeQuiet, TypeHandleDevices, Zenon DEF Interrupt
<1>4. CASE (\E u \in Unit : deviceDone(u)) \/ stopped \/ UNCHANGED vars
  BY <1>4, TypeQuiet, Zenon DEF stopped
<1> QED BY <1>1, <1>2, <1>3, <1>4, Zenon DEF Next

\* In every reachable state each variable of the nucleus has its type, and the
\* process a phase speaks of exists; no semaphore is ever negative, which
\* semop's comparison of unsigned numbers relies on.
THEOREM TypeCorrect == Spec => []TypeOK
<1>1. Init => TypeOK
  BY TypeInit
<1>2. TypeOK /\ [Next]_vars => TypeOK'
  BY TypeNext
<1> QED BY <1>1, <1>2, PTL DEF Spec

-----------------------------------------------------------------------------
(* The pool of process control blocks *)

\* Only createProcess and the end of an activation of terminateProgeny change
\* the list of free pcbs or the number of processes.
LEMMA PoolFrame ==
  ASSUME [Next]_vars, ~createProcess, ~reap
  PROVE  UNCHANGED <<pcbFree, g_process_count>>
<1> USE DEF countVars, treeVars, vars
<1>1. CASE Internal
  BY <1>1 DEF Internal, scheduler, childByPid, killChild, wake, endV, tick,
              slice, unchangedBySearch
<1>2. CASE Call
  BY <1>2 DEF Call, terminateSelf, terminateByPid, semop, waitClock, ioDevop,
              unchangedBySearch
<1>3. CASE Interrupt
  BY <1>3 DEF Interrupt, handleTimer, handleDevices
<1>4. CASE (\E u \in Unit : deviceDone(u)) \/ stopped \/ UNCHANGED vars
  BY <1>4 DEF deviceDone, stopped
<1> QED BY <1>1, <1>2, <1>3, <1>4, Zenon DEF Next

LEMMA CountInit == Init => CountMatches
<1> SUFFICES ASSUME Init PROVE CountMatches
  OBVIOUS
<1>1. MAXPROC \in Nat \ {0}
  BY ConstAssumption
<1>2. Len([i \in 1 .. MAXPROC - 1 |-> i + 1]) = MAXPROC - 1
  BY <1>1
<1> QED BY <1>1, <1>2 DEF Init, CountMatches

LEMMA CountNext == TypeOK /\ CountMatches /\ [Next]_vars => CountMatches'
<1> SUFFICES ASSUME TypeOK, CountMatches, [Next]_vars PROVE CountMatches'
  OBVIOUS
<1>1. MAXPROC \in Int /\ g_process_count \in Int /\ pcbFree \in Seq(Proc)
  BY ConstAssumption DEF TypeOK, CountTypes, ProcTypes
<1>2. Len(pcbFree) \in Nat
  BY <1>1, LenProperties
<1>3. CASE createProcess
  <2>1. g_process_count' = g_process_count + 1 /\ pcbFree' = Tail(pcbFree)
        /\ pcbFree # <<>>
    BY <1>3, Zenon DEF createProcess
  <2>2. Len(Tail(pcbFree)) = Len(pcbFree) - 1
    BY <1>1, <2>1, TailProperties, Zenon
  <2> QED BY <1>1, <1>2, <2>1, <2>2 DEF CountMatches
<1>4. CASE reap
  <2>1. /\ g_process_count' = g_process_count - 1
        /\ pcbFree' = Append(pcbFree, Last(stack))
    BY <1>4, Zenon DEF reap, freePcb
  <2>2. Last(stack) \in Proc
    BY <1>4, FrontProperties, Zenon DEF reap, TypeOK, PhaseTypes
  <2>3. Len(Append(pcbFree, Last(stack))) = Len(pcbFree) + 1
    BY <1>1, <2>2, AppendList, Zenon
  <2> QED BY <1>1, <1>2, <2>1, <2>3 DEF CountMatches
<1>5. CASE ~createProcess /\ ~reap
  BY <1>5, PoolFrame DEF CountMatches
<1> QED BY <1>3, <1>4, <1>5

\* g_process_count is the number of pcbs that are not free, whatever sequence
\* of creations and recursive terminations led there.
THEOREM CountsMatch == Spec => []CountMatches
<1>1. Init => TypeOK /\ CountMatches
  BY TypeInit, CountInit
<1>2. (TypeOK /\ CountMatches) /\ [Next]_vars => (TypeOK /\ CountMatches)'
  BY TypeNext, CountNext
<1> QED BY <1>1, <1>2, PTL DEF Spec

\* createProcess never dereferences the NULL of an exhausted allocPcb: below
\* MAXPROC processes there is a free pcb.
THEOREM AllocAlwaysSucceeds == Spec => []AllocSucceeds
<1>1. TypeOK /\ CountMatches => AllocSucceeds
  <2> SUFFICES ASSUME TypeOK, CountMatches, g_process_count < MAXPROC
               PROVE  pcbFree # <<>>
    BY DEF AllocSucceeds
  <2>1. MAXPROC \in Int /\ g_process_count \in Int /\ pcbFree \in Seq(Proc)
    BY ConstAssumption DEF TypeOK, CountTypes, ProcTypes
  <2>2. Len(pcbFree) \in Nat /\ Len(pcbFree) # 0
    BY <2>1, LenProperties DEF CountMatches
  <2> QED BY <2>1, <2>2, EmptySeq
<1> QED BY <1>1, TypeCorrect, CountsMatch, PTL

-----------------------------------------------------------------------------
(***************************************************************************)
(* The queues of the nucleus.  The lemmas say what each operation does to  *)
(* the places of pcbs (Apart, Placed) and to the ASL (AslInv); the proof   *)
(* of TInv, below, uses them with SYS2 as well.  The theorems here hold as *)
(* long as no process is terminated: no descriptor is lost, and no V       *)
(* operation leaves a process blocked that its semaphore could satisfy.    *)
(* SYS2 does both.                                                         *)
(***************************************************************************)
NoKill == "TERMINATEPROCESS" \notin Calls

-----------------------------------------------------------------------------
(* The inductive invariant *)

Queued(d) == ToSet(s_procq[d])

\* The lists share no pcb, repeat none and do not hold the running process.
Apart ==
  /\ IsInjective(pcbFree) /\ IsInjective(g_ready_queue)
  /\ ToSet(pcbFree) \cap ToSet(g_ready_queue) = {}
  /\ \A d \in Semd :
       /\ IsInjective(s_procq[d])
       /\ Queued(d) \cap (ToSet(pcbFree) \cup ToSet(g_ready_queue)) = {}
       /\ g_current_process \notin Queued(d)
  /\ \A d, e \in Semd : d # e => Queued(d) \cap Queued(e) = {}
  /\ g_current_process \notin ToSet(pcbFree) \cup ToSet(g_ready_queue)

\* Every pcb is somewhere.
Placed ==
  \A p \in Proc : \/ p = g_current_process
                  \/ p \in ToSet(pcbFree) \/ p \in ToSet(g_ready_queue)
                  \/ \E d \in Semd : p \in Queued(d)

NotKilling == phase \notin {"search", "kill"}

\* AslConsistent by parts.
AslQueues   == \A d \in Semd : d \in aslh <=> s_procq[d] # <<>>
AslDistinct == \A d, e \in aslh : s_semAdd[d] = s_semAdd[e] => d = e
AslCursem   == \A d \in Semd : \A p \in Queued(d) :
                 p_cursem[p] = d /\ res_requested[p] > 0
AslFree     == aslh \cap ToSet(semdFree) = {} /\ IsInjective(semdFree)

AslAddr     == \A d \in aslh : s_semAdd[d] \in Sem

AslInv == AslQueues /\ AslDistinct /\ AslCursem /\ AslFree /\ AslAddr

Structure == Apart /\ Placed /\ AslInv

\* What terminations spare, too.
Base == TypeOK /\ Structure

\* What they do not: they lose descriptors and leave processes behind.
AslCover == aslh \cup ToSet(semdFree) = Semd
Rest     == AslCover /\ NoLostWakeup

QInv == Base /\ NotKilling /\ Rest

LEMMA AslInvMeans == AslInv => AslConsistent
BY Zenon DEF AslInv, AslConsistent, AslQueues, AslDistinct, AslCursem, AslFree,
             Queued

-----------------------------------------------------------------------------
(* Operations on the ASL *)

\* A semaphore on the ASL has one descriptor there, with a nonempty queue
\* whose head is what headBlocked returns.
LEMMA OnAslFacts ==
  ASSUME TypeOK, AslInv, NEW a
  PROVE  /\ OnAsl(a) => /\ semdOf(a) \in aslh /\ semdOf(a) \in Semd
                        /\ s_semAdd[semdOf(a)] = a
                        /\ s_procq[semdOf(a)] # <<>>
                        /\ s_procq[semdOf(a)] \in Seq(Proc)
         /\ \A d \in aslh : s_semAdd[d] = a => OnAsl(a) /\ d = semdOf(a)
         /\ OnAsl(a) <=> headBlocked(a) # NULL
         /\ OnAsl(a) => /\ headBlocked(a) = Head(s_procq[semdOf(a)])
                        /\ headBlocked(a) \in Queued(semdOf(a))
                        /\ headBlocked(a) \in Proc
<1>1. ASSUME OnAsl(a)
      PROVE  semdOf(a) \in aslh /\ s_semAdd[semdOf(a)] = a
  BY <1>1, Zenon DEF OnAsl, semdOf
<1>2. ASSUME OnAsl(a)
      PROVE  /\ semdOf(a) \in Semd /\ s_procq[semdOf(a)] # <<>>
             /\ s_procq[semdOf(a)] \in Seq(Proc)
  BY <1>1, <1>2 DEF TypeOK, SemTypes, AslInv, AslQueues
<1>3. \A d \in aslh : s_semAdd[d] = a => OnAsl(a) /\ d = semdOf(a)
  BY <1>1, Zenon DEF OnAsl, AslInv, AslDistinct
<1>4. ASSUME OnAsl(a)
      PROVE  /\ headBlocked(a) = Head(s_procq[semdOf(a)])
             /\ headBlocked(a) \in Queued(semdOf(a))
             /\ headBlocked(a) \in Proc
  <2>1. headBlocked(a) = Head(s_procq[semdOf(a)])
    BY <1>2, <1>4, Zenon DEF headBlocked
  <2>2. /\ Head(s_procq[semdOf(a)]) \in Proc
        /\ Head(s_procq[semdOf(a)]) \in ToSet(s_procq[semdOf(a)])
    BY <1>2, <1>4, TailProperties, Zenon
  <2> QED BY <2>1, <2>2, Zenon DEF Queued
<1>5. NULL \notin Proc
  BY ConstAssumption DEF NULL, Proc
<1>6. OnAsl(a) <=> headBlocked(a) # NULL
  BY <1>4, <1>5, Zenon DEF headBlocked
<1> QED BY <1>1, <1>2, <1>3, <1>4, <1>6

\* p is now the last of the queue of d, which is a's.
Inserted(a, p, d) ==
  /\ s_semAdd'[d] = a /\ d \in aslh'
  /\ p_cursem' = [p_cursem EXCEPT ![p] = d]
  /\ \A e \in Semd \ {d} : s_procq'[e] = s_procq[e]
  /\ ToSet(s_procq'[d]) = ToSet(s_procq[d]) \cup {p}
  /\ IsInjective(s_procq'[d])
  /\ s_procq'[d] # <<>>
  /\ \/ /\ OnAsl(a) /\ d = semdOf(a) /\ d \in aslh
        /\ Head(s_procq'[d]) = Head(s_procq[d])
        /\ UNCHANGED <<aslh, semdFree, s_semAdd>>
     \/ /\ ~OnAsl(a) /\ d \notin aslh
        /\ Head(s_procq'[d]) = p
        /\ s_semAdd' = [s_semAdd EXCEPT ![d] = a]
        /\ aslh' = aslh \cup {d}
        /\ ToSet(semdFree') = ToSet(semdFree) \ {d}
        /\ IsInjective(semdFree')

\* insertBlocked adds p to the queue of a, taking a free descriptor if it is
\* the first there.
LEMMA InsertEffect ==
  ASSUME Base, NEW a \in Sem, NEW p \in Proc, CanInsert(a), insertBlocked(a, p),
         \A e \in Semd : p \notin Queued(e)
  PROVE  \E d \in Semd : Inserted(a, p, d)
<1> USE DEF Base, Structure
<1>1. CASE OnAsl(a)
  <2>1. PICK d \in Semd : d = semdOf(a)
    BY <1>1, OnAslFacts, Zenon
  <2>2. /\ d \in aslh /\ s_semAdd[d] = a
        /\ s_procq[d] \in Seq(Proc) /\ s_procq[d] # <<>>
    BY <1>1, <2>1, OnAslFacts, Zenon
  <2>3. /\ p_cursem' = [p_cursem EXCEPT ![p] = d]
        /\ s_procq' = [s_procq EXCEPT ![d] = Append(s_procq[d], p)]
        /\ UNCHANGED <<aslh, semdFree, s_semAdd>>
    BY <1>1, <2>1, Zenon DEF insertBlocked
  <2>4. IsInjective(s_procq[d]) /\ p \notin ToSet(s_procq[d])
    BY Zenon DEF Apart, Queued
  <2>5. s_procq \in [Semd -> Seq(Proc)]
    BY DEF TypeOK, SemTypes
  <2>6. /\ s_procq'[d] = Append(s_procq[d], p)
        /\ \A e \in Semd \ {d} : s_procq'[e] = s_procq[e]
    BY <2>3, <2>5
  <2>7. /\ ToSet(Append(s_procq[d], p)) = ToSet(s_procq[d]) \cup {p}
        /\ IsInjective(Append(s_procq[d], p))
    BY <2>2, <2>4, AppendNew, Zenon
  <2>8. Append(s_procq[d], p) # <<>>
        /\ Head(Append(s_procq[d], p)) = Head(s_procq[d])
    BY <2>2
  <2>9. s_semAdd'[d] = a /\ d \in aslh'
    BY <2>2, <2>3
  <2> QED BY <1>1, <2>1, <2>2, <2>3, <2>6, <2>7, <2>8, <2>9, Zenon DEF Inserted
<1>2. CASE ~OnAsl(a)
  <2>1. semdFree \in Seq(Semd) /\ semdFree # <<>> /\ IsInjective(semdFree)
    BY <1>2 DEF TypeOK, SemTypes, CanInsert, AslInv, AslFree
  <2>2. PICK d \in Semd : /\ d = Head(semdFree) /\ d \in ToSet(semdFree)
                          /\ IsInjective(Tail(semdFree))
                          /\ ToSet(Tail(semdFree)) = ToSet(semdFree) \ {d}
    BY <2>1, TailProperties, Zenon
  <2>3. /\ p_cursem' = [p_cursem EXCEPT ![p] = d]
        /\ s_procq' = [s_procq EXCEPT ![d] = <<p>>]
        /\ s_semAdd' = [s_semAdd EXCEPT ![d] = a]
        /\ aslh' = aslh \cup {d} /\ semdFree' = Tail(semdFree)
    BY <1>2, <2>2, Zenon DEF insertBlocked
  <2>4. d \notin aslh /\ s_procq[d] = <<>>
    BY <2>2 DEF AslInv, AslFree, AslQueues
  <2>5. s_procq \in [Semd -> Seq(Proc)] /\ s_semAdd \in [Semd -> Sem \cup {NoAddr}]
    BY DEF TypeOK, SemTypes
  <2>6. /\ s_procq'[d] = <<p>> /\ s_semAdd'[d] = a
        /\ \A e \in Semd \ {d} : s_procq'[e] = s_procq[e]
    BY <2>2, <2>3, <2>5
  <2>7. ToSet(<<p>>) = {p} /\ ToSet(<<>>) = {} /\ IsInjective(<<p>>)
        /\ <<p>> # <<>> /\ Head(<<p>>) = p
    BY DEF ToSet, IsInjective
  <2>8. ToSet(s_procq'[d]) = ToSet(s_procq[d]) \cup {p}
    BY <2>4, <2>6, <2>7
  <2>9. d \in aslh' /\ ToSet(semdFree') = ToSet(semdFree) \ {d}
        /\ IsInjective(semdFree')
    BY <2>2, <2>3
  <2> QED BY <1>2, <2>2, <2>3, <2>4, <2>6, <2>7, <2>8, <2>9, Zenon DEF Inserted
<1> QED BY <1>1, <1>2

\* clist_enqueue of a descriptor that is not free.
LEMMA EnqueueFreeNew ==
  ASSUME NEW f \in Seq(Semd), NEW d \in Semd, d \notin ToSet(f), IsInjective(f)
  PROVE  /\ ToSet(enqueueFree(f, d)) = ToSet(f) \cup {d}
         /\ IsInjective(enqueueFree(f, d))
<1>1. {i \in DOMAIN f : f[i] = d} = {}
  BY DEF ToSet
<1>2. enqueueFree(f, d) = Append(f, d)
  BY <1>1 DEF enqueueFree
<1>3. /\ ToSet(Append(f, d)) = ToSet(f) \cup {d}
      /\ IsInjective(Append(f, d))
  BY AppendNew, Zenon
<1> QED BY <1>2, <1>3

\* h, the head of the queue of d, has left it; an emptied descriptor is free.
Removed(d, h) ==
  /\ h = Head(s_procq[d]) /\ h \in ToSet(s_procq[d])
  /\ \A e \in Semd \ {d} : s_procq'[e] = s_procq[e]
  /\ ToSet(s_procq'[d]) = ToSet(s_procq[d]) \ {h}
  /\ IsInjective(s_procq'[d])
  /\ \/ /\ s_procq'[d] # <<>>
        /\ UNCHANGED <<aslh, semdFree>>
     \/ /\ s_procq'[d] = <<>>
        /\ aslh' = aslh \ {d}
        /\ ToSet(semdFree') = ToSet(semdFree) \cup {d}
        /\ IsInjective(semdFree')

LEMMA RemoveEffect ==
  ASSUME Base, NEW a, headBlocked(a) # NULL, removeBlocked(a)
  PROVE  \E d \in Semd : d \in aslh /\ s_semAdd[d] = a /\ Removed(d, headBlocked(a))
<1> USE DEF Base, Structure
<1>1. PICK d \in Semd : d = semdOf(a)
  BY OnAslFacts, Zenon
<1>2. /\ d \in aslh /\ s_semAdd[d] = a
      /\ s_procq[d] # <<>> /\ s_procq[d] \in Seq(Proc)
      /\ headBlocked(a) = Head(s_procq[d])
  BY <1>1, OnAslFacts, Zenon
<1>3. s_procq \in [Semd -> Seq(Proc)] /\ semdFree \in Seq(Semd)
  BY DEF TypeOK, SemTypes
<1>4. IsInjective(s_procq[d])
  BY DEF Apart
<1>5. /\ Head(s_procq[d]) \in ToSet(s_procq[d])
      /\ IsInjective(Tail(s_procq[d]))
      /\ ToSet(Tail(s_procq[d])) = ToSet(s_procq[d]) \ {Head(s_procq[d])}
  BY <1>2, <1>4, TailProperties, Zenon
<1>6. setProcq(d, Tail(s_procq[d]))
  BY <1>1, Zenon DEF removeBlocked
<1>7. /\ s_procq'[d] = Tail(s_procq[d])
      /\ \A e \in Semd \ {d} : s_procq'[e] = s_procq[e]
  BY <1>3, <1>6 DEF setProcq
<1>8. d \notin ToSet(semdFree) /\ IsInjective(semdFree)
  BY <1>2 DEF AslInv, AslFree
<1>9. /\ ToSet(enqueueFree(semdFree, d)) = ToSet(semdFree) \cup {d}
      /\ IsInjective(enqueueFree(semdFree, d))
  BY <1>3, <1>8, EnqueueFreeNew, Zenon
<1>10. IF Tail(s_procq[d]) = <<>>
       THEN aslh' = aslh \ {d} /\ semdFree' = enqueueFree(semdFree, d)
       ELSE UNCHANGED <<aslh, semdFree>>
  BY <1>6, Zenon DEF setProcq
<1>11. Removed(d, headBlocked(a))
  <2>1. CASE Tail(s_procq[d]) = <<>>
    BY <1>2, <1>5, <1>7, <1>9, <1>10, <2>1, Zenon DEF Removed
  <2>2. CASE Tail(s_procq[d]) # <<>>
    BY <1>2, <1>5, <1>7, <1>10, <2>2, Zenon DEF Removed
  <2> QED BY <2>1, <2>2
<1> QED BY <1>2, <1>11

-----------------------------------------------------------------------------
(* The actions *)

\* What Base, Structure says of, but for the phase of the processor.
lists == <<pcbFree, g_ready_queue, g_current_process, p_cursem, res_requested,
           aslh, semdFree, s_semAdd, s_procq>>

\* An action that moves no process.
LEMMA StructureStays ==
  ASSUME Structure, UNCHANGED lists
  PROVE  Structure'
BY DEF lists, Structure, Apart, Placed, AslInv, AslQueues, AslDistinct,
       AslCursem, AslFree, AslAddr, Queued

LEMMA RestStays ==
  ASSUME Rest, UNCHANGED lists, UNCHANGED semval,
         phase # "semop" \/ UNCHANGED <<phase, vop>>
  PROVE  Rest'
BY DEF lists, Rest, AslCover, NoLostWakeup

\* The running process blocks on a, which it found with less than it asks for.
LEMMA BlockKeeps ==
  ASSUME Base, NEW a \in Sem, NEW weight \in Int, weight < 0, phase = "user",
         ~granted(a, weight), CanInsert(a),
         insertBlocked(a, g_current_process),
         res_requested' = [res_requested EXCEPT ![g_current_process] = -weight],
         g_current_process' = NULL, phase' = "sched",
         UNCHANGED <<semval, pcbFree, g_ready_queue>>
  PROVE  Structure' /\ (Rest => Rest')
<1> DEFINE p == g_current_process
<1>1. PICK q \in Proc : q = p
  BY DEF Base, Structure, TypeOK, ProcTypes, PhaseTypes
<1>2. \A e \in Semd : q \notin Queued(e)
  BY <1>1 DEF Base, Structure, Apart
<1>3. PICK d \in Semd : Inserted(a, q, d)
  BY <1>1, <1>2, InsertEffect, Zenon
<1>4. NULL \notin Proc
  BY ConstAssumption DEF NULL, Proc
<1>5. /\ q \notin ToSet(pcbFree) /\ q \notin ToSet(g_ready_queue)
      /\ ToSet(pcbFree) \subseteq Proc /\ ToSet(g_ready_queue) \subseteq Proc
      /\ \A e \in Semd : Queued(e) \subseteq Proc
  BY <1>1 DEF Base, Structure, Apart, TypeOK, ProcTypes, SemTypes, Queued, ToSet
<1>6. \A e \in Semd : Queued(e)' = IF e = d THEN Queued(d) \cup {q} ELSE Queued(e)
  BY <1>3 DEF Inserted, Queued
<1>7. Apart'
  BY <1>1, <1>2, <1>3, <1>4, <1>5, <1>6 DEF Base, Structure, Apart, Inserted
<1>8. Placed'
  BY <1>1, <1>3, <1>6 DEF Base, Structure, Placed, Inserted
<1>9. AslQueues'
  BY <1>3 DEF Base, Structure, AslInv, AslQueues, Inserted
<1>10. AslDistinct'
  <2>1. s_semAdd \in [Semd -> Sem \cup {NoAddr}] /\ aslh \subseteq Semd
    BY DEF Base, Structure, TypeOK, SemTypes
  <2>2. CASE UNCHANGED <<aslh, s_semAdd>>
    BY <2>2 DEF Base, Structure, AslInv, AslDistinct
  <2>3. CASE /\ ~OnAsl(a) /\ aslh' = aslh \cup {d}
             /\ s_semAdd' = [s_semAdd EXCEPT ![d] = a]
    BY <2>1, <2>3 DEF Base, Structure, AslInv, AslDistinct, OnAsl
  <2> QED BY <1>3, <2>2, <2>3 DEF Inserted
<1>11. AslCursem'
  <2>1. SUFFICES ASSUME NEW e \in Semd, NEW r \in Queued(e)'
                 PROVE  p_cursem'[r] = e /\ res_requested'[r] > 0
    BY DEF AslCursem
  <2>2. /\ p_cursem' = [p_cursem EXCEPT ![q] = d]
        /\ res_requested' = [res_requested EXCEPT ![q] = -weight]
        /\ p_cursem \in [Proc -> Semd \cup {NULL}]
        /\ res_requested \in [Proc -> Nat]
    BY <1>1, <1>3 DEF Inserted, Base, Structure, TypeOK, SemTypes
  <2>3. CASE r = q
    BY <1>2, <1>6, <2>2, <2>3
  <2>4. CASE r # q
    <3>1. r \in Queued(e) /\ r \in Proc
      BY <1>5, <1>6, <2>4
    <3>2. p_cursem[r] = e /\ res_requested[r] > 0
      BY <3>1 DEF Base, Structure, AslInv, AslCursem
    <3> QED BY <2>2, <2>4, <3>1, <3>2
  <2> QED BY <2>3, <2>4
<1>12. AslFree'
  BY <1>3 DEF Base, Structure, AslInv, AslFree, Inserted
<1>14. AslAddr'
  BY <1>3 DEF Base, Structure, AslInv, AslAddr, Inserted, TypeOK, SemTypes
<1>13. NoLostWakeup => NoLostWakeup'
  <2>1. SUFFICES ASSUME NoLostWakeup, NEW e \in aslh'
                 PROVE  semval'[s_semAdd'[e]] < res_requested'[Head(s_procq'[e])]
    BY DEF NoLostWakeup
  <2>2. /\ res_requested' = [res_requested EXCEPT ![q] = -weight]
        /\ res_requested \in [Proc -> Nat] /\ semval' = semval
        /\ aslh \subseteq Semd /\ s_semAdd \in [Semd -> Sem \cup {NoAddr}]
        /\ semval \in [Sem -> Nat]
    BY <1>1 DEF Base, Structure, TypeOK, SemTypes
  <2>3. CASE e \in aslh
    <3>1. /\ Head(s_procq'[e]) = Head(s_procq[e])
          /\ s_semAdd'[e] = s_semAdd[e]
      BY <1>3, <2>2, <2>3 DEF Inserted
    <3>2. Head(s_procq[e]) \in Queued(e)
      <4>1. s_procq[e] \in Seq(Proc) /\ s_procq[e] # <<>>
        BY <2>2, <2>3 DEF Base, Structure, TypeOK, SemTypes, AslInv, AslQueues
      <4> QED BY <4>1, TailProperties, Zenon DEF Queued
    <3>3. Head(s_procq[e]) # q /\ Head(s_procq[e]) \in Proc
      BY <1>2, <1>5, <2>2, <2>3, <3>2
    <3>4. semval[s_semAdd[e]] < res_requested[Head(s_procq[e])]
      BY <2>1, <2>3 DEF NoLostWakeup
    <3> QED BY <2>2, <3>1, <3>3, <3>4
  <2>4. CASE e \notin aslh
    <3>1. e = d /\ ~OnAsl(a) /\ Head(s_procq'[d]) = q /\ s_semAdd'[d] = a
      BY <1>3, <2>4 DEF Inserted
    <3>2. headBlocked(a) = NULL
      BY <3>1, Zenon DEF headBlocked
    <3>3. ~(semval[a] + weight >= 0)
      BY <3>2 DEF granted
    <3> QED BY <2>2, <3>1, <3>3
  <2> QED BY <2>3, <2>4
<1>15. AslCover => AslCover'
  BY <1>3 DEF AslCover, Inserted
<1> QED BY <1>7, <1>8, <1>9, <1>10, <1>11, <1>12, <1>13, <1>14, <1>15
       DEF Structure, AslInv, Rest

\* A granted request: nobody waits there, so less of it harms nobody.
LEMMA GrantKeeps ==
  ASSUME Base, NEW a \in Sem, NEW weight \in Int, granted(a, weight),
         semval' = [semval EXCEPT ![a] = @ + weight], phase = "user",
         UNCHANGED lists, UNCHANGED phase
  PROVE  Structure' /\ (Rest => Rest')
<1>1. Structure'
  BY StructureStays DEF Base
<1>2. ~OnAsl(a)
  BY OnAslFacts DEF Base, Structure, granted
<1>3. \A e \in aslh : s_semAdd[e] \in Sem /\ s_semAdd[e] # a
  BY <1>2 DEF OnAsl, Base, Structure, AslInv, AslAddr
<1>4. Rest => Rest'
  BY <1>3 DEF Base, Rest, AslCover, NoLostWakeup, lists, TypeOK, SemTypes
<1> QED BY <1>1, <1>4

LEMMA PKeeps ==
  ASSUME Base, NEW a \in Sem, NEW weight \in Int, weight < 0, phase = "user",
         P(a, weight), UNCHANGED <<pcbFree, g_ready_queue>>
  PROVE  Structure' /\ (Rest => Rest') /\ phase' \in {"user", "sched", "noSemd"}
<1>1. CASE /\ granted(a, weight)
           /\ semval' = [semval EXCEPT ![a] = @ + weight]
           /\ UNCHANGED <<aslVars, g_current_process, g_soft_block_count, phase>>
  BY <1>1, GrantKeeps DEF lists, aslVars
<1>2. CASE /\ ~granted(a, weight) /\ CanInsert(a)
           /\ insertBlocked(a, g_current_process)
           /\ res_requested' =
                [res_requested EXCEPT ![g_current_process] = -weight]
           /\ g_current_process' = NULL
           /\ phase' = "sched"
           /\ UNCHANGED semval
  BY <1>2, BlockKeeps
<1>3. CASE /\ phase' = "noSemd"
           /\ UNCHANGED <<aslVars, semval, g_current_process>>
  <2>1. UNCHANGED lists /\ UNCHANGED semval /\ phase # "semop"
    BY <1>3 DEF lists, aslVars
  <2> QED BY <1>3, <2>1, StructureStays, RestStays DEF Base
<1> QED BY <1>1, <1>2, <1>3 DEF P

\* The head of a queue becomes ready.
LEMMA WakeKeeps ==
  ASSUME Base, wake
  PROVE  Structure' /\ (Rest => Rest') /\ phase' = "semop"
<1>1. /\ phase = "semop" /\ phase' = "semop"
      /\ satisfied(headBlocked(vop.sem)) /\ removeBlocked(vop.sem)
      /\ g_ready_queue' = Append(g_ready_queue, headBlocked(vop.sem))
      /\ vop' = [vop EXCEPT !.free = freeLeft(headBlocked(vop.sem))]
      /\ res_requested' = [res_requested EXCEPT ![headBlocked(vop.sem)] = 0]
      /\ UNCHANGED <<pcbFree, g_current_process, p_cursem, s_semAdd, semval>>
  BY Zenon DEF wake, insertProcQ
<1>2. headBlocked(vop.sem) # NULL
  BY <1>1, Zenon DEF satisfied
<1>3. PICK h \in Proc : h = headBlocked(vop.sem)
  BY <1>2, HeadBlockedType, Zenon DEF Base, Structure, TypeOK
<1>4. PICK d \in Semd : d \in aslh /\ s_semAdd[d] = vop.sem /\ Removed(d, h)
  BY <1>1, <1>2, <1>3, RemoveEffect, Zenon
<1>5. /\ h \in Queued(d) /\ h # g_current_process
      /\ h \notin ToSet(pcbFree) /\ h \notin ToSet(g_ready_queue)
      /\ \A e \in Semd \ {d} : h \notin Queued(e)
  BY <1>4 DEF Removed, Queued, Base, Structure, Apart
<1>6. /\ ToSet(g_ready_queue') = ToSet(g_ready_queue) \cup {h}
      /\ IsInjective(g_ready_queue')
  <2>1. g_ready_queue \in Seq(Proc) /\ IsInjective(g_ready_queue)
    BY DEF Base, Structure, TypeOK, ProcTypes, Apart
  <2>2. /\ ToSet(Append(g_ready_queue, h)) = ToSet(g_ready_queue) \cup {h}
        /\ IsInjective(Append(g_ready_queue, h))
    BY <1>5, <2>1, AppendNew, Zenon
  <2> QED BY <1>1, <1>3, <2>2
<1>7. \A e \in Semd : Queued(e)' = IF e = d THEN Queued(d) \ {h} ELSE Queued(e)
  BY <1>4 DEF Removed, Queued
<1>8. vop'.sem = vop.sem
  BY <1>1 DEF Base, Structure, TypeOK, PhaseTypes
<1>9. /\ s_procq'[d] = <<>> <=> Queued(d)' = {}
      /\ aslh \subseteq Semd
  <2>1. s_procq' \in [Semd -> Seq(Proc)] /\ aslh \subseteq Semd
    BY <1>1, <1>2, RemoveBlockedType, Zenon DEF Base, Structure, TypeOK, SemTypes
  <2>2. s_procq'[d] # <<>> => Queued(d)' # {}
    <3>1. SUFFICES ASSUME s_procq'[d] # <<>> PROVE Queued(d)' # {}
      OBVIOUS
    <3>2. s_procq'[d] \in Seq(Proc)
      BY <2>1
    <3>3. Head(s_procq'[d]) \in ToSet(s_procq'[d])
      BY <3>1, <3>2, TailProperties, Zenon
    <3> QED BY <3>3 DEF Queued
  <2>3. ToSet(<<>>) = {}
    BY DEF ToSet
  <2> QED BY <2>1, <2>2, <2>3 DEF Queued
<1>10. Apart'
  BY <1>1, <1>4, <1>5, <1>6, <1>7 DEF Base, Structure, Apart, Removed
<1>11. Placed'
  BY <1>1, <1>6, <1>7 DEF Base, Structure, Placed
<1>12. AslQueues'
  BY <1>4, <1>9 DEF Base, Structure, AslInv, AslQueues, Removed
<1>13. AslDistinct' /\ AslAddr'
  BY <1>1, <1>4 DEF Base, Structure, AslInv, AslDistinct, AslAddr, Removed
<1>14. AslCursem'
  <2>1. SUFFICES ASSUME NEW e \in Semd, NEW r \in Queued(e)'
                 PROVE  p_cursem'[r] = e /\ res_requested'[r] > 0
    BY DEF AslCursem
  <2>2. r \in Queued(e) /\ r # h
    BY <1>5, <1>7
  <2>3. p_cursem[r] = e /\ res_requested[r] > 0
    BY <2>2 DEF Base, Structure, AslInv, AslCursem
  <2>4. res_requested'[r] = res_requested[r]
    BY <1>1, <1>3, <2>2 DEF Base, Structure, TypeOK, SemTypes
  <2> QED BY <1>1, <2>3, <2>4
<1>15. AslFree'
  BY <1>4 DEF Base, Structure, AslInv, AslFree, Removed
<1>16. NoLostWakeup => NoLostWakeup'
  <2>1. SUFFICES ASSUME NoLostWakeup, NEW e \in aslh', s_semAdd[e] # vop.sem
                 PROVE  semval'[s_semAdd'[e]] < res_requested'[Head(s_procq'[e])]
    BY <1>1, <1>8 DEF NoLostWakeup
  <2>2. e \in aslh /\ e \in Semd /\ e # d /\ s_procq'[e] = s_procq[e]
    BY <1>4, <1>9, <2>1 DEF Removed
  <2>3. Head(s_procq[e]) \in Queued(e)
    <3>1. s_procq[e] \in Seq(Proc) /\ s_procq[e] # <<>>
      BY <2>2 DEF Base, Structure, TypeOK, SemTypes, AslInv, AslQueues
    <3> QED BY <3>1, TailProperties, Zenon DEF Queued
  <2>4. Head(s_procq[e]) # h
    BY <1>5, <2>2, <2>3
  <2>5. semval[s_semAdd[e]] < res_requested[Head(s_procq[e])]
    BY <1>1, <2>1, <2>2 DEF NoLostWakeup
  <2>6. res_requested'[Head(s_procq[e])] = res_requested[Head(s_procq[e])]
    BY <1>1, <1>3, <2>4
  <2> QED BY <1>1, <2>2, <2>5, <2>6
<1>17. AslCover => AslCover'
  BY <1>4, <1>9 DEF AslCover, Removed
<1> QED BY <1>1, <1>10, <1>11, <1>12, <1>13, <1>14, <1>15, <1>16, <1>17
       DEF Structure, AslInv, Rest

\* The loop of a V ends where it must: the head asks for more than is left.
LEMMA EndVKeeps ==
  ASSUME Base, endV
  PROVE  Structure' /\ (Rest => Rest') /\ phase' \in {"tick", "sched", "user"}
<1>1. /\ ~satisfied(headBlocked(vop.sem)) /\ phase = "semop"
      /\ semval' = [semval EXCEPT ![vop.sem] = vop.free]
      /\ phase' \in {"tick", "sched", "user"}
      /\ UNCHANGED lists
  BY DEF endV, Resumed, lists, aslVars, treeVars
<1>2. Structure'
  BY <1>1, StructureStays DEF Base
<1>3. /\ semval \in [Sem -> Nat] /\ vop.sem \in Sem /\ vop.free \in Nat
      /\ res_requested \in [Proc -> Nat]
  BY DEF Base, Structure, TypeOK, SemTypes, PhaseTypes
<1>4. ASSUME NoLostWakeup, NEW e \in aslh
      PROVE  semval'[s_semAdd[e]] < res_requested[Head(s_procq[e])]
  <2>1. s_semAdd[e] \in Sem
    BY DEF Base, Structure, AslInv, AslAddr
  <2>2. CASE s_semAdd[e] = vop.sem
    <3>1. /\ OnAsl(vop.sem) /\ headBlocked(vop.sem) = Head(s_procq[e])
          /\ headBlocked(vop.sem) \in Proc /\ headBlocked(vop.sem) # NULL
      BY <2>2, OnAslFacts, Zenon DEF Base, Structure
    <3>2. ~(vop.free >= res_requested[headBlocked(vop.sem)])
      BY <1>1, <3>1, Zenon DEF satisfied
    <3>3. vop.free < res_requested[headBlocked(vop.sem)]
      BY <1>3, <3>1, <3>2
    <3> QED BY <1>1, <1>3, <2>2, <3>1, <3>3
  <2>3. CASE s_semAdd[e] # vop.sem
    BY <1>1, <1>3, <1>4, <2>1, <2>3 DEF NoLostWakeup
  <2> QED BY <2>2, <2>3
<1>5. Rest => Rest'
  BY <1>1, <1>4 DEF Rest, AslCover, NoLostWakeup, lists
<1> QED BY <1>1, <1>2, <1>5

\* A process goes from the front of the ready queue to the processor.
LEMMA SchedulerKeeps ==
  ASSUME Base, scheduler
  PROVE  Structure' /\ (Rest => Rest') /\ phase' \in {"user", "halt", "idle", "deadlock"}
<1> USE DEF scheduler, aslVars
<1>1. /\ phase = "sched" /\ g_current_process = NULL
      /\ phase' \in {"user", "halt", "idle", "deadlock"}
      /\ UNCHANGED <<semval, pcbFree, p_cursem, res_requested, aslh, semdFree,
                     s_semAdd, s_procq>>
  BY DEF Base, Structure, TypeOK, PhaseTypes
<1>2. CASE g_ready_queue # <<>> /\ g_current_process' = Head(g_ready_queue)
           /\ g_ready_queue' = Tail(g_ready_queue)
  <2>1. g_ready_queue \in Seq(Proc) /\ IsInjective(g_ready_queue)
    BY DEF Base, Structure, TypeOK, ProcTypes, Apart
  <2>2. /\ IsInjective(g_ready_queue')
        /\ g_current_process' \in ToSet(g_ready_queue)
        /\ ToSet(g_ready_queue') = ToSet(g_ready_queue) \ {g_current_process'}
    BY <1>2, <2>1, TailProperties, Zenon
  <2>3. Apart'
    BY <1>1, <2>2 DEF Base, Structure, Apart, Queued
  <2>4. NULL \notin Proc
    BY ConstAssumption DEF NULL, Proc
  <2>5. Placed'
    BY <1>1, <2>2, <2>4 DEF Base, Structure, Placed, Queued
  <2>6. AslInv'
    BY <1>1 DEF Base, Structure, AslInv, AslQueues, AslDistinct, AslCursem, AslFree,
                AslAddr, Queued
  <2>7. Rest => Rest'
    BY <1>1 DEF Rest, AslCover, NoLostWakeup
  <2> QED BY <1>1, <2>3, <2>5, <2>6, <2>7 DEF Structure
<1>3. CASE UNCHANGED <<g_ready_queue, g_current_process>>
  <2>1. UNCHANGED lists /\ UNCHANGED semval /\ phase # "semop"
    BY <1>1, <1>3 DEF lists
  <2> QED BY <1>1, <2>1, StructureStays, RestStays DEF Base
<1> QED BY <1>2, <1>3

\* A free pcb becomes a ready process.
LEMMA CreateKeeps ==
  ASSUME Base, createProcess
  PROVE  Structure' /\ (Rest => Rest') /\ phase' = "user"
<1>1. PICK p \in Proc : p = Head(pcbFree)
  BY TailProperties, Zenon DEF createProcess, Base, Structure, TypeOK, ProcTypes
<1>2. /\ pcbFree # <<>> /\ pcbFree' = Tail(pcbFree)
      /\ p_cursem' = [p_cursem EXCEPT ![p] = NULL]
      /\ res_requested' = [res_requested EXCEPT ![p] = 0]
      /\ g_ready_queue' = Append(g_ready_queue, p)
      /\ phase = "user" /\ phase' = "user"
      /\ UNCHANGED <<g_current_process, aslh, semdFree, s_semAdd, s_procq, semval>>
  BY <1>1 DEF createProcess, insertProcQ, Issues
<1>3. /\ pcbFree \in Seq(Proc) /\ g_ready_queue \in Seq(Proc)
      /\ IsInjective(pcbFree) /\ IsInjective(g_ready_queue)
  BY DEF Base, Structure, TypeOK, ProcTypes, Apart
<1>4. /\ p \in ToSet(pcbFree) /\ IsInjective(pcbFree')
      /\ ToSet(pcbFree') = ToSet(pcbFree) \ {p}
  BY <1>1, <1>2, <1>3, TailProperties, Zenon
<1>5. /\ p \notin ToSet(g_ready_queue) /\ p # g_current_process
      /\ \A e \in Semd : p \notin Queued(e)
  BY <1>4 DEF Base, Structure, Apart
<1>6. /\ ToSet(g_ready_queue') = ToSet(g_ready_queue) \cup {p}
      /\ IsInjective(g_ready_queue')
  <2>1. /\ ToSet(Append(g_ready_queue, p)) = ToSet(g_ready_queue) \cup {p}
        /\ IsInjective(Append(g_ready_queue, p))
    BY <1>3, <1>5, AppendNew, Zenon
  <2> QED BY <1>2, <2>1
<1>7. \A e \in Semd : Queued(e)' = Queued(e)
  BY <1>2 DEF Queued
<1>8. Apart'
  BY <1>2, <1>4, <1>5, <1>6, <1>7 DEF Base, Structure, Apart
<1>9. Placed'
  BY <1>2, <1>4, <1>6, <1>7 DEF Base, Structure, Placed
<1>10. \A r \in Proc \ {p} : /\ p_cursem'[r] = p_cursem[r]
                             /\ res_requested'[r] = res_requested[r]
  BY <1>2 DEF Base, Structure, TypeOK, SemTypes
<1>11. \A e \in Semd : Queued(e) \subseteq Proc \ {p}
  BY <1>5 DEF Base, Structure, TypeOK, SemTypes, Queued, ToSet
<1>12. AslCursem'
  BY <1>7, <1>10, <1>11 DEF Base, Structure, AslInv, AslCursem
<1>13. AslInv'
  BY <1>2, <1>12 DEF Base, Structure, AslInv, AslQueues, AslDistinct, AslFree, AslAddr
<1>14. NoLostWakeup => NoLostWakeup'
  <2>1. SUFFICES ASSUME NoLostWakeup, NEW e \in aslh
                 PROVE  semval[s_semAdd[e]] < res_requested'[Head(s_procq[e])]
    BY <1>2 DEF NoLostWakeup
  <2>2. Head(s_procq[e]) \in Queued(e) /\ e \in Semd
    <3>1. s_procq[e] \in Seq(Proc) /\ s_procq[e] # <<>> /\ e \in Semd
      BY DEF Base, Structure, TypeOK, SemTypes, AslInv, AslQueues
    <3> QED BY <3>1, TailProperties, Zenon DEF Queued
  <2>3. semval[s_semAdd[e]] < res_requested[Head(s_procq[e])]
    BY <1>2, <2>1 DEF NoLostWakeup
  <2> QED BY <1>10, <1>11, <2>2, <2>3
<1>15. AslCover => AslCover'
  BY <1>2 DEF AslCover
<1> QED BY <1>2, <1>8, <1>9, <1>13, <1>14, <1>15 DEF Structure, Rest

\* The running process goes to the end of the ready queue.
LEMMA SliceKeeps ==
  ASSUME Base, NEW over \in BOOLEAN, slice(over)
  PROVE  Structure' /\ (Rest => Rest') /\ phase' \in {"user", "sched", "wild"}
<1>1. /\ phase = "slice" /\ phase' \in {"user", "sched", "wild"}
      /\ UNCHANGED <<semval, pcbFree, p_cursem, res_requested, aslh, semdFree,
                     s_semAdd, s_procq>>
  BY DEF slice, Resumed, aslVars
<1>2. CASE over /\ g_current_process # NULL
  <2>1. g_current_process' = NULL
        /\ g_ready_queue' = Append(g_ready_queue, g_current_process)
    BY <1>2 DEF slice, insertProcQ
  <2>2. /\ g_current_process \in Proc /\ g_ready_queue \in Seq(Proc)
        /\ IsInjective(g_ready_queue)
        /\ g_current_process \notin ToSet(g_ready_queue)
    BY <1>2 DEF Base, Structure, TypeOK, ProcTypes, Apart
  <2>3. /\ ToSet(g_ready_queue') = ToSet(g_ready_queue) \cup {g_current_process}
        /\ IsInjective(g_ready_queue')
    <3> DEFINE r == Append(g_ready_queue, g_current_process)
    <3>1. ToSet(r) = ToSet(g_ready_queue) \cup {g_current_process}
          /\ IsInjective(r)
      BY <2>2, AppendNew, Zenon
    <3> QED BY <2>1, <3>1
  <2>4. /\ NULL \notin Proc /\ ToSet(pcbFree) \subseteq Proc
        /\ ToSet(g_ready_queue) \subseteq Proc
        /\ \A e \in Semd : Queued(e) \subseteq Proc
    <3>1. NULL \notin Proc
      BY ConstAssumption DEF NULL, Proc
    <3> QED BY <3>1 DEF Base, Structure, TypeOK, ProcTypes, SemTypes, Queued, ToSet
  <2>5. \A e \in Semd : Queued(e)' = Queued(e)
    BY <1>1 DEF Queued
  <2>6. Apart'
    BY <1>1, <2>1, <2>2, <2>3, <2>4, <2>5 DEF Base, Structure, Apart
  <2>7. Placed'
    BY <1>1, <2>1, <2>3, <2>5 DEF Base, Structure, Placed
  <2>8. AslInv'
    BY <1>1, <2>5 DEF Base, Structure, AslInv, AslQueues, AslDistinct, AslCursem, AslFree,
                      AslAddr
  <2>9. Rest => Rest'
    BY <1>1 DEF Rest, AslCover, NoLostWakeup
  <2> QED BY <1>1, <2>6, <2>7, <2>8, <2>9 DEF Structure
<1>3. CASE ~(over /\ g_current_process # NULL)
  <2>1. UNCHANGED lists /\ UNCHANGED semval /\ phase # "semop"
    BY <1>1, <1>3 DEF slice, lists
  <2> QED BY <1>1, <2>1, StructureStays, RestStays DEF Base
<1> QED BY <1>2, <1>3

\* There are as many descriptors as processes, and the running process holds
\* none: one is free for it to block.
LEMMA SemdLeft ==
  ASSUME QInv, phase = "user", NEW a
  PROVE  CanInsert(a)
<1> SUFFICES ASSUME semdFree = <<>>
             PROVE  FALSE
  BY DEF CanInsert
<1>1. g_current_process \in Proc
  BY DEF QInv, Base, Structure, TypeOK, ProcTypes, PhaseTypes
<1>2. aslh = Semd
  <2>1. ToSet(<<>>) = {}
    BY DEF ToSet
  <2> QED BY <2>1 DEF QInv, Rest, AslCover
<1>3. \A d \in Semd : Head(s_procq[d]) \in Queued(d)
  <2>1. SUFFICES ASSUME NEW d \in Semd PROVE Head(s_procq[d]) \in Queued(d)
    OBVIOUS
  <2>2. s_procq[d] \in Seq(Proc) /\ s_procq[d] # <<>>
    BY <1>2 DEF QInv, Base, Structure, TypeOK, SemTypes, AslInv, AslQueues
  <2> QED BY <2>2, TailProperties, Zenon DEF Queued
<1> DEFINE T == Proc \ {g_current_process}
           f == [d \in Semd |-> Head(s_procq[d])]
<1>4. f \in [Semd -> T]
  <2>1. \A d \in Semd : Queued(d) \subseteq Proc /\ g_current_process \notin Queued(d)
    BY DEF QInv, Base, Structure, TypeOK, SemTypes, Apart, Queued, ToSet
  <2> QED BY <1>3, <2>1
<1>5. \A d, e \in Semd : f[d] = f[e] => d = e
  <2>1. \A d, e \in Semd : d # e => Queued(d) \cap Queued(e) = {}
    BY DEF QInv, Base, Structure, Apart
  <2> QED BY <1>3, <2>1
<1>6. /\ IsFiniteSet(Semd) /\ IsFiniteSet(Proc)
      /\ Cardinality(Semd) = MAXPROC /\ Cardinality(Proc) = MAXPROC
  <2>1. MAXPROC \in Int /\ 1 \in Int /\ 1 <= MAXPROC
    BY ConstAssumption
  <2>2. IsFiniteSet(1 .. MAXPROC)
        /\ Cardinality(1 .. MAXPROC) = IF 1 > MAXPROC THEN 0 ELSE MAXPROC - 1 + 1
    BY <2>1, FS_Interval, Zenon
  <2>3. Cardinality(1 .. MAXPROC) = MAXPROC
    BY <2>1, <2>2
  <2> QED BY <2>2, <2>3 DEF Semd, Proc
<1>7. IsFiniteSet(T) /\ Cardinality(T) = Cardinality(Proc) - 1
  BY <1>1, <1>6, FS_RemoveElement
<1>8. Cardinality(T) < Cardinality(Semd)
  BY <1>6, <1>7, ConstAssumption
<1> HIDE DEF T, f
<1>9. \E d, e \in Semd : d # e /\ f[d] = f[e]
  BY <1>4, <1>6, <1>7, <1>8, FS_PigeonHole, Zenon
<1> QED BY <1>5, <1>9

LEMMA PHasSemd ==
  ASSUME QInv, phase = "user", NEW a, NEW weight, P(a, weight)
  PROVE  phase' # "noSemd"
BY SemdLeft DEF P

-----------------------------------------------------------------------------
(* The invariant holds *)

Inv == QInv /\ phase # "noSemd"

LEMMA QInit == Init => Inv
<1> SUFFICES ASSUME Init PROVE Inv
  OBVIOUS
<1> DEFINE free == [i \in 1 .. MAXPROC - 1 |-> i + 1]
           semd == [i \in 1 .. MAXPROC |-> i]
<1>1. MAXPROC \in Nat \ {0}
  BY ConstAssumption
<1>2. /\ pcbFree = free /\ g_ready_queue = <<1>> /\ g_current_process = NULL
      /\ aslh = {} /\ semdFree = semd /\ phase = "sched"
      /\ \A d \in Semd : s_procq[d] = <<>>
  BY DEF Init
<1>3. ToSet(free) = Proc \ {1} /\ IsInjective(free)
  <2>1. \A x \in 2 .. MAXPROC : x-1 \in 1 .. MAXPROC-1 /\ free[x-1] = x
    BY <1>1
  <2>2. ToSet(free) = 2 .. MAXPROC
    BY <1>1, <2>1 DEF ToSet
  <2>3. Proc \ {1} = 2 .. MAXPROC
    BY <1>1 DEF Proc
  <2> QED BY <1>1, <2>2, <2>3 DEF IsInjective
<1>4. ToSet(semd) = Semd /\ IsInjective(semd)
  BY <1>1 DEF ToSet, IsInjective, Semd
<1>5. ToSet(<<1>>) = {1} /\ IsInjective(<<1>>)
      /\ ToSet(<<>>) = {} /\ IsInjective(<<>>)
  BY DEF ToSet, IsInjective
<1>6. NULL \notin Proc /\ NULL # 1
  BY <1>1 DEF NULL, Proc
<1>7. \A d \in Semd : Queued(d) = {}
  BY <1>2, <1>5 DEF Queued
<1> HIDE DEF free, semd
<1>8. Apart
  BY <1>2, <1>3, <1>5, <1>6, <1>7 DEF Apart
<1>9. Placed
  BY <1>2, <1>3, <1>5 DEF Placed
<1>10. AslInv
  BY <1>2, <1>4, <1>7
     DEF AslInv, AslQueues, AslDistinct, AslCursem, AslFree, AslAddr
<1>11. Rest
  BY <1>2, <1>4 DEF Rest, AslCover, NoLostWakeup
<1> QED BY <1>2, <1>8, <1>9, <1>10, <1>11, TypeInit
       DEF Inv, QInv, Base, Structure, NotKilling

\* The actions that leave lists and semaphores alone.
LEMMA QuietKeeps ==
  ASSUME QInv, UNCHANGED lists, UNCHANGED semval,
         phase # "semop" \/ UNCHANGED <<phase, vop>>
  PROVE  Structure' /\ Rest'
BY StructureStays, RestStays DEF QInv, Base

LEMMA StepKeeps ==
  ASSUME NoKill, Inv, [Next]_vars
  PROVE  Structure' /\ Rest' /\ NotKilling' /\ phase' # "noSemd"
<1> USE DEF NotKilling
<1>0. QInv /\ Base /\ Rest /\ phase \notin {"search", "kill", "noSemd"}
  BY DEF Inv, QInv
<1>1. CASE Internal
  <2>1. CASE scheduler
    BY <1>0, <2>1, SchedulerKeeps
  <2>2. CASE childByPid \/ killChild \/ reap
    BY <1>0, <2>2 DEF childByPid, killChild, reap
  <2>3. CASE wake
    BY <1>0, <2>3, WakeKeeps
  <2>4. CASE endV
    BY <1>0, <2>4, EndVKeeps
  <2>5. CASE tick
    <3>1. /\ UNCHANGED lists /\ UNCHANGED semval
          /\ phase # "semop" /\ phase' \in {"semop", "slice"}
      BY <2>5 DEF tick, startV, lists, aslVars
    <3> QED BY <1>0, <3>1, QuietKeeps
  <2>6. CASE \E over \in BOOLEAN : slice(over)
    BY <1>0, <2>6, SliceKeeps
  <2> QED BY <1>1, <2>1, <2>2, <2>3, <2>4, <2>5, <2>6, Zenon DEF Internal
<1>2. CASE Call
  <2>1. CASE createProcess
    BY <1>0, <2>1, CreateKeeps
  <2>2. CASE terminateSelf \/ \E p \in Proc : terminateByPid(p_pid[p])
    BY <2>2 DEF terminateSelf, terminateByPid, Issues, NoKill
  <2>3. ASSUME NEW a \in UserSem, NEW w \in Weights, semop(a, w)
        PROVE  Structure' /\ Rest' /\ NotKilling' /\ phase' # "noSemd"
    <3>1. /\ a \in Sem /\ w \in Int /\ phase = "user"
          /\ UNCHANGED <<pcbFree, g_ready_queue>>
      BY <2>3, ConstAssumption DEF Sem, semop, Issues
    <3>2. CASE w < 0 /\ P(a, w)
      <4>1. phase' # "noSemd"
        BY <1>0, <3>1, <3>2, PHasSemd, Zenon
      <4> QED BY <1>0, <3>1, <3>2, <4>1, PKeeps
    <3>3. CASE /\ phase' \in {"semop", "badWeight"}
               /\ UNCHANGED <<aslVars, semval, g_current_process>>
      <4>1. UNCHANGED lists /\ UNCHANGED semval /\ phase # "semop"
        BY <3>1, <3>3 DEF lists, aslVars
      <4> QED BY <1>0, <3>3, <4>1, QuietKeeps
    <3> QED BY <2>3, <3>2, <3>3 DEF semop, startV
  <2>4. CASE waitClock \/ \E u \in Unit : ioDevop(u)
    <3>1. PICK a \in Sem : P(a, -1)
      BY <2>4 DEF waitClock, ioDevop, Sem, DevCells
    <3>2. phase = "user" /\ UNCHANGED <<pcbFree, g_ready_queue>>
      BY <2>4 DEF waitClock, ioDevop, Issues
    <3>3. phase' # "noSemd"
      BY <1>0, <3>1, <3>2, PHasSemd, Zenon
    <3>4. -1 \in Int /\ -1 < 0
      OBVIOUS
    <3> QED BY <1>0, <3>1, <3>2, <3>3, <3>4, PKeeps
  <2> QED BY <1>2, <2>1, <2>2, <2>3, <2>4, Zenon DEF Call
<1>3. CASE Interrupt
  <2>1. /\ UNCHANGED lists /\ UNCHANGED semval
        /\ phase # "semop" /\ phase' \in {"tick", "slice", "semop", "sched", "user"}
    BY <1>3 DEF Interrupt, handleTimer, handleDevices, Interruptible, startV,
                Resumed, lists, aslVars
  <2> QED BY <1>0, <2>1, QuietKeeps
<1>4. CASE (\E u \in Unit : deviceDone(u)) \/ stopped \/ UNCHANGED vars
  <2>1. UNCHANGED lists /\ UNCHANGED semval /\ UNCHANGED <<phase, vop>>
    BY <1>4 DEF deviceDone, stopped, vars, lists, aslVars
  <2> QED BY <1>0, <2>1, QuietKeeps
<1> QED BY <1>1, <1>2, <1>3, <1>4, Zenon DEF Next

LEMMA QInvariant == ASSUME NoKill PROVE Spec => []Inv
<1>1. Init => Inv
  BY QInit
<1>2. Inv /\ [Next]_vars => Inv'
  <2> SUFFICES ASSUME Inv, [Next]_vars PROVE Inv'
    OBVIOUS
  <2>1. TypeOK'
    BY TypeNext DEF Inv, QInv, Base
  <2>2. Structure' /\ Rest' /\ NotKilling' /\ phase' # "noSemd"
    BY StepKeeps
  <2> QED BY <2>1, <2>2 DEF Inv, QInv, Base
<1> QED BY <1>1, <1>2, PTL DEF Spec

-----------------------------------------------------------------------------
(* What it means *)

LEMMA ApartMeans == TypeOK /\ Apart /\ Placed => OnePlace
<1> SUFFICES ASSUME TypeOK, Apart, Placed PROVE OnePlace
  OBVIOUS
<1>1. /\ OnList(<<"free">>) = pcbFree /\ OnList(<<"ready">>) = g_ready_queue
      /\ \A d \in Semd : OnList(<<"sem", d>>) = s_procq[d]
  BY DEF OnList
<1>2. \A l \in Lists : \/ l = <<"free">> \/ l = <<"ready">>
                       \/ \E d \in Semd : l = <<"sem", d>>
  BY DEF Lists
<1>3. /\ <<"free">> \in Lists /\ <<"ready">> \in Lists
      /\ \A d \in Semd : <<"sem", d>> \in Lists
  BY DEF Lists
<1>4. ASSUME NEW l \in Lists
      PROVE  IsInjective(OnList(l)) /\ g_current_process \notin ToSet(OnList(l))
  BY <1>1, <1>2 DEF Apart, Queued
<1>5. ASSUME NEW l \in Lists, NEW m \in Lists, l # m
      PROVE  ToSet(OnList(l)) \cap ToSet(OnList(m)) = {}
  BY <1>1, <1>2, <1>5 DEF Apart, Queued
<1>6. ASSUME NEW p \in Proc
      PROVE  p = g_current_process \/ \E l \in Lists : p \in ToSet(OnList(l))
  BY <1>1, <1>3, Zenon DEF Placed, Queued
<1> QED BY <1>4, <1>5, <1>6 DEF OnePlace

\* As long as no process is terminated, insertBlocked never runs out of
\* descriptors and SYS3 never panics for want of one.
THEOREM SemdsSuffice == ASSUME NoKill PROVE Spec => []NoSemdLost
<1>1. Inv => NoSemdLost
  BY DEF Inv, QInv, Rest, AslCover, NoSemdLost
<1> QED BY <1>1, QInvariant, PTL

\* As long as no process is terminated, no process stays blocked at the head
\* of a queue whose semaphore has what it asked for, whatever the weights and
\* the order of P, V, ticks and device interrupts.
THEOREM NoneLeftBehind == ASSUME NoKill PROVE Spec => []NoLostWakeup
<1>1. Inv => NoLostWakeup
  BY DEF Inv, QInv, Rest
<1> QED BY <1>1, QInvariant, PTL

-----------------------------------------------------------------------------
(***************************************************************************)
(* What holds through SYS2 as well: the process tree, the pids, and up to  *)
(* the moment at which a pcb is freed that is still linked (phase "wild"), *)
(* the lists.                                                              *)
(*                                                                         *)
(* All of it is one induction.  That terminateProgeny frees no pcb twice   *)
(* and frees the running process only as the last one rests on the tree    *)
(* and on the order of the pids in it; that the pids are ordered rests on  *)
(* the pool of free pcbs, that is, on the lists.                           *)
(***************************************************************************)

-----------------------------------------------------------------------------
(* The inductive invariant *)

\* The links of the process tree agree.
Links ==
  /\ \A p \in Proc : IsInjective(p_children[p])
  /\ \A p, c \in Proc : c \in ToSet(p_children[p]) <=> p_parent[c] = p

FreeBare == \A p \in ToSet(pcbFree) : p_parent[p] = NULL /\ p_children[p] = <<>>

\* The pcbs terminateProgeny has entered are off the tree and not yet free.
Stacked ==
  /\ IsInjective(stack)
  /\ \A p \in ToSet(stack) : p \notin ToSet(pcbFree) /\ p_parent[p] = NULL

Older  == \A p \in Proc : p_parent[p] # NULL => p_pid[p_parent[p]] < p_pid[p]

Rooted == \A p \in Live : p_pid[p] = 1 \/ p \in ToSet(stack) \/ p_parent[p] # NULL

TreeInv == Links /\ FreeBare /\ Stacked /\ Older /\ Rooted

\* SYS2 does not come to its caller but for terminateProcess(0), which enters
\* it first: the search goes on to younger processes, and so do the calls of
\* terminateProgeny.
Kills ==
  /\ phase \notin {"kill", "wild"} => stack = <<>>
  /\ phase = "search" => /\ target # 0
                         /\ p_pid[cursor] >= p_pid[g_current_process]
  /\ phase = "kill" /\ target = 0 => stack[1] = g_current_process
  /\ phase = "kill" /\ target # 0 =>
       \A p \in ToSet(stack) : p_pid[g_current_process] < p_pid[p]

\* The count of processes ever created is in the upper bits of every pid, and
\* the rest of the pid never carries into them.
PidsBelow == \A p \in Live : p_pid[p] < 32 * abs_process_count + 32

PidInv == PidsBelow /\ PidsDistinct

TInv == /\ TypeOK /\ CountMatches /\ AslInv
        /\ phase # "wild" => Apart /\ Placed
        /\ TreeInv /\ Kills /\ PidInv

LEMMA NotWild == TInv /\ phase # "wild" => Base
BY DEF TInv, Base, Structure

-----------------------------------------------------------------------------
(* Creation *)

\* A list without repetitions is no longer than the pool.
LEMMA InjectiveLength ==
  ASSUME NEW s \in Seq(Proc), IsInjective(s)
  PROVE  Len(s) <= MAXPROC
<1> SUFFICES ASSUME Len(s) > MAXPROC PROVE FALSE
  BY ConstAssumption, LenProperties
<1> DEFINE n == Len(s)
           D == 1 .. n
<1>1. n \in Nat /\ MAXPROC \in Nat \ {0} /\ DOMAIN s = D
  BY ConstAssumption, LenProperties
<1>2. s \in [D -> Proc] /\ \A i, j \in D : s[i] = s[j] => i = j
  BY <1>1, ElementOfSeq DEF IsInjective
<1>3. MAXPROC \in Int /\ 1 \in Int /\ n \in Int /\ 1 <= MAXPROC /\ 1 <= n
  BY <1>1
<1> HIDE DEF n
<1>4. IsFiniteSet(D) /\ Cardinality(D) = n
  <2>1. IsFiniteSet(1 .. n) /\ Cardinality(1 .. n) = IF 1 > n THEN 0 ELSE n - 1 + 1
    BY <1>3, FS_Interval, Zenon
  <2> QED BY <1>3, <2>1
<1>5. IsFiniteSet(Proc) /\ Cardinality(Proc) = MAXPROC
  <2>1. /\ IsFiniteSet(1 .. MAXPROC)
        /\ Cardinality(1 .. MAXPROC) = IF 1 > MAXPROC THEN 0 ELSE MAXPROC - 1 + 1
    BY <1>3, FS_Interval, Zenon
  <2> QED BY <1>3, <2>1 DEF Proc
<1>6. Cardinality(Proc) < Cardinality(D)
  BY <1>4, <1>5 DEF n
<1> HIDE DEF D
<1>7. \E i, j \in D : i # j /\ s[i] = s[j]
  BY <1>2, <1>4, <1>5, <1>6, FS_PigeonHole, Zenon
<1> QED BY <1>2, <1>7

\* What createProcess does to the tree.
Born(n) ==
  /\ n \in Proc /\ n \in ToSet(pcbFree) /\ ToSet(pcbFree') = ToSet(pcbFree) \ {n}
  /\ g_current_process \in Proc /\ g_current_process # n
  /\ g_current_process \in Live
  /\ p_parent' = [p_parent EXCEPT ![n] = g_current_process]
  /\ p_children'[n] = <<>>
  /\ ToSet(p_children'[g_current_process])
       = ToSet(p_children[g_current_process]) \cup {n}
  /\ IsInjective(p_children'[g_current_process])
  /\ \A q \in Proc \ {n, g_current_process} : p_children'[q] = p_children[q]
  /\ p_pid' = [p_pid EXCEPT ![n] = pid_selector]
  /\ abs_process_count' = abs_process_count + 1
  /\ UNCHANGED stack

LEMMA CreateEffect ==
  ASSUME TInv, createProcess
  PROVE  \E n \in Proc : Born(n)
<1>1. /\ Base /\ pcbFree \in Seq(Proc) /\ pcbFree # <<>> /\ phase = "user"
      /\ g_current_process \in Proc /\ IsInjective(pcbFree)
      /\ p_children \in [Proc -> Seq(Proc)]
      /\ g_current_process \notin ToSet(pcbFree)
  BY NotWild DEF createProcess, Issues, Base, TypeOK, ProcTypes, PhaseTypes, Structure,
                 Apart
<1>2. PICK n \in Proc : /\ n = Head(pcbFree) /\ n \in ToSet(pcbFree)
                        /\ ToSet(Tail(pcbFree)) = ToSet(pcbFree) \ {n}
  BY <1>1, TailProperties, Zenon
<1>3. /\ pcbFree' = Tail(pcbFree)
      /\ p_parent' = [p_parent EXCEPT ![n] = g_current_process]
      /\ p_children' = [[p_children EXCEPT ![n] = <<>>]
                          EXCEPT ![g_current_process] = Append(@, n)]
      /\ p_pid' = [p_pid EXCEPT ![n] = pid_selector]
      /\ abs_process_count' = abs_process_count + 1
      /\ UNCHANGED stack
  BY <1>2 DEF createProcess, killVars
<1>4. n # g_current_process /\ g_current_process \in Live
  BY <1>1, <1>2 DEF Live
<1>5. /\ p_children'[n] = <<>>
      /\ p_children'[g_current_process] = Append(p_children[g_current_process], n)
      /\ \A q \in Proc \ {n, g_current_process} : p_children'[q] = p_children[q]
  BY <1>1, <1>3, <1>4
<1>6. /\ p_children[g_current_process] \in Seq(Proc)
      /\ IsInjective(p_children[g_current_process])
      /\ n \notin ToSet(p_children[g_current_process])
  <2>1. p_parent[n] # g_current_process
    BY <1>1, <1>2, ConstAssumption DEF TInv, TreeInv, FreeBare, NULL, Proc
  <2> QED BY <1>1, <2>1 DEF TInv, TreeInv, Links
<1>7. /\ ToSet(Append(p_children[g_current_process], n))
           = ToSet(p_children[g_current_process]) \cup {n}
      /\ IsInjective(Append(p_children[g_current_process], n))
  BY <1>6, AppendNew, Zenon
<1>8. Born(n)
  BY <1>1, <1>2, <1>3, <1>4, <1>5, <1>7 DEF Born
<1> QED BY <1>8

\* The new process has the highest pid there is.
LEMMA CreatePids ==
  ASSUME TInv, createProcess, NEW n \in Proc, Born(n)
  PROVE  PidInv' /\ \A p \in Live : p_pid[p] < pid_selector
<1>1. /\ MAXPROC \in Int /\ MAXPROC < 32
      /\ g_process_count \in Int /\ abs_process_count \in Nat
      /\ pcbFree \in Seq(Proc) /\ p_pid \in [Proc -> Int]
      /\ g_process_count < MAXPROC
  BY ConstAssumption DEF TInv, TypeOK, CountTypes, ProcTypes, createProcess
<1>2. 0 <= g_process_count
  <2>1. g_process_count + Len(pcbFree) = MAXPROC /\ Len(pcbFree) \in Nat
    BY <1>1, LenProperties DEF TInv, CountMatches
  <2>2. IsInjective(pcbFree)
    BY NotWild DEF createProcess, Issues, Base, Structure, Apart
  <2>3. Len(pcbFree) <= MAXPROC
    BY <1>1, <2>2, InjectiveLength
  <2> QED BY <1>1, <2>1, <2>3
<1>3. /\ p_pid' = [p_pid EXCEPT ![n] = pid_selector]
      /\ abs_process_count' = abs_process_count + 1
  BY DEF Born
<1>4. /\ pid_selector \in Int
      /\ 32 * abs_process_count + 32 <= pid_selector
      /\ pid_selector < 32 * abs_process_count' + 32
  BY <1>1, <1>2, <1>3 DEF pid_selector
<1> HIDE DEF pid_selector
<1>5. \A p \in Live' : p = n \/ p \in Live
  BY DEF Born, Live
<1>6. \A p \in Live : /\ p \in Proc /\ p_pid[p] \in Int
                      /\ p_pid[p] < 32 * abs_process_count + 32
  BY <1>1 DEF TInv, PidInv, PidsBelow, Live
<1>7. \A p \in Live' : IF p = n THEN p_pid'[p] = pid_selector
                       ELSE p \in Live /\ p_pid'[p] = p_pid[p]
  BY <1>1, <1>3, <1>5, <1>6
<1>8. PidsBelow'
  BY <1>1, <1>3, <1>4, <1>6, <1>7 DEF PidsBelow
<1>9. \A p \in Live : p_pid[p] < pid_selector
  BY <1>1, <1>4, <1>6
<1>10. PidsDistinct'
  BY <1>4, <1>6, <1>7, <1>9 DEF PidsDistinct, TInv, PidInv
<1> QED BY <1>8, <1>9, <1>10 DEF PidInv

LEMMA CreateTree ==
  ASSUME TInv, createProcess
  PROVE  TreeInv' /\ PidInv'
<1>1. PICK n \in Proc : Born(n)
  BY CreateEffect
<1>2. PidInv' /\ \A p \in Live : p_pid[p] < pid_selector
  BY <1>1, CreatePids
<1> DEFINE c == g_current_process
<1>3. /\ p_parent \in [Proc -> Proc \cup {NULL}] /\ NULL \notin Proc
      /\ p_pid \in [Proc -> Int] /\ stack = <<>>
  <2>1. NULL \notin Proc
    BY ConstAssumption DEF NULL, Proc
  <2>2. stack = <<>>
    BY DEF TInv, Kills, createProcess, Issues
  <2> QED BY <2>1, <2>2 DEF TInv, TypeOK, ProcTypes
<1>4. /\ p_parent[n] = NULL /\ p_children[n] = <<>>
      /\ \A q \in Proc : p_parent[q] # n
  <2>1. p_parent[n] = NULL /\ p_children[n] = <<>>
    BY <1>1 DEF Born, TInv, TreeInv, FreeBare
  <2>2. ToSet(<<>>) = {}
    BY DEF ToSet
  <2> QED BY <2>1, <2>2 DEF TInv, TreeInv, Links
<1>5. Links'
  <2>1. \A p \in Proc : IsInjective(p_children'[p])
    <3>1. IsInjective(<<>>)
      BY DEF IsInjective
    <3> QED BY <1>1, <3>1 DEF Born, TInv, TreeInv, Links
  <2>2. ASSUME NEW p \in Proc, NEW q \in Proc
        PROVE  q \in ToSet(p_children'[p]) <=> p_parent'[q] = p
    <3>1. ToSet(<<>>) = {}
      BY DEF ToSet
    <3>2. p_parent'[q] = IF q = n THEN c ELSE p_parent[q]
      BY <1>1, <1>3 DEF Born
    <3>3. q \in ToSet(p_children[p]) <=> p_parent[q] = p
      BY DEF TInv, TreeInv, Links
    <3>4. ToSet(p_children'[p]) = IF p = c THEN ToSet(p_children[p]) \cup {n}
                                  ELSE ToSet(p_children[p])
      BY <1>1, <1>4 DEF Born
    <3> QED BY <1>1, <1>3, <1>4, <3>2, <3>3, <3>4 DEF Born
  <2> QED BY <2>1, <2>2 DEF Links
<1>6. FreeBare'
  <2> SUFFICES ASSUME NEW f \in ToSet(pcbFree), f # n
               PROVE  p_parent'[f] = NULL /\ p_children'[f] = <<>>
    BY <1>1 DEF FreeBare, Born
  <2>1. f \in Proc /\ f # c
    BY <1>1 DEF Born, Live, TInv, TypeOK, ProcTypes, ToSet
  <2> QED BY <1>1, <1>3, <2>1 DEF Born, TInv, TreeInv, FreeBare
<1>7. Stacked'
  <2>1. ToSet(<<>>) = {} /\ IsInjective(<<>>)
    BY DEF ToSet, IsInjective
  <2> QED BY <1>1, <1>3, <2>1 DEF Stacked, Born
<1>8. Older'
  <2> SUFFICES ASSUME NEW p \in Proc, p_parent'[p] # NULL
               PROVE  p_pid'[p_parent'[p]] < p_pid'[p]
    BY DEF Older
  <2>1. CASE p = n
    <3>1. p_parent'[n] = c /\ p_pid'[n] = pid_selector /\ p_pid'[c] = p_pid[c]
      BY <1>1, <1>3 DEF Born
    <3> QED BY <1>1, <1>2, <2>1, <3>1 DEF Born
  <2>2. CASE p # n
    <3>1. p_parent'[p] = p_parent[p] /\ p_pid'[p] = p_pid[p] /\ p_parent[p] \in Proc \ {n}
      BY <1>1, <1>3, <1>4, <2>2 DEF Born
    <3>2. p_pid'[p_parent[p]] = p_pid[p_parent[p]]
      BY <1>1, <1>3, <3>1 DEF Born
    <3> QED BY <3>1, <3>2 DEF TInv, TreeInv, Older
  <2> QED BY <2>1, <2>2
<1>9. Rooted'
  <2> SUFFICES ASSUME NEW p \in Live'
               PROVE  p_pid'[p] = 1 \/ p \in ToSet(stack') \/ p_parent'[p] # NULL
    BY DEF Rooted
  <2>1. CASE p = n
    BY <1>1, <1>3, <2>1 DEF Born
  <2>2. CASE p # n
    <3>1. p \in Live
      BY <1>1, <2>2 DEF Live, Born
    <3>2. p_parent'[p] = p_parent[p] /\ p_pid'[p] = p_pid[p] /\ UNCHANGED stack
      BY <1>1, <1>3, <2>2, <3>1 DEF Born, Live
    <3> QED BY <3>1, <3>2 DEF TInv, TreeInv, Rooted
  <2> QED BY <2>1, <2>2
<1> QED BY <1>2, <1>5, <1>6, <1>7, <1>8, <1>9 DEF TreeInv

-----------------------------------------------------------------------------
(* Termination: a pcb is cut off its parent and entered *)

Cut(c) ==
  /\ p_parent' = [p_parent EXCEPT ![c] = NULL]
  /\ \A p \in Proc : /\ ToSet(p_children'[p]) = ToSet(p_children[p]) \ {c}
                     /\ IsInjective(p_children'[p])
                     /\ p_children[p] = <<>> => p_children'[p] = <<>>

LEMMA OutChildCuts ==
  ASSUME TypeOK, TreeInv, NEW c \in Proc, outChild(c)
  PROVE  Cut(c)
<1>1. /\ p_parent \in [Proc -> Proc \cup {NULL}]
      /\ p_children \in [Proc -> Seq(Proc)] /\ NULL \notin Proc
  BY ConstAssumption DEF TypeOK, ProcTypes, NULL, Proc
<1>2. \A p \in Proc : c \in ToSet(p_children[p]) <=> p_parent[c] = p
  BY DEF TreeInv, Links
<1>3. \A p \in Proc : IsInjective(p_children[p])
  BY DEF TreeInv, Links
<1>4. CASE p_parent[c] = NULL
  <2>1. UNCHANGED <<p_parent, p_children>>
    BY <1>4 DEF outChild
  <2> QED BY <1>1, <1>2, <1>3, <1>4, <2>1 DEF Cut
<1>5. CASE p_parent[c] # NULL
  <2>1. PICK q \in Proc : q = p_parent[c]
    BY <1>1, <1>5
  <2>2. /\ p_children' = [p_children EXCEPT ![q] = Without(p_children[q], c)]
        /\ p_parent' = [p_parent EXCEPT ![c] = NULL]
    BY <1>5, <2>1 DEF outChild
  <2>3. /\ ToSet(Without(p_children[q], c)) = ToSet(p_children[q]) \ {c}
        /\ IsInjective(Without(p_children[q], c))
    BY <1>1, <1>3, WithoutProperties
  <2>4. p_children[q] # <<>>
    <3>1. ToSet(<<>>) = {}
      BY DEF ToSet
    <3> QED BY <1>2, <2>1, <3>1
  <2>5. ASSUME NEW p \in Proc
        PROVE  /\ ToSet(p_children'[p]) = ToSet(p_children[p]) \ {c}
               /\ IsInjective(p_children'[p])
               /\ p_children[p] = <<>> => p_children'[p] = <<>>
    <3>1. CASE p = q
      BY <1>1, <2>2, <2>3, <2>4, <3>1
    <3>2. CASE p # q
      BY <1>1, <1>2, <1>3, <2>1, <2>2, <3>2
    <3> QED BY <3>1, <3>2
  <2> QED BY <2>2, <2>5 DEF Cut
<1> QED BY <1>4, <1>5

LEMMA CutTree ==
  ASSUME TypeOK, TreeInv, NEW c \in Live, c \notin ToSet(stack), Cut(c),
         stack' = Append(stack, c), UNCHANGED <<pcbFree, p_pid>>
  PROVE  TreeInv'
<1>1. /\ p_parent \in [Proc -> Proc \cup {NULL}] /\ NULL \notin Proc
      /\ stack \in Seq(Proc) /\ c \in Proc /\ ToSet(pcbFree) \subseteq Proc
      /\ ToSet(stack) \subseteq Proc
  <2>1. NULL \notin Proc
    BY ConstAssumption DEF NULL, Proc
  <2>2. \A q \in Seq(Proc) : ToSet(q) \subseteq Proc
    BY DEF ToSet
  <2> QED BY <2>1, <2>2 DEF TypeOK, ProcTypes, PhaseTypes, Live
<1>2. \A p \in Proc : p_parent'[p] = IF p = c THEN NULL ELSE p_parent[p]
  BY <1>1 DEF Cut
<1>3. ToSet(stack') = ToSet(stack) \cup {c} /\ IsInjective(stack')
  <2>1. IsInjective(stack)
    BY DEF TreeInv, Stacked
  <2>2. /\ ToSet(Append(stack, c)) = ToSet(stack) \cup {c}
        /\ IsInjective(Append(stack, c))
    BY <1>1, <2>1, AppendNew, Zenon
  <2> QED BY <2>2
<1>4. Links'
  BY <1>1, <1>2 DEF TreeInv, Links, Cut
<1>5. FreeBare'
  BY <1>1, <1>2 DEF TreeInv, FreeBare, Cut
<1>6. Stacked'
  BY <1>1, <1>2, <1>3 DEF TreeInv, Stacked, Live
<1>7. Older'
  BY <1>2 DEF TreeInv, Older
<1>8. Rooted'
  BY <1>2, <1>3 DEF TreeInv, Rooted, Live
<1> QED BY <1>4, <1>5, <1>6, <1>7, <1>8 DEF TreeInv

\* terminateProcess enters a process: the caller, or one found below it.
LEMMA EnterKeeps ==
  ASSUME TInv, NEW c \in Live, stack = <<>>, enter(c), UNCHANGED <<pcbFree, p_pid>>,
         UNCHANGED <<g_current_process, abs_process_count>>,
         \/ target' = 0 /\ c = g_current_process
         \/ target' # 0 /\ p_pid[g_current_process] < p_pid[c]
  PROVE  TreeInv' /\ Kills' /\ PidInv'
<1>1. phase' = "kill" /\ stack' = <<c>> /\ outChild(c) /\ c \in Proc
  BY DEF enter, Live
<1>2. stack' = Append(stack, c) /\ c \notin ToSet(stack)
  BY <1>1 DEF ToSet
<1>3. Cut(c)
  BY <1>1, OutChildCuts DEF TInv
<1>4. TreeInv'
  BY <1>2, <1>3, CutTree DEF TInv
<1>5. stack'[1] = c /\ ToSet(stack') = {c}
  BY <1>1 DEF ToSet
<1>6. Kills'
  BY <1>1, <1>5 DEF Kills
<1>7. PidInv'
  BY DEF TInv, PidInv, PidsBelow, PidsDistinct, Live
<1> QED BY <1>4, <1>6, <1>7

LEMMA TerminateTree ==
  ASSUME TInv, terminateSelf \/ \E pid \in Int : terminateByPid(pid)
  PROVE  TreeInv' /\ Kills' /\ PidInv'
<1> USE DEF unchangedBySearch, countVars
<1>1. /\ phase = "user" /\ g_current_process \in Proc /\ stack = <<>>
      /\ g_current_process \in Live /\ p_pid \in [Proc -> Int]
  <2>1. phase = "user" /\ Base
    BY NotWild DEF terminateSelf, terminateByPid, Issues
  <2> QED BY <2>1 DEF Base, TypeOK, ProcTypes, PhaseTypes, Structure, Apart, Live, TInv, Kills
<1>2. CASE terminateSelf
  <2>1. /\ enter(g_current_process) /\ target' = 0
        /\ UNCHANGED <<pcbFree, p_pid, g_current_process, abs_process_count>>
    BY <1>2 DEF terminateSelf
  <2> QED BY <1>1, <2>1, EnterKeeps
<1>3. CASE \E pid \in Int : terminateByPid(pid)
  <2>1. /\ phase' = "search" /\ target' # 0 /\ cursor' = g_current_process
        /\ UNCHANGED <<stack, p_parent, p_children, pcbFree, p_pid,
                       g_current_process, abs_process_count>>
    BY <1>3 DEF terminateByPid
  <2>2. TreeInv'
    BY <2>1 DEF TInv, TreeInv, Links, FreeBare, Stacked, Older, Rooted, Live
  <2>3. PidInv'
    BY <2>1 DEF TInv, PidInv, PidsBelow, PidsDistinct, Live
  <2>4. p_pid'[cursor'] >= p_pid'[g_current_process']
    BY <1>1, <2>1
  <2>5. Kills'
    BY <1>1, <2>1, <2>4 DEF Kills
  <2> QED BY <2>2, <2>3, <2>5
<1> QED BY <1>2, <1>3

\* The search goes on to a child, which is younger.
LEMMA SearchTree ==
  ASSUME TInv, childByPid
  PROVE  TreeInv' /\ Kills' /\ PidInv'
<1> USE DEF unchangedBySearch, countVars
<1> DEFINE ch == p_children[cursor]
<1>1. /\ phase = "search" /\ cursor \in Proc /\ stack = <<>> /\ target # 0
      /\ g_current_process \in Proc
      /\ p_pid[cursor] >= p_pid[g_current_process]
      /\ p_pid \in [Proc -> Int] /\ p_children \in [Proc -> Seq(Proc)]
      /\ UNCHANGED <<pcbFree, p_pid, g_current_process, abs_process_count>>
  BY DEF childByPid, TInv, TypeOK, ProcTypes, PhaseTypes, Kills
<1>2. ASSUME NEW i \in DOMAIN ch
      PROVE  /\ ch[i] \in Live /\ p_pid[g_current_process] < p_pid[ch[i]]
  <2>1. ch \in Seq(Proc) /\ ch[i] \in Proc /\ ch[i] \in ToSet(ch)
    BY <1>1, <1>2, LenProperties, ElementOfSeq DEF ToSet
  <2>2. p_parent[ch[i]] = cursor
    BY <1>1, <2>1 DEF TInv, TreeInv, Links
  <2>3. cursor # NULL
    BY <1>1, ConstAssumption DEF Proc, NULL
  <2>4. ch[i] \in Live
    BY <2>1, <2>2, <2>3 DEF Live, TInv, TreeInv, FreeBare
  <2>5. p_pid[cursor] < p_pid[ch[i]]
    BY <2>1, <2>2, <2>3 DEF TInv, TreeInv, Older
  <2>6. p_pid[cursor] \in Int /\ p_pid[g_current_process] \in Int /\ p_pid[ch[i]] \in Int
    BY <1>1, <2>1
  <2> QED BY <1>1, <2>4, <2>5, <2>6
<1>3. ASSUME NEW i \in DOMAIN ch, enter(ch[i]), UNCHANGED target
      PROVE  TreeInv' /\ Kills' /\ PidInv'
  BY <1>1, <1>2, <1>3, EnterKeeps
<1>4. ASSUME UNCHANGED <<stack, p_parent, p_children>>,
             \/ phase' = "user"
             \/ /\ UNCHANGED <<phase, target>>
                /\ \E i \in DOMAIN ch : cursor' = ch[i]
      PROVE  TreeInv' /\ Kills' /\ PidInv'
  <2>1. TreeInv'
    BY <1>1, <1>4 DEF TInv, TreeInv, Links, FreeBare, Stacked, Older, Rooted, Live
  <2>2. PidInv'
    BY <1>1, <1>4 DEF TInv, PidInv, PidsBelow, PidsDistinct, Live
  <2>3. phase' = "search" => p_pid'[cursor'] >= p_pid'[g_current_process']
    <3>1. SUFFICES ASSUME NEW i \in DOMAIN ch, cursor' = ch[i]
                   PROVE  p_pid[ch[i]] >= p_pid[g_current_process]
      BY <1>1, <1>4
    <3>2. ch[i] \in Proc /\ p_pid[g_current_process] < p_pid[ch[i]]
      BY <1>2 DEF Live
    <3> QED BY <1>1, <3>2
  <2>4. Kills'
    BY <1>1, <1>4, <2>3 DEF Kills
  <2> QED BY <2>1, <2>2, <2>4
<1>5. \/ UNCHANGED <<stack, p_parent, p_children>> /\ phase' = "user"
      \/ \E i \in DOMAIN ch :
           /\ UNCHANGED target
           /\ \/ enter(ch[i])
              \/ /\ cursor' = ch[i]
                 /\ UNCHANGED <<phase, stack, p_parent, p_children>>
  BY Zenon DEF childByPid, descend
<1> QED BY <1>3, <1>4, <1>5, Zenon

LEMMA KillTree ==
  ASSUME TInv, killChild
  PROVE  TreeInv' /\ Kills' /\ PidInv'
<1> USE DEF unchangedBySearch, countVars
<1>1. PICK p \in Proc : p = Last(stack) /\ p \in ToSet(stack)
  BY FrontProperties, Zenon DEF killChild, TInv, TypeOK, PhaseTypes
<1>2. PICK c \in Proc : c = Head(p_children[p]) /\ c \in ToSet(p_children[p])
  BY <1>1, TailProperties, Zenon DEF killChild, TInv, TypeOK, ProcTypes
<1>3. /\ phase = "kill" /\ phase' = "kill" /\ p_children[p] # <<>>
      /\ p_children' = [p_children EXCEPT ![p] = Tail(@)]
      /\ p_parent' = [p_parent EXCEPT ![c] = NULL]
      /\ stack' = Append(stack, c)
      /\ UNCHANGED <<target, pcbFree, p_pid, g_current_process, abs_process_count>>
  BY <1>1, <1>2 DEF killChild
<1>4. /\ p_children \in [Proc -> Seq(Proc)] /\ p_pid \in [Proc -> Int]
      /\ stack \in Seq(Proc) /\ stack # <<>> /\ NULL \notin Proc
      /\ g_current_process \in Proc
  <2>1. NULL \notin Proc
    BY ConstAssumption DEF NULL, Proc
  <2> QED BY <1>3, <2>1 DEF TInv, TypeOK, ProcTypes, PhaseTypes
<1>5. p_parent[c] = p
  BY <1>2 DEF TInv, TreeInv, Links
<1>6. c \in Live /\ c \notin ToSet(stack)
  BY <1>4, <1>5 DEF TInv, TreeInv, FreeBare, Stacked, Live
<1>7. Cut(c)
  <2>1. /\ IsInjective(Tail(p_children[p]))
        /\ ToSet(Tail(p_children[p])) = ToSet(p_children[p]) \ {c}
    BY <1>2, <1>3, <1>4, TailProperties DEF TInv, TreeInv, Links
  <2>2. ASSUME NEW q \in Proc
        PROVE  /\ ToSet(p_children'[q]) = ToSet(p_children[q]) \ {c}
               /\ IsInjective(p_children'[q])
               /\ p_children[q] = <<>> => p_children'[q] = <<>>
    <3>1. CASE q = p
      BY <1>3, <1>4, <2>1, <3>1
    <3>2. CASE q # p
      <4>1. c \notin ToSet(p_children[q]) /\ IsInjective(p_children[q])
        BY <1>5, <3>2 DEF TInv, TreeInv, Links
      <4>2. p_children'[q] = p_children[q]
        BY <1>3, <1>4, <3>2
      <4> QED BY <4>1, <4>2
    <3> QED BY <3>1, <3>2
  <2> QED BY <1>3, <2>2 DEF Cut
<1>8. TreeInv'
  BY <1>3, <1>6, <1>7, CutTree DEF TInv
<1>9. PidInv'
  BY <1>3 DEF TInv, PidInv, PidsBelow, PidsDistinct, Live
<1>10. Kills'
  <2>1. stack'[1] = stack[1] /\ ToSet(stack') = ToSet(stack) \cup {c}
    <3>1. Append(stack, c)[1] = stack[1]
      BY <1>4, EmptySeq, LenProperties, AppendProperties
    <3>2. ToSet(Append(stack, c)) = ToSet(stack) \cup {c}
      BY <1>4, AppendList
    <3> QED BY <1>3, <3>1, <3>2
  <2>2. p_pid[p] < p_pid[c]
    BY <1>4, <1>5 DEF TInv, TreeInv, Older
  <2>3. target # 0 => p_pid[g_current_process] < p_pid[c]
    BY <1>1, <1>3, <1>4, <2>2 DEF TInv, Kills
  <2> QED BY <1>3, <2>1, <2>3 DEF TInv, Kills
<1> QED BY <1>8, <1>9, <1>10

-----------------------------------------------------------------------------
(* Termination: a pcb is freed *)

\* p is no longer queued anywhere.
Left(p) ==
  /\ \A e \in Semd : Queued(e)' = Queued(e) \ {p} /\ IsInjective(s_procq'[e])
  /\ AslQueues' /\ AslFree' /\ aslh' \subseteq aslh

\* outBlocked takes p from the queue it is in; a p_cursem that is out of date
\* may free the descriptor it names again, but none that is in use.
LEMMA OutBlockedLeaves ==
  ASSUME Base, NEW p \in Proc, p_cursem[p] # NULL, outBlocked(p)
  PROVE  Left(p)
<1> USE DEF Base, Structure
<1>1. PICK d \in Semd : d = p_cursem[p]
  BY DEF TypeOK, SemTypes
<1>2. /\ s_procq \in [Semd -> Seq(Proc)] /\ semdFree \in Seq(Semd)
      /\ aslh \subseteq Semd /\ IsInjective(semdFree)
      /\ \A e \in Semd : IsInjective(s_procq[e])
      /\ aslh \cap ToSet(semdFree) = {}
      /\ \A e \in Semd : e \in aslh <=> s_procq[e] # <<>>
  BY DEF TypeOK, SemTypes, AslInv, AslFree, AslQueues, Apart
<1>3. \A e \in Semd \ {d} : p \notin Queued(e)
  BY <1>1 DEF AslInv, AslCursem
<1> DEFINE q == Without(s_procq[d], p)
<1>4. q \in Seq(Proc) /\ IsInjective(q) /\ ToSet(q) = ToSet(s_procq[d]) \ {p}
  BY <1>2, WithoutProperties
<1>5. s_procq[d] = <<>> => q = <<>>
  <2>1. ToSet(<<>>) = {}
    BY DEF ToSet
  <2> QED BY <2>1 DEF Without
<1>6. setProcq(d, q)
  BY <1>1 DEF outBlocked
<1> HIDE DEF q
<1>7. /\ s_procq'[d] = q
      /\ \A e \in Semd \ {d} : s_procq'[e] = s_procq[e]
  BY <1>2, <1>6 DEF setProcq
<1>8. /\ IsInjective(enqueueFree(semdFree, d))
      /\ ToSet(enqueueFree(semdFree, d)) \subseteq ToSet(semdFree) \cup {d}
  BY <1>2, EnqueueFreeAny
<1>9. /\ q = <<>> => aslh' = aslh \ {d} /\ semdFree' = enqueueFree(semdFree, d)
      /\ q # <<>> => aslh' = aslh /\ semdFree' = semdFree
  BY <1>6, Zenon DEF setProcq
<1>10. AslQueues'
  BY <1>2, <1>5, <1>7, <1>9 DEF AslQueues
<1>11. AslFree' /\ aslh' \subseteq aslh
  BY <1>2, <1>8, <1>9 DEF AslFree
<1>12. \A e \in Semd : Queued(e)' = Queued(e) \ {p} /\ IsInjective(s_procq'[e])
  BY <1>2, <1>3, <1>4, <1>7 DEF Queued
<1> QED BY <1>10, <1>11, <1>12 DEF Left

\* What reap does to the pcb p; unless it is the last thing that is known of
\* the lists, p was not ready.
Reaped(p) ==
  /\ p \in Proc /\ p \in ToSet(stack) /\ p \notin ToSet(pcbFree)
  /\ ToSet(pcbFree') = ToSet(pcbFree) \cup {p} /\ IsInjective(pcbFree')
  /\ Left(p) /\ UNCHANGED <<p_cursem, res_requested, s_semAdd>>
  /\ IsInjective(g_ready_queue')
  /\ phase' # "wild" => ToSet(g_ready_queue') = ToSet(g_ready_queue) \ {p}
  /\ g_current_process' = IF p = g_current_process THEN NULL ELSE g_current_process

LEMMA ReapEffect ==
  ASSUME TInv, reap
  PROVE  Reaped(Last(stack))
<1> USE DEF Base, Structure
<1>1. phase = "kill" /\ Base
  BY NotWild DEF reap
<1>2. /\ stack \in Seq(Proc) /\ stack # <<>> /\ IsInjective(stack)
      /\ g_current_process \in Proc
      /\ pcbFree \in Seq(Proc) /\ g_ready_queue \in Seq(Proc)
      /\ IsInjective(pcbFree) /\ IsInjective(g_ready_queue)
      /\ p_pid \in [Proc -> Int]
  BY <1>1 DEF TypeOK, ProcTypes, PhaseTypes, Apart, TInv, TreeInv, Stacked
<1>3. PICK p \in Proc : p = Last(stack)
  BY <1>2, FrontProperties
<1>4. p \in ToSet(stack) /\ p \notin ToSet(pcbFree)
  BY <1>2, <1>3, FrontProperties DEF TInv, TreeInv, Stacked
<1>5. /\ IF p_cursem[p] # NULL
         THEN outBlocked(p) /\ UNCHANGED g_ready_queue
         ELSE /\ g_ready_queue' = Without(g_ready_queue, p)
              /\ UNCHANGED <<aslh, semdFree, s_procq>>
      /\ pcbFree' = Append(pcbFree, p)
      /\ g_current_process' = IF Len(stack) = 1 /\ target = 0
                              THEN NULL ELSE g_current_process
      /\ p \in ToSet(g_ready_queue') => phase' = "wild"
      /\ UNCHANGED <<p_cursem, res_requested, s_semAdd>>
  BY <1>3 DEF reap, freePcb
<1>6. ToSet(pcbFree') = ToSet(pcbFree) \cup {p} /\ IsInjective(pcbFree')
  <2>1. /\ ToSet(Append(pcbFree, p)) = ToSet(pcbFree) \cup {p}
        /\ IsInjective(Append(pcbFree, p))
    BY <1>2, <1>4, AppendNew, Zenon
  <2> QED BY <1>5, <2>1
<1>7. Left(p)
  <2>1. CASE p_cursem[p] # NULL
    BY <1>1, <1>5, <2>1, OutBlockedLeaves
  <2>2. CASE p_cursem[p] = NULL
    <3>1. \A e \in Semd : p \notin Queued(e)
      BY <2>2, ConstAssumption DEF AslInv, AslCursem, Semd, NULL, TInv
    <3> QED BY <1>1, <1>5, <2>2, <3>1
            DEF Left, AslInv, AslQueues, AslFree, Apart, Queued
  <2> QED BY <2>1, <2>2
<1>8. /\ IsInjective(g_ready_queue')
      /\ phase' # "wild" => ToSet(g_ready_queue') = ToSet(g_ready_queue) \ {p}
  <2>1. /\ IsInjective(Without(g_ready_queue, p))
        /\ ToSet(Without(g_ready_queue, p)) = ToSet(g_ready_queue) \ {p}
    BY <1>2, WithoutProperties
  <2>2. CASE g_ready_queue' = Without(g_ready_queue, p)
    BY <2>1, <2>2
  <2>3. CASE g_ready_queue' = g_ready_queue
    BY <1>2, <1>5, <2>3
  <2> QED BY <1>5, <2>2, <2>3
<1>9. p = g_current_process <=> Len(stack) = 1 /\ target = 0
  <2>1. Len(stack) \in Nat \ {0} /\ Last(stack) = stack[Len(stack)]
    BY <1>2, EmptySeq, LenProperties DEF Last
  <2>2. CASE target # 0
    <3>1. p_pid[g_current_process] < p_pid[p]
      BY <1>1, <1>4, <2>2 DEF TInv, Kills
    <3> QED BY <1>2, <2>2, <3>1
  <2>3. CASE target = 0
    <3>1. stack[1] = g_current_process
      BY <1>1, <2>3 DEF TInv, Kills
    <3>2. Len(stack) > 1 => p # stack[1]
      BY <1>2, <1>3, FrontProperties
    <3>3. Len(stack) = 1 => p = stack[1]
      BY <1>3, <2>1, Zenon
    <3>4. Len(stack) = 1 \/ Len(stack) > 1
      <4>1. \A n \in Nat \ {0} : n = 1 \/ n > 1
        OBVIOUS
      <4> QED BY <2>1, <4>1, Zenon
    <3>5. ~(Len(stack) = 1 /\ Len(stack) > 1)
      BY <2>1
    <3> QED BY <2>3, <3>1, <3>2, <3>3, <3>4, <3>5, Zenon
  <2> QED BY <2>2, <2>3
<1>10. g_current_process' = IF p = g_current_process THEN NULL ELSE g_current_process
  BY <1>5, <1>9
<1> QED BY <1>3, <1>4, <1>5, <1>6, <1>7, <1>8, <1>10 DEF Reaped

LEMMA ReapPlaces ==
  ASSUME TInv, reap
  PROVE  AslInv' /\ (phase' # "wild" => Apart' /\ Placed')
<1>1. phase = "kill" /\ Base
  BY NotWild DEF reap
<1>2. PICK p : p = Last(stack) /\ Reaped(p)
  BY ReapEffect
<1>3. \A e \in Semd : Queued(e)' = Queued(e) \ {p} /\ IsInjective(s_procq'[e])
  BY <1>2 DEF Reaped, Left
<1>4. AslInv'
  <2>1. AslDistinct' /\ AslAddr'
    BY <1>1, <1>2 DEF Reaped, Left, Base, Structure, AslInv, AslDistinct, AslAddr
  <2>2. AslCursem'
    BY <1>1, <1>2, <1>3 DEF Reaped, Base, Structure, AslInv, AslCursem
  <2> QED BY <1>2, <2>1, <2>2 DEF Reaped, Left, AslInv
<1>5. ASSUME phase' # "wild"
      PROVE  Apart' /\ Placed'
  <2>1. /\ ToSet(pcbFree') = ToSet(pcbFree) \cup {p} /\ IsInjective(pcbFree')
        /\ ToSet(g_ready_queue') = ToSet(g_ready_queue) \ {p}
        /\ IsInjective(g_ready_queue') /\ p \in Proc /\ p \notin ToSet(pcbFree)
        /\ g_current_process' = IF p = g_current_process THEN NULL
                                ELSE g_current_process
    BY <1>2, <1>5 DEF Reaped
  <2>2. /\ NULL \notin ToSet(pcbFree) /\ NULL \notin ToSet(g_ready_queue)
        /\ \A e \in Semd : NULL \notin Queued(e)
        /\ NULL \notin Proc
    <3>1. NULL \notin Proc
      BY ConstAssumption DEF NULL, Proc
    <3>2. \A q \in Seq(Proc) : ToSet(q) \subseteq Proc
      BY DEF ToSet
    <3> QED BY <1>1, <3>1, <3>2 DEF Base, TypeOK, ProcTypes, SemTypes, Queued
  <2>3. Apart'
    BY <1>1, <1>3, <2>1, <2>2 DEF Base, Structure, Apart
  <2>4. Placed'
    BY <1>1, <1>3, <2>1 DEF Base, Structure, Placed
  <2> QED BY <2>3, <2>4
<1> QED BY <1>4, <1>5

LEMMA ReapTree ==
  ASSUME TInv, reap
  PROVE  TreeInv' /\ Kills' /\ PidInv'
<1>1. PICK p : p = Last(stack) /\ Reaped(p)
  BY ReapEffect
<1>2. /\ phase = "kill" /\ p_children[p] = <<>> /\ stack' = Front(stack)
      /\ g_current_process' = IF Len(stack) = 1 /\ target = 0
                              THEN NULL ELSE g_current_process
      /\ target' = IF Len(stack) = 1 THEN 0 ELSE target
      /\ phase' \in {"wild", "kill", "sched", "user"}
      /\ phase' = "kill" => Len(stack) > 1
      /\ phase' \in {"sched", "user"} => ~(Len(stack) > 1)
      /\ UNCHANGED <<p_parent, p_children, p_pid, abs_process_count>>
  BY <1>1 DEF reap, treeVars
<1>3. /\ stack \in Seq(Proc) /\ stack # <<>> /\ IsInjective(stack)
      /\ Len(stack) \in Nat \ {0}
  BY <1>2, EmptySeq, LenProperties DEF TInv, TypeOK, PhaseTypes, TreeInv, Stacked
<1>4. /\ IsInjective(stack') /\ p \notin ToSet(stack')
      /\ ToSet(stack') \subseteq ToSet(stack)
      /\ ToSet(stack) \subseteq ToSet(stack') \cup {p}
      /\ Len(stack) > 1 => stack'[1] = stack[1]
      /\ stack' \in Seq(Proc) /\ Len(stack') = Len(stack) - 1
  BY <1>1, <1>2, <1>3, FrontProperties
<1>5. ToSet(pcbFree') = ToSet(pcbFree) \cup {p} /\ p \in ToSet(stack)
  BY <1>1 DEF Reaped
<1>6. Live' = Live \ {p}
  BY <1>5 DEF Live
<1>7. Links' /\ Older'
  BY <1>2 DEF TInv, TreeInv, Links, Older
<1>8. FreeBare'
  BY <1>2, <1>5 DEF TInv, TreeInv, FreeBare, Stacked
<1>9. Stacked'
  BY <1>2, <1>4, <1>5 DEF TInv, TreeInv, Stacked
<1>10. Rooted'
  BY <1>2, <1>4, <1>6 DEF TInv, TreeInv, Rooted
<1>11. PidInv'
  BY <1>2, <1>6 DEF TInv, PidInv, PidsBelow, PidsDistinct
<1>12. Kills'
  <2>1. phase' \in {"sched", "user"} => stack' = <<>>
    BY <1>2, <1>3, <1>4, EmptySeq
  <2>2. phase' = "kill" => /\ UNCHANGED <<target, g_current_process>>
                           /\ stack'[1] = stack[1]
    BY <1>2, <1>3, <1>4
  <2> QED BY <1>2, <1>4, <2>1, <2>2 DEF TInv, Kills
<1> QED BY <1>7, <1>8, <1>9, <1>10, <1>11, <1>12 DEF TreeInv

-----------------------------------------------------------------------------
(* The invariant holds *)

\* The other steps keep the lists, whatever terminations came before.
LEMMA StructureStep ==
  ASSUME Base, [Next]_vars, ~reap
  PROVE  Structure'
<1>1. CASE UNCHANGED lists
  BY <1>1, StructureStays DEF Base
<1>2. CASE \E a \in Sem, w \in Int : /\ w < 0 /\ phase = "user" /\ P(a, w)
                                     /\ UNCHANGED <<pcbFree, g_ready_queue>>
  BY <1>2, PKeeps
<1>3. CASE scheduler \/ wake \/ createProcess \/ \E over \in BOOLEAN : slice(over)
  BY <1>3, SchedulerKeeps, WakeKeeps, CreateKeeps, SliceKeeps
<1>4. ASSUME NEW a \in UserSem, NEW w \in Weights, semop(a, w)
      PROVE  Structure'
  <2>1. a \in Sem /\ w \in Int /\ phase = "user" /\ UNCHANGED <<pcbFree, g_ready_queue>>
    BY <1>4, ConstAssumption DEF semop, Issues, Sem
  <2>2. CASE w < 0 /\ P(a, w)
    BY <1>2, <2>1, <2>2
  <2>3. CASE UNCHANGED <<aslVars, g_current_process>>
    BY <1>1, <2>1, <2>3 DEF lists, aslVars
  <2> QED BY <1>4, <2>2, <2>3 DEF semop
<1>5. CASE waitClock \/ \E u \in Unit : ioDevop(u)
  <2>1. PICK a \in Sem : P(a, -1)
    BY <1>5 DEF waitClock, ioDevop, Sem, DevCells
  <2>2. /\ phase = "user" /\ UNCHANGED <<pcbFree, g_ready_queue>>
        /\ -1 \in Int /\ -1 < 0
    BY <1>5 DEF waitClock, ioDevop, Issues
  <2> QED BY <1>2, <2>1, <2>2
<1>6. CASE terminateSelf \/ (\E p \in Proc : terminateByPid(p_pid[p]))
           \/ childByPid \/ killChild
  BY <1>1, <1>6
     DEF terminateSelf, terminateByPid, childByPid, killChild, unchangedBySearch,
         lists, aslVars
<1>7. CASE endV \/ tick \/ Interrupt
  BY <1>1, <1>7
     DEF endV, tick, Interrupt, handleTimer, handleDevices, lists, aslVars
<1>8. CASE (\E u \in Unit : deviceDone(u)) \/ stopped \/ UNCHANGED vars
  BY <1>1, <1>8 DEF deviceDone, stopped, vars, lists, aslVars
<1> QED BY <1>3, <1>4, <1>5, <1>6, <1>7, <1>8, Zenon DEF Next, Internal, Call

\* Only creations and terminations change the tree.
LEMMA TreeStays ==
  ASSUME TInv, UNCHANGED <<treeVars, killVars, pcbFree, abs_process_count>>,
         \/ UNCHANGED <<phase, g_current_process>>
         \/ /\ phase \notin {"search", "kill", "wild"}
            /\ phase' \notin {"search", "kill"}
  PROVE  TreeInv' /\ Kills' /\ PidInv'
<1> USE DEF treeVars, killVars
<1>1. TreeInv'
  BY DEF TInv, TreeInv, Links, FreeBare, Stacked, Older, Rooted, Live
<1>2. PidInv'
  BY DEF TInv, PidInv, PidsBelow, PidsDistinct, Live
<1>3. Kills'
  BY DEF TInv, Kills
<1> QED BY <1>1, <1>2, <1>3

LEMMA TreeStep ==
  ASSUME TInv, [Next]_vars
  PROVE  TreeInv' /\ Kills' /\ PidInv'
<1> USE DEF treeVars, killVars, countVars
<1>1. CASE Internal
  <2>1. CASE scheduler \/ wake \/ endV \/ tick \/ \E over \in BOOLEAN : slice(over)
    <3>1. /\ UNCHANGED <<treeVars, killVars, pcbFree, abs_process_count>>
          /\ phase \notin {"search", "kill", "wild"}
          /\ phase' \notin {"search", "kill"}
      BY <2>1 DEF scheduler, wake, endV, tick, slice, startV, Resumed
    <3> QED BY <3>1, TreeStays
  <2> QED BY <1>1, <2>1, SearchTree, KillTree, ReapTree, Zenon DEF Internal
<1>2. CASE Call
  <2>1. CASE createProcess
    <3>1. TreeInv' /\ PidInv'
      BY <2>1, CreateTree
    <3>2. /\ phase = "user" /\ phase' = "user" /\ UNCHANGED stack
      BY <2>1 DEF createProcess, Issues
    <3>3. Kills'
      BY <3>2 DEF TInv, Kills
    <3> QED BY <3>1, <3>3
  <2>2. CASE terminateSelf \/ \E p \in Proc : terminateByPid(p_pid[p])
    <3>1. \A p \in Proc : p_pid[p] \in Int
      BY DEF TInv, TypeOK, ProcTypes
    <3> QED BY <2>2, <3>1, TerminateTree
  <2>3. CASE (\E a \in UserSem, w \in Weights : semop(a, w)) \/ waitClock
             \/ \E u \in Unit : ioDevop(u)
    <3>1. /\ UNCHANGED <<treeVars, killVars, pcbFree, abs_process_count>>
          /\ phase \notin {"search", "kill", "wild"}
          /\ phase' \notin {"search", "kill"}
      BY <2>3 DEF semop, waitClock, ioDevop, Issues, P, startV
    <3> QED BY <3>1, TreeStays
  <2> QED BY <1>2, <2>1, <2>2, <2>3, Zenon DEF Call
<1>3. CASE Interrupt
  <2>1. /\ UNCHANGED <<treeVars, killVars, pcbFree, abs_process_count>>
        /\ phase \notin {"search", "kill", "wild"}
        /\ phase' \notin {"search", "kill"}
    BY <1>3 DEF Interrupt, handleTimer, handleDevices, Interruptible, startV, Resumed
  <2> QED BY <2>1, TreeStays
<1>4. CASE (\E u \in Unit : deviceDone(u)) \/ stopped \/ UNCHANGED vars
  <2>1. /\ UNCHANGED <<treeVars, killVars, pcbFree, abs_process_count>>
        /\ UNCHANGED <<phase, g_current_process>>
    BY <1>4 DEF deviceDone, stopped, vars
  <2> QED BY <2>1, TreeStays
<1> QED BY <1>1, <1>2, <1>3, <1>4, Zenon DEF Next

\* A wild processor touches no list: nothing more is said of it.
LEMMA WildStays ==
  ASSUME [Next]_vars, phase = "wild"
  PROVE  phase' = "wild" /\ UNCHANGED lists
BY DEF Next, Internal, Call, Interrupt, scheduler, childByPid, killChild, reap, wake,
       endV, tick, slice, createProcess, terminateSelf, terminateByPid, semop,
       waitClock, ioDevop, Issues, handleTimer, handleDevices, Interruptible,
       deviceDone, stopped, vars, lists, aslVars

LEMMA PlacesStep ==
  ASSUME TInv, [Next]_vars
  PROVE  AslInv' /\ (phase' # "wild" => Apart' /\ Placed')
<1>1. CASE phase = "wild"
  <2>1. phase' = "wild" /\ UNCHANGED lists
    BY <1>1, WildStays
  <2>2. AslInv'
    BY <2>1 DEF TInv, lists, AslInv, AslQueues, AslDistinct, AslCursem, AslFree,
                AslAddr, Queued
  <2> QED BY <2>1, <2>2
<1>2. CASE reap
  BY <1>2, ReapPlaces
<1>3. CASE phase # "wild" /\ ~reap
  BY <1>3, NotWild, StructureStep DEF Structure
<1> QED BY <1>1, <1>2, <1>3

LEMMA TInit == Init => TInv
<1> SUFFICES ASSUME Init PROVE TInv
  OBVIOUS
<1>1. Inv /\ CountMatches
  BY QInit, CountInit
<1>2. /\ p_parent = [p \in Proc |-> NULL] /\ p_children = [p \in Proc |-> <<>>]
      /\ p_pid = [p \in Proc |-> IF p = 1 THEN 1 ELSE 0] /\ abs_process_count = 1
      /\ stack = <<>> /\ phase = "sched"
      /\ g_ready_queue = <<1>> /\ \A d \in Semd : s_procq[d] = <<>>
      /\ g_current_process = NULL
  BY DEF Init
<1>3. ToSet(<<>>) = {} /\ IsInjective(<<>>) /\ ToSet(<<1>>) = {1}
  BY DEF ToSet, IsInjective
<1>4. NULL \notin Proc /\ 1 \in Proc
  BY ConstAssumption DEF NULL, Proc
<1>5. \A p \in Live : p = 1
  BY <1>1, <1>2, <1>3, <1>4 DEF Inv, QInv, Base, Structure, Placed, Queued, Live
<1>6. ToSet(pcbFree) \subseteq Proc
  BY <1>1 DEF Inv, QInv, Base, TypeOK, ProcTypes, ToSet
<1>7. TreeInv
  BY <1>2, <1>3, <1>4, <1>5, <1>6
     DEF TreeInv, Links, FreeBare, Stacked, Older, Rooted
<1>8. PidInv
  BY <1>2, <1>4, <1>5 DEF PidInv, PidsBelow, PidsDistinct
<1>9. Kills
  BY <1>2 DEF Kills
<1> QED BY <1>1, <1>7, <1>8, <1>9 DEF TInv, Inv, QInv, Base, Structure

LEMMA TInvariant == Spec => []TInv
<1>1. Init => TInv
  BY TInit
<1>2. TInv /\ [Next]_vars => TInv'
  <2> SUFFICES ASSUME TInv, [Next]_vars PROVE TInv'
    OBVIOUS
  <2>1. TypeOK' /\ CountMatches'
    BY TypeNext, CountNext DEF TInv
  <2>2. AslInv' /\ (phase' # "wild" => Apart' /\ Placed')
    BY PlacesStep
  <2>3. TreeInv' /\ Kills' /\ PidInv'
    BY TreeStep
  <2> QED BY <2>1, <2>2, <2>3 DEF TInv
<1> QED BY <1>1, <1>2, PTL DEF Spec

-----------------------------------------------------------------------------
(* What it means *)

LEMMA TInvMeans ==
  ASSUME TInv
  PROVE  OrphanFree /\ PidsDistinct /\ OnePlace /\ AslConsistent
<1>1. OrphanFree
  <2>1. \A p, c \in Proc : c \in ToSet(p_children[p]) <=> p_parent[c] = p
    BY DEF TInv, TreeInv, Links
  <2>2. ASSUME NEW p \in Live, p_parent[p] # NULL
        PROVE  p_parent[p] \in Live /\ p_pid[p_parent[p]] < p_pid[p]
    <3>1. PICK q \in Proc : q = p_parent[p]
      BY <2>2 DEF TInv, TypeOK, ProcTypes, Live
    <3>2. p \in ToSet(p_children[q]) /\ ToSet(<<>>) = {}
      BY <2>1, <3>1 DEF Live, ToSet
    <3>3. q \notin ToSet(pcbFree)
      BY <3>2 DEF TInv, TreeInv, FreeBare
    <3> QED BY <2>2, <3>1, <3>3 DEF Live, TInv, TreeInv, Older
  <2> QED BY <2>1, <2>2 DEF OrphanFree, TInv, TreeInv, Rooted
<1>2. PidsDistinct
  BY DEF TInv, PidInv
<1>3. OnePlace
  <2>1. CASE phase = "wild"
    BY <2>1 DEF OnePlace
  <2>2. CASE phase # "wild"
    BY <2>2, ApartMeans DEF TInv
  <2> QED BY <2>1, <2>2
<1>4. AslConsistent
  BY AslInvMeans DEF TInv
<1> QED BY <1>1, <1>2, <1>3, <1>4

\* SYS2 leaves a tree: terminateProgeny frees the progeny of a process and
\* nothing else, so that every process left has a parent, older than itself.
THEOREM TreeStaysTree == Spec => []OrphanFree
<1> QED BY TInvMeans, TInvariant, PTL

\* No two live processes have the same pid, however often pcbs are used again:
\* pid_selector combines a counter that only grows with one that goes up and
\* down.
THEOREM PidsAreDistinct == Spec => []PidsDistinct
<1> QED BY TInvMeans, TInvariant, PTL

\* Through SYS2, too, every pcb is in one place, until one that has been
\* waiting before is freed while it is still in the ready queue.
THEOREM PlacesKept == Spec => []OnePlace
<1> QED BY TInvMeans, TInvariant, PTL

\* Through SYS2, too, the ASL describes the queues, although a stale p_cursem
\* makes outBlocked free descriptors again: never one that is in use.
THEOREM AslKept == Spec => []AslConsistent
<1> QED BY TInvMeans, TInvariant, PTL
=============================================================================
