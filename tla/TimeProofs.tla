----------------------------- MODULE TimeProofs ------------------------------
(***************************************************************************)
(* The time arithmetic of the nucleus, for every slice, period, latency    *)
(* and word: unsigned differences are never mistaken for time left, a tick *)
(* is late, and a process overruns its slice, by a bounded time only, and  *)
(* SYS8 returns times that bracket what they claim to measure.             *)
(***************************************************************************)
EXTENDS CpuTime, TLAPS

PD == SCHED_PSEUDO_CLOCK

-----------------------------------------------------------------------------
(* Arithmetic modulo WORD *)

LEMMA PlusRange ==
  ASSUME NEW a \in 0 .. WORD - 1, NEW b \in 0 .. WORD - 1
  PROVE  /\ Plus(a, b) \in 0 .. WORD - 1
         /\ Minus(a, b) \in 0 .. WORD - 1
         /\ Minus(Plus(a, b), a) = b
BY TimeAssumption DEF Plus, Minus

\* What the counter of the period stands for while the scheduler's hook may
\* have left it below zero.
Counter(left) == IF left > PD THEN 0 ELSE left

\* What a hook makes of it, s units of the e having perhaps been subtracted.
LEMMA ReducedIs ==
  ASSUME NEW left \in 0 .. WORD - 1, NEW s \in 0 .. HANDLER,
         left > PD => left >= WORD - s,
         NEW e \in Nat, e <= Counter(left) + s + LATENCY \/ e <= HANDLER
  PROVE  reduced(left, e) = IF e <= Counter(left) THEN Counter(left) - e ELSE 0
<1>1. CASE left <= PD
  BY <1>1, TimeAssumption DEF reduced, Minus, PD, Counter
<1>2. CASE left > PD
  <2>1. e <= s + LATENCY + HANDLER /\ Counter(left) = 0
    BY <1>2, TimeAssumption DEF Counter
  <2>2. left - e > PD /\ left >= e
    BY <1>2, <2>1, TimeAssumption DEF PD
  <2>3. reduced(left, e) = 0
    BY <2>2, TimeAssumption DEF reduced, Minus, PD
  <2> QED BY <2>1, <2>3, TimeAssumption
<1> QED BY <1>1, <1>2, TimeAssumption DEF PD

LEMMA ReducedType ==
  ASSUME NEW left \in 0 .. WORD - 1, NEW e \in 0 .. WORD - 1
  PROVE  reduced(left, e) \in 0 .. PD
BY TimeAssumption DEF reduced, Minus, PD

LEMMA CappedIs ==
  ASSUME NEW t \in Nat
  PROVE  Capped(t) \in Nat /\ Capped(t) <= t /\ (Capped(t) < WORD => Capped(t) = t)
         /\ (t >= WORD => Capped(t) = WORD) /\ Capped(t) <= WORD
BY TimeAssumption DEF Capped

-----------------------------------------------------------------------------
(* What the hooks do *)

LEMMA AdvancedType ==
  ASSUME NEW f \in [Proc -> 0 .. WORD - 1], NEW p \in Proc \cup {NULL},
         NEW e \in 0 .. WORD - 1
  PROVE  advanced(f, p, e) \in [Proc -> 0 .. WORD - 1]
BY PlusRange, TimeAssumption DEF advanced

LEMMA AdvancedIs ==
  ASSUME NEW f \in [Proc -> 0 .. WORD - 1], NEW p \in Proc \cup {NULL},
         NEW e \in 0 .. WORD - 1, NEW q \in Proc
  PROVE  advanced(f, p, e)[q] = IF q = p THEN Plus(f[q], e) ELSE f[q]
BY TimeAssumption DEF advanced

LEMMA UpdateEffect ==
  ASSUME TypeOK, NEW e \in 0 .. WORD - 1,
         NEW p \in Proc \cup {NULL}, NEW slice \in [Proc -> 0 .. WORD - 1],
         update(Plus(g_lastUpdate, e), p, slice)
  PROVE  /\ Minus(Plus(g_lastUpdate, e), g_lastUpdate) = e
         /\ now' = g_lastUpdate' /\ g_lastUpdate' \in 0 .. WORD - 1
         /\ g_leftTo100' = reduced(g_leftTo100, e)
         /\ g_leftTo100' \in 0 .. PD
         /\ TIMER' \in 0 .. g_leftTo100'
         /\ TIMER' = IF p # NULL /\ slice[p] <= g_leftTo100' THEN slice[p] ELSE g_leftTo100'
<1>1. /\ Plus(g_lastUpdate, e) \in 0 .. WORD - 1
      /\ Minus(Plus(g_lastUpdate, e), g_lastUpdate) = e
  BY PlusRange DEF TypeOK
<1>2. g_leftTo100' = reduced(g_leftTo100, e) /\ g_leftTo100' \in 0 .. PD
  BY <1>1, ReducedType DEF update, TypeOK
<1>3. p # NULL => slice[p] \in 0 .. WORD - 1
  OBVIOUS
<1>4. TIMER' = nearest(g_leftTo100', p, slice)
  BY DEF update
<1>5. /\ TIMER' \in 0 .. g_leftTo100'
      /\ TIMER' = IF p # NULL /\ slice[p] <= g_leftTo100' THEN slice[p] ELSE g_leftTo100'
  BY <1>2, <1>3, <1>4, TimeAssumption DEF nearest, PD
<1> QED BY <1>1, <1>2, <1>5 DEF update

LEMMA PassesType ==
  ASSUME TypeOK, NEW e \in Nat, NEW running \in BOOLEAN, passes(e, running)
  PROVE  spent' \in [Proc -> Nat] /\ held' \in [Proc -> Nat] /\ age' \in Nat
<1>1. \A t \in Nat : Capped(t + e) \in Nat
  BY CappedIs
<1> QED BY <1>1 DEF passes, TypeOK

\* The part of TypeOK that the hooks are responsible for, and what they leave.
Clocks ==
  /\ now \in 0 .. WORD - 1 /\ g_lastUpdate \in 0 .. WORD - 1
  /\ g_leftTo100 \in 0 .. SCHED_PSEUDO_CLOCK
  /\ TIMER \in 0 .. SCHED_PSEUDO_CLOCK
  /\ p_time_slice \in [Proc -> 0 .. WORD - 1]
  /\ p_user_time \in [Proc -> 0 .. WORD - 1]
  /\ p_global_time \in [Proc -> 0 .. WORD - 1]
  /\ spent \in [Proc -> Nat] /\ held \in [Proc -> Nat] /\ age \in Nat

\* How long after g_lastUpdate an exception's handler may read the time.
EMAX == PD + HANDLER + LATENCY

LEMMA RaiseElapsed ==
  ASSUME NEW e \in 1 .. EMAX
  PROVE  e \in Nat /\ e > 0 /\ e \in 0 .. WORD - 1
BY TimeAssumption DEF PD, EMAX

LEMMA RaiseTypes ==
  ASSUME TypeOK, NEW kind, NEW e \in 1 .. EMAX, raise(kind, e)
  PROVE  Clocks'
<1>1. e \in Nat /\ e \in 0 .. WORD - 1
  BY RaiseElapsed
<1>2. g_current_process \in Proc \cup {NULL} /\ p_time_slice \in [Proc -> 0 .. WORD - 1]
  BY DEF TypeOK
<1>3. onHandlerEnter(Plus(g_lastUpdate, e))
  BY DEF raise
<1>4. Minus(Plus(g_lastUpdate, e), g_lastUpdate) = e
  BY <1>1, PlusRange DEF TypeOK
<1>5. p_time_slice' \in [Proc -> 0 .. WORD - 1]
  BY <1>1, <1>2, <1>3, <1>4, PlusRange DEF onHandlerEnter
<1>6. /\ now' = g_lastUpdate' /\ g_lastUpdate' \in 0 .. WORD - 1
      /\ g_leftTo100' \in 0 .. PD /\ TIMER' \in 0 .. g_leftTo100'
  <2>1. update(Plus(g_lastUpdate, e), g_current_process, p_time_slice')
    BY <1>3 DEF onHandlerEnter
  <2> QED BY <1>1, <1>2, <1>5, <2>1, UpdateEffect
<1>7. /\ p_user_time' \in [Proc -> 0 .. WORD - 1]
      /\ p_global_time' \in [Proc -> 0 .. WORD - 1]
  BY <1>1, <1>2, <1>3, <1>4, AdvancedType DEF onHandlerEnter, TypeOK
<1>8. spent' \in [Proc -> Nat] /\ held' \in [Proc -> Nat] /\ age' \in Nat
  BY <1>1, PassesType DEF raise
<1> QED BY <1>5, <1>6, <1>7, <1>8, TimeAssumption DEF Clocks, PD

LEMMA HandlerElapsed ==
  ASSUME NEW e \in 0 .. HANDLER
  PROVE  e \in Nat /\ e \in 0 .. WORD - 1
BY TimeAssumption

LEMMA ExitTypes ==
  ASSUME TypeOK, NEW e \in 0 .. HANDLER, NEW flag, exit(e, flag)
  PROVE  Clocks'
<1>1. e \in Nat /\ e \in 0 .. WORD - 1
  BY HandlerElapsed
<1>2. g_current_process \in Proc \cup {NULL} /\ p_time_slice \in [Proc -> 0 .. WORD - 1]
  BY DEF TypeOK
<1>3. onHandlerExit(Plus(g_lastUpdate, e), flag)
  BY DEF exit
<1>4. Minus(Plus(g_lastUpdate, e), g_lastUpdate) = e
  BY <1>1, PlusRange DEF TypeOK
<1>5. p_time_slice' = p_time_slice /\ p_user_time' = p_user_time
  BY <1>3 DEF onHandlerExit
<1>6. /\ now' = g_lastUpdate' /\ g_lastUpdate' \in 0 .. WORD - 1
      /\ g_leftTo100' \in 0 .. PD /\ TIMER' \in 0 .. g_leftTo100'
  <2>1. update(Plus(g_lastUpdate, e), g_current_process, p_time_slice)
    BY <1>3 DEF onHandlerExit
  <2> QED BY <1>1, <1>2, <2>1, UpdateEffect
<1>7. p_global_time' \in [Proc -> 0 .. WORD - 1]
  BY <1>1, <1>2, <1>3, <1>4, AdvancedType DEF onHandlerExit, TypeOK
<1>8. spent' \in [Proc -> Nat] /\ held' \in [Proc -> Nat] /\ age' \in Nat
  BY <1>1, PassesType DEF exit
<1> QED BY <1>2, <1>5, <1>6, <1>7, <1>8, TimeAssumption DEF Clocks, PD, TypeOK

-----------------------------------------------------------------------------
(* Types *)

LEMMA DispatchTypes ==
  ASSUME TypeOK, NEW e \in 0 .. HANDLER, NEW p \in Proc, NEW fresh \in BOOLEAN,
         dispatch(p, fresh, e)
  PROVE  Clocks'
<1>1. e \in Nat /\ e \in 0 .. WORD - 1
  BY HandlerElapsed
<1>2. SCHED_TIME_SLICE \in 0 .. WORD - 1 /\ 0 \in 0 .. WORD - 1
  BY TimeAssumption
<1>3. p_time_slice' \in [Proc -> 0 .. WORD - 1]
  BY <1>2 DEF dispatch, fullSlice, TypeOK
<1>4. /\ now' \in 0 .. WORD - 1 /\ g_lastUpdate' \in 0 .. WORD - 1
      /\ g_leftTo100' \in 0 .. PD /\ TIMER' \in 0 .. g_leftTo100'
  BY <1>1, <1>3, UpdateEffect DEF dispatch
<1>5. /\ p_user_time' \in [Proc -> 0 .. WORD - 1]
      /\ p_global_time' \in [Proc -> 0 .. WORD - 1]
      /\ spent' \in [Proc -> Nat] /\ held' \in [Proc -> Nat]
  BY <1>2 DEF dispatch, TypeOK
<1>6. age' \in Nat
  BY <1>1, CappedIs DEF dispatch, TypeOK
<1> QED BY <1>3, <1>4, <1>5, <1>6, TimeAssumption DEF Clocks, PD

LEMMA ClockTestTypes ==
  ASSUME TypeOK, NEW e \in 0 .. HANDLER, clockTest(e)
  PROVE  Clocks'
<1>1. e \in 0 .. WORD - 1 /\ 0 \in Nat
      /\ SCHED_PSEUDO_CLOCK \in 0 .. SCHED_PSEUDO_CLOCK
  BY TimeAssumption
<1>2. now' \in 0 .. WORD - 1
  BY <1>1, PlusRange DEF clockTest, TypeOK
<1>3. g_leftTo100' \in 0 .. SCHED_PSEUDO_CLOCK /\ age' \in Nat
  BY <1>1, TimeAssumption DEF clockTest, TypeOK
<1> QED BY <1>2, <1>3 DEF clockTest, procTimes, Clocks, TypeOK

\* The time since the last hook, when the scheduler looks at the clock.
LEMMA SinceType ==
  ASSUME TypeOK PROVE since \in 0 .. WORD - 1
BY PlusRange DEF TypeOK, since

LEMMA IdleTypes ==
  ASSUME TypeOK,
         \/ \E e \in 0 .. HANDLER : enable(e) \/ subtract(e)
         \/ clamp \/ store \/ wait
  PROVE  TypeOK'
<1>0. since \in 0 .. WORD - 1 /\ WORD \in Nat /\ SCHED_PSEUDO_CLOCK \in Nat
      /\ SCHED_PSEUDO_CLOCK < WORD /\ age \in Nat
  BY SinceType, TimeAssumption DEF TypeOK
<1>1. ASSUME NEW e \in 0 .. HANDLER, enable(e) PROVE TypeOK'
  <2>1. now' \in 0 .. WORD - 1
    BY <1>1, HandlerElapsed, PlusRange DEF enable, TypeOK
  <2> QED BY <1>1, <2>1 DEF enable, TypeOK, procTimes, Phases, Calls, Idle
<1>2. ASSUME NEW e \in 0 .. HANDLER, subtract(e) PROVE TypeOK'
  <2>1. now' \in 0 .. WORD - 1 /\ g_leftTo100' \in 0 .. WORD - 1
    BY <1>2, HandlerElapsed, PlusRange DEF subtract, TypeOK
  <2> QED BY <1>2, <2>1 DEF subtract, TypeOK, procTimes, Phases, Calls, Idle
<1>3. CASE clamp
  <2>1. g_leftTo100' \in 0 .. SCHED_PSEUDO_CLOCK
    BY <1>0, <1>3 DEF clamp, TypeOK
  <2> QED BY <1>0, <1>3, <2>1 DEF clamp, TypeOK, procTimes, Phases, Calls, Idle
<1>4. CASE store
  <2>1. TIMER' \in 0 .. SCHED_PSEUDO_CLOCK
    BY <1>0, <1>4 DEF store, TypeOK
  <2>2. age' \in Nat
    BY <1>0, <1>4, CappedIs DEF store
  <2> QED BY <1>4, <2>1, <2>2 DEF store, TypeOK, procTimes, Phases, Calls, Idle
<1>5. CASE wait
  <2>1. TIMER' \in 0 .. SCHED_PSEUDO_CLOCK
    BY <1>0, <1>5 DEF wait, TypeOK
  <2> QED BY <1>5, <2>1 DEF wait, TypeOK, procTimes, Phases, Calls, Idle
<1> QED BY <1>1, <1>2, <1>3, <1>4, <1>5

LEMMA TypeStep ==
  ASSUME TypeOK, [Next]_vars
  PROVE  TypeOK'
<1>0. SCHED_PSEUDO_CLOCK \in 0 .. WORD - 1 /\ WORD \in Nat
  BY TimeAssumption
<1>1. ASSUME NEW kind \in Calls \cup Interrupts, NEW e \in 1 .. EMAX, raise(kind, e)
      PROVE  TypeOK'
  <2>1. Clocks'
    BY <1>1, RaiseTypes
  <2>2. phase' = kind /\ g_current_process' = g_current_process
        /\ (kind \in Calls => g_current_process # NULL)
    BY <1>1 DEF raise, TypeOK, Calls, Interrupts
  <2> QED BY <1>0, <2>1, <2>2 DEF Clocks, TypeOK, Phases, Calls, Interrupts, Idle
<1>2. ASSUME NEW e \in 0 .. HANDLER, sysReturns(e) \/ semopBlocks(e) \/ reservedInstr(e)
      PROVE  TypeOK'
  <2>1. Clocks'
    BY <1>2, ExitTypes DEF sysReturns, semopBlocks, reservedInstr
  <2> QED BY <1>0, <1>2, <2>1 DEF Clocks, TypeOK, sysReturns, semopBlocks,
                            reservedInstr, Phases, Calls, Interrupts, Idle
<1>3. ASSUME NEW dies \in BOOLEAN, bodyEnds(dies) PROVE TypeOK'
  BY <1>3 DEF bodyEnds, procTimes, TypeOK, Phases, Calls, Interrupts, Idle
<1>4. ASSUME NEW e \in 0 .. HANDLER, handlerEnds(e) PROVE TypeOK'
  <2>1. Clocks'
    BY <1>4, ExitTypes DEF handlerEnds
  <2> QED BY <1>0, <1>4, <2>1 DEF Clocks, TypeOK, handlerEnds, Phases, Calls, Interrupts, Idle
<1>5. ASSUME NEW e \in 0 .. HANDLER, clockTest(e) PROVE TypeOK'
  <2>1. Clocks'
    BY <1>5, ClockTestTypes
  <2> QED BY <1>0, <1>5, <2>1 DEF Clocks, TypeOK, clockTest, Phases, Calls, Interrupts, Idle
<1>6. ASSUME NEW e \in 0 .. HANDLER, sliceTest(e) PROVE TypeOK'
  <2>1. CASE exit(e, 1) /\ g_current_process' = NULL
    <3>1. Clocks'
      BY <2>1, ExitTypes
    <3> QED BY <1>0, <1>6, <2>1, <3>1 DEF Clocks, TypeOK, sliceTest, Phases, Calls, Idle
  <2>2. CASE UNCHANGED <<now, g_current_process, g_lastUpdate, g_leftTo100,
                         TIMER, procTimes, age>>
    BY <1>6, <2>2 DEF TypeOK, sliceTest, procTimes, Phases, Calls, Idle
  <2> QED BY <1>6, <2>1, <2>2 DEF sliceTest
<1>8. ASSUME NEW e \in 0 .. HANDLER, NEW p \in Proc, NEW fresh \in BOOLEAN,
             dispatch(p, fresh, e)
      PROVE  TypeOK'
  <2>1. Clocks'
    BY <1>8, DispatchTypes
  <2> QED BY <1>0, <1>8, <2>1, TimeAssumption DEF Clocks, TypeOK, dispatch, Phases, Calls, Idle
<1>9. CASE UNCHANGED vars
  BY <1>9 DEF TypeOK, vars, procTimes
<1> QED BY <1>1, <1>2, <1>3, <1>4, <1>5, <1>6, <1>8, <1>9, IdleTypes
        DEF Next, Trap, Syscall, Leave, Timer, Schedule, PD, EMAX

LEMMA TypeInit == Init => TypeOK
BY TimeAssumption DEF Init, TypeOK, Phases, Calls, Idle

\* Every variable has its type: in particular the counter of the period never
\* keeps a value above the period, except between two assignments of the
\* scheduler's hook, and the timer is never set for longer than a period.
THEOREM TimeTyped == Spec => []TypeOK
BY TypeInit, TypeStep, PTL DEF Spec

-----------------------------------------------------------------------------
(* The period *)

\* The hook is between its assignments to g_leftTo100 and to g_lastUpdate; what
\* it has subtracted an interrupt will subtract again.
Halfway == phase \in {"subtracted", "clamped"}
pending == IF Halfway THEN since ELSE 0

\* The counter, what the hook has taken from it and the age of the period make
\* up a period, or more by a stretch that was subtracted twice; the timer
\* fires by the end of the period.
ClockInv ==
  /\ since \in 0 .. HANDLER
  /\ phase \in {"user", "stored", "wait"} => since = 0
  /\ g_leftTo100 > PD => g_leftTo100 >= WORD - since
  /\ TIMER <= Counter(g_leftTo100) + pending
  /\ TIMER = 0 \/ TIMER + age <= PD
  /\ Counter(g_leftTo100) = 0 \/ Counter(g_leftTo100) + pending + age <= PD
  /\ Counter(g_leftTo100) + pending + 2 * age >= PD

\* How late an exception's handler reads the time.
LEMMA RaiseLate ==
  ASSUME TypeOK, ClockInv, NEW kind, NEW e \in 1 .. EMAX, raise(kind, e)
  PROVE  /\ e <= Counter(g_leftTo100) + since + LATENCY
         /\ e > since
         /\ e <= (IF TIMER > since THEN TIMER ELSE since) + LATENCY
         /\ kind # "timer" => TIMER > since
<1>1. e \in Earliest(kind) .. Latest /\ (kind # "timer" => TIMER > since)
  BY DEF raise
<1>2. since \in Nat /\ TIMER \in Nat /\ Counter(g_leftTo100) \in Nat /\ LATENCY \in Nat
      /\ TIMER <= Counter(g_leftTo100) + since
  BY TimeAssumption DEF ClockInv, pending, TypeOK, Counter
<1> QED BY <1>1, <1>2 DEF Earliest, Latest

\* What the hooks leave, e units after the last one.
LEMMA HookLeaves ==
  ASSUME TypeOK, ClockInv, NEW e \in Nat, e >= pending,
         g_leftTo100' = IF e <= Counter(g_leftTo100) THEN Counter(g_leftTo100) - e ELSE 0,
         TIMER' \in 0 .. g_leftTo100', age' = Capped(age + e), now' = g_lastUpdate',
         phase' \notin {"subtracted", "clamped"}, g_lastUpdate' \in 0 .. WORD - 1
  PROVE  ClockInv'
<1>0. /\ g_leftTo100 \in 0 .. WORD - 1 /\ age \in Nat /\ WORD \in Nat /\ PD \in Nat
      /\ WORD > PD /\ HANDLER \in Nat
  BY TimeAssumption DEF TypeOK, PD
<1>1. since' = 0 /\ pending' = 0
  <2>0. PICK t \in 0 .. WORD - 1 : now' = t /\ g_lastUpdate' = t
    OBVIOUS
  <2>3. Minus(t, t) = 0
    BY <1>0 DEF Minus
  <2>1. Minus(now', g_lastUpdate') = 0
    BY <2>0, <2>3
  <2>2. ~Halfway'
    BY DEF Halfway
  <2> QED BY <2>1, <2>2 DEF since, pending
<1>2. Counter(g_leftTo100) \in 0 .. PD /\ pending \in Nat
  BY <1>0 DEF Counter, pending, ClockInv
<1>3. g_leftTo100' \in 0 .. PD /\ Counter(g_leftTo100)' = g_leftTo100'
  BY <1>0, <1>2 DEF Counter
<1>4. age' \in Nat /\ age' <= age + e /\ (age + e < WORD => age' = age + e)
      /\ (age + e >= WORD => age' = WORD)
  BY <1>0, CappedIs
<1>5. g_leftTo100' = 0 \/ g_leftTo100' + age' <= PD
  BY <1>0, <1>2, <1>3, <1>4 DEF ClockInv
<1>6. g_leftTo100' + 2 * age' >= PD
  <2>1. CASE age + e >= WORD
    BY <1>0, <1>3, <1>4, <2>1
  <2>2. CASE age + e < WORD
    <3>1. Counter(g_leftTo100) + pending + 2 * age >= PD
      BY DEF ClockInv
    <3>2. g_leftTo100' + e >= Counter(g_leftTo100)
      BY <1>2
    <3> QED BY <1>0, <1>2, <1>3, <1>4, <2>2, <3>1, <3>2
  <2> QED BY <1>0, <2>1, <2>2
<1>7. TIMER' = 0 \/ TIMER' + age' <= PD
  BY <1>0, <1>3, <1>4, <1>5
<1> QED BY <1>0, <1>1, <1>3, <1>5, <1>6, <1>7 DEF ClockInv

\* What an exit hook does to the clock.
LEMMA ExitClock ==
  ASSUME TypeOK, ClockInv, NEW e \in 0 .. HANDLER, NEW flag, exit(e, flag),
         phase # "subtracted"
  PROVE  /\ g_leftTo100' = reduced(g_leftTo100, e) /\ age' = Capped(age + e)
         /\ g_leftTo100 \in 0 .. PD /\ Counter(g_leftTo100) = g_leftTo100
         /\ g_leftTo100' = IF e <= g_leftTo100 THEN g_leftTo100 - e ELSE 0
         /\ TIMER' \in 0 .. g_leftTo100'
         /\ now' = g_lastUpdate' /\ g_lastUpdate' \in 0 .. WORD - 1
         /\ age' \in Nat /\ age' <= age + e
         /\ p_time_slice' = p_time_slice
         /\ g_current_process # NULL =>
              TIMER' = IF p_time_slice[g_current_process] <= g_leftTo100'
                       THEN p_time_slice[g_current_process] ELSE g_leftTo100'
<1>1. e \in Nat /\ e \in 0 .. WORD - 1
  BY HandlerElapsed
<1>2. /\ g_current_process \in Proc \cup {NULL}
      /\ p_time_slice \in [Proc -> 0 .. WORD - 1]
      /\ update(Plus(g_lastUpdate, e), g_current_process, p_time_slice)
      /\ p_time_slice' = p_time_slice
  BY DEF exit, onHandlerExit, TypeOK
<1>3. age' = Capped(age + e) /\ age' <= age + e /\ age' \in Nat
  BY <1>1, CappedIs DEF exit, passes, TypeOK
<1>4. g_leftTo100 \in 0 .. PD /\ Counter(g_leftTo100) = g_leftTo100
  BY TimeAssumption DEF TypeOK, Counter, PD
<1>5. reduced(g_leftTo100, e) = IF e <= g_leftTo100 THEN g_leftTo100 - e ELSE 0
  BY <1>1, <1>4, ReducedIs DEF ClockInv, TypeOK
<1> QED BY <1>1, <1>2, <1>3, <1>4, <1>5, UpdateEffect

\* What the enter hook does to the clock.
LEMMA RaiseClock ==
  ASSUME TypeOK, ClockInv, NEW kind, NEW e \in 1 .. EMAX, raise(kind, e)
  PROVE  /\ g_leftTo100' = reduced(g_leftTo100, e) /\ age' = Capped(age + e)
         /\ g_leftTo100' = IF e <= Counter(g_leftTo100) THEN Counter(g_leftTo100) - e ELSE 0
         /\ TIMER' \in 0 .. g_leftTo100'
         /\ now' = g_lastUpdate' /\ g_lastUpdate' \in 0 .. WORD - 1
         /\ age' \in Nat /\ age' <= age + e
<1>1. e \in Nat /\ e \in 0 .. WORD - 1
  BY RaiseElapsed
<1>2. /\ g_current_process \in Proc \cup {NULL}
      /\ p_time_slice' \in [Proc -> 0 .. WORD - 1]
      /\ update(Plus(g_lastUpdate, e), g_current_process, p_time_slice')
  BY RaiseTypes DEF raise, onHandlerEnter, TypeOK, Clocks
<1>3. age' = Capped(age + e) /\ age' <= age + e /\ age' \in Nat
  BY <1>1, CappedIs DEF raise, passes, TypeOK
<1>4. reduced(g_leftTo100, e) = IF e <= Counter(g_leftTo100) THEN Counter(g_leftTo100) - e ELSE 0
  <2>1. e <= Counter(g_leftTo100) + since + LATENCY
    BY RaiseLate
  <2>2. since \in 0 .. HANDLER /\ (g_leftTo100 > PD => g_leftTo100 >= WORD - since)
        /\ g_leftTo100 \in 0 .. WORD - 1
    BY DEF ClockInv, TypeOK
  <2> QED BY <1>1, <2>1, <2>2, ReducedIs
<1> QED BY <1>1, <1>2, <1>3, <1>4, UpdateEffect

\* What a dispatch does to it.
LEMMA DispatchClock ==
  ASSUME TypeOK, ClockInv, NEW e \in 0 .. HANDLER, NEW p \in Proc, NEW fresh \in BOOLEAN,
         dispatch(p, fresh, e)
  PROVE  /\ g_leftTo100' = reduced(g_leftTo100, e) /\ age' = Capped(age + e)
         /\ g_leftTo100 \in 0 .. PD /\ Counter(g_leftTo100) = g_leftTo100
         /\ g_leftTo100' = IF e <= g_leftTo100 THEN g_leftTo100 - e ELSE 0
         /\ TIMER' \in 0 .. g_leftTo100'
         /\ now' = g_lastUpdate' /\ g_lastUpdate' \in 0 .. WORD - 1
         /\ age' \in Nat /\ age' <= age + e
         /\ p_time_slice'[p] = SCHED_TIME_SLICE
         /\ TIMER' = IF p_time_slice'[p] <= g_leftTo100'
                     THEN p_time_slice'[p] ELSE g_leftTo100'
<1>1. e \in Nat /\ e \in 0 .. WORD - 1 /\ p # NULL
  BY HandlerElapsed, TimeAssumption
<1>2. /\ p_time_slice' \in [Proc -> 0 .. WORD - 1]
      /\ update(Plus(g_lastUpdate, e), p, p_time_slice')
  BY DispatchTypes DEF dispatch, Clocks
<1>3. age' = Capped(age + e) /\ age' <= age + e /\ age' \in Nat
  BY <1>1, CappedIs DEF dispatch, TypeOK
<1>4. p_time_slice'[p] = SCHED_TIME_SLICE
  BY DEF dispatch, fullSlice, TypeOK
<1>5. g_leftTo100 \in 0 .. PD /\ Counter(g_leftTo100) = g_leftTo100
  BY TimeAssumption DEF TypeOK, Counter, PD, dispatch
<1>6. reduced(g_leftTo100, e) = IF e <= g_leftTo100 THEN g_leftTo100 - e ELSE 0
  BY <1>1, <1>5, ReducedIs DEF ClockInv, TypeOK
<1> QED BY <1>1, <1>2, <1>3, <1>4, <1>5, <1>6, UpdateEffect

\* Every step is of one of these kinds.
LEMMA StepKinds ==
  ASSUME [Next]_vars
  PROVE  \/ \E kind \in Calls \cup Interrupts, e \in 1 .. EMAX : raise(kind, e)
         \/ /\ \E e \in 0 .. HANDLER, flag \in {0, 1} : exit(e, flag)
            /\ phase \notin Idle /\ phase' \notin Idle
         \/ \E e \in 0 .. HANDLER : clockTest(e)
         \/ \E e \in 0 .. HANDLER, p \in Proc, fresh \in BOOLEAN : dispatch(p, fresh, e)
         \/ \E e \in 0 .. HANDLER : enable(e) \/ subtract(e)
         \/ clamp \/ store \/ wait
         \/ /\ UNCHANGED <<now, g_lastUpdate, g_leftTo100, TIMER, procTimes, age>>
            /\ phase' = phase \/ (phase \notin Idle /\ phase' \in {"exit0", "exit1"})
<1>1. ASSUME NEW e \in 0 .. HANDLER,
             sysReturns(e) \/ semopBlocks(e) \/ reservedInstr(e) \/ handlerEnds(e)
      PROVE  (\E flag \in {0, 1} : exit(e, flag)) /\ phase \notin Idle /\ phase' \notin Idle
  <2>1. \E flag \in {0, 1} : exit(e, flag)
    BY <1>1, Zenon DEF sysReturns, semopBlocks, reservedInstr, handlerEnds
  <2> QED BY <1>1, <2>1 DEF sysReturns, semopBlocks, reservedInstr, handlerEnds, Idle
<1>2. ASSUME NEW e \in 0 .. HANDLER, sliceTest(e)
      PROVE  /\ \/ \E flag \in {0, 1} : exit(e, flag)
                \/ UNCHANGED <<now, g_lastUpdate, g_leftTo100, TIMER, procTimes, age>>
             /\ phase \notin Idle /\ phase' \notin Idle /\ phase' = "exit0"
  <2>1. \/ \E flag \in {0, 1} : exit(e, flag)
        \/ UNCHANGED <<now, g_lastUpdate, g_leftTo100, TIMER, procTimes, age>>
    BY <1>2, Zenon DEF sliceTest
  <2> QED BY <1>2, <2>1 DEF sliceTest, Idle
<1>3. ASSUME NEW dies \in BOOLEAN, bodyEnds(dies)
      PROVE  /\ UNCHANGED <<now, g_lastUpdate, g_leftTo100, TIMER, procTimes, age>>
             /\ phase \notin Idle /\ phase' \in {"exit0", "exit1"}
  BY <1>3 DEF bodyEnds, Idle, Calls
<1>4. UNCHANGED vars => /\ UNCHANGED <<now, g_lastUpdate, g_leftTo100, TIMER, procTimes, age>>
                        /\ phase' = phase
  BY DEF vars
<1> QED BY <1>1, <1>2, <1>3, <1>4 DEF Next, Trap, Syscall, Leave, Timer, Schedule, PD, EMAX

\* The scheduler's hook, one assignment at a time.
LEMMA IdleClock ==
  ASSUME TypeOK, ClockInv,
         \/ \E e \in 0 .. HANDLER : enable(e) \/ subtract(e)
         \/ clamp \/ store \/ wait
  PROVE  ClockInv'
<1>0. /\ g_leftTo100 \in 0 .. WORD - 1 /\ age \in Nat /\ WORD \in Nat /\ PD \in Nat
      /\ WORD > PD + 2 * HANDLER /\ HANDLER \in Nat /\ TIMER \in Nat
      /\ g_lastUpdate \in 0 .. WORD - 1 /\ now \in 0 .. WORD - 1
      /\ phase # "subtracted" => g_leftTo100 <= PD
      /\ since \in 0 .. HANDLER
  BY TimeAssumption DEF TypeOK, PD, ClockInv
<1>1. ASSUME NEW e \in 0 .. HANDLER, enable(e) PROVE ClockInv'
  <2>1. since' = e /\ pending' = 0 /\ pending = 0
    BY <1>1, HandlerElapsed, PlusRange DEF enable, since, pending, Halfway, TypeOK
  <2>2. UNCHANGED <<g_leftTo100, TIMER, age>> /\ phase' = "enabled" /\ phase = "sched"
    BY <1>1 DEF enable
  <2> QED BY <1>0, <2>1, <2>2 DEF ClockInv, Counter
<1>2. ASSUME NEW e \in 0 .. HANDLER, subtract(e) PROVE ClockInv'
  <2>1. since' = e /\ pending' = e /\ pending = 0
    BY <1>2, HandlerElapsed, PlusRange DEF subtract, since, pending, Halfway, TypeOK
  <2>2. /\ UNCHANGED <<TIMER, age>> /\ phase' = "subtracted" /\ phase = "enabled"
        /\ g_leftTo100' = Minus(g_leftTo100, e)
    BY <1>2 DEF subtract
  <2>3. g_leftTo100 \in 0 .. PD /\ Counter(g_leftTo100) = g_leftTo100
    BY <1>0, <2>2 DEF Counter
  <2>4. CASE e <= g_leftTo100
    <3>1. g_leftTo100' = g_leftTo100 - e /\ Counter(g_leftTo100') = g_leftTo100 - e
      BY <1>0, <2>2, <2>3, <2>4 DEF Minus, Counter
    <3> QED BY <1>0, <2>1, <2>2, <2>3, <2>4, <3>1 DEF ClockInv
  <2>5. CASE e > g_leftTo100
    <3>1. g_leftTo100' = WORD - (e - g_leftTo100) /\ Counter(g_leftTo100') = 0
      BY <1>0, <2>2, <2>3, <2>5 DEF Minus, Counter
    <3> QED BY <1>0, <2>1, <2>2, <2>3, <2>5, <3>1 DEF ClockInv
  <2> QED BY <2>3, <2>4, <2>5
<1>3. CASE clamp
  <2>1. since' = since /\ pending' = since /\ pending = since
    BY <1>3 DEF clamp, since, pending, Halfway
  <2>2. /\ UNCHANGED <<TIMER, age>> /\ phase' = "clamped"
        /\ g_leftTo100' = Counter(g_leftTo100) /\ Counter(g_leftTo100') = Counter(g_leftTo100)
    BY <1>0, <1>3 DEF clamp, Counter, PD
  <2>3. g_leftTo100' <= PD /\ Counter(g_leftTo100) \in 0 .. PD
    BY <1>0, <2>2 DEF Counter
  <2> QED BY <1>0, <2>1, <2>2, <2>3 DEF ClockInv
<1>4. CASE store
  <2>1. since' = 0 /\ pending' = 0 /\ pending = since
    BY <1>0, <1>4 DEF store, since, Minus, pending, Halfway
  <2>2. /\ g_leftTo100' = g_leftTo100 /\ g_leftTo100 \in 0 .. PD
        /\ Counter(g_leftTo100) = g_leftTo100
        /\ TIMER' = IF TIMER > since THEN TIMER - since ELSE 0
        /\ age' = Capped(age + since)
    BY <1>0, <1>4 DEF store, Counter
  <2>3. age' \in Nat /\ age' <= age + since /\ (age + since < WORD => age' = age + since)
        /\ (age + since >= WORD => age' = WORD)
    BY <1>0, <2>2, CappedIs
  <2>4. g_leftTo100 + 2 * age' >= PD
    <3>1. CASE age + since >= WORD
      BY <1>0, <2>2, <2>3, <3>1
    <3>2. CASE age + since < WORD
      BY <1>0, <2>1, <2>2, <2>3, <3>2 DEF ClockInv
    <3> QED BY <1>0, <3>1, <3>2
  <2>5. TIMER' \in Nat /\ (TIMER' = 0 \/ TIMER' + age' <= PD) /\ TIMER' <= g_leftTo100
        /\ (g_leftTo100 = 0 \/ g_leftTo100 + age' <= PD)
    BY <1>0, <2>1, <2>2, <2>3 DEF ClockInv
  <2>6. 0 \in 0 .. HANDLER
    BY <1>0
  <2> QED BY <1>0, <2>1, <2>2, <2>3, <2>4, <2>5, <2>6 DEF ClockInv
<1>5. CASE wait
  <2>1. since' = since /\ pending' = 0 /\ pending = 0 /\ since = 0
    BY <1>5 DEF wait, since, pending, Halfway, ClockInv
  <2>2. /\ UNCHANGED <<g_leftTo100, age>> /\ TIMER' = g_leftTo100 /\ g_leftTo100 \in 0 .. PD
        /\ Counter(g_leftTo100) = g_leftTo100
    BY <1>0, <1>5 DEF wait, Counter
  <2> QED BY <1>0, <2>1, <2>2 DEF ClockInv
<1> QED BY <1>1, <1>2, <1>3, <1>4, <1>5

LEMMA ClockStep ==
  ASSUME TypeOK, ClockInv, [Next]_vars
  PROVE  ClockInv'
<1>0. /\ PD \in Nat \ {0} /\ PD = SCHED_PSEUDO_CLOCK /\ HANDLER \in Nat
      /\ WORD \in Nat /\ WORD > PD + HANDLER
  BY TimeAssumption DEF PD
<1>1. ASSUME NEW kind \in Calls \cup Interrupts, NEW e \in 1 .. EMAX, raise(kind, e)
      PROVE  ClockInv'
  <2>1. e \in Nat /\ e > since
    BY <1>1, RaiseElapsed, RaiseLate
  <2>2. e >= pending
    BY <2>1, <1>0 DEF pending, ClockInv
  <2>3. phase' \notin {"subtracted", "clamped"}
    BY <1>1 DEF raise, Calls, Interrupts
  <2> QED BY <1>1, <2>1, <2>2, <2>3, RaiseClock, HookLeaves
<1>2. ASSUME NEW e \in 0 .. HANDLER, NEW flag, exit(e, flag),
             phase \notin Idle, phase' \notin Idle
      PROVE  ClockInv'
  <2>1. pending = 0 /\ phase # "subtracted" /\ phase' \notin {"subtracted", "clamped"}
    BY <1>2 DEF pending, Halfway, Idle
  <2>2. e \in Nat /\ e >= pending
    BY <1>0, <2>1
  <2> QED BY <1>2, <2>1, <2>2, ExitClock, HookLeaves
<1>3. ASSUME NEW e \in 0 .. HANDLER, clockTest(e) PROVE ClockInv'
  <2>1. since' = e /\ pending' = 0 /\ pending = 0
    BY <1>3, HandlerElapsed, PlusRange DEF clockTest, since, pending, Halfway, TypeOK
  <2>2. /\ TIMER' = TIMER /\ phase' = "slice" /\ phase = "timer" /\ g_leftTo100 \in 0 .. PD
        /\ TIMER \in 0 .. PD
        /\ \/ g_leftTo100' = PD /\ age' = 0
           \/ g_leftTo100' = g_leftTo100 /\ age' = age
    BY <1>0, <1>3 DEF clockTest, TypeOK
  <2>3. CASE g_leftTo100' = PD /\ age' = 0
    BY <1>0, <2>1, <2>2, <2>3 DEF ClockInv, Counter
  <2>4. CASE g_leftTo100' = g_leftTo100 /\ age' = age
    BY <1>0, <2>1, <2>2, <2>4 DEF ClockInv, Counter
  <2> QED BY <2>2, <2>3, <2>4
<1>4. ASSUME NEW e \in 0 .. HANDLER, NEW p \in Proc, NEW fresh \in BOOLEAN,
             dispatch(p, fresh, e)
      PROVE  ClockInv'
  <2>1. pending = 0 /\ phase' \notin {"subtracted", "clamped"}
    BY <1>4 DEF dispatch, pending, Halfway
  <2>2. e \in Nat /\ e >= pending
    BY <1>0, <2>1
  <2> QED BY <1>4, <2>1, <2>2, DispatchClock, HookLeaves
<1>5. ASSUME UNCHANGED <<now, g_lastUpdate, g_leftTo100, TIMER, procTimes, age>>,
             phase' = phase \/ (phase \notin Idle /\ phase' \in {"exit0", "exit1"})
      PROVE  ClockInv'
  <2>1. since' = since /\ pending' = pending
    BY <1>5 DEF since, pending, Halfway, Idle
  <2> QED BY <1>5, <2>1 DEF ClockInv
<1> QED BY <1>1, <1>2, <1>3, <1>4, <1>5, IdleClock, StepKinds

LEMMA ClockInit == Init => ClockInv
BY TimeAssumption DEF Init, ClockInv, since, Minus, pending, Halfway, Counter, PD

\* g_leftTo100 is never more than what is left of the period, and less only by
\* stretches that an interrupt of the scheduler's hook subtracted once more,
\* each of them no longer than the time that has passed.
THEOREM LeftIsBracketed == Spec => []LeftBracketed
<1>1. TypeOK /\ ClockInv => LeftBracketed
  <2> SUFFICES ASSUME TypeOK, ClockInv, phase \notin {"subtracted", "clamped"}
               PROVE  /\ g_leftTo100 <= IF age <= PD THEN PD - age ELSE 0
                      /\ g_leftTo100 + 2 * age >= PD
    BY DEF LeftBracketed, PD
  <2>1. pending = 0 /\ Counter(g_leftTo100) = g_leftTo100 /\ g_leftTo100 \in 0 .. PD /\ age \in Nat
        /\ PD \in Nat
    BY TimeAssumption DEF pending, Halfway, Counter, TypeOK, PD
  <2> QED BY <2>1 DEF ClockInv
<1> QED BY <1>1, TypeInit, TypeStep, ClockInit, ClockStep, PTL DEF Spec

-----------------------------------------------------------------------------
(* Ticks: how late each phase can be.  A period that is over leaves TIMER 0, *)
(* and with the timer at 0 only its own interrupt is taken.                  *)

AgeInv ==
  /\ phase \in {"sys", "break", "device"} => age <= PD + LATENCY
  /\ phase \in {"trap", "exit0", "exit1"} => age <= PD + LATENCY + HANDLER
  /\ phase = "slice" => age < PD
  /\ phase \in {"main", "sched", "enabled", "subtracted", "clamped"} =>
       age <= PD + LATENCY + 2 * HANDLER
  /\ phase \in {"user", "stored", "wait"} => age <= PD + LATENCY + 3 * HANDLER
  /\ phase = "timer" => age <= PD + 2 * LATENCY + 3 * HANDLER

LEMMA AgeStep ==
  ASSUME TypeOK, ClockInv, AgeInv, [Next]_vars
  PROVE  AgeInv'
<1>0. /\ PD \in Nat \ {0} /\ LATENCY \in Nat \ {0} /\ HANDLER \in Nat /\ age \in Nat
      /\ TIMER \in Nat /\ (TIMER = 0 \/ TIMER + age <= PD)
      /\ since \in 0 .. HANDLER
      /\ WORD \in Nat /\ WORD > PD + HANDLER
  BY TimeAssumption DEF TypeOK, ClockInv, PD
<1>1. ASSUME NEW kind \in Calls \cup Interrupts, NEW e \in 1 .. EMAX,
             raise(kind, e)
      PROVE  AgeInv'
  <2>1. /\ age' <= age + e /\ age' \in Nat
        /\ e <= (IF TIMER > since THEN TIMER ELSE since) + LATENCY
        /\ kind # "timer" => TIMER > since
        /\ phase' = kind /\ phase \in {"user"} \cup Idle
    BY <1>1, RaiseClock, RaiseLate DEF raise
  <2>2. CASE TIMER > since
    <3>1. age' <= PD + LATENCY
      BY <1>0, <2>1, <2>2
    <3> QED BY <1>0, <2>1, <3>1 DEF AgeInv, Calls, Interrupts
  <2>3. CASE ~(TIMER > since)
    <3>1. kind = "timer" /\ age' <= age + since + LATENCY
      BY <1>0, <2>1, <2>3
    <3>2. age + since <= PD + LATENCY + 3 * HANDLER
      <4>1. CASE phase \in {"user", "stored", "wait"}
        BY <1>0, <4>1 DEF AgeInv, ClockInv
      <4>2. CASE phase \in {"enabled", "subtracted", "clamped"}
        BY <1>0, <4>2 DEF AgeInv
      <4> QED BY <2>1, <4>1, <4>2 DEF Idle
    <3>3. age' <= PD + 2 * LATENCY + 3 * HANDLER
      BY <1>0, <2>1, <3>1, <3>2
    <3> QED BY <2>1, <3>1, <3>3 DEF AgeInv
  <2> QED BY <2>2, <2>3
<1>2. ASSUME NEW e \in 0 .. HANDLER, sysReturns(e) \/ semopBlocks(e) \/ reservedInstr(e)
      PROVE  AgeInv'
  <2>1. phase = "sys" /\ phase' \in {"user", "exit1", "trap"}
    BY <1>2 DEF sysReturns, semopBlocks, reservedInstr
  <2>2. age' <= age + e /\ age' \in Nat
    BY <1>2, <2>1, ExitClock DEF sysReturns, semopBlocks, reservedInstr
  <2>3. age' <= PD + LATENCY + HANDLER
    BY <1>0, <2>1, <2>2 DEF AgeInv
  <2> QED BY <1>0, <2>1, <2>2, <2>3 DEF AgeInv
<1>3. ASSUME NEW dies \in BOOLEAN, bodyEnds(dies) PROVE AgeInv'
  <2>1. age' = age /\ phase \in Calls /\ phase' \in {"exit0", "exit1"}
    BY <1>3 DEF bodyEnds
  <2>2. age' <= PD + LATENCY + HANDLER
    BY <1>0, <2>1 DEF AgeInv, Calls
  <2> QED BY <1>0, <2>1, <2>2 DEF AgeInv
<1>4. ASSUME NEW e \in 0 .. HANDLER, handlerEnds(e) PROVE AgeInv'
  <2>1. phase \in {"exit0", "exit1", "device"} /\ phase' \in {"sched", "user"}
    BY <1>4 DEF handlerEnds
  <2>2. age' <= age + e /\ age' \in Nat
    BY <1>4, <2>1, ExitClock DEF handlerEnds
  <2>3. age' <= PD + LATENCY + 2 * HANDLER
    BY <1>0, <2>1, <2>2 DEF AgeInv
  <2> QED BY <1>0, <2>1, <2>2, <2>3 DEF AgeInv
<1>5. ASSUME NEW e \in 0 .. HANDLER, clockTest(e) PROVE AgeInv'
  <2>1. phase' = "slice" /\ phase = "timer" /\ g_leftTo100 \in 0 .. PD
    BY <1>0, <1>5 DEF clockTest, TypeOK, PD
  <2>2. CASE clockOut(g_leftTo100, e)
    BY <1>0, <1>5, <2>1, <2>2 DEF clockTest, AgeInv
  <2>3. CASE ~clockOut(g_leftTo100, e)
    <3>1. age' = age
      BY <1>5, <2>3 DEF clockTest
    <3>2. g_leftTo100 > 0
      BY <1>0, <2>1, <2>3 DEF clockOut, Minus, PD
    <3>3. age' < PD
      BY <1>0, <2>1, <3>1, <3>2 DEF ClockInv, Counter, pending, Halfway
    <3> QED BY <2>1, <3>3 DEF AgeInv
  <2> QED BY <2>2, <2>3
<1>6. ASSUME NEW e \in 0 .. HANDLER, sliceTest(e) PROVE AgeInv'
  <2>1. phase = "slice" /\ phase' = "exit0"
    BY <1>6 DEF sliceTest
  <2>2. age' \in Nat /\ age' <= age + e
    <3>1. CASE exit(e, 1)
      BY <2>1, <3>1, ExitClock
    <3>2. CASE age' = age
      BY <1>0, <3>2
    <3> QED BY <1>6, <3>1, <3>2 DEF sliceTest
  <2>3. age' <= PD + LATENCY + HANDLER
    BY <1>0, <2>1, <2>2 DEF AgeInv
  <2> QED BY <2>1, <2>3 DEF AgeInv
<1>7. ASSUME NEW e \in 0 .. HANDLER, NEW p \in Proc, NEW fresh \in BOOLEAN,
             dispatch(p, fresh, e)
      PROVE  AgeInv'
  <2>1. phase \in {"main", "sched"} /\ phase' = "user"
    BY <1>7 DEF dispatch
  <2>2. age' \in Nat /\ age' <= age + e
    BY <1>7, DispatchClock
  <2>3. age' <= PD + LATENCY + 3 * HANDLER
    BY <1>0, <2>1, <2>2 DEF AgeInv
  <2> QED BY <2>1, <2>3 DEF AgeInv
<1>8. CASE UNCHANGED vars
  BY <1>8 DEF vars, AgeInv
<1>9. ASSUME NEW e \in 0 .. HANDLER, enable(e) \/ subtract(e) PROVE AgeInv'
  <2>1. age' = age /\ phase \in {"sched", "enabled"} /\ phase' \in {"enabled", "subtracted"}
    BY <1>9 DEF enable, subtract
  <2> QED BY <2>1 DEF AgeInv
<1>10. CASE clamp \/ wait
  BY <1>10 DEF clamp, wait, AgeInv
<1>11. CASE store
  <2>1. age' <= age + since /\ phase = "clamped" /\ phase' = "stored" /\ age' \in Nat
    BY <1>0, <1>11, CappedIs DEF store
  <2>2. age' <= PD + LATENCY + 3 * HANDLER
    BY <1>0, <2>1 DEF AgeInv
  <2> QED BY <2>1, <2>2 DEF AgeInv
<1> QED BY <1>1, <1>2, <1>3, <1>4, <1>5, <1>6, <1>7, <1>8, <1>9, <1>10, <1>11
        DEF Next, Trap, Syscall, Leave, Timer, Schedule, PD, EMAX

\* A tick is late by at most two latencies and the three readings of one
\* handler and the scheduler.
THEOREM TicksOnTime == Spec => []TickOnTime
<1>1. Init => AgeInv
  BY TimeAssumption DEF Init, AgeInv, PD
<1>2. TypeOK /\ AgeInv => TickOnTime
  BY TimeAssumption DEF AgeInv, TickOnTime, TypeOK, PD, Phases, Calls, Interrupts, Idle
<1> QED BY <1>1, <1>2, TypeInit, TypeStep, ClockInit, ClockStep, AgeStep, PTL DEF Spec

-----------------------------------------------------------------------------
(* Slices.  Once past its slice, a process runs on what is left of the       *)
(* period: the sum of the two does not grow, except by a latency when the    *)
(* period ends, after which the timer is at 0 and preempts the process.      *)

\* sl: what p_time_slice says; left: g_leftTo100.
OverOf(sl) == IF sl > SCHED_TIME_SLICE THEN WORD - sl ELSE 0
Within(sl, left) == \/ OverOf(sl) = 0 \/ OverOf(sl) + left <= PD
                    \/ left = 0 /\ OverOf(sl) <= PD + LATENCY
TimerOf(sl, left) == IF sl <= left THEN sl ELSE left

OverInv ==
  g_current_process # NULL =>
    LET sl == p_time_slice[g_current_process] IN
    /\ phase \in {"timer", "slice"} => OverOf(sl) <= PD + 2 * LATENCY
    /\ phase \notin {"timer", "slice"} => Within(sl, g_leftTo100)
    /\ phase = "user" => TIMER = TimerOf(sl, g_leftTo100)

\* A process runs for e more units before its exception is handled.
LEMMA RunsOn ==
  ASSUME NEW sl \in 0 .. WORD - 1, NEW left \in 0 .. PD,
         NEW e \in 1 .. EMAX,
         Within(sl, left), e <= TimerOf(sl, left) + LATENCY
  PROVE  /\ OverOf(Minus(sl, e)) <= PD + 2 * LATENCY
         /\ TimerOf(sl, left) > 0 =>
              Within(Minus(sl, e), IF e <= left THEN left - e ELSE 0)
<1>0. /\ PD \in Nat \ {0} /\ LATENCY \in Nat \ {0} /\ WORD \in Nat
      /\ SCHED_TIME_SLICE \in Nat /\ WORD > SCHED_TIME_SLICE + PD + 2 * LATENCY
  BY TimeAssumption DEF PD
<1>1. CASE sl <= SCHED_TIME_SLICE /\ e <= sl
  <2>1. Minus(sl, e) = sl - e /\ Minus(sl, e) <= SCHED_TIME_SLICE
    BY <1>0, <1>1 DEF Minus
  <2> QED BY <1>0, <1>1, <2>1 DEF OverOf, Within
<1>2. CASE sl <= SCHED_TIME_SLICE /\ e > sl
  <2>1. e - sl <= LATENCY
    BY <1>0, <1>2 DEF TimerOf
  <2>2. Minus(sl, e) = WORD - (e - sl)
    BY <1>0, <1>2 DEF Minus
  <2>3. OverOf(Minus(sl, e)) = e - sl
    BY <1>0, <1>2, <2>1, <2>2 DEF OverOf
  <2> QED BY <1>0, <1>2, <2>1, <2>3 DEF Within
<1>3. CASE sl > SCHED_TIME_SLICE
  <2>1. OverOf(sl) = WORD - sl /\ OverOf(sl) > 0
    BY <1>0, <1>3 DEF OverOf
  <2>2. sl > left
    BY <1>0, <2>1 DEF Within
  <2>3. TimerOf(sl, left) = left /\ e <= left + LATENCY
    BY <2>2 DEF TimerOf
  <2>4. OverOf(sl) + e <= PD + 2 * LATENCY
    BY <1>0, <2>1, <2>3 DEF Within
  <2>5. Minus(sl, e) = sl - e /\ Minus(sl, e) > SCHED_TIME_SLICE
    BY <1>0, <2>1, <2>4 DEF Minus
  <2>6. OverOf(Minus(sl, e)) = OverOf(sl) + e
    BY <1>0, <1>3, <2>1, <2>5 DEF OverOf
  <2> QED BY <1>0, <2>1, <2>3, <2>4, <2>6 DEF Within
<1> QED BY <1>0, <1>1, <1>2, <1>3

\* In a handler the period goes on and the slice does not.
LEMMA HandlerRuns ==
  ASSUME NEW sl \in 0 .. WORD - 1, NEW left \in 0 .. PD, NEW e \in Nat, Within(sl, left)
  PROVE  Within(sl, IF e <= left THEN left - e ELSE 0)
<1>1. OverOf(sl) \in Nat
  BY TimeAssumption DEF OverOf
<1> QED BY <1>1, TimeAssumption DEF Within, PD

LEMMA OverStep ==
  ASSUME TypeOK, ClockInv, OverInv, [Next]_vars
  PROVE  OverInv'
<1>0. /\ g_current_process # NULL => g_leftTo100 \in 0 .. PD
      /\ g_current_process \in Proc \cup {NULL} /\ NULL \notin Proc
      /\ g_current_process # NULL => p_time_slice[g_current_process] \in 0 .. WORD - 1
  BY TimeAssumption DEF TypeOK, PD, Idle
<1>1. ASSUME NEW kind \in Calls \cup Interrupts, NEW e \in 1 .. EMAX,
             raise(kind, e), g_current_process # NULL
      PROVE  OverInv'
  <2> DEFINE sl == p_time_slice[g_current_process]
  <2>1. phase = "user"
    BY <1>1 DEF raise, TypeOK
  <2>2. Within(sl, g_leftTo100) /\ TIMER = TimerOf(sl, g_leftTo100)
    BY <1>1, <2>1 DEF OverInv
  <2>6. since = 0
    BY <2>1 DEF ClockInv
  <2>7. /\ e <= TIMER + LATENCY /\ (kind # "timer" => TIMER > 0)
        /\ g_leftTo100' = IF e <= g_leftTo100 THEN g_leftTo100 - e ELSE 0
    <3>1. Counter(g_leftTo100) = g_leftTo100 /\ TIMER \in Nat /\ LATENCY \in Nat
      BY <1>0, <1>1, TimeAssumption DEF Counter, PD, TypeOK
    <3> QED BY <1>1, <2>6, <3>1, RaiseLate, RaiseClock
  <2>3. /\ OverOf(Minus(sl, e)) <= PD + 2 * LATENCY
        /\ TIMER > 0 => Within(Minus(sl, e), g_leftTo100')
    BY <1>0, <1>1, <2>2, <2>7, RunsOn
  <2>4. p_time_slice'[g_current_process] = Minus(sl, e)
    <3>1. Minus(Plus(g_lastUpdate, e), g_lastUpdate) = e
      BY <1>1, RaiseElapsed, PlusRange DEF TypeOK
    <3> QED BY <1>0, <1>1, <3>1 DEF raise, onHandlerEnter, TypeOK
  <2>5. g_current_process' = g_current_process /\ phase' = kind
    BY <1>1 DEF raise
  <2> QED BY <2>3, <2>4, <2>5, <2>7 DEF OverInv, Calls, Interrupts
<1>2. ASSUME NEW e \in 0 .. HANDLER, NEW flag, exit(e, flag), phase \notin {"timer", "slice"},
             phase' \notin {"timer", "slice"}, phase \notin Idle,
             g_current_process' \in {g_current_process, NULL}
      PROVE  OverInv'
  <2>1. CASE g_current_process' # NULL
    <3> DEFINE sl == p_time_slice[g_current_process]
    <3>1. Within(sl, g_leftTo100)
      BY <1>2, <2>1 DEF OverInv
    <3>2. /\ Within(sl, g_leftTo100') /\ p_time_slice' = p_time_slice
          /\ TIMER' = TimerOf(sl, g_leftTo100')
      <4>1. /\ g_current_process # NULL /\ p_time_slice' = p_time_slice /\ e \in Nat
            /\ g_leftTo100' = IF e <= g_leftTo100 THEN g_leftTo100 - e ELSE 0
            /\ TIMER' = IF sl <= g_leftTo100' THEN sl ELSE g_leftTo100'
        BY <1>2, <2>1, ExitClock DEF Idle
      <4>2. Within(sl, IF e <= g_leftTo100 THEN g_leftTo100 - e ELSE 0)
        BY <1>0, <3>1, <4>1, HandlerRuns
      <4> QED BY <4>1, <4>2 DEF TimerOf
    <3> QED BY <1>2, <2>1, <3>2 DEF OverInv
  <2>2. CASE g_current_process' = NULL
    BY <2>2 DEF OverInv
  <2> QED BY <2>1, <2>2
<1>3. ASSUME NEW e \in 0 .. HANDLER,
             sysReturns(e) \/ semopBlocks(e) \/ reservedInstr(e) \/ handlerEnds(e)
      PROVE  OverInv'
  BY <1>2, <1>3 DEF sysReturns, semopBlocks, reservedInstr, handlerEnds, Idle
<1>4. ASSUME NEW dies \in BOOLEAN, bodyEnds(dies) PROVE OverInv'
  BY <1>4 DEF bodyEnds, procTimes, Calls, OverInv
<1>5. ASSUME NEW e \in 0 .. HANDLER, clockTest(e) PROVE OverInv'
  BY <1>5 DEF clockTest, procTimes, OverInv
<1>6. ASSUME NEW e \in 0 .. HANDLER, sliceTest(e) PROVE OverInv'
  <2>1. CASE g_current_process' = NULL
    BY <2>1 DEF OverInv
  <2>2. CASE g_current_process' # NULL
    <3>1. /\ ~sliceOut(p_time_slice[g_current_process]) /\ phase' = "exit0"
          /\ UNCHANGED <<g_current_process, g_leftTo100, procTimes>>
      BY <1>6, <2>2 DEF sliceTest
    <3>2. OverOf(p_time_slice[g_current_process]) = 0
      BY <1>0, <2>2, <3>1, TimeAssumption DEF sliceOut, OverOf
    <3> QED BY <3>1, <3>2 DEF OverInv, Within, procTimes
  <2> QED BY <2>1, <2>2
<1>7. ASSUME NEW e \in 0 .. HANDLER, NEW p \in Proc, NEW fresh \in BOOLEAN,
             dispatch(p, fresh, e)
      PROVE  OverInv'
  <2>1. OverOf(SCHED_TIME_SLICE) = 0
    BY TimeAssumption DEF OverOf
  <2>2. /\ g_current_process' = p /\ phase' = "user" /\ p_time_slice'[p] = SCHED_TIME_SLICE
        /\ TIMER' = TimerOf(SCHED_TIME_SLICE, g_leftTo100')
    <3>1. /\ p_time_slice'[p] = SCHED_TIME_SLICE
          /\ TIMER' = IF p_time_slice'[p] <= g_leftTo100'
                      THEN p_time_slice'[p] ELSE g_leftTo100'
      BY <1>7, DispatchClock
    <3>2. TIMER' = TimerOf(SCHED_TIME_SLICE, g_leftTo100')
      BY <3>1 DEF TimerOf
    <3> QED BY <1>7, <3>1, <3>2 DEF dispatch
  <2> QED BY <2>1, <2>2 DEF OverInv, Within
<1>8. CASE UNCHANGED vars
  BY <1>8 DEF vars, procTimes, OverInv
<1>9. ASSUME NEW kind \in Calls \cup Interrupts, NEW e \in 1 .. EMAX,
             raise(kind, e), g_current_process = NULL
      PROVE  OverInv'
  BY <1>9 DEF raise, OverInv
<1>10. ASSUME \/ \E e \in 0 .. HANDLER : enable(e) \/ subtract(e)
              \/ clamp \/ store \/ wait
       PROVE  OverInv'
  <2>1. g_current_process' = g_current_process /\ phase \in {"sched"} \cup Idle
    BY <1>10 DEF enable, subtract, clamp, store, wait, Idle
  <2>2. g_current_process' = NULL
    BY <2>1 DEF TypeOK
  <2> QED BY <2>2 DEF OverInv
<1> QED BY <1>1, <1>3, <1>4, <1>5, <1>6, <1>7, <1>8, <1>9, <1>10
        DEF Next, Trap, Syscall, Leave, Timer, Schedule, PD, EMAX

\* A process that wins the race with the timer runs past its slice for at most
\* one period and two latencies.
THEOREM OverrunIsBounded == Spec => []OverrunBounded
<1>1. Init => OverInv
  BY DEF Init, OverInv
<1>2. TypeOK /\ OverInv => OverrunBounded
  <2> SUFFICES ASSUME TypeOK, OverInv, g_current_process # NULL
               PROVE  Over(g_current_process) <= SCHED_PSEUDO_CLOCK + 2 * LATENCY
    BY DEF OverrunBounded
  <2>1. /\ p_time_slice[g_current_process] \in 0 .. WORD - 1
        /\ g_leftTo100 \in 0 .. PD
    BY TimeAssumption DEF TypeOK, PD, Idle
  <2>2. OverOf(p_time_slice[g_current_process]) <= PD + 2 * LATENCY
    BY <2>1, TimeAssumption DEF OverInv, Within, OverOf, PD
  <2> QED BY <2>2 DEF Over, OverOf, PD
<1> QED BY <1>1, <1>2, TypeInit, TypeStep, ClockInit, ClockStep, OverStep, PTL DEF Spec

-----------------------------------------------------------------------------
(* The times of SYS8 *)

Bracket(u, s, g, h) == h < WORD => u = s /\ s <= g /\ g <= h

\* Charging e units to all of them, or h to the last two or the last.
LEMMA BracketStep ==
  ASSUME NEW u \in 0 .. WORD - 1, NEW s \in Nat, NEW g \in 0 .. WORD - 1, NEW h \in Nat,
         NEW e \in 0 .. WORD - 1, Bracket(u, s, g, h)
  PROVE  /\ Bracket(Plus(u, e), Capped(s + e), Plus(g, e), Capped(h + e))
         /\ Bracket(u, s, Plus(g, e), Capped(h + e))
         /\ Bracket(u, s, g, Capped(h + e))
<1>1. CASE h + e < WORD
  <2>1. Capped(h + e) = h + e /\ u = s /\ s <= g /\ g <= h
    BY <1>1, TimeAssumption DEF Capped, Bracket
  <2>2. Capped(s + e) = s + e /\ Plus(u, e) = u + e /\ Plus(g, e) = g + e
    BY <1>1, <2>1, TimeAssumption DEF Capped, Plus
  <2> QED BY <2>1, <2>2 DEF Bracket
<1>2. CASE ~(h + e < WORD)
  BY <1>2, TimeAssumption DEF Capped, Bracket
<1> QED BY <1>1, <1>2

LEMMA BracketInit == Bracket(0, 0, 0, 0)
BY DEF Bracket

BracketOf(p) == Bracket(p_user_time[p], spent[p], p_global_time[p], held[p])

LEMMA TimesStep ==
  ASSUME TypeOK, NEW q \in Proc, BracketOf(q), [Next]_vars
  PROVE  BracketOf(q)'
<1>0. /\ p_user_time[q] \in 0 .. WORD - 1 /\ p_global_time[q] \in 0 .. WORD - 1
      /\ spent[q] \in Nat /\ held[q] \in Nat
      /\ g_current_process \in Proc \cup {NULL} /\ NULL \notin Proc
      /\ p_user_time \in [Proc -> 0 .. WORD - 1] /\ p_global_time \in [Proc -> 0 .. WORD - 1]
      /\ spent \in [Proc -> Nat] /\ held \in [Proc -> Nat]
      /\ Bracket(p_user_time[q], spent[q], p_global_time[q], held[q])
  BY TimeAssumption DEF TypeOK, BracketOf
<1>1. ASSUME NEW kind \in Calls \cup Interrupts, NEW e \in 1 .. EMAX,
             raise(kind, e)
      PROVE  BracketOf(q)'
  <2>1. e \in 0 .. WORD - 1 /\ Minus(Plus(g_lastUpdate, e), g_lastUpdate) = e
    BY <1>1, RaiseElapsed, PlusRange DEF TypeOK
  <2>2. /\ p_user_time' = advanced(p_user_time, g_current_process, e)
        /\ p_global_time' = advanced(p_global_time, g_current_process, e)
        /\ passes(e, TRUE)
    BY <1>1, <2>1 DEF raise, onHandlerEnter
  <2>0. /\ advanced(p_user_time, g_current_process, e)[q]
             = IF q = g_current_process THEN Plus(p_user_time[q], e) ELSE p_user_time[q]
        /\ advanced(p_global_time, g_current_process, e)[q]
             = IF q = g_current_process THEN Plus(p_global_time[q], e) ELSE p_global_time[q]
    <3>1. advanced(p_user_time, g_current_process, e)[q]
             = IF q = g_current_process THEN Plus(p_user_time[q], e) ELSE p_user_time[q]
      BY <1>0, <2>1, AdvancedIs
    <3>2. advanced(p_global_time, g_current_process, e)[q]
             = IF q = g_current_process THEN Plus(p_global_time[q], e) ELSE p_global_time[q]
      BY <1>0, <2>1, AdvancedIs
    <3> QED BY <3>1, <3>2
  <2>3. CASE q = g_current_process
    <3>1. /\ p_user_time'[q] = Plus(p_user_time[q], e)
          /\ p_global_time'[q] = Plus(p_global_time[q], e)
      BY <1>0, <2>0, <2>2, <2>3
    <3>2. spent'[q] = Capped(spent[q] + e) /\ held'[q] = Capped(held[q] + e)
      BY <1>0, <2>2, <2>3 DEF passes
    <3> QED BY <1>0, <2>1, <3>1, <3>2, BracketStep DEF BracketOf
  <2>4. CASE q # g_current_process
    <3>1. p_user_time'[q] = p_user_time[q] /\ p_global_time'[q] = p_global_time[q]
      BY <1>0, <2>0, <2>2, <2>4
    <3>2. spent'[q] = spent[q] /\ held'[q] = held[q]
      BY <1>0, <2>2, <2>4 DEF passes
    <3> QED BY <1>0, <3>1, <3>2 DEF BracketOf
  <2> QED BY <2>3, <2>4
<1>2. ASSUME NEW e \in 0 .. HANDLER, NEW flag \in {0, 1}, exit(e, flag)
      PROVE  BracketOf(q)'
  <2>1. e \in 0 .. WORD - 1 /\ Minus(Plus(g_lastUpdate, e), g_lastUpdate) = e
    BY <1>2, HandlerElapsed, PlusRange DEF TypeOK
  <2>2. /\ p_user_time' = p_user_time
        /\ \/ p_global_time' = p_global_time
           \/ p_global_time' = advanced(p_global_time, g_current_process, e)
        /\ passes(e, FALSE)
    BY <1>2, <2>1 DEF exit, onHandlerExit
  <2>0. advanced(p_global_time, g_current_process, e)[q]
          = IF q = g_current_process THEN Plus(p_global_time[q], e) ELSE p_global_time[q]
    BY <1>0, <2>1, AdvancedIs
  <2>3. spent' = spent
    BY <2>2 DEF passes
  <2>4. CASE q = g_current_process
    <3>1. p_global_time'[q] \in {p_global_time[q], Plus(p_global_time[q], e)}
      BY <1>0, <2>0, <2>2, <2>4
    <3>2. held'[q] = Capped(held[q] + e)
      BY <1>0, <2>2, <2>4 DEF passes
    <3> QED BY <1>0, <2>1, <2>2, <2>3, <3>1, <3>2, BracketStep DEF BracketOf
  <2>5. CASE q # g_current_process
    <3>1. p_global_time'[q] = p_global_time[q]
      BY <1>0, <2>0, <2>2, <2>5
    <3>2. held'[q] = held[q]
      BY <1>0, <2>2, <2>5 DEF passes
    <3> QED BY <1>0, <2>2, <2>3, <3>1, <3>2 DEF BracketOf
  <2> QED BY <2>4, <2>5
<1>3. ASSUME NEW e \in 0 .. HANDLER, NEW p \in Proc, NEW fresh \in BOOLEAN,
             dispatch(p, fresh, e)
      PROVE  BracketOf(q)'
  <2>1. CASE fresh /\ p = q
    BY <1>0, <1>3, <2>1, BracketInit DEF dispatch, BracketOf
  <2>2. CASE ~(fresh /\ p = q)
    BY <1>0, <1>3, <2>2 DEF dispatch, BracketOf
  <2> QED BY <2>1, <2>2
<1>4. ASSUME UNCHANGED procTimes PROVE BracketOf(q)'
  BY <1>0, <1>4 DEF procTimes, BracketOf
<1>5. ASSUME NEW e \in 0 .. HANDLER, clockTest(e) PROVE BracketOf(q)'
  BY <1>4, <1>5 DEF clockTest
<1>6. ASSUME \/ \E e \in 0 .. HANDLER : enable(e) \/ subtract(e)
             \/ clamp \/ store \/ wait
      PROVE  BracketOf(q)'
  BY <1>4, <1>6 DEF enable, subtract, clamp, store, wait
<1> QED BY <1>1, <1>2, <1>3, <1>4, <1>5, <1>6, StepKinds

AllBracketed == \A p \in Proc : BracketOf(p)

\* The times that SYS8 returns bracket each other and the time the process
\* was current, until that exceeds a word.
THEOREM TimesAreBracketed == Spec => []TimesBracketed
<1>1. Init => AllBracketed
  BY BracketInit DEF Init, AllBracketed, BracketOf
<1>2. TypeOK /\ AllBracketed /\ [Next]_vars => AllBracketed'
  <2> SUFFICES ASSUME TypeOK, AllBracketed, [Next]_vars, NEW q \in Proc
               PROVE  BracketOf(q)'
    BY DEF AllBracketed
  <2> QED BY TimesStep DEF AllBracketed
<1>3. AllBracketed => TimesBracketed
  BY DEF AllBracketed, BracketOf, Bracket, TimesBracketed
<1> QED BY <1>1, <1>2, <1>3, TypeInit, TypeStep, PTL DEF Spec
=============================================================================
