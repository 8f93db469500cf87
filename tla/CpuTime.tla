------------------------------ MODULE CpuTime -------------------------------
(***************************************************************************)
(* Time in the nucleus: the hooks onHandlerEnter and onHandlerExit of      *)
(* aux.c, which every handler calls, the tests of handleTimer, and the     *)
(* times of the processes (SYS8).  All times are unsigned and wrap around  *)
(* at WORD, the time of day included.                                      *)
(*                                                                         *)
(* Which processes are ready, and what the handlers do besides, is in      *)
(* Nucleus; here the scheduler dispatches any process or waits.            *)
(***************************************************************************)
EXTENDS Integers

CONSTANTS
  Proc,                \* the pcbs
  WORD,                \* 2^32, the range of cputime_t
  SCHED_TIME_SLICE, SCHED_PSEUDO_CLOCK,
  LATENCY,             \* from an exception to its handler reading the time
  HANDLER,             \* bound on the time between two readings in a handler
  MaxTime              \* bound on the time a process accumulates

NULL == 0

ASSUME TimeAssumption ==
  /\ NULL \notin Proc
  /\ SCHED_TIME_SLICE \in Nat \ {0} /\ SCHED_PSEUDO_CLOCK \in Nat \ {0}
  /\ LATENCY \in Nat \ {0} /\ HANDLER \in Nat /\ MaxTime \in Nat
  /\ WORD \in Nat
  /\ WORD > SCHED_TIME_SLICE + SCHED_PSEUDO_CLOCK + 2 * LATENCY + 2 * HANDLER

VARIABLES
  phase,                 \* what the processor is executing
  g_current_process,
  now,                   \* the time of day, low word, when it was last read
  g_lastUpdate, g_leftTo100,
  TIMER,                 \* how long after g_lastUpdate the interval timer fires
  p_time_slice, p_user_time, p_global_time,
  spent, held,           \* history: time each process ran, was current
  age                    \* history: time from the last tick to g_lastUpdate
                         \* (these three stop at WORD, a bound)

procTimes == <<p_time_slice, p_user_time, p_global_time, spent, held>>
vars == <<phase, g_current_process, now, g_lastUpdate, g_leftTo100, TIMER,
          procTimes, age>>

(***************************************************************************)
(* phase: a process runs ("user"), a handler of that kind has been         *)
(* entered, "slice": handleTimer after its first test, "exit0" and         *)
(* "exit1": what is left is onHandlerExit with that flag and the return,   *)
(* "sched": the scheduler; "main": it is called by main, which has made    *)
(* the first process ready.  When no process is ready, it enables          *)
(* interrupts, calls onHandlerExit and waits: "enabled", then the hook     *)
(* after its assignments to g_leftTo100 ("subtracted", "clamped") and to   *)
(* g_lastUpdate ("stored"), and "wait".                                    *)
(***************************************************************************)
Calls      == {"sys", "break", "trap"}
Interrupts == {"timer", "device"}
Idle       == {"enabled", "subtracted", "clamped", "stored", "wait"}
Phases == {"main", "user", "slice", "exit0", "exit1", "sched"}
          \cup Idle \cup Calls \cup Interrupts

Minus(a, b) == IF a >= b THEN a - b ELSE a - b + WORD
Plus(a, b)  == IF a + b < WORD THEN a + b ELSE a + b - WORD

\* Time from g_lastUpdate to the last reading.
since == Minus(now, g_lastUpdate)

-----------------------------------------------------------------------------
(* aux.c *)

reduced_noClamp(left, elapsed) == Minus(left, elapsed)    \* mutant

\* g_leftTo100 after elapsed more units: 0 when the difference wrapped.
reduced(left, elapsed) ==
  IF Minus(left, elapsed) > SCHED_PSEUDO_CLOCK THEN 0 ELSE Minus(left, elapsed)

nearest_late(left, p, slice) ==
  IF p # NULL /\ left < slice[p] THEN slice[p] ELSE left  \* mutant

\* What the timer is set to, for the current process p.
nearest(left, p, slice) ==
  IF p # NULL /\ ~(left < slice[p]) THEN slice[p] ELSE left

\* Both hooks, called at time t with p current.
update(t, p, slice) ==
  LET elapsed == Minus(t, g_lastUpdate) IN
  /\ now' = t /\ g_lastUpdate' = t
  /\ g_leftTo100' = reduced(g_leftTo100, elapsed)
  /\ TIMER' = nearest(g_leftTo100', p, slice)

advanced(f, p, elapsed) == IF p = NULL THEN f
                           ELSE [f EXCEPT ![p] = Plus(@, elapsed)]

onHandlerEnter_userOnly(t) ==                             \* mutant
  LET p == g_current_process
      elapsed == Minus(t, g_lastUpdate)
  IN  /\ p_user_time' = advanced(p_user_time, p, elapsed)
      /\ p_time_slice' = IF p = NULL THEN p_time_slice
                         ELSE [p_time_slice EXCEPT ![p] = Minus(@, elapsed)]
      /\ update(t, p, p_time_slice')
      /\ UNCHANGED p_global_time

onHandlerEnter(t) ==
  LET p == g_current_process
      elapsed == Minus(t, g_lastUpdate)
  IN  /\ p_global_time' = advanced(p_global_time, p, elapsed)
      /\ p_user_time' = advanced(p_user_time, p, elapsed)
      /\ p_time_slice' = IF p = NULL THEN p_time_slice
                         ELSE [p_time_slice EXCEPT ![p] = Minus(@, elapsed)]
      /\ update(t, p, p_time_slice')

onHandlerExit(t, flag) ==
  LET p == g_current_process IN
  /\ p_global_time' = IF flag = 1
                      THEN advanced(p_global_time, p, Minus(t, g_lastUpdate))
                      ELSE p_global_time
  /\ UNCHANGED <<p_user_time, p_time_slice>>
  /\ update(t, p, p_time_slice)

-----------------------------------------------------------------------------
(* History *)

Capped(t) == IF t < WORD THEN t ELSE WORD                 \* bound

\* elapsed more units pass until a reading of the time of day by a hook.
passes(elapsed, running) ==
  LET p == g_current_process
      add(f) == IF p = NULL THEN f ELSE [f EXCEPT ![p] = Capped(@ + elapsed)]
  IN  /\ spent' = IF running THEN add(spent) ELSE spent
      /\ held' = add(held)
      /\ age' = Capped(age + elapsed)

-----------------------------------------------------------------------------
(* Exceptions.  The interval timer fires within LATENCY of its deadline; an  *)
(* exception that was taken before may be the first to read the time after   *)
(* it, and its hook, which sets the timer, also acknowledges the interrupt.  *)
(* A deadline that passes while interrupts are disabled is served as soon as *)
(* they are enabled.                                                         *)

Earliest(kind) == IF kind = "timer" /\ TIMER > since THEN TIMER ELSE since + 1
Latest == (IF TIMER > since THEN TIMER ELSE since) + LATENCY

\* What the scheduler was doing when it is interrupted is not resumed: no
\* process is current, and the handler calls scheduler again.
raise(kind, elapsed) ==
  /\ phase \in {"user"} \cup Idle
  /\ phase \in Idle => kind \in Interrupts
  /\ kind # "timer" => TIMER > since
  /\ elapsed \in Earliest(kind) .. Latest
  /\ passes(elapsed, TRUE)
  /\ onHandlerEnter(Plus(g_lastUpdate, elapsed))
  /\ phase' = kind
  /\ UNCHANGED g_current_process

\* onHandlerExit, elapsed units after the last reading by a hook.
exit(elapsed, flag) ==
  /\ elapsed \in since .. HANDLER
  /\ passes(elapsed, FALSE)
  /\ onHandlerExit(Plus(g_lastUpdate, elapsed), flag)

-----------------------------------------------------------------------------
(* exceptions.c *)

\* A system call that does not block: SYS8, which reads the times, among them.
sysReturns(elapsed) ==
  /\ phase = "sys"
  /\ exit(elapsed, 1)
  /\ phase' = "user"
  /\ UNCHANGED g_current_process

\* semop blocks the caller, with an exit hook of its own before it does.
semopBlocks(elapsed) ==
  /\ phase = "sys"
  /\ exit(elapsed, 1)
  /\ phase' = "exit1" /\ g_current_process' = NULL

\* A call in user mode goes on as a program trap, which skips its enter hook.
reservedInstr(elapsed) ==
  /\ phase = "sys"
  /\ exit(elapsed, 1)
  /\ phase' = "trap"
  /\ UNCHANGED g_current_process

\* The process is terminated, or its exception passed up.
bodyEnds(dies) ==
  /\ phase \in Calls
  /\ phase = "sys" => dies
  /\ phase' = IF phase = "sys" THEN "exit1" ELSE "exit0"
  /\ g_current_process' = IF dies THEN NULL ELSE g_current_process
  /\ UNCHANGED <<now, g_lastUpdate, g_leftTo100, TIMER, procTimes, age>>

\* What remains of a handler: the exit hook, and LDST or scheduler.
handlerEnds(elapsed) ==
  /\ phase \in {"exit0", "exit1", "device"}
  /\ exit(elapsed, IF phase = "exit1" THEN 1 ELSE 0)
  /\ phase' = IF g_current_process = NULL THEN "sched" ELSE "user"
  /\ UNCHANGED g_current_process

-----------------------------------------------------------------------------
(* interrupt.c *)

clockOut_wrapped(left, elapsed) ==
  Minus(left, elapsed) > SCHED_PSEUDO_CLOCK               \* mutant

clockOut(left, elapsed) ==
  left = elapsed \/ Minus(left, elapsed) > SCHED_PSEUDO_CLOCK

\* The first half of handleTimer, with its own reading of the time.
clockTest(elapsed) ==
  /\ phase = "timer"
  /\ elapsed \in 0 .. HANDLER
  /\ now' = Plus(g_lastUpdate, elapsed)
  /\ IF clockOut(g_leftTo100, elapsed)
     THEN g_leftTo100' = SCHED_PSEUDO_CLOCK /\ age' = 0
     ELSE UNCHANGED <<g_leftTo100, age>>
  /\ phase' = "slice"
  /\ UNCHANGED <<g_current_process, g_lastUpdate, TIMER, procTimes>>

sliceOut_zero(slice) == slice = 0                         \* mutant
sliceOut(slice) == slice > SCHED_TIME_SLICE

\* The second half.  What it reads when no process is current is in Nucleus.
sliceTest(elapsed) ==
  /\ phase = "slice"
  /\ phase' = "exit0"
  /\ \/ /\ g_current_process # NULL
        /\ sliceOut(p_time_slice[g_current_process])
        /\ exit(elapsed, 1)
        /\ g_current_process' = NULL
     \/ /\ g_current_process # NULL =>
             ~sliceOut(p_time_slice[g_current_process])
        /\ UNCHANGED <<now, g_current_process, g_lastUpdate, g_leftTo100,
                       TIMER, procTimes, age>>

-----------------------------------------------------------------------------
(* scheduler.c *)

fullSlice(p) == [p_time_slice EXCEPT ![p] = SCHED_TIME_SLICE]

\* p is dispatched; "fresh": its pcb has been allocated anew since it last
\* ran, so that its times start at 0 (always once they have reached MaxTime).
dispatch(p, fresh, elapsed) ==
  LET zeroed(f) == IF fresh THEN [f EXCEPT ![p] = 0] ELSE f IN
  /\ phase \in {"main", "sched"}
  /\ held[p] >= MaxTime => fresh                           \* bound
  /\ elapsed \in 0 .. HANDLER
  /\ g_current_process' = p
  /\ p_time_slice' = fullSlice(p)
  /\ p_user_time' = zeroed(p_user_time)
  /\ p_global_time' = zeroed(p_global_time)
  /\ spent' = zeroed(spent) /\ held' = zeroed(held)
  /\ age' = Capped(age + elapsed)
  /\ update(Plus(g_lastUpdate, elapsed), p, p_time_slice')
  /\ phase' = "user"

\* No process is ready: interrupts are enabled ...
enable(elapsed) ==
  /\ phase = "sched"
  /\ elapsed \in since .. HANDLER
  /\ now' = Plus(g_lastUpdate, elapsed)
  /\ phase' = "enabled"
  /\ UNCHANGED <<g_current_process, g_lastUpdate, g_leftTo100, TIMER, procTimes,
                 age>>

\* ... and only then is the time read and onHandlerExit called, which an
\* interrupt may cut off after each of its assignments.
subtract(elapsed) ==
  /\ phase = "enabled"
  /\ elapsed \in since .. HANDLER
  /\ now' = Plus(g_lastUpdate, elapsed)
  /\ g_leftTo100' = Minus(g_leftTo100, elapsed)
  /\ phase' = "subtracted"
  /\ UNCHANGED <<g_current_process, g_lastUpdate, TIMER, procTimes, age>>

clamp ==
  /\ phase = "subtracted"
  /\ g_leftTo100' = IF g_leftTo100 > SCHED_PSEUDO_CLOCK THEN 0 ELSE g_leftTo100
  /\ phase' = "clamped"
  /\ UNCHANGED <<g_current_process, now, g_lastUpdate, TIMER, procTimes, age>>

store ==
  /\ phase = "clamped"
  /\ g_lastUpdate' = now
  /\ TIMER' = IF TIMER > since THEN TIMER - since ELSE 0
  /\ age' = Capped(age + since)
  /\ phase' = "stored"
  /\ UNCHANGED <<g_current_process, now, g_leftTo100, procTimes>>

\* setTIMER and WAIT.
wait ==
  /\ phase = "stored"
  /\ TIMER' = g_leftTo100
  /\ phase' = "wait"
  /\ UNCHANGED <<g_current_process, now, g_lastUpdate, g_leftTo100, procTimes, age>>

-----------------------------------------------------------------------------
Init ==
  /\ phase = "main" /\ g_current_process = NULL
  /\ now = 0 /\ g_lastUpdate = 0
  /\ g_leftTo100 = SCHED_PSEUDO_CLOCK /\ TIMER = 0
  /\ p_time_slice = [p \in Proc |-> 0]
  /\ p_user_time = [p \in Proc |-> 0] /\ p_global_time = [p \in Proc |-> 0]
  /\ spent = [p \in Proc |-> 0] /\ held = [p \in Proc |-> 0]
  /\ age = 0

Trap    == \E kind \in Calls \cup Interrupts,
              elapsed \in 1 .. SCHED_PSEUDO_CLOCK + HANDLER + LATENCY :
                raise(kind, elapsed)
Syscall == \E elapsed \in 0 .. HANDLER :
             sysReturns(elapsed) \/ semopBlocks(elapsed) \/ reservedInstr(elapsed)
Leave   == \/ \E dies \in BOOLEAN : bodyEnds(dies)
           \/ \E elapsed \in 0 .. HANDLER : handlerEnds(elapsed)
Timer   == \E elapsed \in 0 .. HANDLER : clockTest(elapsed) \/ sliceTest(elapsed)
Schedule == \/ \E elapsed \in 0 .. HANDLER :
                 \/ enable(elapsed) \/ subtract(elapsed)
                 \/ \E p \in Proc, fresh \in BOOLEAN : dispatch(p, fresh, elapsed)
            \/ clamp \/ store \/ wait

Next == Trap \/ Syscall \/ Leave \/ Timer \/ Schedule

Spec == Init /\ [][Next]_vars

\* Time passes and the processor goes on; nothing is assumed of which
\* exceptions come, or of how soon within their bounds.
FairSpec == Spec /\ WF_vars(Next)

-----------------------------------------------------------------------------
TypeOK ==
  /\ phase \in Phases
  /\ g_current_process \in Proc \cup {NULL}
  /\ (phase \in {"user"} \cup Calls) => g_current_process # NULL
  /\ (phase \in {"main", "sched"} \cup Idle) => g_current_process = NULL
  /\ now \in 0 .. WORD - 1 /\ g_lastUpdate \in 0 .. WORD - 1
  /\ g_leftTo100 \in 0 .. WORD - 1
  /\ phase # "subtracted" => g_leftTo100 <= SCHED_PSEUDO_CLOCK
  /\ TIMER \in 0 .. SCHED_PSEUDO_CLOCK
  /\ p_time_slice \in [Proc -> 0 .. WORD - 1]
  /\ p_user_time \in [Proc -> 0 .. WORD - 1]
  /\ p_global_time \in [Proc -> 0 .. WORD - 1]
  /\ spent \in [Proc -> Nat] /\ held \in [Proc -> Nat] /\ age \in Nat

\* g_leftTo100 is never more than what is left of the period, and 0 once it is
\* over, however the readings of the clock fall and wherever the time of day
\* wraps around: no unsigned difference is ever mistaken for time left.  It may
\* be less, because an interrupt of the scheduler's hook subtracts a stretch
\* that the hook has subtracted already, but no stretch is subtracted a third
\* time: no period is cut to less than half.
LeftBracketed ==
  phase \notin {"subtracted", "clamped"} =>
    /\ g_leftTo100 <= IF age <= SCHED_PSEUDO_CLOCK THEN SCHED_PSEUDO_CLOCK - age ELSE 0
    /\ g_leftTo100 + 2 * age >= SCHED_PSEUDO_CLOCK

\* A tick is late by a bounded time only: one handler that wins the race with
\* the timer, whatever it does until a process runs or the processor waits,
\* and twice the latency.
TickOnTime == age <= SCHED_PSEUDO_CLOCK + 2 * LATENCY + 3 * HANDLER

\* SYS8: the time a process ran is its user time, and its global time lies
\* between this and the time it was current, as the test program expects.
TimesBracketed ==
  \A p \in Proc : held[p] < WORD =>
    p_user_time[p] = spent[p] /\ spent[p] <= p_global_time[p] /\ p_global_time[p] <= held[p]

\* How far p has run past its slice: p_time_slice has wrapped around.
Over(p) == IF p_time_slice[p] > SCHED_TIME_SLICE THEN WORD - p_time_slice[p] ELSE 0

\* A system call that wins the race with the timer leaves the process with a
\* slice below zero, a huge unsigned number, and the timer is then set to the
\* next tick: the process runs on, but never past that.
OverrunBounded ==
  g_current_process # NULL =>
    Over(g_current_process) <= SCHED_PSEUDO_CLOCK + 2 * LATENCY

\* The pseudo-clock ticks for ever.
TicksRecur == []<>(phase = "slice" /\ age = 0)

\* No process keeps the processor, whatever system calls it makes.
SliceEnds == \A p \in Proc : g_current_process = p ~> g_current_process # p
=============================================================================
