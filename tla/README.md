# JaeOS nucleus: specification, model checking and proofs

JaeOS is the nucleus of a teaching operating system for the uARM machine:
process control blocks and semaphores (phase 1), and a scheduler, system calls
and interrupt handlers on top of them (phase 2). This directory holds TLA+
modules of the nucleus, the TLC configurations that check them and the theorems
TLAPS proves about them. `PROJECT.json` lists the runs, the theorems, the
source lines each definition stands for, and the hazards the properties are for.

    tlc -config sem.cfg MCNucleus      # any of the runs below
    tlapm NucleusProofs.tla          # or any module named ...Proofs, ListLemmas, TestSync

## 1. Inventory of the system

| part | source | state | operations |
|---|---|---|---|
| circular lists | `incl/clist.h` | a pointer to the tail, next pointers in the elements | enqueue, push, pop, delete, iteration, as macros |
| process control blocks | `src/pcb.c` | `proc_blk`, free list `pcbFree`, the queues and the tree threaded through the pcbs | `allocPcb`, `freePcb`, `insertProcQ`, `removeProcQ`, `outProcQ`, `headProcQ`, `insertChild`, `removeChild`, `outChild`, `childByPid` |
| active semaphore list | `src/asl.c` | `semdTable`, sorted list `aslh`, `semdFree`, a process queue per descriptor | `insertBlocked`, `removeBlocked`, `outBlocked`, `headBlocked` |
| system calls | `src/exceptions.c` | `abs_process_count`; the counters and queues of `init.h` | SYS1 `createProcess`, SYS2 `terminateProcess`, SYS3 `semop`, SYS9 `waitClock`, SYS10 `ioDevop` |
| exception pass-up | `src/exceptions.c` | per pcb: handler and stack of TLB, SYS/BP and program traps, old areas | SYS4-SYS6, SYS7 `exitTrap`, `commonSubHandler` |
| CPU time | `src/exceptions.c`, `lib/aux.c` | `g_leftTo100`, per pcb `p_time_slice`, user and global time | SYS8 `getCpuTime`, the hooks at handler entry and exit |
| interrupts | `src/interrupt.c` | device registers, `g_pseudoClockBlk` | `handleTimer`, `handleDevices` |
| scheduler | `src/scheduler.c` | `g_ready_queue`, `g_current_process`, `g_process_count`, `g_soft_block_count` | dispatch, HALT, WAIT, PANIC |
| initialisation | `src/init.c` | exception vectors, first process | `main` |
| helpers, debugging | `lib/aux.c`, `src/debug.c` | none of the nucleus' | SYS11 `getPid`, `copyState`, `a_memset`, `isDev`, breakpoints |
| test program | `src/p2test.c` | 20 semaphores and an array of them, counters, pids of processes | `test` (p1), which starts `p2` to `p7` and four incarnations of `p8root` with its two children and four leaves; `print`; the handlers `p5prog`, `p5mm`, `p5sys` |

**How they interact.** There is one processor. Every entry to the nucleus is an
exception or an interrupt, taken with interrupts disabled until `LDST` returns
to a process or `scheduler` dispatches one; so handlers do not interleave with
each other, with one exception: with no process ready, `scheduler` enables interrupts
(`scheduler.c:29`) before it calls `onHandlerExit` and waits, so that this call of the hook can be
cut off by a handler, which does not return to it. What interleaves besides is everything between the handlers: which process runs,
which call it makes, when the timer and the devices interrupt it (or the `WAIT`
of the scheduler). The handlers share global data: SYS3 is called by processes,
by SYS9 and SYS10 for their caller, and by the interrupt handlers as the V
operation of a tick or of a completed operation; `g_soft_block_count` is kept
by SYS3 and SYS2 together and read by the scheduler; a pcb moves between five
kinds of place through one link, `p_list`. The test program is the one client: the
first process runs `test`, all others descend from it, and they talk to each other through
semaphores, a terminal and variables in shared memory.

**What is hard.** (a) `terminateProgeny` is a recursion over a subtree whose
members may be running, ready or blocked, and the nucleus knows where a process
is only by `p_cursem`. (b) Weighted semaphores: a V may wake several processes,
in order, and must stop at the first that asks for more than is left. (c) One
counter decides between waiting and PANIC. (d) A device operation survives the
process that started it, and its interrupt finds its semaphore by arithmetic
on line and device numbers. (e) The loop of the pseudo-clock. (f) Pools of
exactly `MAXPROC` pcbs and descriptors. (g) pids made of two counters.
(h) One interval timer serves two deadlines, any handler may acknowledge its
interrupt before `handleTimer` sees it, and the arithmetic that must notice is
unsigned. (i) One old area per kind of exception, while handlers raise
exceptions themselves, are preempted and return through SYS7. (j) Circular
lists known by their tail, scanned by macros that fall off the end. (k) A client that is
concurrent itself: a process runs before its creator has its pid, is
terminated in the middle of anything, and a semaphore keeps the units of the dead.

**What makes each part correct.** Lists: every list is a ring, each operation
does to the pointers what it does to a sequence, and the search of the sorted
ASL finds what is there (`ListsAreSequences`, `AslSorted`, `SearchFinds`); a pcb
is in one place at a time (`OnePlace`). Pcbs: the counter agrees with the pool
(`CountMatches`, `AllocSucceeds`), the tree has no orphans and its two
directions agree (`OrphanFree`), pids differ (`PidsDistinct`). ASL: one descriptor per
semaphore with waiters, none lost (`AslConsistent`, `NoSemdLost`). SYS3: nobody
stays blocked whom the semaphore could satisfy (`NoLostWakeup`); altogether it is
a first-come first-served semaphore (`UnitsServed`). Scheduler: HALT, WAIT and PANIC
mean what they say (`SoftExact`, `IdleJustified`, `NoFalseDeadlock`), everyone gets
the processor (`ReadyRuns`). Clock: a tick finds its waiters (`ClockCovered`,
`AwaitedComes`), SYS9 blocks (`WaitClockBlocks`). Time: no tick and no slice is
passed over (`LeftBracketed`, `TickOnTime`, `OverrunBounded`, `TicksRecur`, `SliceEnds`), SYS8's
times are right (`TimesBracketed`). Pass-up: a process runs in its own states only
(`OwnStates`), and exceptions are calls (`ExceptionsNest`). I/O: operation, issuer,
interrupt and status stay together (`OwnerWaits`, `NoLostIo`, `OwnStatus`,
`IoDevopWaits`). Handlers return (`HandlersReturn`). Test program: all its checks succeed on this
nucleus (`TestPasses`), it shares the terminal as SYS10 needs (`TerminalShared`) and terminates nobody
who holds the lock (`LockKept`), whom it terminates exists (`KillHits`) and leaves nobody
behind (`FamilyDies`), and it ends (`TestEnds`).

## 2. The modules

| module | contents |
|---|---|
| `ListOps` | the operations on sequences that stand for those on circular lists |
| `NucleusData` | constants and assumptions, all variables, the operations of `pcb.c` and `asl.c`, `isDev`, the semaphore each device uses |
| `Syscalls` | one action per system call, and the steps of their loops: `childByPid`, `killChild`, `reap`, `wake`, `endV` |
| `Interrupts` | `handleTimer` with its steps `tick` and `slice`, `handleDevices`, the devices |
| `Nucleus` | `Init`, `scheduler`, `Next`, `Spec`, fairness, and all properties |
| `WeightedSemaphore` | abstract: what SYS3 and SYS9 promise to processes; `Nucleus` implements it (`UnitsServed`) |
| `CpuTime` | the hooks of `aux.c`, the tests of `handleTimer`, slices and the times of SYS8, in unsigned arithmetic |
| `PassUp` | processor states: SYS4-SYS7, `sysAboveBP`, `commonSubHandler`, SYS11, and what every handler saves and restores |
| `TrapStack` | abstract: an exception is a call of its handler; `PassUp` implements it (`ExceptionsNest`) |
| `CList` | `clist.h`, `pcb.c` and `asl.c` on pointers, implementing the sequences of `NucleusData` (`ListsAreSequences`) |
| `P2Test` | the test program as a client of `Nucleus`: what each process does next, on the actions of `Syscalls` and `Interrupts` |
| `MCNucleus`, `MCTime`, `MCPassUp`, `MCList`, `MCTest` | values of the constants for TLC |
| `ListLemmas` | lemmas about lists as sequences, with proofs |
| `NucleusProofs` | theorems about types and the pcb pool, with SYS2; what each operation does to queues and ASL; theorems about descriptors and wake-ups, without SYS2, and about the process tree, pids, queues and the ASL, with SYS2 |
| `InterruptProofs` | theorems about the scheduler's WAIT and PANIC and about who waits for the clock and for devices, and the refinement of `WeightedSemaphore`, without SYS2 |
| `TestSync` | how the processes of `P2Test` wait for each other: an invariant of positions and semaphores, and the steps that keep it |
| `TestProofs` | theorems about `P2Test` on the nucleus |
| `TimeProofs` | theorems about `CpuTime` |
| `PassUpProofs` | theorems about `PassUp`; the refinement of `TrapStack` |
| `CListProofs` | what the macros of `clist.h` do to rings; theorems about `CList`; the refinement of `NucleusData`'s operations |

**How they fit together.** The system is modelled four times, each time with
one part in detail and the rest nondeterministic. `Nucleus` is the whole of it but for
time, processor states and pointers. `CpuTime` has the clock and lets the
scheduler dispatch any process; it justifies the fairness `Nucleus` assumes of the
timer. `PassUp` has the states and lets any live process be dispatched or
terminated; it shows that what `Nucleus` leaves out, the state copied at each
entry and at `LDST`, is always the right one. `CList` has the memory; it shows
that the sequences of `NucleusData` are what the macros make of it.

`P2Test` composes client and nucleus. It extends `Nucleus`, whose state and actions it
takes as they are, and replaces "a process makes any call" by "a process makes its next
call". Where the other runs need small pools and any clients, its runs have
the code's twenty pcbs and descriptors and the code's own client.

**State of the Nucleus.** A list is the sequence of its elements, head first; a pcb or
descriptor is its index in `proc_blk` or `semdTable`, `NULL` is 0. `p_parent`,
`p_children`, `p_cursem`, `res_requested` and `p_pid` are the fields of the
pcbs, as functions of the pcb. `p_a1` is the result register of a process, as
far as it can hold the status of a device: 0, or the pid of the process whose
operation it reports. `semval` is the memory at the semaphores' addresses;
an address is a tagged triple, so that the cells of `g_dev_s`, the words that
follow it and the semaphores of processes are told apart
(`AddrAssumption`: distinct objects, distinct addresses). The order of the ASL
by address only shortens a search; it is in `CList`.

**Atomicity and `phase`.** A call whose handler has no loop is one action, from
the trap to the return or to the entry of `scheduler`. The loops and recursions
(the V loop of `semop`, the loop of the tick, `childByPid`, `terminateProgeny`)
take one step per iteration, during which `phase` says where the processor is
and nothing but device hardware moves, as interrupts are disabled. That is the
granularity at which `HandlersReturn` means something and at which the
invariants are strongest: they hold inside the handlers too. `vop` holds
the locals of `semop`'s loop and of its caller, `target`, `cursor` and `stack` those of SYS2; they
return to their initial value when the handler ends, so that the state graph
does not remember dead locals. Final phases are HALT (`halt`), the PANICs by
cause, and `wild`: a write through NULL or a pcb freed while it is still linked,
after which the lists no longer describe the memory. A `wild` state has no
successor; the runs say which paths lead there (section 5).

**Choices the code leaves open.** Which of the two timer deadlines has passed
(`expired`, `over`) is nondeterministic in `Nucleus`; `CpuTime` computes it.
Reading `p_time_slice` through NULL, which `handleTimer` does when it interrupts
the scheduler's `WAIT` (`interrupt.c:50`), yields whatever that word holds:
`NullSlice` is the set of outcomes of the comparison. The words behind `g_dev_s`
that the receiver's row 6 names hold a value below 1 or not (`PastEnd`).
A command written to a device that is not idle is taken or ignored. Of all devices but
terminals `handleDevices` reads the status after it has acknowledged the interrupt (`interrupt.c:106-107`);
the register then shows a ready device, which `statusOf` takes for the status of no operation. `isDev`'s
range runs past the array (`aux.c:18`): `Overrun` are the semaphores linked there.

**Assumed of the build.** `main`'s loops set only rows and columns from 1 on of `g_dev_s`
(`init.c:45-46`); the cells of each first device and of the first row hold 0 in `Init`
because bss is zeroed. `terminateProgeny` passes `isDev` a descriptor (`exceptions.c:38`);
`reap` assumes that `semdTable` is not linked in the words after `g_dev_s` that `isDev` takes for semaphores
(of process semaphores, `Overrun`, it does not assume it).

**Unsigned comparison.** `semop` compares semaphores with `res_requested`, a
`size_t`. `TypeOK` says that neither side is ever negative, which is what makes
the model's comparison of integers the code's; it is proved, not assumed.

**CpuTime.** Every reading of the time of day by a hook is a step, so that the
code between two readings takes 0 to `HANDLER` units; a handler is the sequence
of hooks the code runs, its path told by `phase` (a call that blocks runs an exit hook
inside `semop` and another at the end; a system call in user mode becomes a
program trap without a second enter hook). Differences are taken modulo
`WORD`. The timer raises its interrupt within `LATENCY` of its deadline, but any
exception may be taken in between, and the hook of its handler sets the timer again.
With interrupts disabled a hook is part of one action. The one that `scheduler` runs before `WAIT`, with interrupts
enabled, is taken apart: `enable`, `subtract`, `clamp`, `store` and `wait` are its assignments, and an
interrupt may come after each (`Idle`); its handler does not return there.
`spent`, `held` and `age` are history variables that do not wrap.

**PassUp.** A state is the process it belongs to, the program it is in (`main` or the
handler of a kind), the mode and one register that stands for what handlers pass in
registers; a pcb filled with zeros by `a_memset` holds `Zero`, and `new_area = Zero` is the
code's test for "no handler". `orderly` and `handling` are history: which
processes have used exceptions as calls. A process that raises an exception of a
kind it is already handling overwrites its own old area, and one that calls SYS7
without an exception to return from loads an old area at will, even one of zeros:
both leave `orderly` (`TrapStack`'s `Misuse`), and the theorem says that no other process notices.
SYS7 of anything but the three kinds, which ends in PANIC (`exceptions.c:199-201`), is left out.

**CList.** `next` fields, tail pointers, `clist_foreach` with its two cursors and its
test for the tail, `clist_delete` and `clist_foreach_delete` as the macros
expand. A loop's cursors are found on `Elems`, which follows the `next` fields from the head until it meets the tail.
The callers are any calls in any order, as long as a pcb they insert is on no list, and one they
free or make a child of another has no children.

**P2Test.** A function of `p2test.c` is a sequence of instructions: its system calls, the
exceptions it raises, its reads and writes of variables that others use, and its comparisons
(`Ensure`). `run` has for each pcb the function, the position in it, the
handlers it has specified, where SYS7 returns to, and the last call's result (`a1`). The position
is `at`; while the process is in `print`, which is called (`Message`), `in` is its
position there. A comparison that finds what it should not leads to `failed`, a call that should not
return but does to the end of the sequence; `TestPasses` says that no running process gets to either. A
P for which there is no descriptor does not come back from its PANIC (`Return`). The
handlers of p5 run with interrupts disabled (`p5hdlflags`, `Unmasked`). The two halves of
`p5prog` by cause, of `p5sys` and of `p5c` by mode are functions of their own. `print` sends
`CHARS` characters, a loop of `WAITCLOCK` makes one pass (`Until`) or more (`anotherPass`), that of p8 `RUNS` (`Again`;
four in the code), and the loop over `s[]` one. Left
out are stacks and the comparisons of times, after which the program only prints.

## 3. The runs

All bounds are constants: `MAXPROC` pcbs and descriptors (20 in the code),
`MaxPid` processes created in a run, `MaxVal` for semaphore values and
`g_pseudoClockBlk` (guards marked `bound`). Processes differ only in their pid
and place in the tree, and the handlers treat at most two of them at once (the
running or dying one and the head of a queue): three pcbs give a queue with a head, a
successor and a running process; with `MaxPid` above `MAXPROC` pcbs, pids and descriptors
are used again. There is no symmetry reduction: the free lists order the indices.

| run | instance | what it shows |
|---|---|---|
| `sem` | 3 processes, a semaphore with P of 1 and 2 and V of 2, and the clock, no SYS2 | `TypeOK`, `NoSemdLost`, `NoLostWakeup`, `SoftExact`, `IdleJustified`, `ClockCovered`, `UnitsServed`: queues on two semaphores compete for descriptors, a V of 2 wakes one or two, a request of 2 holds back one of 1 |
| `io` | 3 processes, a disk and two terminals | `OwnerWaits`, `NoLostIo`, `OwnStatus`, `IoDevopWaits`: of terminals the status of the right operation, of the disk at least not that of another |
| `kill` | 3 pcbs, 4 pids, a semaphore, SYS2 of any pid in the system or of the caller, `FairSpec` | `OnePlace`, `AslConsistent`, `OrphanFree`, `PidsDistinct`, `CountMatches`, `AllocSucceeds`, `HandlersReturn`: trees up to depth 3 are cut at any point, with ready, running and blocked members, and their pcbs are used again |
| `fair` | 2 pcbs, 3 pids, every call, weights -1 and 0, a disk used without taking turns (`Exclusive = FALSE`), a semaphore in `isDev`'s overrun, any NULL read, `FairSpec` | `OnePlace` and `NoFalseDeadlock` survive every combination; `ReadyRuns`, `AwaitedComes`, with two waiters per tick, two on the disk, whose operations overwrite each other, and a disk operation that outlives its issuer |
| `time` | 1 process, slice 2, period 4, latency and handler 1, words of 11, `FairSpec` | `LeftBracketed`, `TickOnTime`, `TimesBracketed`, `OverrunBounded`, `TicksRecur`, `SliceEnds` |
| `passup` | 2 pcbs, 3 pids, system calls and program traps as kinds | `OwnStates`, `ExceptionsNest` |
| `clist` | 3 pcbs, 3 descriptors, 3 addresses, 9 calls | `TypeOK`, `AslSorted`, `SearchFinds`, `ListsAreSequences` |
| `p2test` | the whole test program with two incarnations of p8, 20 pcbs, `Sliced` = `child2`: one slice may end anywhere in `child2`, or a loop of `WAITCLOCK` makes one further pass; no slice ends in another function, `TestFair` | `TestPasses`, `TerminalShared`, `LockKept`, `KillHits`, `FamilyDies`, `TestEnds`: so restricted, no check of `p2test.c` can fail, however the timer and the terminal interleave with it. With slices in `test`, `p4`, `p8root` or `p8leaf` one can (section 5) |

Bounds are guards on what processes ask for (a V, a creation, a `WAITCLOCK`),
never on what the nucleus does; in `io`, `Exclusive` restricts
processes to the discipline the test program follows (`term_mut` in `p2test.c`
guards the terminal; `p2test` does without `Exclusive`, and `TerminalShared` shows that it may): one process at a time uses a device. In `fair` they do not take turns. Of the theorems of section 4
only those about devices assume it. `NullSlice` is `{FALSE}` in all passing runs but `fair`: on the
uARM the word at that address is small.

`time`: one process is enough, because all times of a process but the current one
stand still, and the processor may also be idle. The slice ends before the period and
after it (two slices make a period), either may wrap, and the word is the smallest
that `TimeAssumption` admits (`WORD > SCHED_TIME_SLICE + SCHED_PSEUDO_CLOCK + 2 * LATENCY + 2 * HANDLER`), so that the time of day wraps around in the
middle of both. `passup`: with two kinds an exception can be
raised in the handler of the other and of its own; the third pid reuses a pcb
whose areas were in use; only the first process specifies handlers, the
others show that they see nothing of it.

`p2test`: `MAXPROC` is 20 as in the code, `MaxPid` and `MaxVal` are never
reached, since the program creates fewer than 60 processes and no semaphore of it goes above 4. One character per message is an
operation of the terminal during which all others may run; more of them repeat it. The second incarnation of p8
finds pids, semaphores and pcbs of the first, a third would find the same.
A process keeps the processor until a call or an exception takes it off: between two calls the functions take
microseconds, a slice lasts milliseconds. What happens otherwise is bounded by the number of slices
that end in the middle of a function (`MaxSlices`, which also bounds the further passes of `WAITCLOCK` loops), and by the functions in which one may (`Sliced`). In `child2`, which
stores a pid after the process it belongs to has begun to run, a slice does no harm, only because semaphores and the ready queue are
first-in first-out; in `p2`, `p3`, `p5c` and `child1` neither (checked apart, without `TestEnds`).
In `test`, `p4`, `p8root` and `p8leaf` it does (section 5): that the program passes on its nucleus
depends on the long slice. `Enough`: p5 and p1 wait for half a clock interval or more "to be
reasonably sure" that p4 and p8 are dead. That p5's wait ends only when p4, which still has to print, is dead is an assumption, stronger than
the code's loop; what happens otherwise (hazard at `p2test.c:585`) no run shows. For p8 nothing is assumed: the loop may end with
the first tick, since SYS2 leaves nothing to wait for.

`clist`: three elements are a list with a head, a middle and a
tail, and nine calls fill the ASL with three descriptors and empty it in any order, or free a descriptor twice, the
second time from the middle of the free list.

Every property has a mutant in `PROJECT.json`: a definition `..._something`
marked `mutant`, standing before the one it is a faulty version of, under
which TLC finds the property violated. No mutant is used by the specification.

**Fairness.** In `Nucleus`: `WF(Internal)`, a processor that has entered a handler executes it.
`WF(deviceDone)`, a device completes its operation. `SF(handleTimer(TRUE))` and
`SF` of the expiry of the slice: each of the two deadlines is found passed time and again. `CpuTime` shows this
from less: there only time passes and the processor goes on (`WF(Next)`), whatever
exceptions come, and `TicksRecur` and `SliceEnds` follow, `TickOnTime` and
`OverrunBounded` with bounds. Both actions are disabled while a handler
runs, hence strong. `SF(handleDevices(u))`: an interrupt that stays pending is
taken, devices of higher priority do not hold it off for ever (they need a
process to start an operation for each interrupt). No fairness on calls:
a process may run for ever without one, and only the slice takes it off.
`TestFair` adds `SF(Program)`: the process that runs executes its next instruction, strong because the
handlers of interrupts come in between; it does not need the slice, as no function of
the test program loops without a call.

## 4. What is proved

`NucleusProofs`, for every value of the constants that satisfies the
assumptions in `NucleusData` (`ConstAssumption`: `MAXPROC` below 32, as
`pid_selector` needs; positive pools, integer weights, natural initial values):

* `TypeCorrect == Spec => []TypeOK`. `TypeOK` is inductive as it stands because
  it carries the coupling of `phase` with `g_current_process`, `cursor` and
  `stack`: without "a process is current while SYS2 runs" the return of
  `reap` to a caller would not preserve "a process is current while one
  runs". The proof has a lemma per action (`TypeCreateProcess`, `TypeReap`,
  ...), under it a step per conjunct, on lemmas for the list operations
  (`SetProcqType`, `InsertBlockedType`) and for the P operation that SYS3, SYS9 and
  SYS10 share (`PType`).
* `CountsMatch == Spec => []CountMatches`. Inductive relative to `TypeOK`;
  `PoolFrame` says that only `createProcess` and `reap` touch pool or counter.
* `AllocAlwaysSucceeds == Spec => []AllocSucceeds`, a consequence: the pool is
  not empty below `MAXPROC` processes.

On the queues, under the same assumptions and `NoKill` (processes do not call
`TERMINATEPROCESS` and take no exception without a handler; all else remains, any weights,
values, devices and interrupts, `NullSlice` and isDev's overrun included):

* `SemdsSuffice`, `NoneLeftBehind`: `NoSemdLost` and `NoLostWakeup` hold always.

Neither is inductive alone. That a V keeps the ASL needs the head of a queue not to be
ready as well; that it leaves each pcb in one place needs `p_cursem` to name the queue; that a P
does not panic needs both. So the inductive invariant `Inv` is made of named parts:
`Base` (`TypeOK`, `Apart`: the lists share nothing, `Placed`: each pcb is somewhere, `AslInv`: queues,
descriptors, `p_cursem`, addresses) and what SYS2 would break, `AslCover` (no descriptor is
lost), `NoLostWakeup` and `phase # "noSemd"`.
The proof goes from the operations up. `InsertEffect` and `RemoveEffect` say what
`insertBlocked` and `removeBlocked` do to one descriptor and nothing else;
`BlockKeeps`, `GrantKeeps`, `WakeKeeps`, `EndVKeeps`, `SchedulerKeeps`, `CreateKeeps` and
`SliceKeeps` are the steps that move a pcb; they assume `Base` only. `StepKeeps` collects them.
`SemdLeft` is a counting argument: if no descriptor were free, each of the
`MAXPROC` descriptors would have a waiter, yet one pcb is running, so that
two queues would share a pcb. This is why one descriptor per pcb is enough.

On the tree, with SYS2 and without any further assumption:

* `TreeStaysTree`, `PidsAreDistinct`, `PlacesKept`, `AslKept`: `OrphanFree`, `PidsDistinct`,
  `OnePlace` (which says nothing of `wild` states) and `AslConsistent`.

All four are one induction (`TInv`), because each needs the others. `terminateProgeny` is a recursion
whose `stack` holds the pcbs it has entered. That none is freed twice needs
the tree (`Links`) and that pcbs on the stack are off the tree and not free (`Stacked`). That it does not reach
the process that called SYS2, whose pcb the handler goes on to use, except
in `terminateProcess(0)` which ends with it (`Kills`), needs that pids grow along the tree (`Older`) and that
`childByPid` starts below the caller. That pids grow and differ needs that `g_process_count`,
the lower bits of a pid, is between 0 and `MAXPROC` and so never carries into the
upper bits, the count of processes ever created (`PidsBelow`); this is `CountMatches` and
`InjectiveLength`: the free list, being one list without repetitions, is no longer than the pool. And that
needs `Apart` and no double free. A stale `p_cursem` makes `outBlocked` free a descriptor again, but
only one without waiters (`AslInv` survives, `AslCover` does not).
`KillTree` and `ReapTree` are the two steps of the recursion, `ReapEffect` and `ReapPlaces` what freeing a pcb does to the lists.

`InterruptProofs`, on the invariant `Inv` of `NucleusProofs`:

* `SoftCountExact`, `WaitIsJustified`, `PanicIsDeadlock` (`SoftExact`,
  `IdleJustified`, `NoFalseDeadlock`), also assuming `Overrun = {}` (no process semaphore lies where
  `isDev` takes it for a device's, `aux.c:18`). `Inv` is strengthened by `Count`
  (`g_soft_block_count` is the cardinality of the waiters on devices and clock) and
  `Verdict` (what `scheduler` read when it chose WAIT or PANIC still holds, since
  nothing but an interrupt can follow).
* `ClockWakesAll` (`ClockCovered`). Inside a tick's loop the units are split
  between the V in progress and `g_pseudoClockBlk`; `Covered` says how
  many there are phase by phase, and each waiter asks for one (`ClockInv`).
* `IssuerWaits`, `NoInterruptLost`, `StatusIsOwn`, `IoDevopBlocks` (`OwnerWaits`, `NoLostIo`, `OwnStatus`,
  `IoDevopWaits`), assuming `OneAtATime`: processes use a device one at a time, and the
  devices have no receivers of terminals, whose interrupts signal a semaphore nobody
  waits on (`x_receive`). Of every device (`UnitInv`): its semaphore is 0, and either its V is in progress
  and wakes the very process whose pid `handleDevices` has noted, of a terminal with its status (`Delivering`), or it is idle and nobody
  waits, or its issuer waits alone (`Awaiting`).

* `SemaphoresImplemented`, under `NoKill` alone: `Nucleus` implements `WeightedSemaphore` (`UnitsServed`). An abstract
  semaphore has the value `semop` has in its local `free` while a V is in
  progress on it, and the queue of its descriptor, each waiter with its
  `res_requested`. A P is `Take` or `Wait` (`PStep`), the start of a V is `Give`, each
  `wake` is `Serve`, the end of a V and everything else stutters. The abstract semaphore
  takes calls only when nobody can be served; that the nucleus is in such
  a state whenever a call begins is `NoLostWakeup`, so the invariant is `Inv`,
  with the bound on `g_pseudoClockBlk` that keeps a tick's weight an `Amount`.

`TimeProofs`, for every slice, period, latency, handler time and word that `TimeAssumption`
admits (a word wider than slice, period, two latencies and two handlers together):

* `TimeTyped`, `LeftIsBracketed`, `TicksOnTime`, `OverrunIsBounded`, `TimesAreBracketed`. `LeftBracketed` is inductive
  with `TypeOK` once `ClockInv` says what it is inside the scheduler's hook: after its subtraction the counter
  may be wrapped (`Counter` is what it stands for), and until `g_lastUpdate` is stored the
  stretch that is off the counter is not yet in `age` (`pending`); an interrupt there subtracts it again, and
  `ReducedIs` shows that a counter that has wrapped then gives 0, too. `reduced` takes a
  difference above the period for one that wrapped, which is right because `raise` bounds the time between two readings.
  `TickOnTime` needs a bound on `age` per phase, that is, how much of the late handler is still to
  come; `OverrunBounded` needs that a process is dispatched with a full slice
  and that the timer is never later than the next tick; `TimesBracketed`
  relates each of the two times to the history phase by phase.

`PassUpProofs`, for every set of pcbs, handlers and kinds among the three:

* `StatesTyped`, `StatesOwned`: `OwnStates` is inductive with `TypeOK`; the case
  that matters is a pcb allocated again, whose areas `a_memset` clears.
* `PassUpNests`: `PassUp` implements `TrapStack` (`ExceptionsNest`). The code finds
  the state to return to by the kind of the exception alone. `Linked` says why
  this is the top of the stack: of an orderly process every program was
  entered from the one below it (`Chained`), so no kind occurs twice.
  `Pushed` and `Popped` relate the sequence of frames to one exception more or less;
  there is a lemma per handler.

`CListProofs`, for every number of pcbs and descriptors, every set of addresses and any number of calls:

* `ListsStayRings`, `AslStaysSorted`, `SearchAlwaysFinds` (`TypeOK`, `AslSorted`, `SearchFinds`).
* `PointersImplementSequences`: `CList` implements the operations of `NucleusData` (`ListsAreSequences`),
  so that the theorems about the nucleus, whose lists are sequences, say something of its memory.

`Ring(l, q)` says that the list with tail `l.tail` in the memory `l.next` goes through the elements of `q` and back. The
first part shows what each macro makes of a ring: `EnqueueOfRing`, `DequeueOfRing`, `ForeachOfRing`,
`DeleteOfRing`, `WithoutOfRing`, `AddSortedOfRing`, and `EnqueueAgain` for an element that is on
the list already (what a descriptor freed twice does). `ElemsOfRing` is an induction over the
length of the list, which the provers cannot take from the library: `LeastElement` gives the least length
for which the claim would fail, and `ElemsUnfolds` one step of the recursive function.
Many lists share one array of `next` fields. `Rings(t, n)` says that the lists with the tails `t`
through `n` are rings without a common element; `RingsStep` is the frame rule: a list that
changes within its own elements, and elements that were on none, leaves the others alone.
No property is inductive alone. That a scan terminates at the tail needs the ring; that an operation keeps the other rings needs
that they share nothing, which for a pcb being inserted is what its caller promises (`Held`), for one
being allocated that the free list holds exactly the others (`ProcInv`), for a descriptor that those on the ASL are those with
a process (`AslInv`); that `allocPcb` may clear the links of the pcb it takes needs
that no free pcb is in the tree (`TreeInv`). `search` finds a descriptor because the ASL
is sorted (`SearchIs`). It all holds although `p_cursem` may be stale: `outBlocked` then looks for the process
in a queue it has left, and frees a descriptor that is free.

`TestSync` and `TestProofs`, for every `MAXPROC`, `MaxPid`, `MaxVal`, number of characters
and rounds (`CHARS`, `RUNS`), every set of functions in which slices may end and any
number of them (`Sliced`, `MaxSlices`), without fairness:

* `LockAlwaysKept`, `TerminalAlwaysShared` (`LockKept`, `TerminalShared`), from `TestInvariant`: `SInv` is inductive.
* `FamilyAlwaysDies` (`FamilyDies`), if no slice ends in p5: `FInv` is inductive.
* `NucleusKept`: what `NucleusProofs` shows of the nucleus and any processes also holds with the test program,
  which does what they may not, such as to assign to a semaphore.

That nobody is terminated while it holds `term_mut` is a property of
the whole program. The processes that end with children (p4, p5 and `test()`, SYS2 of
0 or a trap without handler) and the one that kills p8root by its pid take with them all that
descends from the victim; so all of it has to be past its last `print`, and what makes it so are
the semaphores: p4's first incarnation ends only after `synp4`, which the second one
signals after its message, `test()` kills after `endp8`, which p8root signals after four units of `endcreate`, one
per leaf. `Sync` of `TestSync` states this for a view of the state: who lives, each one's function, position and parent,
the values of 13 semaphores, and `p5dmode`. It has a conjunct for the tree and for
each group of processes, of the form "if the semaphore is positive, or the waiter past its P, then the other is
past its V" (`Two`, `Three`, `Four`, `Traps`, `FiveEnd`, `FiveC`, `Six`, `Eight`), with counts where several units are
needed (`blkp6`, `endcreate`), mutual exclusion for `blkp5cint`, and what `p5dmode` says of the two incarnations of p5c.
There are three kinds of steps (`SyncGoes`, `SyncForks`, `SyncLoses`): a process goes on, makes
another, and some are lost with all their progeny. The last one keeps `Sync` only if it does not hit a family
whose units still count. The rest of the module relates the view to the text of the functions:
what the instruction at a position is, and that it does no more than `Goes` or `Forks` allow.

`TestProofs` connects the view with the nucleus. A process blocked in a call has its P still to come, though `run` is past
it (`pos`); `BlockedAt` says that it waits on the semaphore of that very call with the amount asked for, so that being
waked is taking it. Of SYS2's recursion, one pcb at a step, the view knows nothing: it leaves out the `Doomed`, those whom the
recursion will yet free (the least set that contains `stack` and is closed under children), so that the whole subtree is lost at the step that
finds the victim, and none of the freeing changes the view. No doomed process is in `print` (`DoomOK`). If a stale
`p_cursem` frees a ready pcb (`wild`), the program is at an end and only the lock is claimed.
The search of `childByPid`, which may go astray (`x_search`), is followed by `SearchOK`: `test()` searches at one
place, p8root at four, below which there are only its family. `TermOK`: the terminal is not idle
only when someone waits for it, and its V wakes him; `TerminalShared` follows because only the holder of the lock
gets there. `SInv` was checked by TLC on the instance of `p2test` before it was proved.

For `FamilyDies`, `FInv` is inductive relative to `SInv`: there is one p8root at most (`OneRoot`), only while
`test()` is between creating it and the end of its search for it (`RootTime`), with its pid
in `p8pid` once it has stored it (`RootPid`), and that is what the search looks for, from p1 (`HuntOK`). `childByPid` misses p8root if another
child of p1 has children when it comes to that one first. By then p2, p3, p6 and p7 never had any, p4 is dead, and p5 is
past `V(endp5)`; `HuntStays` shows that it then has none or is still to be terminated, which is where `LastOfFive`
comes in: a p5 that far is the process that runs, so it is gone when p1 runs. That is the hypothesis on
`Sliced`, and it is needed: a p5c and p5 whose slices end every time before their
next instruction, the p5c behind its `V(blkp5c)` and p5 behind its `V(endp5)`, are still alive, parent and child, when p1
kills p8root, and `FamilyDies` fails (TLC, `Sliced = {"p5", "p5c_kernel"}`, 46 slices). On the machine a slice is
long enough for the few instructions they have left.

The hypotheses on the calls of the theorems about `Nucleus` are not conveniences. With SYS2 descriptors are lost (section 5), a removed
head may leave a satisfiable one behind, `g_soft_block_count` is not
maintained (section 5), and an operation's issuer may be gone when its interrupt comes. With an
overrun the count goes up for a semaphore no interrupt will signal. What survives
SYS2 is in the theorems on the tree, up to the states in which a stale `p_cursem` has freed a pcb
that is on the ready queue (`x_ready`).

`ListLemmas` proves what `Without`, `Tail`, `Append`, `Front` and
`clist_enqueue` do to a list: the elements, the length, injectivity.

Only model-checked, on the instances of section 3: `TestPasses` and `KillHits`, which are false for
some values of the constants, of the number of pcbs and of where slices may end (section 5; and `KillHits` fails if slices keep
child1 from storing the pid of its second leaf until p8root kills by it: `Sliced = {"child1"}`, 11 slices), and liveness
(`HandlersReturn`, `ReadyRuns`, `AwaitedComes`, `TicksRecur`, `SliceEnds`, `TestEnds`), which is out of
reach of the prover.

## 5. What the checks found

Four runs state what the code's comments say and TLC refutes it; `findings` in
`PROJECT.json` quotes the lines.

| run | property | what the code does |
|---|---|---|
| `x_ready` | `ReadyIsLive` | `p_cursem` is not cleared when a process is awakened; a process that once blocked and is ready is freed by SYS2 without leaving the ready queue |
| `x_clock` | `WaitClockBlocks` | a tick for k waiters does V operations of k, k-1, ..., 1; what is left lets later `WAITCLOCK`s through |
| `x_receive` | `NoLostIo` | the receiver's interrupt signals row 6, behind `g_dev_s`, its reader waits on row 5 |
| `x_search` | `SearchOnTrack` | `childByPid` does not come back from the first child that has children |

`x_clock` checks a step property under `FairSpec`: its counterexample is a
finite prefix of a fair behaviour.

These too were met while modelling, and the model contains them, without a
run of their own:

* `terminateProgeny` passes `isDev` the descriptor instead of the semaphore (`exceptions.c:38`):
  `g_soft_block_count` stays too high when a process that waits for the clock or a device is terminated, and a deadlock
  is waited out for ever (`IdleJustified` fails with the calls of `ClockKill`).
* The stale `p_cursem` of `x_ready` also makes `outBlocked` free a descriptor that is
  free already (`asl.c:125`). Enqueued again it drops those behind it from `semdFree`, and SYS3 ends in its PANIC
  (`exceptions.c:155`: "there are no free semaphores") with most of them in no list at all: phase `noSemd` of
  `kill` and `fair`. With ten pcbs instead of twenty the test program itself gets there: every
  termination drops some, that of p7 for its program trap most of them. With twenty it gets there when
  one slice ends in `p4` (`p2test` with `Sliced = {"p4"}` violates `TestPasses`), with 3 descriptors in use.
* A slice that ends in `p8root` or `p8leaf` between a V and the P that follows it leads to
  `x_ready`: p8root is terminated while it is ready, with the `p_cursem` of its P of `endcreate`.
* p1 stores the pid of p3 (`p2test.c:292`) after SYS1 has made p3 ready; if p1's slice ends in
  between (`Sliced = {"test"}`), p3 finds another one in `p3pid` and prints "error: p3 pid different
  from getPid output", on a nucleus that answered rightly.
* SYS2 of the first process of a queue does not look whether the next one's smaller request
  could now be met (so `NoLostWakeup` is checked without SYS2).
* Of disks, tapes, network cards and printers `handleDevices` acknowledges the interrupt before it reads the status
  (`interrupt.c:106-107`), of terminals after (`:88-89`, `:97-98`): what SYS10 returns for the former is the register of a device that
  is ready again. Nothing in the repository says that it must not be; `OwnStatus` claims of these devices only that the status is not another's.
* `scheduler` enables interrupts (`scheduler.c:29`) before the hook it runs ahead of `WAIT`. An interrupt between the hook's
  subtraction (`aux.c:53`) and its assignment to `g_lastUpdate` (`:57`) subtracts the same stretch of time again, and the tick comes
  before its period is over: `g_leftTo100` is not what is left of the period, only no more than that (`LeftBracketed`).
* SYS9 counts a caller that did not block (`exceptions.c:218`).
* Without discipline two processes on one device may get each other's status; the interrupt for an
  operation whose issuer was terminated does a V nobody waits for (`interrupt.c:115`), so that the
  next SYS10 on the device returns at once.

## 6. What is not modelled

* Of `p2test.c`: the comparisons of times in `p2` and `p3`, which decide what is printed
  (`TimesBracketed` is what they rely on), the layout of the stacks, and what messages say.
* `main`'s new areas (stack pointers and handler addresses of the exception
  vectors): constants of the machine. The state `main` leaves is `Init`.
* The bodies of the handlers for the inter-processor and the local timer interrupt are empty.
* `debugBKtwo` and `debugBK3`, which store a word for the debugger at a fixed
  address; `debugBK` and `d` are empty. `memcopy`, `clist_tail` and `clist_push` have no caller.
* The words of a `state_t` one by one: `PassUp` keeps the register and the mode that
  its properties tell apart.
* `handleDevices`' scan of the bitmap (`interrupt.c:78`): an interrupt is taken
  when some bit of its line is set, so the scan finds one, and the device is the
  argument of the action.
* `weight + *semaddr` is an integer: 2^31 units would be needed to overflow. The
  wrap of the pid counter after 2^27 creations is excluded by `MaxPid`.

## 7. Plan

Done: the nucleus, its clock, the pass-up, the lists and the test program on the nucleus; the two abstract
specifications and the proofs that they are implemented; every safety property of
`Nucleus`, `CpuTime`, `PassUp` and `CList` that a passing run checks is proved, and of `P2Test` those
that hold whatever its constants are, and `FamilyDies` if no slice ends in p5. What is left:

1. Should `p_cursem` be cleared on wake-up in the code: `SemdsSuffice` and
   `NoneLeftBehind` without `NoKill`, and the theorems on the tree without their exception for `wild`.
2. With terminated issuers: which operations' interrupts are spent on the
   semaphore of a device, and a version of `OwnerWaits` that allows for it.
