---------------------------- MODULE PassUpProofs -----------------------------
(***************************************************************************)
(* The pass-up of exceptions, for every number of processes, kinds of      *)
(* exceptions and handlers: no process ever runs in a state that is not    *)
(* its own, and exceptions are the calls of the stack of TrapStack.        *)
(***************************************************************************)
EXTENDS PassUp, ListLemmas

-----------------------------------------------------------------------------
(* States *)

LEMMA ZeroIs ==
  /\ Zero \in Zeros /\ Zero \notin State /\ Zero.at = "zero"
  /\ \A s \in State : s.at # "zero"
  /\ \A s \in Zeros : s.at = "zero"
BY PassUpAssumption DEF Zero, Zeros, State, Reg

\* A value returned in a1.
LEMMA SetReg ==
  ASSUME NEW s \in State \cup Zeros, NEW reg \in Reg
  PROVE  /\ [s EXCEPT !.r = reg] \in State \cup Zeros
         /\ s \in State => [s EXCEPT !.r = reg] \in State
         /\ [s EXCEPT !.r = reg].own = s.own /\ [s EXCEPT !.r = reg].at = s.at
         /\ [s EXCEPT !.r = reg].mode = s.mode /\ [s EXCEPT !.r = reg].r = reg
BY DEF Zero, Zeros, State, Reg

LEMMA NestsType ==
  ASSUME TypeOK, NEW p \in Proc, NEW asCall, NEW h, asCall => h \in Seq(Kind),
         nests(p, asCall, h)
  PROVE  orderly' \subseteq Proc /\ handling' \in [Proc -> Seq(Kind)]
<1>1. <<>> \in Seq(Kind)
  OBVIOUS
<1>2. handling \in [Proc -> Seq(Kind)] /\ orderly \subseteq Proc
  BY DEF TypeOK
<1>3. CASE p \in orderly /\ asCall
  BY <1>2, <1>3 DEF nests
<1>4. CASE ~(p \in orderly /\ asCall)
  BY <1>1, <1>2, <1>4 DEF nests
<1> QED BY <1>3, <1>4

-----------------------------------------------------------------------------
(* Types and ownership, step by step *)

Inv == TypeOK /\ OwnStates

\* The running process, and the state its exception saves in p_s.
LEMMA SavedIs ==
  ASSUME Inv, Running, p_s' = saved
  PROVE  /\ g_current_process \in live /\ g_current_process \in Proc
         /\ cpu \in State /\ cpu.own = p_pid[g_current_process]
         /\ p_s' \in [Proc -> State \cup {Zero}]
         /\ p_s'[g_current_process] = cpu
         /\ \A q \in Proc : q # g_current_process => p_s'[q] = p_s[q]
         /\ \A q \in live : p_s'[q].own = p_pid[q]
<1>1. /\ g_current_process \in live /\ g_current_process \in Proc
      /\ cpu \in State
  BY ZeroIs DEF Inv, TypeOK, Running
<1>2. cpu.own = p_pid[g_current_process]
  BY DEF Inv, OwnStates, Owns, Running
<1>3. p_s \in [Proc -> State \cup {Zero}]
  BY DEF Inv, TypeOK
<1> QED BY <1>1, <1>2, <1>3 DEF saved, Inv, OwnStates, TypeOK

LEMMA DiesStep ==
  ASSUME Inv, Running, p_s' = saved, dies
  PROVE  Inv'
<1>1. PICK S \in SUBSET live : g_current_process \in S /\ terminate(S) /\ cpu' = Zero
  BY DEF dies
<1>2. /\ g_current_process' = NULL /\ live' \subseteq live
      /\ UNCHANGED <<p_pid, old_area, new_area, abs_process_count, orderly, handling>>
  BY <1>1 DEF terminate, history
<1>3. TypeOK'
  BY <1>1, <1>2, SavedIs, ZeroIs DEF Inv, TypeOK
<1>4. OwnStates'
  BY <1>2, SavedIs DEF Inv, OwnStates, Owns
<1> QED BY <1>3, <1>4 DEF Inv

LEMMA PassUpStep ==
  ASSUME Inv, NEW k \in Kind, NEW info \in Reg, passUp(k, info)
  PROVE  Inv'
<1> DEFINE p == g_current_process
<1>0. Running /\ p_s' = saved
  BY DEF passUp
<1>1. CASE new_area[p][k] = Zero
  BY <1>0, <1>1, DiesStep DEF passUp
<1>2. CASE new_area[p][k] # Zero
  <2>1. /\ old_area' = [old_area EXCEPT ![p][k] = cpu]
        /\ cpu' = [new_area[p][k] EXCEPT !.r = info]
        /\ new_area' = [new_area EXCEPT ![p][k] = cpu']
        /\ nests(p, k \notin ToSet(handling[p]), Append(handling[p], k))
        /\ UNCHANGED <<g_current_process, live, p_pid, abs_process_count>>
    BY <1>2 DEF passUp, keptFor
  <2>2. /\ p \in live /\ p \in Proc /\ p # NULL /\ cpu \in State /\ cpu.own = p_pid[p]
        /\ new_area[p][k] \in State /\ Owns(p, new_area[p][k])
    BY <1>0, <1>2, SavedIs, PassUpAssumption DEF Inv, TypeOK, OwnStates
  <2>3. cpu' \in State /\ cpu'.own = p_pid[p]
    BY <2>1, <2>2, SetReg, ZeroIs DEF Owns
  <2>4. orderly' \subseteq Proc /\ handling' \in [Proc -> Seq(Kind)]
    <3>1. Append(handling[p], k) \in Seq(Kind)
      BY <2>2, AppendList DEF Inv, TypeOK
    <3> QED BY <2>1, <2>2, <3>1, NestsType DEF Inv
  <2>5. TypeOK'
    BY <1>0, <2>1, <2>2, <2>3, <2>4, SavedIs DEF Inv, TypeOK
  <2>6. OwnStates'
    <3>1. \A q \in live : p_s'[q].own = p_pid[q]
      BY <1>0, SavedIs
    <3>2. \A q \in live, j \in Kind : /\ old_area'[q][j] \in {old_area[q][j], cpu}
                                      /\ new_area'[q][j] \in {new_area[q][j], cpu'}
                                      /\ q # p => /\ old_area'[q][j] = old_area[q][j]
                                                  /\ new_area'[q][j] = new_area[q][j]
      BY <2>1, <2>2 DEF Inv, TypeOK
    <3>3. \A q \in live, j \in Kind : Owns(q, old_area[q][j]) /\ Owns(q, new_area[q][j])
      BY DEF Inv, OwnStates
    <3> QED BY <2>1, <2>2, <2>3, <3>1, <3>2, <3>3 DEF OwnStates, Owns
  <2> QED BY <2>5, <2>6 DEF Inv
<1> QED BY <1>1, <1>2

\* The other actions of the running process that leave its areas alone.
LEMMA GoesOnStep ==
  ASSUME Inv, Running, p_s' = saved,
         \/ UNCHANGED <<g_current_process, cpu>>
         \/ UNCHANGED g_current_process /\ \E reg \in Reg : cpu' = [cpu EXCEPT !.r = reg]
         \/ g_current_process' = NULL /\ cpu' = Zero,
         UNCHANGED <<live, p_pid, old_area, new_area, abs_process_count, history>>
  PROVE  Inv'
<1>1. /\ g_current_process \in live /\ cpu \in State /\ cpu.own = p_pid[g_current_process]
      /\ p_s' \in [Proc -> State \cup {Zero}]
      /\ \A q \in live : p_s'[q].own = p_pid[q]
  BY SavedIs
<1>2. /\ g_current_process' \in live \cup {NULL} /\ cpu' \in State \cup Zeros
      /\ g_current_process' = NULL => cpu' = Zero
      /\ g_current_process' # NULL => /\ g_current_process' = g_current_process
                                      /\ cpu'.own = cpu.own
  <2>1. CASE UNCHANGED <<g_current_process, cpu>>
    BY <1>1, <2>1, ZeroIs DEF Running
  <2>2. ASSUME NEW reg \in Reg, UNCHANGED g_current_process, cpu' = [cpu EXCEPT !.r = reg]
        PROVE  cpu' \in State /\ cpu'.own = cpu.own
    BY <1>1, <2>2, SetReg
  <2>3. CASE UNCHANGED g_current_process /\ \E reg \in Reg : cpu' = [cpu EXCEPT !.r = reg]
    BY <1>1, <2>2, <2>3 DEF Running
  <2>4. CASE g_current_process' = NULL /\ cpu' = Zero
    BY <2>4, ZeroIs
  <2> QED BY <2>1, <2>3, <2>4
<1>3. TypeOK'
  BY <1>1, <1>2 DEF Inv, TypeOK, history
<1>4. OwnStates'
  BY <1>1, <1>2 DEF Inv, OwnStates, Owns, history
<1> QED BY <1>3, <1>4 DEF Inv

LEMMA ComputesStep ==
  ASSUME Inv, computes
  PROVE  Inv'
<1>1. PICK reg \in Reg : cpu' = [cpu EXCEPT !.r = reg]
  BY DEF computes
<1>2. /\ Running
      /\ UNCHANGED <<g_current_process, live, p_pid, p_s, old_area, new_area,
                     abs_process_count, orderly, handling>>
  BY DEF computes, history
<1>3. g_current_process \in live /\ cpu \in State /\ cpu.own = p_pid[g_current_process]
  BY <1>2, ZeroIs DEF Inv, TypeOK, OwnStates, Owns, Running
<1>4. cpu' \in State /\ cpu'.own = cpu.own
  BY <1>1, <1>3, SetReg
<1>5. TypeOK'
  BY <1>2, <1>3, <1>4 DEF Inv, TypeOK, Running
<1>6. OwnStates'
  BY <1>2, <1>3, <1>4 DEF Inv, OwnStates, Owns
<1> QED BY <1>5, <1>6 DEF Inv

LEMMA CommonSysStep ==
  ASSUME Inv, NEW k \in Kind, NEW mode \in Mode, commonSys(k, mode)
  PROVE  Inv'
<1> DEFINE p == g_current_process
           h == [own |-> p_pid[p], at |-> k, mode |-> mode, r |-> 0]
<1>0. Running /\ p_s' = saved
  BY DEF commonSys, Calls
<1>1. CASE new_area[p][k] = Zero
  <2>1. /\ new_area' = [new_area EXCEPT ![p][k] = h]
        /\ UNCHANGED <<g_current_process, cpu, live, p_pid, old_area,
                       abs_process_count, orderly, handling>>
    BY <1>1 DEF commonSys, history
  <2>2. /\ p \in live /\ p \in Proc /\ p_s' \in [Proc -> State \cup {Zero}]
        /\ \A q \in live : p_s'[q].own = p_pid[q]
    BY <1>0, SavedIs
  <2>3. h \in State /\ h.own = p_pid[p]
    BY <2>2 DEF State, Reg, Inv, TypeOK
  <2>4. TypeOK'
    BY <2>1, <2>2, <2>3 DEF Inv, TypeOK
  <2>5. OwnStates'
    <3>1. \A q \in live, j \in Kind : /\ new_area'[q][j] \in {new_area[q][j], h}
                                      /\ q # p => new_area'[q][j] = new_area[q][j]
      BY <2>1, <2>2 DEF Inv, TypeOK
    <3> QED BY <2>1, <2>2, <2>3, <3>1 DEF Inv, OwnStates, Owns
  <2> QED BY <2>4, <2>5 DEF Inv
<1>2. CASE new_area[p][k] # Zero
  BY <1>0, <1>2, DiesStep DEF commonSys
<1> QED BY <1>1, <1>2

LEMMA ExitTrapStep ==
  ASSUME Inv, NEW k \in Kind, NEW retval \in Reg, exitTrap(k, retval)
  PROVE  Inv'
<1> DEFINE p == g_current_process
           s == [old_area[p][k] EXCEPT !.r = retval]
           asCall == handling[p] # <<>> /\ Last(handling[p]) = k
<1>1. /\ Running /\ p_s' = saved
      /\ old_area' = [old_area EXCEPT ![p][k] = s]
      /\ cpu' = s
      /\ nests(p, asCall, Front(handling[p]))
      /\ UNCHANGED <<g_current_process, live, p_pid, new_area, abs_process_count>>
  BY DEF exitTrap, Calls
<1>2. /\ p \in live /\ p \in Proc /\ p # NULL
      /\ p_s' \in [Proc -> State \cup {Zero}]
      /\ \A q \in live : p_s'[q].own = p_pid[q]
  BY <1>1, SavedIs, PassUpAssumption
<1>3. s \in State \cup Zeros /\ Owns(p, s)
  <2>1. old_area[p][k] \in State \cup Zeros /\ Owns(p, old_area[p][k])
    BY <1>2 DEF Inv, TypeOK, OwnStates
  <2> HIDE DEF s
  <2> QED BY <2>1, SetReg DEF Owns, s
<1>4. orderly' \subseteq Proc /\ handling' \in [Proc -> Seq(Kind)]
  <2>1. handling[p] \in Seq(Kind)
    BY <1>2 DEF Inv, TypeOK
  <2>2. asCall => Front(handling[p]) \in Seq(Kind)
    BY <2>1, FrontProperties
  <2> QED BY <1>1, <1>2, <2>2, NestsType DEF Inv
<1> HIDE DEF s
<1>5. TypeOK'
  BY <1>1, <1>2, <1>3, <1>4 DEF Inv, TypeOK
<1>6. OwnStates'
  <2>1. \A q \in live, j \in Kind : /\ old_area'[q][j] \in {old_area[q][j], s}
                                    /\ q # p => old_area'[q][j] = old_area[q][j]
    BY <1>1, <1>2 DEF Inv, TypeOK
  <2> QED BY <1>1, <1>2, <1>3, <2>1 DEF Inv, OwnStates, Owns
<1> QED BY <1>5, <1>6 DEF Inv

LEMMA CreateStep ==
  ASSUME Inv, NEW p \in Proc, NEW mode \in Mode, NEW reg \in Reg,
         createProcess(p, mode, reg)
  PROVE  Inv'
<1> DEFINE n == abs_process_count + 1
           s == [own |-> n, at |-> "main", mode |-> mode, r |-> reg]
           c == g_current_process
<1>1. PICK ret \in Reg : cpu' = [cpu EXCEPT !.r = ret]
  BY DEF createProcess
<1>2. /\ Running /\ p \notin live
      /\ old_area' = [old_area EXCEPT ![p] = [k \in Kind |-> Zero]]
      /\ new_area' = [new_area EXCEPT ![p] = [k \in Kind |-> Zero]]
      /\ live' = live \cup {p} /\ abs_process_count' = n
      /\ p_pid' = [p_pid EXCEPT ![p] = n]
      /\ p_s' = [[p_s EXCEPT ![c] = cpu] EXCEPT ![p] = s]
      /\ orderly' = orderly \cup {p} /\ handling' = [handling EXCEPT ![p] = <<>>]
      /\ UNCHANGED g_current_process
  BY DEF createProcess, Calls, allocPcb, saved
<1>3. /\ c \in live /\ c \in Proc /\ c # NULL /\ c # p
      /\ cpu \in State /\ cpu.own = p_pid[c]
  BY <1>2, ZeroIs, PassUpAssumption DEF Inv, TypeOK, Running, OwnStates, Owns
<1>4. cpu' \in State /\ cpu'.own = p_pid[c]
  BY <1>1, <1>3, SetReg
<1>5. s \in State /\ s.own = n /\ n \in Nat
  BY DEF State, Inv, TypeOK
<1> HIDE DEF s, n
<1>6. TypeOK'
  <2>1. /\ p_s' \in [Proc -> State \cup {Zero}]
        /\ old_area' \in [Proc -> [Kind -> State \cup Zeros]]
        /\ new_area' \in [Proc -> [Kind -> State \cup {Zero}]]
    BY <1>2, <1>3, <1>5, ZeroIs DEF Inv, TypeOK
  <2>2. <<>> \in Seq(Kind)
    OBVIOUS
  <2>3. /\ p_pid' \in [Proc -> Nat] /\ abs_process_count' \in Nat
        /\ orderly' \subseteq Proc /\ handling' \in [Proc -> Seq(Kind)]
        /\ g_current_process' \in live' \cup {NULL} /\ live' \subseteq Proc
    BY <1>2, <1>3, <1>5, <2>2 DEF Inv, TypeOK
  <2> QED BY <1>2, <1>3, <1>4, <2>1, <2>3 DEF TypeOK
<1>7. OwnStates'
  <2>1. /\ p_pid'[p] = n /\ p_s'[p] = s
        /\ \A k \in Kind : old_area'[p][k] = Zero /\ new_area'[p][k] = Zero
        /\ p_s'[c] = cpu
        /\ \A q \in live : p_pid'[q] = p_pid[q]
        /\ \A q \in live \ {c} : p_s'[q] = p_s[q]
        /\ \A q \in live, k \in Kind : /\ old_area'[q][k] = old_area[q][k]
                                       /\ new_area'[q][k] = new_area[q][k]
    BY <1>2, <1>3 DEF Inv, TypeOK
  <2>2. \A q \in live : /\ p_s'[q].own = p_pid'[q]
                        /\ \A k \in Kind : /\ Owns(q, old_area[q][k])
                                           /\ Owns(q, new_area[q][k])
    <3>1. \A q \in live : p_s'[q].own = p_pid[q]
      BY <1>3, <2>1 DEF Inv, OwnStates
    <3> QED BY <2>1, <3>1 DEF Inv, OwnStates
  <2>3. Zero.at = "zero"
    BY ZeroIs
  <2>4. p_s'[c].own = p_pid'[c] /\ cpu'.own = p_pid'[c] /\ g_current_process' = c
    BY <1>2, <1>3, <1>4, <2>1
  <2>5. \A q \in live : /\ p_s'[q].own = p_pid'[q]
                        /\ \A k \in Kind : /\ Owns(q, old_area[q][k])'
                                           /\ Owns(q, new_area[q][k])'
    BY <2>1, <2>2 DEF Owns
  <2>6. /\ p_s'[p].own = p_pid'[p]
        /\ \A k \in Kind : Owns(p, old_area[p][k])' /\ Owns(p, new_area[p][k])'
    BY <1>5, <2>1, <2>3 DEF Owns
  <2> QED BY <1>2, <2>4, <2>5, <2>6 DEF OwnStates, Owns
<1> QED BY <1>6, <1>7 DEF Inv

LEMMA TerminateStep ==
  ASSUME Inv, terminateProcess
  PROVE  Inv'
<1>0. Running /\ p_s' = saved
  BY DEF terminateProcess, Calls
<1>1. CASE dies
  BY <1>0, <1>1, DiesStep
<1>2. CASE \E S \in SUBSET (live \ {g_current_process}) : terminate(S) /\ UNCHANGED cpu
  <2>1. PICK S \in SUBSET (live \ {g_current_process}) : terminate(S) /\ UNCHANGED cpu
    BY <1>2
  <2>2. /\ live' = live \ S /\ UNCHANGED <<g_current_process, cpu, p_pid, old_area, new_area,
                                           abs_process_count, orderly, handling>>
    BY <2>1 DEF terminate, history
  <2>3. /\ g_current_process \in live' /\ p_s' \in [Proc -> State \cup {Zero}]
        /\ \A q \in live : p_s'[q].own = p_pid[q]
    BY <1>0, <2>1, <2>2, SavedIs
  <2>4. TypeOK'
    BY <2>2, <2>3 DEF Inv, TypeOK
  <2>5. OwnStates'
    BY <2>2, <2>3 DEF Inv, OwnStates, Owns
  <2> QED BY <2>4, <2>5 DEF Inv
<1> QED BY <1>1, <1>2 DEF terminateProcess

LEMMA DispatchStep ==
  ASSUME Inv, NEW p \in Proc, dispatch(p)
  PROVE  Inv'
<1>1. /\ g_current_process' = p /\ p \in live /\ cpu' = p_s[p]
      /\ UNCHANGED <<live, p_pid, p_s, old_area, new_area, abs_process_count,
                     orderly, handling>>
  BY DEF dispatch, history
<1>2. p_s[p] \in State \cup {Zero} /\ p_s[p].own = p_pid[p]
  BY <1>1 DEF Inv, TypeOK, OwnStates
<1>3. TypeOK'
  BY <1>1, <1>2, ZeroIs, PassUpAssumption DEF Inv, TypeOK
<1>4. OwnStates'
  BY <1>1, <1>2 DEF Inv, OwnStates, Owns
<1> QED BY <1>3, <1>4 DEF Inv

-----------------------------------------------------------------------------
LEMMA InitInv == Init => Inv
<1> SUFFICES ASSUME Init PROVE Inv
  OBVIOUS
<1>1. PICK first \in Proc :
        /\ live = {first} /\ orderly = {first}
        /\ p_pid = [p \in Proc |-> IF p = first THEN 1 ELSE 0]
        /\ p_s = [p \in Proc |-> IF p = first
                   THEN [own |-> 1, at |-> "main", mode |-> "system", r |-> 0] ELSE Zero]
  BY DEF Init
<1>2. [own |-> 1, at |-> "main", mode |-> "system", r |-> 0] \in State
  BY DEF State, Mode, Reg
<1>3. <<>> \in Seq(Kind)
  OBVIOUS
<1>4. TypeOK
  BY <1>1, <1>2, <1>3, ZeroIs DEF Init, TypeOK
<1>5. OwnStates
  BY <1>1, ZeroIs DEF Init, OwnStates, Owns
<1> QED BY <1>4, <1>5 DEF Inv

LEMMA NextInv == Inv /\ [Next]_vars => Inv'
<1> SUFFICES ASSUME Inv, [Next]_vars PROVE Inv'
  OBVIOUS
<1>1. CASE Exception
  <2>1. CASE sysAboveBP
    BY <2>1, PassUpStep DEF sysAboveBP, Reg
  <2>2. CASE reservedInstr
    BY <2>2, PassUpStep DEF reservedInstr, Reg, RESERVEDINSTR
  <2>3. ASSUME NEW k \in Kind, trap(k) PROVE Inv'
    BY <2>3, PassUpStep DEF trap
  <2> QED BY <1>1, <2>1, <2>2, <2>3 DEF Exception
<1>2. CASE Call
  <2>1. ASSUME returns PROVE Inv'
    BY <2>1, GoesOnStep DEF returns, Calls
  <2> QED BY <1>2, <2>1, CommonSysStep, ExitTrapStep, CreateStep, TerminateStep DEF Call
<1>3. CASE computes
  BY <1>3, ComputesStep
<1>4. CASE interrupt
  BY <1>4, GoesOnStep DEF interrupt
<1>5. CASE suspend
  BY <1>5, GoesOnStep DEF suspend
<1>6. CASE stopped \/ UNCHANGED vars
  BY <1>6 DEF stopped, vars, history, Inv, TypeOK, OwnStates, Owns
<1>7. ASSUME NEW p \in Proc, dispatch(p) PROVE Inv'
  BY <1>7, DispatchStep
<1> QED BY <1>1, <1>2, <1>3, <1>4, <1>5, <1>6, <1>7 DEF Next

LEMMA InvHolds == Spec => []Inv
BY InitInv, NextInv, PTL DEF Spec

\* The states that the handlers keep of processes are states of processes.
THEOREM StatesTyped == Spec => []TypeOK
BY InvHolds, PTL DEF Inv

\* Whatever handlers processes specify, use and leave, and whatever pcbs are
\* used again, every state a process can come to run in is its own.
THEOREM StatesOwned == Spec => []OwnStates
BY InvHolds, PTL DEF Inv

-----------------------------------------------------------------------------
(* The stack of exceptions.  The handlers find the old area to return to    *)
(* by the kind of the exception alone.  That this is the top of a stack     *)
(* needs an invariant: each program an orderly process is in was entered    *)
(* from the one below.                                                      *)

CallerOf(h, i) == IF i = 1 THEN "main" ELSE h[i-1]

\* Of a process in state s that handles the exceptions h.
Chained(h, areas, s) ==
  /\ IsInjective(h)
  /\ s.at = CallerOf(h, Len(h) + 1)
  /\ \A i \in 1 .. Len(h) : areas[h[i]].at = CallerOf(h, i)

Linked == \A p \in live \cap orderly : Chained(handling[p], old_area[p], StateOf(p))

HandlersAt == \A p \in Proc, k \in Kind : new_area[p][k].at \in {k, "zero"}

SInv == Inv /\ Linked /\ HandlersAt

-----------------------------------------------------------------------------
(* Frames *)

AnyState == State \cup Zeros
FrameRec == [at : Kind \cup {"main", "zero"}, mode : Mode, r : Reg]

LEMMA FrameType ==
  ASSUME NEW s \in AnyState
  PROVE  Frame(s) \in FrameRec /\ Frame(s).at = s.at
BY DEF AnyState, State, Zeros, Zero, FrameRec, Frame, Mode, Reg

\* Of a frame and of a state with a value returned in a1.
LEMMA FrameReg ==
  ASSUME NEW s \in AnyState, NEW reg \in Reg
  PROVE  [Frame(s) EXCEPT !.r = reg] = Frame([s EXCEPT !.r = reg])
BY DEF AnyState, State, Zeros, Zero, Frame

\* The frames f are those of the kinds in h, and that of s on top of them.
Framed(f, h, areas, s) ==
  /\ f \in Seq(FrameRec) /\ Len(f) = Len(h) + 1 /\ f # <<>>
  /\ \A i \in 1 .. Len(h) : f[i] = Frame(areas[h[i]])
  /\ f[Len(h) + 1] = Frame(s)

LEMMA FrameSeqType ==
  ASSUME NEW h \in Seq(Kind), NEW areas \in [Kind -> AnyState], NEW s \in AnyState
  PROVE  Framed(FrameSeq(h, areas, s), h, areas, s)
<1> DEFINE f == FrameSeq(h, areas, s)
<1>1. Len(h) \in Nat /\ \A i \in 1 .. Len(h) : h[i] \in Kind
  BY LenProperties, ElementOfSeq
<1>2. /\ DOMAIN f = 1 .. Len(h) + 1
      /\ \A i \in 1 .. Len(h) : f[i] = Frame(areas[h[i]])
      /\ f[Len(h) + 1] = Frame(s)
  BY <1>1 DEF FrameSeq
<1>3. \A i \in 1 .. Len(h) + 1 : f[i] \in FrameRec
  <2>1. \A i \in 1 .. Len(h) : f[i] \in FrameRec
    BY <1>1, <1>2, FrameType
  <2>2. f[Len(h) + 1] \in FrameRec
    BY <1>2, FrameType
  <2> QED BY <1>1, <2>1, <2>2
<1>4. f = [i \in 1 .. Len(h) + 1 |-> f[i]]
  BY DEF FrameSeq
<1> HIDE DEF f
<1>5. f \in [1 .. Len(h) + 1 -> FrameRec]
  BY <1>2, <1>3, <1>4
<1>6. Len(h) + 1 \in Nat
  BY <1>1
<1>7. f \in Seq(FrameRec) /\ Len(f) = Len(h) + 1
  BY <1>2, <1>5, <1>6, LenProperties, SeqDef
<1>8. f # <<>>
  BY <1>1, <1>7, EmptySeq
<1>9. Framed(f, h, areas, s)
  BY <1>2, <1>7, <1>8 DEF Framed
<1> QED BY <1>9 DEF f

\* Two sequences of frames are equal, element by element.
LEMMA SameFrames ==
  ASSUME NEW f \in Seq(FrameRec), NEW g \in Seq(FrameRec), Len(f) = Len(g),
         \A i \in 1 .. Len(f) : f[i] = g[i]
  PROVE  f = g
BY SeqEqual

\* The top frame of a stack, and the frames below.
LEMMA FrontFrames ==
  ASSUME NEW f \in Seq(FrameRec), f # <<>>
  PROVE  /\ Front(f) \in Seq(FrameRec) /\ Len(Front(f)) = Len(f) - 1
         /\ \A i \in 1 .. Len(f) - 1 : Front(f)[i] = f[i]
         /\ Last(f) = f[Len(f)]
<1>1. Len(f) \in Nat \ {0}
  BY LenProperties, EmptySeq
<1>2. 1 \in 1 .. Len(f) + 1 /\ Len(f) - 1 \in 1-1 .. Len(f)
  BY <1>1
<1> DEFINE t == Front(f)
<1>3. /\ t \in Seq(FrameRec) /\ Len(t) = Len(f)-1-1+1
      /\ \A k \in 1 .. Len(f)-1-1+1 : t[k] = f[1+k-1]
  BY <1>2, SubList, Zenon DEF Front
<1> HIDE DEF t
<1> QED BY <1>1, <1>3 DEF t, Last

\* The top program goes on with another value in a1.
LEMMA TopReg ==
  ASSUME NEW h \in Seq(Kind), NEW areas \in [Kind -> AnyState], NEW s \in AnyState,
         NEW reg \in Reg
  PROVE  Stack!WithTop(FrameSeq(h, areas, s), reg)
           = FrameSeq(h, areas, [s EXCEPT !.r = reg])
<1> DEFINE f == FrameSeq(h, areas, s)
           t == [s EXCEPT !.r = reg]
           g == FrameSeq(h, areas, t)
           top == [Last(f) EXCEPT !.r = reg]
           w == Append(Front(f), top)
<1>1. t \in AnyState
  BY SetReg DEF AnyState
<1> HIDE DEF t
<1>2. /\ f \in Seq(FrameRec) /\ Len(f) = Len(h) + 1 /\ f # <<>>
      /\ \A i \in 1 .. Len(h) : f[i] = Frame(areas[h[i]])
      /\ f[Len(h) + 1] = Frame(s)
  <2>1. Framed(f, h, areas, s)
    BY FrameSeqType
  <2> QED BY <2>1 DEF Framed
<1>3. /\ g \in Seq(FrameRec) /\ Len(g) = Len(h) + 1 /\ g # <<>>
      /\ \A i \in 1 .. Len(h) : g[i] = Frame(areas[h[i]])
      /\ g[Len(h) + 1] = Frame(t)
  <2>1. Framed(g, h, areas, t)
    BY <1>1, FrameSeqType
  <2> QED BY <2>1 DEF Framed
<1> HIDE DEF f, g
<1>4. Len(h) \in Nat
  BY LenProperties
<1>5. /\ Front(f) \in Seq(FrameRec) /\ Len(Front(f)) = Len(h)
      /\ \A i \in 1 .. Len(h) : Front(f)[i] = f[i]
      /\ Last(f) = Frame(s)
  BY <1>2, <1>4, FrontFrames
<1>6. top = Frame(t) /\ top \in FrameRec
  BY <1>1, <1>5, FrameReg, FrameType DEF t
<1> HIDE DEF top
<1>7. /\ w \in Seq(FrameRec) /\ Len(w) = Len(h) + 1
      /\ \A i \in 1 .. Len(h) : w[i] = Front(f)[i]
      /\ w[Len(h) + 1] = top
  BY <1>5, <1>6, AppendProperties
<1> HIDE DEF w
<1>8. \A i \in 1 .. Len(h) + 1 : w[i] = g[i]
  BY <1>2, <1>3, <1>4, <1>5, <1>6, <1>7
<1>9. w = g
  BY <1>3, <1>7, <1>8, SameFrames
<1> QED BY <1>2, <1>9 DEF Stack!WithTop, Stack!Front, Stack!Last, Front, Last, f, g, t, top, w

\* A program in state s is interrupted and its handler entered in state t.
LEMMA Pushed ==
  ASSUME NEW h \in Seq(Kind), NEW areas \in [Kind -> AnyState], NEW s \in AnyState,
         NEW k \in Kind, NEW t \in AnyState, k \notin ToSet(h)
  PROVE  FrameSeq(Append(h, k), [areas EXCEPT ![k] = s], t)
           = Append(FrameSeq(h, areas, s), Frame(t))
<1> DEFINE h2 == Append(h, k)
           a2 == [areas EXCEPT ![k] = s]
           f == FrameSeq(h, areas, s)
           g == FrameSeq(h2, a2, t)
           w == Append(f, Frame(t))
<1>1. /\ Len(h) \in Nat /\ h2 \in Seq(Kind) /\ Len(h2) = Len(h) + 1
      /\ \A i \in 1 .. Len(h) : h2[i] = h[i] /\ h[i] \in Kind /\ h[i] # k
      /\ h2[Len(h) + 1] = k
  BY LenProperties, ElementOfSeq, AppendProperties DEF ToSet
<1>2. a2 \in [Kind -> AnyState] /\ a2[k] = s /\ \A j \in Kind : j # k => a2[j] = areas[j]
  OBVIOUS
<1> HIDE DEF h2, a2
<1>3. /\ f \in Seq(FrameRec) /\ Len(f) = Len(h) + 1 /\ f # <<>>
      /\ \A i \in 1 .. Len(h) : f[i] = Frame(areas[h[i]])
      /\ f[Len(h) + 1] = Frame(s)
  <2>1. Framed(f, h, areas, s)
    BY FrameSeqType
  <2> QED BY <2>1 DEF Framed
<1>4. /\ g \in Seq(FrameRec) /\ Len(g) = Len(h2) + 1 /\ g # <<>>
      /\ \A i \in 1 .. Len(h2) : g[i] = Frame(a2[h2[i]])
      /\ g[Len(h2) + 1] = Frame(t)
  <2>1. Framed(g, h2, a2, t)
    BY <1>1, <1>2, FrameSeqType
  <2> QED BY <2>1 DEF Framed
<1> HIDE DEF f, g
<1>5. /\ w \in Seq(FrameRec) /\ Len(w) = Len(h) + 2
      /\ \A i \in 1 .. Len(h) + 1 : w[i] = f[i]
      /\ w[Len(h) + 2] = Frame(t)
  BY <1>1, <1>3, FrameType, AppendProperties
<1> HIDE DEF w
<1>6. ASSUME NEW i \in 1 .. Len(h)
      PROVE  w[i] = g[i]
  <2>1. i \in 1 .. Len(h) + 1 /\ i \in 1 .. Len(h2)
    BY <1>1
  <2>2. h2[i] = h[i] /\ a2[h2[i]] = areas[h[i]]
    BY <1>1, <1>2
  <2> QED BY <1>3, <1>4, <1>5, <2>1, <2>2
<1>7. w[Len(h) + 1] = g[Len(h) + 1] /\ w[Len(h) + 2] = g[Len(h) + 2]
  BY <1>1, <1>2, <1>3, <1>4, <1>5
<1>8. w = g
  <2>1. \A i \in 1 .. Len(h) + 2 : i \in 1 .. Len(h) \/ i = Len(h) + 1 \/ i = Len(h) + 2
    BY <1>1
  <2>2. \A i \in 1 .. Len(w) : w[i] = g[i]
    BY <1>5, <1>6, <1>7, <2>1
  <2>3. Len(w) = Len(g)
    BY <1>1, <1>4, <1>5
  <2> QED BY <1>4, <1>5, <2>2, <2>3, SameFrames
<1> QED BY <1>8 DEF f, g, w, h2, a2

\* The front of a list of kinds.
LEMMA FrontKinds ==
  ASSUME NEW h \in Seq(Kind), h # <<>>
  PROVE  /\ Len(h) \in Nat \ {0} /\ Last(h) = h[Len(h)] /\ Last(h) \in Kind
         /\ Front(h) \in Seq(Kind) /\ Len(Front(h)) = Len(h) - 1
         /\ \A i \in 1 .. Len(h) - 1 : Front(h)[i] = h[i] /\ h[i] \in Kind
         /\ IsInjective(h) => /\ IsInjective(Front(h))
                              /\ \A i \in 1 .. Len(h) - 1 : h[i] # Last(h)
<1>1. Len(h) \in Nat \ {0} /\ DOMAIN h = 1 .. Len(h) /\ h[Len(h)] \in Kind
  BY LenProperties, EmptySeq, ElementOfSeq
<1>2. 1 \in 1 .. Len(h) + 1 /\ Len(h) - 1 \in 1-1 .. Len(h)
  BY <1>1
<1> DEFINE t == Front(h)
<1>3. /\ t \in Seq(Kind) /\ Len(t) = Len(h)-1-1+1
      /\ \A k \in 1 .. Len(h)-1-1+1 : t[k] = h[1+k-1]
  BY <1>2, SubList, Zenon DEF Front
<1> HIDE DEF t
<1>4. /\ Len(t) = Len(h) - 1 /\ DOMAIN t = 1 .. Len(h) - 1
      /\ \A i \in 1 .. Len(h) - 1 : t[i] = h[i]
  BY <1>1, <1>3, LenProperties
<1>5. \A i \in 1 .. Len(h) - 1 : h[i] \in Kind
  BY <1>1, ElementOfSeq
<1>6. ASSUME IsInjective(h)
      PROVE  IsInjective(t) /\ \A i \in 1 .. Len(h) - 1 : h[i] # h[Len(h)]
  BY <1>1, <1>4, <1>6 DEF IsInjective
<1> QED BY <1>1, <1>3, <1>4, <1>5, <1>6 DEF t, Last

\* The handler of k, the last entered, returns reg.
LEMMA Popped ==
  ASSUME NEW h \in Seq(Kind), NEW areas \in [Kind -> AnyState], NEW s \in AnyState,
         NEW reg \in Reg, h # <<>>, IsInjective(h)
  PROVE  LET k == Last(h)
             t == [areas[k] EXCEPT !.r = reg]
         IN  FrameSeq(Front(h), [areas EXCEPT ![k] = t], t)
               = Stack!WithTop(Front(FrameSeq(h, areas, s)), reg)
<1> DEFINE k == Last(h)
           t == [areas[k] EXCEPT !.r = reg]
           a2 == [areas EXCEPT ![k] = t]
           f == FrameSeq(h, areas, s)
           h2 == Front(h)
           low == FrameSeq(h2, areas, areas[k])
<1>1. /\ Len(h) \in Nat \ {0} /\ k = h[Len(h)] /\ k \in Kind
      /\ h2 \in Seq(Kind) /\ Len(h2) = Len(h) - 1
      /\ \A i \in 1 .. Len(h) - 1 : h2[i] = h[i] /\ h[i] \in Kind /\ h[i] # k
  BY FrontKinds
<1> HIDE DEF k, h2
<1>2. t \in AnyState
  BY <1>1, SetReg DEF AnyState
<1>3. Stack!WithTop(low, reg) = FrameSeq(h2, areas, t)
  BY <1>1, TopReg
<1>4. FrameSeq(h2, areas, t) = FrameSeq(h2, a2, t)
  <2>1. a2 \in [Kind -> AnyState] /\ \A j \in Kind : j # k => a2[j] = areas[j]
    BY <1>2
  <2> DEFINE f1 == FrameSeq(h2, areas, t)
             f2 == FrameSeq(h2, a2, t)
  <2> HIDE DEF t, a2
  <2>2. /\ f1 \in Seq(FrameRec) /\ Len(f1) = Len(h2) + 1
        /\ \A i \in 1 .. Len(h2) : f1[i] = Frame(areas[h2[i]])
        /\ f1[Len(h2) + 1] = Frame(t)
    <3>1. Framed(f1, h2, areas, t)
      BY <1>1, <1>2, FrameSeqType
    <3> QED BY <3>1 DEF Framed
  <2>3. /\ f2 \in Seq(FrameRec) /\ Len(f2) = Len(h2) + 1
        /\ \A i \in 1 .. Len(h2) : f2[i] = Frame(a2[h2[i]])
        /\ f2[Len(h2) + 1] = Frame(t)
    <3>1. Framed(f2, h2, a2, t)
      BY <1>1, <1>2, <2>1, FrameSeqType
    <3> QED BY <3>1 DEF Framed
  <2> HIDE DEF f1, f2
  <2>4. \A i \in 1 .. Len(h2) + 1 : f1[i] = f2[i]
    BY <1>1, <2>1, <2>2, <2>3
  <2>5. f1 = f2
    BY <2>2, <2>3, <2>4, SameFrames
  <2> QED BY <2>5 DEF f1, f2
<1>5. Front(f) = low
  <2>1. /\ f \in Seq(FrameRec) /\ Len(f) = Len(h) + 1 /\ f # <<>>
        /\ \A i \in 1 .. Len(h) : f[i] = Frame(areas[h[i]])
    <3>1. Framed(f, h, areas, s)
      BY FrameSeqType
    <3> QED BY <3>1 DEF Framed
  <2>0. areas[k] \in AnyState
    BY <1>1
  <2>2. /\ low \in Seq(FrameRec) /\ Len(low) = Len(h2) + 1 /\ low # <<>>
        /\ \A i \in 1 .. Len(h2) : low[i] = Frame(areas[h2[i]])
        /\ low[Len(h2) + 1] = Frame(areas[k])
    <3>1. Framed(low, h2, areas, areas[k])
      BY <1>1, <2>0, FrameSeqType
    <3> QED BY <3>1 DEF Framed
  <2> HIDE DEF f, low
  <2>3. /\ Front(f) \in Seq(FrameRec) /\ Len(Front(f)) = Len(h)
        /\ \A i \in 1 .. Len(h) : Front(f)[i] = f[i]
    BY <1>1, <2>1, FrontFrames
  <2>4. ASSUME NEW i \in 1 .. Len(h)
        PROVE  f[i] = low[i]
    <3>1. CASE i = Len(h)
      BY <1>1, <2>1, <2>2, <3>1
    <3>2. CASE i # Len(h)
      <4>1. i \in 1 .. Len(h) - 1 /\ i \in 1 .. Len(h2)
        BY <1>1, <3>2
      <4> QED BY <1>1, <2>1, <2>2, <4>1
    <3> QED BY <3>1, <3>2
  <2>5. Len(low) = Len(h)
    BY <1>1, <2>2
  <2> QED BY <2>2, <2>3, <2>4, <2>5, SameFrames
<1> QED BY <1>3, <1>4, <1>5 DEF k, h2

-----------------------------------------------------------------------------
(* Chains *)

\* An exception that is not being handled has no frame on the stack.
LEMMA HandlingIs ==
  ASSUME NEW h \in Seq(Kind), NEW areas \in [Kind -> AnyState], NEW s \in AnyState,
         Chained(h, areas, s), NEW k \in Kind, k \notin ToSet(h)
  PROVE  k \notin Stack!Handling(FrameSeq(h, areas, s))
<1> DEFINE f == FrameSeq(h, areas, s)
<1>1. /\ Len(h) \in Nat /\ DOMAIN h = 1 .. Len(h)
      /\ \A i \in 1 .. Len(h) : h[i] \in Kind /\ h[i] # k
  BY LenProperties, ElementOfSeq DEF ToSet
<1>2. k # "main"
  BY PassUpAssumption
<1>3. \A i \in 1 .. Len(h) + 1 : CallerOf(h, i) # k
  BY <1>1, <1>2 DEF CallerOf
<1>4. /\ f \in Seq(FrameRec) /\ Len(f) = Len(h) + 1 /\ f # <<>>
      /\ \A i \in 1 .. Len(h) : f[i] = Frame(areas[h[i]])
      /\ f[Len(h) + 1] = Frame(s)
  <2>1. Framed(f, h, areas, s)
    BY FrameSeqType
  <2> QED BY <2>1 DEF Framed
<1> HIDE DEF f
<1>5. ASSUME NEW i \in DOMAIN f
      PROVE  f[i].at # k
  <2>1. i \in 1 .. Len(h) \/ i = Len(h) + 1
    BY <1>1, <1>4, LenProperties
  <2>2. CASE i \in 1 .. Len(h)
    <3>1. areas[h[i]] \in AnyState /\ areas[h[i]].at = CallerOf(h, i) /\ i \in 1 .. Len(h) + 1
      BY <1>1, <2>2 DEF Chained
    <3> QED BY <1>3, <1>4, <2>2, <3>1, FrameType
  <2>3. CASE i = Len(h) + 1
    <3>1. s.at = CallerOf(h, i) /\ i \in 1 .. Len(h) + 1
      BY <1>1, <2>3 DEF Chained
    <3> QED BY <1>3, <1>4, <2>3, <3>1, FrameType
  <2> QED BY <2>1, <2>2, <2>3
<1> QED BY <1>5 DEF f, Stack!Handling

LEMMA ChainedPush ==
  ASSUME NEW h \in Seq(Kind), NEW areas \in [Kind -> AnyState], NEW s \in AnyState,
         Chained(h, areas, s), NEW k \in Kind, k \notin ToSet(h), NEW t, t.at = k
  PROVE  Chained(Append(h, k), [areas EXCEPT ![k] = s], t)
<1> DEFINE h2 == Append(h, k)
           a2 == [areas EXCEPT ![k] = s]
<1>1. /\ Len(h) \in Nat /\ Len(h2) = Len(h) + 1 /\ DOMAIN h = 1 .. Len(h)
      /\ \A i \in 1 .. Len(h) : h2[i] = h[i] /\ h[i] \in Kind /\ h[i] # k
      /\ h2[Len(h) + 1] = k
  BY LenProperties, ElementOfSeq, AppendProperties DEF ToSet
<1>2. IsInjective(h2)
  BY AppendNew DEF Chained
<1>3. a2[k] = s /\ \A j \in Kind : j # k => a2[j] = areas[j]
  OBVIOUS
<1> HIDE DEF h2, a2
<1>4. \A i \in 1 .. Len(h) + 1 : CallerOf(h2, i) = CallerOf(h, i)
  BY <1>1 DEF CallerOf
<1>5. CallerOf(h2, Len(h2) + 1) = k
  BY <1>1 DEF CallerOf
<1>6. ASSUME NEW i \in 1 .. Len(h2)
      PROVE  a2[h2[i]].at = CallerOf(h2, i)
  <2>1. i \in 1 .. Len(h) \/ i = Len(h) + 1
    BY <1>1
  <2>2. CASE i \in 1 .. Len(h)
    <3>1. a2[h2[i]] = areas[h[i]] /\ i \in 1 .. Len(h) + 1
      BY <1>1, <1>3, <2>2
    <3> QED BY <1>4, <2>2, <3>1 DEF Chained
  <2>3. CASE i = Len(h) + 1
    BY <1>1, <1>3, <1>4, <2>3 DEF Chained
  <2> QED BY <2>1, <2>2, <2>3
<1> QED BY <1>2, <1>5, <1>6 DEF Chained, h2, a2

LEMMA ChainedPop ==
  ASSUME NEW h \in Seq(Kind), NEW areas \in [Kind -> AnyState], NEW s \in AnyState,
         Chained(h, areas, s), h # <<>>, NEW reg \in Reg
  PROVE  LET t == [areas[Last(h)] EXCEPT !.r = reg]
         IN  Chained(Front(h), [areas EXCEPT ![Last(h)] = t], t)
<1> DEFINE k == Last(h)
           t == [areas[k] EXCEPT !.r = reg]
           a2 == [areas EXCEPT ![k] = t]
           h2 == Front(h)
<1>1. /\ Len(h) \in Nat \ {0} /\ k = h[Len(h)] /\ k \in Kind
      /\ Len(h2) = Len(h) - 1
      /\ \A i \in 1 .. Len(h) - 1 : h2[i] = h[i] /\ h[i] \in Kind /\ h[i] # k
      /\ IsInjective(h2)
  BY FrontKinds DEF Chained
<1> HIDE DEF k, h2
<1>2. t.at = areas[k].at
  BY <1>1, SetReg DEF AnyState
<1>3. \A j \in Kind : j # k => a2[j] = areas[j]
  OBVIOUS
<1> HIDE DEF t, a2
<1>4. \A i \in 1 .. Len(h) : CallerOf(h2, i) = CallerOf(h, i)
  BY <1>1 DEF CallerOf
<1>5. t.at = CallerOf(h2, Len(h2) + 1)
  BY <1>1, <1>2, <1>4 DEF Chained
<1>6. \A i \in 1 .. Len(h2) : a2[h2[i]].at = CallerOf(h2, i)
  BY <1>1, <1>3, <1>4 DEF Chained
<1> QED BY <1>1, <1>5, <1>6 DEF Chained, k, h2, t, a2

-----------------------------------------------------------------------------
(* Processes *)

LEMMA ProcIs ==
  ASSUME SInv, NEW p \in live
  PROVE  /\ p \in Proc /\ handling[p] \in Seq(Kind)
         /\ old_area[p] \in [Kind -> AnyState] /\ StateOf(p) \in AnyState
         /\ p \in orderly => Chained(handling[p], old_area[p], StateOf(p))
BY ZeroIs DEF SInv, Inv, TypeOK, StateOf, AnyState, Linked

\* A process that a step leaves alone.
LEMMA OtherKept ==
  ASSUME SInv, NEW q \in Proc,
         q \in live' <=> q \in live, q \in orderly' <=> q \in orderly,
         handling'[q] = handling[q], old_area'[q] = old_area[q],
         StateOf(q)' = StateOf(q)
  PROVE  /\ Frames(q)' = Frames(q)
         /\ q \in live' \cap orderly' =>
              Chained(handling'[q], old_area'[q], StateOf(q)')
<1>1. Frames(q)' = Frames(q)
  BY DEF Frames
<1>2. q \in live \cap orderly => Chained(handling[q], old_area[q], StateOf(q))
  BY ProcIs
<1> QED BY <1>1, <1>2

\* A step of the running process, on its frames only.
LEMMA BecomesWhen ==
  ASSUME SInv, Running, UNCHANGED <<g_current_process, live>>, NEW s,
         Frames(g_current_process)' = s,
         \A q \in Proc : q # g_current_process => Frames(q)' = Frames(q)
  PROVE  Stack!Becomes(s)
<1>1. g_current_process \in Proc /\ g_current_process # NULL
  BY SavedIs DEF SInv, Inv, TypeOK, Running
<1>2. [p \in Proc |-> Frames(p)]'
        = [[p \in Proc |-> Frames(p)] EXCEPT ![g_current_process] = s]
  BY <1>1
<1> QED BY <1>1, <1>2 DEF Stack!Becomes

\* A step that no process sees.
LEMMA StutterWhen ==
  ASSUME UNCHANGED <<g_current_process, live>>,
         \A q \in Proc : Frames(q)' = Frames(q)
  PROVE  UNCHANGED Stack!vars
<1>1. [p \in Proc |-> Frames(p)]' = [p \in Proc |-> Frames(p)]
  OBVIOUS
<1> QED BY <1>1 DEF Stack!vars

-----------------------------------------------------------------------------
(* Steps *)

\* The running process and the others, in a step that saves its state.
LEMMA RunningIs ==
  ASSUME SInv, Running
  PROVE  LET p == g_current_process IN
         /\ p \in live /\ p \in Proc /\ p # NULL /\ cpu \in State /\ StateOf(p) = cpu
         /\ p_s' = saved => /\ p_s'[p] = cpu
                            /\ \A q \in Proc : q # p => p_s'[q] = p_s[q]
<1>1. g_current_process \in Proc /\ g_current_process \in live /\ cpu \in State
  BY ZeroIs DEF SInv, Inv, TypeOK, Running
<1>2. p_s \in [Proc -> State \cup {Zero}]
  BY DEF SInv, Inv, TypeOK
<1> QED BY <1>1, <1>2, PassUpAssumption DEF StateOf, saved

\* The running process goes on, with a value in a1.
LEMMA StepWhen ==
  ASSUME SInv, Running, NEW reg \in Reg, cpu' = [cpu EXCEPT !.r = reg],
         \A q \in Proc : q # g_current_process => p_s'[q] = p_s[q],
         UNCHANGED <<g_current_process, live, old_area, orderly, handling>>
  PROVE  Linked' /\ Stack!Next
<1> DEFINE p == g_current_process
<1>1. p \in live /\ p \in Proc /\ cpu \in State /\ StateOf(p) = cpu
  BY RunningIs
<1>2. StateOf(p)' = [StateOf(p) EXCEPT !.r = reg]
  BY <1>1 DEF StateOf
<1>3. ASSUME NEW q \in Proc, q # p
      PROVE  /\ Frames(q)' = Frames(q)
             /\ q \in live' \cap orderly' =>
                  Chained(handling'[q], old_area'[q], StateOf(q)')
  <2>1. StateOf(q)' = StateOf(q)
    BY <1>3 DEF StateOf
  <2> QED BY <2>1, OtherKept
<1>4. /\ handling[p] \in Seq(Kind) /\ old_area[p] \in [Kind -> AnyState] /\ StateOf(p) \in AnyState
      /\ p \in orderly => Chained(handling[p], old_area[p], StateOf(p))
  BY <1>1, ProcIs
<1>5. Frames(p)' = Stack!WithTop(Frames(p), reg)
  <2>1. CASE p \in orderly
    <3>1. /\ Frames(p)' = FrameSeq(handling[p], old_area[p], [StateOf(p) EXCEPT !.r = reg])
          /\ Frames(p) = FrameSeq(handling[p], old_area[p], StateOf(p))
      BY <1>1, <1>2, <2>1 DEF Frames
    <3> QED BY <1>4, <3>1, TopReg
  <2>2. CASE p \notin orderly
    BY <2>2 DEF Frames, Stack!WithTop
  <2> QED BY <2>1, <2>2
<1>6. p \in orderly => Chained(handling[p], old_area[p], StateOf(p)')
  BY <1>2, <1>4, SetReg DEF Chained, AnyState
<1>7. Linked'
  BY <1>3, <1>6, RunningIs DEF Linked, SInv, Inv, TypeOK
<1>8. Stack!Becomes(Stack!WithTop(Stack!Now, reg))
  BY <1>1, <1>3, <1>5, BecomesWhen DEF Stack!Now
<1>9. Stack!Next
  BY <1>8 DEF Stack!Next, Stack!Step, Stack!Becomes
<1> QED BY <1>7, <1>9

\* No state of a process changes.
LEMMA UnseenWhen ==
  ASSUME SInv, \A q \in Proc : StateOf(q)' = StateOf(q),
         UNCHANGED <<live, old_area, orderly, handling>>
  PROVE  Linked' /\ \A q \in Proc : Frames(q)' = Frames(q)
<1>1. \A q \in Proc : /\ Frames(q)' = Frames(q)
                      /\ q \in live' \cap orderly' =>
                           Chained(handling'[q], old_area'[q], StateOf(q)')
  BY OtherKept
<1> QED BY <1>1 DEF Linked, SInv, Inv, TypeOK

LEMMA StutterStep ==
  ASSUME SInv, Running, p_s' = saved,
         UNCHANGED <<g_current_process, cpu, live, old_area, orderly, handling>>
  PROVE  Linked' /\ UNCHANGED Stack!vars
<1>1. \A q \in Proc : StateOf(q)' = StateOf(q)
  BY RunningIs DEF StateOf
<1> QED BY <1>1, UnseenWhen, StutterWhen

LEMMA SuspendRefines ==
  ASSUME SInv, suspend
  PROVE  Linked' /\ Stack!Next
<1>1. /\ Running /\ p_s' = saved /\ g_current_process' = NULL
      /\ UNCHANGED <<live, old_area, orderly, handling>>
  BY DEF suspend, history
<1>2. \A q \in Proc : StateOf(q)' = StateOf(q)
  BY <1>1, RunningIs, PassUpAssumption DEF StateOf
<1>3. Linked' /\ \A q \in Proc : Frames(q)' = Frames(q)
  BY <1>1, <1>2, UnseenWhen
<1>4. [p \in Proc |-> Frames(p)]' = [p \in Proc |-> Frames(p)]
  BY <1>3
<1> QED BY <1>1, <1>3, <1>4 DEF Stack!Next, Stack!Stop

LEMMA DispatchRefines ==
  ASSUME SInv, NEW p \in Proc, dispatch(p)
  PROVE  Linked' /\ Stack!Next
<1>1. /\ g_current_process = NULL /\ p \in live
      /\ g_current_process' = p /\ cpu' = p_s[p]
      /\ UNCHANGED <<live, p_s, old_area, orderly, handling>>
  BY DEF dispatch, history
<1>2. \A q \in Proc : StateOf(q)' = StateOf(q)
  BY <1>1, PassUpAssumption DEF StateOf
<1>3. Linked' /\ \A q \in Proc : Frames(q)' = Frames(q)
  BY <1>1, <1>2, UnseenWhen
<1>4. [q \in Proc |-> Frames(q)]' = [q \in Proc |-> Frames(q)]
  BY <1>3
<1> QED BY <1>1, <1>3, <1>4 DEF Stack!Next, Stack!Run

\* The processes S are terminated.
LEMMA EndWhen ==
  ASSUME SInv, Running, p_s' = saved, NEW S \in SUBSET live, terminate(S),
         g_current_process \in S \/ UNCHANGED cpu
  PROVE  Linked' /\ Stack!Next
<1> DEFINE c == g_current_process
<1>1. /\ live' = live \ S /\ c' = (IF c \in S THEN NULL ELSE c)
      /\ UNCHANGED <<old_area, orderly, handling>>
  BY DEF terminate, history
<1>2. ASSUME NEW q \in Proc, q \notin S
      PROVE  StateOf(q)' = StateOf(q)
  BY <1>1, <1>2, RunningIs, PassUpAssumption DEF StateOf
<1>3. \A q \in Proc : q \notin S =>
        /\ Frames(q)' = Frames(q)
        /\ q \in live' \cap orderly' =>
             Chained(handling'[q], old_area'[q], StateOf(q)')
  BY <1>1, <1>2, OtherKept
<1>4. Linked'
  BY <1>1, <1>3 DEF Linked, SInv, Inv, TypeOK
<1>5. [q \in Proc |-> Frames(q)]'
        = [q \in Proc |-> IF q \in S THEN <<>> ELSE [r \in Proc |-> Frames(r)][q]]
  <2>1. \A q \in S : Frames(q)' = <<>>
    BY <1>1 DEF Frames
  <2> QED BY <1>3, <2>1
<1>6. Stack!End(S)
  BY <1>1, <1>5 DEF Stack!End
<1>7. S \in SUBSET Proc
  BY DEF SInv, Inv, TypeOK
<1> QED BY <1>4, <1>6, <1>7 DEF Stack!Next

LEMMA DiesRefines ==
  ASSUME SInv, Running, p_s' = saved, dies
  PROVE  Linked' /\ Stack!Next
BY EndWhen DEF dies

LEMMA TerminateRefines ==
  ASSUME SInv, terminateProcess
  PROVE  Linked' /\ Stack!Next
<1>1. Running /\ p_s' = saved
  BY DEF terminateProcess, Calls
<1>2. CASE dies
  BY <1>1, <1>2, DiesRefines
<1>3. CASE \E S \in SUBSET (live \ {g_current_process}) : terminate(S) /\ UNCHANGED cpu
  BY <1>1, <1>3, EndWhen
<1> QED BY <1>2, <1>3 DEF terminateProcess

\* An exception of the running process, or its SYS7, of kind k: in either case
\* one old area changes, to s, and the state becomes t.
LEMMA AreaWhen ==
  ASSUME SInv, Running, p_s' = saved, NEW k \in Kind, NEW s, NEW t, cpu' = t,
         old_area' = [old_area EXCEPT ![g_current_process][k] = s],
         NEW asCall \in BOOLEAN, NEW h, nests(g_current_process, asCall, h),
         UNCHANGED <<g_current_process, live>>,
         LET p == g_current_process IN
           p \in orderly /\ asCall => Chained(h, [old_area[p] EXCEPT ![k] = s], t)
  PROVE  LET p == g_current_process IN
         /\ Linked'
         /\ p \in orderly /\ asCall =>
              Stack!Becomes(FrameSeq(h, [old_area[p] EXCEPT ![k] = s], t))
         /\ ~(p \in orderly /\ asCall) => Stack!Becomes(<<>>)
<1> DEFINE p == g_current_process
           areas == [old_area[p] EXCEPT ![k] = s]
<1>1. p \in live /\ p \in Proc /\ \A q \in Proc : q # p => p_s'[q] = p_s[q]
  BY RunningIs
<1>2. /\ orderly \subseteq Proc /\ handling \in [Proc -> Seq(Kind)]
      /\ old_area \in [Proc -> [Kind -> AnyState]]
  BY DEF SInv, Inv, TypeOK, AnyState
<1>3. old_area'[p] = areas
  BY <1>1, <1>2
<1>4. ASSUME NEW q \in Proc, q # p
      PROVE  /\ Frames(q)' = Frames(q)
             /\ q \in live' \cap orderly' =>
                  Chained(handling'[q], old_area'[q], StateOf(q)')
  <2>1. StateOf(q)' = StateOf(q) /\ old_area'[q] = old_area[q]
    BY <1>1, <1>2, <1>4 DEF StateOf
  <2>2. handling'[q] = handling[q] /\ (q \in orderly' <=> q \in orderly)
    BY <1>2, <1>4 DEF nests
  <2> QED BY <2>1, <2>2, OtherKept
<1>5. StateOf(p)' = t
  BY DEF StateOf
<1> HIDE DEF areas
<1>6. CASE p \in orderly /\ asCall
  <2>1. handling'[p] = h /\ orderly' = orderly
    BY <1>1, <1>2, <1>6 DEF nests
  <2>2. Frames(p)' = FrameSeq(h, areas, t)
    BY <1>1, <1>3, <1>5, <1>6, <2>1 DEF Frames
  <2>3. Linked'
    BY <1>3, <1>4, <1>5, <1>6, <2>1 DEF Linked, SInv, Inv, TypeOK, areas
  <2>4. Stack!Becomes(FrameSeq(h, areas, t))
    BY <1>4, <2>2, BecomesWhen
  <2> QED BY <1>6, <2>3, <2>4 DEF areas
<1>7. CASE ~(p \in orderly /\ asCall)
  <2>1. p \notin orderly'
    BY <1>7 DEF nests
  <2>2. Linked'
    BY <1>4, <2>1 DEF Linked, SInv, Inv, TypeOK
  <2>3. Frames(p)' = <<>>
    BY <2>1 DEF Frames
  <2>4. Stack!Becomes(<<>>)
    BY <1>4, <2>3, BecomesWhen
  <2> QED BY <1>7, <2>2, <2>4
<1> QED BY <1>6, <1>7

LEMMA PassUpRefines ==
  ASSUME SInv, NEW k \in Kind, NEW info \in Reg, passUp(k, info)
  PROVE  Linked' /\ HandlersAt' /\ Stack!Next
<1> DEFINE p == g_current_process
           h == handling[p]
           asCall == k \notin ToSet(h)
           t == [new_area[p][k] EXCEPT !.r = info]
<1>0. Running /\ p_s' = saved
  BY DEF passUp
<1>1. CASE new_area[p][k] = Zero
  <2>1. dies
    BY <1>1 DEF passUp
  <2>2. UNCHANGED new_area
    BY <2>1 DEF dies, terminate
  <2> QED BY <1>0, <2>1, <2>2, DiesRefines DEF HandlersAt, SInv
<1>2. CASE new_area[p][k] # Zero
  <2>1. /\ old_area' = [old_area EXCEPT ![p][k] = cpu]
        /\ cpu' = t
        /\ new_area' = [new_area EXCEPT ![p][k] = cpu']
        /\ nests(p, asCall, Append(h, k))
        /\ UNCHANGED <<g_current_process, live>>
    BY <1>2 DEF passUp, keptFor
  <2>2. p \in live /\ p \in Proc /\ p # NULL /\ cpu \in State /\ StateOf(p) = cpu
    BY <1>0, RunningIs
  <2>3. /\ new_area \in [Proc -> [Kind -> State \cup {Zero}]]
        /\ new_area[p][k] \in State /\ new_area[p][k].at = k
    BY <1>2, <2>2, ZeroIs DEF SInv, Inv, TypeOK, HandlersAt
  <2>4. t \in State /\ t.at = k /\ t.mode = new_area[p][k].mode /\ t.r = info
    BY <2>3, SetReg
  <2> HIDE DEF t
  <2>5. HandlersAt'
    BY <2>1, <2>2, <2>3, <2>4 DEF HandlersAt, SInv
  <2>6. /\ h \in Seq(Kind) /\ old_area[p] \in [Kind -> AnyState] /\ cpu \in AnyState /\ t \in AnyState
        /\ p \in orderly => Chained(h, old_area[p], cpu)
    BY <2>2, <2>4, ProcIs DEF AnyState
  <2>7. p \in orderly /\ asCall =>
          Chained(Append(h, k), [old_area[p] EXCEPT ![k] = cpu], t)
    BY <2>4, <2>6, ChainedPush
  <2>8. /\ Linked'
        /\ p \in orderly /\ asCall =>
             Stack!Becomes(FrameSeq(Append(h, k), [old_area[p] EXCEPT ![k] = cpu], t))
        /\ ~(p \in orderly /\ asCall) => Stack!Becomes(<<>>)
    BY <1>0, <2>1, <2>7, AreaWhen
  <2>9. CASE p \in orderly /\ asCall
    <3>1. Stack!Now = FrameSeq(h, old_area[p], cpu)
      BY <2>2, <2>9 DEF Stack!Now, Frames
    <3>2. Frame(t) = [at |-> k, mode |-> t.mode, r |-> info] /\ t.mode \in Mode
      BY <2>4 DEF Frame, State
    <3>3. Stack!Becomes(Append(Stack!Now, [at |-> k, mode |-> t.mode, r |-> info]))
      <4>1. FrameSeq(Append(h, k), [old_area[p] EXCEPT ![k] = cpu], t)
              = Append(FrameSeq(h, old_area[p], cpu), Frame(t))
        BY <2>6, <2>9, Pushed
      <4>2. FrameSeq(Append(h, k), [old_area[p] EXCEPT ![k] = cpu], t)
              = Append(Stack!Now, [at |-> k, mode |-> t.mode, r |-> info])
        BY <3>1, <3>2, <4>1
      <4> QED BY <2>8, <2>9, <4>2, Zenon
    <3>4. Stack!Now # <<>> /\ k \notin Stack!Handling(Stack!Now)
      <4>1. Framed(FrameSeq(h, old_area[p], cpu), h, old_area[p], cpu)
        BY <2>6, FrameSeqType
      <4>2. FrameSeq(h, old_area[p], cpu) # <<>>
        BY <4>1 DEF Framed
      <4>3. k \notin Stack!Handling(FrameSeq(h, old_area[p], cpu))
        BY <2>6, <2>9, HandlingIs
      <4> QED BY <3>1, <4>2, <4>3
    <3>5. Stack!Raise(k, t.mode, info)
      BY <3>3, <3>4 DEF Stack!Raise
    <3>6. g_current_process # NULL /\ UNCHANGED <<g_current_process, live>>
      BY <2>1, <2>2
    <3>7. \E j \in Kind, mode \in Mode, reg \in Reg : Stack!Raise(j, mode, reg)
      BY <3>2, <3>5
    <3> QED BY <2>5, <2>8, <3>6, <3>7 DEF Stack!Next
  <2>10. CASE ~(p \in orderly /\ asCall)
    BY <2>5, <2>8, <2>10 DEF Stack!Next, Stack!Misuse, Stack!Becomes
  <2> QED BY <2>9, <2>10
<1> QED BY <1>1, <1>2

LEMMA ExitTrapRefines ==
  ASSUME SInv, NEW k \in Kind, NEW reg \in Reg, exitTrap(k, reg)
  PROVE  Linked' /\ HandlersAt' /\ Stack!Next
<1> DEFINE p == g_current_process
           h == handling[p]
           asCall == h # <<>> /\ Last(h) = k
           t == [old_area[p][k] EXCEPT !.r = reg]
<1>1. /\ Running /\ p_s' = saved
      /\ old_area' = [old_area EXCEPT ![p][k] = t]
      /\ cpu' = t
      /\ nests(p, asCall, Front(h))
      /\ UNCHANGED <<g_current_process, live, new_area>>
  BY DEF exitTrap, Calls
<1>2. p \in live /\ p \in Proc /\ p # NULL /\ cpu \in State /\ StateOf(p) = cpu
  BY <1>1, RunningIs
<1>3. /\ h \in Seq(Kind) /\ old_area[p] \in [Kind -> AnyState] /\ cpu \in AnyState
      /\ p \in orderly => Chained(h, old_area[p], cpu)
  BY <1>2, ProcIs DEF AnyState
<1>4. HandlersAt'
  BY <1>1 DEF HandlersAt, SInv
<1>5. p \in orderly /\ asCall =>
        Chained(Front(h), [old_area[p] EXCEPT ![k] = t], t)
  BY <1>3, ChainedPop
<1> HIDE DEF t
<1>6. /\ Linked'
      /\ p \in orderly /\ asCall =>
           Stack!Becomes(FrameSeq(Front(h), [old_area[p] EXCEPT ![k] = t], t))
      /\ ~(p \in orderly /\ asCall) => Stack!Becomes(<<>>)
  BY <1>1, <1>5, AreaWhen
<1>7. CASE p \in orderly /\ asCall
  <2> DEFINE f == FrameSeq(h, old_area[p], cpu)
  <2>1. Stack!Now = f
    BY <1>2, <1>7 DEF Stack!Now, Frames
  <2>2. FrameSeq(Front(h), [old_area[p] EXCEPT ![k] = t], t)
          = Stack!WithTop(Front(f), reg)
    BY <1>3, <1>7, Popped DEF t, Chained
  <2>3. Len(h) \in Nat \ {0} /\ k = h[Len(h)]
    BY <1>3, <1>7, FrontKinds
  <2>4. Len(f) > 1 /\ Last(f).at = k
    <3>1. /\ f \in Seq(FrameRec) /\ Len(f) = Len(h) + 1 /\ f # <<>>
          /\ f[Len(h) + 1] = Frame(cpu)
      <4>1. Framed(f, h, old_area[p], cpu)
        BY <1>3, FrameSeqType
      <4> HIDE DEF f
      <4> QED BY <4>1 DEF Framed
    <3>2. cpu.at = k
      BY <1>3, <1>7, <2>3 DEF Chained, CallerOf
    <3> HIDE DEF f
    <3> QED BY <1>3, <2>3, <3>1, <3>2, FrameType DEF Last
  <2> HIDE DEF f
  <2>5. Stack!Front(f) = Front(f) /\ Stack!Last(f) = Last(f)
    BY DEF Stack!Front, Front, Stack!Last, Last
  <2>6. Stack!Becomes(Stack!WithTop(Stack!Front(f), reg))
    BY <1>6, <1>7, <2>2, <2>5, Zenon
  <2>7. Stack!Return(k, reg)
    BY <2>1, <2>4, <2>5, <2>6 DEF Stack!Return
  <2> QED BY <1>1, <1>2, <1>4, <1>6, <2>7 DEF Stack!Next
<1>8. CASE ~(p \in orderly /\ asCall)
  BY <1>4, <1>6, <1>8 DEF Stack!Next, Stack!Misuse, Stack!Becomes
<1> QED BY <1>7, <1>8

LEMMA CommonSysRefines ==
  ASSUME SInv, NEW k \in Kind, NEW mode \in Mode, commonSys(k, mode)
  PROVE  Linked' /\ HandlersAt' /\ [Stack!Next]_(Stack!vars)
<1> DEFINE p == g_current_process
           h == [own |-> p_pid[p], at |-> k, mode |-> mode, r |-> 0]
<1>0. Running /\ p_s' = saved
  BY DEF commonSys, Calls
<1>1. CASE new_area[p][k] = Zero
  <2>1. /\ new_area' = [new_area EXCEPT ![p][k] = h]
        /\ UNCHANGED <<g_current_process, cpu, live, old_area, orderly, handling>>
    BY <1>1 DEF commonSys, history
  <2>2. h.at = k
    OBVIOUS
  <2> HIDE DEF h
  <2>3. HandlersAt'
    BY <1>0, <2>1, <2>2, RunningIs DEF HandlersAt, SInv, Inv, TypeOK
  <2> QED BY <1>0, <2>1, <2>3, StutterStep
<1>2. CASE new_area[p][k] # Zero
  <2>1. dies /\ UNCHANGED new_area
    BY <1>2 DEF commonSys, dies, terminate
  <2> QED BY <1>0, <2>1, DiesRefines DEF HandlersAt, SInv
<1> QED BY <1>1, <1>2

LEMMA CreateRefines ==
  ASSUME SInv, NEW p \in Proc, NEW mode \in Mode, NEW reg \in Reg,
         createProcess(p, mode, reg)
  PROVE  Linked' /\ HandlersAt' /\ Stack!Next
<1> DEFINE c == g_current_process
           s == [own |-> abs_process_count', at |-> "main", mode |-> mode, r |-> reg]
           frame == [at |-> "main", mode |-> mode, r |-> reg]
<1>1. PICK ret \in Reg : cpu' = [cpu EXCEPT !.r = ret]
  BY DEF createProcess
<1>2. /\ Running /\ p \notin live
      /\ old_area' = [old_area EXCEPT ![p] = [k \in Kind |-> Zero]]
      /\ new_area' = [new_area EXCEPT ![p] = [k \in Kind |-> Zero]]
      /\ live' = live \cup {p} /\ abs_process_count' = abs_process_count + 1
      /\ p_s' = [saved EXCEPT ![p] = s]
      /\ orderly' = orderly \cup {p} /\ handling' = [handling EXCEPT ![p] = <<>>]
      /\ UNCHANGED g_current_process
  BY DEF createProcess, Calls, allocPcb
<1>3. c \in live /\ c \in Proc /\ c # NULL /\ c # p /\ cpu \in State /\ StateOf(c) = cpu
  BY <1>2, RunningIs
<1>4. s \in AnyState /\ s.at = "main" /\ Frame(s) = frame
  BY <1>2 DEF AnyState, State, SInv, Inv, TypeOK, Frame
<1> HIDE DEF s
<1>5. /\ p_s' = [[p_s EXCEPT ![c] = cpu] EXCEPT ![p] = s]
      /\ p_s \in [Proc -> State \cup {Zero}] /\ live \subseteq Proc
      /\ orderly \subseteq Proc /\ handling \in [Proc -> Seq(Kind)]
      /\ old_area \in [Proc -> [Kind -> AnyState]]
  BY <1>2 DEF saved, SInv, Inv, TypeOK, AnyState
<1>6. /\ StateOf(p)' = s /\ handling'[p] = <<>> /\ p \in live' \cap orderly'
      /\ old_area'[p] \in [Kind -> AnyState]
  BY <1>2, <1>3, <1>5, ZeroIs DEF StateOf, AnyState
<1>7. ASSUME NEW q \in Proc, q # p
      PROVE  /\ q \in live' <=> q \in live
             /\ q \in orderly' <=> q \in orderly
             /\ handling'[q] = handling[q] /\ old_area'[q] = old_area[q]
  BY <1>2, <1>5, <1>7
<1>8. ASSUME NEW q \in Proc, q # p, q # c
      PROVE  /\ Frames(q)' = Frames(q)
             /\ q \in live' \cap orderly' =>
                  Chained(handling'[q], old_area'[q], StateOf(q)')
  <2>1. StateOf(q)' = StateOf(q)
    BY <1>2, <1>5, <1>8 DEF StateOf
  <2> QED BY <1>7, <1>8, <2>1, OtherKept
<1>9. /\ handling[c] \in Seq(Kind) /\ old_area[c] \in [Kind -> AnyState] /\ StateOf(c) \in AnyState
      /\ c \in orderly => Chained(handling[c], old_area[c], StateOf(c))
  BY <1>3, ProcIs
<1>10. StateOf(c)' = [StateOf(c) EXCEPT !.r = ret]
  BY <1>1, <1>2, <1>3 DEF StateOf
<1>11. Frames(c)' = Stack!WithTop(Frames(c), ret)
  <2>0. /\ c \in live' /\ (c \in orderly' <=> c \in orderly)
        /\ handling'[c] = handling[c] /\ old_area'[c] = old_area[c]
    BY <1>3, <1>7
  <2>1. CASE c \in orderly
    <3>1. /\ Frames(c)' = FrameSeq(handling[c], old_area[c], [StateOf(c) EXCEPT !.r = ret])
          /\ Frames(c) = FrameSeq(handling[c], old_area[c], StateOf(c))
      BY <1>2, <1>3, <1>10, <2>0, <2>1 DEF Frames
    <3> QED BY <1>9, <3>1, TopReg
  <2>2. CASE c \notin orderly
    BY <1>2, <1>3, <2>0, <2>2 DEF Frames, Stack!WithTop
  <2> QED BY <2>1, <2>2
<1>12. c \in orderly' => Chained(handling'[c], old_area'[c], StateOf(c)')
  <2>1. [StateOf(c) EXCEPT !.r = ret].at = StateOf(c).at
    BY <1>9, SetReg DEF AnyState
  <2> QED BY <1>3, <1>7, <1>9, <1>10, <2>1 DEF Chained
<1>13. Frames(p)' = <<frame>>
  <2>1. Len(<<>>) = 0
    OBVIOUS
  <2>2. Frames(p)' = FrameSeq(<<>>, old_area'[p], s)
    BY <1>6 DEF Frames
  <2>3. FrameSeq(<<>>, old_area'[p], s) = [i \in 1 .. 1 |-> frame]
    BY <1>4, <2>1 DEF FrameSeq
  <2>4. [i \in 1 .. 1 |-> frame] = <<frame>>
    OBVIOUS
  <2> QED BY <2>2, <2>3, <2>4
<1>14. Chained(handling'[p], old_area'[p], StateOf(p)')
  <2>1. Len(<<>>) = 0 /\ IsInjective(<<>>)
    BY DEF IsInjective
  <2> QED BY <1>4, <1>6, <2>1 DEF Chained, CallerOf
<1>15. Linked'
  BY <1>2, <1>5, <1>8, <1>12, <1>14 DEF Linked
<1>16. HandlersAt'
  BY <1>2, ZeroIs DEF HandlersAt, SInv, Inv, TypeOK
<1>17. [q \in Proc |-> Frames(q)]'
         = [[q \in Proc |-> Frames(q)] EXCEPT ![p] = <<frame>>,
                                               ![c] = Stack!WithTop(@, ret)]
  <2> DEFINE all == [q \in Proc |-> Frames(q)]
             born == [all EXCEPT ![p] = <<frame>>]
  <2>1. \A q \in Proc : Frames(q)' = IF q = c THEN Stack!WithTop(Frames(c), ret)
                                     ELSE IF q = p THEN <<frame>> ELSE Frames(q)
    <3>1. \A q \in Proc : q # p /\ q # c => Frames(q)' = Frames(q)
      BY <1>8
    <3> QED BY <1>2, <1>3, <1>11, <1>13, <3>1
  <2>2. all' = [q \in Proc |-> IF q = c THEN Stack!WithTop(Frames(c), ret)
                               ELSE IF q = p THEN <<frame>> ELSE Frames(q)]
    BY <2>1
  <2>3. born = [q \in Proc |-> IF q = p THEN <<frame>> ELSE Frames(q)]
    OBVIOUS
  <2>4. born[c] = Frames(c)
    BY <1>3, <2>3
  <2>5. [born EXCEPT ![c] = Stack!WithTop(born[c], ret)]
          = [q \in Proc |-> IF q = c THEN Stack!WithTop(Frames(c), ret)
                            ELSE IF q = p THEN <<frame>> ELSE Frames(q)]
    <3> HIDE DEF all
    <3> QED BY <1>3, <2>3, <2>4
  <2> QED BY <2>2, <2>5
<1>18. Stack!Create(p, mode, reg, ret)
  BY <1>2, <1>3, <1>17 DEF Stack!Create
<1> QED BY <1>15, <1>16, <1>18 DEF Stack!Next

-----------------------------------------------------------------------------
(* The refinement *)

LEMMA InitRefines == Init => SInv /\ Stack!Init
<1> SUFFICES ASSUME Init PROVE SInv /\ Stack!Init
  OBVIOUS
<1> DEFINE s == [own |-> 1, at |-> "main", mode |-> "system", r |-> 0]
           frame == [at |-> "main", mode |-> "system", r |-> 0]
<1>1. PICK p \in Proc :
        /\ live = {p} /\ orderly = {p}
        /\ p_s = [q \in Proc |-> IF q = p THEN s ELSE Zero]
  BY DEF Init
<1>2. /\ g_current_process = NULL /\ p # NULL
      /\ handling = [q \in Proc |-> <<>>]
      /\ old_area = [q \in Proc |-> [k \in Kind |-> Zero]]
      /\ new_area = [q \in Proc |-> [k \in Kind |-> Zero]]
  BY PassUpAssumption DEF Init
<1>3. s.at = "main" /\ Frame(s) = frame
  BY DEF Frame
<1> HIDE DEF s
<1>4. StateOf(p) = s /\ handling[p] = <<>>
  BY <1>1, <1>2 DEF StateOf
<1>5. Len(<<>>) = 0 /\ IsInjective(<<>>)
  BY DEF IsInjective
<1>6. Linked
  BY <1>1, <1>3, <1>4, <1>5 DEF Linked, Chained, CallerOf
<1>7. SInv
  BY <1>2, <1>6, InitInv, ZeroIs DEF SInv, HandlersAt
<1>8. Frames(p) = <<frame>>
  <2>1. Frames(p) = FrameSeq(<<>>, old_area[p], s)
    BY <1>1, <1>4 DEF Frames
  <2>2. FrameSeq(<<>>, old_area[p], s) = [i \in 1 .. 1 |-> frame]
    BY <1>3, <1>5 DEF FrameSeq
  <2>3. [i \in 1 .. 1 |-> frame] = <<frame>>
    OBVIOUS
  <2> QED BY <2>1, <2>2, <2>3
<1>9. \A q \in Proc : q # p => Frames(q) = <<>>
  BY <1>1 DEF Frames
<1>10. [q \in Proc |-> Frames(q)] = [Stack!None EXCEPT ![p] = <<frame>>]
  BY <1>8, <1>9 DEF Stack!None
<1>11. "system" \in Mode /\ 0 \in Reg
  BY DEF Mode, Reg
<1> QED BY <1>1, <1>2, <1>7, <1>10, <1>11 DEF Stack!Init

LEMMA NextRefines == SInv /\ [Next]_vars => SInv' /\ [Stack!Next]_(Stack!vars)
<1> DEFINE Goal == Linked' /\ HandlersAt' /\ [Stack!Next]_(Stack!vars)
<1> SUFFICES ASSUME SInv, [Next]_vars PROVE Goal
  BY NextInv DEF SInv
<1>1. UNCHANGED new_area => HandlersAt'
  BY DEF HandlersAt, SInv
<1>2. CASE Exception
  <2>1. CASE sysAboveBP
    BY <2>1, PassUpRefines DEF sysAboveBP, Reg
  <2>2. CASE reservedInstr
    BY <2>2, PassUpRefines DEF reservedInstr, Reg, RESERVEDINSTR
  <2>3. ASSUME NEW k \in Kind, trap(k) PROVE Goal
    BY <2>3, PassUpRefines DEF trap
  <2> QED BY <1>2, <2>1, <2>2, <2>3 DEF Exception
<1>3. CASE Call
  <2>1. ASSUME returns PROVE Goal
    <3>1. PICK reg \in Reg : cpu' = [cpu EXCEPT !.r = reg]
      BY <2>1 DEF returns
    <3>2. /\ Running /\ p_s' = saved
          /\ UNCHANGED <<g_current_process, live, old_area, new_area, orderly, handling>>
      BY <2>1 DEF returns, Calls, history
    <3> QED BY <1>1, <3>1, <3>2, RunningIs, StepWhen
  <2>2. ASSUME terminateProcess PROVE Goal
    <3>1. UNCHANGED new_area
      BY <2>2 DEF terminateProcess, dies, terminate
    <3> QED BY <1>1, <2>2, <3>1, TerminateRefines
  <2> QED BY <1>3, <2>1, <2>2, CommonSysRefines, ExitTrapRefines, CreateRefines DEF Call
<1>4. CASE computes
  <2>1. PICK reg \in Reg : cpu' = [cpu EXCEPT !.r = reg]
    BY <1>4 DEF computes
  <2>2. /\ Running
        /\ UNCHANGED <<g_current_process, live, p_s, old_area, new_area, orderly, handling>>
    BY <1>4 DEF computes, history
  <2> QED BY <1>1, <2>1, <2>2, StepWhen
<1>5. CASE interrupt
  <2>1. /\ Running /\ p_s' = saved
        /\ UNCHANGED <<g_current_process, cpu, live, old_area, new_area, orderly, handling>>
    BY <1>5 DEF interrupt, history
  <2> QED BY <1>1, <2>1, StutterStep
<1>6. CASE suspend
  BY <1>1, <1>6, SuspendRefines DEF suspend
<1>7. CASE stopped \/ UNCHANGED vars
  <2>1. UNCHANGED vars
    BY <1>7 DEF stopped
  <2>2. /\ \A q \in Proc : StateOf(q)' = StateOf(q)
        /\ UNCHANGED <<g_current_process, live, old_area, new_area, orderly, handling>>
    BY <2>1 DEF vars, history, StateOf
  <2> QED BY <1>1, <2>2, UnseenWhen, StutterWhen
<1>8. ASSUME NEW p \in Proc, dispatch(p) PROVE Goal
  BY <1>1, <1>8, DispatchRefines DEF dispatch
<1> QED BY <1>2, <1>3, <1>4, <1>5, <1>6, <1>7, <1>8 DEF Next

\* Exceptions are calls and SYS7 is the return from them, whatever the other
\* processes and the interrupts do between: PassUp implements TrapStack.
THEOREM PassUpNests == Spec => ExceptionsNest
<1>1. Init => SInv /\ Stack!Init
  BY InitRefines
<1>2. SInv /\ [Next]_vars => SInv' /\ [Stack!Next]_(Stack!vars)
  BY NextRefines
<1> QED BY <1>1, <1>2, PTL DEF Spec, ExceptionsNest, Stack!Spec
=============================================================================
