------------------------- MODULE WeightedSemaphore --------------------------
(***************************************************************************)
(* What semaphores promise to processes that take and give several units   *)
(* at a time: a process that asks for more than there is, or finds others  *)
(* waiting, waits; the waiting are served in the order they came, each as  *)
(* soon as what it asked for is there; units are neither lost nor made.    *)
(***************************************************************************)
EXTENDS Integers, Sequences

CONSTANTS Sem, Proc, Amount      \* Amount: what can be taken or given at once

VARIABLES
  val,       \* of each semaphore: the units there are,
  queue      \* and the waiting, each with the units it asked for

vars == <<val, queue>>

Init == val \in [Sem -> Nat] /\ queue = [a \in Sem |-> <<>>]

CanServe(a) == queue[a] # <<>> /\ Head(queue[a])[2] <= val[a]
Settled == \A a \in Sem : ~CanServe(a)

\* n units are there, and no one waits for any.
Take(a, n) == queue[a] = <<>> /\ n <= val[a] /\ val' = [val EXCEPT ![a] = @ - n]
Give(a, n) == val' = [val EXCEPT ![a] = @ + n]

Wait(a, p, n) == /\ queue[a] # <<>> \/ n > val[a]
                 /\ queue' = [queue EXCEPT ![a] = Append(@, <<p, n>>)]

Serve(a) == /\ CanServe(a)
            /\ val' = [val EXCEPT ![a] = @ - Head(queue[a])[2]]
            /\ queue' = [queue EXCEPT ![a] = Tail(@)]

Next ==
  \/ \E a \in Sem : Serve(a)
  \/ /\ Settled /\ UNCHANGED queue
     /\ \E a \in Sem, n \in Amount : Take(a, n) \/ Give(a, n)
  \/ /\ Settled /\ UNCHANGED val
     /\ \E a \in Sem, p \in Proc, n \in Amount : Wait(a, p, n)

Spec == Init /\ [][Next]_vars
=============================================================================
