------------------------------- MODULE CList --------------------------------
(***************************************************************************)
(* The lists of pcb.c and asl.c as clist.h keeps them in memory: one next  *)
(* field per link, a tail pointer per list, scans that stop at the tail.   *)
(* Callers make any calls of the functions in any order, as long as a pcb  *)
(* they insert is on no list: NucleusData, which takes lists for           *)
(* sequences, is what these functions are shown to implement.              *)
(***************************************************************************)
EXTENDS ListOps

CONSTANTS
  MAXPROC,
  Addr,        \* addresses of semaphores
  MaxCalls     \* bound on the calls of the functions

NULL == 0
Proc == 1 .. MAXPROC
Semd == 1 .. MAXPROC

ASSUME CListAssumption == MAXPROC \in Nat \ {0} /\ Addr \subseteq Nat \ {0}
                           /\ MaxCalls \in Nat

-----------------------------------------------------------------------------
(* clist.h.  A list is its tail and the memory it is in: the next field of *)
(* every element.                                                          *)

Zero == [i \in 1 .. MAXPROC |-> NULL]
List(t, n) == [tail |-> t, next |-> n]
Set(l, e, f) == [l EXCEPT !.next[e] = f]

enqueue_open(l, e) ==
  IF l.tail = NULL THEN List(e, [l.next EXCEPT ![e] = e])
  ELSE List(e, [l.next EXCEPT ![l.tail] = e])              \* mutant

clist_enqueue(l, e) ==
  IF l.tail = NULL THEN List(e, [l.next EXCEPT ![e] = e])
  ELSE [Set(Set(l, e, l.next[l.tail]), l.tail, e) EXCEPT !.tail = e]

clist_head(l) == IF l.tail = NULL THEN NULL ELSE l.next[l.tail]

clist_dequeue(l) ==
  IF l.tail = NULL THEN l
  ELSE IF l.tail = l.next[l.tail] THEN [l EXCEPT !.tail = NULL]
  ELSE Set(l, l.tail, l.next[l.next[l.tail]])

\* The elements from head to tail.
Elems(l) == LET from[n \in 0 .. MAXPROC] == [e \in 0 .. MAXPROC |->
                  IF e \in {l.tail, NULL} \/ n = 0 THEN <<e>>
                  ELSE <<e>> \o from[n-1][l.next[e]]]
            IN  IF l.tail = NULL THEN <<>> ELSE from[MAXPROC][l.next[l.tail]]

\* clist_foreach with a break at the elements of "stop": where it ends, the
\* element scan and tmp, the one before it (NULL at the first).  Without a
\* break it ends one step past the tail.
clist_foreach(l, stop) ==
  LET s    == Elems(l)
      hits == {k \in DOMAIN s : s[k] \in stop}
      n    == Min(hits)
  IN  IF l.tail = NULL THEN [tmp |-> NULL, scan |-> NULL]
      ELSE IF hits = {} THEN [tmp |-> l.tail, scan |-> l.next[l.tail]]
      ELSE [tmp |-> IF n = 1 THEN NULL ELSE s[n-1], scan |-> s[n]]

clist_foreach_all(l, at) == at.tmp = l.tail

clist_foreach_delete(l, at) ==
  IF at.tmp = NULL
  THEN IF l.tail = at.scan THEN [l EXCEPT !.tail = NULL]
       ELSE Set(l, l.tail, l.next[at.scan])
  ELSE Set([l EXCEPT !.tail = IF @ = at.scan THEN at.tmp ELSE @],
           at.tmp, l.next[at.scan])

clist_foreach_add(l, e, at) ==
  Set(Set(l, e, at.scan), IF at.tmp = NULL THEN l.tail ELSE at.tmp, e)

delete_tailKept(l, e) ==                                   \* mutant
  LET at == clist_foreach(l, {e})
  IN  IF clist_foreach_all(l, at) THEN l
      ELSE IF l.tail = l.next[l.tail] THEN [l EXCEPT !.tail = NULL]
      ELSE Set(l, IF at.tmp = NULL THEN l.tail ELSE at.tmp, l.next[e])

\* The loop of clist_delete looks at the successor of each element, the
\* first's first, which may be the element itself.
clist_delete(l, e) ==
  LET at == clist_foreach(l, {x \in DOMAIN l.next : l.next[x] = e})
      before == at.scan
  IN  IF clist_foreach_all(l, at) THEN l
      ELSE IF l.tail = l.next[l.tail] THEN [l EXCEPT !.tail = NULL]
      ELSE IF e = l.next[l.tail] THEN Set(l, l.tail, l.next[e])
      ELSE Set([l EXCEPT !.tail = IF @ = e THEN before ELSE @],
               before, l.next[e])

-----------------------------------------------------------------------------
VARIABLES
  p_list, p_siblings, s_link,              \* next fields
  pcbFree, ready, s_procq, p_children,     \* tails: of lists of pcbs,
  aslh, semdFree,                          \* and of descriptors
  p_parent, p_cursem, s_semAdd,
  live,                                    \* the pcbs that are allocated
  calls                                    \* the calls made

treeVars  == <<p_siblings, p_children, p_parent>>
aslVars   == <<s_link, s_procq, aslh, semdFree, p_cursem, s_semAdd>>
vars == <<p_list, pcbFree, ready, treeVars, aslVars, live, calls>>

FreeL    == List(pcbFree, p_list)
ReadyL   == List(ready, p_list)
ProcqL(d) == List(s_procq[d], p_list)
ChildL(p) == List(p_children[p], p_siblings)
AslL     == List(aslh, s_link)
SemdFreeL == List(semdFree, s_link)

Queued(p) == \/ p \in ToSet(Elems(ReadyL))
             \/ \E d \in Semd : p \in ToSet(Elems(ProcqL(d)))

\* The number of calls is bounded.
Called == calls < MaxCalls /\ calls' = calls + 1

\* A pcb that a caller may insert or free.
Held(p) == p \in live /\ ~Queued(p)

-----------------------------------------------------------------------------
(* pcb.c *)

allocPcb ==
  LET p == clist_head(FreeL) IN
  /\ Called /\ pcbFree # NULL
  /\ pcbFree' = clist_dequeue(FreeL).tail
  /\ p_list' = [clist_dequeue(FreeL).next EXCEPT ![p] = NULL]
  /\ p_siblings' = [p_siblings EXCEPT ![p] = NULL]
  /\ p_children' = [p_children EXCEPT ![p] = NULL]
  /\ p_parent' = [p_parent EXCEPT ![p] = NULL]
  /\ p_cursem' = [p_cursem EXCEPT ![p] = NULL]
  /\ live' = live \cup {p}
  /\ UNCHANGED <<ready, s_link, s_procq, aslh, semdFree, s_semAdd>>

freePcb(p) ==
  LET l == clist_enqueue(FreeL, p) IN
  /\ Called /\ Held(p) /\ p_parent[p] = NULL /\ p_children[p] = NULL
  /\ pcbFree' = l.tail /\ p_list' = l.next
  /\ live' = live \ {p}
  /\ UNCHANGED <<ready, treeVars, aslVars>>

insertProcQ(p) ==
  LET l == clist_enqueue(ReadyL, p) IN
  /\ Called /\ Held(p)
  /\ ready' = l.tail /\ p_list' = l.next
  /\ UNCHANGED <<pcbFree, treeVars, aslVars, live>>

removeProcQ ==
  LET l == clist_dequeue(ReadyL) IN
  /\ Called /\ ready # NULL
  /\ ready' = l.tail /\ p_list' = l.next
  /\ UNCHANGED <<pcbFree, treeVars, aslVars, live>>

\* outProcQ on a list: the list, and whether p was there.
without(l, p) ==
  LET at == clist_foreach(l, {p})
  IN  IF clist_foreach_all(l, at) THEN l ELSE clist_foreach_delete(l, at)

outProcQ(p) ==
  LET l == without(ReadyL, p) IN
  /\ Called /\ p \in live
  /\ ready' = l.tail /\ p_list' = l.next
  /\ UNCHANGED <<pcbFree, treeVars, aslVars, live>>

insertChild(p, c) ==
  LET l == clist_enqueue(ChildL(p), c) IN
  /\ Called /\ {p, c} \subseteq live /\ p # c /\ p_parent[c] = NULL
  /\ p_children[c] = NULL
  /\ p_parent' = [p_parent EXCEPT ![c] = p]
  /\ p_children' = [p_children EXCEPT ![p] = l.tail]
  /\ p_siblings' = l.next
  /\ UNCHANGED <<p_list, pcbFree, ready, aslVars, live>>

removeChild(p) ==
  LET c == clist_head(ChildL(p))
      l == clist_dequeue(ChildL(p))
  IN  /\ Called /\ p \in live /\ p_children[p] # NULL
      /\ p_children' = [p_children EXCEPT ![p] = l.tail]
      /\ p_siblings' = [l.next EXCEPT ![c] = NULL]
      /\ p_parent' = [p_parent EXCEPT ![c] = NULL]
      /\ UNCHANGED <<p_list, pcbFree, ready, aslVars, live>>

outChild(p) ==
  LET l == clist_delete(ChildL(p_parent[p]), p) IN
  /\ Called /\ p \in live /\ p_parent[p] # NULL
  /\ p_children' = [p_children EXCEPT ![p_parent[p]] = l.tail]
  /\ p_siblings' = [l.next EXCEPT ![p] = NULL]
  /\ p_parent' = [p_parent EXCEPT ![p] = NULL]
  /\ UNCHANGED <<p_list, pcbFree, ready, aslVars, live>>

-----------------------------------------------------------------------------
(* asl.c *)

search_below(a) ==                                         \* mutant
  LET at == clist_foreach(AslL, {d \in Semd : s_semAdd[d] <= a})
  IN  IF clist_foreach_all(AslL, at) \/ s_semAdd[at.scan] # a THEN NULL
      ELSE at.scan

\* The scan for the descriptor of a, which stops at the first with an address
\* that is not below a: NULL if there is none.
search(a) ==
  LET at == clist_foreach(AslL, {d \in Semd : s_semAdd[d] >= a})
  IN  IF clist_foreach_all(AslL, at) \/ s_semAdd[at.scan] # a THEN NULL
      ELSE at.scan

addSorted_afterFirst(l, d, a) ==                           \* mutant
  LET at == clist_foreach(l,
              {e \in Semd : a < s_semAdd[e] /\ e # clist_head(l)})
  IN  IF clist_foreach_all(l, at) THEN clist_enqueue(l, d)
      ELSE clist_foreach_add(l, d, at)

\* A new descriptor d for a gets its place.
addSorted(l, d, a) ==
  LET at == clist_foreach(l, {e \in Semd : a < s_semAdd[e]})
  IN  IF clist_foreach_all(l, at) THEN clist_enqueue(l, d)
      ELSE clist_foreach_add(l, d, at)

insertBlocked(a, p) ==
  LET d  == search(a)
      n  == clist_head(SemdFreeL)
      fl == clist_dequeue(SemdFreeL)
      al == addSorted(List(aslh, fl.next), n, a)
      ql == clist_enqueue(IF d = NULL THEN List(NULL, p_list) ELSE ProcqL(d),
                          p)
      e  == IF d # NULL THEN d ELSE n
  IN  /\ Called /\ Held(p) /\ e # NULL
      /\ IF d # NULL THEN UNCHANGED <<semdFree, s_link, aslh, s_semAdd>>
         ELSE /\ semdFree' = fl.tail /\ aslh' = al.tail /\ s_link' = al.next
              /\ s_semAdd' = [s_semAdd EXCEPT ![n] = a]
      /\ s_procq' = [s_procq EXCEPT ![e] = ql.tail] /\ p_list' = ql.next
      /\ p_cursem' = [p_cursem EXCEPT ![p] = e]
      /\ UNCHANGED <<pcbFree, ready, treeVars, live>>

\* The queue of d becomes q; an emptied descriptor is freed.
setProcq(d, q) ==
  LET al == clist_delete(AslL, d)
      fl == clist_enqueue(List(semdFree, al.next), d)
  IN  /\ Called
      /\ s_procq' = [s_procq EXCEPT ![d] = q.tail] /\ p_list' = q.next
      /\ IF q.tail = NULL
         THEN aslh' = al.tail /\ semdFree' = fl.tail /\ s_link' = fl.next
         ELSE UNCHANGED <<aslh, semdFree, s_link>>
      /\ UNCHANGED <<pcbFree, ready, treeVars, p_cursem, s_semAdd, live>>

removeBlocked(a) ==
  search(a) # NULL /\ setProcq(search(a), clist_dequeue(ProcqL(search(a))))

\* p_cursem may be stale: p may have left its queue long ago.
outBlocked(p) == /\ p \in live /\ p_cursem[p] # NULL
                 /\ setProcq(p_cursem[p], without(ProcqL(p_cursem[p]), p))

headBlocked(a) ==
  IF search(a) = NULL THEN NULL ELSE clist_head(ProcqL(search(a)))

-----------------------------------------------------------------------------
\* initPcbs and initASL, on memory that is zero.
Full == LET enq[n \in 0 .. MAXPROC] == IF n = 0 THEN List(NULL, Zero)
                                       ELSE clist_enqueue(enq[n-1], n)
        IN  enq[MAXPROC]

Init ==
  /\ p_list = Full.next /\ pcbFree = Full.tail
  /\ s_link = Full.next /\ semdFree = Full.tail
  /\ ready = NULL /\ aslh = NULL /\ s_procq = Zero /\ s_semAdd = Zero
  /\ p_siblings = Zero /\ p_children = Zero
  /\ p_parent = Zero /\ p_cursem = Zero
  /\ live = {} /\ calls = 0

ProcOp == \/ allocPcb \/ removeProcQ
          \/ \E p \in Proc : freePcb(p) \/ insertProcQ(p) \/ outProcQ(p)

TreeOp == \E p \in Proc : \/ removeChild(p) \/ outChild(p)
                          \/ \E c \in Proc : insertChild(p, c)

AslOp == \/ \E a \in Addr : removeBlocked(a)
         \/ \E a \in Addr, p \in Proc : insertBlocked(a, p)
         \/ \E p \in Proc : outBlocked(p)

ended == calls = MaxCalls /\ UNCHANGED vars

Next == ProcOp \/ TreeOp \/ AslOp \/ ended

Spec == Init /\ [][Next]_vars

-----------------------------------------------------------------------------
Links(S) == [1 .. MAXPROC -> S \cup {NULL}]

\* Every pointer is NULL or points to an element of its kind, and every list
\* is a ring: going on from the last element leads back to the first.
TypeOK ==
  /\ {p_list, p_siblings, p_children, p_parent} \subseteq Links(Proc)
  /\ {s_link, p_cursem} \subseteq Links(Semd) /\ s_procq \in Links(Proc)
  /\ s_semAdd \in Links(Addr) /\ live \subseteq Proc
  /\ \A l \in {FreeL, ReadyL, AslL, SemdFreeL} \cup {ProcqL(d) : d \in Semd}
              \cup {ChildL(p) : p \in Proc} :
       l.tail # NULL => Last(Elems(l)) = l.tail

\* The ASL is sorted by address, as its scans, which stop early, rely on.
AslSorted == LET q == Elems(AslL)
             IN  \A i, j \in DOMAIN q :
                   i < j => s_semAdd[q[i]] < s_semAdd[q[j]]

-----------------------------------------------------------------------------
(* Lists are sequences *)

Free  == Elems(FreeL)
Ready == Elems(ReadyL)
Kids  == [p \in Proc |-> Elems(ChildL(p))]
Asl   == ToSet(Elems(AslL))
SemdQ == Elems(SemdFreeL)
Procq == [d \in Semd |-> Elems(ProcqL(d))]

Nuc == INSTANCE NucleusData WITH
  UserSem <- Addr, Overrun <- {}, Unit <- {}, Calls <- {}, Weights <- {},
  SemInit <- Zero, Exclusive <- TRUE, NullSlice <- {TRUE}, MaxPid <- 0,
  MaxVal <- 0,
  pcbFree <- Free, g_ready_queue <- Ready, p_children <- Kids,
  aslh <- Asl, semdFree <- SemdQ, s_procq <- Procq,
  g_current_process <- NULL, p_pid <- Zero, res_requested <- Zero,
  p_a1 <- Zero, semval <- Zero, g_process_count <- 0, g_soft_block_count <- 0,
  g_pseudoClockBlk <- 0, abs_process_count <- 0, dev <- Zero, phase <- "user",
  target <- 0, cursor <- NULL, stack <- <<>>, vop <- Zero

\* headBlocked finds the process that is first in the queue of the semaphore,
\* wherever its descriptor is in the ASL.
SearchFinds == \A a \in Addr : headBlocked(a) = Nuc!headBlocked(a)

seqTree == <<Kids, p_parent>>
seqAsl  == <<Asl, SemdQ, Procq, p_cursem, s_semAdd>>
seqVars == <<Free, Ready, seqTree, seqAsl>>

\* The operations on sequences of NucleusData, and those the handlers of the
\* Nucleus do in place.
SeqInit == /\ Free = [i \in Proc |-> i] /\ SemdQ = [i \in Semd |-> i]
           /\ Ready = <<>> /\ Asl = {}
           /\ \A p \in Proc : Kids[p] = <<>> /\ p_parent[p] = NULL

SeqAlloc ==
  /\ Free # <<>> /\ Free' = Tail(Free)
  /\ Kids' = [Kids EXCEPT ![Head(Free)] = <<>>]
  /\ p_parent' = [p_parent EXCEPT ![Head(Free)] = NULL]
  /\ p_cursem' = [p_cursem EXCEPT ![Head(Free)] = NULL]
  /\ UNCHANGED <<Ready, Asl, SemdQ, s_semAdd, Procq>>

SeqQueue ==
  \/ /\ UNCHANGED Ready
     /\ \E p \in Proc : Free' = Append(Free, p)
  \/ /\ UNCHANGED Free
     /\ \/ Ready # <<>> /\ Ready' = Tail(Ready)
        \/ \E p \in Proc : Nuc!insertProcQ(p) \/ Ready' = Without(Ready, p)

SeqTree == \E p \in Proc :
  \/ Nuc!outChild(p)
  \/ /\ Kids[p] # <<>> /\ Kids' = [Kids EXCEPT ![p] = Tail(@)]
     /\ p_parent' = [p_parent EXCEPT ![Head(Kids[p])] = NULL]
  \/ \E c \in Proc : /\ Kids' = [Kids EXCEPT ![p] = Append(@, c)]
                     /\ p_parent' = [p_parent EXCEPT ![c] = p]

SeqAsl ==
  \/ \E a \in Addr, p \in Proc : Nuc!CanInsert(a) /\ Nuc!insertBlocked(a, p)
  \/ /\ UNCHANGED <<p_cursem, s_semAdd>>
     /\ \/ \E a \in Addr : Nuc!OnAsl(a) /\ Nuc!removeBlocked(a)
        \/ \E p \in Proc : p_cursem[p] # NULL /\ Nuc!outBlocked(p)

SeqNext == \/ SeqAlloc
           \/ SeqQueue /\ UNCHANGED <<seqTree, seqAsl>>
           \/ SeqTree /\ UNCHANGED <<Free, Ready, seqAsl>>
           \/ SeqAsl /\ UNCHANGED <<Free, Ready, seqTree>>

\* Every operation on pointers does what NucleusData's does on sequences, that
\* of a descriptor freed twice included.
ListsAreSequences == SeqInit /\ [][SeqNext]_seqVars
=============================================================================
