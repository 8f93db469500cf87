---------------------------- MODULE CListProofs -----------------------------
(***************************************************************************)
(* The lists of clist.h, for every number of pcbs, every set of addresses  *)
(* and any number of calls: they stay rings, the ASL stays sorted, and the *)
(* functions do what NucleusData says they do to sequences.                *)
(***************************************************************************)
EXTENDS CList, ListLemmas, FiniteSetTheorems, WellFoundedInduction

Node == 1 .. MAXPROC

-----------------------------------------------------------------------------
(* Induction.  The provers cannot instantiate the library's induction      *)
(* theorems, whose parameter is an operator: the proofs that need one take *)
(* the least counterexample.                                               *)

LEMMA LeastElement ==
  ASSUME NEW T \in SUBSET Nat, T # {}
  PROVE  \E n \in T : \A m \in T : n <= m
<1> DEFINE R == OpToRel(<, Nat)
<1>1. IsWellFoundedOn(R, Nat)
  BY NatLessThanWellFounded
<1>2. \A x, y \in Nat : <<y, x>> \in R <=> y < x
  BY DEF OpToRel
<1> HIDE DEF R
<1>3. PICK x \in T : \A y \in T : ~ (<<y, x>> \in R)
  BY <1>1, WFMin
<1>4. \A y \in T : x <= y
  <2> TAKE y \in T
  <2>1. x \in Nat /\ y \in Nat
    OBVIOUS
  <2>2. ~(y < x)
    BY <2>1, <1>2, <1>3
  <2> QED BY <2>1, <2>2
<1> QED BY <1>4

\* The least of a set of positions.
LEMMA MinIs ==
  ASSUME NEW T \in SUBSET Nat, T # {}
  PROVE  Min(T) \in T /\ \A m \in T : Min(T) <= m
BY LeastElement DEF Min

-----------------------------------------------------------------------------
(* Rings *)

\* The list l is a ring through the elements of q, the tail the last of them.
Ring(l, q) ==
  /\ l \in [tail : Node \cup {NULL}, next : Links(Node)]
  /\ q \in Seq(Node) /\ IsInjective(q)
  /\ IF q = <<>> THEN l.tail = NULL
     ELSE /\ l.tail = q[Len(q)] /\ l.next[q[Len(q)]] = q[1]
          /\ \A i \in 1 .. Len(q) - 1 : l.next[q[i]] = q[i+1]

\* A list has at most as many elements as there are.
LEMMA RingIsShort ==
  ASSUME NEW q \in Seq(Node), IsInjective(q)
  PROVE  Len(q) <= MAXPROC
<1>1. MAXPROC \in Nat /\ Len(q) \in Nat /\ DOMAIN q = 1 .. Len(q)
  BY CListAssumption, LenProperties
<1>2. IsFiniteSet(Node) /\ Cardinality(Node) = MAXPROC
  BY <1>1, FS_Interval DEF Node
<1>3. IsFiniteSet(1 .. Len(q)) /\ Cardinality(1 .. Len(q)) = Len(q)
  <2> DEFINE n == Len(q)
  <2>1. n \in Nat
    BY <1>1
  <2> HIDE DEF n
  <2>2. IsFiniteSet(1 .. n) /\ Cardinality(1 .. n) = n
    BY <2>1, FS_Interval
  <2> QED BY <2>2 DEF n
<1>4. SUFFICES ASSUME Len(q) > MAXPROC PROVE FALSE
  BY <1>1
<1>5. q \in [1 .. Len(q) -> Node]
  BY <1>1, ElementOfSeq
<1>6. \E i, j \in 1 .. Len(q) : i # j /\ q[i] = q[j]
  BY <1>1, <1>2, <1>3, <1>4, <1>5, FS_PigeonHole
<1> QED BY <1>1, <1>6 DEF IsInjective

-----------------------------------------------------------------------------
(* The elements of a ring *)


\* One step of the recursive function of Elems.
From(l, from, n) == [e \in 0 .. MAXPROC |->
                       IF e \in {l.tail, NULL} \/ n = 0 THEN <<e>>
                       ELSE <<e>> \o from[n-1][l.next[e]]]

LEMMA ElemsUnfolds ==
  ASSUME NEW l, l.tail # NULL
  PROVE  \E from : /\ \A n \in 0 .. MAXPROC : from[n] = From(l, from, n)
                   /\ Elems(l) = from[MAXPROC][l.next[l.tail]]
<1> DEFINE Is(f, N) == f = [n \in 0 .. N |-> From(l, f, n)]
           Bad == {N \in Nat : ~ \E f : Is(f, N)}
<1>1. ASSUME Bad # {} PROVE FALSE
  <2>1. PICK N \in Bad : \A m \in Bad : N <= m
    BY <1>1, LeastElement
  <2>2. N # 0
    <3>1. Is([n \in 0 .. 0 |-> [e \in 0 .. MAXPROC |-> <<e>>]], 0)
      BY DEF From
    <3> QED BY <3>1, <2>1
  <2>3. N \in Nat /\ N-1 \in Nat
    BY <2>1, <2>2
  <2>4. N-1 \notin Bad
    BY <2>1, <2>3
  <2>5. PICK f : Is(f, N-1)
    BY <2>3, <2>4
  <2> DEFINE g == [n \in 0 .. N |-> From(l, f, n)]
  <2>6. ASSUME NEW n \in 0 .. N, n # 0 PROVE f[n-1] = g[n-1]
    <3>1. n-1 \in 0 .. N-1 /\ n-1 \in 0 .. N
      BY <2>3, <2>6
    <3> QED BY <3>1, <2>5
  <2> HIDE DEF g
  <2>7. \A n \in 0 .. N : From(l, f, n) = From(l, g, n)
    BY <2>6 DEF From
  <2>8. Is(g, N)
    BY <2>7 DEF g
  <2> QED BY <2>8, <2>1
<1>2. PICK f : Is(f, MAXPROC)
  BY <1>1, CListAssumption
<1>3. f = [n \in 0 .. MAXPROC |-> [e \in 0 .. MAXPROC |->
                       IF e \in {l.tail, NULL} \/ n = 0 THEN <<e>>
                       ELSE <<e>> \o f[n-1][l.next[e]]]]
  BY <1>2 DEF From
<1> QED BY <1>2, <1>3, Zenon DEF From, Elems

\* What a ring says of its sequence and of its tail.
LEMMA RingFacts ==
  ASSUME NEW l, NEW q, Ring(l, q)
  PROVE  /\ MAXPROC \in Nat /\ MAXPROC # 0 /\ NULL \notin Node
         /\ Len(q) \in Nat /\ DOMAIN q = 1 .. Len(q) /\ Len(q) <= MAXPROC
         /\ \A i \in 1 .. Len(q) : q[i] \in Node
         /\ \A i, j \in 1 .. Len(q) : q[i] = q[j] => i = j
         /\ ToSet(q) = {q[i] : i \in 1 .. Len(q)}
         /\ q = <<>> <=> Len(q) = 0
         /\ q = <<>> <=> l.tail = NULL
         /\ q # <<>> => /\ Len(q) >= 1 /\ l.tail = q[Len(q)] /\ l.tail \in Node
                        /\ l.next[l.tail] = q[1]
<1>1. MAXPROC \in Nat /\ MAXPROC # 0 /\ NULL \notin Node
  BY CListAssumption DEF NULL, Node
<1>2. q \in Seq(Node) /\ IsInjective(q)
  BY DEF Ring
<1>3. Len(q) \in Nat /\ DOMAIN q = 1 .. Len(q) /\ Len(q) <= MAXPROC
  BY <1>2, LenProperties, RingIsShort
<1>4. \A i \in 1 .. Len(q) : q[i] \in Node
  BY <1>2, ElementOfSeq
<1>5. \A i, j \in 1 .. Len(q) : q[i] = q[j] => i = j
  BY <1>2, <1>3 DEF IsInjective
<1>6. ToSet(q) = {q[i] : i \in 1 .. Len(q)}
  BY <1>3 DEF ToSet
<1>7. q = <<>> <=> Len(q) = 0
  BY <1>2, EmptySeq
<1>8. CASE q = <<>>
  BY <1>1, <1>3, <1>4, <1>5, <1>6, <1>7, <1>8 DEF Ring
<1>9. CASE q # <<>>
  <2>1. l.tail = q[Len(q)] /\ l.next[q[Len(q)]] = q[1]
    BY <1>9 DEF Ring
  <2>2. Len(q) >= 1 /\ q[Len(q)] \in Node
    BY <1>3, <1>4, <1>7, <1>9
  <2> QED BY <1>1, <1>3, <1>4, <1>5, <1>6, <1>7, <1>9, <2>1, <2>2
<1> QED BY <1>8, <1>9

\* Elems returns the elements of a ring.
LEMMA ElemsOfRing ==
  ASSUME NEW l, NEW q, Ring(l, q)
  PROVE  Elems(l) = q
<1>0. q \in Seq(Node) /\ IsInjective(q)
  BY DEF Ring
<1>1. CASE q = <<>>
  BY <1>1, RingFacts, Zenon DEF Elems
<1>2. CASE q # <<>>
  <2>1. l.tail # NULL /\ l.tail = q[Len(q)] /\ l.next[l.tail] = q[1]
    BY <1>2, RingFacts
  <2>2. PICK from : /\ \A n \in 0 .. MAXPROC : from[n] = From(l, from, n)
                    /\ Elems(l) = from[MAXPROC][l.next[l.tail]]
    BY <2>1, ElemsUnfolds, Zenon
  <2>3. /\ Len(q) \in Nat /\ Len(q) >= 1 /\ Len(q) <= MAXPROC /\ MAXPROC \in Nat
        /\ \A i \in 1 .. Len(q) : q[i] \in Node
        /\ \A i, j \in 1 .. Len(q) : q[i] = q[j] => i = j
    BY <1>2, RingFacts
  <2> DEFINE Rest(j) == \A n \in j .. MAXPROC :
                          from[n][q[Len(q)-j]] = SubSeq(q, Len(q)-j, Len(q))
             Bad == {j \in 0 .. Len(q)-1 : ~Rest(j)}
  <2> HIDE DEF Rest
  <2>4. ASSUME Bad # {} PROVE FALSE
    <3>1. PICK j \in Bad : \A m \in Bad : j <= m
      <4>1. Bad \in SUBSET Nat
        BY <2>3
      <4> QED BY <4>1, <2>4, LeastElement
    <3>2. j \in 0 .. Len(q)-1 /\ ~Rest(j)
      BY <3>1
    <3>3. PICK n \in j .. MAXPROC :
                 from[n][q[Len(q)-j]] # SubSeq(q, Len(q)-j, Len(q))
      BY <3>2 DEF Rest
    <3> DEFINE k == Len(q) - j
    <3>4. /\ k \in 1 .. Len(q) /\ q[k] \in Node /\ q[k] \in 0 .. MAXPROC /\ q[k] # NULL
          /\ n \in 0 .. MAXPROC
      BY <2>3, <3>2, <3>3 DEF Node, NULL
    <3>5. from[n][q[k]] = IF q[k] \in {l.tail, NULL} \/ n = 0 THEN <<q[k]>>
                          ELSE <<q[k]>> \o from[n-1][l.next[q[k]]]
      BY <3>4, <2>2 DEF From
    <3>6. SubSeq(q, k, Len(q)) = <<q[k]>> \o SubSeq(q, k+1, Len(q))
      BY <1>0, <3>4, <2>3, SubSeqRecursiveFirst
    <3>7. CASE j = 0
      <4>1. k = Len(q) /\ k+1 \in Int /\ Len(q) < k+1
        BY <3>7, <2>3
      <4>2. SubSeq(q, k+1, Len(q)) = <<>>
        BY <4>1, <2>3, SubSeqEmpty
      <4>3. <<q[k]>> \o <<>> = <<q[k]>>
        BY <3>4, ConcatEmptySeq
      <4> QED BY <4>1, <4>2, <4>3, <3>3, <3>5, <3>6, <2>1, Zenon
    <3>8. CASE j # 0
      <4>1. j-1 \in 0 .. Len(q)-1 /\ Len(q)-(j-1) = k+1 /\ n-1 \in j-1 .. MAXPROC
            /\ n # 0 /\ k # Len(q) /\ k \in 1 .. Len(q)-1
        BY <3>8, <3>2, <3>3, <2>3
      <4>2. Rest(j-1)
        BY <4>1, <3>1, <2>3
      <4>3. from[n-1][q[k+1]] = SubSeq(q, k+1, Len(q))
        BY <4>1, <4>2 DEF Rest
      <4>4. l.next[q[k]] = q[k+1] /\ q[k] # l.tail
        BY <4>1, <3>4, <1>2, <2>1, <2>3 DEF Ring
      <4> QED BY <4>1, <4>3, <4>4, <3>3, <3>4, <3>5, <3>6
    <3> QED BY <3>7, <3>8
  <2>5. Rest(Len(q)-1)
    BY <2>3, <2>4
  <2>6. from[MAXPROC][q[1]] = SubSeq(q, 1, Len(q))
    BY <2>3, <2>5 DEF Rest
  <2>7. SubSeq(q, 1, Len(q)) = q
    BY <1>0, SubSeqFull
  <2> QED BY <2>1, <2>2, <2>6, <2>7
<1> QED BY <1>1, <1>2, Zenon

-----------------------------------------------------------------------------
(* What the macros of clist.h do to rings.  Each lemma says, too, that only *)
(* next fields of elements of the ring, or of the element put on it, are   *)
(* written: other rings through the same fields stay as they are.          *)

Same(l, m, S) == \A x \in Node \ S : m.next[x] = l.next[x]

\* Where a scan ends: past the tail, or at the first element that it is to
\* stop at.
LEMMA ForeachOfRing ==
  ASSUME NEW l, NEW q, Ring(l, q), NEW stop
  PROVE  LET at == clist_foreach(l, stop)
         IN  \/ /\ \A k \in 1 .. Len(q) : q[k] \notin stop
                /\ clist_foreach_all(l, at)
             \/ \E n \in 1 .. Len(q) :
                  /\ q[n] \in stop /\ \A k \in 1 .. n-1 : q[k] \notin stop
                  /\ at = [tmp |-> IF n = 1 THEN NULL ELSE q[n-1], scan |-> q[n]]
                  /\ ~clist_foreach_all(l, at)
<1> DEFINE at   == clist_foreach(l, stop)
           hits == {k \in DOMAIN q : q[k] \in stop}
           n    == Min(hits)
<1>1. DOMAIN q = 1 .. Len(q) /\ Len(q) \in Nat
  BY RingFacts
<1>2. at = IF l.tail = NULL THEN [tmp |-> NULL, scan |-> NULL]
           ELSE IF hits = {} THEN [tmp |-> l.tail, scan |-> l.next[l.tail]]
           ELSE [tmp |-> IF n = 1 THEN NULL ELSE q[n-1], scan |-> q[n]]
  <2>1. Elems(l) = q
    BY ElemsOfRing
  <2> QED BY <2>1 DEF clist_foreach
<1>3. CASE q = <<>>
  <2>1. l.tail = NULL /\ Len(q) = 0
    BY <1>3, RingFacts
  <2>2. clist_foreach_all(l, at)
    BY <1>2, <2>1 DEF clist_foreach_all
  <2> QED BY <2>1, <2>2
<1>4. CASE q # <<>> /\ hits = {}
  <2>1. at = [tmp |-> l.tail, scan |-> l.next[l.tail]]
    BY <1>2, <1>4, RingFacts
  <2>2. clist_foreach_all(l, at)
    BY <2>1 DEF clist_foreach_all
  <2> QED BY <1>1, <1>4, <2>2
<1>5. CASE q # <<>> /\ hits # {}
  <2>1. at = [tmp |-> IF n = 1 THEN NULL ELSE q[n-1], scan |-> q[n]]
    BY <1>2, <1>5, RingFacts
  <2>2. hits \in SUBSET Nat
    BY <1>1
  <2>3. n \in hits /\ \A m \in hits : n <= m
    BY <1>5, <2>2, MinIs
  <2> HIDE DEF n
  <2>4. n \in 1 .. Len(q) /\ q[n] \in stop
    BY <1>1, <2>3
  <2>5. \A k \in 1 .. n-1 : q[k] \notin stop
    BY <1>1, <2>3, <2>4
  <2>6. at.tmp # l.tail
    <3>1. CASE n = 1
      BY <1>5, <2>1, <3>1, RingFacts
    <3>2. CASE n # 1
      <4>1. at.tmp = q[n-1] /\ n-1 \in 1 .. Len(q) /\ n-1 # Len(q)
        BY <1>1, <2>1, <2>4, <3>2
      <4>2. l.tail = q[Len(q)] /\ Len(q) \in 1 .. Len(q)
        BY <1>1, <2>4, <1>5, RingFacts
      <4> QED BY <4>1, <4>2, RingFacts
    <3> QED BY <3>1, <3>2
  <2>7. ~clist_foreach_all(l, at)
    BY <2>6 DEF clist_foreach_all
  <2> HIDE DEF at, hits
  <2> QED BY <2>1, <2>4, <2>5, <2>7 DEF at
<1> QED BY <1>3, <1>4, <1>5

\* clist_enqueue of an element that is on no list: it is the last.
LEMMA EnqueueOfRing ==
  ASSUME NEW l, NEW q, Ring(l, q), NEW e \in Node, e \notin ToSet(q)
  PROVE  /\ Ring(clist_enqueue(l, e), Append(q, e))
         /\ Same(l, clist_enqueue(l, e), ToSet(q) \cup {e})
         /\ clist_enqueue(l, e).tail = e
<1> DEFINE m == clist_enqueue(l, e)
           r == Append(q, e)
<1>0. /\ l \in [tail : Node \cup {NULL}, next : Links(Node)]
      /\ q \in Seq(Node) /\ IsInjective(q)
  BY DEF Ring
<1>1. /\ r \in Seq(Node) /\ r # <<>> /\ Len(r) = Len(q) + 1 /\ r[Len(q)+1] = e
      /\ \A i \in 1 .. Len(q) : r[i] = q[i]
  BY <1>0, AppendProperties
<1>2. IsInjective(r)
  BY <1>0, AppendNew
<1>3. CASE q = <<>>
  <2>1. l.tail = NULL /\ Len(q) = 0
    BY <1>3, RingFacts
  <2>2. m = [tail |-> e, next |-> [l.next EXCEPT ![e] = e]]
    BY <2>1 DEF clist_enqueue, List
  <2>3. m \in [tail : Node \cup {NULL}, next : Links(Node)]
    BY <1>0, <2>2 DEF Links, Node
  <2>4. m.tail = e /\ m.next[e] = e /\ \A x \in Node \ {e} : m.next[x] = l.next[x]
    <3>1. l.next \in [Node -> Node \cup {NULL}]
      BY <1>0 DEF Links, Node
    <3> QED BY <2>2, <3>1
  <2>5. Len(r) = 1 /\ r[1] = e
    BY <1>1, <2>1
  <2>6. Ring(m, r)
    BY <1>1, <1>2, <2>3, <2>4, <2>5 DEF Ring
  <2> QED BY <2>4, <2>6 DEF Same
<1>4. CASE q # <<>>
  <2>1. /\ l.tail = q[Len(q)] /\ l.tail # NULL /\ l.next[l.tail] = q[1]
        /\ Len(q) \in Nat /\ Len(q) >= 1 /\ l.tail \in Node
        /\ \A i \in 1 .. Len(q) : q[i] \in Node /\ q[i] # e
        /\ \A i, j \in 1 .. Len(q) : q[i] = q[j] => i = j
    BY <1>4, RingFacts
  <2>2. /\ m.tail = e
        /\ m.next = [[l.next EXCEPT ![e] = q[1]] EXCEPT ![l.tail] = e]
        /\ m \in [tail : Node \cup {NULL}, next : Links(Node)]
    BY <1>0, <2>1 DEF clist_enqueue, Set, Links, Node
  <2>3. l.next \in [Node -> Node \cup {NULL}]
    BY <1>0 DEF Links, Node
  <2>4. /\ m.next[e] = q[1] /\ m.next[l.tail] = e
        /\ \A x \in Node \ {e, l.tail} : m.next[x] = l.next[x]
    BY <2>1, <2>2, <2>3
  <2>5. \A i \in 1 .. Len(r)-1 : m.next[r[i]] = r[i+1]
    <3> TAKE i \in 1 .. Len(r)-1
    <3>1. CASE i = Len(q)
      BY <1>1, <2>1, <2>4, <3>1
    <3>2. CASE i # Len(q)
      <4>1. i \in 1 .. Len(q)-1 /\ i \in 1 .. Len(q) /\ i+1 \in 1 .. Len(q)
            /\ Len(q) \in 1 .. Len(q)
        BY <1>1, <2>1, <3>2
      <4>2. q[i] \in Node \ {e, l.tail}
        BY <2>1, <3>2, <4>1
      <4>3. l.next[q[i]] = q[i+1]
        BY <4>1, <1>4 DEF Ring
      <4> QED BY <1>1, <2>4, <4>1, <4>2, <4>3
    <3> QED BY <3>1, <3>2
  <2>6. r[Len(r)] = e /\ r[1] = q[1]
    BY <1>1, <2>1
  <2>7. Ring(m, r)
    BY <1>1, <1>2, <2>2, <2>4, <2>5, <2>6 DEF Ring
  <2>8. l.tail \in ToSet(q)
    BY <2>1, RingFacts
  <2> QED BY <2>2, <2>4, <2>7, <2>8 DEF Same
<1> QED BY <1>3, <1>4

LEMMA EnqueuedSet ==
  ASSUME NEW l, NEW q, Ring(l, q), NEW e \in Node
  PROVE  ToSet(Append(q, e)) = ToSet(q) \cup {e}
BY AppendList DEF Ring

\* Taking the i-th element out of a ring: the one before it is linked to the
\* one after it, and becomes the tail if the element was.
Unlink(l, q, i) ==
  IF Len(q) = 1 THEN [l EXCEPT !.tail = NULL]
  ELSE [tail |-> IF i = Len(q) THEN q[i-1] ELSE l.tail,
        next |-> [l.next EXCEPT ![IF i = 1 THEN l.tail ELSE q[i-1]] = l.next[q[i]]]]

LEMMA UnlinkOfRing ==
  ASSUME NEW l, NEW q, Ring(l, q), NEW i \in 1 .. Len(q)
  PROVE  /\ Ring(Unlink(l, q, i), Without(q, q[i]))
         /\ Same(l, Unlink(l, q, i), ToSet(q))
<1> DEFINE m == Unlink(l, q, i)
           w == Without(q, q[i])
           N == Len(q)
<1>0. /\ l \in [tail : Node \cup {NULL}, next : Links(Node)]
      /\ q \in Seq(Node) /\ IsInjective(q)
      /\ l.next \in [Node -> Node \cup {NULL}]
  BY DEF Ring, Links, Node
<1>1. /\ N \in Nat /\ N >= 1 /\ i \in 1 .. N /\ q # <<>> /\ ToSet(q) = {q[j] : j \in 1 .. N}
      /\ l.tail = q[N] /\ l.next[q[N]] = q[1]
      /\ \A j \in 1 .. N : q[j] \in Node
      /\ \A j, k \in 1 .. N : q[j] = q[k] => j = k
  BY RingFacts
<1>2. \A j \in 1 .. N-1 : l.next[q[j]] = q[j+1]
  BY <1>1 DEF Ring
<1>3. /\ w \in Seq(Node) /\ Len(w) = N - 1
      /\ \A k \in 1 .. N-1 : w[k] = IF k < i THEN q[k] ELSE q[k+1]
  <2>1. q[i] \in ToSet(q)
    BY <1>1
  <2>2. w \in Seq(Node) /\ \E j \in 1 .. Len(q) : q[j] = q[i] /\ LeavesOut(q, j, w)
    BY <1>0, <2>1, WithoutIs
  <2>3. PICK j \in 1 .. N : q[j] = q[i] /\ LeavesOut(q, j, w)
    BY <2>2
  <2>4. j = i
    BY <1>1, <2>3
  <2>5. LeavesOut(q, i, w)
    BY <2>3, <2>4
  <2> QED BY <2>2, <2>5 DEF LeavesOut
<1>4. IsInjective(w)
  BY <1>0, WithoutProperties
<1> HIDE DEF w
<1>5. CASE N = 1
  <2>1. m = [l EXCEPT !.tail = NULL] /\ w = <<>>
    BY <1>3, <1>5, EmptySeq DEF Unlink
  <2> QED BY <1>0, <1>3, <1>4, <2>1 DEF Ring, Same, w
<1>6. CASE N # 1
  <2> DEFINE before == IF i = 1 THEN l.tail ELSE q[i-1]
             after  == IF i = N THEN q[1] ELSE q[i+1]
  <2>1. l.next[q[i]] = after
    BY <1>1, <1>2
  <2>2. /\ before \in Node /\ before \in ToSet(q) /\ before # q[i] /\ after \in Node
        /\ \A k \in 1 .. N : q[k] = before => IF i = 1 THEN k = N ELSE k = i-1
    <3>1. CASE i = 1
      <4>1. 1 \in 1 .. N /\ 2 \in 1 .. N /\ N \in 1 .. N /\ 1 # N
        <5>1. N \in Nat /\ N >= 1 /\ N # 1
          BY <1>1, <1>6
        <5> HIDE DEF N
        <5> QED BY <5>1
      <4>2. before = q[N] /\ after = q[2]
        BY <1>1, <3>1, <4>1
      <4> HIDE DEF before, after
      <4> QED BY <1>1, <3>1, <4>1, <4>2
    <3>2. CASE i # 1
      <4>1. i-1 \in 1 .. N /\ (i # N => i+1 \in 1 .. N) /\ 1 \in 1 .. N
        BY <1>1, <3>2
      <4> QED BY <1>1, <3>2, <4>1
    <3> QED BY <3>1, <3>2
  <2>3. /\ m.tail = IF i = N THEN q[i-1] ELSE q[N]
        /\ m.next = [l.next EXCEPT ![before] = after]
        /\ m \in [tail : Node \cup {NULL}, next : [Node -> Node \cup {NULL}]]
    <3>1. m = [tail |-> IF i = N THEN q[i-1] ELSE l.tail,
               next |-> [l.next EXCEPT ![before] = after]]
      BY <1>6, <2>1 DEF Unlink
    <3>2. i = N => i-1 \in 1 .. N
      BY <1>1, <1>6
    <3> HIDE DEF m, before, after
    <3> QED BY <1>0, <1>1, <2>2, <3>1, <3>2
  <2>4. m.next[before] = after /\ \A x \in Node \ {before} : m.next[x] = l.next[x]
    BY <1>0, <2>2, <2>3
  <2>5. w # <<>>
    BY <1>1, <1>3, <1>6, EmptySeq
  <2>6. m.tail = w[N-1]
    BY <1>1, <1>3, <1>6, <2>3
  <2>7. m.next[w[N-1]] = w[1]
    <3>1. CASE i = 1
      <4>1. w[N-1] = q[N] /\ w[1] = q[2] /\ after = q[2] /\ before = q[N]
        BY <1>1, <1>3, <1>6, <3>1
      <4> QED BY <2>4, <4>1
    <3>2. CASE i = N
      <4>1. w[N-1] = q[N-1] /\ w[1] = q[1] /\ after = q[1] /\ before = q[N-1]
        BY <1>1, <1>3, <1>6, <3>2
      <4> QED BY <2>4, <4>1
    <3>3. CASE i # 1 /\ i # N
      <4>1. w[N-1] = q[N] /\ w[1] = q[1]
        BY <1>1, <1>3, <1>6, <3>3
      <4>2. q[N] # before /\ q[N] \in Node
        BY <1>1, <2>2, <3>3
      <4> QED BY <1>1, <2>4, <4>1, <4>2
    <3> QED BY <3>1, <3>2, <3>3
  <2>8. \A k \in 1 .. (N-1)-1 : m.next[w[k]] = w[k+1]
    <3> TAKE k \in 1 .. (N-1)-1
    <3>0. k \in 1 .. N-1 /\ k+1 \in 1 .. N-1 /\ k \in 1 .. N /\ k+1 \in 1 .. N
      BY <1>1
    <3>1. CASE k+1 < i
      <4>1. w[k] = q[k] /\ w[k+1] = q[k+1]
        BY <1>3, <3>0, <3>1
      <4>2. q[k] \in Node /\ q[k] # before
        BY <1>1, <2>2, <3>0, <3>1
      <4> QED BY <1>2, <2>4, <3>0, <4>1, <4>2
    <3>2. CASE k+1 = i
      <4>1. w[k] = q[k] /\ w[k+1] = q[k+2] /\ i # N /\ i # 1
        BY <1>1, <1>3, <3>0, <3>2
      <4>2. before = q[k] /\ after = q[k+2]
        BY <1>1, <3>0, <3>2, <4>1
      <4> QED BY <2>4, <4>1, <4>2
    <3>3. CASE k+1 > i
      <4>1. w[k] = q[k+1] /\ w[k+1] = q[k+2]
        BY <1>1, <1>3, <3>0, <3>3
      <4>2. q[k+1] \in Node /\ q[k+1] # before
        BY <1>1, <2>2, <3>0, <3>3
      <4>3. l.next[q[k+1]] = q[k+2]
        BY <1>1, <1>2, <3>0
      <4> QED BY <2>4, <4>1, <4>2, <4>3
    <3> QED BY <1>1, <3>0, <3>1, <3>2, <3>3
  <2>9. Ring(m, w)
    <3>1. m \in [tail : Node \cup {NULL}, next : Links(Node)]
      BY <2>3 DEF Links, Node
    <3> HIDE DEF m
    <3> QED BY <1>3, <1>4, <2>5, <2>6, <2>7, <2>8, <3>1 DEF Ring
  <2>10. Same(l, m, ToSet(q))
    BY <2>2, <2>4 DEF Same
  <2> QED BY <2>9, <2>10 DEF w
<1> QED BY <1>5, <1>6

\* clist_dequeue takes the first element.
LEMMA DequeueOfRing ==
  ASSUME NEW l, NEW q, Ring(l, q), q # <<>>
  PROVE  /\ Ring(clist_dequeue(l), Tail(q))
         /\ Same(l, clist_dequeue(l), ToSet(q))
         /\ clist_head(l) = Head(q) /\ Head(q) = q[1]
<1>1. /\ Len(q) \in Nat /\ Len(q) >= 1 /\ l.tail = q[Len(q)] /\ l.next[l.tail] = q[1]
      /\ l.tail # NULL /\ ToSet(q) = {q[j] : j \in 1 .. Len(q)}
      /\ \A j, k \in 1 .. Len(q) : q[j] = q[k] => j = k
      /\ q \in Seq(Node) /\ l \in [tail : Node \cup {NULL}, next : Links(Node)]
  BY RingFacts DEF Ring
<1>2. clist_head(l) = Head(q) /\ Head(q) = q[1]
  <2>1. clist_head(l) = q[1]
    BY <1>1 DEF clist_head
  <2>2. Head(q) = q[1]
    <3> HIDE <1>1
    <3> QED BY HeadTailProperties
  <2> QED BY <2>1, <2>2
<1>3. Without(q, q[1]) = Tail(q)
  <2>1. q[1] \in ToSet(q)
    BY <1>1
  <2> DEFINE w == Without(q, q[1])
             t == Tail(q)
  <2>2. w \in Seq(Node) /\ \E i \in 1 .. Len(q) : q[i] = q[1] /\ LeavesOut(q, i, w)
    BY <1>1, <2>1, WithoutIs
  <2>3. t \in Seq(Node) /\ Len(t) = Len(q) - 1 /\ \A k \in 1 .. Len(q)-1 : t[k] = q[k+1]
    BY <1>1, HeadTailProperties
  <2> HIDE DEF w, t
  <2>4. PICK i \in 1 .. Len(q) : q[i] = q[1] /\ LeavesOut(q, i, w)
    BY <2>2
  <2>5. i = 1
    BY <1>1, <2>4
  <2>6. Len(w) = Len(q) - 1 /\ \A k \in 1 .. Len(q)-1 : w[k] = t[k]
    BY <1>1, <2>3, <2>4, <2>5 DEF LeavesOut
  <2>7. w = t
    BY <2>2, <2>3, <2>6, SeqEqual
  <2> QED BY <2>7 DEF w, t
<1>4. clist_dequeue(l) = Unlink(l, q, 1)
  <2>1. CASE Len(q) = 1
    BY <1>1, <2>1 DEF clist_dequeue, Unlink
  <2>2. CASE Len(q) # 1
    <3>1. l.tail # l.next[l.tail] /\ 1 # Len(q)
      <4>1. 1 \in 1 .. Len(q) /\ Len(q) \in 1 .. Len(q)
        BY <1>1
      <4> QED BY <1>1, <2>2, <4>1
    <3>2. clist_dequeue(l) = [l EXCEPT !.next[l.tail] = l.next[q[1]]]
      BY <1>1, <3>1 DEF clist_dequeue, Set
    <3> QED BY <1>1, <3>1, <3>2 DEF Unlink
  <2> QED BY <2>1, <2>2
<1>5. 1 \in 1 .. Len(q)
  BY <1>1
<1> QED BY <1>2, <1>3, <1>4, <1>5, UnlinkOfRing

\* outProcQ takes an element out of the ring, if it is on it.
LEMMA WithoutOfRing ==
  ASSUME NEW l, NEW q, Ring(l, q), NEW e
  PROVE  /\ Ring(without(l, e), Without(q, e))
         /\ Same(l, without(l, e), ToSet(q))
<1> DEFINE at == clist_foreach(l, {e})
<1>0. /\ Len(q) \in Nat /\ ToSet(q) = {q[j] : j \in 1 .. Len(q)}
      /\ \A j, k \in 1 .. Len(q) : q[j] = q[k] => j = k
      /\ \A j \in 1 .. Len(q) : q[j] \in Node
      /\ NULL \notin Node
      /\ l \in [tail : Node \cup {NULL}, next : Links(Node)]
  BY RingFacts DEF Ring
<1>1. CASE /\ \A k \in 1 .. Len(q) : q[k] \notin {e}
           /\ clist_foreach_all(l, at)
  <2>1. e \notin ToSet(q) /\ without(l, e) = l
    BY <1>0, <1>1 DEF without
  <2> QED BY <2>1 DEF Without, Same
<1>2. ASSUME NEW n \in 1 .. Len(q), q[n] \in {e},
             at = [tmp |-> IF n = 1 THEN NULL ELSE q[n-1], scan |-> q[n]],
             ~clist_foreach_all(l, at)
      PROVE  without(l, e) = Unlink(l, q, n) /\ q[n] = e
  <2>1. without(l, e) = clist_foreach_delete(l, at)
    BY <1>2 DEF without
  <2>2. /\ q # <<>> /\ l.tail = q[Len(q)] /\ l.next[l.tail] = q[1]
    BY <1>0, <1>2, RingFacts
  <2> HIDE DEF at
  <2>3. CASE n = 1
    <3>1. at.tmp = NULL /\ at.scan = q[1]
      BY <1>2, <2>3
    <3>2. l.tail = q[1] <=> Len(q) = 1
      <4>1. 1 \in 1 .. Len(q) /\ Len(q) \in 1 .. Len(q)
        BY <1>0, <1>2
      <4> QED BY <1>0, <2>2, <4>1
    <3>3. CASE Len(q) = 1
      BY <2>1, <3>1, <3>2, <3>3, <1>2 DEF clist_foreach_delete, Unlink
    <3>4. CASE Len(q) # 1
      <4>1. clist_foreach_delete(l, at) = [l EXCEPT !.next[l.tail] = l.next[q[1]]]
        BY <3>1, <3>2, <3>4 DEF clist_foreach_delete, Set
      <4>2. Unlink(l, q, n) = [tail |-> l.tail,
                               next |-> [l.next EXCEPT ![l.tail] = l.next[q[1]]]]
        BY <2>3, <3>4 DEF Unlink
      <4> QED BY <1>0, <1>2, <2>1, <4>1, <4>2
    <3> QED BY <3>3, <3>4
  <2>4. CASE n # 1
    <3>1. at.tmp = q[n-1] /\ at.scan = q[n] /\ n-1 \in 1 .. Len(q) /\ q[n-1] # NULL
          /\ Len(q) # 1
      BY <1>0, <1>2, <2>4
    <3>2. l.tail = q[n] <=> n = Len(q)
      BY <1>0, <1>2, <2>2
    <3>3. clist_foreach_delete(l, at) =
            [[l EXCEPT !.tail = IF @ = q[n] THEN q[n-1] ELSE @]
               EXCEPT !.next[q[n-1]] = l.next[q[n]]]
      BY <3>1 DEF clist_foreach_delete, Set
    <3>4. Unlink(l, q, n) = [tail |-> IF n = Len(q) THEN q[n-1] ELSE l.tail,
                             next |-> [l.next EXCEPT ![q[n-1]] = l.next[q[n]]]]
      BY <2>4, <3>1 DEF Unlink
    <3> QED BY <1>0, <1>2, <2>1, <3>2, <3>3, <3>4
  <2> QED BY <2>3, <2>4
<1>3. \/ /\ \A k \in 1 .. Len(q) : q[k] \notin {e}
         /\ clist_foreach_all(l, at)
      \/ \E n \in 1 .. Len(q) :
           /\ q[n] \in {e}
           /\ at = [tmp |-> IF n = 1 THEN NULL ELSE q[n-1], scan |-> q[n]]
           /\ ~clist_foreach_all(l, at)
  BY ForeachOfRing
<1> HIDE DEF at
<1> QED BY <1>1, <1>2, <1>3, UnlinkOfRing

\* clist_delete takes an element out of the ring, if it is on it.
LEMMA DeleteOfRing ==
  ASSUME NEW l, NEW q, Ring(l, q), NEW e \in Node
  PROVE  /\ Ring(clist_delete(l, e), Without(q, e))
         /\ Same(l, clist_delete(l, e), ToSet(q))
<1> DEFINE stop == {x \in DOMAIN l.next : l.next[x] = e}
           at   == clist_foreach(l, stop)
           N    == Len(q)
<1>0. /\ N \in Nat /\ ToSet(q) = {q[j] : j \in 1 .. N} /\ NULL \notin Node
      /\ \A j, k \in 1 .. N : q[j] = q[k] => j = k
      /\ \A j \in 1 .. N : q[j] \in Node
      /\ l \in [tail : Node \cup {NULL}, next : [Node -> Node \cup {NULL}]]
  BY RingFacts DEF Ring, Links, Node
<1>1. \A x \in Node : x \in stop <=> l.next[x] = e
  BY <1>0
<1>2. \A j \in 1 .. N : q[j] \in stop <=> e = IF j = N THEN q[1] ELSE q[j+1]
  <2> TAKE j \in 1 .. N
  <2>1. q # <<>> /\ l.next[q[N]] = q[1]
    BY <1>0, RingFacts DEF Ring
  <2>2. j # N => l.next[q[j]] = q[j+1]
    BY <1>0, <2>1 DEF Ring
  <2> QED BY <1>0, <1>1, <2>1, <2>2
<1> HIDE DEF stop
<1>3. clist_delete(l, e) =
        IF clist_foreach_all(l, at) THEN l
        ELSE IF l.tail = l.next[l.tail] THEN [l EXCEPT !.tail = NULL]
        ELSE IF e = l.next[l.tail] THEN Set(l, l.tail, l.next[e])
        ELSE Set([l EXCEPT !.tail = IF @ = e THEN at.scan ELSE @],
                 at.scan, l.next[e])
  BY DEF clist_delete, stop
<1>4. CASE /\ \A k \in 1 .. N : q[k] \notin stop
           /\ clist_foreach_all(l, at)
  <2>1. e \notin ToSet(q)
    <3> SUFFICES ASSUME NEW i \in 1 .. N, e = q[i] PROVE FALSE
      BY <1>0
    <3> DEFINE j == IF i = 1 THEN N ELSE i-1
    <3>1. j \in 1 .. N /\ i = IF j = N THEN 1 ELSE j+1
      BY <1>0
    <3> HIDE DEF j
    <3>2. q[j] \in stop
      BY <1>2, <3>1
    <3> QED BY <1>4, <3>1, <3>2
  <2>2. clist_delete(l, e) = l
    BY <1>3, <1>4
  <2> QED BY <2>1, <2>2 DEF Without, Same
<1>5. ASSUME NEW n \in 1 .. N, q[n] \in stop, at.scan = q[n],
             ~clist_foreach_all(l, at)
      PROVE  \E i \in 1 .. N : q[i] = e /\ clist_delete(l, e) = Unlink(l, q, i)
  <2> DEFINE i == IF n = N THEN 1 ELSE n+1
  <2>1. i \in 1 .. N /\ q[i] = e /\ (i # 1 => n = i-1)
    BY <1>0, <1>2, <1>5
  <2>2. /\ q # <<>> /\ l.tail = q[N] /\ l.next[l.tail] = q[1] /\ N >= 1
    BY <1>0, <1>5, RingFacts
  <2>3. 1 \in 1 .. N /\ N \in 1 .. N
    BY <1>0, <2>2
  <2>4. /\ l.tail = l.next[l.tail] <=> N = 1
        /\ e = l.next[l.tail] <=> i = 1
        /\ l.tail = e <=> i = N
    BY <1>0, <2>1, <2>2, <2>3
  <2> HIDE DEF i, at, N
  <2>5. CASE N = 1
    BY <1>3, <1>5, <2>1, <2>4, <2>5 DEF Unlink, N
  <2>6. CASE N # 1 /\ i = 1
    <3>1. clist_delete(l, e) = [l EXCEPT !.next[l.tail] = l.next[e]]
      BY <1>3, <1>5, <2>4, <2>6 DEF Set
    <3>2. Unlink(l, q, i) = [tail |-> l.tail, next |-> [l.next EXCEPT ![l.tail] = l.next[e]]]
      BY <2>1, <2>6 DEF Unlink, N
    <3> QED BY <1>0, <2>1, <3>1, <3>2
  <2>7. CASE N # 1 /\ i # 1
    <3>1. clist_delete(l, e) = [[l EXCEPT !.tail = IF @ = e THEN q[n] ELSE @]
                                  EXCEPT !.next[q[n]] = l.next[e]]
      BY <1>3, <1>5, <2>4, <2>7 DEF Set
    <3>2. Unlink(l, q, i) = [tail |-> IF i = N THEN q[n] ELSE l.tail,
                             next |-> [l.next EXCEPT ![q[n]] = l.next[e]]]
      BY <2>1, <2>7 DEF Unlink, N
    <3> QED BY <1>0, <2>1, <2>4, <3>1, <3>2
  <2> QED BY <2>5, <2>6, <2>7
<1>6. \/ /\ \A k \in 1 .. N : q[k] \notin stop
         /\ clist_foreach_all(l, at)
      \/ \E n \in 1 .. N : q[n] \in stop /\ at.scan = q[n] /\ ~clist_foreach_all(l, at)
  <2>1. \/ /\ \A k \in 1 .. N : q[k] \notin stop
           /\ clist_foreach_all(l, at)
        \/ \E n \in 1 .. N :
             /\ q[n] \in stop
             /\ at = [tmp |-> IF n = 1 THEN NULL ELSE q[n-1], scan |-> q[n]]
             /\ ~clist_foreach_all(l, at)
    BY ForeachOfRing
  <2> HIDE DEF at
  <2> QED BY <2>1
<1> HIDE DEF at
<1> QED BY <1>4, <1>5, <1>6, UnlinkOfRing

\* clist_enqueue of an element that is on the ring already links the tail to
\* it: the ring that is left ends there.
LEMMA EnqueueAgain ==
  ASSUME NEW l, NEW q, Ring(l, q), NEW e \in Node
  PROVE  /\ Ring(clist_enqueue(l, e), enqueueFree(q, e))
         /\ Same(l, clist_enqueue(l, e), ToSet(q) \cup {e})
         /\ ToSet(enqueueFree(q, e)) \subseteq ToSet(q) \cup {e}
<1> DEFINE m    == clist_enqueue(l, e)
           hits == {i \in DOMAIN q : q[i] = e}
           N    == Len(q)
<1>0. /\ N \in Nat /\ DOMAIN q = 1 .. N /\ ToSet(q) = {q[j] : j \in 1 .. N}
      /\ NULL \notin Node
      /\ \A j, k \in 1 .. N : q[j] = q[k] => j = k
      /\ \A j \in 1 .. N : q[j] \in Node
      /\ l \in [tail : Node \cup {NULL}, next : [Node -> Node \cup {NULL}]]
      /\ q \in Seq(Node) /\ IsInjective(q)
  BY RingFacts DEF Ring, Links, Node
<1>1. /\ ToSet(enqueueFree(q, e)) \subseteq ToSet(q) \cup {e}
      /\ IsInjective(enqueueFree(q, e))
  BY <1>0, EnqueueFreeAny, Zenon
<1> HIDE DEF N
<1>2. CASE e \notin ToSet(q)
  <2>1. enqueueFree(q, e) = Append(q, e)
    BY <1>0, <1>2 DEF enqueueFree
  <2> QED BY <1>1, <1>2, <2>1, EnqueueOfRing
<1>3. CASE e \in ToSet(q)
  <2>1. PICK i \in 1 .. N : q[i] = e
    BY <1>0, <1>3
  <2>2. /\ q # <<>> /\ N >= 1 /\ l.tail = q[N] /\ l.tail # NULL /\ l.tail \in Node
        /\ l.next[l.tail] = q[1]
    BY <1>0, <2>1, RingFacts DEF N
  <2>3. hits = {i}
    BY <1>0, <2>1
  <2>4. enqueueFree(q, e) = IF e = Last(q) THEN <<e>> ELSE SubSeq(q, 1, i)
    BY <2>3 DEF enqueueFree
  <2>5. e = Last(q) <=> i = N
    <3>1. Last(q) = q[N] /\ N \in 1 .. N
      BY <1>0, <2>2 DEF Last, N
    <3> QED BY <1>0, <2>1, <3>1
  <2>6. /\ m.tail = e
        /\ m.next = [[l.next EXCEPT ![e] = q[1]] EXCEPT ![l.tail] = e]
        /\ m \in [tail : Node \cup {NULL}, next : [Node -> Node \cup {NULL}]]
    BY <1>0, <2>1, <2>2 DEF clist_enqueue, Set
  <2>7. Same(l, m, ToSet(q) \cup {e})
    BY <1>0, <2>2, <2>6 DEF Same
  <2>8. m \in [tail : Node \cup {NULL}, next : Links(Node)]
    BY <2>6 DEF Links, Node
  <2> HIDE DEF m, hits
  <2>9. CASE i = N
    <3>1. enqueueFree(q, e) = <<e>> /\ m.next[e] = e
      BY <1>0, <2>1, <2>2, <2>4, <2>5, <2>6, <2>9
    <3>2. /\ <<e>> \in Seq(Node) /\ IsInjective(<<e>>) /\ <<e>> # <<>>
          /\ Len(<<e>>) = 1 /\ <<e>>[1] = e
      BY DEF IsInjective
    <3>3. Ring(m, <<e>>)
      BY <2>6, <2>8, <3>1, <3>2 DEF Ring
    <3> QED BY <1>1, <2>7, <3>1, <3>3 DEF m
  <2>10. CASE i # N
    <3> DEFINE s == SubSeq(q, 1, i)
    <3>1. 1 \in 1 .. N+1 /\ i \in 1-1 .. N /\ i \in 1 .. N-1 /\ i - 1 + 1 = i
      BY <1>0, <2>1, <2>10
    <3>2. s \in Seq(Node) /\ Len(s) = i /\ \A k \in 1 .. i : s[k] = q[1+k-1]
      BY <1>0, <3>1, SubList DEF N
    <3>3. enqueueFree(q, e) = s
      BY <2>4, <2>5, <2>10
    <3>4. IsInjective(s)
      BY <3>3, <1>1
    <3> HIDE DEF s
    <3>5. \A k \in 1 .. i : s[k] = q[k] /\ k \in 1 .. N
      BY <3>1, <3>2, <1>0
    <3>6. /\ s # <<>> /\ s[Len(s)] = e /\ s[1] = q[1]
      BY <3>1, <3>2, <3>5, <2>1, EmptySeq
    <3>7. /\ e # l.tail /\ m.next[e] = q[1]
          /\ \A x \in Node \ {e, l.tail} : m.next[x] = l.next[x]
      BY <1>0, <2>1, <2>2, <2>6, <2>10
    <3>8. \A k \in 1 .. Len(s)-1 : m.next[s[k]] = s[k+1]
      <4> TAKE k \in 1 .. Len(s)-1
      <4>1. /\ k \in 1 .. i /\ k+1 \in 1 .. i /\ k \in 1 .. N-1 /\ k # i /\ k # N
            /\ N \in 1 .. N
        BY <3>1, <3>2, <1>0
      <4>2. q[k] \in Node \ {e, l.tail}
        BY <1>0, <2>1, <2>2, <3>5, <4>1
      <4>3. l.next[q[k]] = q[k+1]
        BY <4>1, <2>2 DEF Ring, N
      <4> QED BY <3>5, <3>7, <4>1, <4>2, <4>3
    <3>9. Ring(m, s)
      BY <2>6, <2>8, <3>2, <3>4, <3>6, <3>7, <3>8 DEF Ring
    <3> QED BY <1>1, <2>7, <3>3, <3>9 DEF m
  <2> QED BY <2>9, <2>10
<1> QED BY <1>2, <1>3

\* An element before the n-th of a list, or at its end.
\* The list r is q with d as its n-th element.
Inserted(q, n, d, r) ==
  /\ r \in Seq(Node) /\ Len(r) = Len(q) + 1 /\ r[n] = d
  /\ \A k \in 1 .. n-1 : r[k] = q[k]
  /\ \A k \in n .. Len(q) : r[k+1] = q[k]
  /\ ToSet(r) = ToSet(q) \cup {d}
  /\ IsInjective(q) /\ d \notin ToSet(q) => IsInjective(r)

LEMMA InsertIs ==
  ASSUME NEW q \in Seq(Node), NEW n \in 1 .. Len(q) + 1, NEW d \in Node
  PROVE  Inserted(q, n, d, InsertAt(q, n, d))
<1> DEFINE a == SubSeq(q, 1, n-1)
           b == SubSeq(q, n, Len(q))
           c == a \o <<d>>
           r == c \o b
<1>1. Len(q) \in Nat /\ n \in Nat /\ n >= 1 /\ n <= Len(q) + 1 /\ DOMAIN q = 1 .. Len(q)
  BY LenProperties
<1>2. a \in Seq(Node) /\ Len(a) = n-1 /\ \A k \in 1 .. n-1 : a[k] = q[k]
  <2>1. 1 \in 1 .. Len(q)+1 /\ n-1 \in 1-1 .. Len(q) /\ n-1-1+1 = n-1
    BY <1>1
  <2>2. /\ a \in Seq(Node) /\ Len(a) = n-1-1+1
        /\ \A k \in 1 .. n-1-1+1 : a[k] = q[1+k-1]
    BY <2>1, SubList
  <2> HIDE DEF a
  <2> QED BY <1>1, <2>1, <2>2
<1>3. b \in Seq(Node) /\ Len(b) = Len(q)-n+1 /\ \A k \in 1 .. Len(q)-n+1 : b[k] = q[n+k-1]
  <2>1. n \in 1 .. Len(q)+1 /\ Len(q) \in n-1 .. Len(q)
    BY <1>1
  <2> QED BY <2>1, SubList
<1> HIDE DEF a, b
<1>4. /\ c \in Seq(Node) /\ Len(c) = n /\ c[n] = d
      /\ \A k \in 1 .. n-1 : c[k] = q[k]
  <2>1. c = Append(a, d)
    BY <1>2, AppendIsConcat
  <2>2. /\ c \in Seq(Node) /\ Len(c) = Len(a) + 1 /\ c[Len(a)+1] = d
        /\ \A k \in 1 .. Len(a) : c[k] = a[k]
    <3> HIDE DEF c
    <3> QED BY <1>2, <2>1, AppendProperties
  <2> HIDE DEF c
  <2> QED BY <1>1, <1>2, <2>2
<1> HIDE DEF c
<1>5. /\ r \in Seq(Node) /\ Len(r) = n + (Len(q)-n+1)
      /\ \A k \in 1 .. n + (Len(q)-n+1) : r[k] = IF k <= n THEN c[k] ELSE b[k-n]
  BY <1>3, <1>4, ConcatProperties
<1>6. InsertAt(q, n, d) = r
  BY DEF InsertAt, a, b, c
<1> HIDE DEF r
<1>7. Len(r) = Len(q) + 1 /\ DOMAIN r = 1 .. Len(q) + 1 /\ r[n] = d
  BY <1>1, <1>4, <1>5, LenProperties
<1>8. \A k \in 1 .. n-1 : r[k] = q[k]
  BY <1>1, <1>4, <1>5
<1>9. \A k \in n .. Len(q) : r[k+1] = q[k]
  <2> TAKE k \in n .. Len(q)
  <2>1. /\ k+1 \in 1 .. n + (Len(q)-n+1) /\ ~(k+1 <= n) /\ k+1-n \in 1 .. Len(q)-n+1
        /\ n+(k+1-n)-1 = k
    BY <1>1
  <2>2. r[k+1] = b[k+1-n]
    BY <1>5, <2>1
  <2>3. b[k+1-n] = q[n+(k+1-n)-1]
    BY <1>3, <2>1
  <2> QED BY <2>1, <2>2, <2>3
<1>10. \A k \in 1 .. Len(q)+1 :
         \/ k = n /\ r[k] = d
         \/ k \in 1 .. n-1 /\ k \in 1 .. Len(q) /\ r[k] = q[k]
         \/ k-1 \in n .. Len(q) /\ k-1 \in 1 .. Len(q) /\ r[k] = q[k-1]
  <2> TAKE k \in 1 .. Len(q)+1
  <2>1. CASE k > n
    <3>1. k-1 \in n .. Len(q) /\ k-1 \in 1 .. Len(q) /\ (k-1)+1 = k
      BY <1>1, <2>1
    <3> QED BY <1>9, <3>1
  <2>2. CASE k < n
    BY <1>1, <1>8, <2>2
  <2> QED BY <1>1, <1>7, <2>1, <2>2
<1>11. ToSet(r) = ToSet(q) \cup {d}
  <2>1. \A x \in ToSet(r) : x \in ToSet(q) \cup {d}
    BY <1>1, <1>7, <1>10 DEF ToSet
  <2>2. d \in ToSet(r)
    BY <1>1, <1>7 DEF ToSet
  <2>3. ASSUME NEW k \in 1 .. Len(q) PROVE q[k] \in ToSet(r)
    <3>1. CASE k < n
      <4>1. k \in 1 .. n-1 /\ k \in DOMAIN r
        BY <1>1, <1>7, <3>1
      <4> QED BY <1>8, <4>1 DEF ToSet
    <3>2. CASE ~(k < n)
      <4>1. k \in n .. Len(q) /\ k+1 \in DOMAIN r
        BY <1>1, <1>7, <3>2
      <4> QED BY <1>9, <4>1 DEF ToSet
    <3> QED BY <3>1, <3>2
  <2> QED BY <1>1, <2>1, <2>2, <2>3 DEF ToSet
<1>12. ASSUME IsInjective(q), d \notin ToSet(q) PROVE IsInjective(r)
  <2> SUFFICES ASSUME NEW i \in 1 .. Len(q)+1, NEW j \in 1 .. Len(q)+1, r[i] = r[j]
               PROVE  i = j
    BY <1>7 DEF IsInjective
  <2>1. \A k \in 1 .. Len(q) : q[k] # d
    BY <1>1, <1>12 DEF ToSet
  <2>2. \A k, m \in 1 .. Len(q) : q[k] = q[m] => k = m
    BY <1>1, <1>12 DEF IsInjective
  <2>3. /\ \/ i = n /\ r[i] = d
           \/ i \in 1 .. n-1 /\ i \in 1 .. Len(q) /\ r[i] = q[i]
           \/ i-1 \in n .. Len(q) /\ i-1 \in 1 .. Len(q) /\ r[i] = q[i-1]
        /\ \/ j = n /\ r[j] = d
           \/ j \in 1 .. n-1 /\ j \in 1 .. Len(q) /\ r[j] = q[j]
           \/ j-1 \in n .. Len(q) /\ j-1 \in 1 .. Len(q) /\ r[j] = q[j-1]
    BY <1>10
  <2> QED BY <1>1, <2>1, <2>2, <2>3
<1>13. Inserted(q, n, d, r)
  BY <1>5, <1>7, <1>8, <1>9, <1>11, <1>12 DEF Inserted
<1> QED BY <1>6, <1>13

\* clist_foreach_add puts an element before the one the scan is at.
LEMMA InsertOfRing ==
  ASSUME NEW l, NEW q, Ring(l, q), NEW d \in Node, d \notin ToSet(q),
         NEW n \in 1 .. Len(q), NEW at,
         at = [tmp |-> IF n = 1 THEN NULL ELSE q[n-1], scan |-> q[n]]
  PROVE  /\ Ring(clist_foreach_add(l, d, at), InsertAt(q, n, d))
         /\ Same(l, clist_foreach_add(l, d, at), ToSet(q) \cup {d})
<1> DEFINE m == clist_foreach_add(l, d, at)
           r == InsertAt(q, n, d)
           N == Len(q)
           before == IF n = 1 THEN l.tail ELSE q[n-1]
<1>0. /\ N \in Nat /\ N >= 1 /\ q # <<>> /\ ToSet(q) = {q[j] : j \in 1 .. N}
      /\ NULL \notin Node
      /\ \A j, k \in 1 .. N : q[j] = q[k] => j = k
      /\ \A j \in 1 .. N : q[j] \in Node
      /\ l.tail = q[N] /\ l.next[q[N]] = q[1] /\ l.tail \in Node
      /\ l \in [tail : Node \cup {NULL}, next : [Node -> Node \cup {NULL}]]
      /\ q \in Seq(Node) /\ IsInjective(q)
  BY RingFacts DEF Ring, Links, Node
<1>1. n \in 1 .. N + 1 /\ n \in 1 .. N
  BY <1>0
<1>2. /\ r \in Seq(Node) /\ Len(r) = N + 1 /\ r[n] = d
      /\ \A k \in 1 .. n-1 : r[k] = q[k]
      /\ \A k \in n .. N : r[k+1] = q[k]
      /\ IsInjective(r)
  <2>1. Inserted(q, n, d, r)
    BY <1>0, <1>1, InsertIs
  <2> QED BY <1>0, <2>1 DEF Inserted
<1>3. \A j \in 1 .. N-1 : l.next[q[j]] = q[j+1]
  BY <1>0 DEF Ring
<1> HIDE DEF r, N
<1>4. n # 1 => n-1 \in 1 .. N
  BY <1>0, <1>1
<1>5. before = IF at.tmp = NULL THEN l.tail ELSE at.tmp
  BY <1>0, <1>1, <1>4
<1>6. /\ before \in Node /\ before \in ToSet(q) /\ before # d
      /\ before = IF n = 1 THEN q[N] ELSE q[n-1]
  BY <1>0, <1>1, <1>4
<1> HIDE DEF before
<1>7. /\ m.tail = l.tail /\ m.next = [[l.next EXCEPT ![d] = q[n]] EXCEPT ![before] = d]
      /\ m \in [tail : Node \cup {NULL}, next : [Node -> Node \cup {NULL}]]
  <2>1. at.scan = q[n] /\ q[n] \in Node
    BY <1>0, <1>1
  <2>2. m = Set(Set(l, d, q[n]), before, d)
    BY <1>5, <2>1 DEF clist_foreach_add
  <2> HIDE DEF m
  <2> QED BY <1>0, <1>6, <2>1, <2>2 DEF Set
<1>8. /\ m.tail = q[N] /\ m.next[d] = q[n] /\ m.next[before] = d
      /\ \A x \in Node \ {d, before} : m.next[x] = l.next[x]
      /\ m \in [tail : Node \cup {NULL}, next : [Node -> Node \cup {NULL}]]
  <2> HIDE DEF m
  <2> QED BY <1>0, <1>1, <1>6, <1>7
<1> HIDE DEF m
<1>9. r # <<>> /\ Len(r) - 1 = N
  BY <1>0, <1>2, EmptySeq
<1>10. r[N+1] = q[N]
  BY <1>0, <1>1, <1>2
<1>11. m.next[q[N]] = r[1]
  <2>1. CASE n = 1
    BY <1>2, <1>6, <1>8, <2>1
  <2>2. CASE n # 1
    <3>1. r[1] = q[1] /\ q[N] # before /\ q[N] # d /\ q[N] \in Node
      <4>1. 1 \in 1 .. n-1 /\ N \in 1 .. N /\ n-1 # N
        BY <1>0, <1>1, <2>2
      <4> QED BY <1>0, <1>2, <1>4, <1>6, <2>2, <4>1
    <3> QED BY <1>0, <1>8, <3>1
  <2> QED BY <2>1, <2>2
<1>12. \A k \in 1 .. N : m.next[r[k]] = r[k+1]
  <2> TAKE k \in 1 .. N
  <2>1. CASE k = n
    <3>1. r[k] = d /\ r[k+1] = q[n]
      <4>1. n \in n .. N
        BY <1>1, <1>0
      <4> QED BY <1>2, <2>1, <4>1
    <3> QED BY <1>8, <3>1
  <2>2. CASE k+1 = n
    <3>1. r[k] = q[k] /\ r[k+1] = d /\ before = q[k]
      BY <1>0, <1>1, <1>2, <1>6, <2>2
    <3> QED BY <1>8, <3>1
  <2>3. CASE k+1 < n
    <3>1. k \in 1 .. n-1 /\ k+1 \in 1 .. n-1 /\ k \in 1 .. N-1 /\ k # n-1 /\ n # 1
      BY <1>0, <1>1, <2>3
    <3>2. r[k] = q[k] /\ r[k+1] = q[k+1] /\ q[k] \in Node /\ q[k] # d /\ q[k] # before
      BY <1>0, <1>2, <1>4, <1>6, <3>1
    <3> QED BY <1>3, <1>8, <3>1, <3>2
  <2>4. CASE k > n
    <3>1. /\ k-1 \in n .. N /\ k \in n .. N /\ k-1 \in 1 .. N-1 /\ k-1 \in 1 .. N
          /\ (k-1)+1 = k /\ k-1 # N /\ k-1 # n-1 /\ N \in 1 .. N
      BY <1>0, <1>1, <2>4
    <3>2. r[k] = q[k-1] /\ r[k+1] = q[k]
      BY <1>2, <3>1
    <3>3. q[k-1] \in Node /\ q[k-1] # d /\ q[k-1] # before
      BY <1>0, <1>4, <1>6, <3>1
    <3>4. l.next[q[k-1]] = q[k]
      BY <1>3, <3>1
    <3> QED BY <1>8, <3>2, <3>3, <3>4
  <2> QED BY <1>1, <2>1, <2>2, <2>3, <2>4
<1>13. m \in [tail : Node \cup {NULL}, next : Links(Node)]
  BY <1>8 DEF Links, Node
<1>14. Ring(m, r)
  BY <1>2, <1>8, <1>9, <1>10, <1>11, <1>12, <1>13 DEF Ring
<1>15. Same(l, m, ToSet(q) \cup {d})
  BY <1>6, <1>8 DEF Same
<1> QED BY <1>14, <1>15 DEF m, r

\* Writing other next fields leaves a ring as it is.
LEMMA RingFrame ==
  ASSUME NEW l, NEW q, Ring(l, q), NEW S, ToSet(q) \cap S = {},
         NEW n \in Links(Node), \A x \in Node \ S : n[x] = l.next[x]
  PROVE  Ring(List(l.tail, n), q)
<1> DEFINE p == List(l.tail, n)
<1>1. p.tail = l.tail /\ p.next = n /\ p \in [tail : Node \cup {NULL}, next : Links(Node)]
  BY DEF Ring, List
<1>2. q \in Seq(Node) /\ IsInjective(q)
  BY DEF Ring
<1>3. CASE q = <<>>
  BY <1>1, <1>2, <1>3, RingFacts DEF Ring
<1>4. CASE q # <<>>
  <2>1. /\ l.tail = q[Len(q)] /\ l.next[q[Len(q)]] = q[1]
        /\ \A i \in 1 .. Len(q)-1 : l.next[q[i]] = q[i+1]
    BY <1>4 DEF Ring
  <2>2. \A i \in 1 .. Len(q) : n[q[i]] = l.next[q[i]]
    BY RingFacts
  <2>3. Len(q) \in 1 .. Len(q) /\ \A i \in 1 .. Len(q)-1 : i \in 1 .. Len(q)
    BY <1>4, RingFacts
  <2> HIDE DEF p
  <2> QED BY <1>1, <1>2, <1>4, <2>1, <2>2, <2>3 DEF Ring, p
<1> QED BY <1>3, <1>4

-----------------------------------------------------------------------------
(* Lists that are linked through the same fields *)

ElemsAt(t, n, k) == Elems(List(t[k], n))
IsFcn(t) == t = [k \in DOMAIN t |-> t[k]]

\* The lists with the tails t through the fields n are rings and share no
\* element.
Rings(t, n) ==
  /\ \A k \in DOMAIN t : Ring(List(t[k], n), ElemsAt(t, n, k))
  /\ \A j, k \in DOMAIN t :
       j # k => ToSet(ElemsAt(t, n, j)) \cap ToSet(ElemsAt(t, n, k)) = {}

\* The list l becomes the ring m through q, and what is written is in S.
Turns(l, m, q, S) == Ring(m, q) /\ Same(l, m, S) /\ ToSet(q) \subseteq S

Updated(t, k, v, u) == u = [t EXCEPT ![k] = v]

\* One of the lists, k, turns into m, and the others have no element in S: they
\* stay.  The tails are u then.
Becomes(t, n, k, m, q, S, u) ==
  /\ Rings(t, n) /\ IsFcn(t) /\ k \in DOMAIN t /\ Turns(List(t[k], n), m, q, S)
  /\ \A j \in DOMAIN t : j # k => ToSet(ElemsAt(t, n, j)) \cap S = {}
  /\ Updated(t, k, m.tail, u)

LEMMA RingsStep ==
  ASSUME NEW t, NEW n, NEW k, NEW m, NEW q, NEW S, NEW u,
         Becomes(t, n, k, m, q, S, u)
  PROVE  /\ Rings(u, m.next)
         /\ ElemsAt(u, m.next, k) = q
         /\ \A j \in DOMAIN t : j # k => ElemsAt(u, m.next, j) = ElemsAt(t, n, j)
<1>0. /\ Rings(t, n) /\ IsFcn(t) /\ k \in DOMAIN t
      /\ Ring(m, q) /\ Same(List(t[k], n), m, S) /\ ToSet(q) \subseteq S
      /\ \A j \in DOMAIN t : j # k => ToSet(ElemsAt(t, n, j)) \cap S = {}
      /\ u = [t EXCEPT ![k] = m.tail]
  BY DEF Becomes, Turns, Updated
<1>1. DOMAIN u = DOMAIN t /\ u[k] = m.tail /\ \A j \in DOMAIN t : j # k => u[j] = t[j]
  BY <1>0 DEF IsFcn
<1>2. m = List(u[k], m.next)
  BY <1>0, <1>1 DEF Ring, List
<1>3. ElemsAt(u, m.next, k) = q
  BY <1>0, <1>2, ElemsOfRing DEF ElemsAt
<1>4. ASSUME NEW j \in DOMAIN t, j # k
      PROVE  /\ Ring(List(u[j], m.next), ElemsAt(t, n, j))
             /\ ElemsAt(u, m.next, j) = ElemsAt(t, n, j)
  <2> DEFINE r == ElemsAt(t, n, j)
             o == List(t[j], n)
  <2>1. Ring(o, r) /\ ToSet(r) \cap S = {} /\ m.next \in Links(Node)
    BY <1>0, <1>4 DEF Rings, Ring
  <2>2. o.tail = u[j] /\ o.next = n /\ List(t[k], n).next = n
    BY <1>1, <1>4 DEF List
  <2>3. \A x \in Node \ S : m.next[x] = o.next[x]
    BY <1>0, <2>2 DEF Same
  <2> HIDE DEF r, o
  <2>4. Ring(List(u[j], m.next), r)
    BY <2>1, <2>2, <2>3, RingFrame
  <2>5. ElemsAt(u, m.next, j) = r
    BY <2>4, ElemsOfRing DEF ElemsAt
  <2> QED BY <2>4, <2>5 DEF r
<1>5. \A j \in DOMAIN u : Ring(List(u[j], m.next), ElemsAt(u, m.next, j))
  BY <1>0, <1>1, <1>2, <1>3, <1>4
<1>6. ASSUME NEW i \in DOMAIN u, NEW j \in DOMAIN u, i # j
      PROVE  ToSet(ElemsAt(u, m.next, i)) \cap ToSet(ElemsAt(u, m.next, j)) = {}
  <2>1. CASE i = k
    BY <1>0, <1>1, <1>3, <1>4, <1>6, <2>1
  <2>2. CASE j = k
    BY <1>0, <1>1, <1>3, <1>4, <1>6, <2>2
  <2>3. CASE i # k /\ j # k
    BY <1>0, <1>1, <1>4, <1>6, <2>3 DEF Rings
  <2> QED BY <2>1, <2>2, <2>3
<1> QED BY <1>3, <1>4, <1>5, <1>6 DEF Rings

\* A scan for the place of a descriptor, and the descriptor put there: those
\* before it have an address that is not above a, the one after it has.
LEMMA AddSortedOfRing ==
  ASSUME NEW l, NEW q, Ring(l, q), NEW d \in Node, d \notin ToSet(q), NEW a
  PROVE  \E n \in 1 .. Len(q) + 1 :
           /\ Ring(addSorted(l, d, a), InsertAt(q, n, d))
           /\ Same(l, addSorted(l, d, a), ToSet(q) \cup {d})
           /\ \A k \in 1 .. n-1 : ~(a < s_semAdd[q[k]])
           /\ n <= Len(q) => a < s_semAdd[q[n]]
<1> DEFINE stop == {e \in Semd : a < s_semAdd[e]}
           at   == clist_foreach(l, stop)
<1>0. /\ Len(q) \in Nat /\ \A i \in 1 .. Len(q) : q[i] \in Semd
      /\ q \in Seq(Node)
  BY RingFacts DEF Ring, Node, Semd
<1>1. CASE (\A k \in 1 .. Len(q) : q[k] \notin stop) /\ clist_foreach_all(l, at)
  <2>1. addSorted(l, d, a) = clist_enqueue(l, d)
    BY <1>1 DEF addSorted
  <2>2. InsertAt(q, Len(q)+1, d) = Append(q, d)
    <3> DEFINE r == InsertAt(q, Len(q)+1, d)
    <3>1. Len(q)+1 \in 1 .. Len(q)+1
      BY <1>0
    <3>2. /\ r \in Seq(Node) /\ Len(r) = Len(q)+1 /\ r[Len(q)+1] = d
          /\ \A k \in 1 .. Len(q)+1-1 : r[k] = q[k]
      <4>1. Inserted(q, Len(q)+1, d, r)
        BY <1>0, <3>1, InsertIs
      <4> QED BY <4>1 DEF Inserted
    <3> HIDE DEF r
    <3>3. /\ Append(q, d) \in Seq(Node) /\ Len(Append(q, d)) = Len(q)+1
          /\ Append(q, d)[Len(q)+1] = d
          /\ \A k \in 1 .. Len(q) : Append(q, d)[k] = q[k]
      BY <1>0, AppendProperties
    <3>4. \A k \in 1 .. Len(q)+1 : r[k] = Append(q, d)[k]
      <4> TAKE k \in 1 .. Len(q)+1
      <4>1. k = Len(q)+1 \/ (k \in 1 .. Len(q) /\ k \in 1 .. Len(q)+1-1)
        BY <1>0
      <4> QED BY <3>2, <3>3, <4>1
    <3> QED BY <3>2, <3>3, <3>4, SeqEqual DEF r
  <2>3. /\ Ring(addSorted(l, d, a), InsertAt(q, Len(q)+1, d))
        /\ Same(l, addSorted(l, d, a), ToSet(q) \cup {d})
    BY <2>1, <2>2, EnqueueOfRing
  <2>4. \A k \in 1 .. (Len(q)+1)-1 : ~(a < s_semAdd[q[k]])
    BY <1>0, <1>1
  <2>5. Len(q)+1 \in 1 .. Len(q)+1 /\ ~(Len(q)+1 <= Len(q))
    BY <1>0
  <2> QED BY <2>3, <2>4, <2>5
<1>2. ASSUME NEW n \in 1 .. Len(q), q[n] \in stop, \A k \in 1 .. n-1 : q[k] \notin stop,
             at = [tmp |-> IF n = 1 THEN NULL ELSE q[n-1], scan |-> q[n]],
             ~clist_foreach_all(l, at)
      PROVE  /\ Ring(addSorted(l, d, a), InsertAt(q, n, d))
             /\ Same(l, addSorted(l, d, a), ToSet(q) \cup {d})
             /\ \A k \in 1 .. n-1 : ~(a < s_semAdd[q[k]])
             /\ a < s_semAdd[q[n]] /\ n \in 1 .. Len(q)+1
  <2>1. addSorted(l, d, a) = clist_foreach_add(l, d, at)
    BY <1>2 DEF addSorted
  <2> HIDE DEF at
  <2>2. /\ Ring(addSorted(l, d, a), InsertAt(q, n, d))
        /\ Same(l, addSorted(l, d, a), ToSet(q) \cup {d})
    <3>1. at = [tmp |-> IF n = 1 THEN NULL ELSE q[n-1], scan |-> q[n]]
      BY <1>2
    <3>2. /\ Ring(clist_foreach_add(l, d, at), InsertAt(q, n, d))
          /\ Same(l, clist_foreach_add(l, d, at), ToSet(q) \cup {d})
      BY <3>1, InsertOfRing
    <3> QED BY <2>1, <3>2
  <2> QED BY <1>0, <1>2, <2>2
<1>3. \/ /\ \A k \in 1 .. Len(q) : q[k] \notin stop
         /\ clist_foreach_all(l, at)
      \/ \E n \in 1 .. Len(q) :
           /\ q[n] \in stop /\ \A k \in 1 .. n-1 : q[k] \notin stop
           /\ at = [tmp |-> IF n = 1 THEN NULL ELSE q[n-1], scan |-> q[n]]
           /\ ~clist_foreach_all(l, at)
  <2> HIDE DEF stop
  <2> QED BY ForeachOfRing
<1> HIDE DEF at, stop
<1>4. CASE \E n \in 1 .. Len(q) :
             /\ q[n] \in stop /\ \A k \in 1 .. n-1 : q[k] \notin stop
             /\ at = [tmp |-> IF n = 1 THEN NULL ELSE q[n-1], scan |-> q[n]]
             /\ ~clist_foreach_all(l, at)
  <2>1. PICK n \in 1 .. Len(q) :
             /\ q[n] \in stop /\ \A k \in 1 .. n-1 : q[k] \notin stop
             /\ at = [tmp |-> IF n = 1 THEN NULL ELSE q[n-1], scan |-> q[n]]
             /\ ~clist_foreach_all(l, at)
    BY <1>4
  <2>2. /\ Ring(addSorted(l, d, a), InsertAt(q, n, d))
        /\ Same(l, addSorted(l, d, a), ToSet(q) \cup {d})
        /\ \A k \in 1 .. n-1 : ~(a < s_semAdd[q[k]])
        /\ a < s_semAdd[q[n]] /\ n \in 1 .. Len(q)+1
    BY <1>2, <2>1
  <2> QED BY <2>2
<1> QED BY <1>1, <1>3, <1>4

-----------------------------------------------------------------------------
(* The inductive invariant *)

FREE  == -1
READY == 0
ASL   == 1
UNUSED == 2

\* The lists of pcbs through p_list, by their tails: the free list, the ready
\* queue and the queues of descriptors.
PTails(f, r, s) == [k \in {FREE, READY} \cup Semd |->
                      IF k = FREE THEN f ELSE IF k = READY THEN r ELSE s[k]]

\* Those of descriptors through s_link.
STails(a, f) == [k \in {ASL, UNUSED} |-> IF k = ASL THEN a ELSE f]

AslQ == Elems(AslL)

Types == /\ {p_list, p_siblings, p_children, p_parent} \subseteq Links(Proc)
         /\ {s_link, p_cursem} \subseteq Links(Semd) /\ s_procq \in Links(Proc)
         /\ s_semAdd \in Links(Addr) /\ live \subseteq Proc

\* No pcb is in two of the free list, the ready queue and the queues of the
\* descriptors; the free list holds those that are not allocated.
ProcInv == /\ Rings(PTails(pcbFree, ready, s_procq), p_list)
           /\ ToSet(Free) = Proc \ live

\* No pcb is the child of two, the links of children and parents agree, and a
\* pcb that is not allocated has none.
TreeInv == /\ Rings(p_children, p_siblings)
           /\ \A p, c \in Proc : c \in ToSet(Kids[p]) <=> p_parent[c] = p
           /\ \A p \in Proc \ live : p_parent[p] = NULL /\ p_children[p] = NULL

\* No descriptor is both on the ASL and free, and those on it, sorted, are
\* those with a process.
AslInv == /\ Rings(STails(aslh, semdFree), s_link)
          /\ \A d \in Semd : d \in Asl <=> s_procq[d] # NULL
          /\ AslSorted

Inv == Types /\ ProcInv /\ TreeInv /\ AslInv

-----------------------------------------------------------------------------
(* The lists of pcbs *)

LEMMA PTailsAre ==
  ASSUME NEW f, NEW r, NEW s
  PROVE  /\ DOMAIN PTails(f, r, s) = {FREE, READY} \cup Semd
         /\ FREE \notin Semd /\ READY \notin Semd /\ FREE # READY
         /\ IsFcn(PTails(f, r, s))
         /\ PTails(f, r, s)[FREE] = f /\ PTails(f, r, s)[READY] = r
         /\ \A d \in Semd : PTails(f, r, s)[d] = s[d]
<1>1. FREE \notin Semd /\ READY \notin Semd /\ FREE # READY
  BY CListAssumption DEF FREE, READY, Semd
<1>2. /\ PTails(f, r, s)[FREE] = f /\ PTails(f, r, s)[READY] = r
      /\ \A d \in Semd : PTails(f, r, s)[d] = s[d]
  BY <1>1 DEF PTails
<1>3. DOMAIN PTails(f, r, s) = {FREE, READY} \cup Semd
  BY DEF PTails
<1>4. IsFcn(PTails(f, r, s))
  BY DEF PTails, IsFcn
<1> QED BY <1>1, <1>2, <1>3, <1>4

\* The lists of pcbs, by their tails and by their elements.
ArePLists(t, n, f, r, s) ==
  /\ DOMAIN t = {FREE, READY} \cup Semd /\ IsFcn(t)
  /\ FREE \notin Semd /\ READY \notin Semd /\ FREE # READY
  /\ t[FREE] = f /\ t[READY] = r /\ \A e \in Semd : t[e] = s[e]
  /\ ElemsAt(t, n, FREE) = Elems(List(f, n))
  /\ ElemsAt(t, n, READY) = Elems(List(r, n))
  /\ \A e \in Semd : ElemsAt(t, n, e) = Elems(List(s[e], n))

LEMMA PLists ==
  ASSUME NEW f, NEW r, NEW s, NEW n
  PROVE  ArePLists(PTails(f, r, s), n, f, r, s)
<1> DEFINE t == PTails(f, r, s)
<1>1. /\ DOMAIN t = {FREE, READY} \cup Semd /\ IsFcn(t)
      /\ FREE \notin Semd /\ READY \notin Semd /\ FREE # READY
      /\ t[FREE] = f /\ t[READY] = r /\ \A e \in Semd : t[e] = s[e]
  BY PTailsAre
<1> HIDE DEF t
<1>2. /\ ElemsAt(t, n, FREE) = Elems(List(f, n))
      /\ ElemsAt(t, n, READY) = Elems(List(r, n))
  BY <1>1 DEF ElemsAt
<1>3. ASSUME NEW e \in Semd PROVE ElemsAt(t, n, e) = Elems(List(s[e], n))
  BY <1>1 DEF ElemsAt
<1>4. ArePLists(t, n, f, r, s)
  BY <1>1, <1>2, <1>3 DEF ArePLists
<1> QED BY <1>4 DEF t

\* What Rings says of the lists of pcbs.
LEMMA PRings ==
  ASSUME NEW f, NEW r, NEW s, NEW n, Rings(PTails(f, r, s), n)
  PROVE  /\ Ring(List(f, n), Elems(List(f, n)))
         /\ Ring(List(r, n), Elems(List(r, n)))
         /\ ToSet(Elems(List(f, n))) \cap ToSet(Elems(List(r, n))) = {}
         /\ \A d \in Semd :
              /\ Ring(List(s[d], n), Elems(List(s[d], n)))
              /\ ToSet(Elems(List(s[d], n))) \cap ToSet(Elems(List(f, n))) = {}
              /\ ToSet(Elems(List(s[d], n))) \cap ToSet(Elems(List(r, n))) = {}
              /\ \A e \in Semd :
                   d # e => ToSet(Elems(List(s[d], n))) \cap ToSet(Elems(List(s[e], n))) = {}
<1> DEFINE t == PTails(f, r, s)
<1>0. ArePLists(t, n, f, r, s) /\ Rings(t, n)
  BY PLists
<1> HIDE DEF t
<1>1. /\ DOMAIN t = {FREE, READY} \cup Semd
      /\ FREE \notin Semd /\ READY \notin Semd /\ FREE # READY
      /\ t[FREE] = f /\ t[READY] = r /\ \A d \in Semd : t[d] = s[d]
      /\ ElemsAt(t, n, FREE) = Elems(List(f, n))
      /\ ElemsAt(t, n, READY) = Elems(List(r, n))
      /\ \A d \in Semd : ElemsAt(t, n, d) = Elems(List(s[d], n))
  BY <1>0 DEF ArePLists
<1>2. /\ \A k \in DOMAIN t : Ring(List(t[k], n), ElemsAt(t, n, k))
      /\ \A j, k \in DOMAIN t :
           j # k => ToSet(ElemsAt(t, n, j)) \cap ToSet(ElemsAt(t, n, k)) = {}
  BY <1>0 DEF Rings
<1>3. FREE \in DOMAIN t /\ READY \in DOMAIN t /\ \A d \in Semd : d \in DOMAIN t
  BY <1>1
<1>4. Ring(List(f, n), Elems(List(f, n))) /\ Ring(List(r, n), Elems(List(r, n)))
  BY <1>1, <1>2, <1>3
<1>5. ToSet(Elems(List(f, n))) \cap ToSet(Elems(List(r, n))) = {}
  BY <1>1, <1>2, <1>3
<1>6. ASSUME NEW d \in Semd
      PROVE  /\ Ring(List(s[d], n), Elems(List(s[d], n)))
             /\ ToSet(Elems(List(s[d], n))) \cap ToSet(Elems(List(f, n))) = {}
             /\ ToSet(Elems(List(s[d], n))) \cap ToSet(Elems(List(r, n))) = {}
  BY <1>1, <1>2, <1>3, d # FREE, d # READY
<1>7. ASSUME NEW d \in Semd, NEW e \in Semd, d # e
      PROVE  ToSet(Elems(List(s[d], n))) \cap ToSet(Elems(List(s[e], n))) = {}
  BY <1>1, <1>2, <1>3, <1>7
<1> QED BY <1>4, <1>5, <1>6, <1>7

\* The free list becomes the ring m.
LEMMA FreeStep ==
  ASSUME NEW f, NEW r, NEW s, NEW n, Rings(PTails(f, r, s), n),
         NEW m, NEW q, NEW S, Turns(List(f, n), m, q, S),
         ToSet(Elems(List(r, n))) \cap S = {},
         \A d \in Semd : ToSet(Elems(List(s[d], n))) \cap S = {}
  PROVE  /\ Rings(PTails(m.tail, r, s), m.next)
         /\ Elems(List(m.tail, m.next)) = q
         /\ Elems(List(r, m.next)) = Elems(List(r, n))
         /\ \A d \in Semd : Elems(List(s[d], m.next)) = Elems(List(s[d], n))
<1> DEFINE t == PTails(f, r, s)
           u == PTails(m.tail, r, s)
<1>0. /\ ArePLists(t, n, f, r, s) /\ ArePLists(u, m.next, m.tail, r, s)
      /\ t = PTails(f, r, s) /\ u = PTails(m.tail, r, s) /\ Rings(t, n)
  BY PLists
<1> HIDE DEF t, u
<1>1. /\ DOMAIN t = {FREE, READY} \cup Semd /\ IsFcn(t)
      /\ FREE \notin Semd /\ READY \notin Semd /\ FREE # READY
      /\ t[FREE] = f
      /\ ElemsAt(t, n, FREE) = Elems(List(f, n))
      /\ ElemsAt(t, n, READY) = Elems(List(r, n))
      /\ \A e \in Semd : ElemsAt(t, n, e) = Elems(List(s[e], n))
  BY <1>0 DEF ArePLists
<1>2. /\ ElemsAt(u, m.next, FREE) = Elems(List(m.tail, m.next))
      /\ ElemsAt(u, m.next, READY) = Elems(List(r, m.next))
      /\ \A e \in Semd : ElemsAt(u, m.next, e) = Elems(List(s[e], m.next))
  BY <1>0 DEF ArePLists
<1>4. Updated(t, FREE, m.tail, u)
  BY <1>0, <1>1 DEF PTails, Updated
<1>5. \A j \in DOMAIN t : j # FREE => ToSet(ElemsAt(t, n, j)) \cap S = {}
  BY <1>1
<1>6. Turns(List(t[FREE], n), m, q, S) /\ FREE \in DOMAIN t
  BY <1>1
<1>7. Becomes(t, n, FREE, m, q, S, u)
  BY <1>0, <1>1, <1>4, <1>5, <1>6 DEF Becomes
<1>8. /\ Rings(u, m.next)
      /\ ElemsAt(u, m.next, FREE) = q
      /\ \A j \in DOMAIN t : j # FREE => ElemsAt(u, m.next, j) = ElemsAt(t, n, j)
  BY <1>7, RingsStep
<1> QED BY <1>0, <1>1, <1>2, <1>8

\* The ready queue becomes the ring m.
LEMMA ReadyStep ==
  ASSUME NEW f, NEW r, NEW s, NEW n, Rings(PTails(f, r, s), n),
         NEW m, NEW q, NEW S, Turns(List(r, n), m, q, S),
         ToSet(Elems(List(f, n))) \cap S = {},
         \A d \in Semd : ToSet(Elems(List(s[d], n))) \cap S = {}
  PROVE  /\ Rings(PTails(f, m.tail, s), m.next)
         /\ Elems(List(m.tail, m.next)) = q
         /\ Elems(List(f, m.next)) = Elems(List(f, n))
         /\ \A d \in Semd : Elems(List(s[d], m.next)) = Elems(List(s[d], n))
<1> DEFINE t == PTails(f, r, s)
           u == PTails(f, m.tail, s)
<1>0. /\ ArePLists(t, n, f, r, s) /\ ArePLists(u, m.next, f, m.tail, s)
      /\ t = PTails(f, r, s) /\ u = PTails(f, m.tail, s) /\ Rings(t, n)
  BY PLists
<1> HIDE DEF t, u
<1>1. /\ DOMAIN t = {FREE, READY} \cup Semd /\ IsFcn(t)
      /\ FREE \notin Semd /\ READY \notin Semd /\ FREE # READY
      /\ t[READY] = r
      /\ ElemsAt(t, n, FREE) = Elems(List(f, n))
      /\ ElemsAt(t, n, READY) = Elems(List(r, n))
      /\ \A e \in Semd : ElemsAt(t, n, e) = Elems(List(s[e], n))
  BY <1>0 DEF ArePLists
<1>2. /\ ElemsAt(u, m.next, FREE) = Elems(List(f, m.next))
      /\ ElemsAt(u, m.next, READY) = Elems(List(m.tail, m.next))
      /\ \A e \in Semd : ElemsAt(u, m.next, e) = Elems(List(s[e], m.next))
  BY <1>0 DEF ArePLists
<1>4. Updated(t, READY, m.tail, u)
  BY <1>0, <1>1 DEF PTails, Updated
<1>5. \A j \in DOMAIN t : j # READY => ToSet(ElemsAt(t, n, j)) \cap S = {}
  BY <1>1
<1>6. Turns(List(t[READY], n), m, q, S) /\ READY \in DOMAIN t
  BY <1>1
<1>7. Becomes(t, n, READY, m, q, S, u)
  BY <1>0, <1>1, <1>4, <1>5, <1>6 DEF Becomes
<1>8. /\ Rings(u, m.next)
      /\ ElemsAt(u, m.next, READY) = q
      /\ \A j \in DOMAIN t : j # READY => ElemsAt(u, m.next, j) = ElemsAt(t, n, j)
  BY <1>7, RingsStep
<1> QED BY <1>0, <1>1, <1>2, <1>8

\* The queue of the descriptor d becomes the ring m.
LEMMA QueueStep ==
  ASSUME NEW f, NEW r, NEW s, s \in Links(Proc), NEW n, Rings(PTails(f, r, s), n),
         NEW d \in Semd, NEW m, NEW q, NEW S, Turns(List(s[d], n), m, q, S),
         ToSet(Elems(List(f, n))) \cap S = {},
         ToSet(Elems(List(r, n))) \cap S = {},
         \A e \in Semd : e # d => ToSet(Elems(List(s[e], n))) \cap S = {},
         NEW v, Updated(s, d, m.tail, v)
  PROVE  /\ Rings(PTails(f, r, v), m.next)
         /\ Elems(List(v[d], m.next)) = q
         /\ Elems(List(f, m.next)) = Elems(List(f, n))
         /\ Elems(List(r, m.next)) = Elems(List(r, n))
         /\ \A e \in Semd : e # d => Elems(List(v[e], m.next)) = Elems(List(s[e], n))
<1> DEFINE t == PTails(f, r, s)
           u == PTails(f, r, v)
<1>0. /\ ArePLists(t, n, f, r, s) /\ ArePLists(u, m.next, f, r, v)
      /\ t = PTails(f, r, s) /\ u = PTails(f, r, v) /\ Rings(t, n)
  BY PLists
<1> HIDE DEF t, u
<1>1. /\ DOMAIN t = {FREE, READY} \cup Semd /\ IsFcn(t)
      /\ FREE \notin Semd /\ READY \notin Semd /\ FREE # READY
      /\ t[d] = s[d]
      /\ ElemsAt(t, n, FREE) = Elems(List(f, n))
      /\ ElemsAt(t, n, READY) = Elems(List(r, n))
      /\ \A e \in Semd : ElemsAt(t, n, e) = Elems(List(s[e], n))
  BY <1>0 DEF ArePLists
<1>2. /\ ElemsAt(u, m.next, FREE) = Elems(List(f, m.next))
      /\ ElemsAt(u, m.next, READY) = Elems(List(r, m.next))
      /\ \A e \in Semd : ElemsAt(u, m.next, e) = Elems(List(v[e], m.next))
  BY <1>0 DEF ArePLists
<1>3. v[d] = m.tail /\ \A e \in Semd : e # d => v[e] = s[e]
  BY DEF Links, Semd, Updated
<1>4. Updated(t, d, m.tail, u)
  BY <1>0, <1>1, <1>3 DEF PTails, Updated
<1>5. \A j \in DOMAIN t : j # d => ToSet(ElemsAt(t, n, j)) \cap S = {}
  BY <1>1
<1>6. Turns(List(t[d], n), m, q, S) /\ d \in DOMAIN t
  BY <1>1
<1>7. Becomes(t, n, d, m, q, S, u)
  BY <1>0, <1>1, <1>4, <1>5, <1>6 DEF Becomes
<1>8. /\ Rings(u, m.next)
      /\ ElemsAt(u, m.next, d) = q
      /\ \A j \in DOMAIN t : j # d => ElemsAt(u, m.next, j) = ElemsAt(t, n, j)
  BY <1>7, RingsStep
<1> QED BY <1>0, <1>1, <1>2, <1>8

-----------------------------------------------------------------------------
(* The lists of descriptors *)

LEMMA STailsAre ==
  ASSUME NEW a, NEW f
  PROVE  /\ DOMAIN STails(a, f) = {ASL, UNUSED} /\ ASL # UNUSED
         /\ IsFcn(STails(a, f))
         /\ STails(a, f)[ASL] = a /\ STails(a, f)[UNUSED] = f
<1>1. ASL # UNUSED
  BY DEF ASL, UNUSED
<1>2. STails(a, f)[ASL] = a /\ STails(a, f)[UNUSED] = f
  BY <1>1 DEF STails
<1>3. DOMAIN STails(a, f) = {ASL, UNUSED}
  BY DEF STails
<1>4. IsFcn(STails(a, f))
  BY DEF STails, IsFcn
<1> QED BY <1>1, <1>2, <1>3, <1>4

\* What the lists of descriptors are, and what Rings says of them.
LEMMA SElems ==
  ASSUME NEW a, NEW f, NEW n
  PROVE  /\ ElemsAt(STails(a, f), n, ASL) = Elems(List(a, n))
         /\ ElemsAt(STails(a, f), n, UNUSED) = Elems(List(f, n))
<1> DEFINE t == STails(a, f)
<1>1. t[ASL] = a /\ t[UNUSED] = f
  BY STailsAre
<1> HIDE DEF t
<1>2. /\ ElemsAt(t, n, ASL) = Elems(List(a, n))
      /\ ElemsAt(t, n, UNUSED) = Elems(List(f, n))
  BY <1>1 DEF ElemsAt
<1> QED BY <1>2 DEF t

LEMMA SRings ==
  ASSUME NEW a, NEW f, NEW n, Rings(STails(a, f), n)
  PROVE  /\ Ring(List(a, n), Elems(List(a, n)))
         /\ Ring(List(f, n), Elems(List(f, n)))
         /\ ToSet(Elems(List(a, n))) \cap ToSet(Elems(List(f, n))) = {}
<1> DEFINE t == STails(a, f)
<1>1. /\ DOMAIN t = {ASL, UNUSED} /\ ASL # UNUSED
      /\ t[ASL] = a /\ t[UNUSED] = f
      /\ ElemsAt(t, n, ASL) = Elems(List(a, n))
      /\ ElemsAt(t, n, UNUSED) = Elems(List(f, n))
  BY STailsAre, SElems
<1>2. /\ \A k \in DOMAIN t : Ring(List(t[k], n), ElemsAt(t, n, k))
      /\ \A j, k \in DOMAIN t :
           j # k => ToSet(ElemsAt(t, n, j)) \cap ToSet(ElemsAt(t, n, k)) = {}
  BY DEF Rings
<1> HIDE DEF t
<1>3. ASL \in DOMAIN t /\ UNUSED \in DOMAIN t
  BY <1>1
<1> QED BY <1>1, <1>2, <1>3

\* The ASL becomes the ring m.
LEMMA AslStep ==
  ASSUME NEW a, NEW f, NEW n, Rings(STails(a, f), n),
         NEW m, NEW q, NEW S, Turns(List(a, n), m, q, S),
         ToSet(Elems(List(f, n))) \cap S = {}
  PROVE  /\ Rings(STails(m.tail, f), m.next)
         /\ Elems(List(m.tail, m.next)) = q
         /\ Elems(List(f, m.next)) = Elems(List(f, n))
<1> DEFINE t == STails(a, f)
           u == STails(m.tail, f)
<1>1. /\ DOMAIN t = {ASL, UNUSED} /\ IsFcn(t) /\ ASL # UNUSED
      /\ t[ASL] = a
      /\ ElemsAt(t, n, ASL) = Elems(List(a, n))
      /\ ElemsAt(t, n, UNUSED) = Elems(List(f, n))
  BY STailsAre, SElems
<1>2. /\ ElemsAt(u, m.next, ASL) = Elems(List(m.tail, m.next))
      /\ ElemsAt(u, m.next, UNUSED) = Elems(List(f, m.next))
  BY SElems
<1>3. Updated(t, ASL, m.tail, u)
  BY <1>1 DEF STails, Updated
<1>4. Rings(t, n)
  OBVIOUS
<1> HIDE DEF t, u
<1>5. \A j \in DOMAIN t : j # ASL => ToSet(ElemsAt(t, n, j)) \cap S = {}
  BY <1>1
<1>6. Turns(List(t[ASL], n), m, q, S)
  BY <1>1
<1>7. ASL \in DOMAIN t /\ UNUSED \in DOMAIN t
  BY <1>1
<1>8. Becomes(t, n, ASL, m, q, S, u)
  BY <1>1, <1>3, <1>4, <1>5, <1>6, <1>7 DEF Becomes
<1>9. /\ Rings(u, m.next)
      /\ ElemsAt(u, m.next, ASL) = q
      /\ \A j \in DOMAIN t : j # ASL => ElemsAt(u, m.next, j) = ElemsAt(t, n, j)
  BY <1>8, RingsStep
<1> QED BY <1>1, <1>2, <1>7, <1>9 DEF u

\* The list of the free descriptors becomes the ring m.
LEMMA UnusedStep ==
  ASSUME NEW a, NEW f, NEW n, Rings(STails(a, f), n),
         NEW m, NEW q, NEW S, Turns(List(f, n), m, q, S),
         ToSet(Elems(List(a, n))) \cap S = {}
  PROVE  /\ Rings(STails(a, m.tail), m.next)
         /\ Elems(List(m.tail, m.next)) = q
         /\ Elems(List(a, m.next)) = Elems(List(a, n))
<1> DEFINE t == STails(a, f)
           u == STails(a, m.tail)
<1>1. /\ DOMAIN t = {ASL, UNUSED} /\ IsFcn(t) /\ ASL # UNUSED
      /\ t[UNUSED] = f
      /\ ElemsAt(t, n, ASL) = Elems(List(a, n))
      /\ ElemsAt(t, n, UNUSED) = Elems(List(f, n))
  BY STailsAre, SElems
<1>2. /\ ElemsAt(u, m.next, ASL) = Elems(List(a, m.next))
      /\ ElemsAt(u, m.next, UNUSED) = Elems(List(m.tail, m.next))
  BY SElems
<1>3. Updated(t, UNUSED, m.tail, u)
  BY <1>1 DEF STails, Updated
<1>4. Rings(t, n)
  OBVIOUS
<1> HIDE DEF t, u
<1>5. \A j \in DOMAIN t : j # UNUSED => ToSet(ElemsAt(t, n, j)) \cap S = {}
  BY <1>1
<1>6. Turns(List(t[UNUSED], n), m, q, S)
  BY <1>1
<1>7. ASL \in DOMAIN t /\ UNUSED \in DOMAIN t
  BY <1>1
<1>8. Becomes(t, n, UNUSED, m, q, S, u)
  BY <1>1, <1>3, <1>4, <1>5, <1>6, <1>7 DEF Becomes
<1>9. /\ Rings(u, m.next)
      /\ ElemsAt(u, m.next, UNUSED) = q
      /\ \A j \in DOMAIN t : j # UNUSED => ElemsAt(u, m.next, j) = ElemsAt(t, n, j)
  BY <1>8, RingsStep
<1> QED BY <1>1, <1>2, <1>7, <1>9 DEF u

-----------------------------------------------------------------------------
(* What the invariant says of the lists *)

\* In terms of their sequences: each is a ring, and of those linked through
\* the same field no two share an element.
LEMMA ProcLists ==
  ASSUME Inv
  PROVE  /\ Ring(FreeL, Free) /\ Ring(ReadyL, Ready)
         /\ ToSet(Free) \cap ToSet(Ready) = {}
         /\ \A d \in Semd : /\ Ring(ProcqL(d), Procq[d])
                            /\ ToSet(Procq[d]) \cap ToSet(Free) = {}
                            /\ ToSet(Procq[d]) \cap ToSet(Ready) = {}
         /\ \A d, e \in Semd : d # e => ToSet(Procq[d]) \cap ToSet(Procq[e]) = {}
<1>1. Rings(PTails(pcbFree, ready, s_procq), p_list)
  BY DEF Inv, ProcInv
<1>2. /\ Ring(FreeL, Free) /\ Ring(ReadyL, Ready)
      /\ ToSet(Free) \cap ToSet(Ready) = {}
  BY <1>1, PRings DEF FreeL, ReadyL, Free, Ready
<1>3. \A d \in Semd : Procq[d] = Elems(List(s_procq[d], p_list))
                      /\ ProcqL(d) = List(s_procq[d], p_list)
  BY DEF Procq, ProcqL
<1>4. ASSUME NEW d \in Semd
      PROVE  /\ Ring(ProcqL(d), Procq[d])
             /\ ToSet(Procq[d]) \cap ToSet(Free) = {}
             /\ ToSet(Procq[d]) \cap ToSet(Ready) = {}
             /\ \A e \in Semd : d # e => ToSet(Procq[d]) \cap ToSet(Procq[e]) = {}
  <2>1. /\ Ring(List(s_procq[d], p_list), Elems(List(s_procq[d], p_list)))
        /\ ToSet(Elems(List(s_procq[d], p_list)))
             \cap ToSet(Elems(List(pcbFree, p_list))) = {}
        /\ ToSet(Elems(List(s_procq[d], p_list)))
             \cap ToSet(Elems(List(ready, p_list))) = {}
        /\ \A e \in Semd : d # e => ToSet(Elems(List(s_procq[d], p_list)))
                             \cap ToSet(Elems(List(s_procq[e], p_list))) = {}
    BY <1>1, PRings
  <2> QED BY <1>3, <2>1 DEF Free, FreeL, Ready, ReadyL
<1> QED BY <1>2, <1>4

LEMMA TreeLists ==
  ASSUME Inv
  PROVE  /\ \A p \in Proc : Ring(ChildL(p), Kids[p])
         /\ \A p, c \in Proc : p # c => ToSet(Kids[p]) \cap ToSet(Kids[c]) = {}
         /\ \A p, c \in Proc : c \in ToSet(Kids[p]) <=> p_parent[c] = p
<1>1. Rings(p_children, p_siblings) /\ DOMAIN p_children = Proc
  BY DEF Inv, TreeInv, Types, Links, Proc
<1>2. \A p \in Proc : /\ Kids[p] = ElemsAt(p_children, p_siblings, p)
                      /\ ChildL(p) = List(p_children[p], p_siblings)
  BY DEF Kids, ChildL, ElemsAt
<1> QED BY <1>1, <1>2 DEF Rings, Inv, TreeInv

LEMMA AslLists ==
  ASSUME Inv
  PROVE  /\ Ring(AslL, AslQ) /\ Ring(SemdFreeL, SemdQ)
         /\ ToSet(AslQ) \cap ToSet(SemdQ) = {} /\ Asl = ToSet(AslQ)
         /\ \A i, j \in 1 .. Len(AslQ) :
              i < j => s_semAdd[AslQ[i]] < s_semAdd[AslQ[j]]
         /\ \A d \in Semd : /\ d \in Asl <=> s_procq[d] # NULL
                            /\ Procq[d] = <<>> <=> s_procq[d] = NULL
<1>1. Rings(STails(aslh, semdFree), s_link)
  BY DEF Inv, AslInv
<1>2. /\ Ring(AslL, AslQ) /\ Ring(SemdFreeL, SemdQ)
      /\ ToSet(AslQ) \cap ToSet(SemdQ) = {} /\ Asl = ToSet(AslQ)
  BY <1>1, SRings DEF AslL, SemdFreeL, AslQ, SemdQ, Asl
<1>3. DOMAIN AslQ = 1 .. Len(AslQ)
  BY <1>2, RingFacts
<1>4. \A i, j \in 1 .. Len(AslQ) :
        i < j => s_semAdd[AslQ[i]] < s_semAdd[AslQ[j]]
  BY <1>3 DEF Inv, AslInv, AslSorted, AslQ
<1>5. ASSUME NEW d \in Semd
      PROVE  Procq[d] = <<>> <=> s_procq[d] = NULL
  <2>1. Ring(ProcqL(d), Procq[d]) /\ ProcqL(d).tail = s_procq[d]
    BY ProcLists DEF ProcqL, List
  <2> QED BY <2>1, RingFacts
<1> QED BY <1>2, <1>4, <1>5 DEF Inv, AslInv

LEMMA Addresses ==
  ASSUME Inv
  PROVE  /\ \A d \in Semd : s_semAdd[d] \in Nat
         /\ \A a \in Addr : a \in Nat /\ a # 0
         /\ \A i \in 1 .. Len(AslQ) : AslQ[i] \in Semd /\ AslQ[i] \in Asl
         /\ \A d \in Asl : \E i \in 1 .. Len(AslQ) : d = AslQ[i]
         /\ Len(AslQ) \in Nat /\ Asl \subseteq Semd
<1>1. \A a \in Addr : a \in Nat /\ a # 0
  BY CListAssumption
<1>2. \A d \in Semd : s_semAdd[d] \in Nat
  <2> TAKE d \in Semd
  <2>1. s_semAdd[d] \in Addr \cup {NULL}
    BY DEF Inv, Types, Links, Semd
  <2> QED BY <1>1, <2>1 DEF NULL
<1>3. /\ Len(AslQ) \in Nat /\ ToSet(AslQ) = {AslQ[i] : i \in 1 .. Len(AslQ)}
      /\ \A i \in 1 .. Len(AslQ) : AslQ[i] \in Node
      /\ Asl = ToSet(AslQ)
  BY AslLists, RingFacts
<1>4. Node = Semd
  BY DEF Node, Semd
<1> QED BY <1>1, <1>2, <1>3, <1>4

\* search finds the descriptor of an address, although it stops at the first
\* that is not below it: the ASL is sorted.
LEMMA SearchIs ==
  ASSUME Inv, NEW a \in Addr
  PROVE  /\ search(a) = IF Nuc!OnAsl(a) THEN Nuc!semdOf(a) ELSE NULL
         /\ Nuc!OnAsl(a) => /\ search(a) \in Asl /\ search(a) \in Semd
                            /\ search(a) # NULL
         /\ ~Nuc!OnAsl(a) => \A d \in Asl : s_semAdd[d] # a
<1> DEFINE q    == AslQ
           stop == {d \in Semd : s_semAdd[d] >= a}
           at   == clist_foreach(AslL, stop)
<1>1. /\ \A d \in Semd : s_semAdd[d] \in Nat
      /\ a \in Nat
      /\ \A i \in 1 .. Len(q) : q[i] \in Semd /\ q[i] \in Asl
      /\ \A d \in Asl : \E i \in 1 .. Len(q) : d = q[i]
      /\ Len(q) \in Nat
  BY Addresses
<1>2. /\ Ring(AslL, q)
      /\ \A i, j \in 1 .. Len(q) : i < j => s_semAdd[q[i]] < s_semAdd[q[j]]
  BY AslLists
<1>3. search(a) = IF clist_foreach_all(AslL, at) \/ s_semAdd[at.scan] # a
                  THEN NULL ELSE at.scan
  BY DEF search
<1>4. /\ Nuc!OnAsl(a) <=> \E d \in Asl : s_semAdd[d] = a
      /\ Nuc!semdOf(a) = CHOOSE d \in Asl : s_semAdd[d] = a
  BY DEF Nuc!OnAsl, Nuc!semdOf
<1>5. \A d \in Semd : d \in stop <=> s_semAdd[d] >= a
  OBVIOUS
<1>6. \A d \in Semd : d # NULL
  BY DEF Semd, NULL
<1> HIDE DEF q, stop
<1>7. \/ /\ \A k \in 1 .. Len(q) : q[k] \notin stop
         /\ clist_foreach_all(AslL, at)
      \/ \E n \in 1 .. Len(q) :
           /\ q[n] \in stop /\ \A k \in 1 .. n-1 : q[k] \notin stop
           /\ at = [tmp |-> IF n = 1 THEN NULL ELSE q[n-1], scan |-> q[n]]
           /\ ~clist_foreach_all(AslL, at)
  BY <1>2, ForeachOfRing
<1> HIDE DEF at
<1>8. CASE /\ \A k \in 1 .. Len(q) : q[k] \notin stop
           /\ clist_foreach_all(AslL, at)
  <2>1. search(a) = NULL
    BY <1>3, <1>8
  <2>2. ASSUME NEW d \in Asl PROVE s_semAdd[d] # a
    <3>1. PICK i \in 1 .. Len(q) : d = q[i]
      BY <1>1
    <3>2. ~(s_semAdd[d] >= a) /\ s_semAdd[d] \in Nat
      BY <1>1, <1>5, <1>8, <3>1
    <3> QED BY <1>1, <3>2
  <2> QED BY <1>4, <2>1, <2>2
<1>9. ASSUME NEW n \in 1 .. Len(q), q[n] \in stop, \A k \in 1 .. n-1 : q[k] \notin stop,
             at = [tmp |-> IF n = 1 THEN NULL ELSE q[n-1], scan |-> q[n]],
             ~clist_foreach_all(AslL, at)
      PROVE  /\ search(a) = IF Nuc!OnAsl(a) THEN Nuc!semdOf(a) ELSE NULL
             /\ Nuc!OnAsl(a) => search(a) \in Asl /\ search(a) \in Semd /\ search(a) # NULL
             /\ ~Nuc!OnAsl(a) => \A d \in Asl : s_semAdd[d] # a
  <2>1. search(a) = IF s_semAdd[q[n]] # a THEN NULL ELSE q[n]
    BY <1>3, <1>9
  <2>2. q[n] \in Semd /\ q[n] \in Asl /\ s_semAdd[q[n]] >= a /\ s_semAdd[q[n]] \in Nat
    BY <1>1, <1>5, <1>9
  <2>3. ASSUME NEW i \in 1 .. Len(q), s_semAdd[q[i]] = a
        PROVE  i = n
    <3>1. CASE i < n
      <4>1. i \in 1 .. n-1 /\ q[i] \in Semd
        BY <1>1, <3>1
      <4> QED BY <1>1, <1>5, <1>9, <2>3, <4>1
    <3>2. CASE n < i
      <4>1. s_semAdd[q[n]] < s_semAdd[q[i]]
        BY <1>2, <3>2
      <4> QED BY <1>1, <2>2, <2>3, <4>1
    <3> QED BY <3>1, <3>2, <1>1
  <2>4. \A d \in Asl : s_semAdd[d] = a => d = q[n]
    <3> TAKE d \in Asl
    <3>1. PICK i \in 1 .. Len(q) : d = q[i]
      BY <1>1
    <3> QED BY <2>3, <3>1
  <2>5. CASE s_semAdd[q[n]] = a
    <3>1. (CHOOSE d \in Asl : s_semAdd[d] = a) = q[n]
      BY <2>2, <2>4, <2>5
    <3>2. Nuc!OnAsl(a)
      BY <1>4, <2>2, <2>5
    <3> QED BY <1>4, <1>6, <2>1, <2>2, <2>5, <3>1, <3>2
  <2>6. CASE s_semAdd[q[n]] # a
    <3>1. \A d \in Asl : s_semAdd[d] # a
      BY <2>4, <2>6
    <3> QED BY <1>4, <2>1, <2>6, <3>1
  <2> QED BY <2>5, <2>6
<1> QED BY <1>7, <1>8, <1>9

-----------------------------------------------------------------------------
(* What a step leaves as it was *)

LEMMA ProcFrame ==
  ASSUME Inv, UNCHANGED <<p_list, pcbFree, ready, s_procq, live>>
  PROVE  ProcInv' /\ UNCHANGED <<Free, Ready, Procq>>
<1>1. UNCHANGED <<Free, Ready, Procq>>
  BY DEF Free, Ready, Procq, FreeL, ReadyL, ProcqL, List
<1>2. PTails(pcbFree, ready, s_procq)' = PTails(pcbFree, ready, s_procq)
  BY DEF PTails
<1> QED BY <1>1, <1>2 DEF Inv, ProcInv

\* What a step frees is not in the tree.
Released == \A p \in live \ live' : p_parent[p] = NULL /\ p_children[p] = NULL

LEMMA TreeFrame ==
  ASSUME Inv, UNCHANGED treeVars, Released
  PROVE  TreeInv' /\ UNCHANGED seqTree
<1>1. UNCHANGED <<Kids, p_parent, p_children, p_siblings>>
  BY DEF Kids, ChildL, List, treeVars
<1>2. \A p \in Proc \ live' : p_parent[p] = NULL /\ p_children[p] = NULL
  BY DEF Inv, TreeInv, Released
<1> QED BY <1>1, <1>2 DEF Inv, TreeInv, seqTree

LEMMA AslFrame ==
  ASSUME Inv, UNCHANGED <<s_link, aslh, semdFree, s_semAdd>>
  PROVE  /\ Rings(STails(aslh, semdFree), s_link)' /\ AslSorted'
         /\ UNCHANGED <<Asl, SemdQ, AslQ>>
<1>1. UNCHANGED <<Asl, SemdQ, AslQ>>
  BY DEF Asl, SemdQ, AslQ, AslL, SemdFreeL, List
<1>2. STails(aslh, semdFree)' = STails(aslh, semdFree)
  BY DEF STails
<1>3. AslSorted'
  BY <1>1 DEF Inv, AslInv, AslSorted, AslQ
<1> QED BY <1>1, <1>2, <1>3 DEF Inv, AslInv

-----------------------------------------------------------------------------
(* pcb.c: the queues *)

\* A pcb that is held is on no list of pcbs.
LEMMA HeldIsOnNoList ==
  ASSUME Inv, NEW p \in Proc, Held(p)
  PROVE  /\ p \notin ToSet(Free) /\ p \notin ToSet(Ready)
         /\ \A d \in Semd : p \notin ToSet(Procq[d])
<1>1. p \notin ToSet(Free)
  BY DEF Inv, ProcInv, Held
<1>2. p \notin ToSet(Ready) /\ \A d \in Semd : p \notin ToSet(Procq[d])
  BY DEF Held, Queued, Ready, Procq
<1> QED BY <1>1, <1>2

\* The free list becomes the ring m, whose elements are some of those it had
\* or were on no list.
LEMMA NewFree ==
  ASSUME Inv, NEW m, NEW q, NEW S, Turns(FreeL, m, q, S),
         ToSet(Ready) \cap S = {}, \A d \in Semd : ToSet(Procq[d]) \cap S = {},
         pcbFree' = m.tail, p_list' = m.next, UNCHANGED <<ready, s_procq>>
  PROVE  /\ Rings(PTails(pcbFree, ready, s_procq), p_list)'
         /\ Free' = q /\ UNCHANGED <<Ready, Procq>>
         /\ p_list' \in Links(Proc) /\ pcbFree' \in Proc \cup {NULL}
<1>1. Rings(PTails(pcbFree, ready, s_procq), p_list)
  BY DEF Inv, ProcInv
<1>2. ToSet(Elems(List(ready, p_list))) \cap S = {}
  BY DEF Ready, ReadyL
<1>3. \A d \in Semd : ToSet(Elems(List(s_procq[d], p_list))) \cap S = {}
  BY DEF Procq, ProcqL
<1>4. Turns(List(pcbFree, p_list), m, q, S)
  BY DEF FreeL
<1>5. /\ Rings(PTails(m.tail, ready, s_procq), m.next)
      /\ Elems(List(m.tail, m.next)) = q
      /\ Elems(List(ready, m.next)) = Elems(List(ready, p_list))
      /\ \A d \in Semd : Elems(List(s_procq[d], m.next)) = Elems(List(s_procq[d], p_list))
  BY <1>1, <1>2, <1>3, <1>4, FreeStep
<1>6. Rings(PTails(pcbFree, ready, s_procq), p_list)'
  BY <1>5
<1>7. Free' = q /\ Ready' = Ready
  BY <1>5 DEF Free, Ready, FreeL, ReadyL
<1>8. Procq' = Procq
  BY <1>5 DEF Procq, ProcqL
<1>9. p_list' \in Links(Proc) /\ pcbFree' \in Proc \cup {NULL}
  BY DEF Turns, Ring, Node, Proc
<1> QED BY <1>6, <1>7, <1>8, <1>9

\* The same of the ready queue.
LEMMA NewReady ==
  ASSUME Inv, NEW m, NEW q, NEW S, Turns(ReadyL, m, q, S),
         ToSet(Free) \cap S = {}, \A d \in Semd : ToSet(Procq[d]) \cap S = {},
         ready' = m.tail, p_list' = m.next, UNCHANGED <<pcbFree, s_procq>>
  PROVE  /\ Rings(PTails(pcbFree, ready, s_procq), p_list)'
         /\ Ready' = q /\ UNCHANGED <<Free, Procq>>
         /\ p_list' \in Links(Proc)
<1>1. Rings(PTails(pcbFree, ready, s_procq), p_list)
  BY DEF Inv, ProcInv
<1>2. ToSet(Elems(List(pcbFree, p_list))) \cap S = {}
  BY DEF Free, FreeL
<1>3. \A d \in Semd : ToSet(Elems(List(s_procq[d], p_list))) \cap S = {}
  BY DEF Procq, ProcqL
<1>4. Turns(List(ready, p_list), m, q, S)
  BY DEF ReadyL
<1>5. /\ Rings(PTails(pcbFree, m.tail, s_procq), m.next)
      /\ Elems(List(m.tail, m.next)) = q
      /\ Elems(List(pcbFree, m.next)) = Elems(List(pcbFree, p_list))
      /\ \A d \in Semd : Elems(List(s_procq[d], m.next)) = Elems(List(s_procq[d], p_list))
  BY <1>1, <1>2, <1>3, <1>4, ReadyStep
<1>6. Rings(PTails(pcbFree, ready, s_procq), p_list)'
  BY <1>5
<1>7. Ready' = q /\ Free' = Free
  BY <1>5 DEF Free, Ready, FreeL, ReadyL
<1>8. Procq' = Procq
  BY <1>5 DEF Procq, ProcqL
<1>9. p_list' \in Links(Proc)
  BY DEF Turns, Ring, Node, Proc
<1> QED BY <1>6, <1>7, <1>8, <1>9

\* A step that changes p_list and the tails of the free list and of the ready
\* queue only, and allocates or frees no pcb.
LEMMA QueueFrame ==
  ASSUME Inv, UNCHANGED <<treeVars, aslVars>>, p_list' \in Links(Proc),
         live' \subseteq Proc, UNCHANGED Procq, Released
  PROVE  /\ Types' /\ TreeInv' /\ AslInv'
         /\ UNCHANGED <<seqTree, seqAsl>>
<1>1. Types'
  BY DEF Inv, Types, treeVars, aslVars
<1>2. TreeInv' /\ UNCHANGED seqTree
  BY TreeFrame
<1>3. UNCHANGED <<s_link, aslh, semdFree, s_semAdd, s_procq, p_cursem>>
  BY DEF aslVars
<1>4. /\ Rings(STails(aslh, semdFree), s_link)' /\ AslSorted'
      /\ UNCHANGED <<Asl, SemdQ, AslQ>>
  BY <1>3, AslFrame
<1>5. AslInv'
  BY <1>3, <1>4 DEF Inv, AslInv
<1> QED BY <1>1, <1>2, <1>3, <1>4, <1>5 DEF seqAsl

LEMMA FreePcb ==
  ASSUME Inv, NEW p \in Proc, freePcb(p)
  PROVE  Inv' /\ SeqQueue /\ UNCHANGED <<seqTree, seqAsl>>
<1> DEFINE m == clist_enqueue(FreeL, p)
           q == Append(Free, p)
           S == ToSet(Free) \cup {p}
<1>1. /\ pcbFree' = m.tail /\ p_list' = m.next /\ live' = live \ {p} /\ p \in live
      /\ Held(p) /\ p_parent[p] = NULL /\ p_children[p] = NULL
      /\ UNCHANGED <<ready, treeVars, aslVars>>
  BY DEF freePcb, Held
<1>2. /\ p \notin ToSet(Free) /\ p \notin ToSet(Ready)
      /\ \A d \in Semd : p \notin ToSet(Procq[d])
  BY <1>1, HeldIsOnNoList
<1>3. Ring(FreeL, Free) /\ ToSet(Free) \cap ToSet(Ready) = {}
      /\ \A d \in Semd : ToSet(Procq[d]) \cap ToSet(Free) = {}
  BY ProcLists
<1>4. Ring(m, q) /\ Same(FreeL, m, S)
  BY <1>2, <1>3, EnqueueOfRing DEF Node, Proc
<1>5. ToSet(q) = S
  BY <1>2, <1>3, EnqueuedSet DEF Node, Proc
<1>6. ToSet(Ready) \cap S = {} /\ \A d \in Semd : ToSet(Procq[d]) \cap S = {}
  BY <1>2, <1>3
<1>7. UNCHANGED <<ready, s_procq>>
  BY <1>1 DEF aslVars
<1> HIDE DEF m, q, S
<1>8. Turns(FreeL, m, q, S)
  BY <1>4, <1>5 DEF Turns
<1>9. /\ Rings(PTails(pcbFree, ready, s_procq), p_list)'
      /\ Free' = q /\ UNCHANGED <<Ready, Procq>>
      /\ p_list' \in Links(Proc) /\ pcbFree' \in Proc \cup {NULL}
  BY <1>1, <1>6, <1>7, <1>8, NewFree
<1>10. live \subseteq Proc /\ ToSet(Free) = Proc \ live
  BY DEF Inv, Types, ProcInv
<1>11. ProcInv'
  BY <1>1, <1>5, <1>9, <1>10 DEF ProcInv, S
<1>12. Released
  BY <1>1 DEF Released
<1>13. Types' /\ TreeInv' /\ AslInv' /\ UNCHANGED <<seqTree, seqAsl>>
  BY <1>1, <1>9, <1>10, <1>12, QueueFrame
<1>14. SeqQueue
  BY <1>9 DEF SeqQueue, q
<1> QED BY <1>11, <1>13, <1>14 DEF Inv

LEMMA InsertProcQ ==
  ASSUME Inv, NEW p \in Proc, insertProcQ(p)
  PROVE  Inv' /\ SeqQueue /\ UNCHANGED <<seqTree, seqAsl>>
<1> DEFINE m == clist_enqueue(ReadyL, p)
           q == Append(Ready, p)
           S == ToSet(Ready) \cup {p}
<1>1. /\ ready' = m.tail /\ p_list' = m.next /\ live' = live
      /\ Held(p) /\ UNCHANGED <<pcbFree, treeVars, aslVars>>
  BY DEF insertProcQ
<1>2. /\ p \notin ToSet(Free) /\ p \notin ToSet(Ready)
      /\ \A d \in Semd : p \notin ToSet(Procq[d])
  BY <1>1, HeldIsOnNoList
<1>3. Ring(ReadyL, Ready) /\ ToSet(Free) \cap ToSet(Ready) = {}
      /\ \A d \in Semd : ToSet(Procq[d]) \cap ToSet(Ready) = {}
  BY ProcLists
<1>4. Ring(m, q) /\ Same(ReadyL, m, S)
  BY <1>2, <1>3, EnqueueOfRing DEF Node, Proc
<1>5. ToSet(q) = S
  BY <1>2, <1>3, EnqueuedSet DEF Node, Proc
<1>6. ToSet(Free) \cap S = {} /\ \A d \in Semd : ToSet(Procq[d]) \cap S = {}
  BY <1>2, <1>3
<1>7. UNCHANGED <<pcbFree, s_procq>>
  BY <1>1 DEF aslVars
<1> HIDE DEF m, q, S
<1>8. Turns(ReadyL, m, q, S)
  BY <1>4, <1>5 DEF Turns
<1>9. /\ Rings(PTails(pcbFree, ready, s_procq), p_list)'
      /\ Ready' = q /\ UNCHANGED <<Free, Procq>>
      /\ p_list' \in Links(Proc)
  BY <1>1, <1>6, <1>7, <1>8, NewReady
<1>10. live \subseteq Proc /\ ToSet(Free) = Proc \ live
  BY DEF Inv, Types, ProcInv
<1>11. ProcInv'
  BY <1>1, <1>9, <1>10 DEF ProcInv
<1>12. Types' /\ TreeInv' /\ AslInv' /\ UNCHANGED <<seqTree, seqAsl>>
  BY <1>1, <1>9, <1>10, QueueFrame DEF Released
<1>13. SeqQueue
  BY <1>9 DEF SeqQueue, Nuc!insertProcQ, q
<1> QED BY <1>11, <1>12, <1>13 DEF Inv

\* removeProcQ and outProcQ: the ready queue keeps some of its elements.
LEMMA ShorterReady ==
  ASSUME Inv, NEW m, NEW q, Turns(ReadyL, m, q, ToSet(Ready)),
         ready' = m.tail, p_list' = m.next,
         UNCHANGED <<pcbFree, treeVars, aslVars, live>>
  PROVE  /\ Inv' /\ Ready' = q
         /\ UNCHANGED <<Free, seqTree, seqAsl>>
<1>1. ToSet(Free) \cap ToSet(Ready) = {}
      /\ \A d \in Semd : ToSet(Procq[d]) \cap ToSet(Ready) = {}
  BY ProcLists
<1>2. UNCHANGED <<pcbFree, s_procq>>
  BY DEF aslVars
<1>3. /\ Rings(PTails(pcbFree, ready, s_procq), p_list)'
      /\ Ready' = q /\ UNCHANGED <<Free, Procq>>
      /\ p_list' \in Links(Proc)
  BY <1>1, <1>2, NewReady
<1>4. live \subseteq Proc /\ ToSet(Free) = Proc \ live
  BY DEF Inv, Types, ProcInv
<1>5. ProcInv'
  BY <1>3, <1>4 DEF ProcInv
<1>6. Types' /\ TreeInv' /\ AslInv' /\ UNCHANGED <<seqTree, seqAsl>>
  BY <1>3, <1>4, QueueFrame DEF Released
<1> QED BY <1>3, <1>5, <1>6 DEF Inv

LEMMA RemoveProcQ ==
  ASSUME Inv, removeProcQ
  PROVE  Inv' /\ SeqQueue /\ UNCHANGED <<seqTree, seqAsl>>
<1> DEFINE m == clist_dequeue(ReadyL)
<1>1. /\ ready' = m.tail /\ p_list' = m.next /\ ready # NULL
      /\ UNCHANGED <<pcbFree, treeVars, aslVars, live>>
  BY DEF removeProcQ
<1>2. Ring(ReadyL, Ready) /\ ReadyL.tail = ready
  BY ProcLists DEF ReadyL, List
<1>3. Ready # <<>>
  BY <1>1, <1>2, RingFacts
<1>4. Ring(m, Tail(Ready)) /\ Same(ReadyL, m, ToSet(Ready))
  BY <1>2, <1>3, DequeueOfRing
<1>5. Turns(ReadyL, m, Tail(Ready), ToSet(Ready))
  BY <1>2, <1>3, <1>4, TailProperties DEF Turns, Ring
<1> HIDE DEF m
<1>6. Inv' /\ Ready' = Tail(Ready) /\ UNCHANGED <<Free, seqTree, seqAsl>>
  BY <1>1, <1>5, ShorterReady
<1> QED BY <1>3, <1>6 DEF SeqQueue

LEMMA OutProcQ ==
  ASSUME Inv, NEW p \in Proc, outProcQ(p)
  PROVE  Inv' /\ SeqQueue /\ UNCHANGED <<seqTree, seqAsl>>
<1> DEFINE m == without(ReadyL, p)
           q == Without(Ready, p)
<1>1. /\ ready' = m.tail /\ p_list' = m.next
      /\ UNCHANGED <<pcbFree, treeVars, aslVars, live>>
  BY DEF outProcQ
<1>2. Ring(ReadyL, Ready)
  BY ProcLists
<1>3. Ring(m, q) /\ Same(ReadyL, m, ToSet(Ready))
  BY <1>2, WithoutOfRing
<1>4. Turns(ReadyL, m, q, ToSet(Ready))
  BY <1>2, <1>3, WithoutProperties DEF Turns, Ring
<1> HIDE DEF m, q
<1>5. Inv' /\ Ready' = q /\ UNCHANGED <<Free, seqTree, seqAsl>>
  BY <1>1, <1>4, ShorterReady
<1> QED BY <1>5 DEF SeqQueue, q

-----------------------------------------------------------------------------
(* pcb.c: allocPcb and the process tree *)

\* The next field of an element that has left a ring can be cleared.
LEMMA ClearedRing ==
  ASSUME NEW l, NEW m, NEW q, Ring(m, q), NEW S, Same(l, m, S),
         NEW e \in Node, e \notin ToSet(q), e \in S
  PROVE  /\ Ring(List(m.tail, [m.next EXCEPT ![e] = NULL]), q)
         /\ Same(l, List(m.tail, [m.next EXCEPT ![e] = NULL]), S)
<1> DEFINE n == [m.next EXCEPT ![e] = NULL]
<1>1. n \in Links(Node) /\ \A x \in Node \ {e} : n[x] = m.next[x]
  BY DEF Ring, Links, Node
<1>2. ToSet(q) \cap {e} = {}
  OBVIOUS
<1> HIDE DEF n
<1>3. Ring(List(m.tail, n), q)
  BY <1>1, <1>2, RingFrame
<1>4. Same(l, List(m.tail, n), S)
  BY <1>1 DEF Same, List
<1> QED BY <1>3, <1>4 DEF n

LEMMA EmptyRing ==
  ASSUME NEW n \in Links(Proc)
  PROVE  Ring(List(NULL, n), <<>>) /\ Elems(List(NULL, n)) = <<>>
<1>1. List(NULL, n) \in [tail : Node \cup {NULL}, next : Links(Node)]
      /\ List(NULL, n).tail = NULL
  BY DEF List, Links, Node, Proc
<1>2. <<>> \in Seq(Node) /\ IsInjective(<<>>)
  BY EmptySeq DEF IsInjective
<1>3. Ring(List(NULL, n), <<>>)
  BY <1>1, <1>2 DEF Ring
<1> QED BY <1>3, ElemsOfRing

\* While no pcb has a child, the siblings can be written.
LEMMA NoChildren ==
  ASSUME NEW n \in Links(Proc)
  PROVE  /\ Rings(Zero, n)
         /\ \A p \in Proc : Elems(List(Zero[p], n)) = <<>>
<1>1. DOMAIN Zero = Proc /\ \A p \in Proc : Zero[p] = NULL
  BY DEF Zero, Proc
<1>2. Ring(List(NULL, n), <<>>) /\ Elems(List(NULL, n)) = <<>>
  BY EmptyRing
<1>3. ToSet(<<>>) = {}
  BY DEF ToSet
<1>4. \A p \in Proc : ElemsAt(Zero, n, p) = <<>> /\ List(Zero[p], n) = List(NULL, n)
  BY <1>1, <1>2 DEF ElemsAt
<1> QED BY <1>1, <1>2, <1>3, <1>4 DEF Rings

LEMMA AllocPcb ==
  ASSUME Inv, allocPcb
  PROVE  Inv' /\ SeqAlloc
<1> DEFINE h == clist_dequeue(FreeL)
           p == clist_head(FreeL)
           m == List(h.tail, [h.next EXCEPT ![p] = NULL])
           q == Tail(Free)
           S == ToSet(Free)
<1>1. /\ pcbFree # NULL /\ pcbFree' = h.tail
      /\ p_list' = [h.next EXCEPT ![p] = NULL]
      /\ p_siblings' = [p_siblings EXCEPT ![p] = NULL]
      /\ p_children' = [p_children EXCEPT ![p] = NULL]
      /\ p_parent' = [p_parent EXCEPT ![p] = NULL]
      /\ p_cursem' = [p_cursem EXCEPT ![p] = NULL]
      /\ live' = live \cup {p}
      /\ UNCHANGED <<ready, s_link, s_procq, aslh, semdFree, s_semAdd>>
  BY DEF allocPcb
<1>2. /\ Ring(FreeL, Free) /\ FreeL.tail = pcbFree
      /\ ToSet(Free) \cap ToSet(Ready) = {}
      /\ \A d \in Semd : ToSet(Procq[d]) \cap ToSet(Free) = {}
  BY ProcLists DEF FreeL, List
<1>3. Free # <<>> /\ Free \in Seq(Node) /\ IsInjective(Free)
  BY <1>1, <1>2, RingFacts DEF Ring
<1>4. Ring(h, q) /\ Same(FreeL, h, S) /\ p = Head(Free)
  BY <1>2, <1>3, DequeueOfRing
<1>5. p \in S /\ p \in Node /\ ToSet(q) = S \ {p}
  BY <1>3, <1>4, TailProperties
<1> HIDE DEF h, p, q, S
<1>6. p \notin ToSet(q)
  BY <1>5
<1>7. Ring(m, q) /\ Same(FreeL, m, S)
  BY <1>4, <1>5, <1>6, ClearedRing
<1>8. m.tail = h.tail /\ m.next = [h.next EXCEPT ![p] = NULL]
  BY DEF List
<1>9. ToSet(Ready) \cap S = {} /\ \A d \in Semd : ToSet(Procq[d]) \cap S = {}
  BY <1>2 DEF S
<1>10. pcbFree' = m.tail /\ p_list' = m.next /\ ToSet(q) \subseteq S
       /\ UNCHANGED <<ready, s_procq>>
  BY <1>1, <1>5, <1>8
<1> HIDE DEF m
<1>11. Turns(FreeL, m, q, S)
  BY <1>7, <1>10 DEF Turns
<1>12. /\ Rings(PTails(pcbFree, ready, s_procq), p_list)'
       /\ Free' = q /\ UNCHANGED <<Ready, Procq>>
       /\ p_list' \in Links(Proc) /\ pcbFree' \in Proc \cup {NULL}
  BY <1>9, <1>10, <1>11, NewFree
<1>13. ProcInv' /\ live' \subseteq Proc
  <2>1. live \subseteq Proc /\ ToSet(Free) = Proc \ live
    BY DEF Inv, Types, ProcInv
  <2> QED BY <1>1, <1>5, <1>12, <2>1 DEF ProcInv, S, Node, Proc
<1>14. p \in Proc
  BY <1>5 DEF Node, Proc
<1>15. p \notin live
  BY <1>5 DEF Inv, ProcInv, S
<1>16. {p_siblings, p_parent, p_children} \subseteq Links(Proc) /\ p_cursem \in Links(Semd)
  BY DEF Inv, Types
<1>17. p_parent[p] = NULL /\ p_children[p] = NULL
  BY <1>14, <1>15 DEF Inv, TreeInv
<1>18. /\ {p_siblings', p_parent', p_children'} \subseteq Links(Proc)
       /\ p_cursem' \in Links(Semd) /\ UNCHANGED <<p_parent, p_children>>
       /\ \A x \in Proc \ {p} : p_siblings'[x] = p_siblings[x]
  BY <1>1, <1>14, <1>16, <1>17 DEF Links, Proc, Semd
<1>19. Types'
  BY <1>1, <1>12, <1>13, <1>18 DEF Inv, Types
<1>20. /\ UNCHANGED Kids /\ Kids[p] = <<>> /\ TreeInv'
  <2>1. /\ \A x \in Proc : Ring(ChildL(x), Kids[x])
        /\ \A x, c \in Proc : x # c => ToSet(Kids[x]) \cap ToSet(Kids[c]) = {}
        /\ \A x, c \in Proc : c \in ToSet(Kids[x]) <=> p_parent[c] = x
    BY TreeLists
  <2>2. \A x \in Proc : ChildL(x).tail = p_children[x] /\ ChildL(x).next = p_siblings
    BY DEF ChildL, List
  <2>3. Kids[p] = <<>>
    BY <1>14, <1>17, <2>1, <2>2, RingFacts
  <2>4. ASSUME NEW x \in Proc
        PROVE  /\ Ring(List(p_children[x], p_siblings'), Kids[x])
               /\ Elems(List(p_children[x], p_siblings')) = Kids[x]
    <3> DEFINE l == ChildL(x)
               k == Kids[x]
               n == p_siblings'
    <3>1. Ring(l, k) /\ l.tail = p_children[x] /\ ToSet(k) \cap {p} = {}
      BY <1>14, <1>17, <2>1, <2>2 DEF Proc, NULL
    <3>2. n \in Links(Node) /\ \A y \in Node \ {p} : n[y] = l.next[y]
      BY <1>18, <2>2 DEF Node, Proc
    <3> HIDE DEF l, k, n
    <3>3. Ring(List(l.tail, n), k) /\ Elems(List(l.tail, n)) = k
      BY <3>1, <3>2, RingFrame, ElemsOfRing
    <3> QED BY <3>1, <3>3 DEF k, n
  <2>5. Kids' = Kids
    <3>1. Kids' = [x \in Proc |-> Elems(List(p_children[x], p_siblings'))]
      BY <1>18 DEF Kids, ChildL
    <3>2. Kids = [x \in Proc |-> Kids[x]]
      BY DEF Kids
    <3> HIDE DEF Kids
    <3> QED BY <2>4, <3>1, <3>2
  <2>6. Rings(p_children, p_siblings')
    <3>1. DOMAIN p_children = Proc
      BY <1>16 DEF Links, Proc
    <3>2. \A x \in Proc : ElemsAt(p_children, p_siblings', x) = Kids[x]
      BY <2>4 DEF ElemsAt
    <3> QED BY <2>1, <2>4, <3>1, <3>2 DEF Rings
  <2>7. \A x \in Proc \ live' : p_parent[x] = NULL /\ p_children[x] = NULL
    BY <1>1 DEF Inv, TreeInv
  <2>8. TreeInv'
    BY <1>18, <2>1, <2>5, <2>6, <2>7 DEF TreeInv
  <2> QED BY <2>3, <2>5, <2>8
<1>21. /\ Rings(STails(aslh, semdFree), s_link)' /\ AslSorted'
       /\ UNCHANGED <<Asl, SemdQ, AslQ>>
  BY <1>1, AslFrame
<1>22. AslInv'
  BY <1>1, <1>21 DEF Inv, AslInv
<1>23. Kids' = [Kids EXCEPT ![Head(Free)] = <<>>]
  <2>1. Kids = [x \in Proc |-> Kids[x]]
    BY DEF Kids
  <2> HIDE DEF Kids
  <2> QED BY <1>4, <1>20, <2>1
<1>24. SeqAlloc
  BY <1>1, <1>3, <1>4, <1>12, <1>21, <1>23 DEF SeqAlloc, q
<1> QED BY <1>13, <1>19, <1>20, <1>22, <1>24 DEF Inv

\* The children of p become the ring m, whose elements are some of those it had
\* or were on no list of children.
LEMMA NewKids ==
  ASSUME Inv, NEW p \in Proc, NEW m, NEW q, NEW S, Turns(ChildL(p), m, q, S),
         \A c \in Proc : c # p => ToSet(Kids[c]) \cap S = {},
         Updated(p_children, p, m.tail, p_children'), p_siblings' = m.next
  PROVE  /\ Rings(p_children, p_siblings)' /\ Kids' = [Kids EXCEPT ![p] = q]
         /\ p_siblings' \in Links(Proc) /\ p_children' \in Links(Proc)
<1>1. /\ Rings(p_children, p_siblings) /\ DOMAIN p_children = Proc
      /\ p_children \in Links(Proc) /\ IsFcn(p_children)
  BY DEF Inv, TreeInv, Types, Links, Proc, IsFcn
<1>2. \A c \in Proc : /\ Kids[c] = ElemsAt(p_children, p_siblings, c)
                      /\ ChildL(c) = List(p_children[c], p_siblings)
  BY DEF Kids, ChildL, ElemsAt
<1>3. \A c \in DOMAIN p_children :
        c # p => ToSet(ElemsAt(p_children, p_siblings, c)) \cap S = {}
  BY <1>1, <1>2
<1>4. Turns(List(p_children[p], p_siblings), m, q, S) /\ p \in DOMAIN p_children
  BY <1>1, <1>2
<1>5. Becomes(p_children, p_siblings, p, m, q, S, p_children')
  BY <1>1, <1>3, <1>4 DEF Becomes
<1>6. /\ Rings(p_children', m.next)
      /\ ElemsAt(p_children', m.next, p) = q
      /\ \A c \in DOMAIN p_children : c # p =>
           ElemsAt(p_children', m.next, c) = ElemsAt(p_children, p_siblings, c)
  BY <1>5, RingsStep
<1>7. \A c \in Proc : Kids'[c] = ElemsAt(p_children', m.next, c)
  BY DEF Kids, ChildL, ElemsAt
<1>8. Kids' = [Kids EXCEPT ![p] = q]
  <2>1. Kids' = [c \in Proc |-> Kids'[c]] /\ Kids = [c \in Proc |-> Kids[c]]
    BY DEF Kids
  <2>2. Kids'[p] = q /\ \A c \in Proc : c # p => Kids'[c] = Kids[c]
    BY <1>1, <1>2, <1>6, <1>7
  <2> HIDE DEF Kids
  <2> QED BY <2>1, <2>2
<1>9. p_siblings' \in Links(Proc) /\ m.tail \in Proc \cup {NULL}
  BY DEF Turns, Ring, Node, Proc
<1>10. p_children' \in Links(Proc)
  BY <1>1, <1>9 DEF Links, Proc, Updated
<1> QED BY <1>6, <1>8, <1>9, <1>10

LEMMA TreeStepFrame ==
  ASSUME Inv, UNCHANGED <<p_list, pcbFree, ready, aslVars, live>>,
         {p_siblings', p_children', p_parent'} \subseteq Links(Proc)
  PROVE  /\ Types' /\ ProcInv' /\ AslInv'
         /\ UNCHANGED <<Free, Ready, seqAsl>>
<1>1. UNCHANGED <<p_list, pcbFree, ready, s_procq, live, s_link, aslh, semdFree,
                  s_semAdd, p_cursem>>
  BY DEF aslVars
<1>2. ProcInv' /\ UNCHANGED <<Free, Ready, Procq>>
  BY <1>1, ProcFrame
<1>3. /\ Rings(STails(aslh, semdFree), s_link)' /\ AslSorted'
      /\ UNCHANGED <<Asl, SemdQ, AslQ>>
  BY <1>1, AslFrame
<1>4. AslInv'
  BY <1>1, <1>3 DEF Inv, AslInv
<1>5. Types'
  BY <1>1 DEF Inv, Types
<1> QED BY <1>1, <1>2, <1>3, <1>4, <1>5 DEF seqAsl

LEMMA InsertChild ==
  ASSUME Inv, NEW p \in Proc, NEW c \in Proc, insertChild(p, c)
  PROVE  Inv' /\ SeqTree /\ UNCHANGED <<Free, Ready, seqAsl>>
<1> DEFINE m == clist_enqueue(ChildL(p), c)
           q == Append(Kids[p], c)
           S == ToSet(Kids[p]) \cup {c}
<1>1. /\ p_parent[c] = NULL /\ p_parent' = [p_parent EXCEPT ![c] = p]
      /\ p_children' = [p_children EXCEPT ![p] = m.tail] /\ p_siblings' = m.next
      /\ p \in live /\ c \in live
      /\ UNCHANGED <<p_list, pcbFree, ready, aslVars, live>>
  BY DEF insertChild
<1>2. /\ Ring(ChildL(p), Kids[p])
      /\ \A x \in Proc : x # p => ToSet(Kids[p]) \cap ToSet(Kids[x]) = {}
      /\ \A x, y \in Proc : y \in ToSet(Kids[x]) <=> p_parent[y] = x
  BY TreeLists
<1>3. \A x \in Proc : c \notin ToSet(Kids[x])
  BY <1>1, <1>2 DEF Proc, NULL
<1>4. Ring(m, q) /\ Same(ChildL(p), m, S)
  BY <1>2, <1>3, EnqueueOfRing DEF Node, Proc
<1>5. ToSet(q) = S
  BY <1>2, <1>3, EnqueuedSet DEF Node, Proc
<1>6. \A x \in Proc : x # p => ToSet(Kids[x]) \cap S = {}
  BY <1>2, <1>3
<1> HIDE DEF m, q, S
<1>7. /\ Turns(ChildL(p), m, q, S) /\ Updated(p_children, p, m.tail, p_children')
      /\ p_siblings' = m.next
  BY <1>1, <1>4, <1>5 DEF Turns, Updated
<1>8. /\ Rings(p_children, p_siblings)' /\ Kids' = [Kids EXCEPT ![p] = q]
      /\ p_siblings' \in Links(Proc) /\ p_children' \in Links(Proc)
  BY <1>6, <1>7, NewKids
<1>9. p_parent \in Links(Proc)
  BY DEF Inv, Types
<1>10. p_parent' \in Links(Proc)
  BY <1>1, <1>9 DEF Links, Proc
<1>11. Types' /\ ProcInv' /\ AslInv' /\ UNCHANGED <<Free, Ready, seqAsl>>
  BY <1>1, <1>8, <1>10, TreeStepFrame
<1>12. DOMAIN Kids = Proc /\ DOMAIN p_parent = Proc
  BY <1>9 DEF Kids, Links, Proc
<1>13. TreeInv'
  <2>1. ASSUME NEW x \in Proc, NEW y \in Proc
        PROVE  y \in ToSet(Kids'[x]) <=> p_parent'[y] = x
    <3>1. ToSet(Kids'[x]) = IF x = p THEN ToSet(Kids[x]) \cup {c} ELSE ToSet(Kids[x])
      BY <1>5, <1>8, <1>12 DEF S
    <3>2. p_parent'[y] = IF y = c THEN p ELSE p_parent[y]
      BY <1>1, <1>12
    <3>3. (y \in ToSet(Kids[x]) <=> p_parent[y] = x) /\ c \notin ToSet(Kids[x])
      BY <1>2, <1>3
    <3> HIDE DEF Kids
    <3> QED BY <3>1, <3>2, <3>3
  <2>2. \A x \in Proc \ live' : p_parent'[x] = NULL /\ p_children'[x] = NULL
    BY <1>1 DEF Inv, TreeInv
  <2> QED BY <1>8, <2>1, <2>2 DEF TreeInv
<1>14. SeqTree
  <2>1. /\ Kids' = [Kids EXCEPT ![p] = Append(@, c)]
        /\ p_parent' = [p_parent EXCEPT ![c] = p]
    BY <1>1, <1>8 DEF q
  <2> QED BY <2>1 DEF SeqTree
<1> QED BY <1>11, <1>13, <1>14 DEF Inv

\* removeChild and outChild: c leaves the children of p, and its links are
\* cleared.
LEMMA ChildLeaves ==
  ASSUME Inv, NEW p \in Proc, NEW c \in ToSet(Kids[p]), NEW l, NEW q,
         Ring(l, q), Same(ChildL(p), l, ToSet(Kids[p])), ToSet(q) = ToSet(Kids[p]) \ {c},
         Updated(p_children, p, l.tail, p_children'),
         p_siblings' = [l.next EXCEPT ![c] = NULL],
         p_parent' = [p_parent EXCEPT ![c] = NULL],
         UNCHANGED <<p_list, pcbFree, ready, aslVars, live>>
  PROVE  /\ Inv' /\ Kids' = [Kids EXCEPT ![p] = q]
         /\ UNCHANGED <<Free, Ready, seqAsl>>
<1> DEFINE S == ToSet(Kids[p])
           m == List(l.tail, [l.next EXCEPT ![c] = NULL])
<1>1. /\ Ring(ChildL(p), Kids[p])
      /\ \A x \in Proc : x # p => ToSet(Kids[x]) \cap S = {}
      /\ \A x, y \in Proc : y \in ToSet(Kids[x]) <=> p_parent[y] = x
  BY TreeLists
<1>2. c \in Node /\ c \in S /\ c \notin ToSet(q) /\ ToSet(q) \subseteq S /\ c \in Proc
  BY <1>1, RingFacts DEF Node, Proc
<1>3. Ring(m, q) /\ Same(ChildL(p), m, S)
  BY <1>2, ClearedRing
<1>4. /\ Turns(ChildL(p), m, q, S) /\ Updated(p_children, p, m.tail, p_children')
      /\ p_siblings' = m.next
  BY <1>2, <1>3 DEF List, Turns
<1> HIDE DEF m
<1>5. /\ Rings(p_children, p_siblings)' /\ Kids' = [Kids EXCEPT ![p] = q]
      /\ p_siblings' \in Links(Proc) /\ p_children' \in Links(Proc)
  BY <1>1, <1>4, NewKids
<1>6. p_parent \in Links(Proc) /\ DOMAIN p_parent = Proc /\ DOMAIN Kids = Proc
  BY DEF Inv, Types, Kids, Links, Proc
<1>7. p_parent' \in Links(Proc)
  BY <1>2, <1>6 DEF Links, Proc
<1>8. Types' /\ ProcInv' /\ AslInv' /\ UNCHANGED <<Free, Ready, seqAsl>>
  BY <1>5, <1>7, TreeStepFrame
<1>9. TreeInv'
  <2>1. ASSUME NEW x \in Proc, NEW y \in Proc
        PROVE  y \in ToSet(Kids'[x]) <=> p_parent'[y] = x
    <3>1. ToSet(Kids'[x]) = IF x = p THEN ToSet(Kids[x]) \ {c} ELSE ToSet(Kids[x])
      BY <1>5, <1>6
    <3>2. p_parent'[y] = IF y = c THEN NULL ELSE p_parent[y]
      BY <1>6
    <3>3. y \in ToSet(Kids[x]) <=> p_parent[y] = x
      BY <1>1
    <3>4. x # p => c \notin ToSet(Kids[x])
      BY <1>1, <1>2
    <3>5. x # NULL
      BY DEF Proc, NULL
    <3> HIDE DEF Kids
    <3> QED BY <3>1, <3>2, <3>3, <3>4, <3>5
  <2>2. p \in live
    <3>1. Kids[p] # <<>>
      BY <1>2 DEF S, ToSet
    <3>2. ChildL(p).tail # NULL
      BY <1>1, <3>1, RingFacts
    <3> QED BY <3>2 DEF ChildL, List, Inv, TreeInv
  <2>3. \A x \in Proc \ live' : p_parent'[x] = NULL /\ p_children'[x] = NULL
    BY <1>6, <2>2 DEF Inv, TreeInv, Updated
  <2> QED BY <1>5, <2>1, <2>3 DEF TreeInv
<1> QED BY <1>5, <1>8, <1>9 DEF Inv

LEMMA RemoveChild ==
  ASSUME Inv, NEW p \in Proc, removeChild(p)
  PROVE  Inv' /\ SeqTree /\ UNCHANGED <<Free, Ready, seqAsl>>
<1> DEFINE c == clist_head(ChildL(p))
           l == clist_dequeue(ChildL(p))
           q == Tail(Kids[p])
<1>1. /\ p_children[p] # NULL
      /\ p_children' = [p_children EXCEPT ![p] = l.tail]
      /\ p_siblings' = [l.next EXCEPT ![c] = NULL]
      /\ p_parent' = [p_parent EXCEPT ![c] = NULL]
      /\ UNCHANGED <<p_list, pcbFree, ready, aslVars, live>>
  BY DEF removeChild
<1>2. Ring(ChildL(p), Kids[p]) /\ ChildL(p).tail = p_children[p]
  BY TreeLists DEF ChildL, List
<1>3. Kids[p] # <<>> /\ Kids[p] \in Seq(Node) /\ IsInjective(Kids[p])
  BY <1>1, <1>2, RingFacts DEF Ring
<1>4. Ring(l, q) /\ Same(ChildL(p), l, ToSet(Kids[p])) /\ c = Head(Kids[p])
  BY <1>2, <1>3, DequeueOfRing
<1>5. c \in ToSet(Kids[p]) /\ ToSet(q) = ToSet(Kids[p]) \ {c}
  BY <1>3, <1>4, TailProperties
<1> HIDE DEF c, l, q
<1>6. Updated(p_children, p, l.tail, p_children')
  BY <1>1 DEF Updated
<1>7. Inv' /\ Kids' = [Kids EXCEPT ![p] = q] /\ UNCHANGED <<Free, Ready, seqAsl>>
  BY <1>1, <1>4, <1>5, <1>6, ChildLeaves
<1>8. /\ Kids[p] # <<>> /\ Kids' = [Kids EXCEPT ![p] = Tail(@)]
      /\ p_parent' = [p_parent EXCEPT ![Head(Kids[p])] = NULL]
  BY <1>1, <1>3, <1>4, <1>7 DEF q
<1> QED BY <1>7, <1>8 DEF SeqTree

\* NucleusData has the operations of ListOps on sequences under its own names.
LEMMA SameOperations ==
  ASSUME NEW q, NEW e
  PROVE  Nuc!Without(q, e) = Without(q, e) /\ Nuc!enqueueFree(q, e) = enqueueFree(q, e)
<1>1. Nuc!Without(q, e) = Without(q, e)
  BY DEF Nuc!Without, Without, Nuc!ToSet, ToSet, Nuc!RemoveAt, RemoveAt
<1>2. Nuc!enqueueFree(q, e) = enqueueFree(q, e)
  BY DEF Nuc!enqueueFree, enqueueFree, Nuc!Last, Last
<1> QED BY <1>1, <1>2

LEMMA OutChild ==
  ASSUME Inv, NEW p \in Proc, outChild(p)
  PROVE  Inv' /\ SeqTree /\ UNCHANGED <<Free, Ready, seqAsl>>
<1> DEFINE x == p_parent[p]
           l == clist_delete(ChildL(x), p)
           q == Without(Kids[x], p)
<1>1. /\ p_parent[p] # NULL
      /\ p_children' = [p_children EXCEPT ![x] = l.tail]
      /\ p_siblings' = [l.next EXCEPT ![p] = NULL]
      /\ p_parent' = [p_parent EXCEPT ![p] = NULL]
      /\ UNCHANGED <<p_list, pcbFree, ready, aslVars, live>>
  BY DEF outChild
<1>2. x \in Proc
  <2>1. p_parent \in Links(Proc)
    BY DEF Inv, Types
  <2> QED BY <1>1, <2>1 DEF Links, Proc
<1>3. Ring(ChildL(x), Kids[x]) /\ p \in ToSet(Kids[x])
  BY <1>2, TreeLists
<1>4. Ring(l, q) /\ Same(ChildL(x), l, ToSet(Kids[x]))
  BY <1>3, DeleteOfRing DEF Node, Proc
<1>5. ToSet(q) = ToSet(Kids[x]) \ {p}
  BY <1>3, WithoutProperties DEF Ring
<1> HIDE DEF x, l, q
<1>6. Updated(p_children, x, l.tail, p_children')
  BY <1>1 DEF Updated
<1>7. Inv' /\ Kids' = [Kids EXCEPT ![x] = q] /\ UNCHANGED <<Free, Ready, seqAsl>>
  BY <1>1, <1>2, <1>3, <1>4, <1>5, <1>6, ChildLeaves
<1>8. /\ Kids' = [Kids EXCEPT ![p_parent[p]] = Without(@, p)]
      /\ p_parent' = [p_parent EXCEPT ![p] = NULL]
  BY <1>1, <1>7 DEF q, x
<1>9. Nuc!outChild(p)
  BY <1>1, <1>8, SameOperations DEF Nuc!outChild, Nuc!NULL, NULL
<1> QED BY <1>7, <1>9 DEF SeqTree

-----------------------------------------------------------------------------
(* asl.c *)

\* The queue of d becomes the ring m, whose elements are some of those it had
\* or were on no list.
LEMMA NewProcq ==
  ASSUME Inv, NEW d \in Semd, NEW m, NEW q, NEW S, Turns(ProcqL(d), m, q, S),
         ToSet(Free) \cap S = {}, ToSet(Ready) \cap S = {},
         \A e \in Semd : e # d => ToSet(Procq[e]) \cap S = {},
         Updated(s_procq, d, m.tail, s_procq'), p_list' = m.next,
         UNCHANGED <<pcbFree, ready, live>>
  PROVE  /\ ProcInv' /\ Procq' = [Procq EXCEPT ![d] = q]
         /\ UNCHANGED <<Free, Ready>>
         /\ p_list' \in Links(Proc) /\ s_procq' \in Links(Proc)
<1>1. /\ Rings(PTails(pcbFree, ready, s_procq), p_list)
      /\ s_procq \in Links(Proc) /\ ToSet(Free) = Proc \ live
  BY DEF Inv, ProcInv, Types
<1>2. /\ ToSet(Elems(List(pcbFree, p_list))) \cap S = {}
      /\ ToSet(Elems(List(ready, p_list))) \cap S = {}
  BY DEF Free, FreeL, Ready, ReadyL
<1>3. \A e \in Semd : /\ Procq[e] = Elems(List(s_procq[e], p_list))
                      /\ Procq'[e] = Elems(List(s_procq'[e], p_list'))
                      /\ ProcqL(e) = List(s_procq[e], p_list)
  BY DEF Procq, ProcqL
<1>4. \A e \in Semd : e # d => ToSet(Elems(List(s_procq[e], p_list))) \cap S = {}
  BY <1>3
<1>5. Turns(List(s_procq[d], p_list), m, q, S)
  BY <1>3
<1>6. /\ Rings(PTails(pcbFree, ready, s_procq'), m.next)
      /\ Elems(List(s_procq'[d], m.next)) = q
      /\ Elems(List(pcbFree, m.next)) = Elems(List(pcbFree, p_list))
      /\ Elems(List(ready, m.next)) = Elems(List(ready, p_list))
      /\ \A e \in Semd : e # d =>
           Elems(List(s_procq'[e], m.next)) = Elems(List(s_procq[e], p_list))
  BY <1>1, <1>2, <1>4, <1>5, QueueStep
<1>7. UNCHANGED <<Free, Ready>>
  BY <1>6 DEF Free, Ready, FreeL, ReadyL
<1>8. Procq' = [Procq EXCEPT ![d] = q]
  <2>1. Procq' = [e \in Semd |-> Procq'[e]] /\ Procq = [e \in Semd |-> Procq[e]]
    BY DEF Procq
  <2>2. Procq'[d] = q /\ \A e \in Semd : e # d => Procq'[e] = Procq[e]
    BY <1>3, <1>6
  <2> HIDE DEF Procq
  <2> QED BY <2>1, <2>2
<1>9. ProcInv'
  BY <1>1, <1>6, <1>7 DEF ProcInv
<1>10. p_list' \in Links(Proc) /\ m.tail \in Proc \cup {NULL}
  BY DEF Turns, Ring, Node, Proc
<1>11. s_procq' \in Links(Proc)
  BY <1>1, <1>10 DEF Links, Semd, Updated
<1> QED BY <1>7, <1>8, <1>9, <1>10, <1>11

\* A pcb that is held is put in the queue of d.
LEMMA EnqueueProcq ==
  ASSUME Inv, NEW d \in Semd, NEW p \in Proc, Held(p),
         Updated(s_procq, d, clist_enqueue(ProcqL(d), p).tail, s_procq'),
         p_list' = clist_enqueue(ProcqL(d), p).next,
         UNCHANGED <<pcbFree, ready, live>>
  PROVE  /\ ProcInv' /\ Procq' = [Procq EXCEPT ![d] = Append(Procq[d], p)]
         /\ UNCHANGED <<Free, Ready>>
         /\ p_list' \in Links(Proc) /\ s_procq' \in Links(Proc)
         /\ \A e \in Semd : s_procq'[e] = IF e = d THEN p ELSE s_procq[e]
         /\ p # NULL
<1> DEFINE m == clist_enqueue(ProcqL(d), p)
           q == Append(Procq[d], p)
           S == ToSet(Procq[d]) \cup {p}
<1>1. /\ p \notin ToSet(Free) /\ p \notin ToSet(Ready)
      /\ \A e \in Semd : p \notin ToSet(Procq[e])
  BY HeldIsOnNoList
<1>2. /\ Ring(ProcqL(d), Procq[d])
      /\ ToSet(Procq[d]) \cap ToSet(Free) = {}
      /\ ToSet(Procq[d]) \cap ToSet(Ready) = {}
      /\ \A e \in Semd : e # d => ToSet(Procq[d]) \cap ToSet(Procq[e]) = {}
  BY ProcLists
<1>3. Ring(m, q) /\ Same(ProcqL(d), m, S) /\ m.tail = p
  BY <1>1, <1>2, EnqueueOfRing DEF Node, Proc
<1>4. ToSet(q) = S
  BY <1>2, EnqueuedSet DEF Node, Proc
<1>5. /\ ToSet(Free) \cap S = {} /\ ToSet(Ready) \cap S = {}
      /\ \A e \in Semd : e # d => ToSet(Procq[e]) \cap S = {}
  BY <1>1, <1>2
<1> HIDE DEF m, q, S
<1>6. /\ Turns(ProcqL(d), m, q, S) /\ Updated(s_procq, d, m.tail, s_procq')
      /\ p_list' = m.next
  BY <1>3, <1>4 DEF m, Turns
<1>7. /\ ProcInv' /\ Procq' = [Procq EXCEPT ![d] = q]
      /\ UNCHANGED <<Free, Ready>>
      /\ p_list' \in Links(Proc) /\ s_procq' \in Links(Proc)
  BY <1>5, <1>6, NewProcq
<1>8. s_procq \in [Semd -> Proc \cup {NULL}]
  BY DEF Inv, Types, Links, Semd
<1>9. \A e \in Semd : s_procq'[e] = IF e = d THEN p ELSE s_procq[e]
  BY <1>3, <1>6, <1>8 DEF Updated
<1>10. p # NULL
  BY DEF Proc, NULL
<1> QED BY <1>7, <1>9, <1>10 DEF q

\* What is left to show of a step of asl.c.
LEMMA AslStepFrame ==
  ASSUME Inv, UNCHANGED <<pcbFree, ready, treeVars, live>>, ProcInv',
         p_list' \in Links(Proc), s_procq' \in Links(Proc),
         s_link' \in Links(Semd), p_cursem' \in Links(Semd),
         s_semAdd' \in Links(Addr), AslInv'
  PROVE  Inv' /\ UNCHANGED seqTree
<1>1. TreeInv' /\ UNCHANGED seqTree
  BY TreeFrame DEF Released
<1>2. Types'
  BY DEF Inv, Types, treeVars
<1> QED BY <1>1, <1>2 DEF Inv

\* A descriptor put where addSorted puts it leaves the list sorted.
LEMMA SortedInsert ==
  ASSUME NEW q \in Seq(Node), NEW n \in 1 .. Len(q) + 1, NEW d \in Node,
         NEW a \in Nat, NEW v, v[d] = a,
         \A k \in 1 .. Len(q) : v[q[k]] \in Nat,
         \A i, j \in 1 .. Len(q) : i < j => v[q[i]] < v[q[j]],
         \A k \in 1 .. n-1 : v[q[k]] < a,
         n <= Len(q) => a < v[q[n]]
  PROVE  \A i, j \in DOMAIN InsertAt(q, n, d) :
           i < j => v[InsertAt(q, n, d)[i]] < v[InsertAt(q, n, d)[j]]
<1> DEFINE r == InsertAt(q, n, d)
           N == Len(q)
<1>1. /\ r \in Seq(Node) /\ Len(r) = N + 1 /\ r[n] = d
      /\ \A k \in 1 .. n-1 : r[k] = q[k]
      /\ \A k \in n .. N : r[k+1] = q[k]
  <2>1. Inserted(q, n, d, r)
    BY InsertIs
  <2> QED BY <2>1 DEF Inserted
<1>2. N \in Nat /\ DOMAIN r = 1 .. N+1
  BY <1>1, LenProperties
<1> HIDE DEF r, N
<1>3. ASSUME NEW k \in n .. N PROVE a < v[q[k]] /\ v[q[k]] \in Nat
  <2>1. n \in 1 .. N /\ k \in 1 .. N /\ n <= N
    BY <1>2 DEF N
  <2>2. a < v[q[n]] /\ v[q[n]] \in Nat /\ v[q[k]] \in Nat
    BY <2>1 DEF N
  <2>3. n < k => v[q[n]] < v[q[k]]
    BY <2>1 DEF N
  <2>4. n < k \/ n = k
    BY <1>2, <2>1
  <2> QED BY <2>2, <2>3, <2>4
<1>4. ASSUME NEW k \in 1 .. N+1
      PROVE  \/ k \in 1 .. n-1 /\ k \in 1 .. N /\ r[k] = q[k] /\ v[r[k]] < a
             \/ k = n /\ v[r[k]] = a
             \/ /\ k-1 \in n .. N /\ k-1 \in 1 .. N /\ r[k] = q[k-1]
                /\ a < v[r[k]]
  <2>1. CASE k < n
    <3>1. k \in 1 .. n-1 /\ k \in 1 .. N
      BY <1>2, <2>1 DEF N
    <3> QED BY <1>1, <3>1
  <2>2. CASE k = n
    BY <1>1, <2>2
  <2>3. CASE k > n
    <3>1. k-1 \in n .. N /\ k-1 \in 1 .. N /\ (k-1)+1 = k
      BY <1>2, <2>3
    <3>2. r[(k-1)+1] = q[k-1]
      BY <1>1, <3>1
    <3> QED BY <1>3, <3>1, <3>2
  <2> QED BY <1>2, <2>1, <2>2, <2>3
<1>5. ASSUME NEW i \in 1 .. N+1, NEW j \in 1 .. N+1, i < j
      PROVE  v[r[i]] < v[r[j]]
  <2>1. \A k \in 1 .. N : v[q[k]] \in Nat
    BY DEF N
  <2>2. \A x, y \in 1 .. N : x < y => v[q[x]] < v[q[y]]
    BY DEF N
  <2>3. v[r[i]] \in Nat /\ v[r[j]] \in Nat
    BY <1>4, <2>1
  <2>4. CASE i < n /\ j < n
    <3>1. i \in 1 .. N /\ j \in 1 .. N /\ r[i] = q[i] /\ r[j] = q[j]
      BY <1>2, <1>4, <2>4
    <3> QED BY <1>5, <2>2, <3>1
  <2>5. CASE i > n /\ j > n
    <3>1. i-1 \in 1 .. N /\ j-1 \in 1 .. N /\ r[i] = q[i-1] /\ r[j] = q[j-1]
      BY <1>2, <1>4, <2>5
    <3>2. i-1 < j-1
      BY <1>5
    <3> QED BY <2>2, <3>1, <3>2
  <2>6. CASE i <= n /\ n <= j
    <3>1. v[r[i]] <= a /\ (i < n => v[r[i]] < a)
      BY <1>2, <1>4, <2>3, <2>6
    <3>2. a <= v[r[j]] /\ (n < j => a < v[r[j]])
      BY <1>2, <1>4, <2>3, <2>6
    <3>3. i < n \/ n < j
      BY <1>5, <2>6
    <3> QED BY <2>3, <3>1, <3>2, <3>3
  <2> QED BY <1>2, <1>5, <2>4, <2>5, <2>6
<1> QED BY <1>2, <1>5 DEF r

\* insertBlocked takes a free descriptor if the address has none.
LEMMA NewDescriptor ==
  ASSUME Inv, NEW a \in Addr, NEW d, d = clist_head(SemdFreeL), d # NULL,
         ~Nuc!OnAsl(a), NEW fl, fl = clist_dequeue(SemdFreeL),
         NEW al, al = addSorted(List(aslh, fl.next), d, a),
         semdFree' = fl.tail, aslh' = al.tail, s_link' = al.next,
         Updated(s_semAdd, d, a, s_semAdd')
  PROVE  /\ d = Head(SemdQ) /\ SemdQ # <<>> /\ d \in Semd /\ d \notin Asl
         /\ SemdQ' = Tail(SemdQ) /\ Asl' = Asl \cup {d}
         /\ Rings(STails(aslh, semdFree), s_link)' /\ AslSorted'
         /\ s_link' \in Links(Semd) /\ s_semAdd' \in Links(Addr)
<1>1. /\ Ring(AslL, AslQ) /\ Ring(SemdFreeL, SemdQ)
      /\ ToSet(AslQ) \cap ToSet(SemdQ) = {} /\ Asl = ToSet(AslQ)
      /\ \A i, j \in 1 .. Len(AslQ) :
           i < j => s_semAdd[AslQ[i]] < s_semAdd[AslQ[j]]
  BY AslLists
<1>2. SemdQ # <<>> /\ SemdQ \in Seq(Node) /\ IsInjective(SemdQ)
  BY <1>1, RingFacts DEF clist_head, Ring
<1>3. /\ Ring(fl, Tail(SemdQ)) /\ Same(SemdFreeL, fl, ToSet(SemdQ))
      /\ d = Head(SemdQ)
  BY <1>1, <1>2, DequeueOfRing
<1>4. /\ d \in Node /\ d \in ToSet(SemdQ) /\ d \notin ToSet(AslQ)
      /\ ToSet(Tail(SemdQ)) = ToSet(SemdQ) \ {d}
  BY <1>1, <1>2, <1>3, TailProperties
<1>5. Rings(STails(aslh, semdFree), s_link)
  BY DEF Inv, AslInv
<1>6. AslQ = Elems(List(aslh, s_link)) /\ SemdFreeL = List(semdFree, s_link)
  BY DEF AslQ, AslL, SemdFreeL
<1> DEFINE f == Tail(SemdQ)
           F == ToSet(SemdQ)
<1>7. /\ ToSet(Elems(List(aslh, s_link))) \cap F = {}
      /\ Turns(List(semdFree, s_link), fl, f, F)
  BY <1>1, <1>3, <1>4, <1>6 DEF Turns
<1> HIDE DEF f, F
<1>8. /\ Rings(STails(aslh, fl.tail), fl.next)
      /\ Elems(List(fl.tail, fl.next)) = f
      /\ Elems(List(aslh, fl.next)) = Elems(List(aslh, s_link))
  BY <1>5, <1>7, UnusedStep
<1>9. Ring(List(aslh, fl.next), AslQ)
  BY <1>6, <1>8, SRings
<1>10. PICK n \in 1 .. Len(AslQ) + 1 :
           /\ Ring(al, InsertAt(AslQ, n, d))
           /\ Same(List(aslh, fl.next), al, ToSet(AslQ) \cup {d})
           /\ \A k \in 1 .. n-1 : ~(a < s_semAdd[AslQ[k]])
           /\ n <= Len(AslQ) => a < s_semAdd[AslQ[n]]
  BY <1>4, <1>9, AddSortedOfRing
<1> DEFINE r == InsertAt(AslQ, n, d)
           S == ToSet(AslQ) \cup {d}
<1>11. AslQ \in Seq(Node) /\ Len(AslQ) \in Nat
  BY <1>1, RingFacts DEF Ring
<1>12. ToSet(r) = S
  <2>1. Inserted(AslQ, n, d, r)
    BY <1>4, <1>11, InsertIs
  <2> QED BY <2>1 DEF Inserted
<1>13. ToSet(Elems(List(fl.tail, fl.next))) \cap S = {}
  BY <1>1, <1>4, <1>8 DEF f
<1> HIDE DEF r, S
<1>14. Turns(List(aslh, fl.next), al, r, S)
  BY <1>10, <1>12 DEF Turns, r, S
<1>15. /\ Rings(STails(al.tail, fl.tail), al.next)
       /\ Elems(List(al.tail, al.next)) = r
       /\ Elems(List(fl.tail, al.next)) = Elems(List(fl.tail, fl.next))
  BY <1>8, <1>13, <1>14, AslStep
<1>16. Rings(STails(aslh, semdFree), s_link)'
  BY <1>15
<1>17. SemdQ' = Tail(SemdQ)
  BY <1>8, <1>15 DEF SemdQ, SemdFreeL, f
<1>18. Elems(AslL)' = r /\ Asl' = ToSet(r)
  BY <1>15 DEF Asl, AslL
<1>19. Asl' = Asl \cup {d}
  BY <1>1, <1>12, <1>18 DEF S
<1>20. d \in Semd /\ s_semAdd \in [Semd -> Addr \cup {NULL}]
  BY <1>4 DEF Node, Semd, Inv, Types, Links
<1>21. s_semAdd' \in Links(Addr)
  BY <1>20 DEF Links, Semd, Updated
<1>22. AslSorted'
  <2> DEFINE v == s_semAdd'
  <2>1. /\ \A k \in 1 .. Len(AslQ) : AslQ[k] \in Semd /\ AslQ[k] \in Asl
        /\ \A e \in Semd : s_semAdd[e] \in Nat
        /\ a \in Nat
    BY Addresses
  <2>2. v[d] = a /\ \A e \in Semd : e # d => v[e] = s_semAdd[e]
    BY <1>20 DEF Updated
  <2>3. \A k \in 1 .. Len(AslQ) : v[AslQ[k]] = s_semAdd[AslQ[k]]
    BY <1>1, <1>4, <2>1, <2>2
  <2>4. \A e \in Asl : s_semAdd[e] # a
    BY SearchIs
  <2> HIDE DEF v
  <2>5. \A k \in 1 .. Len(AslQ) : v[AslQ[k]] \in Nat
    BY <2>1, <2>3
  <2>6. \A i, j \in 1 .. Len(AslQ) : i < j => v[AslQ[i]] < v[AslQ[j]]
    BY <1>1, <2>3
  <2>7. ASSUME NEW k \in 1 .. n-1 PROVE v[AslQ[k]] < a
    <3>1. k \in 1 .. Len(AslQ)
      BY <1>11
    <3>2. ~(a < s_semAdd[AslQ[k]]) /\ s_semAdd[AslQ[k]] # a /\ s_semAdd[AslQ[k]] \in Nat
      BY <1>10, <2>1, <2>4, <3>1
    <3> QED BY <2>1, <2>3, <3>1, <3>2
  <2>8. n <= Len(AslQ) => a < v[AslQ[n]]
    <3>1. n <= Len(AslQ) => n \in 1 .. Len(AslQ)
      BY <1>11
    <3> QED BY <1>10, <2>3, <3>1
  <2>9. \A i, j \in DOMAIN r : i < j => v[r[i]] < v[r[j]]
    BY <1>4, <1>11, <2>1, <2>2, <2>5, <2>6, <2>7, <2>8, SortedInsert DEF r
  <2> QED BY <1>18, <2>9 DEF AslSorted, v
<1>23. s_link' \in Links(Semd)
  BY <1>14 DEF Turns, Ring, Node, Semd
<1> QED BY <1>1, <1>2, <1>3, <1>4, <1>16, <1>17, <1>19, <1>20, <1>21, <1>22, <1>23

LEMMA InsertBlocked ==
  ASSUME Inv, NEW a \in Addr, NEW p \in Proc, insertBlocked(a, p)
  PROVE  Inv' /\ SeqAsl /\ UNCHANGED <<Free, Ready, seqTree>>
<1> DEFINE d  == search(a)
           n  == clist_head(SemdFreeL)
           fl == clist_dequeue(SemdFreeL)
           al == addSorted(List(aslh, fl.next), n, a)
           ql == clist_enqueue(IF d = NULL THEN List(NULL, p_list) ELSE ProcqL(d), p)
           e  == IF d # NULL THEN d ELSE n
<1>1. /\ Held(p) /\ e # NULL
      /\ IF d # NULL THEN UNCHANGED <<semdFree, s_link, aslh, s_semAdd>>
         ELSE /\ semdFree' = fl.tail /\ aslh' = al.tail /\ s_link' = al.next
              /\ s_semAdd' = [s_semAdd EXCEPT ![n] = a]
      /\ s_procq' = [s_procq EXCEPT ![e] = ql.tail] /\ p_list' = ql.next
      /\ p_cursem' = [p_cursem EXCEPT ![p] = e]
      /\ UNCHANGED <<pcbFree, ready, treeVars, live>>
  BY DEF insertBlocked
<1>2. /\ d = IF Nuc!OnAsl(a) THEN Nuc!semdOf(a) ELSE NULL
      /\ Nuc!OnAsl(a) => d \in Asl /\ d \in Semd /\ d # NULL
  BY SearchIs
<1>3. \A x \in Semd : /\ x \in Asl <=> s_procq[x] # NULL
                      /\ Procq[x] = <<>> <=> s_procq[x] = NULL
  BY AslLists
<1>4. /\ p_cursem \in Links(Semd) /\ s_link \in Links(Semd)
      /\ s_semAdd \in Links(Addr)
  BY DEF Inv, Types
<1> HIDE DEF d, n, fl, al
<1>5. CASE Nuc!OnAsl(a)
  <2>1. /\ e = d /\ ql = clist_enqueue(ProcqL(d), p) /\ d \in Semd /\ d \in Asl
        /\ UNCHANGED <<semdFree, s_link, aslh, s_semAdd>>
    BY <1>1, <1>2, <1>5
  <2> HIDE DEF e, ql
  <2>2. Updated(s_procq, d, clist_enqueue(ProcqL(d), p).tail, s_procq')
    BY <1>1, <2>1 DEF Updated
  <2>3. /\ ProcInv' /\ Procq' = [Procq EXCEPT ![d] = Append(Procq[d], p)]
        /\ UNCHANGED <<Free, Ready>>
        /\ p_list' \in Links(Proc) /\ s_procq' \in Links(Proc)
        /\ \A x \in Semd : s_procq'[x] = IF x = d THEN p ELSE s_procq[x]
        /\ p # NULL
    BY <1>1, <2>1, <2>2, EnqueueProcq
  <2>4. /\ Rings(STails(aslh, semdFree), s_link)' /\ AslSorted'
        /\ UNCHANGED <<Asl, SemdQ, AslQ>>
    BY <2>1, AslFrame
  <2>5. AslInv'
    BY <1>3, <2>1, <2>3, <2>4 DEF AslInv
  <2>6. p_cursem' \in Links(Semd) /\ p_cursem' = [p_cursem EXCEPT ![p] = d]
    BY <1>1, <1>4, <2>1 DEF Links, Proc, Semd
  <2>7. Inv' /\ UNCHANGED seqTree
    BY <1>1, <1>4, <2>1, <2>3, <2>5, <2>6, AslStepFrame
  <2>8. Nuc!CanInsert(a) /\ Nuc!insertBlocked(a, p)
    BY <1>2, <1>5, <2>1, <2>3, <2>4, <2>6 DEF Nuc!CanInsert, Nuc!insertBlocked
  <2> QED BY <2>3, <2>7, <2>8 DEF SeqAsl
<1>6. CASE ~Nuc!OnAsl(a)
  <2>1. /\ d = NULL /\ e = n /\ ql = clist_enqueue(List(NULL, p_list), p)
        /\ semdFree' = fl.tail /\ aslh' = al.tail /\ s_link' = al.next
        /\ s_semAdd' = [s_semAdd EXCEPT ![n] = a] /\ n # NULL
    BY <1>1, <1>2, <1>6
  <2>2. /\ n = Head(SemdQ) /\ SemdQ # <<>> /\ n \in Semd /\ n \notin Asl
        /\ SemdQ' = Tail(SemdQ) /\ Asl' = Asl \cup {n}
        /\ Rings(STails(aslh, semdFree), s_link)' /\ AslSorted'
        /\ s_link' \in Links(Semd) /\ s_semAdd' \in Links(Addr)
    <3>1. Updated(s_semAdd, n, a, s_semAdd')
      BY <2>1 DEF Updated
    <3>2. /\ semdFree' = fl.tail /\ aslh' = al.tail /\ s_link' = al.next
          /\ n # NULL
      BY <2>1
    <3> QED BY <1>6, <3>1, <3>2, NewDescriptor DEF n, fl, al
  <2>3. s_procq[n] = NULL /\ Procq[n] = <<>> /\ ql = clist_enqueue(ProcqL(n), p)
    BY <1>3, <2>1, <2>2 DEF ProcqL
  <2> HIDE DEF e, ql
  <2>4. Updated(s_procq, n, clist_enqueue(ProcqL(n), p).tail, s_procq')
    BY <1>1, <2>1, <2>3 DEF Updated
  <2>5. /\ ProcInv' /\ Procq' = [Procq EXCEPT ![n] = Append(Procq[n], p)]
        /\ UNCHANGED <<Free, Ready>>
        /\ p_list' \in Links(Proc) /\ s_procq' \in Links(Proc)
        /\ \A x \in Semd : s_procq'[x] = IF x = n THEN p ELSE s_procq[x]
        /\ p # NULL
    BY <1>1, <2>1, <2>2, <2>3, <2>4, EnqueueProcq
  <2>6. AslInv'
    BY <1>3, <2>2, <2>5 DEF AslInv
  <2>7. p_cursem' \in Links(Semd) /\ p_cursem' = [p_cursem EXCEPT ![p] = n]
    BY <1>1, <1>4, <2>1, <2>2 DEF Links, Proc, Semd
  <2>8. Inv' /\ UNCHANGED seqTree
    BY <1>1, <2>2, <2>5, <2>6, <2>7, AslStepFrame
  <2>9. Append(Procq[n], p) = <<p>>
    BY <2>3
  <2>10. Procq' = [Procq EXCEPT ![n] = <<p>>]
    BY <2>5, <2>9
  <2>11. Nuc!CanInsert(a) /\ Nuc!insertBlocked(a, p)
    BY <1>6, <2>1, <2>2, <2>7, <2>10 DEF Nuc!CanInsert, Nuc!insertBlocked
  <2> QED BY <2>5, <2>8, <2>11 DEF SeqAsl
<1> QED BY <1>5, <1>6

LEMMA SortedWithout ==
  ASSUME NEW q \in Seq(Node), NEW e, NEW s,
         \A i, j \in 1 .. Len(q) : i < j => s[q[i]] < s[q[j]]
  PROVE  \A i, j \in DOMAIN Without(q, e) :
           i < j => s[Without(q, e)[i]] < s[Without(q, e)[j]]
<1> DEFINE w == Without(q, e)
<1>0. Len(q) \in Nat /\ DOMAIN q = 1 .. Len(q)
  BY LenProperties
<1>1. CASE e \notin ToSet(q)
  <2>1. w = q
    BY <1>1 DEF Without
  <2> HIDE DEF w
  <2> QED BY <1>0, <2>1 DEF w
<1>2. CASE e \in ToSet(q)
  <2>0. w \in Seq(Node) /\ \E n \in 1 .. Len(q) : q[n] = e /\ LeavesOut(q, n, w)
    BY <1>2, WithoutIs
  <2> HIDE DEF w
  <2>1. PICK n \in 1 .. Len(q) :
          /\ q[n] = e /\ w \in Seq(Node) /\ Len(w) = Len(q) - 1
          /\ \A k \in 1 .. Len(q) - 1 : w[k] = IF k < n THEN q[k] ELSE q[k+1]
    BY <2>0 DEF LeavesOut
  <2>2. DOMAIN w = 1 .. Len(q) - 1
    BY <2>1, LenProperties
  <2>3. ASSUME NEW i \in 1 .. Len(q) - 1, NEW j \in 1 .. Len(q) - 1, i < j
        PROVE  s[w[i]] < s[w[j]]
    <3> DEFINE x == IF i < n THEN i ELSE i+1
               y == IF j < n THEN j ELSE j+1
    <3>1. x \in 1 .. Len(q) /\ y \in 1 .. Len(q) /\ x < y
      BY <1>0, <2>3
    <3>2. w[i] = q[x] /\ w[j] = q[y]
      BY <2>1
    <3> HIDE DEF x, y
    <3> QED BY <3>1, <3>2
  <2> QED BY <2>2, <2>3 DEF w
<1> QED BY <1>1, <1>2

\* A descriptor with an empty queue leaves the ASL, if it is there, and is put
\* on the free list, even if it is there.
LEMMA FreedDescriptor ==
  ASSUME Inv, NEW d \in Semd, NEW al, al = clist_delete(AslL, d),
         NEW fl, fl = clist_enqueue(List(semdFree, al.next), d),
         aslh' = al.tail, semdFree' = fl.tail, s_link' = fl.next,
         UNCHANGED s_semAdd
  PROVE  /\ Asl' = Asl \ {d} /\ SemdQ' = enqueueFree(SemdQ, d)
         /\ Rings(STails(aslh, semdFree), s_link)' /\ AslSorted'
         /\ s_link' \in Links(Semd)
<1> DEFINE q == Without(AslQ, d)
           f == enqueueFree(SemdQ, d)
           S == ToSet(SemdQ) \cup {d}
<1>1. /\ Ring(AslL, AslQ) /\ Ring(SemdFreeL, SemdQ)
      /\ ToSet(AslQ) \cap ToSet(SemdQ) = {} /\ Asl = ToSet(AslQ)
      /\ \A i, j \in 1 .. Len(AslQ) :
           i < j => s_semAdd[AslQ[i]] < s_semAdd[AslQ[j]]
  BY AslLists
<1>2. AslQ \in Seq(Node) /\ IsInjective(AslQ) /\ d \in Node
  BY <1>1 DEF Ring, Node, Semd
<1>3. Ring(al, q) /\ Same(AslL, al, ToSet(AslQ))
  BY <1>1, <1>2, DeleteOfRing
<1>4. ToSet(q) = ToSet(AslQ) \ {d}
  BY <1>2, WithoutProperties
<1>5. /\ Rings(STails(aslh, semdFree), s_link)
      /\ SemdQ = Elems(List(semdFree, s_link)) /\ AslL = List(aslh, s_link)
  BY DEF Inv, AslInv, SemdQ, SemdFreeL, AslL
<1> HIDE DEF q, f, S
<1>6. /\ Turns(List(aslh, s_link), al, q, ToSet(AslQ))
      /\ ToSet(Elems(List(semdFree, s_link))) \cap ToSet(AslQ) = {}
  BY <1>1, <1>3, <1>4, <1>5 DEF Turns
<1>7. /\ Rings(STails(al.tail, semdFree), al.next)
      /\ Elems(List(al.tail, al.next)) = q
      /\ Elems(List(semdFree, al.next)) = SemdQ
  BY <1>5, <1>6, AslStep
<1>8. Ring(List(semdFree, al.next), SemdQ)
  BY <1>7, SRings
<1>9. Turns(List(semdFree, al.next), fl, f, S)
  BY <1>2, <1>8, EnqueueAgain DEF Turns, f, S
<1>10. ToSet(Elems(List(al.tail, al.next))) \cap S = {}
  BY <1>1, <1>4, <1>7 DEF S
<1>11. /\ Rings(STails(al.tail, fl.tail), fl.next)
       /\ Elems(List(fl.tail, fl.next)) = f
       /\ Elems(List(al.tail, fl.next)) = Elems(List(al.tail, al.next))
  BY <1>7, <1>9, <1>10, UnusedStep
<1>12. Rings(STails(aslh, semdFree), s_link)'
  BY <1>11
<1>13. SemdQ' = f
  BY <1>11 DEF SemdQ, SemdFreeL
<1>14. Elems(AslL)' = q /\ Asl' = ToSet(q)
  BY <1>7, <1>11 DEF Asl, AslL
<1>15. \A i, j \in DOMAIN q : i < j => s_semAdd[q[i]] < s_semAdd[q[j]]
  BY <1>1, <1>2, SortedWithout DEF q
<1>16. AslSorted'
  BY <1>14, <1>15 DEF AslSorted
<1>17. s_link' \in Links(Semd)
  BY <1>9 DEF Turns, Ring, Node, Semd
<1> QED BY <1>1, <1>4, <1>12, <1>13, <1>14, <1>16, <1>17 DEF f

\* The queue of d keeps some of its elements.
LEMMA SetProcq ==
  ASSUME Inv, NEW d \in Semd, NEW m, NEW q,
         Turns(ProcqL(d), m, q, ToSet(Procq[d])), setProcq(d, m)
  PROVE  /\ Inv' /\ Nuc!setProcq(d, q)
         /\ UNCHANGED <<Free, Ready, seqTree, p_cursem, s_semAdd>>
<1> DEFINE al == clist_delete(AslL, d)
           fl == clist_enqueue(List(semdFree, al.next), d)
<1>1. /\ s_procq' = [s_procq EXCEPT ![d] = m.tail] /\ p_list' = m.next
      /\ IF m.tail = NULL
         THEN aslh' = al.tail /\ semdFree' = fl.tail /\ s_link' = fl.next
         ELSE UNCHANGED <<aslh, semdFree, s_link>>
      /\ UNCHANGED <<pcbFree, ready, treeVars, p_cursem, s_semAdd, live>>
  BY DEF setProcq
<1>2. /\ ToSet(Free) \cap ToSet(Procq[d]) = {}
      /\ ToSet(Ready) \cap ToSet(Procq[d]) = {}
      /\ \A e \in Semd : e # d => ToSet(Procq[e]) \cap ToSet(Procq[d]) = {}
      /\ Ring(ProcqL(d), Procq[d])
  BY ProcLists
<1>3. /\ Updated(s_procq, d, m.tail, s_procq') /\ p_list' = m.next
      /\ UNCHANGED <<pcbFree, ready, live>> /\ Ring(m, q)
      /\ ToSet(q) \subseteq ToSet(Procq[d])
  BY <1>1 DEF Updated, Turns
<1>4. /\ ProcInv' /\ Procq' = [Procq EXCEPT ![d] = q]
      /\ UNCHANGED <<Free, Ready>>
      /\ p_list' \in Links(Proc) /\ s_procq' \in Links(Proc)
  BY <1>2, <1>3, NewProcq
<1>5. /\ \A e \in Semd : /\ e \in Asl <=> s_procq[e] # NULL
                         /\ Procq[e] = <<>> <=> s_procq[e] = NULL
      /\ p_cursem \in Links(Semd) /\ s_link \in Links(Semd)
      /\ s_semAdd \in Links(Addr) /\ s_procq \in [Semd -> Proc \cup {NULL}]
  BY AslLists DEF Inv, Types, Links, Semd
<1>6. \A e \in Semd : s_procq'[e] = IF e = d THEN m.tail ELSE s_procq[e]
  BY <1>1, <1>5
<1>7. q = <<>> <=> m.tail = NULL
  BY <1>3, RingFacts
<1> HIDE DEF al, fl
<1>8. CASE m.tail = NULL
  <2>1. aslh' = al.tail /\ semdFree' = fl.tail /\ s_link' = fl.next /\ UNCHANGED s_semAdd
    BY <1>1, <1>8
  <2>2. /\ Asl' = Asl \ {d} /\ SemdQ' = enqueueFree(SemdQ, d)
        /\ Rings(STails(aslh, semdFree), s_link)' /\ AslSorted'
        /\ s_link' \in Links(Semd)
    BY <2>1, FreedDescriptor DEF al, fl
  <2>3. AslInv'
    BY <1>5, <1>6, <1>8, <2>2 DEF AslInv
  <2>4. Inv' /\ UNCHANGED seqTree
    BY <1>1, <1>4, <1>5, <2>2, <2>3, AslStepFrame
  <2>5. Nuc!setProcq(d, q)
    BY <1>4, <1>7, <1>8, <2>2, SameOperations DEF Nuc!setProcq
  <2> QED BY <1>1, <1>4, <2>4, <2>5
<1>9. CASE m.tail # NULL
  <2>1. UNCHANGED <<aslh, semdFree, s_link, s_semAdd>>
    BY <1>1, <1>9
  <2>2. /\ Rings(STails(aslh, semdFree), s_link)' /\ AslSorted'
        /\ UNCHANGED <<Asl, SemdQ, AslQ>>
    BY <2>1, AslFrame
  <2>3. d \in Asl
    <3>1. q # <<>> /\ q[1] \in ToSet(q)
      <4>1. q # <<>> /\ Len(q) \in Nat /\ Len(q) >= 1 /\ ToSet(q) = {q[i] : i \in 1 .. Len(q)}
        BY <1>7, <1>9, <1>3, RingFacts
      <4>2. 1 \in 1 .. Len(q)
        BY <4>1
      <4> QED BY <4>1, <4>2
    <3>2. ToSet(<<>>) = {}
      BY DEF ToSet
    <3>3. Procq[d] # <<>>
      BY <1>3, <3>1, <3>2
    <3> QED BY <1>5, <3>3
  <2>4. AslInv'
    BY <1>5, <1>6, <1>9, <2>2, <2>3 DEF AslInv
  <2>5. Inv' /\ UNCHANGED seqTree
    BY <1>1, <1>4, <1>5, <2>1, <2>4, AslStepFrame
  <2>6. Nuc!setProcq(d, q)
    BY <1>4, <1>7, <1>9, <2>2 DEF Nuc!setProcq
  <2> QED BY <1>1, <1>4, <2>5, <2>6
<1> QED BY <1>8, <1>9

LEMMA RemoveBlocked ==
  ASSUME Inv, NEW a \in Addr, removeBlocked(a)
  PROVE  Inv' /\ SeqAsl /\ UNCHANGED <<Free, Ready, seqTree>>
<1> DEFINE d == search(a)
           m == clist_dequeue(ProcqL(d))
           q == Tail(Procq[d])
<1>1. d # NULL /\ setProcq(d, m)
  BY DEF removeBlocked
<1>2. Nuc!OnAsl(a) /\ d = Nuc!semdOf(a) /\ d \in Asl /\ d \in Semd
  BY <1>1, SearchIs
<1>3. Ring(ProcqL(d), Procq[d]) /\ Procq[d] # <<>>
  BY <1>2, ProcLists, AslLists
<1> HIDE DEF d
<1>4. Ring(m, q) /\ Same(ProcqL(d), m, ToSet(Procq[d]))
  BY <1>3, DequeueOfRing
<1>5. Turns(ProcqL(d), m, q, ToSet(Procq[d]))
  BY <1>3, <1>4, TailProperties DEF Turns, Ring
<1> HIDE DEF m, q
<1>6. /\ Inv' /\ Nuc!setProcq(d, q)
      /\ UNCHANGED <<Free, Ready, seqTree, p_cursem, s_semAdd>>
  BY <1>1, <1>2, <1>5, SetProcq
<1>7. Nuc!OnAsl(a) /\ Nuc!removeBlocked(a)
  BY <1>2, <1>6 DEF Nuc!removeBlocked, q
<1> QED BY <1>6, <1>7 DEF SeqAsl

LEMMA OutBlocked ==
  ASSUME Inv, NEW p \in Proc, outBlocked(p)
  PROVE  Inv' /\ SeqAsl /\ UNCHANGED <<Free, Ready, seqTree>>
<1> DEFINE d == p_cursem[p]
           m == without(ProcqL(d), p)
           q == Without(Procq[d], p)
<1>1. d # NULL /\ setProcq(d, m)
  BY DEF outBlocked
<1>2. d \in Semd
  <2>1. p_cursem \in Links(Semd)
    BY DEF Inv, Types
  <2> QED BY <1>1, <2>1 DEF Links, Proc
<1>3. Ring(ProcqL(d), Procq[d])
  BY <1>2, ProcLists
<1> HIDE DEF d
<1>4. Ring(m, q) /\ Same(ProcqL(d), m, ToSet(Procq[d]))
  BY <1>3, WithoutOfRing
<1>5. Turns(ProcqL(d), m, q, ToSet(Procq[d]))
  BY <1>3, <1>4, WithoutProperties DEF Turns, Ring
<1> HIDE DEF m, q
<1>6. /\ Inv' /\ Nuc!setProcq(d, q)
      /\ UNCHANGED <<Free, Ready, seqTree, p_cursem, s_semAdd>>
  BY <1>1, <1>2, <1>5, SetProcq
<1>7. Nuc!outBlocked(p) <=> Nuc!setProcq(d, q)
  BY SameOperations DEF Nuc!outBlocked, d, q
<1>8. p_cursem[p] # NULL
  BY <1>1 DEF d
<1> QED BY <1>6, <1>7, <1>8 DEF SeqAsl

\* headBlocked finds the process that is first in the queue of a semaphore.
LEMMA HeadBlocked ==
  ASSUME Inv
  PROVE  SearchFinds
<1> SUFFICES ASSUME NEW a \in Addr
             PROVE  headBlocked(a) = Nuc!headBlocked(a)
  BY DEF SearchFinds
<1> DEFINE d == search(a)
<1>1. /\ d = IF Nuc!OnAsl(a) THEN Nuc!semdOf(a) ELSE NULL
      /\ Nuc!OnAsl(a) => d \in Asl /\ d \in Semd /\ d # NULL
  BY SearchIs
<1>2. headBlocked(a) = IF d = NULL THEN NULL ELSE clist_head(ProcqL(d))
  BY DEF headBlocked
<1>3. Nuc!headBlocked(a) = IF Nuc!OnAsl(a) /\ Procq[Nuc!semdOf(a)] # <<>>
                           THEN Head(Procq[Nuc!semdOf(a)]) ELSE NULL
  BY DEF Nuc!headBlocked, Nuc!NULL, NULL
<1> HIDE DEF d
<1>4. CASE Nuc!OnAsl(a)
  <2>1. Ring(ProcqL(d), Procq[d]) /\ Procq[d] # <<>>
    BY <1>1, <1>4, ProcLists, AslLists
  <2>2. clist_head(ProcqL(d)) = Head(Procq[d])
    BY <2>1, DequeueOfRing
  <2> QED BY <1>1, <1>2, <1>3, <1>4, <2>1, <2>2
<1>5. CASE ~Nuc!OnAsl(a)
  BY <1>1, <1>2, <1>3, <1>5
<1> QED BY <1>4, <1>5

-----------------------------------------------------------------------------
(* The initial state *)

Identity(n) == [i \in 1 .. n |-> i]

\* One step of the recursive function of Full.
Enqueued(f, n) == IF n = 0 THEN List(NULL, Zero) ELSE clist_enqueue(f[n-1], n)

LEMMA FullUnfolds ==
  \E f : /\ \A n \in 0 .. MAXPROC : f[n] = Enqueued(f, n)
         /\ Full = f[MAXPROC]
<1> DEFINE Is(f, N) == f = [n \in 0 .. N |-> Enqueued(f, n)]
           Bad == {N \in Nat : ~ \E f : Is(f, N)}
<1>1. ASSUME Bad # {} PROVE FALSE
  <2>1. PICK N \in Bad : \A m \in Bad : N <= m
    BY <1>1, LeastElement
  <2>2. N # 0
    <3>1. Is([n \in 0 .. 0 |-> List(NULL, Zero)], 0)
      BY DEF Enqueued
    <3> QED BY <3>1, <2>1
  <2>3. N \in Nat /\ N-1 \in Nat
    BY <2>1, <2>2
  <2>4. N-1 \notin Bad
    BY <2>1, <2>3
  <2>5. PICK f : Is(f, N-1)
    BY <2>3, <2>4
  <2> DEFINE g == [n \in 0 .. N |-> Enqueued(f, n)]
  <2>6. ASSUME NEW n \in 0 .. N, n # 0 PROVE f[n-1] = g[n-1]
    <3>1. n-1 \in 0 .. N-1 /\ n-1 \in 0 .. N
      BY <2>3, <2>6
    <3> QED BY <3>1, <2>5
  <2> HIDE DEF g
  <2>7. \A n \in 0 .. N : Enqueued(f, n) = Enqueued(g, n)
    BY <2>6 DEF Enqueued
  <2>8. Is(g, N)
    BY <2>7 DEF g
  <2> QED BY <2>8, <2>1
<1>2. PICK f : Is(f, MAXPROC)
  BY <1>1, CListAssumption
<1>3. f = [n \in 0 .. MAXPROC |-> IF n = 0 THEN List(NULL, Zero)
                                  ELSE clist_enqueue(f[n-1], n)]
  BY <1>2 DEF Enqueued
<1> QED BY <1>2, <1>3 DEF Enqueued, Full

LEMMA IdentityIs ==
  ASSUME NEW n \in Nat, n <= MAXPROC
  PROVE  /\ Identity(n) \in Seq(Node) /\ Len(Identity(n)) = n
         /\ ToSet(Identity(n)) = 1 .. n
         /\ n < MAXPROC => Append(Identity(n), n+1) = Identity(n+1)
<1>1. MAXPROC \in Nat
  BY CListAssumption
<1>2. Identity(n) \in Seq(Node) /\ Len(Identity(n)) = n
  BY <1>1 DEF Identity, Node
<1>3. ToSet(Identity(n)) = 1 .. n
  BY DEF ToSet, Identity
<1>4. ASSUME n < MAXPROC PROVE Append(Identity(n), n+1) = Identity(n+1)
  BY <1>1, <1>2, <1>4 DEF Identity
<1> QED BY <1>2, <1>3, <1>4

\* initPcbs and initASL make a ring of all the entries, in order.
LEMMA FullIsRing ==
  Ring(Full, Identity(MAXPROC))
<1>1. PICK f : /\ \A n \in 0 .. MAXPROC : f[n] = Enqueued(f, n)
               /\ Full = f[MAXPROC]
  BY FullUnfolds
<1>2. MAXPROC \in Nat
  BY CListAssumption
<1> DEFINE Bad == {n \in 0 .. MAXPROC : ~Ring(f[n], Identity(n))}
<1>3. ASSUME Bad # {} PROVE FALSE
  <2>1. PICK n \in Bad : \A m \in Bad : n <= m
    <3>1. Bad \in SUBSET Nat
      BY <1>2
    <3> QED BY <3>1, <1>3, LeastElement
  <2>2. n \in 0 .. MAXPROC /\ ~Ring(f[n], Identity(n))
    BY <2>1
  <2>3. CASE n = 0
    <3>1. f[n] = List(NULL, Zero)
      BY <1>1, <2>2, <2>3 DEF Enqueued
    <3>2. Identity(n) = <<>>
      BY <2>3 DEF Identity
    <3>3. Zero \in Links(Proc)
      BY DEF Zero, Links
    <3> QED BY <2>2, <3>1, <3>2, <3>3, EmptyRing
  <2>4. CASE n # 0
    <3>1. n-1 \in 0 .. MAXPROC /\ n-1 \in Nat /\ n-1 < MAXPROC /\ (n-1)+1 = n
          /\ n-1 <= MAXPROC
      BY <1>2, <2>2, <2>4
    <3>2. Ring(f[n-1], Identity(n-1))
      BY <2>1, <3>1
    <3>3. n \in Node /\ n \notin ToSet(Identity(n-1))
      BY <2>2, <2>4, <3>1, IdentityIs DEF Node
    <3>4. Append(Identity(n-1), n) = Identity(n)
      BY <3>1, IdentityIs
    <3>5. Ring(clist_enqueue(f[n-1], n), Identity(n))
      BY <3>2, <3>3, <3>4, EnqueueOfRing
    <3>6. f[n] = clist_enqueue(f[n-1], n)
      BY <1>1, <2>2, <2>4 DEF Enqueued
    <3> QED BY <2>2, <3>5, <3>6
  <2> QED BY <2>3, <2>4
<1>4. MAXPROC \in 0 .. MAXPROC
  BY <1>2
<1> QED BY <1>1, <1>3, <1>4

LEMMA InitialState ==
  ASSUME Init
  PROVE  Inv /\ SeqInit
<1> DEFINE q == Identity(MAXPROC)
<1>1. /\ p_list = Full.next /\ pcbFree = Full.tail
      /\ s_link = Full.next /\ semdFree = Full.tail
      /\ ready = NULL /\ aslh = NULL /\ s_procq = Zero /\ s_semAdd = Zero
      /\ p_siblings = Zero /\ p_children = Zero
      /\ p_parent = Zero /\ p_cursem = Zero /\ live = {}
  BY DEF Init
<1>2. /\ Ring(Full, q) /\ List(Full.tail, Full.next) = Full
      /\ Full.next \in Links(Node) /\ ToSet(q) = Proc
  <2>1. Ring(Full, q) /\ MAXPROC \in Nat
    BY FullIsRing, CListAssumption
  <2>2. ToSet(q) = Proc
    BY <2>1, IdentityIs DEF Proc
  <2> QED BY <2>1, <2>2 DEF Ring, List
<1> HIDE DEF q
<1>3. /\ Zero \in Links(Proc) /\ Node = Proc /\ Semd = Proc
      /\ Zero \in Links(Semd) /\ Zero \in Links(Addr)
      /\ \A p \in Proc : Zero[p] = NULL
  BY DEF Zero, Links, Node, Proc, Semd
<1>4. /\ Elems(List(Full.tail, Full.next)) = q
      /\ Ring(List(NULL, Full.next), <<>>) /\ Elems(List(NULL, Full.next)) = <<>>
      /\ ToSet(<<>>) = {}
  BY <1>2, <1>3, ElemsOfRing, EmptyRing DEF ToSet
<1>5. Rings(PTails(Full.tail, NULL, Zero), Full.next)
  <2> DEFINE n == Full.next
             t == PTails(Full.tail, NULL, Zero)
  <2>1. ArePLists(t, n, Full.tail, NULL, Zero)
    BY PLists
  <2> HIDE DEF t
  <2>2. /\ DOMAIN t = {FREE, READY} \cup Semd
        /\ Ring(List(t[FREE], n), ElemsAt(t, n, FREE))
    BY <1>2, <1>4, <2>1 DEF ArePLists
  <2>3. ASSUME NEW k \in DOMAIN t, k # FREE
        PROVE  Ring(List(t[k], n), ElemsAt(t, n, k)) /\ ElemsAt(t, n, k) = <<>>
    BY <1>3, <1>4, <2>1, <2>2, <2>3 DEF ArePLists
  <2>4. \A k \in DOMAIN t : Ring(List(t[k], n), ElemsAt(t, n, k))
    BY <2>2, <2>3
  <2>5. \A j, k \in DOMAIN t :
          j # k => ToSet(ElemsAt(t, n, j)) \cap ToSet(ElemsAt(t, n, k)) = {}
    BY <1>4, <2>3
  <2> QED BY <2>4, <2>5 DEF Rings, t
<1>6. Rings(STails(NULL, Full.tail), Full.next)
  <2> DEFINE n == Full.next
             t == STails(NULL, Full.tail)
  <2>1. /\ DOMAIN t = {ASL, UNUSED} /\ t[ASL] = NULL /\ t[UNUSED] = Full.tail
        /\ ElemsAt(t, n, ASL) = <<>> /\ ElemsAt(t, n, UNUSED) = q
    <3>1. /\ ElemsAt(t, n, ASL) = Elems(List(NULL, n))
          /\ ElemsAt(t, n, UNUSED) = Elems(List(Full.tail, n))
      BY SElems
    <3> QED BY <1>4, <3>1, STailsAre
  <2> HIDE DEF t
  <2>2. /\ Ring(List(t[ASL], n), ElemsAt(t, n, ASL))
        /\ Ring(List(t[UNUSED], n), ElemsAt(t, n, UNUSED))
    BY <1>2, <1>4, <2>1
  <2>3. \A k \in DOMAIN t : Ring(List(t[k], n), ElemsAt(t, n, k))
    BY <2>1, <2>2
  <2>4. \A j, k \in DOMAIN t :
          j # k => ToSet(ElemsAt(t, n, j)) \cap ToSet(ElemsAt(t, n, k)) = {}
    BY <1>4, <2>1
  <2> QED BY <2>3, <2>4 DEF Rings, t
<1>7. Rings(Zero, Zero) /\ \A p \in Proc : Elems(List(Zero[p], Zero)) = <<>>
  BY <1>3, NoChildren
<1>8. /\ Free = q /\ SemdQ = q /\ Ready = <<>> /\ Elems(AslL) = <<>>
      /\ \A p \in Proc : Kids[p] = <<>> /\ p_parent[p] = NULL
  BY <1>1, <1>3, <1>4, <1>7
     DEF Free, FreeL, SemdQ, SemdFreeL, Ready, ReadyL, AslL, Kids, ChildL
<1>9. Asl = {}
  BY <1>4, <1>8 DEF Asl
<1>10. Types
  BY <1>1, <1>2, <1>3 DEF Types
<1>11. ProcInv
  BY <1>1, <1>2, <1>5, <1>8 DEF ProcInv
<1>12. TreeInv
  <2>1. \A p, c \in Proc : p # NULL /\ c \notin ToSet(Kids[p])
    BY <1>4, <1>8 DEF Proc, NULL
  <2> QED BY <1>1, <1>3, <1>7, <1>8, <2>1 DEF TreeInv
<1>13. AslInv
  <2>1. AslSorted
    BY <1>8 DEF AslSorted
  <2>2. \A d \in Semd : d \in Asl <=> s_procq[d] # NULL
    BY <1>1, <1>3, <1>9
  <2> QED BY <1>1, <1>6, <2>1, <2>2 DEF AslInv
<1>14. q = [i \in Proc |-> i] /\ q = [i \in Semd |-> i]
  BY DEF q, Identity, Proc, Semd
<1> QED BY <1>8, <1>9, <1>10, <1>11, <1>12, <1>13, <1>14 DEF Inv, SeqInit

-----------------------------------------------------------------------------
(* All steps *)

LEMMA UnchangedStep ==
  ASSUME Inv, UNCHANGED vars
  PROVE  Inv' /\ UNCHANGED seqVars
<1>1. /\ UNCHANGED <<p_list, pcbFree, ready, treeVars, aslVars, live>>
      /\ UNCHANGED <<s_link, s_procq, aslh, semdFree, p_cursem, s_semAdd>>
      /\ UNCHANGED <<p_siblings, p_children, p_parent>>
  BY DEF vars, treeVars, aslVars
<1>2. ProcInv' /\ UNCHANGED <<Free, Ready, Procq>>
  BY <1>1, ProcFrame
<1>3. TreeInv' /\ UNCHANGED seqTree
  BY <1>1, TreeFrame DEF Released
<1>4. /\ Rings(STails(aslh, semdFree), s_link)' /\ AslSorted'
      /\ UNCHANGED <<Asl, SemdQ, AslQ>>
  BY <1>1, AslFrame
<1>5. AslInv'
  BY <1>1, <1>4 DEF Inv, AslInv
<1>6. Types'
  BY <1>1 DEF Inv, Types
<1>7. UNCHANGED seqVars
  BY <1>1, <1>2, <1>3, <1>4 DEF seqVars, seqAsl
<1> QED BY <1>2, <1>3, <1>5, <1>6, <1>7 DEF Inv

\* Every step keeps the invariant and is one of NucleusData, or a stutter.
LEMMA Step ==
  ASSUME Inv, [Next]_vars
  PROVE  Inv' /\ [SeqNext]_seqVars
<1>1. ASSUME NEW p \in Proc, freePcb(p) PROVE Inv' /\ SeqNext
  BY <1>1, FreePcb DEF SeqNext
<1>2. ASSUME NEW p \in Proc, insertProcQ(p) PROVE Inv' /\ SeqNext
  BY <1>2, InsertProcQ DEF SeqNext
<1>3. ASSUME NEW p \in Proc, outProcQ(p) PROVE Inv' /\ SeqNext
  BY <1>3, OutProcQ DEF SeqNext
<1>4. ASSUME allocPcb PROVE Inv' /\ SeqNext
  BY <1>4, AllocPcb DEF SeqNext
<1>5. ASSUME removeProcQ PROVE Inv' /\ SeqNext
  BY <1>5, RemoveProcQ DEF SeqNext
<1>6. ASSUME NEW p \in Proc, NEW c \in Proc, insertChild(p, c)
      PROVE  Inv' /\ SeqNext
  BY <1>6, InsertChild DEF SeqNext
<1>7. ASSUME NEW p \in Proc, removeChild(p) PROVE Inv' /\ SeqNext
  BY <1>7, RemoveChild DEF SeqNext
<1>8. ASSUME NEW p \in Proc, outChild(p) PROVE Inv' /\ SeqNext
  BY <1>8, OutChild DEF SeqNext
<1>9. ASSUME NEW a \in Addr, NEW p \in Proc, insertBlocked(a, p)
      PROVE  Inv' /\ SeqNext
  BY <1>9, InsertBlocked DEF SeqNext
<1>10. ASSUME NEW a \in Addr, removeBlocked(a) PROVE Inv' /\ SeqNext
  BY <1>10, RemoveBlocked DEF SeqNext
<1>11. ASSUME NEW p \in Proc, outBlocked(p) PROVE Inv' /\ SeqNext
  BY <1>11, OutBlocked DEF SeqNext
<1>12. CASE UNCHANGED vars
  BY <1>12, UnchangedStep
<1> QED BY <1>1, <1>2, <1>3, <1>4, <1>5, <1>6, <1>7, <1>8, <1>9, <1>10, <1>11,
           <1>12 DEF Next, ProcOp, TreeOp, AslOp, ended

\* A ring ends at its tail.
LEMMA RingEnds ==
  ASSUME NEW l, NEW q, Ring(l, q), l.tail # NULL
  PROVE  Last(Elems(l)) = l.tail
<1>1. Elems(l) = q /\ l.tail = q[Len(q)]
  BY ElemsOfRing, RingFacts
<1> QED BY <1>1 DEF Last

LEMMA InvIsTypeOK ==
  ASSUME Inv
  PROVE  TypeOK
<1> DEFINE Lists == {FreeL, ReadyL, AslL, SemdFreeL} \cup {ProcqL(d) : d \in Semd}
                      \cup {ChildL(p) : p \in Proc}
<1>1. ASSUME NEW l \in Lists PROVE \E q : Ring(l, q)
  BY ProcLists, TreeLists, AslLists
<1>2. \A l \in Lists : l.tail # NULL => Last(Elems(l)) = l.tail
  BY <1>1, RingEnds
<1> QED BY <1>2 DEF TypeOK, Inv, Types

\* The invariant holds in every reachable state.
LEMMA AlwaysInv == Spec => []Inv
<1> QED BY InitialState, Step, PTL DEF Spec

-----------------------------------------------------------------------------
(* The properties *)

\* Every link of clist.h keeps to entries of its kind, and every list stays a
\* ring that closes at its tail, whatever calls are made on allocated pcbs.
THEOREM ListsStayRings == Spec => []TypeOK
<1> QED BY AlwaysInv, InvIsTypeOK, PTL

\* insertBlocked and the freeing of emptied descriptors keep the ASL sorted.
THEOREM AslStaysSorted == Spec => []AslSorted
<1>1. Inv => AslSorted
  BY DEF Inv, AslInv
<1> QED BY <1>1, AlwaysInv, PTL

\* The scan of search, which stops at the first address that is not below the
\* one it looks for, finds every descriptor that is there.
THEOREM SearchAlwaysFinds == Spec => []SearchFinds
<1> QED BY AlwaysInv, HeadBlocked, PTL

\* The functions on pointers implement the operations on sequences that the
\* model of the nucleus uses.
THEOREM PointersImplementSequences == Spec => ListsAreSequences
<1> QED BY AlwaysInv, InitialState, Step, PTL DEF Spec, ListsAreSequences
=============================================================================
