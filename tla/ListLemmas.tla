---------------------------- MODULE ListLemmas ------------------------------
(***************************************************************************)
(* What the list operations of pcb.c and asl.c do to lists as sequences.   *)
(***************************************************************************)
EXTENDS ListOps, SequenceTheorems, TLAPS

-----------------------------------------------------------------------------
(* Lists *)

\* The elements from m to n of a list.
LEMMA SubList ==
  ASSUME NEW S, NEW s \in Seq(S), NEW m \in 1 .. Len(s) + 1, NEW n \in m-1 .. Len(s)
  PROVE  /\ SubSeq(s, m, n) \in Seq(S)
         /\ Len(SubSeq(s, m, n)) = n - m + 1
         /\ \A k \in 1 .. n-m+1 : SubSeq(s, m, n)[k] = s[m+k-1]
<1>1. Len(s) \in Nat /\ m \in Int /\ n \in Int
  BY LenProperties
<1>2. \A i \in m .. n : s[i] \in S
  BY <1>1, ElementOfSeq
<1>3. SubSeq(s, m, n) \in Seq(S)
  BY <1>1, <1>2, SubSeqProperties
<1>4. Len(SubSeq(s, m, n)) = IF m <= n THEN n-m+1 ELSE 0
  BY <1>1, <1>2, SubSeqProperties
<1>5. \A k \in 1 .. n-m+1 : SubSeq(s, m, n)[k] = s[m+k-1]
  BY <1>1, <1>2, SubSeqProperties
<1> QED BY <1>1, <1>3, <1>4, <1>5

\* The list w is s without its i-th element.
LeavesOut(s, i, w) ==
  /\ Len(w) = Len(s) - 1
  /\ \A k \in 1 .. Len(s) - 1 : w[k] = IF k < i THEN s[k] ELSE s[k+1]

\* The elements of a list without one of them keep their order.
LEMMA WithoutIs ==
  ASSUME NEW S, NEW s \in Seq(S), NEW e \in ToSet(s)
  PROVE  /\ Without(s, e) \in Seq(S)
         /\ \E i \in 1 .. Len(s) : s[i] = e /\ LeavesOut(s, i, Without(s, e))
<1> DEFINE i == CHOOSE j \in DOMAIN s : s[j] = e
           a == SubSeq(s, 1, i-1)
           b == SubSeq(s, i+1, Len(s))
           w == a \o b
<1>1. i \in 1 .. Len(s) /\ s[i] = e
  BY DEF ToSet
<1>2. Without(s, e) = w
  BY DEF Without, RemoveAt
<1>3. Len(s) \in Nat /\ DOMAIN s = 1 .. Len(s)
  BY LenProperties
<1> HIDE DEF i
<1>4. /\ a \in Seq(S) /\ Len(a) = i-1
      /\ \A k \in 1 .. i-1 : a[k] = s[k]
  <2>1. 1 \in 1 .. Len(s) + 1 /\ i-1 \in 1-1 .. Len(s)
    BY <1>1, <1>3
  <2>2. /\ a \in Seq(S) /\ Len(a) = i-1-1+1
        /\ \A k \in 1 .. i-1-1+1 : a[k] = s[1+k-1]
    BY <2>1, SubList, Zenon
  <2> HIDE DEF a, b
  <2> QED BY <1>1, <1>3, <2>2
<1>5. /\ b \in Seq(S) /\ Len(b) = Len(s) - i
      /\ \A k \in 1 .. Len(s) - i : b[k] = s[k+i]
  <2>1. i+1 \in 1 .. Len(s) + 1 /\ Len(s) \in (i+1)-1 .. Len(s)
    BY <1>1, <1>3
  <2>2. /\ b \in Seq(S) /\ Len(b) = Len(s) - (i+1) + 1
        /\ \A k \in 1 .. Len(s)-(i+1)+1 : b[k] = s[(i+1)+k-1]
    BY <2>1, SubList, Zenon
  <2> HIDE DEF a, b
  <2> QED BY <1>1, <1>3, <2>2
<1> HIDE DEF a, b
<1>6. /\ w \in Seq(S) /\ Len(w) = Len(a) + Len(b)
      /\ \A k \in 1 .. Len(a) + Len(b) :
           w[k] = IF k <= Len(a) THEN a[k] ELSE b[k - Len(a)]
  BY <1>4, <1>5, ConcatProperties, Zenon
<1> HIDE DEF w
<1>7. DOMAIN w = 1 .. Len(s) - 1
  BY <1>1, <1>3, <1>4, <1>5, <1>6, LenProperties
<1>8. \A k \in DOMAIN w : w[k] = IF k < i THEN s[k] ELSE s[k+1]
  <2>1. ASSUME NEW k \in 1 .. Len(s) - 1, k < i
        PROVE  w[k] = s[k]
    <3>1. k \in 1 .. Len(a) + Len(b) /\ k <= Len(a) /\ k \in 1 .. i-1
      BY <1>1, <1>3, <1>4, <1>5, <2>1
    <3>2. w[k] = a[k]
      BY <1>6, <3>1
    <3> QED BY <1>4, <3>1, <3>2
  <2>2. ASSUME NEW k \in 1 .. Len(s) - 1, ~(k < i)
        PROVE  w[k] = s[k+1]
    <3> DEFINE j == k - Len(a)
    <3>1. /\ k \in 1 .. Len(a) + Len(b) /\ ~(k <= Len(a))
          /\ j \in 1 .. Len(s) - i /\ j + i = k + 1
      BY <1>1, <1>3, <1>4, <1>5, <2>2
    <3>2. w[k] = b[j]
      BY <1>6, <3>1
    <3>3. b[j] = s[j + i]
      BY <1>5, <3>1
    <3> QED BY <3>1, <3>2, <3>3
  <2> QED BY <1>7, <2>1, <2>2
<1>9. Len(w) = Len(s) - 1
  BY <1>1, <1>3, <1>4, <1>5, <1>6
<1>10. LeavesOut(s, i, w)
  BY <1>8, <1>9 DEF LeavesOut
<1>11. w \in Seq(S)
  BY <1>6
<1>12. \E n \in 1 .. Len(s) : s[n] = e /\ LeavesOut(s, n, w)
  BY <1>1, <1>10, Zenon
<1> QED BY <1>2, <1>11, <1>12, Zenon

\* Removing an element from a list leaves a list, of the other elements.
LEMMA WithoutProperties ==
  ASSUME NEW S, NEW s \in Seq(S), NEW e
  PROVE  /\ Without(s, e) \in Seq(S)
         /\ IsInjective(s) => /\ IsInjective(Without(s, e))
                              /\ ToSet(Without(s, e)) = ToSet(s) \ {e}
<1>1. CASE e \in ToSet(s)
  <2> DEFINE w == Without(s, e)
  <2>0. w \in Seq(S) /\ \E n \in 1 .. Len(s) : s[n] = e /\ LeavesOut(s, n, w)
    BY <1>1, WithoutIs, Zenon
  <2>1. PICK i \in 1 .. Len(s) :
          /\ s[i] = e /\ w \in Seq(S) /\ Len(w) = Len(s) - 1
          /\ \A k \in 1 .. Len(s) - 1 : w[k] = IF k < i THEN s[k] ELSE s[k+1]
    <3> HIDE DEF w
    <3> QED BY <2>0 DEF LeavesOut
  <2>2. Len(s) \in Nat /\ DOMAIN s = 1 .. Len(s)
    BY LenProperties
  <2> HIDE DEF w
  <2>3. DOMAIN w = 1 .. Len(s) - 1
    BY <2>1, LenProperties
  <2>4. \A k \in DOMAIN w : w[k] = IF k < i THEN s[k] ELSE s[k+1]
    BY <2>1, <2>3
  <2>5. ASSUME IsInjective(s)
        PROVE  IsInjective(w)
    BY <2>1, <2>2, <2>3, <2>4, <2>5 DEF IsInjective
  <2>6. ASSUME IsInjective(s)
         PROVE  ToSet(w) = ToSet(s) \ {e}
    <3>1. ASSUME NEW x \in ToSet(w)
          PROVE  x \in ToSet(s) /\ x # e
      BY <2>1, <2>2, <2>3, <2>4, <2>6, <3>1 DEF IsInjective, ToSet
    <3>2. ASSUME NEW x \in ToSet(s), x # e
          PROVE  x \in ToSet(w)
      <4>1. PICK k \in 1 .. Len(s) : s[k] = x
        BY <2>2 DEF ToSet
      <4>2. CASE k < i
        <5>1. k \in DOMAIN w /\ w[k] = s[k]
          BY <2>1, <2>2, <2>3, <2>4, <4>1, <4>2
        <5> QED BY <4>1, <5>1 DEF ToSet
      <4>3. CASE k > i
        <5>1. k-1 \in DOMAIN w /\ w[k-1] = s[k]
          BY <2>1, <2>2, <2>3, <2>4, <4>1, <4>3
        <5> QED BY <4>1, <5>1 DEF ToSet
      <4> QED BY <2>1, <3>2, <4>1, <4>2, <4>3
    <3> QED BY <3>1, <3>2
  <2> QED BY <2>1, <2>5, <2>6 DEF w
<1>2. CASE e \notin ToSet(s)
  BY <1>2 DEF Without
<1> QED BY <1>1, <1>2

\* Removing the first element of a list.
LEMMA TailProperties ==
  ASSUME NEW S, NEW s \in Seq(S), s # <<>>
  PROVE  /\ Head(s) \in S /\ Head(s) \in ToSet(s)
         /\ Tail(s) \in Seq(S) /\ Len(Tail(s)) = Len(s) - 1
         /\ IsInjective(s) => /\ IsInjective(Tail(s))
                              /\ ToSet(Tail(s)) = ToSet(s) \ {Head(s)}
<1> DEFINE t == Tail(s)
<1>1. Len(s) \in Nat \ {0} /\ DOMAIN s = 1 .. Len(s) /\ Head(s) = s[1]
  BY LenProperties, EmptySeq
<1>2. /\ Head(s) \in S /\ t \in Seq(S) /\ Len(t) = Len(s) - 1
      /\ \A i \in 1 .. Len(t) : t[i] = s[i+1]
  BY HeadTailProperties
<1>3. DOMAIN t = 1 .. Len(s) - 1
  BY <1>1, <1>2, LenProperties
<1> HIDE DEF t
<1>4. Head(s) \in ToSet(s)
  BY <1>1 DEF ToSet
<1>5. ASSUME IsInjective(s)
      PROVE  IsInjective(t)
  <2>1. SUFFICES ASSUME NEW a \in DOMAIN t, NEW b \in DOMAIN t, t[a] = t[b]
                 PROVE  a = b
    BY DEF IsInjective
  <2>2. /\ a+1 \in DOMAIN s /\ b+1 \in DOMAIN s
        /\ t[a] = s[a+1] /\ t[b] = s[b+1]
    BY <1>1, <1>2, <1>3
  <2>3. a+1 = b+1
    BY <1>5, <2>1, <2>2 DEF IsInjective
  <2> QED BY <1>1, <1>3, <2>3
<1>6. ASSUME IsInjective(s)
      PROVE  ToSet(t) = ToSet(s) \ {Head(s)}
  <2>1. ASSUME NEW x \in ToSet(t)
        PROVE  x \in ToSet(s) /\ x # Head(s)
    <3>1. PICK k \in 1 .. Len(s) - 1 : t[k] = x
      BY <1>3, <2>1 DEF ToSet
    <3>2. k+1 \in DOMAIN s /\ 1 \in DOMAIN s /\ k+1 # 1
      BY <1>1, <3>1
    <3>3. s[k+1] = x
      BY <1>1, <1>2, <3>1
    <3> QED BY <1>1, <1>6, <3>2, <3>3 DEF IsInjective, ToSet
  <2>2. ASSUME NEW x \in ToSet(s), x # Head(s)
        PROVE  x \in ToSet(t)
    <3>1. PICK k \in 1 .. Len(s) : s[k] = x
      BY <1>1 DEF ToSet
    <3>2. k-1 \in DOMAIN t /\ t[k-1] = x
      BY <1>1, <1>2, <1>3, <2>2, <3>1
    <3> QED BY <3>2 DEF ToSet
  <2> QED BY <2>1, <2>2
<1> QED BY <1>2, <1>4, <1>5, <1>6 DEF t

LEMMA HeadOrTail ==
  ASSUME NEW S, NEW s \in Seq(S), s # <<>>
  PROVE  \A e \in ToSet(s) : e = Head(s) \/ e \in ToSet(Tail(s))
<1>1. /\ Len(s) \in Nat \ {0} /\ DOMAIN s = 1 .. Len(s) /\ Head(s) = s[1]
      /\ Tail(s) \in Seq(S) /\ Len(Tail(s)) = Len(s) - 1
      /\ \A i \in 1 .. Len(s) - 1 : Tail(s)[i] = s[i+1]
  BY LenProperties, EmptySeq, HeadTailProperties
<1> SUFFICES ASSUME NEW i \in DOMAIN s, i # 1
             PROVE  s[i] \in ToSet(Tail(s))
  BY <1>1 DEF ToSet
<1>2. i - 1 \in 1 .. Len(s) - 1 /\ Tail(s)[i-1] = s[i]
  BY <1>1
<1> QED BY <1>1, <1>2, LenProperties DEF ToSet

\* Adding an element at the end of a list.
LEMMA AppendList ==
  ASSUME NEW S, NEW s \in Seq(S), NEW e \in S
  PROVE  /\ Append(s, e) \in Seq(S) /\ Len(Append(s, e)) = Len(s) + 1
         /\ ToSet(Append(s, e)) = ToSet(s) \cup {e}
         /\ IsInjective(s) /\ e \notin ToSet(s) => IsInjective(Append(s, e))
<1> DEFINE t == Append(s, e)
<1>1. Len(s) \in Nat /\ DOMAIN s = 1 .. Len(s)
  BY LenProperties
<1>2. /\ t \in Seq(S) /\ Len(t) = Len(s) + 1
      /\ \A i \in 1 .. Len(s) : t[i] = s[i]
      /\ t[Len(s)+1] = e
  BY AppendProperties
<1>3. DOMAIN t = 1 .. Len(s) + 1
  BY <1>1, <1>2, LenProperties
<1> HIDE DEF t
<1>4. ToSet(t) = ToSet(s) \cup {e}
  <2>1. ASSUME NEW x \in ToSet(t)
        PROVE  x \in ToSet(s) \cup {e}
    BY <1>1, <1>2, <1>3, <2>1 DEF ToSet
  <2>2. ASSUME NEW x \in ToSet(s)
        PROVE  x \in ToSet(t)
    BY <1>1, <1>2, <1>3, <2>2 DEF ToSet
  <2>3. e \in ToSet(t)
    BY <1>1, <1>2, <1>3 DEF ToSet
  <2> QED BY <2>1, <2>2, <2>3
<1>5. ASSUME IsInjective(s), e \notin ToSet(s)
      PROVE  IsInjective(t)
  BY <1>1, <1>2, <1>3, <1>5 DEF IsInjective, ToSet
<1> QED BY <1>2, <1>4, <1>5 DEF t

\* Adding a new element at the end of a list without repetitions.
LEMMA AppendNew ==
  ASSUME NEW S, NEW s \in Seq(S), NEW e \in S, IsInjective(s), e \notin ToSet(s)
  PROVE  /\ ToSet(Append(s, e)) = ToSet(s) \cup {e}
         /\ IsInjective(Append(s, e))
<1>1. /\ ToSet(Append(s, e)) = ToSet(s) \cup {e}
      /\ IsInjective(s) /\ e \notin ToSet(s) => IsInjective(Append(s, e))
  BY AppendList
<1> QED BY <1>1

\* The last element of a list, and the list without it.
LEMMA FrontProperties ==
  ASSUME NEW S, NEW s \in Seq(S), s # <<>>
  PROVE  /\ Last(s) \in S /\ Last(s) \in ToSet(s)
         /\ Front(s) \in Seq(S) /\ Len(Front(s)) = Len(s) - 1
         /\ ToSet(Front(s)) \subseteq ToSet(s)
         /\ Len(s) > 1 => Front(s)[1] = s[1] /\ Front(s) # <<>>
         /\ IsInjective(s) => /\ IsInjective(Front(s)) /\ Last(s) \notin ToSet(Front(s))
                              /\ Len(s) > 1 => Last(s) # s[1]
         /\ ToSet(s) \subseteq ToSet(Front(s)) \cup {Last(s)}
<1>1. Len(s) \in Nat \ {0} /\ DOMAIN s = 1 .. Len(s) /\ s[Len(s)] \in S
  BY LenProperties, EmptySeq, ElementOfSeq
<1>2. 1 \in 1 .. Len(s) + 1 /\ Len(s) - 1 \in 1-1 .. Len(s)
  BY <1>1
<1> DEFINE t == Front(s)
<1>3. /\ t \in Seq(S) /\ Len(t) = Len(s)-1-1+1
      /\ \A k \in 1 .. Len(s)-1-1+1 : t[k] = s[1+k-1]
  BY <1>2, SubList, Zenon DEF Front
<1> HIDE DEF t
<1>4. DOMAIN t = 1 .. Len(s)-1 /\ \A k \in DOMAIN t : t[k] = s[k]
  BY <1>1, <1>3, LenProperties
<1>5. ToSet(t) \subseteq ToSet(s)
  BY <1>1, <1>4 DEF ToSet
<1>6. Last(s) \in S /\ Last(s) \in ToSet(s) /\ Last(s) = s[Len(s)]
  BY <1>1 DEF Last, ToSet
<1>7. Len(s) > 1 => t[1] = s[1] /\ t # <<>>
  BY <1>1, <1>3, <1>4
<1>8. ASSUME IsInjective(s)
      PROVE  /\ IsInjective(t) /\ Last(s) \notin ToSet(t)
             /\ Len(s) > 1 => Last(s) # s[1]
  <2>1. \A i, j \in 1 .. Len(s) : s[i] = s[j] => i = j
    BY <1>1, <1>8 DEF IsInjective
  <2>2. IsInjective(t)
    BY <1>1, <1>4, <2>1 DEF IsInjective
  <2>3. Last(s) \notin ToSet(t)
    BY <1>1, <1>4, <1>6, <2>1 DEF ToSet
  <2> QED BY <1>1, <1>6, <2>1, <2>2, <2>3
<1>9. ToSet(s) \subseteq ToSet(t) \cup {Last(s)}
  <2> SUFFICES ASSUME NEW i \in 1 .. Len(s)
               PROVE  s[i] \in ToSet(t) \cup {Last(s)}
    BY <1>1 DEF ToSet
  <2>1. i = Len(s) \/ i \in 1 .. Len(s) - 1
    OBVIOUS
  <2>2. i \in 1 .. Len(s) - 1 => i \in DOMAIN t /\ t[i] = s[i]
    BY <1>4
  <2> QED BY <1>6, <2>1, <2>2 DEF ToSet
<1> QED BY <1>1, <1>3, <1>5, <1>6, <1>7, <1>8, <1>9 DEF t

\* clist_enqueue leaves a list of the same kind.
LEMMA EnqueueFreeType ==
  ASSUME NEW S, NEW f \in Seq(S), NEW d \in S
  PROVE  enqueueFree(f, d) \in Seq(S)
<1> DEFINE at == {i \in DOMAIN f : f[i] = d}
           i  == CHOOSE j \in at : TRUE
<1>1. CASE at = {}
  BY <1>1, AppendProperties DEF enqueueFree
<1>2. CASE at # {}
  <2>1. i \in 1 .. Len(f) /\ Len(f) \in Nat
    BY <1>2, LenProperties
  <2> HIDE DEF i
  <2>2. 1 \in 1 .. Len(f) + 1 /\ i \in 1-1 .. Len(f)
    BY <2>1
  <2>3. SubSeq(f, 1, i) \in Seq(S)
    BY <2>2, SubList, Zenon
  <2>4. <<d>> \in Seq(S)
    OBVIOUS
  <2>5. enqueueFree(f, d) = IF d = Last(f) THEN <<d>> ELSE SubSeq(f, 1, i)
    BY <1>2, Zenon DEF enqueueFree, i
  <2> QED BY <2>3, <2>4, <2>5, Zenon
<1> QED BY <1>1, <1>2

\* It adds the element or, of one already there, drops what followed it.
LEMMA EnqueueFreeAny ==
  ASSUME NEW S, NEW f \in Seq(S), NEW d \in S, IsInjective(f)
  PROVE  /\ ToSet(enqueueFree(f, d)) \subseteq ToSet(f) \cup {d}
         /\ IsInjective(enqueueFree(f, d))
<1> DEFINE at == {i \in DOMAIN f : f[i] = d}
           i  == CHOOSE j \in at : TRUE
           t  == SubSeq(f, 1, i)
<1>1. CASE at = {}
  <2>1. enqueueFree(f, d) = Append(f, d) /\ d \notin ToSet(f)
    BY <1>1 DEF enqueueFree, ToSet
  <2>2. /\ ToSet(Append(f, d)) = ToSet(f) \cup {d}
        /\ IsInjective(Append(f, d))
    BY <2>1, AppendNew, Zenon
  <2> QED BY <2>1, <2>2
<1>2. CASE at # {}
  <2>1. i \in 1 .. Len(f) /\ Len(f) \in Nat
    BY <1>2, LenProperties
  <2>2. DOMAIN f = 1 .. Len(f)
    BY LenProperties
  <2>3. enqueueFree(f, d) = IF d = Last(f) THEN <<d>> ELSE t
    BY <1>2, Zenon DEF enqueueFree, i
  <2> HIDE DEF i
  <2>4. 1 \in 1 .. Len(f) + 1 /\ i \in 1-1 .. Len(f) /\ i - 1 + 1 = i
    BY <2>1
  <2>5. t \in Seq(S) /\ Len(t) = i /\ \A k \in 1 .. i : t[k] = f[1+k-1]
    BY <2>4, SubList
  <2> HIDE DEF t
  <2>6. DOMAIN t = 1 .. i /\ \A k \in 1 .. i : t[k] = f[k] /\ k \in DOMAIN f
    BY <2>1, <2>2, <2>5, LenProperties
  <2>7. ToSet(t) \subseteq ToSet(f) /\ IsInjective(t)
    BY <2>6 DEF ToSet, IsInjective
  <2>8. ToSet(<<d>>) = {d} /\ IsInjective(<<d>>)
    BY DEF ToSet, IsInjective
  <2> QED BY <2>3, <2>7, <2>8, Zenon
<1> QED BY <1>1, <1>2
=============================================================================
