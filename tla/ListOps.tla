------------------------------ MODULE ListOps ------------------------------
(***************************************************************************)
(* What the operations of clist.h do to a circular list, taken as the      *)
(* sequence of its elements from head to tail.                             *)
(***************************************************************************)
EXTENDS Integers, Sequences, SequencesExt

\* outProcQ and clist_delete: an element is on a list at most once.
Without(s, e) == IF e \in ToSet(s)
                 THEN RemoveAt(s, CHOOSE i \in DOMAIN s : s[i] = e) ELSE s

enqueueFree_lost(f, d) == f                               \* mutant

\* clist_enqueue(d, &semdFree).  Of a descriptor already on the list it
\* relinks the ring through d: what followed d is no longer on it.
enqueueFree(f, d) ==
  LET at == {i \in DOMAIN f : f[i] = d}
  IN  IF at = {} THEN Append(f, d)
      ELSE IF d = Last(f) THEN <<d>> ELSE SubSeq(f, 1, CHOOSE i \in at : TRUE)
=============================================================================
