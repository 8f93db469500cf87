------------------------------ MODULE TestSync ------------------------------
(***************************************************************************)
(* How the processes of the test program wait for each other: an invariant *)
(* on positions and semaphores (Sync), and that everything a process may   *)
(* do, and the loss of processes, keeps it.  None of it depends on the     *)
(* nucleus but that a P takes what the semaphore has.                      *)
(***************************************************************************)
EXTENDS P2Test, FiniteSetTheorems, SequenceTheorems, TLAPS

-----------------------------------------------------------------------------
(* The synchronization of the test program.  s says who is alive, of each  *)
(* process its function, position and parent, the values of semaphores,    *)
(* and p5dmode.                                                            *)

Fetch  == {"p5a", "p5prog_fetch"}
Mm     == {"p5b", "p5mm"}
Kernel == {"p5c_kernel", "p5sys_kernel"}
Both   == {"p5c", "p5c_user", "p5sys_user", "p5prog_instr"} \cup Kernel
Kids   == {"child1", "child2"}
Pairs  == {"p4", "child1", "child2"}
Single == {{"p2"}, {"p3"}, {"p5"}, {"p6"}, {"p7"}, Fetch, Mm}
Roles  == Single \cup {{"p4"}, {"p8root"}, {"child1"}, {"child2"}, Kids, {"p8leaf"}, Both, Pairs}

Counted == {"endp2", "endp3", "blkp4", "synp4", "blkp5a", "blkp5b", "blkp5c",
            "blkp5cint", "endp5", "blkp6", "endp6", "endp8", "endcreate"}

Of(s, F)     == {p \in s.live : s.fun[p] \in F}
One(s, F)    == \A p, q \in Of(s, F) : p = q
All(s, f, n) == \A p \in Of(s, {f}) : s.pos[p] > n
Main(s)      == s.pos[1]

Typed(s) ==
  /\ \A p \in s.live : s.pos[p] \in Nat \ {0}
  /\ \A x \in Counted : s.val[x] \in Nat
  /\ s.mode \in Nat

Tree(s) ==
  /\ \A p \in s.live : s.fun[p] = "test" <=> p = 1
  /\ \A p \in s.live \ {1} :
       /\ s.par[p] \in s.live
       /\ s.fun[p] \in {"p2", "p3", "p5", "p6", "p7", "p8root"} => s.par[p] = 1
       /\ s.fun[p] = "p4" => \/ s.par[p] = 1
                             \/ s.fun[s.par[p]] = "p4" /\ s.par[s.par[p]] = 1
       /\ s.fun[p] \in Fetch \cup Mm \cup Both => s.fun[s.par[p]] = "p5"
       /\ s.fun[p] \in Kids => s.fun[s.par[p]] = "p8root"
       /\ s.fun[p] = "p8leaf" => s.fun[s.par[p]] \in Kids

\* A process has come past the call that makes its child.
Births(s) ==
  \A p \in s.live \ {1} :
    LET n == s.pos[s.par[p]] IN
      /\ s.fun[p] = "p2" => n > 4
      /\ s.fun[p] = "p3" => n > 9
      /\ s.fun[p] = "p4" => IF s.par[p] = 1 THEN n > 14 ELSE n > 8
      /\ s.fun[p] = "p5" => n > 15
      /\ s.fun[p] = "p6" => n > 16
      /\ s.fun[p] = "p7" => n > 17
      /\ s.fun[p] = "p8root" => n > 24
      /\ s.fun[p] \in Fetch => n > 6
      /\ s.fun[p] \in Mm => n > 8
      /\ s.fun[p] \in Both => n > 10
      /\ s.fun[p] = "child1" => n > 4
      /\ s.fun[p] = "child2" => n > 5
      /\ s.fun[p] = "p8leaf" => n > 2

Ones(s) ==
  /\ \A F \in Single : One(s, F)
  /\ \A p, q \in Of(s, Pairs) :
       s.fun[p] = s.fun[q] /\ s.par[p] = s.par[q] => p = q

Two(s) ==
  s.val["endp2"] > 0 \/ Main(s) > 7 => Main(s) > 4 /\ All(s, "p2", 10)

Three(s) ==
  s.val["endp3"] > 0 \/ Main(s) > 12 => Main(s) > 9 /\ All(s, "p3", 8)

\* The two incarnations of p4.
First(s)  == {p \in Of(s, {"p4"}) : s.par[p] = 1}
Second(s) == {p \in Of(s, {"p4"}) : s.par[p] # 1}

Syn4(s) ==
  /\ Main(s) <= 14 => s.val["synp4"] = 0
  /\ \A p \in First(s) :
       /\ s.pos[p] \notin 4 .. 6 \cup {9} => s.pos[p] > 9 \/ s.val["synp4"] = 0
       /\ s.pos[p] \in 4 .. 6 \cup {9} => s.val["synp4"] <= 1
       /\ s.pos[p] > 9 \/ (s.pos[p] = 9 /\ s.val["synp4"] = 1) =>
            \A q \in Second(s) : s.pos[q] > 3

Blk4(s) ==
  /\ Main(s) <= 14 \/ First(s) # {} => s.val["blkp4"] <= 1
  /\ \A p \in First(s) : s.pos[p] > 4 => s.val["blkp4"] = 0
  /\ \A p \in Second(s) : s.pos[p] <= 4

Dead4(s) == \A p \in Of(s, {"p5"}) : s.pos[p] > 4 => Of(s, {"p4"}) = {}

Four(s) == Syn4(s) /\ Blk4(s) /\ Dead4(s)

\* p5 and its traps.
Trap(s, x, n, F, f) ==
  /\ Main(s) <= 15 => s.val[x] = 0
  /\ \A p \in Of(s, {"p5"}) : s.val[x] > 0 \/ s.pos[p] > n =>
       /\ s.pos[p] > n - 1
       /\ \A q \in Of(s, F) : s.fun[q] = f /\ s.pos[q] > 2

Traps(s) == /\ Trap(s, "blkp5a", 7, Fetch, "p5prog_fetch")
            /\ Trap(s, "blkp5b", 9, Mm, "p5mm")

FiveEnd(s) ==
  s.val["endp5"] > 0 \/ Main(s) > 18 =>
    Main(s) > 15 /\ Of(s, {"p4"}) = {} /\ All(s, "p5", 14)

\* The two incarnations of p5c.
InUser(s, p)   == s.fun[p] = "p5prog_instr" /\ s.pos[p] > 2
Inside(s, p)   == IF s.fun[p] = "p5c" THEN s.pos[p] > 3 ELSE ~InUser(s, p)
NotUser(s)     == Of(s, {"p5c"} \cup Kernel)

Cint(s) ==
  /\ s.val["blkp5cint"] <= 1
  /\ \A p, q, r \in Of(s, Both) : p = q \/ q = r \/ p = r
  /\ \A p, q \in Of(s, Both) : Inside(s, p) =>
       s.val["blkp5cint"] = 0 /\ (Inside(s, q) => p = q)
  /\ \A p \in Of(s, {"p5"}) : s.pos[p] <= 11 => One(s, Both)

Mode(s) ==
  /\ s.mode = 0 => \A p \in Of(s, Both) :
                     s.fun[p] = "p5c" \/ (s.fun[p] = "p5c_user" /\ s.pos[p] = 1)
  /\ s.mode > 0 =>
       /\ Main(s) > 15 /\ \A p, q \in NotUser(s) : p = q
       /\ \A p \in Of(s, {"p5"}) :
            s.pos[p] > 10 /\ (s.pos[p] = 11 => NotUser(s) = {})

Last5(s) ==
  /\ \A p \in Of(s, Kernel) :
       /\ s.pos[s.par[p]] > 11
       /\ \A q \in Of(s, Both) : p = q \/ InUser(s, q)
  /\ Main(s) <= 15 => s.val["blkp5c"] = 0
  /\ \A p \in Of(s, {"p5"}) : s.val["blkp5c"] > 0 \/ s.pos[p] > 12 =>
       /\ s.pos[p] > 11
       /\ \A q \in Of(s, Both) :
            InUser(s, q) \/ (s.fun[q] = "p5c_kernel" /\ s.pos[q] > 5)

FiveC(s) == Cint(s) /\ Mode(s) /\ Last5(s)

N(b) == IF b THEN 1 ELSE 0

\* p6 waits for two units of blkp6, one of p7's and one of test's.
Six(s) ==
  /\ s.val["blkp6"] <= N(Main(s) > 22) + N(Main(s) > 17 /\ All(s, "p7", 3))
  /\ \A p \in Of(s, {"p6"}) : s.pos[p] > 2 => Main(s) > 17 /\ All(s, "p7", 3)
  /\ s.val["endp6"] > 0 \/ Main(s) > 23 =>
       Main(s) > 17 /\ All(s, "p7", 3) /\ All(s, "p6", 4)

\* The family of p8root, as long as it comes into being.
Young(s) == {p \in Of(s, {"p8root"}) : s.pos[p] <= 12}
Kin(s, c) == {p \in Of(s, {"p8leaf"}) : s.par[p] = c}
Leaves(s, r) == {p \in Of(s, {"p8leaf"}) : s.par[s.par[p]] = r}
Signed(s, r) == {p \in Leaves(s, r) : s.pos[p] > 2}
Made(n) == IF n <= 2 THEN 0 ELSE IF n <= 4 THEN 1 ELSE 2

Root(s) ==
  /\ \A p, q \in Young(s) : p = q
  /\ Young(s) # {} => Main(s) \in 28 .. 30 /\ s.val["endp8"] = 0
  /\ s.val["endp8"] <= 1
  /\ s.val["endp8"] = 1 => Main(s) \in 28 .. 30

Grown(s) ==
  /\ \A p \in Of(s, Kids) : s.pos[p] <= 4 => s.pos[s.par[p]] <= 6
  /\ \A p \in Of(s, {"p8leaf"}) : s.pos[p] <= 2 => s.pos[s.par[s.par[p]]] <= 6

Counts(s) ==
  /\ \A c \in Of(s, Kids) : Cardinality(Kin(s, c)) <= Made(s.pos[c])
  /\ s.val["endcreate"] > 0 => \E r \in Young(s) :
       s.pos[r] <= 6 /\ s.val["endcreate"] <= Cardinality(Signed(s, r))

Eight(s) == Root(s) /\ Grown(s) /\ Counts(s)

Sync(s) ==
  /\ Tree(s) /\ Births(s) /\ Ones(s) /\ Two(s) /\ Three(s) /\ Four(s)
  /\ Traps(s) /\ FiveEnd(s) /\ FiveC(s) /\ Six(s) /\ Eight(s)

-----------------------------------------------------------------------------
(* What a process does *)

At(s, p, f, k) == s.fun[p] = f /\ s.pos[p] = k

Frame(s, t, p) ==
  /\ p \in s.live /\ t.live = s.live
  /\ \A q \in s.live : t.par[q] = s.par[q]
  /\ \A q \in s.live \ {p} : t.fun[q] = s.fun[q] /\ t.pos[q] = s.pos[q]

On(s, t, p)   == t.fun[p] = s.fun[p] /\ t.pos[p] = s.pos[p] + 1
To(s, t, p, f, k) == t.fun[p] = f /\ t.pos[p] = k

Where(s, t, p) ==
  \/ /\ On(s, t, p)
     /\ At(s, p, "p5", 4) => Of(s, {"p4"}) = {}
     /\ ~At(s, p, "p5c", 4)
     /\ ~At(s, p, "p5c_user", 4)
  \/ At(s, p, "test", 33) /\ To(s, t, p, "test", 32)
  \/ At(s, p, "test", 36) /\ To(s, t, p, "test", 25)
  \/ At(s, p, "p3", 4) /\ To(s, t, p, "p3", 3)
  \/ At(s, p, "p5", 4) /\ To(s, t, p, "p5", 3)
  \/ s.fun[p] = "p5a" /\ To(s, t, p, "p5prog_fetch", 1)
  \/ s.fun[p] = "p5b" /\ To(s, t, p, "p5mm", 1)
  \/ At(s, p, "p5c", 4) /\ s.mode = 0 /\ To(s, t, p, "p5c_user", 1)
  \/ At(s, p, "p5c", 4) /\ s.mode > 0 /\ To(s, t, p, "p5c_kernel", 1)
  \/ At(s, p, "p5c_user", 3) /\ To(s, t, p, "p5sys_user", 1)
  \/ At(s, p, "p5c_user", 4) /\ To(s, t, p, "p5prog_instr", 1)
  \/ At(s, p, "p5c_kernel", 2) /\ To(s, t, p, "p5sys_kernel", 1)
  \/ s.fun[p] = "p5sys_user" /\ To(s, t, p, "p5c_user", 4)
  \/ s.fun[p] = "p5sys_kernel" /\ To(s, t, p, "p5c_kernel", 3)

Effect(s, t, p) ==
  LET at(f, k) == N(At(s, p, f, k)) IN
  /\ t.val["endp2"]  = s.val["endp2"] + at("p2", 10) - at("test", 7)
  /\ t.val["endp3"]  = s.val["endp3"] + at("p3", 8) - at("test", 12)
  /\ t.val["synp4"]  = s.val["synp4"] + at("p4", 3) - at("p4", 6) - at("p4", 9)
  /\ t.val["blkp4"]  = s.val["blkp4"] + 2 * at("p5", 5) - at("p4", 4) - at("test", 20)
  /\ t.val["blkp5a"] = s.val["blkp5a"] + at("p5prog_fetch", 2) - at("p5", 7)
  /\ t.val["blkp5b"] = s.val["blkp5b"] + at("p5mm", 2) - at("p5", 9)
  /\ t.val["blkp5c"] = s.val["blkp5c"] + at("p5c_kernel", 5) - at("p5", 12)
  /\ t.val["blkp5cint"] = s.val["blkp5cint"] + at("p5prog_instr", 2) - at("p5c", 3)
  /\ t.val["endp5"]  = s.val["endp5"] + at("p5", 14) - at("test", 18)
  /\ t.val["blkp6"]  = s.val["blkp6"] + at("p7", 3) + at("test", 22) - 2 * at("p6", 2)
  /\ t.val["endp6"]  = s.val["endp6"] + at("p6", 4) - at("test", 23)
  /\ t.val["endp8"]  = s.val["endp8"] + at("p8root", 12) - at("test", 30)
  /\ t.val["endcreate"] = s.val["endcreate"] + at("p8leaf", 2) - 4 * at("p8root", 6)
  /\ t.mode = s.mode + at("p5c_user", 1)

Goes(s, t, p) == Frame(s, t, p) /\ Where(s, t, p) /\ Effect(s, t, p)

\* p makes c.
Makes == {<<"test", 4, "p2">>, <<"test", 9, "p3">>, <<"test", 14, "p4">>,
          <<"test", 15, "p5">>, <<"test", 16, "p6">>, <<"test", 17, "p7">>,
          <<"test", 27, "p8root">>, <<"p4", 8, "p4">>, <<"p5", 6, "p5a">>,
          <<"p5", 8, "p5b">>, <<"p5", 10, "p5c">>, <<"p5", 11, "p5c">>,
          <<"p8root", 4, "child1">>, <<"p8root", 5, "child2">>,
          <<"child1", 2, "p8leaf">>, <<"child1", 4, "p8leaf">>,
          <<"child2", 2, "p8leaf">>, <<"child2", 4, "p8leaf">>}

Forks(s, t, p, c) ==
  /\ p \in s.live /\ c \notin s.live /\ t.live = s.live \cup {c}
  /\ \A q \in s.live : t.par[q] = s.par[q] /\ t.fun[q] = s.fun[q]
  /\ \A q \in s.live \ {p} : t.pos[q] = s.pos[q]
  /\ t.pos[p] = s.pos[p] + 1 /\ t.par[c] = p /\ t.pos[c] = 1
  /\ <<s.fun[p], s.pos[p], t.fun[c]>> \in Makes
  /\ t.mode = s.mode /\ \A x \in Counted : t.val[x] = s.val[x]

\* Processes are lost with all that they have brought forth.
Loses(s, t) ==
  /\ t.live \subseteq s.live
  /\ \A q \in t.live : t.par[q] = s.par[q] /\ t.fun[q] = s.fun[q] /\ t.pos[q] = s.pos[q]
  /\ \A q \in t.live \ {1} : s.par[q] \in t.live
  /\ \A r \in Young(s) : s.pos[r] <= 6 => r \in t.live /\ Leaves(s, r) \subseteq t.live
  /\ t.mode = s.mode /\ \A x \in Counted : t.val[x] = s.val[x]

-----------------------------------------------------------------------------
(* Facts about every step of a process *)

LEMMA RolesStay ==
  ASSUME NEW s, NEW t, NEW p, Frame(s, t, p), Where(s, t, p)
  PROVE  \A F \in Roles : Of(t, F) = Of(s, F)
<1>1. \A q \in s.live \ {p} : t.fun[q] = s.fun[q]
  BY DEF Frame
<1>2. \A F \in Roles : t.fun[p] \in F <=> s.fun[p] \in F
  <2>1. CASE t.fun[p] = s.fun[p]
    BY <2>1
  <2>2. CASE s.fun[p] = "p5a" /\ t.fun[p] = "p5prog_fetch"
    BY <2>2 DEF Roles, Single, Fetch, Mm, Kernel, Both, Kids, Pairs
  <2>3. CASE s.fun[p] = "p5b" /\ t.fun[p] = "p5mm"
    BY <2>3 DEF Roles, Single, Fetch, Mm, Kernel, Both, Kids, Pairs
  <2>4. CASE s.fun[p] \in Both /\ t.fun[p] \in Both
    BY <2>4 DEF Roles, Single, Fetch, Mm, Kernel, Both, Kids, Pairs
  <2> QED BY <2>1, <2>2, <2>3, <2>4 DEF Where, On, To, At, Both, Kernel
<1> QED BY <1>1, <1>2 DEF Frame, Of

LEMMA MainGoes ==
  ASSUME NEW s, NEW t, NEW p, Typed(s), 1 \in s.live, Tree(s), Frame(s, t, p), Where(s, t, p)
  PROVE  /\ p = 1 <=> s.fun[p] = "test"
         /\ p # 1 => Main(t) = Main(s)
         /\ p = 1 => \/ Main(t) = Main(s) + 1
                     \/ Main(s) = 33 /\ Main(t) = 32
                     \/ Main(s) = 36 /\ Main(t) = 25
         /\ Main(s) \in Nat \ {0} /\ Main(t) \in Nat \ {0}
         /\ \A q \in s.live : t.pos[q] \in Nat \ {0}
BY DEF Tree, Frame, Where, On, To, At, Main, Typed

LEMMA TreeGoes ==
  ASSUME NEW s, NEW t, NEW p, Typed(s), 1 \in s.live, Tree(s), Frame(s, t, p), Where(s, t, p)
  PROVE  Tree(t)
<1>1. t.live = s.live /\ \A q \in s.live : t.par[q] = s.par[q]
  BY DEF Frame
<1>2. \A q \in s.live, F \in Roles : t.fun[q] \in F <=> s.fun[q] \in F
  BY <1>1, RolesStay DEF Of
<1>3. \A q \in s.live : t.fun[q] = "test" <=> s.fun[q] = "test"
  BY DEF Frame, Where, On, To, At
<1>4. \A q \in s.live : /\ t.fun[q] \in {"p2", "p3", "p5", "p6", "p7", "p8root"} => t.fun[q] = s.fun[q]
                        /\ t.fun[q] = "p4" <=> s.fun[q] = "p4"
                        /\ t.fun[q] \in Fetch \cup Mm \cup Both <=> s.fun[q] \in Fetch \cup Mm \cup Both
                        /\ t.fun[q] \in Kids <=> s.fun[q] \in Kids
                        /\ t.fun[q] = "p8leaf" <=> s.fun[q] = "p8leaf"
                        /\ t.fun[q] = "p8root" <=> s.fun[q] = "p8root"
                        /\ t.fun[q] = "p5" <=> s.fun[q] = "p5"
  BY <1>2 DEF Roles, Single
<1> QED BY <1>1, <1>3, <1>4 DEF Tree

LEMMA BirthsGoes ==
  ASSUME NEW s, NEW t, NEW p, Typed(s), 1 \in s.live, Tree(s), Births(s),
         Frame(s, t, p), Where(s, t, p)
  PROVE  Births(t)
<1>1. t.live = s.live /\ \A q \in s.live : t.par[q] = s.par[q]
  BY DEF Frame
<1>2. \A q \in s.live, F \in Roles : t.fun[q] \in F <=> s.fun[q] \in F
  BY <1>1, RolesStay DEF Of
<1>3. \A q \in s.live : /\ \A f \in {"p2", "p3", "p4", "p5", "p6", "p7", "p8root", "child1", "child2", "p8leaf"} :
                              t.fun[q] = f <=> s.fun[q] = f
                        /\ t.fun[q] \in Fetch <=> s.fun[q] \in Fetch
                        /\ t.fun[q] \in Mm <=> s.fun[q] \in Mm
                        /\ t.fun[q] \in Both <=> s.fun[q] \in Both
  BY <1>2 DEF Roles, Single
<1>4. \A q \in s.live \ {p} : t.pos[q] = s.pos[q]
  BY DEF Frame
<1>5. s.fun[p] \in {"test", "p4", "p5", "p8root", "child1", "child2"} =>
        \/ t.pos[p] > s.pos[p]
        \/ s.fun[p] = "test" /\ t.pos[p] > 24
        \/ s.fun[p] = "p5" /\ s.pos[p] <= 6
  BY DEF Where, On, To, At, Typed, Frame
<1>6. s.pos[p] \in Nat /\ t.pos[p] \in Nat /\ p \in s.live
  BY MainGoes DEF Typed, Frame
<1>7. ASSUME NEW q \in s.live \ {1}
      PROVE  /\ s.fun[q] = "p2" => t.pos[s.par[q]] > 4
             /\ s.fun[q] = "p3" => t.pos[s.par[q]] > 9
             /\ s.fun[q] = "p4" => IF s.par[q] = 1 THEN t.pos[s.par[q]] > 14 ELSE t.pos[s.par[q]] > 8
             /\ s.fun[q] = "p5" => t.pos[s.par[q]] > 15
             /\ s.fun[q] = "p6" => t.pos[s.par[q]] > 16
             /\ s.fun[q] = "p7" => t.pos[s.par[q]] > 17
             /\ s.fun[q] = "p8root" => t.pos[s.par[q]] > 24
             /\ s.fun[q] \in Fetch => t.pos[s.par[q]] > 6
             /\ s.fun[q] \in Mm => t.pos[s.par[q]] > 8
             /\ s.fun[q] \in Both => t.pos[s.par[q]] > 10
             /\ s.fun[q] = "child1" => t.pos[s.par[q]] > 4
             /\ s.fun[q] = "child2" => t.pos[s.par[q]] > 5
             /\ s.fun[q] = "p8leaf" => t.pos[s.par[q]] > 2
  <2>1. CASE s.par[q] # p
    BY <1>4, <2>1 DEF Births, Tree
  <2>2. CASE s.par[q] = p /\ p = 1
    BY <1>5, <1>6, <2>2, MainGoes DEF Births, Tree, Kids
  <2>3. CASE s.par[q] = p /\ p # 1
    BY <1>5, <1>6, <2>3 DEF Births, Tree, Kids
  <2> QED BY <2>1, <2>2, <2>3
<1> QED BY <1>1, <1>3, <1>7 DEF Births

LEMMA OnesGoes ==
  ASSUME NEW s, NEW t, NEW p, 1 \in s.live, Tree(s), Ones(s), Frame(s, t, p), Where(s, t, p)
  PROVE  Ones(t)
<1>1. \A F \in Single : One(t, F)
  BY RolesStay DEF Ones, One, Roles
<1>2. Of(t, Pairs) = Of(s, Pairs)
  BY RolesStay DEF Roles
<1>3. \A q \in Of(s, Pairs) : t.fun[q] = s.fun[q] /\ t.par[q] = s.par[q]
  BY DEF Of, Pairs, Frame, Where, On, To, At
<1> QED BY <1>1, <1>2, <1>3 DEF Ones

LEMMA TwoGoes ==
  ASSUME NEW s, NEW t, NEW p, Typed(s), Typed(t), 1 \in s.live, Tree(s), Births(s), Ones(s), Two(s), Three(s),
         Goes(s, t, p)
  PROVE  Two(t) /\ Three(t)
<1> USE DEF Goes
<1>1. Of(t, {"p2"}) = Of(s, {"p2"}) /\ Of(t, {"p3"}) = Of(s, {"p3"})
  BY RolesStay DEF Roles, Single
<1>2. One(s, {"p2"}) /\ One(s, {"p3"})
  BY DEF Ones, Single
<1>3. /\ \A q \in Of(s, {"p2"}) : Main(s) > 4 /\ s.pos[q] \in Nat
                               /\ IF q = p THEN t.pos[q] = s.pos[q] + 1 ELSE t.pos[q] = s.pos[q]
      /\ \A q \in Of(s, {"p3"}) : Main(s) > 9 /\ s.pos[q] \in Nat
                               /\ \/ q = p /\ t.pos[q] = s.pos[q] + 1
                                  \/ q # p /\ t.pos[q] = s.pos[q]
                                  \/ q = p /\ s.pos[q] = 4
  BY DEF Of, Births, Tree, Main, Frame, Where, On, To, At, Typed
<1>4. /\ s.val["endp2"] \in Nat /\ t.val["endp2"] \in Nat
      /\ s.val["endp3"] \in Nat /\ t.val["endp3"] \in Nat
  BY DEF Typed, Counted
<1>5. /\ t.val["endp2"] = s.val["endp2"] + N(At(s, p, "p2", 10)) - N(At(s, p, "test", 7))
      /\ t.val["endp3"] = s.val["endp3"] + N(At(s, p, "p3", 8)) - N(At(s, p, "test", 12))
  BY DEF Effect
<1>6. p # 1 => Main(t) = Main(s)
  BY MainGoes
<1>7. p = 1 => /\ s.fun[p] = "test" /\ s.pos[p] = Main(s)
               /\ \/ Main(t) = Main(s) + 1
                  \/ Main(s) > 24 /\ Main(t) > 24
  BY MainGoes DEF Main
<1>8. Main(s) \in Nat /\ Main(t) \in Nat /\ p \in s.live
  BY MainGoes DEF Frame
<1>9. Two(t)
  <2>1. CASE At(s, p, "p2", 10)
    BY <1>1, <1>2, <1>3, <1>4, <1>5, <1>6, <1>7, <1>8, <2>1 DEF Two, All, One, At, N, Of
  <2>2. CASE ~At(s, p, "p2", 10)
    BY <1>1, <1>3, <1>4, <1>5, <1>6, <1>7, <1>8, <2>2 DEF Two, All, At, N
  <2> QED BY <2>1, <2>2
<1>10. Three(t)
  <2>1. CASE At(s, p, "p3", 8)
    BY <1>1, <1>2, <1>3, <1>4, <1>5, <1>6, <1>7, <1>8, <2>1 DEF Three, All, One, At, N, Of
  <2>2. CASE ~At(s, p, "p3", 8)
    BY <1>1, <1>3, <1>4, <1>5, <1>6, <1>7, <1>8, <2>2 DEF Three, All, At, N
  <2> QED BY <2>1, <2>2
<1> QED BY <1>9, <1>10

LEMMA FourGoes ==
  ASSUME NEW s, NEW t, NEW p, Typed(s), Typed(t), 1 \in s.live, Tree(s), Births(s), Ones(s), Four(s),
         Goes(s, t, p)
  PROVE  Four(t)
<1> USE DEF Goes
<1>0. /\ p \in s.live /\ s.pos[p] \in Nat /\ Main(s) \in Nat /\ Main(t) \in Nat
      /\ s.val["synp4"] \in Nat /\ t.val["synp4"] \in Nat
      /\ s.val["blkp4"] \in Nat /\ t.val["blkp4"] \in Nat
      /\ \A q \in s.live : s.pos[q] \in Nat /\ t.pos[q] \in Nat
  BY MainGoes DEF Typed, Counted, Frame
<1>1. /\ Of(t, {"p4"}) = Of(s, {"p4"}) /\ Of(t, {"p5"}) = Of(s, {"p5"})
      /\ First(t) = First(s) /\ Second(t) = Second(s)
  <2>1. Of(t, {"p4"}) = Of(s, {"p4"}) /\ Of(t, {"p5"}) = Of(s, {"p5"})
    BY RolesStay DEF Roles, Single
  <2> QED BY <2>1 DEF First, Second, Of, Frame
<1>2. /\ First(s) \subseteq s.live /\ Second(s) \subseteq s.live /\ Of(s, {"p5"}) \subseteq s.live
      /\ \A q \in First(s) : Main(s) > 14
      /\ \A q \in Of(s, {"p5"}) : Main(s) > 15
  BY DEF Births, Tree, First, Second, Of, Main
<1>3. /\ t.val["synp4"] = s.val["synp4"] + N(At(s, p, "p4", 3)) - N(At(s, p, "p4", 6))
                                         - N(At(s, p, "p4", 9))
      /\ t.val["blkp4"] = s.val["blkp4"] + 2 * N(At(s, p, "p5", 5)) - N(At(s, p, "p4", 4))
                                         - N(At(s, p, "test", 20))
  BY DEF Effect
<1>4. CASE s.fun[p] \notin {"p4", "p5"}
  <2>1. /\ \A q \in First(s) \cup Second(s) \cup Of(s, {"p5"}) : t.pos[q] = s.pos[q]
        /\ Main(t) <= 14 => Main(s) <= 14
    BY <1>0, <1>4, MainGoes DEF Frame, First, Second, Of
  <2>2. t.val["synp4"] = s.val["synp4"] /\ t.val["blkp4"] <= s.val["blkp4"]
    BY <1>0, <1>3, <1>4 DEF At, N
  <2>3. Syn4(t)
    BY <1>0, <1>1, <1>2, <2>1, <2>2 DEF Four, Syn4
  <2>4. Blk4(t)
    BY <1>0, <1>1, <1>2, <2>1, <2>2 DEF Four, Blk4
  <2>5. Dead4(t)
    BY <1>1, <2>1 DEF Four, Dead4
  <2> QED BY <2>3, <2>4, <2>5 DEF Four
<1>5. CASE s.fun[p] = "p4"
  <2>1. /\ p # 1 /\ t.pos[p] = s.pos[p] + 1 /\ Main(t) = Main(s)
        /\ p \in Of(s, {"p4"})
        /\ \A q \in s.live \ {p} : t.pos[q] = s.pos[q]
    BY <1>5, MainGoes DEF Of, Frame, Where, At, On, To, Tree
  <2>2. /\ s.pos[p] = 3 => t.val["synp4"] = s.val["synp4"] + 1
        /\ s.pos[p] = 6 \/ s.pos[p] = 9 => t.val["synp4"] = s.val["synp4"] - 1
        /\ s.pos[p] \notin {3, 6, 9} => t.val["synp4"] = s.val["synp4"]
        /\ s.pos[p] = 4 => t.val["blkp4"] = s.val["blkp4"] - 1
        /\ s.pos[p] # 4 => t.val["blkp4"] = s.val["blkp4"]
    BY <1>0, <1>3, <1>5 DEF N, At
  <2>3. Dead4(t)
    BY <1>0, <1>1, <2>1 DEF Four, Dead4, Of
  <2>4. CASE p \in First(s)
    <3>1. \A q \in First(s) : q = p
      BY <2>1, <2>4 DEF Ones, First, Of, Pairs
    <3>2. \A q \in Second(s) : q # p /\ s.par[q] = p
      BY <2>1, <2>4, <3>1 DEF Tree, First, Second, Of
    <3>3. \A q \in Second(s) : s.pos[p] > 8 /\ t.pos[q] = s.pos[q]
      BY <1>2, <1>5, <2>1, <3>2 DEF Births, Second, Of, Tree
    <3>4. Blk4(t)
      BY <1>0, <1>1, <1>2, <2>1, <2>2, <2>4, <3>1, <3>3 DEF Four, Blk4
    <3>5. Syn4(t)
      BY <1>0, <1>1, <1>2, <2>1, <2>2, <2>4, <3>1, <3>3 DEF Four, Syn4
    <3> QED BY <2>3, <3>4, <3>5 DEF Four
  <2>5. CASE p \in Second(s)
    <3>1. PICK r \in First(s) : s.par[p] = r /\ \A q \in First(s) : q = r
      BY <2>1, <2>5 DEF Ones, First, Second, Of, Tree, Pairs
    <3>2. \A q \in Second(s) : q = p
      BY <2>1, <2>5, <3>1 DEF Ones, First, Second, Of, Tree, Pairs
    <3>3. s.pos[r] > 8 /\ r # p /\ t.pos[r] = s.pos[r] /\ p \notin First(s)
      BY <1>5, <2>1, <2>5, <3>1 DEF Births, First, Second, Of, Tree
    <3>4. Blk4(t)
      BY <1>0, <1>1, <1>2, <2>1, <2>2, <2>5, <3>1, <3>2, <3>3 DEF Four, Blk4
    <3>5. Syn4(t)
      BY <1>0, <1>1, <1>2, <2>1, <2>2, <2>5, <3>1, <3>2, <3>3 DEF Four, Syn4
    <3> QED BY <2>3, <3>4, <3>5 DEF Four
  <2> QED BY <2>1, <2>4, <2>5 DEF First, Second
<1>6. CASE s.fun[p] = "p5"
  <2>1. /\ p # 1 /\ Main(t) = Main(s) /\ p \in Of(s, {"p5"})
        /\ Of(s, {"p5"}) = {p} /\ Main(s) > 15
        /\ \A q \in First(s) \cup Second(s) : t.pos[q] = s.pos[q]
    BY <1>0, <1>2, <1>6, MainGoes DEF Of, First, Second, Frame, Tree, Ones, One, Single
  <2>2. /\ t.val["synp4"] = s.val["synp4"]
        /\ s.pos[p] # 5 => t.val["blkp4"] = s.val["blkp4"]
    BY <1>0, <1>3, <1>6 DEF N, At
  <2>3. s.pos[p] > 4 \/ t.pos[p] > 4 => Of(s, {"p4"}) = {}
    BY <1>0, <1>6, <2>1 DEF Four, Dead4, Where, At, On, To
  <2>4. Dead4(t)
    BY <1>0, <1>1, <2>1, <2>3 DEF Dead4
  <2>5. Syn4(t)
    BY <1>0, <1>1, <2>1, <2>2 DEF Four, Syn4
  <2>6. Blk4(t)
    <3>1. CASE s.pos[p] = 5
      BY <1>0, <1>1, <2>1, <2>3, <3>1 DEF Blk4, First, Second
    <3>2. CASE s.pos[p] # 5
      BY <1>0, <1>1, <2>1, <2>2, <3>2 DEF Four, Blk4
    <3> QED BY <3>1, <3>2
  <2> QED BY <2>4, <2>5, <2>6 DEF Four
<1> QED BY <1>4, <1>5, <1>6

LEMMA TrapGoes ==
  ASSUME NEW s, NEW t, NEW p, Typed(s), Typed(t), 1 \in s.live, Tree(s), Births(s), Ones(s),
         Frame(s, t, p), Where(s, t, p),
         NEW x \in Counted, NEW n \in {7, 9}, NEW F \in {Fetch, Mm}, NEW f,
         f \in F, f \in {"p5prog_fetch", "p5mm"}, F = Fetch <=> n = 7, F = Fetch <=> f = "p5prog_fetch",
         Trap(s, x, n, F, f),
         t.val[x] = s.val[x] + N(At(s, p, f, 2)) - N(At(s, p, "p5", n))
  PROVE  Trap(t, x, n, F, f)
<1>1. /\ Of(t, F) = Of(s, F) /\ Of(t, {"p5"}) = Of(s, {"p5"})
      /\ \A q, r \in Of(s, F) : q = r
      /\ \A q, r \in Of(s, {"p5"}) : q = r
  BY RolesStay DEF Roles, Single, Ones, One
<1>2. /\ p \in s.live /\ Main(s) \in Nat /\ Main(t) \in Nat
      /\ s.val[x] \in Nat /\ t.val[x] \in Nat
      /\ \A q \in s.live : s.pos[q] \in Nat /\ t.pos[q] \in Nat
      /\ Main(t) <= 15 => Main(s) <= 15
  BY MainGoes DEF Typed, Counted, Frame
<1>3. \A q \in s.live \ {p} : t.pos[q] = s.pos[q] /\ t.fun[q] = s.fun[q]
  BY DEF Frame
<1>4. /\ \A q \in Of(s, F) : /\ q \in s.live /\ s.par[q] \in Of(s, {"p5"})
                             /\ s.pos[s.par[q]] > n - 1 /\ s.fun[q] # "p5"
      /\ \A q \in Of(s, {"p5"}) : q \in s.live /\ Main(s) > 15 /\ s.fun[q] \notin F
  BY DEF Of, Tree, Births, Fetch, Mm, Main
<1>5. CASE p \in Of(s, F)
  <2>1. s.fun[p] = f => t.fun[p] = f /\ t.pos[p] = s.pos[p] + 1
    BY <1>5 DEF Where, On, To, At, Of
  <2>2. t.val[x] = s.val[x] + N(At(s, p, f, 2))
    BY <1>2, <1>4, <1>5 DEF N, At
  <2>3. \A q \in Of(s, {"p5"}) : t.pos[q] = s.pos[q] /\ s.pos[q] > n - 1
    BY <1>1, <1>3, <1>4, <1>5 DEF Of
  <2>4. Main(s) > 15 /\ Main(t) > 15
    BY <1>2, <1>4, <1>5
  <2>5. \A q \in Of(s, F) : q = p
    BY <1>1, <1>5
  <2>6. CASE At(s, p, f, 2)
    BY <1>1, <1>2, <1>5, <2>1, <2>3, <2>4, <2>5, <2>6 DEF Trap, At
  <2>7. CASE ~At(s, p, f, 2)
    <3>1. t.val[x] = s.val[x]
      BY <1>2, <2>2, <2>7 DEF N
    <3> QED BY <1>1, <1>2, <1>5, <2>1, <2>3, <2>4, <2>5, <3>1 DEF Trap
  <2> QED BY <2>6, <2>7
<1>6. CASE p \in Of(s, {"p5"})
  <2>1. t.val[x] = s.val[x] - N(At(s, p, "p5", n))
    BY <1>2, <1>4, <1>6 DEF N, At
  <2>2. \A q \in Of(s, F) : t.pos[q] = s.pos[q] /\ t.fun[q] = s.fun[q]
    BY <1>3, <1>4, <1>6 DEF Of
  <2>3. (t.pos[p] = s.pos[p] + 1 \/ (s.pos[p] = 4 /\ t.pos[p] = 3)) /\ s.fun[p] = "p5"
    BY <1>6 DEF Where, On, To, At, Of
  <2>4. Main(t) > 15
    BY <1>2, <1>4, <1>6
  <2>5. \A q \in Of(s, {"p5"}) : q = p
    BY <1>1, <1>6
  <2>6. t.val[x] > 0 \/ t.pos[p] > n => s.val[x] > 0 \/ s.pos[p] > n
    <3>1. CASE s.pos[p] = n
      BY <1>2, <2>1, <2>3, <3>1 DEF N, At
    <3>2. CASE s.pos[p] # n
      <4>1. t.val[x] = s.val[x]
        BY <1>2, <2>1, <3>2 DEF N, At
      <4> QED BY <1>2, <2>3, <3>2, <4>1
    <3> QED BY <3>1, <3>2
  <2>7. s.pos[p] > n - 1 /\ (s.val[x] > 0 \/ s.pos[p] > n) => t.pos[p] > n - 1
    BY <1>2, <2>3
  <2>8. /\ Main(t) <= 15 => t.val[x] = 0
        /\ \A q \in Of(s, F) : t.pos[q] = s.pos[q] /\ t.fun[q] = s.fun[q]
    BY <2>2, <2>4, <1>2
  <2> QED BY <1>1, <1>6, <2>5, <2>6, <2>7, <2>8 DEF Trap
<1>7. CASE p \notin Of(s, F) \cup Of(s, {"p5"})
  <2>1. t.val[x] = s.val[x]
    BY <1>2, <1>7 DEF N, At, Of
  <2>2. /\ \A q \in Of(s, F) : t.pos[q] = s.pos[q] /\ t.fun[q] = s.fun[q]
        /\ \A q \in Of(s, {"p5"}) : t.pos[q] = s.pos[q]
    BY <1>3, <1>4, <1>7
  <2> QED BY <1>1, <1>2, <2>1, <2>2 DEF Trap
<1> QED BY <1>5, <1>6, <1>7

LEMMA TrapsGo ==
  ASSUME NEW s, NEW t, NEW p, Typed(s), Typed(t), 1 \in s.live, Tree(s), Births(s), Ones(s), Traps(s),
         Goes(s, t, p)
  PROVE  Traps(t)
<1>1. /\ t.val["blkp5a"] = s.val["blkp5a"] + N(At(s, p, "p5prog_fetch", 2)) - N(At(s, p, "p5", 7))
      /\ t.val["blkp5b"] = s.val["blkp5b"] + N(At(s, p, "p5mm", 2)) - N(At(s, p, "p5", 9))
  BY DEF Goes, Effect
<1>2. /\ "blkp5a" \in Counted /\ "blkp5b" \in Counted /\ Fetch # Mm
      /\ "p5prog_fetch" \in Fetch /\ "p5mm" \in Mm
  BY DEF Counted, Fetch, Mm
<1>3. Frame(s, t, p) /\ Where(s, t, p)
  BY DEF Goes
<1>4. Trap(t, "blkp5a", 7, Fetch, "p5prog_fetch")
  BY <1>1, <1>2, <1>3, TrapGoes DEF Traps
<1>5. Trap(t, "blkp5b", 9, Mm, "p5mm")
  BY <1>1, <1>2, <1>3, TrapGoes DEF Traps
<1> QED BY <1>4, <1>5 DEF Traps

LEMMA FiveEndGoes ==
  ASSUME NEW s, NEW t, NEW p, Typed(s), Typed(t), 1 \in s.live, Tree(s), Births(s), Ones(s), FiveEnd(s),
         Four(s), Goes(s, t, p)
  PROVE  FiveEnd(t)
<1> USE DEF Goes
<1>1. /\ Of(t, {"p4"}) = Of(s, {"p4"}) /\ Of(t, {"p5"}) = Of(s, {"p5"})
      /\ \A q, r \in Of(s, {"p5"}) : q = r
  BY RolesStay DEF Roles, Single, Ones, One
<1>2. /\ p \in s.live /\ Main(s) \in Nat /\ Main(t) \in Nat
      /\ s.val["endp5"] \in Nat /\ t.val["endp5"] \in Nat
      /\ \A q \in s.live : s.pos[q] \in Nat /\ t.pos[q] \in Nat
  BY MainGoes DEF Typed, Counted, Frame
<1>3. \A q \in Of(s, {"p5"}) :
        /\ Main(s) > 15 /\ q \in s.live /\ (s.pos[q] > 4 => Of(s, {"p4"}) = {})
        /\ \/ t.pos[q] = s.pos[q]
           \/ q = p /\ t.pos[q] = s.pos[q] + 1
           \/ q = p /\ s.pos[q] = 4
  BY DEF Of, Births, Tree, Main, Frame, Where, On, To, At, Four, Dead4
<1>4. t.val["endp5"] = s.val["endp5"] + N(At(s, p, "p5", 14)) - N(At(s, p, "test", 18))
  BY DEF Effect
<1>5. /\ p # 1 => Main(t) = Main(s) /\ s.fun[p] # "test"
      /\ p = 1 => /\ s.fun[p] = "test" /\ s.pos[p] = Main(s)
                  /\ \/ Main(t) = Main(s) + 1
                     \/ Main(s) > 24 /\ Main(t) > 24
  BY MainGoes DEF Main
<1>6. CASE At(s, p, "p5", 14)
  <2>0. p \in Of(s, {"p5"}) /\ p # 1 /\ s.pos[p] = 14
    BY <1>2, <1>5, <1>6 DEF At, Of
  <2>1. t.pos[p] > 14
    <3>1. On(s, t, p)
      BY <2>0 DEF Where, At, Of
    <3> QED BY <2>0, <3>1 DEF On
  <2>2. \A q \in Of(s, {"p5"}) : q = p
    BY <1>1, <2>0
  <2>3. Main(t) > 15 /\ Of(t, {"p4"}) = {}
    BY <1>1, <1>3, <1>5, <2>0
  <2> QED BY <1>1, <2>0, <2>1, <2>2, <2>3 DEF FiveEnd, All
<1>7. CASE ~At(s, p, "p5", 14)
  <2>1. t.val["endp5"] > 0 \/ Main(t) > 18 => s.val["endp5"] > 0 \/ Main(s) > 18
    BY <1>2, <1>4, <1>5, <1>7 DEF At, N
  <2>2. Main(s) > 15 => Main(t) > 15
    BY <1>2, <1>5
  <2>3. All(s, "p5", 14) => All(t, "p5", 14)
    BY <1>1, <1>2, <1>3 DEF All
  <2> QED BY <1>1, <2>1, <2>2, <2>3 DEF FiveEnd
<1> QED BY <1>6, <1>7

LEMMA SixGoes ==
  ASSUME NEW s, NEW t, NEW p, Typed(s), Typed(t), 1 \in s.live, Tree(s), Births(s), Ones(s), Six(s),
         Goes(s, t, p)
  PROVE  Six(t)
<1> USE DEF Goes
<1>1. /\ Of(t, {"p6"}) = Of(s, {"p6"}) /\ Of(t, {"p7"}) = Of(s, {"p7"})
      /\ \A q, r \in Of(s, {"p6"}) : q = r
      /\ \A q, r \in Of(s, {"p7"}) : q = r
  BY RolesStay DEF Roles, Single, Ones, One
<1>2. /\ p \in s.live /\ Main(s) \in Nat /\ Main(t) \in Nat
      /\ s.val["blkp6"] \in Nat /\ t.val["blkp6"] \in Nat
      /\ s.val["endp6"] \in Nat /\ t.val["endp6"] \in Nat
      /\ \A q \in s.live : s.pos[q] \in Nat /\ t.pos[q] \in Nat
  BY MainGoes DEF Typed, Counted, Frame
<1>3. /\ \A q \in Of(s, {"p6"}) : q \in s.live /\ Main(s) > 16
      /\ \A q \in Of(s, {"p7"}) : q \in s.live /\ Main(s) > 17
      /\ \A q \in Of(s, {"p6"}) \cup Of(s, {"p7"}) :
           t.pos[q] = IF q = p THEN s.pos[q] + 1 ELSE s.pos[q]
  BY DEF Of, Births, Tree, Main, Frame, Where, On, To, At
<1>4. /\ t.val["blkp6"] = s.val["blkp6"] + N(At(s, p, "p7", 3)) + N(At(s, p, "test", 22))
                                         - 2 * N(At(s, p, "p6", 2))
      /\ t.val["endp6"] = s.val["endp6"] + N(At(s, p, "p6", 4)) - N(At(s, p, "test", 23))
  BY DEF Effect
<1>5. /\ p # 1 => Main(t) = Main(s) /\ s.fun[p] # "test"
      /\ p = 1 => /\ s.fun[p] = "test" /\ s.pos[p] = Main(s)
                  /\ \/ Main(t) = Main(s) + 1
                     \/ Main(s) > 24 /\ Main(t) > 24
  BY MainGoes DEF Main
<1>6. All(s, "p7", 3) => All(t, "p7", 3)
  BY <1>1, <1>2, <1>3 DEF All
<1>7. All(s, "p6", 4) => All(t, "p6", 4)
  BY <1>1, <1>2, <1>3 DEF All
<1>8. CASE s.fun[p] \notin {"test", "p6", "p7"}
  BY <1>1, <1>2, <1>3, <1>4, <1>5, <1>6, <1>7, <1>8 DEF Six, N, At, Of
<1>9. CASE s.fun[p] = "test"
  BY <1>1, <1>2, <1>3, <1>4, <1>5, <1>6, <1>7, <1>9 DEF Six, N, At, Of
<1>10. CASE s.fun[p] = "p6"
  BY <1>1, <1>2, <1>3, <1>4, <1>5, <1>6, <1>7, <1>10 DEF Six, N, At, Of, All
<1>11. CASE s.fun[p] = "p7"
  BY <1>1, <1>2, <1>3, <1>4, <1>5, <1>6, <1>7, <1>11 DEF Six, N, At, Of, All
<1> QED BY <1>8, <1>9, <1>10, <1>11

\* p5c with its handlers: what its steps do to the two that share the code.
LEMMA BothStep ==
  ASSUME NEW s, NEW t, NEW p, Typed(s), Frame(s, t, p), Where(s, t, p), p \in Of(s, Both)
  PROVE  /\ p \in s.live /\ s.pos[p] \in Nat \ {0} /\ t.pos[p] \in Nat \ {0} /\ s.fun[p] \in Both /\ t.fun[p] \in Both
         /\ InUser(s, p) => InUser(t, p)
         /\ ~At(s, p, "p5prog_instr", 2) /\ InUser(t, p) => InUser(s, p)
         /\ At(s, p, "p5prog_instr", 2) => InUser(t, p) /\ t.fun[p] = "p5prog_instr"
         /\ Inside(t, p) => Inside(s, p) \/ At(s, p, "p5c", 3)
         /\ At(s, p, "p5prog_instr", 2) => Inside(s, p) /\ ~Inside(t, p)
         /\ At(s, p, "p5c", 3) => ~Inside(s, p)
         /\ s.fun[p] \in Kernel => t.fun[p] \in Kernel
         /\ s.fun[p] \notin Kernel /\ t.fun[p] \in Kernel => At(s, p, "p5c", 4) /\ s.mode > 0
         /\ t.fun[p] = "p5c" => s.fun[p] = "p5c"
         /\ s.fun[p] = "p5c" => t.fun[p] \in {"p5c", "p5c_kernel"} \/ (t.fun[p] = "p5c_user" /\ t.pos[p] = 1 /\ s.mode = 0)
         /\ s.fun[p] = "p5c_kernel" /\ s.pos[p] > 4 => t.fun[p] = "p5c_kernel" /\ t.pos[p] = s.pos[p] + 1
         /\ s.fun[p] = "p5c_user" => t.fun[p] \notin {"p5c"} \cup Kernel
BY DEF Typed, Of, Frame, Where, On, To, At, InUser, Inside, Both, Kernel

LEMMA FiveCFacts ==
  ASSUME NEW s, NEW t, NEW p, Typed(s), Typed(t), 1 \in s.live, Tree(s), Births(s), Ones(s),
         Goes(s, t, p)
  PROVE  /\ Of(t, Both) = Of(s, Both) /\ Of(t, {"p5"}) = Of(s, {"p5"})
         /\ \A q \in Of(s, Both) : /\ s.par[q] \in Of(s, {"p5"}) /\ s.pos[s.par[q]] > 10
                                   /\ Main(s) > 15 /\ q \in s.live /\ q \notin Of(s, {"p5"})
                                   /\ t.par[q] = s.par[q]
         /\ \A q \in Of(s, {"p5"}) : /\ q \in s.live /\ Main(s) > 15
                                     /\ \/ t.pos[q] = s.pos[q]
                                        \/ q = p /\ t.pos[q] = s.pos[q] + 1
                                        \/ q = p /\ s.pos[q] = 4 /\ t.pos[q] = 3
         /\ \A q, r \in Of(s, {"p5"}) : q = r
         /\ \A q \in Of(s, Both) \ {p} : /\ t.fun[q] = s.fun[q] /\ t.pos[q] = s.pos[q]
                                         /\ Inside(t, q) = Inside(s, q)
                                         /\ InUser(t, q) = InUser(s, q)
         /\ s.val["blkp5cint"] \in Nat /\ t.val["blkp5cint"] \in Nat
         /\ s.val["blkp5c"] \in Nat /\ t.val["blkp5c"] \in Nat
         /\ s.mode \in Nat /\ t.mode \in Nat
         /\ \A q \in s.live : s.pos[q] \in Nat /\ t.pos[q] \in Nat
         /\ Main(s) \in Nat /\ Main(t) \in Nat /\ (Main(s) > 15 => Main(t) > 15)
         /\ p \in s.live
<1> USE DEF Goes
<1>1. /\ Of(t, Both) = Of(s, Both) /\ Of(t, {"p5"}) = Of(s, {"p5"})
      /\ \A q, r \in Of(s, {"p5"}) : q = r
  BY RolesStay DEF Roles, Single, Ones, One
<1>2. \A q \in Of(s, Both) : /\ s.par[q] \in Of(s, {"p5"}) /\ s.pos[s.par[q]] > 10
                             /\ q \in s.live /\ q \notin Of(s, {"p5"})
                             /\ t.par[q] = s.par[q]
  BY DEF Of, Tree, Births, Both, Kernel, Frame
<1>3. \A q \in Of(s, {"p5"}) : /\ q \in s.live /\ Main(s) > 15
                               /\ \/ t.pos[q] = s.pos[q]
                                  \/ q = p /\ t.pos[q] = s.pos[q] + 1
                                  \/ q = p /\ s.pos[q] = 4 /\ t.pos[q] = 3
  BY DEF Of, Tree, Births, Main, Frame, Where, On, To, At
<1>4. \A q \in Of(s, Both) \ {p} : /\ t.fun[q] = s.fun[q] /\ t.pos[q] = s.pos[q]
                                   /\ Inside(t, q) = Inside(s, q)
                                   /\ InUser(t, q) = InUser(s, q)
  BY <1>2 DEF Frame, Inside, InUser
<1>5. /\ s.val["blkp5cint"] \in Nat /\ t.val["blkp5cint"] \in Nat
      /\ s.val["blkp5c"] \in Nat /\ t.val["blkp5c"] \in Nat
      /\ s.mode \in Nat /\ t.mode \in Nat
  BY DEF Typed, Counted
<1>6. /\ \A q \in s.live : s.pos[q] \in Nat /\ t.pos[q] \in Nat
      /\ Main(s) \in Nat /\ Main(t) \in Nat /\ (Main(s) > 15 => Main(t) > 15)
      /\ p \in s.live
  BY MainGoes DEF Typed, Frame
<1> QED BY <1>1, <1>2, <1>3, <1>4, <1>5, <1>6

LEMMA CintGoes ==
  ASSUME NEW s, NEW t, NEW p, Typed(s), Typed(t), 1 \in s.live, Tree(s), Births(s), Ones(s),
         Goes(s, t, p), Cint(s)
  PROVE  Cint(t)
<1>1. t.val["blkp5cint"] = s.val["blkp5cint"] + N(At(s, p, "p5prog_instr", 2)) - N(At(s, p, "p5c", 3))
  BY DEF Goes, Effect
<1>2. /\ \A q, r, u \in Of(t, Both) : q = r \/ r = u \/ q = u
      /\ \A q \in Of(t, {"p5"}) : t.pos[q] <= 11 => One(t, Both)
  BY FiveCFacts DEF Cint, One
<1>3. CASE p \notin Of(s, Both)
  <2>1. t.val["blkp5cint"] = s.val["blkp5cint"]
    BY <1>1, <1>3, FiveCFacts DEF N, At, Of, Both
  <2> QED BY <1>2, <1>3, <2>1, FiveCFacts DEF Cint
<1>4. CASE p \in Of(s, Both)
  <2>1. /\ Inside(t, p) => Inside(s, p) \/ At(s, p, "p5c", 3)
        /\ At(s, p, "p5prog_instr", 2) => Inside(s, p) /\ ~Inside(t, p)
        /\ At(s, p, "p5c", 3) => ~Inside(s, p)
    BY <1>4, BothStep DEF Goes
  <2>2. CASE At(s, p, "p5c", 3)
    <3>1. s.val["blkp5cint"] = 1 /\ t.val["blkp5cint"] = 0
      BY <1>1, <2>2, FiveCFacts DEF Cint, N, At
    <3>2. \A q \in Of(s, Both) : ~Inside(s, q)
      BY <3>1, <1>4 DEF Cint
    <3> QED BY <1>2, <3>1, <3>2, FiveCFacts DEF Cint
  <2>3. CASE At(s, p, "p5prog_instr", 2)
    <3>1. t.val["blkp5cint"] = 1 /\ \A q \in Of(s, Both) : Inside(s, q) => p = q
      BY <1>1, <1>4, <2>1, <2>3, FiveCFacts DEF Cint, N, At
    <3> QED BY <1>2, <2>1, <2>3, <3>1, FiveCFacts DEF Cint
  <2>4. CASE ~At(s, p, "p5c", 3) /\ ~At(s, p, "p5prog_instr", 2)
    <3>1. t.val["blkp5cint"] = s.val["blkp5cint"]
      BY <1>1, <2>4, FiveCFacts DEF N
    <3>2. \A q \in Of(s, Both) : Inside(t, q) => Inside(s, q)
      BY <2>1, <2>4, FiveCFacts
    <3> QED BY <1>2, <3>1, <3>2, FiveCFacts DEF Cint
  <2> QED BY <2>2, <2>3, <2>4
<1> QED BY <1>3, <1>4

LEMMA ModeGoes ==
  ASSUME NEW s, NEW t, NEW p, Typed(s), Typed(t), 1 \in s.live, Tree(s), Births(s), Ones(s),
         Goes(s, t, p), Cint(s), Mode(s)
  PROVE  Mode(t)
<1>1. t.mode = s.mode + N(At(s, p, "p5c_user", 1))
  BY DEF Goes, Effect
<1>2. Frame(s, t, p) /\ Where(s, t, p)
  BY DEF Goes
<1>3. CASE t.mode = 0
  <2>1. s.mode = 0 /\ ~At(s, p, "p5c_user", 1)
    BY <1>1, <1>3, FiveCFacts DEF N
  <2>2. p \in Of(s, Both) => t.fun[p] = "p5c" \/ (t.fun[p] = "p5c_user" /\ t.pos[p] = 1)
    BY <2>1, <1>2, BothStep DEF Mode, Of, At, Where, On, To, Typed
  <2> QED BY <1>3, <2>1, <2>2, FiveCFacts DEF Mode
<1>4. CASE s.mode > 0
  <2>1. NotUser(t) \subseteq NotUser(s)
    <3>1. p \in Of(s, Both) /\ t.fun[p] \in {"p5c"} \cup Kernel => s.fun[p] \in {"p5c"} \cup Kernel
      BY <1>2, BothStep DEF At
    <3>2. NotUser(t) \subseteq Of(t, Both) /\ \A q \in Of(s, Both) : s.fun[q] \in {"p5c"} \cup Kernel => q \in NotUser(s)
      BY DEF NotUser, Of, Both, Kernel
    <3>3. \A q \in NotUser(t) : t.fun[q] \in {"p5c"} \cup Kernel
      BY DEF NotUser, Of
    <3> QED BY <3>1, <3>2, <3>3, FiveCFacts
  <2> QED BY <1>3, <1>4, <2>1, FiveCFacts DEF Mode
<1>5. CASE t.mode > 0 /\ s.mode = 0
  <2>1. At(s, p, "p5c_user", 1) /\ p \in Of(s, Both)
    BY <1>1, <1>5, <1>2, FiveCFacts DEF N, Of, At, Both, Frame
  <2>2. t.fun[p] \notin {"p5c"} \cup Kernel
    BY <1>2, <2>1, BothStep DEF At
  <2>3. \A q \in NotUser(t) : q \in Of(s, Both) /\ q # p
    BY <2>2, FiveCFacts DEF NotUser, Of, Both, Kernel
  <2>4. \A q, r \in NotUser(t) : q = r
    BY <2>1, <2>3 DEF Cint
  <2>5. \A r \in Of(s, {"p5"}) : r = s.par[p] /\ r # p /\ s.pos[r] > 10 /\ t.pos[r] = s.pos[r]
    BY <2>1, FiveCFacts
  <2>6. \A r \in Of(s, {"p5"}) : s.pos[r] = 11 => NotUser(t) = {}
    BY <2>1, <2>3, FiveCFacts DEF Cint, One
  <2> QED BY <1>5, <2>1, <2>4, <2>5, <2>6, FiveCFacts DEF Mode
<1> QED BY <1>3, <1>4, <1>5, FiveCFacts

LEMMA LastGoes ==
  ASSUME NEW s, NEW t, NEW p, Typed(s), Typed(t), 1 \in s.live, Tree(s), Births(s), Ones(s),
         Goes(s, t, p), Cint(s), Mode(s), Last5(s)
  PROVE  Last5(t)
<1>1. t.val["blkp5c"] = s.val["blkp5c"] + N(At(s, p, "p5c_kernel", 5)) - N(At(s, p, "p5", 12))
  BY DEF Goes, Effect
<1>2. Frame(s, t, p) /\ Where(s, t, p)
  BY DEF Goes
<1>3. /\ \A q \in Of(s, Kernel) : q \in Of(s, Both)
      /\ \A q \in Of(t, Kernel) : q \in Of(s, Both) /\ t.fun[q] \in Kernel
  BY FiveCFacts DEF Of, Both, Kernel
<1>4. \A q \in Of(s, Both) : InUser(s, q) => InUser(t, q)
  BY <1>2, BothStep, FiveCFacts
<1>5. ASSUME NEW q \in Of(t, Kernel)
      PROVE  /\ t.pos[t.par[q]] > 11
             /\ \A r \in Of(t, Both) : q = r \/ InUser(t, r)
  <2>1. CASE q \in Of(s, Kernel)
    <3>1. /\ s.pos[s.par[q]] > 11
          /\ \A r \in Of(s, Both) : q = r \/ InUser(s, r)
      BY <2>1 DEF Last5
    <3> QED BY <1>3, <1>4, <2>1, <3>1, FiveCFacts
  <2>2. CASE q \notin Of(s, Kernel)
    <3>1. q = p /\ At(s, p, "p5c", 4) /\ s.mode > 0 /\ p \in Of(s, Both) /\ p \in NotUser(s)
      <4>1. q \in Of(s, Both) /\ t.fun[q] \in Kernel /\ s.fun[q] \notin Kernel
        BY <1>3, <2>2, FiveCFacts DEF Of
      <4>2. q = p
        BY <4>1, FiveCFacts
      <4> QED BY <1>2, <4>1, <4>2, BothStep DEF NotUser, At, Of
    <3>2. s.pos[s.par[p]] > 11 /\ s.par[p] # p /\ t.pos[s.par[p]] = s.pos[s.par[p]]
      BY <3>1, FiveCFacts DEF Mode
    <3>3. Inside(s, p)
      BY <3>1 DEF At, Inside
    <3>4. ASSUME NEW r \in Of(s, Both), r # p
          PROVE  InUser(s, r)
      <4>1. ~Inside(s, r) /\ r \notin NotUser(s)
        BY <3>1, <3>3, <3>4 DEF Cint, Mode
      <4> QED BY <4>1 DEF Inside, NotUser, Of
    <3> QED BY <1>4, <3>1, <3>2, <3>4, FiveCFacts
  <2> QED BY <2>1, <2>2
<1>6. CASE At(s, p, "p5c_kernel", 5)
  <2>1. p \in Of(s, Kernel) /\ p \in Of(s, Both)
    BY <1>3, <1>6, FiveCFacts DEF At, Kernel, Of
  <2>2. /\ s.pos[s.par[p]] > 11 /\ s.par[p] # p
        /\ \A r \in Of(s, Both) : p = r \/ InUser(t, r)
    BY <1>4, <2>1, FiveCFacts DEF Last5
  <2>3. t.fun[p] = "p5c_kernel" /\ t.pos[p] > 5
    BY <1>2, <1>6, <2>1, BothStep DEF At
  <2>4. \A r \in Of(s, {"p5"}) : r = s.par[p] /\ t.pos[r] = s.pos[r]
    BY <2>1, <2>2, FiveCFacts
  <2>5. Main(t) > 15
    BY <2>1, FiveCFacts
  <2> QED BY <1>5, <2>2, <2>3, <2>4, <2>5, FiveCFacts DEF Last5
<1>7. CASE ~At(s, p, "p5c_kernel", 5)
  <2>1. t.val["blkp5c"] = s.val["blkp5c"] - N(At(s, p, "p5", 12))
    BY <1>1, <1>7, FiveCFacts DEF N
  <2>2. \A q \in Of(s, {"p5"}) :
          /\ t.val["blkp5c"] > 0 \/ t.pos[q] > 12 => s.val["blkp5c"] > 0 \/ s.pos[q] > 12
          /\ s.pos[q] > 11 => t.pos[q] > 11
    BY <2>1, FiveCFacts DEF N, At, Of
  <2>3. \A q \in Of(s, Both) : s.fun[q] = "p5c_kernel" /\ s.pos[q] > 5 => t.fun[q] = "p5c_kernel" /\ t.pos[q] > 5
    BY <1>2, BothStep, FiveCFacts
  <2>4. Main(t) <= 15 => t.val["blkp5c"] = 0
    BY <2>1, FiveCFacts, MainGoes, <1>2 DEF Last5, N
  <2> QED BY <1>4, <1>5, <2>2, <2>3, <2>4, FiveCFacts DEF Last5
<1> QED BY <1>6, <1>7

\* The leaves of one child of r.
Brood(s, r, f) == {p \in Leaves(s, r) : s.fun[s.par[p]] = f}

LEMMA BroodLimit ==
  ASSUME NEW s, IsFiniteSet(s.live), Typed(s), 1 \in s.live, Tree(s), Ones(s), Counts(s),
         NEW r, NEW f \in Kids
  PROVE  /\ IsFiniteSet(Brood(s, r, f)) /\ Cardinality(Brood(s, r, f)) \in Nat
         /\ Cardinality(Brood(s, r, f)) <= 2
         /\ \A c \in Of(s, Kids) : s.fun[c] = f /\ s.par[c] = r /\ s.pos[c] <= 4 =>
              Cardinality(Brood(s, r, f)) <= 1
<1>1. Brood(s, r, f) \in SUBSET s.live
  BY DEF Brood, Leaves, Of
<1>2. IsFiniteSet(Brood(s, r, f)) /\ Cardinality(Brood(s, r, f)) \in Nat
  BY <1>1, FS_Subset, FS_CardinalityType
<1>3. CASE Brood(s, r, f) = {}
  BY <1>2, <1>3, FS_EmptySet
<1>4. CASE Brood(s, r, f) # {}
  <2> PICK q \in Brood(s, r, f) : TRUE
    BY <1>4
  <2> DEFINE c == s.par[q]
  <2>1. q \in Of(s, {"p8leaf"}) /\ q # 1 /\ s.par[c] = r /\ s.fun[c] = f /\ c \in s.live
    BY DEF Brood, Leaves, Of, Tree
  <2>2. c \in Of(s, Kids) /\ c \in Of(s, Pairs)
    BY <2>1 DEF Of, Kids, Pairs
  <2>3. \A d \in Of(s, Pairs) : s.fun[d] = f /\ s.par[d] = r => d = c
    BY <2>1, <2>2 DEF Ones
  <2>4. \A d \in Of(s, Kids) : d \in Of(s, Pairs)
    BY DEF Of, Kids, Pairs
  <2>5. \A p \in Brood(s, r, f) : p \in Kin(s, c)
    <3> SUFFICES ASSUME NEW p \in Brood(s, r, f) PROVE p \in Kin(s, c)
      OBVIOUS
    <3>1. p \in Of(s, {"p8leaf"}) /\ p # 1 /\ s.par[s.par[p]] = r /\ s.fun[s.par[p]] = f /\ s.par[p] \in s.live
      BY DEF Brood, Leaves, Of, Tree
    <3>2. s.par[p] \in Of(s, Pairs)
      BY <3>1 DEF Of, Kids, Pairs
    <3> QED BY <3>1, <3>2, <2>3 DEF Kin
  <2>6. IsFiniteSet(Kin(s, c)) /\ Cardinality(Kin(s, c)) \in Nat
    <3>1. Kin(s, c) \in SUBSET s.live
      BY DEF Kin, Of
    <3> QED BY <3>1, FS_Subset, FS_CardinalityType
  <2>7. Cardinality(Brood(s, r, f)) <= Cardinality(Kin(s, c))
    <3>1. Brood(s, r, f) \in SUBSET Kin(s, c)
      BY <2>5
    <3> QED BY <3>1, <2>6, FS_Subset
  <2>8. Cardinality(Kin(s, c)) <= Made(s.pos[c])
    BY <2>2 DEF Counts
  <2>9. s.pos[c] \in Nat
    BY <2>1 DEF Typed
  <2>10. Made(s.pos[c]) <= 2 /\ Made(s.pos[c]) \in Nat /\ (s.pos[c] <= 4 => Made(s.pos[c]) <= 1)
    BY <2>9 DEF Made
  <2>11. \A d \in Of(s, Kids) : s.fun[d] = f /\ s.par[d] = r => d = c
    BY <2>3, <2>4
  <2> QED BY <1>2, <2>6, <2>7, <2>8, <2>10, <2>11
<1> QED BY <1>3, <1>4

LEMMA LeavesLimit ==
  ASSUME NEW s, IsFiniteSet(s.live), Typed(s), 1 \in s.live, Tree(s), Ones(s), Counts(s), NEW r
  PROVE  /\ IsFiniteSet(Leaves(s, r)) /\ Cardinality(Leaves(s, r)) \in Nat
         /\ Cardinality(Leaves(s, r)) <= 4
         /\ \A c \in Of(s, Kids) : s.par[c] = r /\ s.pos[c] <= 4 => Cardinality(Leaves(s, r)) <= 3
<1>1. Leaves(s, r) = Brood(s, r, "child1") \cup Brood(s, r, "child2")
  <2>1. \A p \in Leaves(s, r) : s.fun[s.par[p]] \in Kids
    BY DEF Leaves, Of, Tree
  <2> QED BY <2>1 DEF Brood, Kids
<1>2. "child1" \in Kids /\ "child2" \in Kids
  BY DEF Kids
<1> DEFINE A == Brood(s, r, "child1")
           B == Brood(s, r, "child2")
<1>3. /\ IsFiniteSet(A) /\ Cardinality(A) \in Nat /\ Cardinality(A) <= 2
      /\ \A c \in Of(s, Kids) : s.fun[c] = "child1" /\ s.par[c] = r /\ s.pos[c] <= 4 =>
           Cardinality(A) <= 1
  BY <1>2, BroodLimit
<1>4. /\ IsFiniteSet(B) /\ Cardinality(B) \in Nat /\ Cardinality(B) <= 2
      /\ \A c \in Of(s, Kids) : s.fun[c] = "child2" /\ s.par[c] = r /\ s.pos[c] <= 4 =>
           Cardinality(B) <= 1
  BY <1>2, BroodLimit
<1> HIDE DEF A, B
<1>5. /\ IsFiniteSet(A \cup B) /\ Cardinality(A \cup B) \in Nat
      /\ Cardinality(A \cup B) <= Cardinality(A) + Cardinality(B)
  <2>1. /\ IsFiniteSet(A \cup B)
        /\ Cardinality(A \cup B) = Cardinality(A) + Cardinality(B) - Cardinality(A \cap B)
    BY <1>3, <1>4, FS_Union
  <2>2. Cardinality(A \cup B) \in Nat /\ Cardinality(A \cap B) \in Nat
    BY <1>3, <2>1, FS_Intersection, FS_CardinalityType
  <2> QED BY <1>3, <1>4, <2>1, <2>2
<1>6. \A c \in Of(s, Kids) : s.fun[c] = "child1" \/ s.fun[c] = "child2"
  BY DEF Of, Kids
<1>7. Leaves(s, r) = A \cup B
  BY <1>1 DEF A, B
<1> QED BY <1>3, <1>4, <1>5, <1>6, <1>7

LEMMA SignedLimit ==
  ASSUME NEW s, IsFiniteSet(s.live), Typed(s), 1 \in s.live, Tree(s), Ones(s), Counts(s), NEW r
  PROVE  /\ Cardinality(Signed(s, r)) \in Nat /\ Cardinality(Signed(s, r)) <= 4
         /\ \A c \in Of(s, Kids) : s.par[c] = r /\ s.pos[c] <= 4 => Cardinality(Signed(s, r)) <= 3
         /\ \A q \in Leaves(s, r) : s.pos[q] <= 2 => Cardinality(Signed(s, r)) <= 3
<1>1. /\ IsFiniteSet(Leaves(s, r)) /\ Cardinality(Leaves(s, r)) \in Nat
      /\ Cardinality(Leaves(s, r)) <= 4
      /\ \A c \in Of(s, Kids) : s.par[c] = r /\ s.pos[c] <= 4 => Cardinality(Leaves(s, r)) <= 3
  BY LeavesLimit
<1>2. Signed(s, r) \in SUBSET Leaves(s, r)
  BY DEF Signed
<1>3. /\ IsFiniteSet(Signed(s, r)) /\ Cardinality(Signed(s, r)) \in Nat
      /\ Cardinality(Signed(s, r)) <= Cardinality(Leaves(s, r))
  BY <1>1, <1>2, FS_Subset, FS_CardinalityType
<1>4. ASSUME NEW q \in Leaves(s, r), s.pos[q] <= 2 PROVE Cardinality(Signed(s, r)) <= 3
  <2>1. s.pos[q] \in Nat
    BY DEF Leaves, Of, Typed
  <2>2. q \notin Signed(s, r)
    BY <1>4, <2>1 DEF Signed
  <2>3. Signed(s, r) \in SUBSET (Leaves(s, r) \ {q})
    BY <1>2, <2>2
  <2>4. IsFiniteSet(Leaves(s, r) \ {q}) /\ Cardinality(Leaves(s, r) \ {q}) = Cardinality(Leaves(s, r)) - 1
    BY <1>1, FS_RemoveElement
  <2>5. Cardinality(Signed(s, r)) <= Cardinality(Leaves(s, r) \ {q})
    BY <2>3, <2>4, FS_Subset
  <2> QED BY <1>1, <1>3, <2>4, <2>5
<1> QED BY <1>1, <1>3, <1>4

LEMMA EightFacts ==
  ASSUME NEW s, NEW t, NEW p, Typed(s), Typed(t), 1 \in s.live, Tree(s), Births(s), Ones(s),
         Goes(s, t, p)
  PROVE  /\ \A F \in {{"p8root"}, Kids, {"p8leaf"}} : Of(t, F) = Of(s, F)
         /\ \A q \in s.live : /\ t.par[q] = s.par[q] /\ s.pos[q] \in Nat \ {0} /\ t.pos[q] \in Nat \ {0}
                              /\ (q # p => t.pos[q] = s.pos[q] /\ t.fun[q] = s.fun[q])
         /\ p \in s.live
         /\ s.fun[p] \in Family => t.pos[p] = s.pos[p] + 1 /\ t.fun[p] = s.fun[p]
         /\ \A q \in Of(s, Kids) : s.par[q] \in Of(s, {"p8root"}) /\ q # 1
         /\ \A q \in Of(s, {"p8leaf"}) : /\ s.par[q] \in Of(s, Kids) /\ q # 1
                                         /\ s.par[s.par[q]] \in Of(s, {"p8root"})
<1>1. \A F \in {{"p8root"}, Kids, {"p8leaf"}} : Of(t, F) = Of(s, F)
  BY RolesStay DEF Roles, Goes
<1>2. \A q \in s.live : /\ t.par[q] = s.par[q] /\ s.pos[q] \in Nat \ {0} /\ t.pos[q] \in Nat \ {0}
                        /\ (q # p => t.pos[q] = s.pos[q] /\ t.fun[q] = s.fun[q])
  BY DEF Goes, Frame, Typed
<1>3. p \in s.live
  BY DEF Goes, Frame
<1>4. s.fun[p] \in Family => t.pos[p] = s.pos[p] + 1 /\ t.fun[p] = s.fun[p]
  BY DEF Goes, Where, On, At, Family
<1>5. \A q \in Of(s, Kids) : s.par[q] \in Of(s, {"p8root"}) /\ q # 1
  BY DEF Of, Kids, Tree
<1>6. \A q \in Of(s, {"p8leaf"}) : /\ s.par[q] \in Of(s, Kids) /\ q # 1
  BY DEF Of, Kids, Tree
<1> QED BY <1>1, <1>2, <1>3, <1>4, <1>5, <1>6

LEMMA RootGoes ==
  ASSUME NEW s, NEW t, NEW p, Typed(s), Typed(t), 1 \in s.live, Tree(s), Births(s), Ones(s),
         Goes(s, t, p), Root(s)
  PROVE  Root(t)
<1>1. t.val["endp8"]  = s.val["endp8"] + N(At(s, p, "p8root", 12)) - N(At(s, p, "test", 30))
  BY DEF Goes, Effect
<1>2. s.val["endp8"] \in Nat /\ t.val["endp8"] \in Nat
  BY DEF Typed, Counted
<1>3. /\ p = 1 <=> s.fun[p] = "test"
      /\ p # 1 => Main(t) = Main(s)
      /\ p = 1 => \/ Main(t) = Main(s) + 1
                  \/ Main(s) = 33 /\ Main(t) = 32
                  \/ Main(s) = 36 /\ Main(t) = 25
      /\ Main(s) \in Nat
  BY MainGoes DEF Goes
<1>4. Young(t) = Young(s) \ {q \in {p} : At(s, p, "p8root", 12)}
  BY EightFacts DEF Young, At, Of, Family
<1>5. At(s, p, "p8root", 12) => p \in Young(s)
  BY EightFacts DEF Young, At, Of
<1>6. At(s, p, "test", 30) <=> p = 1 /\ Main(s) = 30
  BY <1>3 DEF At, Main
<1>7. ~(At(s, p, "test", 30) /\ At(s, p, "p8root", 12))
  BY DEF At
<1>8. CASE At(s, p, "p8root", 12)
  <2>1. Young(s) = {p} /\ Young(t) = {} /\ p # 1
    BY <1>3, <1>4, <1>5, <1>8 DEF Root, At
  <2>2. t.val["endp8"] = 1
    BY <1>1, <1>2, <1>7, <1>8, <2>1 DEF N, Root
  <2> QED BY <1>3, <2>1, <2>2 DEF Root
<1>9. CASE ~At(s, p, "p8root", 12)
  <2>1. Young(s) = Young(t)
    BY <1>4, <1>9
  <2>2. t.val["endp8"] = s.val["endp8"] - N(At(s, p, "test", 30))
    BY <1>1, <1>2, <1>9 DEF N
  <2> QED BY <1>2, <1>3, <1>6, <2>1, <2>2 DEF Root, N
<1> QED BY <1>8, <1>9

LEMMA GrownGoes ==
  ASSUME NEW s, NEW t, NEW p, Typed(s), Typed(t), 1 \in s.live, Tree(s), Births(s), Ones(s),
         IsFiniteSet(s.live), Goes(s, t, p), Root(s), Grown(s), Counts(s)
  PROVE  Grown(t)
<1>1. CASE ~At(s, p, "p8root", 6)
  <2>1. \A q \in Of(s, Kids) : t.pos[q] <= 4 => t.pos[s.par[q]] <= 6
    BY <1>1, EightFacts DEF Grown, Of, At, Kids, Family
  <2>2. \A q \in Of(s, {"p8leaf"}) : t.pos[q] <= 2 => t.pos[s.par[s.par[q]]] <= 6
    BY <1>1, EightFacts DEF Grown, Of, At, Family
  <2>3. \A q \in Of(s, Kids) : t.par[q] = s.par[q]
    BY EightFacts DEF Of
  <2>4. \A q \in Of(s, {"p8leaf"}) : t.par[t.par[q]] = s.par[s.par[q]]
    BY EightFacts DEF Of
  <2> QED BY EightFacts, <2>1, <2>2, <2>3, <2>4 DEF Grown
<1>2. CASE At(s, p, "p8root", 6)
  <2>1. t.val["endcreate"] = s.val["endcreate"] + N(At(s, p, "p8leaf", 2)) - 4 * N(At(s, p, "p8root", 6))
    BY DEF Goes, Effect
  <2>2. s.val["endcreate"] \in Nat /\ t.val["endcreate"] \in Nat
    BY DEF Typed, Counted
  <2>3. s.val["endcreate"] >= 4
    BY <1>2, <2>1, <2>2 DEF N, At
  <2>4. Cardinality(Signed(s, p)) >= 4
    <3>1. p \in Young(s)
      BY <1>2, EightFacts DEF Young, Of, At
    <3>2. Cardinality(Signed(s, p)) \in Nat
      BY SignedLimit
    <3> QED BY <3>1, <3>2, <2>2, <2>3 DEF Counts, Root
  <2>5. \A c \in Of(s, Kids) : s.par[c] = p => s.pos[c] > 4
    <3> SUFFICES ASSUME NEW c \in Of(s, Kids), s.par[c] = p, ~(s.pos[c] > 4) PROVE FALSE
      OBVIOUS
    <3>1. s.pos[c] <= 4
      BY EightFacts DEF Of
    <3> QED BY <3>1, <2>4, SignedLimit
  <2>6. \A q \in Of(s, {"p8leaf"}) : s.par[s.par[q]] = p => s.pos[q] > 2
    <3> SUFFICES ASSUME NEW q \in Of(s, {"p8leaf"}), s.par[s.par[q]] = p, ~(s.pos[q] > 2) PROVE FALSE
      OBVIOUS
    <3>1. s.pos[q] <= 2 /\ q \in Leaves(s, p)
      BY EightFacts DEF Of, Leaves
    <3> QED BY <3>1, <2>4, SignedLimit
  <2>7. \A q \in Of(s, Kids) \cup Of(s, {"p8leaf"}) : q # p /\ q \in s.live
    BY <1>2 DEF Of, At, Kids
  <2>8. \A q \in Of(s, Kids) \cup Of(s, {"p8leaf"}) : t.par[q] = s.par[q] /\ t.pos[q] = s.pos[q] /\ s.pos[q] \in Nat
    BY <2>7, EightFacts
  <2>9. \A q \in Of(s, {"p8root"}) : q # p => t.pos[q] = s.pos[q]
    BY EightFacts DEF Of
  <2>10. \A q \in Of(s, Kids) : t.pos[q] <= 4 => t.pos[t.par[q]] <= 6
    BY <2>5, <2>8, <2>9, EightFacts DEF Grown
  <2>11. \A q \in Of(s, {"p8leaf"}) : t.pos[q] <= 2 => t.pos[t.par[t.par[q]]] <= 6
    BY <2>6, <2>8, <2>9, EightFacts DEF Grown
  <2> QED BY <2>10, <2>11, EightFacts DEF Grown
<1> QED BY <1>1, <1>2

LEMMA CountsGo ==
  ASSUME NEW s, NEW t, NEW p, Typed(s), Typed(t), 1 \in s.live, Tree(s), Births(s), Ones(s),
         IsFiniteSet(s.live), Goes(s, t, p), Root(s), Grown(s), Counts(s)
  PROVE  Counts(t)
<1>0. /\ Of(t, {"p8leaf"}) = Of(s, {"p8leaf"}) /\ Of(t, Kids) = Of(s, Kids)
      /\ Of(t, {"p8root"}) = Of(s, {"p8root"})
  BY EightFacts
<1>1. ASSUME NEW c \in Of(t, Kids) PROVE Cardinality(Kin(t, c)) <= Made(t.pos[c])
  <2>1. c \in Of(s, Kids) /\ c \in s.live
    BY <1>0, <1>1 DEF Of
  <2>2. Kin(t, c) = Kin(s, c)
    <3>1. \A q \in Of(s, {"p8leaf"}) : t.par[q] = s.par[q]
      BY EightFacts DEF Of
    <3> QED BY <1>0, <3>1 DEF Kin
  <2>3. /\ s.pos[c] \in Nat /\ t.pos[c] \in Nat /\ t.pos[c] >= s.pos[c]
    BY <2>1, EightFacts DEF Of, Kids, Family
  <2>4. Made(s.pos[c]) \in Nat /\ Made(t.pos[c]) \in Nat /\ Made(s.pos[c]) <= Made(t.pos[c])
    BY <2>3 DEF Made
  <2>5. Cardinality(Kin(s, c)) \in Nat
    <3>1. Kin(s, c) \in SUBSET s.live
      BY DEF Kin, Of
    <3> QED BY <3>1, FS_Subset, FS_CardinalityType
  <2> QED BY <2>1, <2>2, <2>4, <2>5 DEF Counts
<1>2. t.val["endcreate"] = s.val["endcreate"] + N(At(s, p, "p8leaf", 2)) - 4 * N(At(s, p, "p8root", 6))
  BY DEF Goes, Effect
<1>3. s.val["endcreate"] \in Nat /\ t.val["endcreate"] \in Nat
  BY DEF Typed, Counted
<1>4. \A r : /\ Signed(s, r) \subseteq s.live
             /\ Signed(t, r) = Signed(s, r) \cup {q \in {p} : At(s, p, "p8leaf", 2) /\ s.par[s.par[p]] = r}
  <2>1. \A q \in Of(s, {"p8leaf"}) : t.par[t.par[q]] = s.par[s.par[q]] /\ q \in s.live
    BY EightFacts DEF Of
  <2>2. \A r : Leaves(t, r) = Leaves(s, r) /\ Leaves(s, r) \subseteq Of(s, {"p8leaf"})
    BY <1>0, <2>1 DEF Leaves
  <2>3. \A q \in Of(s, {"p8leaf"}) : t.pos[q] > 2 <=> s.pos[q] > 2 \/ (q = p /\ At(s, p, "p8leaf", 2))
    BY EightFacts DEF Of, At, Family
  <2>4. At(s, p, "p8leaf", 2) => p \in Of(s, {"p8leaf"})
    BY EightFacts DEF Of, At
  <2>5. \A r : Signed(s, r) \subseteq s.live
    BY DEF Signed, Leaves, Of
  <2>6. ASSUME NEW r PROVE Signed(t, r) = Signed(s, r) \cup {q \in {p} : At(s, p, "p8leaf", 2) /\ s.par[s.par[p]] = r}
    <3>1. At(s, p, "p8leaf", 2) /\ s.par[s.par[p]] = r => p \in Leaves(s, r)
      BY <2>4 DEF Leaves
    <3>2. \A q \in Leaves(s, r) : t.pos[q] > 2 <=> s.pos[q] > 2 \/ (q = p /\ At(s, p, "p8leaf", 2))
      BY <2>2, <2>3
    <3>3. \A q \in Leaves(s, r) : s.par[s.par[q]] = r
      BY DEF Leaves
    <3> QED BY <2>2, <3>1, <3>2, <3>3 DEF Signed
  <2> QED BY <2>5, <2>6
<1>5. ASSUME t.val["endcreate"] > 0
      PROVE  \E r \in Young(t) : t.pos[r] <= 6 /\ t.val["endcreate"] <= Cardinality(Signed(t, r))
  <2>1. CASE At(s, p, "p8leaf", 2)
    <3> DEFINE r == s.par[s.par[p]]
    <3>1. ~At(s, p, "p8root", 6) /\ p \in Of(s, {"p8leaf"}) /\ p # r /\ r \in Of(s, {"p8root"}) /\ r \in s.live
      BY <2>1, EightFacts DEF At, Of
    <3>2. s.pos[r] <= 6 /\ s.pos[r] \in Nat /\ t.pos[r] = s.pos[r] /\ s.pos[p] = 2
      BY <2>1, <3>1, EightFacts DEF Grown, At
    <3>3. r \in Young(s) /\ r \in Young(t)
      BY <1>0, <3>1, <3>2 DEF Young
    <3>4. p \notin Signed(s, r) /\ Signed(t, r) = Signed(s, r) \cup {p}
      BY <1>4, <2>1, <3>2 DEF Signed
    <3>5. IsFiniteSet(Signed(s, r)) /\ Cardinality(Signed(s, r)) \in Nat
      <4>1. Signed(s, r) \in SUBSET s.live
        BY <1>4
      <4> QED BY <4>1, FS_Subset, FS_CardinalityType
    <3>6. Cardinality(Signed(t, r)) = Cardinality(Signed(s, r)) + 1
      BY <3>4, <3>5, FS_AddElement
    <3>7. t.val["endcreate"] = s.val["endcreate"] + 1
      BY <1>2, <1>3, <2>1, <3>1 DEF N
    <3>8. s.val["endcreate"] <= Cardinality(Signed(s, r))
      BY <1>3, <3>3, <3>5 DEF Counts, Root
    <3>9. t.pos[r] <= 6 /\ t.val["endcreate"] <= Cardinality(Signed(t, r))
      BY <1>3, <3>2, <3>5, <3>6, <3>7, <3>8
    <3> QED BY <3>3, <3>9
  <2>2. CASE At(s, p, "p8root", 6)
    <3>1. t.val["endcreate"] = s.val["endcreate"] - 4
      BY <1>2, <1>3, <2>2 DEF N, At
    <3>2. PICK r \in Young(s) : s.val["endcreate"] <= Cardinality(Signed(s, r))
      BY <1>3, <1>5, <3>1 DEF Counts
    <3>3. Cardinality(Signed(s, r)) \in Nat /\ Cardinality(Signed(s, r)) <= 4
      BY SignedLimit
    <3> QED BY <1>3, <1>5, <3>1, <3>2, <3>3
  <2>3. CASE ~At(s, p, "p8leaf", 2) /\ ~At(s, p, "p8root", 6)
    <3>1. t.val["endcreate"] = s.val["endcreate"]
      BY <1>2, <1>3, <2>3 DEF N
    <3>2. PICK r \in Young(s) : s.pos[r] <= 6 /\ s.val["endcreate"] <= Cardinality(Signed(s, r))
      BY <1>5, <3>1 DEF Counts
    <3>3. Signed(t, r) = Signed(s, r)
      BY <1>4, <2>3
    <3>4. r \in Of(s, {"p8root"}) /\ r \in s.live
      BY DEF Young, Of
    <3>5. t.pos[r] <= 6
      BY <2>3, <3>2, <3>4, EightFacts DEF Of, At, Family
    <3>6. r \in Young(t)
      BY <1>0, <3>4, <3>5, EightFacts DEF Young
    <3> QED BY <3>1, <3>2, <3>3, <3>5, <3>6
  <2> QED BY <2>1, <2>2, <2>3
<1> QED BY <1>1, <1>5 DEF Counts

\* A step of one process keeps the synchronization.
LEMMA SyncGoes ==
  ASSUME NEW s, NEW t, NEW p, Typed(s), Typed(t), IsFiniteSet(s.live), 1 \in s.live, Sync(s),
         Goes(s, t, p)
  PROVE  Sync(t)
<1>1. Tree(s) /\ Births(s) /\ Ones(s) /\ Frame(s, t, p) /\ Where(s, t, p)
  BY DEF Sync, Goes
<1>2. Tree(t)
  BY <1>1, TreeGoes
<1>3. Births(t) /\ Ones(t)
  BY <1>1, BirthsGoes, OnesGoes
<1>4. Two(t) /\ Three(t)
  BY <1>1, TwoGoes DEF Sync
<1>5. Four(t)
  BY <1>1, FourGoes DEF Sync
<1>6. Traps(t)
  BY <1>1, TrapsGo DEF Sync
<1>7. FiveEnd(t)
  BY <1>1, FiveEndGoes DEF Sync
<1>8. FiveC(t)
  BY <1>1, CintGoes, ModeGoes, LastGoes DEF Sync, FiveC
<1>9. Six(t)
  BY <1>1, SixGoes DEF Sync
<1>10. Eight(t)
  BY <1>1, RootGoes, GrownGoes, CountsGo DEF Sync, Eight
<1> QED BY <1>2, <1>3, <1>4, <1>5, <1>6, <1>7, <1>8, <1>9, <1>10 DEF Sync

-----------------------------------------------------------------------------
(* The birth of a process *)

LEMMA ForkFacts ==
  ASSUME NEW s, NEW t, NEW p, NEW c, Typed(s), Typed(t), 1 \in s.live, Tree(s), Forks(s, t, p, c)
  PROVE  /\ p \in s.live /\ c \notin s.live /\ p # c /\ c # 1 /\ t.live = s.live \cup {c}
         /\ p = 1 <=> s.fun[p] = "test"
         /\ \A q \in s.live : /\ t.fun[q] = s.fun[q] /\ t.par[q] = s.par[q] /\ q # c
                              /\ s.pos[q] \in Nat \ {0} /\ t.pos[q] \in Nat \ {0}
                              /\ (q # p => t.pos[q] = s.pos[q])
                              /\ t.pos[q] >= s.pos[q]
         /\ \A q \in s.live \ {1} : s.par[q] \in s.live
         /\ t.pos[p] = s.pos[p] + 1 /\ t.pos[c] = 1 /\ t.par[c] = p /\ t.fun[c] # "test"
         /\ \A F : Of(t, F) = Of(s, F) \cup {q \in {c} : t.fun[c] \in F}
         /\ Main(s) \in Nat \ {0} /\ Main(t) \in Nat \ {0}
         /\ p # 1 => Main(t) = Main(s)
         /\ p = 1 => Main(s) \in {4, 9, 14, 15, 16, 17, 27} /\ Main(t) = Main(s) + 1
         /\ \A x \in Counted : t.val[x] = s.val[x] /\ s.val[x] \in Nat
         /\ t.mode = s.mode /\ s.mode \in Nat
<1> USE DEF Forks
<1>1. p \in s.live /\ c \notin s.live /\ p # c /\ c # 1 /\ t.live = s.live \cup {c}
  OBVIOUS
<1>2. p = 1 <=> s.fun[p] = "test"
  BY <1>1 DEF Tree
<1>3. t.pos[p] = s.pos[p] + 1 /\ t.pos[c] = 1 /\ t.par[c] = p /\ t.fun[c] # "test"
  BY DEF Makes
<1>4. \A q \in s.live : /\ t.fun[q] = s.fun[q] /\ t.par[q] = s.par[q] /\ q # c
                        /\ s.pos[q] \in Nat \ {0} /\ t.pos[q] \in Nat \ {0}
                        /\ (q # p => t.pos[q] = s.pos[q])
                        /\ t.pos[q] >= s.pos[q]
  BY <1>1, <1>3 DEF Typed
<1>5. \A F : Of(t, F) = Of(s, F) \cup {q \in {c} : t.fun[c] \in F}
  BY <1>1, <1>4 DEF Of
<1>6. p = 1 => Main(s) \in {4, 9, 14, 15, 16, 17, 27}
  BY <1>2 DEF Makes, Main
<1> QED BY <1>1, <1>2, <1>3, <1>4, <1>5, <1>6 DEF Tree, Main, Typed

LEMMA ForkMakes ==
  ASSUME NEW s, NEW t, NEW p, NEW c, Forks(s, t, p, c)
  PROVE  /\ t.fun[c] = "p2" => At(s, p, "test", 4)
         /\ t.fun[c] = "p3" => At(s, p, "test", 9)
         /\ t.fun[c] = "p4" => At(s, p, "test", 14) \/ At(s, p, "p4", 8)
         /\ t.fun[c] = "p5" => At(s, p, "test", 15)
         /\ t.fun[c] = "p6" => At(s, p, "test", 16)
         /\ t.fun[c] = "p7" => At(s, p, "test", 17)
         /\ t.fun[c] = "p8root" => At(s, p, "test", 27)
         /\ t.fun[c] \in Fetch => t.fun[c] = "p5a" /\ At(s, p, "p5", 6)
         /\ t.fun[c] \in Mm => t.fun[c] = "p5b" /\ At(s, p, "p5", 8)
         /\ t.fun[c] \in Both => t.fun[c] = "p5c" /\ (At(s, p, "p5", 10) \/ At(s, p, "p5", 11))
         /\ t.fun[c] = "child1" => At(s, p, "p8root", 4)
         /\ t.fun[c] = "child2" => At(s, p, "p8root", 5)
         /\ t.fun[c] = "p8leaf" => s.fun[p] \in Kids /\ s.pos[p] \in {2, 4}
         /\ s.fun[p] = "p4" => t.fun[c] = "p4" /\ s.pos[p] = 8
         /\ s.fun[p] = "p5" => t.fun[c] \in Fetch \cup Mm \cup Both /\ s.pos[p] \in {6, 8, 10, 11}
         /\ s.fun[p] = "p8root" => t.fun[c] \in Kids /\ s.pos[p] \in {4, 5}
         /\ s.fun[p] \in Kids => t.fun[c] = "p8leaf" /\ s.pos[p] \in {2, 4}
         /\ s.fun[p] \in {"test", "p4", "p5", "p8root"} \cup Kids
<1> DEFINE m == <<s.fun[p], s.pos[p], t.fun[c]>>
<1>1. m \in Makes
  BY DEF Forks
<1>2. s.fun[p] = m[1] /\ s.pos[p] = m[2] /\ t.fun[c] = m[3]
  OBVIOUS
<1>3. \A d \in Makes :
         /\ d[3] = "p2" => d[1] = "test" /\ d[2] = 4
         /\ d[3] = "p3" => d[1] = "test" /\ d[2] = 9
         /\ d[3] = "p4" => (d[1] = "test" /\ d[2] = 14) \/ (d[1] = "p4" /\ d[2] = 8)
  BY DEF Makes
<1>6. \A d \in Makes :
         /\ d[3] = "p5" => d[1] = "test" /\ d[2] = 15
         /\ d[3] = "p6" => d[1] = "test" /\ d[2] = 16
         /\ d[3] = "p7" => d[1] = "test" /\ d[2] = 17
         /\ d[3] = "p8root" => d[1] = "test" /\ d[2] = 27
  BY DEF Makes
<1>5. \A d \in Makes :
         /\ d[3] \in Fetch => d[3] = "p5a" /\ d[1] = "p5" /\ d[2] = 6
         /\ d[3] \in Mm => d[3] = "p5b" /\ d[1] = "p5" /\ d[2] = 8
         /\ d[3] \in Both => d[3] = "p5c" /\ d[1] = "p5" /\ d[2] \in {10, 11}
         /\ d[3] = "child1" => d[1] = "p8root" /\ d[2] = 4
         /\ d[3] = "child2" => d[1] = "p8root" /\ d[2] = 5
  BY DEF Makes, Fetch, Mm, Both, Kernel
<1>4. \A d \in Makes :
         /\ d[3] = "p8leaf" => d[1] \in Kids /\ d[2] \in {2, 4}
         /\ d[1] = "p4" => d[3] = "p4" /\ d[2] = 8
         /\ d[1] = "p5" => d[3] \in Fetch \cup Mm \cup Both /\ d[2] \in {6, 8, 10, 11}
         /\ d[1] = "p8root" => d[3] \in Kids /\ d[2] \in {4, 5}
         /\ d[1] \in Kids => d[3] = "p8leaf" /\ d[2] \in {2, 4}
         /\ d[1] \in {"test", "p4", "p5", "p8root"} \cup Kids
  BY DEF Makes, Fetch, Mm, Both, Kids
<1> HIDE DEF m
<1> QED BY <1>1, <1>2, <1>3, <1>4, <1>5, <1>6 DEF At

LEMMA TreeForks ==
  ASSUME NEW s, NEW t, NEW p, NEW c, Typed(s), Typed(t), 1 \in s.live, Tree(s), Blk4(s),
         Forks(s, t, p, c)
  PROVE  Tree(t)
<1>1. \A q \in t.live : t.fun[q] = "test" <=> q = 1
  BY ForkFacts DEF Tree
<1>2. ASSUME NEW q \in s.live \ {1}
      PROVE  /\ t.par[q] \in s.live /\ t.par[q] = s.par[q] /\ t.fun[q] = s.fun[q]
             /\ t.par[s.par[q]] = s.par[s.par[q]] /\ t.fun[s.par[q]] = s.fun[s.par[q]]
  BY ForkFacts
<1>3. t.par[c] = p /\ p \in s.live /\ t.fun[p] = s.fun[p] /\ t.par[p] = s.par[p]
  BY ForkFacts
<1>4. t.fun[c] \in {"p2", "p3", "p5", "p6", "p7", "p8root"} => p = 1
  BY ForkFacts, ForkMakes DEF At
<1>5. t.fun[c] = "p4" => p = 1 \/ (t.fun[p] = "p4" /\ t.par[p] = 1)
  <2>1. At(s, p, "p4", 8) => s.par[p] = 1
    BY ForkFacts DEF Blk4, Second, Of, At
  <2>2. t.fun[c] = "p4" => At(s, p, "test", 14) \/ At(s, p, "p4", 8)
    BY ForkMakes
  <2>3. p = 1 <=> s.fun[p] = "test"
    BY ForkFacts
  <2>4. At(s, p, "test", 14) => p = 1
    BY <2>3 DEF At
  <2>5. At(s, p, "p4", 8) => t.fun[p] = "p4" /\ t.par[p] = 1
    BY <1>3, <2>1 DEF At
  <2> QED BY <2>2, <2>4, <2>5
<1>6. /\ t.fun[c] \in Fetch \cup Mm \cup Both => t.fun[p] = "p5"
      /\ t.fun[c] \in Kids => t.fun[p] = "p8root"
      /\ t.fun[c] = "p8leaf" => t.fun[p] \in Kids
  BY <1>3, ForkMakes DEF At, Kids
<1>7. t.live = s.live \cup {c} /\ c # 1
  BY ForkFacts
<1> QED BY <1>1, <1>2, <1>3, <1>4, <1>5, <1>6, <1>7 DEF Tree

LEMMA BirthsFork ==
  ASSUME NEW s, NEW t, NEW p, NEW c, Typed(s), Typed(t), 1 \in s.live, Tree(s), Births(s),
         Forks(s, t, p, c)
  PROVE  Births(t)
<1>1. ASSUME NEW q \in s.live \ {1}
      PROVE  /\ t.par[q] = s.par[q] /\ t.fun[q] = s.fun[q]
             /\ s.pos[s.par[q]] \in Nat /\ t.pos[s.par[q]] \in Nat
             /\ s.pos[s.par[q]] <= t.pos[s.par[q]]
  BY ForkFacts
<1>2. /\ t.par[c] = p /\ t.pos[p] = s.pos[p] + 1 /\ s.pos[p] \in Nat /\ t.live = s.live \cup {c}
      /\ p = 1 <=> s.fun[p] = "test"
  BY ForkFacts
<1>3. /\ t.fun[c] = "p2" => t.pos[p] > 4
      /\ t.fun[c] = "p3" => t.pos[p] > 9
      /\ t.fun[c] = "p4" => IF p = 1 THEN t.pos[p] > 14 ELSE t.pos[p] > 8
      /\ t.fun[c] = "p5" => t.pos[p] > 15
      /\ t.fun[c] = "p6" => t.pos[p] > 16
      /\ t.fun[c] = "p7" => t.pos[p] > 17
      /\ t.fun[c] = "p8root" => t.pos[p] > 24
      /\ t.fun[c] \in Fetch => t.pos[p] > 6
      /\ t.fun[c] \in Mm => t.pos[p] > 8
      /\ t.fun[c] \in Both => t.pos[p] > 10
      /\ t.fun[c] = "child1" => t.pos[p] > 4
      /\ t.fun[c] = "child2" => t.pos[p] > 5
      /\ t.fun[c] = "p8leaf" => t.pos[p] > 2
  BY <1>2, ForkMakes DEF At
<1>4. ASSUME NEW q \in s.live \ {1}
      PROVE  LET n == t.pos[t.par[q]] IN
      /\ t.fun[q] = "p2" => n > 4
      /\ t.fun[q] = "p3" => n > 9
      /\ t.fun[q] = "p4" => IF t.par[q] = 1 THEN n > 14 ELSE n > 8
      /\ t.fun[q] = "p5" => n > 15
      /\ t.fun[q] = "p6" => n > 16
      /\ t.fun[q] = "p7" => n > 17
      /\ t.fun[q] = "p8root" => n > 24
      /\ t.fun[q] \in Fetch => n > 6
      /\ t.fun[q] \in Mm => n > 8
      /\ t.fun[q] \in Both => n > 10
      /\ t.fun[q] = "child1" => n > 4
      /\ t.fun[q] = "child2" => n > 5
      /\ t.fun[q] = "p8leaf" => n > 2
  BY <1>1 DEF Births
<1> QED BY <1>2, <1>3, <1>4 DEF Births

LEMMA OnesFork ==
  ASSUME NEW s, NEW t, NEW p, NEW c, Typed(s), Typed(t), 1 \in s.live, Tree(s), Births(s), Ones(s),
         Forks(s, t, p, c)
  PROVE  Ones(t)
<1>1. ASSUME NEW F \in Single, t.fun[c] \in F PROVE Of(s, F) = {}
  <2> SUFFICES ASSUME NEW q \in Of(s, F) PROVE FALSE
    OBVIOUS
  <2>1. q \in s.live /\ q # 1 /\ s.fun[q] \in F
    BY DEF Of, Tree, Single, Fetch, Mm
  <2>2. CASE F \notin {Fetch, Mm}
    <3>1. s.fun[q] = t.fun[c] /\ t.fun[c] \in {"p2", "p3", "p5", "p6", "p7"}
      BY <1>1, <2>1, <2>2 DEF Single
    <3>2. p = 1 /\ s.par[q] = 1 /\ s.pos[p] \in Nat
      BY <2>1, <3>1, ForkFacts, ForkMakes DEF At, Tree
    <3> QED BY <2>1, <3>1, <3>2, ForkMakes DEF At, Births
  <2>3. CASE F \in {Fetch, Mm}
    <3>1. s.fun[p] = "p5" /\ s.fun[s.par[q]] = "p5" /\ s.par[q] \in s.live
      BY <1>1, <2>1, <2>3, ForkMakes DEF At, Tree
    <3>2. p = s.par[q]
      BY <3>1, ForkFacts DEF Ones, One, Single, Of
    <3>3. s.pos[p] \in Nat
      BY ForkFacts
    <3> QED BY <1>1, <2>1, <2>3, <3>2, <3>3, ForkMakes DEF At, Births
  <2> QED BY <2>2, <2>3
<1>2. \A F \in Single : One(t, F)
  BY <1>1, ForkFacts DEF Ones, One
<1>3. ASSUME NEW q \in Of(s, Pairs), s.fun[q] = t.fun[c], s.par[q] = p PROVE FALSE
  <2>1. q \in s.live /\ q # 1
    BY DEF Of, Pairs, Tree
  <2>2. s.pos[p] \in Nat /\ (p = 1 <=> s.fun[p] = "test")
    BY ForkFacts
  <2>3. s.fun[q] \in {"p4", "child1", "child2"}
    BY DEF Of, Pairs
  <2> QED BY <1>3, <2>1, <2>2, <2>3, ForkMakes DEF At, Births
<1>4. \A q \in Of(s, Pairs) : t.fun[q] = s.fun[q] /\ t.par[q] = s.par[q]
  BY ForkFacts DEF Of
<1>5. Of(t, Pairs) = Of(s, Pairs) \cup {q \in {c} : t.fun[c] \in Pairs} /\ t.par[c] = p
  BY ForkFacts
<1>6. \A q, r \in Of(t, Pairs) : t.fun[q] = t.fun[r] /\ t.par[q] = t.par[r] => q = r
  BY <1>3, <1>4, <1>5 DEF Ones
<1> QED BY <1>2, <1>6 DEF Ones

LEMMA TwoForks ==
  ASSUME NEW s, NEW t, NEW p, NEW c, Typed(s), Typed(t), 1 \in s.live, Tree(s), Two(s), Three(s),
         Forks(s, t, p, c)
  PROVE  Two(t) /\ Three(t)
<1>1. /\ t.val["endp2"] = s.val["endp2"] /\ t.val["endp3"] = s.val["endp3"]
      /\ Main(s) \in Nat /\ Main(t) \in Nat
      /\ p # 1 => Main(t) = Main(s)
      /\ p = 1 => Main(s) \in {4, 9, 14, 15, 16, 17, 27} /\ Main(t) = Main(s) + 1
  BY ForkFacts DEF Counted
<1>2. \A q \in s.live : t.fun[q] = s.fun[q] /\ s.pos[q] \in Nat /\ t.pos[q] \in Nat /\ t.pos[q] >= s.pos[q]
  BY ForkFacts
<1>3. t.fun[c] = "p2" => Main(s) = 4
  BY ForkFacts, ForkMakes DEF At, Main
<1>4. t.fun[c] = "p3" => Main(s) = 9
  BY ForkFacts, ForkMakes DEF At, Main
<1>5. Main(s) > 4 /\ All(s, "p2", 10) => All(t, "p2", 10)
  <2>1. \A q \in Of(s, {"p2"}) : t.pos[q] > 10 <=> t.pos[q] > 10
    OBVIOUS
  <2>2. ASSUME Main(s) > 4, All(s, "p2", 10), NEW q \in Of(t, {"p2"}) PROVE t.pos[q] > 10
    <3>1. t.fun[c] # "p2"
      BY <1>1, <1>3, <2>2
    <3>2. q \in Of(s, {"p2"})
      BY <3>1, <2>2, ForkFacts
    <3> QED BY <1>2, <2>2, <3>2 DEF All, Of
  <2> QED BY <2>2 DEF All
<1>6. Main(s) > 9 /\ All(s, "p3", 8) => All(t, "p3", 8)
  <2>2. ASSUME Main(s) > 9, All(s, "p3", 8), NEW q \in Of(t, {"p3"}) PROVE t.pos[q] > 8
    <3>1. t.fun[c] # "p3"
      BY <1>1, <1>4, <2>2
    <3>2. q \in Of(s, {"p3"})
      BY <3>1, <2>2, ForkFacts
    <3> QED BY <1>2, <2>2, <3>2 DEF All, Of
  <2> QED BY <2>2 DEF All
<1>7. Two(t)
  BY <1>1, <1>5 DEF Two
<1>8. Three(t)
  BY <1>1, <1>6 DEF Three
<1> QED BY <1>7, <1>8

LEMMA FourForks ==
  ASSUME NEW s, NEW t, NEW p, NEW c, Typed(s), Typed(t), 1 \in s.live, Tree(s), Births(s), Ones(s), Four(s),
         Forks(s, t, p, c)
  PROVE  Four(t)
<1>1. /\ t.val["synp4"] = s.val["synp4"] /\ t.val["blkp4"] = s.val["blkp4"]
      /\ s.val["synp4"] \in Nat /\ s.val["blkp4"] \in Nat
      /\ Main(s) \in Nat /\ Main(t) \in Nat
      /\ p # 1 => Main(t) = Main(s)
      /\ p = 1 => Main(s) \in {4, 9, 14, 15, 16, 17, 27} /\ Main(t) = Main(s) + 1
  BY ForkFacts DEF Counted
<1>2. /\ \A q \in s.live : /\ t.fun[q] = s.fun[q] /\ t.par[q] = s.par[q] /\ s.pos[q] \in Nat /\ t.pos[q] \in Nat
                           /\ (q # p => t.pos[q] = s.pos[q])
      /\ t.pos[p] = s.pos[p] + 1 /\ t.pos[c] = 1 /\ t.par[c] = p /\ p \in s.live
      /\ p = 1 <=> s.fun[p] = "test"
  BY ForkFacts
<1>3. t.fun[c] = "p4" => (p = 1 /\ Main(s) = 14) \/ (p \in First(s) /\ s.pos[p] = 8)
  <2>1. At(s, p, "p4", 8) => p \in First(s)
    BY <1>2 DEF Four, Blk4, Second, First, Of, At
  <2>2. At(s, p, "test", 14) => p = 1 /\ Main(s) = 14
    BY <1>2 DEF At, Main
  <2>3. At(s, p, "p4", 8) => s.pos[p] = 8
    BY DEF At
  <2> QED BY <2>1, <2>2, <2>3, ForkMakes
<1>4. \A q \in First(s) : Main(s) > 14 /\ q \in s.live /\ q # 1 /\ s.fun[q] = "p4" /\ s.par[q] = 1
  BY DEF First, Of, Births, Tree, Main
<1>5. \A q, r \in First(s) : q = r
  <2>1. \A q \in First(s) : q \in Of(s, Pairs)
    BY DEF First, Of, Pairs
  <2> QED BY <1>4, <2>1 DEF Ones
<1>6. Of(t, {"p4"}) = Of(s, {"p4"}) \cup {q \in {c} : t.fun[c] = "p4"}
  BY ForkFacts
<1>7. /\ First(t) = First(s) \cup {q \in {c} : t.fun[c] = "p4" /\ p = 1}
      /\ Second(t) = Second(s) \cup {q \in {c} : t.fun[c] = "p4" /\ p # 1}
  <2>1. \A q \in Of(s, {"p4"}) : t.par[q] = s.par[q]
    BY <1>2 DEF Of
  <2> QED BY <1>2, <1>6, <2>1 DEF First, Second
<1>8. \A q \in Second(s) : q \in s.live /\ s.fun[q] = "p4" /\ q # 1
  BY DEF Second, Of, Tree
<1>9. \A q \in Second(s) : t.pos[q] = s.pos[q] /\ s.pos[q] \in Nat
  <2>1. \A q \in Second(s) : s.pos[q] <= 4
    BY DEF Four, Blk4
  <2>2. p \in Second(s) => s.pos[p] = 8
    BY <1>8, ForkMakes
  <2> QED BY <1>2, <1>8, <2>1, <2>2
<1>10. \A q \in First(s) : \/ t.pos[q] = s.pos[q]
                           \/ q = p /\ s.pos[q] = 8 /\ t.pos[q] = 9
  BY <1>2, <1>4, ForkMakes
<1>11. Syn4(t)
  <2>1. Main(t) <= 14 => t.val["synp4"] = 0
    BY <1>1 DEF Four, Syn4
  <2>2. ASSUME NEW q \in First(t), q \in First(s)
        PROVE /\ t.pos[q] \notin 4 .. 6 \cup {9} => t.pos[q] > 9 \/ t.val["synp4"] = 0
              /\ t.pos[q] \in 4 .. 6 \cup {9} => t.val["synp4"] <= 1
              /\ t.pos[q] > 9 \/ (t.pos[q] = 9 /\ t.val["synp4"] = 1) =>
                   \A r \in Second(t) : t.pos[r] > 3
    <3>1. CASE t.pos[q] = s.pos[q]
      <4>1. Second(t) = Second(s)
        <5>1. p \in First(s) /\ s.pos[p] = 8 => FALSE
          BY <1>2, <1>5, <2>2, <3>1
        <5> QED BY <1>3, <1>7, <5>1
      <4> QED BY <1>1, <1>9, <2>2, <3>1, <4>1 DEF Four, Syn4
    <3>2. CASE q = p /\ s.pos[q] = 8 /\ t.pos[q] = 9
      BY <1>1, <2>2, <3>2 DEF Four, Syn4
    <3> QED BY <1>10, <2>2, <3>1, <3>2
  <2>3. ASSUME NEW q \in First(t), q \notin First(s)
        PROVE /\ t.pos[q] \notin 4 .. 6 \cup {9} => t.pos[q] > 9 \/ t.val["synp4"] = 0
              /\ t.pos[q] \in 4 .. 6 \cup {9} => t.val["synp4"] <= 1
              /\ t.pos[q] > 9 \/ (t.pos[q] = 9 /\ t.val["synp4"] = 1) =>
                   \A r \in Second(t) : t.pos[r] > 3
    <3>1. q = c /\ t.fun[c] = "p4" /\ p = 1
      BY <1>7, <2>3
    <3>2. Main(s) = 14 /\ t.pos[q] = 1
      BY <1>2, <1>3, <1>4, <3>1
    <3>3. t.val["synp4"] = 0
      BY <1>1, <3>2 DEF Four, Syn4
    <3> QED BY <3>2, <3>3
  <2> QED BY <2>1, <2>2, <2>3 DEF Syn4
<1>12. Blk4(t)
  <2>1. Main(t) <= 14 \/ First(t) # {} => t.val["blkp4"] <= 1
    <3>1. Main(t) <= 14 => Main(s) <= 14
      BY <1>1
    <3>2. First(t) # {} => First(s) # {} \/ Main(s) <= 14
      BY <1>1, <1>3, <1>4, <1>7
    <3> QED BY <1>1, <3>1, <3>2 DEF Four, Blk4
  <2>2. \A q \in First(t) : t.pos[q] > 4 => t.val["blkp4"] = 0
    BY <1>1, <1>2, <1>7, <1>10 DEF Four, Blk4
  <2>3. \A q \in Second(t) : t.pos[q] <= 4
    BY <1>2, <1>7, <1>9 DEF Four, Blk4
  <2> QED BY <2>1, <2>2, <2>3 DEF Blk4
<1>13. Dead4(t)
  <2> SUFFICES ASSUME NEW q \in Of(t, {"p5"}), t.pos[q] > 4 PROVE Of(t, {"p4"}) = {}
    BY DEF Dead4
  <2>1. q \in Of(s, {"p5"}) /\ q \in s.live /\ s.fun[q] = "p5"
    BY <1>2, ForkFacts DEF Of
  <2>2. Main(s) > 15
    BY <2>1 DEF Births, Tree, Main
  <2>3. s.pos[q] > 4
    BY <1>2, <2>1, ForkMakes
  <2>4. Of(s, {"p4"}) = {}
    BY <2>1, <2>3 DEF Four, Dead4
  <2>5. t.fun[c] # "p4"
    BY <1>1, <1>3, <2>2, <2>4 DEF First
  <2> QED BY <1>6, <2>4, <2>5
<1> QED BY <1>11, <1>12, <1>13 DEF Four

LEMMA TrapForks ==
  ASSUME NEW s, NEW t, NEW p, NEW c, Typed(s), Typed(t), 1 \in s.live, Tree(s), Births(s), Ones(s),
         NEW x \in Counted, NEW n \in {7, 9}, NEW F \in {Fetch, Mm}, NEW f,
         F = Fetch <=> n = 7, Forks(s, t, p, c), Trap(s, x, n, F, f)
  PROVE  Trap(t, x, n, F, f)
<1>1. /\ t.val[x] = s.val[x] /\ s.val[x] \in Nat
      /\ Main(s) \in Nat /\ Main(t) \in Nat
      /\ p # 1 => Main(t) = Main(s)
      /\ p = 1 => Main(s) \in {4, 9, 14, 15, 16, 17, 27} /\ Main(t) = Main(s) + 1
  BY ForkFacts
<1>2. /\ \A q \in s.live : /\ t.fun[q] = s.fun[q] /\ s.pos[q] \in Nat /\ t.pos[q] \in Nat
                           /\ (q # p => t.pos[q] = s.pos[q]) /\ t.pos[q] >= s.pos[q]
      /\ t.pos[p] = s.pos[p] + 1 /\ t.pos[c] = 1 /\ p \in s.live
      /\ p = 1 <=> s.fun[p] = "test"
  BY ForkFacts
<1>3. Main(t) <= 15 => t.val[x] = 0
  BY <1>1 DEF Trap
<1>4. ASSUME NEW q \in Of(t, {"p5"}), t.val[x] > 0 \/ t.pos[q] > n
      PROVE  t.pos[q] > n - 1 /\ \A r \in Of(t, F) : t.fun[r] = f /\ t.pos[r] > 2
  <2>1. q \in Of(s, {"p5"})
    <3> SUFFICES ASSUME q = c, t.fun[c] = "p5" PROVE FALSE
      BY ForkFacts
    <3>1. Main(s) = 15
      BY <1>2, ForkMakes DEF At, Main
    <3> QED BY <1>1, <1>2, <1>4, <3>1 DEF Trap
  <2>2. q \in s.live /\ s.fun[q] = "p5"
    BY <2>1 DEF Of
  <2>3. q = p => s.pos[q] \in {6, 8, 10, 11}
    BY <2>2, ForkMakes
  <2>4. s.val[x] > 0 \/ s.pos[q] > n
    BY <1>1, <1>2, <1>4, <2>2, <2>3
  <2>5. s.pos[q] > n - 1 /\ \A r \in Of(s, F) : s.fun[r] = f /\ s.pos[r] > 2
    BY <2>1, <2>4 DEF Trap
  <2>6. t.fun[c] \notin F
    <3> SUFFICES ASSUME t.fun[c] \in F PROVE FALSE
      OBVIOUS
    <3>1. s.fun[p] = "p5" /\ s.pos[p] = n - 1
      <4>1. CASE F = Fetch
        BY <4>1, ForkMakes DEF At
      <4>2. CASE F = Mm
        <5>1. Fetch # Mm
          BY DEF Fetch, Mm
        <5> QED BY <4>2, <5>1, ForkMakes DEF At
      <4> QED BY <4>1, <4>2
    <3>2. p \in Of(s, {"p5"}) /\ p = q
      BY <1>2, <2>1, <3>1 DEF Of, Ones, One, Single
    <3> QED BY <1>2, <2>5, <3>1, <3>2
  <2>7. Of(t, F) = Of(s, F)
    <3>1. Of(t, F) = Of(s, F) \cup {r \in {c} : t.fun[c] \in F}
      BY ForkFacts
    <3> QED BY <2>6, <3>1
  <2>8. \A r \in Of(s, F) : t.fun[r] = f /\ t.pos[r] > 2
    BY <1>2, <2>5 DEF Of
  <2> QED BY <1>2, <2>2, <2>5, <2>7, <2>8
<1> QED BY <1>3, <1>4 DEF Trap

LEMMA FiveEndForks ==
  ASSUME NEW s, NEW t, NEW p, NEW c, Typed(s), Typed(t), 1 \in s.live, Tree(s), Births(s), Ones(s),
         Traps(s), FiveEnd(s), Forks(s, t, p, c)
  PROVE  Traps(t) /\ FiveEnd(t)
<1>1. Traps(t)
  <2>1. "blkp5a" \in Counted /\ "blkp5b" \in Counted /\ Fetch # Mm
    BY DEF Counted, Fetch, Mm
  <2>2. Trap(t, "blkp5a", 7, Fetch, "p5prog_fetch")
    BY <2>1, TrapForks DEF Traps
  <2>3. Trap(t, "blkp5b", 9, Mm, "p5mm")
    BY <2>1, TrapForks DEF Traps
  <2> QED BY <2>2, <2>3 DEF Traps
<1>2. FiveEnd(t)
  <2> SUFFICES ASSUME t.val["endp5"] > 0 \/ Main(t) > 18
               PROVE  Main(t) > 15 /\ Of(t, {"p4"}) = {} /\ All(t, "p5", 14)
    BY DEF FiveEnd
  <2>1. /\ t.val["endp5"] = s.val["endp5"] /\ s.val["endp5"] \in Nat
        /\ Main(s) \in Nat /\ Main(t) \in Nat
        /\ p # 1 => Main(t) = Main(s)
        /\ p = 1 => Main(s) \in {4, 9, 14, 15, 16, 17, 27} /\ Main(t) = Main(s) + 1
    BY ForkFacts DEF Counted
  <2>2. Main(s) > 15 /\ Of(s, {"p4"}) = {} /\ All(s, "p5", 14)
    BY <2>1 DEF FiveEnd
  <2>3. p \in s.live /\ (p = 1 <=> s.fun[p] = "test")
    BY ForkFacts
  <2>4. t.fun[c] # "p4" /\ t.fun[c] # "p5"
    BY <2>2, <2>3, ForkMakes DEF At, Main, Of
  <2>5. Of(t, {"p4"}) = {} /\ Of(t, {"p5"}) = Of(s, {"p5"})
    <3>1. /\ Of(t, {"p4"}) = Of(s, {"p4"}) \cup {q \in {c} : t.fun[c] = "p4"}
          /\ Of(t, {"p5"}) = Of(s, {"p5"}) \cup {q \in {c} : t.fun[c] = "p5"}
      BY ForkFacts
    <3> QED BY <2>2, <2>4, <3>1
  <2>6. \A q \in Of(s, {"p5"}) : t.pos[q] > 14
    <3>1. \A q \in Of(s, {"p5"}) : q \in s.live
      BY DEF Of
    <3>2. \A q \in s.live : s.pos[q] \in Nat /\ t.pos[q] \in Nat /\ t.pos[q] >= s.pos[q]
      BY ForkFacts
    <3> QED BY <2>2, <3>1, <3>2 DEF All
  <2> QED BY <2>1, <2>2, <2>5, <2>6 DEF All
<1> QED BY <1>1, <1>2

LEMMA SixForks ==
  ASSUME NEW s, NEW t, NEW p, NEW c, Typed(s), Typed(t), 1 \in s.live, Tree(s), Births(s), Six(s),
         Forks(s, t, p, c)
  PROVE  Six(t)
<1>1. /\ t.val["blkp6"] = s.val["blkp6"] /\ t.val["endp6"] = s.val["endp6"]
      /\ s.val["blkp6"] \in Nat /\ s.val["endp6"] \in Nat
      /\ Main(s) \in Nat /\ Main(t) \in Nat
      /\ p # 1 => Main(t) = Main(s)
      /\ p = 1 => Main(s) \in {4, 9, 14, 15, 16, 17, 27} /\ Main(t) = Main(s) + 1
  BY ForkFacts DEF Counted
<1>2. /\ p \in s.live /\ (p = 1 <=> s.fun[p] = "test")
      /\ t.pos[c] = 1
  BY ForkFacts
<1>3. /\ t.fun[c] = "p6" => Main(s) = 16 /\ p = 1
      /\ t.fun[c] = "p7" => Main(s) = 17 /\ p = 1
  BY <1>2, ForkMakes DEF At, Main
<1>4. \A q \in Of(s, {"p6"}) \cup Of(s, {"p7"}) :
        t.pos[q] = s.pos[q] /\ s.pos[q] \in Nat
  <2>1. \A q \in s.live : s.pos[q] \in Nat /\ (q # p => t.pos[q] = s.pos[q])
    BY ForkFacts
  <2>2. s.fun[p] # "p6" /\ s.fun[p] # "p7"
    BY ForkMakes DEF Kids
  <2> QED BY <2>1, <2>2 DEF Of
<1>5. /\ Of(t, {"p6"}) = Of(s, {"p6"}) \cup {q \in {c} : t.fun[c] = "p6"}
      /\ Of(t, {"p7"}) = Of(s, {"p7"}) \cup {q \in {c} : t.fun[c] = "p7"}
  BY ForkFacts
<1>6. Main(s) > 17 /\ All(s, "p7", 3) => Main(t) > 17 /\ All(t, "p7", 3)
  BY <1>1, <1>3, <1>4, <1>5 DEF All
<1>7. Main(s) > 17 /\ All(s, "p6", 4) => All(t, "p6", 4)
  BY <1>1, <1>3, <1>4, <1>5 DEF All
<1>8. Main(t) > 22 <=> Main(s) > 22
  BY <1>1
<1>9. t.val["blkp6"] <= N(Main(t) > 22) + N(Main(t) > 17 /\ All(t, "p7", 3))
  BY <1>1, <1>6, <1>8 DEF Six, N
<1>10. \A q \in Of(t, {"p6"}) : t.pos[q] > 2 => Main(t) > 17 /\ All(t, "p7", 3)
  BY <1>2, <1>4, <1>5, <1>6 DEF Six
<1>11. t.val["endp6"] > 0 \/ Main(t) > 23 =>
         Main(t) > 17 /\ All(t, "p7", 3) /\ All(t, "p6", 4)
  BY <1>1, <1>6, <1>7 DEF Six
<1> QED BY <1>9, <1>10, <1>11 DEF Six

LEMMA FiveFork ==
  ASSUME NEW s, NEW t, NEW p, NEW c, Typed(s), Typed(t), 1 \in s.live, Tree(s), Births(s), Ones(s),
         Forks(s, t, p, c)
  PROVE  /\ Of(t, Both) = Of(s, Both) \cup {q \in {c} : t.fun[c] \in Both}
         /\ Of(t, {"p5"}) = Of(s, {"p5"}) \cup {q \in {c} : t.fun[c] = "p5"}
         /\ \A q \in Of(s, Both) : /\ s.par[q] \in Of(s, {"p5"}) /\ s.pos[s.par[q]] > 10
                                   /\ t.par[q] = s.par[q] /\ t.fun[q] = s.fun[q] /\ t.pos[q] = s.pos[q]
                                   /\ q \in s.live /\ q # c
         /\ \A q \in Of(s, {"p5"}) : /\ q \in s.live /\ Main(s) > 15 /\ s.pos[q] \in Nat /\ t.pos[q] \in Nat
                                     /\ \/ t.pos[q] = s.pos[q]
                                        \/ q = p /\ t.pos[q] = s.pos[q] + 1 /\ s.pos[q] \in {6, 8, 10, 11}
         /\ \A q, r \in Of(s, {"p5"}) : q = r
         /\ t.fun[c] \in Both => /\ t.fun[c] = "p5c" /\ p \in Of(s, {"p5"}) /\ s.pos[p] \in {10, 11}
                                 /\ t.pos[p] = s.pos[p] + 1 /\ t.pos[c] = 1 /\ t.par[c] = p
         /\ t.fun[c] = "p5" => Main(s) = 15 /\ Of(s, {"p5"}) = {} /\ Of(s, Both) = {} /\ t.pos[c] = 1
         /\ \A x \in Counted : t.val[x] = s.val[x] /\ s.val[x] \in Nat
         /\ t.mode = s.mode /\ s.mode \in Nat
         /\ Main(s) \in Nat /\ Main(t) \in Nat /\ (Main(s) > 15 => Main(t) > 15)
<1>1. /\ Of(t, Both) = Of(s, Both) \cup {q \in {c} : t.fun[c] \in Both}
      /\ Of(t, {"p5"}) = Of(s, {"p5"}) \cup {q \in {c} : t.fun[c] = "p5"}
  BY ForkFacts
<1>2. /\ \A q \in s.live : /\ t.fun[q] = s.fun[q] /\ t.par[q] = s.par[q] /\ q # c
                           /\ s.pos[q] \in Nat /\ t.pos[q] \in Nat
                           /\ (q # p => t.pos[q] = s.pos[q])
      /\ t.pos[p] = s.pos[p] + 1 /\ t.pos[c] = 1 /\ t.par[c] = p /\ p \in s.live
      /\ p = 1 <=> s.fun[p] = "test"
  BY ForkFacts
<1>3. /\ \A x \in Counted : t.val[x] = s.val[x] /\ s.val[x] \in Nat
      /\ t.mode = s.mode /\ s.mode \in Nat
  BY ForkFacts
<1>4. Main(s) \in Nat /\ Main(t) \in Nat /\ (Main(s) > 15 => Main(t) > 15)
  BY ForkFacts
<1>5. \A q \in Of(s, Both) : /\ s.par[q] \in Of(s, {"p5"}) /\ s.pos[s.par[q]] > 10
                             /\ q \in s.live /\ q # 1
  BY DEF Of, Tree, Births, Both, Kernel
<1>6. s.fun[p] \notin Both
  BY ForkMakes DEF Both, Kernel, Kids
<1>7. \A q \in Of(s, Both) : /\ t.par[q] = s.par[q] /\ t.fun[q] = s.fun[q] /\ t.pos[q] = s.pos[q]
                             /\ q # c
  BY <1>2, <1>6 DEF Of
<1>8. \A q \in Of(s, {"p5"}) : /\ q \in s.live /\ Main(s) > 15 /\ s.fun[q] = "p5"
  BY DEF Of, Tree, Births, Main
<1>9. s.fun[p] = "p5" => s.pos[p] \in {6, 8, 10, 11}
  BY ForkMakes
<1>10. \A q \in Of(s, {"p5"}) : /\ s.pos[q] \in Nat /\ t.pos[q] \in Nat
                                /\ \/ t.pos[q] = s.pos[q]
                                   \/ q = p /\ t.pos[q] = s.pos[q] + 1 /\ s.pos[q] \in {6, 8, 10, 11}
  BY <1>2, <1>8, <1>9
<1>11. \A q, r \in Of(s, {"p5"}) : q = r
  BY DEF Ones, One, Single
<1>12. t.fun[c] \in Both => t.fun[c] = "p5c" /\ p \in Of(s, {"p5"}) /\ s.pos[p] \in {10, 11}
  BY <1>2, ForkMakes DEF At, Of
<1>13. t.fun[c] = "p5" => Main(s) = 15
  BY <1>2, ForkMakes DEF At, Main
<1>14. t.fun[c] = "p5" => Of(s, {"p5"}) = {} /\ Of(s, Both) = {}
  BY <1>4, <1>5, <1>8, <1>13
<1> QED BY <1>1, <1>2, <1>3, <1>4, <1>5, <1>7, <1>8, <1>10, <1>11, <1>12, <1>13, <1>14

LEMMA CintForks ==
  ASSUME NEW s, NEW t, NEW p, NEW c, Typed(s), Typed(t), 1 \in s.live, Tree(s), Births(s), Ones(s),
         Forks(s, t, p, c), Cint(s)
  PROVE  Cint(t)
<1>1. t.val["blkp5cint"] = s.val["blkp5cint"] /\ s.val["blkp5cint"] \in Nat
  BY FiveFork DEF Counted
<1>2. /\ Of(t, Both) = Of(s, Both) \cup {q \in {c} : t.fun[c] \in Both}
      /\ Of(t, {"p5"}) = Of(s, {"p5"}) \cup {q \in {c} : t.fun[c] = "p5"}
  BY FiveFork
<1>3. \A q \in Of(s, Both) : Inside(t, q) <=> Inside(s, q)
  BY FiveFork DEF Inside, InUser
<1>4. t.fun[c] \in Both => ~Inside(t, c)
  BY FiveFork DEF Inside
<1>5. t.fun[c] \in Both => \A q, r \in Of(s, Both) : q = r
  <2> SUFFICES ASSUME t.fun[c] \in Both, NEW q \in Of(s, Both), NEW r \in Of(s, Both) PROVE q = r
    OBVIOUS
  <2>1. s.par[q] = p /\ s.pos[p] > 10 /\ s.pos[p] \in {10, 11} /\ p \in Of(s, {"p5"})
    BY FiveFork
  <2>2. s.pos[p] <= 11
    BY <2>1
  <2> QED BY <2>1, <2>2 DEF Cint, One
<1>6. \A q, r, u \in Of(t, Both) : q = r \/ r = u \/ q = u
  BY <1>2, <1>5 DEF Cint
<1>7. \A q, r \in Of(t, Both) : Inside(t, q) =>
        t.val["blkp5cint"] = 0 /\ (Inside(t, r) => q = r)
  BY <1>1, <1>2, <1>3, <1>4 DEF Cint
<1>8. ASSUME NEW q \in Of(t, {"p5"}), t.pos[q] <= 11 PROVE One(t, Both)
  <2>1. CASE q \in Of(s, {"p5"})
    <3>1. s.pos[q] <= 11
      BY <1>8, <2>1, FiveFork
    <3>2. One(s, Both)
      BY <2>1, <3>1 DEF Cint
    <3>3. t.fun[c] \in Both => Of(s, Both) = {}
      <4> SUFFICES ASSUME t.fun[c] \in Both, NEW r \in Of(s, Both) PROVE FALSE
        OBVIOUS
      <4>1. s.par[r] = p /\ s.pos[p] > 10 /\ s.pos[p] \in {10, 11} /\ p = q /\ t.pos[p] = s.pos[p] + 1
        BY <2>1, FiveFork
      <4> QED BY <1>8, <4>1
    <3> QED BY <1>2, <3>2, <3>3 DEF One
  <2>2. CASE q \notin Of(s, {"p5"})
    <3>1. t.fun[c] = "p5"
      BY <1>2, <1>8, <2>2
    <3>2. Of(s, Both) = {}
      BY <3>1, FiveFork
    <3> QED BY <1>2, <3>2 DEF One
  <2> QED BY <2>1, <2>2
<1> QED BY <1>1, <1>6, <1>7, <1>8 DEF Cint

LEMMA ModeForks ==
  ASSUME NEW s, NEW t, NEW p, NEW c, Typed(s), Typed(t), 1 \in s.live, Tree(s), Births(s), Ones(s),
         Forks(s, t, p, c), Mode(s)
  PROVE  Mode(t)
<1>1. t.mode = s.mode /\ s.mode \in Nat
  BY FiveFork
<1>2. Of(t, Both) = Of(s, Both) \cup {q \in {c} : t.fun[c] \in Both}
  BY FiveFork
<1>3. \A q \in Of(s, Both) : t.fun[q] = s.fun[q] /\ t.pos[q] = s.pos[q]
  BY FiveFork
<1>4. t.fun[c] \in Both => /\ t.fun[c] = "p5c" /\ p \in Of(s, {"p5"}) /\ s.pos[p] \in {10, 11}
                           /\ t.pos[p] = s.pos[p] + 1
  BY FiveFork
<1>5. t.mode = 0 => \A q \in Of(t, Both) : t.fun[q] = "p5c" \/ (t.fun[q] = "p5c_user" /\ t.pos[q] = 1)
  BY <1>1, <1>2, <1>3, <1>4 DEF Mode
<1>6. NotUser(t) = NotUser(s) \cup {q \in {c} : t.fun[c] \in {"p5c"} \cup Kernel}
  BY ForkFacts DEF NotUser
<1>7. t.fun[c] \in {"p5c"} \cup Kernel => t.fun[c] \in Both
  BY DEF Both, Kernel
<1>8. t.fun[c] \in Both /\ t.mode > 0 => NotUser(s) = {} /\ s.pos[p] = 11
  BY <1>1, <1>4 DEF Mode
<1>9. t.mode > 0 => Main(t) > 15 /\ \A q, r \in NotUser(t) : q = r
  BY <1>1, <1>6, <1>7, <1>8, FiveFork DEF Mode
<1>10. ASSUME t.mode > 0, NEW q \in Of(t, {"p5"})
       PROVE  t.pos[q] > 10 /\ (t.pos[q] = 11 => NotUser(t) = {})
  <2>1. q \in Of(s, {"p5"})
    <3> SUFFICES ASSUME t.fun[c] = "p5" PROVE FALSE
      BY <1>10, FiveFork
    <3>1. Main(s) = 15
      BY FiveFork
    <3> QED BY <1>1, <1>10, <3>1 DEF Mode
  <2>2. s.pos[q] > 10 /\ (s.pos[q] = 11 => NotUser(s) = {})
    BY <1>1, <1>10, <2>1 DEF Mode
  <2>3. /\ s.pos[q] \in Nat /\ t.pos[q] \in Nat
        /\ t.pos[q] = s.pos[q] \/ (q = p /\ t.pos[q] = s.pos[q] + 1)
    BY <2>1, FiveFork
  <2>4. ASSUME t.pos[q] = 11 PROVE NotUser(t) = {}
    <3>1. s.pos[q] = 11 /\ t.pos[q] = s.pos[q]
      BY <2>2, <2>3, <2>4
    <3>2. t.fun[c] \in Both => p = q
      BY <1>4, <2>1, FiveFork
    <3>3. t.fun[c] \notin Both
      BY <1>4, <3>1, <3>2
    <3> QED BY <1>6, <1>7, <2>2, <3>1, <3>3
  <2> QED BY <2>2, <2>3, <2>4
<1> QED BY <1>5, <1>9, <1>10 DEF Mode

LEMMA LastForks ==
  ASSUME NEW s, NEW t, NEW p, NEW c, Typed(s), Typed(t), 1 \in s.live, Tree(s), Births(s), Ones(s),
         Forks(s, t, p, c), Last5(s)
  PROVE  Last5(t)
<1>1. t.val["blkp5c"] = s.val["blkp5c"] /\ s.val["blkp5c"] \in Nat
  BY FiveFork DEF Counted
<1>2. Of(t, Both) = Of(s, Both) \cup {q \in {c} : t.fun[c] \in Both}
  BY FiveFork
<1>3. \A q \in Of(s, Both) : /\ t.fun[q] = s.fun[q] /\ t.pos[q] = s.pos[q] /\ t.par[q] = s.par[q]
                             /\ (InUser(t, q) <=> InUser(s, q)) /\ s.par[q] \in Of(s, {"p5"})
  BY FiveFork DEF InUser
<1>4. t.fun[c] \in Both => /\ t.fun[c] = "p5c" /\ p \in Of(s, {"p5"}) /\ s.pos[p] \in {10, 11}
                           /\ t.pos[p] = s.pos[p] + 1
  BY FiveFork
<1>5. Main(t) <= 15 => t.val["blkp5c"] = 0
  BY <1>1, FiveFork DEF Last5
<1>6. ASSUME NEW q \in Of(t, Kernel)
      PROVE  /\ t.pos[t.par[q]] > 11
             /\ \A r \in Of(t, Both) : q = r \/ InUser(t, r)
  <2>1. Of(t, Kernel) = Of(s, Kernel) \cup {u \in {c} : t.fun[c] \in Kernel}
    BY ForkFacts
  <2>2. q \in Of(s, Kernel) /\ q \in Of(s, Both)
    <3>1. t.fun[c] \notin Kernel
      BY <1>4 DEF Both, Kernel
    <3> QED BY <1>6, <2>1, <3>1 DEF Of, Both
  <2>3. s.pos[s.par[q]] > 11 /\ \A r \in Of(s, Both) : q = r \/ InUser(s, r)
    BY <2>2 DEF Last5
  <2>4. s.par[q] \in Of(s, {"p5"}) /\ t.par[q] = s.par[q]
    BY <1>3, <2>2
  <2>5. t.pos[s.par[q]] > 11
    BY <2>3, <2>4, FiveFork
  <2>6. t.fun[c] \notin Both
    <3> SUFFICES ASSUME t.fun[c] \in Both PROVE FALSE
      OBVIOUS
    <3>1. p = s.par[q]
      BY <1>4, <2>4, FiveFork
    <3> QED BY <1>4, <2>3, <3>1
  <2> QED BY <1>2, <1>3, <2>3, <2>4, <2>5, <2>6
<1>7. ASSUME NEW q \in Of(t, {"p5"}), t.val["blkp5c"] > 0 \/ t.pos[q] > 12
      PROVE  /\ t.pos[q] > 11
             /\ \A r \in Of(t, Both) :
                  InUser(t, r) \/ (t.fun[r] = "p5c_kernel" /\ t.pos[r] > 5)
  <2>1. q \in Of(s, {"p5"})
    <3> SUFFICES ASSUME q = c, t.fun[c] = "p5" PROVE FALSE
      BY <1>7, FiveFork
    <3>1. Main(s) = 15 /\ t.pos[c] = 1
      BY FiveFork
    <3> QED BY <1>1, <1>7, <3>1 DEF Last5
  <2>2. /\ s.pos[q] \in Nat /\ t.pos[q] \in Nat
        /\ \/ t.pos[q] = s.pos[q]
           \/ q = p /\ t.pos[q] = s.pos[q] + 1 /\ s.pos[q] \in {6, 8, 10, 11}
    BY <2>1, FiveFork
  <2>3. s.val["blkp5c"] > 0 \/ s.pos[q] > 12
    BY <1>1, <1>7, <2>2
  <2>4. /\ s.pos[q] > 11
        /\ \A r \in Of(s, Both) : InUser(s, r) \/ (s.fun[r] = "p5c_kernel" /\ s.pos[r] > 5)
    BY <2>1, <2>3 DEF Last5
  <2>5. t.fun[c] \notin Both
    <3> SUFFICES ASSUME t.fun[c] \in Both PROVE FALSE
      OBVIOUS
    <3>1. p = q
      BY <1>4, <2>1, FiveFork
    <3> QED BY <1>4, <2>4, <3>1
  <2> QED BY <1>2, <1>3, <2>2, <2>4, <2>5
<1> QED BY <1>5, <1>6, <1>7 DEF Last5

LEMMA EightForks ==
  ASSUME NEW s, NEW t, NEW p, NEW c, Typed(s), Typed(t), IsFiniteSet(s.live), 1 \in s.live, Tree(s),
         Births(s), Ones(s), Forks(s, t, p, c), Eight(s)
  PROVE  Eight(t)
<1>0. Root(s) /\ Grown(s) /\ Counts(s)
  BY DEF Eight
<1>1. /\ \A x \in {"endp8", "endcreate"} : t.val[x] = s.val[x] /\ s.val[x] \in Nat
      /\ Main(s) \in Nat /\ Main(t) \in Nat
      /\ p # 1 => Main(t) = Main(s)
      /\ p = 1 => Main(s) \in {4, 9, 14, 15, 16, 17, 27} /\ Main(t) = Main(s) + 1
  BY ForkFacts DEF Counted
<1>2. /\ \A q \in s.live : /\ t.fun[q] = s.fun[q] /\ t.par[q] = s.par[q] /\ q # c
                           /\ s.pos[q] \in Nat \ {0} /\ t.pos[q] \in Nat \ {0}
                           /\ (q # p => t.pos[q] = s.pos[q])
      /\ t.pos[p] = s.pos[p] + 1 /\ t.pos[c] = 1 /\ t.par[c] = p /\ p \in s.live /\ c \notin s.live
      /\ p = 1 <=> s.fun[p] = "test"
  BY ForkFacts
<1>3. /\ Of(t, {"p8root"}) = Of(s, {"p8root"}) \cup {q \in {c} : t.fun[c] = "p8root"}
      /\ Of(t, {"p8leaf"}) = Of(s, {"p8leaf"}) \cup {q \in {c} : t.fun[c] = "p8leaf"}
      /\ Of(t, Kids) = Of(s, Kids) \cup {q \in {c} : t.fun[c] \in Kids}
  BY ForkFacts
<1>4. /\ t.fun[c] = "p8root" => p = 1 /\ Main(s) = 27
      /\ t.fun[c] \in Kids => p \in Of(s, {"p8root"}) /\ s.pos[p] \in {4, 5}
      /\ t.fun[c] = "p8leaf" => p \in Of(s, Kids) /\ s.pos[p] \in {2, 4}
      /\ p \in Of(s, {"p8root"}) => s.pos[p] \in {4, 5}
      /\ p \in Of(s, Kids) => s.pos[p] \in {2, 4} /\ t.fun[c] = "p8leaf"
      /\ p \notin Of(s, {"p8leaf"})
  BY <1>2, ForkMakes DEF At, Main, Of, Kids
<1>5. /\ \A q \in Of(s, Kids) : s.par[q] \in Of(s, {"p8root"}) /\ q \in s.live
      /\ \A q \in Of(s, {"p8leaf"}) : s.par[q] \in Of(s, Kids) /\ q \in s.live
      /\ \A q \in Of(s, {"p8root"}) : q \in s.live
  BY DEF Of, Tree, Kids
<1>6. Root(t)
  <2>1. \A q \in Of(s, {"p8root"}) : t.pos[q] <= 12 <=> s.pos[q] <= 12
    BY <1>2, <1>4, <1>5
  <2>2. Young(t) = Young(s) \cup {q \in {c} : t.fun[c] = "p8root"}
    BY <1>2, <1>3, <2>1 DEF Young
  <2>3. t.fun[c] = "p8root" => Young(s) = {} /\ Main(t) = 28 /\ t.val["endp8"] = 0
    BY <1>0, <1>1, <1>4 DEF Root
  <2>4. Main(s) \in 28 .. 30 => Main(t) = Main(s)
    BY <1>1
  <2>5. t.val["endp8"] = s.val["endp8"]
    BY <1>1
  <2>6. \A q, r \in Young(t) : q = r
    BY <1>0, <2>2, <2>3 DEF Root
  <2>7. Young(t) # {} => Main(t) \in 28 .. 30 /\ t.val["endp8"] = 0
    BY <1>0, <2>2, <2>3, <2>4, <2>5 DEF Root
  <2>8. t.val["endp8"] <= 1 /\ (t.val["endp8"] = 1 => Main(t) \in 28 .. 30)
    BY <1>0, <2>4, <2>5 DEF Root
  <2> QED BY <2>6, <2>7, <2>8 DEF Root
<1>7. Grown(t)
  <2>1. \A q \in Of(s, {"p8root"}) : s.pos[q] <= 6 => t.pos[q] <= 6
    BY <1>2, <1>4, <1>5
  <2>2. ASSUME NEW q \in Of(s, Kids), t.pos[q] <= 4 PROVE t.pos[t.par[q]] <= 6
    <3>1. s.pos[q] <= 4
      BY <1>2, <1>5, <2>2
    <3> QED BY <1>0, <1>2, <1>5, <2>1, <3>1 DEF Grown
  <2>3. ASSUME NEW q \in Of(s, {"p8leaf"}), t.pos[q] <= 2 PROVE t.pos[t.par[t.par[q]]] <= 6
    <3>1. s.pos[q] <= 2
      BY <1>2, <1>4, <1>5, <2>3
    <3>2. t.par[t.par[q]] = s.par[s.par[q]] /\ s.par[s.par[q]] \in Of(s, {"p8root"})
      BY <1>2, <1>5
    <3> QED BY <1>0, <2>1, <3>1, <3>2 DEF Grown
  <2>4. t.fun[c] \in Kids => t.pos[t.par[c]] <= 6
    BY <1>2, <1>4
  <2>5. ASSUME t.fun[c] = "p8leaf" PROVE t.pos[t.par[t.par[c]]] <= 6
    <3>1. p \in Of(s, Kids) /\ s.pos[p] <= 4
      BY <1>4, <2>5
    <3>2. t.par[t.par[c]] = s.par[p] /\ s.par[p] \in Of(s, {"p8root"})
      BY <1>2, <1>5, <3>1
    <3> QED BY <1>0, <2>1, <3>1, <3>2 DEF Grown
  <2> QED BY <1>3, <2>2, <2>3, <2>4, <2>5 DEF Grown
<1>8. \A d : IsFiniteSet(Kin(s, d)) /\ Cardinality(Kin(s, d)) \in Nat
  <2>1. \A d : Kin(s, d) \in SUBSET s.live
    BY DEF Kin, Of
  <2> QED BY <2>1, FS_Subset, FS_CardinalityType
<1>9. \A q \in Of(s, {"p8leaf"}) : t.par[q] = s.par[q] /\ s.par[q] # c
  BY <1>2, <1>5
<1>10. \A d : Kin(t, d) = Kin(s, d) \cup {q \in {c} : t.fun[c] = "p8leaf" /\ p = d}
  BY <1>2, <1>3, <1>9 DEF Kin
<1>11. ASSUME NEW d \in Of(t, Kids) PROVE Cardinality(Kin(t, d)) <= Made(t.pos[d])
  <2>1. CASE d = c
    <3>1. Kin(t, d) = {}
      <4>1. Kin(s, d) = {}
        BY <1>9, <2>1 DEF Kin
      <4>2. p # d
        BY <1>2, <2>1
      <4> QED BY <1>10, <4>1, <4>2
    <3> QED BY <1>2, <2>1, <3>1, FS_EmptySet DEF Made
  <2>2. CASE d # c
    <3>1. d \in Of(s, Kids) /\ d \in s.live
      BY <1>3, <1>5, <1>11, <2>2
    <3>2. Cardinality(Kin(s, d)) <= Made(s.pos[d]) /\ s.pos[d] \in Nat
      BY <1>0, <1>2, <3>1 DEF Counts
    <3>3. CASE p = d
      <4>1. Kin(t, d) = Kin(s, d) \cup {c} /\ c \notin Kin(s, d)
        BY <1>2, <1>4, <1>10, <3>1, <3>3 DEF Kin, Of
      <4>2. Cardinality(Kin(t, d)) = Cardinality(Kin(s, d)) + 1
        BY <1>8, <4>1, FS_AddElement
      <4>3. s.pos[d] \in {2, 4} /\ t.pos[d] = s.pos[d] + 1
        BY <1>2, <1>4, <3>1, <3>3
      <4>4. Made(t.pos[d]) = Made(s.pos[d]) + 1 /\ Made(s.pos[d]) \in Nat
        BY <4>3 DEF Made
      <4> QED BY <1>8, <3>2, <4>2, <4>4
    <3>4. CASE p # d
      BY <1>2, <1>10, <3>1, <3>2, <3>4
    <3> QED BY <3>3, <3>4
  <2> QED BY <2>1, <2>2
<1>12. ASSUME t.val["endcreate"] > 0
       PROVE  \E r \in Young(t) : t.pos[r] <= 6 /\ t.val["endcreate"] <= Cardinality(Signed(t, r))
  <2>1. PICK r \in Young(s) : s.pos[r] <= 6 /\ s.val["endcreate"] <= Cardinality(Signed(s, r))
    BY <1>0, <1>1, <1>12 DEF Counts
  <2>2. r \in Of(s, {"p8root"}) /\ r \in s.live
    BY <1>5 DEF Young
  <2>3. t.pos[r] <= 6
    BY <1>2, <1>4, <2>1, <2>2
  <2>4. r \in Young(t)
    BY <1>2, <1>3, <2>2, <2>3 DEF Young
  <2>5. Signed(t, r) = Signed(s, r)
    <3>1. \A q \in Of(s, {"p8leaf"}) : t.par[t.par[q]] = s.par[s.par[q]] /\ t.pos[q] = s.pos[q]
      BY <1>2, <1>4, <1>5
    <3>2. \A q \in Signed(t, r) : q # c
      BY <1>2 DEF Signed
    <3> QED BY <1>3, <3>1, <3>2 DEF Signed, Leaves
  <2> QED BY <1>1, <2>1, <2>3, <2>4, <2>5
<1>13. Counts(t)
  BY <1>11, <1>12 DEF Counts
<1> QED BY <1>6, <1>7, <1>13 DEF Eight

\* A birth keeps the synchronization.
LEMMA SyncForks ==
  ASSUME NEW s, NEW t, NEW p, NEW c, Typed(s), Typed(t), IsFiniteSet(s.live), 1 \in s.live, Sync(s),
         Forks(s, t, p, c)
  PROVE  Sync(t)
<1>1. Tree(s) /\ Births(s) /\ Ones(s) /\ Blk4(s)
  BY DEF Sync, Four
<1>2. Tree(t)
  BY <1>1, TreeForks
<1>3. Births(t) /\ Ones(t)
  BY <1>1, BirthsFork, OnesFork
<1>4. Two(t) /\ Three(t)
  BY <1>1, TwoForks DEF Sync
<1>5. Four(t)
  BY <1>1, FourForks DEF Sync
<1>6. Traps(t) /\ FiveEnd(t)
  BY <1>1, FiveEndForks DEF Sync
<1>7. FiveC(t)
  BY <1>1, CintForks, ModeForks, LastForks DEF Sync, FiveC
<1>8. Six(t)
  BY <1>1, SixForks DEF Sync
<1>9. Eight(t)
  BY <1>1, EightForks DEF Sync
<1> QED BY <1>2, <1>3, <1>4, <1>5, <1>6, <1>7, <1>8, <1>9 DEF Sync

-----------------------------------------------------------------------------
(* The death of processes *)

LEMMA LossFacts ==
  ASSUME NEW s, NEW t, Typed(s), 1 \in t.live, Tree(s), Loses(s, t)
  PROVE  /\ 1 \in s.live /\ Main(t) = Main(s) /\ Main(s) \in Nat /\ t.mode = s.mode
         /\ \A q \in t.live : /\ q \in s.live /\ t.par[q] = s.par[q] /\ t.fun[q] = s.fun[q]
                              /\ t.pos[q] = s.pos[q] /\ s.pos[q] \in Nat \ {0}
         /\ \A q \in t.live \ {1} : /\ s.par[q] \in t.live /\ t.par[s.par[q]] = s.par[s.par[q]]
                                    /\ t.pos[s.par[q]] = s.pos[s.par[q]]
                                    /\ t.fun[s.par[q]] = s.fun[s.par[q]]
         /\ \A F : Of(t, F) = {q \in Of(s, F) : q \in t.live}
         /\ \A x \in Counted : t.val[x] = s.val[x] /\ s.val[x] \in Nat
BY DEF Loses, Typed, Of, Main

LEMMA SyncLoses ==
  ASSUME NEW s, NEW t, Typed(s), IsFiniteSet(s.live), 1 \in t.live, Sync(s), Loses(s, t)
  PROVE  Sync(t)
<1>0. Tree(s) /\ Births(s) /\ Ones(s) /\ Root(s) /\ Grown(s) /\ Counts(s)
  BY DEF Sync, Eight
<1>1. /\ 1 \in s.live /\ Main(t) = Main(s) /\ Main(s) \in Nat /\ t.mode = s.mode
      /\ \A q \in t.live : /\ q \in s.live /\ t.par[q] = s.par[q] /\ t.fun[q] = s.fun[q]
                           /\ t.pos[q] = s.pos[q] /\ s.pos[q] \in Nat \ {0}
  BY <1>0, LossFacts
<1>2. \A q \in t.live \ {1} : /\ s.par[q] \in t.live /\ t.par[s.par[q]] = s.par[s.par[q]]
                              /\ t.pos[s.par[q]] = s.pos[s.par[q]]
                              /\ t.fun[s.par[q]] = s.fun[s.par[q]]
  BY <1>0, LossFacts
<1>3. \A F : Of(t, F) = {q \in Of(s, F) : q \in t.live}
  BY <1>0, LossFacts
<1>4. \A x \in Counted : t.val[x] = s.val[x] /\ s.val[x] \in Nat
  BY <1>0, LossFacts
<1>5. Tree(t)
  BY <1>0, <1>1, <1>2 DEF Tree
<1>6. Births(t)
  BY <1>0, <1>1, <1>2 DEF Births
<1>7. Ones(t)
  <2>1. \A F \in Single : One(t, F)
    BY <1>0, <1>3 DEF Ones, One
  <2>2. \A q \in Of(t, Pairs) : q \in Of(s, Pairs) /\ t.fun[q] = s.fun[q] /\ t.par[q] = s.par[q]
    BY <1>1, <1>3
  <2> QED BY <1>0, <2>1, <2>2 DEF Ones
<1>8. \A f, n : All(s, f, n) => All(t, f, n)
  BY <1>1, <1>3 DEF All
<1>9. Two(t) /\ Three(t)
  BY <1>1, <1>4, <1>8 DEF Sync, Two, Three, Counted
<1>10. /\ \A q \in First(t) : q \in First(s) /\ t.pos[q] = s.pos[q]
       /\ \A q \in Second(t) : q \in Second(s) /\ t.pos[q] = s.pos[q]
  BY <1>1, <1>3 DEF First, Second
<1>11. /\ \A x \in {"synp4", "blkp4", "blkp5a", "blkp5b", "blkp5c", "blkp5cint", "endp5",
                    "blkp6", "endp6", "endp8", "endcreate"} : t.val[x] = s.val[x] /\ s.val[x] \in Nat
  BY <1>4 DEF Counted
<1>12. Four(t)
  <2>1. Syn4(t)
    BY <1>1, <1>10, <1>11 DEF Sync, Four, Syn4
  <2>2. Blk4(t)
    BY <1>1, <1>10, <1>11 DEF Sync, Four, Blk4
  <2>3. Dead4(t)
    BY <1>1, <1>3 DEF Sync, Four, Dead4
  <2> QED BY <2>1, <2>2, <2>3 DEF Four
<1>13. \A x \in Counted : \A n, F, f : Trap(s, x, n, F, f) => Trap(t, x, n, F, f)
  BY <1>1, <1>3, <1>4 DEF Trap
<1>14. Traps(t)
  BY <1>13 DEF Sync, Traps, Counted
<1>15. FiveEnd(t)
  BY <1>1, <1>3, <1>8, <1>11 DEF Sync, FiveEnd
<1>16. \A q \in Of(t, Both) : /\ q \in Of(s, Both) /\ t.fun[q] = s.fun[q] /\ t.pos[q] = s.pos[q]
                              /\ (Inside(t, q) <=> Inside(s, q)) /\ (InUser(t, q) <=> InUser(s, q))
  BY <1>1, <1>3 DEF Inside, InUser
<1>17. \A q \in Of(t, {"p5"}) : q \in Of(s, {"p5"}) /\ t.pos[q] = s.pos[q]
  BY <1>1, <1>3
<1>18. FiveC(t)
  <2>1. Cint(s) /\ Mode(s) /\ Last5(s)
    BY DEF Sync, FiveC
  <2>2. One(s, Both) => One(t, Both)
    BY <1>16 DEF One
  <2>3. Cint(t)
    BY <1>11, <1>16, <1>17, <2>1, <2>2 DEF Cint
  <2>4. NotUser(t) \subseteq NotUser(s)
    BY <1>3 DEF NotUser
  <2>5. Mode(t)
    BY <1>1, <1>16, <1>17, <2>1, <2>4 DEF Mode
  <2>6. \A q \in Of(t, Kernel) : q \in Of(s, Kernel) /\ t.pos[t.par[q]] = s.pos[s.par[q]]
    <3>1. \A q \in Of(t, Kernel) : q \in Of(s, Kernel) /\ q \in t.live /\ s.fun[q] # "test"
      BY <1>1 DEF Of, Kernel
    <3> QED BY <1>0, <1>1, <1>2, <3>1 DEF Tree
  <2>7. Last5(t)
    BY <1>1, <1>11, <1>16, <1>17, <2>1, <2>6 DEF Last5
  <2> QED BY <2>3, <2>5, <2>7 DEF FiveC
<1>19. Six(t)
  <2>1. \A q \in Of(t, {"p6"}) : q \in Of(s, {"p6"}) /\ t.pos[q] = s.pos[q]
    BY <1>1, <1>3
  <2>2. Six(s) /\ (All(s, "p7", 3) => All(t, "p7", 3)) /\ (All(s, "p6", 4) => All(t, "p6", 4))
    BY <1>8 DEF Sync
  <2> QED BY <1>1, <1>11, <2>1, <2>2 DEF Six, N
<1>20. \A q \in Young(t) : q \in Young(s)
  BY <1>1, <1>3 DEF Young
<1>21. Root(t)
  BY <1>0, <1>1, <1>11, <1>20 DEF Root
<1>22. /\ \A q \in Of(t, Kids) : q \in t.live /\ q # 1 /\ q \in Of(s, Kids)
       /\ \A q \in Of(t, {"p8leaf"}) : q \in t.live /\ q # 1 /\ q \in Of(s, {"p8leaf"}) /\ s.par[q] # 1
  BY <1>0, <1>1, <1>3 DEF Of, Tree, Kids
<1>23. Grown(t)
  <2>1. \A q \in Of(t, {"p8leaf"}) : t.pos[t.par[t.par[q]]] = s.pos[s.par[s.par[q]]]
    BY <1>1, <1>2, <1>22
  <2> QED BY <1>0, <1>1, <1>2, <1>22, <2>1 DEF Grown
<1>24. \A d : /\ Kin(t, d) \subseteq Kin(s, d)
              /\ Cardinality(Kin(t, d)) \in Nat /\ Cardinality(Kin(s, d)) \in Nat
              /\ Cardinality(Kin(t, d)) <= Cardinality(Kin(s, d))
  <2>1. \A d : Kin(t, d) \in SUBSET Kin(s, d) /\ Kin(s, d) \in SUBSET s.live
    BY <1>1, <1>3 DEF Kin, Of
  <2>2. \A d : IsFiniteSet(Kin(s, d))
    BY <2>1, FS_Subset
  <2> QED BY <2>1, <2>2, FS_Subset, FS_CardinalityType
<1>25. Counts(t)
  <2>1. ASSUME NEW d \in Of(t, Kids) PROVE Cardinality(Kin(t, d)) <= Made(t.pos[d])
    <3>1. d \in Of(s, Kids) /\ t.pos[d] = s.pos[d] /\ s.pos[d] \in Nat
      BY <1>1, <1>22, <2>1
    <3>2. Cardinality(Kin(s, d)) <= Made(s.pos[d]) /\ Made(s.pos[d]) \in Nat
      BY <1>0, <3>1 DEF Counts, Made
    <3> QED BY <1>24, <3>1, <3>2
  <2>2. ASSUME t.val["endcreate"] > 0
        PROVE  \E r \in Young(t) : t.pos[r] <= 6 /\ t.val["endcreate"] <= Cardinality(Signed(t, r))
    <3>1. PICK r \in Young(s) : s.pos[r] <= 6 /\ s.val["endcreate"] <= Cardinality(Signed(s, r))
      BY <1>0, <1>11, <2>2 DEF Counts
    <3>2. r \in t.live /\ Leaves(s, r) \subseteq t.live
      BY <3>1 DEF Loses
    <3>3. r \in Young(t) /\ t.pos[r] = s.pos[r]
      BY <1>1, <1>3, <3>2 DEF Young
    <3>4. Signed(t, r) = Signed(s, r)
      <4>1. \A q \in Of(t, {"p8leaf"}) : t.par[t.par[q]] = s.par[s.par[q]] /\ t.pos[q] = s.pos[q]
        BY <1>1, <1>2, <1>22
      <4> QED BY <1>3, <3>2, <4>1 DEF Signed, Leaves
    <3> QED BY <1>11, <3>1, <3>3, <3>4
  <2> QED BY <2>1, <2>2 DEF Counts
<1>26. Eight(t)
  BY <1>21, <1>23, <1>25 DEF Eight
<1> QED BY <1>5, <1>6, <1>7, <1>9, <1>12, <1>14, <1>15, <1>18, <1>19, <1>26 DEF Sync

-----------------------------------------------------------------------------
(* Who prints when processes are terminated *)

\* The calls of print in each function.
Loud ==
  [test |-> {3, 5, 11, 13, 19, 21, 37}, p2 |-> {2, 7, 8}, p3 |-> {5, 7},
   p4 |-> {1, 7, 11}, p5 |-> {1, 13}, p5a |-> {2}, p5b |-> {2}, p5c |-> {},
   p5c_user |-> {2}, p5c_kernel |-> {1, 3, 4}, p5prog_fetch |-> {1},
   p5prog_instr |-> {1}, p5mm |-> {1}, p5sys_user |-> {1, 2}, p5sys_kernel |-> {1},
   p6 |-> {1, 3}, p7 |-> {1, 2}, p8root |-> {3}, child1 |-> {1}, child2 |-> {1},
   p8leaf |-> {1}]

Quiet(s, q) == s.pos[q] \notin Loud[s.fun[q]]
Known(s) == \A q \in s.live : s.fun[q] \in DOMAIN Loud

\* When p5 has printed that it terminates, those it has made print no more.
LEMMA QuietKids ==
  ASSUME NEW s, Typed(s), 1 \in s.live, Sync(s),
         NEW p \in Of(s, {"p5"}), s.pos[p] > 14,
         NEW q \in Of(s, Fetch \cup Mm \cup Both)
  PROVE  Quiet(s, q)
<1>1. s.pos[p] \in Nat /\ s.pos[q] \in Nat
  BY DEF Of, Typed
<1>2. CASE q \in Of(s, Fetch)
  <2>1. s.fun[q] = "p5prog_fetch" /\ s.pos[q] > 2
    BY <1>1, <1>2 DEF Sync, Traps, Trap
  <2> QED BY <1>1, <2>1 DEF Quiet, Loud
<1>3. CASE q \in Of(s, Mm)
  <2>1. s.fun[q] = "p5mm" /\ s.pos[q] > 2
    BY <1>1, <1>3 DEF Sync, Traps, Trap
  <2> QED BY <1>1, <2>1 DEF Quiet, Loud
<1>4. CASE q \in Of(s, Both)
  <2>1. InUser(s, q) \/ (s.fun[q] = "p5c_kernel" /\ s.pos[q] > 5)
    BY <1>1, <1>4 DEF Sync, FiveC, Last5
  <2> QED BY <1>1, <2>1 DEF Quiet, Loud, InUser
<1> QED BY <1>2, <1>3, <1>4 DEF Of

\* When p1 terminates p8, or ends, nobody else prints.
LEMMA QuietAll ==
  ASSUME NEW s, Typed(s), 1 \in s.live, Sync(s), Known(s), Main(s) > 30
  PROVE  /\ \A q \in s.live \ {1} : Quiet(s, q)
         /\ Young(s) = {}
<1>0. Main(s) \in Nat
  BY DEF Main, Typed
<1>1. Young(s) = {} /\ Tree(s)
  BY <1>0 DEF Sync, Eight, Root
<1>2. \A q \in s.live : s.pos[q] \in Nat
  BY DEF Typed
<1>3. \A q \in Of(s, {"p8root"}) : s.pos[q] > 12
  BY <1>1, <1>2 DEF Young, Of
<1>4. \A q \in Of(s, {"p2"}) : s.pos[q] > 10
  BY <1>0 DEF Sync, Two, All
<1>5. \A q \in Of(s, {"p3"}) : s.pos[q] > 8
  BY <1>0 DEF Sync, Three, All
<1>6. Of(s, {"p4"}) = {} /\ \A q \in Of(s, {"p5"}) : s.pos[q] > 14
  BY <1>0 DEF Sync, FiveEnd, All
<1>7. (\A q \in Of(s, {"p7"}) : s.pos[q] > 3) /\ \A q \in Of(s, {"p6"}) : s.pos[q] > 4
  BY <1>0 DEF Sync, Six, All
<1>8. \A q \in Of(s, Kids) : s.pos[q] > 4
  <2>1. \A q \in Of(s, Kids) : s.par[q] \in Of(s, {"p8root"}) /\ s.pos[q] \in Nat
    BY <1>1, <1>2 DEF Of, Tree, Kids
  <2> QED BY <1>2, <1>3, <2>1 DEF Sync, Eight, Grown, Of
<1>9. \A q \in Of(s, {"p8leaf"}) : s.pos[q] > 2
  <2>1. \A q \in Of(s, {"p8leaf"}) : s.par[s.par[q]] \in Of(s, {"p8root"}) /\ s.pos[q] \in Nat
    BY <1>1, <1>2 DEF Of, Tree, Kids
  <2> QED BY <1>2, <1>3, <2>1 DEF Sync, Eight, Grown, Of
<1>10. ASSUME NEW q \in s.live \ {1} PROVE Quiet(s, q)
  <2>1. s.fun[q] # "test" /\ s.fun[q] \in DOMAIN Loud /\ s.pos[q] \in Nat
    BY <1>1, <1>2 DEF Tree, Known
  <2>2. CASE s.fun[q] \in Fetch \cup Mm \cup Both
    <3>1. s.par[q] \in Of(s, {"p5"}) /\ q \in Of(s, Fetch \cup Mm \cup Both)
      BY <1>1, <2>2 DEF Tree, Of
    <3> QED BY <1>6, <3>1, QuietKids
  <2>3. CASE s.fun[q] \in {"p2", "p3", "p4", "p5", "p6", "p7"}
    BY <1>4, <1>5, <1>6, <1>7, <2>1, <2>3 DEF Quiet, Loud, Of
  <2>4. CASE s.fun[q] \in {"p8root", "child1", "child2", "p8leaf"}
    BY <1>3, <1>8, <1>9, <2>1, <2>4 DEF Quiet, Loud, Of, Kids
  <2>5. s.fun[q] \in Fetch \cup Mm \cup Both \cup {"p2", "p3", "p4", "p5", "p6", "p7"}
                       \cup {"p8root", "child1", "child2", "p8leaf"}
    BY <2>1 DEF Loud, Fetch, Mm, Both, Kernel
  <2> QED BY <2>2, <2>3, <2>4, <2>5
<1> QED BY <1>1, <1>10

\* When p8root terminates the leaves, none of its family prints.
LEMMA QuietFamily ==
  ASSUME NEW s, Typed(s), 1 \in s.live, Sync(s),
         Known(s), NEW p \in Of(s, {"p8root"}), s.pos[p] \in 7 .. 12
  PROVE  /\ \A q \in Of(s, Family) : Quiet(s, q)
         /\ \A q \in Young(s) : s.pos[q] > 6
         /\ \A q \in s.live \ {1} : s.fun[s.par[q]] \in Family => s.fun[q] \in Family
<1>1. Tree(s) /\ p \in Young(s) /\ \A q \in Young(s) : q = p
  BY DEF Sync, Eight, Root, Young
<1>2. \A q \in s.live : s.pos[q] \in Nat
  BY DEF Typed
<1>3. \A q \in Of(s, {"p8root"}) : s.pos[q] > 6
  BY <1>1, <1>2 DEF Young, Of
<1>4. \A q \in Of(s, Kids) : s.pos[q] > 4
  <2>1. \A q \in Of(s, Kids) : s.par[q] \in Of(s, {"p8root"}) /\ s.pos[q] \in Nat
    BY <1>1, <1>2 DEF Of, Tree, Kids
  <2> QED BY <1>2, <1>3, <2>1 DEF Sync, Eight, Grown, Of
<1>5. \A q \in Of(s, {"p8leaf"}) : s.pos[q] > 2
  <2>1. \A q \in Of(s, {"p8leaf"}) : s.par[s.par[q]] \in Of(s, {"p8root"}) /\ s.pos[q] \in Nat
    BY <1>1, <1>2 DEF Of, Tree, Kids
  <2> QED BY <1>2, <1>3, <2>1 DEF Sync, Eight, Grown, Of
<1>6. ASSUME NEW q \in Of(s, Family) PROVE Quiet(s, q)
  <2>1. s.fun[q] \in {"p8root", "child1", "child2", "p8leaf"} /\ s.pos[q] \in Nat
    BY <1>2 DEF Of, Family
  <2> QED BY <1>3, <1>4, <1>5, <2>1 DEF Quiet, Loud, Of, Kids
<1>7. \A q \in Young(s) : s.pos[q] > 6
  BY <1>3 DEF Young
<1>8. Known(s) => \A q \in s.live \ {1} : s.fun[s.par[q]] \in Family => s.fun[q] \in Family
  <2> SUFFICES ASSUME Known(s), NEW q \in s.live \ {1}, s.fun[q] \notin Family
               PROVE  s.fun[s.par[q]] \notin Family
    OBVIOUS
  <2>1. s.fun[q] \in DOMAIN Loud \ Family /\ s.par[q] \in s.live /\ s.fun[1] = "test"
    BY <1>1 DEF Known, Tree
  <2>2. \/ s.fun[q] \in {"test", "p2", "p3", "p4", "p5", "p6", "p7"}
        \/ s.fun[q] \in Fetch \cup Mm \cup Both
    BY <2>1 DEF Loud, Family, Fetch, Mm, Both, Kernel
  <2>3. \/ s.par[q] = 1
        \/ s.fun[s.par[q]] \in {"p4", "p5"}
    BY <1>1, <2>2 DEF Tree
  <2> QED BY <2>1, <2>3 DEF Family
<1> QED BY <1>6, <1>7, <1>8

\* Those that end, but for p1 and the family of p8, have children that print
\* no more, and no grandchildren.
Below(s, p) == {q \in s.live : q = p \/ (q # 1 /\ s.par[q] = p)}

LEMMA QuietEnd ==
  ASSUME NEW s, Typed(s), 1 \in s.live, Sync(s), Known(s),
         NEW p \in s.live, p # 1, s.fun[p] \notin Family,
         s.fun[p] = "p4" => s.pos[p] > 9, s.fun[p] = "p5" => s.pos[p] > 14
  PROVE  /\ \A q \in Below(s, p) \ {p} : Quiet(s, q)
         /\ \A q \in Below(s, p) : s.fun[q] \notin Family
         /\ \A q \in s.live \ {1} : s.par[q] \in Below(s, p) => q \in Below(s, p)
         /\ 1 \notin Below(s, p)
<1>1. Tree(s) /\ \A q \in s.live : s.pos[q] \in Nat
  BY DEF Sync, Typed
<1>2. s.fun[p] \in DOMAIN Loud /\ s.fun[p] # "test"
  BY <1>1 DEF Known, Tree
<1>3. \A q \in s.live \ {1} : s.fun[q] \in DOMAIN Loud /\ s.fun[q] # "test" /\ s.par[q] \in s.live
  BY <1>1 DEF Known, Tree
<1>4. \A q \in Below(s, p) \ {p} : q \in s.live \ {1} /\ s.par[q] = p
  BY DEF Below
<1>5. ASSUME NEW q \in Below(s, p) \ {p}
      PROVE  \/ s.fun[p] = "p4" /\ q \in Second(s)
             \/ s.fun[p] = "p5" /\ q \in Of(s, Fetch \cup Mm \cup Both)
  <2>1. q \in s.live \ {1} /\ s.par[q] = p /\ s.fun[q] \in DOMAIN Loud /\ s.fun[q] # "test"
    BY <1>3, <1>4
  <2>2. s.fun[q] \in Fetch \cup Mm \cup Both => s.fun[p] = "p5" /\ q \in Of(s, Fetch \cup Mm \cup Both)
    BY <1>1, <2>1 DEF Tree, Of
  <2>3. s.fun[q] = "p4" => s.fun[p] = "p4" /\ q \in Second(s)
    BY <1>1, <2>1 DEF Tree, Of, Second
  <2>4. s.fun[q] \notin Family \cup {"p2", "p3", "p5", "p6", "p7"}
    BY <1>1, <2>1 DEF Tree, Family, Kids
  <2> QED BY <2>1, <2>2, <2>3, <2>4 DEF Loud, Family, Fetch, Mm, Both, Kernel
<1>6. ASSUME NEW q \in Below(s, p) \ {p} PROVE Quiet(s, q) /\ s.fun[q] \notin Family
  <2>1. CASE s.fun[p] = "p5" /\ q \in Of(s, Fetch \cup Mm \cup Both)
    <3>1. p \in Of(s, {"p5"})
      BY <2>1 DEF Of
    <3>2. Quiet(s, q)
      BY <2>1, <3>1, QuietKids
    <3> QED BY <2>1, <3>2 DEF Of, Fetch, Mm, Both, Kernel, Family
  <2>2. CASE s.fun[p] = "p4" /\ q \in Second(s)
    <3>1. s.par[q] = p /\ p # 1 /\ s.fun[q] = "p4" /\ s.pos[q] \in Nat /\ q \in s.live
      BY <1>1, <1>4, <2>2 DEF Second, Of
    <3>2. p \in First(s)
      BY <1>1, <1>4, <2>2, <3>1 DEF Tree, First, Of
    <3>3. s.pos[q] > 3 /\ s.pos[q] <= 4
      <4>1. s.pos[p] > 9
        BY <2>2
      <4>2. Syn4(s) /\ Blk4(s)
        BY DEF Sync, Four
      <4> QED BY <2>2, <3>2, <4>1, <4>2 DEF Syn4, Blk4
    <3>4. s.pos[q] = 4
      BY <3>1, <3>3
    <3> QED BY <3>1, <3>4 DEF Quiet, Loud, Family
  <2> QED BY <1>5, <2>1, <2>2
<1>7. ASSUME NEW q \in s.live \ {1}, s.par[q] \in Below(s, p), s.par[q] # p PROVE FALSE
  <2>1. CASE s.fun[p] = "p5" /\ s.par[q] \in Of(s, Fetch \cup Mm \cup Both)
    <3>1. s.fun[s.par[q]] \in Fetch \cup Mm \cup Both /\ s.par[q] # 1
      BY <1>1, <2>1 DEF Of, Tree, Fetch, Mm, Both, Kernel
    <3>2. s.fun[q] \in {"p2", "p3", "p4", "p5", "p6", "p7"} \cup Family \cup Fetch \cup Mm \cup Both
      BY <1>3 DEF Loud, Family, Fetch, Mm, Both, Kernel
    <3>3. s.fun[s.par[q]] \in {"p4", "p5", "p8root"} \cup Kids
      BY <1>1, <3>1, <3>2 DEF Tree, Family, Kids
    <3> QED BY <3>1, <3>3 DEF Fetch, Mm, Both, Kernel, Kids
  <2>2. CASE s.fun[p] = "p4" /\ s.par[q] \in Second(s)
    <3>1. s.fun[s.par[q]] = "p4" /\ s.par[q] # 1 /\ s.par[s.par[q]] = p
      BY <1>1, <1>4, <1>7, <2>2 DEF Second, Of, Tree
    <3>2. s.fun[q] \in {"p2", "p3", "p4", "p5", "p6", "p7"} \cup Family \cup Fetch \cup Mm \cup Both
      BY <1>3 DEF Loud, Family, Fetch, Mm, Both, Kernel
    <3>3. s.fun[q] # "p4"
      BY <1>1, <3>1 DEF Tree
    <3>4. s.fun[s.par[q]] \in {"p5", "p8root"} \cup Kids
      BY <1>1, <3>1, <3>2, <3>3 DEF Tree, Family, Kids
    <3> QED BY <3>1, <3>4 DEF Kids
  <2> QED BY <1>5, <1>7, <2>1, <2>2
<1>8. \A q \in s.live \ {1} : s.par[q] \in Below(s, p) => q \in Below(s, p)
  BY <1>7 DEF Below
<1>9. 1 \notin Below(s, p) /\ p \notin Below(s, p) \ {p}
  BY DEF Below
<1> QED BY <1>6, <1>8, <1>9

-----------------------------------------------------------------------------
(* The text of the test program *)

MemNames == {"p1p2synch", "p4inc", "p5dmode", "p8inc", "creation", "p3pid", "p8pid",
             "leaf1pid", "leaf2pid", "leaf3pid", "leaf4pid"}
Kinds    == {"pgm", "tlb", "sys"}

\* What the call at k in f does to the semaphores that are counted.
Tally(f, k) ==
  LET at(g, n) == N(f = g /\ k = n) IN
  [endp2  |-> at("p2", 10) - at("test", 7),
   endp3  |-> at("p3", 8) - at("test", 12),
   synp4  |-> at("p4", 3) - at("p4", 6) - at("p4", 9),
   blkp4  |-> 2 * at("p5", 5) - at("p4", 4) - at("test", 20),
   blkp5a |-> at("p5prog_fetch", 2) - at("p5", 7),
   blkp5b |-> at("p5mm", 2) - at("p5", 9),
   blkp5c |-> at("p5c_kernel", 5) - at("p5", 12),
   blkp5cint |-> at("p5prog_instr", 2) - at("p5c", 3),
   endp5  |-> at("p5", 14) - at("test", 18),
   blkp6  |-> at("p7", 3) + at("test", 22) - 2 * at("p6", 2),
   endp6  |-> at("p6", 4) - at("test", 23),
   endp8  |-> at("p8root", 12) - at("test", 30),
   endcreate |-> at("p8leaf", 2) - 4 * at("p8root", 6)]

\* What may be at position k of f: a call of semop, ...
SemopAt(f, k, i) ==
  IF i.op = "semop"
  THEN /\ i.n \in {-4, -2, -1, 1, 2, 4} /\ i.arg \in SemNames \ {"term_mut"}
       /\ \A x \in Counted : Tally(f, k)[x] = IF i.arg = x THEN i.n ELSE 0
  ELSE \A x \in Counted : Tally(f, k)[x] = 0

\* ... what ends or may end the process, ...
EndAt(f, k, i) ==
  /\ i.op \in {"exit", "spec", "raise"} =>
       /\ f \notin Family /\ (f = "test" => k = 38)
       /\ f = "p4" => k > 9
       /\ f = "p5" => k > 14
  /\ i.op = "kill" => /\ i.arg \in MemNames
                      /\ (f = "test" /\ k = 31) \/ (f = "p8root" /\ k \in 7 .. 10)
  /\ i.op = "spec" => i.arg \in Kinds /\ f \notin {"test", "p6", "p7"}

\* ... what goes on elsewhere, ...
Raises == {<<"p5a", 3, "p5prog_fetch">>, <<"p5b", 3, "p5mm">>,
           <<"p5c_user", 3, "p5sys_user">>, <<"p5c_user", 4, "p5prog_instr">>,
           <<"p5c_kernel", 2, "p5sys_kernel">>}
JumpAt(f, k, i) ==
  /\ i.op = "raise" => f \in {"test", "p6", "p7"} \/ <<f, k, i.to>> \in Raises
  /\ i.op = "exitTrap" => f \in {"p5sys_user", "p5sys_kernel"}
  /\ i.op = "branch" => f = "p5c" /\ k = 4 /\ i = Branch("p5dmode", "p5c_user", "p5c_kernel")
  /\ i.op = "until" => <<f, k>> \in {<<"test", 33>>, <<"p3", 4>>, <<"p5", 4>>}
  /\ f = "p5" /\ k = 4 => i = Until("p4dead")
  /\ f = "p5c" /\ k = 4 => i.op = "branch"
  /\ f = "p5c_user" /\ k = 4 => i.op = "raise"
  /\ i.op = "again" => f = "test" /\ k = 36 /\ i.n = 11

\* ... or what changes variables, makes processes or prints.
Stores == {<<"test", 10, "p3pid">>, <<"test", 28, "creation">>, <<"p8root", 2, "p8pid">>,
           <<"child1", 3, "leaf1pid">>, <<"child1", 5, "leaf2pid">>,
           <<"child2", 3, "leaf3pid">>, <<"child2", 5, "leaf4pid">>}
DataAt(f, k, i) ==
  /\ i = Message <=> k \in Loud[f]
  /\ i.op # "io" /\ (i.op = "print" => i = Message)
  /\ i.op = "create" => <<f, k, i.arg>> \in Makes
  /\ i.op = "store" => <<f, k, i.arg>> \in Stores
  /\ i.op = "incr" => i.arg \in {"p1p2synch", "p4inc", "p5dmode", "p8inc"}
  /\ i.op = "incr" /\ i.arg = "p5dmode" <=> f = "p5c_user" /\ k = 1
  /\ i.op = "reset" => i.arg \in {"blkleaves", "s"}
  /\ i.op = "clock" /\ f = "test" => k = 32

Legal(f, k, i) == SemopAt(f, k, i) /\ EndAt(f, k, i) /\ JumpAt(f, k, i) /\ DataAt(f, k, i)


LEMMA Text_p2 == \A k \in DOMAIN p2 : Legal("p2", k, p2[k])
<1> DEFINE L(k) == Legal("p2", k, p2[k])
<1> USE DEF p2, V, W, Reset, Create, Store, Incr, Ensure, Kill, Exit, GetPid, WaitClock, Until,
            SpecHdl, Raise, ExitTrap, Branch, Again, Message, Legal, SemopAt, Tally, N,
            Counted, SemNames, EndAt, Family, MemNames, Kinds, JumpAt, Raises, DataAt,
            Loud, Makes, Stores
<1>1. L(1)  OBVIOUS
<1>2. L(2)  OBVIOUS
<1>3. L(3)  OBVIOUS
<1>4. L(4)  OBVIOUS
<1>5. L(5)  OBVIOUS
<1>6. L(6)  OBVIOUS
<1>7. L(7)  OBVIOUS
<1>8. L(8)  OBVIOUS
<1>9. L(9)  OBVIOUS
<1>10. L(10)  OBVIOUS
<1>11. L(11)  OBVIOUS
<1>12. DOMAIN p2 = 1 .. 11  OBVIOUS
<1> HIDE DEF L, p2
<1>13. \A k \in 1 .. 11 : \/ k = 1 \/ k = 2 \/ k = 3 \/ k = 4 \/ k = 5 \/ k = 6 
                        \/ k = 7 \/ k = 8 \/ k = 9 \/ k = 10 \/ k = 11 
  OBVIOUS
<1>14. \A k \in DOMAIN p2 : L(k)
  BY <1>1, <1>2, <1>3, <1>4, <1>5, <1>6, <1>7, <1>8, <1>9, <1>10, <1>11, <1>12,
     <1>13
<1> QED BY <1>14 DEF L

LEMMA Text_p3 == \A k \in DOMAIN p3 : Legal("p3", k, p3[k])
<1> DEFINE L(k) == Legal("p3", k, p3[k])
<1> USE DEF p3, V, W, Reset, Create, Store, Incr, Ensure, Kill, Exit, GetPid, WaitClock, Until,
            SpecHdl, Raise, ExitTrap, Branch, Again, Message, Legal, SemopAt, Tally, N,
            Counted, SemNames, EndAt, Family, MemNames, Kinds, JumpAt, Raises, DataAt,
            Loud, Makes, Stores
<1>1. L(1)  OBVIOUS
<1>2. L(2)  OBVIOUS
<1>3. L(3)  OBVIOUS
<1>4. L(4)  OBVIOUS
<1>5. L(5)  OBVIOUS
<1>6. L(6)  OBVIOUS
<1>7. L(7)  OBVIOUS
<1>8. L(8)  OBVIOUS
<1>9. L(9)  OBVIOUS
<1>10. DOMAIN p3 = 1 .. 9  OBVIOUS
<1> HIDE DEF L, p3
<1>11. \A k \in 1 .. 9 : \/ k = 1 \/ k = 2 \/ k = 3 \/ k = 4 \/ k = 5 \/ k = 6 
                        \/ k = 7 \/ k = 8 \/ k = 9 
  OBVIOUS
<1>12. \A k \in DOMAIN p3 : L(k)
  BY <1>1, <1>2, <1>3, <1>4, <1>5, <1>6, <1>7, <1>8, <1>9, <1>10, <1>11
<1> QED BY <1>12 DEF L

LEMMA Text_p4 == \A k \in DOMAIN p4 : Legal("p4", k, p4[k])
<1> DEFINE L(k) == Legal("p4", k, p4[k])
<1> USE DEF p4, V, W, Reset, Create, Store, Incr, Ensure, Kill, Exit, GetPid, WaitClock, Until,
            SpecHdl, Raise, ExitTrap, Branch, Again, Message, Legal, SemopAt, Tally, N,
            Counted, SemNames, EndAt, Family, MemNames, Kinds, JumpAt, Raises, DataAt,
            Loud, Makes, Stores
<1>1. L(1)  OBVIOUS
<1>2. L(2)  OBVIOUS
<1>3. L(3)  OBVIOUS
<1>4. L(4)  OBVIOUS
<1>5. L(5)  OBVIOUS
<1>6. L(6)  OBVIOUS
<1>7. L(7)  OBVIOUS
<1>8. L(8)  OBVIOUS
<1>9. L(9)  OBVIOUS
<1>10. L(10)  OBVIOUS
<1>11. L(11)  OBVIOUS
<1>12. L(12)  OBVIOUS
<1>13. DOMAIN p4 = 1 .. 12  OBVIOUS
<1> HIDE DEF L, p4
<1>14. \A k \in 1 .. 12 : \/ k = 1 \/ k = 2 \/ k = 3 \/ k = 4 \/ k = 5 \/ k = 6 
                        \/ k = 7 \/ k = 8 \/ k = 9 \/ k = 10 \/ k = 11 \/ k = 12 
  OBVIOUS
<1>15. \A k \in DOMAIN p4 : L(k)
  BY <1>1, <1>2, <1>3, <1>4, <1>5, <1>6, <1>7, <1>8, <1>9, <1>10, <1>11, <1>12,
     <1>13, <1>14
<1> QED BY <1>15 DEF L

LEMMA Text_p5 == \A k \in DOMAIN p5 : Legal("p5", k, p5[k])
<1> DEFINE L(k) == Legal("p5", k, p5[k])
<1> USE DEF p5, V, W, Reset, Create, Store, Incr, Ensure, Kill, Exit, GetPid, WaitClock, Until,
            SpecHdl, Raise, ExitTrap, Branch, Again, Message, Legal, SemopAt, Tally, N,
            Counted, SemNames, EndAt, Family, MemNames, Kinds, JumpAt, Raises, DataAt,
            Loud, Makes, Stores
<1>1. L(1)  OBVIOUS
<1>2. L(2)  OBVIOUS
<1>3. L(3)  OBVIOUS
<1>4. L(4)  OBVIOUS
<1>5. L(5)  OBVIOUS
<1>6. L(6)  OBVIOUS
<1>7. L(7)  OBVIOUS
<1>8. L(8)  OBVIOUS
<1>9. L(9)  OBVIOUS
<1>10. L(10)  OBVIOUS
<1>11. L(11)  OBVIOUS
<1>12. L(12)  OBVIOUS
<1>13. L(13)  OBVIOUS
<1>14. L(14)  OBVIOUS
<1>15. L(15)  OBVIOUS
<1>16. L(16)  OBVIOUS
<1>17. DOMAIN p5 = 1 .. 16  OBVIOUS
<1> HIDE DEF L, p5
<1>18. \A k \in 1 .. 16 : \/ k = 1 \/ k = 2 \/ k = 3 \/ k = 4 \/ k = 5 \/ k = 6 
                        \/ k = 7 \/ k = 8 \/ k = 9 \/ k = 10 \/ k = 11 \/ k = 12 
                        \/ k = 13 \/ k = 14 \/ k = 15 \/ k = 16 
  OBVIOUS
<1>19. \A k \in DOMAIN p5 : L(k)
  BY <1>1, <1>2, <1>3, <1>4, <1>5, <1>6, <1>7, <1>8, <1>9, <1>10, <1>11, <1>12,
     <1>13, <1>14, <1>15, <1>16, <1>17, <1>18
<1> QED BY <1>19 DEF L

LEMMA Text_p5a == \A k \in DOMAIN p5a : Legal("p5a", k, p5a[k])
<1> DEFINE L(k) == Legal("p5a", k, p5a[k])
<1> USE DEF p5a, V, W, Reset, Create, Store, Incr, Ensure, Kill, Exit, GetPid, WaitClock, Until,
            SpecHdl, Raise, ExitTrap, Branch, Again, Message, Legal, SemopAt, Tally, N,
            Counted, SemNames, EndAt, Family, MemNames, Kinds, JumpAt, Raises, DataAt,
            Loud, Makes, Stores
<1>1. L(1)  OBVIOUS
<1>2. L(2)  OBVIOUS
<1>3. L(3)  OBVIOUS
<1>4. DOMAIN p5a = 1 .. 3  OBVIOUS
<1> HIDE DEF L, p5a
<1>5. \A k \in 1 .. 3 : \/ k = 1 \/ k = 2 \/ k = 3 
  OBVIOUS
<1>6. \A k \in DOMAIN p5a : L(k)
  BY <1>1, <1>2, <1>3, <1>4, <1>5
<1> QED BY <1>6 DEF L

LEMMA Text_p5b == \A k \in DOMAIN p5b : Legal("p5b", k, p5b[k])
<1> DEFINE L(k) == Legal("p5b", k, p5b[k])
<1> USE DEF p5b, V, W, Reset, Create, Store, Incr, Ensure, Kill, Exit, GetPid, WaitClock, Until,
            SpecHdl, Raise, ExitTrap, Branch, Again, Message, Legal, SemopAt, Tally, N,
            Counted, SemNames, EndAt, Family, MemNames, Kinds, JumpAt, Raises, DataAt,
            Loud, Makes, Stores
<1>1. L(1)  OBVIOUS
<1>2. L(2)  OBVIOUS
<1>3. L(3)  OBVIOUS
<1>4. DOMAIN p5b = 1 .. 3  OBVIOUS
<1> HIDE DEF L, p5b
<1>5. \A k \in 1 .. 3 : \/ k = 1 \/ k = 2 \/ k = 3 
  OBVIOUS
<1>6. \A k \in DOMAIN p5b : L(k)
  BY <1>1, <1>2, <1>3, <1>4, <1>5
<1> QED BY <1>6 DEF L

LEMMA Text_p5c == \A k \in DOMAIN p5c : Legal("p5c", k, p5c[k])
<1> DEFINE L(k) == Legal("p5c", k, p5c[k])
<1> USE DEF p5c, V, W, Reset, Create, Store, Incr, Ensure, Kill, Exit, GetPid, WaitClock, Until,
            SpecHdl, Raise, ExitTrap, Branch, Again, Message, Legal, SemopAt, Tally, N,
            Counted, SemNames, EndAt, Family, MemNames, Kinds, JumpAt, Raises, DataAt,
            Loud, Makes, Stores
<1>1. L(1)  OBVIOUS
<1>2. L(2)  OBVIOUS
<1>3. L(3)  OBVIOUS
<1>4. L(4)  OBVIOUS
<1>5. DOMAIN p5c = 1 .. 4  OBVIOUS
<1> HIDE DEF L, p5c
<1>6. \A k \in 1 .. 4 : \/ k = 1 \/ k = 2 \/ k = 3 \/ k = 4 
  OBVIOUS
<1>7. \A k \in DOMAIN p5c : L(k)
  BY <1>1, <1>2, <1>3, <1>4, <1>5, <1>6
<1> QED BY <1>7 DEF L

LEMMA Text_p5c_user == \A k \in DOMAIN p5c_user : Legal("p5c_user", k, p5c_user[k])
<1> DEFINE L(k) == Legal("p5c_user", k, p5c_user[k])
<1> USE DEF p5c_user, V, W, Reset, Create, Store, Incr, Ensure, Kill, Exit, GetPid, WaitClock, Until,
            SpecHdl, Raise, ExitTrap, Branch, Again, Message, Legal, SemopAt, Tally, N,
            Counted, SemNames, EndAt, Family, MemNames, Kinds, JumpAt, Raises, DataAt,
            Loud, Makes, Stores
<1>1. L(1)  OBVIOUS
<1>2. L(2)  OBVIOUS
<1>3. L(3)  OBVIOUS
<1>4. L(4)  OBVIOUS
<1>5. DOMAIN p5c_user = 1 .. 4  OBVIOUS
<1> HIDE DEF L, p5c_user
<1>6. \A k \in 1 .. 4 : \/ k = 1 \/ k = 2 \/ k = 3 \/ k = 4 
  OBVIOUS
<1>7. \A k \in DOMAIN p5c_user : L(k)
  BY <1>1, <1>2, <1>3, <1>4, <1>5, <1>6
<1> QED BY <1>7 DEF L

LEMMA Text_p5c_kernel == \A k \in DOMAIN p5c_kernel : Legal("p5c_kernel", k, p5c_kernel[k])
<1> DEFINE L(k) == Legal("p5c_kernel", k, p5c_kernel[k])
<1> USE DEF p5c_kernel, V, W, Reset, Create, Store, Incr, Ensure, Kill, Exit, GetPid, WaitClock, Until,
            SpecHdl, Raise, ExitTrap, Branch, Again, Message, Legal, SemopAt, Tally, N,
            Counted, SemNames, EndAt, Family, MemNames, Kinds, JumpAt, Raises, DataAt,
            Loud, Makes, Stores
<1>1. L(1)  OBVIOUS
<1>2. L(2)  OBVIOUS
<1>3. L(3)  OBVIOUS
<1>4. L(4)  OBVIOUS
<1>5. L(5)  OBVIOUS
<1>6. L(6)  OBVIOUS
<1>7. DOMAIN p5c_kernel = 1 .. 6  OBVIOUS
<1> HIDE DEF L, p5c_kernel
<1>8. \A k \in 1 .. 6 : \/ k = 1 \/ k = 2 \/ k = 3 \/ k = 4 \/ k = 5 \/ k = 6 
  OBVIOUS
<1>9. \A k \in DOMAIN p5c_kernel : L(k)
  BY <1>1, <1>2, <1>3, <1>4, <1>5, <1>6, <1>7, <1>8
<1> QED BY <1>9 DEF L

LEMMA Text_p5prog_fetch == \A k \in DOMAIN p5prog_fetch : Legal("p5prog_fetch", k, p5prog_fetch[k])
<1> DEFINE L(k) == Legal("p5prog_fetch", k, p5prog_fetch[k])
<1> USE DEF p5prog_fetch, V, W, Reset, Create, Store, Incr, Ensure, Kill, Exit, GetPid, WaitClock, Until,
            SpecHdl, Raise, ExitTrap, Branch, Again, Message, Legal, SemopAt, Tally, N,
            Counted, SemNames, EndAt, Family, MemNames, Kinds, JumpAt, Raises, DataAt,
            Loud, Makes, Stores
<1>1. L(1)  OBVIOUS
<1>2. L(2)  OBVIOUS
<1>3. L(3)  OBVIOUS
<1>4. DOMAIN p5prog_fetch = 1 .. 3  OBVIOUS
<1> HIDE DEF L, p5prog_fetch
<1>5. \A k \in 1 .. 3 : \/ k = 1 \/ k = 2 \/ k = 3 
  OBVIOUS
<1>6. \A k \in DOMAIN p5prog_fetch : L(k)
  BY <1>1, <1>2, <1>3, <1>4, <1>5
<1> QED BY <1>6 DEF L

LEMMA Text_p5prog_instr == \A k \in DOMAIN p5prog_instr : Legal("p5prog_instr", k, p5prog_instr[k])
<1> DEFINE L(k) == Legal("p5prog_instr", k, p5prog_instr[k])
<1> USE DEF p5prog_instr, V, W, Reset, Create, Store, Incr, Ensure, Kill, Exit, GetPid, WaitClock, Until,
            SpecHdl, Raise, ExitTrap, Branch, Again, Message, Legal, SemopAt, Tally, N,
            Counted, SemNames, EndAt, Family, MemNames, Kinds, JumpAt, Raises, DataAt,
            Loud, Makes, Stores
<1>1. L(1)  OBVIOUS
<1>2. L(2)  OBVIOUS
<1>3. L(3)  OBVIOUS
<1>4. DOMAIN p5prog_instr = 1 .. 3  OBVIOUS
<1> HIDE DEF L, p5prog_instr
<1>5. \A k \in 1 .. 3 : \/ k = 1 \/ k = 2 \/ k = 3 
  OBVIOUS
<1>6. \A k \in DOMAIN p5prog_instr : L(k)
  BY <1>1, <1>2, <1>3, <1>4, <1>5
<1> QED BY <1>6 DEF L

LEMMA Text_p5mm == \A k \in DOMAIN p5mm : Legal("p5mm", k, p5mm[k])
<1> DEFINE L(k) == Legal("p5mm", k, p5mm[k])
<1> USE DEF p5mm, V, W, Reset, Create, Store, Incr, Ensure, Kill, Exit, GetPid, WaitClock, Until,
            SpecHdl, Raise, ExitTrap, Branch, Again, Message, Legal, SemopAt, Tally, N,
            Counted, SemNames, EndAt, Family, MemNames, Kinds, JumpAt, Raises, DataAt,
            Loud, Makes, Stores
<1>1. L(1)  OBVIOUS
<1>2. L(2)  OBVIOUS
<1>3. L(3)  OBVIOUS
<1>4. DOMAIN p5mm = 1 .. 3  OBVIOUS
<1> HIDE DEF L, p5mm
<1>5. \A k \in 1 .. 3 : \/ k = 1 \/ k = 2 \/ k = 3 
  OBVIOUS
<1>6. \A k \in DOMAIN p5mm : L(k)
  BY <1>1, <1>2, <1>3, <1>4, <1>5
<1> QED BY <1>6 DEF L

LEMMA Text_p5sys_user == \A k \in DOMAIN p5sys_user : Legal("p5sys_user", k, p5sys_user[k])
<1> DEFINE L(k) == Legal("p5sys_user", k, p5sys_user[k])
<1> USE DEF p5sys_user, V, W, Reset, Create, Store, Incr, Ensure, Kill, Exit, GetPid, WaitClock, Until,
            SpecHdl, Raise, ExitTrap, Branch, Again, Message, Legal, SemopAt, Tally, N,
            Counted, SemNames, EndAt, Family, MemNames, Kinds, JumpAt, Raises, DataAt,
            Loud, Makes, Stores
<1>1. L(1)  OBVIOUS
<1>2. L(2)  OBVIOUS
<1>3. L(3)  OBVIOUS
<1>4. DOMAIN p5sys_user = 1 .. 3  OBVIOUS
<1> HIDE DEF L, p5sys_user
<1>5. \A k \in 1 .. 3 : \/ k = 1 \/ k = 2 \/ k = 3 
  OBVIOUS
<1>6. \A k \in DOMAIN p5sys_user : L(k)
  BY <1>1, <1>2, <1>3, <1>4, <1>5
<1> QED BY <1>6 DEF L

LEMMA Text_p5sys_kernel == \A k \in DOMAIN p5sys_kernel : Legal("p5sys_kernel", k, p5sys_kernel[k])
<1> DEFINE L(k) == Legal("p5sys_kernel", k, p5sys_kernel[k])
<1> USE DEF p5sys_kernel, V, W, Reset, Create, Store, Incr, Ensure, Kill, Exit, GetPid, WaitClock, Until,
            SpecHdl, Raise, ExitTrap, Branch, Again, Message, Legal, SemopAt, Tally, N,
            Counted, SemNames, EndAt, Family, MemNames, Kinds, JumpAt, Raises, DataAt,
            Loud, Makes, Stores
<1>1. L(1)  OBVIOUS
<1>2. L(2)  OBVIOUS
<1>3. DOMAIN p5sys_kernel = 1 .. 2  OBVIOUS
<1> HIDE DEF L, p5sys_kernel
<1>4. \A k \in 1 .. 2 : \/ k = 1 \/ k = 2 
  OBVIOUS
<1>5. \A k \in DOMAIN p5sys_kernel : L(k)
  BY <1>1, <1>2, <1>3, <1>4
<1> QED BY <1>5 DEF L

LEMMA Text_p6 == \A k \in DOMAIN p6 : Legal("p6", k, p6[k])
<1> DEFINE L(k) == Legal("p6", k, p6[k])
<1> USE DEF p6, V, W, Reset, Create, Store, Incr, Ensure, Kill, Exit, GetPid, WaitClock, Until,
            SpecHdl, Raise, ExitTrap, Branch, Again, Message, Legal, SemopAt, Tally, N,
            Counted, SemNames, EndAt, Family, MemNames, Kinds, JumpAt, Raises, DataAt,
            Loud, Makes, Stores
<1>1. L(1)  OBVIOUS
<1>2. L(2)  OBVIOUS
<1>3. L(3)  OBVIOUS
<1>4. L(4)  OBVIOUS
<1>5. L(5)  OBVIOUS
<1>6. DOMAIN p6 = 1 .. 5  OBVIOUS
<1> HIDE DEF L, p6
<1>7. \A k \in 1 .. 5 : \/ k = 1 \/ k = 2 \/ k = 3 \/ k = 4 \/ k = 5 
  OBVIOUS
<1>8. \A k \in DOMAIN p6 : L(k)
  BY <1>1, <1>2, <1>3, <1>4, <1>5, <1>6, <1>7
<1> QED BY <1>8 DEF L

LEMMA Text_p7 == \A k \in DOMAIN p7 : Legal("p7", k, p7[k])
<1> DEFINE L(k) == Legal("p7", k, p7[k])
<1> USE DEF p7, V, W, Reset, Create, Store, Incr, Ensure, Kill, Exit, GetPid, WaitClock, Until,
            SpecHdl, Raise, ExitTrap, Branch, Again, Message, Legal, SemopAt, Tally, N,
            Counted, SemNames, EndAt, Family, MemNames, Kinds, JumpAt, Raises, DataAt,
            Loud, Makes, Stores
<1>1. L(1)  OBVIOUS
<1>2. L(2)  OBVIOUS
<1>3. L(3)  OBVIOUS
<1>4. L(4)  OBVIOUS
<1>5. DOMAIN p7 = 1 .. 4  OBVIOUS
<1> HIDE DEF L, p7
<1>6. \A k \in 1 .. 4 : \/ k = 1 \/ k = 2 \/ k = 3 \/ k = 4 
  OBVIOUS
<1>7. \A k \in DOMAIN p7 : L(k)
  BY <1>1, <1>2, <1>3, <1>4, <1>5, <1>6
<1> QED BY <1>7 DEF L

LEMMA Text_p8root == \A k \in DOMAIN p8root : Legal("p8root", k, p8root[k])
<1> DEFINE L(k) == Legal("p8root", k, p8root[k])
<1> USE DEF p8root, V, W, Reset, Create, Store, Incr, Ensure, Kill, Exit, GetPid, WaitClock, Until,
            SpecHdl, Raise, ExitTrap, Branch, Again, Message, Legal, SemopAt, Tally, N,
            Counted, SemNames, EndAt, Family, MemNames, Kinds, JumpAt, Raises, DataAt,
            Loud, Makes, Stores
<1>1. L(1)  OBVIOUS
<1>2. L(2)  OBVIOUS
<1>3. L(3)  OBVIOUS
<1>4. L(4)  OBVIOUS
<1>5. L(5)  OBVIOUS
<1>6. L(6)  OBVIOUS
<1>7. L(7)  OBVIOUS
<1>8. L(8)  OBVIOUS
<1>9. L(9)  OBVIOUS
<1>10. L(10)  OBVIOUS
<1>11. L(11)  OBVIOUS
<1>12. L(12)  OBVIOUS
<1>13. L(13)  OBVIOUS
<1>14. DOMAIN p8root = 1 .. 13  OBVIOUS
<1> HIDE DEF L, p8root
<1>15. \A k \in 1 .. 13 : \/ k = 1 \/ k = 2 \/ k = 3 \/ k = 4 \/ k = 5 \/ k = 6 
                        \/ k = 7 \/ k = 8 \/ k = 9 \/ k = 10 \/ k = 11 \/ k = 12 
                        \/ k = 13 
  OBVIOUS
<1>16. \A k \in DOMAIN p8root : L(k)
  BY <1>1, <1>2, <1>3, <1>4, <1>5, <1>6, <1>7, <1>8, <1>9, <1>10, <1>11, <1>12,
     <1>13, <1>14, <1>15
<1> QED BY <1>16 DEF L

LEMMA Text_child1 == \A k \in DOMAIN child1 : Legal("child1", k, child1[k])
<1> DEFINE L(k) == Legal("child1", k, child1[k])
<1> USE DEF child1, V, W, Reset, Create, Store, Incr, Ensure, Kill, Exit, GetPid, WaitClock, Until,
            SpecHdl, Raise, ExitTrap, Branch, Again, Message, Legal, SemopAt, Tally, N,
            Counted, SemNames, EndAt, Family, MemNames, Kinds, JumpAt, Raises, DataAt,
            Loud, Makes, Stores
<1>1. L(1)  OBVIOUS
<1>2. L(2)  OBVIOUS
<1>3. L(3)  OBVIOUS
<1>4. L(4)  OBVIOUS
<1>5. L(5)  OBVIOUS
<1>6. L(6)  OBVIOUS
<1>7. DOMAIN child1 = 1 .. 6  OBVIOUS
<1> HIDE DEF L, child1
<1>8. \A k \in 1 .. 6 : \/ k = 1 \/ k = 2 \/ k = 3 \/ k = 4 \/ k = 5 \/ k = 6 
  OBVIOUS
<1>9. \A k \in DOMAIN child1 : L(k)
  BY <1>1, <1>2, <1>3, <1>4, <1>5, <1>6, <1>7, <1>8
<1> QED BY <1>9 DEF L

LEMMA Text_child2 == \A k \in DOMAIN child2 : Legal("child2", k, child2[k])
<1> DEFINE L(k) == Legal("child2", k, child2[k])
<1> USE DEF child2, V, W, Reset, Create, Store, Incr, Ensure, Kill, Exit, GetPid, WaitClock, Until,
            SpecHdl, Raise, ExitTrap, Branch, Again, Message, Legal, SemopAt, Tally, N,
            Counted, SemNames, EndAt, Family, MemNames, Kinds, JumpAt, Raises, DataAt,
            Loud, Makes, Stores
<1>1. L(1)  OBVIOUS
<1>2. L(2)  OBVIOUS
<1>3. L(3)  OBVIOUS
<1>4. L(4)  OBVIOUS
<1>5. L(5)  OBVIOUS
<1>6. L(6)  OBVIOUS
<1>7. DOMAIN child2 = 1 .. 6  OBVIOUS
<1> HIDE DEF L, child2
<1>8. \A k \in 1 .. 6 : \/ k = 1 \/ k = 2 \/ k = 3 \/ k = 4 \/ k = 5 \/ k = 6 
  OBVIOUS
<1>9. \A k \in DOMAIN child2 : L(k)
  BY <1>1, <1>2, <1>3, <1>4, <1>5, <1>6, <1>7, <1>8
<1> QED BY <1>9 DEF L

LEMMA Text_p8leaf == \A k \in DOMAIN p8leaf : Legal("p8leaf", k, p8leaf[k])
<1> DEFINE L(k) == Legal("p8leaf", k, p8leaf[k])
<1> USE DEF p8leaf, V, W, Reset, Create, Store, Incr, Ensure, Kill, Exit, GetPid, WaitClock, Until,
            SpecHdl, Raise, ExitTrap, Branch, Again, Message, Legal, SemopAt, Tally, N,
            Counted, SemNames, EndAt, Family, MemNames, Kinds, JumpAt, Raises, DataAt,
            Loud, Makes, Stores
<1>1. L(1)  OBVIOUS
<1>2. L(2)  OBVIOUS
<1>3. L(3)  OBVIOUS
<1>4. DOMAIN p8leaf = 1 .. 3  OBVIOUS
<1> HIDE DEF L, p8leaf
<1>5. \A k \in 1 .. 3 : \/ k = 1 \/ k = 2 \/ k = 3 
  OBVIOUS
<1>6. \A k \in DOMAIN p8leaf : L(k)
  BY <1>1, <1>2, <1>3, <1>4, <1>5
<1> QED BY <1>6 DEF L


LEMMA Text_test == \A k \in DOMAIN test : Legal("test", k, test[k])
<1> DEFINE L(k) == Legal("test", k, test[k])
<1> USE DEF test, p8round, V, W, Reset, Create, Store, Incr, Ensure, Kill, Exit, GetPid, WaitClock, Until,
            SpecHdl, Raise, ExitTrap, Branch, Again, Message, Legal, SemopAt, Tally, N,
            Counted, SemNames, EndAt, Family, MemNames, Kinds, JumpAt, Raises, DataAt,
            Loud, Makes, Stores
<1>1. L(1)  BY SMTT(30)
<1>2. L(2)  BY SMTT(30)
<1>3. L(3)  BY SMTT(30)
<1>4. L(4)  BY SMTT(30)
<1>5. L(5)  BY SMTT(30)
<1>6. L(6)  BY SMTT(30)
<1>7. L(7)  BY SMTT(30)
<1>8. L(8)  BY SMTT(30)
<1>9. L(9)  BY SMTT(30)
<1>10. L(10)  BY SMTT(30)
<1>11. L(11)  BY SMTT(30)
<1>12. L(12)  BY SMTT(30)
<1>13. L(13)  BY SMTT(30)
<1>14. L(14)  BY SMTT(30)
<1>15. L(15)  BY SMTT(30)
<1>16. L(16)  BY SMTT(30)
<1>17. L(17)  BY SMTT(30)
<1>18. L(18)  BY SMTT(30)
<1>19. L(19)  BY SMTT(30)
<1>20. L(20)  BY SMTT(30)
<1>21. L(21)  BY SMTT(30)
<1>22. L(22)  BY SMTT(30)
<1>23. L(23)  BY SMTT(30)
<1>24. L(24)  BY SMTT(30)
<1>25. L(25)  BY SMTT(30)
<1>26. L(26)  BY SMTT(30)
<1>27. L(27)  BY SMTT(30)
<1>28. L(28)  BY SMTT(30)
<1>29. L(29)  BY SMTT(30)
<1>30. L(30)  BY SMTT(30)
<1>31. L(31)  BY SMTT(30)
<1>32. L(32)  BY SMTT(30)
<1>33. L(33)  BY SMTT(30)
<1>34. L(34)  BY SMTT(30)
<1>35. L(35)  BY SMTT(30)
<1>36. L(36)  BY SMTT(30)
<1>37. L(37)  BY SMTT(30)
<1>38. L(38)  BY SMTT(30)
<1>39. DOMAIN test = 1 .. 38  OBVIOUS
<1> HIDE DEF L, test, p8round
<1>40. \A k \in 1 .. 38 : \/ k = 1 \/ k = 2 \/ k = 3 \/ k = 4 \/ k = 5 \/ k = 6 
                        \/ k = 7 \/ k = 8 \/ k = 9 \/ k = 10 \/ k = 11 \/ k = 12 
                        \/ k = 13 \/ k = 14 \/ k = 15 \/ k = 16 \/ k = 17 
                        \/ k = 18 \/ k = 19 \/ k = 20 \/ k = 21 \/ k = 22 
                        \/ k = 23 \/ k = 24 \/ k = 25 \/ k = 26 \/ k = 27 
                        \/ k = 28 \/ k = 29 \/ k = 30 \/ k = 31 \/ k = 32 
                        \/ k = 33 \/ k = 34 \/ k = 35 \/ k = 36 \/ k = 37 
                        \/ k = 38 
  OBVIOUS
<1>41. \A k \in DOMAIN test : L(k)
  BY <1>1, <1>2, <1>3, <1>4, <1>5, <1>6, <1>7, <1>8, <1>9, <1>10, <1>11, <1>12,
     <1>13, <1>14, <1>15, <1>16, <1>17, <1>18, <1>19, <1>20, <1>21, <1>22,
     <1>23, <1>24, <1>25, <1>26, <1>27, <1>28, <1>29, <1>30, <1>31, <1>32,
     <1>33, <1>34, <1>35, <1>36, <1>37, <1>38, <1>39, <1>40
<1> QED BY <1>41 DEF L

LEMMA Lens ==
  /\ DOMAIN test = 1 .. 38 /\ Len(test) = 38
  /\ DOMAIN p2 = 1 .. 11 /\ Len(p2) = 11
  /\ DOMAIN p3 = 1 .. 9 /\ Len(p3) = 9
  /\ DOMAIN p4 = 1 .. 12 /\ Len(p4) = 12
  /\ DOMAIN p5 = 1 .. 16 /\ Len(p5) = 16
  /\ DOMAIN p5a = 1 .. 3 /\ Len(p5a) = 3
  /\ DOMAIN p5b = 1 .. 3 /\ Len(p5b) = 3
  /\ DOMAIN p5c = 1 .. 4 /\ Len(p5c) = 4
  /\ DOMAIN p5c_user = 1 .. 4 /\ Len(p5c_user) = 4
  /\ DOMAIN p5c_kernel = 1 .. 6 /\ Len(p5c_kernel) = 6
  /\ DOMAIN p5prog_fetch = 1 .. 3 /\ Len(p5prog_fetch) = 3
  /\ DOMAIN p5prog_instr = 1 .. 3 /\ Len(p5prog_instr) = 3
  /\ DOMAIN p5mm = 1 .. 3 /\ Len(p5mm) = 3
  /\ DOMAIN p5sys_user = 1 .. 3 /\ Len(p5sys_user) = 3
  /\ DOMAIN p5sys_kernel = 1 .. 2 /\ Len(p5sys_kernel) = 2
  /\ DOMAIN p6 = 1 .. 5 /\ Len(p6) = 5
  /\ DOMAIN p7 = 1 .. 4 /\ Len(p7) = 4
  /\ DOMAIN p8root = 1 .. 13 /\ Len(p8root) = 13
  /\ DOMAIN child1 = 1 .. 6 /\ Len(child1) = 6
  /\ DOMAIN child2 = 1 .. 6 /\ Len(child2) = 6
  /\ DOMAIN p8leaf = 1 .. 3 /\ Len(p8leaf) = 3
<1>1. DOMAIN test = 1 .. 38 /\ Len(test) = 38
  BY DEF test, p8round
<1>2. DOMAIN p2 = 1 .. 11 /\ Len(p2) = 11  BY DEF p2
<1>3. DOMAIN p3 = 1 .. 9 /\ Len(p3) = 9  BY DEF p3
<1>4. DOMAIN p4 = 1 .. 12 /\ Len(p4) = 12  BY DEF p4
<1>5. DOMAIN p5 = 1 .. 16 /\ Len(p5) = 16  BY DEF p5
<1>6. /\ DOMAIN p5a = 1 .. 3 /\ Len(p5a) = 3 /\ DOMAIN p5b = 1 .. 3 /\ Len(p5b) = 3
      /\ DOMAIN p5c = 1 .. 4 /\ Len(p5c) = 4
  BY DEF p5a, p5b, p5c
<1>7. DOMAIN p5c_user = 1 .. 4 /\ Len(p5c_user) = 4  BY DEF p5c_user
<1>8. DOMAIN p5c_kernel = 1 .. 6 /\ Len(p5c_kernel) = 6  BY DEF p5c_kernel
<1>9. DOMAIN p5prog_fetch = 1 .. 3 /\ Len(p5prog_fetch) = 3  BY DEF p5prog_fetch
<1>10. DOMAIN p5prog_instr = 1 .. 3 /\ Len(p5prog_instr) = 3  BY DEF p5prog_instr
<1>11. DOMAIN p5mm = 1 .. 3 /\ Len(p5mm) = 3  BY DEF p5mm
<1>12. DOMAIN p5sys_user = 1 .. 3 /\ Len(p5sys_user) = 3  BY DEF p5sys_user
<1>13. DOMAIN p5sys_kernel = 1 .. 2 /\ Len(p5sys_kernel) = 2  BY DEF p5sys_kernel
<1>14. DOMAIN p6 = 1 .. 5 /\ Len(p6) = 5 /\ DOMAIN p7 = 1 .. 4 /\ Len(p7) = 4  BY DEF p6, p7
<1>15. DOMAIN p8root = 1 .. 13 /\ Len(p8root) = 13  BY DEF p8root
<1>16. DOMAIN child1 = 1 .. 6 /\ Len(child1) = 6  BY DEF child1
<1>17. DOMAIN child2 = 1 .. 6 /\ Len(child2) = 6  BY DEF child2
<1>18. DOMAIN p8leaf = 1 .. 3 /\ Len(p8leaf) = 3  BY DEF p8leaf
<1> QED BY <1>1, <1>2, <1>3, <1>4, <1>5, <1>6, <1>7, <1>8, <1>9, <1>10, <1>11, <1>12,
           <1>13, <1>14, <1>15, <1>16, <1>17, <1>18, Zenon

Functions == {"test", "p2", "p3", "p4", "p5", "p5a", "p5b", "p5c", "p5c_user", "p5c_kernel",
              "p5prog_fetch", "p5prog_instr", "p5mm", "p5sys_user", "p5sys_kernel", "p6",
              "p7", "p8root", "child1", "child2", "p8leaf"}

LEMMA CodeIs ==
  /\ DOMAIN Code = Functions /\ DOMAIN Loud = Functions
  /\ Code["test"] = test /\ Code["p2"] = p2 /\ Code["p3"] = p3 /\ Code["p4"] = p4
  /\ Code["p5"] = p5 /\ Code["p5a"] = p5a /\ Code["p5b"] = p5b /\ Code["p5c"] = p5c
  /\ Code["p5c_user"] = p5c_user /\ Code["p5c_kernel"] = p5c_kernel
  /\ Code["p5prog_fetch"] = p5prog_fetch /\ Code["p5prog_instr"] = p5prog_instr
  /\ Code["p5mm"] = p5mm /\ Code["p5sys_user"] = p5sys_user
  /\ Code["p5sys_kernel"] = p5sys_kernel /\ Code["p6"] = p6 /\ Code["p7"] = p7
  /\ Code["p8root"] = p8root /\ Code["child1"] = child1 /\ Code["child2"] = child2
  /\ Code["p8leaf"] = p8leaf
BY DEF Code, Loud, Functions

LEMMA Text ==
  \A f \in Functions :
    /\ Len(Code[f]) \in Nat /\ DOMAIN Code[f] = 1 .. Len(Code[f])
    /\ \A k \in 1 .. Len(Code[f]) : Legal(f, k, Code[f][k])
<1> DEFINE T(f) == /\ Len(Code[f]) \in Nat /\ DOMAIN Code[f] = 1 .. Len(Code[f])
                   /\ \A k \in 1 .. Len(Code[f]) : Legal(f, k, Code[f][k])
<1>1. T("test")  BY CodeIs, Lens, Text_test
<1>2. T("p2")  BY CodeIs, Lens, Text_p2
<1>3. T("p3")  BY CodeIs, Lens, Text_p3
<1>4. T("p4")  BY CodeIs, Lens, Text_p4
<1>5. T("p5")  BY CodeIs, Lens, Text_p5
<1>6. T("p5a")  BY CodeIs, Lens, Text_p5a
<1>7. T("p5b")  BY CodeIs, Lens, Text_p5b
<1>8. T("p5c")  BY CodeIs, Lens, Text_p5c
<1>9. T("p5c_user")  BY CodeIs, Lens, Text_p5c_user
<1>10. T("p5c_kernel")  BY CodeIs, Lens, Text_p5c_kernel
<1>11. T("p5prog_fetch")  BY CodeIs, Lens, Text_p5prog_fetch
<1>12. T("p5prog_instr")  BY CodeIs, Lens, Text_p5prog_instr
<1>13. T("p5mm")  BY CodeIs, Lens, Text_p5mm
<1>14. T("p5sys_user")  BY CodeIs, Lens, Text_p5sys_user
<1>15. T("p5sys_kernel")  BY CodeIs, Lens, Text_p5sys_kernel
<1>16. T("p6")  BY CodeIs, Lens, Text_p6
<1>17. T("p7")  BY CodeIs, Lens, Text_p7
<1>18. T("p8root")  BY CodeIs, Lens, Text_p8root
<1>19. T("child1")  BY CodeIs, Lens, Text_child1
<1>20. T("child2")  BY CodeIs, Lens, Text_child2
<1>21. T("p8leaf")  BY CodeIs, Lens, Text_p8leaf
<1> HIDE DEF T
<1>22. \A f \in Functions : T(f)
  BY <1>1, <1>2, <1>3, <1>4, <1>5, <1>6, <1>7, <1>8, <1>9, <1>10, <1>11, <1>12, <1>13,
     <1>14, <1>15, <1>16, <1>17, <1>18, <1>19, <1>20, <1>21 DEF Functions
<1> QED BY <1>22 DEF T

LEMMA PrintIs ==
  /\ Len(print) = 2 * CHARS + 2 /\ Len(print) \in Nat /\ Len(print) > 2
  /\ print[1] = W("term_mut", 1) /\ print[Len(print)] = V("term_mut", 1)
  /\ \A i \in 2 .. Len(print) - 1 : print[i] \in {IoDevop, Status}
<1> DEFINE b == [i \in 1 .. 2 * CHARS |-> IF i % 2 = 1 THEN IoDevop ELSE Status]
           I == {W("term_mut", 1), IoDevop, Status, V("term_mut", 1)}
           a == <<W("term_mut", 1)>>
           c == <<V("term_mut", 1)>>
<1>1. CHARS \in Nat \ {0} /\ 2 * CHARS \in Nat
  BY TestAssumption
<1>2. b \in Seq(I) /\ Len(b) = 2 * CHARS /\ \A i \in 1 .. 2 * CHARS : b[i] \in {IoDevop, Status}
  BY <1>1
<1>3. a \in Seq(I) /\ Len(a) = 1 /\ a[1] = W("term_mut", 1)
  OBVIOUS
<1>4. c \in Seq(I) /\ Len(c) = 1 /\ c[1] = V("term_mut", 1)
  OBVIOUS
<1>5. print = (a \o b) \o c
  BY DEF print
<1> HIDE DEF a, b, c, I
<1>6. /\ a \o b \in Seq(I) /\ Len(a \o b) = Len(a) + Len(b)
      /\ \A i \in 1 .. Len(a) + Len(b) : (a \o b)[i] = IF i <= Len(a) THEN a[i] ELSE b[i - Len(a)]
  BY <1>2, <1>3, ConcatProperties, Zenon
<1> DEFINE d == a \o b
<1>7. d \in Seq(I) /\ print = d \o c
  BY <1>5, <1>6
<1>8. /\ Len(d) = 2 * CHARS + 1 /\ d[1] = W("term_mut", 1)
      /\ \A i \in 2 .. 2 * CHARS + 1 : d[i] \in {IoDevop, Status}
  <2>1. Len(d) = 2 * CHARS + 1
    BY <1>1, <1>2, <1>3, <1>6
  <2>2. \A i \in 1 .. 2 * CHARS + 1 : d[i] = IF i <= 1 THEN a[i] ELSE b[i - 1]
    BY <1>1, <1>2, <1>3, <1>6
  <2> HIDE DEF d
  <2> QED BY <1>1, <1>2, <1>3, <2>1, <2>2
<1> HIDE DEF d
<1>9. /\ Len(d \o c) = Len(d) + Len(c)
      /\ \A i \in 1 .. Len(d) + Len(c) : (d \o c)[i] = IF i <= Len(d) THEN d[i] ELSE c[i - Len(d)]
  BY <1>4, <1>7, ConcatProperties, Zenon
<1>10. /\ Len(print) = 2 * CHARS + 2
       /\ \A i \in 1 .. 2 * CHARS + 2 : print[i] = IF i <= 2 * CHARS + 1 THEN d[i] ELSE c[i - (2 * CHARS + 1)]
  <2>1. Len(print) = Len(d) + Len(c)
    BY <1>7, <1>9, Zenon
  <2>2. \A i \in 1 .. Len(d) + Len(c) : print[i] = IF i <= Len(d) THEN d[i] ELSE c[i - Len(d)]
    BY <1>7, <1>9, Zenon
  <2>3. Len(d) + Len(c) = 2 * CHARS + 2 /\ Len(d) = 2 * CHARS + 1
    BY <1>1, <1>4, <1>8
  <2> QED BY <2>1, <2>2, <2>3
<1> QED BY <1>1, <1>4, <1>8, <1>10
=============================================================================
