---------------------------- MODULE PagingProofs ----------------------------
(***************************************************************************)
(* The page tables stay a tree of their own, W^X holds of the memory, the  *)
(* TLB never holds a stale translation, the stack guard stays unmapped,    *)
(* and the tables implement the address space: for any number of levels    *)
(* and entries, any tables of the boot loader that PagingAssumption        *)
(* allows, any pool of frames, any boot calls and any windows.             *)
(*                                                                         *)
(* Induction is by a set of natural numbers: the library's induction       *)
(* theorems take an operator, which the provers cannot instantiate.        *)
(***************************************************************************)
EXTENDS Paging, WellFoundedInduction, TLAPS

\* Zenon is the default prover here; leaves with arithmetic, records or
\* functions that are beyond it cite SMT.
USE Zenon

-----------------------------------------------------------------------------
(* Induction and recursion *)

\* A nonempty set of natural numbers has a least element.
LEMMA LeastExists ==
    ASSUME NEW S \in SUBSET Nat, S # {}
    PROVE  \E m \in S : \A n \in S : m <= n
<1> DEFINE R == OpToRel(<, Nat)
<1>1. IsWellFoundedOn(R, Nat)
  BY NatLessThanWellFounded
<1>2. \E m \in S : \A n \in S : ~ (<<n, m>> \in R)
  <2> HIDE DEF R
  <2> QED BY <1>1, WFMin
<1>3. ASSUME NEW m \in S, NEW n \in S, ~ (<<n, m>> \in R)
      PROVE  m <= n
  BY SMT, <1>3 DEF OpToRel
<1> QED
  BY <1>2, <1>3

\* A set with 0 and the successor of each of its elements has every number up
\* to N, if it is closed that far.
LEMMA InductionTo ==
    ASSUME NEW N \in Nat, NEW P, 0 \in P,
           \A n \in 1 .. N : n - 1 \in P => n \in P
    PROVE  \A n \in 0 .. N : n \in P
<1> DEFINE Bad == {n \in 0 .. N : n \notin P}
<1> SUFFICES ASSUME Bad # {} PROVE FALSE
  OBVIOUS
<1>1. Bad \in SUBSET Nat
  BY SMT
<1>2. PICK m \in Bad : \A n \in Bad : m <= n
  <2> HIDE DEF Bad
  <2> QED BY <1>1, LeastExists
<1>3. m \in 0 .. N /\ m \notin P
  BY <1>2
<1>4. m # 0
  BY <1>3
<1>5. m \in 1 .. N /\ m - 1 \in 0 .. N /\ ~(m <= m - 1)
  BY SMT, <1>3, <1>4
<1>6. m - 1 \in P
  BY <1>2, <1>5
<1> QED
  BY <1>3, <1>5, <1>6

\* One round of each of the loops of the model; x says which loop, over what.
Turn(x, n, s) ==
    IF x[1] = "walk" THEN Down(x[2], s, x[3][n])
    ELSE IF x[1] = "descent" THEN create_next_table(s, x[2][n], x[3])
    ELSE IF x[1] = "rounds" THEN Round(s, x[2][n])
    ELSE unmap_page(s, x[2][n]).m

\* The values of a loop, from s0.
Turns(x, N, s0, f) ==
    f = [n \in 0 .. N |-> IF n = 0 THEN s0 ELSE Turn(x, n, f[n - 1])]

\* A loop has a value after each round.
LEMMA TurnsExist ==
    ASSUME NEW N \in Nat, NEW x, NEW s0
    PROVE  \E f : Turns(x, N, s0, f)
<1> DEFINE P == {n \in 0 .. N : \E f : Turns(x, n, s0, f)}
<1>1. 0 \in P
  <2> DEFINE f == [n \in 0 .. 0 |-> s0]
  <2>1. \A n \in 0 .. 0 : n = 0
    BY SMT
  <2>2. f = [n \in 0 .. 0 |-> IF n = 0 THEN s0 ELSE Turn(x, n, f[n - 1])]
    BY <2>1
  <2>3. 0 \in 0 .. N
    BY SMT
  <2>4. Turns(x, 0, s0, f)
    BY <2>2 DEF Turns
  <2> QED BY <2>3, <2>4
<1>2. ASSUME NEW n \in 1 .. N, n - 1 \in P PROVE n \in P
  <2>1. PICK f : Turns(x, n - 1, s0, f)
    BY <1>2
  <2> DEFINE g == [i \in 0 .. n |-> IF i = n THEN Turn(x, n, f[n - 1]) ELSE f[i]]
             h == [i \in 0 .. n |-> IF i = 0 THEN s0 ELSE Turn(x, i, g[i - 1])]
  <2>2. /\ \A i \in 0 .. n : i = n \/ i \in 0 .. n - 1
        /\ \A i \in 0 .. n : i # 0 => i - 1 \in 0 .. n /\ i - 1 # n
        /\ n # 0 /\ n \in 0 .. N
    BY SMT
  <2>3. ASSUME NEW i \in 0 .. n PROVE g[i] = h[i]
    <3>1. i # 0 => g[i - 1] = f[i - 1]
      BY <2>2
    <3>2. CASE i = n
      BY <2>2, <3>1, <3>2
    <3>3. CASE i # n
      <4>1. i \in 0 .. n - 1
        BY <2>2, <3>3
      <4>2. f[i] = IF i = 0 THEN s0 ELSE Turn(x, i, f[i - 1])
        BY <2>1, <4>1 DEF Turns
      <4> QED BY <3>1, <3>3, <4>2
    <3> QED BY <3>2, <3>3
  <2>4. g = h
    BY <2>3
  <2>5. Turns(x, n, s0, g)
    <3> HIDE DEF g
    <3> QED BY <2>4 DEF Turns
  <2> HIDE DEF g
  <2> QED BY <2>2, <2>5
<1>3. \A n \in 0 .. N : n \in P
  <2> HIDE DEF P
  <2> QED BY <1>1, <1>2, InductionTo
<1>4. N \in 0 .. N
  BY SMT
<1> QED
  BY <1>3, <1>4

Looped(x, N, s0) == CHOOSE f : Turns(x, N, s0, f)

\* What a loop computes, round by round.
Runs(x, N, s0, f) == f[0] = s0 /\ \A n \in 1 .. N : f[n] = Turn(x, n, f[n - 1])

\* A loop that recursion defines computes just that.
LEMMA LoopedIs ==
    ASSUME NEW N \in Nat, NEW x, NEW s0
    PROVE  Runs(x, N, s0, Looped(x, N, s0))
<1>1. Turns(x, N, s0, Looped(x, N, s0))
  BY TurnsExist DEF Looped
<1>2. 0 \in 0 .. N /\ \A n \in 1 .. N : n \in 0 .. N /\ n # 0
  BY SMT
<1> QED
  BY <1>1, <1>2 DEF Turns, Runs

\* The walk, level by level.
LEMMA StepsDef ==
    ASSUME NEW pt, NEW va
    PROVE  /\ Steps(pt, va)[0] = Entry(Cr3, TRUE, TRUE, FALSE)
           /\ \A k \in 1 .. Levels :
                 Steps(pt, va)[k] = Down(pt, Steps(pt, va)[k - 1], va[k])
<1> DEFINE x  == <<"walk", pt, va>>
           s0 == Entry(Cr3, TRUE, TRUE, FALSE)
<1>1. x[1] = "walk" /\ x[2] = pt /\ x[3] = va
  OBVIOUS
<1>2. \A n, s : Turn(x, n, s) = Down(pt, s, va[n])
  BY <1>1 DEF Turn
<1>4. ASSUME NEW f
      PROVE  Turns(x, Levels, s0, f) <=>
        f = [k \in 0 .. Levels |->
               IF k = 0 THEN Entry(Cr3, TRUE, TRUE, FALSE)
               ELSE CHOOSE t \in {Down(pt, s, va[k]) : s \in {f[k - 1]}} : TRUE]
  <2>1. ASSUME NEW k \in 0 .. Levels
        PROVE  (IF k = 0 THEN s0 ELSE Turn(x, k, f[k - 1]))
                 = IF k = 0 THEN Entry(Cr3, TRUE, TRUE, FALSE)
                   ELSE CHOOSE t \in {Down(pt, s, va[k]) : s \in {f[k - 1]}} : TRUE
    <3>1. (CHOOSE t \in {Down(pt, s, va[k]) : s \in {f[k - 1]}} : TRUE)
             = Down(pt, f[k - 1], va[k])
      OBVIOUS
    <3> QED BY <1>2, <3>1
  <2>2. [k \in 0 .. Levels |-> IF k = 0 THEN s0 ELSE Turn(x, k, f[k - 1])]
          = [k \in 0 .. Levels |->
               IF k = 0 THEN Entry(Cr3, TRUE, TRUE, FALSE)
               ELSE CHOOSE t \in {Down(pt, s, va[k]) : s \in {f[k - 1]}} : TRUE]
    BY <2>1
  <2> QED BY <2>2 DEF Turns
<1>5. Steps(pt, va) = Looped(x, Levels, s0)
  BY <1>4 DEF Steps, Looped
<1>6. Levels \in Nat
  BY PagingAssumption
<1> HIDE DEF x, s0
<1>7. Runs(x, Levels, s0, Looped(x, Levels, s0))
  BY <1>6, LoopedIs
<1> QED
  BY <1>2, <1>5, <1>7 DEF s0, Runs

-----------------------------------------------------------------------------
(* The tree of tables *)

PTE == Entries \cup {NoEntry}

\* (Zenon cannot instantiate a lemma with a variable bound by BOOLEAN itself.)
Flag == BOOLEAN

Memory == [Frame -> [Index -> PTE]]

\* The path to table f leads on to page va.  D is the depth of each table, P a
\* page below it.
On(f, va, D, P) == \A j \in 1 .. D[f] : P[f][j] = va[j]

\* An entry for a table: it leads one level down.  U are tables that ring 3
\* gets through to.
TableEntry(e, f, i, T, D, P, U) ==
    /\ e.write /\ ~e.nx /\ e.frame \in T
    /\ D[e.frame] = D[f] + 1 /\ P[e.frame][D[f] + 1] = i
    /\ \A j \in 1 .. D[f] : P[e.frame][j] = P[f][j]
    /\ e.frame \in U => e.user /\ f \in U

\* An entry for a page, which may be a huge one of the kernel's.
PageEntry(e, f, i, spare, T, D, P, U) ==
    /\ e.frame \notin T /\ e.frame \notin spare
    /\ e.user => f \in U
    /\ D[f] < Levels - 1 =>
          /\ e.write /\ ~e.user
          /\ \A va \in UserVa : On(f, va, D, P) => va[D[f] + 1] # i

EntryOK(e, f, i, spare, T, D, P, U) ==
    /\ D[f] < Levels - 1 /\ ~e.huge => TableEntry(e, f, i, T, D, P, U)
    /\ D[f] = Levels - 1 \/ e.huge => PageEntry(e, f, i, spare, T, D, P, U)

\* Table f has an entry for table g.
Above(pt, f, i, g, D) ==
    D[f] < Levels - 1 /\ IsTable(pt[f][i]) /\ pt[f][i].frame = g

\* The tables T form a tree, apart from the pages and from the spare frames.
Tree(pt, spare, T, D, P, U) ==
    /\ pt \in Memory
    /\ T \subseteq Frame /\ T \cap spare = {} /\ U \subseteq T
    /\ D \in [T -> 0 .. Levels - 1] /\ P \in [T -> Va]
    /\ Cr3 \in U /\ D[Cr3] = 0
    /\ \A f \in T : \A i \in Index :
          pt[f][i] # NoEntry => EntryOK(pt[f][i], f, i, spare, T, D, P, U)
    /\ \A g \in T : g # Cr3 => \E f \in T : \E i \in Index : Above(pt, f, i, g, D)

\* The walk for va ends in table f.
Stop(pt, f, va, D, P) ==
    /\ On(f, va, D, P)
    /\ D[f] = Levels - 1 \/ ~IsTable(pt[f][va[D[f] + 1]])

\* The walk has come to table f with all rights but, perhaps, ring 3's.
Arrives(w, f, U) ==
    /\ w \in Entries /\ ~w.huge /\ w.frame = f /\ w.write /\ ~w.nx
    /\ f \in U => w.user

\* The number of levels, and the indices of a page.
LEMMA LevelFacts ==
    /\ Levels \in Nat /\ Levels - 1 \in Nat /\ Levels \in 1 .. Levels
    /\ Levels - 1 \in 0 .. Levels - 1 /\ Levels # 0
    /\ \A k \in 0 .. Levels - 1 : k + 1 \in 1 .. Levels /\ k \in Nat /\ (k + 1) - 1 = k
    /\ \A va \in Va : \A k \in 1 .. Levels : va[k] \in Index
<1>1. Levels \in Nat \ {0}
  BY PagingAssumption
<1>2. /\ Levels \in Nat /\ Levels - 1 \in Nat /\ Levels \in 1 .. Levels
      /\ Levels - 1 \in 0 .. Levels - 1 /\ Levels # 0
      /\ \A k \in 0 .. Levels - 1 : k + 1 \in 1 .. Levels /\ k \in Nat /\ (k + 1) - 1 = k
  BY SMT, <1>1
<1> QED
  BY <1>2 DEF Va

\* NoEntry is no entry.
LEMMA EntryFacts ==
    ASSUME NEW e \in PTE
    PROVE  e # NoEntry <=> e \in Entries
BY PagingAssumption DEF PTE

\* An entry read below a table that all but ring 3 gets through to.
LEMMA ThroughIs ==
    ASSUME NEW w \in Entries, NEW e \in Entries
    PROVE  /\ Through(w, e) \in Entries
           /\ Through(w, e).frame = e.frame /\ Through(w, e).huge = e.huge
           /\ Through(w, e).user = (e.user /\ w.user)
           /\ Through(w, e).write = (e.write /\ w.write)
           /\ Through(w, e).nx = (e.nx \/ w.nx)
<1>1. PICK u \in BOOLEAN : u = (e.user /\ w.user)
  OBVIOUS
<1>2. PICK v \in BOOLEAN : v = (e.write /\ w.write)
  OBVIOUS
<1>3. PICK x \in BOOLEAN : x = (e.nx \/ w.nx)
  OBVIOUS
<1>4. Through(w, e) = [[[e EXCEPT !.user = u] EXCEPT !.write = v] EXCEPT !.nx = x]
  BY <1>1, <1>2, <1>3 DEF Through, Entries
<1>5. \A d \in Entries : /\ [d EXCEPT !.user = u] \in Entries
                         /\ [d EXCEPT !.write = v] \in Entries
                         /\ [d EXCEPT !.nx = x] \in Entries
  BY SMT DEF Entries
<1>6. Through(w, e) \in Entries
  BY <1>4, <1>5
<1>7. /\ Through(w, e).frame = e.frame /\ Through(w, e).huge = e.huge
      /\ Through(w, e).user = (e.user /\ w.user)
      /\ Through(w, e).write = (e.write /\ w.write)
      /\ Through(w, e).nx = (e.nx \/ w.nx)
  BY DEF Through, Entries
<1> QED
  BY <1>6, <1>7

\* Entries with the same fields are the same.
LEMMA SameEntry ==
    ASSUME NEW d \in Entries, NEW e \in Entries, d.frame = e.frame,
           d.user = e.user, d.write = e.write, d.nx = e.nx, d.huge = e.huge
    PROVE  d = e
BY SMT DEF Entries

\* The entry of a table, by its type.
LEMMA EntryOfTable ==
    ASSUME NEW pt, NEW spare, NEW T, NEW D, NEW P, NEW U,
           Tree(pt, spare, T, D, P, U), NEW f \in T, NEW i \in Index
    PROVE  /\ pt[f][i] \in PTE
           /\ pt[f][i] # NoEntry =>
                 /\ pt[f][i] \in Entries
                 /\ EntryOK(pt[f][i], f, i, spare, T, D, P, U)
           /\ D[f] \in 0 .. Levels - 1
           /\ P[f] \in Va
<1>1. f \in Frame /\ pt \in [Frame -> [Index -> PTE]]
  BY DEF Tree, Memory
<1>2. pt[f][i] \in PTE
  BY <1>1
<1> QED
  BY <1>2, EntryFacts DEF Tree


\* What the walk reads in entry i of table f.
Reads(pt, w, f, i, D, U) ==
    /\ ~IsTable(pt[f][i]) \/ D[f] = Levels - 1 => Down(pt, w, i) = pt[f][i]
    /\ IsTable(pt[f][i]) /\ D[f] # Levels - 1 =>
          Arrives(Down(pt, w, i), pt[f][i].frame, U)

\* An entry of a table that is read along the tree keeps its rights.
LEMMA ThroughTree ==
    ASSUME NEW pt, NEW spare, NEW T, NEW D, NEW P, NEW U,
           Tree(pt, spare, T, D, P, U), NEW f \in T, NEW i \in Index,
           NEW w, Arrives(w, f, U)
    PROVE  Reads(pt, w, f, i, D, U)
<1> DEFINE e == pt[f][i]
<1>1. /\ e # NoEntry => e \in Entries /\ EntryOK(e, f, i, spare, T, D, P, U)
      /\ D[f] \in 0 .. Levels - 1
  BY EntryOfTable
<1>2. w \in Entries /\ w # NoEntry /\ ~w.huge /\ w.frame = f /\ w.write /\ ~w.nx
  BY EntryFacts DEF Arrives, PTE
<1>3. Down(pt, w, i) = IF e = NoEntry THEN NoEntry ELSE Through(w, e)
  BY <1>2 DEF Down, IsTable
<1>4. CASE e = NoEntry
  BY <1>3, <1>4 DEF IsTable, Reads
<1>5. CASE e # NoEntry
  <2> HIDE DEF e
  <2>1. e \in Entries /\ EntryOK(e, f, i, spare, T, D, P, U)
    BY <1>1, <1>5
  <2>2. /\ Through(w, e) \in Entries
        /\ Through(w, e).frame = e.frame /\ Through(w, e).huge = e.huge
        /\ Through(w, e).user = (e.user /\ w.user)
        /\ Through(w, e).write = (e.write /\ w.write)
        /\ Through(w, e).nx = (e.nx \/ w.nx)
    BY <1>2, <2>1, ThroughIs
  <2>3. e.user \in BOOLEAN /\ e.write \in BOOLEAN /\ e.nx \in BOOLEAN
    BY <2>1 DEF Entries
  <2>4. D[f] # Levels - 1 <=> D[f] < Levels - 1
    BY SMT, <1>1, LevelFacts
  <2>5. ASSUME D[f] = Levels - 1 \/ e.huge PROVE Through(w, e) = e
    <3>1. e.user => f \in U
      BY <2>1, <2>5 DEF EntryOK, PageEntry
    <3>2. e.user => w.user
      BY <3>1 DEF Arrives
    <3>3. /\ Through(w, e).user = e.user /\ Through(w, e).write = e.write
          /\ Through(w, e).nx = e.nx
      BY <1>2, <2>2, <2>3, <3>2
    <3> QED BY <2>1, <2>2, <3>3, SameEntry
  <2>6. ASSUME ~e.huge, D[f] # Levels - 1 PROVE Arrives(Through(w, e), e.frame, U)
    <3>1. TableEntry(e, f, i, T, D, P, U)
      BY <2>1, <2>4, <2>6 DEF EntryOK
    <3>2. e.frame \in U => w.user
      BY <3>1 DEF TableEntry, Arrives
    <3> QED BY <1>2, <2>2, <2>3, <2>6, <3>1, <3>2 DEF TableEntry, Arrives
  <2> QED BY <1>3, <1>5, <2>5, <2>6 DEF IsTable, Reads, e
<1> QED
  BY <1>4, <1>5

\* Table f hangs from entry i of table g.
Hangs(pt, f, g, i, T, D, P, U) ==
    /\ IsTable(pt[g][i]) /\ pt[g][i].frame = f
    /\ TableEntry(pt[g][i], g, i, T, D, P, U)
    /\ D[g] \in 0 .. Levels - 1 /\ D[g] # Levels - 1 /\ D[f] = D[g] + 1

\* Each table but the root hangs from an entry of a table one level up.
LEMMA Parent ==
    ASSUME NEW pt, NEW spare, NEW T, NEW D, NEW P, NEW U,
           Tree(pt, spare, T, D, P, U), NEW f \in T, f # Cr3
    PROVE  \E g \in T : \E i \in Index :
              Hangs(pt, f, g, i, T, D, P, U)
<1>1. PICK g \in T, i \in Index : Above(pt, g, i, f, D)
  BY DEF Tree
<1>2. IsTable(pt[g][i]) /\ pt[g][i].frame = f /\ D[g] < Levels - 1
  BY <1>1 DEF Above
<1>3. EntryOK(pt[g][i], g, i, spare, T, D, P, U) /\ D[g] \in 0 .. Levels - 1
  BY <1>2, EntryOfTable DEF IsTable
<1>4. TableEntry(pt[g][i], g, i, T, D, P, U)
  BY <1>2, <1>3 DEF EntryOK, IsTable
<1>5. D[f] = D[g] + 1
  BY <1>2, <1>4 DEF TableEntry
<1>6. D[g] # Levels - 1
  BY SMT, <1>2, <1>3, LevelFacts
<1> QED
  BY <1>2, <1>3, <1>4, <1>5, <1>6 DEF Hangs

\* The walk for a page comes to each table on its path.
LEMMA Reach ==
    ASSUME NEW pt, NEW spare, NEW T, NEW D, NEW P, NEW U,
           Tree(pt, spare, T, D, P, U), NEW f \in T, NEW va \in Va,
           On(f, va, D, P)
    PROVE  Arrives(Steps(pt, va)[D[f]], f, U)
<1> DEFINE Q == {k \in 0 .. Levels - 1 : \A g \in T :
                    D[g] = k /\ On(g, va, D, P) =>
                       Arrives(Steps(pt, va)[k], g, U)}
<1>1. \A g \in T : D[g] \in 0 .. Levels - 1
  BY DEF Tree
<1>2. 0 \in Q
  <2>1. ASSUME NEW g \in T, D[g] = 0 PROVE g = Cr3
    <3>1. SUFFICES ASSUME g # Cr3 PROVE FALSE
      OBVIOUS
    <3>2. PICK h \in T, i \in Index : Hangs(pt, g, h, i, T, D, P, U)
      BY <3>1, Parent
    <3>3. D[h] \in 0 .. Levels - 1 /\ D[g] = D[h] + 1
      BY <3>2 DEF Hangs
    <3> QED BY SMT, <2>1, <3>3
  <2>2. Arrives(Steps(pt, va)[0], Cr3, U)
    <3>1. Cr3 \in Nat
      BY PagingAssumption
    <3>2. Arrives(Entry(Cr3, TRUE, TRUE, FALSE), Cr3, U)
      BY SMT, <3>1 DEF Arrives, Entry, Pte, Entries
    <3> QED BY <3>2, StepsDef
  <2>3. 0 \in 0 .. Levels - 1
    BY SMT, LevelFacts
  <2> QED BY <2>1, <2>2, <2>3
<1>3. ASSUME NEW n \in 1 .. Levels - 1, n - 1 \in Q PROVE n \in Q
  <2>1. n \in 0 .. Levels - 1 /\ n # 0 /\ n \in 1 .. Levels
    BY SMT, LevelFacts
  <2>2. ASSUME NEW g \in T, D[g] = n, On(g, va, D, P)
        PROVE  Arrives(Steps(pt, va)[n], g, U)
    <3>1. g # Cr3
      BY <2>1, <2>2 DEF Tree
    <3>2. PICK h \in T, i \in Index : Hangs(pt, g, h, i, T, D, P, U)
      BY <3>1, Parent
    <3>7. D[h] \in 0 .. Levels - 1 /\ D[g] = D[h] + 1
      BY <3>2 DEF Hangs
    <3>3. D[h] = n - 1 /\ n \in 1 .. n /\ \A j \in 1 .. D[h] : j \in 1 .. n
      BY SMT, <2>2, <3>7
    <3>4. va[n] = i /\ On(h, va, D, P)
      BY <2>2, <3>2, <3>3 DEF TableEntry, On, Hangs
    <3>5. Arrives(Steps(pt, va)[n - 1], h, U)
      BY <1>3, <3>3, <3>4
    <3>6. Arrives(Down(pt, Steps(pt, va)[n - 1], i), g, U)
      <4>1. Reads(pt, Steps(pt, va)[n - 1], h, i, D, U)
        BY <3>5, ThroughTree
      <4> QED BY <3>2, <4>1 DEF Reads, Hangs
    <3> QED BY <2>1, <3>4, <3>6, StepsDef
  <2> QED BY <2>1, <2>2
<1>4. \A k \in 0 .. Levels - 1 : k \in Q
  <2> HIDE DEF Q
  <2> QED BY <1>2, <1>3, InductionTo, LevelFacts
<1> QED
  BY <1>1, <1>4

\* The walk for a page does not leave where it stops.
LEMMA Stays ==
    ASSUME NEW pt, NEW va, NEW k \in 0 .. Levels,
           k = Levels \/ ~IsTable(Steps(pt, va)[k])
    PROVE  \A n \in k .. Levels : Steps(pt, va)[n] = Steps(pt, va)[k]
<1> DEFINE Q == {n \in 0 .. Levels : n >= k => Steps(pt, va)[n] = Steps(pt, va)[k]}
<1>1. 0 \in Q
  BY SMT, LevelFacts
<1>2. ASSUME NEW n \in 1 .. Levels, n - 1 \in Q PROVE n \in Q
  <2>1. n \in 0 .. Levels /\ (n >= k => n = k \/ n - 1 >= k)
    BY SMT
  <2>2. ASSUME n - 1 >= k PROVE Steps(pt, va)[n] = Steps(pt, va)[k]
    <3>1. k # Levels
      BY SMT, <2>2, LevelFacts
    <3>2. ~IsTable(Steps(pt, va)[n - 1]) /\ Steps(pt, va)[n - 1] = Steps(pt, va)[k]
      BY <1>2, <2>2, <3>1
    <3> QED BY <3>2, StepsDef DEF Down
  <2> QED BY <2>1, <2>2
<1>3. \A n \in 0 .. Levels : n \in Q
  <2> HIDE DEF Q
  <2> QED BY <1>1, <1>2, InductionTo, LevelFacts
<1>4. \A n \in k .. Levels : n \in 0 .. Levels /\ n >= k
  BY SMT
<1> QED
  BY <1>3, <1>4

\* The walk and the last table, of a page whose walk stops in table f.
Stopped(pt, f, va, D) ==
    /\ Walk(pt, va) = pt[f][va[D[f] + 1]]
    /\ HasLeaf(pt, va) <=> D[f] = Levels - 1
    /\ D[f] = Levels - 1 => LeafTable(pt, va) = f

\* What a page translates to is the entry where its walk stops.
LEMMA StopWalk ==
    ASSUME NEW pt, NEW spare, NEW T, NEW D, NEW P, NEW U,
           Tree(pt, spare, T, D, P, U), NEW f \in T, NEW va \in Va,
           Stop(pt, f, va, D, P)
    PROVE  Stopped(pt, f, va, D)
<1>1. D[f] \in 0 .. Levels - 1
  BY DEF Tree
<1>2. PICK k \in 1 .. Levels : k = D[f] + 1
  BY <1>1, LevelFacts
<1>3. /\ k - 1 = D[f] /\ k \in 0 .. Levels /\ Levels \in k .. Levels
      /\ D[f] = Levels - 1 => k = Levels
  BY SMT, <1>1, <1>2, LevelFacts
<1>4. Arrives(Steps(pt, va)[D[f]], f, U)
  BY Reach DEF Stop
<1>5. va[k] \in Index
  BY LevelFacts
<1>6. Reads(pt, Steps(pt, va)[D[f]], f, va[k], D, U)
  BY <1>4, <1>5, ThroughTree
<1>7. Steps(pt, va)[k] = Down(pt, Steps(pt, va)[D[f]], va[k])
  BY <1>3, StepsDef
<1>8. Steps(pt, va)[k] = pt[f][va[k]]
  BY <1>2, <1>6, <1>7 DEF Stop, Reads
<1>9. k = Levels \/ ~IsTable(Steps(pt, va)[k])
  BY <1>2, <1>3, <1>8 DEF Stop
<1>10. Steps(pt, va)[Levels] = Steps(pt, va)[k]
  BY <1>3, <1>9, Stays
<1>11. Walk(pt, va) = pt[f][va[D[f] + 1]]
  BY <1>2, <1>8, <1>10 DEF Walk
<1>12. CASE D[f] = Levels - 1
  BY <1>4, <1>11, <1>12, EntryFacts DEF Arrives, HasLeaf, LeafTable, IsTable, PTE, Stopped
<1>13. CASE D[f] # Levels - 1
  <2>1. k # Levels /\ Levels - 1 \in k .. Levels
    BY SMT, <1>1, <1>2, <1>13, LevelFacts
  <2>2. Steps(pt, va)[Levels - 1] = Steps(pt, va)[k]
    BY <1>3, <1>9, <2>1, Stays
  <2>3. ~HasLeaf(pt, va)
    BY <1>9, <2>1, <2>2 DEF HasLeaf
  <2> QED BY <1>11, <1>13, <2>3 DEF Stopped
<1> QED
  BY <1>12, <1>13

\* Entry e of table f leads on to page va, at level k.
Leads(e, f, va, k, T, D, P, U) ==
    /\ TableEntry(e, f, va[k], T, D, P, U)
    /\ e.frame \in T /\ D[e.frame] = k /\ On(e.frame, va, D, P)

\* A walk that reads an entry for a table goes one level down.
LEMMA Deeper ==
    ASSUME NEW pt, NEW spare, NEW T, NEW D, NEW P, NEW U,
           Tree(pt, spare, T, D, P, U), NEW f \in T, NEW va \in Va,
           On(f, va, D, P), D[f] # Levels - 1, NEW k, k = D[f] + 1,
           IsTable(pt[f][va[k]])
    PROVE  Leads(pt[f][va[k]], f, va, k, T, D, P, U)
<1>1. D[f] \in 0 .. Levels - 1
  BY DEF Tree
<1>2. /\ D[f] < Levels - 1 /\ k \in 1 .. Levels
      /\ \A j \in 1 .. k : j = k \/ j \in 1 .. D[f]
  BY SMT, <1>1, LevelFacts
<1>3. va[k] \in Index
  BY <1>2, LevelFacts
<1>4. EntryOK(pt[f][va[k]], f, va[k], spare, T, D, P, U)
  BY <1>3, EntryOfTable DEF IsTable
<1>5. TableEntry(pt[f][va[k]], f, va[k], T, D, P, U)
  BY <1>2, <1>4 DEF EntryOK, IsTable
<1> QED
  BY <1>2, <1>5 DEF TableEntry, On, Leads

\* The root is on every path.
LEMMA RootOn ==
    ASSUME NEW pt, NEW spare, NEW T, NEW D, NEW P, NEW U,
           Tree(pt, spare, T, D, P, U), NEW va
    PROVE  Cr3 \in T /\ Cr3 \in U /\ D[Cr3] = 0 /\ On(Cr3, va, D, P)
<1>1. Cr3 \in T /\ Cr3 \in U /\ D[Cr3] = 0
  BY DEF Tree
<1>2. \A j \in 1 .. 0 : FALSE
  BY SMT
<1> QED
  BY <1>1, <1>2 DEF On

\* Every walk stops in some table.
LEMMA StopExists ==
    ASSUME NEW pt, NEW spare, NEW T, NEW D, NEW P, NEW U,
           Tree(pt, spare, T, D, P, U), NEW va \in Va
    PROVE  \E f \in T : Stop(pt, f, va, D, P)
<1> SUFFICES ASSUME ~ \E f \in T : Stop(pt, f, va, D, P) PROVE FALSE
  OBVIOUS
<1> DEFINE Q == {k \in 0 .. Levels - 1 : \E f \in T : D[f] = k /\ On(f, va, D, P)}
<1>1. 0 \in Q
  <2>1. 0 \in 0 .. Levels - 1
    BY SMT, LevelFacts
  <2> QED BY <2>1, RootOn
<1>2. ASSUME NEW n \in 1 .. Levels - 1, n - 1 \in Q PROVE n \in Q
  <2>1. PICK f \in T : D[f] = n - 1 /\ On(f, va, D, P)
    BY <1>2
  <2>2. n = D[f] + 1 /\ n \in 0 .. Levels - 1 /\ D[f] # Levels - 1
    BY SMT, <2>1, LevelFacts
  <2>3. IsTable(pt[f][va[n]])
    BY <2>1, <2>2 DEF Stop
  <2>4. Leads(pt[f][va[n]], f, va, n, T, D, P, U)
    BY <2>1, <2>2, <2>3, Deeper
  <2> QED BY <2>2, <2>4 DEF Leads
<1>3. \A k \in 0 .. Levels - 1 : k \in Q
  <2> HIDE DEF Q
  <2> QED BY <1>1, <1>2, InductionTo, LevelFacts
<1>4. PICK f \in T : D[f] = Levels - 1 /\ On(f, va, D, P)
  BY <1>3, LevelFacts
<1> QED
  BY <1>4 DEF Stop

\* Table f, at depth k, on the way to va.
At(f, k, va, T, D, P) == f \in T /\ D[f] = k /\ On(f, va, D, P)

\* The walk only comes to tables of the tree, along their paths.
LEMMA TablesReached ==
    ASSUME NEW pt, NEW spare, NEW T, NEW D, NEW P, NEW U,
           Tree(pt, spare, T, D, P, U), NEW va \in Va,
           NEW k \in 0 .. Levels - 1, IsTable(Steps(pt, va)[k])
    PROVE  At(Steps(pt, va)[k].frame, k, va, T, D, P)
<1> DEFINE Q == {n \in 0 .. Levels - 1 : IsTable(Steps(pt, va)[n]) =>
                    \E f \in T : D[f] = n /\ On(f, va, D, P)}
<1>1. 0 \in Q
  <2>1. 0 \in 0 .. Levels - 1
    BY SMT, LevelFacts
  <2> QED BY <2>1, RootOn
<1>2. ASSUME NEW n \in 1 .. Levels - 1, n - 1 \in Q PROVE n \in Q
  <2>1. n \in 0 .. Levels - 1 /\ n \in 1 .. Levels
    BY SMT, LevelFacts
  <2>2. ASSUME IsTable(Steps(pt, va)[n])
        PROVE  \E f \in T : D[f] = n /\ On(f, va, D, P)
    <3>1. Steps(pt, va)[n] = Down(pt, Steps(pt, va)[n - 1], va[n])
      BY <2>1, StepsDef
    <3>2. IsTable(Steps(pt, va)[n - 1])
      BY <2>2, <3>1 DEF Down
    <3>3. PICK f \in T : D[f] = n - 1 /\ On(f, va, D, P)
      BY <1>2, <3>2
    <3>4. n = D[f] + 1 /\ D[f] # Levels - 1
      BY SMT, <3>3, LevelFacts
    <3>5. Arrives(Steps(pt, va)[n - 1], f, U)
      BY <3>3, Reach
    <3>6. Reads(pt, Steps(pt, va)[n - 1], f, va[n], D, U)
      <4>1. va[n] \in Index
        BY <2>1, LevelFacts
      <4> QED BY <3>5, <4>1, ThroughTree
    <3>7. IsTable(pt[f][va[n]])
      BY <2>2, <3>1, <3>6 DEF Reads
    <3>8. Leads(pt[f][va[n]], f, va, n, T, D, P, U)
      BY <3>3, <3>4, <3>7, Deeper
    <3> QED BY <3>8 DEF Leads
  <2> QED BY <2>1, <2>2
<1>3. \A n \in 0 .. Levels - 1 : n \in Q
  <2> HIDE DEF Q
  <2> QED BY <1>1, <1>2, InductionTo, LevelFacts
<1>4. PICK f \in T : D[f] = k /\ On(f, va, D, P)
  BY <1>3
<1>5. Arrives(Steps(pt, va)[k], f, U)
  BY <1>4, Reach
<1> QED
  BY <1>4, <1>5 DEF Arrives, At

-----------------------------------------------------------------------------
(* Changing an entry *)

\* Entry i of table f, set to e.
Set(pt, f, i, e) == [pt EXCEPT ![f] = [@ EXCEPT ![i] = e]]

\* Only that entry changes.
IsSet(q, pt, f, i, e) ==
    /\ q \in Memory
    /\ \A g \in Frame : \A j \in Index :
          /\ g = f /\ j = i => q[g][j] = e
          /\ g # f \/ j # i => q[g][j] = pt[g][j]

\* What setting an entry does.
LEMMA SetIs ==
    ASSUME NEW pt \in Memory, NEW f \in Frame, NEW i \in Index, NEW e \in PTE
    PROVE  IsSet(Set(pt, f, i, e), pt, f, i, e)
<1> DEFINE row == [pt[f] EXCEPT ![i] = e]
<1>1. pt[f] \in [Index -> PTE]
  BY DEF Memory
<1>2. row \in [Index -> PTE] /\ row[i] = e /\ \A j \in Index : j # i => row[j] = pt[f][j]
  BY <1>1
<1>3. Set(pt, f, i, e) = [pt EXCEPT ![f] = row]
  BY DEF Set, Memory
<1> HIDE DEF row
<1> QED
  BY <1>2, <1>3 DEF IsSet, Memory

\* Pages translate as before.
SameWalks(pt, q) == \A va \in Va : Walk(q, va) = Walk(pt, va)

\* Page va translates to e, and the others as before.
OneWalk(pt, q, va, e) ==
    /\ Walk(q, va) = e
    /\ \A vb \in Va : vb # va => Walk(q, vb) = Walk(pt, vb)

\* A tree with table t on the path to va, at depth k, open to user.
Stands(pt, spare, t, va, k, user) ==
    \E T, D, P, U : /\ Tree(pt, spare, T, D, P, U)
                    /\ t \in T /\ D[t] = k /\ On(t, va, D, P)
                    /\ user => t \in U

\* Every page translates as before, and the way to va is at table t.
Moved(pt, q, spare, t, va, k, user) ==
    Stands(q, spare, t, va, k, user) /\ SameWalks(pt, q)

Treed(pt, spare) == \E T, D, P, U : Tree(pt, spare, T, D, P, U)

\* The path to a last table, with an index, is the page.
LEMMA LastOn ==
    ASSUME NEW f, NEW D, NEW P, NEW va \in Va, NEW vb \in Va, D[f] = Levels - 1,
           On(f, va, D, P), On(f, vb, D, P), va[Levels] = vb[Levels]
    PROVE  va = vb
<1>1. \A j \in 1 .. Levels : j = Levels \/ j \in 1 .. Levels - 1
  BY SMT, LevelFacts
<1>2. \A j \in 1 .. Levels : va[j] = vb[j]
  BY <1>1 DEF On
<1>3. va = [j \in 1 .. Levels |-> va[j]] /\ vb = [j \in 1 .. Levels |-> vb[j]]
  BY DEF Va
<1>4. [j \in 1 .. Levels |-> va[j]] = [j \in 1 .. Levels |-> vb[j]]
  BY <1>2
<1> QED
  BY <1>3, <1>4

\* The page of entry e, if it has one, is no table, and spare only till now.
PageFor(e, spare, less, user) ==
    e # NoEntry => /\ e.frame \in Frame => e.frame \in spare
                   /\ e.frame \notin less
                   /\ e.user => user

LeafSet(pt, q, less, va, e) == Treed(q, less) /\ OneWalk(pt, q, va, e)

\* An entry of a last table is set: the tables stay a tree, and only the page
\* it is for translates differently.
LEMMA SetLeaf ==
    ASSUME NEW pt, NEW spare, NEW f, NEW va \in Va, NEW user,
           Stands(pt, spare, f, va, Levels - 1, user),
           NEW less, less \subseteq spare, NEW e \in PTE,
           PageFor(e, spare, less, user)
    PROVE  LeafSet(pt, Set(pt, f, va[Levels], e), less, va, e)
<1>0. PICK T, D, P, U :
         /\ Tree(pt, spare, T, D, P, U)
         /\ f \in T /\ D[f] = Levels - 1 /\ On(f, va, D, P) /\ (user => f \in U)
  BY DEF Stands
<1> USE <1>0
<1>11. e # NoEntry => /\ e.frame \notin T /\ e.frame \notin less
                      /\ e.user => f \in U
  BY DEF PageFor, Tree
<1> DEFINE i == va[Levels]
<1>1. PICK q : q = Set(pt, f, i, e)
  OBVIOUS
<1>2. i \in Index /\ pt \in Memory /\ T \subseteq Frame
  BY LevelFacts DEF Tree
<1>3. IsSet(q, pt, f, i, e)
  BY <1>1, <1>2, SetIs
<1>4. \A g \in T : \A j \in Index : q[g][j] = pt[g][j] \/ (g = f /\ j = i /\ q[g][j] = e)
  BY <1>2, <1>3 DEF IsSet
<1>5. ASSUME NEW g \in T, NEW j \in Index, q[g][j] # NoEntry
      PROVE  EntryOK(q[g][j], g, j, less, T, D, P, U)
  <2>1. CASE q[g][j] = pt[g][j]
    <3>1. EntryOK(q[g][j], g, j, spare, T, D, P, U)
      BY <1>5, <2>1 DEF Tree
    <3> QED BY <3>1 DEF EntryOK, PageEntry
  <2>2. CASE g = f /\ j = i /\ q[g][j] = e
    <3>1. ~(D[f] < Levels - 1)
      BY SMT, LevelFacts
    <3> QED BY <1>5, <1>11, <2>2, <3>1 DEF EntryOK, PageEntry
  <2> QED BY <1>4, <2>1, <2>2
<1>6. ASSUME NEW h \in T, h # Cr3
      PROVE  \E g \in T : \E j \in Index : Above(q, g, j, h, D)
  <2>1. PICK g \in T, j \in Index : Above(pt, g, j, h, D)
    BY <1>6 DEF Tree
  <2>2. g # f
    BY SMT, <2>1, LevelFacts DEF Above
  <2>3. q[g][j] = pt[g][j]
    BY <1>4, <2>2
  <2> QED BY <2>1, <2>3 DEF Above
<1>7. Tree(q, less, T, D, P, U)
  BY <1>3, <1>5, <1>6 DEF Tree, IsSet
<1>8. D[f] + 1 = Levels
  BY SMT, LevelFacts
<1>9. Walk(q, va) = e
  <2>1. Stopped(q, f, va, D)
    BY <1>7, StopWalk DEF Stop
  <2>2. q[f][i] = e
    BY <1>2, <1>3 DEF IsSet
  <2> QED BY <1>8, <2>1, <2>2 DEF Stopped
<1>10. ASSUME NEW vb \in Va, vb # va PROVE Walk(q, vb) = Walk(pt, vb)
  <2>1. PICK g \in T : Stop(pt, g, vb, D, P)
    BY StopExists
  <2>2. PICK k : k = D[g] + 1
    OBVIOUS
  <2>3. g # f \/ vb[k] # i
    BY <1>8, <1>10, <2>1, <2>2, LastOn DEF Stop
  <2>4. vb[k] \in Index
    BY <2>2, LevelFacts DEF Tree
  <2>5. q[g][vb[k]] = pt[g][vb[k]]
    BY <1>4, <2>3, <2>4
  <2>6. Stop(q, g, vb, D, P)
    BY <2>1, <2>2, <2>5 DEF Stop
  <2>7. Stopped(pt, g, vb, D) /\ Stopped(q, g, vb, D)
    BY <1>7, <2>1, <2>6, StopWalk
  <2> QED BY <2>2, <2>5, <2>7 DEF Stopped
<1> QED
  BY <1>1, <1>7, <1>9, <1>10 DEF OneWalk, LeafSet, Treed

SameFrame(d, e) == d.frame = e.frame

SameSlot(f, i, g, j) == f = g /\ i = j

\* A table hangs from one entry only.
LEMMA OneParent ==
    ASSUME NEW pt, NEW spare, NEW T, NEW D, NEW P, NEW U,
           Tree(pt, spare, T, D, P, U), NEW f \in T, NEW i, NEW g \in T, NEW j,
           NEW d, NEW e, SameFrame(d, e),
           TableEntry(d, f, i, T, D, P, U), TableEntry(e, g, j, T, D, P, U)
    PROVE  SameSlot(f, i, g, j)
<1> DEFINE h == e.frame
<1>1. h \in T /\ P[h] \in Va /\ D[f] \in 0 .. Levels - 1 /\ D[g] \in 0 .. Levels - 1
  BY DEF Tree, TableEntry, SameFrame
<1>2. D[h] = D[f] + 1 /\ D[h] = D[g] + 1
  BY DEF TableEntry, SameFrame
<1>3. D[f] = D[g]
  BY SMT, <1>1, <1>2
<1>4. On(f, P[h], D, P) /\ On(g, P[h], D, P)
  BY DEF TableEntry, On, SameFrame
<1>5. Arrives(Steps(pt, P[h])[D[f]], f, U) /\ Arrives(Steps(pt, P[h])[D[g]], g, U)
  BY <1>1, <1>4, Reach
<1> QED
  BY <1>3, <1>5 DEF Arrives, TableEntry, SameFrame, SameSlot

\* An entry for a table, open to user besides.
Opened(e, user) == Pte(e.frame, e.user \/ user, TRUE, e.nx, e.huge)

\* Only its rights change.
IsOpened(d, e, user) ==
    /\ d \in Entries /\ d.frame = e.frame /\ d.huge = e.huge /\ d.nx = e.nx
    /\ d.write /\ (d.user <=> e.user \/ user)

\* What opening an entry does to it.
LEMMA OpenedIs ==
    ASSUME NEW e \in Entries, NEW user \in Flag
    PROVE  IsOpened(Opened(e, user), e, user)
<1>1. /\ e.frame \in Nat /\ e.user \in BOOLEAN /\ e.nx \in BOOLEAN
      /\ e.huge \in BOOLEAN
  BY DEF Entries
<1>2. PICK u \in BOOLEAN : u = (e.user \/ user)
  BY DEF Flag
<1>3. Pte(e.frame, u, TRUE, e.nx, e.huge) \in Entries
  BY SMT, <1>1 DEF Pte, Entries
<1> QED
  BY <1>1, <1>2, <1>3 DEF Opened, Pte, Flag, IsOpened

\* The tables that ring 3 gets through to, with one more if user.
With(U, f, user) == IF user THEN U \cup {f} ELSE U

\* The table that an entry leads to is opened: the tables stay a tree and
\* every page translates as before.
LEMMA StandsOpen ==
    ASSUME NEW pt, NEW spare, NEW f, NEW va \in Va, NEW n, NEW user \in Flag,
           Stands(pt, spare, f, va, n, user), n # Levels - 1, NEW k, k = n + 1,
           IsTable(pt[f][va[k]])
    PROVE  Moved(pt, Set(pt, f, va[k], Opened(pt[f][va[k]], user)), spare,
                 pt[f][va[k]].frame, va, k, user)
<1>0. PICK T, D, P, U :
         /\ Tree(pt, spare, T, D, P, U)
         /\ f \in T /\ D[f] = n /\ On(f, va, D, P) /\ (user => f \in U)
  BY DEF Stands
<1> USE <1>0
<1>20. Leads(pt[f][va[k]], f, va, k, T, D, P, U)
  BY Deeper
<1>21. D[f] \in 0 .. Levels - 1
  BY DEF Tree
<1>22. k \in 1 .. Levels
  BY <1>21, LevelFacts
<1>23. PICK i \in Index : i = va[k]
  BY <1>22, LevelFacts
<1>24. IsTable(pt[f][i]) /\ TableEntry(pt[f][i], f, i, T, D, P, U)
  BY <1>20, <1>23 DEF Leads
<1>1. PICK e : e = pt[f][i]
  OBVIOUS
<1>2. e \in Entries /\ e # NoEntry /\ ~e.huge
  BY <1>1, <1>24, EntryOfTable DEF IsTable
<1>26. IsOpened(Opened(e, user), e, user)
  BY <1>2, OpenedIs
<1>3. PICK d \in Entries : d = Opened(e, user)
  BY <1>26 DEF IsOpened
<1>4. d.frame = e.frame /\ d.write /\ d.nx = e.nx /\ ~d.huge /\ (d.user <=> e.user \/ user)
  BY <1>2, <1>3, <1>26 DEF IsOpened
<1>5. PICK q : q = Set(pt, f, i, d)
  OBVIOUS
<1>6. pt \in Memory /\ T \subseteq Frame
  BY DEF Tree
<1>7. d \in PTE /\ d # NoEntry
  BY <1>3, EntryFacts DEF PTE
<1>8. IsSet(q, pt, f, i, d)
  BY <1>5, <1>6, <1>7, SetIs
<1>9. \A g \in T : \A j \in Index : q[g][j] = pt[g][j] \/ (g = f /\ j = i /\ q[g][j] = d)
  BY <1>6, <1>8 DEF IsSet
<1>10. PICK V : V = With(U, e.frame, user)
  OBVIOUS
<1>11. e.write /\ ~e.nx /\ e.frame \in T /\ (e.frame \in U => e.user /\ f \in U)
  BY <1>1, <1>24 DEF TableEntry
<1>12. U \subseteq V /\ V \subseteq T /\ (e.frame \in V => (e.user \/ user) /\ f \in U)
  BY <1>10, <1>11 DEF With, Tree
<1>13. ASSUME NEW g \in T, NEW j \in Index, pt[g][j] # NoEntry,
              g # f \/ j # i
       PROVE  EntryOK(pt[g][j], g, j, spare, T, D, P, V)
  <2>1. EntryOK(pt[g][j], g, j, spare, T, D, P, U)
    BY <1>13 DEF Tree
  <2>2. ASSUME TableEntry(pt[g][j], g, j, T, D, P, U)
        PROVE  TableEntry(pt[g][j], g, j, T, D, P, V)
    <3>1. pt[g][j].frame # e.frame
      <4> SUFFICES ASSUME pt[g][j].frame = e.frame PROVE FALSE
        OBVIOUS
      <4>1. PICK c : c = pt[g][j]
        OBVIOUS
      <4>2. TableEntry(c, g, j, T, D, P, U) /\ TableEntry(e, f, i, T, D, P, U)
        BY <1>1, <1>24, <2>2, <4>1
      <4>3. SameFrame(c, e)
        BY <4>1 DEF SameFrame
      <4>4. SameSlot(g, j, f, i)
        BY <4>2, <4>3, OneParent
      <4> QED BY <1>13, <4>4 DEF SameSlot
    <3>2. pt[g][j].frame \in V => pt[g][j].frame \in U
      BY <1>10, <3>1 DEF With
    <3> QED BY <1>12, <2>2, <3>2 DEF TableEntry
  <2> QED BY <1>12, <2>1, <2>2 DEF EntryOK, PageEntry
<1>14. EntryOK(d, f, i, spare, T, D, P, V)
  <2>1. TableEntry(d, f, i, T, D, P, V)
    BY <1>1, <1>4, <1>11, <1>12, <1>24 DEF TableEntry
  <2> QED BY <1>4, <2>1 DEF EntryOK
<1>15. ASSUME NEW g \in T, NEW j \in Index, q[g][j] # NoEntry
       PROVE  EntryOK(q[g][j], g, j, spare, T, D, P, V)
  <2>1. CASE g = f /\ j = i
    <3>1. q[g][j] = d
      BY <1>6, <1>8, <2>1 DEF IsSet
    <3> QED BY <1>14, <2>1, <3>1
  <2>2. CASE g # f \/ j # i
    <3>1. q[g][j] = pt[g][j]
      BY <1>6, <1>8, <2>2 DEF IsSet
    <3> QED BY <1>13, <1>15, <2>2, <3>1
  <2> QED BY <2>1, <2>2
<1>16. ASSUME NEW h \in T, h # Cr3
       PROVE  \E g \in T : \E j \in Index : Above(q, g, j, h, D)
  <2>1. PICK g \in T, j \in Index : Above(pt, g, j, h, D)
    BY <1>16 DEF Tree
  <2>2. Above(q, g, j, h, D)
    BY <1>1, <1>4, <1>7, <1>9, <2>1 DEF Above, IsTable
  <2> QED BY <2>2
<1>17. Tree(q, spare, T, D, P, V)
  <2>1. q \in Memory
    BY <1>8 DEF IsSet
  <2> QED BY <1>12, <1>15, <1>16, <2>1 DEF Tree
<1>18. ASSUME NEW vb \in Va PROVE Walk(q, vb) = Walk(pt, vb)
  <2>1. PICK g \in T : Stop(pt, g, vb, D, P)
    BY StopExists
  <2>2. PICK l : l = D[g] + 1
    OBVIOUS
  <2>3. vb[l] \in Index
    BY <2>2, LevelFacts DEF Tree
  <2>4. g # f \/ vb[l] # i
    BY <1>24, <2>1, <2>2 DEF Stop
  <2>5. q[g][vb[l]] = pt[g][vb[l]]
    BY <1>6, <1>8, <2>3, <2>4 DEF IsSet
  <2>6. Stop(q, g, vb, D, P)
    BY <2>1, <2>2, <2>5 DEF Stop
  <2>7. Stopped(pt, g, vb, D) /\ Stopped(q, g, vb, D)
    BY <1>17, <2>1, <2>6, StopWalk
  <2> QED BY <2>2, <2>5, <2>7 DEF Stopped
<1>19. Stands(q, spare, e.frame, va, k, user)
  <2>1. Leads(e, f, va, k, T, D, P, U)
    BY <1>1, <1>20, <1>23
  <2>2. user => e.frame \in V
    BY <1>10 DEF With
  <2> QED BY <1>17, <2>1, <2>2 DEF Leads, Stands
<1>25. SameWalks(pt, q)
  BY <1>18 DEF SameWalks
<1> QED
  BY <1>1, <1>3, <1>5, <1>19, <1>23, <1>25 DEF Moved

\* Table g is made, empty, and hung from entry i of table f.
Grown(pt, f, i, g, user) ==
    Set([pt EXCEPT ![g] = EmptyTable], f, i, Entry(g, user, TRUE, FALSE))

\* The depths, or the pages, with one more.
More(T, F, g, x) == [h \in T \cup {g} |-> IF h = g THEN x ELSE F[h]]

\* The entry and the table are new, the rest is as before.
IsGrown(q, pt, f, i, g, user) ==
    /\ q \in Memory /\ q[f][i] = Entry(g, user, TRUE, FALSE)
    /\ \A j \in Index : q[g][j] = NoEntry
    /\ \A h \in Frame : \A j \in Index :
          h # g /\ (h # f \/ j # i) => q[h][j] = pt[h][j]

\* What making a table does to the entries.
LEMMA GrownIs ==
    ASSUME NEW pt \in Memory, NEW f \in Frame, NEW i \in Index, NEW g \in Frame,
           f # g, NEW user \in Flag
    PROVE  IsGrown(Grown(pt, f, i, g, user), pt, f, i, g, user)
<1>1. PICK c : c = [pt EXCEPT ![g] = EmptyTable]
  OBVIOUS
<1>2. NoEntry \in PTE /\ EmptyTable \in [Index -> PTE]
  BY DEF PTE, EmptyTable
<1>3. /\ c \in Memory /\ c[g] = EmptyTable
      /\ \A h \in Frame : h # g => c[h] = pt[h]
  BY <1>1, <1>2 DEF Memory
<1>4. Entry(g, user, TRUE, FALSE) \in PTE
  <2>1. g \in Nat
    BY PagingAssumption
  <2>2. Entry(g, user, TRUE, FALSE) \in Entries
    BY SMT, <2>1 DEF Entry, Pte, Entries, Flag
  <2> QED BY <2>2 DEF PTE
<1>5. IsSet(Grown(pt, f, i, g, user), c, f, i, Entry(g, user, TRUE, FALSE))
  BY <1>1, <1>3, <1>4, SetIs DEF Grown
<1>6. \A j \in Index : EmptyTable[j] = NoEntry
  BY DEF EmptyTable
<1> QED
  BY <1>3, <1>5, <1>6 DEF IsSet, IsGrown

\* A table is made from a spare frame: the tables stay a tree and every page
\* translates as before.
LEMMA StandsNew ==
    ASSUME NEW pt, NEW spare, NEW f, NEW va \in Va, NEW n, NEW user \in Flag,
           Stands(pt, spare, f, va, n, user), n # Levels - 1, NEW k, k = n + 1,
           pt[f][va[k]] = NoEntry, NEW g \in spare, g \in Frame
    PROVE  Moved(pt, Grown(pt, f, va[k], g, user), spare \ {g}, g, va, k, user)
<1>0. PICK T, D, P, U :
         /\ Tree(pt, spare, T, D, P, U)
         /\ f \in T /\ D[f] = n /\ On(f, va, D, P) /\ (user => f \in U)
  BY DEF Stands
<1> USE <1>0
<1>1. PICK i : i = va[k]
  OBVIOUS
<1>2. PICK q : q = Grown(pt, f, i, g, user)
  OBVIOUS
<1>3. PICK T2, D2, P2, V :
         /\ T2 = T \cup {g} /\ D2 = More(T, D, g, k) /\ P2 = More(T, P, g, va)
         /\ V = With(U, g, user)
  OBVIOUS
<1>4. /\ pt \in Memory /\ T \subseteq Frame /\ T \cap spare = {} /\ U \subseteq T
      /\ D \in [T -> 0 .. Levels - 1] /\ P \in [T -> Va]
      /\ Cr3 \in U /\ D[Cr3] = 0
  BY DEF Tree
<1>5. D[f] \in 0 .. Levels - 1
  BY <1>4
<1>6. k \in 1 .. Levels /\ k \in 0 .. Levels - 1 /\ D[f] < Levels - 1 /\ k - 1 = D[f]
  BY SMT, <1>5, LevelFacts
<1>7. i \in Index
  BY <1>1, <1>6, LevelFacts
<1>8. g \notin T /\ f # g /\ f \in Frame
  BY <1>4
<1>9. PICK e : e = Entry(g, user, TRUE, FALSE)
  OBVIOUS
<1>10. /\ q \in Memory /\ q[f][i] = e /\ \A j \in Index : q[g][j] = NoEntry
       /\ \A h \in Frame : \A j \in Index :
             h # g /\ (h # f \/ j # i) => q[h][j] = pt[h][j]
  <2>1. IsGrown(Grown(pt, f, i, g, user), pt, f, i, g, user)
    <3>1. /\ pt \in Memory /\ f \in Frame /\ i \in Index /\ g \in Frame /\ f # g
          /\ user \in Flag
      BY <1>4, <1>7, <1>8
    <3> QED BY ONLY <3>1, GrownIs
  <2> QED BY <1>2, <1>9, <2>1 DEF IsGrown
<1>11. /\ e \in Entries /\ e # NoEntry /\ e.frame = g /\ e.user = user
       /\ e.write /\ ~e.nx /\ ~e.huge
  <2>1. g \in Nat
    BY PagingAssumption
  <2>2. e \in Entries
    BY SMT, <1>9, <2>1 DEF Entry, Pte, Entries, Flag
  <2> QED BY <1>9, <2>2, EntryFacts DEF Entry, Pte, PTE
<1>12. /\ D2 \in [T2 -> 0 .. Levels - 1] /\ P2 \in [T2 -> Va]
       /\ D2[g] = k /\ P2[g] = va
       /\ \A h \in T : D2[h] = D[h] /\ P2[h] = P[h]
  BY <1>3, <1>4, <1>6, <1>8 DEF More
<1>13. /\ U \subseteq V /\ V \subseteq T2 /\ (g \in V <=> user)
       /\ \A h \in T : h \in V <=> h \in U
  BY <1>3, <1>4, <1>8 DEF With
<1>14. ASSUME NEW h \in T, NEW j \in Index, pt[h][j] # NoEntry
       PROVE  EntryOK(pt[h][j], h, j, spare \ {g}, T2, D2, P2, V)
  <2>1. EntryOK(pt[h][j], h, j, spare, T, D, P, U)
    BY <1>14 DEF Tree
  <2>2. D2[h] = D[h] /\ P2[h] = P[h] /\ (h \in V <=> h \in U)
    BY <1>12, <1>13
  <2>3. ASSUME TableEntry(pt[h][j], h, j, T, D, P, U)
        PROVE  TableEntry(pt[h][j], h, j, T2, D2, P2, V)
    <3>1. pt[h][j].frame \in T
      BY <2>3 DEF TableEntry
    <3>2. /\ D2[pt[h][j].frame] = D[pt[h][j].frame]
          /\ P2[pt[h][j].frame] = P[pt[h][j].frame]
          /\ pt[h][j].frame \in V <=> pt[h][j].frame \in U
          /\ pt[h][j].frame \in T2
      BY <1>3, <1>12, <1>13, <3>1
    <3> QED BY <2>2, <2>3, <3>2 DEF TableEntry
  <2>4. ASSUME PageEntry(pt[h][j], h, j, spare, T, D, P, U)
        PROVE  PageEntry(pt[h][j], h, j, spare \ {g}, T2, D2, P2, V)
    <3>1. \A vb : On(h, vb, D2, P2) <=> On(h, vb, D, P)
      BY <2>2 DEF On
    <3>2. pt[h][j].frame \notin T2
      BY <1>3, <2>4 DEF PageEntry
    <3> QED BY <2>2, <2>4, <3>1, <3>2 DEF PageEntry
  <2> QED BY <2>1, <2>2, <2>3, <2>4 DEF EntryOK
<1>15. EntryOK(e, f, i, spare \ {g}, T2, D2, P2, V)
  <2>1. \A j \in 1 .. D[f] : va[j] = P[f][j]
    BY DEF On
  <2>4. D2[f] + 1 = k /\ D2[e.frame] = k /\ P2[e.frame] = va /\ P2[f] = P[f]
    BY <1>11, <1>12
  <2>5. e.frame \in T2 /\ (e.frame \in V => e.user /\ f \in V)
    BY <1>3, <1>11, <1>13
  <2>2. TableEntry(e, f, i, T2, D2, P2, V)
    BY <1>1, <1>11, <1>12, <2>1, <2>4, <2>5 DEF TableEntry
  <2>3. D2[f] # Levels - 1
    BY <1>12
  <2> QED BY <1>11, <2>2, <2>3 DEF EntryOK
<1>16. ASSUME NEW h \in T2, NEW j \in Index, q[h][j] # NoEntry
       PROVE  EntryOK(q[h][j], h, j, spare \ {g}, T2, D2, P2, V)
  <2>1. h # g /\ h \in T
    BY <1>3, <1>10, <1>16
  <2>2. CASE h = f /\ j = i
    BY <1>10, <1>15, <2>2
  <2>3. CASE h # f \/ j # i
    <3>1. q[h][j] = pt[h][j]
      BY <1>4, <1>10, <2>1, <2>3
    <3> QED BY <1>14, <1>16, <2>1, <3>1
  <2> QED BY <2>2, <2>3
<1>17. ASSUME NEW h \in T2, h # Cr3
       PROVE  \E a \in T2 : \E j \in Index : Above(q, a, j, h, D2)
  <2>1. CASE h = g
    <3>1. Above(q, f, i, g, D2)
      BY <1>6, <1>10, <1>11, <1>12 DEF Above, IsTable
    <3> QED BY <1>3, <1>7, <2>1, <3>1
  <2>2. CASE h # g
    <3>1. h \in T
      BY <1>3, <2>2
    <3>2. PICK a \in T, j \in Index : Above(pt, a, j, h, D)
      BY <1>17, <3>1 DEF Tree
    <3>3. (a # f \/ j # i) /\ a # g
      BY <1>1, <1>8, <3>2 DEF Above, IsTable
    <3>4. q[a][j] = pt[a][j]
      BY <1>4, <1>10, <3>3
    <3>5. Above(q, a, j, h, D2)
      BY <1>12, <3>2, <3>4 DEF Above
    <3> QED BY <1>3, <3>5
  <2> QED BY <2>1, <2>2
<1>18. Tree(q, spare \ {g}, T2, D2, P2, V)
  <2>1. T2 \subseteq Frame /\ T2 \cap (spare \ {g}) = {} /\ Cr3 \in V /\ D2[Cr3] = 0
    BY <1>3, <1>4, <1>12, <1>13
  <2> QED BY <1>10, <1>12, <1>13, <1>16, <1>17, <2>1 DEF Tree
<1>19. On(g, va, D2, P2)
  BY <1>12 DEF On
<1>20. Stands(q, spare \ {g}, g, va, k, user)
  BY <1>3, <1>12, <1>13, <1>18, <1>19 DEF Stands
<1>21. ASSUME NEW vb \in Va PROVE Walk(q, vb) = Walk(pt, vb)
  <2>1. PICK h \in T : Stop(pt, h, vb, D, P)
    BY StopExists
  <2>2. PICK l : l = D[h] + 1
    OBVIOUS
  <2>3. vb[l] \in Index /\ D2[h] = D[h] /\ P2[h] = P[h] /\ h \in T2 /\ h # g
    BY <1>3, <1>4, <1>8, <1>12, <2>2, LevelFacts
  <2>4. Stopped(pt, h, vb, D)
    BY <2>1, StopWalk
  <2>5. CASE h = f /\ vb[l] = i
    <3>1. l = k
      BY <2>2, <2>5
    <3>2. On(f, vb, D, P)
      BY <2>1, <2>5 DEF Stop
    <3>3. \A j \in 1 .. k : j = k \/ j \in 1 .. D[f]
      BY SMT, <1>5, <1>6
    <3>4. On(g, vb, D2, P2)
      BY <1>1, <1>12, <2>5, <3>1, <3>2, <3>3 DEF On
    <3>5. k + 1 \in 1 .. Levels
      BY <1>6, LevelFacts
    <3>6. vb[k + 1] \in Index
      BY <3>5, LevelFacts
    <3>7. q[g][vb[k + 1]] = NoEntry
      BY <1>10, <3>6
    <3>8. g \in T2 /\ Stop(q, g, vb, D2, P2)
      BY <1>3, <1>12, <3>4, <3>7 DEF Stop, IsTable
    <3>9. Stopped(q, g, vb, D2)
      BY <1>18, <3>8, StopWalk
    <3>10. Walk(q, vb) = NoEntry
      BY <1>12, <3>7, <3>9 DEF Stopped
    <3>11. pt[h][vb[D[h] + 1]] = pt[f][va[k]]
      BY <1>1, <2>2, <2>5
    <3> QED BY <2>4, <3>10, <3>11 DEF Stopped
  <2>6. CASE h # f \/ vb[l] # i
    <3>1. q[h][vb[l]] = pt[h][vb[l]]
      BY <1>4, <1>10, <2>3, <2>6
    <3>2. Stop(q, h, vb, D2, P2)
      BY <2>1, <2>2, <2>3, <3>1 DEF Stop, On
    <3>3. Stopped(q, h, vb, D2)
      BY <1>18, <2>3, <3>2, StopWalk
    <3> QED BY <2>2, <2>3, <2>4, <3>1, <3>3 DEF Stopped
  <2> QED BY <2>5, <2>6
<1> QED
  BY <1>1, <1>2, <1>20, <1>21 DEF SameWalks, Moved

-----------------------------------------------------------------------------
(* The mapper's descent *)

Mem == [pte : Memory, free : SUBSET Frame, lost : SUBSET Frame]

\* Memory n is m with other tables.
Retabled(n, m, q) == n \in Mem /\ n.pte = q /\ n.free = m.free /\ n.lost = m.lost

\* A change of the tables only.
LEMMA RetabledIs ==
    ASSUME NEW m \in Mem, NEW q \in Memory
    PROVE  Retabled([m EXCEPT !.pte = q], m, q)
<1>1. [m EXCEPT !.pte = q] \in Mem
  BY DEF Mem
<1> QED
  BY <1>1 DEF Mem, Retabled

\* Put sets an entry and no more.
LEMMA PutIs ==
    ASSUME NEW m \in Mem, NEW t \in Frame, NEW i \in Index, NEW e \in PTE
    PROVE  Retabled(Put(m, t, i, e), m, Set(m.pte, t, i, e))
<1>1. m.pte \in Memory
  BY DEF Mem
<1>2. Set(m.pte, t, i, e) \in Memory
  BY <1>1, SetIs DEF IsSet
<1>3. Put(m, t, i, e) = [m EXCEPT !.pte = Set(m.pte, t, i, e)]
  BY DEF Put, Set, Mem
<1> QED
  BY <1>2, <1>3, RetabledIs

\* A frame is taken.
Takes(a, m) ==
    /\ a.frame \in m.free /\ a.m \in Mem
    /\ a.m.pte = m.pte /\ a.m.free = m.free \ {a.frame} /\ a.m.lost = m.lost

\* allocate_frame takes one of the free frames.
LEMMA AllocIs ==
    ASSUME NEW m \in Mem, m.free # {}
    PROVE  Takes(allocate_frame(m), m)
<1>1. m.free \in SUBSET Nat /\ m.free \in SUBSET Frame
  BY PagingAssumption DEF Mem
<1>2. \E x \in m.free : \A y \in m.free : x <= y
  BY <1>1, LeastExists
<1>3. Min(m.free) \in m.free
  BY <1>2 DEF Min
<1>4. PICK g \in m.free : g = Min(m.free)
  BY <1>3
<1>5. m.free \ {g} \in SUBSET Frame
  BY <1>1
<1>6. [m EXCEPT !.free = @ \ {g}] = [m EXCEPT !.free = m.free \ {g}]
  BY DEF Mem
<1>7. [m EXCEPT !.free = m.free \ {g}] \in Mem
  BY <1>5 DEF Mem
<1>8. /\ [m EXCEPT !.free = m.free \ {g}].pte = m.pte
      /\ [m EXCEPT !.free = m.free \ {g}].free = m.free \ {g}
      /\ [m EXCEPT !.free = m.free \ {g}].lost = m.lost
  BY DEF Mem
<1> HIDE DEF Min
<1> QED
  BY <1>4, <1>6, <1>7, <1>8 DEF allocate_frame, Takes

\* Memory n is m with more tables at most; the frames of X stay apart.
Grew(n, m, X) ==
    /\ n \in Mem /\ n.free \subseteq m.free /\ n.lost = m.lost
    /\ SameWalks(m.pte, n.pte) /\ Treed(n.pte, n.free \cup X)

IsState(s) == s = [ok |-> s.ok, table |-> s.table, m |-> s.m] /\ s.ok \in BOOLEAN

\* The descent for va has come to level k, or failed.
Descended(s, m, va, user, k, X) ==
    /\ IsState(s) /\ Grew(s.m, m, X)
    /\ s.ok => Stands(s.m.pte, s.m.free \cup X, s.table, va, k, user)

\* What stands is a tree.
LEMMA StandsTree ==
    ASSUME NEW pt, NEW spare, NEW t, NEW va, NEW k, NEW user,
           Stands(pt, spare, t, va, k, user)
    PROVE  Treed(pt, spare)
BY DEF Stands, Treed

\* A level further, to a table made of frame a.frame.
LEMMA DescendNew ==
    ASSUME NEW s, NEW m \in Mem, NEW va \in Va, NEW user \in Flag,
           NEW n \in 0 .. Levels - 1, NEW X, X \cap m.free = {},
           Descended(s, m, va, user, n, X), s.ok, n # Levels - 1,
           NEW k, k = n + 1, s.m.pte[s.table][va[k]] = NoEntry, s.m.free # {}
    PROVE  Descended(create_next_table(s, va[k], user), m, va, user, k, X)
<1>1. s.m \in Mem /\ s.m.free \subseteq m.free /\ s.m.lost = m.lost
  BY DEF Descended, Grew
<1>2. PICK a : a = allocate_frame(s.m)
  OBVIOUS
<1>3. /\ a.frame \in s.m.free /\ a.m \in Mem
      /\ a.m.pte = s.m.pte /\ a.m.free = s.m.free \ {a.frame} /\ a.m.lost = s.m.lost
  BY <1>1, <1>2, AllocIs DEF Takes
<1>4. PICK g : g = a.frame
  OBVIOUS
<1>5. g \in s.m.free /\ g \in Frame /\ s.m.pte \in Memory
  BY <1>1, <1>3, <1>4 DEF Mem
<1>6. PICK T, D, P, U :
         /\ Tree(s.m.pte, s.m.free \cup X, T, D, P, U)
         /\ s.table \in T /\ D[s.table] = n /\ On(s.table, va, D, P)
         /\ user => s.table \in U
  BY DEF Descended, Stands
<1>7. k \in 1 .. Levels /\ va[k] \in Index
  BY LevelFacts
<1>8. s.table \in Frame /\ s.table # g
  BY <1>5, <1>6 DEF Tree
<1>9. PICK q : q = Grown(s.m.pte, s.table, va[k], g, user)
  OBVIOUS
<1>10. Moved(s.m.pte, q, (s.m.free \cup X) \ {g}, g, va, k, user)
  <2>1. g \in s.m.free \cup X
    BY <1>5
  <2>2. Stands(s.m.pte, s.m.free \cup X, s.table, va, n, user)
    BY DEF Descended
  <2>3. PICK pt, t, Y : pt = s.m.pte /\ t = s.table /\ Y = s.m.free \cup X
    OBVIOUS
  <2>4. Stands(pt, Y, t, va, n, user) /\ pt[t][va[k]] = NoEntry /\ g \in Y
    BY <2>1, <2>2, <2>3
  <2>5. Moved(pt, Grown(pt, t, va[k], g, user), Y \ {g}, g, va, k, user)
    BY <1>5, <2>4, StandsNew
  <2> QED BY <1>9, <2>3, <2>5
<1>11. PICK c : c = [a.m EXCEPT !.pte[g] = EmptyTable]
  OBVIOUS
<1>12. Retabled(c, a.m, [s.m.pte EXCEPT ![g] = EmptyTable])
  <2>1. c = [a.m EXCEPT !.pte = [s.m.pte EXCEPT ![g] = EmptyTable]]
    BY <1>3, <1>11 DEF Mem
  <2>2. EmptyTable \in [Index -> PTE]
    BY DEF EmptyTable, PTE
  <2>3. [s.m.pte EXCEPT ![g] = EmptyTable] \in Memory
    BY <1>5, <2>2 DEF Memory
  <2> QED BY <1>3, <2>1, <2>3, RetabledIs
<1>13. PICK e : e = Entry(g, user, TRUE, FALSE)
  OBVIOUS
<1>14. e \in PTE
  <2>1. g \in Nat
    BY <1>5, PagingAssumption
  <2>2. e \in Entries
    BY SMT, <1>13, <2>1 DEF Entry, Pte, Entries, Flag
  <2> QED BY <2>2 DEF PTE
<1>15. PICK r : r = Put(c, s.table, va[k], e)
  OBVIOUS
<1>16. Retabled(r, c, Set(c.pte, s.table, va[k], e))
  <2>1. c \in Mem
    BY <1>12 DEF Retabled
  <2> QED BY <1>7, <1>8, <1>14, <1>15, <2>1, PutIs
<1>17. r \in Mem /\ r.pte = q /\ r.free = s.m.free \ {g} /\ r.lost = m.lost
  BY <1>1, <1>3, <1>4, <1>9, <1>12, <1>13, <1>16 DEF Retabled, Grown
<1>18. create_next_table(s, va[k], user) = [ok |-> TRUE, table |-> g, m |-> r]
  BY <1>2, <1>4, <1>11, <1>13, <1>15 DEF create_next_table
<1>19. (s.m.free \cup X) \ {g} = r.free \cup X
  BY <1>1, <1>5, <1>17
<1>20. Stands(r.pte, r.free \cup X, g, va, k, user) /\ Treed(r.pte, r.free \cup X)
  BY <1>10, <1>17, <1>19, StandsTree DEF Moved
<1>21. SameWalks(m.pte, r.pte)
  BY <1>10, <1>17 DEF Descended, Grew, SameWalks, Moved
<1>22. Grew(r, m, X)
  BY <1>1, <1>17, <1>20, <1>21 DEF Grew
<1>23. PICK z : z = [ok |-> TRUE, table |-> g, m |-> r]
  OBVIOUS
<1>24. z.ok = TRUE /\ z.table = g /\ z.m = r /\ IsState(z)
  BY <1>23 DEF IsState
<1>25. Descended(z, m, va, user, k, X)
  BY <1>20, <1>22, <1>24 DEF Descended
<1> QED
  BY <1>18, <1>23, <1>25

\* A level further, to a table that is there.
LEMMA DescendOld ==
    ASSUME NEW s, NEW m \in Mem, NEW va \in Va, NEW user \in Flag,
           NEW n \in 0 .. Levels - 1, NEW X,
           Descended(s, m, va, user, n, X), s.ok, n # Levels - 1,
           NEW k, k = n + 1, IsTable(s.m.pte[s.table][va[k]])
    PROVE  Descended(create_next_table(s, va[k], user), m, va, user, k, X)
<1>1. PICK pt, t, Y, e :
         /\ pt = s.m.pte /\ t = s.table /\ Y = s.m.free \cup X /\ e = pt[t][va[k]]
  OBVIOUS
<1>2. Stands(pt, Y, t, va, n, user) /\ IsTable(pt[t][va[k]])
  BY <1>1 DEF Descended
<1>3. PICK q : q = Set(pt, t, va[k], Opened(e, user))
  OBVIOUS
<1>4. Moved(pt, q, Y, e.frame, va, k, user)
  <2>1. Moved(pt, Set(pt, t, va[k], Opened(pt[t][va[k]], user)), Y,
              pt[t][va[k]].frame, va, k, user)
    BY <1>2, StandsOpen
  <2> QED BY <1>1, <1>3, <2>1
<1>5. s.m \in Mem /\ s.m.free \subseteq m.free /\ s.m.lost = m.lost
  BY DEF Descended, Grew
<1>6. va[k] \in Index
  BY LevelFacts
<1>7. t \in Frame /\ pt \in Memory
  BY <1>2 DEF Stands, Tree
<1>8. e \in Entries /\ e # NoEntry /\ e.huge = FALSE
  <2>1. pt[t] \in [Index -> PTE]
    BY <1>7 DEF Memory
  <2>2. e \in PTE
    BY <1>1, <1>6, <2>1
  <2>3. e \in Entries /\ e # NoEntry /\ ~e.huge
    BY <1>1, <1>2, <2>2, EntryFacts DEF IsTable
  <2> QED BY <2>3 DEF Entries
<1>9. Opened(e, user) \in PTE
  BY <1>8, OpenedIs DEF IsOpened, PTE
<1>10. PICK r : r = Put(s.m, t, va[k], Opened(e, user))
  OBVIOUS
<1>11. Retabled(r, s.m, q)
  BY <1>1, <1>3, <1>5, <1>6, <1>7, <1>9, <1>10, PutIs
<1>12. create_next_table(s, va[k], user) = [ok |-> TRUE, table |-> e.frame, m |-> r]
  <2>1. (~e.huge) = TRUE
    BY <1>8
  <2> QED BY <1>1, <1>8, <1>10, <2>1 DEF create_next_table, Opened
<1>13. r \in Mem /\ r.pte = q /\ r.free = s.m.free /\ r.lost = s.m.lost
  BY <1>11 DEF Retabled
<1>14. Stands(r.pte, r.free \cup X, e.frame, va, k, user) /\ Treed(r.pte, r.free \cup X)
  BY <1>1, <1>4, <1>13, StandsTree DEF Moved
<1>15. SameWalks(m.pte, r.pte)
  BY <1>1, <1>4, <1>13 DEF Descended, Grew, SameWalks, Moved
<1>16. Grew(r, m, X)
  BY <1>5, <1>13, <1>14, <1>15 DEF Grew
<1>17. PICK z : z = [ok |-> TRUE, table |-> e.frame, m |-> r]
  OBVIOUS
<1>18. z.ok = TRUE /\ z.table = e.frame /\ z.m = r /\ IsState(z)
  BY <1>17 DEF IsState
<1>19. Descended(z, m, va, user, k, X)
  BY <1>14, <1>16, <1>18 DEF Descended
<1> QED
  BY <1>12, <1>17, <1>19

\* The descent fails: there is no frame for a table, or a huge page is in the
\* way.  Nothing changes.
LEMMA DescendFails ==
    ASSUME NEW s, NEW m \in Mem, NEW va \in Va, NEW user \in Flag,
           user => va \in UserVa,
           NEW n \in 0 .. Levels - 1, NEW X,
           Descended(s, m, va, user, n, X), s.ok, n # Levels - 1,
           NEW k, k = n + 1, ~IsTable(s.m.pte[s.table][va[k]]),
           s.m.pte[s.table][va[k]] = NoEntry => s.m.free = {}
    PROVE  Descended(create_next_table(s, va[k], user), m, va, user, k, X)
<1>1. PICK pt, t, e : pt = s.m.pte /\ t = s.table /\ e = pt[t][va[k]]
  OBVIOUS
<1>2. IsState(s) /\ s.m \in Mem /\ Grew(s.m, m, X)
  BY DEF Descended, Grew
<1>3. ASSUME NEW z, z.ok = FALSE, z.m = s.m, IsState(z)
      PROVE  Descended(z, m, va, user, k, X)
  BY <1>2, <1>3 DEF Descended
<1>4. CASE e = NoEntry
  <2>1. PICK z : z = [s EXCEPT !.ok = FALSE]
    OBVIOUS
  <2>2. create_next_table(s, va[k], user) = z
    BY <1>1, <1>4, <2>1 DEF create_next_table
  <2>3. z = [ok |-> FALSE, table |-> s.table, m |-> s.m]
    BY <1>2, <2>1 DEF IsState
  <2>4. z.ok = FALSE /\ z.m = s.m /\ IsState(z)
    BY <2>3 DEF IsState
  <2> QED BY <1>3, <2>2, <2>4
<1>5. CASE e # NoEntry
  <2>1. PICK T, D, P, U :
           /\ Tree(pt, s.m.free \cup X, T, D, P, U)
           /\ t \in T /\ D[t] = n /\ On(t, va, D, P)
    BY <1>1 DEF Descended, Stands
  <2>2. va[k] \in Index /\ pt \in Memory /\ t \in Frame /\ n < Levels - 1
    <3>1. n < Levels - 1
      BY SMT, LevelFacts
    <3> QED BY <2>1, <3>1, LevelFacts DEF Tree
  <2>3. e \in Entries /\ EntryOK(e, t, va[k], s.m.free \cup X, T, D, P, U)
    <3>1. PICK i \in Index : i = va[k]
      BY <2>2
    <3>2. pt[t][i] # NoEntry =>
             pt[t][i] \in Entries /\ EntryOK(pt[t][i], t, i, s.m.free \cup X, T, D, P, U)
      BY <2>1, EntryOfTable
    <3> QED BY <1>1, <1>5, <3>1, <3>2
  <2>4. e.huge = TRUE
    BY <1>1, <1>5, <2>3 DEF IsTable, Entries
  <2>5. PageEntry(e, t, va[k], s.m.free \cup X, T, D, P, U)
    BY <2>3, <2>4 DEF EntryOK
  <2>6. e.write /\ ~e.user /\ va \notin UserVa
    BY <2>1, <2>2, <2>5 DEF PageEntry
  <2>7. IsOpened(Opened(e, user), e, user) /\ ~user
    BY <2>3, <2>6, OpenedIs
  <2>8. Opened(e, user) = e
    <3>1. e.write = Opened(e, user).write /\ e.user = Opened(e, user).user
      BY <2>3, <2>6, <2>7 DEF IsOpened, Entries
    <3> QED BY <2>3, <2>7, <3>1, SameEntry DEF IsOpened
  <2>9. PICK r : r = Put(s.m, t, va[k], e)
    OBVIOUS
  <2>10. r = s.m
    <3>1. s.m = [s.m EXCEPT !.pte[t][va[k]] = s.m.pte[t][va[k]]]
      <4>1. pt[t] = [pt[t] EXCEPT ![va[k]] = pt[t][va[k]]]
        BY <2>2 DEF Memory
      <4>2. pt = [pt EXCEPT ![t] = pt[t]]
        BY <2>2 DEF Memory
      <4> QED BY <1>1, <1>2, <2>2, <4>1, <4>2 DEF Mem, Memory
    <3> QED BY <1>1, <2>9, <3>1 DEF Put
  <2>11. create_next_table(s, va[k], user) = [ok |-> FALSE, table |-> e.frame, m |-> r]
    <3>1. (~e.huge) = FALSE
      BY <2>4
    <3> QED BY <1>1, <1>5, <2>8, <2>9, <3>1 DEF create_next_table, Opened
  <2>12. PICK z : z = [ok |-> FALSE, table |-> e.frame, m |-> r]
    OBVIOUS
  <2>13. z.ok = FALSE /\ z.m = s.m /\ IsState(z)
    BY <2>10, <2>12 DEF IsState
  <2> QED BY <1>3, <2>11, <2>12, <2>13
<1> QED
  BY <1>4, <1>5

Descends(d, m, va, user) ==
    /\ d[0] = [ok |-> TRUE, table |-> Cr3, m |-> m]
    /\ \A k \in 1 .. Levels - 1 : d[k] = create_next_table(d[k - 1], va[k], user)

\* The descent, level by level.
LEMMA DescentDef ==
    ASSUME NEW m, NEW va, NEW user
    PROVE  Descends(Descent(m, va, user), m, va, user)
<1> DEFINE x  == <<"descent", va, user>>
           s0 == [ok |-> TRUE, table |-> Cr3, m |-> m]
<1>1. x[1] = "descent" /\ x[2] = va /\ x[3] = user
  OBVIOUS
<1>2. \A n, s : Turn(x, n, s) = create_next_table(s, va[n], user)
  BY <1>1 DEF Turn
<1>3. ASSUME NEW f
      PROVE  Turns(x, Levels - 1, s0, f) <=>
        f = [k \in 0 .. Levels - 1 |->
               IF k = 0 THEN [ok |-> TRUE, table |-> Cr3, m |-> m]
               ELSE create_next_table(f[k - 1], va[k], user)]
  <2>1. [k \in 0 .. Levels - 1 |-> IF k = 0 THEN s0 ELSE Turn(x, k, f[k - 1])]
          = [k \in 0 .. Levels - 1 |->
               IF k = 0 THEN [ok |-> TRUE, table |-> Cr3, m |-> m]
               ELSE create_next_table(f[k - 1], va[k], user)]
    BY <1>2
  <2> QED BY <2>1 DEF Turns
<1>4. Descent(m, va, user) = Looped(x, Levels - 1, s0)
  BY <1>3 DEF Descent, Looped
<1> HIDE DEF x, s0
<1>5. Runs(x, Levels - 1, s0, Looped(x, Levels - 1, s0))
  BY LevelFacts, LoopedIs
<1> QED
  BY <1>2, <1>4, <1>5 DEF s0, Runs, Descends

\* The descent keeps every translation, and the tables a tree; if it succeeds it
\* ends in the last table on the way to va.
LEMMA DescentIs ==
    ASSUME NEW m \in Mem, NEW va \in Va, NEW user \in Flag,
           user => va \in UserVa, NEW X, X \cap m.free = {},
           Treed(m.pte, m.free \cup X)
    PROVE  Descended(Descent(m, va, user)[Levels - 1], m, va, user, Levels - 1, X)
<1> DEFINE d(k) == Descent(m, va, user)[k]
           Q == {k \in 0 .. Levels - 1 : Descended(d(k), m, va, user, k, X)}
<1>1. 0 \in Q
  <2>1. 0 \in 0 .. Levels - 1
    BY SMT, LevelFacts
  <2>2. PICK s : s = d(0)
    OBVIOUS
  <2>7. s = [ok |-> TRUE, table |-> Cr3, m |-> m]
    BY <2>2, DescentDef DEF Descends
  <2>3. s.ok = TRUE /\ s.table = Cr3 /\ s.m = m /\ IsState(s)
    BY <2>7 DEF IsState
  <2>4. Stands(m.pte, m.free \cup X, Cr3, va, 0, user)
    <3>1. PICK T, D, P, U : Tree(m.pte, m.free \cup X, T, D, P, U)
      BY DEF Treed
    <3>2. Cr3 \in T /\ Cr3 \in U /\ D[Cr3] = 0 /\ On(Cr3, va, D, P)
      BY <3>1, RootOn
    <3> QED BY <3>1, <3>2 DEF Stands
  <2>5. Grew(m, m, X)
    BY DEF Grew, SameWalks
  <2>6. Descended(s, m, va, user, 0, X)
    BY <2>3, <2>4, <2>5 DEF Descended
  <2> QED BY <2>1, <2>2, <2>6
<1>2. ASSUME NEW k \in 1 .. Levels - 1, k - 1 \in Q PROVE k \in Q
  <2>1. PICK n \in 0 .. Levels - 1 : n = k - 1
    <3>1. k - 1 \in 0 .. Levels - 1
      BY SMT, LevelFacts
    <3> QED BY <3>1
  <2>2. k = n + 1 /\ n # Levels - 1 /\ k \in 0 .. Levels - 1
    BY SMT, <2>1, LevelFacts
  <2>3. PICK s : s = d(n)
    OBVIOUS
  <2>4. Descended(s, m, va, user, n, X)
    BY <1>2, <2>1, <2>3
  <2>5. d(k) = create_next_table(s, va[k], user)
    <3>1. Descends(Descent(m, va, user), m, va, user)
      BY DescentDef
    <3>2. d(k) = create_next_table(Descent(m, va, user)[k - 1], va[k], user)
      BY <3>1 DEF Descends
    <3> QED BY <2>1, <2>3, <3>2
  <2>6. CASE ~s.ok
    <3>1. d(k) = s
      BY <2>5, <2>6 DEF create_next_table
    <3>2. Descended(s, m, va, user, k, X)
      BY <2>4, <2>6 DEF Descended
    <3> QED BY <2>2, <3>1, <3>2
  <2>7. CASE s.ok
    <3> HIDE DEF d
    <3>1. CASE IsTable(s.m.pte[s.table][va[k]])
      BY <2>2, <2>4, <2>5, <2>7, <3>1, DescendOld
    <3>2. CASE s.m.pte[s.table][va[k]] = NoEntry /\ s.m.free # {}
      BY <2>2, <2>4, <2>5, <2>7, <3>2, DescendNew
    <3>3. CASE /\ ~IsTable(s.m.pte[s.table][va[k]])
               /\ s.m.pte[s.table][va[k]] = NoEntry => s.m.free = {}
      BY <2>2, <2>4, <2>5, <2>7, <3>3, DescendFails
    <3> QED BY <3>1, <3>2, <3>3
  <2> QED BY <2>6, <2>7
<1>3. \A k \in 0 .. Levels - 1 : k \in Q
  <2> HIDE DEF Q
  <2> QED BY <1>1, <1>2, InductionTo, LevelFacts
<1> QED
  BY <1>3, LevelFacts

\* Fewer spare frames leave a tree a tree.
LEMMA TreedLess ==
    ASSUME NEW pt, NEW spare, NEW less, less \subseteq spare, Treed(pt, spare)
    PROVE  Treed(pt, less)
<1>1. PICK T, D, P, U : Tree(pt, spare, T, D, P, U)
  BY DEF Treed
<1>2. ASSUME NEW f \in T, NEW i \in Index, pt[f][i] # NoEntry
      PROVE  EntryOK(pt[f][i], f, i, less, T, D, P, U)
  <2>1. EntryOK(pt[f][i], f, i, spare, T, D, P, U)
    BY <1>1, <1>2 DEF Tree
  <2> QED BY <2>1 DEF EntryOK, PageEntry
<1>3. Tree(pt, less, T, D, P, U)
  BY <1>1, <1>2 DEF Tree
<1> QED
  BY <1>3 DEF Treed

\* A call maps just page va, to entry e, or fails and maps nothing.
Mapped(r, m, va, e, X) ==
    /\ r.m \in Mem /\ r.m.free \subseteq m.free /\ r.m.lost = m.lost
    /\ r.ok \in BOOLEAN
    /\ r.ok  => OneWalk(m.pte, r.m.pte, va, e) /\ Walk(m.pte, va) = NoEntry
    /\ ~r.ok => SameWalks(m.pte, r.m.pte)
    /\ Treed(r.m.pte, r.m.free \cup X)

\* map_to_with_table_flags, with the frames of X apart, and in Y those that stay
\* so when the page is mapped.
LEMMA MapToIs ==
    ASSUME NEW m \in Mem, NEW va \in Va, NEW user \in Flag,
           user => va \in UserVa, NEW X, X \cap m.free = {},
           Treed(m.pte, m.free \cup X), NEW e \in Entries, e.user => user,
           NEW Y, Y \subseteq X, e.frame \in Frame => e.frame \in X,
           e.frame \notin Y
    PROVE  /\ Mapped(map_to_with_table_flags(m, va, e, user), m, va, e, Y)
           /\ ~map_to_with_table_flags(m, va, e, user).ok =>
                 Treed(map_to_with_table_flags(m, va, e, user).m.pte,
                       map_to_with_table_flags(m, va, e, user).m.free \cup X)
<1>1. PICK r, d : /\ r = map_to_with_table_flags(m, va, e, user)
                  /\ d = Descent(m, va, user)[Levels - 1]
  OBVIOUS
<1>2. Descended(d, m, va, user, Levels - 1, X)
  BY <1>1, DescentIs
<1>3. Grew(d.m, m, X)
  BY <1>2 DEF Descended
<1>4. /\ d.m \in Mem /\ d.m.free \subseteq m.free /\ d.m.lost = m.lost
      /\ SameWalks(m.pte, d.m.pte) /\ Treed(d.m.pte, d.m.free \cup X)
  BY <1>3 DEF Grew
<1>5. Treed(d.m.pte, d.m.free \cup Y)
  <2>1. d.m.free \cup Y \subseteq d.m.free \cup X
    OBVIOUS
  <2> QED BY <1>4, <2>1, TreedLess
<1>6. ASSUME r = Fails(d.m)
      PROVE  Mapped(r, m, va, e, Y) /\ Treed(r.m.pte, r.m.free \cup X)
  <2>1. r.ok = FALSE /\ r.m = d.m
    BY <1>6 DEF Fails
  <2> QED BY <1>4, <1>5, <2>1 DEF Mapped
<1>7. CASE ~d.ok
  BY <1>1, <1>6, <1>7 DEF map_to_with_table_flags
<1>8. CASE d.ok
  <2>1. Stands(d.m.pte, d.m.free \cup X, d.table, va, Levels - 1, user)
    BY <1>2, <1>8 DEF Descended
  <2>2. va[Levels] \in Index
    BY LevelFacts
  <2>3. CASE d.m.pte[d.table][va[Levels]] # NoEntry
    BY <1>1, <1>6, <1>8, <2>3 DEF map_to_with_table_flags
  <2>4. CASE d.m.pte[d.table][va[Levels]] = NoEntry
    <3>1. PICK n : n = Put(d.m, d.table, va[Levels], e)
      OBVIOUS
    <3>2. r = [ok |-> TRUE, m |-> n]
      BY <1>1, <1>8, <2>4, <3>1 DEF map_to_with_table_flags
    <3>3. r.ok = TRUE /\ r.m = n
      BY <3>2
    <3>4. e \in PTE /\ e # NoEntry /\ d.table \in Frame
      BY <2>1, EntryFacts DEF PTE, Stands, Tree
    <3>5. Retabled(n, d.m, Set(d.m.pte, d.table, va[Levels], e))
      BY <1>4, <2>2, <3>1, <3>4, PutIs
    <3>6. PICK A, B : A = d.m.free \cup X /\ B = d.m.free \cup Y
      OBVIOUS
    <3>7. PageFor(e, A, B, user)
      <4>1. e.frame \notin d.m.free
        BY <1>4 DEF Mem
      <4> QED BY <3>6, <4>1 DEF PageFor
    <3>8. PICK pt, t : pt = d.m.pte /\ t = d.table
      OBVIOUS
    <3>9. LeafSet(pt, Set(pt, t, va[Levels], e), B, va, e)
      <4>1. B \subseteq A
        BY <3>6
      <4>2. Stands(pt, A, t, va, Levels - 1, user)
        BY <2>1, <3>6, <3>8
      <4> QED BY <3>4, <3>7, <4>1, <4>2, SetLeaf
    <3>10. Treed(n.pte, n.free \cup Y) /\ OneWalk(d.m.pte, n.pte, va, e)
      BY <3>5, <3>6, <3>8, <3>9 DEF LeafSet, Retabled
    <3>11. Walk(pt, va) = NoEntry
      <4>1. PICK T, D, P, U :
               /\ Tree(pt, A, T, D, P, U)
               /\ t \in T /\ D[t] = Levels - 1 /\ On(t, va, D, P)
        BY <2>1, <3>6, <3>8 DEF Stands
      <4>2. Stopped(pt, t, va, D)
        BY <4>1, StopWalk DEF Stop
      <4>3. D[t] + 1 = Levels
        BY SMT, <4>1, LevelFacts
      <4> QED BY <2>4, <3>8, <4>2, <4>3 DEF Stopped
    <3>12. OneWalk(m.pte, n.pte, va, e) /\ Walk(m.pte, va) = NoEntry
      BY <1>4, <3>8, <3>10, <3>11 DEF OneWalk, SameWalks
    <3>13. n \in Mem /\ n.free = d.m.free /\ n.lost = d.m.lost
      BY <3>5 DEF Retabled
    <3>14. Mapped(r, m, va, e, Y)
      BY <1>4, <3>3, <3>10, <3>12, <3>13 DEF Mapped
    <3> QED BY <1>1, <3>3, <3>14
  <2> QED BY <2>3, <2>4
<1> QED
  BY <1>7, <1>8

-----------------------------------------------------------------------------
(* The calls *)

\* A frame of the pools or the tables is the page of one mapping at most.
PoolOnce(pt) ==
    \A va, vb \in Va :
        /\ Walk(pt, va) # NoEntry /\ Walk(pt, vb) # NoEntry
        /\ Walk(pt, va).frame = Walk(pt, vb).frame /\ Walk(pt, va).frame \in Frame
        => va = vb

\* Ring 3's pages: W^X each, and what is not of the pools is never executable.
PageOK(e) == e.user => /\ e.write => e.nx
                       /\ e.frame \notin Frame => e.nx

UserPages(pt) == \A va \in Va : Walk(pt, va) # NoEntry => PageOK(Walk(pt, va))

\* The inductive invariant, of the memory.
MemInv(m) ==
    /\ m \in Mem /\ m.free \cap m.lost = {}
    /\ Treed(m.pte, m.free \cup m.lost)
    /\ PoolOnce(m.pte) /\ UserPages(m.pte)

\* A page that is mapped is no table, and not spare.
LEMMA PageFacts ==
    ASSUME NEW pt, NEW spare, NEW T, NEW D, NEW P, NEW U,
           Tree(pt, spare, T, D, P, U), NEW va \in Va, Walk(pt, va) # NoEntry
    PROVE  /\ Walk(pt, va) \in Entries
           /\ Walk(pt, va).frame \notin spare /\ Walk(pt, va).frame \notin T
<1>1. PICK f \in T : Stop(pt, f, va, D, P)
  BY StopExists
<1>2. Stopped(pt, f, va, D)
  BY <1>1, StopWalk
<1>3. D[f] \in 0 .. Levels - 1
  BY DEF Tree
<1>4. PICK i \in Index : i = va[D[f] + 1]
  BY <1>3, LevelFacts
<1>5. Walk(pt, va) = pt[f][i]
  BY <1>2, <1>4 DEF Stopped
<1>6. /\ pt[f][i] # NoEntry =>
            pt[f][i] \in Entries /\ EntryOK(pt[f][i], f, i, spare, T, D, P, U)
  BY EntryOfTable
<1>7. D[f] = Levels - 1 \/ pt[f][i].huge
  BY <1>1, <1>4, <1>5 DEF Stop, IsTable
<1> QED
  BY <1>5, <1>6, <1>7 DEF EntryOK, PageEntry

\* The same, of a memory.
LEMMA NotSpare ==
    ASSUME NEW pt, NEW spare, Treed(pt, spare), NEW va \in Va
    PROVE  Walk(pt, va) # NoEntry =>
              Walk(pt, va) \in Entries /\ Walk(pt, va).frame \notin spare
BY PageFacts DEF Treed

\* A page is mapped, to a frame that was spare or is outside.
LEMMA NewPage ==
    ASSUME NEW pt, NEW q, NEW spare, Treed(pt, spare), PoolOnce(pt), UserPages(pt),
           NEW va \in Va, NEW e \in Entries, OneWalk(pt, q, va, e), PageOK(e),
           e.frame \in Frame => e.frame \in spare
    PROVE  PoolOnce(q) /\ UserPages(q)
<1>1. ASSUME NEW vb \in Va, vb # va
      PROVE  /\ Walk(q, vb) = Walk(pt, vb)
             /\ Walk(q, vb) # NoEntry /\ e.frame \in Frame => Walk(q, vb).frame # e.frame
  <2>1. Walk(q, vb) = Walk(pt, vb)
    BY <1>1 DEF OneWalk
  <2>2. Walk(pt, vb) # NoEntry => Walk(pt, vb).frame \notin spare
    BY NotSpare
  <2> QED BY <2>1, <2>2
<1>2. Walk(q, va) = e
  BY DEF OneWalk
<1>3. UserPages(q)
  BY <1>1, <1>2 DEF UserPages
<1>4. ASSUME NEW vb \in Va, NEW vc \in Va, vb # vc,
             Walk(q, vb) # NoEntry, Walk(q, vc) # NoEntry,
             Walk(q, vb).frame = Walk(q, vc).frame, Walk(q, vb).frame \in Frame
      PROVE  FALSE
  <2>1. CASE vb = va
    BY <1>1, <1>2, <1>4, <2>1
  <2>2. CASE vc = va
    BY <1>1, <1>2, <1>4, <2>2
  <2>3. CASE vb # va /\ vc # va
    BY <1>1, <1>4, <2>3 DEF PoolOnce
  <2> QED BY <2>1, <2>2, <2>3
<1> QED
  BY <1>3, <1>4 DEF PoolOnce

\* The same translations keep what is said of them.
LEMMA SamePages ==
    ASSUME NEW pt, NEW q, SameWalks(pt, q), PoolOnce(pt), UserPages(pt)
    PROVE  PoolOnce(q) /\ UserPages(q)
BY DEF SameWalks, PoolOnce, UserPages

\* So does the removal of one.
LEMMA LessPages ==
    ASSUME NEW pt, NEW q, NEW va \in Va, OneWalk(pt, q, va, NoEntry),
           PoolOnce(pt), UserPages(pt)
    PROVE  PoolOnce(q) /\ UserPages(q)
<1>1. \A vb \in Va : Walk(q, vb) # NoEntry => vb # va /\ Walk(q, vb) = Walk(pt, vb)
  BY DEF OneWalk
<1> QED
  BY <1>1 DEF PoolOnce, UserPages

\* A request of one of the callers.
GoodRequest(q) ==
    /\ q.call \in {"range", "lapic", "image", "window"}
    /\ q.va \in Va /\ q.va # Guard
    /\ q.user \in BOOLEAN /\ q.write \in BOOLEAN /\ q.nx \in BOOLEAN
    /\ q.call \in {"range", "lapic"} =>
          q.va \in DOMAIN DeviceFrame /\ ~q.user /\ q.write /\ q.nx
    /\ q.call \in {"image", "window"} =>
          q.va \in UserVa /\ q.user /\ (q.write => q.nx)
    /\ q.call = "window" => q.phys \in Nat \ Frame /\ q.nx

\* Page q.va is mapped as asked, or was mapped.
Fulfilled(pt, n, q) ==
    /\ \A vb \in Va : vb # q.va => Walk(n, vb) = Walk(pt, vb)
    /\ IF Walk(pt, q.va) = NoEntry
       THEN Space!HasRights(Walk(n, q.va), q)
       ELSE q.call = "range" /\ Walk(n, q.va) = Walk(pt, q.va)

\* A call for one page.
PageDone(r, m, q) ==
    /\ r.ok \in BOOLEAN /\ MemInv(r.m)
    /\ r.ok => Fulfilled(m.pte, r.m.pte, q)
    /\ ~r.ok => SameWalks(m.pte, r.m.pte)

\* An entry made for a page.
LEMMA EntryIs ==
    ASSUME NEW frame \in Nat, NEW user \in Flag, NEW write \in Flag, NEW nx \in Flag,
           NEW e, e = Entry(frame, user, write, nx)
    PROVE  /\ e \in Entries /\ e # NoEntry /\ e.frame = frame /\ e.user = user
           /\ e.write = write /\ e.nx = nx
<1>1. e \in Entries
  BY SMT DEF Entry, Pte, Entries, Flag
<1> QED
  BY <1>1, EntryFacts DEF Entry, Pte, PTE

\* A page mapped with the rights asked for.
LEMMA MappedDone ==
    ASSUME NEW m, MemInv(m), NEW n \in Mem, NEW r, NEW q, GoodRequest(q),
           NEW e \in Entries, Mapped(r, n, q.va, e, m.lost),
           n.pte = m.pte, n.free \subseteq m.free, n.lost = m.lost, r.ok,
           e.frame \in Frame => e.frame \in m.free, PageOK(e),
           e.user = q.user, e.write = q.write, e.nx = q.nx
    PROVE  PageDone(r, m, q)
<1>1. /\ r.m \in Mem /\ r.m.free \subseteq m.free /\ r.m.lost = m.lost
      /\ OneWalk(m.pte, r.m.pte, q.va, e) /\ Walk(m.pte, q.va) = NoEntry
      /\ Treed(r.m.pte, r.m.free \cup m.lost) /\ r.ok \in BOOLEAN
  BY DEF Mapped
<1>2. q.va \in Va
  BY DEF GoodRequest
<1>3. PoolOnce(r.m.pte) /\ UserPages(r.m.pte)
  <2>1. PICK pt, spare : pt = m.pte /\ spare = m.free \cup m.lost
    OBVIOUS
  <2>2. /\ Treed(pt, spare) /\ PoolOnce(pt) /\ UserPages(pt)
        /\ OneWalk(pt, r.m.pte, q.va, e) /\ (e.frame \in Frame => e.frame \in spare)
    BY <1>1, <2>1 DEF MemInv
  <2> QED BY <1>2, <2>2, NewPage
<1>4. r.m.free \cap r.m.lost = {}
  BY <1>1 DEF MemInv
<1>5. MemInv(r.m)
  BY <1>1, <1>3, <1>4 DEF MemInv
<1>6. e # NoEntry
  BY EntryFacts DEF PTE
<1>7. Fulfilled(m.pte, r.m.pte, q)
  <2>1. Walk(r.m.pte, q.va) = e
    BY <1>1 DEF OneWalk
  <2>2. Space!HasRights(Walk(r.m.pte, q.va), q)
    BY <1>6, <2>1 DEF Space!HasRights
  <2> QED BY <1>1, <2>2 DEF Fulfilled, OneWalk
<1> QED
  BY <1>1, <1>5, <1>7 DEF PageDone

\* A page that could not be mapped; the frames of X are lost.
LEMMA FailedDone ==
    ASSUME NEW m, MemInv(m), NEW r, NEW q, r.ok = FALSE, r.m \in Mem,
           r.m.free \cap r.m.lost = {}, Treed(r.m.pte, r.m.free \cup r.m.lost),
           SameWalks(m.pte, r.m.pte)
    PROVE  PageDone(r, m, q)
<1>1. PoolOnce(r.m.pte) /\ UserPages(r.m.pte)
  <2>1. PICK pt : pt = m.pte
    OBVIOUS
  <2> QED BY <2>1, SamePages DEF MemInv
<1> QED
  BY <1>1 DEF MemInv, PageDone

\* map_to_with_table_flags for a page of the devices or of a window, whose
\* frame is outside.
LEMMA OutsideDone ==
    ASSUME NEW m, MemInv(m), NEW q, GoodRequest(q), NEW e \in Entries,
           e.frame \notin Frame, e.user = q.user, e.write = q.write, e.nx = q.nx,
           q.nx
    PROVE  PageDone(map_to_with_table_flags(m, q.va, e, q.user), m, q)
<1>1. PICK va, user, r : /\ va = q.va /\ user = q.user
                         /\ r = map_to_with_table_flags(m, va, e, user)
  OBVIOUS
<1>2. va \in Va /\ user \in Flag /\ (user => va \in UserVa)
  BY <1>1 DEF GoodRequest, Flag
<1>3. /\ m \in Mem /\ m.lost \cap m.free = {} /\ m.free \cap m.lost = {}
      /\ Treed(m.pte, m.free \cup m.lost) /\ m.lost \subseteq Frame
  BY DEF MemInv, Mem
<1>4. PICK X : X = m.lost
  OBVIOUS
<1>5. /\ Mapped(r, m, va, e, X)
      /\ ~r.ok => Treed(r.m.pte, r.m.free \cup X)
  <2>1. /\ X \cap m.free = {} /\ Treed(m.pte, m.free \cup X) /\ X \subseteq X
        /\ (e.user => user) /\ (e.frame \in Frame => e.frame \in X) /\ e.frame \notin X
    BY <1>1, <1>3, <1>4
  <2> QED BY <1>1, <1>2, <1>3, <2>1, MapToIs
<1>6. CASE r.ok
  <2>1. PageOK(e) /\ (e.frame \in Frame => e.frame \in m.free)
    BY DEF PageOK
  <2>2. PageDone(r, m, q)
    BY <1>1, <1>3, <1>4, <1>5, <1>6, <2>1, MappedDone
  <2> QED BY <1>1, <2>2
<1>7. CASE ~r.ok
  <2>1. /\ r.ok = FALSE /\ r.m \in Mem /\ SameWalks(m.pte, r.m.pte)
        /\ r.m.free \subseteq m.free /\ r.m.lost = m.lost
    BY <1>5, <1>7 DEF Mapped
  <2>2. Treed(r.m.pte, r.m.free \cup r.m.lost) /\ r.m.free \cap r.m.lost = {}
    BY <1>3, <1>4, <1>5, <1>7, <2>1
  <2>3. PageDone(r, m, q)
    BY <2>1, <2>2, FailedDone
  <2> QED BY <1>1, <2>3
<1> QED
  BY <1>6, <1>7

\* map_mmio maps a device page for the kernel.
LEMMA MmioDone ==
    ASSUME NEW m, MemInv(m), NEW q, GoodRequest(q), q.call \in {"range", "lapic"}
    PROVE  PageDone(map_mmio(m, q.va), m, q)
<1>1. q.va \in DOMAIN DeviceFrame /\ q.user = FALSE /\ q.write = TRUE /\ q.nx = TRUE
  BY DEF GoodRequest
<1>2. PICK e : e = DeviceEntry(q.va)
  OBVIOUS
<1>3. DeviceFrame[q.va] \in Nat /\ DeviceFrame[q.va] \notin Frame
  BY <1>1, PagingAssumption
<1>4. /\ e \in Entries /\ e.frame \notin Frame /\ e.user = FALSE /\ e.write = TRUE
      /\ e.nx = TRUE
  <2>1. TRUE \in Flag /\ FALSE \in Flag
    BY DEF Flag
  <2>2. e = Entry(DeviceFrame[q.va], FALSE, TRUE, TRUE)
    BY <1>2 DEF DeviceEntry
  <2>3. PICK frame \in Nat : frame = DeviceFrame[q.va]
    BY <1>3
  <2>4. e \in Entries
    BY SMT, <2>2, <2>3 DEF Entry, Pte, Entries
  <2> QED BY <1>3, <2>2, <2>4 DEF Entry, Pte
<1>5. PageDone(map_to_with_table_flags(m, q.va, e, q.user), m, q)
  BY <1>1, <1>4, OutsideDone
<1> QED
  BY <1>1, <1>2, <1>5 DEF map_mmio

\* map_user_phys maps a page of a window for ring 3.
LEMMA WindowDone ==
    ASSUME NEW m, MemInv(m), NEW q, GoodRequest(q), q.call = "window"
    PROVE  PageDone(map_user_phys(m, q.va, q.phys, q.write, FALSE), m, q)
<1>1. /\ q.phys \in Nat /\ q.phys \notin Frame /\ q.user = TRUE
      /\ q.write \in BOOLEAN /\ q.nx = TRUE
  BY DEF GoodRequest
<1>2. PICK e : e = Entry(q.phys, TRUE, q.write, ~FALSE)
  OBVIOUS
<1>3. /\ e \in Entries /\ e.frame \notin Frame /\ e.user = TRUE /\ e.write = q.write
      /\ e.nx = TRUE
  <2>1. e \in Entries
    BY SMT, <1>1, <1>2 DEF Entry, Pte, Entries
  <2> QED BY <1>1, <1>2, <2>1 DEF Entry, Pte
<1>4. PageDone(map_to_with_table_flags(m, q.va, e, q.user), m, q)
  BY <1>1, <1>3, OutsideDone
<1> QED
  BY <1>1, <1>2, <1>4 DEF map_user_phys

\* What translate_page finds is a translation.
LEMMA TranslateIs ==
    ASSUME NEW m, MemInv(m), NEW va \in Va
    PROVE  translate_page(m, va) => Walk(m.pte, va) # NoEntry
<1>1. PICK T, D, P, U : Tree(m.pte, m.free \cup m.lost, T, D, P, U)
  BY DEF MemInv, Treed
<1>2. PICK f \in T : Stop(m.pte, f, va, D, P)
  BY <1>1, StopExists
<1>3. Stopped(m.pte, f, va, D)
  BY <1>1, <1>2, StopWalk
<1>4. ASSUME translate_page(m, va) PROVE Walk(m.pte, va) # NoEntry
  <2>1. /\ D[f] = Levels - 1 /\ LeafTable(m.pte, va) = f
        /\ m.pte[f][va[Levels]] # NoEntry
    BY <1>3, <1>4 DEF translate_page, Stopped
  <2>2. D[f] + 1 = Levels
    BY SMT, <2>1, LevelFacts
  <2> QED BY <1>3, <2>1, <2>2 DEF Stopped
<1> QED
  BY <1>4

\* One round of map_mmio_range.
LEMMA RangeDone ==
    ASSUME NEW m, MemInv(m), NEW q, GoodRequest(q), q.call = "range"
    PROVE  PageDone(RangePage(m, q.va), m, q)
<1>1. CASE translate_page(m, q.va)
  <2>1. PICK r : r = RangePage(m, q.va)
    OBVIOUS
  <2>2. r.ok = TRUE /\ r.m = m
    BY <1>1, <2>1 DEF RangePage
  <2>3. Walk(m.pte, q.va) # NoEntry
    BY <1>1, TranslateIs DEF GoodRequest
  <2>4. PageDone(r, m, q)
    BY <2>2, <2>3 DEF PageDone, Fulfilled
  <2> QED BY <2>1, <2>4
<1>2. CASE ~translate_page(m, q.va)
  BY <1>2, MmioDone DEF RangePage
<1> QED
  BY <1>1, <1>2

\* map_user_page maps a fresh frame for ring 3, or loses it.
LEMMA ImageDone ==
    ASSUME NEW m, MemInv(m), NEW q, GoodRequest(q), q.call = "image"
    PROVE  PageDone(map_user_page(m, q.va, q.write, ~q.nx), m, q)
<1>1. PICK z : z = map_user_page(m, q.va, q.write, ~q.nx)
  OBVIOUS
<1>2. /\ m \in Mem /\ m.lost \cap m.free = {}
      /\ Treed(m.pte, m.free \cup m.lost) /\ m.lost \subseteq Frame
  BY DEF MemInv, Mem
<1>3. CASE m.free = {}
  <2>1. z.ok = FALSE /\ z.m = m
    BY <1>1, <1>3 DEF map_user_page, Fails
  <2>2. PageDone(z, m, q)
    BY <2>1 DEF PageDone, SameWalks, MemInv
  <2> QED BY <1>1, <2>2
<1>4. CASE m.free # {}
  <2>1. PICK a, g : a = allocate_frame(m) /\ g = a.frame
    OBVIOUS
  <2>2. /\ g \in m.free /\ a.m \in Mem
        /\ a.m.pte = m.pte /\ a.m.free = m.free \ {g} /\ a.m.lost = m.lost
    BY <1>2, <1>4, <2>1, AllocIs DEF Takes
  <2>3. g \in Frame /\ g \in Nat
    BY <1>2, <2>2, PagingAssumption DEF Mem
  <2>4. PICK e : e = Entry(g, TRUE, q.write, ~~q.nx)
    OBVIOUS
  <2>5. /\ e \in Entries /\ e.frame = g /\ e.user = q.user /\ e.write = q.write
        /\ e.nx = q.nx /\ PageOK(e)
    <3>1. q.write \in BOOLEAN /\ q.nx \in BOOLEAN /\ (~~q.nx) = q.nx
          /\ q.user = TRUE /\ (q.write => q.nx)
      BY DEF GoodRequest
    <3>2. e = Entry(g, TRUE, q.write, q.nx)
      BY <2>4, <3>1
    <3>3. e \in Entries
      BY SMT, <2>3, <3>1, <3>2 DEF Entry, Pte, Entries
    <3>4. e.frame = g /\ e.user = TRUE /\ e.write = q.write /\ e.nx = q.nx
      BY <3>2 DEF Entry, Pte
    <3> QED BY <2>3, <3>1, <3>3, <3>4 DEF PageOK
  <2>6. PICK n, va, X, Y, r :
           /\ n = a.m /\ va = q.va /\ X = m.lost \cup {g} /\ Y = m.lost
           /\ r = map_to_with_table_flags(n, va, e, TRUE)
    OBVIOUS
  <2>7. /\ Mapped(r, n, va, e, Y) /\ (~r.ok => Treed(r.m.pte, r.m.free \cup X))
    <3>1. /\ n \in Mem /\ va \in Va /\ TRUE \in Flag /\ (TRUE => va \in UserVa)
          /\ X \cap n.free = {} /\ Y \subseteq X /\ (e.user => TRUE)
          /\ (e.frame \in Frame => e.frame \in X) /\ e.frame \notin Y
      BY <1>2, <2>2, <2>5, <2>6 DEF GoodRequest, Flag
    <3>2. n.free \cup X = m.free \cup m.lost
      BY <2>2, <2>6
    <3>3. Treed(n.pte, n.free \cup X)
      BY <1>2, <2>2, <2>6, <3>2
    <3> QED BY <2>5, <2>6, <3>1, <3>3, MapToIs
  <2>8. CASE r.ok
    <3>1. z = r
      BY <1>1, <1>4, <2>1, <2>4, <2>6, <2>8 DEF map_user_page
    <3>2. /\ n.pte = m.pte /\ n.free \subseteq m.free /\ n.lost = m.lost
          /\ n \in Mem /\ (e.frame \in Frame => e.frame \in m.free)
      BY <2>2, <2>5, <2>6
    <3>3. PageDone(r, m, q)
      BY <2>5, <2>6, <2>7, <2>8, <3>2, MappedDone
    <3> QED BY <1>1, <3>1, <3>3
  <2>9. CASE ~r.ok
    <3>1. z = Fails([r.m EXCEPT !.lost = @ \cup {g}])
      BY <1>1, <1>4, <2>1, <2>4, <2>6, <2>9 DEF map_user_page
    <3>2. PICK l : l = [r.m EXCEPT !.lost = @ \cup {g}]
      OBVIOUS
    <3>3. /\ r.m \in Mem /\ r.m.free \subseteq n.free /\ r.m.lost = n.lost
          /\ SameWalks(n.pte, r.m.pte) /\ Treed(r.m.pte, r.m.free \cup X)
      BY <2>7, <2>9 DEF Mapped
    <3>4. r.m.lost \cup {g} \in SUBSET Frame
      BY <2>3, <3>3 DEF Mem
    <3>5. l \in Mem /\ l.pte = r.m.pte /\ l.free = r.m.free /\ l.lost = m.lost \cup {g}
      <4>1. l = [r.m EXCEPT !.lost = r.m.lost \cup {g}]
        BY <3>2, <3>3 DEF Mem
      <4>2. l \in Mem
        BY <3>3, <3>4, <4>1 DEF Mem
      <4>3. l.pte = r.m.pte /\ l.free = r.m.free /\ l.lost = r.m.lost \cup {g}
        BY <3>3, <4>1 DEF Mem
      <4> QED BY <2>2, <2>6, <3>3, <4>2, <4>3
    <3>6. z.ok = FALSE /\ z.m = l
      BY <3>1, <3>2 DEF Fails
    <3>7. z.m.free \cap z.m.lost = {}
      BY <1>2, <2>2, <2>6, <3>3, <3>5, <3>6
    <3>8. Treed(z.m.pte, z.m.free \cup z.m.lost)
      BY <2>6, <3>3, <3>5, <3>6
    <3>9. z.m \in Mem /\ SameWalks(m.pte, z.m.pte)
      BY <2>2, <2>6, <3>3, <3>5, <3>6
    <3>10. PageDone(z, m, q)
      BY <3>6, <3>7, <3>8, <3>9, FailedDone
    <3> QED BY <1>1, <3>10
  <2> QED BY <2>8, <2>9
<1> QED
  BY <1>3, <1>4

\* Whatever the request.
LEMMA PageIs ==
    ASSUME NEW m, MemInv(m), NEW q, GoodRequest(q)
    PROVE  PageDone(map_page(m, q), m, q)
<1>1. q.call \in {"range", "lapic", "image", "window"}
  BY DEF GoodRequest
<1>2. CASE q.call = "range"
  BY <1>2, RangeDone DEF map_page
<1>3. CASE q.call = "lapic"
  BY <1>3, MmioDone DEF map_page
<1>4. CASE q.call = "image"
  BY <1>4, ImageDone DEF map_page
<1>5. CASE q.call = "window"
  BY <1>5, WindowDone DEF map_page
<1> QED
  BY <1>1, <1>2, <1>3, <1>4, <1>5

\* The last table of a page, when it is there; ring 3's pages have it or are
\* not mapped.
LEMMA LeafFacts ==
    ASSUME NEW m, MemInv(m), NEW va \in Va
    PROVE  /\ HasLeaf(m.pte, va) =>
                 /\ Stands(m.pte, m.free \cup m.lost, LeafTable(m.pte, va), va,
                           Levels - 1, FALSE)
                 /\ Walk(m.pte, va) = m.pte[LeafTable(m.pte, va)][va[Levels]]
           /\ ~HasLeaf(m.pte, va) /\ va \in UserVa => Walk(m.pte, va) = NoEntry
<1>1. PICK T, D, P, U : Tree(m.pte, m.free \cup m.lost, T, D, P, U)
  BY DEF MemInv, Treed
<1>2. PICK f \in T : Stop(m.pte, f, va, D, P)
  BY <1>1, StopExists
<1>3. Stopped(m.pte, f, va, D)
  BY <1>1, <1>2, StopWalk
<1>4. ASSUME HasLeaf(m.pte, va)
      PROVE  /\ Stands(m.pte, m.free \cup m.lost, LeafTable(m.pte, va), va,
                       Levels - 1, FALSE)
             /\ Walk(m.pte, va) = m.pte[LeafTable(m.pte, va)][va[Levels]]
  <2>1. D[f] = Levels - 1 /\ LeafTable(m.pte, va) = f /\ On(f, va, D, P)
    BY <1>2, <1>3, <1>4 DEF Stopped, Stop
  <2>2. D[f] + 1 = Levels
    BY SMT, <2>1, LevelFacts
  <2>3. Stands(m.pte, m.free \cup m.lost, f, va, Levels - 1, FALSE)
    BY <1>1, <2>1 DEF Stands
  <2> QED BY <1>3, <2>1, <2>2, <2>3 DEF Stopped
<1>5. ASSUME ~HasLeaf(m.pte, va), va \in UserVa, Walk(m.pte, va) # NoEntry
      PROVE  FALSE
  <2>1. D[f] # Levels - 1 /\ Walk(m.pte, va) = m.pte[f][va[D[f] + 1]]
    BY <1>3, <1>5 DEF Stopped
  <2>2. D[f] \in 0 .. Levels - 1
    BY <1>1 DEF Tree
  <2>3. D[f] < Levels - 1
    BY SMT, <2>1, <2>2, LevelFacts
  <2>4. PICK i \in Index : i = va[D[f] + 1]
    BY <2>2, LevelFacts
  <2>5. m.pte[f][i] # NoEntry =>
           EntryOK(m.pte[f][i], f, i, m.free \cup m.lost, T, D, P, U)
    BY <1>1, EntryOfTable
  <2>6. m.pte[f][i] # NoEntry /\ ~IsTable(m.pte[f][i])
    BY <1>2, <1>5, <2>1, <2>4 DEF Stop
  <2>7. PageEntry(m.pte[f][i], f, i, m.free \cup m.lost, T, D, P, U)
    BY <2>5, <2>6 DEF EntryOK, IsTable
  <2> QED BY <1>2, <1>5, <2>3, <2>4, <2>7 DEF PageEntry, Stop
<1> QED
  BY <1>4, <1>5

\* The last entry of a page is set.
LEMMA PutLeaf ==
    ASSUME NEW m, MemInv(m), NEW va \in Va, HasLeaf(m.pte, va), NEW n \in Mem,
           n.pte = m.pte, n.lost = m.lost, n.free \subseteq m.free,
           NEW e \in PTE, PageFor(e, m.free \cup m.lost, n.free \cup n.lost, FALSE)
    PROVE  /\ Retabled(Put(n, LeafTable(m.pte, va), va[Levels], e), n,
                       Set(m.pte, LeafTable(m.pte, va), va[Levels], e))
           /\ LeafSet(m.pte, Set(m.pte, LeafTable(m.pte, va), va[Levels], e),
                      n.free \cup n.lost, va, e)
<1>1. PICK pt, t, A, B : /\ pt = m.pte /\ t = LeafTable(m.pte, va)
                         /\ A = m.free \cup m.lost /\ B = n.free \cup n.lost
  OBVIOUS
<1>2. Stands(pt, A, t, va, Levels - 1, FALSE)
  BY <1>1, LeafFacts
<1>3. t \in Frame /\ va[Levels] \in Index
  BY <1>2, LevelFacts DEF Stands, Tree
<1>4. Retabled(Put(n, t, va[Levels], e), n, Set(pt, t, va[Levels], e))
  BY <1>1, <1>3, PutIs
<1>5. LeafSet(pt, Set(pt, t, va[Levels], e), B, va, e)
  <2>1. B \subseteq A /\ PageFor(e, A, B, FALSE)
    BY <1>1
  <2> QED BY <1>2, <2>1, SetLeaf
<1> QED
  BY <1>1, <1>4, <1>5

\* An unmapping of one page.
Unmapped(u, m, va) ==
    /\ MemInv(u)
    /\ HasLeaf(m.pte, va) \/ va \in UserVa => OneWalk(m.pte, u.pte, va, NoEntry)
    /\ ~HasLeaf(m.pte, va) => u = m

\* unmap_page removes one translation at most.
LEMMA UnmapIs ==
    ASSUME NEW m, MemInv(m), NEW va \in Va
    PROVE  /\ Unmapped(unmap_page(m, va).m, m, va)
           /\ unmap_page(m, va).ok = HasLeaf(m.pte, va)
<1>0. HasLeaf(m.pte, va) \in BOOLEAN
  BY DEF HasLeaf, IsTable
<1>1. CASE ~HasLeaf(m.pte, va)
  <2>1. unmap_page(m, va).m = m /\ unmap_page(m, va).ok = FALSE
    BY <1>1 DEF unmap_page, Fails
  <2>2. va \in UserVa => OneWalk(m.pte, m.pte, va, NoEntry)
    BY <1>1, LeafFacts DEF OneWalk
  <2>3. Unmapped(m, m, va)
    BY <1>1, <2>2 DEF Unmapped
  <2> QED BY <1>0, <1>1, <2>1, <2>3
<1>2. CASE HasLeaf(m.pte, va)
  <2>1. PICK t, u : t = LeafTable(m.pte, va) /\ u = Put(m, t, va[Levels], NoEntry)
    OBVIOUS
  <2>2. unmap_page(m, va).m = u /\ unmap_page(m, va).ok = TRUE
    BY <1>2, <2>1 DEF unmap_page
  <2>3. m \in Mem /\ NoEntry \in PTE
        /\ PageFor(NoEntry, m.free \cup m.lost, m.free \cup m.lost, FALSE)
    BY DEF MemInv, PTE, PageFor
  <2>4. PICK q : q = Set(m.pte, t, va[Levels], NoEntry)
    OBVIOUS
  <2>5. Retabled(u, m, q) /\ LeafSet(m.pte, q, m.free \cup m.lost, va, NoEntry)
    BY <1>2, <2>1, <2>3, <2>4, PutLeaf
  <2>6. /\ u \in Mem /\ u.pte = q /\ u.free = m.free /\ u.lost = m.lost
        /\ Treed(q, m.free \cup m.lost) /\ OneWalk(m.pte, q, va, NoEntry)
    BY <2>5 DEF Retabled, LeafSet
  <2>7. PoolOnce(q) /\ UserPages(q)
    <3>1. PICK pt : pt = m.pte
      OBVIOUS
    <3>2. OneWalk(pt, q, va, NoEntry) /\ PoolOnce(pt) /\ UserPages(pt)
      BY <2>6, <3>1 DEF MemInv
    <3> QED BY <3>2, LessPages
  <2>8. MemInv(u)
    BY <2>6, <2>7 DEF MemInv
  <2>9. Unmapped(u, m, va)
    BY <1>2, <2>6, <2>8 DEF Unmapped
  <2> QED BY <1>0, <1>2, <2>2, <2>9
<1> QED
  BY <1>1, <1>2

\* The page-fault backstop maps one page, for the kernel.
LEMMA FaultIs ==
    ASSUME NEW m, MemInv(m), NEW va \in Va, Walk(m.pte, va) = NoEntry,
           manual_map(m, va).ok
    PROVE  /\ MemInv(manual_map(m, va).m)
           /\ \E e \in Entries : /\ OneWalk(m.pte, manual_map(m, va).m.pte, va, e)
                                 /\ e.user = FALSE /\ e.write = TRUE /\ e.nx = FALSE
<1>1. PICK t, a, g : t = LeafTable(m.pte, va) /\ a = allocate_frame(m) /\ g = a.frame
  OBVIOUS
<1>2. HasLeaf(m.pte, va)
  BY DEF manual_map, Fails
<1>3. m.pte[t][va[Levels]] = NoEntry
  BY <1>1, <1>2, LeafFacts
<1>4. m.free # {}
  BY <1>1, <1>2, <1>3 DEF manual_map, Fails
<1>5. PICK e : e = Entry(g, FALSE, TRUE, FALSE)
  OBVIOUS
<1>6. PICK n, u : n = a.m /\ u = Put(n, t, va[Levels], e)
  OBVIOUS
<1>7. manual_map(m, va).m = u
  BY <1>1, <1>2, <1>3, <1>4, <1>5, <1>6 DEF manual_map
<1>8. m \in Mem /\ m.free \cap m.lost = {}
  BY DEF MemInv
<1>9. /\ g \in m.free /\ n \in Mem
      /\ n.pte = m.pte /\ n.free = m.free \ {g} /\ n.lost = m.lost
  BY <1>1, <1>4, <1>6, <1>8, AllocIs DEF Takes
<1>10. g \in Nat
  BY <1>8, <1>9, PagingAssumption DEF Mem
<1>11. e \in Entries /\ e.frame = g /\ e.user = FALSE /\ e.write = TRUE /\ e.nx = FALSE
  <2>1. e \in Entries
    BY SMT, <1>5, <1>10 DEF Entry, Pte, Entries
  <2> QED BY <1>5, <2>1 DEF Entry, Pte
<1>12. PICK q : q = Set(m.pte, t, va[Levels], e)
  OBVIOUS
<1>13. Retabled(u, n, q) /\ LeafSet(m.pte, q, n.free \cup n.lost, va, e)
  <2>1. e \in PTE /\ PageFor(e, m.free \cup m.lost, n.free \cup n.lost, FALSE)
    BY <1>8, <1>9, <1>11 DEF PTE, PageFor
  <2>2. n.free \subseteq m.free
    BY <1>9
  <2> QED BY <1>1, <1>2, <1>6, <1>9, <1>12, <2>1, <2>2, PutLeaf
<1>14. /\ u \in Mem /\ u.pte = q /\ u.free = n.free /\ u.lost = n.lost
       /\ Treed(q, n.free \cup n.lost) /\ OneWalk(m.pte, q, va, e)
  BY <1>13 DEF Retabled, LeafSet
<1>15. PoolOnce(q) /\ UserPages(q)
  <2>1. PICK pt, spare : pt = m.pte /\ spare = m.free \cup m.lost
    OBVIOUS
  <2>2. /\ Treed(pt, spare) /\ PoolOnce(pt) /\ UserPages(pt)
        /\ OneWalk(pt, q, va, e) /\ PageOK(e) /\ (e.frame \in Frame => e.frame \in spare)
    BY <1>9, <1>11, <1>14, <2>1 DEF MemInv, PageOK
  <2> QED BY <1>11, <2>2, NewPage
<1>16. MemInv(u)
  BY <1>8, <1>9, <1>14, <1>15 DEF MemInv
<1> QED
  BY <1>7, <1>11, <1>14, <1>16

-----------------------------------------------------------------------------
(* Calls for several pages *)

\* The requests of one call.
Batch(reqs) ==
    /\ Len(reqs) \in Nat
    /\ \A i \in 1 .. Len(reqs) : GoodRequest(reqs[i])
    /\ \A i, j \in 1 .. Len(reqs) : reqs[i].call = reqs[j].call

\* Request q took effect between tables pt and n.
Served(pt, n, q) ==
    IF Walk(pt, q.va) = NoEntry THEN Space!HasRights(Walk(n, q.va), q)
    ELSE q.call = "range" /\ Walk(n, q.va) = Walk(pt, q.va)

\* The first k requests, from tables pt, of a call that maps only pages that
\* are not mapped, unless it is map_mmio_range.
Progress(pt, n, reqs, k) ==
    /\ \A va \in Va : (\A i \in 1 .. k : reqs[i].va # va) => Walk(n, va) = Walk(pt, va)
    /\ \A i \in 1 .. k : Served(pt, n, reqs[i])
    /\ \A i, j \in 1 .. k : i # j /\ reqs[j].call # "range" => reqs[i].va # reqs[j].va

\* After n rounds.
InProgress(s, m, reqs, n) ==
    /\ s.ok \in BOOLEAN /\ MemInv(s.m)
    /\ s.done \in 0 .. n /\ (s.ok <=> s.done = n)
    /\ Progress(m.pte, s.m.pte, reqs, s.done)

\* A page with rights is mapped.
LEMMA ServedMapped ==
    ASSUME NEW pt, NEW n, NEW q, Served(pt, n, q)
    PROVE  Walk(n, q.va) # NoEntry
BY DEF Served, Space!HasRights

\* The next request, if it succeeds.
LEMMA ProgressNext ==
    ASSUME NEW reqs, Batch(reqs), NEW k \in 1 .. Len(reqs), NEW l, l = k - 1,
           NEW pt, NEW n, Progress(pt, n, reqs, l),
           NEW p, NEW q, q = reqs[k], Fulfilled(n, p, q)
    PROVE  Progress(pt, p, reqs, k)
<1>1. /\ \A i \in 1 .. k : i = k \/ i \in 1 .. l
      /\ \A i \in 1 .. l : i \in 1 .. k /\ i # k
      /\ k \in 1 .. k /\ \A i \in 1 .. k : i \in 1 .. Len(reqs)
  BY SMT DEF Batch
<1>2. q.va \in Va /\ GoodRequest(q)
  BY DEF Batch, GoodRequest
<1>3. ASSUME NEW va \in Va, \A i \in 1 .. k : reqs[i].va # va
      PROVE  Walk(p, va) = Walk(pt, va)
  <2>1. Walk(n, va) = Walk(pt, va)
    BY <1>1, <1>3 DEF Progress
  <2>2. Walk(p, va) = Walk(n, va)
    BY <1>1, <1>3 DEF Fulfilled
  <2> QED BY <2>1, <2>2
<1>4. ASSUME NEW i \in 1 .. l, reqs[i].va = q.va
      PROVE  Walk(n, q.va) # NoEntry /\ q.call = "range" /\ Walk(p, q.va) = Walk(n, q.va)
  <2>1. Served(pt, n, reqs[i])
    BY DEF Progress
  <2>2. Walk(n, q.va) # NoEntry
    BY <1>4, <2>1, ServedMapped
  <2> QED BY <2>2 DEF Fulfilled
<1>5. ASSUME NEW i \in 1 .. l PROVE Served(pt, p, reqs[i])
  <2>1. Served(pt, n, reqs[i]) /\ reqs[i].va \in Va
    BY <1>1 DEF Progress, Batch, GoodRequest
  <2>2. Walk(p, reqs[i].va) = Walk(n, reqs[i].va)
    <3>1. CASE reqs[i].va = q.va
      BY <1>4, <3>1
    <3>2. CASE reqs[i].va # q.va
      BY <2>1, <3>2 DEF Fulfilled
    <3> QED BY <3>1, <3>2
  <2> QED BY <2>1, <2>2 DEF Served
<1>6. Served(pt, p, q)
  <2>1. CASE \E i \in 1 .. l : reqs[i].va = q.va
    <3>1. PICK i \in 1 .. l : reqs[i].va = q.va
      BY <2>1
    <3>2. q.call = "range" /\ Walk(p, q.va) = Walk(n, q.va)
      BY <1>4, <3>1
    <3>3. Served(pt, n, reqs[i])
      BY DEF Progress
    <3>4. reqs[i].call = "range" /\ GoodRequest(reqs[i])
      BY <1>1, <3>2 DEF Batch
    <3>5. /\ reqs[i].user = q.user /\ reqs[i].write = q.write /\ reqs[i].nx = q.nx
      BY <1>2, <3>2, <3>4 DEF GoodRequest
    <3> QED BY <3>1, <3>2, <3>3, <3>5 DEF Served, Space!HasRights
  <2>2. CASE ~ \E i \in 1 .. l : reqs[i].va = q.va
    <3>1. Walk(n, q.va) = Walk(pt, q.va)
      BY <1>2, <2>2 DEF Progress
    <3> QED BY <3>1 DEF Fulfilled, Served
  <2> QED BY <2>1, <2>2
<1>7. ASSUME NEW i \in 1 .. k, NEW j \in 1 .. k, i # j, reqs[j].call # "range",
             reqs[i].va = reqs[j].va
      PROVE  FALSE
  <2>1. q.call # "range"
    BY <1>1, <1>7 DEF Batch
  <2>2. CASE i = k
    BY <1>1, <1>4, <1>7, <2>1, <2>2
  <2>3. CASE j = k
    BY <1>1, <1>4, <1>7, <2>1, <2>3
  <2>4. CASE i # k /\ j # k
    BY <1>1, <1>7, <2>4 DEF Progress
  <2> QED BY <2>2, <2>3, <2>4
<1> QED
  BY <1>1, <1>3, <1>5, <1>6, <1>7 DEF Progress

RunsRounds(s, m, reqs) ==
    /\ s[0] = [ok |-> TRUE, m |-> m, done |-> 0]
    /\ \A n \in 1 .. Len(reqs) : s[n] = Round(s[n - 1], reqs[n])

\* The rounds of a call.
LEMMA RoundsDef ==
    ASSUME NEW m, NEW reqs, Len(reqs) \in Nat
    PROVE  RunsRounds(Rounds(m, reqs), m, reqs)
<1> DEFINE N  == Len(reqs)
           x  == <<"rounds", reqs>>
           s0 == [ok |-> TRUE, m |-> m, done |-> 0]
<1>1. x[1] = "rounds" /\ x[2] = reqs
  OBVIOUS
<1>2. \A n, s : Turn(x, n, s) = Round(s, reqs[n])
  BY <1>1 DEF Turn
<1>3. ASSUME NEW f
      PROVE  Turns(x, N, s0, f) <=>
        f = [n \in 0 .. Len(reqs) |->
               IF n = 0 THEN [ok |-> TRUE, m |-> m, done |-> 0]
               ELSE Round(f[n - 1], reqs[n])]
  <2>1. [n \in 0 .. N |-> IF n = 0 THEN s0 ELSE Turn(x, n, f[n - 1])]
          = [n \in 0 .. Len(reqs) |->
               IF n = 0 THEN [ok |-> TRUE, m |-> m, done |-> 0]
               ELSE Round(f[n - 1], reqs[n])]
    BY <1>2
  <2> QED BY <2>1 DEF Turns
<1>4. Rounds(m, reqs) = Looped(x, N, s0)
  BY <1>3 DEF Rounds, Looped
<1> HIDE DEF x, s0
<1>5. Runs(x, N, s0, Looped(x, N, s0))
  BY LoopedIs
<1> QED
  BY <1>2, <1>4, <1>5 DEF s0, Runs, RunsRounds

\* The requests are served in order, until one fails.
LEMMA RoundsIs ==
    ASSUME NEW m, MemInv(m), NEW reqs, Batch(reqs)
    PROVE  InProgress(Rounds(m, reqs)[Len(reqs)], m, reqs, Len(reqs))
<1>1. PICK N, s : N = Len(reqs) /\ s = Rounds(m, reqs)
  OBVIOUS
<1>2. N \in Nat /\ RunsRounds(s, m, reqs)
  BY <1>1, RoundsDef DEF Batch
<1> DEFINE Q == {n \in 0 .. N : InProgress(s[n], m, reqs, n)}
<1>3. 0 \in Q
  <2>1. PICK z : z = s[0]
    OBVIOUS
  <2>6. z = [ok |-> TRUE, m |-> m, done |-> 0]
    BY <1>2, <2>1 DEF RunsRounds
  <2>2. z.ok = TRUE /\ z.m = m /\ z.done = 0
    BY <2>6
  <2>3. 0 \in 0 .. N /\ 0 \in 0 .. 0 /\ \A i \in 1 .. 0 : FALSE
    BY SMT, <1>2
  <2>4. Progress(m.pte, m.pte, reqs, 0)
    BY <2>3 DEF Progress
  <2>5. InProgress(z, m, reqs, 0)
    BY <2>2, <2>3, <2>4 DEF InProgress
  <2> QED BY <2>1, <2>3, <2>5
<1>4. ASSUME NEW n \in 1 .. N, n - 1 \in Q PROVE n \in Q
  <2>1. PICK y, z, l, q : y = s[n - 1] /\ z = s[n] /\ l = n - 1 /\ q = reqs[n]
    OBVIOUS
  <2>2. InProgress(y, m, reqs, l)
    BY <1>4, <2>1
  <2>3. z = Round(y, q)
    BY <1>1, <1>2, <2>1 DEF RunsRounds
  <2>4. n \in 0 .. N /\ n \in 1 .. Len(reqs) /\ l \in Nat /\ n \in Nat
    BY SMT, <1>1, <1>2, <2>1
  <2>5. CASE ~y.ok
    <3>1. z = y
      BY <2>3, <2>5 DEF Round
    <3>2. y.done \in 0 .. n /\ y.done # n
      <4>1. y.done \in 0 .. l
        BY <2>2 DEF InProgress
      <4> QED BY SMT, <2>1, <2>4, <4>1
    <3>3. InProgress(y, m, reqs, n)
      BY <2>2, <2>5, <3>2 DEF InProgress
    <3> QED BY <2>1, <2>4, <3>1, <3>3
  <2>6. CASE y.ok
    <3>1. PICK r : r = map_page(y.m, q)
      OBVIOUS
    <3>2. y.done = l /\ MemInv(y.m) /\ Progress(m.pte, y.m.pte, reqs, l)
      BY <2>2, <2>6 DEF InProgress
    <3>3. GoodRequest(q)
      BY <2>1, <2>4 DEF Batch
    <3>4. PageDone(r, y.m, q)
      BY <3>1, <3>2, <3>3, PageIs
    <3>5. z.ok = r.ok /\ z.m = r.m /\ z.done = IF r.ok THEN y.done + 1 ELSE y.done
      BY <2>3, <2>6, <3>1 DEF Round
    <3>6. CASE r.ok
      <4>1. z.done = n /\ n \in 0 .. n
        BY SMT, <2>1, <2>4, <3>2, <3>5, <3>6
      <4>2. Fulfilled(y.m.pte, r.m.pte, q) /\ MemInv(r.m)
        BY <3>4, <3>6 DEF PageDone
      <4>3. Progress(m.pte, r.m.pte, reqs, n)
        BY <2>1, <2>4, <3>2, <4>2, ProgressNext
      <4>4. InProgress(z, m, reqs, n)
        BY <3>4, <3>5, <3>6, <4>1, <4>2, <4>3 DEF InProgress, PageDone
      <4> QED BY <2>1, <2>4, <4>4
    <3>7. CASE ~r.ok
      <4>1. z.done = l /\ l \in 0 .. n /\ l # n
        BY SMT, <2>1, <2>4, <3>2, <3>5, <3>7
      <4>2. SameWalks(y.m.pte, r.m.pte) /\ MemInv(r.m)
        BY <3>4, <3>7 DEF PageDone
      <4>3. \A i \in 1 .. l : reqs[i].va \in Va
        <5>1. \A i \in 1 .. l : i \in 1 .. Len(reqs)
          BY SMT, <2>1, <2>4
        <5> QED BY <5>1 DEF Batch, GoodRequest
      <4>4. Progress(m.pte, r.m.pte, reqs, l)
        BY <3>2, <4>2, <4>3 DEF Progress, SameWalks, Served
      <4>5. InProgress(z, m, reqs, n)
        BY <3>4, <3>5, <3>7, <4>1, <4>2, <4>4 DEF InProgress, PageDone
      <4> QED BY <2>1, <2>4, <4>5
    <3> QED BY <3>6, <3>7
  <2> QED BY <2>5, <2>6
<1>5. \A n \in 0 .. N : n \in Q
  <2> HIDE DEF Q
  <2> QED BY <1>2, <1>3, <1>4, InductionTo
<1>6. N \in 0 .. N
  BY SMT, <1>2
<1> QED
  BY <1>1, <1>5, <1>6

RunsUnmapping(u, m, vas) ==
    /\ u[0] = m
    /\ \A n \in 1 .. Len(vas) : u[n] = unmap_page(u[n - 1], vas[n]).m

\* The rounds of reap_domain.
LEMMA UnmappingDef ==
    ASSUME NEW m, NEW vas, Len(vas) \in Nat
    PROVE  RunsUnmapping(Unmapping(m, vas), m, vas)
<1> DEFINE N == Len(vas)
           x == <<"unmapping", vas>>
<1>1. x[1] = "unmapping" /\ x[2] = vas
  OBVIOUS
<1>2. \A n, s : Turn(x, n, s) = unmap_page(s, vas[n]).m
  BY <1>1 DEF Turn
<1>3. ASSUME NEW f
      PROVE  Turns(x, N, m, f) <=>
        f = [n \in 0 .. Len(vas) |->
               IF n = 0 THEN m ELSE unmap_page(f[n - 1], vas[n]).m]
  <2>1. [n \in 0 .. N |-> IF n = 0 THEN m ELSE Turn(x, n, f[n - 1])]
          = [n \in 0 .. Len(vas) |->
               IF n = 0 THEN m ELSE unmap_page(f[n - 1], vas[n]).m]
    BY <1>2
  <2> QED BY <2>1 DEF Turns
<1>4. Unmapping(m, vas) = Looped(x, N, m)
  BY <1>3 DEF Unmapping, Looped
<1> HIDE DEF x
<1>5. Runs(x, N, m, Looped(x, N, m))
  BY LoopedIs
<1> QED
  BY <1>2, <1>4, <1>5 DEF Runs, RunsUnmapping

\* The first n of the pages are not mapped, the others are as before.
Withdrawn(u, m, vas, n) ==
    /\ MemInv(u)
    /\ \A va \in Va :
          IF \E i \in 1 .. n : vas[i] = va THEN Walk(u.pte, va) = NoEntry
          ELSE Walk(u.pte, va) = Walk(m.pte, va)

\* reap_domain withdraws just the pages of the ledger.
LEMMA UnmappingIs ==
    ASSUME NEW m, MemInv(m), NEW vas, Len(vas) \in Nat,
           \A i \in 1 .. Len(vas) : vas[i] \in UserVa
    PROVE  Withdrawn(Unmapping(m, vas)[Len(vas)], m, vas, Len(vas))
<1>1. PICK N, u : N = Len(vas) /\ u = Unmapping(m, vas)
  OBVIOUS
<1>2. N \in Nat /\ RunsUnmapping(u, m, vas)
  BY <1>1, UnmappingDef
<1> DEFINE Q == {n \in 0 .. N : Withdrawn(u[n], m, vas, n)}
<1>3. 0 \in Q
  <2>1. u[0] = m
    BY <1>2 DEF RunsUnmapping
  <2>2. 0 \in 0 .. N /\ \A i \in 1 .. 0 : FALSE
    BY SMT, <1>2
  <2>3. Withdrawn(m, m, vas, 0)
    BY <2>2 DEF Withdrawn
  <2> QED BY <2>1, <2>2, <2>3
<1>4. ASSUME NEW n \in 1 .. N, n - 1 \in Q PROVE n \in Q
  <2>1. PICK y, z, l, vb : y = u[n - 1] /\ z = u[n] /\ l = n - 1 /\ vb = vas[n]
    OBVIOUS
  <2>2. Withdrawn(y, m, vas, l)
    BY <1>4, <2>1
  <2>3. z = unmap_page(y, vb).m
    BY <1>1, <1>2, <2>1 DEF RunsUnmapping
  <2>4. /\ n \in 0 .. N /\ n \in 1 .. Len(vas) /\ n \in 1 .. n
        /\ \A i \in 1 .. n : i = n \/ i \in 1 .. l
        /\ \A i \in 1 .. l : i \in 1 .. n
    BY SMT, <1>1, <1>2, <2>1
  <2>5. vb \in UserVa /\ vb \in Va
    BY <2>1, <2>4, PagingAssumption
  <2>6. Unmapped(z, y, vb)
    BY <2>2, <2>3, <2>5, UnmapIs DEF Withdrawn
  <2>7. OneWalk(y.pte, z.pte, vb, NoEntry) /\ MemInv(z)
    BY <2>5, <2>6 DEF Unmapped
  <2>8. ASSUME NEW va \in Va
        PROVE  IF \E i \in 1 .. n : vas[i] = va THEN Walk(z.pte, va) = NoEntry
               ELSE Walk(z.pte, va) = Walk(m.pte, va)
    <3>1. CASE va = vb
      BY <2>1, <2>4, <2>7, <3>1 DEF OneWalk
    <3>2. CASE va # vb
      <4>1. Walk(z.pte, va) = Walk(y.pte, va)
        BY <2>7, <3>2 DEF OneWalk
      <4>2. (\E i \in 1 .. n : vas[i] = va) <=> \E i \in 1 .. l : vas[i] = va
        BY <2>1, <2>4, <3>2
      <4> QED BY <2>2, <4>1, <4>2 DEF Withdrawn
    <3> QED BY <3>1, <3>2
  <2>9. Withdrawn(z, m, vas, n)
    BY <2>7, <2>8 DEF Withdrawn
  <2> QED BY <2>1, <2>4, <2>9
<1>5. \A n \in 0 .. N : n \in Q
  <2> HIDE DEF Q
  <2> QED BY <1>2, <1>3, <1>4, InductionTo
<1>6. N \in 0 .. N
  BY SMT, <1>2
<1> QED
  BY <1>1, <1>5, <1>6

-----------------------------------------------------------------------------
(* What the boot loader leaves *)

\* The tables as PagingAssumption has them.
Loaded(pt) ==
    /\ pt \in Memory /\ IsTree(pt)
    /\ \A va \in Va : \A k \in 1 .. Levels :
          LET s == Steps(pt, va)[k - 1]
          IN  IsTable(s) /\ pt[s.frame][va[k]] # NoEntry =>
                  LoaderEntry(pt[s.frame][va[k]], va, k)

\* PagingAssumption, of one of the memories boot may find.
LEMMA BootLoaded ==
    ASSUME NEW pt \in BootPte
    PROVE  Loaded(pt)
BY PagingAssumption DEF Loaded, Memory, PTE

SameStep(pt, va, vb, k) == Steps(pt, va)[k] = Steps(pt, vb)[k]

\* The walk depends on the indices read so far.
LEMMA SamePrefix ==
    ASSUME NEW pt, NEW va, NEW vb, NEW k \in 0 .. Levels,
           \A j \in 1 .. k : va[j] = vb[j]
    PROVE  SameStep(pt, va, vb, k)
<1> DEFINE Q == {n \in 0 .. Levels : n <= k => Steps(pt, va)[n] = Steps(pt, vb)[n]}
<1>1. 0 \in Q
  <2>1. 0 \in 0 .. Levels
    BY SMT, LevelFacts
  <2> QED BY <2>1, StepsDef
<1>2. ASSUME NEW n \in 1 .. Levels, n - 1 \in Q PROVE n \in Q
  <2>1. n \in 0 .. Levels /\ (n <= k => n - 1 <= k /\ n \in 1 .. k)
    BY SMT
  <2>2. ASSUME n <= k PROVE Steps(pt, va)[n] = Steps(pt, vb)[n]
    <3>1. Steps(pt, va)[n - 1] = Steps(pt, vb)[n - 1] /\ va[n] = vb[n]
      BY <1>2, <2>1, <2>2
    <3>2. Steps(pt, va)[n] = Down(pt, Steps(pt, va)[n - 1], va[n])
      BY StepsDef
    <3>3. Steps(pt, vb)[n] = Down(pt, Steps(pt, vb)[n - 1], vb[n])
      BY StepsDef
    <3> QED BY <3>1, <3>2, <3>3
  <2> QED BY <2>1, <2>2
<1>3. \A n \in 0 .. Levels : n \in Q
  <2> HIDE DEF Q
  <2> QED BY <1>1, <1>2, InductionTo, LevelFacts
<1>4. k <= k
  BY SMT
<1> QED
  BY <1>3, <1>4 DEF SameStep

\* The walk for va comes to table f at level k.
Route(pt, f, va, k) ==
    /\ va \in Va /\ k \in 0 .. Levels - 1
    /\ IsTable(Steps(pt, va)[k]) /\ Steps(pt, va)[k].frame = f

\* A step of the walk in a table of the boot loader.
LoaderStep(pt, f, va, k, e) ==
    /\ e \in Entries /\ LoaderEntry(e, va, k)
    /\ Steps(pt, va)[k] \in Entries
    /\ Steps(pt, va)[k].frame = e.frame /\ Steps(pt, va)[k].huge = e.huge

\* The tables of the walk are tables of the boot loader's.
LEMMA RouteFrame ==
    ASSUME NEW pt, Loaded(pt), NEW f, NEW va, NEW k, Route(pt, f, va, k)
    PROVE  f \in Frame \ UNION Pools /\ Steps(pt, va)[k] \in Entries
<1> DEFINE OK(s) == s \in Entries /\ s.frame \in Frame \ UNION Pools
           Q == {n \in 0 .. Levels - 1 :
                    IsTable(Steps(pt, va)[n]) => OK(Steps(pt, va)[n])}
<1>1. 0 \in Q
  <2>1. 0 \in 0 .. Levels - 1
    BY SMT, LevelFacts
  <2>2. PICK s : s = Steps(pt, va)[0]
    OBVIOUS
  <2>3. Cr3 \in Frame \ UNION Pools /\ Cr3 \in Nat
    BY PagingAssumption
  <2>4. s = Entry(Cr3, TRUE, TRUE, FALSE)
    BY <2>2, StepsDef
  <2>5. s \in Entries
    BY SMT, <2>3, <2>4 DEF Entry, Pte, Entries
  <2>6. s.frame = Cr3
    BY <2>4 DEF Entry, Pte
  <2> QED BY <2>1, <2>2, <2>3, <2>5, <2>6
<1>2. ASSUME NEW n \in 1 .. Levels - 1, n - 1 \in Q PROVE n \in Q
  <2>1. n \in 0 .. Levels - 1 /\ n \in 1 .. Levels /\ n < Levels
    BY SMT, LevelFacts
  <2>2. ASSUME IsTable(Steps(pt, va)[n]) PROVE OK(Steps(pt, va)[n])
    <3>1. PICK s, t : s = Steps(pt, va)[n - 1] /\ t = Steps(pt, va)[n]
      OBVIOUS
    <3>2. t = Down(pt, s, va[n])
      BY <2>1, <3>1, StepsDef
    <3>3. IsTable(s) /\ IsTable(t)
      BY <2>2, <3>1, <3>2 DEF Down
    <3>4. s \in Entries /\ s.frame \in Frame
      BY <1>2, <3>1, <3>3
    <3>5. PICK e : e = pt[s.frame][va[n]]
      OBVIOUS
    <3>6. e # NoEntry /\ t = Through(s, e)
      BY <3>2, <3>3, <3>5 DEF Down, IsTable
    <3>7. va[n] \in Index /\ va \in Va
      BY <2>1, LevelFacts DEF Route
    <3>8. e \in Entries
      <4>1. pt[s.frame] \in [Index -> PTE]
        BY <3>4 DEF Loaded, Memory
      <4>2. e \in PTE
        BY <3>5, <3>7, <4>1
      <4> QED BY <3>6, <4>2, EntryFacts
    <3>9. LoaderEntry(e, va, n)
      BY <2>1, <3>1, <3>3, <3>5, <3>6, <3>7 DEF Loaded
    <3>10. t \in Entries /\ t.frame = e.frame /\ t.huge = e.huge
      BY <3>4, <3>6, <3>8, ThroughIs
    <3>11. e.frame \in Frame \ UNION Pools
      BY <2>1, <3>3, <3>9, <3>10 DEF LoaderEntry, IsTable
    <3> QED BY <3>1, <3>10, <3>11
  <2> HIDE DEF OK
  <2> QED BY <2>1, <2>2
<1>3. \A n \in 0 .. Levels - 1 : n \in Q
  <2> HIDE DEF Q
  <2> QED BY <1>1, <1>2, InductionTo, LevelFacts
<1> QED
  BY <1>3 DEF Route

\* What the walk reads in a table of the boot loader's.
LEMMA LoaderReads ==
    ASSUME NEW pt, Loaded(pt), NEW f, NEW va, NEW n, Route(pt, f, va, n),
           NEW k, k = n + 1, pt[f][va[k]] # NoEntry
    PROVE  LoaderStep(pt, f, va, k, pt[f][va[k]])
<1>1. PICK s, t, e : /\ s = Steps(pt, va)[n] /\ t = Steps(pt, va)[k]
                     /\ e = pt[f][va[k]]
  OBVIOUS
<1>2. k \in 1 .. Levels /\ k - 1 = n /\ va \in Va
  BY LevelFacts DEF Route
<1>3. /\ s \in Entries /\ IsTable(s) /\ s.frame = f /\ f \in Frame
  BY <1>1, RouteFrame DEF Route
<1>4. t = Down(pt, s, va[k])
  BY <1>1, <1>2, StepsDef
<1>5. t = Through(s, e)
  BY <1>1, <1>3, <1>4 DEF Down
<1>6. e \in Entries
  <2>1. pt[f] \in [Index -> PTE]
    BY <1>3 DEF Loaded, Memory
  <2>2. va[k] \in Index
    BY <1>2, LevelFacts
  <2>3. e \in PTE
    BY <1>1, <2>1, <2>2
  <2> QED BY <1>1, <2>3, EntryFacts
<1>7. LoaderEntry(e, va, k)
  BY <1>1, <1>2, <1>3 DEF Loaded
<1>8. t \in Entries /\ t.frame = e.frame /\ t.huge = e.huge
  BY <1>3, <1>5, <1>6, ThroughIs
<1> QED
  BY <1>1, <1>6, <1>7, <1>8 DEF LoaderStep

SamePath(va, k, vb, l) == k = l /\ \A j \in 1 .. k : va[j] = vb[j]

\* One path leads to a table.
LEMMA OneRoute ==
    ASSUME NEW pt, Loaded(pt), NEW f, NEW va, NEW k, Route(pt, f, va, k),
           NEW vb, NEW l, Route(pt, f, vb, l)
    PROVE  SamePath(va, k, vb, l)
<1> DEFINE F == [j \in 1 .. k |-> va[j]]
           G == [j \in 1 .. l |-> vb[j]]
<1>1. ASSUME NEW vc, NEW n, Route(pt, f, vc, n)
      PROVE  <<f, [j \in 1 .. n |-> vc[j]]>> \in Reached(pt)
  <2>1. PICK p : p = <<vc, n>>
    OBVIOUS
  <2>2. p[1] = vc /\ p[2] = n /\ p \in Va \X (0 .. Levels - 1)
    BY <1>1, <2>1 DEF Route
  <2>3. IsTable(Steps(pt, p[1])[p[2]]) /\ Steps(pt, p[1])[p[2]].frame = f
    BY <1>1, <2>2 DEF Route
  <2>4. <<Steps(pt, p[1])[p[2]].frame, [j \in 1 .. p[2] |-> p[1][j]]>> \in Reached(pt)
    BY <2>2, <2>3 DEF Reached
  <2> QED BY <2>2, <2>3, <2>4
<1>2. <<f, F>> \in Reached(pt) /\ <<f, G>> \in Reached(pt)
  BY <1>1
<1>3. <<f, F>> = <<f, G>>
  <2>1. PICK p, q : p = <<f, F>> /\ q = <<f, G>>
    OBVIOUS
  <2>2. p[1] = q[1]
    BY <2>1
  <2>3. p = q
    BY <1>2, <2>1, <2>2 DEF Loaded, IsTree
  <2> QED BY <2>1, <2>3
<1>4. F = G
  BY <1>3
<1>5. DOMAIN F = 1 .. k /\ DOMAIN G = 1 .. l
  OBVIOUS
<1>6. k \in 0 .. Levels - 1 /\ l \in 0 .. Levels - 1
  BY DEF Route
<1>7. k = l
  <2>1. 1 .. k = 1 .. l
    BY <1>4, <1>5
  <2>2. k \in Nat /\ l \in Nat
    BY <1>6, LevelFacts
  <2> HIDE DEF F, G
  <2> QED BY SMT, <2>1, <2>2
<1>8. ASSUME NEW j \in 1 .. k PROVE va[j] = vb[j]
  <2>1. F[j] = va[j] /\ G[j] = vb[j]
    BY <1>7
  <2> QED BY <1>4, <2>1
<1> QED
  BY <1>7, <1>8 DEF SamePath

BootT(pt) == {f \in Frame : \E va, k : Route(pt, f, va, k)}

Depth(pt, f) == CHOOSE k : \E va : Route(pt, f, va, k)

Below(pt, f) == CHOOSE va : \E k : Route(pt, f, va, k)

BootD(pt) == [f \in BootT(pt) |-> Depth(pt, f)]

BootP(pt) == [f \in BootT(pt) |-> Below(pt, f)]

\* Table f, with its depth and a page below it.
Placed(pt, f, T, D, P) ==
    /\ f \in T /\ D[f] \in 0 .. Levels - 1 /\ P[f] \in Va
    /\ \A va, k : Route(pt, f, va, k) <=> va \in Va /\ k = D[f] /\ On(f, va, D, P)

\* The tables that the walks come to have a depth and a path.
LEMMA BootPlaced ==
    ASSUME NEW pt, Loaded(pt), NEW f, NEW va, NEW k, Route(pt, f, va, k)
    PROVE  Placed(pt, f, BootT(pt), BootD(pt), BootP(pt))
<1>1. PICK T, D, P : T = BootT(pt) /\ D = BootD(pt) /\ P = BootP(pt)
  OBVIOUS
<1>2. f \in T
  BY <1>1, RouteFrame DEF BootT
<1>3. PICK n, vb : n = D[f] /\ vb = P[f]
  OBVIOUS
<1>4. (\E vc : Route(pt, f, vc, n)) /\ (\E l : Route(pt, f, vb, l))
  <2>1. n = (CHOOSE j : \E vc : Route(pt, f, vc, j))
    BY <1>1, <1>2, <1>3 DEF BootD, Depth
  <2>2. vb = (CHOOSE vc : \E l : Route(pt, f, vc, l))
    BY <1>1, <1>2, <1>3 DEF BootP, Below
  <2>3. \E vc : Route(pt, f, vc, n)
    BY <2>1
  <2>4. \E l : Route(pt, f, vb, l)
    BY <2>2
  <2> QED BY <2>3, <2>4
<1>5. PICK vc, l : Route(pt, f, vc, n) /\ Route(pt, f, vb, l)
  BY <1>4
<1>6. SamePath(vb, l, vc, n)
  BY <1>5, OneRoute
<1>7. Route(pt, f, vb, n)
  BY <1>5, <1>6 DEF SamePath
<1>8. n \in 0 .. Levels - 1 /\ vb \in Va
  BY <1>7 DEF Route
<1>10. ASSUME NEW vd \in Va, On(f, vd, D, P)
       PROVE  Route(pt, f, vd, n)
  <2>1. \A j \in 1 .. n : vb[j] = vd[j]
    BY <1>3, <1>10 DEF On
  <2>2. n \in 0 .. Levels
    BY SMT, <1>8, LevelFacts
  <2>3. SameStep(pt, vb, vd, n)
    BY <2>1, <2>2, SamePrefix
  <2> QED BY <1>7, <2>3 DEF Route, SameStep
<1>11. Placed(pt, f, T, D, P)
  <2>1. ASSUME NEW vd, NEW j
        PROVE  Route(pt, f, vd, j) <=> vd \in Va /\ j = D[f] /\ On(f, vd, D, P)
    <3>1. ASSUME Route(pt, f, vd, j)
          PROVE  vd \in Va /\ j = D[f] /\ On(f, vd, D, P)
      <4>1. SamePath(vb, n, vd, j)
        BY <1>7, <3>1, OneRoute
      <4> QED BY <1>3, <3>1, <4>1 DEF SamePath, On, Route
    <3>2. ASSUME vd \in Va, j = D[f], On(f, vd, D, P) PROVE Route(pt, f, vd, j)
      <4>1. Route(pt, f, vd, n)
        BY <1>10, <3>2
      <4> QED BY <1>3, <3>2, <4>1
    <3> QED BY <3>1, <3>2
  <2>2. D[f] \in 0 .. Levels - 1 /\ P[f] \in Va
    BY <1>3, <1>8
  <2> QED BY <1>2, <2>1, <2>2 DEF Placed
<1> QED
  BY <1>1, <1>11

\* What a walk comes to.
LEMMA PlacedRoute ==
    ASSUME NEW pt, NEW f, NEW T, NEW D, NEW P, Placed(pt, f, T, D, P),
           NEW va, NEW k, Route(pt, f, va, k)
    PROVE  f \in T /\ D[f] = k /\ On(f, va, D, P)
<1>1. va \in Va /\ k = D[f] /\ On(f, va, D, P)
  BY DEF Placed
<1> QED
  BY <1>1 DEF Placed

\* The root, and each table of the tree.
LEMMA BootTree ==
    ASSUME NEW pt, Loaded(pt)
    PROVE  /\ \A f \in BootT(pt) : Placed(pt, f, BootT(pt), BootD(pt), BootP(pt))
           /\ Route(pt, Cr3, Guard, 0)
<1>1. ASSUME NEW f \in BootT(pt)
      PROVE  Placed(pt, f, BootT(pt), BootD(pt), BootP(pt))
  <2>1. PICK va, k : Route(pt, f, va, k)
    BY DEF BootT
  <2> QED BY <2>1, BootPlaced
<1>2. Route(pt, Cr3, Guard, 0)
  <2>1. 0 \in 0 .. Levels - 1
    BY SMT, LevelFacts
  <2>2. Guard \in Va /\ Cr3 \in Nat
    BY PagingAssumption
  <2>3. PICK s : s = Steps(pt, Guard)[0]
    OBVIOUS
  <2>4. s = Entry(Cr3, TRUE, TRUE, FALSE)
    BY <2>3, StepsDef
  <2>5. s \in Entries
    BY SMT, <2>2, <2>4 DEF Entry, Pte, Entries
  <2>6. s.frame = Cr3 /\ ~s.huge /\ s # NoEntry
    BY <2>4, <2>5, EntryFacts DEF Entry, Pte, PTE
  <2> QED BY <2>1, <2>2, <2>3, <2>6 DEF Route, IsTable
<1> QED
  BY <1>1, <1>2

\* A page of the boot loader's: the kernel's, outside the tables and pools.
LoaderPage(e, f, D) == D[f] = Levels - 1 \/ e.huge => ~e.user /\ e.frame \notin Frame

\* An entry of a table of the boot loader's.
LEMMA BootEntry ==
    ASSUME NEW pt, Loaded(pt), NEW pool \in Pools, NEW T, NEW D, NEW P,
           T = BootT(pt), D = BootD(pt), P = BootP(pt),
           NEW f \in T, NEW i \in Index, pt[f][i] # NoEntry
    PROVE  /\ EntryOK(pt[f][i], f, i, pool, T, D, P, {Cr3})
           /\ LoaderPage(pt[f][i], f, D)
<1>1. PICK e, n, k : e = pt[f][i] /\ n = D[f] /\ k = n + 1
  OBVIOUS
<1>2. Placed(pt, f, T, D, P)
  BY BootTree
<1>3. n \in 0 .. Levels - 1 /\ P[f] \in Va
  BY <1>1, <1>2 DEF Placed
<1>4. /\ k \in 1 .. Levels /\ (n < Levels - 1 <=> k < Levels) /\ k # 0
      /\ k \notin 1 .. n /\ k \in 1 .. k /\ (k < Levels => k \in 0 .. Levels - 1)
      /\ (n = Levels - 1 <=> ~(k < Levels))
      /\ \A j \in 1 .. n : j \in 1 .. Levels /\ j \in 1 .. k
  BY SMT, <1>1, <1>3, LevelFacts
<1>5. ASSUME NEW vb \in Va, On(f, vb, D, P), vb[k] = i
      PROVE  LoaderStep(pt, f, vb, k, e)
  <2>1. Route(pt, f, vb, n)
    BY <1>1, <1>2, <1>5 DEF Placed
  <2>2. pt[f][vb[k]] # NoEntry
    BY <1>5
  <2> QED BY <1>1, <1>5, <2>1, <2>2, LoaderReads
<1>6. PICK vb : vb = [P[f] EXCEPT ![k] = i]
  OBVIOUS
<1>7. vb \in Va /\ vb[k] = i /\ \A j \in 1 .. n : vb[j] = P[f][j]
  <2>1. P[f] \in [1 .. Levels -> Index]
    BY <1>3 DEF Va
  <2> QED BY <1>4, <1>6, <2>1 DEF Va
<1>8. On(f, vb, D, P)
  BY <1>1, <1>7 DEF On
<1>9. LoaderStep(pt, f, vb, k, e)
  BY <1>5, <1>7, <1>8
<1>10. CASE k < Levels /\ ~e.huge
  <2>1. e.write /\ ~e.nx /\ e.frame \in Frame \ UNION Pools
    BY <1>9, <1>10 DEF LoaderStep, LoaderEntry
  <2>2. Route(pt, e.frame, vb, k)
    <3>1. Steps(pt, vb)[k] # NoEntry
      BY <1>9, EntryFacts DEF LoaderStep, PTE
    <3> QED BY <1>4, <1>7, <1>9, <1>10, <3>1 DEF Route, LoaderStep, IsTable
  <2>3. Placed(pt, e.frame, T, D, P)
    BY <2>2, BootPlaced
  <2>4. e.frame \in T /\ D[e.frame] = k /\ On(e.frame, vb, D, P)
    BY <2>2, <2>3 DEF Placed
  <2>5. e.frame # Cr3
    <3>1. Placed(pt, Cr3, T, D, P) /\ Route(pt, Cr3, Guard, 0)
      BY BootTree, BootPlaced
    <3>2. D[Cr3] = 0
      BY <3>1 DEF Placed
    <3> QED BY <1>4, <2>4, <3>2
  <2>6. P[e.frame][k] = i /\ \A j \in 1 .. n : P[e.frame][j] = P[f][j]
    BY <1>4, <1>7, <2>4 DEF On
  <2>7. TableEntry(e, f, i, T, D, P, {Cr3})
    BY <1>1, <2>1, <2>4, <2>5, <2>6 DEF TableEntry
  <2>8. D[f] # Levels - 1
    BY <1>1, <1>4, <1>10
  <2> QED BY <1>1, <1>10, <2>7, <2>8 DEF EntryOK, LoaderPage
<1>11. CASE ~(k < Levels /\ ~e.huge)
  <2>1. ~e.user /\ e.frame \notin Frame /\ (k < Levels => e.write)
    BY <1>9, <1>11 DEF LoaderStep, LoaderEntry
  <2>2. e.frame \notin T /\ e.frame \notin pool
    BY <2>1 DEF BootT, Frame
  <2>3. ASSUME k < Levels, NEW vc \in UserVa, On(f, vc, D, P), vc[k] = i
        PROVE  FALSE
    <3>1. vc \in Va
      BY PagingAssumption
    <3>2. LoaderStep(pt, f, vc, k, e)
      BY <1>5, <2>3, <3>1
    <3> QED BY <1>11, <2>3, <3>2 DEF LoaderStep, LoaderEntry
  <2>4. PageEntry(e, f, i, pool, T, D, P, {Cr3})
    BY <1>1, <1>4, <2>1, <2>2, <2>3 DEF PageEntry
  <2>5. ~(D[f] < Levels - 1 /\ ~e.huge)
    BY <1>1, <1>4, <1>11
  <2>6. LoaderPage(e, f, D)
    BY <2>1 DEF LoaderPage
  <2>7. EntryOK(e, f, i, pool, T, D, P, {Cr3})
    BY <2>4, <2>5 DEF EntryOK
  <2> QED BY <1>1, <2>6, <2>7
<1> QED
  BY <1>10, <1>11

\* The memory that boot finds satisfies the invariant.
LEMMA BootMemory ==
    ASSUME NEW pt \in BootPte, NEW pool \in Pools, NEW m,
           m = [pte |-> pt, free |-> pool, lost |-> {}]
    PROVE  MemInv(m)
<1>1. PICK T, D, P : T = BootT(pt) /\ D = BootD(pt) /\ P = BootP(pt)
  OBVIOUS
<1>2. Loaded(pt)
  BY BootLoaded
<1>3. ASSUME NEW f \in T PROVE Placed(pt, f, T, D, P)
  BY <1>1, <1>2, BootTree
<1>4. D \in [T -> 0 .. Levels - 1] /\ P \in [T -> Va]
  <2>1. \A f \in T : D[f] \in 0 .. Levels - 1 /\ P[f] \in Va
    BY <1>3 DEF Placed
  <2>2. D = [f \in T |-> Depth(pt, f)] /\ P = [f \in T |-> Below(pt, f)]
    BY <1>1 DEF BootD, BootP
  <2>3. \A f \in T : Depth(pt, f) \in 0 .. Levels - 1 /\ Below(pt, f) \in Va
    BY <2>1, <2>2
  <2> QED BY <2>2, <2>3
<1>5. Cr3 \in T /\ D[Cr3] = 0 /\ Route(pt, Cr3, Guard, 0)
  <2>1. Route(pt, Cr3, Guard, 0)
    BY <1>2, BootTree
  <2>2. Placed(pt, Cr3, T, D, P)
    BY <1>1, <1>2, <2>1, BootPlaced
  <2> QED BY <2>1, <2>2, PlacedRoute
<1>6. T \subseteq Frame /\ T \cap pool = {}
  <2>1. ASSUME NEW f \in T PROVE f \in Frame \ UNION Pools
    <3>1. PICK va, k : Route(pt, f, va, k)
      BY <1>1 DEF BootT
    <3> QED BY <1>2, <3>1, RouteFrame
  <2> QED BY <2>1
<1>7. ASSUME NEW f \in T, NEW i \in Index, pt[f][i] # NoEntry
      PROVE  EntryOK(pt[f][i], f, i, pool, T, D, P, {Cr3}) /\ LoaderPage(pt[f][i], f, D)
  BY <1>1, <1>2, <1>7, BootEntry
<1>8. ASSUME NEW g \in T, g # Cr3
      PROVE  \E f \in T : \E i \in Index : Above(pt, f, i, g, D)
  <2>1. PICK va, k : va = P[g] /\ k = D[g]
    OBVIOUS
  <2>2. Route(pt, g, va, k)
    <3>1. Placed(pt, g, T, D, P)
      BY <1>3
    <3> QED BY <2>1, <3>1 DEF Placed, On
  <2>3. k # 0
    <3>1. SUFFICES ASSUME k = 0 PROVE FALSE
      OBVIOUS
    <3>3. PICK s : s = Steps(pt, va)[0]
      OBVIOUS
    <3>4. s = Entry(Cr3, TRUE, TRUE, FALSE)
      BY <3>3, StepsDef
    <3>5. s.frame = Cr3
      BY <3>4 DEF Entry, Pte
    <3>2. Steps(pt, va)[0].frame = Cr3
      BY <3>3, <3>5
    <3> QED BY <1>8, <2>2, <3>1, <3>2 DEF Route
  <2>4. k \in 0 .. Levels - 1 /\ va \in Va
    BY <2>2 DEF Route
  <2>5. PICK n \in 0 .. Levels - 1 : n = k - 1
    <3>1. k - 1 \in 0 .. Levels - 1
      BY SMT, <2>3, <2>4, LevelFacts
    <3> QED BY <3>1
  <2>6. k = n + 1 /\ n < Levels - 1 /\ k \in 1 .. Levels
    BY SMT, <2>3, <2>4, <2>5, LevelFacts
  <2>7. PICK s, t : s = Steps(pt, va)[n] /\ t = Steps(pt, va)[k]
    OBVIOUS
  <2>8. t = Down(pt, s, va[k])
    BY <2>5, <2>6, <2>7, StepsDef
  <2>9. IsTable(s) /\ IsTable(t) /\ t.frame = g
    BY <2>2, <2>7, <2>8 DEF Down, Route
  <2>10. PICK f : f = s.frame
    OBVIOUS
  <2>11. Route(pt, f, va, n)
    BY <2>4, <2>7, <2>9, <2>10 DEF Route
  <2>12. pt[f][va[k]] # NoEntry
    BY <2>8, <2>9, <2>10 DEF Down, IsTable
  <2>13. LoaderStep(pt, f, va, k, pt[f][va[k]])
    BY <1>2, <2>6, <2>11, <2>12, LoaderReads
  <2>14. IsTable(pt[f][va[k]]) /\ pt[f][va[k]].frame = g
    BY <2>7, <2>9, <2>12, <2>13 DEF LoaderStep, IsTable
  <2>15. Placed(pt, f, T, D, P)
    BY <1>1, <1>2, <2>11, BootPlaced
  <2>16. f \in T /\ D[f] = n
    BY <2>11, <2>15, PlacedRoute
  <2>17. va[k] \in Index
    BY <2>4, <2>6, LevelFacts
  <2> QED BY <2>6, <2>14, <2>16, <2>17 DEF Above
<1>9. Tree(pt, pool, T, D, P, {Cr3})
  BY <1>2, <1>4, <1>5, <1>6, <1>7, <1>8 DEF Tree, Loaded
<1>10. ASSUME NEW va \in Va, Walk(pt, va) # NoEntry
       PROVE  ~Walk(pt, va).user /\ Walk(pt, va).frame \notin Frame
  <2>1. PICK f \in T : Stop(pt, f, va, D, P)
    BY <1>9, StopExists
  <2>2. Stopped(pt, f, va, D)
    BY <1>9, <2>1, StopWalk
  <2>3. PICK i \in Index : i = va[D[f] + 1]
    BY <1>4, LevelFacts
  <2>4. Walk(pt, va) = pt[f][i] /\ (D[f] = Levels - 1 \/ ~IsTable(pt[f][i]))
    BY <2>1, <2>2, <2>3 DEF Stopped, Stop
  <2>5. LoaderPage(pt[f][i], f, D)
    BY <1>7, <1>10, <2>4
  <2> QED BY <1>10, <2>4, <2>5 DEF LoaderPage, IsTable
<1>11. PoolOnce(pt) /\ UserPages(pt)
  BY <1>10 DEF PoolOnce, UserPages, PageOK
<1>12. m.pte = pt /\ m.free = pool /\ m.lost = {}
  OBVIOUS
<1>13. m \in Mem
  <2>1. pt \in Memory /\ pool \in SUBSET Frame /\ {} \in SUBSET Frame
    BY <1>2 DEF Loaded, Frame
  <2> QED BY <2>1 DEF Mem
<1>14. pool \cup {} = pool /\ pool \cap {} = {}
  OBVIOUS
<1>15. Treed(pt, pool)
  BY <1>9 DEF Treed
<1> QED
  BY <1>11, <1>12, <1>13, <1>14, <1>15 DEF MemInv
-----------------------------------------------------------------------------
(* The invariant *)

\* What the processor holds is what tables pt say.
TlbOK(t, pt) == t = NoTranslation \/ (t.va \in Va /\ t.to = Walk(pt, t.va))

\* Each page lent to the domain is lent once, and mapped.
Lent(l, pt) ==
    /\ l \in Seq(UserVa)
    /\ \A i, j \in 1 .. Len(l) : l[i] = l[j] => i = j
    /\ \A i \in 1 .. Len(l) : Walk(pt, l[i]) # NoEntry

\* The inductive invariant.
Inv ==
    /\ MemInv(mem) /\ TlbOK(tlb, pte) /\ Lent(ledger, pte)
    /\ armed \in BOOLEAN /\ phase \in {"boot", "up", "halted"}
    /\ armed => Walk(pte, Guard) = NoEntry
    /\ todo \in Seq(Range(BootCalls))

\* Sequences, as functions.
LEMMA SeqFacts ==
    ASSUME NEW S, NEW s \in Seq(S)
    PROVE  /\ Len(s) \in Nat /\ DOMAIN s = 1 .. Len(s)
           /\ \A i \in 1 .. Len(s) : s[i] \in S
BY SMT

\* A function on 1 .. n is a sequence.
LEMMA MadeSeq ==
    ASSUME NEW S, NEW n \in Nat, NEW f \in [1 .. n -> S]
    PROVE  f \in Seq(S) /\ Len(f) = n
<1>1. f \in Seq(S)
  BY SMT
<1>2. DOMAIN f = 1 .. Len(f) /\ Len(f) \in Nat
  BY <1>1, SeqFacts
<1>3. 1 .. Len(f) = 1 .. n
  BY <1>2
<1> QED
  BY SMT, <1>1, <1>2, <1>3

\* One sequence after another.
IsJoin(u, S, s, t) ==
    /\ u \in Seq(S) /\ Len(u) = Len(s) + Len(t)
    /\ \A i \in 1 .. Len(s) + Len(t) :
          u[i] = IF i <= Len(s) THEN s[i] ELSE t[i - Len(s)]

\* Concatenation is that.
LEMMA Joined ==
    ASSUME NEW S, NEW s \in Seq(S), NEW t \in Seq(S)
    PROVE  IsJoin(s \o t, S, s, t)
BY SMT DEF IsJoin

\* What follows the first call, and what follows the driver's calls.
LEMMA LaterCalls ==
    ASSUME NEW S, NEW s \in Seq(S), s # <<>>
    PROVE  /\ Head(s) \in S /\ Tail(s) \in Seq(S) /\ AfterDriver(Tail(s)) \in Seq(S)
<1>1. Head(s) \in S /\ Tail(s) \in Seq(S)
  BY SMT
<1>2. PICK c \in Seq(S) : c = Tail(s)
  BY <1>1
<1>3. PICK o : o = {i \in DOMAIN c : c[i].call # "range"}
  OBVIOUS
<1>4. CASE o = {}
  <2>1. AfterDriver(c) = <<>>
    BY <1>3, <1>4 DEF AfterDriver
  <2>2. <<>> \in Seq(S)
    BY SMT
  <2> QED BY <1>1, <1>2, <2>1, <2>2
<1>5. CASE o # {}
  <2>1. AfterDriver(c) = SubSeq(c, Min(o), Len(c))
    BY <1>3, <1>5 DEF AfterDriver
  <2>2. Len(c) \in Nat /\ o \subseteq 1 .. Len(c)
    BY <1>3, SeqFacts
  <2>3. o \subseteq Nat
    BY SMT, <2>2
  <2>4. \E x \in o : \A y \in o : x <= y
    BY <1>5, <2>3, LeastExists
  <2>5. Min(o) \in o
    BY <2>4 DEF Min
  <2>6. PICK k \in 1 .. Len(c) : k = Min(o)
    BY <2>2, <2>5
  <2>7. SubSeq(c, k, Len(c)) \in Seq(S)
    BY SMT, <2>2
  <2> QED BY <1>1, <1>2, <2>1, <2>6, <2>7
<1> QED
  BY <1>4, <1>5

\* The memory a call leaves.
LEMMA CommitIs ==
    ASSUME NEW m \in Mem, Commit(m)
    PROVE  mem' = m /\ pte' = m.pte
<1>1. m = [pte |-> m.pte, free |-> m.free, lost |-> m.lost]
  BY DEF Mem
<1> QED
  BY <1>1 DEF Commit, mem

\* The tables are those of the memory.
LEMMA MemIs ==
    /\ mem.pte = pte /\ mem.free = free /\ mem.lost = lost
    /\ mem'.pte = pte' /\ mem'.free = free' /\ mem'.lost = lost'
BY DEF mem

\* Flushing the pages that changed keeps the processor's translation right.
LEMMA TlbKept ==
    ASSUME NEW pt, NEW q, NEW vas, TlbOK(tlb, pt),
           \A va \in Va : va \notin vas => Walk(q, va) = Walk(pt, va)
    PROVE  TlbOK(Flushed(vas), q)
BY DEF TlbOK, Flushed

\* Pages that stay mapped may stay lent.
LEMMA LentKept ==
    ASSUME NEW l, NEW pt, NEW q, Lent(l, pt),
           \A va \in UserVa : Walk(pt, va) # NoEntry => Walk(q, va) # NoEntry
    PROVE  Lent(l, q)
<1>1. \A i \in 1 .. Len(l) : l[i] \in UserVa
  BY SeqFacts DEF Lent
<1> QED
  BY <1>1 DEF Lent

-----------------------------------------------------------------------------
(* What the callers ask for *)

\* The length of a sequence given by its elements.
LEMMA LenOf ==
    ASSUME NEW n \in Nat, NEW f, f = [i \in 1 .. n |-> f[i]]
    PROVE  Len(f) = n
<1>1. PICK S : S = {f[i] : i \in 1 .. n}
  OBVIOUS
<1>2. f \in [1 .. n -> S]
  BY <1>1
<1> QED
  BY <1>2, MadeSeq

\* The fields of a request.
RequestIs(q, call, va, phys, user, write, nx) ==
    /\ q.call = call /\ q.va = va /\ q.phys = phys
    /\ q.user = user /\ q.write = write /\ q.nx = nx

\* A request has them.
LEMMA RequestFields ==
    ASSUME NEW call, NEW va, NEW phys, NEW user, NEW write, NEW nx
    PROVE  RequestIs(Request(call, va, phys, user, write, nx),
                     call, va, phys, user, write, nx)
BY DEF Request, RequestIs

\* A call of boot.
LEMMA CallIs ==
    ASSUME NEW c \in Range(BootCalls)
    PROVE  /\ c.call \in {"range", "lapic"} => c.pages \in Seq(DOMAIN DeviceFrame)
           /\ c.call = "image" => c.code \in UserVa /\ c.stack \in UserVa
<1> DEFINE A == [call : {"range", "lapic"}, pages : Seq(DOMAIN DeviceFrame)]
           B == [call : {"image"}, code : UserVa, stack : UserVa]
<1>1. BootCalls \in Seq(A \cup B)
  BY PagingAssumption
<1>2. c \in A \cup B
  <2> HIDE DEF A, B
  <2>1. PICK i \in DOMAIN BootCalls : c = BootCalls[i]
    BY DEF Range
  <2> QED BY <1>1, <2>1, SeqFacts
<1>3. CASE c \in A
  BY SMT, <1>3
<1>4. CASE c \in B
  BY SMT, <1>4
<1> QED
  BY <1>2, <1>3, <1>4

\* A device window, and the local APIC's page.
LEMMA DeviceBatch ==
    ASSUME NEW c \in Range(BootCalls), c.call \in {"range", "lapic"}
    PROVE  /\ Batch(DeviceRequests(c))
           /\ \A i \in 1 .. Len(DeviceRequests(c)) :
                 DeviceRequests(c)[i].call = c.call
<1>1. PICK p, n, R : p = c.pages /\ n = Len(p) /\ R = DeviceRequests(c)
  OBVIOUS
<1>2. p \in Seq(DOMAIN DeviceFrame)
  BY <1>1, CallIs
<1>3. n \in Nat /\ DOMAIN p = 1 .. n /\ \A i \in 1 .. n : p[i] \in DOMAIN DeviceFrame
  BY <1>1, <1>2, SeqFacts
<1>4. R = [i \in 1 .. n |-> Request(c.call, p[i], DeviceFrame[p[i]], FALSE, TRUE, TRUE)]
  BY <1>1, <1>3 DEF DeviceRequests
<1>5. Len(R) = n
  BY <1>3, <1>4, LenOf
<1>6. ASSUME NEW i \in 1 .. n PROVE GoodRequest(R[i]) /\ R[i].call = c.call
  <2>1. PICK q : q = R[i]
    OBVIOUS
  <2>2. q = Request(c.call, p[i], DeviceFrame[p[i]], FALSE, TRUE, TRUE)
    BY <1>4, <2>1
  <2>3. RequestIs(q, c.call, p[i], DeviceFrame[p[i]], FALSE, TRUE, TRUE)
    BY <2>2, RequestFields
  <2>4. p[i] \in DOMAIN DeviceFrame /\ p[i] \in Va /\ p[i] # Guard
    BY <1>3, PagingAssumption
  <2>5. GoodRequest(q)
    BY <2>3, <2>4 DEF GoodRequest, RequestIs
  <2> QED BY <2>1, <2>3, <2>5 DEF RequestIs
<1> QED
  BY <1>1, <1>3, <1>5, <1>6 DEF Batch

\* The code and the stack of a ring-3 image.
LEMMA ImageBatch ==
    ASSUME NEW c \in Range(BootCalls), c.call = "image"
    PROVE  /\ Batch(Image(c))
           /\ \A i \in 1 .. Len(Image(c)) : Image(c)[i].call = "image"
<1>1. PICK a, b, R : /\ a = Request("image", c.code, 0, TRUE, FALSE, FALSE)
                     /\ b = Request("image", c.stack, 0, TRUE, TRUE, TRUE)
                     /\ R = Image(c)
  OBVIOUS
<1>2. R = <<a, b>>
  BY <1>1 DEF Image
<1>3. Len(R) = 2 /\ R[1] = a /\ R[2] = b /\ 2 \in Nat /\ \A i \in 1 .. 2 : i = 1 \/ i = 2
  BY SMT, <1>2
<1>4. /\ RequestIs(a, "image", c.code, 0, TRUE, FALSE, FALSE)
      /\ RequestIs(b, "image", c.stack, 0, TRUE, TRUE, TRUE)
  BY <1>1, RequestFields
<1>5. /\ c.code \in UserVa /\ c.code \in Va /\ c.code # Guard
      /\ c.stack \in UserVa /\ c.stack \in Va /\ c.stack # Guard
  BY CallIs, PagingAssumption
<1>6. GoodRequest(a) /\ GoodRequest(b)
  BY <1>4, <1>5 DEF GoodRequest, RequestIs
<1>7. a.call = "image" /\ b.call = "image"
  BY <1>4 DEF RequestIs
<1>8. \A i \in 1 .. Len(R) : GoodRequest(R[i]) /\ R[i].call = "image"
  BY <1>3, <1>6, <1>7
<1> QED
  BY <1>1, <1>3, <1>8 DEF Batch

\* The windows of X_MAP and DQ_MAP.
LEMMA WindowBatch ==
    ASSUME NEW pages \in Windows
    PROVE  /\ Batch(WindowRequests(pages))
           /\ \A i \in 1 .. Len(WindowRequests(pages)) :
                 WindowRequests(pages)[i].call = "window"
<1> DEFINE W == [va : UserVa, phys : Nat \ Frame, write : BOOLEAN]
<1>1. PICK n, R : n = Len(pages) /\ R = WindowRequests(pages)
  OBVIOUS
<1>2. pages \in Seq(W)
  BY PagingAssumption
<1>3. n \in Nat /\ DOMAIN pages = 1 .. n /\ \A i \in 1 .. n : pages[i] \in W
  <2> HIDE DEF W
  <2> QED BY <1>1, <1>2, SeqFacts
<1>4. R = [i \in 1 .. n |-> Request("window", pages[i].va, pages[i].phys, TRUE,
                                    pages[i].write, TRUE)]
  BY <1>1, <1>3 DEF WindowRequests
<1>5. Len(R) = n
  BY <1>3, <1>4, LenOf
<1>6. ASSUME NEW i \in 1 .. n PROVE GoodRequest(R[i]) /\ R[i].call = "window"
  <2>1. PICK q, w : q = R[i] /\ w = pages[i] /\ w \in W
    BY <1>3
  <2>2. w.va \in UserVa /\ w.phys \in Nat \ Frame /\ w.write \in BOOLEAN
    BY <2>1
  <2>3. q = Request("window", w.va, w.phys, TRUE, w.write, TRUE)
    BY <1>4, <2>1
  <2>4. RequestIs(q, "window", w.va, w.phys, TRUE, w.write, TRUE)
    BY <2>3, RequestFields
  <2>5. w.va \in Va /\ w.va # Guard
    BY <2>2, PagingAssumption
  <2>6. GoodRequest(q)
    BY <2>2, <2>4, <2>5 DEF GoodRequest, RequestIs
  <2> QED BY <2>1, <2>4, <2>6 DEF RequestIs
<1> QED
  BY <1>1, <1>3, <1>5, <1>6 DEF Batch

-----------------------------------------------------------------------------
(* The steps *)

\* A call that maps pages keeps what the other components rely on.
LEMMA MapsKeep ==
    ASSUME Inv, NEW reqs, Batch(reqs), NEW strict, Maps(InOrder(reqs), reqs, strict)
    PROVE  /\ MemInv(mem)' /\ TlbOK(tlb, pte)' /\ Lent(ledger, pte')
           /\ armed' => Walk(pte', Guard) = NoEntry
           /\ Progress(pte, pte', reqs, InOrder(reqs).done)
           /\ InOrder(reqs).done \in 0 .. Len(reqs)
           /\ InOrder(reqs).ok <=> InOrder(reqs).done = Len(reqs)
<1>1. PICK r, k : r = InOrder(reqs) /\ k = r.done
  OBVIOUS
<1>2. InProgress(r, mem, reqs, Len(reqs))
  BY <1>1, RoundsIs DEF InOrder, Inv
<1>3. MemInv(r.m) /\ k \in 0 .. Len(reqs) /\ Progress(pte, r.m.pte, reqs, k)
  BY <1>1, <1>2, MemIs DEF InProgress
<1>4. mem' = r.m /\ pte' = r.m.pte
  BY <1>1, <1>3, CommitIs DEF Maps, MemInv
<1>5. Progress(pte, pte', reqs, k) /\ MemInv(mem')
  BY <1>3, <1>4
<1>6. \A i \in 1 .. k : GoodRequest(reqs[i])
  <2>1. \A i \in 1 .. k : i \in 1 .. Len(reqs)
    BY SMT, <1>3 DEF Batch
  <2> QED BY <2>1 DEF Batch
<1>7. TlbOK(tlb', pte')
  <2>1. PICK vas : vas = {reqs[i].va : i \in 1 .. k}
    OBVIOUS
  <2>2. \A va \in Va : va \notin vas => Walk(pte', va) = Walk(pte, va)
    BY <1>5, <2>1 DEF Progress
  <2>3. tlb' = Flushed(vas)
    BY <1>1, <2>1 DEF Maps
  <2> QED BY <2>2, <2>3, TlbKept DEF Inv
<1>8. Lent(ledger, pte')
  <2>1. ASSUME NEW va \in UserVa, Walk(pte, va) # NoEntry
        PROVE  Walk(pte', va) # NoEntry
    <3>1. va \in Va
      BY PagingAssumption
    <3>2. CASE \E i \in 1 .. k : reqs[i].va = va
      BY <1>5, <3>2, ServedMapped DEF Progress
    <3>3. CASE ~ \E i \in 1 .. k : reqs[i].va = va
      BY <1>5, <2>1, <3>1, <3>3 DEF Progress
    <3> QED BY <3>2, <3>3
  <2> QED BY <2>1, LentKept DEF Inv
<1>9. armed' => Walk(pte', Guard) = NoEntry
  <2>1. Guard \in Va
    BY PagingAssumption
  <2>2. \A i \in 1 .. k : reqs[i].va # Guard
    BY <1>6 DEF GoodRequest
  <2>3. Walk(pte', Guard) = Walk(pte, Guard)
    BY <1>5, <2>1, <2>2 DEF Progress
  <2> QED BY <2>3 DEF Inv, Maps
<1> QED
  BY <1>1, <1>2, <1>3, <1>5, <1>7, <1>8, <1>9 DEF InProgress

\* A call of boot.
LEMMA BootKeeps ==
    ASSUME Inv, NEW call, NEW reqs, Batch(reqs), NEW strict, Boot(call, reqs, strict)
    PROVE  Inv'
<1>1. Maps(InOrder(reqs), reqs, strict)
  BY DEF Boot
<1>2. /\ MemInv(mem)' /\ TlbOK(tlb, pte)' /\ Lent(ledger, pte')
      /\ armed' => Walk(pte', Guard) = NoEntry
  BY <1>1, MapsKeep
<1>3. todo' \in Seq(Range(BootCalls))
  <2>1. PICK S : S = Range(BootCalls)
    OBVIOUS
  <2>2. todo \in Seq(S) /\ todo # <<>>
    BY <2>1 DEF Inv, Boot
  <2>3. Tail(todo) \in Seq(S) /\ AfterDriver(Tail(todo)) \in Seq(S)
    BY <2>2, LaterCalls
  <2>4. <<>> \in Seq(S)
    BY SMT
  <2>5. \A ok : Rest(ok) \in {Tail(todo), <<>>, AfterDriver(Tail(todo))}
    BY DEF Rest
  <2> QED BY <2>1, <2>3, <2>4, <2>5 DEF Boot
<1>4. /\ armed' \in BOOLEAN /\ phase' \in {"boot", "up", "halted"} /\ ledger' = ledger
  BY <1>1 DEF Boot, Maps, Inv
<1> QED
  BY <1>2, <1>3, <1>4 DEF Inv

\* Pages lent, then more pages.
LEMMA LentMore ==
    ASSUME NEW l, NEW t, NEW pt, Lent(l, pt), Lent(t, pt),
           \A i \in 1 .. Len(l) : \A j \in 1 .. Len(t) : l[i] # t[j]
    PROVE  Lent(l \o t, pt)
<1>1. PICK u, a, b : u = l \o t /\ a = Len(l) /\ b = Len(t)
  OBVIOUS
<1>2. a \in Nat /\ b \in Nat
  BY <1>1, SeqFacts DEF Lent
<1>3. IsJoin(u, UserVa, l, t)
  BY <1>1, Joined DEF Lent
<1>4. u \in Seq(UserVa) /\ Len(u) = a + b
  BY <1>1, <1>3 DEF IsJoin
<1>5. ASSUME NEW i \in 1 .. a + b
      PROVE  \/ i \in 1 .. a /\ u[i] = l[i]
             \/ i - a \in 1 .. b /\ u[i] = t[i - a]
  <2>1. IF i <= a THEN i \in 1 .. a ELSE i - a \in 1 .. b
    BY SMT, <1>2
  <2>2. u[i] = IF i <= a THEN l[i] ELSE t[i - a]
    BY <1>1, <1>3 DEF IsJoin
  <2> QED BY <2>1, <2>2
<1>6. ASSUME NEW i \in 1 .. a + b, NEW j \in 1 .. a + b, u[i] = u[j]
      PROVE  i = j
  <2>1. PICK c, d : c = i - a /\ d = j - a
    OBVIOUS
  <2>2. /\ (i \in 1 .. a /\ u[i] = l[i]) \/ (c \in 1 .. b /\ u[i] = t[c])
        /\ (j \in 1 .. a /\ u[j] = l[j]) \/ (d \in 1 .. b /\ u[j] = t[d])
    BY <1>5, <2>1
  <2>3. i = j \/ c = d
    BY <1>1, <1>6, <2>2 DEF Lent
  <2> QED BY SMT, <1>2, <2>1, <2>3
<1>7. ASSUME NEW i \in 1 .. a + b PROVE Walk(pt, u[i]) # NoEntry
  <2>1. PICK c : c = i - a
    OBVIOUS
  <2>2. (i \in 1 .. a /\ u[i] = l[i]) \/ (c \in 1 .. b /\ u[i] = t[c])
    BY <1>5, <2>1
  <2> QED BY <1>1, <2>2 DEF Lent
<1> QED
  BY <1>1, <1>4, <1>6, <1>7 DEF Lent

\* extent_map and devqueue_map.
LEMMA WindowKeeps ==
    ASSUME Inv, NEW pages \in Windows, MapWindow(pages)
    PROVE  Inv'
<1>1. PICK R, k : R = WindowRequests(pages) /\ k = InOrder(R).done
  OBVIOUS
<1>2. Batch(R) /\ \A i \in 1 .. Len(R) : R[i].call = "window"
  BY <1>1, WindowBatch
<1>3. Maps(InOrder(R), R, TRUE)
  BY <1>1 DEF MapWindow
<1>4. /\ MemInv(mem)' /\ TlbOK(tlb, pte)' /\ Lent(ledger, pte')
      /\ armed' => Walk(pte', Guard) = NoEntry
      /\ Progress(pte, pte', R, k) /\ k \in 0 .. Len(R)
  BY <1>1, <1>2, <1>3, MapsKeep
<1>5. PICK t : t = [i \in 1 .. k |-> R[i].va]
  OBVIOUS
<1>6. k \in Nat /\ \A i \in 1 .. k : i \in 1 .. Len(R)
  BY SMT, <1>2, <1>4 DEF Batch
<1>7. \A i \in 1 .. k : GoodRequest(R[i]) /\ R[i].call = "window"
  BY <1>2, <1>6 DEF Batch
<1>8. \A i \in 1 .. k : /\ R[i].va \in UserVa /\ Walk(pte', R[i].va) # NoEntry
                        /\ Walk(pte, R[i].va) = NoEntry
  <2>1. ASSUME NEW i \in 1 .. k
        PROVE  /\ R[i].va \in UserVa /\ Walk(pte', R[i].va) # NoEntry
               /\ Walk(pte, R[i].va) = NoEntry
    <3>1. Served(pte, pte', R[i])
      BY <1>4 DEF Progress
    <3>2. Walk(pte', R[i].va) # NoEntry
      BY <3>1, ServedMapped
    <3>3. Walk(pte, R[i].va) = NoEntry
      BY <1>7, <3>1 DEF Served
    <3> QED BY <1>7, <3>2, <3>3 DEF GoodRequest
  <2> QED BY <2>1
<1>9. t \in Seq(UserVa) /\ Len(t) = k
  <2>1. t \in [1 .. k -> UserVa]
    BY <1>5, <1>8
  <2> QED BY <1>6, <2>1, MadeSeq
<1>10. Lent(t, pte')
  <2>1. \A i \in 1 .. k : t[i] = R[i].va
    BY <1>5
  <2>2. \A i, j \in 1 .. k : t[i] = t[j] => i = j
    BY <1>4, <1>7, <2>1 DEF Progress
  <2> QED BY <1>8, <1>9, <2>1, <2>2 DEF Lent
<1>11. Lent(ledger \o t, pte')
  <2>1. \A i \in 1 .. Len(ledger) : Walk(pte, ledger[i]) # NoEntry
    BY DEF Inv, Lent
  <2>2. \A j \in 1 .. Len(t) : Walk(pte, t[j]) = NoEntry
    BY <1>5, <1>8, <1>9
  <2> QED BY <1>4, <1>10, <2>1, <2>2, LentMore
<1>12. /\ ledger' = ledger \o t /\ todo' = todo
       /\ armed' \in BOOLEAN /\ phase' \in {"boot", "up", "halted"}
  BY <1>1, <1>3, <1>5 DEF MapWindow, Maps, Inv
<1> QED
  BY <1>4, <1>11, <1>12 DEF Inv

\* The stack guard is armed.
LEMMA GuardKeeps ==
    ASSUME Inv, ArmGuard
    PROVE  Inv'
<1>1. PICK r : r = unmap_page(mem, Guard)
  OBVIOUS
<1>2. Guard \in Va /\ Guard \notin UserVa
  BY PagingAssumption
<1>3. Unmapped(r.m, mem, Guard) /\ r.ok = HasLeaf(pte, Guard)
  BY <1>1, <1>2, UnmapIs, MemIs DEF Inv
<1>4. MemInv(r.m) /\ r.m \in Mem
  BY <1>3 DEF Unmapped, MemInv
<1>5. mem' = r.m /\ pte' = r.m.pte
  BY <1>1, <1>4, CommitIs DEF ArmGuard
<1>6. /\ armed' = r.ok /\ phase' = "up" /\ ledger' = ledger /\ todo' = todo
      /\ tlb' = IF r.ok THEN Flushed({Guard}) ELSE tlb
  BY <1>1 DEF ArmGuard, UnmapFlush
<1>7. r.ok \in BOOLEAN
  BY <1>3 DEF HasLeaf, IsTable
<1>8. CASE r.ok
  <2>1. OneWalk(pte, pte', Guard, NoEntry)
    BY <1>3, <1>5, <1>8, MemIs DEF Unmapped
  <2>2. \A va \in Va : va \notin {Guard} => Walk(pte', va) = Walk(pte, va)
    BY <2>1 DEF OneWalk
  <2>3. TlbOK(tlb', pte')
    BY <1>6, <1>8, <2>2, TlbKept DEF Inv
  <2>4. Lent(ledger, pte')
    <3>1. \A va \in UserVa : Walk(pte', va) = Walk(pte, va)
      BY <1>2, <2>2, PagingAssumption
    <3> QED BY <3>1, LentKept DEF Inv
  <2>5. Walk(pte', Guard) = NoEntry
    BY <2>1 DEF OneWalk
  <2> QED BY <1>4, <1>5, <1>6, <1>7, <2>3, <2>4, <2>5 DEF Inv
<1>9. CASE ~r.ok
  <2>1. r.m = mem
    BY <1>3, <1>9, MemIs DEF Unmapped
  <2>2. pte' = pte /\ mem' = mem
    BY <1>5, <2>1, MemIs
  <2> QED BY <1>6, <1>7, <1>9, <2>2 DEF Inv
<1> QED
  BY <1>7, <1>8, <1>9

\* The page-fault handler maps a page of the kernel's, or halts.
LEMMA FaultKeeps ==
    ASSUME Inv, NEW va \in Va, page_fault_handler(va)
    PROVE  Inv'
<1>1. PICK r : r = manual_map(mem, va)
  OBVIOUS
<1>2. /\ Walk(pte, va) = NoEntry
      /\ armed' = armed /\ ledger' = ledger /\ todo' = todo
  BY DEF page_fault_handler
<1>3. \/ /\ va # Guard /\ r.ok /\ Commit(r.m) /\ tlb' = Flushed({va}) /\ phase' = phase
      \/ phase' = "halted" /\ pte' = pte /\ free' = free /\ lost' = lost /\ tlb' = tlb
  BY <1>1 DEF page_fault_handler, Overflow
<1>4. CASE va # Guard /\ r.ok /\ Commit(r.m) /\ tlb' = Flushed({va}) /\ phase' = phase
  <2>1. MemInv(r.m) /\ \E e \in Entries : OneWalk(pte, r.m.pte, va, e)
    BY <1>1, <1>2, <1>4, FaultIs, MemIs DEF Inv
  <2>2. mem' = r.m /\ pte' = r.m.pte
    BY <1>4, <2>1, CommitIs DEF MemInv
  <2>3. \A vb \in Va : vb \notin {va} => Walk(pte', vb) = Walk(pte, vb)
    BY <2>1, <2>2 DEF OneWalk
  <2>4. TlbOK(tlb', pte')
    BY <1>4, <2>3, TlbKept DEF Inv
  <2>5. Walk(pte', Guard) = Walk(pte, Guard)
    BY <1>4, <2>3, PagingAssumption
  <2>6. Walk(pte', va) # NoEntry
    BY <2>1, <2>2, PagingAssumption DEF OneWalk
  <2>7. Lent(ledger, pte')
    <3>1. \A vb \in UserVa : Walk(pte, vb) # NoEntry => Walk(pte', vb) # NoEntry
      BY <2>3, <2>6, PagingAssumption
    <3> QED BY <3>1, LentKept DEF Inv
  <2> QED BY <1>2, <1>4, <2>1, <2>2, <2>4, <2>5, <2>7 DEF Inv
<1>5. CASE phase' = "halted" /\ pte' = pte /\ free' = free /\ lost' = lost /\ tlb' = tlb
  <2>1. mem' = mem
    BY <1>5 DEF mem
  <2> QED BY <1>2, <1>5, <2>1 DEF Inv
<1> QED
  BY <1>3, <1>4, <1>5

\* The processor keeps a translation.
LEMMA FillKeeps ==
    ASSUME Inv, NEW va \in Va, Fill(va)
    PROVE  Inv'
<1>1. /\ tlb' = [va |-> va, to |-> Walk(pte, va)] /\ mem' = mem /\ pte' = pte
      /\ armed' = armed /\ ledger' = ledger /\ todo' = todo /\ phase' = phase
  BY DEF Fill, mem
<1>2. tlb'.va = va /\ tlb'.to = Walk(pte, va)
  BY <1>1
<1> QED
  BY <1>1, <1>2 DEF Inv, TlbOK

\* A domain is reaped.
LEMMA ReapKeeps ==
    ASSUME Inv, Reap
    PROVE  /\ Inv'
           /\ \A va \in Va : IF va \in Range(ledger) THEN Walk(pte', va) = NoEntry
                             ELSE Walk(pte', va) = Walk(pte, va)
<1>1. PICK u, n, l : l = ledger /\ n = Len(l) /\ u = Unmapping(mem, l)[n]
  OBVIOUS
<1>2. l \in Seq(UserVa)
  BY <1>1 DEF Inv, Lent
<1>3. n \in Nat /\ DOMAIN l = 1 .. n /\ \A i \in 1 .. n : l[i] \in UserVa
  BY <1>1, <1>2, SeqFacts
<1>4. Withdrawn(u, mem, l, n)
  BY <1>1, <1>3, UnmappingIs DEF Inv
<1>5. MemInv(u) /\ u \in Mem /\ Commit(u)
  BY <1>1, <1>4 DEF Withdrawn, Reap, MemInv
<1>6. mem' = u /\ pte' = u.pte
  BY <1>5, CommitIs
<1>7. /\ Range(l) = {l[i] : i \in 1 .. n} /\ Range(l) \subseteq UserVa
  BY <1>3 DEF Range
<1>8. ASSUME NEW va \in Va
      PROVE  IF va \in Range(l) THEN Walk(pte', va) = NoEntry
             ELSE Walk(pte', va) = Walk(pte, va)
  <2>1. va \in Range(l) <=> \E i \in 1 .. n : l[i] = va
    BY <1>7
  <2> QED BY <1>4, <1>6, <2>1, MemIs DEF Withdrawn
<1>9. TlbOK(tlb', pte')
  <2>1. PICK vas : vas = Range(l)
    OBVIOUS
  <2>2. tlb' = Flushed(vas)
    BY <1>1, <2>1 DEF Reap, UnmapFlush
  <2>3. \A va \in Va : va \notin vas => Walk(pte', va) = Walk(pte, va)
    BY <1>8, <2>1
  <2> QED BY <2>2, <2>3, TlbKept DEF Inv
<1>10. Walk(pte', Guard) = Walk(pte, Guard)
  BY <1>7, <1>8, PagingAssumption
<1>11. Lent(ledger', pte')
  <2>1. ledger' = <<>>
    BY DEF Reap, Cleared
  <2>2. <<>> \in Seq(UserVa) /\ Len(<<>>) = 0 /\ \A i \in 1 .. 0 : FALSE
    BY SMT
  <2> QED BY <2>1, <2>2 DEF Lent
<1>12. armed' = armed /\ todo' = todo /\ phase' = phase
  BY DEF Reap
<1> QED
  BY <1>1, <1>5, <1>6, <1>8, <1>9, <1>10, <1>11, <1>12 DEF Inv

\* Boot starts over what the loader left.
LEMMA InitInv ==
    ASSUME Init
    PROVE  Inv
<1>1. mem = [pte |-> pte, free |-> free, lost |-> {}]
  BY DEF Init, mem
<1>2. MemInv(mem)
  BY <1>1, BootMemory DEF Init
<1>3. TlbOK(tlb, pte)
  BY DEF Init, TlbOK
<1>4. Lent(ledger, pte)
  <2>1. <<>> \in Seq(UserVa) /\ Len(<<>>) = 0 /\ \A i \in 1 .. 0 : FALSE
    BY SMT
  <2> QED BY <2>1 DEF Lent, Init
<1>5. todo \in Seq(Range(BootCalls))
  <2>1. PICK n, S : n = Len(BootCalls) /\ S = Range(BootCalls)
    OBVIOUS
  <2>2. n \in Nat /\ BootCalls \in [1 .. n -> S]
    <3>1. PICK C : BootCalls \in Seq(C)
      BY PagingAssumption
    <3>2. n \in Nat /\ BootCalls \in [1 .. n -> C]
      BY SMT, <2>1, <3>1
    <3> QED BY <2>1, <3>2 DEF Range
  <2> QED BY <2>1, <2>2, MadeSeq DEF Init
<1> QED
  BY <1>2, <1>3, <1>4, <1>5 DEF Init, Inv

\* No step breaks the invariant.
LEMMA NextInv ==
    ASSUME Inv, [Next]_vars
    PROVE  Inv'
<1>1. CASE ArmGuard
  BY <1>1, GuardKeeps
<1>2. ASSUME NEW va \in Va, page_fault_handler(va) PROVE Inv'
  BY <1>2, FaultKeeps
<1>3. ASSUME NEW va \in Watched, Fill(va) PROVE Inv'
  BY <1>3, FillKeeps, PagingAssumption
<1>4. ASSUME todo # <<>> PROVE Head(todo) \in Range(BootCalls)
  BY <1>4, LaterCalls DEF Inv
<1>5. CASE map_mmio_range
  <2>1. Boot("range", DeviceRequests(Head(todo)), FALSE)
    BY <1>5 DEF map_mmio_range
  <2>2. Batch(DeviceRequests(Head(todo)))
    BY <1>4, <2>1, DeviceBatch DEF Boot
  <2> QED BY <2>1, <2>2, BootKeeps
<1>6. CASE MapLapic
  <2>1. Boot("lapic", DeviceRequests(Head(todo)), TRUE)
    BY <1>6 DEF MapLapic
  <2>2. Batch(DeviceRequests(Head(todo)))
    BY <1>4, <2>1, DeviceBatch DEF Boot
  <2> QED BY <2>1, <2>2, BootKeeps
<1>7. CASE setup_user_task
  <2>1. Boot("image", Image(Head(todo)), TRUE)
    BY <1>7 DEF setup_user_task
  <2>2. Batch(Image(Head(todo)))
    BY <1>4, <2>1, ImageBatch DEF Boot
  <2> QED BY <2>1, <2>2, BootKeeps
<1>8. ASSUME NEW pages \in Windows, MapWindow(pages) PROVE Inv'
  BY <1>8, WindowKeeps
<1>9. CASE Reap
  BY <1>9, ReapKeeps
<1>10. CASE UNCHANGED vars
  BY <1>10 DEF vars, mem, Inv
<1> QED
  BY <1>1, <1>2, <1>3, <1>5, <1>6, <1>7, <1>8, <1>9, <1>10 DEF Next

-----------------------------------------------------------------------------
(* What the invariant gives *)

\* The types.
LEMMA InvTypes ==
    ASSUME Inv
    PROVE  TypeOK
<1>1. /\ pte \in Memory /\ free \subseteq Frame /\ lost \subseteq Frame
  <2>1. mem \in Mem
    BY DEF Inv, MemInv
  <2> QED BY <2>1, MemIs DEF Mem
<1>2. tlb = NoTranslation \/ tlb.va \in Va
  BY DEF Inv, TlbOK
<1>3. /\ DOMAIN ledger = 1 .. Len(ledger)
      /\ \A i \in 1 .. Len(ledger) : ledger[i] \in UserVa
  BY SeqFacts DEF Inv, Lent
<1>4. Range(ledger) \subseteq Va
  BY <1>3, PagingAssumption DEF Range
<1>5. IsInjective(ledger)
  BY <1>3 DEF IsInjective, Inv, Lent
<1>6. Range(todo) \subseteq Range(BootCalls)
  <2>1. PICK S : S = Range(BootCalls)
    OBVIOUS
  <2>2. DOMAIN todo = 1 .. Len(todo) /\ \A i \in 1 .. Len(todo) : todo[i] \in S
    BY <2>1, SeqFacts DEF Inv
  <2>3. Range(todo) \subseteq S
    BY <2>2 DEF Range
  <2> QED BY <2>1, <2>3
<1> QED
  BY <1>1, <1>2, <1>4, <1>5, <1>6 DEF TypeOK, Inv, Memory, PTE

\* A table that the walk reaches, with its path.
Path(f, D, P) == [j \in 1 .. D[f] |-> P[f][j]]

Reaches(p, T, D, P) == p[1] \in T /\ p = <<p[1], Path(p[1], D, P)>>

\* The tables reached are those of the tree.
LEMMA ReachedIs ==
    ASSUME NEW pt, NEW spare, NEW T, NEW D, NEW P, NEW U,
           Tree(pt, spare, T, D, P, U), NEW p \in Reached(pt)
    PROVE  Reaches(p, T, D, P)
<1>1. PICK x \in {q \in Va \X (0 .. Levels - 1) : IsTable(Steps(pt, q[1])[q[2]])} :
          p = <<Steps(pt, x[1])[x[2]].frame, [j \in 1 .. x[2] |-> x[1][j]]>>
  BY DEF Reached
<1>2. PICK va \in Va, k \in 0 .. Levels - 1 : va = x[1] /\ k = x[2]
  OBVIOUS
<1>3. IsTable(Steps(pt, va)[k])
  BY <1>1, <1>2
<1>4. PICK f : f = Steps(pt, va)[k].frame
  OBVIOUS
<1>5. f \in T /\ D[f] = k /\ On(f, va, D, P)
  <2>1. At(Steps(pt, va)[k].frame, k, va, T, D, P)
    BY <1>3, TablesReached
  <2> QED BY <1>4, <2>1 DEF At
<1>6. [j \in 1 .. k |-> va[j]] = Path(f, D, P)
  BY <1>5 DEF On, Path
<1>7. p = <<f, [j \in 1 .. k |-> va[j]]>>
  BY <1>1, <1>2, <1>4
<1>8. p[1] = f
  BY <1>7
<1> QED
  BY <1>5, <1>6, <1>7, <1>8 DEF Reaches

\* The tables, the pages and the unused frames are apart.
LEMMA InvTree ==
    ASSUME Inv
    PROVE  TablesFormTree
<1>1. PICK spare : spare = free \cup lost
  OBVIOUS
<1>2. Treed(pte, spare) /\ free \cap lost = {}
  BY <1>1, MemIs DEF Inv, MemInv
<1>3. PICK T, D, P, U : Tree(pte, spare, T, D, P, U)
  BY <1>2 DEF Treed
<1>4. \A p \in Reached(pte) : Reaches(p, T, D, P)
  BY <1>3, ReachedIs
<1>5. IsTree(pte)
  <2>1. ASSUME NEW p \in Reached(pte), NEW q \in Reached(pte), p[1] = q[1]
        PROVE  p = q
    <3>1. PICK f : f = p[1]
      OBVIOUS
    <3>2. p = <<f, Path(f, D, P)>>
      BY <1>4, <3>1 DEF Reaches
    <3>3. q = <<f, Path(f, D, P)>>
      BY <1>4, <2>1, <3>1 DEF Reaches
    <3> QED BY <3>2, <3>3
  <2> QED BY <2>1 DEF IsTree
<1>6. \A t \in Translations : t.frame \notin spare /\ t.frame \notin T
  <2>1. ASSUME NEW va \in Va, Walk(pte, va) # NoEntry
        PROVE  Walk(pte, va).frame \notin spare /\ Walk(pte, va).frame \notin T
    BY <1>3, <2>1, PageFacts
  <2> QED BY <2>1 DEF Translations
<1>7. T \cap spare = {}
  BY <1>3 DEF Tree
<1> QED
  BY <1>1, <1>2, <1>4, <1>5, <1>6, <1>7 DEF TablesFormTree, Reaches

\* W^X, of the memory.
LEMMA InvWx ==
    ASSUME Inv
    PROVE  WriteXorExecute
<1>1. PoolOnce(pte) /\ UserPages(pte)
  BY MemIs DEF Inv, MemInv
<1>2. ASSUME NEW x \in Translations, NEW w \in Translations, x.user, w.user,
             ~x.nx, w.write, x.frame = w.frame
      PROVE  FALSE
  <2>1. PICK va \in Va : x = Walk(pte, va) /\ x # NoEntry
    BY DEF Translations
  <2>2. PICK vb \in Va : w = Walk(pte, vb) /\ w # NoEntry
    BY DEF Translations
  <2>3. PageOK(x) /\ PageOK(w)
    BY <1>1, <2>1, <2>2 DEF UserPages
  <2>4. x.frame \in Frame
    BY <1>2, <2>3 DEF PageOK
  <2>5. va = vb
    BY <1>1, <1>2, <2>1, <2>2, <2>4 DEF PoolOnce
  <2> QED BY <1>2, <2>1, <2>2, <2>3, <2>5 DEF PageOK
<1> QED
  BY <1>2 DEF WriteXorExecute

\* The TLB and the stack guard.
LEMMA InvProcessor ==
    ASSUME Inv
    PROVE  TlbCoherent /\ GuardHolds
BY DEF Inv, TlbOK, TlbCoherent, GuardHolds

(***************************************************************************)
(* The invariant holds in every state.                                     *)
(***************************************************************************)
THEOREM Invariant == Spec => []Inv
<1>1. Init => Inv
  BY InitInv
<1>2. Inv /\ [Next]_vars => Inv'
  BY NextInv
<1> QED
  BY <1>1, <1>2, PTL DEF Spec

(***************************************************************************)
(* Entries name frames, the ledger names each page once, and boot's        *)
(* remaining calls are among those it started with.                        *)
(***************************************************************************)
THEOREM TypeCorrect == Spec => []TypeOK
<1>1. Inv => TypeOK
  BY InvTypes
<1> QED
  BY <1>1, Invariant, PTL

(***************************************************************************)
(* The page tables form a tree, apart from the free and the lost frames    *)
(* and from the pages that are mapped, whichever call fails and where.     *)
(***************************************************************************)
THEOREM TablesStayTree == Spec => []TablesFormTree
<1>1. Inv => TablesFormTree
  BY InvTree
<1> QED
  BY <1>1, Invariant, PTL

(***************************************************************************)
(* No frame that ring 3 can execute can it write through any page.         *)
(***************************************************************************)
THEOREM NeverWriteAndExecute == Spec => []WriteXorExecute
<1>1. Inv => WriteXorExecute
  BY InvWx
<1> QED
  BY <1>1, Invariant, PTL

(***************************************************************************)
(* The processor never uses a translation the tables no longer hold.       *)
(***************************************************************************)
THEOREM TlbStaysCoherent == Spec => []TlbCoherent
<1>1. Inv => TlbCoherent
  BY InvProcessor
<1> QED
  BY <1>1, Invariant, PTL

(***************************************************************************)
(* Once armed the stack guard stays unmapped.                              *)
(***************************************************************************)
THEOREM GuardStaysUnmapped == Spec => []GuardHolds
<1>1. Inv => GuardHolds
  BY InvProcessor
<1> QED
  BY <1>1, Invariant, PTL

-----------------------------------------------------------------------------
(* The tables implement the address space *)

\* The mapping of each page, before and after a step.
LEMMA SpaceIs ==
    ASSUME NEW va \in Va
    PROVE  /\ [vb \in Va |-> Walk(pte, vb)][va] = Walk(pte, va)
           /\ [vb \in Va |-> Walk(pte', vb)][va] = Walk(pte', va)
OBVIOUS

\* A call for pages that served the first k, as Map.
LEMMA MapsSpace ==
    ASSUME NEW reqs, Len(reqs) \in Nat, NEW strict, NEW k \in 0 .. Len(reqs), NEW ok,
           ok <=> k = Len(reqs),
           \A i \in 1 .. k : reqs[i].va \in Va,
           \A va \in Va : (\A i \in 1 .. k : reqs[i].va # va) =>
               Walk(pte', va) = Walk(pte, va),
           \A i \in 1 .. k :
               IF Walk(pte, reqs[i].va) = NoEntry
               THEN Space!HasRights(Walk(pte', reqs[i].va), reqs[i])
               ELSE ~strict /\ Walk(pte', reqs[i].va) = Walk(pte, reqs[i].va),
           Answered(reqs, strict, ok)
    PROVE  Space!Next
<1>1. /\ answer'.op = "map" /\ answer'.reqs = reqs /\ answer'.strict = strict
      /\ answer'.ok = ok
  BY DEF Answered
<1> DEFINE Done == {reqs[i] : i \in 1 .. k}
<1>2. ASSUME NEW r \in Done
      PROVE  IF [vb \in Va |-> Walk(pte, vb)][r.va] = NoEntry
             THEN Space!HasRights([vb \in Va |-> Walk(pte', vb)][r.va], r)
             ELSE /\ ~strict
                  /\ [vb \in Va |-> Walk(pte', vb)][r.va]
                       = [vb \in Va |-> Walk(pte, vb)][r.va]
  <2>1. PICK i \in 1 .. k : r = reqs[i]
    OBVIOUS
  <2>2. r.va \in Va
    BY <2>1
  <2> QED BY <2>1, <2>2, SpaceIs
<1>3. ASSUME NEW va \in Va \ {r.va : r \in Done}
      PROVE  [vb \in Va |-> Walk(pte', vb)][va] = [vb \in Va |-> Walk(pte, vb)][va]
  <2>1. \A i \in 1 .. k : reqs[i].va # va
    BY <1>3
  <2> QED BY <2>1, SpaceIs
<1>4. Space!Map(reqs, strict, ok)
  BY <1>2, <1>3 DEF Space!Map
<1> QED
  BY <1>1, <1>4 DEF Space!Next

\* A call of boot, or for a window.
LEMMA CallMaps ==
    ASSUME Inv, NEW reqs, Batch(reqs), NEW strict, Maps(InOrder(reqs), reqs, strict),
           strict => \A i \in 1 .. Len(reqs) : reqs[i].call # "range"
    PROVE  Space!Next
<1>1. PICK k, ok : k = InOrder(reqs).done /\ ok = InOrder(reqs).ok
  OBVIOUS
<1>2. /\ Progress(pte, pte', reqs, k) /\ k \in 0 .. Len(reqs) /\ (ok <=> k = Len(reqs))
  BY <1>1, MapsKeep
<1>3. Len(reqs) \in Nat /\ \A i \in 1 .. k : i \in 1 .. Len(reqs)
  BY SMT, <1>2 DEF Batch
<1>4. \A i \in 1 .. k : reqs[i].va \in Va /\ (strict => reqs[i].call # "range")
  BY <1>3 DEF Batch, GoodRequest
<1>5. \A i \in 1 .. k :
          IF Walk(pte, reqs[i].va) = NoEntry
          THEN Space!HasRights(Walk(pte', reqs[i].va), reqs[i])
          ELSE ~strict /\ Walk(pte', reqs[i].va) = Walk(pte, reqs[i].va)
  BY <1>2, <1>4 DEF Progress, Served
<1>6. \A va \in Va : (\A i \in 1 .. k : reqs[i].va # va) => Walk(pte', va) = Walk(pte, va)
  BY <1>2 DEF Progress
<1>7. Answered(reqs, strict, ok)
  BY <1>1 DEF Maps
<1> QED
  BY <1>2, <1>3, <1>4, <1>5, <1>6, <1>7, MapsSpace

\* A fault that is served.
LEMMA FaultMaps ==
    ASSUME Inv, NEW va \in Va, page_fault_handler(va)
    PROVE  Space!Next \/ UNCHANGED Space!vars
<1>1. PICK r, q : /\ r = manual_map(mem, va)
                  /\ q = Request("fault", va, 0, FALSE, TRUE, FALSE)
  OBVIOUS
<1>2. \/ r.ok /\ Commit(r.m) /\ Answered(<<q>>, FALSE, TRUE)
      \/ pte' = pte /\ answer' = answer
  BY <1>1 DEF page_fault_handler
<1>3. CASE r.ok /\ Commit(r.m) /\ Answered(<<q>>, FALSE, TRUE)
  <2>1. Walk(pte, va) = NoEntry
    BY DEF page_fault_handler
  <2>2. /\ MemInv(r.m)
        /\ \E e \in Entries : /\ OneWalk(pte, r.m.pte, va, e)
                              /\ e.user = FALSE /\ e.write = TRUE /\ e.nx = FALSE
    BY <1>1, <1>3, <2>1, FaultIs, MemIs DEF Inv
  <2>3. pte' = r.m.pte
    BY <1>3, <2>2, CommitIs DEF MemInv
  <2>4. PICK e \in Entries : /\ OneWalk(pte, pte', va, e)
                             /\ e.user = FALSE /\ e.write = TRUE /\ e.nx = FALSE
    BY <2>2, <2>3
  <2>5. RequestIs(q, "fault", va, 0, FALSE, TRUE, FALSE)
    BY <1>1, RequestFields
  <2>6. Space!HasRights(Walk(pte', q.va), q)
    BY <2>4, <2>5, PagingAssumption DEF Space!HasRights, OneWalk, RequestIs
  <2>7. PICK s : s = <<q>>
    OBVIOUS
  <2>8. Len(s) = 1 /\ s[1] = q /\ 1 \in Nat /\ 1 \in 0 .. 1 /\ \A i \in 1 .. 1 : i = 1
    BY SMT, <2>7
  <2>9. 1 \in 1 .. 1
    BY SMT
  <2>10. \A i \in 1 .. 1 : /\ s[i].va \in Va /\ Walk(pte, s[i].va) = NoEntry
                           /\ Space!HasRights(Walk(pte', s[i].va), s[i])
    BY <2>1, <2>5, <2>6, <2>8 DEF RequestIs
  <2>11. \A vb \in Va : (\A i \in 1 .. 1 : s[i].va # vb) => Walk(pte', vb) = Walk(pte, vb)
    BY <2>4, <2>5, <2>8, <2>9 DEF OneWalk, RequestIs
  <2>12. Answered(s, FALSE, TRUE)
    BY <1>3, <2>7
  <2>13. PICK k, ok, strict : k = 1 /\ ok = TRUE /\ strict = FALSE
    OBVIOUS
  <2>14. Answered(s, strict, ok) /\ (ok <=> k = Len(s))
    BY <2>8, <2>12, <2>13
  <2>15. k \in 0 .. Len(s) /\ Len(s) \in Nat
    BY <2>8, <2>13
  <2>16. \A i \in 1 .. k :
            /\ s[i].va \in Va
            /\ IF Walk(pte, s[i].va) = NoEntry
               THEN Space!HasRights(Walk(pte', s[i].va), s[i])
               ELSE ~strict /\ Walk(pte', s[i].va) = Walk(pte, s[i].va)
    BY <2>10, <2>13
  <2> QED BY <2>11, <2>13, <2>14, <2>15, <2>16, MapsSpace
<1>4. CASE pte' = pte /\ answer' = answer
  BY <1>4 DEF Space!vars
<1> QED
  BY <1>2, <1>3, <1>4

\* The stack guard, as Unmap.
LEMMA GuardUnmaps ==
    ASSUME Inv, ArmGuard
    PROVE  Space!Next
<1>1. PICK r : r = unmap_page(mem, Guard)
  OBVIOUS
<1>2. Guard \in Va
  BY PagingAssumption
<1>3. Unmapped(r.m, mem, Guard) /\ r.ok = HasLeaf(pte, Guard)
  BY <1>1, <1>2, UnmapIs, MemIs DEF Inv
<1>4. r.m \in Mem
  BY <1>3 DEF Unmapped, MemInv
<1>5. pte' = r.m.pte
  BY <1>1, <1>4, CommitIs DEF ArmGuard
<1>6. answer' = [op |-> "unmap", vas |-> {Guard}, ok |-> r.ok]
  BY <1>1 DEF ArmGuard
<1>7. answer'.op = "unmap" /\ answer'.vas = {Guard} /\ answer'.ok = r.ok
  BY <1>6
<1>8. CASE r.ok
  <2>1. OneWalk(pte, pte', Guard, NoEntry)
    BY <1>3, <1>5, <1>8, MemIs DEF Unmapped
  <2>2. \A va \in Va : Walk(pte', va) = IF va \in {Guard} THEN NoEntry
                                        ELSE [vb \in Va |-> Walk(pte, vb)][va]
    BY <2>1, SpaceIs DEF OneWalk
  <2>3. [va \in Va |-> Walk(pte', va)]
          = [va \in Va |-> IF va \in {Guard} THEN NoEntry
                           ELSE [vb \in Va |-> Walk(pte, vb)][va]]
    BY <2>2
  <2>4. Space!Unmap({Guard}, r.ok)
    BY <1>8, <2>3 DEF Space!Unmap
  <2> QED BY <1>7, <2>4 DEF Space!Next
<1>9. CASE ~r.ok
  <2>1. r.m = mem
    BY <1>3, <1>9, MemIs DEF Unmapped
  <2>2. pte' = pte
    BY <1>5, <2>1, MemIs
  <2>3. Space!Unmap({Guard}, r.ok)
    BY <1>9, <2>2 DEF Space!Unmap
  <2> QED BY <1>7, <2>3 DEF Space!Next
<1> QED
  BY <1>8, <1>9

\* reap_domain, as Unmap.
LEMMA ReapUnmaps ==
    ASSUME Inv, Reap
    PROVE  Space!Next
<1>1. PICK vas : vas = Range(ledger)
  OBVIOUS
<1>2. answer' = [op |-> "unmap", vas |-> vas, ok |-> TRUE]
  BY <1>1 DEF Reap
<1>3. answer'.op = "unmap" /\ answer'.vas = vas /\ answer'.ok = TRUE
  BY <1>2
<1>4. \A va \in Va : IF va \in vas THEN Walk(pte', va) = NoEntry
                     ELSE Walk(pte', va) = Walk(pte, va)
  BY <1>1, ReapKeeps
<1>5. \A va \in Va : Walk(pte', va) = IF va \in vas THEN NoEntry
                                      ELSE [vb \in Va |-> Walk(pte, vb)][va]
  BY <1>4, SpaceIs
<1>6. [va \in Va |-> Walk(pte', va)]
        = [va \in Va |-> IF va \in vas THEN NoEntry
                         ELSE [vb \in Va |-> Walk(pte, vb)][va]]
  BY <1>5
<1>7. Space!Unmap(vas, TRUE)
  BY <1>6 DEF Space!Unmap
<1> QED
  BY <1>3, <1>7 DEF Space!Next

\* Every step is one of the address space, or leaves it alone.
LEMMA NextSpace ==
    ASSUME Inv, [Next]_vars
    PROVE  [Space!Next]_(Space!vars)
<1>1. CASE ArmGuard
  BY <1>1, GuardUnmaps
<1>2. ASSUME NEW va \in Va, page_fault_handler(va)
      PROVE  Space!Next \/ UNCHANGED Space!vars
  BY <1>2, FaultMaps
<1>3. ASSUME NEW va \in Watched, Fill(va) PROVE UNCHANGED Space!vars
  BY <1>3 DEF Fill, Space!vars
<1>4. ASSUME todo # <<>> PROVE Head(todo) \in Range(BootCalls)
  BY <1>4, LaterCalls DEF Inv
<1>5. CASE map_mmio_range
  <2>1. Boot("range", DeviceRequests(Head(todo)), FALSE)
    BY <1>5 DEF map_mmio_range
  <2>2. Batch(DeviceRequests(Head(todo)))
    BY <1>4, <2>1, DeviceBatch DEF Boot
  <2> QED BY <2>1, <2>2, CallMaps DEF Boot
<1>6. CASE MapLapic
  <2>1. PICK R : R = DeviceRequests(Head(todo))
    OBVIOUS
  <2>2. Boot("lapic", R, TRUE)
    BY <1>6, <2>1 DEF MapLapic
  <2>3. Batch(R) /\ \A i \in 1 .. Len(R) : R[i].call = "lapic"
    BY <1>4, <2>1, <2>2, DeviceBatch DEF Boot
  <2> QED BY <2>2, <2>3, CallMaps DEF Boot
<1>7. CASE setup_user_task
  <2>1. PICK R : R = Image(Head(todo))
    OBVIOUS
  <2>2. Boot("image", R, TRUE)
    BY <1>7, <2>1 DEF setup_user_task
  <2>3. Batch(R) /\ \A i \in 1 .. Len(R) : R[i].call = "image"
    BY <1>4, <2>1, <2>2, ImageBatch DEF Boot
  <2> QED BY <2>2, <2>3, CallMaps DEF Boot
<1>8. ASSUME NEW pages \in Windows, MapWindow(pages) PROVE Space!Next
  <2>1. PICK R : R = WindowRequests(pages)
    OBVIOUS
  <2>2. Maps(InOrder(R), R, TRUE)
    BY <1>8, <2>1 DEF MapWindow
  <2>3. Batch(R) /\ \A i \in 1 .. Len(R) : R[i].call = "window"
    BY <2>1, WindowBatch
  <2> QED BY <2>2, <2>3, CallMaps
<1>9. CASE Reap
  BY <1>9, ReapUnmaps
<1>10. CASE UNCHANGED vars
  BY <1>10 DEF vars, Space!vars
<1> QED
  BY <1>1, <1>2, <1>3, <1>5, <1>6, <1>7, <1>8, <1>9, <1>10 DEF Next

(***************************************************************************)
(* The page tables implement the address space: each call maps just the    *)
(* pages it answers for, with the rights asked for, and an unmapping       *)
(* removes just its pages.                                                 *)
(***************************************************************************)
THEOREM TablesImplementSpace == Spec => ImplementsAddressSpace
<1>1. Init => Space!Init
  BY DEF Init, Space!Init
<1>2. Inv /\ [Next]_vars => [Space!Next]_(Space!vars)
  BY NextSpace
<1> QED
  BY <1>1, <1>2, Invariant, PTL DEF Spec, ImplementsAddressSpace, Space!Spec

=============================================================================
