-------------------------- MODULE FrameAllocProofs --------------------------
(***************************************************************************)
(* The range list of memory.rs loses, invents and duplicates no frame and  *)
(* implements the abstract pool, for any number of slots, any frame size   *)
(* and any memory map with no more entries than slots.  The bitmap of the  *)
(* frame-alloc crate implements it too, for every FRAMES and every width   *)
(* of a word, and the two answer alike until the list has no room for a    *)
(* freed frame.                                                            *)
(*                                                                         *)
(* Induction is by a set of natural numbers: the library's induction       *)
(* theorems take an operator, which the provers cannot instantiate.        *)
(***************************************************************************)
EXTENDS FrameMirror, FiniteSetTheorems, TLAPS

\* Zenon is the default prover here; leaves with arithmetic, records or
\* functions that are beyond it cite SMT.
USE Zenon

-----------------------------------------------------------------------------
(* Induction and recursion *)

\* A nonempty set of natural numbers has a least element.
LEMMA LeastExists ==
    ASSUME NEW S \in SUBSET Nat, S # {}
    PROVE  \E m \in S : \A n \in S : m <= n
<1> DEFINE R == OpToRel(<, Nat)
<1>1. IsWellFoundedOn(R, Nat)
  BY NatLessThanWellFounded
<1>2. \E m \in S : \A n \in S : ~ (<<n, m>> \in R)
  <2> HIDE DEF R
  <2> QED BY <1>1, WFMin
<1>3. ASSUME NEW m \in S, NEW n \in S, ~ (<<n, m>> \in R)
      PROVE  m <= n
  BY SMT, <1>3 DEF OpToRel
<1> QED
  BY <1>2, <1>3

\* A set with 0 and the successor of each of its elements has every number up
\* to N, if it is closed that far.
LEMMA InductionTo ==
    ASSUME NEW N \in Nat, NEW P, 0 \in P,
           \A n \in 1 .. N : n - 1 \in P => n \in P
    PROVE  \A n \in 0 .. N : n \in P
<1> DEFINE Bad == {n \in 0 .. N : n \notin P}
<1> SUFFICES ASSUME Bad # {} PROVE FALSE
  OBVIOUS
<1>1. Bad \in SUBSET Nat
  BY SMT
<1>2. PICK m \in Bad : \A n \in Bad : m <= n
  <2> HIDE DEF Bad
  <2> QED BY <1>1, LeastExists
<1>3. m \in 0 .. N /\ m \notin P
  BY <1>2
<1>4. m # 0
  BY <1>3
<1>5. m \in 1 .. N /\ m - 1 \in 0 .. N /\ ~(m <= m - 1)
  BY SMT, <1>3, <1>4
<1>6. m - 1 \in P
  BY <1>2, <1>5
<1> QED
  BY <1>3, <1>5, <1>6

\* The values of a loop of N rounds over S, from s0, exist.
Loop(N, S, s0, round) ==
    \E f \in [0 .. N -> S] :
        f[0] = s0 /\ \A n \in 1 .. N : f[n] = round[n][f[n - 1]]

\* A loop of N rounds over values of S has a value after each round.
LEMMA LoopExists ==
    ASSUME NEW N \in Nat, NEW S, NEW s0 \in S, NEW round \in [1 .. N -> [S -> S]]
    PROVE  Loop(N, S, s0, round)
<1> DEFINE Run(n, f) == /\ f \in [0 .. n -> S] /\ f[0] = s0
                        /\ \A k \in 1 .. n : f[k] = round[k][f[k - 1]]
           P == {n \in 0 .. N : \E f : Run(n, f)}
<1>1. 0 \in P
  <2> DEFINE f == [i \in 0 .. 0 |-> s0]
  <2>1. f \in [0 .. 0 -> S] /\ f[0] = s0 /\ \A k \in 1 .. 0 : FALSE
    BY SMT
  <2>2. 0 \in 0 .. N
    BY SMT
  <2>3. Run(0, f)
    BY <2>1
  <2> HIDE DEF Run
  <2> QED BY <2>2, <2>3
<1>2. ASSUME NEW n \in 1 .. N, n - 1 \in P PROVE n \in P
  <2>1. PICK f : Run(n - 1, f)
    BY <1>2
  <2> DEFINE g == [i \in 0 .. n |-> IF i = n THEN round[n][f[n - 1]] ELSE f[i]]
  <2>2. /\ n - 1 \in 0 .. n - 1 /\ 0 \in 0 .. n - 1 /\ n # 0
        /\ \A i \in 0 .. n : i = n \/ i \in 0 .. n - 1
        /\ \A k \in 1 .. n : /\ k = n \/ k \in 1 .. n - 1
                             /\ k - 1 \in 0 .. n - 1 /\ k - 1 # n /\ k - 1 \in 0 .. n
                             /\ k \in 0 .. n
        /\ \A k \in 1 .. n - 1 : k # n
        /\ n \in 0 .. N /\ n \in 0 .. n /\ 0 \in 0 .. n
    BY SMT
  <2>3. round[n][f[n - 1]] \in S
    BY <2>1, <2>2
  <2>4. g \in [0 .. n -> S]
    BY <2>1, <2>2, <2>3
  <2>5. g[0] = s0
    BY <2>1, <2>2
  <2>6. ASSUME NEW k \in 1 .. n PROVE g[k] = round[k][g[k - 1]]
    <3>1. g[k - 1] = f[k - 1]
      BY <2>2
    <3>2. CASE k = n
      BY <2>2, <3>1, <3>2
    <3>3. CASE k \in 1 .. n - 1
      <4>1. g[k] = f[k]
        BY <2>2, <3>3
      <4> QED BY <2>1, <3>1, <3>3, <4>1
    <3> QED BY <2>2, <3>2, <3>3
  <2>7. Run(n, g)
    BY <2>4, <2>5, <2>6
  <2> HIDE DEF Run
  <2> QED BY <2>2, <2>7
<1>3. N \in P
  <2>1. \A n \in 0 .. N : n \in P
    <3> HIDE DEF P
    <3> QED BY <1>1, <1>2, InductionTo
  <2>2. N \in 0 .. N
    BY SMT
  <2> QED BY <2>1, <2>2
<1> QED
  BY <1>3 DEF Loop

-----------------------------------------------------------------------------
(* Merging sorted ranges *)

Region == [start : Nat, end : Nat]

Nonempty(r) == r.start < r.end

\* A list of ranges in order that neither touch nor overlap.
Apart(s) == /\ \A i \in DOMAIN s : Nonempty(s[i])
            /\ \A i, j \in DOMAIN s : i < j => s[i].end < s[j].start

\* A list of ranges by their start.
Sorted(s) == /\ \A i \in DOMAIN s : Nonempty(s[i])
             /\ \A i, j \in DOMAIN s : i < j => s[i].start <= s[j].start

\* Frame f is in one of the first n ranges.
Among(f, s, n) == \E i \in 1 .. n : f \in Frames(s[i])

\* What is known of the output after the first n ranges.
Joined(live, n, out) ==
    /\ out \in Seq(Region) /\ Len(out) <= n /\ Apart(out)
    /\ n > 0 => /\ Len(out) > 0
                /\ out[Len(out)].start <= live[n].start
    /\ \A f \in Int : Among(f, out, Len(out)) <=> Among(f, live, n)

\* The larger of two numbers.
LEMMA MaxOfTwo ==
    ASSUME NEW a \in Int, NEW b \in Int
    PROVE  Max({a, b}) = IF a >= b THEN a ELSE b
<1>1. \A x \in {a, b} : (\A y \in {a, b} : x >= y) <=> x = IF a >= b THEN a ELSE b
  BY SMT
<1>2. (IF a >= b THEN a ELSE b) \in {a, b}
  OBVIOUS
<1> QED
  BY <1>1, <1>2 DEF Max

\* A range that touches the last one extends it; else it is appended.
LEMMA MergeDef ==
    ASSUME NEW out \in Seq(Region), NEW r \in Region
    PROVE  /\ Merge(out, r) \in Seq(Region)
           /\ out = <<>> \/ out[Len(out)].end < r.start
                 => Merge(out, r) = Append(out, r)
           /\ out # <<>> /\ out[Len(out)].end >= r.start =>
                 LET l == out[Len(out)]
                 IN  Merge(out, r) = [out EXCEPT ![Len(out)] =
                         [start |-> l.start,
                          end |-> IF l.end >= r.end THEN l.end ELSE r.end]]
<1>0. out # <<>> => out[Len(out)].end \in Nat
  <2> SUFFICES ASSUME out # <<>> PROVE out[Len(out)].end \in Nat
    OBVIOUS
  <2>1. out[Len(out)] \in Region
    BY SMT
  <2> QED BY <2>1 DEF Region
<1>r. r.start \in Nat
  BY DEF Region
<1>1. CASE out = <<>> \/ out[Len(out)].end < r.start
  <2>1. ~(out # <<>> /\ out[Len(out)].end >= r.start)
    BY SMT, <1>0, <1>r, <1>1
  <2>2. Merge(out, r) = Append(out, r)
    BY <2>1 DEF Merge
  <2>3. Append(out, r) \in Seq(Region)
    BY SMT
  <2> QED BY <2>1, <2>2, <2>3
<1>2. CASE out # <<>> /\ out[Len(out)].end >= r.start
  <2>1. Len(out) \in DOMAIN out /\ out[Len(out)] \in Region
    BY SMT, <1>2
  <2>2. PICK l \in Region : l = out[Len(out)]
    BY <2>1
  <2>3. l.end \in Int /\ r.end \in Int /\ l.start \in Nat /\ l.end \in Nat /\ r.end \in Nat
        /\ r.start \in Nat
    BY SMT DEF Region
  <2>4. Max({l.end, r.end}) = IF l.end >= r.end THEN l.end ELSE r.end
    BY <2>3, MaxOfTwo
  <2> DEFINE e == IF l.end >= r.end THEN l.end ELSE r.end
  <2>5. Merge(out, r) = [out EXCEPT ![Len(out)].end = e]
    BY <1>2, <2>2, <2>4 DEF Merge
  <2>6. e \in Nat
    BY <2>3
  <2> HIDE DEF e
  <2>7. [out EXCEPT ![Len(out)].end = e]
           = [out EXCEPT ![Len(out)] = [start |-> l.start, end |-> e]]
    <3>1. [l EXCEPT !.end = e] = [start |-> l.start, end |-> e]
      BY SMT DEF Region
    <3>2. [out EXCEPT ![Len(out)].end = e]
             = [out EXCEPT ![Len(out)] = [l EXCEPT !.end = e]]
      BY <2>2
    <3> QED BY <3>1, <3>2
  <2>8. [start |-> l.start, end |-> e] \in Region
    BY <2>3, <2>6 DEF Region
  <2>9. [out EXCEPT ![Len(out)] = [start |-> l.start, end |-> e]] \in Seq(Region)
    BY SMT, <2>1, <2>8
  <2>10. ~(out = <<>> \/ out[Len(out)].end < r.start)
    BY SMT, <1>2, <2>2, <2>3
  <2> QED BY <2>2, <2>5, <2>7, <2>9, <2>10 DEF e
<1>3. \/ out = <<>> \/ out[Len(out)].end < r.start
      \/ out # <<>> /\ out[Len(out)].end >= r.start
  BY SMT, <1>0, <1>r
<1> QED
  BY <1>1, <1>2, <1>3

\* The loop of coalesce, round by round.
LEMMA MergingDef ==
    ASSUME NEW live \in Seq(Region)
    PROVE  /\ Merging(live)[0] = <<>>
           /\ \A n \in 1 .. Len(live) :
                 Merging(live)[n] = Merge(Merging(live)[n - 1], live[n])
<1> DEFINE N == Len(live)
           round == [n \in 1 .. N |-> [o \in Seq(Region) |-> Merge(o, live[n])]]
           Body(f) == [n \in 0 .. N |->
                          IF n = 0 THEN <<>> ELSE Merge(f[n - 1], live[n])]
<1>0. N \in Nat /\ \A n \in 1 .. N : live[n] \in Region
  BY SMT
<1>1. round \in [1 .. N -> [Seq(Region) -> Seq(Region)]]
  BY <1>0, MergeDef
<1>2. <<>> \in Seq(Region)
  BY SMT
<1>3. PICK f \in [0 .. N -> Seq(Region)] :
         f[0] = <<>> /\ \A n \in 1 .. N : f[n] = round[n][f[n - 1]]
  <2> HIDE DEF N, round
  <2>1. PICK S : S = Seq(Region)
    OBVIOUS
  <2>2. PICK s0 \in S : s0 = <<>>
    BY <1>2, <2>1
  <2>3. Loop(N, S, s0, round)
    <3>1. N \in Nat /\ round \in [1 .. N -> [S -> S]]
      BY <1>0, <1>1, <2>1
    <3> QED BY <3>1, LoopExists
  <2> QED BY <2>1, <2>2, <2>3 DEF Loop
<1>4. /\ \A n \in 0 .. N : n = 0 \/ n \in 1 .. N
      /\ \A n \in 1 .. N : n - 1 \in 0 .. N /\ n \in 0 .. N /\ n # 0
      /\ 0 \in 0 .. N
  BY SMT, <1>0
<1>5. \A n \in 1 .. N : f[n] = Merge(f[n - 1], live[n])
  BY <1>3, <1>4
<1>6. f = Body(f)
  <2>1. \A n \in 0 .. N : f[n] = Body(f)[n]
    BY <1>3, <1>4, <1>5
  <2> QED BY <1>3, <2>1
<1>7. Merging(live) = CHOOSE g : g = Body(g)
  BY DEF Merging
<1>8. Merging(live) = Body(Merging(live))
  <2> HIDE DEF Body
  <2> QED BY <1>6, <1>7
<1> QED
  BY <1>4, <1>8

\* The ranges of a list, their fields and their length.
LEMMA RegionsOf ==
    ASSUME NEW s \in Seq(Region)
    PROVE  /\ Len(s) \in Nat /\ DOMAIN s = 1 .. Len(s)
           /\ \A i \in 1 .. Len(s) : /\ s[i] \in Region
                                     /\ s[i].start \in Nat /\ s[i].end \in Nat
<1>1. Len(s) \in Nat /\ DOMAIN s = 1 .. Len(s) /\ \A i \in 1 .. Len(s) : s[i] \in Region
  BY SMT
<1> QED
  BY <1>1 DEF Region

\* One round keeps the ranges apart and adds the frames of the next range.
LEMMA MergeStep ==
    ASSUME NEW live \in Seq(Region), Sorted(live), NEW n \in 1 .. Len(live),
           NEW out, Joined(live, n - 1, out)
    PROVE  Joined(live, n, Merge(out, live[n]))
<1>l. /\ DOMAIN live = 1 .. Len(live) /\ Len(live) \in Nat
      /\ \A i \in 1 .. Len(live) :
            live[i] \in Region /\ live[i].start \in Nat /\ live[i].end \in Nat
  BY RegionsOf
<1> DEFINE L == Len(out)
<1>o. /\ out \in Seq(Region) /\ L <= n - 1 /\ Apart(out)
      /\ n - 1 > 0 => L > 0 /\ out[L].start <= live[n - 1].start
      /\ \A f \in Int : Among(f, out, L) <=> Among(f, live, n - 1)
  BY DEF Joined
<1>d. /\ DOMAIN out = 1 .. L /\ L \in Nat
      /\ \A i \in 1 .. L :
            out[i] \in Region /\ out[i].start \in Nat /\ out[i].end \in Nat
  BY <1>o, RegionsOf
<1>p. PICK r \in Region : r = live[n]
  BY <1>l
<1>q. r.start \in Nat /\ r.end \in Nat /\ r.start < r.end
  BY <1>l, <1>p DEF Sorted, Nonempty
<1>s. n - 1 > 0 => live[n - 1].start <= r.start
  <2>1. n - 1 > 0 => n - 1 \in DOMAIN live /\ n \in DOMAIN live /\ n - 1 < n
    BY SMT, <1>l
  <2> QED BY <1>p, <2>1 DEF Sorted
<1>n. n \in Nat /\ n - 1 \in Nat /\ n > 0
  BY SMT, <1>l
<1>a. \A f \in Int : Among(f, live, n) <=> Among(f, live, n - 1) \/ f \in Frames(r)
  <2>1. \A i : i \in 1 .. n <=> i \in 1 .. n - 1 \/ i = n
    BY SMT, <1>n
  <2> QED BY <1>p, <2>1 DEF Among
<1> DEFINE new == Merge(out, r)
<1>ap. /\ \A i \in 1 .. L : out[i].start < out[i].end
       /\ \A i, j \in 1 .. L : i < j => out[i].end < out[j].start
  BY <1>o, <1>d DEF Apart, Nonempty
<1>1. CASE out = <<>> \/ out[Len(out)].end < r.start
  <2>1. new = Append(out, r) /\ new \in Seq(Region)
    BY <1>o, <1>1, MergeDef
  <2>2. /\ Len(new) = L + 1 /\ DOMAIN new = 1 .. L + 1 /\ new[L + 1] = r
        /\ \A i \in 1 .. L : new[i] = out[i]
    BY SMT, <1>o, <2>1
  <2> HIDE DEF new
  <2>3. \A i \in 1 .. L : out[i].end < r.start
    <3>1. CASE L = 0
      BY SMT, <3>1
    <3>2. CASE L > 0
      <4>1. out[L].end < r.start /\ L \in 1 .. L
        BY SMT, <1>1, <1>d, <3>2
      <4>2. ASSUME NEW i \in 1 .. L PROVE out[i].end < r.start
        <5>1. i = L \/ i < L
          BY SMT
        <5>2. CASE i < L
          <6>1. out[i].end < out[L].start /\ out[L].start < out[L].end
            BY <1>ap, <4>1, <5>2
          <6> QED BY SMT, <1>d, <1>q, <4>1, <6>1
        <5> QED BY <4>1, <5>1, <5>2
      <4> QED BY <4>2
    <3> QED BY SMT, <1>d, <3>1, <3>2
  <2>4. \A i \in 1 .. L + 1 : i \in 1 .. L \/ i = L + 1
    BY SMT, <1>d
  <2>5. Apart(new)
    <3>1. \A i \in 1 .. L + 1 : Nonempty(new[i])
      BY <1>q, <1>ap, <2>2, <2>4 DEF Nonempty
    <3>2. ASSUME NEW i \in 1 .. L + 1, NEW j \in 1 .. L + 1, i < j
          PROVE  new[i].end < new[j].start
      <4>1. i \in 1 .. L
        BY SMT, <1>d, <3>2
      <4>2. CASE j \in 1 .. L
        BY <1>ap, <2>2, <3>2, <4>1, <4>2
      <4>3. CASE j = L + 1
        BY <2>2, <2>3, <4>1, <4>3
      <4> QED BY <2>4, <4>2, <4>3
    <3> QED BY <2>2, <3>1, <3>2 DEF Apart
  <2>6. \A f \in Int : Among(f, new, L + 1) <=> Among(f, out, L) \/ f \in Frames(r)
    <3>1. \A i : i \in 1 .. L + 1 <=> i \in 1 .. L \/ i = L + 1
      BY SMT, <1>d
    <3> QED BY <2>2, <3>1 DEF Among
  <2>7. Len(new) <= n /\ Len(new) > 0
    BY SMT, <1>o, <1>d, <1>n, <2>2
  <2>8. new[Len(new)].start <= live[n].start
    <3>1. r.start <= r.start
      BY SMT, <1>q
    <3> QED BY <1>p, <2>2, <3>1
  <2> QED
    BY <1>o, <1>p, <1>a, <2>1, <2>2, <2>5, <2>6, <2>7, <2>8 DEF Joined, new
<1>2. CASE out # <<>> /\ out[Len(out)].end >= r.start
  <2>0. L \in 1 .. L /\ L > 0 /\ n - 1 > 0
    BY SMT, <1>o, <1>d, <1>n, <1>2
  <2>1. PICK l \in Region : l = out[L]
    BY <1>d, <2>0
  <2>2. PICK e : e = IF l.end >= r.end THEN l.end ELSE r.end
    OBVIOUS
  <2>3. PICK m : m = [start |-> l.start, end |-> e]
    OBVIOUS
  <2>4. new = [out EXCEPT ![L] = m] /\ new \in Seq(Region)
    BY <1>o, <1>2, <2>1, <2>2, <2>3, MergeDef
  <2>5. /\ Len(new) = L /\ DOMAIN new = 1 .. L /\ new[L] = m
        /\ \A i \in 1 .. L : i # L => new[i] = out[i]
    BY SMT, <1>d, <1>o, <2>0, <2>4
  <2> HIDE DEF new
  <2>6. /\ l.start \in Nat /\ l.end \in Nat /\ e \in Nat /\ l.end >= r.start
        /\ l.start < l.end /\ l.start <= r.start
    <3>1. l.start \in Nat /\ l.end \in Nat /\ l.start < l.end /\ l.end >= r.start
      BY <1>2, <1>d, <1>ap, <2>0, <2>1
    <3>2. n - 1 \in 1 .. Len(live)
      BY SMT, <1>l, <1>n, <2>0
    <3>3. /\ l.start <= live[n - 1].start /\ live[n - 1].start <= r.start
          /\ live[n - 1].start \in Nat
      BY <1>l, <1>o, <1>s, <2>0, <2>1, <3>2
    <3> QED BY SMT, <1>q, <2>2, <3>1, <3>3
  <2>7. m.start = l.start /\ m.end = e
    BY <2>3
  <2>8. \A f \in Int : f \in Frames(m) <=> f \in Frames(l) \/ f \in Frames(r)
    <3>1. \A f \in Int : f \in l.start .. e - 1 <=> \/ f \in l.start .. l.end - 1
                                                   \/ f \in r.start .. r.end - 1
      <4>1. CASE l.end >= r.end
        <5>1. e = l.end
          BY <2>2, <4>1
        <5> QED BY SMT, <1>q, <2>6, <4>1, <5>1
      <4>2. CASE ~(l.end >= r.end)
        <5>1. e = r.end
          BY <2>2, <4>2
        <5> QED BY SMT, <1>q, <2>6, <4>2, <5>1
      <4> QED BY <4>1, <4>2
    <3> QED BY <2>7, <3>1 DEF Frames
  <2>9. l.start < e
    BY SMT, <1>q, <2>2, <2>6
  <2>10. Apart(new)
    <3>1. \A i \in 1 .. L : Nonempty(new[i])
      BY <1>ap, <2>5, <2>7, <2>9 DEF Nonempty
    <3>2. ASSUME NEW i \in 1 .. L, NEW j \in 1 .. L, i < j
          PROVE  new[i].end < new[j].start
      <4>1. i # L /\ new[i] = out[i]
        <5>1. i # L
          BY SMT, <1>d, <3>2
        <5> QED BY <2>5, <5>1
      <4>2. new[j].start = out[j].start
        BY <2>1, <2>5, <2>7
      <4> QED BY <1>ap, <3>2, <4>1, <4>2
    <3> QED BY <2>5, <3>1, <3>2 DEF Apart
  <2>11. \A f \in Int : Among(f, new, L) <=> Among(f, out, L) \/ f \in Frames(r)
    <3> SUFFICES ASSUME NEW f \in Int
                 PROVE  Among(f, new, L) <=> Among(f, out, L) \/ f \in Frames(r)
      OBVIOUS
    <3>1. f \in Frames(new[L]) <=> f \in Frames(out[L]) \/ f \in Frames(r)
      BY <2>1, <2>5, <2>8
    <3> QED BY <2>0, <2>5, <3>1 DEF Among
  <2>12. Len(new) <= n /\ Len(new) > 0
    <3>1. L <= n - 1 /\ L \in Nat /\ L > 0
      BY <1>o, <1>d, <2>0
    <3> HIDE DEF L
    <3>2. L <= n
      BY SMT, <1>n, <3>1
    <3> QED BY <2>5, <3>1, <3>2
  <2>13. new[Len(new)].start <= live[n].start
    BY <1>p, <2>5, <2>6, <2>7
  <2> QED
    BY <1>o, <1>p, <1>a, <2>4, <2>5, <2>10, <2>11, <2>12, <2>13 DEF Joined, new
<1> QED
  <2>1. out # <<>> => out[Len(out)].end \in Nat
    <3>1. out # <<>> => L \in 1 .. L
      BY SMT, <1>o
    <3> QED BY <1>d, <3>1
  <2>2. \/ out = <<>> \/ out[Len(out)].end < r.start
        \/ out # <<>> /\ out[Len(out)].end >= r.start
    BY SMT, <1>q, <2>1
  <2> QED BY <1>1, <1>2, <2>2, <1>p

\* Merging sorted ranges leaves ranges apart with the same frames, no more of
\* them than there were.
LEMMA MergingSpec ==
    ASSUME NEW live \in Seq(Region), Sorted(live)
    PROVE  Joined(live, Len(live), Merging(live)[Len(live)])
<1> DEFINE N == Len(live)
           P == {n \in 0 .. N : Joined(live, n, Merging(live)[n])}
<1>0. N \in Nat /\ 0 \in 0 .. N /\ N \in 0 .. N /\ \A n \in 1 .. N : n \in 0 .. N
  BY SMT
<1>1. 0 \in P
  <2>1. <<>> \in Seq(Region) /\ Len(<<>>) = 0 /\ DOMAIN <<>> = {} /\ ~(0 > 0) /\ 0 <= 0
        /\ 1 .. 0 = {}
    BY SMT
  <2>2. Apart(<<>>)
    BY <2>1 DEF Apart
  <2>3. \A f : ~Among(f, <<>>, 0) /\ ~Among(f, live, 0)
    BY <2>1 DEF Among
  <2>4. Joined(live, 0, <<>>)
    BY <2>1, <2>2, <2>3 DEF Joined
  <2> QED BY <1>0, <2>4, MergingDef
<1>2. ASSUME NEW n \in 1 .. N, n - 1 \in P PROVE n \in P
  <2>1. Joined(live, n - 1, Merging(live)[n - 1])
    BY <1>2
  <2>2. Joined(live, n, Merge(Merging(live)[n - 1], live[n]))
    BY <2>1, MergeStep
  <2> QED BY <1>0, <2>2, MergingDef
<1>3. \A n \in 0 .. N : n \in P
  <2> HIDE DEF P, N
  <2> QED BY <1>0, <1>1, <1>2, InductionTo
<1> QED
  BY <1>0, <1>3

-----------------------------------------------------------------------------
(* Sorting the ranges in use *)

Regions == [Slots -> Region \cup {NoRegion}]

\* The slots, and the ranges in them.
LEMMA UsedSlots ==
    ASSUME NEW regs \in Regions
    PROVE  /\ IsFiniteSet(Slots) /\ Cardinality(Slots) = MaxRegions
           /\ Used(regs) \subseteq Slots /\ LiveSlots(regs) \subseteq Used(regs)
           /\ \A i \in Used(regs) :
                 /\ regs[i] \in Region /\ i \in Nat
                 /\ regs[i].start \in Nat /\ regs[i].end \in Nat
<1>1. MaxRegions \in Int /\ 1 \in Int /\ ~(1 > MaxRegions) /\ MaxRegions - 1 + 1 = MaxRegions
      /\ Slots \subseteq Nat
  BY SMT, FrameAssumption DEF Slots
<1>2. IsFiniteSet(1 .. MaxRegions) /\ Cardinality(1 .. MaxRegions) = MaxRegions
  <2>1. Cardinality(1 .. MaxRegions)
           = IF 1 > MaxRegions THEN 0 ELSE MaxRegions - 1 + 1
    BY <1>1, FS_Interval
  <2> QED BY <1>1, <2>1, FS_Interval
<1>3. \A i \in Used(regs) : regs[i] \in Region /\ i \in Nat
  BY <1>1 DEF Regions, Used
<1>4. \A r \in Region : r.start \in Nat /\ r.end \in Nat
  BY DEF Region
<1> QED
  BY <1>2, <1>3, <1>4 DEF Slots, Used, LiveSlots

\* The sort's order is strict and total.
LEMMA BeforeOrder ==
    ASSUME NEW regs \in Regions,
           NEW i \in Used(regs), NEW j \in Used(regs), NEW k \in Used(regs)
    PROVE  /\ ~Before(regs, i, i)
           /\ Before(regs, i, j) /\ Before(regs, j, k) => Before(regs, i, k)
           /\ i # j => Before(regs, i, j) \/ Before(regs, j, i)
           /\ Before(regs, i, j) => regs[i].start <= regs[j].start
<1>1. /\ i \in Nat /\ j \in Nat /\ k \in Nat
      /\ regs[i].start \in Nat /\ regs[j].start \in Nat /\ regs[k].start \in Nat
  BY UsedSlots
<1> QED
  BY SMT, <1>1 DEF Before

\* The places of the ranges in use are the numbers from 1 up, each once, in
\* the order of their starts.
LEMMA Ranks ==
    ASSUME NEW regs \in Regions
    PROVE  /\ Cardinality(LiveSlots(regs)) \in Nat
           /\ Cardinality(LiveSlots(regs)) <= Cardinality(Used(regs))
           /\ \A i \in LiveSlots(regs) :
                 Rank(regs, i) \in 1 .. Cardinality(LiveSlots(regs))
           /\ \A i, j \in LiveSlots(regs) :
                 Rank(regs, i) < Rank(regs, j) => regs[i].start <= regs[j].start
           /\ \A k \in 1 .. Cardinality(LiveSlots(regs)) :
                 \E i \in LiveSlots(regs) : Rank(regs, i) = k
           /\ \A i, j \in LiveSlots(regs) : Rank(regs, i) = Rank(regs, j) => i = j
<1>s. PICK S : S = LiveSlots(regs)
  OBVIOUS
<1>0. IsFiniteSet(Used(regs)) /\ S \in SUBSET Used(regs)
  BY <1>s, UsedSlots, FS_Subset
<1>1. IsFiniteSet(S) /\ Cardinality(S) \in Nat /\ Cardinality(S) <= Cardinality(Used(regs))
  BY <1>0, FS_Subset, FS_CardinalityType
<1> DEFINE B(i) == {j \in S : Before(regs, j, i)}
           K == Cardinality(S)
<1>2. \A i \in S : Rank(regs, i) = Cardinality(B(i)) + 1
  BY <1>s DEF Rank
<1>3. \A i \in S : IsFiniteSet(B(i)) /\ Cardinality(B(i)) \in Nat
  <2> SUFFICES ASSUME NEW i \in S PROVE IsFiniteSet(B(i)) /\ Cardinality(B(i)) \in Nat
    OBVIOUS
  <2>1. B(i) \in SUBSET S
    OBVIOUS
  <2> QED BY <1>1, <2>1, FS_Subset, FS_CardinalityType
<1>4. ASSUME NEW i \in S PROVE Rank(regs, i) \in 1 .. K
  <2>1. B(i) \in SUBSET S /\ i \notin B(i)
    BY <1>0, BeforeOrder
  <2>2. /\ Cardinality(B(i)) <= Cardinality(S)
        /\ Cardinality(S) = Cardinality(B(i)) => S = B(i)
    <3> HIDE DEF B
    <3> QED BY <1>1, <2>1, FS_Subset
  <2>3. Cardinality(S) # Cardinality(B(i))
    BY <2>1, <2>2
  <2> HIDE DEF B
  <2>4. Cardinality(B(i)) + 1 \in 1 .. K
    BY SMT, <1>1, <1>3, <2>2, <2>3
  <2> QED BY <1>2, <2>4
<1>5. ASSUME NEW i \in S, NEW j \in S, Before(regs, i, j)
      PROVE  Rank(regs, i) < Rank(regs, j)
  <2>1. i \in Used(regs) /\ j \in Used(regs)
    BY <1>0
  <2>2. B(i) \subseteq B(j)
    <3> SUFFICES ASSUME NEW k \in S, Before(regs, k, i) PROVE Before(regs, k, j)
      OBVIOUS
    <3>1. k \in Used(regs)
      BY <1>0
    <3> QED BY <1>5, <2>1, <3>1, BeforeOrder
  <2>3. i \in B(j) /\ i \notin B(i)
    BY <1>5, <2>1, BeforeOrder
  <2>4. B(i) \in SUBSET B(j) /\ B(i) # B(j)
    BY <2>2, <2>3
  <2> HIDE DEF B
  <2>5. /\ Cardinality(B(i)) <= Cardinality(B(j))
        /\ Cardinality(B(j)) # Cardinality(B(i))
    BY <1>3, <2>4, FS_Subset
  <2>6. Cardinality(B(i)) + 1 < Cardinality(B(j)) + 1
    BY SMT, <1>3, <2>5
  <2> QED BY <1>2, <2>6
<1>6. \A i, j \in S : i = j \/ Before(regs, i, j) \/ Before(regs, j, i)
  BY <1>0, BeforeOrder
<1>7. \A i \in S : Rank(regs, i) \in Nat
  <2>1. \A n \in 1 .. K : n \in Nat
    BY SMT, <1>1
  <2> QED BY <1>4, <2>1
<1>8. ASSUME NEW i \in S, NEW j \in S, Rank(regs, i) = Rank(regs, j) PROVE i = j
  <2>1. ~(Rank(regs, i) < Rank(regs, j)) /\ ~(Rank(regs, j) < Rank(regs, i))
    BY SMT, <1>7, <1>8
  <2> QED BY <1>5, <1>6, <2>1
<1>9. ASSUME NEW i \in S, NEW j \in S, Rank(regs, i) < Rank(regs, j)
      PROVE  regs[i].start <= regs[j].start
  <2>1. ~(Rank(regs, j) < Rank(regs, i)) /\ Rank(regs, i) # Rank(regs, j)
    BY SMT, <1>7, <1>9
  <2>2. Before(regs, i, j)
    BY <1>5, <1>6, <2>1
  <2> QED BY <1>0, <2>2, BeforeOrder
<1>10. ASSUME NEW k \in 1 .. K PROVE \E i \in S : Rank(regs, i) = k
  <2>1. PICK rk : rk = [i \in S |-> Rank(regs, i)]
    OBVIOUS
  <2>2. rk \in Injection(S, 1 .. K)
    <3>1. rk \in [S -> 1 .. K]
      BY <1>4, <2>1
    <3>2. \A i, j \in S : rk[i] = rk[j] => i = j
      BY <1>8, <2>1
    <3>3. DOMAIN rk = S
      BY <3>1
    <3> QED BY <3>1, <3>2, <3>3 DEF Injection, IsInjective
  <2>3. IsFiniteSet(1 .. K) /\ Cardinality(1 .. K) = K
    <3>1. K \in Int /\ 1 \in Int /\ (1 > K => K = 0) /\ K - 1 + 1 = K
      BY SMT, <1>1
    <3>2. Cardinality(1 .. K) = IF 1 > K THEN 0 ELSE K - 1 + 1
      BY <3>1, FS_Interval
    <3> QED BY <3>1, <3>2, FS_Interval
  <2>4. rk \in Surjection(S, 1 .. K)
    BY <2>2, <2>3, FS_Injection
  <2>5. \E i \in S : rk[i] = k
    BY <2>4 DEF Surjection
  <2> QED BY <2>1, <2>5
<1> QED
  BY <1>s, <1>1, <1>4, <1>8, <1>9, <1>10

\* A frame is free when a slot in use has it.
LEMMA FreeFramesDef ==
    ASSUME NEW regs, NEW f
    PROVE  f \in FreeFrames(regs) <=> \E i \in Used(regs) : f \in Frames(regs[i])
BY DEF FreeFrames

\* The sorted list has the ranges in use, and no more of them than slots.
LEMMA LiveSpec ==
    ASSUME NEW regs \in Regions
    PROVE  /\ Live(regs) \in Seq(Region) /\ Sorted(Live(regs))
           /\ Len(Live(regs)) = Cardinality(LiveSlots(regs))
           /\ \A f \in Int : Among(f, Live(regs), Len(Live(regs))) <=> f \in FreeFrames(regs)
<1>1. PICK S : S = LiveSlots(regs)
  OBVIOUS
<1>2. PICK K \in Nat : K = Cardinality(S)
  BY <1>1, Ranks
<1>3. PICK slot :
         slot = [k \in 1 .. K |-> CHOOSE i \in LiveSlots(regs) : Rank(regs, i) = k]
  OBVIOUS
<1>4. \A k \in 1 .. K : slot[k] \in S /\ Rank(regs, slot[k]) = k
  <2>1. \A k \in 1 .. K : \E i \in LiveSlots(regs) : Rank(regs, i) = k
    BY <1>1, <1>2, Ranks
  <2> QED BY <1>1, <1>3, <2>1
<1>5. PICK live : live = Live(regs)
  OBVIOUS
<1>6. live = [k \in 1 .. K |-> regs[slot[k]]]
  <2>1. live = [k \in 1 .. K |->
                   regs[CHOOSE i \in LiveSlots(regs) : Rank(regs, i) = k]]
    BY <1>1, <1>2, <1>5 DEF Live
  <2>2. \A k \in 1 .. K : slot[k] = CHOOSE i \in LiveSlots(regs) : Rank(regs, i) = k
    BY <1>3
  <2>3. \A k \in 1 .. K : live[k] = regs[slot[k]]
    BY <2>1, <2>2
  <2> QED BY <2>1, <2>3
<1>7. S \subseteq Used(regs) /\ \A i \in S : regs[i] \in Region /\ regs[i].start < regs[i].end
  <2>1. S \subseteq Used(regs) /\ \A i \in S : regs[i].start < regs[i].end
    BY <1>1 DEF LiveSlots
  <2> QED BY <2>1, UsedSlots
<1>8. \A k \in 1 .. K : live[k] \in Region /\ live[k] = regs[slot[k]]
  BY <1>4, <1>6, <1>7
<1>9. live \in Seq(Region) /\ Len(live) = K /\ DOMAIN live = 1 .. K
  <2>1. live = [k \in 1 .. K |-> live[k]] /\ DOMAIN live = 1 .. K
    BY <1>6
  <2>2. live \in Seq(Region)
    BY SMT, <1>8, <2>1
  <2> QED BY SMT, <2>1, <2>2
<1>10. Sorted(live)
  <2>1. \A i \in 1 .. K : Nonempty(live[i])
    BY <1>4, <1>7, <1>8 DEF Nonempty
  <2>2. ASSUME NEW i \in 1 .. K, NEW j \in 1 .. K, i < j
        PROVE  live[i].start <= live[j].start
    <3>1. Rank(regs, slot[i]) < Rank(regs, slot[j])
      BY <1>4, <2>2
    <3>2. slot[i] \in LiveSlots(regs) /\ slot[j] \in LiveSlots(regs)
      BY <1>1, <1>4
    <3>3. regs[slot[i]].start <= regs[slot[j]].start
      BY <3>1, <3>2, Ranks
    <3> QED BY <1>8, <3>3
  <2> QED BY <1>9, <2>1, <2>2 DEF Sorted
<1>11. ASSUME NEW f \in Int PROVE Among(f, live, K) <=> f \in FreeFrames(regs)
  <2>1. ASSUME NEW k \in 1 .. K, f \in Frames(live[k]) PROVE f \in FreeFrames(regs)
    <3>1. slot[k] \in Used(regs) /\ live[k] = regs[slot[k]]
      BY <1>4, <1>7, <1>8
    <3> QED BY <2>1, <3>1, FreeFramesDef
  <2>2. ASSUME NEW i \in Used(regs), f \in Frames(regs[i])
        PROVE  \E k \in 1 .. K : f \in Frames(live[k])
    <3>1. regs[i].start \in Nat /\ regs[i].end \in Nat
      BY UsedSlots
    <3>2. f \in regs[i].start .. regs[i].end - 1
      BY <2>2 DEF Frames
    <3>3. regs[i].start < regs[i].end
      BY SMT, <3>1, <3>2
    <3>4. i \in S
      BY <1>1, <3>3 DEF LiveSlots
    <3>5. PICK k \in 1 .. K : k = Rank(regs, i)
      BY <1>1, <1>2, <3>4, Ranks
    <3>6. slot[k] \in S /\ Rank(regs, slot[k]) = Rank(regs, i)
      BY <1>4, <3>5
    <3>7. slot[k] = i
      BY <1>1, <3>4, <3>6, Ranks
    <3> QED BY <1>8, <2>2, <3>7
  <2> QED BY <2>1, <2>2, FreeFramesDef DEF Among
<1> QED
  BY <1>1, <1>2, <1>5, <1>9, <1>10, <1>11

\* A list of ranges that are nonempty and neither touch nor overlap.
Tidy(regs) ==
    /\ regs \in Regions
    /\ \A i \in Used(regs) : Nonempty(regs[i])
    /\ \A i, j \in Used(regs) :
          i # j => regs[i].end < regs[j].start \/ regs[j].end < regs[i].start

\* The frames on a list are natural numbers.
LEMMA FreeFramesNat ==
    ASSUME NEW regs \in Regions
    PROVE  FreeFrames(regs) \subseteq Nat
<1> SUFFICES ASSUME NEW f, NEW i \in Used(regs), f \in Frames(regs[i]) PROVE f \in Nat
  BY FreeFramesDef
<1>1. regs[i].start \in Nat /\ regs[i].end \in Nat /\ f \in regs[i].start .. regs[i].end - 1
  BY UsedSlots DEF Frames
<1> QED
  BY SMT, <1>1

\* coalesce tidies a list and keeps its frames.
LEMMA CoalesceSpec ==
    ASSUME NEW regs \in Regions
    PROVE  /\ Tidy(coalesce(regs))
           /\ FreeFrames(coalesce(regs)) = FreeFrames(regs)
<1>1. PICK live : live = Live(regs)
  OBVIOUS
<1>2. PICK out : out = Merging(live)[Len(live)]
  OBVIOUS
<1>3. PICK new : new = coalesce(regs)
  OBVIOUS
<1>4. Joined(live, Len(live), out)
  BY <1>1, <1>2, LiveSpec, MergingSpec
<1>5. /\ out \in Seq(Region) /\ Len(out) <= Len(live) /\ Apart(out)
      /\ \A f \in Int : Among(f, out, Len(out)) <=> f \in FreeFrames(regs)
  BY <1>1, <1>4, LiveSpec DEF Joined
<1>6. /\ Len(out) \in Nat /\ DOMAIN out = 1 .. Len(out)
      /\ \A i \in 1 .. Len(out) : out[i] \in Region /\ out[i].start \in Nat /\ out[i].end \in Nat
  BY <1>5, RegionsOf
<1>7. 1 .. Len(out) \subseteq Slots
  <2>1. Cardinality(LiveSlots(regs)) <= Cardinality(Slots) /\ Cardinality(Slots) = MaxRegions
    <3>1. IsFiniteSet(Slots) /\ LiveSlots(regs) \in SUBSET Slots
      BY UsedSlots
    <3> QED BY <3>1, FS_Subset, UsedSlots
  <2>2. Len(live) <= MaxRegions /\ Len(live) \in Nat
    BY <1>1, <2>1, LiveSpec, Ranks
  <2> QED BY SMT, <1>5, <1>6, <2>2, FrameAssumption DEF Slots
<1>8. new = [i \in Slots |-> IF i \in 1 .. Len(out) THEN out[i] ELSE NoRegion]
  BY <1>1, <1>2, <1>3, <1>6 DEF coalesce
<1>9. NoRegion \notin Region
  BY FrameAssumption DEF Region
<1>10. new \in Regions /\ Used(new) = 1 .. Len(out)
  BY <1>6, <1>7, <1>8, <1>9 DEF Regions, Used
<1>11. \A i \in Used(new) : new[i] = out[i]
  BY <1>7, <1>8, <1>10
<1>12. Tidy(new)
  <2>1. \A i \in Used(new) : Nonempty(new[i])
    BY <1>5, <1>6, <1>10, <1>11 DEF Apart
  <2>2. ASSUME NEW i \in Used(new), NEW j \in Used(new), i # j
        PROVE  new[i].end < new[j].start \/ new[j].end < new[i].start
    <3>1. i < j \/ j < i
      BY SMT, <1>10, <2>2
    <3> QED BY <1>5, <1>6, <1>10, <1>11, <3>1 DEF Apart
  <2> QED BY <1>10, <2>1, <2>2 DEF Tidy
<1>13. \A f \in Int : f \in FreeFrames(new) <=> f \in FreeFrames(regs)
  BY <1>5, <1>10, <1>11, FreeFramesDef DEF Among
<1>14. FreeFrames(new) \subseteq Nat /\ FreeFrames(regs) \subseteq Nat
  BY <1>10, FreeFramesNat
<1>15. FreeFrames(new) = FreeFrames(regs)
  <2>1. \A f \in Nat : f \in Int
    BY SMT
  <2> QED BY <1>13, <1>14, <2>1
<1> QED
  BY <1>3, <1>12, <1>15

-----------------------------------------------------------------------------
(* The operations on a tidy list *)

\* List new is list regs with x in slot i.
Writes(regs, i, x, new) == new = [regs EXCEPT ![i] = x]

Written(regs, i, x, new) ==
    /\ new \in Regions /\ new[i] = x
    /\ \A j \in Slots : j # i => new[j] = regs[j]
    /\ Used(new) = (Used(regs) \ {i}) \cup (IF x = NoRegion THEN {} ELSE {i})
    /\ \A f : f \in FreeFrames(new) <=>
                 \/ x # NoRegion /\ f \in Frames(x)
                 \/ \E j \in Used(regs) \ {i} : f \in Frames(regs[j])

\* What writing one slot does.
LEMMA ReplaceSlot ==
    ASSUME NEW regs \in Regions, NEW i \in Slots, NEW x \in Region \cup {NoRegion},
           NEW new, Writes(regs, i, x, new)
    PROVE  Written(regs, i, x, new)
<1>1. /\ new \in Regions /\ new[i] = x
      /\ \A j \in Slots : j # i => new[j] = regs[j]
  BY DEF Regions, Writes
<1>2. Used(new) = (Used(regs) \ {i}) \cup (IF x = NoRegion THEN {} ELSE {i})
  BY <1>1 DEF Used
<1>3. Used(regs) \subseteq Slots
  BY DEF Used
<1>4. ASSUME NEW f
      PROVE  f \in FreeFrames(new) <=>
                 \/ x # NoRegion /\ f \in Frames(x)
                 \/ \E j \in Used(regs) \ {i} : f \in Frames(regs[j])
  <2>1. \A j \in Used(regs) \ {i} : new[j] = regs[j] /\ j \in Used(new)
    BY <1>1, <1>2, <1>3
  <2>2. \A j \in Used(new) : (j = i /\ x # NoRegion) \/ j \in Used(regs) \ {i}
    BY <1>2
  <2>3. x # NoRegion => i \in Used(new)
    BY <1>2
  <2> QED BY <1>1, <2>1, <2>2, <2>3, FreeFramesDef
<1> QED
  BY <1>1, <1>2, <1>4 DEF Written

\* The least of a set of natural numbers.
LEMMA MinOfNat ==
    ASSUME NEW S \in SUBSET Nat, S # {}
    PROVE  Min(S) \in S /\ \A n \in S : Min(S) <= n
<1>1. \E m \in S : \A n \in S : m <= n
  BY LeastExists
<1> QED
  BY <1>1 DEF Min

\* The ranges of a tidy list as intervals.
LEMMA TidyRanges ==
    ASSUME NEW regs, Tidy(regs)
    PROVE  /\ regs \in Regions
           /\ \A i \in Used(regs) :
                 /\ i \in Slots /\ i \in Nat /\ regs[i] \in Region
                 /\ regs[i].start \in Nat /\ regs[i].end \in Nat
                 /\ regs[i].start < regs[i].end
                 /\ \A f : f \in Frames(regs[i]) <=>
                              f \in Int /\ regs[i].start <= f /\ f < regs[i].end
           /\ \A i, j \in Used(regs) :
                 i # j => regs[i].end < regs[j].start \/ regs[j].end < regs[i].start
<1>1. regs \in Regions
  BY DEF Tidy
<1>2. ASSUME NEW i \in Used(regs)
      PROVE  /\ i \in Slots /\ i \in Nat /\ regs[i] \in Region
             /\ regs[i].start \in Nat /\ regs[i].end \in Nat
  BY <1>1, UsedSlots
<1>3. ASSUME NEW i \in Used(regs), NEW f
      PROVE  f \in Frames(regs[i]) <=>
                  f \in Int /\ regs[i].start <= f /\ f < regs[i].end
  <2>1. PICK a \in Nat : a = regs[i].start
    BY <1>2
  <2>2. PICK b \in Nat : b = regs[i].end
    BY <1>2
  <2>3. f \in a .. b - 1 <=> f \in Int /\ a <= f /\ f < b
    BY SMT
  <2> QED BY <2>1, <2>2, <2>3 DEF Frames
<1> QED
  BY <1>1, <1>2, <1>3 DEF Tidy, Nonempty

\* List new is list regs without the first frame f of the range in slot i,
\* the lowest.
TakesFirst(regs, i, f, new) ==
    /\ \A j \in Used(regs) : regs[i].start <= regs[j].start
    /\ f = regs[i].start
    /\ new = IF f + 1 >= regs[i].end THEN [regs EXCEPT ![i] = NoRegion]
             ELSE [regs EXCEPT ![i] = [start |-> f + 1, end |-> regs[i].end]]

Taken(regs, f, new) ==
    /\ Tidy(new)
    /\ f \in FreeFrames(regs)
    /\ \A g \in FreeFrames(regs) : f <= g
    /\ FreeFrames(new) = FreeFrames(regs) \ {f}
    /\ f + 1 \in FreeFrames(new) \/ Used(new) # Slots

\* A tidy list stays tidy and loses exactly that frame.
LEMMA TakeFirst ==
    ASSUME NEW regs, Tidy(regs), NEW i \in Used(regs), NEW f, NEW new,
           TakesFirst(regs, i, f, new)
    PROVE  Taken(regs, f, new)
<1>a. /\ \A j \in Used(regs) : regs[i].start <= regs[j].start
      /\ f = regs[i].start
      /\ new = IF f + 1 >= regs[i].end THEN [regs EXCEPT ![i] = NoRegion]
               ELSE [regs EXCEPT ![i] = [start |-> f + 1, end |-> regs[i].end]]
  BY DEF TakesFirst
<1>t. /\ regs \in Regions
      /\ \A j \in Used(regs) :
            /\ j \in Slots /\ j \in Nat /\ regs[j] \in Region
            /\ regs[j].start \in Nat /\ regs[j].end \in Nat
            /\ regs[j].start < regs[j].end
            /\ \A g : g \in Frames(regs[j]) <=>
                         g \in Int /\ regs[j].start <= g /\ g < regs[j].end
      /\ \A j, k \in Used(regs) :
            j # k => regs[j].end < regs[k].start \/ regs[k].end < regs[j].start
  BY TidyRanges
<1>e. PICK e \in Nat : e = regs[i].end
  BY <1>t
<1>f. f \in Nat /\ f < e /\ f + 1 \in Nat
  <2>1. f \in Nat /\ f < e
    BY <1>a, <1>e, <1>t
  <2> QED BY SMT, <2>1
<1>i. \A g : g \in Frames(regs[i]) <=> g \in Int /\ f <= g /\ g < e
  BY <1>a, <1>e, <1>t
<1>o. \A j \in Used(regs) : j # i => e < regs[j].start
  <2> SUFFICES ASSUME NEW j \in Used(regs), j # i PROVE e < regs[j].start
    OBVIOUS
  <2>1. PICK a \in Nat : a = regs[j].start
    BY <1>t
  <2>2. PICK b \in Nat : b = regs[j].end
    BY <1>t
  <2>3. f <= a /\ a < b /\ (e < a \/ b < f)
    BY <1>a, <1>e, <1>t, <2>1, <2>2
  <2>4. e < a
    BY SMT, <1>f, <2>3
  <2> QED BY <2>1, <2>4
<1>1. f \in FreeFrames(regs)
  <2>1. f \in Int /\ f <= f
    BY SMT, <1>f
  <2>2. f \in Frames(regs[i])
    BY <1>f, <1>i, <2>1
  <2> QED BY <2>2, FreeFramesDef
<1>g. \A j \in Used(regs) : j # i => \A g : g \in Frames(regs[j]) => g \in Int /\ e < g
  <2> SUFFICES ASSUME NEW j \in Used(regs), j # i, NEW g, g \in Frames(regs[j])
               PROVE  g \in Int /\ e < g
    OBVIOUS
  <2>1. g \in Int /\ regs[j].start <= g /\ e < regs[j].start /\ regs[j].start \in Nat
    BY <1>o, <1>t
  <2> QED BY SMT, <2>1
<1>2. \A g \in FreeFrames(regs) : f <= g
  <2> SUFFICES ASSUME NEW g, NEW j \in Used(regs), g \in Frames(regs[j]) PROVE f <= g
    BY FreeFramesDef
  <2>1. CASE j = i
    BY <1>i, <2>1
  <2>2. CASE j # i
    <3>1. g \in Int /\ e < g
      BY <1>g, <2>2
    <3> QED BY SMT, <1>f, <3>1
  <2> QED BY <2>1, <2>2
<1>n. NoRegion \notin Region
  BY FrameAssumption DEF Region
<1>3. CASE f + 1 >= e
  <2>1. new = [regs EXCEPT ![i] = NoRegion]
    BY <1>a, <1>e, <1>3
  <2>2. i \in Slots /\ NoRegion \in Region \cup {NoRegion}
    BY <1>t
  <2>3. /\ new \in Regions /\ new[i] = NoRegion
        /\ \A j \in Slots : j # i => new[j] = regs[j]
        /\ Used(new) = Used(regs) \ {i}
        /\ \A g : g \in FreeFrames(new) <=> \E j \in Used(regs) \ {i} : g \in Frames(regs[j])
    <3>1. Written(regs, i, NoRegion, new)
      BY <1>t, <2>1, <2>2, ReplaceSlot DEF Writes
    <3> QED BY <3>1 DEF Written
  <2>4. Tidy(new)
    BY <1>t, <2>3 DEF Tidy, Nonempty
  <2>5. \A g : g \in Frames(regs[i]) <=> g = f
    <3>1. \A g : (g \in Int /\ f <= g /\ g < e) <=> g = f
      BY SMT, <1>3, <1>f
    <3> QED BY <1>i, <3>1
  <2>6. ~(e < f)
    BY SMT, <1>f
  <2>7. FreeFrames(new) = FreeFrames(regs) \ {f}
    BY <1>g, <2>3, <2>5, <2>6, FreeFramesDef
  <2>8. Used(new) # Slots
    BY <2>2, <2>3
  <2> QED BY <1>1, <1>2, <2>4, <2>7, <2>8 DEF Taken
<1>4. CASE ~(f + 1 >= e)
  <2>0. PICK x : x = [start |-> f + 1, end |-> e]
    OBVIOUS
  <2>1. new = [regs EXCEPT ![i] = x]
    BY <1>a, <1>e, <1>4, <2>0
  <2>2. i \in Slots /\ x \in Region /\ x.start = f + 1 /\ x.end = e
    BY <1>t, <1>f, <2>0 DEF Region
  <2>3. /\ new \in Regions /\ new[i] = x
        /\ \A j \in Slots : j # i => new[j] = regs[j]
        /\ Used(new) = Used(regs)
        /\ \A g : g \in FreeFrames(new) <=>
                     \/ g \in Frames(x)
                     \/ \E j \in Used(regs) \ {i} : g \in Frames(regs[j])
    <3>1. Written(regs, i, x, new) /\ x # NoRegion
      BY <1>t, <1>n, <2>1, <2>2, ReplaceSlot DEF Writes
    <3> QED BY <3>1 DEF Written
  <2>4. f + 1 < e
    BY SMT, <1>f, <1>4
  <2>5. Tidy(new)
    <3>1. \A j \in Used(new) : new[j].start < new[j].end
      BY <1>t, <2>2, <2>3, <2>4
    <3>2. ASSUME NEW j \in Used(new), NEW k \in Used(new), j # k
          PROVE  new[j].end < new[k].start \/ new[k].end < new[j].start
      <4>1. CASE j = i
        BY <1>o, <1>t, <2>2, <2>3, <3>2, <4>1
      <4>2. CASE k = i
        BY <1>o, <1>t, <2>2, <2>3, <3>2, <4>2
      <4>3. CASE j # i /\ k # i
        BY <1>t, <2>3, <3>2, <4>3
      <4> QED BY <4>1, <4>2, <4>3
    <3> QED BY <2>3, <3>1, <3>2 DEF Tidy, Nonempty
  <2>6. \A g : g \in Frames(x) <=> g \in Frames(regs[i]) /\ g # f
    <3>1. \A g : g \in f + 1 .. e - 1 <=> (g \in Int /\ f <= g /\ g < e) /\ g # f
      BY SMT, <1>f
    <3> QED BY <1>i, <2>2, <3>1 DEF Frames
  <2>7. ~(e < f)
    BY SMT, <1>f
  <2>8. FreeFrames(new) = FreeFrames(regs) \ {f}
    BY <1>g, <2>3, <2>6, <2>7, FreeFramesDef
  <2>9. f + 1 \in FreeFrames(new)
    <3>1. f + 1 \in f + 1 .. e - 1
      BY SMT, <1>f, <2>4
    <3> QED BY <2>2, <2>3, <3>1 DEF Frames
  <2> QED BY <1>1, <1>2, <2>5, <2>8, <2>9 DEF Taken
<1> QED
  BY <1>3, <1>4

\* alloc takes the lowest frame of a tidy list and leaves the others.
LEMMA AllocSpec ==
    ASSUME NEW regs, Tidy(regs)
    PROVE  /\ Used(regs) = {} =>
                 alloc(regs).frame = NoFrame /\ alloc(regs).regs = regs
                 /\ FreeFrames(regs) = {}
           /\ Used(regs) # {} =>
                 Taken(regs, alloc(regs).frame, alloc(regs).regs)
<1>1. CASE Used(regs) = {}
  <2>1. alloc(regs) = [frame |-> NoFrame, regs |-> regs]
    BY <1>1 DEF alloc
  <2>2. alloc(regs).frame = NoFrame /\ alloc(regs).regs = regs
    BY SMT, <2>1
  <2>3. FreeFrames(regs) = {}
    BY <1>1, FreeFramesDef
  <2> QED BY <1>1, <2>2, <2>3
<1>2. CASE Used(regs) # {}
  <2>t. /\ regs \in Regions
        /\ \A j \in Used(regs) :
              /\ j \in Slots /\ j \in Nat /\ regs[j] \in Region
              /\ regs[j].start \in Nat /\ regs[j].end \in Nat
              /\ regs[j].start < regs[j].end
        /\ \A j, k \in Used(regs) :
              j # k => regs[j].end < regs[k].start \/ regs[k].end < regs[j].start
    BY TidyRanges
  <2> DEFINE starts == {regs[j].start : j \in Used(regs)}
             Lowest(i) == \A j \in Used(regs) :
                             \/ regs[i].start < regs[j].start
                             \/ regs[i].start = regs[j].start /\ i <= j
  <2>1. PICK m \in starts : \A n \in starts : m <= n
    <3>1. starts \in SUBSET Nat /\ starts # {}
      BY <1>2, <2>t
    <3> HIDE DEF starts
    <3> QED BY <3>1, LeastExists
  <2>2. PICK i \in Used(regs) : regs[i].start = m
    BY <2>1
  <2>3. Lowest(i)
    <3> SUFFICES ASSUME NEW j \in Used(regs)
                 PROVE  \/ regs[i].start < regs[j].start
                        \/ regs[i].start = regs[j].start /\ i <= j
      OBVIOUS
    <3>1. CASE j = i
      <4>1. i <= i
        BY SMT, <2>t
      <4> QED BY <3>1, <4>1
    <3>2. CASE j # i
      <4>1. /\ regs[i].start <= regs[j].start
            /\ regs[i].end < regs[j].start \/ regs[j].end < regs[i].start
            /\ regs[i].start < regs[i].end /\ regs[j].start < regs[j].end
            /\ regs[i].start \in Nat /\ regs[i].end \in Nat
            /\ regs[j].start \in Nat /\ regs[j].end \in Nat
        BY <2>1, <2>2, <2>t, <3>2
      <4> QED BY SMT, <4>1
    <3> QED BY <3>1, <3>2
  <2>4. PICK b : b = BestSlot(regs)
    OBVIOUS
  <2>5. b \in Used(regs) /\ Lowest(b)
    BY <2>3, <2>4 DEF BestSlot
  <2>6. \A j \in Used(regs) : regs[b].start <= regs[j].start
    <3> SUFFICES ASSUME NEW j \in Used(regs) PROVE regs[b].start <= regs[j].start
      OBVIOUS
    <3>1. regs[b].start < regs[j].start \/ regs[b].start = regs[j].start
      BY <2>5
    <3>2. regs[b].start \in Nat /\ regs[j].start \in Nat
      BY <2>5, <2>t
    <3> QED BY SMT, <3>1, <3>2
  <2>7. PICK f : f = regs[b].start
    OBVIOUS
  <2>8. [regs[b] EXCEPT !.start = f + 1] = [start |-> f + 1, end |-> regs[b].end]
    <3>1. regs[b] \in [start : Nat, end : Nat]
      BY <2>5, <2>t DEF Region
    <3> QED BY SMT, <3>1
  <2>9. [regs EXCEPT ![b].start = f + 1]
           = [regs EXCEPT ![b] = [start |-> f + 1, end |-> regs[b].end]]
    BY <2>8
  <2>10. [regs EXCEPT ![b].start = @ + 1] = [regs EXCEPT ![b].start = f + 1]
    BY <2>7
  <2>11. PICK new : new = IF f + 1 >= regs[b].end THEN [regs EXCEPT ![b] = NoRegion]
               ELSE [regs EXCEPT ![b] = [start |-> f + 1, end |-> regs[b].end]]
    OBVIOUS
  <2>12. alloc(regs) = [frame |-> f, regs |-> new]
    BY <1>2, <2>4, <2>7, <2>9, <2>10, <2>11 DEF alloc
  <2>13. alloc(regs).frame = f /\ alloc(regs).regs = new
    BY SMT, <2>12
  <2>14. Taken(regs, f, new)
    <3>1. TakesFirst(regs, b, f, new)
      BY <2>6, <2>7, <2>11 DEF TakesFirst
    <3> QED BY <2>5, <3>1, TakeFirst
  <2> QED BY <1>2, <2>13, <2>14
<1> QED
  BY <1>1, <1>2

\* In a full tidy list every range starts one run of adjacent free frames.
LEMMA FullListRuns ==
    ASSUME NEW regs, Tidy(regs), Used(regs) = Slots
    PROVE  Cardinality(Pool!RunStarts(FreeFrames(regs))) = MaxRegions
<1>t. /\ regs \in Regions
      /\ \A i \in Slots :
            /\ regs[i].start \in Nat /\ regs[i].end \in Nat
            /\ regs[i].start < regs[i].end
            /\ \A f : f \in Frames(regs[i]) <=>
                         f \in Int /\ regs[i].start <= f /\ f < regs[i].end
      /\ \A i, j \in Slots :
            i # j => regs[i].end < regs[j].start \/ regs[j].end < regs[i].start
  BY TidyRanges
<1>1. PICK R : R = Pool!RunStarts(FreeFrames(regs))
  OBVIOUS
<1>2. \A f : f \in R <=> f \in FreeFrames(regs) /\ f - 1 \notin FreeFrames(regs)
  BY <1>1 DEF Pool!RunStarts
<1>3. PICK first : first = [i \in Slots |-> regs[i].start]
  OBVIOUS
<1>4. ASSUME NEW i \in Slots PROVE first[i] \in R
  <2>1. PICK a \in Nat : a = regs[i].start
    BY <1>t
  <2>2. PICK b \in Nat : b = regs[i].end
    BY <1>t
  <2>3. a < b /\ a \in Int /\ a <= a
    BY SMT, <1>t, <2>1, <2>2
  <2>4. a \in FreeFrames(regs)
    BY <1>t, <2>1, <2>2, <2>3, FreeFramesDef
  <2>5. ASSUME NEW j \in Slots, a - 1 \in Frames(regs[j]) PROVE FALSE
    <3>1. PICK c \in Nat : c = regs[j].start
      BY <1>t
    <3>2. PICK d \in Nat : d = regs[j].end
      BY <1>t
    <3>3. c <= a - 1 /\ a - 1 < d /\ c < d
      BY <1>t, <2>5, <3>1, <3>2
    <3>4. j # i
      BY SMT, <2>1, <3>1, <3>3
    <3>5. b < c \/ d < a
      BY <1>t, <2>1, <2>2, <3>1, <3>2, <3>4
    <3> QED BY SMT, <2>3, <3>3, <3>5
  <2>6. a - 1 \notin FreeFrames(regs)
    BY <2>5, FreeFramesDef
  <2> QED BY <1>2, <1>3, <2>1, <2>4, <2>6
<1>5. ASSUME NEW i \in Slots, NEW j \in Slots, first[i] = first[j] PROVE i = j
  <2> SUFFICES ASSUME i # j PROVE FALSE
    OBVIOUS
  <2>1. /\ regs[i].start = regs[j].start
        /\ regs[i].end < regs[j].start \/ regs[j].end < regs[i].start
        /\ regs[i].start < regs[i].end /\ regs[j].start < regs[j].end
        /\ regs[i].start \in Nat /\ regs[i].end \in Nat
        /\ regs[j].start \in Nat /\ regs[j].end \in Nat
    BY <1>3, <1>5, <1>t
  <2> QED BY SMT, <2>1
<1>6. ASSUME NEW f \in R PROVE \E i \in Slots : first[i] = f
  <2>1. PICK i \in Slots : f \in Frames(regs[i])
    BY <1>2, FreeFramesDef
  <2>2. PICK a \in Nat : a = regs[i].start
    BY <1>t
  <2>3. PICK b \in Nat : b = regs[i].end
    BY <1>t
  <2>4. f \in Int /\ a <= f /\ f < b
    BY <1>t, <2>1, <2>2, <2>3
  <2>5. f - 1 \notin Frames(regs[i])
    BY <1>2, FreeFramesDef
  <2>6. ~(f - 1 \in Int /\ a <= f - 1 /\ f - 1 < b)
    BY <1>t, <2>2, <2>3, <2>5
  <2>7. f = a
    BY SMT, <2>4, <2>6
  <2> QED BY <1>3, <2>2, <2>7
<1>7. first \in Bijection(Slots, R)
  <2>1. first \in [Slots -> R]
    BY <1>3, <1>4
  <2>2. DOMAIN first = Slots
    BY <2>1
  <2>3. first \in Injection(Slots, R)
    BY <1>5, <2>1, <2>2 DEF Injection, IsInjective
  <2>4. first \in Surjection(Slots, R)
    BY <1>6, <2>1 DEF Surjection
  <2> QED BY <2>3, <2>4 DEF Bijection
<1>8. IsFiniteSet(Slots) /\ Cardinality(Slots) = MaxRegions
  BY <1>t, UsedSlots
<1>9. Cardinality(R) = Cardinality(Slots)
  <2>1. ExistsBijection(Slots, R)
    BY <1>7 DEF ExistsBijection
  <2> QED BY <1>8, <2>1, FS_Bijection
<1> QED
  BY <1>1, <1>8, <1>9

\* A frame that touches no range cannot be next to a free frame.
LEMMA NoNeighbour ==
    ASSUME NEW regs, Tidy(regs), NEW f \in Nat, f \notin FreeFrames(regs),
           Extends(regs, f) = {}
    PROVE  f - 1 \notin FreeFrames(regs) /\ f + 1 \notin FreeFrames(regs)
<1>0. \A i \in Used(regs) : regs[i].end # f /\ regs[i].start # f + 1
  BY DEF Extends
<1>1. ASSUME NEW i \in Used(regs) PROVE f - 1 \notin Frames(regs[i]) /\ f + 1 \notin Frames(regs[i])
  <2>1. PICK a \in Nat : a = regs[i].start
    BY TidyRanges
  <2>2. PICK b \in Nat : b = regs[i].end
    BY TidyRanges
  <2>3. /\ a < b
        /\ \A g : g \in Frames(regs[i]) <=> g \in Int /\ a <= g /\ g < b
    BY <2>1, <2>2, TidyRanges
  <2>4. ~(f \in Int /\ a <= f /\ f < b)
    BY <2>3, FreeFramesDef
  <2>5. b # f /\ a # f + 1
    BY <1>0, <2>1, <2>2
  <2>6. ~(a <= f - 1 /\ f - 1 < b) /\ ~(a <= f + 1 /\ f + 1 < b)
    BY SMT, <2>3, <2>4, <2>5
  <2> QED BY <2>3, <2>6
<1> QED
  BY <1>1, FreeFramesDef

\* free keeps the list tidy and adds the frame.  Only with every slot taken and
\* no free frame next to it is the frame dropped.
LEMMA FreeSpec ==
    ASSUME NEW regs, Tidy(regs), NEW f \in Nat, f \notin FreeFrames(regs)
    PROVE  /\ Tidy(free(regs, f))
           /\ \/ FreeFrames(free(regs, f)) = FreeFrames(regs) \cup {f}
              \/ /\ FreeFrames(free(regs, f)) = FreeFrames(regs)
                 /\ Used(regs) = Slots
                 /\ f - 1 \notin FreeFrames(regs) /\ f + 1 \notin FreeFrames(regs)
<1>t. /\ regs \in Regions
      /\ \A i \in Used(regs) :
            /\ i \in Slots /\ i \in Nat /\ regs[i] \in Region
            /\ regs[i].start \in Nat /\ regs[i].end \in Nat
            /\ regs[i].start < regs[i].end
            /\ \A g : g \in Frames(regs[i]) <=>
                         g \in Int /\ regs[i].start <= g /\ g < regs[i].end
  BY TidyRanges
<1>n. NoRegion \notin Region
  BY FrameAssumption DEF Region
<1>u. Used(regs) \subseteq Slots /\ Slots \subseteq Nat
  BY SMT, FrameAssumption DEF Used, Slots
<1>f. f \in Int /\ f + 1 \in Nat /\ f <= f + 1 /\ ~(f >= f + 1)
  BY SMT
<1>1. CASE Extends(regs, f) # {}
  <2>1. PICK i : i = Min(Extends(regs, f))
    OBVIOUS
  <2>2. i \in Used(regs) /\ (regs[i].end = f \/ regs[i].start = f + 1)
    <3>1. Extends(regs, f) \in SUBSET Nat
      BY <1>u DEF Extends
    <3>2. i \in Extends(regs, f)
      BY <1>1, <2>1, <3>1, MinOfNat
    <3> QED BY <3>2 DEF Extends
  <2>3. PICK a \in Nat : a = regs[i].start
    BY <1>t, <2>2
  <2>4. PICK b \in Nat : b = regs[i].end
    BY <1>t, <2>2
  <2>5. PICK x : x = Extended(regs[i], f)
    OBVIOUS
  <2>6. /\ x \in Region
        /\ x.start = IF b = f THEN a ELSE f
        /\ x.end = IF b = f THEN f + 1 ELSE b
    <3>1. regs[i] \in [start : Nat, end : Nat]
      BY <1>t, <2>2 DEF Region
    <3> QED BY SMT, <1>f, <2>3, <2>4, <2>5, <3>1 DEF Extended, Region
  <2>7. \A g : g \in Frames(x) <=> g \in Frames(regs[i]) \/ g = f
    <3>1. a < b /\ \A g : g \in Frames(regs[i]) <=> g \in Int /\ a <= g /\ g < b
      BY <1>t, <2>2, <2>3, <2>4
    <3>2. CASE b = f
      <4>1. \A g : g \in a .. (f + 1) - 1 <=> (g \in Int /\ a <= g /\ g < b) \/ g = f
        BY SMT, <3>1, <3>2
      <4> QED BY <2>6, <3>1, <3>2, <4>1 DEF Frames
    <3>3. CASE b # f
      <4>1. a = f + 1
        BY <2>2, <2>3, <2>4, <3>3
      <4>2. \A g : g \in f .. b - 1 <=> (g \in Int /\ a <= g /\ g < b) \/ g = f
        BY SMT, <3>1, <4>1
      <4> QED BY <2>6, <3>1, <3>3, <4>2 DEF Frames
    <3> QED BY <3>2, <3>3
  <2>8. PICK new : new = [regs EXCEPT ![i] = x]
    OBVIOUS
  <2>9. Written(regs, i, x, new)
    BY <1>t, <2>2, <2>6, <2>8, ReplaceSlot DEF Writes
  <2>10. new \in Regions /\ FreeFrames(new) = FreeFrames(regs) \cup {f}
    BY <1>n, <2>2, <2>6, <2>7, <2>9, FreeFramesDef DEF Written
  <2>11. free(regs, f) = coalesce(new)
    BY <1>1, <2>1, <2>5, <2>8 DEF free
  <2> QED BY <2>10, <2>11, CoalesceSpec
<1>2. CASE Extends(regs, f) = {}
  <2>1. PICK r : r = [start |-> f, end |-> f + 1]
    OBVIOUS
  <2>2. r \in Region /\ r.start = f /\ r.end = f + 1
    BY <1>f, <2>1 DEF Region
  <2>3. free(regs, f) = coalesce(add_region(regs, r))
    BY <1>2, <2>1 DEF free
  <2>4. CASE Slots \ Used(regs) = {}
    <3>1. add_region(regs, r) = regs
      BY <2>4 DEF add_region
    <3>2. Used(regs) = Slots
      BY <1>u, <2>4
    <3> QED BY <1>2, <1>t, <2>3, <3>1, <3>2, NoNeighbour, CoalesceSpec
  <2>5. CASE Slots \ Used(regs) # {}
    <3>1. PICK i : i = Min(Slots \ Used(regs))
      OBVIOUS
    <3>2. i \in Slots /\ i \notin Used(regs)
      <4>1. Slots \ Used(regs) \in SUBSET Nat
        BY <1>u
      <4>2. i \in Slots \ Used(regs)
        BY <2>5, <3>1, <4>1, MinOfNat
      <4> QED BY <4>2
    <3>3. PICK new : new = [regs EXCEPT ![i] = r]
      OBVIOUS
    <3>4. add_region(regs, r) = new
      BY <1>f, <2>2, <2>5, <3>1, <3>3 DEF add_region
    <3>5. Written(regs, i, r, new)
      BY <1>t, <2>2, <3>2, <3>3, ReplaceSlot DEF Writes
    <3>6. \A g : g \in Frames(r) <=> g = f
      <4>1. \A g : g \in f .. (f + 1) - 1 <=> g = f
        BY SMT
      <4> QED BY <2>2, <4>1 DEF Frames
    <3>7. new \in Regions /\ FreeFrames(new) = FreeFrames(regs) \cup {f}
      <4>1. Used(regs) \ {i} = Used(regs) /\ r # NoRegion
        BY <1>n, <2>2, <3>2
      <4>2. \A g : g \in FreeFrames(new) <=>
                     g = f \/ \E j \in Used(regs) : g \in Frames(regs[j])
        BY <3>5, <3>6, <4>1 DEF Written
      <4>3. \A g : g \in FreeFrames(new) <=> g = f \/ g \in FreeFrames(regs)
        BY <4>2, FreeFramesDef
      <4> QED BY <3>5, <4>3 DEF Written
    <3> QED BY <2>3, <3>4, <3>7, CoalesceSpec
  <2> QED BY <2>4, <2>5
<1> QED
  BY <1>1, <1>2

-----------------------------------------------------------------------------
(* The list made from the memory map *)

Entry == [base : Nat, length : Nat, usable : BOOLEAN]

\* A quotient is the number of whole pages.
LEMMA Quotient ==
    ASSUME NEW a \in Nat, NEW f \in Nat
    PROVE  /\ a \div PageSize \in Nat
           /\ f < a \div PageSize <=> (f + 1) * PageSize <= a
<1>1. PICK p \in Nat \ {0} : p = PageSize
  BY FrameAssumption
<1>2. PICK q : q = a \div p
  OBVIOUS
<1>3. q \in Nat /\ q * p <= a /\ a < (q + 1) * p
  BY SMT, <1>2
<1>4. ASSUME NEW x \in Nat, NEW y \in Nat, x <= y PROVE x * p <= y * p
  <2>1. PICK d \in Nat : y = x + d
    <3>1. y - x \in Nat /\ y = x + (y - x)
      BY SMT, <1>4
    <3> QED BY <3>1
  <2>2. d * p \in Nat /\ y * p = x * p + d * p /\ x * p \in Nat
    BY SMT, <2>1
  <2> QED BY SMT, <2>2
<1>5. ASSUME f < q PROVE (f + 1) * p <= a
  <2>1. f + 1 \in Nat /\ f + 1 <= q
    BY SMT, <1>3, <1>5
  <2>2. (f + 1) * p <= q * p
    BY <1>3, <1>4, <2>1
  <2>3. (f + 1) * p \in Nat /\ q * p \in Nat
    BY SMT, <1>3
  <2> QED BY SMT, <1>3, <2>2, <2>3
<1>6. ASSUME ~(f < q) PROVE ~((f + 1) * p <= a)
  <2>1. f + 1 \in Nat /\ q + 1 \in Nat /\ q + 1 <= f + 1
    BY SMT, <1>3, <1>6
  <2>2. (q + 1) * p <= (f + 1) * p
    BY <1>4, <2>1
  <2>3. (f + 1) * p \in Nat /\ (q + 1) * p \in Nat
    BY SMT, <1>3
  <2> QED BY SMT, <1>3, <2>2, <2>3
<1> QED
  BY <1>1, <1>2, <1>3, <1>5, <1>6

\* The range of an entry has the frames all of whose bytes it covers.
LEMMA EntryFrames ==
    ASSUME NEW e \in Entry
    PROVE  /\ EntryRegion(e) \in Region
           /\ \A f : f \in Frames(EntryRegion(e)) <=>
                        /\ f \in LowFrame .. e.base + e.length
                        /\ e.base <= f * PageSize
                        /\ (f + 1) * PageSize <= e.base + e.length
<1>1. PICK p \in Nat \ {0} : p = PageSize
  BY FrameAssumption
<1>2. PICK b \in Nat : b = e.base
  BY DEF Entry
<1>3. PICK t \in Nat : t = e.base + e.length
  <2>1. e.base \in Nat /\ e.length \in Nat
    BY DEF Entry
  <2>2. e.base + e.length \in Nat
    BY SMT, <2>1
  <2> QED BY <2>2
<1>4. PICK l \in Nat : l = LowFrame
  BY FrameAssumption
<1>5. b + p - 1 \in Nat
  BY SMT
<1>6. PICK s \in Nat : s = (b + p - 1) \div p
  BY <1>1, <1>5, Quotient
<1>7. PICK n \in Nat : n = t \div p
  BY <1>1, Quotient
<1>8. PICK m \in Nat : m = IF s >= l THEN s ELSE l
  BY SMT
<1>9. EntryRegion(e) = [start |-> m, end |-> n]
  <2>1. s \in Int /\ l \in Int
    BY SMT
  <2>2. Max({s, l}) = m
    BY <1>8, <2>1, MaxOfTwo
  <2> QED BY <1>1, <1>2, <1>3, <1>4, <1>6, <1>7, <2>2 DEF EntryRegion
<1>10. EntryRegion(e) \in Region /\ EntryRegion(e).start = m /\ EntryRegion(e).end = n
  BY SMT, <1>9 DEF Region
<1>11. ASSUME NEW f \in Nat PROVE s <= f <=> b <= f * p
  <2>1. f < s <=> (f + 1) * p <= b + p - 1
    BY <1>1, <1>5, <1>6, Quotient
  <2>2. (f + 1) * p = f * p + p /\ f * p \in Nat
    BY SMT
  <2>3. (f + 1) * p <= b + p - 1 <=> ~(b <= f * p)
    BY SMT, <2>2
  <2>4. f < s <=> ~(s <= f)
    BY SMT
  <2> QED BY <2>1, <2>3, <2>4
<1>12. ASSUME NEW f \in Nat PROVE f < n <=> (f + 1) * p <= t
  BY <1>1, <1>7, Quotient
<1>13. ASSUME NEW f \in Nat, (f + 1) * p <= t PROVE f <= t
  <2>1. f < n
    BY <1>12, <1>13
  <2>2. f <= f * p
    <3>1. PICK d \in Nat : p = 1 + d
      <4>1. p - 1 \in Nat /\ p = 1 + (p - 1)
        BY SMT
      <4> QED BY <4>1
    <3>2. f * p = f + f * d /\ f * d \in Nat
      BY SMT, <3>1
    <3> QED BY SMT, <3>2
  <2>3. (f + 1) * p = f * p + p /\ f * p \in Nat
    BY SMT
  <2> QED BY SMT, <1>13, <2>2, <2>3
<1>14. ASSUME NEW f
       PROVE  f \in Frames(EntryRegion(e)) <=>
                  /\ f \in l .. t
                  /\ b <= f * p
                  /\ (f + 1) * p <= t
  <2>1. f \in Frames(EntryRegion(e)) <=> f \in m .. n - 1
    BY <1>10 DEF Frames
  <2>2. f \in m .. n - 1 <=> f \in Nat /\ l <= f /\ s <= f /\ f < n
    BY SMT, <1>8
  <2>3. f \in l .. t <=> f \in Nat /\ l <= f /\ f <= t
    BY SMT
  <2> QED BY <1>11, <1>12, <1>13, <2>1, <2>2, <2>3
<1> QED
  BY <1>1, <1>2, <1>3, <1>4, <1>10, <1>14

\* add_region puts a range on a list that has room for it.
LEMMA AddSpec ==
    ASSUME NEW regs \in Regions, NEW r \in Region
    PROVE  /\ add_region(regs, r) \in Regions
           /\ Used(regs) # Slots =>
                 /\ Cardinality(Used(add_region(regs, r))) <= Cardinality(Used(regs)) + 1
                 /\ \A f : f \in FreeFrames(add_region(regs, r)) <=>
                              f \in FreeFrames(regs) \/ f \in Frames(r)
<1>u. /\ Used(regs) \subseteq Slots /\ Slots \subseteq Nat
      /\ IsFiniteSet(Used(regs)) /\ Cardinality(Used(regs)) \in Nat
  <2>1. Slots \subseteq Nat
    BY SMT, FrameAssumption DEF Slots
  <2>2. IsFiniteSet(Slots) /\ Used(regs) \in SUBSET Slots
    BY UsedSlots
  <2>3. IsFiniteSet(Used(regs))
    BY <2>2, FS_Subset
  <2> QED BY <2>1, <2>2, <2>3, FS_CardinalityType
<1>r. r.start \in Nat /\ r.end \in Nat
  BY DEF Region
<1>c. Cardinality(Used(regs)) <= Cardinality(Used(regs)) + 1
  BY SMT, <1>u
<1>1. CASE r.start >= r.end
  <2>1. add_region(regs, r) = regs
    BY <1>1 DEF add_region
  <2>2. \A f : f \notin r.start .. r.end - 1
    BY SMT, <1>1, <1>r
  <2> QED BY <1>c, <2>1, <2>2 DEF Frames
<1>2. CASE Slots \ Used(regs) = {}
  <2>1. add_region(regs, r) = regs
    BY <1>2 DEF add_region
  <2> QED BY <1>2, <1>u, <2>1
<1>3. CASE ~(r.start >= r.end) /\ Slots \ Used(regs) # {}
  <2>1. PICK i : i = Min(Slots \ Used(regs))
    OBVIOUS
  <2>2. i \in Slots /\ i \notin Used(regs)
    <3>1. Slots \ Used(regs) \in SUBSET Nat
      BY <1>u
    <3>2. i \in Slots \ Used(regs)
      BY <1>3, <2>1, <3>1, MinOfNat
    <3> QED BY <3>2
  <2>3. PICK new : new = [regs EXCEPT ![i] = r]
    OBVIOUS
  <2>4. add_region(regs, r) = new
    BY <1>3, <2>1, <2>3 DEF add_region
  <2>5. Written(regs, i, r, new) /\ r # NoRegion
    BY <2>2, <2>3, ReplaceSlot, FrameAssumption DEF Writes, Region
  <2>6. new \in Regions /\ Used(new) = Used(regs) \cup {i} /\ Used(regs) \ {i} = Used(regs)
    BY <2>2, <2>5 DEF Written
  <2>7. Cardinality(Used(regs) \cup {i}) = Cardinality(Used(regs)) + 1
    BY <1>u, <2>2, FS_AddElement
  <2>8. Cardinality(Used(new)) <= Cardinality(Used(regs)) + 1
    <3>1. Cardinality(Used(new)) = Cardinality(Used(regs)) + 1
      BY <2>6, <2>7
    <3> QED BY SMT, <1>u, <3>1
  <2>9. \A f : f \in FreeFrames(new) <=>
                  f \in Frames(r) \/ \E j \in Used(regs) : f \in Frames(regs[j])
    BY <2>5, <2>6 DEF Written
  <2>10. \A f : f \in FreeFrames(new) <=> f \in FreeFrames(regs) \/ f \in Frames(r)
    BY <2>9, FreeFramesDef
  <2> QED BY <2>4, <2>6, <2>8, <2>10
<1> QED
  BY <1>1, <1>2, <1>3

\* The list after one more entry of the memory map.
Added(regs, e) == IF e.usable THEN add_region(regs, EntryRegion(e)) ELSE regs

\* The loop of init, entry by entry.
LEMMA AddingDef ==
    ASSUME NEW mm \in Seq(Entry)
    PROVE  /\ Adding(mm)[0] = NoRegions
           /\ \A n \in 1 .. Len(mm) :
                 Adding(mm)[n] = Added(Adding(mm)[n - 1], mm[n])
<1> DEFINE N == Len(mm)
           round == [n \in 1 .. N |-> [regs \in Regions |-> Added(regs, mm[n])]]
           Body(f) == [n \in 0 .. N |->
                          IF n = 0 THEN NoRegions
                          ELSE IF mm[n].usable
                               THEN add_region(f[n - 1], EntryRegion(mm[n]))
                               ELSE f[n - 1]]
<1>0. N \in Nat /\ \A n \in 1 .. N : mm[n] \in Entry
  BY SMT
<1>1. round \in [1 .. N -> [Regions -> Regions]]
  BY <1>0, EntryFrames, AddSpec DEF Added
<1>2. NoRegions \in Regions
  BY DEF NoRegions, Regions
<1>3. PICK f \in [0 .. N -> Regions] :
         f[0] = NoRegions /\ \A n \in 1 .. N : f[n] = round[n][f[n - 1]]
  <2> HIDE DEF N, round
  <2>1. Loop(N, Regions, NoRegions, round)
    BY <1>0, <1>1, <1>2, LoopExists
  <2> QED BY <2>1 DEF Loop
<1>4. /\ \A n \in 0 .. N : n = 0 \/ n \in 1 .. N
      /\ \A n \in 1 .. N : n - 1 \in 0 .. N /\ n \in 0 .. N /\ n # 0
      /\ 0 \in 0 .. N
  BY SMT, <1>0
<1>5. \A n \in 1 .. N : f[n] = Added(f[n - 1], mm[n])
  BY <1>3, <1>4
<1>6. f = Body(f)
  <2>1. \A n \in 0 .. N : f[n] = Body(f)[n]
    BY <1>3, <1>4, <1>5 DEF Added
  <2> QED BY <1>3, <2>1
<1>7. Adding(mm) = CHOOSE g : g = Body(g)
  BY DEF Adding
<1>8. Adding(mm) = Body(Adding(mm))
  <2> HIDE DEF Body
  <2> QED BY <1>6, <1>7
<1> QED
  BY <1>4, <1>8 DEF Added

\* What is on the list after n entries: their usable frames, one slot for each
\* entry at most.
Listed(mm, n, regs) ==
    /\ regs \in Regions
    /\ Cardinality(Used(regs)) <= n
    /\ \A f : f \in FreeFrames(regs) <=>
                 \E i \in 1 .. n : mm[i].usable /\ f \in Frames(EntryRegion(mm[i]))

\* No entry of the memory map is dropped for want of a slot.
LEMMA AddingSpec ==
    ASSUME NEW mm \in Seq(Entry), Len(mm) <= MaxRegions
    PROVE  Listed(mm, Len(mm), Adding(mm)[Len(mm)])
<1> DEFINE N == Len(mm)
           P == {n \in 0 .. N : Listed(mm, n, Adding(mm)[n])}
<1>0. /\ N \in Nat /\ 0 \in 0 .. N /\ N \in 0 .. N
      /\ \A n \in 1 .. N : n \in 0 .. N /\ mm[n] \in Entry
  BY SMT
<1>1. 0 \in P
  <2>1. NoRegions \in Regions /\ Used(NoRegions) = {}
    BY DEF NoRegions, Regions, Used
  <2>2. Cardinality({}) <= 0 /\ 1 .. 0 = {}
    BY SMT, FS_EmptySet
  <2>3. \A f : f \notin FreeFrames(NoRegions)
    BY <2>1, FreeFramesDef
  <2>4. Listed(mm, 0, NoRegions)
    BY <2>1, <2>2, <2>3 DEF Listed
  <2> QED BY <1>0, <2>4, AddingDef
<1>2. ASSUME NEW n \in 1 .. N, n - 1 \in P PROVE n \in P
  <2>1. PICK regs : regs = Adding(mm)[n - 1]
    OBVIOUS
  <2>2. /\ regs \in Regions /\ Cardinality(Used(regs)) <= n - 1
        /\ \A f : f \in FreeFrames(regs) <=>
              \E i \in 1 .. n - 1 : mm[i].usable /\ f \in Frames(EntryRegion(mm[i]))
    BY <1>2, <2>1 DEF Listed
  <2>3. PICK e \in Entry : e = mm[n]
    BY <1>0
  <2>4. \A i : i \in 1 .. n <=> i \in 1 .. n - 1 \/ i = n
    BY SMT, <1>0
  <2>5. IsFiniteSet(Used(regs)) /\ Cardinality(Used(regs)) \in Nat
    <3>1. IsFiniteSet(Slots) /\ Used(regs) \in SUBSET Slots
      BY <2>2, UsedSlots
    <3>2. IsFiniteSet(Used(regs))
      BY <3>1, FS_Subset
    <3> QED BY <3>2, FS_CardinalityType
  <2>6. PICK c \in Nat : c = Cardinality(Used(regs))
    BY <2>5
  <2>7. c <= n - 1 /\ c < MaxRegions /\ c <= n /\ c + 1 <= n
    <3>1. c <= n - 1 /\ N <= MaxRegions /\ N \in Nat /\ MaxRegions \in Nat
      BY <1>0, <2>2, <2>6, FrameAssumption
    <3> HIDE DEF N
    <3> QED BY SMT, <3>1
  <2>8. Used(regs) # Slots
    <3>1. Cardinality(Slots) = MaxRegions
      BY <2>2, UsedSlots
    <3>2. c # MaxRegions
      BY SMT, <2>7, FrameAssumption
    <3> QED BY <2>6, <3>1, <3>2
  <2>9. PICK new : new = Added(regs, e)
    OBVIOUS
  <2>10. Listed(mm, n, new)
    <3>1. CASE ~e.usable
      <4>1. new = regs
        BY <2>9, <3>1 DEF Added
      <4>2. Cardinality(Used(regs)) <= n
        BY <2>6, <2>7
      <4> QED BY <2>2, <2>3, <2>4, <3>1, <4>1, <4>2 DEF Listed
    <3>2. CASE e.usable
      <4>1. PICK r \in Region : r = EntryRegion(e)
        BY EntryFrames
      <4>2. new = add_region(regs, r)
        BY <2>9, <3>2, <4>1 DEF Added
      <4>3. /\ new \in Regions /\ Cardinality(Used(new)) <= c + 1
            /\ \A f : f \in FreeFrames(new) <=> f \in FreeFrames(regs) \/ f \in Frames(r)
        BY <2>2, <2>6, <2>8, <4>2, AddSpec
      <4>4. Cardinality(Used(new)) <= n
        <5>1. IsFiniteSet(Slots) /\ Used(new) \in SUBSET Slots
          BY <4>3, UsedSlots
        <5>2. IsFiniteSet(Used(new))
          BY <5>1, FS_Subset
        <5>3. Cardinality(Used(new)) \in Nat
          BY <5>2, FS_CardinalityType
        <5>4. n \in Nat
          BY SMT, <1>0
        <5> QED BY SMT, <2>7, <4>3, <5>3, <5>4
      <4>5. \A f : f \in FreeFrames(new) <=>
              \E i \in 1 .. n : mm[i].usable /\ f \in Frames(EntryRegion(mm[i]))
        BY <2>2, <2>3, <2>4, <3>2, <4>1, <4>3
      <4> QED BY <4>3, <4>4, <4>5 DEF Listed
    <3> QED BY <3>1, <3>2
  <2>11. Adding(mm)[n] = new
    BY <2>1, <2>3, <2>9, AddingDef
  <2> QED BY <1>0, <2>10, <2>11
<1>3. \A n \in 0 .. N : n \in P
  <2> HIDE DEF P, N
  <2> QED BY <1>0, <1>1, <1>2, InductionTo
<1> QED
  BY <1>0, <1>3

\* init makes a tidy list of exactly the usable frames.
LEMMA InitSpec ==
    ASSUME NEW mm \in MemMaps
    PROVE  /\ Tidy(init(mm))
           /\ FreeFrames(init(mm)) = Usable(mm)
           /\ Usable(mm) \subseteq Nat
<1>1. mm \in Seq(Entry) /\ Len(mm) <= MaxRegions
  BY FrameAssumption DEF Entry
<1>2. DOMAIN mm = 1 .. Len(mm) /\ \A i \in 1 .. Len(mm) : mm[i] \in Entry
  BY SMT, <1>1
<1>3. PICK regs : regs = Adding(mm)[Len(mm)]
  OBVIOUS
<1>4. Listed(mm, Len(mm), regs)
  BY <1>1, <1>3, AddingSpec
<1>5. regs \in Regions
  BY <1>4 DEF Listed
<1>6. \A f : f \in Usable(mm) <=>
         \E i \in 1 .. Len(mm) : mm[i].usable /\ f \in Frames(EntryRegion(mm[i]))
  <2>1. \A f : f \in Usable(mm) <=>
           \E i \in 1 .. Len(mm) :
              /\ f \in LowFrame .. mm[i].base + mm[i].length
              /\ mm[i].usable
              /\ mm[i].base <= f * PageSize
              /\ (f + 1) * PageSize <= mm[i].base + mm[i].length
    <3> DEFINE U(i) == {f \in LowFrame .. mm[i].base + mm[i].length :
                           /\ mm[i].usable
                           /\ mm[i].base <= f * PageSize
                           /\ (f + 1) * PageSize <= mm[i].base + mm[i].length}
    <3>1. \A i, f : f \in U(i) <=>
              /\ f \in LowFrame .. mm[i].base + mm[i].length
              /\ mm[i].usable
              /\ mm[i].base <= f * PageSize
              /\ (f + 1) * PageSize <= mm[i].base + mm[i].length
      OBVIOUS
    <3>2. Usable(mm) = UNION {U(i) : i \in DOMAIN mm}
      BY DEF Usable
    <3> HIDE DEF U
    <3>3. \A f : f \in Usable(mm) <=> \E i \in 1 .. Len(mm) : f \in U(i)
      BY <1>2, <3>2
    <3> QED BY <3>1, <3>3
  <2>2. \A i \in 1 .. Len(mm) : \A f : f \in Frames(EntryRegion(mm[i])) <=>
              /\ f \in LowFrame .. mm[i].base + mm[i].length
              /\ mm[i].base <= f * PageSize
              /\ (f + 1) * PageSize <= mm[i].base + mm[i].length
    BY <1>2, EntryFrames
  <2> QED BY <2>1, <2>2
<1>7. \A f : f \in FreeFrames(regs) <=> f \in Usable(mm)
  BY <1>4, <1>6 DEF Listed
<1>8. FreeFrames(regs) = Usable(mm)
  BY <1>7
<1>9. init(mm) = coalesce(regs)
  BY <1>3 DEF init
<1> QED
  BY <1>5, <1>8, <1>9, CoalesceSpec, FreeFramesNat

-----------------------------------------------------------------------------
(* The theorems *)

\* The list is tidy as well, or a frame that comes back might be dropped
\* although there is room for its run.
Inv == Tidy(regions) /\ TypeOK /\ FramesAccounted

\* What free leaves of the invariant's sets when f is not on the list before.
LEMMA Freed ==
    ASSUME NEW regs, Tidy(regs), NEW f \in Nat, f \notin FreeFrames(regs)
    PROVE  /\ Tidy(free(regs, f))
           /\ \/ FreeFrames(free(regs, f)) = FreeFrames(regs) \cup {f}
              \/ /\ FreeFrames(free(regs, f)) = FreeFrames(regs)
                 /\ Cardinality(Pool!RunStarts(FreeFrames(regs))) >= MaxRegions
                 /\ {f - 1, f + 1} \cap FreeFrames(regs) = {}
<1>1. MaxRegions >= MaxRegions
  BY SMT, FrameAssumption
<1>2. Used(regs) = Slots => Cardinality(Pool!RunStarts(FreeFrames(regs))) >= MaxRegions
  BY <1>1, FullListRuns
<1> QED
  BY <1>2, FreeSpec

\* Giving back the frame just taken loses nothing.
LEMMA TakenAndFreed ==
    ASSUME NEW regs, Tidy(regs), NEW f, NEW new, Taken(regs, f, new)
    PROVE  /\ Tidy(free(new, f))
           /\ FreeFrames(free(new, f)) = FreeFrames(regs)
<1>1. /\ Tidy(new) /\ f \in FreeFrames(regs)
      /\ FreeFrames(new) = FreeFrames(regs) \ {f}
      /\ f + 1 \in FreeFrames(new) \/ Used(new) # Slots
  BY DEF Taken
<1>2. f \in Nat /\ f \notin FreeFrames(new)
  BY <1>1, FreeFramesNat DEF Tidy
<1>3. Tidy(free(new, f)) /\ FreeFrames(free(new, f)) = FreeFrames(new) \cup {f}
  BY <1>1, <1>2, FreeSpec
<1> QED
  BY <1>1, <1>3

\* The list made at boot satisfies the invariant.
LEMMA InitInv == Init => Inv
<1> SUFFICES ASSUME Init PROVE Inv
  OBVIOUS
<1>1. /\ memmap \in MemMaps /\ regions = init(memmap)
      /\ held = {} /\ lost = {} /\ answer = NoFrame
  BY DEF Init
<1>2. Tidy(regions) /\ FreeFrames(regions) = Usable(memmap)
  BY <1>1, InitSpec
<1>3. \A i \in Used(regions) : regions[i].start < regions[i].end
  BY <1>2 DEF Tidy, Nonempty
<1> QED
  BY <1>1, <1>2, <1>3 DEF Inv, TypeOK, FramesAccounted

\* The state of an allocation's answer, for the steps that allocate.
LEMMA AllocStep ==
    ASSUME Inv
    PROVE  \/ /\ FreeFrames(regions) = {}
              /\ alloc(regions).frame = NoFrame /\ alloc(regions).regs = regions
           \/ /\ Taken(regions, alloc(regions).frame, alloc(regions).regs)
              /\ alloc(regions).frame # NoFrame
              /\ alloc(regions).frame \in Usable(memmap)
<1>1. Tidy(regions) /\ FreeFrames(regions) \subseteq Nat
      /\ FreeFrames(regions) \subseteq Usable(memmap)
  BY FreeFramesNat DEF Inv, Tidy, FramesAccounted
<1>2. CASE Used(regions) = {}
  BY <1>1, <1>2, AllocSpec
<1>3. CASE Used(regions) # {}
  <2>1. Taken(regions, alloc(regions).frame, alloc(regions).regs)
    BY <1>1, <1>3, AllocSpec
  <2>2. alloc(regions).frame \in FreeFrames(regions)
    BY <2>1 DEF Taken
  <2> QED BY <1>1, <2>1, <2>2, FrameAssumption
<1> QED
  BY <1>2, <1>3

\* A tidy list has no empty range.
LEMMA TidyNonempty ==
    ASSUME NEW regs, Tidy(regs)
    PROVE  \A i \in Used(regs) : regs[i].start < regs[i].end
BY DEF Tidy, Nonempty

\* Every step of the allocator keeps the invariant.
LEMMA NextInv ==
    ASSUME Inv, [Next]_vars
    PROVE  Inv'
<1>i. /\ Tidy(regions) /\ memmap \in MemMaps
      /\ held \subseteq Usable(memmap) /\ lost \subseteq Usable(memmap)
      /\ answer \in Usable(memmap) \cup {NoFrame}
      /\ FreeFrames(regions) \cup held \cup lost = Usable(memmap)
      /\ FreeFrames(regions) \cap held = {}
      /\ (FreeFrames(regions) \cup held) \cap lost = {}
  BY DEF Inv, TypeOK, FramesAccounted
<1>r. ASSUME Tidy(regions'), memmap' = memmap,
             held' \subseteq Usable(memmap), lost' \subseteq Usable(memmap),
             answer' \in Usable(memmap) \cup {NoFrame},
             FreeFrames(regions') \cup held' \cup lost' = Usable(memmap),
             FreeFrames(regions') \cap held' = {},
             (FreeFrames(regions') \cup held') \cap lost' = {}
      PROVE  Inv'
  <2>1. \A i \in Used(regions') : regions'[i].start < regions'[i].end
    BY <1>r, TidyNonempty
  <2> QED BY <1>i, <1>r, <2>1 DEF Inv, TypeOK, FramesAccounted
<1>1. CASE allocate_frame
  <2>0. PICK a : a = alloc(regions)
    OBVIOUS
  <2>1. /\ answer' = a.frame /\ regions' = a.regs
        /\ held' = held \cup ({a.frame} \ {NoFrame})
        /\ memmap' = memmap /\ lost' = lost
    BY <1>1, <2>0 DEF allocate_frame
  <2>2. CASE FreeFrames(regions) = {} /\ a.frame = NoFrame /\ a.regs = regions
    <3>1. held' = held
      BY <2>1, <2>2
    <3> QED BY <1>i, <1>r, <2>1, <2>2, <3>1
  <2>3. CASE Taken(regions, a.frame, a.regs) /\ a.frame # NoFrame
             /\ a.frame \in Usable(memmap)
    <3>1. /\ Tidy(regions') /\ a.frame \in FreeFrames(regions)
          /\ FreeFrames(regions') = FreeFrames(regions) \ {a.frame}
      BY <2>1, <2>3 DEF Taken
    <3>2. held' = held \cup {a.frame}
      BY <2>1, <2>3
    <3>3. /\ FreeFrames(regions') \cup held' \cup lost' = Usable(memmap)
          /\ FreeFrames(regions') \cap held' = {}
          /\ (FreeFrames(regions') \cup held') \cap lost' = {}
      BY <1>i, <2>1, <3>1, <3>2
    <3> QED BY <1>i, <1>r, <2>1, <2>3, <3>1, <3>2, <3>3
  <2> QED BY <2>0, <2>2, <2>3, AllocStep
<1>2. CASE load_extent_fails
  <2>0. PICK a : a = alloc(regions)
    OBVIOUS
  <2>1. /\ a.frame # NoFrame /\ answer' = a.frame
        /\ regions' = free(a.regs, a.frame)
        /\ memmap' = memmap /\ held' = held /\ lost' = lost
    BY <1>2, <2>0 DEF load_extent_fails
  <2>2. Taken(regions, a.frame, a.regs) /\ a.frame \in Usable(memmap)
    BY <2>0, <2>1, AllocStep
  <2>3. Tidy(regions') /\ FreeFrames(regions') = FreeFrames(regions)
    BY <1>i, <2>1, <2>2, TakenAndFreed
  <2> QED BY <1>i, <1>r, <2>1, <2>2, <2>3
<1>3. ASSUME NEW f \in held, deallocate_frame(f) PROVE Inv'
  <2>1. /\ regions' = free(regions, f) /\ held' = held \ {f}
        /\ lost' = IF f \in FreeFrames(regions') THEN lost ELSE lost \cup {f}
        /\ memmap' = memmap /\ answer' = answer
    BY <1>3 DEF deallocate_frame
  <2>2. f \in Nat /\ f \notin FreeFrames(regions) /\ f \in Usable(memmap) /\ f \notin lost
    BY <1>i, InitSpec
  <2>3. Tidy(regions')
    BY <1>i, <2>1, <2>2, FreeSpec
  <2>4. CASE FreeFrames(regions') = FreeFrames(regions) \cup {f}
    <3>1. lost' = lost
      BY <2>1, <2>4
    <3>2. /\ FreeFrames(regions') \cup held' \cup lost' = Usable(memmap)
          /\ FreeFrames(regions') \cap held' = {}
          /\ (FreeFrames(regions') \cup held') \cap lost' = {}
      BY <1>i, <2>1, <2>2, <2>4, <3>1
    <3>3. held' \subseteq Usable(memmap)
      BY <1>i, <2>1
    <3> QED BY <1>i, <1>r, <2>1, <2>3, <3>1, <3>2, <3>3
  <2>5. CASE FreeFrames(regions') = FreeFrames(regions)
    <3>1. lost' = lost \cup {f}
      BY <2>1, <2>2, <2>5
    <3>2. /\ FreeFrames(regions') \cup held' \cup lost' = Usable(memmap)
          /\ FreeFrames(regions') \cap held' = {}
          /\ (FreeFrames(regions') \cup held') \cap lost' = {}
      BY <1>i, <2>1, <2>2, <2>5, <3>1
    <3>3. held' \subseteq Usable(memmap) /\ lost' \subseteq Usable(memmap)
      BY <1>i, <2>1, <2>2, <3>1
    <3> QED BY <1>i, <1>r, <2>1, <2>3, <3>2, <3>3
  <2> QED BY <1>i, <2>1, <2>2, <2>4, <2>5, FreeSpec
<1>4. CASE UNCHANGED vars
  BY <1>4 DEF vars, Inv, TypeOK, FramesAccounted
<1> QED
  BY <1>1, <1>2, <1>3, <1>4 DEF Next

\* The list is tidy, the frames on it are accounted for.
LEMMA InvHolds == Spec => []Inv
<1>1. Inv /\ [Next]_vars => Inv'
  BY NextInv
<1> QED
  BY InitInv, <1>1, PTL DEF Spec

\* The list keeps its types and no empty range.
THEOREM FrameTypes == Spec => []TypeOK
<1>1. Inv => TypeOK
  BY DEF Inv
<1> QED
  BY InvHolds, <1>1, PTL

\* Every usable frame of the memory map, and no other, is on the range list,
\* handed out or lost, and only one of them.
THEOREM FramesAreAccounted == Spec => []FramesAccounted
<1>1. Inv => FramesAccounted
  BY DEF Inv
<1> QED
  BY InvHolds, <1>1, PTL

\* The lowest frame of the abstract pool is the one alloc takes.
LEMMA TakenIsLowest ==
    ASSUME NEW regs, Tidy(regs), NEW f, NEW new, Taken(regs, f, new)
    PROVE  f = Pool!Lowest(FreeFrames(regs)) /\ FreeFrames(regs) # {}
<1>1. f \in FreeFrames(regs) /\ \A g \in FreeFrames(regs) : f <= g
  BY DEF Taken
<1>2. FreeFrames(regs) \subseteq Nat
  BY FreeFramesNat DEF Tidy
<1>3. PICK l : l = Pool!Lowest(FreeFrames(regs))
  OBVIOUS
<1>4. l \in FreeFrames(regs) /\ \A g \in FreeFrames(regs) : l <= g
  BY <1>1, <1>3 DEF Pool!Lowest
<1>5. l <= f /\ f <= l /\ l \in Nat /\ f \in Nat
  BY <1>1, <1>2, <1>4
<1>6. l = f
  BY SMT, <1>5
<1> QED
  BY <1>1, <1>3, <1>6

\* The range list implements the abstract pool: the lowest frame first, a
\* refusal only when nothing is free, and a frame dropped only when the free
\* frames form MAX_REGIONS runs and it touches none of them.
THEOREM RangeListIsPool == Spec => ImplementsPool
<1>1. Init => Pool!Init
  <2> SUFFICES ASSUME Init PROVE Pool!Init
    OBVIOUS
  <2> QED BY InitInv DEF Init, Inv, FramesAccounted, Pool!Init
<1>2. ASSUME Inv, [Next]_vars PROVE [Pool!Next]_(Pool!vars)
  <2>i. /\ Tidy(regions) /\ memmap \in MemMaps /\ held \subseteq Usable(memmap)
        /\ FreeFrames(regions) \cap held = {}
    BY <1>2 DEF Inv, TypeOK, FramesAccounted
  <2>1. CASE allocate_frame
    <3>0. PICK a : a = alloc(regions)
      OBVIOUS
    <3>1. /\ answer' = a.frame /\ regions' = a.regs
          /\ held' = held \cup ({a.frame} \ {NoFrame})
      BY <2>1, <3>0 DEF allocate_frame
    <3>2. CASE FreeFrames(regions) = {} /\ a.frame = NoFrame /\ a.regs = regions
      <4>1. held' = held
        BY <3>1, <3>2
      <4>2. Pool!Refuse
        BY <3>1, <3>2, <4>1 DEF Pool!Refuse
      <4> QED BY <4>2 DEF Pool!Next
    <3>3. CASE Taken(regions, a.frame, a.regs) /\ a.frame # NoFrame
      <4>1. /\ a.frame = Pool!Lowest(FreeFrames(regions)) /\ FreeFrames(regions) # {}
            /\ FreeFrames(regions') = FreeFrames(regions) \ {a.frame}
        BY <2>i, <3>1, <3>3, TakenIsLowest DEF Taken
      <4>2. held' = held \cup {a.frame}
        BY <3>1, <3>3
      <4>3. Pool!Take
        BY <3>1, <4>1, <4>2 DEF Pool!Take
      <4> QED BY <4>3 DEF Pool!Next
    <3> QED BY <1>2, <3>0, <3>2, <3>3, AllocStep
  <2>2. CASE load_extent_fails
    <3>0. PICK a : a = alloc(regions)
      OBVIOUS
    <3>1. /\ a.frame # NoFrame /\ answer' = a.frame
          /\ regions' = free(a.regs, a.frame) /\ held' = held
      BY <2>2, <3>0 DEF load_extent_fails
    <3>2. Taken(regions, a.frame, a.regs)
      BY <1>2, <3>0, <3>1, AllocStep
    <3>3. FreeFrames(regions') = FreeFrames(regions)
      BY <2>i, <3>1, <3>2, TakenAndFreed
    <3>4. a.frame = Pool!Lowest(FreeFrames(regions)) /\ FreeFrames(regions) # {}
      BY <2>i, <3>2, TakenIsLowest
    <3>5. Pool!Borrow
      BY <3>1, <3>3, <3>4 DEF Pool!Borrow
    <3> QED BY <3>5 DEF Pool!Next
  <2>3. ASSUME NEW f \in held, deallocate_frame(f) PROVE Pool!Next
    <3>1. regions' = free(regions, f) /\ held' = held \ {f} /\ answer' = answer
      BY <2>3 DEF deallocate_frame
    <3>2. f \in Nat /\ f \notin FreeFrames(regions)
      BY <2>i, InitSpec
    <3>3. CASE FreeFrames(regions') = FreeFrames(regions) \cup {f}
      <4>1. Pool!Give(f)
        BY <3>1, <3>3 DEF Pool!Give
      <4> QED BY <4>1 DEF Pool!Next
    <3>4. CASE /\ FreeFrames(regions') = FreeFrames(regions)
               /\ Cardinality(Pool!RunStarts(FreeFrames(regions))) >= MaxRegions
               /\ {f - 1, f + 1} \cap FreeFrames(regions) = {}
      <4>1. Pool!Lose(f)
        <5>1. \A S : Pool!Cardinality(S) = Cardinality(S)
          BY DEF Pool!Cardinality, Cardinality
        <5> QED BY <3>1, <3>4, <5>1 DEF Pool!Lose
      <4> QED BY <4>1 DEF Pool!Next
    <3> QED BY <2>i, <3>1, <3>2, <3>3, <3>4, Freed
  <2>4. CASE UNCHANGED vars
    BY <2>4 DEF vars, Pool!vars
  <2> QED BY <1>2, <2>1, <2>2, <2>3, <2>4 DEF Next
<1> QED
  BY <1>1, <1>2, InvHolds, PTL DEF Spec, ImplementsPool, Pool!Spec

-----------------------------------------------------------------------------
(* The bitmap *)

\* The word and the bit of a frame, and the frame of a word and a bit: the
\* division of the code and its inverse.
LEMMA Place ==
    ASSUME NEW f \in Bitmap!Frame
    PROVE  /\ f \div WordBits \in Bitmap!Word
           /\ f % WordBits \in Bitmap!Bit
           /\ f = (f \div WordBits) * WordBits + (f % WordBits)
<1>1. /\ FRAMES \in Nat /\ WordBits \in Nat /\ WordBits > 0
      /\ f \in Nat /\ f < FRAMES
  BY SMT, MirrorAssumption DEF Bitmap!Frame
<1>2. /\ f \div WordBits \in Nat
      /\ f % WordBits \in 0 .. WordBits - 1
      /\ f = WordBits * (f \div WordBits) + (f % WordBits)
  BY SMT, <1>1
<1> QED
  BY SMT, <1>1, <1>2 DEF Bitmap!Word, Bitmap!Words, Bitmap!Bit

\* Two frames with the same word and the same bit are the same frame.
LEMMA PlaceUnique ==
    ASSUME NEW f \in Bitmap!Frame, NEW g \in Bitmap!Frame,
           f \div WordBits = g \div WordBits, f % WordBits = g % WordBits
    PROVE  f = g
BY Place

\* A word and a bit name one frame.
LEMMA FrameAt ==
    ASSUME NEW w \in Bitmap!Word, NEW b \in Bitmap!Bit
    PROVE  /\ w * WordBits + b \in Nat
           /\ (w * WordBits + b) \div WordBits = w
           /\ (w * WordBits + b) % WordBits = b
<1>1. /\ WordBits \in Nat /\ WordBits > 0
      /\ w \in Nat /\ b \in Nat /\ b < WordBits
  BY SMT, MirrorAssumption DEF Bitmap!Word, Bitmap!Bit
<1>2. w * WordBits \in Nat
  BY SMT, <1>1
<1> QED
  BY SMT, <1>1, <1>2

\* A frame of a lower word is a lower frame.
LEMMA LowerWord ==
    ASSUME NEW w \in Bitmap!Word, NEW v \in Bitmap!Word, w < v,
           NEW b \in Bitmap!Bit, NEW c \in Bitmap!Bit
    PROVE  w * WordBits + b < v * WordBits + c
<1>1. /\ WordBits \in Nat /\ WordBits > 0
      /\ w \in Nat /\ v \in Nat /\ w + 1 <= v
      /\ b \in Nat /\ b < WordBits /\ c \in Nat
  BY SMT, MirrorAssumption DEF Bitmap!Word, Bitmap!Bit
<1>2. (w + 1) * WordBits <= v * WordBits
  BY SMT, <1>1
<1>3. (w + 1) * WordBits = w * WordBits + WordBits
  BY SMT, <1>1
<1>4. w * WordBits \in Nat /\ v * WordBits \in Nat
  BY SMT, <1>1
<1> QED
  BY SMT, <1>1, <1>2, <1>3, <1>4

\* "High bits in the final word (beyond FRAMES) are always kept 0."
BitsOK(ws) ==
    /\ ws \in [Bitmap!Word -> SUBSET Bitmap!Bit]
    /\ \A w \in Bitmap!Word : \A b \in ws[w] : w * WordBits + b < FRAMES

\* The frames that are free in ws.
FreeIn(ws) == {f \in Bitmap!Frame : f % WordBits \in ws[f \div WordBits]}

\* Frame f, alone, comes to be free in q, or not free.
Marked(q, ws, f) == BitsOK(q) /\ FreeIn(q) = FreeIn(ws) \cup {f}

Cleared(q, ws, f) == BitsOK(q) /\ FreeIn(q) = FreeIn(ws) \ {f}

\* mark_free adds its frame to the free ones, and only that.
LEMMA MarkIs ==
    ASSUME NEW ws, BitsOK(ws), NEW f \in Bitmap!Frame
    PROVE  Marked(Bitmap!mark_free(ws, f), ws, f)
<1>1. f < FRAMES /\ ~(f >= FRAMES)
  BY SMT, MirrorAssumption DEF Bitmap!Frame
<1>2. PICK q, w, b : q = Bitmap!mark_free(ws, f) /\ w = f \div WordBits /\ b = f % WordBits
  OBVIOUS
<1>3. q = [ws EXCEPT ![w] = @ \cup {b}]
  BY <1>1, <1>2 DEF Bitmap!mark_free
<1>4. w \in Bitmap!Word /\ b \in Bitmap!Bit /\ f = w * WordBits + b
  BY <1>2, Place
<1>5. ws \in [Bitmap!Word -> SUBSET Bitmap!Bit]
  BY DEF BitsOK
<1>6. /\ q \in [Bitmap!Word -> SUBSET Bitmap!Bit] /\ q[w] = ws[w] \cup {b}
      /\ \A v \in Bitmap!Word : v # w => q[v] = ws[v]
  BY <1>3, <1>4, <1>5
<1>7. BitsOK(q)
  BY <1>1, <1>4, <1>6 DEF BitsOK
<1>8. ASSUME NEW g \in Bitmap!Frame
      PROVE  (g % WordBits \in q[g \div WordBits])
                <=> (g = f \/ g % WordBits \in ws[g \div WordBits])
  <2>1. g \div WordBits \in Bitmap!Word
    BY Place
  <2>2. CASE g \div WordBits = w
    BY <1>2, <1>6, <2>2, PlaceUnique
  <2>3. CASE g \div WordBits # w
    BY <1>2, <1>6, <2>1, <2>3
  <2> QED BY <2>2, <2>3
<1> QED
  BY <1>2, <1>7, <1>8 DEF FreeIn, Marked

\* Clearing the bit of a frame takes it from the free ones, and only that.
LEMMA ClearIs ==
    ASSUME NEW ws, BitsOK(ws), NEW f \in Bitmap!Frame, NEW q,
           q = [ws EXCEPT ![f \div WordBits] = @ \ {f % WordBits}]
    PROVE  Cleared(q, ws, f)
<1>2. PICK w, b : w = f \div WordBits /\ b = f % WordBits
  OBVIOUS
<1>3. q = [ws EXCEPT ![w] = @ \ {b}]
  BY <1>2
<1>4. w \in Bitmap!Word /\ b \in Bitmap!Bit
  BY <1>2, Place
<1>5. ws \in [Bitmap!Word -> SUBSET Bitmap!Bit]
  BY DEF BitsOK
<1>6. /\ q \in [Bitmap!Word -> SUBSET Bitmap!Bit] /\ q[w] = ws[w] \ {b}
      /\ \A v \in Bitmap!Word : v # w => q[v] = ws[v]
  BY <1>3, <1>4, <1>5
<1>7. BitsOK(q)
  BY <1>4, <1>6 DEF BitsOK
<1>8. ASSUME NEW g \in Bitmap!Frame
      PROVE  (g % WordBits \in q[g \div WordBits])
                <=> (g # f /\ g % WordBits \in ws[g \div WordBits])
  <2>1. g \div WordBits \in Bitmap!Word
    BY Place
  <2>2. CASE g \div WordBits = w
    BY <1>2, <1>6, <2>2, PlaceUnique
  <2>3. CASE g \div WordBits # w
    BY <1>2, <1>6, <2>1, <2>3
  <2> QED BY <2>2, <2>3
<1> QED
  BY <1>7, <1>8 DEF FreeIn, Cleared

\* The first word that is not zero and its lowest bit are the lowest free
\* frame.
LEMMA LowestFree ==
    ASSUME NEW ws, BitsOK(ws), Bitmap!NonZero(ws) # {},
           NEW w, w = Bitmap!FirstWord(ws), NEW b, b = Bitmap!trailing_zeros(ws[w])
    PROVE  /\ w \in Bitmap!Word /\ b \in Bitmap!Bit
           /\ w * WordBits + b < FRAMES
           /\ w * WordBits + b \in FreeIn(ws)
           /\ \A g \in FreeIn(ws) : w * WordBits + b <= g
<1>0. ws \in [Bitmap!Word -> SUBSET Bitmap!Bit]
  BY DEF BitsOK
<1>1. w \in Bitmap!NonZero(ws) /\ \A v \in Bitmap!NonZero(ws) : w <= v
  <2>1. Bitmap!NonZero(ws) \in SUBSET Nat
    BY SMT DEF Bitmap!NonZero, Bitmap!Word
  <2>2. \E m \in Bitmap!NonZero(ws) : \A n \in Bitmap!NonZero(ws) : m <= n
    BY <2>1, LeastExists
  <2> QED BY <2>2 DEF Bitmap!FirstWord
<1>2. w \in Bitmap!Word /\ ws[w] # {} /\ ws[w] \in SUBSET Bitmap!Bit
  BY <1>0, <1>1 DEF Bitmap!NonZero
<1>3. b \in ws[w] /\ \A c \in ws[w] : b <= c
  <2>1. ws[w] \in SUBSET Nat
    BY SMT, <1>2 DEF Bitmap!Bit
  <2>2. \E m \in ws[w] : \A n \in ws[w] : m <= n
    BY <1>2, <2>1, LeastExists
  <2> QED BY <2>2 DEF Bitmap!trailing_zeros
<1>4. b \in Bitmap!Bit
  BY <1>2, <1>3
<1>5. PICK f : f = w * WordBits + b
  OBVIOUS
<1>6. f < FRAMES
  BY <1>2, <1>3, <1>5 DEF BitsOK
<1>7. f \in Nat /\ f \div WordBits = w /\ f % WordBits = b
  BY <1>2, <1>4, <1>5, FrameAt
<1>8. f \in Bitmap!Frame
  BY SMT, <1>6, <1>7, MirrorAssumption DEF Bitmap!Frame
<1>9. f \in FreeIn(ws)
  BY <1>3, <1>7, <1>8 DEF FreeIn
<1>10. ASSUME NEW g \in FreeIn(ws)
       PROVE  f <= g
  <2>0. PICK v, c : v = g \div WordBits /\ c = g % WordBits
    OBVIOUS
  <2>1. g \in Bitmap!Frame /\ c \in ws[v]
    BY <2>0 DEF FreeIn
  <2>2. v \in Bitmap!Word /\ c \in Bitmap!Bit /\ g = v * WordBits + c
    BY <2>0, <2>1, Place
  <2>3. v \in Bitmap!NonZero(ws)
    BY <2>1, <2>2 DEF Bitmap!NonZero
  <2>4. g \in Nat
    BY SMT, <2>1 DEF Bitmap!Frame
  <2>5. CASE w = v
    <3>1. b <= c
      BY <1>3, <2>1, <2>5
    <3>2. b \in Nat /\ c \in Nat /\ v * WordBits \in Nat
      BY SMT, <1>4, <2>2, MirrorAssumption DEF Bitmap!Bit, Bitmap!Word
    <3> QED
      BY SMT, <1>5, <2>2, <2>5, <3>1, <3>2
  <2>6. CASE w < v
    <3>1. f < g
      BY <1>2, <1>4, <1>5, <2>2, <2>6, LowerWord
    <3> QED BY SMT, <1>7, <2>4, <3>1
  <2>7. w = v \/ w < v
    BY SMT, <1>1, <1>2, <2>2, <2>3 DEF Bitmap!Word
  <2> QED BY <2>5, <2>6, <2>7
<1> QED
  BY <1>2, <1>4, <1>5, <1>6, <1>9, <1>10

\* An allocation: the lowest free frame, or none when none is free.
Allocated(a, ws) ==
    \/ FreeIn(ws) = {} /\ a.frame = NoFrame /\ a.words = ws
    \/ /\ a.frame \in FreeIn(ws) /\ \A g \in FreeIn(ws) : a.frame <= g
       /\ Cleared(a.words, ws, a.frame)

\* alloc is that.
LEMMA BitmapAllocIs ==
    ASSUME NEW ws, BitsOK(ws)
    PROVE  Allocated(Bitmap!alloc(ws), ws)
<1>1. CASE Bitmap!NonZero(ws) = {}
  <2>1. Bitmap!alloc(ws).frame = NoFrame /\ Bitmap!alloc(ws).words = ws
    BY <1>1 DEF Bitmap!alloc
  <2>2. ASSUME NEW f \in FreeIn(ws) PROVE FALSE
    <3>1. f \in Bitmap!Frame /\ f % WordBits \in ws[f \div WordBits]
      BY DEF FreeIn
    <3>2. f \div WordBits \in Bitmap!Word
      BY <3>1, Place
    <3> QED BY <1>1, <3>1, <3>2 DEF Bitmap!NonZero
  <2> QED BY <2>1, <2>2 DEF Allocated
<1>2. CASE Bitmap!NonZero(ws) # {}
  <2>1. PICK w, b, f : /\ w = Bitmap!FirstWord(ws) /\ b = Bitmap!trailing_zeros(ws[w])
                       /\ f = w * WordBits + b
    OBVIOUS
  <2>2. /\ w \in Bitmap!Word /\ b \in Bitmap!Bit /\ f < FRAMES
        /\ f \in FreeIn(ws) /\ \A g \in FreeIn(ws) : f <= g
    BY <1>2, <2>1, LowestFree
  <2>3. /\ Bitmap!alloc(ws).frame = f
        /\ Bitmap!alloc(ws).words = [ws EXCEPT ![w] = @ \ {b}]
    BY <1>2, <2>1, <2>2 DEF Bitmap!alloc
  <2>4. f \div WordBits = w /\ f % WordBits = b /\ f \in Bitmap!Frame
    BY <2>1, <2>2, FrameAt DEF FreeIn
  <2>5. PICK q : q = [ws EXCEPT ![w] = @ \ {b}]
    OBVIOUS
  <2>6. Cleared(q, ws, f)
    BY <2>4, <2>5, ClearIs
  <2> QED BY <2>2, <2>3, <2>5, <2>6 DEF Allocated
<1> QED
  BY <1>1, <1>2

\* What callers pass beyond the end is ignored.
LEMMA BeyondIs ==
    ASSUME NEW f \in Nat, f \notin Bitmap!Frame, NEW ws
    PROVE  Bitmap!mark_free(ws, f) = ws /\ Bitmap!mark_used(ws, f) = ws
<1>1. f >= FRAMES
  BY SMT, MirrorAssumption DEF Bitmap!Frame
<1> QED
  BY <1>1 DEF Bitmap!mark_free, Bitmap!mark_used

\* A frame of the bitmap is marked used by clearing its bit.
LEMMA UsedIs ==
    ASSUME NEW ws, BitsOK(ws), NEW f \in Bitmap!Frame
    PROVE  Cleared(Bitmap!mark_used(ws, f), ws, f)
<1>1. ~(f >= FRAMES)
  BY SMT, MirrorAssumption DEF Bitmap!Frame
<1>2. Bitmap!mark_used(ws, f) = [ws EXCEPT ![f \div WordBits] = @ \ {f % WordBits}]
  BY <1>1 DEF Bitmap!mark_used
<1> QED
  BY <1>2, ClearIs

\* The types of the bitmap.
LEMMA BitmapTypes ==
    Bitmap!TypeOK <=> BitsOK(words) /\ mirrored \in Bitmap!Frame \cup {NoFrame}
BY DEF Bitmap!TypeOK, BitsOK

-----------------------------------------------------------------------------
(* The bitmap by itself *)

\* No call sets a bit beyond FRAMES or answers with a frame beyond it.
LEMMA BitmapTypeStep ==
    ASSUME BitsOK(words), mirrored \in Bitmap!Frame \cup {NoFrame},
           \/ Bitmap!Alloc
           \/ \E f \in Nat : Bitmap!MarkFree(f) \/ Bitmap!MarkUsed(f)
           \/ UNCHANGED Bitmap!vars
    PROVE  BitsOK(words') /\ mirrored' \in Bitmap!Frame \cup {NoFrame}
<1>1. CASE Bitmap!Alloc
  <2>1. PICK a : a = Bitmap!alloc(words)
    OBVIOUS
  <2>2. words' = a.words /\ mirrored' = a.frame
    BY <1>1, <2>1 DEF Bitmap!Alloc
  <2>3. Allocated(a, words)
    BY <2>1, BitmapAllocIs
  <2> QED BY <2>2, <2>3 DEF Allocated, Cleared, FreeIn
<1>2. ASSUME NEW f \in Nat, Bitmap!MarkFree(f)
      PROVE  BitsOK(words') /\ mirrored' \in Bitmap!Frame \cup {NoFrame}
  <2>1. words' = Bitmap!mark_free(words, f) /\ mirrored' = mirrored
    BY <1>2 DEF Bitmap!MarkFree
  <2>2. CASE f \in Bitmap!Frame
    BY <2>1, <2>2, MarkIs DEF Marked
  <2>3. CASE f \notin Bitmap!Frame
    BY <2>1, <2>3, BeyondIs
  <2> QED BY <2>2, <2>3
<1>3. ASSUME NEW f \in Nat, Bitmap!MarkUsed(f)
      PROVE  BitsOK(words') /\ mirrored' \in Bitmap!Frame \cup {NoFrame}
  <2>1. words' = Bitmap!mark_used(words, f) /\ mirrored' = mirrored
    BY <1>3 DEF Bitmap!MarkUsed
  <2>2. CASE f \in Bitmap!Frame
    BY <2>1, <2>2, UsedIs DEF Cleared
  <2>3. CASE f \notin Bitmap!Frame
    BY <2>1, <2>3, BeyondIs
  <2> QED BY <2>2, <2>3
<1>4. CASE UNCHANGED Bitmap!vars
  BY <1>4 DEF Bitmap!vars
<1> QED
  BY <1>1, <1>2, <1>3, <1>4

\* The lowest frame of the abstract pool.
LEMMA LowestIs ==
    ASSUME NEW ws, NEW f \in FreeIn(ws), \A g \in FreeIn(ws) : f <= g
    PROVE  f = Bitmap!Pool!Lowest(FreeIn(ws))
<1>1. FreeIn(ws) \subseteq Nat
  BY SMT DEF FreeIn, Bitmap!Frame
<1>2. PICK l : l = Bitmap!Pool!Lowest(FreeIn(ws))
  OBVIOUS
<1>3. l \in FreeIn(ws) /\ \A g \in FreeIn(ws) : l <= g
  BY <1>2 DEF Bitmap!Pool!Lowest
<1>4. l \in Nat /\ f \in Nat /\ l <= f /\ f <= l
  BY <1>1, <1>3
<1>5. l = f
  BY SMT, <1>4
<1> QED
  BY <1>2, <1>5

\* The free frames before and after a step.
LEMMA FreeFramesIs ==
    /\ Bitmap!FreeFrames = FreeIn(words)
    /\ Bitmap!FreeFrames' = FreeIn(words')
<1>1. \A f \in Bitmap!Frame : f < FRAMES
  BY SMT, MirrorAssumption DEF Bitmap!Frame
<1> QED
  BY <1>1 DEF FreeIn, Bitmap!FreeFrames, Bitmap!is_free

\* Each call is the call of the abstract pool on the free frames.
LEMMA BitmapPoolStep ==
    ASSUME BitsOK(words),
           \/ Bitmap!Alloc
           \/ \E f \in Nat : Bitmap!MarkFree(f) \/ Bitmap!MarkUsed(f)
           \/ UNCHANGED Bitmap!vars
    PROVE  Bitmap!Pool!Next \/ UNCHANGED Bitmap!Pool!vars
<1> DEFINE B == Bitmap!FreeFrames
<1>0. B = FreeIn(words) /\ B' = FreeIn(words') /\ B \subseteq Bitmap!Frame
  BY FreeFramesIs DEF FreeIn
<1>1. CASE Bitmap!Alloc
  <2>1. PICK a : a = Bitmap!alloc(words)
    OBVIOUS
  <2>2. words' = a.words /\ mirrored' = a.frame
    BY <1>1, <2>1 DEF Bitmap!Alloc
  <2>3. Allocated(a, words)
    BY <2>1, BitmapAllocIs
  <2>4. CASE FreeIn(words) = {} /\ a.frame = NoFrame /\ a.words = words
    <3>1. Bitmap!Pool!Refuse
      BY <1>0, <2>2, <2>4 DEF Bitmap!Pool!Refuse
    <3> QED BY <3>1 DEF Bitmap!Pool!Next
  <2>5. CASE /\ a.frame \in FreeIn(words) /\ \A g \in FreeIn(words) : a.frame <= g
             /\ Cleared(a.words, words, a.frame)
    <3>1. PICK f : f = a.frame
      OBVIOUS
    <3>2. f = Bitmap!Pool!Lowest(B)
      BY <1>0, <2>5, <3>1, LowestIs
    <3>3. f \in B /\ f \in Bitmap!Frame /\ B' = B \ {f}
      BY <1>0, <2>2, <2>5, <3>1 DEF Cleared
    <3> HIDE DEF B
    <3>4. (Bitmap!Frame \ B') = (Bitmap!Frame \ B) \cup {f}
      BY <3>3
    <3>5. Bitmap!Pool!Take
      BY <2>2, <3>1, <3>2, <3>3, <3>4 DEF B, Bitmap!Pool!Take
    <3> QED BY <3>5 DEF Bitmap!Pool!Next
  <2> QED BY <2>3, <2>4, <2>5 DEF Allocated
<1>2. ASSUME NEW f \in Nat, Bitmap!MarkFree(f)
      PROVE  Bitmap!Pool!Next \/ UNCHANGED Bitmap!Pool!vars
  <2>1. words' = Bitmap!mark_free(words, f) /\ mirrored' = mirrored
    BY <1>2 DEF Bitmap!MarkFree
  <2>2. CASE f \in Bitmap!Frame /\ f \notin B
    <3>1. B' = B \cup {f}
      BY <1>0, <2>1, <2>2, MarkIs DEF Marked
    <3> HIDE DEF B
    <3>2. (Bitmap!Frame \ B') = (Bitmap!Frame \ B) \ {f}
      BY <3>1
    <3>3. f \in Bitmap!Frame \ B
      BY <2>2
    <3>4. Bitmap!Pool!Give(f)
      BY <2>1, <3>1, <3>2, <3>3 DEF B, Bitmap!Pool!Give
    <3> QED BY <3>3, <3>4 DEF B, Bitmap!Pool!Next
  <2>3. CASE f \notin Bitmap!Frame
    <3>1. B' = B
      BY <1>0, <2>1, <2>3, BeyondIs
    <3> QED BY <2>1, <3>1 DEF Bitmap!Pool!vars
  <2>4. CASE f \in B
    <3>1. B' = B \cup {f}
      BY <1>0, <2>1, <2>4, MarkIs DEF Marked
    <3>2. B' = B
      <4> HIDE DEF B
      <4> QED BY <2>4, <3>1
    <3> QED BY <2>1, <3>2 DEF Bitmap!Pool!vars
  <2> QED BY <2>2, <2>3, <2>4
<1>3. ASSUME NEW f \in Nat, Bitmap!MarkUsed(f)
      PROVE  Bitmap!Pool!Next \/ UNCHANGED Bitmap!Pool!vars
  <2>1. words' = Bitmap!mark_used(words, f) /\ mirrored' = mirrored
    BY <1>3 DEF Bitmap!MarkUsed
  <2>2. CASE f \in B
    <3>1. f \in Bitmap!Frame /\ B' = B \ {f}
      BY <1>0, <2>1, <2>2, UsedIs DEF Cleared
    <3> HIDE DEF B
    <3>2. (Bitmap!Frame \ B') = (Bitmap!Frame \ B) \cup {f}
      BY <3>1
    <3>3. Bitmap!Pool!Reserve(f)
      BY <2>1, <2>2, <3>1, <3>2 DEF B, Bitmap!Pool!Reserve
    <3> QED BY <2>2, <3>3 DEF B, Bitmap!Pool!Next
  <2>3. CASE f \notin Bitmap!Frame
    <3>1. B' = B
      BY <1>0, <2>1, <2>3, BeyondIs
    <3> QED BY <2>1, <3>1 DEF Bitmap!Pool!vars
  <2>4. CASE f \in Bitmap!Frame /\ f \notin B
    <3>1. B' = B \ {f}
      BY <1>0, <2>1, <2>4, UsedIs DEF Cleared
    <3>2. B' = B
      <4> HIDE DEF B
      <4> QED BY <2>4, <3>1
    <3> QED BY <2>1, <3>2 DEF Bitmap!Pool!vars
  <2> QED BY <2>2, <2>3, <2>4
<1>4. CASE UNCHANGED Bitmap!vars
  <2>1. B' = B /\ mirrored' = mirrored
    BY <1>0, <1>4 DEF Bitmap!vars
  <2> QED BY <2>1 DEF Bitmap!Pool!vars
<1> QED
  BY <1>1, <1>2, <1>3, <1>4

\* The calls of the bitmap's own specification.
LEMMA BitmapCalls ==
    ASSUME [Bitmap!Next]_(Bitmap!vars)
    PROVE  \/ Bitmap!Alloc
           \/ \E f \in Nat : Bitmap!MarkFree(f) \/ Bitmap!MarkUsed(f)
           \/ UNCHANGED Bitmap!vars
BY MirrorAssumption DEF Bitmap!Next, Bitmap!Free

\* A new bitmap has no bit set.
LEMMA NewIs == BitsOK(Bitmap!new) /\ FreeIn(Bitmap!new) = {}
<1>1. Bitmap!new \in [Bitmap!Word -> SUBSET Bitmap!Bit]
  BY DEF Bitmap!new
<1>2. \A w \in Bitmap!Word : Bitmap!new[w] = {}
  BY DEF Bitmap!new
<1>3. \A f \in Bitmap!Frame : f \div WordBits \in Bitmap!Word
  BY Place
<1> QED
  BY <1>1, <1>2, <1>3 DEF BitsOK, FreeIn

\* The bits beyond FRAMES stay 0, the comment on the words field, and an
\* answer is always a frame below FRAMES, whatever callers pass.
THEOREM BitmapTypeCorrect == Bitmap!Spec => []Bitmap!TypeOK
<1>1. Bitmap!Init => Bitmap!TypeOK
  BY NewIs, BitmapTypes DEF Bitmap!Init
<1>2. Bitmap!TypeOK /\ [Bitmap!Next]_(Bitmap!vars) => Bitmap!TypeOK'
  <2> SUFFICES ASSUME Bitmap!TypeOK, [Bitmap!Next]_(Bitmap!vars) PROVE Bitmap!TypeOK'
    OBVIOUS
  <2>1. BitsOK(words') /\ mirrored' \in Bitmap!Frame \cup {NoFrame}
    BY BitmapTypes, BitmapCalls, BitmapTypeStep
  <2> QED BY <2>1 DEF Bitmap!TypeOK, BitsOK
<1> QED
  BY <1>1, <1>2, PTL DEF Bitmap!Spec

\* The bitmap allocator implements the abstract pool for every FRAMES and every
\* width of a word: it hands out the lowest free frame, never one that is in
\* use, refuses only when no frame is free, and loses none.
THEOREM BitmapIsPool == Bitmap!Spec => Bitmap!ImplementsPool
<1>1. Bitmap!Init => Bitmap!Pool!Init
  BY DEF Bitmap!Init, Bitmap!Pool!Init
<1>2. Bitmap!TypeOK /\ [Bitmap!Next]_(Bitmap!vars)
        => [Bitmap!Pool!Next]_(Bitmap!Pool!vars)
  BY BitmapTypes, BitmapCalls, BitmapPoolStep
<1> QED
  BY <1>1, <1>2, BitmapTypeCorrect, PTL
     DEF Bitmap!Spec, Bitmap!ImplementsPool, Bitmap!Pool!Spec

-----------------------------------------------------------------------------
(* Counting *)

\* The sums of the first terms of g.
Sums(N, g) == CHOOSE f : f = [n \in 0 .. N |-> IF n = 0 THEN 0 ELSE f[n - 1] + g[n]]

SumsOf(f, N, g) ==
    /\ f \in [0 .. N -> Nat] /\ f[0] = 0
    /\ \A n \in 1 .. N : f[n] = f[n - 1] + g[n]

\* A loop that adds up.
LEMMA SumsIs ==
    ASSUME NEW N \in Nat, NEW g \in [1 .. N -> Nat]
    PROVE  SumsOf(Sums(N, g), N, g)
<1> DEFINE round == [n \in 1 .. N |-> [s \in Nat |-> s + g[n]]]
           Body(f) == [n \in 0 .. N |-> IF n = 0 THEN 0 ELSE f[n - 1] + g[n]]
<1>1. round \in [1 .. N -> [Nat -> Nat]]
  <2>1. \A n \in 1 .. N : \A s \in Nat : s + g[n] \in Nat
    BY SMT
  <2> QED BY <2>1
<1>2. PICK f \in [0 .. N -> Nat] :
         f[0] = 0 /\ \A n \in 1 .. N : f[n] = round[n][f[n - 1]]
  <2> HIDE DEF round
  <2>1. PICK S, s0 : S = Nat /\ s0 = 0
    OBVIOUS
  <2>2. s0 \in S /\ round \in [1 .. N -> [S -> S]]
    BY <1>1, <2>1
  <2>3. Loop(N, S, s0, round)
    BY <2>2, LoopExists
  <2> QED BY <2>1, <2>3 DEF Loop
<1>3. /\ \A n \in 0 .. N : n = 0 \/ n \in 1 .. N
      /\ \A n \in 1 .. N : n - 1 \in 0 .. N /\ n \in 0 .. N /\ n # 0
      /\ 0 \in 0 .. N
  BY SMT
<1>4. \A n \in 1 .. N : f[n] = f[n - 1] + g[n]
  BY <1>2, <1>3
<1>5. f = Body(f)
  <2>1. \A n \in 0 .. N : f[n] = Body(f)[n]
    BY <1>2, <1>3, <1>4
  <2> QED BY <1>2, <2>1
<1>6. PICK s : s = Sums(N, g)
  OBVIOUS
<1>7. s = Body(s)
  <2>1. s = CHOOSE h : h = Body(h)
    BY <1>6 DEF Sums
  <2> HIDE DEF Body
  <2> QED BY <1>5, <2>1
<1>8. s[0] = 0 /\ \A n \in 1 .. N : s[n] = s[n - 1] + g[n]
  BY <1>3, <1>7
<1>9. \A n \in 0 .. N : s[n] \in Nat
  <2> DEFINE Q == {n \in 0 .. N : s[n] \in Nat}
  <2>1. 0 \in Q
    <3>1. s[0] \in Nat
      BY SMT, <1>8
    <3> QED BY <1>3, <3>1
  <2>2. ASSUME NEW n \in 1 .. N, n - 1 \in Q PROVE n \in Q
    <3>1. s[n - 1] \in Nat /\ g[n] \in Nat
      BY <2>2
    <3>2. s[n] \in Nat
      BY SMT, <1>8, <3>1
    <3> QED BY <1>3, <3>2
  <2>3. \A n \in 0 .. N : n \in Q
    <3> HIDE DEF Q
    <3> QED BY <2>1, <2>2, InductionTo
  <2> QED BY <2>3
<1>10. s \in [0 .. N -> Nat]
  <2>1. s = [n \in 0 .. N |-> s[n]]
    BY <1>7
  <2> QED BY <1>9, <2>1
<1> QED
  BY <1>6, <1>8, <1>10 DEF SumsOf

\* G are sets of g elements each, without common ones.
Counts(N, G, g) ==
    /\ \A n \in 1 .. N : IsFiniteSet(G[n]) /\ g[n] = Cardinality(G[n])
    /\ \A n, k \in 1 .. N : n # k => G[n] \cap G[k] = {}

\* Adding up the sizes of sets without common elements counts their union.
LEMMA SumCounts ==
    ASSUME NEW N \in Nat, NEW G, NEW g \in [1 .. N -> Nat], Counts(N, G, g)
    PROVE  Sums(N, g)[N] = Cardinality(UNION {G[i] : i \in 1 .. N})
<1>1. PICK s : s = Sums(N, g)
  OBVIOUS
<1>2. SumsOf(s, N, g)
  BY <1>1, SumsIs
<1> DEFINE V(n) == UNION {G[i] : i \in 1 .. n}
           Q == {n \in 0 .. N : IsFiniteSet(V(n)) /\ Cardinality(V(n)) = s[n]}
<1>3. 0 \in Q
  <2>1. 0 \in 0 .. N /\ \A i \in 1 .. 0 : FALSE
    BY SMT
  <2>2. V(0) = {}
    BY <2>1
  <2>3. IsFiniteSet(V(0)) /\ Cardinality(V(0)) = 0
    BY <2>2, FS_EmptySet
  <2> QED BY <1>2, <2>1, <2>3 DEF SumsOf
<1>4. ASSUME NEW n \in 1 .. N, n - 1 \in Q PROVE n \in Q
  <2>1. PICK A, B, C : A = V(n - 1) /\ B = G[n] /\ C = V(n)
    OBVIOUS
  <2>2. /\ n \in 0 .. N /\ n \in 1 .. n
        /\ \A i \in 1 .. n : i = n \/ i \in 1 .. n - 1
        /\ \A i \in 1 .. n - 1 : i \in 1 .. n /\ i \in 1 .. N /\ i # n
    BY SMT
  <2>3. C = A \cup B
    BY <2>1, <2>2
  <2>4. A \cap B = {}
    <3>1. ASSUME NEW x, x \in A, x \in B PROVE FALSE
      <4>1. PICK i \in 1 .. n - 1 : x \in G[i]
        BY <2>1, <3>1
      <4>2. G[i] \cap G[n] = {}
        BY <2>2 DEF Counts
      <4> QED BY <2>1, <3>1, <4>1, <4>2
    <3> QED BY <3>1
  <2>5. IsFiniteSet(A) /\ Cardinality(A) = s[n - 1]
    BY <1>4, <2>1
  <2>6. IsFiniteSet(B) /\ Cardinality(B) = g[n]
    BY <2>1 DEF Counts
  <2>7. IsFiniteSet(C) /\ Cardinality(C) = Cardinality(A) + Cardinality(B)
                                           - Cardinality(A \cap B)
    BY <2>3, <2>5, <2>6, FS_Union
  <2>8. Cardinality(A \cap B) = 0
    BY <2>4, FS_EmptySet
  <2>9. s[n] = s[n - 1] + g[n]
    BY <1>2 DEF SumsOf
  <2>10. s[n - 1] \in Nat /\ g[n] \in Nat
    BY <2>5, <2>6, FS_CardinalityType
  <2>11. Cardinality(C) = s[n]
    BY SMT, <2>5, <2>6, <2>7, <2>8, <2>9, <2>10
  <2> QED BY <2>1, <2>2, <2>7, <2>11
<1>5. \A n \in 0 .. N : n \in Q
  <2> HIDE DEF Q
  <2> QED BY <1>3, <1>4, InductionTo
<1>6. N \in 0 .. N
  BY SMT
<1> QED
  BY <1>1, <1>5, <1>6

\* free_count adds up the lengths of the slots.
LEMMA FreeCountDef ==
    ASSUME NEW regs, NEW g, g = [n \in 1 .. MaxRegions |-> len(regs[n])]
    PROVE  free_count(regs) = Sums(MaxRegions, g)[MaxRegions]
<1>1. \A n \in 0 .. MaxRegions : n = 0 \/ n \in 1 .. MaxRegions
  BY SMT, FrameAssumption
<1>2. \A n \in 1 .. MaxRegions : g[n] = len(regs[n])
  OBVIOUS
<1>3. ASSUME NEW f
      PROVE  [n \in 0 .. MaxRegions |-> IF n = 0 THEN 0 ELSE f[n - 1] + g[n]]
               = [n \in 0 .. MaxRegions |-> IF n = 0 THEN 0 ELSE f[n - 1] + len(regs[n])]
  BY <1>1, <1>2
<1> QED
  BY <1>3 DEF free_count, Sums

\* The range list counts its frames.
LEMMA FreeCountIs ==
    ASSUME NEW regs, Tidy(regs)
    PROVE  free_count(regs) = Cardinality(FreeFrames(regs))
<1> DEFINE G == [n \in Slots |-> IF n \in Used(regs) THEN Frames(regs[n]) ELSE {}]
           g == [n \in 1 .. MaxRegions |-> len(regs[n])]
<1>1. MaxRegions \in Nat /\ Slots = 1 .. MaxRegions
  BY FrameAssumption DEF Slots
<1>2. ASSUME NEW n \in Slots
      PROVE  /\ IsFiniteSet(G[n]) /\ g[n] = Cardinality(G[n]) /\ g[n] \in Nat
             /\ \A x \in G[n] : n \in Used(regs) /\ x \in Frames(regs[n])
  <2>1. CASE n \in Used(regs)
    <3>1. PICK a, b : a = regs[n].start /\ b = regs[n].end
      OBVIOUS
    <3>2. a \in Nat /\ b \in Nat /\ a < b
      BY <2>1, <3>1, TidyRanges
    <3>3. a \in Int /\ b - 1 \in Int /\ ~(a > b - 1) /\ (b - 1) - a + 1 = b - a
          /\ ~(b <= a) /\ b - a \in Nat
      BY SMT, <3>2
    <3>4. IsFiniteSet(a .. b - 1) /\ Cardinality(a .. b - 1) = b - a
      BY <3>3, FS_Interval
    <3>5. G[n] = a .. b - 1
      BY <2>1, <3>1 DEF Frames
    <3>6. len(regs[n]) = b - a
      BY <2>1, <3>1, <3>3 DEF len, Used
    <3> QED BY <1>1, <2>1, <3>3, <3>4, <3>5, <3>6
  <2>2. CASE n \notin Used(regs)
    <3>1. G[n] = {}
      BY <2>2
    <3>2. len(regs[n]) = 0
      BY <2>2 DEF len, Used
    <3>3. g[n] = 0 /\ 0 \in Nat
      BY SMT, <1>1, <3>2
    <3> QED BY <3>1, <3>3, FS_EmptySet
  <2> QED BY <2>1, <2>2
<1>3. ASSUME NEW n \in Slots, NEW k \in Slots, n # k
      PROVE  G[n] \cap G[k] = {}
  <2>1. ASSUME NEW x, x \in G[n], x \in G[k] PROVE FALSE
    <3>1. n \in Used(regs) /\ k \in Used(regs) /\ x \in Frames(regs[n]) /\ x \in Frames(regs[k])
      BY <1>2, <2>1
    <3>2. PICK a, b, c, d : /\ a = regs[n].start /\ b = regs[n].end
                            /\ c = regs[k].start /\ d = regs[k].end
      OBVIOUS
    <3>3. /\ a \in Nat /\ b \in Nat /\ c \in Nat /\ d \in Nat
          /\ x \in Int /\ a <= x /\ x < b /\ c <= x /\ x < d
      BY <3>1, <3>2, TidyRanges
    <3>4. b < c \/ d < a
      BY <1>3, <3>1, <3>2 DEF Tidy
    <3> QED BY SMT, <3>3, <3>4
  <2> HIDE DEF G
  <2> QED BY <2>1
<1>4. Counts(MaxRegions, G, g) /\ g \in [1 .. MaxRegions -> Nat]
  <2>1. g = [n \in 1 .. MaxRegions |-> g[n]]
    OBVIOUS
  <2> HIDE DEF G, g
  <2>2. g \in [1 .. MaxRegions -> Nat]
    BY <1>1, <1>2, <2>1
  <2> QED BY <1>1, <1>2, <1>3, <2>2 DEF Counts
<1>5. UNION {G[i] : i \in 1 .. MaxRegions} = FreeFrames(regs)
  <2>1. ASSUME NEW x
        PROVE  x \in FreeFrames(regs) <=> \E i \in Slots : x \in G[i]
    <3>1. x \in FreeFrames(regs) <=> \E i \in Used(regs) : x \in Frames(regs[i])
      BY FreeFramesDef
    <3>2. Used(regs) \subseteq Slots
      BY DEF Used
    <3>3. \A i \in Slots : x \in G[i] <=> i \in Used(regs) /\ x \in Frames(regs[i])
      OBVIOUS
    <3> QED BY <3>1, <3>2, <3>3
  <2> HIDE DEF G
  <2> QED BY <1>1, <2>1
<1>6. free_count(regs) = Sums(MaxRegions, g)[MaxRegions]
  BY FreeCountDef
<1>7. Sums(MaxRegions, g)[MaxRegions] = Cardinality(UNION {G[i] : i \in 1 .. MaxRegions})
  <2> HIDE DEF G, g
  <2> QED BY <1>1, <1>4, SumCounts
<1> QED
  BY <1>5, <1>6, <1>7

\* The bitmap's free_count adds up the ones of the words.
LEMMA OnesDef ==
    ASSUME NEW ws, NEW g, g = [n \in 1 .. Bitmap!Words |-> Cardinality(ws[n - 1])]
    PROVE  Bitmap!free_count(ws) = Sums(Bitmap!Words, g)[Bitmap!Words]
<1>0. Bitmap!Words \in Nat
  BY SMT, MirrorAssumption DEF Bitmap!Words
<1>1. \A n \in 0 .. Bitmap!Words : n = 0 \/ n \in 1 .. Bitmap!Words
  BY SMT, <1>0
<1>2. \A S : Bitmap!Cardinality(S) = Cardinality(S)
  BY DEF Bitmap!Cardinality, Cardinality
<1>3. \A n \in 1 .. Bitmap!Words : g[n] = Bitmap!Cardinality(ws[n - 1])
  BY <1>2
<1>4. ASSUME NEW f
      PROVE  [n \in 0 .. Bitmap!Words |-> IF n = 0 THEN 0 ELSE f[n - 1] + g[n]]
               = [n \in 0 .. Bitmap!Words |->
                    IF n = 0 THEN 0 ELSE f[n - 1] + Bitmap!Cardinality(ws[n - 1])]
  BY <1>1, <1>3
<1> QED
  BY <1>4 DEF Bitmap!free_count, Sums

\* The bits of word w are as many frames.
LEMMA BitsCounted ==
    ASSUME NEW w \in Bitmap!Word, NEW bits \in SUBSET Bitmap!Bit
    PROVE  /\ IsFiniteSet(bits) /\ IsFiniteSet({w * WordBits + b : b \in bits})
           /\ Cardinality({w * WordBits + b : b \in bits}) = Cardinality(bits)
<1>1. IsFiniteSet(bits)
  <2>1. 0 \in Int /\ WordBits - 1 \in Int
    BY SMT, MirrorAssumption
  <2>2. IsFiniteSet(Bitmap!Bit)
    BY <2>1, FS_Interval DEF Bitmap!Bit
  <2> QED BY <2>2, FS_Subset
<1>2. PICK T, h : /\ T = {w * WordBits + b : b \in bits}
                  /\ h = [b \in bits |-> w * WordBits + b]
  OBVIOUS
<1>3. h \in Injection(bits, T)
  <2>1. h \in [bits -> T]
    BY <1>2
  <2>2. ASSUME NEW a \in bits, NEW b \in bits, h[a] = h[b] PROVE a = b
    <3>1. (w * WordBits + a) % WordBits = a /\ (w * WordBits + b) % WordBits = b
      BY FrameAt
    <3>2. h[a] = w * WordBits + a /\ h[b] = w * WordBits + b
      BY <1>2
    <3> QED BY <2>2, <3>1, <3>2
  <2>3. DOMAIN h = bits
    BY <2>1
  <2>4. IsInjective(h)
    BY <2>2, <2>3 DEF IsInjective
  <2> QED BY <2>1, <2>4 DEF Injection
<1>4. h \in Surjection(bits, T)
  <2>1. h \in [bits -> T] /\ \A t \in T : \E b \in bits : h[b] = t
    BY <1>2
  <2> QED BY <2>1 DEF Surjection
<1>5. ExistsBijection(bits, T)
  BY <1>3, <1>4 DEF ExistsBijection, Bijection
<1> QED
  BY <1>1, <1>2, <1>5, FS_Bijection

\* The bitmap counts its free frames: each word the frames of its bits.
LEMMA OnesIs ==
    ASSUME NEW ws, BitsOK(ws)
    PROVE  Bitmap!free_count(ws) = Cardinality(FreeIn(ws))
<1> DEFINE N == Bitmap!Words
           G == [n \in 1 .. N |-> {(n - 1) * WordBits + b : b \in ws[n - 1]}]
           g == [n \in 1 .. N |-> Cardinality(ws[n - 1])]
<1>1. ws \in [Bitmap!Word -> SUBSET Bitmap!Bit]
  BY DEF BitsOK
<1>2. /\ N \in Nat
      /\ \A n \in 1 .. N : n - 1 \in Bitmap!Word /\ n \in Int
      /\ \A w \in Bitmap!Word : w + 1 \in 1 .. N /\ (w + 1) - 1 = w
      /\ \A n, k \in 1 .. N : n - 1 = k - 1 => n = k
  BY SMT, MirrorAssumption DEF Bitmap!Word, Bitmap!Words
<1>3. ASSUME NEW n \in 1 .. N
      PROVE  /\ n - 1 \in Bitmap!Word /\ ws[n - 1] \in SUBSET Bitmap!Bit
             /\ G[n] = {(n - 1) * WordBits + b : b \in ws[n - 1]}
             /\ g[n] = Cardinality(ws[n - 1])
  <2>1. n - 1 \in Bitmap!Word
    BY <1>2
  <2>2. ws[n - 1] \in SUBSET Bitmap!Bit
    BY <1>1, <2>1
  <2> QED BY <2>1, <2>2
<1>4. ASSUME NEW n \in 1 .. N
      PROVE  IsFiniteSet(G[n]) /\ g[n] = Cardinality(G[n]) /\ g[n] \in Nat
  <2>1. PICK w, bits : w = n - 1 /\ bits = ws[n - 1]
    OBVIOUS
  <2>2. /\ w \in Bitmap!Word /\ bits \in SUBSET Bitmap!Bit
        /\ G[n] = {w * WordBits + b : b \in bits} /\ g[n] = Cardinality(bits)
    BY <1>3, <2>1
  <2> HIDE DEF G, g
  <2> QED BY <2>2, BitsCounted, FS_CardinalityType
<1>5. ASSUME NEW n \in 1 .. N, NEW x \in G[n]
      PROVE  x \in FreeIn(ws) /\ x \div WordBits = n - 1
  <2>1. PICK w : w = n - 1
    OBVIOUS
  <2>2. PICK b \in ws[w] : x = w * WordBits + b
    BY <1>3, <2>1
  <2>3. w \in Bitmap!Word /\ b \in Bitmap!Bit
    BY <1>3, <2>1, <2>2
  <2>4. x \in Nat /\ x \div WordBits = w /\ x % WordBits = b
    BY <2>2, <2>3, FrameAt
  <2>5. x < FRAMES
    BY <2>2, <2>3 DEF BitsOK
  <2>6. x \in Bitmap!Frame
    BY SMT, <2>4, <2>5, MirrorAssumption DEF Bitmap!Frame
  <2> QED BY <2>1, <2>2, <2>4, <2>6 DEF FreeIn
<1>6. ASSUME NEW x \in FreeIn(ws)
      PROVE  \E n \in 1 .. N : x \in G[n]
  <2>1. PICK w, b : w = x \div WordBits /\ b = x % WordBits
    OBVIOUS
  <2>2. x \in Bitmap!Frame /\ b \in ws[w]
    BY <2>1 DEF FreeIn
  <2>3. w \in Bitmap!Word /\ x = w * WordBits + b
    BY <2>1, <2>2, Place
  <2>4. PICK n \in 1 .. N : n - 1 = w
    BY <1>2, <2>3
  <2>5. x \in {(n - 1) * WordBits + c : c \in ws[n - 1]}
    BY <2>2, <2>3, <2>4
  <2> QED BY <2>5
<1>7. g \in [1 .. N -> Nat]
  BY <1>4
<1> HIDE DEF G
<1>8. \A n, k \in 1 .. N : n # k => G[n] \cap G[k] = {}
  <2>1. ASSUME NEW n \in 1 .. N, NEW k \in 1 .. N, NEW x, x \in G[n], x \in G[k] PROVE n = k
    <3>1. n - 1 = k - 1
      BY <1>5, <2>1
    <3> QED BY <1>2, <3>1
  <2> QED BY <2>1
<1>9. Counts(N, G, g)
  <2> HIDE DEF g
  <2> QED BY <1>4, <1>8 DEF Counts
<1>10. UNION {G[i] : i \in 1 .. N} = FreeIn(ws)
  BY <1>5, <1>6
<1>11. Bitmap!free_count(ws) = Sums(N, g)[N]
  BY OnesDef
<1>12. Sums(N, g)[N] = Cardinality(UNION {G[i] : i \in 1 .. N})
  <2> HIDE DEF g, N
  <2>1. N \in Nat /\ g \in [1 .. N -> Nat] /\ Counts(N, G, g)
    BY <1>2, <1>7, <1>9
  <2>2. PICK n, h, H : n = N /\ h = g /\ H = G
    OBVIOUS
  <2>3. Sums(n, h)[n] = Cardinality(UNION {H[i] : i \in 1 .. n})
    <3>1. n \in Nat /\ h \in [1 .. n -> Nat] /\ Counts(n, H, h)
      BY <2>1, <2>2
    <3> QED BY <3>1, SumCounts
  <2> QED BY <2>2, <2>3
<1> QED
  BY <1>10, <1>11, <1>12

-----------------------------------------------------------------------------
(* The bitmap beside the range list *)

\* The bitmap after frame f was looked at.
Looked(S, ws, f) == IF f \in S THEN Bitmap!mark_free(ws, f) ELSE ws

\* The bitmaps the code can make.
Bitmaps == {ws \in [Bitmap!Word -> SUBSET Bitmap!Bit] : BitsOK(ws)}

\* A frame that is looked at is free afterwards when it is available.
LEMMA LookedIs ==
    ASSUME NEW S, NEW ws, BitsOK(ws), NEW f \in Bitmap!Frame
    PROVE  BitsOK(Looked(S, ws, f)) /\ FreeIn(Looked(S, ws, f)) = FreeIn(ws) \cup (S \cap {f})
<1>1. CASE f \in S
  <2>1. S \cap {f} = {f}
    BY <1>1
  <2>2. Marked(Looked(S, ws, f), ws, f)
    BY <1>1, MarkIs DEF Looked
  <2> QED BY <2>1, <2>2 DEF Marked
<1>2. CASE f \notin S
  <2>1. S \cap {f} = {}
    BY <1>2
  <2>2. Looked(S, ws, f) = ws
    BY <1>2 DEF Looked
  <2> QED BY <2>1, <2>2
<1> QED
  BY <1>1, <1>2

\* The loop over the frames, frame by frame.
LEMMA MarkingDef ==
    ASSUME NEW S, NEW m, m = Marking(S)
    PROVE  /\ m[0] = Bitmap!new
           /\ \A n \in 1 .. FRAMES : m[n] = Looked(S, m[n - 1], n - 1)
<1> DEFINE N == FRAMES
           round == [n \in 1 .. N |-> [ws \in Bitmaps |-> Looked(S, ws, n - 1)]]
           Body(f) == [n \in 0 .. N |->
                          IF n = 0 THEN Bitmap!new
                          ELSE IF n - 1 \in S THEN Bitmap!mark_free(f[n - 1], n - 1)
                          ELSE f[n - 1]]
<1>0. /\ N \in Nat /\ \A n \in 1 .. N : n - 1 \in Bitmap!Frame
      /\ \A n \in 0 .. N : n = 0 \/ n \in 1 .. N
      /\ \A n \in 1 .. N : n - 1 \in 0 .. N /\ n \in 0 .. N /\ n # 0
      /\ 0 \in 0 .. N
  BY SMT, MirrorAssumption DEF Bitmap!Frame
<1>1. round \in [1 .. N -> [Bitmaps -> Bitmaps]]
  <2>1. ASSUME NEW n \in 1 .. N, NEW ws \in Bitmaps PROVE Looked(S, ws, n - 1) \in Bitmaps
    <3>1. BitsOK(ws) /\ n - 1 \in Bitmap!Frame
      BY <1>0 DEF Bitmaps
    <3>2. BitsOK(Looked(S, ws, n - 1))
      BY <3>1, LookedIs
    <3> QED BY <3>2 DEF BitsOK, Bitmaps
  <2> QED BY <2>1
<1>2. Bitmap!new \in Bitmaps
  BY NewIs DEF BitsOK, Bitmaps
<1>3. PICK f \in [0 .. N -> Bitmaps] :
         f[0] = Bitmap!new /\ \A n \in 1 .. N : f[n] = round[n][f[n - 1]]
  <2> HIDE DEF N, round
  <2>1. Loop(N, Bitmaps, Bitmap!new, round)
    BY <1>0, <1>1, <1>2, LoopExists
  <2> QED BY <2>1 DEF Loop
<1>5. \A n \in 1 .. N : f[n] = Looked(S, f[n - 1], n - 1)
  BY <1>0, <1>3
<1>6. f = Body(f)
  <2>1. \A n \in 0 .. N : f[n] = Body(f)[n]
    BY <1>0, <1>3, <1>5 DEF Looked
  <2> QED BY <1>3, <2>1
<1>7. m = CHOOSE h : h = Body(h)
  BY DEF Marking
<1>8. m = Body(m)
  <2> HIDE DEF Body
  <2> QED BY <1>6, <1>7
<1> QED
  BY <1>0, <1>8 DEF Looked

\* Marking every available frame makes them, and no other, the free ones.
LEMMA MarkingIs ==
    ASSUME NEW S \in SUBSET Bitmap!Frame
    PROVE  BitsOK(Marking(S)[FRAMES]) /\ FreeIn(Marking(S)[FRAMES]) = S
<1>1. PICK m : m = Marking(S)
  OBVIOUS
<1> DEFINE Q == {n \in 0 .. FRAMES : BitsOK(m[n]) /\ FreeIn(m[n]) = S \cap (0 .. n - 1)}
<1>2. /\ FRAMES \in Nat /\ 0 \in 0 .. FRAMES /\ FRAMES \in 0 .. FRAMES
      /\ \A n \in 1 .. FRAMES : n \in 0 .. FRAMES /\ n - 1 \in Bitmap!Frame
      /\ \A n \in 1 .. FRAMES : \A x : x \in 0 .. n - 1 <=> x = n - 1 \/ x \in 0 .. (n - 1) - 1
      /\ 0 .. 0 - 1 = {}
  BY SMT, MirrorAssumption DEF Bitmap!Frame
<1>3. m[0] = Bitmap!new /\ \A n \in 1 .. FRAMES : m[n] = Looked(S, m[n - 1], n - 1)
  BY <1>1, MarkingDef
<1>4. 0 \in Q
  <2>1. S \cap (0 .. 0 - 1) = {}
    BY <1>2
  <2> QED BY <1>2, <1>3, <2>1, NewIs
<1>5. ASSUME NEW n \in 1 .. FRAMES, n - 1 \in Q PROVE n \in Q
  <2>1. PICK ws, f, q : ws = m[n - 1] /\ f = n - 1 /\ q = m[n]
    OBVIOUS
  <2>2. BitsOK(ws) /\ FreeIn(ws) = S \cap (0 .. f - 1)
    BY <1>5, <2>1
  <2>3. f \in Bitmap!Frame /\ q = Looked(S, ws, f)
    BY <1>2, <1>3, <2>1
  <2>4. BitsOK(q) /\ FreeIn(q) = FreeIn(ws) \cup (S \cap {f})
    BY <2>2, <2>3, LookedIs
  <2>5. \A x : x \in 0 .. n - 1 <=> x = f \/ x \in 0 .. f - 1
    BY <1>2, <2>1
  <2>6. FreeIn(q) = S \cap (0 .. n - 1)
    BY <2>2, <2>4, <2>5
  <2> QED BY <1>2, <2>1, <2>4, <2>6
<1>6. \A n \in 0 .. FRAMES : n \in Q
  <2> HIDE DEF Q
  <2> QED BY <1>2, <1>4, <1>5, InductionTo
<1>7. FRAMES \in Q
  BY <1>2, <1>6
<1>8. S \cap (0 .. FRAMES - 1) = S
  BY DEF Bitmap!Frame
<1> QED
  BY <1>1, <1>7, <1>8

\* Every frame on the range list is free in the bitmap, also after the list lost
\* one, so that a load that fails always finds a frame in both.
Beside ==
    /\ BitsOK(words) /\ mirrored \in Bitmap!Frame \cup {NoFrame}
    /\ FreeFrames(regions) \subseteq FreeIn(words)
    /\ lost = {} => answer = mirrored /\ FreeFrames(regions) = FreeIn(words)

MirrorInv == Inv /\ Beside

\* The frames of the range list are frames of the bitmap.
LEMMA UsableFrames ==
    ASSUME Inv
    PROVE  /\ FreeFrames(regions) \subseteq Bitmap!Frame
           /\ \A f \in held : f \in Bitmap!Frame /\ f \in Nat /\ f \notin FreeFrames(regions)
<1>1. /\ FreeFrames(regions) \cup held \cup lost = Usable(memmap) /\ memmap \in MemMaps
      /\ FreeFrames(regions) \cap held = {}
  BY DEF Inv, TypeOK, FramesAccounted
<1>2. Usable(memmap) \subseteq Bitmap!Frame
  BY <1>1, MirrorAssumption DEF Bitmap!Frame
<1>3. Bitmap!Frame \subseteq Nat
  BY SMT, MirrorAssumption DEF Bitmap!Frame
<1> QED
  BY <1>1, <1>2, <1>3

\* Both allocators are filled from the same frames.
LEMMA MirrorInitInv == MirrorInit => MirrorInv
<1> SUFFICES ASSUME MirrorInit PROVE MirrorInv
  OBVIOUS
<1>1. Init /\ words = Marking(FreeFrames(regions))[FRAMES] /\ mirrored = NoFrame
  BY DEF MirrorInit
<1>2. Inv /\ answer = NoFrame
  BY <1>1, InitInv DEF Init
<1>3. FreeFrames(regions) \in SUBSET Bitmap!Frame
  BY <1>2, UsableFrames
<1>4. BitsOK(words) /\ FreeIn(words) = FreeFrames(regions)
  BY <1>1, <1>3, MarkingIs
<1> QED
  BY <1>1, <1>2, <1>4 DEF MirrorInv, Beside

\* Two lowest frames, when the one is among the others.
LEMMA LowestOfTwo ==
    ASSUME NEW F \in SUBSET Nat, NEW W \in SUBSET Nat, F \subseteq W,
           NEW r \in F, \A g \in F : r <= g, NEW w \in W, \A g \in W : w <= g
    PROVE  F \ {r} \subseteq W \ {w} /\ (F = W => r = w)
<1>1. w \in F => r = w
  <2> SUFFICES ASSUME w \in F PROVE r = w
    OBVIOUS
  <2>1. r \in Nat /\ w \in Nat /\ r <= w /\ w <= r
    OBVIOUS
  <2> QED BY SMT, <2>1
<1> QED
  BY <1>1

\* An allocation from both takes the lowest frame of each.
LEMMA MirrorAllocStep ==
    ASSUME MirrorInv, MirrorAlloc
    PROVE  Beside'
<1>i. /\ Inv /\ BitsOK(words) /\ mirrored \in Bitmap!Frame \cup {NoFrame}
      /\ FreeFrames(regions) \subseteq FreeIn(words)
      /\ lost = {} => answer = mirrored /\ FreeFrames(regions) = FreeIn(words)
  BY DEF MirrorInv, Beside
<1>0. PICK a, b : a = alloc(regions) /\ b = Bitmap!alloc(words)
  OBVIOUS
<1>1. /\ answer' = a.frame /\ regions' = a.regs /\ lost' = lost
      /\ words' = b.words /\ mirrored' = b.frame
  BY <1>0 DEF MirrorAlloc, allocate_frame, Bitmap!Alloc
<1>2. BitsOK(words') /\ mirrored' \in Bitmap!Frame \cup {NoFrame}
  <2>1. Bitmap!Alloc
    BY DEF MirrorAlloc
  <2> QED BY <1>i, <2>1, BitmapTypeStep
<1>3. Allocated(b, words)
  BY <1>i, <1>0, BitmapAllocIs
<1>4. CASE FreeFrames(regions) = {} /\ a.frame = NoFrame /\ a.regs = regions
  <2>1. FreeFrames(regions') = {}
    BY <1>1, <1>4
  <2>2. lost = {} => mirrored' = NoFrame /\ FreeIn(words') = {}
    BY <1>i, <1>1, <1>3, <1>4 DEF Allocated
  <2> QED BY <1>1, <1>2, <1>4, <2>1, <2>2 DEF Beside
<1>5. CASE Taken(regions, a.frame, a.regs)
  <2>1. PICK F, W, r, w : /\ F = FreeFrames(regions) /\ W = FreeIn(words)
                          /\ r = a.frame /\ w = b.frame
    OBVIOUS
  <2>2. r \in F /\ (\A g \in F : r <= g) /\ FreeFrames(regions') = F \ {r}
    BY <1>1, <1>5, <2>1 DEF Taken
  <2>3. w \in W /\ (\A g \in W : w <= g) /\ FreeIn(words') = W \ {w}
    BY <1>i, <1>1, <1>3, <2>1, <2>2 DEF Allocated, Cleared
  <2>4. F \in SUBSET Nat /\ W \in SUBSET Nat /\ F \subseteq W
    <3>1. Bitmap!Frame \subseteq Nat
      BY SMT, MirrorAssumption DEF Bitmap!Frame
    <3> QED BY <1>i, <2>1, <3>1 DEF FreeIn
  <2>5. F \ {r} \subseteq W \ {w} /\ (F = W => r = w)
    BY <2>2, <2>3, <2>4, LowestOfTwo
  <2> QED BY <1>i, <1>1, <1>2, <2>1, <2>2, <2>3, <2>5 DEF Beside
<1> QED
  BY <1>i, <1>0, <1>4, <1>5, AllocStep

\* What the failed load leaves in the bitmap: the frame it took, marked again.
LEMMA BorrowedIs ==
    ASSUME NEW ws, BitsOK(ws), FreeIn(ws) # {}, NEW a, a = Bitmap!alloc(ws)
    PROVE  /\ a.frame \in FreeIn(ws) /\ \A g \in FreeIn(ws) : a.frame <= g
           /\ BitsOK(Bitmap!mark_free(a.words, a.frame))
           /\ FreeIn(Bitmap!mark_free(a.words, a.frame)) = FreeIn(ws)
<1>1. /\ a.frame \in FreeIn(ws) /\ \A g \in FreeIn(ws) : a.frame <= g
      /\ Cleared(a.words, ws, a.frame)
  BY BitmapAllocIs DEF Allocated
<1>2. PICK q, f, W : q = a.words /\ f = a.frame /\ W = FreeIn(ws)
  OBVIOUS
<1>3. BitsOK(q) /\ FreeIn(q) = W \ {f} /\ f \in W /\ f \in Bitmap!Frame
  BY <1>1, <1>2 DEF Cleared, FreeIn
<1>4. Marked(Bitmap!mark_free(q, f), q, f)
  BY <1>3, MarkIs
<1>5. W = (W \ {f}) \cup {f}
  BY <1>3
<1> QED
  BY <1>1, <1>2, <1>3, <1>4, <1>5 DEF Marked

\* A load that fails gives both allocators their frame back.
LEMMA MirrorLoadStep ==
    ASSUME MirrorInv, MirrorLoadFails
    PROVE  /\ Beside'
           /\ mirrored' \in FreeIn(words) /\ \A g \in FreeIn(words) : mirrored' <= g
           /\ FreeIn(words') = FreeIn(words)
<1>i. /\ Inv /\ BitsOK(words) /\ Tidy(regions)
      /\ FreeFrames(regions) \subseteq FreeIn(words)
      /\ lost = {} => answer = mirrored /\ FreeFrames(regions) = FreeIn(words)
  BY DEF MirrorInv, Beside, Inv
<1>0. PICK a, b : a = alloc(regions) /\ b = Bitmap!alloc(words)
  OBVIOUS
<1>1. /\ a.frame # NoFrame /\ answer' = a.frame
      /\ regions' = free(a.regs, a.frame) /\ lost' = lost
      /\ mirrored' = b.frame /\ words' = Bitmap!mark_free(b.words, b.frame)
  BY <1>0 DEF MirrorLoadFails, load_extent_fails
<1>2. Taken(regions, a.frame, a.regs)
  BY <1>i, <1>0, <1>1, AllocStep
<1>3. FreeFrames(regions') = FreeFrames(regions)
  BY <1>i, <1>1, <1>2, TakenAndFreed
<1>4. a.frame \in FreeFrames(regions) /\ \A g \in FreeFrames(regions) : a.frame <= g
  BY <1>2 DEF Taken
<1>5. FreeIn(words) # {}
  BY <1>i, <1>4
<1>6. /\ b.frame \in FreeIn(words) /\ \A g \in FreeIn(words) : b.frame <= g
      /\ BitsOK(words') /\ FreeIn(words') = FreeIn(words)
  BY <1>i, <1>0, <1>1, <1>5, BorrowedIs
<1>7. lost = {} => a.frame = b.frame
  <2>1. Bitmap!Frame \subseteq Nat
    BY SMT, MirrorAssumption DEF Bitmap!Frame
  <2>2. FreeIn(words) \subseteq Nat
    BY <2>1 DEF FreeIn
  <2>3. PICK F, W, r, w : /\ F = FreeFrames(regions) /\ W = FreeIn(words)
                          /\ r = a.frame /\ w = b.frame
    OBVIOUS
  <2>4. /\ F \in SUBSET Nat /\ W \in SUBSET Nat /\ F \subseteq W
        /\ r \in F /\ (\A g \in F : r <= g) /\ w \in W /\ (\A g \in W : w <= g)
    BY <1>i, <1>4, <1>6, <2>2, <2>3
  <2>5. F = W => r = w
    BY <2>4, LowestOfTwo
  <2> QED BY <1>i, <2>3, <2>5
<1>8. mirrored' \in Bitmap!Frame \cup {NoFrame}
  BY <1>1, <1>6 DEF FreeIn
<1>9. Beside'
  BY <1>i, <1>1, <1>3, <1>6, <1>7, <1>8 DEF Beside
<1> QED
  BY <1>1, <1>6, <1>9

\* A frame given back to both: the range list may have no room for it.
LEMMA MirrorFreeStep ==
    ASSUME MirrorInv, NEW f \in held, MirrorFree(f)
    PROVE  Beside'
<1>i. /\ Inv /\ Tidy(regions) /\ BitsOK(words) /\ mirrored \in Bitmap!Frame \cup {NoFrame}
      /\ FreeFrames(regions) \subseteq FreeIn(words)
      /\ lost = {} => answer = mirrored /\ FreeFrames(regions) = FreeIn(words)
  BY DEF MirrorInv, Beside, Inv
<1>1. /\ regions' = free(regions, f) /\ answer' = answer
      /\ lost' = IF f \in FreeFrames(regions') THEN lost ELSE lost \cup {f}
      /\ words' = Bitmap!mark_free(words, f) /\ mirrored' = mirrored
  BY DEF MirrorFree, deallocate_frame, Bitmap!Free, Bitmap!MarkFree
<1>2. f \in Bitmap!Frame /\ f \in Nat /\ f \notin FreeFrames(regions)
  BY <1>i, UsableFrames
<1>3. BitsOK(words') /\ FreeIn(words') = FreeIn(words) \cup {f}
  BY <1>i, <1>1, <1>2, MarkIs DEF Marked
<1>4. CASE FreeFrames(regions') = FreeFrames(regions) \cup {f}
  <2>1. lost' = lost
    BY <1>1, <1>4
  <2> QED BY <1>i, <1>1, <1>3, <1>4, <2>1 DEF Beside
<1>5. CASE FreeFrames(regions') = FreeFrames(regions)
  <2>1. f \in lost'
    BY <1>1, <1>2, <1>5
  <2>2. lost' # {}
    BY <2>1
  <2>3. FreeFrames(regions') \subseteq FreeIn(words')
    BY <1>i, <1>3, <1>5
  <2> QED BY <1>i, <1>1, <1>3, <2>2, <2>3 DEF Beside
<1>6. \/ FreeFrames(regions') = FreeFrames(regions) \cup {f}
      \/ FreeFrames(regions') = FreeFrames(regions)
  BY <1>i, <1>1, <1>2, FreeSpec
<1> QED
  BY <1>4, <1>5, <1>6

\* A step of the two together is a step of the range list.
LEMMA MirrorNextIs == [MirrorNext]_mirrorVars => [Next]_vars
BY DEF MirrorNext, MirrorAlloc, MirrorLoadFails, MirrorFree, mirrorVars, Next

\* Every step of the two together keeps their invariant.
LEMMA MirrorNextInv ==
    ASSUME MirrorInv, [MirrorNext]_mirrorVars
    PROVE  MirrorInv'
<1>1. Inv'
  BY MirrorNextIs, NextInv DEF MirrorInv
<1>3. Beside'
  <2>1. CASE UNCHANGED mirrorVars
    <3>1. /\ regions' = regions /\ words' = words /\ mirrored' = mirrored
          /\ answer' = answer /\ lost' = lost
      BY <2>1 DEF mirrorVars, vars
    <3>2. Beside
      BY DEF MirrorInv
    <3> QED BY <3>1, <3>2 DEF Beside
  <2> QED
    BY <2>1, MirrorAllocStep, MirrorLoadStep, MirrorFreeStep DEF MirrorNext
<1> QED
  BY <1>1, <1>3 DEF MirrorInv

\* The two agree on the free frames, and the list is tidy.
LEMMA MirrorInvHolds == MirrorSpec => []MirrorInv
<1>1. MirrorInv /\ [MirrorNext]_mirrorVars => MirrorInv'
  BY MirrorNextInv
<1> QED
  BY MirrorInitInv, <1>1, PTL DEF MirrorSpec

\* The range list is not disturbed by the bitmap beside it: what is proved of
\* Spec holds of the two together.
THEOREM MirrorRunsList == MirrorSpec => Spec
<1>1. MirrorInit => Init
  BY DEF MirrorInit
<1> QED
  BY <1>1, MirrorNextIs, PTL DEF MirrorSpec, Spec

\* Until the range list has no room for a freed frame, it and the bitmap answer
\* every call alike, hold the same frames free and count as many: what is
\* established for the crate's bitmap describes the kernel's allocator.
THEOREM BitmapMirrorsList == MirrorSpec => []MirrorAgrees
<1>1. MirrorInv => MirrorAgrees
  <2> SUFFICES ASSUME MirrorInv, lost = {}
               PROVE  /\ answer = mirrored
                      /\ free_count(regions) = Bitmap!free_count(words)
                      /\ FreeFrames(regions) = Bitmap!FreeFrames
    BY DEF MirrorAgrees
  <2>1. /\ answer = mirrored /\ FreeFrames(regions) = FreeIn(words)
        /\ BitsOK(words) /\ Tidy(regions)
    BY DEF MirrorInv, Beside, Inv
  <2>2. free_count(regions) = Cardinality(FreeFrames(regions))
    BY <2>1, FreeCountIs
  <2>3. Bitmap!free_count(words) = Cardinality(FreeIn(words))
    BY <2>1, OnesIs
  <2> QED BY <2>1, <2>2, <2>3, FreeFramesIs
<1> QED
  BY MirrorInvHolds, <1>1, PTL

\* Under the kernel's calls, a load that fails between them included, the
\* bitmap is the abstract pool, from whatever frames the boot marked free.
THEOREM MirrorIsPool == MirrorSpec => BitmapImplementsPool
<1>1. MirrorInit => Bitmap!Pool!Init
  BY DEF MirrorInit, Bitmap!Pool!Init
<1>2. MirrorInv /\ [MirrorNext]_mirrorVars => [Bitmap!Pool!Next]_(Bitmap!Pool!vars)
  <2> SUFFICES ASSUME MirrorInv, [MirrorNext]_mirrorVars
               PROVE  [Bitmap!Pool!Next]_(Bitmap!Pool!vars)
    OBVIOUS
  <2>0. BitsOK(words) /\ Inv
    BY DEF MirrorInv, Beside
  <2>1. CASE MirrorAlloc
    BY <2>0, <2>1, BitmapPoolStep DEF MirrorAlloc
  <2>2. CASE MirrorLoadFails
    <3>1. PICK f, B : f = mirrored' /\ B = FreeIn(words)
      OBVIOUS
    <3>2. f \in B /\ (\A g \in B : f <= g) /\ FreeIn(words') = B
      BY <2>2, <3>1, MirrorLoadStep
    <3>3. f = Bitmap!Pool!Lowest(B)
      BY <3>1, <3>2, LowestIs
    <3>4. Bitmap!FreeFrames = B /\ Bitmap!FreeFrames' = B
      BY <3>1, <3>2, FreeFramesIs
    <3>5. Bitmap!Pool!Borrow
      BY <3>1, <3>2, <3>3, <3>4 DEF Bitmap!Pool!Borrow
    <3> QED BY <3>5 DEF Bitmap!Pool!Next
  <2>3. ASSUME NEW f \in held, MirrorFree(f)
        PROVE  [Bitmap!Pool!Next]_(Bitmap!Pool!vars)
    <3>1. f \in Nat /\ Bitmap!MarkFree(f)
      BY <2>0, <2>3, UsableFrames DEF MirrorFree, Bitmap!Free
    <3> QED BY <2>0, <3>1, BitmapPoolStep
  <2>4. CASE UNCHANGED mirrorVars
    <3>1. UNCHANGED Bitmap!vars
      BY <2>4 DEF mirrorVars, Bitmap!vars
    <3> QED BY <2>0, <3>1, BitmapPoolStep
  <2> QED BY <2>1, <2>2, <2>3, <2>4 DEF MirrorNext
<1> QED
  BY <1>1, <1>2, MirrorInvHolds, PTL
     DEF MirrorSpec, BitmapImplementsPool, Bitmap!ImplementsPool, Bitmap!Pool!Spec

=============================================================================
