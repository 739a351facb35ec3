---------------------------- MODULE SumTheorems -----------------------------
(***************************************************************************)
(* What the sums of a book's fills and orders do when a term is added or   *)
(* changed.  The induction has its hypothesis as a set of numbers, so the  *)
(* well-foundedness of the naturals is all it rests on.                    *)
(***************************************************************************)
EXTENDS Sums, WellFoundedInduction, TLAPS

-----------------------------------------------------------------------------
(* Induction *)

\* A set of naturals that is not empty has a least one.
LEMMA LeastNatural ==
  ASSUME NEW T \in SUBSET Nat, T # {}
  PROVE  \E n \in T : \A m \in T : n <= m
<1> DEFINE R == OpToRel(<, Nat)
<1>1. IsWellFoundedOn(R, Nat)
  BY NatLessThanWellFounded
<1>2. \A x, y \in Nat : x < y => <<x, y>> \in R
  BY DEF OpToRel
<1> HIDE DEF R
<1>3. \E n \in T : \A m \in T : ~ (<<m, n>> \in R)
  BY <1>1, WFMin
<1>4. \A x, y \in Nat : <<x, y>> \notin R => y <= x
  <2>1. \A x, y \in Nat : x < y \/ y <= x
    OBVIOUS
  <2> QED
    BY <1>2, <2>1, Zenon
<1> QED
  BY <1>3, <1>4, Zenon

\* Induction with the hypothesis as a set of numbers.
LEMMA Everywhere ==
  ASSUME NEW H \in SUBSET Nat, 0 \in H, \A n \in H : n + 1 \in H
  PROVE  H = Nat
<1> SUFFICES ASSUME Nat \ H # {} PROVE FALSE
  OBVIOUS
<1>1. PICK n \in Nat \ H : \A m \in Nat \ H : n <= m
  BY LeastNatural
<1>2. n # 0
  OBVIOUS
<1>3. n - 1 \in Nat /\ n - 1 \notin Nat \ H
  BY <1>1, <1>2
<1> QED
  BY <1>1, <1>3

-----------------------------------------------------------------------------
(* The recursion defines a function *)

\* A running sum of f up to m.
IsSumUpTo(g, f, m) ==
  g = [n \in 0 .. m |-> IF n = 0 THEN 0 ELSE g[n - 1] + f[n]]

\* Its entries.
LEMMA SumUpToEntries ==
  ASSUME NEW f, NEW g, NEW m \in Nat, IsSumUpTo(g, f, m)
  PROVE  /\ DOMAIN g = 0 .. m
         /\ g[0] = 0
         /\ \A n \in Nat : n + 1 <= m => g[n + 1] = g[n] + f[n + 1]
<1>0. DOMAIN g = 0 .. m
  BY DEF IsSumUpTo
<1>1. \A n \in 0 .. m : g[n] = IF n = 0 THEN 0 ELSE g[n - 1] + f[n]
  BY Zenon DEF IsSumUpTo
<1>2. 0 \in 0 .. m /\ \A n \in Nat : n + 1 <= m => n + 1 \in 0 .. m /\ n + 1 # 0 /\ (n + 1) - 1 = n
  OBVIOUS
<1> QED
  BY <1>0, <1>1, <1>2, Zenon

\* There is one up to any number.
LEMMA SumUpToExists ==
  ASSUME NEW f, NEW m \in Nat
  PROVE  \E g : IsSumUpTo(g, f, m)
<1> DEFINE H == {k \in Nat : \E g : IsSumUpTo(g, f, k)}
<1>1. 0 \in H
  <2> DEFINE g == [n \in 0 .. 0 |-> 0]
  <2>1. \A n \in 0 .. 0 : n = 0
    OBVIOUS
  <2>2. IsSumUpTo(g, f, 0)
    BY <2>1 DEF IsSumUpTo
  <2> QED
    BY <2>2
<1>2. ASSUME NEW k \in H
      PROVE  k + 1 \in H
  <2>1. PICK g : IsSumUpTo(g, f, k)
    OBVIOUS
  <2>2. /\ DOMAIN g = 0 .. k /\ g[0] = 0
        /\ \A n \in Nat : n + 1 <= k => g[n + 1] = g[n] + f[n + 1]
    BY <2>1, SumUpToEntries
  <2> DEFINE h == [n \in 0 .. k + 1 |-> IF n = k + 1 THEN g[k] + f[k + 1] ELSE g[n]]
  <2>3. ASSUME NEW n \in 0 .. k + 1
        PROVE  h[n] = IF n = 0 THEN 0 ELSE h[n - 1] + f[n]
    <3>1. CASE n = 0
      BY <2>2, <3>1
    <3>2. CASE n = k + 1
      <4>1. k \in 0 .. k + 1 /\ k # k + 1 /\ n - 1 = k /\ n # 0
        BY <3>2
      <4>2. h[n] = g[k] + f[k + 1] /\ h[k] = g[k]
        BY <3>2, <4>1
      <4> QED
        BY <3>2, <4>1, <4>2
    <3>3. CASE n # 0 /\ n # k + 1
      <4>1. n - 1 \in Nat /\ (n - 1) + 1 = n /\ n <= k /\ n - 1 \in 0 .. k + 1 /\ n - 1 # k + 1
        BY <3>3
      <4>2. g[n] = g[n - 1] + f[n]
        BY <2>2, <4>1
      <4>3. h[n] = g[n] /\ h[n - 1] = g[n - 1]
        BY <3>3, <4>1
      <4> QED
        BY <3>3, <4>2, <4>3
    <3> QED
      BY <3>1, <3>2, <3>3
  <2>4. h = [n \in 0 .. k + 1 |-> IF n = 0 THEN 0 ELSE h[n - 1] + f[n]]
    <3>1. h = [n \in 0 .. k + 1 |-> h[n]]
      OBVIOUS
    <3> HIDE DEF h
    <3> QED
      BY <2>3, <3>1
  <2>5. IsSumUpTo(h, f, k + 1)
    BY <2>4 DEF IsSumUpTo
  <2> HIDE DEF h
  <2> QED
    BY <2>5
<1> HIDE DEF H
<1>3. H = Nat
  BY <1>1, <1>2, Everywhere DEF H
<1> QED
  BY <1>3 DEF H

\* Two of them agree as far as both go.
LEMMA SumsAgree ==
  ASSUME NEW f, NEW g, NEW h, NEW m \in Nat, NEW n \in Nat,
         IsSumUpTo(g, f, m), IsSumUpTo(h, f, n), NEW k \in Nat, k <= m, k <= n
  PROVE  g[k] = h[k]
<1> DEFINE H == {i \in Nat : i <= m /\ i <= n => g[i] = h[i]}
<1>1. /\ g[0] = 0 /\ \A i \in Nat : i + 1 <= m => g[i + 1] = g[i] + f[i + 1]
      /\ h[0] = 0 /\ \A i \in Nat : i + 1 <= n => h[i + 1] = h[i] + f[i + 1]
  BY SumUpToEntries, Zenon
<1>2. 0 \in H
  BY <1>1
<1>3. ASSUME NEW i \in H
      PROVE  i + 1 \in H
  <2>1. i \in Nat /\ i + 1 \in Nat
    OBVIOUS
  <2>2. ASSUME i + 1 <= m, i + 1 <= n
        PROVE  g[i + 1] = h[i + 1]
    <3>1. g[i] = h[i]
      BY <2>2
    <3> QED
      BY <1>1, <2>1, <2>2, <3>1
  <2> QED
    BY <2>1, <2>2
<1> HIDE DEF H
<1>4. H = Nat
  BY <1>2, <1>3, Everywhere DEF H
<1> QED
  BY <1>4 DEF H

\* There is one for all numbers: what the recursion of Running asks for.
LEMMA RunningExists ==
  ASSUME NEW f
  PROVE  \E s : s = [n \in Nat |-> IF n = 0 THEN 0 ELSE s[n - 1] + f[n]]
<1> DEFINE G(n) == CHOOSE g : IsSumUpTo(g, f, n)
           s == [n \in Nat |-> G(n)[n]]
<1>1. \A n \in Nat : IsSumUpTo(G(n), f, n)
  BY SumUpToExists
<1> HIDE DEF G
<1>2. ASSUME NEW n \in Nat
      PROVE  s[n] = IF n = 0 THEN 0 ELSE s[n - 1] + f[n]
  <2>1. CASE n = 0
    BY <1>1, <2>1, SumUpToEntries
  <2>2. CASE n # 0
    <3>1. n - 1 \in Nat /\ (n - 1) + 1 = n /\ n - 1 <= n /\ n - 1 <= n - 1 /\ n <= n
      BY <2>2
    <3>2. IsSumUpTo(G(n), f, n) /\ IsSumUpTo(G(n - 1), f, n - 1)
      BY <1>1, <3>1
    <3>3. G(n)[n] = G(n)[n - 1] + f[n]
      <4>1. \A i \in Nat : i + 1 <= n => G(n)[i + 1] = G(n)[i] + f[i + 1]
        BY <3>2, SumUpToEntries
      <4> QED
        BY <3>1, <4>1
    <3>4. G(n)[n - 1] = G(n - 1)[n - 1]
      BY <3>1, <3>2, SumsAgree
    <3>5. s[n] = G(n)[n] /\ s[n - 1] = G(n - 1)[n - 1]
      BY <3>1
    <3> QED
      BY <2>2, <3>3, <3>4, <3>5
  <2> QED
    BY <2>1, <2>2
<1>3. s = [n \in Nat |-> s[n]]
  OBVIOUS
<1> HIDE DEF s
<1> QED
  BY <1>2, <1>3

\* The sum of no term is zero, one more term is added.
LEMMA RunningDef ==
  ASSUME NEW f
  PROVE  /\ SumTo(f, 0) = 0
         /\ \A n \in Nat : SumTo(f, n + 1) = SumTo(f, n) + f[n + 1]
<1> DEFINE s == Running(f)
<1>1. s = [n \in Nat |-> IF n = 0 THEN 0 ELSE s[n - 1] + f[n]]
  BY RunningExists DEF Running
<1> HIDE DEF s
<1>2. \A n \in Nat : s[n] = IF n = 0 THEN 0 ELSE s[n - 1] + f[n]
  BY <1>1, Zenon
<1>3. \A n \in Nat : n + 1 \in Nat /\ n + 1 # 0 /\ (n + 1) - 1 = n
  OBVIOUS
<1>4. s[0] = 0 /\ \A n \in Nat : s[n + 1] = s[n] + f[n + 1]
  <2>1. 0 \in Nat
    OBVIOUS
  <2> QED
    BY <1>2, <1>3, <2>1, Zenon
<1> QED
  BY <1>4 DEF s, SumTo

-----------------------------------------------------------------------------
(* Sums *)

\* A sum of integers is one.
LEMMA SumType ==
  ASSUME NEW f, NEW n \in Nat, \A k \in 1 .. n : f[k] \in Int
  PROVE  SumTo(f, n) \in Int
<1> DEFINE H == {m \in Nat : m <= n => SumTo(f, m) \in Int}
<1>1. 0 \in H
  BY RunningDef
<1>2. ASSUME NEW m \in H
      PROVE  m + 1 \in H
  <2>1. SumTo(f, m + 1) = SumTo(f, m) + f[m + 1]
    BY RunningDef
  <2>2. m + 1 <= n => f[m + 1] \in Int /\ m <= n
    OBVIOUS
  <2> QED BY <2>1, <2>2
<1> HIDE DEF H
<1>3. H = Nat
  BY <1>1, <1>2, Everywhere DEF H
<1> QED BY <1>3 DEF H

\* Equal terms have equal sums.
LEMMA SumSame ==
  ASSUME NEW f, NEW g, NEW n \in Nat, \A k \in 1 .. n : f[k] = g[k]
  PROVE  SumTo(f, n) = SumTo(g, n)
<1> DEFINE H == {m \in Nat : m <= n => SumTo(f, m) = SumTo(g, m)}
<1>1. 0 \in H
  BY RunningDef
<1>2. ASSUME NEW m \in H
      PROVE  m + 1 \in H
  <2>1. /\ SumTo(f, m + 1) = SumTo(f, m) + f[m + 1]
        /\ SumTo(g, m + 1) = SumTo(g, m) + g[m + 1]
    BY RunningDef
  <2>2. m + 1 <= n => f[m + 1] = g[m + 1] /\ m <= n
    OBVIOUS
  <2> QED BY <2>1, <2>2
<1> HIDE DEF H
<1>3. H = Nat
  BY <1>1, <1>2, Everywhere DEF H
<1> QED BY <1>3 DEF H

\* The term behind the others is added.
LEMMA SumAppend ==
  ASSUME NEW f, NEW g, NEW n \in Nat, \A k \in 1 .. n : g[k] = f[k]
  PROVE  SumTo(g, n + 1) = SumTo(f, n) + g[n + 1]
<1>1. SumTo(g, n + 1) = SumTo(g, n) + g[n + 1]
  BY RunningDef
<1>2. SumTo(g, n) = SumTo(f, n)
  BY SumSame
<1> QED BY <1>1, <1>2

\* Terms added up one by one are sums added up.
LEMMA SumPlus ==
  ASSUME NEW f, NEW g, NEW h, NEW n \in Nat,
         \A k \in 1 .. n : f[k] \in Int /\ g[k] \in Int /\ h[k] = f[k] + g[k]
  PROVE  SumTo(h, n) = SumTo(f, n) + SumTo(g, n)
<1> DEFINE H == {m \in Nat : m <= n => SumTo(h, m) = SumTo(f, m) + SumTo(g, m)}
<1>1. 0 \in H
  BY RunningDef
<1>2. ASSUME NEW m \in H
      PROVE  m + 1 \in H
  <2> SUFFICES ASSUME m + 1 <= n
               PROVE  SumTo(h, m + 1) = SumTo(f, m + 1) + SumTo(g, m + 1)
    OBVIOUS
  <2>1. /\ SumTo(f, m + 1) = SumTo(f, m) + f[m + 1]
        /\ SumTo(g, m + 1) = SumTo(g, m) + g[m + 1]
        /\ SumTo(h, m + 1) = SumTo(h, m) + h[m + 1]
    BY RunningDef
  <2>2. f[m + 1] \in Int /\ g[m + 1] \in Int /\ h[m + 1] = f[m + 1] + g[m + 1]
    OBVIOUS
  <2>3. SumTo(f, m) \in Int /\ SumTo(g, m) \in Int
    <3>1. m \in Nat /\ \A k \in 1 .. m : k \in 1 .. n
      OBVIOUS
    <3> QED BY <3>1, SumType
  <2>4. SumTo(h, m) = SumTo(f, m) + SumTo(g, m)
    OBVIOUS
  <2> HIDE DEF H
  <2> QED BY <2>1, <2>2, <2>3, <2>4
<1> HIDE DEF H
<1>3. H = Nat
  BY <1>1, <1>2, Everywhere DEF H
<1> QED BY <1>3 DEF H

\* Smaller terms have a smaller sum.
LEMMA SumMonotone ==
  ASSUME NEW f, NEW g, NEW n \in Nat,
         \A k \in 1 .. n : f[k] \in Int /\ g[k] \in Int /\ f[k] <= g[k]
  PROVE  SumTo(f, n) <= SumTo(g, n)
<1> DEFINE H == {m \in Nat : m <= n => SumTo(f, m) <= SumTo(g, m)}
<1>1. 0 \in H
  BY RunningDef
<1>2. ASSUME NEW m \in H
      PROVE  m + 1 \in H
  <2> SUFFICES ASSUME m + 1 <= n
               PROVE  SumTo(f, m + 1) <= SumTo(g, m + 1)
    OBVIOUS
  <2>1. /\ SumTo(f, m + 1) = SumTo(f, m) + f[m + 1]
        /\ SumTo(g, m + 1) = SumTo(g, m) + g[m + 1]
    BY RunningDef
  <2>2. f[m + 1] \in Int /\ g[m + 1] \in Int /\ f[m + 1] <= g[m + 1]
    OBVIOUS
  <2>3. SumTo(f, m) \in Int /\ SumTo(g, m) \in Int
    <3>1. m \in Nat /\ \A k \in 1 .. m : k \in 1 .. n
      OBVIOUS
    <3> QED BY <3>1, SumType
  <2>4. SumTo(f, m) <= SumTo(g, m)
    OBVIOUS
  <2> HIDE DEF H
  <2> QED BY <2>1, <2>2, <2>3, <2>4
<1> HIDE DEF H
<1>3. H = Nat
  BY <1>1, <1>2, Everywhere DEF H
<1> QED BY <1>3 DEF H

\* Terms that are nothing add up to nothing.
LEMMA SumZero ==
  ASSUME NEW f, NEW n \in Nat, \A k \in 1 .. n : f[k] = 0
  PROVE  SumTo(f, n) = 0
<1> DEFINE H == {m \in Nat : m <= n => SumTo(f, m) = 0}
<1>1. 0 \in H
  BY RunningDef
<1>2. ASSUME NEW m \in H
      PROVE  m + 1 \in H
  <2>1. SumTo(f, m + 1) = SumTo(f, m) + f[m + 1]
    BY RunningDef
  <2>2. m + 1 <= n => f[m + 1] = 0 /\ m <= n
    OBVIOUS
  <2> QED BY <2>1, <2>2
<1> HIDE DEF H
<1>3. H = Nat
  BY <1>1, <1>2, Everywhere DEF H
<1> QED BY <1>3 DEF H

\* One term changed changes the sum by as much.
LEMMA SumChange ==
  ASSUME NEW f, NEW g, NEW n \in Nat, NEW i \in 1 .. n,
         \A k \in 1 .. n : f[k] \in Int /\ g[k] \in Int,
         \A k \in 1 .. n : k # i => g[k] = f[k]
  PROVE  SumTo(g, n) = (SumTo(f, n) - f[i]) + g[i]
<1> DEFINE d == [k \in 1 .. n |-> IF k = i THEN g[i] - f[i] ELSE 0]
           H == {m \in Nat : m <= n => SumTo(d, m) = IF m < i THEN 0 ELSE d[i]}
<1>1. \A k \in 1 .. n : f[k] \in Int /\ d[k] \in Int /\ g[k] = f[k] + d[k]
  OBVIOUS
<1>2. d[i] = g[i] - f[i] /\ d[i] \in Int /\ \A k \in 1 .. n : k # i => d[k] = 0
  OBVIOUS
<1> HIDE DEF d
<1>3. 0 \in H
  BY RunningDef
<1>4. ASSUME NEW m \in H
      PROVE  m + 1 \in H
  <2>1. SumTo(d, m + 1) = SumTo(d, m) + d[m + 1]
    BY RunningDef
  <2>2. m + 1 <= n => m <= n /\ m + 1 \in 1 .. n
    OBVIOUS
  <2> QED BY <1>2, <2>1, <2>2
<1> HIDE DEF H
<1>5. n \in H
  BY <1>3, <1>4, Everywhere DEF H
<1>6. SumTo(d, n) = d[i]
  BY <1>5 DEF H
<1>7. SumTo(g, n) = SumTo(f, n) + SumTo(d, n)
  BY <1>1, SumPlus
<1>8. SumTo(f, n) \in Int
  BY SumType
<1> QED BY <1>2, <1>6, <1>7, <1>8
=============================================================================
