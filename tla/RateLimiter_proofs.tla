------------------------- MODULE RateLimiter_proofs -------------------------
(***************************************************************************)
(* Proofs about RateLimiter and DetailFetchPool, for any number of calls,  *)
(* messages and workers, any windows and backoffs and under every fault:   *)
(* what the limiter lets through, and what the pool returns.               *)
(***************************************************************************)
EXTENDS DetailFetchPool, SequenceTheorems, WellFoundedInduction, TLAPS

-----------------------------------------------------------------------------
(* Numbers.                                                                 *)

\* A set of numbers that is not empty has a least one.
LEMMA LeastNumber ==
    ASSUME NEW S \in SUBSET Nat, S # {}
    PROVE  \E k \in S : \A j \in S : k <= j
<1>1. PICK k \in S : \A j \in S : <<j, k>> \notin OpToRel(<, Nat)
  BY NatLessThanWellFounded, WFMin
<1>2. \A j \in S : ~(j < k)
  BY <1>1 DEF OpToRel
<1> QED
  BY <1>2

\* One of the first n values of a function is the largest.
LEMMA LargestValue ==
    ASSUME NEW n \in Nat \ {0}, NEW f \in [1..n -> Nat]
    PROVE  \E i \in 1..n : \A j \in 1..n : f[j] <= f[i]
<1> DEFINE Top(k) == \E i \in 1..k : \A j \in 1..k : f[j] <= f[i]
           bad == {k \in 1..n : ~Top(k)}
<1>1. ASSUME bad # {} PROVE FALSE
  <2>1. bad \in SUBSET Nat
    OBVIOUS
  <2>2. PICK k \in bad : \A j \in bad : k <= j
    <3> HIDE DEF bad
    <3> QED
      BY <1>1, <2>1, LeastNumber
  <2>3. k \in 1..n /\ ~Top(k)
    BY <2>2
  <2>4. k # 1
    <3>1. Top(1)
      OBVIOUS
    <3> QED
      BY <2>3, <3>1
  <2>5. k - 1 \in 1..n /\ Top(k - 1)
    <3>1. k - 1 \in 1..n
      BY <2>3, <2>4
    <3>2. k - 1 \notin bad
      <4>1. k \in Nat /\ ~(k <= k - 1)
        BY <2>3
      <4> HIDE DEF bad
      <4> QED
        BY <2>2, <4>1
    <3> QED
      BY <3>1, <3>2
  <2>6. PICK i \in 1..(k - 1) : \A j \in 1..(k - 1) : f[j] <= f[i]
    BY <2>5
  <2>7. /\ \A j \in 1..k : j \in 1..(k - 1) \/ j = k
        /\ i \in 1..k /\ k \in 1..k /\ f[i] \in Nat /\ f[k] \in Nat
        /\ \A j \in 1..k : f[j] \in Nat
    BY <2>3, <2>4, <2>6
  <2>8. CASE f[k] <= f[i]
    BY <2>3, <2>6, <2>7, <2>8
  <2>9. CASE f[i] < f[k]
    BY <2>3, <2>6, <2>7, <2>9
  <2> QED
    BY <2>7, <2>8, <2>9
<1>2. n \in 1..n
  OBVIOUS
<1>3. n \notin bad
  <2> HIDE DEF bad
  <2> QED
    BY <1>1
<1> QED
  BY <1>2, <1>3

\* largestWindow is one of the windows' sizes, and no window is larger.
LEMMA WindowSizes ==
    /\ largestWindow \in Nat \ {0}
    /\ \A i \in DOMAIN Windows :
         /\ Windows[i].size \in Nat \ {0} /\ Windows[i].limit \in Nat
         /\ Windows[i].size <= largestWindow
<1> DEFINE n == Len(Windows)
           f == [i \in 1..n |-> Windows[i].size]
           sizes == {Windows[i].size : i \in DOMAIN Windows}
<1>1. n \in Nat \ {0} /\ DOMAIN Windows = 1..n
  BY WindowsAssumption, LenProperties, EmptySeq
<1>2. \A i \in DOMAIN Windows : Windows[i].size \in Nat \ {0} /\ Windows[i].limit \in Nat
  <2> DEFINE W == [size : Nat \ {0}, limit : Nat \ {0}]
  <2>1. Windows \in Seq(W)
    BY WindowsAssumption
  <2> HIDE DEF W
  <2>2. \A i \in DOMAIN Windows : Windows[i] \in W
    BY <1>1, <2>1, ElementOfSeq
  <2> QED
    BY <2>2 DEF W
<1>3. f \in [1..n -> Nat]
  BY <1>1, <1>2
<1>4. PICK i \in 1..n : \A j \in 1..n : f[j] <= f[i]
  <2> HIDE DEF f, n
  <2> QED
    BY <1>1, <1>3, LargestValue
<1>5. \E x \in sizes : \A y \in sizes : x >= y
  <2>1. \A j \in 1..n : Windows[j].size <= Windows[i].size
    BY <1>4
  <2> HIDE DEF n
  <2>2. \A y \in sizes : y <= Windows[i].size
    BY <1>1, <2>1
  <2> QED
    BY <1>1, <1>2, <2>2
<1>6. largestWindow \in sizes /\ \A y \in sizes : largestWindow >= y
  BY <1>5 DEF largestWindow, Max
<1> QED
  BY <1>2, <1>6

-----------------------------------------------------------------------------
(* sumWindow.                                                               *)

\* Running totals of f from age "at" on.
Totals(t, f, at, size) ==
    /\ t \in [0..size -> Nat] /\ t[0] = 0
    /\ \A n \in 1..size : t[n] = t[n - 1] + f[at + n - 1]

\* There are such totals.
LEMMA TotalsExist ==
    ASSUME NEW at \in Nat, NEW size \in Nat, NEW f,
           \A n \in 1..size : f[at + n - 1] \in Nat
    PROVE  \E t : Totals(t, f, at, size)
<1> DEFINE bad == {k \in 0..size : ~\E t : Totals(t, f, at, k)}
<1>1. ASSUME bad # {} PROVE FALSE
  <2>1. bad \in SUBSET Nat
    OBVIOUS
  <2>2. PICK k \in bad : \A j \in bad : k <= j
    <3> HIDE DEF bad
    <3> QED
      BY <1>1, <2>1, LeastNumber
  <2>3. k \in 0..size /\ ~\E t : Totals(t, f, at, k)
    BY <2>2
  <2>4. CASE k = 0
    <3>1. Totals([n \in 0..0 |-> 0], f, at, 0)
      BY DEF Totals
    <3> QED
      BY <2>3, <2>4, <3>1
  <2>5. CASE k # 0
    <3>1. k - 1 \in 0..size /\ ~(k <= k - 1) /\ k \in Nat
      BY <2>3, <2>5
    <3>2. k - 1 \notin bad
      <4> HIDE DEF bad
      <4> QED
        BY <2>2, <3>1
    <3>3. PICK t : Totals(t, f, at, k - 1)
      BY <3>1, <3>2
    <3> DEFINE u == [n \in 0..k |-> IF n = k THEN t[k - 1] + f[at + k - 1] ELSE t[n]]
    <3>4. /\ \A n \in 0..k : n # k => n \in 0..(k - 1)
          /\ k - 1 \in 0..(k - 1) /\ k \in 1..size /\ 0 \in 0..k
          /\ \A n \in 1..k : n # k => n \in 1..(k - 1)
          /\ \A n \in 1..k : n - 1 \in 0..k /\ n - 1 # k /\ n \in 0..k
      BY <2>3, <2>5
    <3>5. u \in [0..k -> Nat]
      <4>1. \A n \in 0..(k - 1) : t[n] \in Nat
        BY <3>3 DEF Totals
      <4>2. t[k - 1] \in Nat /\ f[at + k - 1] \in Nat
        BY <3>4, <4>1
      <4>3. t[k - 1] + f[at + k - 1] \in Nat
        BY <4>2
      <4> QED
        BY <3>4, <4>1, <4>3
    <3>6. u[0] = 0
      BY <2>5, <3>3, <3>4 DEF Totals
    <3>7. \A n \in 1..k : u[n] = u[n - 1] + f[at + n - 1]
      BY <3>3, <3>4 DEF Totals
    <3>8. Totals(u, f, at, k)
      <4> HIDE DEF u
      <4> QED
        BY <3>5, <3>6, <3>7 DEF Totals
    <3> QED
      BY <2>3, <3>8
  <2> QED
    BY <2>4, <2>5
<1>2. size \in 0..size
  OBVIOUS
<1>3. size \notin bad
  <2> HIDE DEF bad
  <2> QED
    BY <1>1
<1> QED
  BY <1>2, <1>3

\* f has numbers where a window at "at" reads it.
Numbers(f, at, size) == \A n \in 1..size : f[at + n - 1] \in Nat

\* f from "at" on is what g is from "by" on.
Same(f, at, g, by, size) == \A n \in 1..size : f[at + n - 1] = g[by + n - 1]

\* Totals of the same numbers are the same.
LEMMA TotalsAgree ==
    ASSUME NEW at \in Nat, NEW by \in Nat, NEW size \in Nat, NEW f, NEW g, NEW s, NEW t,
           Same(f, at, g, by, size), Totals(s, f, at, size), Totals(t, g, by, size)
    PROVE  \A n \in 0..size : s[n] = t[n]
<1> DEFINE bad == {n \in 0..size : s[n] # t[n]}
<1>1. ASSUME bad # {} PROVE FALSE
  <2>1. bad \in SUBSET Nat
    OBVIOUS
  <2>2. PICK k \in bad : \A j \in bad : k <= j
    <3> HIDE DEF bad
    <3> QED
      BY <1>1, <2>1, LeastNumber
  <2>3. k \in 1..size /\ k - 1 \in 0..size /\ s[k] # t[k] /\ ~(k <= k - 1)
    BY <2>2 DEF Totals
  <2>4. k - 1 \notin bad
    <3> HIDE DEF bad
    <3> QED
      BY <2>2, <2>3
  <2>5. s[k - 1] = t[k - 1] /\ f[at + k - 1] = g[by + k - 1]
    BY <2>3, <2>4 DEF Same
  <2> QED
    BY <2>3, <2>5 DEF Totals
<1> QED
  BY <1>1

\* sumWindow is the last of them.
LEMMA SumWindowIsTotal ==
    ASSUME NEW at \in Nat, NEW size \in Nat, NEW f,
           \A n \in 1..size : f[at + n - 1] \in Nat
    PROVE  \E t : Totals(t, f, at, size) /\ sumWindow(f, at, size) = t[size]
<1> DEFINE R(t) == [n \in 0..size |-> IF n = 0 THEN 0 ELSE t[n - 1] + f[at + n - 1]]
           c == CHOOSE t : t = R(t)
<1>1. PICK g : Totals(g, f, at, size)
  BY TotalsExist
<1>2. g = R(g)
  <2>1. \A n \in 0..size : g[n] = IF n = 0 THEN 0 ELSE g[n - 1] + f[at + n - 1]
    BY <1>1 DEF Totals
  <2> QED
    BY <1>1, <2>1 DEF Totals
<1>3. c = R(c)
  BY <1>2
<1>4. sumWindow(f, at, size) = c[size]
  BY DEF sumWindow
<1>5. PICK t : t = c
  OBVIOUS
<1> HIDE DEF c
<1>6. /\ t[0] = 0 /\ DOMAIN t = 0..size /\ t = [n \in 0..size |-> t[n]]
      /\ \A n \in 1..size : t[n] = t[n - 1] + f[at + n - 1]
  BY <1>3, <1>5
<1> HIDE DEF R
<1> DEFINE bad == {n \in 0..size : t[n] \notin Nat}
<1>7. ASSUME bad # {} PROVE FALSE
  <2>1. bad \in SUBSET Nat
    OBVIOUS
  <2>2. PICK k \in bad : \A j \in bad : k <= j
    <3> HIDE DEF bad
    <3> QED
      BY <1>7, <2>1, LeastNumber
  <2>3. k \in 1..size /\ k - 1 \in 0..size /\ ~(k <= k - 1)
    BY <1>6, <2>2
  <2>4. k - 1 \notin bad
    <3> HIDE DEF bad
    <3> QED
      BY <2>2, <2>3
  <2>5. t[k - 1] \in Nat
    BY <2>3, <2>4
  <2>6. t[k] \in Nat
    <3>1. t[k] = t[k - 1] + f[at + k - 1]
      BY <1>6, <2>3
    <3>2. f[at + k - 1] \in Nat
      BY <2>3
    <3> QED
      BY <2>5, <3>1, <3>2
  <2> QED
    BY <2>2, <2>6
<1>8. t \in [0..size -> Nat]
  <2>1. \A n \in 0..size : t[n] \in Nat
    BY <1>7
  <2> QED
    BY <1>6, <2>1
<1> QED
  BY <1>4, <1>5, <1>6, <1>8 DEF Totals

\* The same, with a hypothesis that is easily matched.
LEMMA WindowHasTotals ==
    ASSUME NEW at \in Nat, NEW size \in Nat, NEW f, Numbers(f, at, size)
    PROVE  \E t : Totals(t, f, at, size) /\ sumWindow(f, at, size) = t[size]
BY SumWindowIsTotal DEF Numbers

\* Nothing sums to nothing.
LEMMA SumOfNothing ==
    ASSUME NEW at \in Nat, NEW size \in Nat, NEW f, \A n \in 1..size : f[at + n - 1] = 0
    PROVE  sumWindow(f, at, size) = 0
<1>1. Numbers(f, at, size)
  BY DEF Numbers
<1>2. PICK t : Totals(t, f, at, size) /\ sumWindow(f, at, size) = t[size]
  BY <1>1, WindowHasTotals
<1> DEFINE bad == {n \in 0..size : t[n] # 0}
<1>3. ASSUME bad # {} PROVE FALSE
  <2>1. bad \in SUBSET Nat
    OBVIOUS
  <2>2. PICK k \in bad : \A j \in bad : k <= j
    <3> HIDE DEF bad
    <3> QED
      BY <1>3, <2>1, LeastNumber
  <2>3. k \in 1..size /\ k - 1 \in 0..size /\ ~(k <= k - 1)
    BY <1>2, <2>2 DEF Totals
  <2>4. k - 1 \notin bad
    <3> HIDE DEF bad
    <3> QED
      BY <2>2, <2>3
  <2>5. t[k - 1] = 0 /\ t[k] = t[k - 1] + f[at + k - 1] /\ f[at + k - 1] = 0
    BY <1>2, <2>3, <2>4 DEF Totals
  <2> QED
    BY <2>2, <2>5
<1>4. size \in 0..size /\ size \notin bad
  <2>1. size \in 0..size
    OBVIOUS
  <2> HIDE DEF bad
  <2> QED
    BY <1>3, <2>1
<1> QED
  BY <1>2, <1>4

\* What is never larger never sums to more.
LEMMA SumGrows ==
    ASSUME NEW at \in Nat, NEW size \in Nat, NEW f, NEW g,
           \A n \in 1..size : f[at + n - 1] \in Nat /\ g[at + n - 1] \in Nat
                              /\ f[at + n - 1] <= g[at + n - 1]
    PROVE  /\ sumWindow(f, at, size) \in Nat /\ sumWindow(g, at, size) \in Nat
           /\ sumWindow(f, at, size) <= sumWindow(g, at, size)
<1>1. PICK s : Totals(s, f, at, size) /\ sumWindow(f, at, size) = s[size]
  BY SumWindowIsTotal
<1>2. PICK t : Totals(t, g, at, size) /\ sumWindow(g, at, size) = t[size]
  BY SumWindowIsTotal
<1> DEFINE bad == {n \in 0..size : ~(s[n] <= t[n])}
<1>3. ASSUME bad # {} PROVE FALSE
  <2>1. bad \in SUBSET Nat
    OBVIOUS
  <2>2. PICK k \in bad : \A j \in bad : k <= j
    <3> HIDE DEF bad
    <3> QED
      BY <1>3, <2>1, LeastNumber
  <2>3. k \in 1..size /\ k - 1 \in 0..size /\ ~(k <= k - 1)
    BY <1>1, <1>2, <2>2 DEF Totals
  <2>4. k - 1 \notin bad
    <3> HIDE DEF bad
    <3> QED
      BY <2>2, <2>3
  <2>5. s[k - 1] <= t[k - 1] /\ s[k - 1] \in Nat /\ t[k - 1] \in Nat
    BY <1>1, <1>2, <2>3, <2>4 DEF Totals
  <2>6. s[k] = s[k - 1] + f[at + k - 1] /\ t[k] = t[k - 1] + g[at + k - 1]
    BY <1>1, <1>2, <2>3 DEF Totals
  <2>7. s[k] <= t[k]
    BY <2>3, <2>5, <2>6
  <2> QED
    BY <2>2, <2>7
<1>4. s[size] <= t[size]
  <2>1. size \in 0..size /\ \A n \in 0..size : n \notin bad => s[n] <= t[n]
    OBVIOUS
  <2>2. size \notin bad
    <3> HIDE DEF bad
    <3> QED
      BY <1>3
  <2> QED
    BY <2>1, <2>2
<1> QED
  BY <1>1, <1>2, <1>4 DEF Totals

\* A window is its latest second and the window before that second.
LEMMA SumHead ==
    ASSUME NEW at \in Nat, NEW size \in Nat \ {0}, NEW f,
           Numbers(f, at, size)
    PROVE  /\ sumWindow(f, at + 1, size - 1) \in Nat
           /\ sumWindow(f, at, size) = f[at] + sumWindow(f, at + 1, size - 1)
<1> DEFINE m == size - 1
<1>1. PICK t : Totals(t, f, at, size) /\ sumWindow(f, at, size) = t[size]
  BY WindowHasTotals
<1>2. PICK u : Totals(u, f, at + 1, m) /\ sumWindow(f, at + 1, m) = u[m]
  <2>1. at + 1 \in Nat /\ m \in Nat
    OBVIOUS
  <2>2. ASSUME NEW n \in 1..m PROVE f[at + 1 + n - 1] \in Nat
    <3>1. n + 1 \in 1..size /\ at + 1 + n - 1 = at + (n + 1) - 1
      OBVIOUS
    <3> QED
      BY <3>1 DEF Numbers
  <2>3. PICK b : b = at + 1
    OBVIOUS
  <2>4. \E u : Totals(u, f, b, m) /\ sumWindow(f, b, m) = u[m]
    <3>1. b \in Nat /\ m \in Nat /\ Numbers(f, b, m)
      BY <2>1, <2>2, <2>3 DEF Numbers
    <3> HIDE DEF m
    <3> QED
      BY <3>1, WindowHasTotals
  <2> QED
    BY <2>3, <2>4
<1>3. /\ t[0] = 0 /\ \A n \in 1..size : t[n] = t[n - 1] + f[at + n - 1]
      /\ u[0] = 0 /\ \A n \in 1..m : u[n] = u[n - 1] + f[at + n]
      /\ \A n \in 0..m : u[n] \in Nat
  <2>1. \A n \in 1..m : (at + 1) + n - 1 = at + n
    OBVIOUS
  <2> QED
    BY <1>1, <1>2, <2>1 DEF Totals
<1>4. \A n \in 1..size : f[at + n - 1] \in Nat
  BY DEF Numbers
<1> DEFINE bad == {n \in 1..size : t[n] # f[at] + u[n - 1]}
<1>5. ASSUME bad # {} PROVE FALSE
  <2>1. bad \in SUBSET Nat
    OBVIOUS
  <2>2. PICK k \in bad : \A j \in bad : k <= j
    <3> HIDE DEF bad
    <3> QED
      BY <1>5, <2>1, LeastNumber
  <2>3. k \in 1..size /\ t[k] # f[at] + u[k - 1] /\ k \in Nat /\ ~(k <= k - 1)
    BY <2>2
  <2>4. CASE k = 1
    <3>1. t[1] = t[0] + f[at] /\ f[at] \in Nat
      <4>1. 1 \in 1..size /\ 1 - 1 = 0 /\ at + 1 - 1 = at
        OBVIOUS
      <4> QED
        BY <1>3, <1>4, <4>1
    <3> QED
      BY <1>3, <2>3, <2>4, <3>1
  <2>5. CASE k # 1
    <3>1. k - 1 \in 1..size /\ k - 1 \in 1..m /\ k - 2 \in 0..m
      BY <2>3, <2>5
    <3>2. k - 1 \notin bad
      <4> HIDE DEF bad
      <4> QED
        BY <2>2, <2>3
    <3>3. t[k - 1] = f[at] + u[k - 2]
      BY <3>1, <3>2
    <3>4. t[k] = t[k - 1] + f[at + k - 1]
      BY <1>3, <2>3
    <3>5. u[k - 1] = u[k - 2] + f[at + k - 1]
      <4>1. u[k - 1] = u[(k - 1) - 1] + f[at + (k - 1)]
        BY <1>3, <3>1
      <4> QED
        BY <2>3, <4>1
    <3>6. f[at + k - 1] \in Nat /\ f[at] \in Nat /\ u[k - 2] \in Nat
      <4>1. 1 \in 1..size /\ at + 1 - 1 = at
        OBVIOUS
      <4> QED
        BY <1>3, <1>4, <2>3, <3>1, <4>1
    <3> QED
      BY <2>3, <3>3, <3>4, <3>5, <3>6
  <2> QED
    BY <2>4, <2>5
<1>6. t[size] = f[at] + u[m]
  <2>1. size \in 1..size /\ \A n \in 1..size : n \notin bad => t[n] = f[at] + u[n - 1]
    OBVIOUS
  <2>2. size \notin bad
    <3> HIDE DEF bad
    <3> QED
      BY <1>5
  <2> QED
    BY <2>1, <2>2
<1>7. u[m] \in Nat
  BY <1>3
<1> QED
  BY <1>1, <1>2, <1>6, <1>7

\* The beginning of a window holds no more than the window.
LEMMA SumPrefix ==
    ASSUME NEW at \in Nat, NEW size \in Nat, NEW m \in 0..size, NEW f, Numbers(f, at, size)
    PROVE  /\ sumWindow(f, at, m) \in Nat /\ sumWindow(f, at, size) \in Nat
           /\ sumWindow(f, at, m) <= sumWindow(f, at, size)
<1>1. PICK t : Totals(t, f, at, size) /\ sumWindow(f, at, size) = t[size]
  BY WindowHasTotals
<1>2. m \in Nat /\ Numbers(f, at, m)
  <2>1. m \in Nat /\ \A n \in 1..m : n \in 1..size
    OBVIOUS
  <2> QED
    BY <2>1 DEF Numbers
<1>3. PICK u : Totals(u, f, at, m) /\ sumWindow(f, at, m) = u[m]
  BY <1>2, WindowHasTotals
<1>4. PICK p : p = [n \in 0..m |-> t[n]]
  OBVIOUS
<1>5. Totals(p, f, at, m) /\ Same(f, at, f, at, m) /\ p[m] = t[m]
  BY <1>1, <1>4 DEF Totals, Same
<1>6. u[m] = t[m]
  <2>1. \A n \in 0..m : p[n] = u[n]
    BY <1>2, <1>3, <1>5, TotalsAgree
  <2> QED
    BY <1>5, <2>1
<1> DEFINE bad == {n \in m..size : ~(t[m] <= t[n])}
<1>7. ASSUME bad # {} PROVE FALSE
  <2>1. bad \in SUBSET Nat
    OBVIOUS
  <2>2. PICK k \in bad : \A j \in bad : k <= j
    <3> HIDE DEF bad
    <3> QED
      BY <1>7, <2>1, LeastNumber
  <2>3. k \in 1..size /\ k - 1 \in m..size /\ ~(k <= k - 1)
    <3>1. t[m] \in Nat
      BY <1>1 DEF Totals
    <3>2. k # m
      BY <2>2, <3>1
    <3> QED
      BY <2>2, <3>2
  <2>4. k - 1 \notin bad
    <3> HIDE DEF bad
    <3> QED
      BY <2>2, <2>3
  <2>5. t[m] <= t[k - 1] /\ t[m] \in Nat /\ t[k - 1] \in Nat
    BY <1>1, <2>3, <2>4 DEF Totals
  <2>6. t[k] = t[k - 1] + f[at + k - 1] /\ f[at + k - 1] \in Nat
    BY <1>1, <2>3 DEF Totals, Numbers
  <2> QED
    BY <2>2, <2>5, <2>6
<1>8. size \in m..size /\ size \notin bad
  <2>1. size \in m..size
    OBVIOUS
  <2> HIDE DEF bad
  <2> QED
    BY <1>7, <2>1
<1> QED
  BY <1>1, <1>3, <1>6, <1>8 DEF Totals

\* Windows that read the same numbers hold the same.
LEMMA SumSame ==
    ASSUME NEW at \in Nat, NEW by \in Nat, NEW size \in Nat, NEW f, NEW g,
           Numbers(f, at, size), Same(g, by, f, at, size)
    PROVE  sumWindow(g, by, size) = sumWindow(f, at, size)
<1>1. Numbers(g, by, size)
  BY DEF Numbers, Same
<1>2. PICK s : Totals(s, g, by, size) /\ sumWindow(g, by, size) = s[size]
  BY <1>1, WindowHasTotals
<1>3. PICK t : Totals(t, f, at, size) /\ sumWindow(f, at, size) = t[size]
  BY WindowHasTotals
<1>4. \A n \in 0..size : s[n] = t[n]
  BY <1>2, <1>3, TotalsAgree
<1> QED
  BY <1>2, <1>3, <1>4

\* A window with one more in second st, if it reads it, and else with what it had.
OneMore(g, f, st, at, size) ==
    \A n \in 1..size :
        g[at + n - 1] = f[at + n - 1] + (IF at + n - 1 = st THEN 1 ELSE 0)

LEMMA SumOneMore ==
    ASSUME NEW at \in Nat, NEW size \in Nat, NEW st \in Nat, NEW f, NEW g,
           Numbers(f, at, size), OneMore(g, f, st, at, size)
    PROVE  sumWindow(g, at, size)
             = sumWindow(f, at, size) + (IF at <= st /\ st < at + size THEN 1 ELSE 0)
<1>1. Numbers(g, at, size)
  BY DEF Numbers, OneMore
<1>2. PICK s : Totals(s, f, at, size) /\ sumWindow(f, at, size) = s[size]
  BY WindowHasTotals
<1>3. PICK t : Totals(t, g, at, size) /\ sumWindow(g, at, size) = t[size]
  BY <1>1, WindowHasTotals
<1> DEFINE more(k) == IF at <= st /\ st < at + k THEN 1 ELSE 0
           bad == {k \in 0..size : t[k] # s[k] + more(k)}
<1>4. ASSUME bad # {} PROVE FALSE
  <2>1. bad \in SUBSET Nat
    OBVIOUS
  <2>2. PICK k \in bad : \A j \in bad : k <= j
    <3> HIDE DEF bad
    <3> QED
      BY <1>4, <2>1, LeastNumber
  <2>3. k \in 1..size /\ k - 1 \in 0..size /\ ~(k <= k - 1)
    <3>1. more(0) = 0 /\ t[0] = 0 /\ s[0] = 0
      BY <1>2, <1>3 DEF Totals
    <3>2. k # 0
      BY <2>2, <3>1
    <3> QED
      BY <2>2, <3>2
  <2>4. k - 1 \notin bad
    <3> HIDE DEF bad
    <3> QED
      BY <2>2, <2>3
  <2>5. t[k - 1] = s[k - 1] + more(k - 1) /\ s[k - 1] \in Nat
    BY <1>2, <2>3, <2>4 DEF Totals
  <2>6. /\ t[k] = t[k - 1] + g[at + k - 1] /\ s[k] = s[k - 1] + f[at + k - 1]
        /\ g[at + k - 1] = f[at + k - 1] + (IF at + k - 1 = st THEN 1 ELSE 0)
        /\ f[at + k - 1] \in Nat
    BY <1>2, <1>3, <2>3 DEF Totals, Numbers, OneMore
  <2>7. more(k) = more(k - 1) + (IF at + k - 1 = st THEN 1 ELSE 0)
    BY <2>3
  <2>8. k \notin bad
    <3> HIDE DEF more
    <3>1. more(k - 1) \in Nat
      BY DEF more
    <3> QED
      BY <2>5, <2>6, <2>7, <3>1
  <2> QED
    BY <2>2, <2>8
<1>5. size \in 0..size /\ size \notin bad
  <2>1. size \in 0..size
    OBVIOUS
  <2> HIDE DEF bad
  <2> QED
    BY <1>4, <2>1
<1> QED
  BY <1>2, <1>3, <1>5

-----------------------------------------------------------------------------
(* Ages.                                                                    *)

\* Every age is a second, and the one before it is an age too.
LEMMA AgesAre ==
    /\ 0..MaxDelay \subseteq Ages /\ 0 \in 0..MaxDelay
    /\ \A a \in Ages : a \in Nat /\ (a # 0 => a - 1 \in Ages)
<1>1. PICK w \in Nat \ {0} : w = largestWindow
  BY WindowSizes
<1> QED
  BY <1>1, DelayAssumption DEF Ages

\* The seconds a window of the limiter reads, seen from this second or the last.
LEMMA WindowReads ==
    ASSUME NEW i \in DOMAIN Windows, NEW at \in 0..MaxDelay
    PROVE  /\ Windows[i].size \in Nat \ {0} /\ Windows[i].limit \in Nat /\ at \in Nat
           /\ at \in Ages
           /\ \A a \in 0..(at + Windows[i].size - 1) : a \in Ages
           /\ \A n \in 1..Windows[i].size : at + n - 1 \in Ages
<1>1. /\ Windows[i].size \in Nat \ {0} /\ Windows[i].limit \in Nat
      /\ Windows[i].size <= largestWindow /\ largestWindow \in Nat
  BY WindowSizes
<1>2. at \in Nat /\ at <= MaxDelay /\ MaxDelay \in Nat
  BY DelayAssumption
<1> HIDE DEF largestWindow
<1>3. /\ \A n \in 1..Windows[i].size : at + n - 1 \in 0..(largestWindow + MaxDelay - 1)
      /\ \A a \in 0..(at + Windows[i].size - 1) : a \in 0..(largestWindow + MaxDelay - 1)
  BY <1>1, <1>2
<1> QED
  BY <1>1, <1>2, <1>3, AgesAre DEF Ages

\* What is kept per age has a number for each of them.
LEMMA ReadNumbers ==
    ASSUME NEW i \in DOMAIN Windows, NEW at \in 0..MaxDelay, NEW n \in 1..Windows[i].size,
           NEW f \in [Ages -> Nat]
    PROVE  /\ Numbers(f, at, n) /\ Numbers(f, at + 1, n - 1) /\ Numbers(f, 0, at + n)
           /\ sumWindow(f, at, n) \in Nat /\ sumWindow(f, at + 1, n - 1) \in Nat
           /\ sumWindow(f, 0, at + n) \in Nat
<1>1. PICK size \in Nat \ {0} : size = Windows[i].size
  BY WindowReads
<1>2. at \in Nat /\ n \in 1..size /\ \A a \in 0..(at + size - 1) : f[a] \in Nat
  BY <1>1, WindowReads
<1>3. PICK z, by, m, k : z = 0 /\ by = at + 1 /\ m = n - 1 /\ k = at + n
  OBVIOUS
<1>4. z \in Nat /\ by \in Nat /\ m \in Nat /\ k \in Nat /\ n \in Nat /\ at \in Nat
  BY <1>2, <1>3
<1>5. /\ \A j \in 1..n : at + j - 1 \in 0..(at + size - 1)
      /\ \A j \in 1..m : by + j - 1 \in 0..(at + size - 1)
      /\ \A j \in 1..k : z + j - 1 \in 0..(at + size - 1)
  BY <1>2, <1>3
<1>6. Numbers(f, at, n) /\ Numbers(f, by, m) /\ Numbers(f, z, k)
  BY <1>2, <1>5 DEF Numbers
<1>7. \A s, l \in Nat : Numbers(f, s, l) => sumWindow(f, s, l) \in Nat
  BY SumPrefix
<1> QED
  BY <1>3, <1>4, <1>6, <1>7

LEMMA OlderKeeps ==
    ASSUME NEW f \in [Ages -> Nat]
    PROVE  /\ Older(f) \in [Ages -> Nat] /\ Older(f)[0] = 0
           /\ \A a \in Ages : a # 0 => Older(f)[a] = f[a - 1]
BY AgesAre DEF Older

\* When a second has passed, a window a second ago holds what it held then.
LEMMA SumShift ==
    ASSUME NEW at \in Nat, NEW by \in Nat, by = at + 1, NEW n \in Nat, NEW f \in [Ages -> Nat],
           \A a \in 0..(at + n) : a \in Ages
    PROVE  sumWindow(Older(f), by, n) = sumWindow(f, at, n)
<1>1. PICK g : g = Older(f)
  OBVIOUS
<1>2. \A j \in 1..n : /\ at + j - 1 \in 0..(at + n) /\ by + j - 1 \in 0..(at + n)
                      /\ by + j - 1 # 0 /\ (by + j - 1) - 1 = at + j - 1
  OBVIOUS
<1>3. Numbers(f, at, n)
  BY <1>2 DEF Numbers
<1>4. Same(g, by, f, at, n)
  BY <1>1, <1>2, OlderKeeps DEF Same
<1> QED
  BY <1>1, <1>3, <1>4, SumSame

\* This second is empty then.
LEMMA SumOlder ==
    ASSUME NEW n \in Nat \ {0}, NEW f \in [Ages -> Nat], \A a \in 0..(n - 1) : a \in Ages
    PROVE  /\ sumWindow(Older(f), 0, n) = sumWindow(f, 0, n - 1)
           /\ sumWindow(f, 0, n - 1) \in Nat
<1>1. PICK g, z, o, m : g = Older(f) /\ z = 0 /\ o = 1 /\ m = n - 1
  OBVIOUS
<1>2. z \in Nat /\ o \in Nat /\ o = z + 1 /\ m \in Nat /\ m = n - 1
  BY <1>1
<1>3. g \in [Ages -> Nat] /\ g[z] = 0
  BY <1>1, OlderKeeps
<1>4. \A j \in 1..n : z + j - 1 \in 0..(n - 1)
  <2>1. \A j \in 1..n : 0 + j - 1 \in 0..(n - 1)
    OBVIOUS
  <2> QED
    BY <1>1, <2>1
<1>5. Numbers(g, z, n)
  BY <1>3, <1>4 DEF Numbers
<1>6. sumWindow(g, z, n) = g[z] + sumWindow(g, o, m) /\ sumWindow(g, o, m) \in Nat
  BY <1>2, <1>5, SumHead
<1>7. sumWindow(g, o, m) = sumWindow(f, z, m)
  <2>1. \A a \in 0..(z + m) : a \in Ages
    <3>1. z + m = n - 1
      BY <1>1
    <3> QED
      BY <3>1
  <2> QED
    BY <1>1, <1>2, <2>1, SumShift
<1> QED
  BY <1>1, <1>3, <1>6, <1>7

-----------------------------------------------------------------------------
(* The steps of the limiter.                                                *)

LEMMA LimiterInitInv == Init => LimiterInv
<1> SUFFICES ASSUME Init PROVE LimiterInv
  OBVIOUS
<1>1. 0 \in 0..Len(Backoff)
  BY BackoffAssumption, LenProperties
<1>2. TypeOK
  BY <1>1, AgesAre DEF Init, TypeOK, PCs, Stamped
<1> QED
  BY <1>2, CallersAssumption DEF Init, LimiterInv

\* A window that the script finds over its limit is a window.
LEMMA RejectingWindow ==
    ASSUME NEW f, NEW at, Exceeded(f, at) # {}
    PROVE  Windows[Min(Exceeded(f, at))].size \in Nat
<1> DEFINE S == Exceeded(f, at)
<1>1. S \subseteq DOMAIN Windows
  BY DEF Exceeded
<1>2. DOMAIN Windows \subseteq Nat
  BY WindowsAssumption, LenProperties
<1> HIDE DEF S
<1>3. \E k \in S : \A j \in S : k <= j
  BY <1>1, <1>2, LeastNumber DEF S
<1>4. Min(S) \in S
  BY <1>3 DEF Min
<1> QED
  BY <1>1, <1>4, WindowSizes DEF S

\* Counting an attempt.
LEMMA IncrementedCounts ==
    ASSUME LimiterInv, NEW c \in Callers
    PROVE  /\ stamp[c] \in Ages /\ Incremented(c) \in [Ages -> Nat]
           /\ \A a \in Ages : /\ counts[a] <= Incremented(c)[a]
                              /\ a = stamp[c] => Incremented(c)[a] = counts[a] + 1
<1>1. stamp[c] \in Ages /\ counts \in [Ages -> Nat]
  BY AgesAre DEF LimiterInv, TypeOK
<1>2. counts[stamp[c]] \in Nat /\ counts[stamp[c]] + 1 \in Nat
  BY <1>1
<1>3. /\ Incremented(c) \in [Ages -> Nat] /\ Incremented(c)[stamp[c]] = counts[stamp[c]] + 1
      /\ \A a \in Ages : a # stamp[c] => Incremented(c)[a] = counts[a]
  BY <1>1, <1>2 DEF Incremented
<1> QED
  BY <1>1, <1>2, <1>3

\* The caller's part of the invariant after a step of call c.
LEMMA CallerMoves ==
    ASSUME LimiterInv, NEW c \in Callers, NEW label \in PCs, pc' = [pc EXCEPT ![c] = label],
           \/ scriptMu' = Unlocked(c) /\ label \notin {"recheck", "retry"}
           \/ scriptMu' = scriptMu /\ (label \in {"recheck", "retry"} <=> pc[c] \in {"recheck", "retry"})
    PROVE  /\ pc' \in [Callers -> PCs] /\ scriptMu' \in Callers \union {NoCaller}
           /\ \A d \in Callers : scriptMu' = d <=> pc'[d] \in {"recheck", "retry"}
<1>1. pc \in [Callers -> PCs] /\ scriptMu \in Callers \union {NoCaller}
  BY DEF LimiterInv, TypeOK
<1>2. pc' \in [Callers -> PCs] /\ pc'[c] = label /\ \A d \in Callers \ {c} : pc'[d] = pc[d]
  BY <1>1
<1>3. \A d \in Callers : scriptMu = d <=> pc[d] \in {"recheck", "retry"}
  BY DEF LimiterInv
<1> QED
  BY <1>1, <1>2, <1>3, CallersAssumption DEF Unlocked

LEMMA RunScriptInv ==
    ASSUME LimiterInv, NEW c \in Callers, RunScript(c)
    PROVE  LimiterInv'
<1> DEFINE over == Exceeded(Incremented(c), stamp[c])
<1>1. TypeOK /\ stamp' = [stamp EXCEPT ![c] = 0] /\ scriptMu' = Unlocked(c) /\ cached' = TRUE
      /\ counts' = Incremented(c) /\ loaded' = loaded /\ attempt' = attempt
  BY DEF LimiterInv, RunScript
<1>2. /\ stamp[c] \in Ages /\ counts' \in [Ages -> Nat]
      /\ \A a \in Ages : counts[a] <= counts'[a] /\ (a = stamp[c] => counts'[a] = counts[a] + 1)
  BY <1>1, IncrementedCounts
<1>3. stamp' \in [Callers -> 0..MaxDelay]
  BY <1>1, AgesAre DEF TypeOK
<1>4. /\ \A a \in Ages : admitted[a] \in Nat /\ late[a] \in Nat /\ counts[a] \in Nat
      /\ "redis_restart" \notin Faults => \A a \in Ages : admitted[a] <= counts[a]
      /\ restarts' = restarts
  BY DEF LimiterInv, TypeOK, RunScript
<1>5. CASE over = {}
  <2>1. /\ admitted' = [admitted EXCEPT ![stamp[c]] = @ + 1]
        /\ late' \in {late, [late EXCEPT ![stamp[c]] = @ + 1]}
        /\ pc' = [pc EXCEPT ![c] = "call"] /\ timer' = timer
    BY <1>5 DEF RunScript, LetThrough, Goto
  <2>2. /\ pc' \in [Callers -> PCs] /\ scriptMu' \in Callers \union {NoCaller}
        /\ \A d \in Callers : scriptMu' = d <=> pc'[d] \in {"recheck", "retry"}
    BY <1>1, <2>1, CallerMoves DEF PCs
  <2>3. /\ admitted[stamp[c]] + 1 \in Nat /\ admitted \in [Ages -> Nat]
        /\ late[stamp[c]] + 1 \in Nat /\ late \in [Ages -> Nat]
    BY <1>1, <1>2, <1>4 DEF TypeOK
  <2>4. late' \in [Ages -> Nat]
    BY <1>2, <2>1, <2>3
  <2>5. /\ admitted' \in [Ages -> Nat] /\ admitted'[stamp[c]] = admitted[stamp[c]] + 1
        /\ \A a \in Ages : a # stamp[c] => admitted'[a] = admitted[a]
    BY <1>2, <2>1, <2>3
  <2>6. "redis_restart" \notin Faults => \A a \in Ages : admitted'[a] <= counts'[a]
    BY <1>2, <1>4, <2>5
  <2> QED
    BY <1>1, <1>2, <1>3, <1>4, <2>1, <2>2, <2>4, <2>5, <2>6 DEF LimiterInv, TypeOK
<1>6. CASE over # {}
  <2>1. PICK size : size = Windows[Min(over)].size
    OBVIOUS
  <2>2. /\ timer' = [timer EXCEPT ![c] = size] /\ pc' = [pc EXCEPT ![c] = "wait"]
        /\ admitted' = admitted /\ late' = late
    BY <1>6, <2>1 DEF RunScript, Goto
  <2>3. size \in Nat
    BY <1>6, <2>1, RejectingWindow
  <2>4. timer' \in [Callers -> Nat]
    BY <1>1, <2>2, <2>3 DEF TypeOK
  <2>5. /\ pc' \in [Callers -> PCs] /\ scriptMu' \in Callers \union {NoCaller}
        /\ \A d \in Callers : scriptMu' = d <=> pc'[d] \in {"recheck", "retry"}
    BY <1>1, <2>2, CallerMoves DEF PCs
  <2>6. "redis_restart" \notin Faults => \A a \in Ages : admitted'[a] <= counts'[a]
    BY <1>2, <1>4, <2>2
  <2> HIDE DEF over
  <2> QED
    BY <1>1, <1>2, <1>3, <1>4, <2>2, <2>4, <2>5, <2>6 DEF LimiterInv, TypeOK
<1> QED
  BY <1>5, <1>6

\* A call gives up: its locks and its sleep end with it.
LEMMA GiveUpInv ==
    ASSUME LimiterInv, NEW c \in Callers, GiveUp(c), counts' \in {counts, Incremented(c)},
           UNCHANGED <<observed, loaded, cached, attempt>>
    PROVE  LimiterInv'
<1>1. TypeOK /\ stamp' = [stamp EXCEPT ![c] = 0] /\ timer' = [timer EXCEPT ![c] = 0]
      /\ pc' = [pc EXCEPT ![c] = "done"] /\ scriptMu' = Unlocked(c)
  BY DEF LimiterInv, GiveUp, Goto
<1>2. /\ counts' \in [Ages -> Nat]
      /\ "redis_restart" \notin Faults => \A a \in Ages : admitted[a] <= counts'[a]
  <2>1. /\ \A a \in Ages : admitted[a] \in Nat /\ counts[a] \in Nat
        /\ "redis_restart" \notin Faults => \A a \in Ages : admitted[a] <= counts[a]
    BY DEF LimiterInv, TypeOK
  <2>2. Incremented(c) \in [Ages -> Nat] /\ \A a \in Ages : counts[a] <= Incremented(c)[a]
    BY IncrementedCounts
  <2> QED
    BY <1>1, <2>1, <2>2 DEF TypeOK
<1>3. /\ pc' \in [Callers -> PCs] /\ scriptMu' \in Callers \union {NoCaller}
      /\ \A d \in Callers : scriptMu' = d <=> pc'[d] \in {"recheck", "retry"}
  BY <1>1, CallerMoves DEF PCs
<1>4. stamp' \in [Callers -> 0..MaxDelay] /\ timer' \in [Callers -> Nat]
  BY <1>1, AgesAre DEF TypeOK
<1> QED
  BY <1>1, <1>2, <1>3, <1>4 DEF LimiterInv, TypeOK, observed

\* A call moves without Redis.
LEMMA MovesAlone ==
    ASSUME LimiterInv, NEW c \in Callers, NEW label \in PCs, pc' = [pc EXCEPT ![c] = label],
           label \in {"recheck", "retry"} <=> pc[c] \in {"recheck", "retry"},
           UNCHANGED <<counts, observed, scriptMu, stamp>>,
           loaded' \in BOOLEAN, cached' \in BOOLEAN, timer' \in [Callers -> Nat],
           attempt' \in [Callers -> 0..Len(Backoff)]
    PROVE  LimiterInv'
<1>1. /\ pc' \in [Callers -> PCs] /\ scriptMu' \in Callers \union {NoCaller}
      /\ \A d \in Callers : scriptMu' = d <=> pc'[d] \in {"recheck", "retry"}
  BY CallerMoves
<1> QED
  BY <1>1 DEF LimiterInv, TypeOK, observed

LEMMA EvalScriptInv ==
    ASSUME LimiterInv, NEW c \in Callers, EvalScript(c)
    PROVE  LimiterInv'
<1>1. TypeOK
  BY DEF LimiterInv
<1>2. CASE RunScript(c)
  BY <1>2, RunScriptInv
<1>3. CASE EvalSha(c) /\ ~loaded
  <2>1. pc[c] = "script" /\ pc' = [pc EXCEPT ![c] = "load"]
        /\ UNCHANGED <<counts, observed, loaded, cached, scriptMu, stamp, timer, attempt>>
    BY <1>3 DEF EvalSha, Goto, redis
  <2> QED
    BY <1>1, <2>1, MovesAlone DEF TypeOK, PCs, Stamped
<1>4. CASE LockScriptCache(c)
  <2>1. /\ pc[c] = "load" /\ scriptMu = NoCaller /\ scriptMu' = c
        /\ pc' = [pc EXCEPT ![c] = "recheck"]
        /\ UNCHANGED <<counts, observed, loaded, cached, stamp, timer, attempt>>
    BY <1>4 DEF LockScriptCache, Goto
  <2>2. pc' \in [Callers -> PCs] /\ pc'[c] = "recheck" /\ \A d \in Callers \ {c} : pc'[d] = pc[d]
    BY <1>1, <2>1 DEF TypeOK, PCs, Stamped
  <2>3. \A d \in Callers : pc[d] \notin {"recheck", "retry"}
    BY <2>1, CallersAssumption DEF LimiterInv
  <2>4. \A d \in Callers : scriptMu' = d <=> pc'[d] \in {"recheck", "retry"}
    BY <2>1, <2>2, <2>3
  <2> QED
    BY <2>1, <2>2, <2>4 DEF LimiterInv, TypeOK, observed
<1>5. CASE LoadScript(c) /\ ~(cached /\ loaded)
  <2>1. pc[c] = "recheck" /\ pc' = [pc EXCEPT ![c] = "retry"] /\ loaded' = TRUE /\ cached' = TRUE
        /\ UNCHANGED <<counts, observed, scriptMu, stamp, timer, attempt>>
    BY <1>5 DEF LoadScript, Goto
  <2> QED
    BY <1>1, <2>1, MovesAlone DEF TypeOK, PCs, Stamped
<1>6. CASE EvalShaAgain(c) /\ ~loaded
  <2>1. GiveUp(c) /\ UNCHANGED <<counts, observed, loaded, cached, attempt>>
    BY <1>6 DEF EvalShaAgain
  <2> QED
    BY <2>1, GiveUpInv
<1> QED
  BY <1>2, <1>3, <1>4, <1>5, <1>6 DEF EvalScript, EvalSha, LoadScript, EvalShaAgain

LEMMA LimiterNextInv ==
    ASSUME LimiterInv, [Next]_vars
    PROVE  LimiterInv'
<1>1. TypeOK
  BY DEF LimiterInv
<1>2. ASSUME NEW c \in Callers, ReadClock(c) PROVE LimiterInv'
  <2>1. pc[c] = "wait" /\ pc' = [pc EXCEPT ![c] = "script"]
        /\ UNCHANGED <<counts, observed, loaded, cached, scriptMu, stamp, timer, attempt>>
    BY <1>2 DEF ReadClock, Goto, redis
  <2> QED
    BY <1>1, <2>1, MovesAlone DEF TypeOK, PCs, Stamped
<1>3. ASSUME NEW c \in Callers, EvalScript(c) PROVE LimiterInv'
  BY <1>3, EvalScriptInv
<1>4. ASSUME NEW c \in Callers, Return(c) PROVE LimiterInv'
  <2>1. pc[c] = "call" /\ pc' = [pc EXCEPT ![c] = "done"]
        /\ UNCHANGED <<counts, observed, loaded, cached, scriptMu, stamp, timer, attempt>>
    BY <1>4 DEF Return, Goto, redis
  <2> QED
    BY <1>1, <2>1, MovesAlone DEF TypeOK, PCs, Stamped
<1>5. ASSUME NEW c \in Callers, RedisError(c) PROVE LimiterInv'
  <2>1. counts' \in {counts, Incremented(c)}
    BY <1>5 DEF RedisError
  <2> QED
    BY <1>5, <2>1, GiveUpInv DEF RedisError
<1>6. ASSUME NEW c \in Callers, Canceled(c) PROVE LimiterInv'
  BY <1>6, GiveUpInv DEF Canceled
<1>7. ASSUME NEW c \in Callers, RetryCall(c) PROVE LimiterInv'
  <2>1. /\ pc[c] = "call" /\ pc' = [pc EXCEPT ![c] = "wait"] /\ attempt[c] < Len(Backoff)
        /\ attempt' = [attempt EXCEPT ![c] = attempt[c] + 1]
        /\ timer' = [timer EXCEPT ![c] = Backoff[attempt[c] + 1]]
        /\ UNCHANGED <<counts, observed, loaded, cached, scriptMu, stamp>>
    BY <1>7 DEF RetryCall, Goto, redis
  <2>2. attempt[c] \in 0..Len(Backoff) /\ Len(Backoff) \in Nat
    BY <1>1, BackoffAssumption, LenProperties DEF TypeOK
  <2>3. attempt[c] + 1 \in 1..Len(Backoff) /\ attempt[c] + 1 \in 0..Len(Backoff)
    BY <2>1, <2>2
  <2>4. Backoff[attempt[c] + 1] \in Nat
    BY <2>3, BackoffAssumption, ElementOfSeq
  <2>5. attempt' \in [Callers -> 0..Len(Backoff)] /\ timer' \in [Callers -> Nat]
    BY <1>1, <2>1, <2>3, <2>4 DEF TypeOK
  <2> QED
    BY <1>1, <2>1, <2>5, MovesAlone DEF TypeOK, PCs
<1>8. CASE Tick
  <2>1. /\ counts' \in [Ages -> Nat] /\ admitted' \in [Ages -> Nat]
        /\ late' \in [Ages -> Nat] /\ restarts' \in [Ages -> Nat]
    BY <1>1, <1>8, OlderKeeps DEF Tick, TypeOK
  <2>2. "redis_restart" \notin Faults => \A a \in Ages : admitted'[a] <= counts'[a]
    <3>1. /\ counts' = Older(counts) /\ admitted' = Older(admitted)
          /\ counts \in [Ages -> Nat] /\ admitted \in [Ages -> Nat]
      BY <1>1, <1>8 DEF Tick, TypeOK
    <3>2. "redis_restart" \notin Faults => \A a \in Ages : admitted[a] <= counts[a]
      BY DEF LimiterInv
    <3> QED
      BY <3>1, <3>2, AgesAre, OlderKeeps
  <2>3. stamp' \in [Callers -> 0..MaxDelay]
    <3>1. \A c \in Callers : pc[c] \in Stamped => stamp[c] + 1 \in 0..MaxDelay
      BY <1>1, <1>8, DelayAssumption DEF Tick, TypeOK
    <3> QED
      BY <1>8, <3>1, AgesAre DEF Tick
  <2>4. timer' \in [Callers -> Nat]
    <3>1. \A c \in Callers : timer[c] > 0 => timer[c] - 1 \in Nat
      BY <1>1 DEF TypeOK
    <3> QED
      BY <1>8, <3>1 DEF Tick
  <2>5. UNCHANGED <<loaded, cached, scriptMu, pc, attempt>>
    BY <1>8 DEF Tick
  <2> QED
    BY <2>1, <2>2, <2>3, <2>4, <2>5 DEF LimiterInv, TypeOK
<1>9. CASE RedisRestart
  <2>1. /\ counts' \in [Ages -> Nat] /\ restarts' \in [Ages -> Nat] /\ loaded' \in BOOLEAN
        /\ "redis_restart" \in Faults
        /\ UNCHANGED <<admitted, late, cached, scriptMu, pc, stamp, timer, attempt>>
    <3>1. 0 \in Ages /\ restarts \in [Ages -> Nat] /\ counts' = [a \in Ages |-> 0]
          /\ restarts' = [restarts EXCEPT ![0] = @ + 1] /\ loaded' = FALSE
      BY <1>1, <1>9, AgesAre DEF RedisRestart, TypeOK
    <3>2. restarts' \in [Ages -> Nat] /\ counts' \in [Ages -> Nat]
      BY <3>1
    <3> QED
      BY <1>9, <3>1, <3>2 DEF RedisRestart, caller
  <2> QED
    BY <2>1 DEF LimiterInv, TypeOK
<1>10. CASE UNCHANGED vars
  BY <1>10 DEF vars, redis, observed, caller, LimiterInv, TypeOK
<1> QED
  BY <1>2, <1>3, <1>4, <1>5, <1>6, <1>7, <1>8, <1>9, <1>10 DEF Next, Call

(***************************************************************************)
(* Calls that wait, are rejected, retry, reload the script, lose Redis or  *)
(* are canceled keep scriptCacheMu with the one call that reloads, and, as *)
(* long as Redis does not restart, no second lets more calls through than  *)
(* Redis has counted for it.                                               *)
(***************************************************************************)
THEOREM LimiterInvariance == Spec => []LimiterInv
<1>1. LimiterInv /\ [Next]_vars => LimiterInv'
  BY LimiterNextInv
<1> QED
  BY <1>1, LimiterInitInv, PTL DEF Spec

-----------------------------------------------------------------------------
(* The windows.                                                             *)

\* What window i may let through again, by the restarts of the last m seconds.
Forgotten(i, r, m) == Windows[i].limit * sumWindow(r, 0, m)

(***************************************************************************)
(* The body of WindowsInv: f is let through, g counted, h late, r are the  *)
(* restarts.                                                               *)
(***************************************************************************)
Within(f, g, h, r, i, at, n) ==
    /\ sumWindow(f, at, n) <=
          Windows[i].limit + Forgotten(i, r, at + n) + sumWindow(h, at + 1, n - 1)
    /\ sumWindow(f, at, n) <=
          sumWindow(g, at, n) + Forgotten(i, r, at + n) + sumWindow(h, at + 1, n - 1)

PerAge(f, g, h, r) ==
    f \in [Ages -> Nat] /\ g \in [Ages -> Nat] /\ h \in [Ages -> Nat] /\ r \in [Ages -> Nat]

WithinAll(f, g, h, r, i) ==
    \A at \in 0..MaxDelay : \A n \in 1..Windows[i].size : Within(f, g, h, r, i, at, n)

\* A limit for each restart.
LEMMA Allowance ==
    ASSUME NEW l \in Nat, NEW k \in Nat
    PROVE  l * k \in Nat /\ l * (1 + k) = l + l * k /\ l * (k + 1) = l * k + l
OBVIOUS

LEMMA ForgottenIs ==
    ASSUME NEW i \in DOMAIN Windows, NEW r, NEW m, sumWindow(r, 0, m) \in Nat
    PROVE  /\ Forgotten(i, r, m) \in Nat
           /\ Windows[i].limit * (1 + sumWindow(r, 0, m)) = Windows[i].limit + Forgotten(i, r, m)
<1>1. PICK k \in Nat : k = sumWindow(r, 0, m)
  OBVIOUS
<1>2. PICK l \in Nat : l = Windows[i].limit
  BY WindowSizes
<1> QED
  BY <1>1, <1>2, Allowance DEF Forgotten

LEMMA WindowsInvIs ==
    ASSUME restarts \in [Ages -> Nat]
    PROVE  WindowsInv <=> \A i \in DOMAIN Windows : WithinAll(admitted, counts, late, restarts, i)
<1> SUFFICES ASSUME NEW i \in DOMAIN Windows, NEW at \in 0..MaxDelay, NEW n \in 1..Windows[i].size
             PROVE  Windows[i].limit * (1 + sumWindow(restarts, 0, at + n))
                       = Windows[i].limit + Forgotten(i, restarts, at + n)
  BY DEF WindowsInv, WithinAll, Within, Admitted, Restarts, Late, Forgotten
<1> QED
  BY ReadNumbers, ForgottenIs

\* More that is counted leaves more to let through unseen.
LEMMA WithinCounted ==
    ASSUME NEW i \in DOMAIN Windows, NEW f, NEW g, NEW h, NEW r, PerAge(f, g, h, r),
           WithinAll(f, g, h, r, i), NEW k \in [Ages -> Nat], \A a \in Ages : g[a] <= k[a]
    PROVE  WithinAll(f, k, h, r, i)
<1> SUFFICES ASSUME NEW at \in 0..MaxDelay, NEW n \in 1..Windows[i].size
             PROVE  Within(f, k, h, r, i, at, n)
  BY DEF WithinAll
<1>1. /\ sumWindow(f, at, n) \in Nat /\ sumWindow(g, at, n) \in Nat
      /\ sumWindow(h, at + 1, n - 1) \in Nat /\ sumWindow(r, 0, at + n) \in Nat
      /\ sumWindow(k, at, n) \in Nat
  BY ReadNumbers DEF PerAge
<1>2. Forgotten(i, r, at + n) \in Nat
  BY <1>1, ForgottenIs
<1>3. sumWindow(g, at, n) <= sumWindow(k, at, n)
  <2>1. at \in Nat /\ n \in Nat /\ \A j \in 1..n : at + j - 1 \in Ages
    <3>1. PICK size \in Nat : size = Windows[i].size
      BY WindowReads
    <3>2. n \in 1..size /\ \A j \in 1..size : at + j - 1 \in Ages
      BY <3>1, WindowReads
    <3> QED
      BY <3>2, WindowReads
  <2>2. \A j \in 1..n : /\ g[at + j - 1] \in Nat /\ k[at + j - 1] \in Nat
                        /\ g[at + j - 1] <= k[at + j - 1]
    BY <2>1 DEF PerAge
  <2> QED
    BY <2>1, <2>2, SumGrows
<1>4. Within(f, g, h, r, i, at, n)
  BY DEF WithinAll
<1> QED
  BY <1>1, <1>2, <1>3, <1>4 DEF Within

\* A second later what was within a window is within one that is older.
LEMMA WithinOlder ==
    ASSUME NEW i \in DOMAIN Windows, NEW f, NEW g, NEW h, NEW r, PerAge(f, g, h, r),
           WithinAll(f, g, h, r, i)
    PROVE  WithinAll(Older(f), Older(g), Older(h), Older(r), i)
<1> SUFFICES ASSUME NEW at \in 0..MaxDelay, NEW n \in 1..Windows[i].size
             PROVE  Within(Older(f), Older(g), Older(h), Older(r), i, at, n)
  BY DEF WithinAll
<1>1. PICK size \in Nat \ {0} : size = Windows[i].size
  BY WindowReads
<1>2. /\ n \in 1..size /\ n \in Nat /\ at \in Nat /\ 0 \in 0..MaxDelay /\ (at = 0 \/ at = 1)
      /\ \A a \in 0..(at + n - 1) : a \in Ages
  <2>1. n \in 1..size /\ at \in Nat /\ \A a \in 0..(at + size - 1) : a \in Ages
    BY <1>1, WindowReads
  <2> QED
    BY <2>1, AgesAre, DelayAssumption
<1>3. Windows[i].limit \in Nat
  BY WindowReads
<1>4. CASE at = 0
  <2>1. /\ sumWindow(Older(f), 0, n) = sumWindow(f, 0, n - 1) /\ sumWindow(f, 0, n - 1) \in Nat
        /\ sumWindow(Older(g), 0, n) = sumWindow(g, 0, n - 1) /\ sumWindow(g, 0, n - 1) \in Nat
        /\ sumWindow(Older(r), 0, n) = sumWindow(r, 0, n - 1) /\ sumWindow(r, 0, n - 1) \in Nat
    <3>1. n \in Nat \ {0} /\ \A a \in 0..(n - 1) : a \in Ages
      BY <1>2, <1>4
    <3> QED
      BY <3>1, SumOlder DEF PerAge
  <2>2. sumWindow(Older(h), 1, n - 1) = sumWindow(h, 0, n - 1) /\ sumWindow(h, 0, n - 1) \in Nat
    <3>1. PICK z, o, m : z = 0 /\ o = 1 /\ m = n - 1
      OBVIOUS
    <3>2. z \in Nat /\ o \in Nat /\ o = z + 1 /\ m \in Nat
      BY <1>2, <3>1
    <3>3. \A a \in 0..(z + m) : a \in Ages
      <4>1. z + m = at + n - 1
        BY <1>2, <1>4, <3>1
      <4> QED
        BY <1>2, <4>1
    <3>4. sumWindow(Older(h), o, m) = sumWindow(h, z, m)
      BY <3>2, <3>3, SumShift DEF PerAge
    <3>5. sumWindow(h, 0, n - 1) \in Nat
      <4>1. n \in Nat \ {0} /\ \A a \in 0..(n - 1) : a \in Ages
        BY <1>2, <1>4
      <4> QED
        BY <4>1, SumOlder DEF PerAge
    <3> QED
      BY <3>1, <3>4, <3>5
  <2>3. Forgotten(i, Older(r), n) = Forgotten(i, r, n - 1) /\ Forgotten(i, r, n - 1) \in Nat
    BY <2>1, ForgottenIs DEF Forgotten
  <2>4. CASE n = 1
    <3>1. sumWindow(f, 0, n - 1) = 0
      <4>1. PICK z, m : z = 0 /\ m = n - 1
        OBVIOUS
      <4>2. z \in Nat /\ m \in Nat /\ \A j \in 1..m : f[z + j - 1] = 0
        BY <2>4, <4>1
      <4>3. sumWindow(f, z, m) = 0
        BY <4>2, SumOfNothing
      <4> QED
        BY <4>1, <4>3
    <3>2. at + n = n /\ at + 1 = 1
      BY <1>2, <1>4
    <3> QED
      BY <1>3, <1>4, <2>1, <2>2, <2>3, <3>1, <3>2 DEF Within
  <2>5. CASE n # 1
    <3>1. PICK m : m = n - 1
      OBVIOUS
    <3>2. m \in 1..Windows[i].size /\ m \in Nat \ {0} /\ at + m = m /\ at + n = n /\ at + 1 = 1
      BY <1>1, <1>2, <1>4, <2>5, <3>1
    <3>3. Within(f, g, h, r, i, at, m)
      BY <3>2 DEF WithinAll
    <3>4. /\ sumWindow(h, 1, m - 1) \in Nat
          /\ sumWindow(h, 1, m - 1) <= sumWindow(h, 0, m)
      <4>1. PICK z, o : z = 0 /\ o = 1
        OBVIOUS
      <4>2. z \in Nat /\ o = z + 1 /\ z = at /\ h[z] \in Nat /\ Numbers(h, z, m)
        <5>1. z \in Nat /\ o = z + 1 /\ z = at
          BY <1>4, <4>1
        <5>2. Numbers(h, at, m)
          BY <3>2, ReadNumbers DEF PerAge
        <5>3. h[at] \in Nat
          BY WindowReads DEF PerAge
        <5> QED
          BY <5>1, <5>2, <5>3
      <4>3. /\ sumWindow(h, z + 1, m - 1) \in Nat
            /\ sumWindow(h, z, m) = h[z] + sumWindow(h, z + 1, m - 1)
        BY <3>2, <4>2, SumHead
      <4> QED
        BY <4>1, <4>2, <4>3
    <3> QED
      BY <1>3, <1>4, <2>1, <2>2, <2>3, <3>1, <3>2, <3>3, <3>4 DEF Within
  <2> QED
    BY <2>4, <2>5
<1>5. CASE at = 1
  <2>1. PICK z, o, t, m, k : z = 0 /\ o = 1 /\ t = 2 /\ m = n - 1 /\ k = n + 1
    OBVIOUS
  <2>2. /\ z \in Nat /\ o \in Nat /\ t \in Nat /\ o = z + 1 /\ t = o + 1 /\ m \in Nat
        /\ k \in Nat \ {0} /\ k - 1 = n /\ at + n = k /\ at + 1 = t /\ at = o /\ z + n = n
        /\ z + 1 = o
    BY <1>2, <1>5, <2>1
  <2>3. /\ \A a \in 0..(z + n) : a \in Ages
        /\ \A a \in 0..(o + m) : a \in Ages
        /\ \A a \in 0..(k - 1) : a \in Ages
    <3>1. z + n = at + n - 1 /\ o + m = at + n - 1 /\ k - 1 = at + n - 1
      BY <1>2, <1>5, <2>1
    <3> QED
      BY <1>2, <3>1
  <2>4. /\ sumWindow(Older(f), o, n) = sumWindow(f, z, n)
        /\ sumWindow(Older(g), o, n) = sumWindow(g, z, n)
    BY <1>2, <2>2, <2>3, SumShift DEF PerAge
  <2>5. sumWindow(Older(h), t, m) = sumWindow(h, o, m)
    BY <1>2, <2>2, <2>3, SumShift DEF PerAge
  <2>6. sumWindow(Older(r), 0, k) = sumWindow(r, 0, n)
    BY <2>2, <2>3, SumOlder DEF PerAge
  <2>7. Within(f, g, h, r, i, z, n)
    BY <1>2, <2>1 DEF WithinAll
  <2>8. Within(Older(f), Older(g), Older(h), Older(r), i, o, n)
    <3>1. Forgotten(i, Older(r), k) = Forgotten(i, r, n)
      BY <2>6 DEF Forgotten
    <3>2. o + n = k /\ o + 1 = t /\ n - 1 = m
      BY <2>1, <2>2
    <3> QED
      BY <2>2, <2>4, <2>5, <2>7, <3>1, <3>2 DEF Within
  <2> QED
    BY <2>2, <2>8
<1> QED
  BY <1>2, <1>4, <1>5

\* A restart of Redis forgets what it has counted, and allows that much again.
LEMMA WithinRestart ==
    ASSUME NEW i \in DOMAIN Windows, NEW f, NEW g, NEW h, NEW r, PerAge(f, g, h, r),
           WithinAll(f, g, h, r, i),
           NEW k \in [Ages -> Nat], \A a \in Ages : k[a] = 0,
           NEW q \in [Ages -> Nat], \A a \in Ages : q[a] = r[a] + (IF a = 0 THEN 1 ELSE 0)
    PROVE  WithinAll(f, k, h, q, i)
<1> SUFFICES ASSUME NEW at \in 0..MaxDelay, NEW n \in 1..Windows[i].size
             PROVE  Within(f, k, h, q, i, at, n)
  BY DEF WithinAll
<1>1. /\ sumWindow(f, at, n) \in Nat /\ sumWindow(h, at + 1, n - 1) \in Nat
      /\ sumWindow(r, 0, at + n) \in Nat /\ sumWindow(k, at, n) \in Nat
      /\ Numbers(r, 0, at + n) /\ Windows[i].limit \in Nat
  BY ReadNumbers, WindowReads DEF PerAge
<1>2. PICK z, m : z = 0 /\ m = at + n
  OBVIOUS
<1>3. z \in Nat /\ m \in Nat /\ z <= z /\ z < z + m
  <2>1. at \in Nat /\ n \in Nat \ {0}
    BY WindowReads
  <2> QED
    BY <1>2, <2>1
<1>4. \A j \in 1..m : z + j - 1 \in Ages
  <2>1. PICK size \in Nat : size = Windows[i].size
    BY WindowReads
  <2>2. n \in 1..size /\ at \in Nat /\ \A a \in 0..(at + size - 1) : a \in Ages
    BY <2>1, WindowReads
  <2>3. \A j \in 1..m : z + j - 1 \in 0..(at + size - 1)
    BY <1>2, <2>2
  <2> QED
    BY <2>2, <2>3
<1>5. sumWindow(q, z, m) = sumWindow(r, z, m) + 1
  <2>1. OneMore(q, r, z, z, m)
    BY <1>2, <1>4 DEF OneMore
  <2>2. Numbers(r, z, m)
    BY <1>1, <1>2
  <2>3. sumWindow(q, z, m) = sumWindow(r, z, m) + (IF z <= z /\ z < z + m THEN 1 ELSE 0)
    BY <1>3, <2>1, <2>2, SumOneMore
  <2> QED
    BY <1>3, <2>3
<1>6. Forgotten(i, q, m) = Forgotten(i, r, m) + Windows[i].limit /\ Forgotten(i, r, m) \in Nat
  <2>1. PICK s \in Nat : s = sumWindow(r, 0, m)
    BY <1>1, <1>2
  <2>2. sumWindow(q, 0, m) = s + 1
    BY <1>2, <1>5, <2>1
  <2> QED
    BY <1>1, <2>1, <2>2, Allowance DEF Forgotten
<1>7. Within(f, g, h, r, i, at, n)
  BY DEF WithinAll
<1> QED
  BY <1>1, <1>2, <1>6, <1>7 DEF Within

(***************************************************************************)
(* A call let through with a stamp of age st: the script found the window  *)
(* that ends there within its limit, the one that ends a second earlier    *)
(* does not see it, and for the one that ends now it was late.             *)
(***************************************************************************)
LEMMA WithinAdmitted ==
    ASSUME NEW i \in DOMAIN Windows, NEW f, NEW g, NEW h, NEW r, PerAge(f, g, h, r),
           WithinAll(f, g, h, r, i), NEW st \in 0..MaxDelay,
           NEW x, NEW k, NEW l, PerAge(x, k, l, r),
           \A a \in Ages : x[a] = f[a] + (IF a = st THEN 1 ELSE 0),
           \A a \in Ages : k[a] = g[a] + (IF a = st THEN 1 ELSE 0),
           \A a \in Ages : l[a] = h[a] + (IF a = st /\ st > 0 THEN 1 ELSE 0),
           sumWindow(k, st, Windows[i].size) <= Windows[i].limit
    PROVE  WithinAll(x, k, l, r, i)
<1> SUFFICES ASSUME NEW at \in 0..MaxDelay, NEW n \in 1..Windows[i].size
             PROVE  Within(x, k, l, r, i, at, n)
  BY DEF WithinAll
<1>1. PICK size \in Nat \ {0} : size = Windows[i].size
  BY WindowReads
<1>2. /\ n \in 1..size /\ n \in Nat /\ at \in Nat /\ (at = 0 \/ at = 1) /\ (st = 0 \/ st = 1)
      /\ \A a \in 0..(at + size - 1) : a \in Ages
  BY <1>1, WindowReads, DelayAssumption
<1>3. PICK by, m : by = at + 1 /\ m = n - 1
  OBVIOUS
<1>4. by \in Nat /\ m \in Nat
  BY <1>2, <1>3
<1>5. /\ \A j \in 1..n : at + j - 1 \in Ages
      /\ \A j \in 1..m : by + j - 1 \in Ages
  <2>1. /\ \A j \in 1..n : at + j - 1 \in 0..(at + size - 1)
        /\ \A j \in 1..m : by + j - 1 \in 0..(at + size - 1)
    BY <1>2, <1>3
  <2> QED
    BY <1>2, <2>1
<1>6. /\ Numbers(f, at, n) /\ Numbers(g, at, n) /\ Numbers(h, by, m)
      /\ sumWindow(f, at, n) \in Nat /\ sumWindow(g, at, n) \in Nat
      /\ sumWindow(h, by, m) \in Nat /\ sumWindow(r, 0, at + n) \in Nat
      /\ sumWindow(k, at, n) \in Nat /\ Numbers(k, at, n)
  BY <1>3, ReadNumbers DEF PerAge
<1>7. Forgotten(i, r, at + n) \in Nat /\ Windows[i].limit \in Nat
  BY <1>6, ForgottenIs, WindowReads
<1>8. /\ sumWindow(x, at, n)
           = sumWindow(f, at, n) + (IF at <= st /\ st < at + n THEN 1 ELSE 0)
      /\ sumWindow(k, at, n)
           = sumWindow(g, at, n) + (IF at <= st /\ st < at + n THEN 1 ELSE 0)
  <2>1. OneMore(x, f, st, at, n) /\ OneMore(k, g, st, at, n) /\ st \in Nat
    BY <1>2, <1>5 DEF OneMore
  <2> QED
    BY <1>2, <1>6, <2>1, SumOneMore
<1>9. sumWindow(l, by, m)
        = sumWindow(h, by, m) + (IF by <= st /\ st < by + m THEN 1 ELSE 0)
  <2>1. OneMore(l, h, st, by, m) /\ st \in Nat
    <3>1. \A j \in 1..m : by + j - 1 > 0
      BY <1>2, <1>3
    <3> QED
      BY <1>2, <1>5, <3>1 DEF OneMore
  <2>2. Numbers(h, by, m)
    BY <1>6
  <2> QED
    BY <1>4, <2>1, <2>2, SumOneMore
<1>10. /\ sumWindow(f, at, n) <=
             Windows[i].limit + Forgotten(i, r, at + n) + sumWindow(h, by, m)
       /\ sumWindow(f, at, n) <=
             sumWindow(g, at, n) + Forgotten(i, r, at + n) + sumWindow(h, by, m)
  BY <1>3 DEF WithinAll, Within
<1>11. at = st => sumWindow(k, at, n) <= Windows[i].limit
  <2> SUFFICES ASSUME at = st PROVE sumWindow(k, at, n) <= Windows[i].limit
    OBVIOUS
  <2>1. Numbers(k, at, size) /\ n \in 0..size /\ sumWindow(k, at, size) <= Windows[i].limit
    <3>1. \A j \in 1..size : k[at + j - 1] \in Nat
      BY <1>1, WindowReads DEF PerAge
    <3> QED
      BY <1>1, <1>2, <3>1 DEF Numbers
  <2>2. /\ sumWindow(k, at, n) <= sumWindow(k, at, size) /\ sumWindow(k, at, n) \in Nat
        /\ sumWindow(k, at, size) \in Nat
    BY <1>2, <2>1, SumPrefix
  <2> QED
    BY <1>7, <2>1, <2>2
<1>12. /\ sumWindow(x, at, n) <=
             Windows[i].limit + Forgotten(i, r, at + n) + sumWindow(l, by, m)
       /\ sumWindow(x, at, n) <=
             sumWindow(k, at, n) + Forgotten(i, r, at + n) + sumWindow(l, by, m)
  <2>1. CASE at = st
    BY <1>2, <1>3, <1>6, <1>7, <1>8, <1>9, <1>10, <1>11, <2>1
  <2>2. CASE at # st /\ st = 0
    BY <1>2, <1>3, <1>6, <1>7, <1>8, <1>9, <1>10, <2>2
  <2>3. CASE at # st /\ st = 1
    BY <1>2, <1>3, <1>6, <1>7, <1>8, <1>9, <1>10, <2>3
  <2> QED
    BY <1>2, <2>1, <2>2, <2>3
<1> QED
  BY <1>3, <1>12 DEF Within

LEMMA WindowsNext ==
    ASSUME LimiterInv, WindowsInv, [Next]_vars
    PROVE  WindowsInv'
<1>1. LimiterInv'
  BY LimiterNextInv
<1>2. PerAge(admitted, counts, late, restarts) /\ PerAge(admitted', counts', late', restarts')
  BY <1>1 DEF LimiterInv, TypeOK, PerAge
<1>3. PICK f, g, h, r : f = admitted /\ g = counts /\ h = late /\ r = restarts
  OBVIOUS
<1>4. PICK x, k, l, q : x = admitted' /\ k = counts' /\ l = late' /\ q = restarts'
  OBVIOUS
<1>5. PerAge(f, g, h, r) /\ PerAge(x, k, l, q)
  BY <1>2, <1>3, <1>4
<1>6. SUFFICES ASSUME NEW i \in DOMAIN Windows PROVE WithinAll(x, k, l, q, i)
  <2>1. (restarts \in [Ages -> Nat])'
    BY <1>2 DEF PerAge
  <2>2. (\A i \in DOMAIN Windows : WithinAll(admitted, counts, late, restarts, i))'
    BY <1>4, <1>6 DEF WithinAll, Within, Forgotten
  <2> QED
    BY <2>1, <2>2, WindowsInvIs, PTL
<1>7. WithinAll(f, g, h, r, i)
  BY <1>2, <1>3, WindowsInvIs DEF PerAge
<1>8. CASE x = f /\ l = h /\ q = r /\ \A a \in Ages : g[a] <= k[a]
  BY <1>5, <1>7, <1>8, WithinCounted DEF PerAge
<1>9. ASSUME NEW c \in Callers, RunScript(c) PROVE WithinAll(x, k, l, q, i)
  <2>1. PICK st \in 0..MaxDelay : st = stamp[c]
    BY DEF LimiterInv, TypeOK
  <2>2. st \in Ages /\ \A a \in Ages : k[a] = g[a] + (IF a = st THEN 1 ELSE 0)
    <3>1. st \in Ages /\ k = [g EXCEPT ![st] = @ + 1]
      BY <1>3, <1>4, <1>9, <2>1, AgesAre DEF RunScript, Incremented
    <3> QED
      BY <1>5, <3>1 DEF PerAge
  <2>3. CASE Exceeded(Incremented(c), stamp[c]) = {}
    <3>1. /\ x = [f EXCEPT ![st] = @ + 1] /\ q = r
          /\ l = IF st > 0 THEN [h EXCEPT ![st] = @ + 1] ELSE h
      BY <1>3, <1>4, <1>9, <2>1, <2>3 DEF RunScript, LetThrough
    <3>2. /\ \A a \in Ages : x[a] = f[a] + (IF a = st THEN 1 ELSE 0)
          /\ \A a \in Ages : l[a] = h[a] + (IF a = st /\ st > 0 THEN 1 ELSE 0)
      BY <1>5, <2>2, <3>1 DEF PerAge
    <3>3. sumWindow(k, st, Windows[i].size) <= Windows[i].limit
      <4>1. k = Incremented(c)
        BY <1>4, <1>9 DEF RunScript
      <4>2. ~(sumWindow(k, st, Windows[i].size) > Windows[i].limit)
        BY <2>1, <2>3, <4>1 DEF Exceeded
      <4>3. sumWindow(k, st, Windows[i].size) \in Nat /\ Windows[i].limit \in Nat
        <5>1. Windows[i].size \in 1..Windows[i].size
          BY WindowReads
        <5> QED
          BY <1>5, <5>1, ReadNumbers, WindowReads DEF PerAge
      <4> QED
        BY <4>2, <4>3
    <3>4. PerAge(x, k, l, r)
      BY <1>5, <3>1
    <3>5. WithinAll(x, k, l, r, i)
      <4>1. \A a \in Ages : k[a] = g[a] + (IF a = st THEN 1 ELSE 0)
        BY <2>2
      <4> QED
        BY <1>5, <1>7, <3>2, <3>3, <3>4, <4>1, WithinAdmitted
    <3> QED
      BY <3>1, <3>5
  <2>4. CASE Exceeded(Incremented(c), stamp[c]) # {}
    <3>1. x = f /\ l = h /\ q = r
      BY <1>3, <1>4, <1>9, <2>4 DEF RunScript
    <3>2. \A a \in Ages : g[a] <= k[a]
      BY <1>5, <2>2 DEF PerAge
    <3> QED
      BY <1>8, <3>1, <3>2
  <2> QED
    BY <2>3, <2>4
<1>10. ASSUME UNCHANGED <<counts, observed>> PROVE WithinAll(x, k, l, q, i)
  BY <1>3, <1>4, <1>7, <1>10 DEF observed
<1>11. ASSUME NEW c \in Callers, RedisError(c) PROVE WithinAll(x, k, l, q, i)
  <2>1. \A a \in Ages : g[a] <= k[a]
    <3>1. counts' \in {counts, Incremented(c)}
      BY <1>11 DEF RedisError
    <3>2. \A a \in Ages : counts[a] \in Nat /\ counts[a] <= Incremented(c)[a]
      BY IncrementedCounts DEF LimiterInv, TypeOK
    <3> QED
      BY <1>3, <1>4, <3>1, <3>2
  <2> QED
    BY <1>3, <1>4, <1>8, <1>11, <2>1 DEF RedisError, observed
<1>12. ASSUME NEW c \in Callers, Call(c) \/ RedisError(c) \/ Canceled(c) \/ RetryCall(c)
       PROVE  RunScript(c) \/ RedisError(c) \/ UNCHANGED <<counts, observed>>
  BY <1>12
  DEF Call, ReadClock, EvalScript, EvalSha, LockScriptCache, LoadScript, EvalShaAgain, Return,
      Canceled, RetryCall, redis
<1>13. CASE Tick
  <2>1. x = Older(f) /\ k = Older(g) /\ l = Older(h) /\ q = Older(r)
    BY <1>3, <1>4, <1>13 DEF Tick
  <2> QED
    BY <1>5, <1>7, <2>1, WithinOlder
<1>14. CASE RedisRestart
  <2>1. /\ x = f /\ l = h /\ \A a \in Ages : k[a] = 0
        /\ q = [r EXCEPT ![0] = @ + 1]
    BY <1>3, <1>4, <1>14 DEF RedisRestart
  <2>2. \A a \in Ages : q[a] = r[a] + (IF a = 0 THEN 1 ELSE 0)
    BY <1>5, <2>1 DEF PerAge
  <2> QED
    BY <1>5, <1>7, <2>1, <2>2, WithinRestart DEF PerAge
<1>15. CASE UNCHANGED vars
  BY <1>10, <1>15 DEF vars, redis
<1> QED
  BY <1>9, <1>10, <1>11, <1>12, <1>13, <1>14, <1>15 DEF Next

\* Before the first call nothing has been let through.
LEMMA WindowsInit == Init => WindowsInv
<1> SUFFICES ASSUME Init PROVE WindowsInv
  OBVIOUS
<1>1. PICK f, g, h, r : f = admitted /\ g = counts /\ h = late /\ r = restarts
  OBVIOUS
<1>2. PerAge(f, g, h, r) /\ \A a \in Ages : f[a] = 0
  BY <1>1 DEF Init, PerAge
<1>3. ASSUME NEW i \in DOMAIN Windows, NEW at \in 0..MaxDelay, NEW n \in 1..Windows[i].size
      PROVE  Within(f, g, h, r, i, at, n)
  <2>1. sumWindow(f, at, n) = 0
    <3>1. PICK size \in Nat : size = Windows[i].size
      BY WindowReads
    <3>2. n \in 1..size /\ at \in Nat /\ \A j \in 1..size : at + j - 1 \in Ages
      BY <3>1, WindowReads
    <3>3. n \in Nat /\ \A j \in 1..n : j \in 1..size
      BY <3>1, <3>2
    <3>4. \A j \in 1..n : f[at + j - 1] = 0
      BY <1>2, <3>2, <3>3
    <3> QED
      BY <3>2, <3>3, <3>4, SumOfNothing
  <2>2. /\ sumWindow(g, at, n) \in Nat /\ sumWindow(h, at + 1, n - 1) \in Nat
        /\ sumWindow(r, 0, at + n) \in Nat /\ Windows[i].limit \in Nat
    BY <1>2, ReadNumbers, WindowReads DEF PerAge
  <2>3. Forgotten(i, r, at + n) \in Nat
    BY <2>2, ForgottenIs
  <2> QED
    BY <2>1, <2>2, <2>3 DEF Within
<1>4. restarts \in [Ages -> Nat]
  BY <1>1, <1>2 DEF PerAge
<1>5. \A i \in DOMAIN Windows : WithinAll(admitted, counts, late, restarts, i)
  BY <1>1, <1>3 DEF WithinAll
<1> QED
  BY <1>4, <1>5, WindowsInvIs

(***************************************************************************)
(* A window of rate_limit.lua lets no more calls through than its limit,   *)
(* its limit again for each restart of Redis since it began, and the calls *)
(* that were late, with any windows, calls and faults.                     *)
(***************************************************************************)
THEOREM LimiterHoldsWindows == Spec => []WindowsHold
<1>1. WindowsInv => WindowsHold
  <2>1. \A i \in DOMAIN Windows : Windows[i].size \in 1..Windows[i].size
    BY WindowSizes
  <2> QED
    BY <2>1 DEF WindowsInv, WindowsHold
<1>2. LimiterInv /\ WindowsInv /\ [Next]_vars => WindowsInv'
  BY WindowsNext
<1> QED
  BY <1>1, <1>2, WindowsInit, LimiterInvariance, PTL DEF Spec

-----------------------------------------------------------------------------
(* The windows under a delay.                                               *)

(***************************************************************************)
(* What the windows hold while calls may be late: this second no more than *)
(* each limit, and the windows that end now or a second ago twice that.    *)
(***************************************************************************)
SlackOf(f, i) ==
    /\ f[0] <= Windows[i].limit
    /\ \A at \in 0..MaxDelay : sumWindow(f, at, Windows[i].size) <= 2 * Windows[i].limit

DelayInv == \A i \in DOMAIN Windows : SlackOf(admitted, i)

\* The sums over a whole window.
LEMMA WindowNumbers ==
    ASSUME NEW i \in DOMAIN Windows, NEW at \in 0..MaxDelay, NEW f \in [Ages -> Nat]
    PROVE  Numbers(f, at, Windows[i].size) /\ sumWindow(f, at, Windows[i].size) \in Nat
<1>1. Windows[i].size \in 1..Windows[i].size
  BY WindowReads
<1> QED
  BY <1>1, ReadNumbers

\* When a second has passed, this second is empty and the last was within its slack.
LEMMA SlackOfOlder ==
    ASSUME NEW i \in DOMAIN Windows, NEW f \in [Ages -> Nat], SlackOf(f, i)
    PROVE  SlackOf(Older(f), i)
<1>1. PICK size \in Nat \ {0}, limit \in Nat : size = Windows[i].size /\ limit = Windows[i].limit
  BY WindowReads, AgesAre
<1>2. 0 \in 0..MaxDelay /\ sumWindow(f, 0, size) <= 2 * limit
  BY <1>1, AgesAre DEF SlackOf
<1>3. \A a \in 0..(size - 1) : a \in Ages
  <2>1. PICK z : z = 0
    OBVIOUS
  <2>2. z \in 0..MaxDelay /\ z + size - 1 = size - 1
    BY <1>2, <2>1
  <2>3. \A a \in 0..(z + Windows[i].size - 1) : a \in Ages
    BY <2>2, WindowReads
  <2> QED
    BY <1>1, <2>2, <2>3
<1>4. sumWindow(Older(f), 0, size) <= 2 * limit
  <2>1. sumWindow(Older(f), 0, size) = sumWindow(f, 0, size - 1) /\ sumWindow(f, 0, size - 1) \in Nat
    BY <1>3, SumOlder
  <2>2. sumWindow(f, 0, size - 1) <= sumWindow(f, 0, size) /\ sumWindow(f, 0, size) \in Nat
    <3>1. PICK z, m : z = 0 /\ m = size - 1
      OBVIOUS
    <3>2. z \in Nat /\ m \in 0..size /\ Numbers(f, z, size)
      BY <1>1, <1>2, <3>1, WindowNumbers
    <3>3. /\ sumWindow(f, z, m) <= sumWindow(f, z, size)
          /\ sumWindow(f, z, size) \in Nat
      BY <3>2, SumPrefix
    <3> QED
      BY <3>1, <3>3
  <2> QED
    BY <1>2, <2>1, <2>2
<1>5. ASSUME 1 \in 0..MaxDelay PROVE sumWindow(Older(f), 1, size) = sumWindow(f, 0, size)
  <2>1. PICK z, o : z = 0 /\ o = 1
    OBVIOUS
  <2>2. z \in Nat /\ o \in Nat /\ o = z + 1 /\ z + size = o + size - 1
    BY <2>1
  <2>3. \A a \in 0..(z + size) : a \in Ages
    <3>1. \A a \in 0..(o + Windows[i].size - 1) : a \in Ages
      BY <1>5, <2>1, WindowReads
    <3> QED
      BY <1>1, <2>2, <3>1
  <2>4. sumWindow(Older(f), o, size) = sumWindow(f, z, size)
    BY <2>2, <2>3, SumShift
  <2> QED
    BY <2>1, <2>4
<1>6. \A at \in 0..MaxDelay : at = 0 \/ at = 1
  BY DelayAssumption
<1>7. Older(f)[0] <= limit
  BY <1>1, OlderKeeps
<1> QED
  BY <1>1, <1>2, <1>4, <1>5, <1>6, <1>7 DEF SlackOf

\* A call let through in the second its caller read meets every window's limit.
\* One let through late meets it a second ago, and this second's is its own.
LEMMA SlackOfAdmitted ==
    ASSUME NEW i \in DOMAIN Windows, NEW f \in [Ages -> Nat], SlackOf(f, i),
           NEW st \in 0..MaxDelay, NEW x \in [Ages -> Nat], NEW k \in [Ages -> Nat],
           \A a \in Ages : x[a] = f[a] + (IF a = st THEN 1 ELSE 0),
           \A a \in Ages : x[a] <= k[a],
           sumWindow(k, st, Windows[i].size) <= Windows[i].limit
    PROVE  SlackOf(x, i)
<1>1. PICK size \in Nat \ {0}, limit \in Nat : size = Windows[i].size /\ limit = Windows[i].limit
  BY WindowReads, AgesAre
<1>2. /\ 0 \in 0..MaxDelay /\ 0 \in Ages /\ (st = 0 \/ st = 1) /\ st \in Nat /\ st \in Ages
      /\ \A at \in 0..MaxDelay : at \in Nat /\ (at = 0 \/ at = 1)
  BY AgesAre, DelayAssumption
<1>3. f[0] <= limit /\ \A at \in 0..MaxDelay : sumWindow(f, at, size) <= 2 * limit
  BY <1>1 DEF SlackOf
<1>4. \A at \in 0..MaxDelay :
         /\ Numbers(x, at, size) /\ sumWindow(x, at, size) \in Nat
         /\ Numbers(f, at, size) /\ sumWindow(f, at, size) \in Nat
         /\ \A j \in 1..size : at + j - 1 \in Ages
  BY <1>1, WindowNumbers, WindowReads
<1>5. sumWindow(x, st, size) <= limit
  <2>1. \A j \in 1..size : /\ x[st + j - 1] \in Nat /\ k[st + j - 1] \in Nat
                           /\ x[st + j - 1] <= k[st + j - 1]
    BY <1>4
  <2>2. /\ sumWindow(x, st, size) \in Nat /\ sumWindow(k, st, size) \in Nat
        /\ sumWindow(x, st, size) <= sumWindow(k, st, size)
    BY <1>2, <2>1, SumGrows
  <2> QED
    BY <1>1, <2>2
<1>6. PICK z, o, m : z = 0 /\ o = 1 /\ m = size - 1
  OBVIOUS
<1>7. /\ z \in 0..MaxDelay /\ z \in Nat /\ o \in Nat /\ o = z + 1 /\ m \in Nat /\ m \in 0..size
      /\ m = size - 1 /\ z \in Ages
  BY <1>2, <1>6
<1>8. /\ sumWindow(x, z, size) = x[z] + sumWindow(x, o, m) /\ sumWindow(x, o, m) \in Nat
      /\ x[z] \in Nat /\ f[z] \in Nat
  BY <1>4, <1>7, SumHead
<1>9. CASE st = 0
  <2>1. x[z] <= limit /\ sumWindow(x, z, size) <= 2 * limit
    BY <1>4, <1>5, <1>6, <1>7, <1>8, <1>9
  <2>2. ASSUME o \in 0..MaxDelay PROVE sumWindow(x, o, size) <= 2 * limit
    <3>1. OneMore(x, f, st, o, size)
      BY <1>4, <2>2 DEF OneMore
    <3>2. sumWindow(x, o, size)
            = sumWindow(f, o, size) + (IF o <= st /\ st < o + size THEN 1 ELSE 0)
      BY <1>2, <1>4, <1>7, <2>2, <3>1, SumOneMore
    <3> QED
      BY <1>3, <1>4, <1>6, <1>9, <2>2, <3>2
  <2> QED
    BY <1>1, <1>2, <1>6, <2>1, <2>2 DEF SlackOf
<1>10. CASE st = 1
  <2>1. x[z] <= limit
    BY <1>3, <1>6, <1>7, <1>8, <1>10
  <2>2. sumWindow(x, o, m) <= sumWindow(x, o, size)
    BY <1>4, <1>6, <1>7, <1>10, SumPrefix
  <2>3. /\ sumWindow(x, z, size) <= 2 * limit /\ sumWindow(x, o, size) <= 2 * limit
    BY <1>4, <1>5, <1>6, <1>7, <1>8, <1>10, <2>1, <2>2
  <2> QED
    BY <1>1, <1>2, <1>6, <2>1, <2>3 DEF SlackOf
<1> QED
  BY <1>2, <1>9, <1>10

LEMMA DelayNext ==
    ASSUME "redis_restart" \notin Faults, LimiterInv, DelayInv, [Next]_vars
    PROVE  DelayInv'
<1>1. LimiterInv'
  BY LimiterNextInv
<1>2. PICK f, x, k : f = admitted /\ x = admitted' /\ k = counts'
  OBVIOUS
<1>3. /\ f \in [Ages -> Nat] /\ x \in [Ages -> Nat] /\ k \in [Ages -> Nat]
      /\ \A a \in Ages : x[a] <= k[a]
  BY <1>1, <1>2 DEF LimiterInv, TypeOK
<1>4. SUFFICES ASSUME NEW i \in DOMAIN Windows PROVE SlackOf(x, i)
  BY <1>2 DEF DelayInv, SlackOf
<1>5. SlackOf(f, i)
  BY <1>2 DEF DelayInv
<1>6. ASSUME NEW c \in Callers, RunScript(c), Exceeded(Incremented(c), stamp[c]) = {}
      PROVE  SlackOf(x, i)
  <2>1. PICK st \in 0..MaxDelay : st = stamp[c]
    BY DEF LimiterInv, TypeOK
  <2>2. \A a \in Ages : x[a] = f[a] + (IF a = st THEN 1 ELSE 0)
    <3>1. st \in Ages /\ x = [f EXCEPT ![st] = @ + 1]
      BY <1>2, <1>6, <2>1, AgesAre DEF RunScript, LetThrough
    <3> QED
      BY <1>3, <3>1
  <2>3. sumWindow(k, st, Windows[i].size) <= Windows[i].limit
    <3>1. k = Incremented(c)
      BY <1>2, <1>6 DEF RunScript
    <3>2. ~(sumWindow(k, st, Windows[i].size) > Windows[i].limit)
      BY <1>6, <2>1, <3>1 DEF Exceeded
    <3>3. sumWindow(k, st, Windows[i].size) \in Nat /\ Windows[i].limit \in Nat
      BY <1>3, WindowNumbers, WindowReads
    <3> QED
      BY <3>2, <3>3
  <2> QED
    BY <1>3, <1>5, <2>2, <2>3, SlackOfAdmitted
<1>7. ASSUME NEW c \in Callers, Call(c) \/ RedisError(c) \/ Canceled(c) \/ RetryCall(c)
      PROVE  x = f \/ (RunScript(c) /\ Exceeded(Incremented(c), stamp[c]) = {})
  <2>1. CASE RunScript(c)
    BY <1>2, <2>1 DEF RunScript
  <2> QED
    BY <1>2, <1>7, <2>1
    DEF Call, ReadClock, EvalScript, EvalSha, LockScriptCache, LoadScript, EvalShaAgain, Return,
        RedisError, Canceled, RetryCall, redis, observed
<1>8. CASE Tick
  <2>1. x = Older(f)
    BY <1>2, <1>8 DEF Tick
  <2> QED
    BY <1>3, <1>5, <2>1, SlackOfOlder
<1>9. CASE RedisRestart
  BY <1>9 DEF RedisRestart
<1>10. CASE UNCHANGED vars
  BY <1>2, <1>5, <1>10 DEF vars, redis, observed
<1> QED
  BY <1>5, <1>6, <1>7, <1>8, <1>9, <1>10 DEF Next

\* Before the first call nothing has been let through.
LEMMA DelayInit == Init => DelayInv
<1> SUFFICES ASSUME Init, NEW i \in DOMAIN Windows PROVE SlackOf(admitted, i)
  BY DEF DelayInv
<1>1. PICK f : f = admitted
  OBVIOUS
<1>2. f \in [Ages -> Nat] /\ \A a \in Ages : f[a] = 0
  BY <1>1 DEF Init
<1>3. Windows[i].size \in Nat \ {0} /\ Windows[i].limit \in Nat /\ 0 \in Ages
  BY WindowReads, AgesAre
<1>4. ASSUME NEW at \in 0..MaxDelay
      PROVE  sumWindow(f, at, Windows[i].size) = 0 /\ f[at] = 0
  <2>1. at \in Nat /\ at \in Ages /\ \A n \in 1..Windows[i].size : at + n - 1 \in Ages
    BY WindowReads
  <2>2. \A n \in 1..Windows[i].size : f[at + n - 1] = 0
    BY <1>2, <2>1
  <2> QED
    BY <1>2, <1>3, <2>1, <2>2, SumOfNothing
<1>5. SlackOf(f, i)
  BY <1>2, <1>3, <1>4 DEF SlackOf
<1> QED
  BY <1>1, <1>5

(***************************************************************************)
(* A script that runs up to a second after its caller has read the clock   *)
(* (limiter.go takes the time, rate_limit.lua judges by it) never lets     *)
(* more than twice the limit of a window through as long as Redis does not *)
(* restart, with any windows, calls and other faults.                      *)
(***************************************************************************)
THEOREM DelayedWindows ==
    ASSUME "redis_restart" \notin Faults
    PROVE  Spec => []DelayedWindowsHold
<1>1. DelayInv => DelayedWindowsHold
  BY DEF DelayInv, SlackOf, DelayedWindowsHold, Admitted
<1>2. LimiterInv /\ DelayInv /\ [Next]_vars => DelayInv'
  BY DelayNext
<1> QED
  BY <1>1, <1>2, DelayInit, LimiterInvariance, PTL DEF Spec

-----------------------------------------------------------------------------
(* The pool (DetailFetchPool).                                              *)

(***************************************************************************)
(* The pool's goroutines make calls as the limiter knows them: every       *)
(* behaviour of fetchGmailDetailsConcurrently is one of RateLimiter, so    *)
(* that what is proved of any calls holds for the workers' calls.          *)
(***************************************************************************)
THEOREM PoolCallsAreCalls == PoolSpec => Spec
<1>1. PoolInit => Init
  BY DEF PoolInit
<1>2. [PoolNext]_poolVars => [Next]_vars
  BY DEF PoolNext, PoolCall, PoolStep, TakeJob, StoreResult, CloseJobs, WaitGroupDone, Next, poolVars
<1> QED
  BY <1>1, <1>2, PTL DEF PoolSpec, Spec

LEMMA MessagesAre ==
    /\ Len(messageIDs) \in Nat /\ DOMAIN messageIDs = 1..Len(messageIDs)
    /\ \A i \in DOMAIN messageIDs : messageIDs[i] \in Callers
<1>1. Len(messageIDs) \in Nat /\ DOMAIN messageIDs = 1..Len(messageIDs)
  BY MessagesAssumption, LenProperties
<1> QED
  BY <1>1, MessagesAssumption, ElementOfSeq

LEMMA PoolInitInv == PoolInit => PoolInv
<1> SUFFICES ASSUME PoolInit PROVE PoolInv
  OBVIOUS
<1>1. next = 1 /\ next \in 1..(Len(messageIDs) + 1) /\ \A i \in DOMAIN messageIDs : ~(i < next)
  BY MessagesAre DEF PoolInit
<1>2. returned => next > Len(messageIDs)
  <2>1. returned => messageIDs = <<>>
    BY DEF PoolInit
  <2>2. messageIDs = <<>> => Len(messageIDs) = 0
    BY MessagesAssumption, EmptySeq
  <2> QED
    BY <1>1, <2>1, <2>2
<1> QED
  BY <1>1, <1>2 DEF PoolInit, PoolInv

LEMMA PoolNextInv ==
    ASSUME PoolInv, [PoolNext]_poolVars
    PROVE  PoolInv'
<1> DEFINE n == Len(messageIDs)
<1>1. n \in Nat /\ DOMAIN messageIDs = 1..n
  BY MessagesAre
<1>2. CASE TakeJob
  <2>1. /\ next <= n /\ busy' = busy \union {next} /\ next' = next + 1
        /\ UNCHANGED <<closed, results, returned>> /\ ~closed /\ ~returned
    BY <1>1, <1>2 DEF TakeJob, PoolInv
  <2>2. next \in 1..n /\ next + 1 \in 1..(n + 1)
    BY <1>1, <2>1 DEF PoolInv
  <2>3. \A i \in 1..n : i < next + 1 => i < next \/ i = next
    BY <1>1, <2>2
  <2> HIDE DEF n
  <2>4. \A i \in 1..n : i < next + 1 => i \in busy' \/ results'[i] = messageIDs[i]
    BY <1>1, <2>1, <2>3 DEF PoolInv
  <2> QED
    BY <1>1, <2>1, <2>2, <2>4 DEF PoolInv, n
<1>3. ASSUME NEW idx \in DOMAIN messageIDs, StoreResult(idx) PROVE PoolInv'
  <2>1. /\ idx \in busy /\ results' = [results EXCEPT ![idx] = messageIDs[idx]]
        /\ busy' = busy \ {idx} /\ UNCHANGED <<next, closed, returned>>
    BY <1>3 DEF StoreResult
  <2>2. results' \in [DOMAIN messageIDs -> Callers \union {NoMessage}]
    BY <2>1, MessagesAre DEF PoolInv
  <2>3. results'[idx] = messageIDs[idx] /\ \A i \in DOMAIN messageIDs \ {idx} : results'[i] = results[i]
    BY <2>1 DEF PoolInv
  <2> HIDE DEF n
  <2> QED
    BY <2>1, <2>2, <2>3 DEF PoolInv
<1>4. CASE CloseJobs
  BY <1>4 DEF CloseJobs, PoolInv
<1>5. CASE WaitGroupDone
  BY <1>5 DEF WaitGroupDone, PoolInv
<1>6. CASE UNCHANGED pool
  BY <1>6 DEF pool, PoolInv
<1> QED
  BY <1>2, <1>3, <1>4, <1>5, <1>6 DEF PoolNext, PoolCall, PoolStep, poolVars

(***************************************************************************)
(* An index the caller has sent is with a worker or its result is in its   *)
(* place, also while calls wait for the limiter, retry or fail.            *)
(***************************************************************************)
THEOREM PoolInvariance == PoolSpec => []PoolInv
<1>1. PoolInv /\ [PoolNext]_poolVars => PoolInv'
  BY PoolNextInv
<1> QED
  BY <1>1, PoolInitInv, PTL DEF PoolSpec

(***************************************************************************)
(* When fetchGmailDetailsConcurrently returns, every place holds the       *)
(* result of its own message, with any number of messages and workers.     *)
(***************************************************************************)
THEOREM PoolResultsComplete == PoolSpec => []ResultsComplete
<1>1. ASSUME PoolInv PROVE ResultsComplete
  <2> SUFFICES ASSUME returned, NEW i \in DOMAIN messageIDs PROVE results[i] = messageIDs[i]
    BY DEF ResultsComplete
  <2>1. next > Len(messageIDs) /\ busy = {} /\ next \in Nat
    BY <1>1, MessagesAre DEF PoolInv
  <2>2. i < next
    BY <2>1, MessagesAre
  <2> QED
    BY <1>1, <2>1, <2>2 DEF PoolInv
<1> QED
  BY <1>1, PoolInvariance, PTL
=============================================================================
