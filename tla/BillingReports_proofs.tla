------------------------ MODULE BillingReports_proofs ------------------------
(***************************************************************************)
(* Proofs about what users read (BillingReports, BillingQueries), for any  *)
(* mailbox and workflows, any set of months, window of months, number of   *)
(* vendors shown and page size.                                            *)
(*                                                                         *)
(* Sums are folds over finite sets, and what a fold computes is usually    *)
(* shown by induction.  Here it is shown by the smallest counterexample:   *)
(* among the subsets of a finite set with a wrong sum there is one all     *)
(* whose smaller subsets have the right one, and taking an element away    *)
(* from it leads to a contradiction.  What the queries rely on in a stored *)
(* row is an invariant of the pipeline (StoredRows); all else follows from *)
(* the rows of one state.                                                  *)
(***************************************************************************)
EXTENDS BillingReports, MailPipeline_proofs

-----------------------------------------------------------------------------
(* Finite sums.                                                             *)

\* A set of subsets of a finite set has a smallest one.
LEMMA SmallestSubset ==
    ASSUME NEW S, IsFiniteSet(S), NEW B \in SUBSET SUBSET S, B # {}
    PROVE  \E T \in B : \A U \in B : U \subseteq T => U = T
<1>1. IsWellFoundedOn(StrictSubsetOrdering(S), FiniteSubsetsOf(S))
  BY FS_StrictSubsetOrderingWellFounded
<1>2. B \subseteq FiniteSubsetsOf(S)
  BY FS_Subset DEF FiniteSubsetsOf
<1>3. PICK T \in B : \A U \in B : ~(<<U, T>> \in StrictSubsetOrdering(S))
  BY <1>1, <1>2, WFMin
<1> QED
  BY <1>3 DEF StrictSubsetOrdering

\* The element a fold takes first.
First(S) == CHOOSE x \in S : TRUE

\* The partial sums that SumFunctionOnSet is defined by.
PartialSums(g, f, S) ==
    g = [s \in SUBSET S |-> IF s = {} THEN 0 ELSE f[First(s)] + g[s \ {First(s)}]]

\* A sum is the partial sum of its whole set.
LEMMA SumIsPartialSum ==
    ASSUME NEW f, NEW S
    PROVE  SumFunctionOnSet(f, S) = (CHOOSE g : PartialSums(g, f, S))[S]
BY DEF SumFunctionOnSet, FoldFunctionOnSet, MapThenFoldSet, PartialSums, First

\* Partial sums of two sets agree where both are defined.
LEMMA PartialSumsAgree ==
    ASSUME NEW f, NEW S, NEW T, NEW g, NEW h, PartialSums(g, f, S), PartialSums(h, f, T),
           NEW U, U \subseteq S, U \subseteq T, IsFiniteSet(U)
    PROVE  g[U] = h[U]
<1> DEFINE bad == {V \in SUBSET U : g[V] # h[V]}
<1> SUFFICES ASSUME bad # {} PROVE FALSE
  OBVIOUS
<1>1. PICK V \in bad : \A W \in bad : W \subseteq V => W = V
  <2> HIDE DEF bad
  <2>1. bad \in SUBSET SUBSET U
    BY DEF bad
  <2> QED
    BY <2>1, SmallestSubset
<1>2. V \in SUBSET S /\ V \in SUBSET T /\ g[V] # h[V]
  BY <1>1
<1> DEFINE W == V \ {First(V)}
<1>3. /\ g[V] = IF V = {} THEN 0 ELSE f[First(V)] + g[W]
      /\ h[V] = IF V = {} THEN 0 ELSE f[First(V)] + h[W]
  BY <1>2 DEF PartialSums
<1>4. V # {}
  BY <1>2, <1>3
<1>5. First(V) \in V
  BY <1>4 DEF First
<1>6. g[W] = h[W]
  BY <1>1, <1>5
<1> QED
  BY <1>2, <1>3, <1>6

\* The recursion that defines partial sums has a solution on finite sets.
LEMMA PartialSumsExist ==
    ASSUME NEW f, NEW S, IsFiniteSet(S)
    PROVE  \E g : PartialSums(g, f, S)
<1> DEFINE bad == {T \in SUBSET S : ~\E g : PartialSums(g, f, T)}
<1> SUFFICES ASSUME bad # {} PROVE FALSE
  OBVIOUS
<1>1. PICK T \in bad : \A U \in bad : U \subseteq T => U = T
  <2> HIDE DEF bad
  <2>1. bad \in SUBSET SUBSET S
    BY DEF bad
  <2> QED
    BY <2>1, SmallestSubset
<1>2. ASSUME NEW U \in SUBSET T, U # T
      PROVE  PartialSums(CHOOSE g : PartialSums(g, f, U), f, U)
  <2>1. \E g : PartialSums(g, f, U)
    BY <1>1, <1>2
  <2> QED
    BY <2>1
<1> DEFINE Sum(U) == SumFunctionOnSet(f, U)
           h == [s \in SUBSET T |-> IF s = {} THEN 0 ELSE f[First(s)] + Sum(s \ {First(s)})]
<1>3. ASSUME NEW U \in SUBSET T, U # T
      PROVE  h[U] = Sum(U)
  <2> DEFINE W == U \ {First(U)}
             g == CHOOSE g : PartialSums(g, f, U)
             k == CHOOSE k : PartialSums(k, f, W)
  <2>1. PartialSums(g, f, U) /\ Sum(U) = g[U]
    BY <1>2, <1>3, SumIsPartialSum
  <2>2. g[U] = IF U = {} THEN 0 ELSE f[First(U)] + g[W]
    <3> HIDE DEF g
    <3> QED
      BY <2>1 DEF PartialSums
  <2>3. CASE U # {}
    <3>1. First(U) \in U
      BY <2>3 DEF First
    <3>2. W \in SUBSET T /\ W # T /\ W \subseteq U
      BY <3>1
    <3>3. PartialSums(k, f, W) /\ Sum(W) = k[W]
      BY <1>2, <3>2, SumIsPartialSum
    <3>4. IsFiniteSet(W)
      BY <3>2, FS_Subset
    <3>5. g[W] = k[W]
      <4> HIDE DEF g, k, W
      <4> QED
        BY <2>1, <3>2, <3>3, <3>4, PartialSumsAgree
    <3> QED
      BY <2>1, <2>2, <2>3, <3>3, <3>5
  <2>4. CASE U = {}
    BY <2>1, <2>2, <2>4
  <2> QED
    BY <2>3, <2>4
<1>4. PartialSums(h, f, T)
  <2>1. ASSUME NEW s \in SUBSET T, s # {}
        PROVE  Sum(s \ {First(s)}) = h[s \ {First(s)}]
    <3>1. First(s) \in s
      BY <2>1 DEF First
    <3>2. s \ {First(s)} \in SUBSET T /\ s \ {First(s)} # T
      BY <3>1
    <3> QED
      BY <1>3, <3>2
  <2>2. h = [s \in SUBSET T |-> IF s = {} THEN 0 ELSE f[First(s)] + h[s \ {First(s)}]]
    <3> DEFINE k == [s \in SUBSET T |-> IF s = {} THEN 0 ELSE f[First(s)] + h[s \ {First(s)}]]
    <3>1. \A s \in SUBSET T : h[s] = k[s]
      BY <2>1
    <3> QED
      BY <3>1
  <2> QED
    BY <2>2 DEF PartialSums
<1> QED
  BY <1>1, <1>4

\* What the recursion of SumFunctionOnSet says.
LEMMA SumUnfolds ==
    ASSUME NEW f, NEW S, IsFiniteSet(S)
    PROVE  SumFunctionOnSet(f, S) =
             IF S = {} THEN 0 ELSE f[First(S)] + SumFunctionOnSet(f, S \ {First(S)})
<1> DEFINE W == S \ {First(S)}
           g == CHOOSE g : PartialSums(g, f, S)
           k == CHOOSE k : PartialSums(k, f, W)
<1>1. IsFiniteSet(W) /\ W \subseteq S
  BY FS_Subset
<1>2. PartialSums(g, f, S) /\ SumFunctionOnSet(f, S) = g[S]
  BY PartialSumsExist, SumIsPartialSum
<1>3. PartialSums(k, f, W) /\ SumFunctionOnSet(f, W) = k[W]
  BY <1>1, PartialSumsExist, SumIsPartialSum
<1> HIDE DEF g, k
<1>4. g[W] = k[W]
  <2> HIDE DEF W
  <2> QED
    BY <1>1, <1>2, <1>3, PartialSumsAgree
<1>5. g[S] = IF S = {} THEN 0 ELSE f[First(S)] + g[W]
  BY <1>2 DEF PartialSums
<1> QED
  BY <1>2, <1>3, <1>4, <1>5

\* A sum of numbers is a number, and any of them may be taken first.
LEMMA SumTakes ==
    ASSUME NEW D, NEW f \in [D -> Int], NEW S \in SUBSET D, IsFiniteSet(S)
    PROVE  /\ SumFunctionOnSet(f, S) \in Int
           /\ \A x \in S : SumFunctionOnSet(f, S) = f[x] + SumFunctionOnSet(f, S \ {x})
<1> DEFINE Sum(U) == SumFunctionOnSet(f, U)
           Good(U) == Sum(U) \in Int /\ \A x \in U : Sum(U) = f[x] + Sum(U \ {x})
           bad == {T \in SUBSET S : ~Good(T)}
<1> SUFFICES ASSUME bad # {} PROVE FALSE
  <2> HIDE DEF Good
  <2>1. Good(S)
    OBVIOUS
  <2> QED
    BY <2>1 DEF Good
<1>1. PICK T \in bad : \A U \in bad : U \subseteq T => U = T
  <2> HIDE DEF bad
  <2>1. bad \in SUBSET SUBSET S
    BY DEF bad
  <2> QED
    BY <2>1, SmallestSubset
<1>2. T \in SUBSET S /\ ~Good(T) /\ \A U \in SUBSET T : U # T => Good(U)
  <2> HIDE DEF Good
  <2> QED
    BY <1>1
<1>3. ASSUME NEW U \in SUBSET T PROVE IsFiniteSet(U)
  BY <1>2, FS_Subset
<1>4. Sum(T) = IF T = {} THEN 0 ELSE f[First(T)] + Sum(T \ {First(T)})
  BY <1>3, SumUnfolds
<1>5. T # {}
  BY <1>2, <1>4
<1> DEFINE c == First(T)
<1>6. c \in T
  BY <1>5 DEF First
<1>7. ASSUME NEW x \in T PROVE Sum(T \ {x}) \in Int /\ f[x] \in Int
  <2>1. T \ {x} \in SUBSET T /\ T \ {x} # T
    OBVIOUS
  <2> QED
    BY <1>2, <2>1
<1> HIDE DEF c
<1>8. ASSUME NEW x \in T PROVE Sum(T) = f[x] + Sum(T \ {x})
  <2>1. CASE x = c
    BY <1>4, <1>5, <2>1 DEF c
  <2>2. CASE x # c
    <3> DEFINE rest == T \ {x, c}
    <3>1. /\ T \ {c} \in SUBSET T /\ T \ {c} # T /\ x \in T \ {c} /\ (T \ {c}) \ {x} = rest
          /\ T \ {x} \in SUBSET T /\ T \ {x} # T /\ c \in T \ {x} /\ (T \ {x}) \ {c} = rest
          /\ rest \in SUBSET T /\ rest # T
      BY <1>6, <2>2
    <3>2. Sum(T \ {c}) = f[x] + Sum(rest) /\ Sum(T \ {x}) = f[c] + Sum(rest) /\ Sum(rest) \in Int
      BY <1>2, <3>1
    <3>3. Sum(T) = f[c] + Sum(T \ {c})
      BY <1>4, <1>5 DEF c
    <3>4. f[x] \in Int /\ f[c] \in Int
      BY <1>6, <1>7
    <3> HIDE DEF rest, Sum
    <3> QED
      BY <3>2, <3>3, <3>4
  <2> QED
    BY <2>1, <2>2
<1>9. Sum(T) \in Int
  <2>1. Sum(T) = f[c] + Sum(T \ {c})
    BY <1>6, <1>8
  <2>2. Sum(T \ {c}) \in Int /\ f[c] \in Int
    BY <1>6, <1>7
  <2> HIDE DEF Sum
  <2> QED
    BY <2>1, <2>2
<1> QED
  BY <1>2, <1>8, <1>9

\* Nothing sums up to 0.
LEMMA SumOfNone == ASSUME NEW f PROVE SumFunctionOnSet(f, {}) = 0
BY SumUnfolds, FS_EmptySet

\* Only the values in the set matter.
LEMMA SumsAgree ==
    ASSUME NEW D, NEW f \in [D -> Int], NEW E, NEW g \in [E -> Int],
           NEW S, S \subseteq D, S \subseteq E, IsFiniteSet(S), \A x \in S : f[x] = g[x]
    PROVE  SumFunctionOnSet(f, S) = SumFunctionOnSet(g, S)
<1> DEFINE F(U) == SumFunctionOnSet(f, U)
           G(U) == SumFunctionOnSet(g, U)
           bad == {T \in SUBSET S : F(T) # G(T)}
<1> SUFFICES ASSUME bad # {} PROVE FALSE
  OBVIOUS
<1>1. PICK T \in bad : \A U \in bad : U \subseteq T => U = T
  <2> HIDE DEF bad
  <2>1. bad \in SUBSET SUBSET S
    BY DEF bad
  <2> QED
    BY <2>1, SmallestSubset
<1>2. T \in SUBSET S /\ F(T) # G(T) /\ \A U \in SUBSET T : U # T => F(U) = G(U)
  <2> HIDE DEF F, G
  <2> QED
    BY <1>1
<1>3. IsFiniteSet(T) /\ T \in SUBSET D /\ T \in SUBSET E
  BY <1>2, FS_Subset
<1>4. PICK x \in T : TRUE
  BY <1>2, SumOfNone
<1>5. F(T) = f[x] + F(T \ {x}) /\ G(T) = g[x] + G(T \ {x})
  BY <1>3, <1>4, SumTakes
<1>6. T \ {x} \in SUBSET T /\ T \ {x} # T /\ f[x] = g[x]
  BY <1>2, <1>4
<1> QED
  BY <1>2, <1>5, <1>6

\* The sum of two sets without a common element is that of both.
LEMMA SumsAdd ==
    ASSUME NEW D, NEW f \in [D -> Int], NEW A \in SUBSET D, NEW B \in SUBSET D,
           IsFiniteSet(A), IsFiniteSet(B), A \intersect B = {}
    PROVE  SumFunctionOnSet(f, A \union B) = SumFunctionOnSet(f, A) + SumFunctionOnSet(f, B)
<1> DEFINE Sum(U) == SumFunctionOnSet(f, U)
           bad == {T \in SUBSET B : Sum(A \union T) # Sum(A) + Sum(T)}
<1> SUFFICES ASSUME bad # {} PROVE FALSE
  OBVIOUS
<1>1. PICK T \in bad : \A U \in bad : U \subseteq T => U = T
  <2> HIDE DEF bad
  <2>1. bad \in SUBSET SUBSET B
    BY DEF bad
  <2> QED
    BY <2>1, SmallestSubset
<1>2. /\ T \in SUBSET B /\ Sum(A \union T) # Sum(A) + Sum(T)
      /\ \A U \in SUBSET T : U # T => Sum(A \union U) = Sum(A) + Sum(U)
  <2> HIDE DEF Sum
  <2> QED
    BY <1>1
<1>3. /\ IsFiniteSet(T) /\ T \in SUBSET D
      /\ IsFiniteSet(A \union T) /\ A \union T \in SUBSET D
  BY <1>2, FS_Subset, FS_Union
<1>4. Sum(A) \in Int
  BY SumTakes
<1>5. PICK x \in T : TRUE
  <2>1. T # {}
    <3> SUFFICES ASSUME T = {} PROVE FALSE
      OBVIOUS
    <3>1. Sum(T) = 0 /\ A \union T = A
      BY SumOfNone
    <3> HIDE DEF Sum
    <3> QED
      BY <1>2, <1>4, <3>1
  <2> QED
    BY <2>1
<1>6. /\ T \ {x} \in SUBSET T /\ T \ {x} # T /\ T \ {x} \in SUBSET D /\ IsFiniteSet(T \ {x})
      /\ (A \union T) \ {x} = A \union (T \ {x})
  BY <1>2, <1>3, <1>5, FS_Subset
<1>7. Sum(T) = f[x] + Sum(T \ {x}) /\ Sum(A \union T) = f[x] + Sum(A \union (T \ {x}))
  <2>1. x \in A \union T
    BY <1>5
  <2>2. Sum(T) = f[x] + Sum(T \ {x})
    BY <1>3, <1>5, SumTakes
  <2>3. Sum(A \union T) = f[x] + Sum((A \union T) \ {x})
    BY <1>3, <2>1, SumTakes
  <2> HIDE DEF Sum
  <2> QED
    BY <1>6, <2>2, <2>3
<1>8. f[x] \in Int /\ Sum(T \ {x}) \in Int
  BY <1>3, <1>5, <1>6, SumTakes
<1>9. Sum(A \union (T \ {x})) = Sum(A) + Sum(T \ {x})
  BY <1>2, <1>6
<1> HIDE DEF Sum
<1> QED
  BY <1>2, <1>4, <1>7, <1>8, <1>9

\* A sum is the sum of the sums of its classes.
LEMMA SumByClass ==
    ASSUME NEW S, IsFiniteSet(S), NEW f \in [S -> Int],
           NEW V, IsFiniteSet(V), NEW class \in [S -> V], NEW h \in [V -> Int],
           \A v \in V : h[v] = SumFunctionOnSet(f, {x \in S : class[x] = v})
    PROVE  SumFunctionOnSet(f, S) = SumFunctionOnSet(h, V)
<1> DEFINE Of(W) == {x \in S : class[x] \in W}
           F(W) == SumFunctionOnSet(f, Of(W))
           H(W) == SumFunctionOnSet(h, W)
           bad == {W \in SUBSET V : F(W) # H(W)}
<1> SUFFICES ASSUME bad # {} PROVE FALSE
  <2> HIDE DEF F, H
  <2>1. F(V) = H(V)
    OBVIOUS
  <2>2. Of(V) = S
    OBVIOUS
  <2> QED
    BY <2>1, <2>2 DEF F, H
<1>1. PICK W \in bad : \A U \in bad : U \subseteq W => U = W
  <2> HIDE DEF bad
  <2>1. bad \in SUBSET SUBSET V
    BY DEF bad
  <2> QED
    BY <2>1, SmallestSubset
<1>2. W \in SUBSET V /\ F(W) # H(W) /\ \A U \in SUBSET W : U # W => F(U) = H(U)
  <2> HIDE DEF F, H
  <2> QED
    BY <1>1
<1>3. PICK v \in W : TRUE
  <2>1. CASE W = {}
    <3>1. Of(W) = {}
      BY <2>1
    <3> QED
      BY <1>2, <2>1, <3>1, SumOfNone
  <2> QED
    BY <2>1
<1> DEFINE U == W \ {v}
           A == Of(U)
           B == {x \in S : class[x] = v}
<1>4. /\ U \in SUBSET W /\ U # W /\ v \in V
      /\ A \in SUBSET S /\ B \in SUBSET S /\ A \intersect B = {} /\ A \union B = Of(W)
  BY <1>2, <1>3
<1>5. IsFiniteSet(A) /\ IsFiniteSet(B) /\ IsFiniteSet(W)
  BY <1>2, <1>4, FS_Subset
<1> HIDE DEF A, B
<1>6. F(W) = SumFunctionOnSet(f, A) + SumFunctionOnSet(f, B)
  BY <1>4, <1>5, SumsAdd
<1>7. H(W) = h[v] + H(U)
  BY <1>2, <1>3, <1>5, SumTakes
<1>8. F(U) = H(U)
  BY <1>2, <1>4
<1>9. F(U) = SumFunctionOnSet(f, A) /\ h[v] = SumFunctionOnSet(f, B) /\ F(U) \in Int /\ h[v] \in Int
  BY <1>4, <1>5, SumTakes DEF A, B
<1> HIDE DEF F, H
<1> QED
  BY <1>2, <1>6, <1>7, <1>8, <1>9

\* One member sums up to its value.
LEMMA SumOfOne ==
    ASSUME NEW D, NEW f \in [D -> Int], NEW x \in D
    PROVE  SumFunctionOnSet(f, {x}) = f[x]
<1>1. IsFiniteSet({x}) /\ {x} \ {x} = {}
  BY FS_Singleton
<1>2. SumFunctionOnSet(f, {x}) = f[x] + SumFunctionOnSet(f, {x} \ {x})
  BY <1>1, SumTakes
<1> QED
  BY <1>1, <1>2, SumOfNone

\* A sum may be taken over other names of its members.
LEMMA SumRenamed ==
    ASSUME NEW S, IsFiniteSet(S), NEW f \in [S -> Int], NEW T, NEW h \in [T -> Int],
           NEW p \in [S -> T], \A t \in T : \E x \in S : p[x] = t,
           \A x, y \in S : p[x] = p[y] => x = y,
           \A x \in S : f[x] = h[p[x]]
    PROVE  SumFunctionOnSet(f, S) = SumFunctionOnSet(h, T)
<1>1. IsFiniteSet(T)
  <2>1. p \in Surjection(S, T)
    BY DEF Surjection
  <2> QED
    BY <2>1, FS_Surjection
<1>2. ASSUME NEW t \in T PROVE h[t] = SumFunctionOnSet(f, {x \in S : p[x] = t})
  <2>1. PICK x \in S : p[x] = t
    OBVIOUS
  <2>2. {y \in S : p[y] = t} = {x}
    BY <2>1
  <2> QED
    BY <2>1, <2>2, SumOfOne
<1> QED
  BY <1>1, <1>2, SumByClass

\* A set has as many members as ones.
LEMMA SizeIsSum ==
    ASSUME NEW S, IsFiniteSet(S)
    PROVE  Cardinality(S) = SumFunctionOnSet([x \in S |-> 1], S)
<1> DEFINE f == [x \in S |-> 1]
           Sum(U) == SumFunctionOnSet(f, U)
           bad == {T \in SUBSET S : Cardinality(T) # Sum(T)}
<1> HIDE DEF f
<1> SUFFICES ASSUME bad # {} PROVE FALSE
  BY DEF f
<1>1. PICK T \in bad : \A U \in bad : U \subseteq T => U = T
  <2> HIDE DEF bad
  <2>1. bad \in SUBSET SUBSET S
    BY DEF bad
  <2> QED
    BY <2>1, SmallestSubset
<1>2. /\ T \in SUBSET S /\ Cardinality(T) # Sum(T)
      /\ \A U \in SUBSET T : U # T => Cardinality(U) = Sum(U)
  <2> HIDE DEF Sum
  <2> QED
    BY <1>1
<1>3. IsFiniteSet(T)
  BY <1>2, FS_Subset
<1>4. PICK x \in T : TRUE
  BY <1>2, SumOfNone, FS_EmptySet
<1>5. T \ {x} \in SUBSET T /\ T \ {x} # T
  BY <1>4
<1>6. Cardinality(T \ {x}) = Cardinality(T) - 1 /\ Cardinality(T) \in Nat
  BY <1>3, <1>4, FS_RemoveElement, FS_CardinalityType
<1>7. Sum(T) = f[x] + Sum(T \ {x})
  <2>1. f \in [S -> Int]
    BY DEF f
  <2> QED
    BY <1>2, <1>3, <1>4, <2>1, SumTakes
<1>8. f[x] = 1 /\ Cardinality(T \ {x}) = Sum(T \ {x})
  BY <1>2, <1>4, <1>5 DEF f
<1> HIDE DEF Sum
<1> QED
  BY <1>2, <1>6, <1>7, <1>8

-----------------------------------------------------------------------------
(* The rows that workflows store.                                           *)

(***************************************************************************)
(* The line items of what NewBilling makes of an eligible candidate can be *)
(* summed up: they are finitely many, an amount is missing or a number,    *)
(* and a currency is a text that upper case and trimming leave alone.      *)
(***************************************************************************)
Summable(items) ==
    /\ IsFiniteSet(DOMAIN items)
    /\ \A k \in DOMAIN items :
         /\ items[k].amount \in OptionalAmount /\ items[k].currency \in Texts
         /\ normalizeOptionalUpperString(items[k].currency) = items[k].currency

\* NewBilling makes such items of every candidate that Evaluate lets pass.
LEMMA EligibleIsSummable ==
    ASSUME NEW p \in ParsedEmails, NormalizeParsedEmail(p) = p, Evaluate(p)
    PROVE  Summable(NewBilling(EligibleItem(p)).lineItems)
<1> DEFINE e == EligibleItem(p)
           items == NewBilling(e).lineItems
<1>1. /\ e.amount = p.amount /\ e.currency = p.currency
      /\ e.lineItems = toLineItems(p.lineItems, p.currency)
  BY DEF EligibleItem
<1>2. p.currency # Nil
  BY DEF Evaluate
<1>3. items = resolveBillingLineItems(e)
  BY DEF NewBilling
<1>4. /\ DOMAIN p.lineItems \in SUBSET Nat /\ IsFiniteSet(DOMAIN p.lineItems)
      /\ p.currency \in OptionalText /\ p.amount \in OptionalAmount
      /\ p.lineItems \in [DOMAIN p.lineItems -> LineItems]
  BY ParsedEmailFields
<1>5. \A k \in DOMAIN items : items[k].currency # Nil
  BY EligibleIsComplete
<1> HIDE DEF e, items
<1>6. e.lineItems \in [DOMAIN p.lineItems -> LineItems]
  <2>1. toLineItems(p.lineItems, p.currency) \in [DOMAIN p.lineItems -> LineItems]
    BY <1>2, <1>4, FallbackCurrencies
  <2> QED
    BY <1>1, <2>1
<1>7. CASE DOMAIN normalizeLineItems(e.lineItems) # {}
  <2>1. items = normalizeLineItems(e.lineItems)
    BY <1>3, <1>7 DEF resolveBillingLineItems
  <2>2. /\ DOMAIN items \subseteq DOMAIN p.lineItems
        /\ items \in [DOMAIN items -> LineItems]
        /\ \A k \in DOMAIN items : items[k] = NormalizeLineItem(e.lineItems[k])
    BY <1>4, <1>6, <2>1, LineItemsSettle
  <2>3. IsFiniteSet(DOMAIN items)
    BY <1>4, <2>2, FS_Subset
  <2>4. ASSUME NEW k \in DOMAIN items
        PROVE  /\ items[k].amount \in OptionalAmount /\ items[k].currency \in Texts
               /\ normalizeOptionalUpperString(items[k].currency) = items[k].currency
    <3>1. items[k] \in LineItems /\ e.lineItems[k] \in LineItems
          /\ items[k] = NormalizeLineItem(e.lineItems[k])
      BY <1>6, <2>2
    <3>2. /\ items[k].amount \in OptionalAmount /\ items[k].currency \in OptionalText
          /\ e.lineItems[k].currency \in OptionalText
      BY <3>1 DEF LineItems
    <3>3. items[k].currency = normalizeOptionalUpperString(e.lineItems[k].currency)
      BY <3>1 DEF NormalizeLineItem
    <3>4. normalizeOptionalUpperString(items[k].currency) = items[k].currency
      BY <3>2, <3>3, StringsSettle
    <3> QED
      BY <1>5, <3>2, <3>4 DEF OptionalText
  <2> QED
    BY <2>3, <2>4 DEF Summable, items, e
<1>8. CASE DOMAIN normalizeLineItems(e.lineItems) = {}
  <2> DEFINE made == [raw |-> Nil, display |-> normalizeOptionalString(e.product),
                      amount |-> e.amount, currency |-> normalizeOptionalUpperString(e.currency)]
  <2>1. items = <<made>>
    BY <1>3, <1>8 DEF resolveBillingLineItems
  <2>2. made.amount = p.amount /\ made.currency = normalizeOptionalUpperString(p.currency)
    BY <1>1
  <2> HIDE DEF made
  <2>3. DOMAIN items = {1} /\ items[1] = made
    BY <2>1
  <2>4. normalizeOptionalUpperString(made.currency) = made.currency
        /\ made.currency \in OptionalText
    BY <1>4, <2>2, StringsSettle
  <2>5. made.currency # Nil
    BY <1>5, <2>3
  <2>6. IsFiniteSet(DOMAIN items)
    BY <2>3, FS_Singleton
  <2> QED
    BY <1>4, <2>2, <2>3, <2>4, <2>5, <2>6 DEF Summable, OptionalText, items, e
<1> QED
  BY <1>7, <1>8

\* The row a billing in hand would become.
LEMMA RowInHand ==
    ASSUME PipelineInv, NEW w \in Workflows, AtItem(w, 5), Validate(Head(todo[w]).item)
    PROVE  LET b == BillingOf(Head(todo[w])) IN
           /\ b.id = Cardinality(billings) + 1 /\ b.vendor \in Vendors
           /\ b.summaryDate \in Nat /\ Summable(b.billing.lineItems)
<1> DEFINE e == Head(todo[w])
           b == BillingOf(e)
<1>1. e \in [vendor : Vendors, msg : Analyzed(w), pos : Nat, item : EligibleItems]
  <2>1. e \in Inputs(w, 5)
    BY InWork
  <2> QED
    BY <2>1 DEF Inputs
<1>2. PICK p \in ParsedEmails :
         NormalizeParsedEmail(p) = p /\ Evaluate(p) /\ e.item = EligibleItem(p)
  BY <1>1 DEF EligibleItems
<1>3. /\ b.id = Cardinality(billings) + 1 /\ b.vendor = e.vendor
      /\ b.billing = NewBilling(e.item) /\ b.summaryDate = resolveBillingSummaryDate(e)
  BY DEF BillingOf
<1>4. Summable(NewBilling(e.item).lineItems)
  BY <1>2, EligibleIsSummable
<1>5. e.item.date \in Dates /\ e.msg \in Messages /\ e.vendor \in Vendors
  <2>1. e.item.date = p.date
    BY <1>2 DEF EligibleItem
  <2>2. Analyzed(w) \subseteq Messages
    BY DEF Analyzed, PipelineInv, PipelineTypes
  <2> QED
    BY <1>1, <2>1, <2>2, ParsedEmailFields
<1>6. b.summaryDate \in Nat
  BY <1>3, <1>5, PipelineAssumption DEF resolveBillingSummaryDate, Dates, Messages
<1> QED
  BY <1>3, <1>4, <1>5, <1>6

\* A row that is inserted has an id of its own and can be summed up.
LEMMA RowStored ==
    ASSUME StoredRows, IsFiniteSet(billings), NEW b, b \notin billings,
           b.id = Cardinality(billings) + 1, b.vendor \in Vendors,
           b.summaryDate \in Nat, Summable(b.billing.lineItems),
           billings' = billings \union {b}
    PROVE  StoredRows'
<1>1. Cardinality(billings') = Cardinality(billings) + 1 /\ Cardinality(billings) \in Nat
  BY FS_AddElement, FS_CardinalityType
<1>2. \A c \in billings : c.id \in 1..Cardinality(billings)
  BY DEF StoredRows
<1>3. ASSUME NEW c \in billings', NEW d \in billings', c.id = d.id PROVE c = d
  <2>1. (c \in billings \/ c = b) /\ (d \in billings \/ d = b)
    OBVIOUS
  <2>2. \A x \in billings : x.id # b.id
    BY <1>1, <1>2
  <2> QED
    BY <1>3, <2>1, <2>2 DEF StoredRows
<1>4. ASSUME NEW c \in billings'
      PROVE  /\ c.id \in 1..Cardinality(billings')
             /\ c.vendor \in Vendors /\ c.summaryDate \in Nat
             /\ Summable(c.billing.lineItems)
  <2>1. CASE c \in billings
    BY <1>1, <2>1 DEF StoredRows, Summable
  <2>2. CASE c = b
    BY <1>1, <2>2
  <2> QED
    BY <2>1, <2>2
<1> HIDE DEF StoredRows
<1> QED
  BY <1>3, <1>4 DEF StoredRows, Summable

(***************************************************************************)
(* Rows keep what the queries rely on.                                     *)
(***************************************************************************)
LEMMA StoredRowsKept ==
    PipelineInv /\ StoredRows /\ [PipelineNext]_pipelineVars => StoredRows'
<1> SUFFICES ASSUME PipelineInv, StoredRows, [PipelineNext]_pipelineVars PROVE StoredRows'
  OBVIOUS
<1>1. CASE UNCHANGED billings
  BY <1>1 DEF StoredRows
<1>2. CASE \E w \in Workflows : SaveIfAbsent(w) \/ SaveBillingFails(w)
  <2>1. PICK w \in Workflows : SaveIfAbsent(w) \/ SaveBillingFails(w)
    BY <1>2
  <2> DEFINE b == BillingOf(Head(todo[w]))
  <2>2. AtItem(w, 5) /\ Validate(Head(todo[w]).item)
    BY <2>1, StageNumbers DEF SaveIfAbsent, SaveBillingFails
  <2>3. \/ UNCHANGED billings
        \/ (\A c \in billings : ~SameIdentity(b, c)) /\ billings' = billings \union {b}
    BY <2>1 DEF SaveIfAbsent, SaveBillingFails
  <2>4. CASE (\A c \in billings : ~SameIdentity(b, c)) /\ billings' = billings \union {b}
    <3>1. b \notin billings
      BY <2>4 DEF SameIdentity
    <3>2. /\ b.id = Cardinality(billings) + 1 /\ b.vendor \in Vendors
          /\ b.summaryDate \in Nat /\ Summable(b.billing.lineItems)
      BY <2>2, RowInHand
    <3>3. IsFiniteSet(billings)
      BY DEF PipelineInv, PipelineTypes
    <3> HIDE DEF b
    <3> QED
      BY <2>4, <3>1, <3>2, <3>3, RowStored
  <2> QED
    BY <1>1, <2>3, <2>4
<1>3. CASE Around
  BY <1>1, <1>3 DEF Around, tables
<1>4. CASE \E w \in Workflows : StageStep(w) /\ ~SaveIfAbsent(w) /\ ~SaveBillingFails(w)
  <2>1. PICK w \in Workflows : StageStep(w) /\ ~SaveIfAbsent(w) /\ ~SaveBillingFails(w)
    BY <1>4
  <2>2. UNCHANGED billings
    BY <2>1 DEF StageStep, Fetch, InsertChunk, InsertChunkFails, ReadBack, Analyze, AnalyzeFails,
                ResolveVendor, EvaluateEligibility, BuildBillingFails, ReturnResult, tables
  <2> QED
    BY <1>1, <2>2
<1>5. CASE UNCHANGED pipelineVars
  BY <1>1, <1>5 DEF pipelineVars, tables
<1> QED
  BY <1>2, <1>3, <1>4, <1>5 DEF PipelineNext

(***************************************************************************)
(* Whatever workflows do, fail at or repeat, every stored billing has an   *)
(* id of its own, a vendor, a date to be listed by, and finitely many line *)
(* items with currencies that need no further normalization.               *)
(***************************************************************************)
THEOREM RowsStored == PipelineSpec => []StoredRows
<1>1. PipelineInit => StoredRows
  BY DEF PipelineInit, StoredRows
<1> QED
  BY <1>1, StoredRowsKept, PipelineInvariance, PTL DEF PipelineSpec

-----------------------------------------------------------------------------
(* ORDER BY.                                                                *)

\* A relation that orders the members of S one after the other.
Orders(R, S) ==
    /\ \A a, b \in S : a # b => <<a, b>> \in R \/ <<b, a>> \in R
    /\ \A a, b, c \in S : <<a, b>> \in R /\ <<b, c>> \in R => <<a, c>> \in R
    /\ \A a \in S : <<a, a>> \notin R

\* One of finitely many members comes last.
LEMMA LastExists ==
    ASSUME NEW S, IsFiniteSet(S), S # {}, NEW R, Orders(R, S)
    PROVE  \E a \in S : \A b \in S \ {a} : <<b, a>> \in R
<1> DEFINE bad == {T \in SUBSET S : T # {} /\ ~\E a \in T : \A b \in T \ {a} : <<b, a>> \in R}
<1> SUFFICES ASSUME bad # {} PROVE FALSE
  OBVIOUS
<1>1. PICK T \in bad : \A U \in bad : U \subseteq T => U = T
  <2> HIDE DEF bad
  <2>1. bad \in SUBSET SUBSET S
    BY DEF bad
  <2> QED
    BY <2>1, SmallestSubset
<1>2. T \in SUBSET S /\ T # {} /\ \A a \in T : \E b \in T \ {a} : <<b, a>> \notin R
  BY <1>1
<1>3. PICK x \in T : TRUE
  BY <1>2
<1>4. T \ {x} # {} /\ T \ {x} \in SUBSET T /\ T \ {x} # T
  BY <1>2, <1>3
<1>5. PICK a \in T \ {x} : \A b \in (T \ {x}) \ {a} : <<b, a>> \in R
  BY <1>1, <1>4
<1>6. CASE <<x, a>> \in R
  <2>1. \A b \in T \ {a} : <<b, a>> \in R
    BY <1>5, <1>6
  <2> QED
    BY <1>2, <2>1
<1>7. CASE <<a, x>> \in R
  <2>1. ASSUME NEW b \in T \ {x} PROVE <<b, x>> \in R
    BY <1>2, <1>3, <1>5, <1>7 DEF Orders
  <2> QED
    BY <1>2, <1>3, <2>1
<1> QED
  BY <1>2, <1>3, <1>5, <1>6, <1>7 DEF Orders

\* Finitely many members can be listed in their order.
LEMMA ListExists ==
    ASSUME NEW S, IsFiniteSet(S), NEW R, Orders(R, S)
    PROVE  \E q \in [1..Cardinality(S) -> S] :
             \A i, j \in 1..Cardinality(S) : i < j => <<q[i], q[j]>> \in R
<1> DEFINE Listed(T) ==
             \E q \in [1..Cardinality(T) -> T] :
                \A i, j \in 1..Cardinality(T) : i < j => <<q[i], q[j]>> \in R
           bad == {T \in SUBSET S : ~Listed(T)}
<1> SUFFICES ASSUME bad # {} PROVE FALSE
  <2> HIDE DEF Listed
  <2>1. Listed(S)
    OBVIOUS
  <2> QED
    BY <2>1 DEF Listed
<1>1. PICK T \in bad : \A U \in bad : U \subseteq T => U = T
  <2> HIDE DEF bad
  <2>1. bad \in SUBSET SUBSET S
    BY DEF bad
  <2> QED
    BY <2>1, SmallestSubset
<1>2. T \in SUBSET S /\ ~Listed(T) /\ \A U \in SUBSET T : U # T => Listed(U)
  <2> HIDE DEF Listed
  <2> QED
    BY <1>1
<1>3. IsFiniteSet(T) /\ Cardinality(T) \in Nat
  BY <1>2, FS_Subset, FS_CardinalityType
<1>4. T # {}
  <2> SUFFICES ASSUME T = {} PROVE FALSE
    OBVIOUS
  <2>1. 1..Cardinality(T) = {}
    BY FS_EmptySet
  <2>2. [i \in {} |-> i] \in [1..Cardinality(T) -> T]
    BY <2>1
  <2> QED
    BY <1>2, <2>1, <2>2
<1>5. PICK a \in T : \A b \in T \ {a} : <<b, a>> \in R
  <2>1. Orders(R, T)
    BY <1>2 DEF Orders
  <2> QED
    BY <1>3, <1>4, <2>1, LastExists
<1> DEFINE U == T \ {a}
           n == Cardinality(U)
<1>6. n \in Nat /\ Cardinality(T) = n + 1
  <2>1. IsFiniteSet(U) /\ n = Cardinality(T) - 1
    BY <1>3, <1>5, FS_RemoveElement
  <2>2. n \in Nat
    BY <2>1, FS_CardinalityType
  <2> HIDE DEF n
  <2> QED
    BY <1>3, <2>1, <2>2
<1>7. PICK q \in [1..n -> U] : \A i, j \in 1..n : i < j => <<q[i], q[j]>> \in R
  <2>1. U \in SUBSET T /\ U # T
    BY <1>5
  <2>2. Listed(U)
    <3> HIDE DEF Listed, U
    <3> QED
      BY <1>2, <2>1
  <2> QED
    BY <2>2
<1> DEFINE longer == [i \in 1..(n + 1) |-> IF i = n + 1 THEN a ELSE q[i]]
<1> HIDE DEF n, U
<1>8. ASSUME NEW i \in 1..(n + 1)
      PROVE  IF i = n + 1 THEN longer[i] = a ELSE i \in 1..n /\ longer[i] = q[i] /\ q[i] \in U
  <2>1. CASE i = n + 1
    BY <2>1
  <2>2. CASE i # n + 1
    <3>1. i \in 1..n
      BY <1>6, <2>2
    <3> QED
      BY <1>7, <2>2, <3>1
  <2> QED
    BY <2>1, <2>2
<1>9. longer \in [1..(n + 1) -> T]
  <2>1. \A i \in 1..(n + 1) : longer[i] \in T
    BY <1>5, <1>8 DEF U
  <2> QED
    BY <2>1
<1>10. ASSUME NEW i \in 1..(n + 1), NEW j \in 1..(n + 1), i < j PROVE <<longer[i], longer[j]>> \in R
  <2> HIDE DEF longer
  <2>1. i # n + 1
    BY <1>6, <1>10
  <2>2. i \in 1..n /\ longer[i] = q[i] /\ q[i] \in U
    BY <1>8, <2>1
  <2>3. CASE j = n + 1
    BY <1>5, <1>8, <2>2, <2>3 DEF U
  <2>4. CASE j # n + 1
    BY <1>7, <1>8, <1>10, <2>2, <2>4
  <2> QED
    BY <2>3, <2>4
<1> HIDE DEF longer
<1> QED
  BY <1>2, <1>6, <1>9, <1>10

\* What ORDER BY lists has every member once.
LEMMA ListIsBijection ==
    ASSUME NEW S, IsFiniteSet(S), NEW R, Orders(R, S)
    PROVE  InOrder(S, R) \in Bijection(1..Cardinality(S), S)
<1> DEFINE n == Cardinality(S)
           q == InOrder(S, R)
<1>1. n \in Nat
  BY FS_CardinalityType
<1>2. Cardinality(1..n) = n /\ IsFiniteSet(1..n)
  BY <1>1, FS_Interval
<1>3. q \in [1..n -> S] /\ \A i, j \in 1..n : i < j => <<q[i], q[j]>> \in R
  <2>1. \E r \in [1..n -> S] : \A i, j \in DOMAIN r : i < j => <<r[i], r[j]>> \in R
    <3>1. PICK r \in [1..n -> S] : \A i, j \in 1..n : i < j => <<r[i], r[j]>> \in R
      BY ListExists
    <3>2. DOMAIN r = 1..n
      OBVIOUS
    <3> HIDE DEF n
    <3> QED
      BY <3>1, <3>2
  <2>2. q \in [1..n -> S] /\ \A i, j \in DOMAIN q : i < j => <<q[i], q[j]>> \in R
    BY <2>1 DEF InOrder
  <2> QED
    BY <2>2
<1> HIDE DEF n, q
<1>4. ASSUME NEW i \in 1..n, NEW j \in 1..n, q[i] = q[j] PROVE i = j
  <2>1. ~(i < j) /\ ~(j < i)
    BY <1>3, <1>4 DEF Orders
  <2> QED
    BY <1>1, <2>1
<1>5. q \in Injection(1..n, S)
  BY <1>3, <1>4 DEF Injection, IsInjective
<1>6. q \in Surjection(1..n, S)
  BY <1>2, <1>5, FS_Injection DEF n
<1> QED
  BY <1>5, <1>6 DEF Bijection, n, q

-----------------------------------------------------------------------------
(* Line items joined with their billings.                                   *)

\* Rows that queries can read.
Readable(T) ==
    /\ IsFiniteSet(T)
    /\ \A b, c \in T : b.id = c.id => b = c
    /\ \A b \in T : b.id \in Nat /\ b.vendor \in Nat /\ b.summaryDate \in Nat
                    /\ Summable(b.billing.lineItems)

\* Vendors are compared by name.
LEMMA VendorsAreNumbered == Vendors \subseteq Nat
BY PipelineAssumption

\* The stored billings are such rows.
LEMMA BillingsAreReadable ==
    ASSUME StoredRows, IsFiniteSet(billings)
    PROVE  Readable(billings)
<1>1. Cardinality(billings) \in Nat
  BY FS_CardinalityType
<1>2. ASSUME NEW b \in billings PROVE b.id \in Nat /\ b.vendor \in Nat /\ b.summaryDate \in Nat
  <2>1. b.id \in 1..Cardinality(billings) /\ b.vendor \in Vendors /\ b.summaryDate \in Nat
    BY DEF StoredRows
  <2> QED
    <3>1. b.id \in Nat
      BY <1>1, <2>1
    <3>2. b.vendor \in Nat
      BY <2>1, VendorsAreNumbered
    <3> QED
      BY <2>1, <3>1, <3>2
<1> QED
  BY <1>2 DEF StoredRows, Readable, Summable

\* SUM counts a missing amount as 0.
LEMMA AmountIsNumber ==
    ASSUME NEW T, Readable(T), NEW b \in T, NEW k \in DOMAIN b.billing.lineItems
    PROVE  ItemAmount(b, k) \in Int
BY DEF Readable, Summable, ItemAmount, Coalesce, OptionalAmount

\* What is summed up, and what is counted.
Amounts(joined) == [j \in joined |-> ItemAmount(j[1], j[2])]

BillingsOf(joined) == {j[1] : j \in joined}

\* The join has the items in the currency of the billings of the months, and they
\* are finitely many.
LEMMA Joined ==
    ASSUME NEW T, Readable(T), NEW c, NEW months
    PROVE  LET joined == JoinedItems(T, c, months) IN
           /\ IsFiniteSet(joined)
           /\ Amounts(joined) \in [joined -> Int]
           /\ \A j \in joined :
                /\ j[1] \in T /\ j[1].summaryDate \in months /\ j = <<j[1], j[2]>>
                /\ j[2] \in DOMAIN j[1].billing.lineItems
                /\ j[1].billing.lineItems[j[2]].currency = c
           /\ \A b \in T : \A k \in DOMAIN b.billing.lineItems :
                b.summaryDate \in months /\ b.billing.lineItems[k].currency = c
                  => <<b, k>> \in joined
<1> DEFINE joined == JoinedItems(T, c, months)
           dated == {b \in T : b.summaryDate \in months}
           of(b) == {<<b, k>> : k \in {k \in DOMAIN b.billing.lineItems :
                                         b.billing.lineItems[k].currency = c}}
           parts == {of(b) : b \in dated}
<1>1. joined = UNION parts
  BY DEF JoinedItems
<1>2. ASSUME NEW j \in joined
      PROVE  /\ j[1] \in T /\ j[1].summaryDate \in months /\ j = <<j[1], j[2]>>
             /\ j[2] \in DOMAIN j[1].billing.lineItems
             /\ j[1].billing.lineItems[j[2]].currency = c
  <2>1. PICK b \in dated : j \in of(b)
    BY <1>1
  <2>2. PICK k \in DOMAIN b.billing.lineItems :
           b.billing.lineItems[k].currency = c /\ j = <<b, k>>
    BY <2>1
  <2> QED
    BY <2>1, <2>2
<1>3. ASSUME NEW b \in T, NEW k \in DOMAIN b.billing.lineItems,
             b.summaryDate \in months, b.billing.lineItems[k].currency = c
      PROVE  <<b, k>> \in joined
  <2>1. b \in dated /\ <<b, k>> \in of(b)
    BY <1>3
  <2> QED
    BY <1>1, <2>1
<1>4. IsFiniteSet(joined)
  <2>1. IsFiniteSet(dated)
    BY FS_Subset DEF Readable
  <2>2. IsFiniteSet(parts)
    <3> DEFINE f == [b \in dated |-> of(b)]
    <3>1. f \in Surjection(dated, parts)
      BY DEF Surjection
    <3> QED
      BY <2>1, <3>1, FS_Surjection
  <2>3. ASSUME NEW b \in dated PROVE IsFiniteSet(of(b))
    <3> DEFINE chosen == {k \in DOMAIN b.billing.lineItems : b.billing.lineItems[k].currency = c}
               f == [k \in chosen |-> <<b, k>>]
    <3>1. IsFiniteSet(chosen)
      <4>1. IsFiniteSet(DOMAIN b.billing.lineItems)
        BY DEF Readable, Summable
      <4> QED
        BY <4>1, FS_Subset
    <3>2. f \in Surjection(chosen, of(b))
      BY DEF Surjection
    <3> QED
      BY <3>1, <3>2, FS_Surjection
  <2> HIDE DEF of, dated
  <2>4. \A P \in parts : IsFiniteSet(P)
    BY <2>3
  <2> HIDE DEF parts
  <2> QED
    BY <1>1, <2>2, <2>4, FS_UNION
<1> HIDE DEF joined
<1>5. ASSUME NEW j \in joined PROVE ItemAmount(j[1], j[2]) \in Int
  BY <1>2, AmountIsNumber
<1> QED
  BY <1>2, <1>3, <1>4, <1>5 DEF joined, Amounts

-----------------------------------------------------------------------------
(* The vendors of a month.                                                  *)

\* What buildMonthDetailVendorItems is given: one row per vendor.
VendorRows(items) ==
    /\ IsFiniteSet(items)
    /\ \A a \in items : a.vendor \in Nat /\ a.total \in Int /\ a.count \in Int
    /\ \A a, b \in items : a.vendor = b.vendor => a = b

\* The order of vendors.
LargerVendors(items) == {p \in items \X items : LargerVendor(p[1], p[2])}

\* ORDER BY tells any two vendors apart, by their names if by nothing else.
LEMMA VendorsAreOrdered ==
    ASSUME NEW items, VendorRows(items)
    PROVE  Orders(LargerVendors(items), items)
<1>1. \A a, b \in items : <<a, b>> \in LargerVendors(items) <=> LargerVendor(a, b)
  BY DEF LargerVendors
<1>2. \A a, b \in items : a # b => LargerVendor(a, b) \/ LargerVendor(b, a)
  BY DEF VendorRows, LargerVendor
<1>3. \A a, b, c \in items : LargerVendor(a, b) /\ LargerVendor(b, c) => LargerVendor(a, c)
  BY DEF VendorRows, LargerVendor
<1>4. \A a \in items : ~LargerVendor(a, a)
  BY DEF VendorRows, LargerVendor
<1> QED
  BY <1>1, <1>2, <1>3, <1>4 DEF Orders

\* A of the members of items are shown by themselves, at their places; the
\* rest of them as one, if there is a rest.  g is the number of what is shown,
\* f that of the members, h that of the rest.
Folded(items, f, places, q, shown, A, B, g, place, rest, h) ==
    /\ IsFiniteSet(items) /\ f \in [items -> Int]
    /\ q \in Bijection(places, items) /\ shown \in SUBSET places /\ rest = places \ shown
    /\ g \in [A \union B -> Int] /\ A \intersect B = {}
    /\ place \in Bijection(A, shown) /\ \A x \in A : g[x] = f[q[place[x]]]
    /\ h \in [rest -> Int] /\ \A i \in rest : h[i] = f[q[i]]
    /\ rest = {} => B = {}
    /\ rest # {} => \E x : B = {x} /\ g[x] = SumFunctionOnSet(h, rest)

(***************************************************************************)
(* What is shown sums up to the members, whether one is shown or is among  *)
(* the rest.                                                               *)
(***************************************************************************)
LEMMA ShownAndRest ==
    ASSUME NEW items, NEW f, NEW places, NEW q, NEW shown, NEW A, NEW B, NEW g, NEW place,
           NEW rest, NEW h, Folded(items, f, places, q, shown, A, B, g, place, rest, h)
    PROVE  SumFunctionOnSet(g, A \union B) = SumFunctionOnSet(f, items)
<1> USE DEF Folded
<1> DEFINE all == [i \in places |-> f[q[i]]]
<1>1. /\ q \in [places -> items] /\ \A t \in items : \E i \in places : q[i] = t
      /\ \A i, j \in places : q[i] = q[j] => i = j
  BY DEF Bijection, Injection, Surjection, IsInjective
<1>2. /\ place \in [A -> shown] /\ \A i \in shown : \E x \in A : place[x] = i
      /\ \A x, y \in A : place[x] = place[y] => x = y
  BY DEF Bijection, Injection, Surjection, IsInjective
<1>3. IsFiniteSet(places)
  <2>1. q \in Injection(places, items)
    BY DEF Bijection
  <2> QED
    BY <2>1, FS_Injection
<1>4. /\ rest \in SUBSET places /\ shown \intersect rest = {} /\ shown \union rest = places
      /\ IsFiniteSet(shown) /\ IsFiniteSet(rest)
  BY <1>3, FS_Subset
<1>5. IsFiniteSet(A) /\ IsFiniteSet(B)
  <2>1. place \in Injection(A, shown)
    BY DEF Bijection
  <2>2. IsFiniteSet(A)
    BY <1>4, <2>1, FS_Injection
  <2> QED
    <3>1. CASE rest = {}
      BY <2>2, <3>1, FS_EmptySet
    <3>2. CASE rest # {}
      <4>1. PICK x : B = {x}
        BY <3>2
      <4> QED
        BY <2>2, <4>1, FS_Singleton
    <3> QED
      BY <3>1, <3>2
<1>6. all \in [places -> Int] /\ \A i \in places : all[i] = f[q[i]]
  BY <1>1
<1> HIDE DEF all
<1>7. SumFunctionOnSet(all, places) = SumFunctionOnSet(f, items)
  BY <1>1, <1>3, <1>6, SumRenamed
<1>8. SumFunctionOnSet(all, places) = SumFunctionOnSet(all, shown) + SumFunctionOnSet(all, rest)
  BY <1>4, <1>6, SumsAdd
<1>9. SumFunctionOnSet(g, A \union B) = SumFunctionOnSet(g, A) + SumFunctionOnSet(g, B)
  BY <1>5, SumsAdd
<1>10. SumFunctionOnSet(g, A) = SumFunctionOnSet(all, shown)
  <2> DEFINE gA == [x \in A |-> g[x]]
             shownOnly == [i \in shown |-> all[i]]
  <2>1. /\ gA \in [A -> Int] /\ shownOnly \in [shown -> Int]
        /\ \A x \in A : gA[x] = g[x]
        /\ \A i \in shown : shownOnly[i] = all[i]
    BY <1>6
  <2> HIDE DEF gA, shownOnly
  <2>2. \A x \in A : gA[x] = shownOnly[place[x]]
    BY <1>2, <1>6, <2>1
  <2>3. SumFunctionOnSet(gA, A) = SumFunctionOnSet(shownOnly, shown)
    BY <1>2, <1>5, <2>1, <2>2, SumRenamed
  <2>4. SumFunctionOnSet(gA, A) = SumFunctionOnSet(g, A)
    BY <1>5, <2>1, SumsAgree
  <2>5. SumFunctionOnSet(shownOnly, shown) = SumFunctionOnSet(all, shown)
    <3>1. shown \subseteq shown /\ shown \subseteq places /\ \A i \in shown : shownOnly[i] = all[i]
      BY <2>1
    <3> QED
      BY <1>4, <1>6, <2>1, <3>1, SumsAgree
  <2> QED
    BY <2>3, <2>4, <2>5
<1>11. SumFunctionOnSet(g, B) = SumFunctionOnSet(all, rest)
  <2>1. CASE rest = {}
    BY <2>1, SumOfNone
  <2>2. CASE rest # {}
    <3>1. PICK x : B = {x} /\ g[x] = SumFunctionOnSet(h, rest)
      BY <2>2
    <3>2. \A i \in rest : h[i] = all[i]
      BY <1>4, <1>6
    <3>3. SumFunctionOnSet(h, rest) = SumFunctionOnSet(all, rest)
      BY <1>4, <1>6, <3>2, SumsAgree
    <3>4. SumFunctionOnSet(g, B) = g[x]
      BY <3>1, SumOfOne
    <3> QED
      BY <3>1, <3>3, <3>4
  <2> QED
    BY <2>1, <2>2
<1> QED
  BY <1>7, <1>8, <1>9, <1>10, <1>11

(***************************************************************************)
(* buildMonthDetailVendorItems loses no money and no billing: what it      *)
(* shows sums up to the rows it was given, for any limit.                  *)
(***************************************************************************)
LEMMA VendorItemsAddUp ==
    ASSUME NEW items, VendorRows(items)
    PROVE  LET shownItems == buildMonthDetailVendorItems(items) IN
           /\ SumFunction([x \in shownItems |-> x.total])
                = SumFunctionOnSet([a \in items |-> a.total], items)
           /\ SumFunction([x \in shownItems |-> x.count])
                = SumFunctionOnSet([a \in items |-> a.count], items)
<1> DEFINE shownItems == buildMonthDetailVendorItems(items)
           places == 1..Cardinality(items)
           q == InOrder(items, LargerVendors(items))
           shown == {i \in places : i <= billingMonthDetailVendorLimit}
           rest == places \ shown
           entry(i) == [total |-> q[i].total, count |-> q[i].count, isOther |-> FALSE, place |-> i]
           A == {entry(i) : i \in shown}
           other == [total |-> SumFunction([i \in rest |-> q[i].total]),
                     count |-> SumFunction([i \in rest |-> q[i].count]),
                     isOther |-> TRUE, place |-> billingMonthDetailVendorLimit + 1]
           B == IF rest = {} THEN {} ELSE {other}
<1>1. IsFiniteSet(items) /\ \A a \in items : a.total \in Int /\ a.count \in Int
  BY DEF VendorRows
<1>2. q \in Bijection(places, items)
  BY <1>1, VendorsAreOrdered, ListIsBijection
<1>3. DOMAIN q = places
  <2> HIDE DEF q
  <2> QED
    BY <1>2 DEF Bijection, Injection
<1>4. /\ q \in [places -> items] /\ shown \in SUBSET places /\ rest \in SUBSET places
      /\ rest = places \ shown /\ IsFiniteSet(rest)
  <2>1. IsFiniteSet(places)
    BY <1>1, FS_CardinalityType, FS_Interval
  <2> HIDE DEF q, places
  <2> QED
    BY <1>2, <2>1, FS_Subset DEF Bijection, Injection
<1>5. shownItems = A \union B
  <2> HIDE DEF q
  <2>1. {i \in DOMAIN q : i <= billingMonthDetailVendorLimit} = shown
    BY <1>3
  <2>2. DOMAIN q \ {i \in DOMAIN q : i <= billingMonthDetailVendorLimit} = rest
    BY <1>3
  <2> QED
    BY <2>1, <2>2 DEF buildMonthDetailVendorItems, LargerVendors, q
<1> HIDE DEF q, places, shown, rest, shownItems
<1>6. ASSUME NEW x \in A
      PROVE  /\ x.place \in shown /\ x.isOther = FALSE /\ x = entry(x.place)
             /\ x.total = q[x.place].total /\ x.count = q[x.place].count
  <2>1. PICK i \in shown : x = entry(i)
    OBVIOUS
  <2> QED
    BY <2>1
<1>7. ASSUME NEW i \in shown PROVE entry(i) \in A /\ entry(i).place = i
  OBVIOUS
<1>8. /\ rest = {} => B = {}
      /\ rest # {} => B = {other}
      /\ other.total = SumFunction([i \in rest |-> q[i].total])
      /\ other.count = SumFunction([i \in rest |-> q[i].count])
      /\ other.isOther = TRUE
  OBVIOUS
<1> HIDE DEF other, entry, B
<1>9. A \intersect B = {}
  BY <1>6, <1>8
<1> HIDE DEF A
<1>10. SumFunction([x \in shownItems |-> x.total])
         = SumFunctionOnSet([a \in items |-> a.total], items)
  <2> DEFINE of == [a \in items |-> a.total]
             ofShown == [x \in A \union B |-> x.total]
             ofRest == [i \in rest |-> q[i].total]
             place == [x \in A |-> x.place]
  <2>1. of \in [items -> Int] /\ \A a \in items : of[a] = a.total
    BY <1>1
  <2>2. ofRest \in [rest -> Int] /\ \A i \in rest : ofRest[i] = of[q[i]]
    BY <1>1, <1>4
  <2>3. place \in Bijection(A, shown)
    <3>1. place \in [A -> shown] /\ \A x \in A : place[x] = x.place
      BY <1>6
    <3>2. \A x, y \in A : place[x] = place[y] => x = y
      BY <1>6, <3>1
    <3>3. \A i \in shown : \E x \in A : place[x] = i
      BY <1>7, <3>1
    <3> HIDE DEF place
    <3> QED
      BY <3>1, <3>2, <3>3 DEF Bijection, Injection, Surjection, IsInjective
  <2>4. ASSUME NEW x \in A PROVE x.total = of[q[place[x]]] /\ x.total \in Int
    BY <1>1, <1>4, <1>6
  <2> HIDE DEF of, ofRest, place
  <2>5. rest # {} => \E x : B = {x} /\ x.total = SumFunctionOnSet(ofRest, rest)
    <3>1. SumFunction(ofRest) = SumFunctionOnSet(ofRest, rest)
      BY <2>2 DEF SumFunction
    <3>2. rest # {} => B = {other} /\ other.total = SumFunction(ofRest)
      BY <1>8 DEF ofRest
    <3> QED
      BY <3>1, <3>2
  <2>6. ofShown \in [A \union B -> Int]
    <3>1. SumFunctionOnSet(ofRest, rest) \in Int
      BY <1>4, <2>2, SumTakes
    <3>2. ASSUME NEW x \in B PROVE x.total \in Int
      <4>1. rest # {}
        BY <1>8
      <4> QED
        BY <2>5, <3>1, <4>1
    <3>3. \A x \in A \union B : x.total \in Int
      BY <2>4, <3>2
    <3> QED
      BY <3>3
  <2>7. /\ \A x \in A : ofShown[x] = of[q[place[x]]]
        /\ rest # {} => \E x : B = {x} /\ ofShown[x] = SumFunctionOnSet(ofRest, rest)
    BY <2>4, <2>5
  <2>8. SumFunction([x \in shownItems |-> x.total]) = SumFunctionOnSet(ofShown, A \union B)
    BY <1>5 DEF SumFunction
  <2> HIDE DEF ofShown
  <2>9. SumFunctionOnSet(ofShown, A \union B) = SumFunctionOnSet(of, items)
    <3>1. Folded(items, of, places, q, shown, A, B, ofShown, place, rest, ofRest)
      BY <1>1, <1>2, <1>4, <1>8, <1>9, <2>1, <2>2, <2>3, <2>6, <2>7 DEF Folded
    <3> QED
      BY <3>1, ShownAndRest
  <2> QED
    BY <2>8, <2>9 DEF of
<1>11. SumFunction([x \in shownItems |-> x.count])
         = SumFunctionOnSet([a \in items |-> a.count], items)
  <2> DEFINE of == [a \in items |-> a.count]
             ofShown == [x \in A \union B |-> x.count]
             ofRest == [i \in rest |-> q[i].count]
             place == [x \in A |-> x.place]
  <2>1. of \in [items -> Int] /\ \A a \in items : of[a] = a.count
    BY <1>1
  <2>2. ofRest \in [rest -> Int] /\ \A i \in rest : ofRest[i] = of[q[i]]
    BY <1>1, <1>4
  <2>3. place \in Bijection(A, shown)
    <3>1. place \in [A -> shown] /\ \A x \in A : place[x] = x.place
      BY <1>6
    <3>2. \A x, y \in A : place[x] = place[y] => x = y
      BY <1>6, <3>1
    <3>3. \A i \in shown : \E x \in A : place[x] = i
      BY <1>7, <3>1
    <3> HIDE DEF place
    <3> QED
      BY <3>1, <3>2, <3>3 DEF Bijection, Injection, Surjection, IsInjective
  <2>4. ASSUME NEW x \in A PROVE x.count = of[q[place[x]]] /\ x.count \in Int
    BY <1>1, <1>4, <1>6
  <2> HIDE DEF of, ofRest, place
  <2>5. rest # {} => \E x : B = {x} /\ x.count = SumFunctionOnSet(ofRest, rest)
    <3>1. SumFunction(ofRest) = SumFunctionOnSet(ofRest, rest)
      BY <2>2 DEF SumFunction
    <3>2. rest # {} => B = {other} /\ other.count = SumFunction(ofRest)
      BY <1>8 DEF ofRest
    <3> QED
      BY <3>1, <3>2
  <2>6. ofShown \in [A \union B -> Int]
    <3>1. SumFunctionOnSet(ofRest, rest) \in Int
      BY <1>4, <2>2, SumTakes
    <3>2. ASSUME NEW x \in B PROVE x.count \in Int
      <4>1. rest # {}
        BY <1>8
      <4> QED
        BY <2>5, <3>1, <4>1
    <3>3. \A x \in A \union B : x.count \in Int
      BY <2>4, <3>2
    <3> QED
      BY <3>3
  <2>7. /\ \A x \in A : ofShown[x] = of[q[place[x]]]
        /\ rest # {} => \E x : B = {x} /\ ofShown[x] = SumFunctionOnSet(ofRest, rest)
    BY <2>4, <2>5
  <2>8. SumFunction([x \in shownItems |-> x.count]) = SumFunctionOnSet(ofShown, A \union B)
    BY <1>5 DEF SumFunction
  <2> HIDE DEF ofShown
  <2>9. SumFunctionOnSet(ofShown, A \union B) = SumFunctionOnSet(of, items)
    <3>1. Folded(items, of, places, q, shown, A, B, ofShown, place, rest, ofRest)
      BY <1>1, <1>2, <1>4, <1>8, <1>9, <2>1, <2>2, <2>3, <2>6, <2>7 DEF Folded
    <3> QED
      BY <3>1, ShownAndRest
  <2> QED
    BY <2>8, <2>9 DEF of
<1> QED
  BY <1>10, <1>11 DEF shownItems

\* What is joined for a month, in one currency.
LEMMA AggregateIsSum ==
    ASSUME NEW T, Readable(T), NEW c, NEW months, NEW S \in SUBSET JoinedItems(T, c, months)
    PROVE  LET all == Amounts(JoinedItems(T, c, months)) IN
           /\ Aggregate(S).total = SumFunctionOnSet(all, S) /\ Aggregate(S).total \in Int
           /\ Aggregate(S).count = Cardinality(BillingsOf(S)) /\ Aggregate(S).count \in Nat
           /\ IsFiniteSet(S) /\ IsFiniteSet(BillingsOf(S))
<1> DEFINE J == JoinedItems(T, c, months)
           all == Amounts(J)
           own == Amounts(S)
<1>1. IsFiniteSet(J) /\ all \in [J -> Int]
  BY Joined
<1>2. /\ Aggregate(S).total = SumFunctionOnSet(own, S)
      /\ Aggregate(S).count = Cardinality(BillingsOf(S))
  BY DEF Aggregate, SumFunction, Amounts, BillingsOf
<1>3. \A j \in S : own[j] = all[j]
  BY DEF Amounts
<1>4. own \in [S -> Int]
  <2>1. \A j \in S : all[j] \in Int /\ own[j] = all[j]
    BY <1>1, <1>3
  <2>2. own = [j \in S |-> own[j]]
    BY DEF Amounts
  <2> HIDE DEF own
  <2> QED
    BY <2>1, <2>2
<1>5. IsFiniteSet(S) /\ S \subseteq J
  BY <1>1, FS_Subset
<1> HIDE DEF J, all, own
<1>6. SumFunctionOnSet(own, S) = SumFunctionOnSet(all, S) /\ SumFunctionOnSet(own, S) \in Int
  <2>1. S \subseteq S /\ S \in SUBSET S
    OBVIOUS
  <2> QED
    BY <1>1, <1>3, <1>4, <1>5, <2>1, SumsAgree, SumTakes
<1>7. IsFiniteSet(BillingsOf(S)) /\ Cardinality(BillingsOf(S)) \in Nat
  <2> DEFINE B == BillingsOf(S)
             first == [j \in S |-> j[1]]
  <2>1. first \in Surjection(S, B)
    BY DEF Surjection, BillingsOf
  <2> HIDE DEF B, first
  <2>2. IsFiniteSet(B)
    BY <1>5, <2>1, FS_Surjection
  <2>3. Cardinality(B) \in Nat
    BY <2>2, FS_CardinalityType
  <2> QED
    BY <2>2, <2>3 DEF B
<1> QED
  BY <1>2, <1>5, <1>6, <1>7 DEF J, all

\* The rows of the vendors, one each, sum up to the aggregate of the month.
LEMMA VendorsAddUp ==
    ASSUME NEW T, Readable(T), NEW c, NEW months
    PROVE  LET joined == JoinedItems(T, c, months)
               items == VendorAggregates(joined)
           IN  /\ VendorRows(items)
               /\ SumFunctionOnSet([a \in items |-> a.total], items) = Aggregate(joined).total
               /\ SumFunctionOnSet([a \in items |-> a.count], items) = Aggregate(joined).count
<1> DEFINE joined == JoinedItems(T, c, months)
           all == Amounts(joined)
           B == BillingsOf(joined)
           V == {j[1].vendor : j \in joined}
           of(v) == {j \in joined : j[1].vendor = v}
           rowOf == [v \in V |-> VendorAggregate(joined, v)]
           items == VendorAggregates(joined)
<1>1. /\ IsFiniteSet(joined) /\ all \in [joined -> Int]
      /\ \A j \in joined : j[1] \in T
  BY Joined
<1>2. /\ Aggregate(joined).total = SumFunctionOnSet(all, joined)
      /\ Aggregate(joined).count = Cardinality(B) /\ IsFiniteSet(B)
  <2>1. joined \in SUBSET joined
    OBVIOUS
  <2> QED
    BY <2>1, AggregateIsSum
<1>3. ASSUME NEW v
      PROVE  /\ Aggregate(of(v)).total = SumFunctionOnSet(all, of(v))
             /\ Aggregate(of(v)).total \in Int
             /\ Aggregate(of(v)).count = Cardinality(BillingsOf(of(v)))
             /\ Aggregate(of(v)).count \in Nat
             /\ IsFiniteSet(BillingsOf(of(v)))
  <2> DEFINE S == of(v)
  <2>1. S \in SUBSET joined
    OBVIOUS
  <2> HIDE DEF S
  <2> QED
    BY <2>1, AggregateIsSum DEF S
<1>4. /\ \A v \in V : v \in Nat
      /\ IsFiniteSet(V)
  <2>1. \A j \in joined : j[1].vendor \in Nat
    BY <1>1 DEF Readable
  <2> DEFINE vendorOf == [j \in joined |-> j[1].vendor]
  <2>2. vendorOf \in Surjection(joined, V)
    BY DEF Surjection
  <2>3. IsFiniteSet(V)
    BY <1>1, <2>2, FS_Surjection
  <2> QED
    BY <2>1, <2>3
<1>5. ASSUME NEW v \in V
      PROVE  /\ rowOf[v].vendor = v /\ rowOf[v] \in items
             /\ rowOf[v].total = Aggregate(of(v)).total /\ rowOf[v].count = Aggregate(of(v)).count
  BY DEF VendorAggregate, VendorAggregates
<1>6. \A a \in items : \E v \in V : a = rowOf[v]
  BY DEF VendorAggregates
<1> HIDE DEF rowOf, items
<1>7. VendorRows(items)
  <2>1. ASSUME NEW a \in items PROVE a.vendor \in Nat /\ a.total \in Int /\ a.count \in Int
    <3>1. PICK v \in V : a = rowOf[v]
      BY <1>6
    <3> DEFINE S == of(v)
    <3>2. Aggregate(S).total \in Int /\ Aggregate(S).count \in Nat
      BY <1>3, Zenon
    <3>3. a.total = Aggregate(S).total /\ a.count = Aggregate(S).count /\ a.vendor = v /\ v \in Nat
      BY <1>4, <1>5, <3>1
    <3> HIDE DEF S
    <3> QED
      BY <3>2, <3>3
  <2>2. \A a, b \in items : a.vendor = b.vendor => a = b
    <3> HIDE DEF V, of
    <3> QED
      BY <1>5, <1>6
  <2>3. IsFiniteSet(items)
    <3>1. rowOf \in Surjection(V, items)
      <4>1. DOMAIN rowOf = V /\ rowOf = [v \in V |-> rowOf[v]]
        BY DEF rowOf
      <4> HIDE DEF V
      <4> QED
        BY <1>5, <1>6, <4>1 DEF Surjection
    <3> QED
      BY <1>4, <3>1, FS_Surjection
  <2> QED
    BY <2>1, <2>2, <2>3 DEF VendorRows
<1>8. /\ rowOf \in [V -> items] /\ \A a \in items : \E v \in V : rowOf[v] = a
      /\ \A v, u \in V : rowOf[v] = rowOf[u] => v = u
  <2>1. DOMAIN rowOf = V /\ rowOf = [v \in V |-> rowOf[v]]
    BY DEF rowOf
  <2> HIDE DEF V
  <2>2. rowOf \in [V -> items]
    BY <1>5, <2>1
  <2>3. \A v, u \in V : rowOf[v] = rowOf[u] => v = u
    BY <1>5
  <2> QED
    BY <1>6, <2>2, <2>3
<1>9. SumFunctionOnSet([a \in items |-> a.total], items) = Aggregate(joined).total
  <2> DEFINE totals == [a \in items |-> a.total]
             totalOf == [v \in V |-> Aggregate(of(v)).total]
             vendorOf == [j \in joined |-> j[1].vendor]
  <2>1. totals \in [items -> Int] /\ \A a \in items : totals[a] = a.total
    BY <1>7 DEF VendorRows
  <2>2. totalOf \in [V -> Int] /\ \A v \in V : totalOf[v] = SumFunctionOnSet(all, of(v))
    BY <1>3
  <2>3. \A v \in V : totalOf[v] = totals[rowOf[v]]
    <3> HIDE DEF of, V
    <3>1. \A v \in V : rowOf[v] \in items /\ rowOf[v].total = Aggregate(of(v)).total
      BY <1>5
    <3> QED
      BY <2>1, <3>1
  <2>4. vendorOf \in [joined -> V] /\ \A v \in V : of(v) = {j \in joined : vendorOf[j] = v}
    OBVIOUS
  <2> HIDE DEF totals, totalOf, vendorOf, V, joined, all, of
  <2>5. SumFunctionOnSet(totalOf, V) = SumFunctionOnSet(totals, items)
    BY <1>4, <1>8, <2>1, <2>2, <2>3, SumRenamed
  <2>6. \A v \in V : totalOf[v] = SumFunctionOnSet(all, {j \in joined : vendorOf[j] = v})
    BY <2>2, <2>4
  <2>7. SumFunctionOnSet(all, joined) = SumFunctionOnSet(totalOf, V)
    <3>1. IsFiniteSet(joined) /\ all \in [joined -> Int]
      BY <1>1
    <3>2. IsFiniteSet(V) /\ vendorOf \in [joined -> V] /\ totalOf \in [V -> Int]
      BY <1>4, <2>2, <2>4
    <3> QED
      BY <2>6, <3>1, <3>2, SumByClass
  <2> QED
    BY <1>2, <2>5, <2>7 DEF totals
<1>10. SumFunctionOnSet([a \in items |-> a.count], items) = Aggregate(joined).count
  <2> DEFINE counts == [a \in items |-> a.count]
             countOf == [v \in V |-> Aggregate(of(v)).count]
             vendorOf == [b \in B |-> b.vendor]
             ones == [b \in B |-> 1]
  <2>1. counts \in [items -> Int] /\ \A a \in items : counts[a] = a.count
    BY <1>7 DEF VendorRows
  <2>2. countOf \in [V -> Int]
    <3>1. \A v \in V : Aggregate(of(v)).count \in Nat
      BY <1>3, Zenon
    <3> HIDE DEF V, of
    <3> QED
      BY <3>1
  <2>3. \A v \in V : countOf[v] = counts[rowOf[v]]
    <3> HIDE DEF of, V
    <3>1. \A v \in V : rowOf[v] \in items /\ rowOf[v].count = Aggregate(of(v)).count
      BY <1>5
    <3> QED
      BY <2>1, <3>1
  <2>4. vendorOf \in [B -> V] /\ ones \in [B -> Int] /\ \A b \in B : ones[b] = 1
    BY DEF BillingsOf
  <2>5. ASSUME NEW v \in V PROVE countOf[v] = SumFunctionOnSet(ones, {b \in B : vendorOf[b] = v})
    <3> DEFINE own == BillingsOf(of(v))
               onesOfV == [b \in own |-> 1]
    <3>1. own = {b \in B : vendorOf[b] = v}
      BY DEF BillingsOf
    <3>2. countOf[v] = Cardinality(own) /\ IsFiniteSet(own)
      BY <1>3
    <3>3. onesOfV \in [own -> Int] /\ own \subseteq own /\ own \subseteq B
          /\ \A b \in own : onesOfV[b] = ones[b]
      BY DEF BillingsOf
    <3> HIDE DEF own, countOf, ones, B, vendorOf
    <3>4. Cardinality(own) = SumFunctionOnSet(onesOfV, own)
      BY <3>2, SizeIsSum
    <3> HIDE DEF onesOfV
    <3>5. SumFunctionOnSet(onesOfV, own) = SumFunctionOnSet(ones, own)
      BY <2>4, <3>2, <3>3, SumsAgree
    <3> QED
      BY <3>1, <3>2, <3>4, <3>5
  <2>6. Cardinality(B) = SumFunctionOnSet(ones, B)
    BY <1>2, SizeIsSum
  <2> HIDE DEF counts, countOf, vendorOf, ones, V, B, joined, of
  <2>7. SumFunctionOnSet(countOf, V) = SumFunctionOnSet(counts, items)
    BY <1>4, <1>8, <2>1, <2>2, <2>3, SumRenamed
  <2>8. SumFunctionOnSet(ones, B) = SumFunctionOnSet(countOf, V)
    BY <1>2, <1>4, <2>2, <2>4, <2>5, SumByClass
  <2> QED
    BY <1>2, <2>6, <2>7, <2>8 DEF counts
<1> QED
  BY <1>7, <1>9, <1>10 DEF items

\* A month without items has zeroes.
LEMMA AggregateOfNone == Aggregate({}) = [total |-> 0, count |-> 0, fallback |-> 0]
<1>1. SumFunction([j \in {} |-> ItemAmount(j[1], j[2])]) = 0
  BY SumOfNone DEF SumFunction
<1>2. {j[1] : j \in {}} = {} /\ {j \in {} : j[1].billing.date = Nil} = {}
  OBVIOUS
<1> QED
  BY <1>1, <1>2, FS_EmptySet DEF Aggregate

(***************************************************************************)
(* Whatever window a month is shown in, its bar is made of the items that  *)
(* its detail is made of.                                                  *)
(***************************************************************************)
LEMMA TrendIsDetail ==
    ASSUME NEW T, Readable(T), NEW c, NEW m \in Nat, NEW end \in WindowEnds(m)
    PROVE  /\ m \in WindowMonths(end)
           /\ MonthlyTrend(T, c, end)[m] = Aggregate(JoinedItems(T, c, {m}))
<1> DEFINE months == WindowMonths(end)
           joined == JoinedItems(T, c, months)
           own == {j \in joined : j[1].summaryDate = m}
           dates == {j[1].summaryDate : j \in joined}
<1>1. m \in months
  BY QueryAssumption DEF WindowEnds, WindowMonths
<1>2. own = JoinedItems(T, c, {m})
  BY <1>1 DEF JoinedItems
<1>3. m \in dates <=> own # {}
  OBVIOUS
<1>4. MonthlyTrend(T, c, end)[m] =
        IF m \in dates THEN Aggregate(own) ELSE [total |-> 0, count |-> 0, fallback |-> 0]
  BY <1>1 DEF MonthlyTrend
<1> HIDE DEF own, dates
<1>5. CASE own # {}
  BY <1>1, <1>2, <1>3, <1>4, <1>5
<1>6. CASE own = {}
  <2>1. Aggregate(own) = [total |-> 0, count |-> 0, fallback |-> 0]
    BY <1>6, AggregateOfNone
  <2> QED
    BY <1>1, <1>2, <1>3, <1>4, <1>6, <2>1
<1> QED
  BY <1>5, <1>6

(***************************************************************************)
(* The detail of a month: its vendors' items sum up to its totals, and the *)
(* billings it marks as dated by their mail are among those the dashboard  *)
(* counts.                                                                 *)
(***************************************************************************)
LEMMA DetailAddsUp ==
    ASSUME NEW T, Readable(T), NEW c, NEW m
    PROVE  LET detail == MonthDetail(T, c, m)
               aggregate == Aggregate(JoinedItems(T, c, {m}))
               items == detail.vendorItems
           IN  /\ detail.total = aggregate.total /\ detail.count = aggregate.count
               /\ aggregate = [total |-> detail.total, count |-> detail.count,
                               fallback |-> detail.fallback]
               /\ SumFunction([i \in items |-> i.total]) = detail.total
               /\ SumFunction([i \in items |-> i.count]) = detail.count
               /\ detail.fallback <= GetBillingCounts(T, m).fallback
<1> DEFINE joined == JoinedItems(T, c, {m})
           aggregate == Aggregate(joined)
           detail == MonthDetail(T, c, m)
           rows == VendorAggregates(joined)
           undated == {j[1] : j \in {j \in joined : j[1].billing.date = Nil}}
           counted == {b \in T : b.billing.date = Nil /\ b.summaryDate = m}
<1>1. /\ detail.total = aggregate.total /\ detail.count = aggregate.count
      /\ detail.fallback = aggregate.fallback
      /\ detail.vendorItems = buildMonthDetailVendorItems(rows)
  BY DEF MonthDetail
<1>2. /\ aggregate = [total |-> aggregate.total, count |-> aggregate.count,
                      fallback |-> aggregate.fallback]
      /\ aggregate.fallback = Cardinality(undated)
  BY DEF Aggregate
<1>3. Cardinality(undated) <= Cardinality(counted)
  <2>1. undated \in SUBSET counted
    BY Joined
  <2>2. IsFiniteSet(counted)
    BY FS_Subset DEF Readable
  <2> HIDE DEF undated, counted
  <2> QED
    BY <2>1, <2>2, FS_Subset
<1>4. GetBillingCounts(T, m).fallback = Cardinality(counted)
  BY DEF GetBillingCounts
<1> HIDE DEF joined, undated, counted
<1>5. /\ VendorRows(rows)
      /\ SumFunctionOnSet([a \in rows |-> a.total], rows) = aggregate.total
      /\ SumFunctionOnSet([a \in rows |-> a.count], rows) = aggregate.count
  BY VendorsAddUp DEF joined
<1> HIDE DEF aggregate, detail, rows
<1>6. /\ SumFunction([i \in detail.vendorItems |-> i.total]) = aggregate.total
      /\ SumFunction([i \in detail.vendorItems |-> i.count]) = aggregate.count
  BY <1>1, <1>5, VendorItemsAddUp
<1> QED
  BY <1>1, <1>2, <1>3, <1>4, <1>6 DEF aggregate, detail, joined

(***************************************************************************)
(* The month page: trend, detail, vendors and dashboard agree on every     *)
(* month, currency and window, for any number of vendors shown.            *)
(***************************************************************************)
THEOREM ReportsAgreed == PipelineSpec => []ReportsAgree
<1>1. ASSUME PipelineInv, StoredRows PROVE ReportsAgree
  <2>1. Readable(billings)
    BY <1>1, BillingsAreReadable DEF PipelineInv, PipelineTypes
  <2>2. ASSUME NEW c \in Currencies, NEW m \in Months
        PROVE  LET detail == MonthDetail(billings, c, m)
                   items == detail.vendorItems
               IN  /\ \A end \in WindowEnds(m) :
                        MonthlyTrend(billings, c, end)[m] =
                          [total |-> detail.total, count |-> detail.count,
                           fallback |-> detail.fallback]
                   /\ SumFunction([i \in items |-> i.total]) = detail.total
                   /\ SumFunction([i \in items |-> i.count]) = detail.count
                   /\ detail.fallback <= GetBillingCounts(billings, m).fallback
    <3>1. m \in Nat
      BY ReportsAssumption
    <3>2. \A end \in WindowEnds(m) :
             MonthlyTrend(billings, c, end)[m] = Aggregate(JoinedItems(billings, c, {m}))
      BY <2>1, <3>1, TrendIsDetail
    <3> QED
      BY <2>1, <3>2, DetailAddsUp
  <2> QED
    BY <2>2 DEF ReportsAgree
<1>2. PipelineInv /\ StoredRows => ReportsAgree
  BY <1>1
<1> QED
  BY <1>2, PipelineInvariance, RowsStored, PTL

-----------------------------------------------------------------------------
(* The list.                                                                *)

\* What the list of a month is to show, and its rows in their order.
MonthBillings(T, m) == {b \in T : b.summaryDate = m}

MonthRows(T, m) == ListRows(T, MonthFilter(m))

\* The order of the month's list.
LaterRows(T, m) ==
    {p \in MonthBillings(T, m) \X MonthBillings(T, m) :
        applyBillingListOrder(p[1], p[2], MonthFilter(m))}

\* In a month, where all dates are equal, later rows come first.
LEMMA RowsAreOrdered ==
    ASSUME NEW T, Readable(T), NEW m \in Nat
    PROVE  Orders(LaterRows(T, m), MonthBillings(T, m))
<1>1. ASSUME NEW a \in MonthBillings(T, m), NEW b \in MonthBillings(T, m)
      PROVE  /\ applyBillingListOrder(a, b, MonthFilter(m)) <=> a.id > b.id
             /\ a.id \in Nat /\ b.id \in Nat /\ (a.id = b.id => a = b)
  <2> DEFINE filter == MonthFilter(m)
  <2>1. ListDate(a, filter) = m /\ ListDate(b, filter) = m /\ filter.useReceivedAtFallback = TRUE
    BY DEF MonthBillings, MonthFilter, ListDate
  <2>2. a.id \in Nat /\ b.id \in Nat /\ (a.id = b.id => a = b)
    BY DEF Readable, MonthBillings
  <2> HIDE DEF filter
  <2>3. applyBillingListOrder(a, b, filter) <=> a.id > b.id
    BY <2>1, <2>2, AmountAssumption DEF applyBillingListOrder, Coalesce
  <2> QED
    BY <2>2, <2>3 DEF filter
<1>2. \A a, b \in MonthBillings(T, m) : <<a, b>> \in LaterRows(T, m) <=> a.id > b.id
  BY <1>1 DEF LaterRows
<1> QED
  BY <1>1, <1>2 DEF Orders

\* The filter of a month lets its billings pass.
LEMMA MonthIsFiltered ==
    ASSUME NEW T, Readable(T), NEW m \in Nat
    PROVE  buildBillingListBaseQuery(T, MonthFilter(m)) = MonthBillings(T, m)
<1>1. ASSUME NEW b \in T
      PROVE  LET filter == MonthFilter(m)
                 d == b.summaryDate
             IN  /\ filter.email = Nil /\ filter.from = m /\ filter.to = m
                 /\ filter.useReceivedAtFallback /\ m # Nil /\ d # Nil
                 /\ (m <= d /\ d <= m <=> d = m)
  BY AmountAssumption DEF MonthFilter, Readable
<1> QED
  BY <1>1 DEF buildBillingListBaseQuery, ListDate, MonthBillings

\* ORDER BY lists every billing of the month once.
LEMMA BillingsAreListed ==
    ASSUME NEW T, Readable(T), NEW m \in Nat
    PROVE  /\ IsFiniteSet(MonthBillings(T, m)) /\ Cardinality(MonthBillings(T, m)) \in Nat
           /\ MonthRows(T, m)
                \in Bijection(1..Cardinality(MonthBillings(T, m)), MonthBillings(T, m))
<1>1. IsFiniteSet(MonthBillings(T, m)) /\ Cardinality(MonthBillings(T, m)) \in Nat
  BY FS_Subset, FS_CardinalityType DEF Readable, MonthBillings
<1>2. MonthRows(T, m) = InOrder(MonthBillings(T, m), LaterRows(T, m))
  <2>1. MonthRows(T, m) = InOrder(MonthBillings(T, m),
           {p \in MonthBillings(T, m) \X MonthBillings(T, m) :
               applyBillingListOrder(p[1], p[2], MonthFilter(m))})
    BY MonthIsFiltered DEF MonthRows, ListRows
  <2> QED
    BY <2>1 DEF LaterRows
<1>3. Orders(LaterRows(T, m), MonthBillings(T, m))
  BY RowsAreOrdered
<1> QED
  BY <1>1, <1>2, <1>3, ListIsBijection

\* Min of two numbers.
LEMMA SmallerOf ==
    ASSUME NEW a \in Int, NEW b \in Int
    PROVE  Min({a, b}) = IF a <= b THEN a ELSE b
<1> DEFINE s == IF a <= b THEN a ELSE b
<1>1. s \in {a, b} /\ \A y \in {a, b} : s <= y
  OBVIOUS
<1>2. \A x \in {a, b} : (\A y \in {a, b} : x <= y) => x = s
  OBVIOUS
<1> HIDE DEF s
<1>3. Min({a, b}) = s
  BY <1>1, <1>2 DEF Min
<1> QED
  BY <1>3 DEF s

\* A page holds the rows behind the offset, at most PageSize of them.
LEMMA BillingsOfPage ==
    ASSUME NEW T, Readable(T), NEW m \in Nat, NEW offset \in Nat
    PROVE  LET n == Cardinality(MonthBillings(T, m))
               page == ListBillings(T, [filter |-> MonthFilter(m), limit |-> PageSize,
                                        offset |-> offset])
           IN  /\ page.totalCount = n
               /\ DOMAIN page.items = {i \in 1..PageSize : offset + i <= n}
               /\ \A i \in DOMAIN page.items :
                    page.items[i] = lineItemSummary(MonthRows(T, m)[offset + i])
<1> DEFINE n == Cardinality(MonthBillings(T, m))
           query == [filter |-> MonthFilter(m), limit |-> PageSize, offset |-> offset]
           rows == MonthRows(T, m)
           last == Min({offset + PageSize, Len(rows)})
           page == SubSeq(rows, offset + 1, last)
<1>1. n \in Nat /\ rows \in [1..n -> MonthBillings(T, m)]
  BY BillingsAreListed DEF Bijection, Injection
<1>2. rows \in Seq(MonthBillings(T, m)) /\ Len(rows) = n
  <2> HIDE DEF n, rows
  <2>1. rows = [i \in 1..n |-> rows[i]]
    BY <1>1
  <2>2. \A i \in 1..n : rows[i] \in MonthBillings(T, m)
    BY <1>1
  <2>3. [i \in 1..n |-> rows[i]] \in Seq(MonthBillings(T, m)) /\ Len([i \in 1..n |-> rows[i]]) = n
    BY <1>1, <2>2
  <2> QED
    BY <2>1, <2>3
<1>3. PageSize \in Nat \ {0}
  BY ReportsAssumption
<1>4. last = IF offset + PageSize <= n THEN offset + PageSize ELSE n
  <2>1. offset + PageSize \in Int /\ Len(rows) \in Int
    BY <1>1, <1>2, <1>3
  <2> QED
    BY <1>2, <2>1, SmallerOf
<1>5. /\ ListBillings(T, query).totalCount = Len(rows)
      /\ ListBillings(T, query).items = [i \in DOMAIN page |-> lineItemSummary(page[i])]
  <2>1. query.filter = MonthFilter(m) /\ query.limit = PageSize /\ query.offset = offset
    OBVIOUS
  <2> HIDE DEF query
  <2> QED
    BY <2>1 DEF ListBillings, MonthRows
<1> HIDE DEF last, rows, n
<1>6. /\ page \in Seq(MonthBillings(T, m))
      /\ Len(page) = IF offset + 1 <= last THEN last - offset ELSE 0
      /\ \A i \in 1..(last - offset) : page[i] = rows[offset + i]
  <2> DEFINE from == offset + 1
  <2>1. from \in Int /\ last \in Int /\ last <= n /\ from >= 1
    BY <1>1, <1>3, <1>4
  <2>2. \A i \in from..last : rows[i] \in MonthBillings(T, m)
    <3>1. from..last \subseteq 1..n
      BY <1>1, <2>1
    <3> QED
      BY <1>1, <3>1
  <2> HIDE DEF from
  <2>3. /\ SubSeq(rows, from, last) \in Seq(MonthBillings(T, m))
        /\ Len(SubSeq(rows, from, last)) = IF from <= last THEN last - from + 1 ELSE 0
        /\ \A i \in 1..(last - from + 1) : SubSeq(rows, from, last)[i] = rows[from + i - 1]
    BY <2>1, <2>2, SubSeqProperties
  <2>4. last - from + 1 = last - offset /\ \A i \in Int : from + i - 1 = offset + i
    BY <2>1 DEF from
  <2>5. \A i \in 1..(last - offset) : SubSeq(rows, from, last)[i] = rows[offset + i]
    BY <2>1, <2>3, <2>4
  <2> QED
    BY <2>3, <2>4, <2>5 DEF from
<1>7. DOMAIN page = {i \in 1..PageSize : offset + i <= n}
  <2>1. DOMAIN page = 1..Len(page)
    BY <1>6, LenProperties
  <2>2. last \in Int
    BY <1>1, <1>3, <1>4
  <2>3. 1..(IF offset + 1 <= last THEN last - offset ELSE 0) = {i \in 1..PageSize : offset + i <= n}
    BY <1>1, <1>3, <1>4
  <2> QED
    BY <1>6, <2>1, <2>3
<1>8. ASSUME NEW i \in DOMAIN page PROVE page[i] = rows[offset + i]
  <2>1. i \in 1..(last - offset)
    BY <1>1, <1>3, <1>4, <1>7
  <2> QED
    BY <1>6, <2>1
<1> HIDE DEF page, query
<1>9. DOMAIN ListBillings(T, query).items = DOMAIN page
      /\ \A i \in DOMAIN page : ListBillings(T, query).items[i] = lineItemSummary(rows[offset + i])
  BY <1>5, <1>8
<1> QED
  BY <1>2, <1>5, <1>7, <1>9 DEF query, n, rows

\* Every position is one of a page.
LEMMA PositionHasPage ==
    ASSUME NEW P \in Nat \ {0}, NEW k \in Nat \ {0}
    PROVE  \E n \in Nat : \E i \in 1..P : n * P + i = k
<1> DEFINE pages == {n \in Nat : k <= n * P + P}
<1>1. pages # {}
  <2>1. \A n \in Nat : n <= n * P
    OBVIOUS
  <2>2. k \in pages
    BY <2>1
  <2> QED
    BY <2>2
<1>2. PICK n \in pages : \A j \in pages : n <= j
  <2>1. pages \in SUBSET Nat
    OBVIOUS
  <2> HIDE DEF pages
  <2> QED
    BY <1>1, <2>1, FirstPosition
<1>3. n * P < k
  <2>1. CASE n = 0
    <3>1. n * P = 0
      BY <2>1
    <3> QED
      BY <3>1
  <2>2. CASE n # 0
    <3>1. n - 1 \in Nat /\ n - 1 \notin pages
      BY <1>2, <2>2
    <3>2. (n - 1) * P + P = n * P
      BY <1>2
    <3>3. n * P \in Nat
      BY <1>2
    <3> QED
      BY <3>1, <3>2, <3>3
  <2> QED
    BY <2>1, <2>2
<1> DEFINE start == n * P
<1>4. start \in Nat /\ start < k /\ k <= start + P
  BY <1>2, <1>3
<1> HIDE DEF start
<1>5. k - start \in 1..P /\ start + (k - start) = k
  BY <1>4
<1> QED
  BY <1>2, <1>5 DEF start

\* Pages do not overlap.
LEMMA PositionHasOnePage ==
    ASSUME NEW P \in Nat \ {0}, NEW n \in Nat, NEW i \in 1..P, NEW l \in Nat, NEW j \in 1..P,
           n * P + i = l * P + j
    PROVE  n = l /\ i = j
<1>1. ASSUME NEW a \in Nat, NEW b \in Nat, a < b PROVE a * P + P <= b * P
  <2>1. PICK d \in Nat : b = a + 1 + d
    <3>1. b - a - 1 \in Nat /\ b = a + 1 + (b - a - 1)
      BY <1>1
    <3> QED
      BY <3>1
  <2>2. b * P = a * P + P + d * P /\ d * P \in Nat /\ a * P \in Nat
    BY <2>1
  <2> QED
    BY <2>2
<1> DEFINE x == n * P
           y == l * P
<1>2. x \in Nat /\ y \in Nat /\ x + i = y + j
  OBVIOUS
<1>3. (n < l => x + P <= y) /\ (l < n => y + P <= x)
  BY <1>1
<1>4. n = l => x = y
  OBVIOUS
<1> HIDE DEF x, y
<1>5. ~(n < l) /\ ~(l < n)
  BY <1>2, <1>3
<1>6. n = l
  BY <1>5
<1> QED
  BY <1>2, <1>4, <1>6

\* An item of a page: its page, its place there and what it shows.
PageItem(m, n, i) == <<n, i, lineItemSummary(MonthRows(billings, m)[n * PageSize + i])>>

\* The pages of a month together show every position once.
LEMMA PagesShowRows ==
    ASSUME Readable(billings), NEW m \in Nat
    PROVE  LET N == Cardinality(MonthBillings(billings, m)) IN
           /\ \A s \in Pages(m) : \E n \in Nat : \E i \in 1..PageSize :
                n * PageSize + i \in 1..N /\ s = PageItem(m, n, i)
           /\ \A n \in Nat : \A i \in 1..PageSize :
                n * PageSize + i \in 1..N => PageItem(m, n, i) \in Pages(m)
<1> DEFINE N == Cardinality(MonthBillings(billings, m))
           query(offset) == [filter |-> MonthFilter(m), limit |-> PageSize, offset |-> offset]
           Items(n) == ListBillings(billings, query(n * PageSize)).items
           PageOf(n) == {<<n, i, Items(n)[i]>> : i \in DOMAIN Items(n)}
<1>1. PageSize \in Nat \ {0} /\ N \in Nat
  BY BillingsAreListed, ReportsAssumption
<1>2. ASSUME NEW n \in Nat
      PROVE  /\ n * PageSize \in Nat /\ n <= n * PageSize
             /\ DOMAIN Items(n) = {i \in 1..PageSize : n * PageSize + i <= N}
             /\ \A i \in DOMAIN Items(n) : <<n, i, Items(n)[i]>> = PageItem(m, n, i)
  <2>1. n * PageSize \in Nat /\ n <= n * PageSize
    BY <1>1
  <2> QED
    BY <2>1, BillingsOfPage DEF PageItem
<1>3. ListBillings(billings, query(0)).totalCount = N
  BY BillingsOfPage
<1>4. Pages(m) = UNION {PageOf(n) : n \in {n \in 0..N : n * PageSize < N}}
  BY <1>3 DEF Pages
<1> HIDE DEF Items, query, N
<1>5. ASSUME NEW s \in Pages(m)
      PROVE  \E n \in Nat : \E i \in 1..PageSize :
               n * PageSize + i \in 1..N /\ s = PageItem(m, n, i)
  <2>1. PICK n \in 0..N : n * PageSize < N /\ s \in PageOf(n)
    BY <1>4
  <2>2. n \in Nat
    BY <1>1
  <2>3. PICK i \in DOMAIN Items(n) : s = <<n, i, Items(n)[i]>>
    BY <2>1
  <2>4. i \in 1..PageSize /\ n * PageSize + i <= N /\ n * PageSize \in Nat /\ s = PageItem(m, n, i)
    BY <1>2, <2>2, <2>3
  <2>5. n * PageSize + i \in 1..N
    BY <1>1, <2>4
  <2> QED
    BY <2>2, <2>4, <2>5
<1>6. ASSUME NEW n \in Nat, NEW i \in 1..PageSize, n * PageSize + i \in 1..N
      PROVE  PageItem(m, n, i) \in Pages(m)
  <2>1. n * PageSize \in Nat /\ n <= n * PageSize
    BY <1>2
  <2>2. n \in 0..N /\ n * PageSize < N /\ n * PageSize + i <= N
    BY <1>1, <1>6, <2>1
  <2>3. i \in DOMAIN Items(n) /\ PageItem(m, n, i) = <<n, i, Items(n)[i]>>
    BY <1>2, <2>2
  <2> QED
    BY <1>4, <2>2, <2>3
<1> QED
  BY <1>5, <1>6 DEF N

\* The billing an item of a page shows.
ShownBy(m, s) == MonthRows(billings, m)[s[1] * PageSize + s[2]]

ShownByPages(m) == [s \in Pages(m) |-> ShownBy(m, s)]

\* The pages of a month show every billing of it once.
LEMMA PagesShowBillings ==
    ASSUME Readable(billings), NEW m \in Nat
    PROVE  /\ ShownByPages(m) \in [Pages(m) -> MonthBillings(billings, m)]
           /\ \A b \in MonthBillings(billings, m) : \E s \in Pages(m) : ShownByPages(m)[s] = b
           /\ \A s, t \in Pages(m) : ShownByPages(m)[s] = ShownByPages(m)[t] => s = t
           /\ \A s \in Pages(m) : s[3] = lineItemSummary(ShownByPages(m)[s])
           /\ IsFiniteSet(Pages(m))
<1> DEFINE B == MonthBillings(billings, m)
           N == Cardinality(B)
           rows == MonthRows(billings, m)
           p == ShownByPages(m)
<1>1. PageSize \in Nat \ {0} /\ N \in Nat /\ IsFiniteSet(B)
  BY BillingsAreListed, ReportsAssumption
<1>2. /\ rows \in [1..N -> B]
      /\ \A b \in B : \E k \in 1..N : rows[k] = b
      /\ \A k, l \in 1..N : rows[k] = rows[l] => k = l
  <2>1. rows \in Bijection(1..N, B)
    BY BillingsAreListed
  <2> HIDE DEF rows, N, B
  <2> QED
    BY <2>1 DEF Bijection, Injection, Surjection, IsInjective
<1>3. ASSUME NEW s \in Pages(m)
      PROVE  \E n \in Nat : \E i \in 1..PageSize :
               /\ n * PageSize + i \in 1..N /\ s = PageItem(m, n, i)
               /\ p[s] = rows[n * PageSize + i]
               /\ s[3] = lineItemSummary(p[s])
  <2>1. PICK n \in Nat : \E i \in 1..PageSize :
           n * PageSize + i \in 1..N /\ s = PageItem(m, n, i)
    BY PagesShowRows
  <2>2. PICK i \in 1..PageSize : n * PageSize + i \in 1..N /\ s = PageItem(m, n, i)
    BY <2>1
  <2>3. s[1] = n /\ s[2] = i /\ s[3] = lineItemSummary(rows[n * PageSize + i])
    BY <2>2 DEF PageItem
  <2>4. p[s] = rows[n * PageSize + i]
    BY <2>3 DEF ShownByPages, ShownBy
  <2> QED
    BY <2>2, <2>3, <2>4
<1>4. \A n \in Nat : \A i \in 1..PageSize :
         n * PageSize + i \in 1..N => PageItem(m, n, i) \in Pages(m)
  BY PagesShowRows
<1> HIDE DEF N, B, rows, p
<1>5. ASSUME NEW s \in Pages(m) PROVE p[s] \in B /\ s[3] = lineItemSummary(p[s])
  BY <1>2, <1>3
<1>6. ASSUME NEW b \in B PROVE \E s \in Pages(m) : p[s] = b
  <2>1. PICK k \in 1..N : rows[k] = b
    BY <1>2
  <2>2. k \in Nat \ {0}
    BY <1>1
  <2>3. PICK n \in Nat : \E i \in 1..PageSize : n * PageSize + i = k
    BY <1>1, <2>2, PositionHasPage
  <2>4. PICK i \in 1..PageSize : n * PageSize + i = k
    BY <2>3
  <2>5. PageItem(m, n, i) \in Pages(m)
    BY <1>4, <2>4
  <2>6. p[PageItem(m, n, i)] = rows[k]
    BY <2>4, <2>5 DEF p, rows, ShownByPages, ShownBy, PageItem
  <2> QED
    BY <2>1, <2>5, <2>6
<1>7. ASSUME NEW s \in Pages(m), NEW t \in Pages(m), p[s] = p[t] PROVE s = t
  <2>1. PICK n \in Nat, i \in 1..PageSize :
           n * PageSize + i \in 1..N /\ s = PageItem(m, n, i) /\ p[s] = rows[n * PageSize + i]
    BY <1>3
  <2>2. PICK l \in Nat, j \in 1..PageSize :
           l * PageSize + j \in 1..N /\ t = PageItem(m, l, j) /\ p[t] = rows[l * PageSize + j]
    BY <1>3
  <2>3. n * PageSize + i = l * PageSize + j
    BY <1>2, <1>7, <2>1, <2>2
  <2>4. n = l /\ i = j
    BY <1>1, <2>3, PositionHasOnePage
  <2> QED
    BY <2>1, <2>2, <2>4
<1>8. p \in [Pages(m) -> B]
  <2>1. p = [s \in Pages(m) |-> p[s]]
    BY DEF p, ShownByPages
  <2> QED
    BY <1>5, <2>1
<1>9. IsFiniteSet(Pages(m))
  <2>1. p \in Injection(Pages(m), B)
    BY <1>7, <1>8 DEF Injection, IsInjective
  <2> QED
    BY <1>1, <2>1, FS_Injection
<1> QED
  BY <1>5, <1>6, <1>7, <1>8, <1>9 DEF p, B

\* The list shows the billing with a currency.
HasCurrency(b) == lineItemSummary(b).currency # ""

\* The line items of a billing that the list shows with a currency: all of them
\* are in it, and their sum is shown.
LEMMA SummaryOfOneCurrency ==
    ASSUME NEW b, Summable(b.billing.lineItems), HasCurrency(b)
    PROVE  LET items == b.billing.lineItems IN
           /\ DOMAIN items # {}
           /\ \A k \in DOMAIN items : items[k].currency = lineItemSummary(b).currency
           /\ lineItemSummary(b).amount = SumFunction([k \in DOMAIN items |-> ItemAmount(b, k)])
<1> DEFINE items == b.billing.lineItems
           read == {normalizeOptionalUpperString(items[k].currency) : k \in DOMAIN items} \ {Nil}
           sum == SumFunction([k \in DOMAIN items |-> ItemAmount(b, k)])
           one == CHOOSE c \in read : TRUE
           summary == [amount |-> sum, currency |-> one]
           none == [amount |-> 0, currency |-> ""]
<1>1. lineItemSummary(b) = IF Cardinality(read) = 1 THEN summary ELSE none
  BY Zenon DEF lineItemSummary
<1>2. none.currency = "" /\ summary.currency = one /\ summary.amount = sum
  BY Zenon
<1>3. Nil \notin Texts
  BY Zenon, TextAssumption
<1>4. \A k \in DOMAIN items : items[k].currency \in read
  BY <1>3 DEF Summable
<1>5. \A c \in read : \E k \in DOMAIN items : items[k].currency = c
  BY DEF Summable
<1>6. IsFiniteSet(read)
  <2> DEFINE all == {items[k].currency : k \in DOMAIN items}
             of == [k \in DOMAIN items |-> items[k].currency]
  <2>1. of \in Surjection(DOMAIN items, all)
    BY DEF Surjection
  <2>2. IsFiniteSet(DOMAIN items)
    BY DEF Summable
  <2>3. IsFiniteSet(all)
    <3> HIDE DEF all, of
    <3> QED
      BY <2>1, <2>2, FS_Surjection
  <2>4. read \subseteq all
    BY <1>5
  <2> HIDE DEF all, read
  <2> QED
    BY <2>3, <2>4, FS_Subset
<1> HIDE DEF read, sum, one, summary, none
<1>7. Cardinality(read) = 1
  BY Zenon, <1>1, <1>2 DEF HasCurrency
<1>8. PICK c : read = {c}
  BY <1>6, <1>7, FS_Singleton
<1>9. one = c
  BY <1>8 DEF one
<1>10. lineItemSummary(b).currency = c /\ lineItemSummary(b).amount = sum
  BY Zenon, <1>1, <1>2, <1>7, <1>9
<1> QED
  BY <1>4, <1>5, <1>8, <1>10 DEF sum

\* The billings of a month that the list shows in a currency, and their amounts.
ListedIn(m, c) == {b \in MonthBillings(billings, m) : lineItemSummary(b).currency = c}

ListedAmounts(m, c) == [b \in ListedIn(m, c) |-> lineItemSummary(b).amount]

\* The part of what is joined that is of one billing, and all of its items.
JoinedOf(J, b) == {j \in J : j[1] = b}

AllItemsOf(b) == {<<b, k>> : k \in DOMAIN b.billing.lineItems}

\* What the month joins of a billing, if the list shows all of them with a currency.
LEMMA JoinedOfListed ==
    ASSUME Readable(billings), NEW m \in Nat, NEW c,
           \A b \in MonthBillings(billings, m) : HasCurrency(b)
    PROVE  LET J == JoinedItems(billings, c, {m}) IN
           /\ BillingsOf(J) = ListedIn(m, c)
           /\ \A b \in ListedIn(m, c) : JoinedOf(J, b) = AllItemsOf(b)
<1> DEFINE J == JoinedItems(billings, c, {m})
<1>1. /\ \A j \in J : /\ j[1] \in billings /\ j[1].summaryDate = m /\ j = <<j[1], j[2]>>
                      /\ j[2] \in DOMAIN j[1].billing.lineItems
                      /\ j[1].billing.lineItems[j[2]].currency = c
      /\ \A b \in billings : \A k \in DOMAIN b.billing.lineItems :
           b.summaryDate = m /\ b.billing.lineItems[k].currency = c => <<b, k>> \in J
  BY Joined
<1>2. ASSUME NEW b \in MonthBillings(billings, m)
      PROVE  /\ b \in billings /\ b.summaryDate = m
             /\ DOMAIN b.billing.lineItems # {}
             /\ \A k \in DOMAIN b.billing.lineItems :
                  b.billing.lineItems[k].currency = lineItemSummary(b).currency
  <2>1. b \in billings /\ b.summaryDate = m /\ Summable(b.billing.lineItems)
    BY DEF MonthBillings, Readable
  <2> QED
    BY <2>1, SummaryOfOneCurrency
<1> HIDE DEF J
<1>3. ASSUME NEW j \in J PROVE j[1] \in ListedIn(m, c)
  <2>1. j[1] \in MonthBillings(billings, m)
    BY <1>1 DEF MonthBillings
  <2> QED
    BY <1>1, <1>2, <2>1 DEF ListedIn
<1>4. ASSUME NEW b \in ListedIn(m, c)
      PROVE  /\ \E k : k \in DOMAIN b.billing.lineItems
             /\ \A k \in DOMAIN b.billing.lineItems : <<b, k>> \in J
  BY <1>1, <1>2 DEF ListedIn
<1>5. BillingsOf(J) = ListedIn(m, c)
  <2>1. ASSUME NEW b \in ListedIn(m, c) PROVE \E j \in J : j[1] = b
    <3>1. PICK k \in DOMAIN b.billing.lineItems : <<b, k>> \in J
      BY <1>4
    <3> QED
      BY <3>1
  <2> QED
    BY <1>3, <2>1 DEF BillingsOf
<1>6. ASSUME NEW b \in ListedIn(m, c) PROVE JoinedOf(J, b) = AllItemsOf(b)
  BY <1>1, <1>4 DEF JoinedOf, AllItemsOf
<1> QED
  BY <1>5, <1>6 DEF J

\* What the list shows of a billing is the sum of what the month joins of it.
LEMMA ListedAmount ==
    ASSUME Readable(billings), NEW m \in Nat, NEW c, NEW b \in ListedIn(m, c), HasCurrency(b),
           JoinedOf(JoinedItems(billings, c, {m}), b) = AllItemsOf(b)
    PROVE  /\ lineItemSummary(b).amount \in Int
           /\ lineItemSummary(b).amount =
                SumFunctionOnSet(Amounts(JoinedItems(billings, c, {m})),
                                 JoinedOf(JoinedItems(billings, c, {m}), b))
<1> DEFINE J == JoinedItems(billings, c, {m})
           own == JoinedOf(J, b)
           places == DOMAIN b.billing.lineItems
           f == [k \in places |-> ItemAmount(b, k)]
           p == [k \in places |-> <<b, k>>]
           all == Amounts(J)
           h == Amounts(own)
<1>1. b \in billings /\ Summable(b.billing.lineItems) /\ IsFiniteSet(places)
  BY DEF ListedIn, MonthBillings, Readable, Summable
<1>2. lineItemSummary(b).amount = SumFunctionOnSet(f, places)
  <2>1. lineItemSummary(b).amount = SumFunction(f)
    BY <1>1, SummaryOfOneCurrency
  <2>2. DOMAIN f = places
    OBVIOUS
  <2> HIDE DEF f, places
  <2> QED
    BY <2>1, <2>2 DEF SumFunction
<1>3. f \in [places -> Int] /\ \A k \in places : f[k] = ItemAmount(b, k)
  <2>1. \A k \in places : ItemAmount(b, k) \in Int
    BY <1>1, AmountIsNumber
  <2> HIDE DEF places
  <2> QED
    BY <2>1
<1>4. IsFiniteSet(J) /\ all \in [J -> Int]
  BY Joined
<1>5. own = {<<b, k>> : k \in places} /\ own \subseteq J
  BY DEF JoinedOf, AllItemsOf
<1>6. \A j \in own : h[j] = all[j] /\ h[j] = ItemAmount(j[1], j[2])
  BY <1>5 DEF Amounts
<1>7. h \in [own -> Int]
  <2>1. h = [j \in own |-> h[j]]
    BY DEF Amounts
  <2> HIDE DEF h, all, own, J
  <2> QED
    BY <1>4, <1>5, <1>6, <2>1
<1>8. /\ p \in [places -> own] /\ \A j \in own : \E k \in places : p[k] = j
      /\ \A k, l \in places : p[k] = p[l] => k = l
      /\ \A k \in places : p[k] = <<b, k>>
  BY <1>5
<1>9. IsFiniteSet(own)
  BY <1>4, <1>5, FS_Subset
<1> HIDE DEF J, own, places, f, p, all, h
<1>10. \A k \in places : f[k] = h[p[k]]
  BY <1>3, <1>6, <1>8
<1>11. SumFunctionOnSet(f, places) = SumFunctionOnSet(h, own)
  BY <1>1, <1>3, <1>7, <1>8, <1>10, SumRenamed
<1>12. SumFunctionOnSet(h, own) = SumFunctionOnSet(all, own)
  BY <1>4, <1>5, <1>6, <1>7, <1>9, SumsAgree
<1>13. SumFunctionOnSet(f, places) \in Int
  <2>1. places \in SUBSET places
    OBVIOUS
  <2> QED
    BY <1>1, <1>3, <2>1, SumTakes
<1> QED
  BY <1>2, <1>11, <1>12, <1>13 DEF own, all, J

\* In one currency, the list shows the money and the billings the month counts.
LEMMA ListedIsAggregate ==
    ASSUME Readable(billings), NEW m \in Nat, NEW c,
           \A b \in MonthBillings(billings, m) : HasCurrency(b)
    PROVE  LET aggregate == Aggregate(JoinedItems(billings, c, {m})) IN
           /\ aggregate.total = SumFunctionOnSet(ListedAmounts(m, c), ListedIn(m, c))
           /\ aggregate.count = Cardinality(ListedIn(m, c))
           /\ IsFiniteSet(ListedIn(m, c)) /\ ListedAmounts(m, c) \in [ListedIn(m, c) -> Int]
<1> DEFINE J == JoinedItems(billings, c, {m})
           all == Amounts(J)
           V == ListedIn(m, c)
           h == ListedAmounts(m, c)
           class == [j \in J |-> j[1]]
<1>1. /\ Aggregate(J).total = SumFunctionOnSet(all, J)
      /\ Aggregate(J).count = Cardinality(BillingsOf(J))
      /\ IsFiniteSet(J) /\ IsFiniteSet(BillingsOf(J))
  <2>1. J \in SUBSET J
    OBVIOUS
  <2> QED
    BY <2>1, AggregateIsSum
<1>2. all \in [J -> Int]
  BY Joined
<1>3. /\ BillingsOf(J) = V
      /\ \A b \in V : JoinedOf(J, b) = AllItemsOf(b)
  BY JoinedOfListed
<1>4. ASSUME NEW b \in V
      PROVE  h[b] \in Int /\ h[b] = SumFunctionOnSet(all, JoinedOf(J, b))
  <2>1. HasCurrency(b)
    BY DEF ListedIn
  <2>2. h[b] = lineItemSummary(b).amount
    BY DEF ListedAmounts
  <2>3. JoinedOf(J, b) = AllItemsOf(b)
    BY <1>3
  <2> QED
    BY <2>1, <2>2, <2>3, ListedAmount
<1>5. h \in [V -> Int]
  <2>1. h = [b \in V |-> h[b]]
    BY DEF ListedAmounts
  <2> HIDE DEF h, V
  <2> QED
    BY <1>4, <2>1
<1>6. class \in [J -> V] /\ \A j \in J : class[j] = j[1]
  BY <1>3 DEF BillingsOf
<1> HIDE DEF J, all, V, h, class
<1>7. \A b \in V : h[b] = SumFunctionOnSet(all, {j \in J : class[j] = b})
  <2>1. \A b \in V : {j \in J : class[j] = b} = JoinedOf(J, b)
    BY <1>6 DEF JoinedOf
  <2> QED
    BY <1>4, <2>1
<1>8. SumFunctionOnSet(all, J) = SumFunctionOnSet(h, V)
  BY <1>1, <1>2, <1>3, <1>5, <1>6, <1>7, SumByClass
<1> QED
  BY <1>1, <1>3, <1>5, <1>8 DEF J, V, h

\* The items of the pages of a month that are in a currency.
ShownIn(m, c) == {s \in Pages(m) : s[3].currency = c}

\* The pages show these billings, and their amounts, once.
LEMMA ShownIsListed ==
    ASSUME Readable(billings), NEW m \in Nat, NEW c,
           IsFiniteSet(ListedIn(m, c)), ListedAmounts(m, c) \in [ListedIn(m, c) -> Int]
    PROVE  /\ SumFunction([s \in ShownIn(m, c) |-> s[3].amount])
                = SumFunctionOnSet(ListedAmounts(m, c), ListedIn(m, c))
           /\ Cardinality(ShownIn(m, c)) = Cardinality(ListedIn(m, c))
<1> DEFINE S == ShownIn(m, c)
           V == ListedIn(m, c)
           h == ListedAmounts(m, c)
           f == [s \in S |-> s[3].amount]
           p == ShownByPages(m)
           q == [s \in S |-> p[s]]
           B == MonthBillings(billings, m)
<1>1. /\ p \in [Pages(m) -> B]
      /\ \A b \in B : \E s \in Pages(m) : p[s] = b
      /\ \A s, t \in Pages(m) : p[s] = p[t] => s = t
      /\ \A s \in Pages(m) : s[3] = lineItemSummary(p[s])
      /\ IsFiniteSet(Pages(m))
  BY PagesShowBillings
<1>2. S \subseteq Pages(m) /\ \A s \in Pages(m) : s \in S <=> s[3].currency = c
  BY DEF ShownIn
<1>3. \A b : b \in V <=> b \in B /\ lineItemSummary(b).currency = c
  BY DEF ListedIn
<1>4. \A b \in V : h[b] = lineItemSummary(b).amount
  BY DEF ListedAmounts
<1>5. DOMAIN f = S /\ \A s \in S : f[s] = s[3].amount
  OBVIOUS
<1>6. DOMAIN q = S /\ \A s \in S : q[s] = p[s]
  OBVIOUS
<1>7. SumFunction(f) = SumFunctionOnSet(f, S)
  <2> HIDE DEF f, S
  <2> QED
    BY <1>5 DEF SumFunction
<1>8. f = [s \in S |-> f[s]] /\ q = [s \in S |-> q[s]]
  OBVIOUS
<1> HIDE DEF S, V, h, f, p, q, B
<1>9. \A s \in S : q[s] \in V
  BY <1>1, <1>2, <1>3, <1>6
<1>10. q \in [S -> V]
  BY <1>8, <1>9
<1>11. \A b \in V : \E s \in S : q[s] = b
  BY <1>1, <1>2, <1>3, <1>6
<1>12. \A s, t \in S : q[s] = q[t] => s = t
  BY <1>1, <1>2, <1>6
<1>13. \A s \in S : f[s] = h[q[s]]
  BY <1>1, <1>2, <1>4, <1>5, <1>6, <1>9
<1>14. h \in [V -> Int]
  BY DEF h, V
<1>15. f \in [S -> Int]
  BY <1>8, <1>9, <1>13, <1>14
<1>16. IsFiniteSet(S)
  BY <1>1, <1>2, FS_Subset
<1>17. SumFunctionOnSet(f, S) = SumFunctionOnSet(h, V)
  BY <1>10, <1>11, <1>12, <1>13, <1>14, <1>15, <1>16, SumRenamed
<1>18. Cardinality(V) = Cardinality(S)
  <2>1. q \in Bijection(S, V)
    BY <1>10, <1>11, <1>12 DEF Bijection, Injection, Surjection, IsInjective
  <2>2. ExistsBijection(S, V)
    BY <2>1 DEF ExistsBijection
  <2> QED
    BY <1>16, <2>2, FS_Bijection
<1> QED
  BY <1>7, <1>17, <1>18 DEF f, S, V, h

(***************************************************************************)
(* The pages of a month's list, whatever their size, add up to the month's *)
(* detail, unless they show a billing without a currency.                  *)
(***************************************************************************)
THEOREM ListMatched == PipelineSpec => []ListMatchesMonth
<1>1. ASSUME PipelineInv, StoredRows PROVE ListMatchesMonth
  <2>1. Readable(billings)
    BY <1>1, BillingsAreReadable DEF PipelineInv, PipelineTypes
  <2>2. ASSUME NEW m \in Months, ShownIn(m, "") = {}, NEW c \in Currencies
        PROVE  LET detail == MonthDetail(billings, c, m) IN
               /\ SumFunction([s \in ShownIn(m, c) |-> s[3].amount]) = detail.total
               /\ Cardinality(ShownIn(m, c)) = detail.count
    <3>1. m \in Nat
      BY Zenon, ReportsAssumption
    <3>2. \A b \in MonthBillings(billings, m) : HasCurrency(b)
      <4>1. /\ \A b \in MonthBillings(billings, m) : \E s \in Pages(m) : ShownByPages(m)[s] = b
            /\ \A s \in Pages(m) : s[3] = lineItemSummary(ShownByPages(m)[s])
        BY Zenon, <2>1, <3>1, PagesShowBillings
      <4>2. \A s \in Pages(m) : s[3].currency # ""
        BY Zenon, <2>2 DEF ShownIn
      <4>3. ASSUME NEW b \in MonthBillings(billings, m) PROVE HasCurrency(b)
        <5>1. PICK s \in Pages(m) : ShownByPages(m)[s] = b
          BY Zenon, <4>1
        <5>2. s[3] = lineItemSummary(b)
          BY Zenon, <4>1, <5>1
        <5> QED
          BY Zenon, <4>2, <5>2 DEF HasCurrency
      <4> QED
        BY Zenon, <4>3
    <3> DEFINE aggregate == Aggregate(JoinedItems(billings, c, {m}))
               detail == MonthDetail(billings, c, m)
    <3>3. /\ aggregate.total = SumFunctionOnSet(ListedAmounts(m, c), ListedIn(m, c))
          /\ aggregate.count = Cardinality(ListedIn(m, c))
          /\ IsFiniteSet(ListedIn(m, c)) /\ ListedAmounts(m, c) \in [ListedIn(m, c) -> Int]
      BY Zenon, <2>1, <3>1, <3>2, ListedIsAggregate
    <3>4. detail.total = aggregate.total /\ detail.count = aggregate.count
      BY Zenon, <2>1, DetailAddsUp
    <3>5. /\ SumFunction([s \in ShownIn(m, c) |-> s[3].amount])
               = SumFunctionOnSet(ListedAmounts(m, c), ListedIn(m, c))
          /\ Cardinality(ShownIn(m, c)) = Cardinality(ListedIn(m, c))
      BY Zenon, <2>1, <3>1, <3>3, ShownIsListed
    <3> QED
      BY Zenon, <3>3, <3>4, <3>5
  <2> QED
    BY Zenon, <2>2 DEF ListMatchesMonth, ShownIn
<1>2. PipelineInv /\ StoredRows => ListMatchesMonth
  BY <1>1
<1> QED
  BY <1>2, PipelineInvariance, RowsStored, PTL
=============================================================================
