------------------------ MODULE LoanBookMoney_proofs ------------------------
(***************************************************************************)
(* The money of the credit life cycle, for every instance: the vaults hold   *)
(* what the running totals say, the totals are what the loans add up to, the *)
(* shared pool covers the collateral of every line of credit, LEND is        *)
(* conserved, and each borrower sees one line of credit of their own: the    *)
(* refinement of CreditLine.                                                *)
(*                                                                          *)
(* The books of the contracts are kept as totals beside the entries they add *)
(* up, and the properties state those totals with SumFunction.  The module   *)
(* begins with lemmas about such sums: the operator folds by recursion; they *)
(* show what the recursion computes, and what a sum does when one summand    *)
(* appears or changes, which is all that the proofs about the contracts cite.*)
(***************************************************************************)
EXTENDS LoanBook_proofs, FiniteSetTheorems

-----------------------------------------------------------------------------
(* Induction over the subsets of a finite set, with a set for the property.  *)

\* A family of subsets that holds a set whenever it holds all its proper
\* subsets holds them all.
LEMMA SubsetInduction ==
  ASSUME NEW S, IsFiniteSet(S), NEW good \in SUBSET (SUBSET S),
         \A T \in SUBSET S : (\A U \in SUBSET T : U # T => U \in good) => T \in good
  PROVE  good = SUBSET S
<1> DEFINE bad == (SUBSET S) \ good
<1> SUFFICES ASSUME bad # {} PROVE FALSE
  OBVIOUS
<1>1. IsWellFoundedOn(StrictSubsetOrdering(S), SUBSET S)
  <2>1. FiniteSubsetsOf(S) = SUBSET S
    BY FS_FiniteSubsetsOfFinite
  <2>2. IsWellFoundedOn(StrictSubsetOrdering(S), FiniteSubsetsOf(S))
    BY FS_StrictSubsetOrderingWellFounded
  <2> QED
    BY <2>1, <2>2, Zenon
<1>2. bad \subseteq SUBSET S
  OBVIOUS
<1> HIDE DEF bad
<1>3. PICK T \in bad : \A U \in bad : <<U, T>> \notin StrictSubsetOrdering(S)
  BY <1>1, <1>2, WFMin
<1>4. \A U \in SUBSET T : U # T => U \in good
  <2> SUFFICES ASSUME NEW U \in SUBSET T, U # T, U \notin good PROVE FALSE
    OBVIOUS
  <2>1. U \in bad /\ T \in SUBSET S /\ U \in SUBSET S
    BY DEF bad
  <2>2. <<U, T>> \in StrictSubsetOrdering(S)
    BY <2>1 DEF StrictSubsetOrdering
  <2> QED
    BY <1>3, <2>1, <2>2
<1> QED
  BY <1>3, <1>4 DEF bad

-----------------------------------------------------------------------------
(* The recursion behind SumFunctionOnSet has exactly one solution.           *)

Picked(s) == CHOOSE x \in s : TRUE

\* The sum over s, given the sums g of smaller sets.
SumStep(f, g, s) == IF s = {} THEN 0 ELSE f[Picked(s)] + g[s \ {Picked(s)}]

Solves(f, g, S) == g = [s \in SUBSET S |-> SumStep(f, g, s)]

LEMMA PickedIn ==
  ASSUME NEW s, s # {}
  PROVE  Picked(s) \in s /\ s \ {Picked(s)} \in SUBSET s /\ s \ {Picked(s)} # s
<1>1. Picked(s) \in s
  BY DEF Picked
<1> QED
  BY <1>1

LEMMA SolutionsAgree ==
  ASSUME NEW f, NEW S, NEW T, NEW g, NEW h, NEW V, IsFiniteSet(V),
         Solves(f, g, S), Solves(f, h, T), V \subseteq S, V \subseteq T
  PROVE  \A U \in SUBSET V : g[U] = h[U]
<1> DEFINE good == {U \in SUBSET V : g[U] = h[U]}
<1>1. ASSUME NEW U \in SUBSET V, \A W \in SUBSET U : W # U => W \in good
      PROVE  U \in good
  <2>1. g[U] = SumStep(f, g, U) /\ h[U] = SumStep(f, h, U)
    <3>1. U \in SUBSET S /\ U \in SUBSET T
      OBVIOUS
    <3> QED
      BY <3>1, Zenon DEF Solves
  <2>2. CASE U = {}
    BY <2>1, <2>2 DEF SumStep
  <2>3. CASE U # {}
    <3>1. U \ {Picked(U)} \in good
      BY <1>1, <2>3, PickedIn
    <3>2. g[U \ {Picked(U)}] = h[U \ {Picked(U)}]
      BY <3>1
    <3> QED
      BY <2>1, <3>2 DEF SumStep
  <2> QED
    BY <2>2, <2>3
<1>2. good \in SUBSET (SUBSET V)
  OBVIOUS
<1> HIDE DEF good
<1>3. good = SUBSET V
  BY <1>1, <1>2, SubsetInduction
<1> QED
  BY <1>3 DEF good

LEMMA SolutionExists ==
  ASSUME NEW f, NEW S, IsFiniteSet(S)
  PROVE  \E g : Solves(f, g, S)
<1> DEFINE good == {T \in SUBSET S : \E g : Solves(f, g, T)}
<1>1. ASSUME NEW T \in SUBSET S, \A U \in SUBSET T : U # T => U \in good
      PROVE  T \in good
  <2> DEFINE G(U) == CHOOSE g : Solves(f, g, U)
             below(U) == SumStep(f, G(U \ {Picked(U)}), U)
             h == [U \in SUBSET T |-> below(U)]
  <2>1. \A U \in SUBSET T : U # T => Solves(f, G(U), U)
    <3> SUFFICES ASSUME NEW U \in SUBSET T, U # T PROVE Solves(f, G(U), U)
      OBVIOUS
    <3>1. \E g : Solves(f, g, U)
      BY <1>1
    <3> QED
      BY <3>1
  <2>2. \A U \in SUBSET T : U # T => h[U] = G(U)[U]
    <3> SUFFICES ASSUME NEW U \in SUBSET T, U # T PROVE h[U] = G(U)[U]
      OBVIOUS
    <3>1. h[U] = below(U)
      OBVIOUS
    <3>2. Solves(f, G(U), U)
      BY <2>1
    <3>3. G(U)[U] = SumStep(f, G(U), U)
      <4>1. U \in SUBSET U
        OBVIOUS
      <4> HIDE DEF G
      <4> QED
        BY <3>2, <4>1, Zenon DEF Solves
    <3>4. CASE U = {}
      BY <3>1, <3>3, <3>4 DEF SumStep
    <3>5. CASE U # {}
      <4> DEFINE W == U \ {Picked(U)}
      <4>1. W \in SUBSET U /\ W # T /\ W \in SUBSET T /\ IsFiniteSet(W)
        BY <3>5, PickedIn, FS_Subset
      <4>2. Solves(f, G(W), W)
        BY <2>1, <4>1
      <4>3. G(W)[W] = G(U)[W]
        <5>1. W \subseteq W /\ W \subseteq U /\ W \in SUBSET W
          BY <4>1
        <5> HIDE DEF W, G
        <5> QED
          BY <3>2, <4>1, <4>2, <5>1, SolutionsAgree
      <4> QED
        BY <3>1, <3>3, <4>3, <3>5 DEF SumStep
    <3> QED
      BY <3>4, <3>5
  <2>3. \A U \in SUBSET T : h[U] = SumStep(f, h, U)
    <3> SUFFICES ASSUME NEW U \in SUBSET T PROVE h[U] = SumStep(f, h, U)
      OBVIOUS
    <3>1. h[U] = below(U)
      OBVIOUS
    <3>2. CASE U = {}
      BY <3>1, <3>2 DEF SumStep
    <3>3. CASE U # {}
      <4> DEFINE W == U \ {Picked(U)}
      <4>1. W \in SUBSET T /\ W # T
        BY <3>3, PickedIn
      <4>2. h[W] = G(W)[W]
        BY <2>2, <4>1
      <4> QED
        BY <3>1, <3>3, <4>2 DEF SumStep
    <3> QED
      BY <3>2, <3>3
  <2>4. Solves(f, h, T)
    <3>1. h = [U \in SUBSET T |-> h[U]]
      OBVIOUS
    <3> HIDE DEF h
    <3> QED
      BY <2>3, <3>1, Zenon DEF Solves
  <2> HIDE DEF h
  <2> QED
    BY <2>4
<1>2. good \in SUBSET (SUBSET S)
  OBVIOUS
<1>3. S \in SUBSET S
  OBVIOUS
<1> HIDE DEF good
<1>4. good = SUBSET S
  BY <1>1, <1>2, SubsetInduction
<1> QED
  BY <1>3, <1>4 DEF good

\* The library's sum is the value of that solution.
LEMMA SumIsSolution ==
  ASSUME NEW f, NEW S, IsFiniteSet(S)
  PROVE  \E g : Solves(f, g, S) /\ SumFunctionOnSet(f, S) = g[S]
<1> DEFINE it == CHOOSE g : Solves(f, g, S)
<1>1. Solves(f, it, S)
  BY SolutionExists
<1>2. SumFunctionOnSet(f, S) = it[S]
  BY DEF SumFunctionOnSet, FoldFunctionOnSet, MapThenFoldSet, Solves, SumStep, Picked
<1> HIDE DEF it
<1> QED
  BY <1>1, <1>2

-----------------------------------------------------------------------------
(* Sums, from here on without their recursion.                              *)

\* What is to be added up, as the lemmas ask for it.
Summable(f, S) == IsFiniteSet(S) /\ \A x \in S : f[x] \in Nat

\* The empty sum, and the step from a set to the set without the picked element.
LEMMA SumUnfold ==
  ASSUME NEW f, NEW S, IsFiniteSet(S)
  PROVE  /\ S = {} => SumFunctionOnSet(f, S) = 0
         /\ S # {} => SumFunctionOnSet(f, S)
                        = f[Picked(S)] + SumFunctionOnSet(f, S \ {Picked(S)})
<1>1. PICK g : Solves(f, g, S) /\ SumFunctionOnSet(f, S) = g[S]
  BY SumIsSolution
<1>2. g[S] = SumStep(f, g, S)
  <2>1. S \in SUBSET S
    OBVIOUS
  <2> QED
    BY <1>1, <2>1, Zenon DEF Solves
<1>3. CASE S = {}
  BY <1>1, <1>2, <1>3 DEF SumStep
<1>4. CASE S # {}
  <2> DEFINE T == S \ {Picked(S)}
  <2>1. T \in SUBSET S /\ IsFiniteSet(T)
    BY FS_Subset
  <2>2. PICK h : Solves(f, h, T) /\ SumFunctionOnSet(f, T) = h[T]
    BY <2>1, SumIsSolution
  <2>3. g[T] = h[T]
    <3>1. T \subseteq S /\ T \subseteq T /\ T \in SUBSET T
      OBVIOUS
    <3> HIDE DEF T
    <3> QED
      BY <1>1, <2>1, <2>2, <3>1, SolutionsAgree
  <2> QED
    BY <1>1, <1>2, <1>4, <2>2, <2>3 DEF SumStep
<1> QED
  BY <1>3, <1>4

LEMMA SumEmpty == ASSUME NEW f PROVE SumFunctionOnSet(f, {}) = 0
BY SumUnfold, FS_EmptySet

LEMMA SumType ==
  ASSUME NEW f, NEW S, Summable(f, S)
  PROVE  SumFunctionOnSet(f, S) \in Nat
<1> DEFINE good == {T \in SUBSET S : SumFunctionOnSet(f, T) \in Nat}
<1>1. ASSUME NEW T \in SUBSET S, \A U \in SUBSET T : U # T => U \in good
      PROVE  T \in good
  <2>1. IsFiniteSet(T)
    BY FS_Subset DEF Summable
  <2>2. CASE T = {}
    BY <2>2, SumEmpty
  <2>3. CASE T # {}
    <3>1. SumFunctionOnSet(f, T \ {Picked(T)}) \in Nat
      BY <1>1, <2>3, PickedIn
    <3>2. f[Picked(T)] \in Nat
      BY <2>3, PickedIn DEF Summable
    <3> QED
      BY <2>1, <2>3, <3>1, <3>2, SumUnfold
  <2> QED
    BY <2>2, <2>3
<1>2. good \in SUBSET (SUBSET S) /\ S \in SUBSET S /\ IsFiniteSet(S)
  BY DEF Summable
<1> HIDE DEF good
<1>3. good = SUBSET S
  BY <1>1, <1>2, SubsetInduction
<1> QED
  BY <1>2, <1>3 DEF good

\* Any element may be the first that is added: the order does not matter.
LEMMA SumRemove ==
  ASSUME NEW f, NEW S, Summable(f, S), NEW a \in S
  PROVE  SumFunctionOnSet(f, S) = f[a] + SumFunctionOnSet(f, S \ {a})
<1> DEFINE sum(T) == SumFunctionOnSet(f, T)
           good == {T \in SUBSET S : \A x \in T : sum(T) = f[x] + sum(T \ {x})}
<1>0. \A T \in SUBSET S : Summable(f, T) /\ sum(T) \in Nat
  BY SumType, FS_Subset DEF Summable
<1>1. ASSUME NEW T \in SUBSET S, \A U \in SUBSET T : U # T => U \in good
      PROVE  T \in good
  <2> SUFFICES ASSUME NEW x \in T PROVE sum(T) = f[x] + sum(T \ {x})
    OBVIOUS
  <2> DEFINE p == Picked(T)
  <2>1. p \in T
    BY PickedIn
  <2>2. sum(T) = f[p] + sum(T \ {p})
    BY <1>0, <2>1, SumUnfold DEF Summable
  <2> HIDE DEF p
  <2>3. CASE p = x
    BY <2>2, <2>3
  <2>4. CASE p # x
    <3> DEFINE rest == T \ {p, x}
    <3>1. (T \ {p}) \ {x} = rest /\ (T \ {x}) \ {p} = rest
      OBVIOUS
    <3>2. T \ {p} \in good /\ T \ {x} \in good
      BY <1>1, <2>1
    <3>3. sum(T \ {p}) = f[x] + sum(rest)
      BY <2>4, <3>1, <3>2
    <3>4. sum(T \ {x}) = f[p] + sum(rest)
      BY <2>1, <2>4, <3>1, <3>2
    <3>5. f[p] \in Nat /\ f[x] \in Nat /\ sum(rest) \in Nat
      BY <1>0, <2>1 DEF Summable
    <3> HIDE DEF sum
    <3> QED
      BY <2>2, <3>3, <3>4, <3>5
  <2> QED
    BY <2>3, <2>4
<1>2. good \in SUBSET (SUBSET S) /\ S \in SUBSET S /\ IsFiniteSet(S)
  BY DEF Summable
<1> HIDE DEF good
<1>3. good = SUBSET S
  BY <1>1, <1>2, SubsetInduction
<1> QED
  BY <1>2, <1>3 DEF good

\* Functions that agree on a set have the same sum over it.
LEMMA SumEqual ==
  ASSUME NEW f, NEW g, NEW S, IsFiniteSet(S), \A x \in S : f[x] = g[x]
  PROVE  SumFunctionOnSet(f, S) = SumFunctionOnSet(g, S)
<1> DEFINE good == {T \in SUBSET S : SumFunctionOnSet(f, T) = SumFunctionOnSet(g, T)}
<1>1. ASSUME NEW T \in SUBSET S, \A U \in SUBSET T : U # T => U \in good
      PROVE  T \in good
  <2>1. IsFiniteSet(T)
    BY FS_Subset
  <2>2. CASE T = {}
    BY <2>2, SumEmpty
  <2>3. CASE T # {}
    <3>1. SumFunctionOnSet(f, T \ {Picked(T)}) = SumFunctionOnSet(g, T \ {Picked(T)})
      BY <1>1, <2>3, PickedIn
    <3>2. f[Picked(T)] = g[Picked(T)]
      BY <2>3, PickedIn
    <3> QED
      BY <2>1, <2>3, <3>1, <3>2, SumUnfold
  <2> QED
    BY <2>2, <2>3
<1>2. good \in SUBSET (SUBSET S) /\ S \in SUBSET S
  OBVIOUS
<1> HIDE DEF good
<1>3. good = SUBSET S
  BY <1>1, <1>2, SubsetInduction
<1> QED
  BY <1>2, <1>3 DEF good

-----------------------------------------------------------------------------
(* The sum of a function, as the models write it.                           *)

\* Counters over a finite set.
LEMMA SumFunctionType ==
  ASSUME NEW S, IsFiniteSet(S), NEW f \in [S -> Nat]
  PROVE  SumFunction(f) \in Nat
BY SumType DEF SumFunction, Summable

LEMMA SumFunctionEmpty ==
  ASSUME NEW f, DOMAIN f = {}
  PROVE  SumFunction(f) = 0
BY SumEmpty DEF SumFunction

\* One more summand.
LEMMA SumFunctionGrows ==
  ASSUME NEW S, IsFiniteSet(S), NEW f \in [S -> Nat], NEW b, b \notin S,
         NEW g \in [S \cup {b} -> Nat], \A x \in S : g[x] = f[x]
  PROVE  SumFunction(g) = SumFunction(f) + g[b]
<1> DEFINE T == S \cup {b}
<1>1. IsFiniteSet(T) /\ T \ {b} = S
  BY FS_AddElement
<1>2. Summable(g, T)
  BY <1>1 DEF Summable
<1>3. SumFunctionOnSet(g, T) = g[b] + SumFunctionOnSet(g, T \ {b})
  BY <1>2, SumRemove
<1>4. SumFunctionOnSet(g, S) = SumFunctionOnSet(f, S)
  BY SumEqual
<1>5. SumFunctionOnSet(f, S) \in Nat /\ g[b] \in Nat
  BY SumType DEF Summable
<1>6. SumFunction(g) = SumFunctionOnSet(g, T) /\ SumFunction(f) = SumFunctionOnSet(f, S)
  <2>1. DOMAIN g = T /\ DOMAIN f = S
    OBVIOUS
  <2> QED
    BY <2>1, Zenon DEF SumFunction
<1> HIDE DEF T
<1>7. SumFunctionOnSet(g, T) = g[b] + SumFunctionOnSet(f, S)
  BY <1>1, <1>3, <1>4, Zenon
<1> QED
  BY <1>5, <1>6, <1>7

\* The same, with a name for the larger domain.
LEMMA SumFunctionExtends ==
  ASSUME NEW S, NEW T, NEW b, NEW f, NEW g, IsFiniteSet(S), b \notin S,
         T = S \cup {b}, f \in [S -> Nat], g \in [T -> Nat],
         \A x \in S : g[x] = f[x]
  PROVE  SumFunction(g) = SumFunction(f) + g[b]
BY SumFunctionGrows

\* One summand fewer.
LEMMA SumFunctionShrinks ==
  ASSUME NEW S, IsFiniteSet(S), NEW f \in [S -> Nat], NEW b \in S,
         NEW g \in [S \ {b} -> Nat], \A x \in S \ {b} : g[x] = f[x]
  PROVE  SumFunction(f) = SumFunction(g) + f[b]
<1> DEFINE T == S \ {b}
<1>1. IsFiniteSet(T) /\ b \notin T /\ T \cup {b} = S
  BY FS_RemoveElement
<1>2. f \in [T \cup {b} -> Nat] /\ g \in [T -> Nat] /\ \A x \in T : f[x] = g[x]
  BY <1>1
<1> HIDE DEF T
<1> QED
  BY <1>1, <1>2, SumFunctionGrows

\* Any summand can be set apart from the rest.
LEMMA SumFunctionSplits ==
  ASSUME NEW S, IsFiniteSet(S), NEW f \in [S -> Nat], NEW a \in S
  PROVE  LET rest == SumFunction([x \in S \ {a} |-> f[x]])
         IN rest \in Nat /\ SumFunction(f) = rest + f[a]
<1> DEFINE e == [x \in S \ {a} |-> f[x]]
<1>1. e \in [S \ {a} -> Nat] /\ IsFiniteSet(S \ {a}) /\ \A x \in S \ {a} : e[x] = f[x]
  BY FS_RemoveElement
<1> HIDE DEF e
<1>2. SumFunction(e) \in Nat /\ SumFunction(f) = SumFunction(e) + f[a]
  BY <1>1, SumFunctionType, SumFunctionShrinks
<1> QED
  BY <1>2 DEF e

\* A single summand.
LEMMA SumFunctionSingleton ==
  ASSUME NEW a, NEW f \in [{a} -> Nat]
  PROVE  SumFunction(f) = f[a]
<1> DEFINE e == [x \in {a} \ {a} |-> f[x]]
<1>1. SumFunction(f) = SumFunction(e) + f[a]
  BY FS_Singleton, SumFunctionSplits
<1>2. SumFunction(e) = 0
  BY SumFunctionEmpty
<1>3. f[a] \in Nat
  OBVIOUS
<1> QED
  BY <1>1, <1>2, <1>3

\* One summand changes.
LEMMA SumFunctionChanges ==
  ASSUME NEW S, IsFiniteSet(S), NEW f \in [S -> Nat], NEW g \in [S -> Nat],
         NEW a \in S, \A x \in S : x # a => g[x] = f[x]
  PROVE  SumFunction(g) = SumFunction(f) - f[a] + g[a]
<1> DEFINE e == [x \in S \ {a} |-> f[x]]
           d == [x \in S \ {a} |-> g[x]]
<1>1. SumFunction(e) \in Nat /\ SumFunction(f) = SumFunction(e) + f[a]
  BY SumFunctionSplits
<1>2. SumFunction(g) = SumFunction(d) + g[a]
  BY SumFunctionSplits
<1>3. d = e
  OBVIOUS
<1>4. f[a] \in Nat /\ g[a] \in Nat
  OBVIOUS
<1> HIDE DEF d, e
<1> QED
  BY <1>1, <1>2, <1>3, <1>4

\* A summand is no more than the sum.
LEMMA SumFunctionAtLeast ==
  ASSUME NEW S, IsFiniteSet(S), NEW f \in [S -> Nat], NEW a \in S
  PROVE  f[a] <= SumFunction(f)
<1> DEFINE rest == SumFunction([x \in S \ {a} |-> f[x]])
<1>1. f[a] \in Nat
  OBVIOUS
<1>2. rest \in Nat /\ SumFunction(f) = rest + f[a]
  BY SumFunctionSplits
<1> HIDE DEF rest
<1> QED
  BY <1>1, <1>2

\* Zeros add up to zero.
LEMMA SumFunctionZero ==
  ASSUME NEW S, IsFiniteSet(S), NEW f \in [S -> Nat], \A x \in S : f[x] = 0
  PROVE  SumFunction(f) = 0
<1> DEFINE good == {T \in SUBSET S : SumFunctionOnSet(f, T) = 0}
<1>1. ASSUME NEW T \in SUBSET S, \A U \in SUBSET T : U # T => U \in good
      PROVE  T \in good
  <2>1. CASE T = {}
    BY <2>1, SumEmpty
  <2>2. CASE T # {}
    <3>1. SumFunctionOnSet(f, T \ {Picked(T)}) = 0 /\ f[Picked(T)] = 0
      BY <1>1, <2>2, PickedIn
    <3> QED
      BY <2>2, <3>1, SumUnfold, FS_Subset
  <2> QED
    BY <2>1, <2>2
<1>2. good \in SUBSET (SUBSET S) /\ S \in SUBSET S
  OBVIOUS
<1> HIDE DEF good
<1>3. good = SUBSET S
  BY <1>1, <1>2, SubsetInduction
<1> QED
  BY <1>2, <1>3 DEF good, SumFunction

-----------------------------------------------------------------------------
(* The treasury's own books.                                                *)

\* Each treasury operator keeps the books balanced; a burn moves both sides.
LEMMA OperatorsBalance ==
  ASSUME NEW t \in TreasuryType, NEW reserve, Balanced(t, reserve), NEW a \in Nat
  PROVE  /\ Balanced(DepositLiquidityTo(t, a), reserve)
         /\ Balanced(Disburse(t, a), reserve)
         /\ Balanced(RecordRepayment(t, a), reserve)
         /\ Balanced(LockCollateral(t, a), reserve)
         /\ Balanced(ReleaseCollateral(t, a), reserve)
         /\ Balanced(LiquidateCollateral(t, a), reserve)
         /\ Balanced(WithdrawFromSeized(t, a), reserve)
         /\ Balanced(BurnProtocolLend(t, a), reserve - a)
<1>1. /\ Balanced(DepositLiquidityTo(t, a), reserve)
      /\ Balanced(Disburse(t, a), reserve)
      /\ Balanced(RecordRepayment(t, a), reserve)
  BY DEF Balanced, TreasuryType, DepositLiquidityTo, Disburse, RecordRepayment
<1>2. /\ Balanced(LockCollateral(t, a), reserve)
      /\ Balanced(ReleaseCollateral(t, a), reserve)
      /\ Balanced(LiquidateCollateral(t, a), reserve)
  BY DEF Balanced, TreasuryType, LockCollateral, ReleaseCollateral, LiquidateCollateral
<1>3. /\ Balanced(WithdrawFromSeized(t, a), reserve)
      /\ Balanced(BurnProtocolLend(t, a), reserve - a)
  BY DEF Balanced, TreasuryType, WithdrawFromSeized, BurnProtocolLend
<1> QED
  BY <1>1, <1>2, <1>3

\* The operators of the ledger leave the reserve alone, but for the burn.
LEMMA ReserveFacts ==
  ASSUME NEW l \in LendType, NEW u \in Users, NEW a \in Nat
  PROVE  /\ Debit(l, u, a).reserve = l.reserve
         /\ Credit(l, u, a).reserve = l.reserve
         /\ BurnReserve(l, a).reserve = l.reserve - a
BY DEF LendType, Debit, Credit, BurnReserve

LEMMA BalancedAdministration ==
  ASSUME TypeOK, VaultsMatchCounters, Administer
  PROVE  VaultsMatchCounters'
<1>1. CASE \E amount \in Deposits : DepositLiquidity(amount)
  BY <1>1, OperatorsBalance, LoanBookAssumption
  DEF DepositLiquidity, VaultsMatchCounters, TypeOK
<1>2. CASE \E u \in Users, amount \in Collaterals : WithdrawSeizedCollateral(u, amount)
  BY <1>2, OperatorsBalance, ReserveFacts, LoanBookAssumption
  DEF WithdrawSeizedCollateral, VaultsMatchCounters, TypeOK
<1>3. CASE \E value \in BOOLEAN : SetPause(value)
  BY <1>3 DEF SetPause, VaultsMatchCounters, money
<1> QED
  BY <1>1, <1>2, <1>3 DEF Administer

LEMMA BalancedBorrow ==
  ASSUME TypeOK, VaultsMatchCounters, NEW u \in Users, Borrow(u)
  PROVE  VaultsMatchCounters'
<1>1. PICK amount \in Amounts, tenor \in Tenors :
        \/ RequestLoan(u, amount, tenor)
        \/ \E p \in DOMAIN Profiles : RequestProfiledLoan(u, p, amount, tenor)
        \/ \E p \in DOMAIN Profiles, collateral \in Collaterals :
             RequestCollateralizedLoan(u, p, amount, collateral, tenor)
  BY DEF Borrow
<1>2. CASE UNCHANGED money
  BY <1>2 DEF money, VaultsMatchCounters
<1>3. ASSUME NEW p \in DOMAIN Profiles, NEW collateral \in Collaterals,
             RequestCollateralizedLoan(u, p, amount, collateral, tenor)
      PROVE  VaultsMatchCounters'
  BY <1>3, OperatorsBalance, ReserveFacts, LoanBookAssumption
  DEF RequestCollateralizedLoan, VaultsMatchCounters, TypeOK
<1> QED
  BY <1>1, <1>2, <1>3 DEF RequestLoan, RequestProfiledLoan

LEMMA BalancedDecide ==
  ASSUME TypeOK, VaultsMatchCounters, NEW i \in DOMAIN requests, Decide(i)
  PROVE  VaultsMatchCounters'
<1>1. /\ requests[i].borrower \in Users /\ requests[i].amount \in Nat
      /\ requests[i].collateral \in Nat
  <2>1. requests[i] \in RequestType
    BY DEF TypeOK
  <2> QED
    BY <2>1 DEF RequestType
<1>2. CASE \E apr \in Aprs, installment \in Installments, grace \in Graces :
             ApproveRequest(i, apr, installment, grace)
  BY <1>1, <1>2, OperatorsBalance DEF ApproveRequest, VaultsMatchCounters, TypeOK
<1>3. ASSUME NEW outcome, CloseRequest(i, outcome)
      PROVE  VaultsMatchCounters'
  BY <1>1, <1>3, OperatorsBalance, ReserveFacts
  DEF CloseRequest, VaultsMatchCounters, TypeOK
<1> QED
  BY <1>2, <1>3 DEF Decide, RejectRequest, CancelRequest

LEMMA BalancedRepayment ==
  ASSUME TypeOK, VaultsMatchCounters, NEW i \in DOMAIN loans, RepayInstallment(i)
  PROVE  VaultsMatchCounters'
<1> DEFINE loan == loans[i]
           final == loan.paid + 1 = loan.total
           refund == Freed(loan, final)
           burn == IF final THEN Burnable(lend, BurnForFullRepayment(loan.amount))
                   ELSE 0
           t1 == RecordRepayment(treasury, loan.installment)
           t2 == ReleaseCollateral(t1, refund)
           l1 == Credit(lend, loan.borrower, refund)
<1>1. loan \in LoanType /\ loan.borrower \in Users /\ loan.installment \in Nat
  <2>1. loan \in LoanType
    BY DEF TypeOK
  <2> QED
    BY <2>1 DEF LoanType
<1>2. refund \in Nat
  <2>1. final \in BOOLEAN
    OBVIOUS
  <2> QED
    BY <1>1, <2>1, FreedType
<1>3. burn \in Nat
  <2>1. lend \in LendType /\ loan.amount \in Nat
    BY <1>1 DEF TypeOK, LoanType
  <2>2. BurnForFullRepayment(loan.amount) \in Nat
    BY <2>1 DEF BurnForFullRepayment
  <2> QED
    BY <1>1, <2>1, <2>2, LendStep
<1>4. /\ treasury' = BurnProtocolLend(t2, burn) /\ lend' = BurnReserve(l1, burn)
      /\ CanUnlock(treasury, refund)
  BY DEF RepayInstallment
<1> HIDE DEF refund, burn
<1>5. t1 \in TreasuryType /\ CanUnlock(t1, refund) /\ Balanced(t1, lend.reserve)
  <2>1. t1.collateralVault = treasury.collateralVault
    BY DEF RecordRepayment, TypeOK, TreasuryType
  <2> QED
    BY <1>1, <1>4, <2>1, TreasuryStep, OperatorsBalance
    DEF TypeOK, VaultsMatchCounters, CanUnlock
<1>6. t2 \in TreasuryType /\ Balanced(t2, lend.reserve)
  BY <1>2, <1>5, TreasuryStep, OperatorsBalance
<1>7. l1 \in LendType /\ l1.reserve = lend.reserve
  BY <1>1, <1>2, LendStep, ReserveFacts DEF TypeOK
<1>8. BurnReserve(l1, burn).reserve = lend.reserve - burn
  BY <1>1, <1>3, <1>7, ReserveFacts
<1> QED
  BY <1>3, <1>4, <1>6, <1>8, OperatorsBalance DEF VaultsMatchCounters

LEMMA BalancedDefault ==
  ASSUME TypeOK, VaultsMatchCounters, NEW i \in DOMAIN loans, MarkDefault(i)
  PROVE  VaultsMatchCounters'
<1>1. loans[i] \in LoanType
  BY DEF TypeOK
<1>2. Freed(loans[i], TRUE) \in Nat
  BY <1>1, FreedType
<1> QED
  BY <1>2, OperatorsBalance DEF MarkDefault, VaultsMatchCounters, TypeOK

LEMMA BalancedNext ==
  ASSUME TypeOK, VaultsMatchCounters, [Next]_vars
  PROVE  VaultsMatchCounters'
<1>1. CASE \E u \in Users : Refer(u)
  BY <1>1
  DEF Refer, GenerateCode, ApplyCode, RewardReferrer, money, VaultsMatchCounters
<1>2. CASE Tick \/ UNCHANGED vars
  BY <1>2 DEF Tick, vars, money, VaultsMatchCounters
<1> QED
  BY <1>1, <1>2, BalancedBorrow, BalancedDecide, BalancedRepayment,
     BalancedDefault, BalancedAdministration DEF Next, Service

\* Every vault holds what the totals of the treasury say it holds, and the two
\* records of the reward reserve never part, whatever is lent, repaid, locked,
\* returned, seized, withdrawn or burned.
THEOREM VaultsMatchCountersAlways == Spec => []VaultsMatchCounters
<1>1. Init => VaultsMatchCounters
  BY LoanBookAssumption DEF Init, FundedTreasury, VaultsMatchCounters, Balanced
<1>2. TypeOK /\ VaultsMatchCounters /\ [Next]_vars => VaultsMatchCounters'
  BY BalancedNext
<1> QED
  BY <1>1, <1>2, TypeCorrect, PTL DEF Spec

-----------------------------------------------------------------------------
(* The line of credit of each borrower, as the tables give it.               *)

\* What the entries of a user say of its line and of its locked collateral.
LineFacts ==
  \A u \in Users :
    /\ Escrow[u] \in Nat
    /\ \A i \in DOMAIN requests :
         requests[i].borrower = u /\ requests[i].status = "pending"
           => LineCredit[u] = "pending" /\ Escrow[u] = requests[i].collateral
    /\ \A j \in DOMAIN loans :
         loans[j].borrower = u /\ loans[j].status = "active"
           => LineCredit[u] = "active" /\ Escrow[u] = Freed(loans[j], TRUE)
    /\ ~HasPending(u) /\ ~HasActive(u) => LineCredit[u] = "idle" /\ Escrow[u] = 0

\* With one open credit per borrower, each of the two sums in
\* LockedCollateralOf has at most one summand.
LEMMA LineFactsHold == TypeOK /\ OneOpenCredit => LineFacts
<1> SUFFICES ASSUME TypeOK, OneOpenCredit, NEW u \in Users
             PROVE  /\ Escrow[u] \in Nat
                    /\ \A i \in DOMAIN requests :
                         requests[i].borrower = u /\ requests[i].status = "pending"
                           => LineCredit[u] = "pending" /\ Escrow[u] = requests[i].collateral
                    /\ \A j \in DOMAIN loans :
                         loans[j].borrower = u /\ loans[j].status = "active"
                           => LineCredit[u] = "active" /\ Escrow[u] = Freed(loans[j], TRUE)
                    /\ ~HasPending(u) /\ ~HasActive(u)
                         => LineCredit[u] = "idle" /\ Escrow[u] = 0
  BY DEF LineFacts
<1> DEFINE locked == {j \in ActiveOf(u) : loans[j].collateralState = "locked"}
           asked == [i \in PendingOf(u) |-> requests[i].collateral]
           held == [i \in locked |-> loans[i].collateral]
<1>1. Escrow[u] = SumFunction(asked) + SumFunction(held)
  BY Zenon DEF Escrow, LockedCollateralOf
<1>2. /\ \A i \in DOMAIN requests : requests[i].collateral \in Nat
      /\ \A j \in DOMAIN loans : loans[j].collateral \in Nat
  BY Entries DEF RequestType, LoanType
<1>3. ASSUME NEW i \in DOMAIN requests, requests[i].borrower = u,
             requests[i].status = "pending"
      PROVE  LineCredit[u] = "pending" /\ Escrow[u] = requests[i].collateral
  <2>1. HasPending(u) /\ ~HasActive(u)
    BY <1>3 DEF HasPending, OneOpenCredit
  <2>2. LineCredit[u] = "pending"
    BY <2>1 DEF LineCredit
  <2>3. PendingOf(u) = {i}
    BY <1>3 DEF PendingOf, OneOpenCredit
  <2>4. locked = {}
    BY <2>1 DEF ActiveOf, HasActive
  <2>5. asked \in [{i} -> Nat] /\ asked[i] = requests[i].collateral
    BY <1>2, <2>3
  <2>6. DOMAIN held = {}
    BY <2>4
  <2> HIDE DEF asked, held
  <2>7. SumFunction(asked) = requests[i].collateral /\ SumFunction(held) = 0
    BY <2>5, <2>6, SumFunctionSingleton, SumFunctionEmpty
  <2> QED
    BY <1>1, <1>2, <2>2, <2>7
<1>4. ASSUME NEW j \in DOMAIN loans, loans[j].borrower = u, loans[j].status = "active"
      PROVE  LineCredit[u] = "active" /\ Escrow[u] = Freed(loans[j], TRUE)
  <2>1. HasActive(u) /\ ~HasPending(u)
    BY <1>4 DEF HasActive, OneOpenCredit
  <2>2. LineCredit[u] = "active"
    BY <2>1 DEF LineCredit
  <2>3. ActiveOf(u) = {j}
    BY <1>4 DEF ActiveOf, OneOpenCredit
  <2>4. PendingOf(u) = {}
    BY <2>1 DEF PendingOf, HasPending
  <2>5. DOMAIN asked = {}
    BY <2>4
  <2>6. CASE loans[j].collateralState = "locked"
    <3>1. locked = {j}
      BY <2>3, <2>6
    <3>2. held \in [{j} -> Nat] /\ held[j] = loans[j].collateral
      BY <1>2, <3>1
    <3> HIDE DEF asked, held
    <3>3. SumFunction(asked) = 0 /\ SumFunction(held) = loans[j].collateral
      BY <2>5, <3>2, SumFunctionSingleton, SumFunctionEmpty
    <3> QED
      BY <1>1, <1>2, <2>2, <2>6, <3>3 DEF Freed
  <2>7. CASE loans[j].collateralState # "locked"
    <3>1. locked = {}
      BY <2>3, <2>7
    <3>2. DOMAIN held = {}
      BY <3>1
    <3> HIDE DEF asked, held
    <3>3. SumFunction(asked) = 0 /\ SumFunction(held) = 0
      BY <2>5, <3>2, SumFunctionEmpty
    <3> QED
      BY <1>1, <2>2, <2>7, <3>3 DEF Freed
  <2> QED
    BY <2>6, <2>7
<1>5. ASSUME ~HasPending(u), ~HasActive(u)
      PROVE  LineCredit[u] = "idle" /\ Escrow[u] = 0
  <2>1. LineCredit[u] = "idle"
    BY <1>5 DEF LineCredit
  <2>2. DOMAIN asked = {} /\ DOMAIN held = {}
    BY <1>5 DEF HasPending, HasActive, PendingOf, ActiveOf
  <2> HIDE DEF asked, held
  <2>3. SumFunction(asked) = 0 /\ SumFunction(held) = 0
    BY <2>2, SumFunctionEmpty
  <2> QED
    BY <1>1, <2>1, <2>3
<1>6. Escrow[u] \in Nat
  <2>1. \A j \in DOMAIN loans : Freed(loans[j], TRUE) \in Nat
    BY Entries, FreedType
  <2>2. CASE HasPending(u)
    BY <1>2, <1>3, <2>2 DEF HasPending
  <2>3. CASE HasActive(u)
    BY <1>4, <2>1, <2>3 DEF HasActive
  <2>4. CASE ~HasPending(u) /\ ~HasActive(u)
    BY <1>5, <2>4
  <2> QED
    BY <2>2, <2>3, <2>4
<1> QED
  BY <1>3, <1>4, <1>5, <1>6

\* A step that leaves the entries of a user alone.
SameEntries(u) ==
  /\ \A i \in DOMAIN requests :
       requests[i].borrower = u => i \in DOMAIN requests' /\ requests'[i] = requests[i]
  /\ \A i \in DOMAIN requests' :
       requests'[i].borrower = u => i \in DOMAIN requests /\ requests'[i] = requests[i]
  /\ \A j \in DOMAIN loans :
       loans[j].borrower = u => j \in DOMAIN loans' /\ loans'[j] = loans[j]
  /\ \A j \in DOMAIN loans' :
       loans'[j].borrower = u => j \in DOMAIN loans /\ loans'[j] = loans[j]

LEMMA SameEntriesSameLine ==
  ASSUME LineFacts, LineFacts', NEW u \in Users, SameEntries(u)
  PROVE  LineCredit'[u] = LineCredit[u] /\ Escrow'[u] = Escrow[u]
<1>1. CASE HasPending(u)
  <2>1. PICK i \in DOMAIN requests :
          requests[i].borrower = u /\ requests[i].status = "pending"
    BY <1>1 DEF HasPending
  <2>2. i \in DOMAIN requests' /\ requests'[i] = requests[i]
    BY <2>1 DEF SameEntries
  <2>3. LineCredit[u] = "pending" /\ Escrow[u] = requests[i].collateral
    BY <2>1 DEF LineFacts
  <2>4. LineCredit'[u] = "pending" /\ Escrow'[u] = requests'[i].collateral
    BY <2>1, <2>2 DEF LineFacts
  <2> QED
    BY <2>2, <2>3, <2>4
<1>2. CASE HasActive(u)
  <2>1. PICK j \in DOMAIN loans : loans[j].borrower = u /\ loans[j].status = "active"
    BY <1>2 DEF HasActive
  <2>2. j \in DOMAIN loans' /\ loans'[j] = loans[j]
    BY <2>1 DEF SameEntries
  <2>3. LineCredit[u] = "active" /\ Escrow[u] = Freed(loans[j], TRUE)
    BY <2>1 DEF LineFacts
  <2>4. LineCredit'[u] = "active" /\ Escrow'[u] = Freed(loans'[j], TRUE)
    BY ZenonT(40), <2>1, <2>2 DEF LineFacts
  <2> QED
    BY <2>2, <2>3, <2>4
<1>3. CASE ~HasPending(u) /\ ~HasActive(u)
  <2>1. ~HasPending(u)'
    BY <1>3 DEF HasPending, SameEntries
  <2>2. ~HasActive(u)'
    BY <1>3 DEF HasActive, SameEntries
  <2>3. LineCredit[u] = "idle" /\ Escrow[u] = 0
    BY <1>3 DEF LineFacts
  <2>4. LineCredit'[u] = "idle" /\ Escrow'[u] = 0
    BY <2>1, <2>2 DEF LineFacts
  <2> QED
    BY <2>3, <2>4
<1> QED
  BY <1>1, <1>2, <1>3

\* The line of u alone moves: to state s, with collateral c locked.
LineMoves(u, s, c) ==
  /\ LineCredit' = [LineCredit EXCEPT ![u] = s]
  /\ Escrow' = [Escrow EXCEPT ![u] = c]

LEMMA MovesAlone ==
  ASSUME LineFacts, LineFacts', NEW u \in Users, NEW s, NEW c,
         \A v \in Users : v # u => SameEntries(v),
         LineCredit'[u] = s, Escrow'[u] = c
  PROVE  LineMoves(u, s, c)
<1>1. \A v \in Users : v # u => LineCredit'[v] = LineCredit[v] /\ Escrow'[v] = Escrow[v]
  BY SameEntriesSameLine
<1>2. /\ LineCredit = [v \in Users |-> LineCredit[v]]
      /\ LineCredit' = [v \in Users |-> LineCredit'[v]]
      /\ Escrow = [v \in Users |-> Escrow[v]]
      /\ Escrow' = [v \in Users |-> Escrow'[v]]
  BY DEF LineCredit, Escrow
<1> QED
  BY <1>1, <1>2 DEF LineMoves

-----------------------------------------------------------------------------
(* What each transaction does to the lines.                                 *)

\* The facts above, before and after a step.
Known == TypeOK /\ OneOpenCredit /\ LineFacts

LEMMA OpenMoves ==
  ASSUME Known, Known', NEW u \in Users,
         NEW p \in DOMAIN Profiles \cup {Unspecified},
         NEW amount \in Nat, NEW collateral \in Nat, NEW tenor \in Nat,
         OpenRequest(u, p, amount, collateral, tenor)
  PROVE  LineCredit[u] = "idle" /\ LineMoves(u, "pending", collateral)
<1> DEFINE r == [borrower |-> u, profile |-> p, amount |-> amount,
                 collateral |-> collateral, tenor |-> tenor, status |-> "pending"]
           n == Len(requests) + 1
<1>1. requests' = Append(requests, r) /\ loans' = loans /\ ~HasPending(u) /\ ~HasActive(u)
  BY DEF OpenRequest
<1>2. r \in RequestType
  BY DEF RequestType
<1>3. /\ DOMAIN requests' = DOMAIN requests \cup {n} /\ n \notin DOMAIN requests
      /\ \A i \in DOMAIN requests : requests'[i] = requests[i]
      /\ requests'[n] = r
  BY <1>1, <1>2, SeqAppend DEF Known, TypeOK
<1>4. LineCredit[u] = "idle"
  BY <1>1 DEF Known, LineFacts
<1>5. LineCredit'[u] = "pending" /\ Escrow'[u] = collateral
  <2>1. n \in DOMAIN requests' /\ requests'[n].borrower = u
        /\ requests'[n].status = "pending" /\ requests'[n].collateral = collateral
    BY <1>3
  <2> QED
    BY <2>1 DEF Known, LineFacts
<1>6. \A v \in Users : v # u => SameEntries(v)
  BY <1>1, <1>3 DEF SameEntries
<1> QED
  BY <1>4, <1>5, <1>6, MovesAlone DEF Known

\* Entry i of the requests is decided and nothing else is touched there.
LEMMA DecisionEntries ==
  ASSUME TypeOK, NEW i \in DOMAIN requests,
         NEW outcome \in {"approved", "rejected", "cancelled"},
         requests' = [requests EXCEPT ![i] = Decided(@, outcome)]
  PROVE  /\ DOMAIN requests' = DOMAIN requests
         /\ requests'[i].status # "pending"
         /\ requests'[i].borrower = requests[i].borrower
         /\ \A j \in DOMAIN requests : j # i => requests'[j] = requests[j]
<1>1. requests[i] \in RequestType
  BY Entries
<1>2. Decided(requests[i], outcome) \in RequestType
  BY <1>1, DecidedType
<1>3. /\ DOMAIN requests' = DOMAIN requests
      /\ requests'[i] = Decided(requests[i], outcome)
      /\ \A j \in DOMAIN requests : j # i => requests'[j] = requests[j]
  BY <1>2, SeqReplace DEF TypeOK
<1> QED
  BY <1>1, <1>3, DecidedFacts

LEMMA ApproveMoves ==
  ASSUME Known, Known', NEW i \in DOMAIN requests, NEW apr \in Aprs,
         NEW installment \in Installments, NEW grace \in Graces,
         ApproveRequest(i, apr, installment, grace)
  PROVE  LET u == requests[i].borrower
         IN LineCredit[u] = "pending" /\ LineMoves(u, "active", Escrow[u])
<1> DEFINE u == requests[i].borrower
           l == NewLoan(i, apr, installment, grace)
           n == Len(loans) + 1
<1>1. /\ requests[i].status = "pending"
      /\ requests' = [requests EXCEPT ![i] = Decided(@, "approved")]
      /\ loans' = Append(loans, l)
  BY DEF ApproveRequest
<1>2. u \in Users /\ requests[i].collateral \in Nat
  BY Entries DEF Known, RequestType
<1>3. LineCredit[u] = "pending" /\ Escrow[u] = requests[i].collateral
  BY <1>1, <1>2 DEF Known, LineFacts
<1>4. /\ DOMAIN requests' = DOMAIN requests /\ requests'[i].borrower = u
      /\ \A j \in DOMAIN requests : j # i => requests'[j] = requests[j]
  BY <1>1, DecisionEntries DEF Known
<1>5. l \in LoanType
  BY LoanBookAssumption, NewLoanType DEF Known
<1>6. /\ l.borrower = u /\ l.status = "active"
      /\ l.collateral = requests[i].collateral
      /\ l.collateralState = IF requests[i].collateral > 0 THEN "locked" ELSE "none"
  BY DEF NewLoan
<1> HIDE DEF l
<1>7. /\ DOMAIN loans' = DOMAIN loans \cup {n} /\ n \notin DOMAIN loans
      /\ \A j \in DOMAIN loans : loans'[j] = loans[j]
      /\ loans'[n] = l
  BY <1>1, <1>5, SeqAppend DEF Known, TypeOK
<1>8. LineCredit'[u] = "active" /\ Escrow'[u] = Escrow[u]
  <2>1. LineCredit'[u] = "active" /\ Escrow'[u] = Freed(l, TRUE)
    <3>1. n \in DOMAIN loans' /\ loans'[n].borrower = u /\ loans'[n].status = "active"
      BY <1>6, <1>7
    <3> QED
      BY <1>2, <1>7, <3>1 DEF Known, LineFacts
  <2>2. Freed(l, TRUE) = requests[i].collateral
    BY <1>2, <1>6 DEF Freed
  <2> QED
    BY <1>3, <2>1, <2>2
<1>9. \A v \in Users : v # u => SameEntries(v)
  BY <1>4, <1>6, <1>7 DEF SameEntries
<1> QED
  BY <1>2, <1>3, <1>8, <1>9, MovesAlone DEF Known

LEMMA CloseMoves ==
  ASSUME Known, Known', NEW i \in DOMAIN requests,
         NEW outcome \in {"rejected", "cancelled"}, CloseRequest(i, outcome)
  PROVE  LET u == requests[i].borrower
         IN /\ LineCredit[u] = "pending" /\ Escrow[u] = requests[i].collateral
            /\ LineMoves(u, "idle", 0)
<1>0. PICK u : u = requests[i].borrower
  OBVIOUS
<1>1. /\ requests[i].status = "pending" /\ loans' = loans
      /\ requests' = [requests EXCEPT ![i] = Decided(@, outcome)]
  BY DEF CloseRequest
<1>2. u \in Users
  BY <1>0, Entries DEF Known, RequestType
<1>3. LineCredit[u] = "pending" /\ Escrow[u] = requests[i].collateral
  BY <1>0, <1>1, <1>2 DEF Known, LineFacts
<1>4. /\ DOMAIN requests' = DOMAIN requests /\ requests'[i].borrower = u
      /\ requests'[i].status # "pending"
      /\ \A j \in DOMAIN requests : j # i => requests'[j] = requests[j]
  BY <1>0, <1>1, DecisionEntries DEF Known
<1>5. ~HasPending(u)'
  <2>1. \A j \in DOMAIN requests :
          requests[j].borrower = u /\ requests[j].status = "pending" => j = i
    BY <1>0, <1>1 DEF Known, OneOpenCredit
  <2> QED
    BY <1>4, <2>1 DEF HasPending
<1>6. ~HasActive(u)'
  <2>1. HasPending(u)
    BY <1>0, <1>1 DEF HasPending
  <2>2. ~HasActive(u)
    BY <1>2, <2>1 DEF Known, OneOpenCredit
  <2> QED
    BY <1>1, <2>2 DEF HasActive
<1>7. LineCredit'[u] = "idle" /\ Escrow'[u] = 0
  <2>1. LineFacts'
    BY DEF Known
  <2> QED
    BY <1>2, <1>5, <1>6, <2>1 DEF LineFacts
<1>8. \A v \in Users : v # u => SameEntries(v)
  BY <1>0, <1>1, <1>4 DEF SameEntries
<1> QED
  BY <1>0, <1>2, <1>3, <1>7, <1>8, MovesAlone DEF Known

\* Entry j of the loans is replaced by m and nothing else is touched there.
LEMMA ServiceEntries ==
  ASSUME TypeOK, NEW j \in DOMAIN loans, NEW m \in LoanType,
         SameTerms(m, loans[j]), requests' = requests,
         loans' = [loans EXCEPT ![j] = m]
  PROVE  /\ DOMAIN loans' = DOMAIN loans /\ loans'[j] = m
         /\ \A k \in DOMAIN loans : k # j => loans'[k] = loans[k]
         /\ \A v \in Users : v # loans[j].borrower => SameEntries(v)
<1>1. /\ DOMAIN loans' = DOMAIN loans /\ loans'[j] = m
      /\ \A k \in DOMAIN loans : k # j => loans'[k] = loans[k]
  BY SeqReplace DEF TypeOK
<1>2. m.borrower = loans[j].borrower
  BY DEF SameTerms
<1> QED
  BY <1>1, <1>2 DEF SameEntries

\* A borrower whose active loan j is settled has no line left.
LEMMA SettledIsIdle ==
  ASSUME Known, Known', NEW j \in DOMAIN loans, NEW m \in LoanType,
         loans[j].status = "active", m.status # "active",
         SameTerms(m, loans[j]), requests' = requests,
         loans' = [loans EXCEPT ![j] = m]
  PROVE  LineMoves(loans[j].borrower, "idle", 0)
<1>0. PICK u : u = loans[j].borrower
  OBVIOUS
<1>1. /\ DOMAIN loans' = DOMAIN loans /\ loans'[j] = m
      /\ \A k \in DOMAIN loans : k # j => loans'[k] = loans[k]
      /\ \A v \in Users : v # u => SameEntries(v)
  BY <1>0, ServiceEntries DEF Known
<1>2. u \in Users
  BY <1>0, Entries DEF Known, LoanType
<1>3. ~HasActive(u)'
  <2>1. \A k \in DOMAIN loans :
          loans[k].borrower = u /\ loans[k].status = "active" => k = j
    BY <1>0 DEF Known, OneOpenCredit
  <2> QED
    BY <1>1, <2>1 DEF HasActive
<1>4. ~HasPending(u)'
  <2>1. HasActive(u)
    BY <1>0 DEF HasActive
  <2>2. ~HasPending(u)
    BY <1>2, <2>1 DEF Known, OneOpenCredit
  <2> QED
    BY <2>2 DEF HasPending
<1>5. LineCredit'[u] = "idle" /\ Escrow'[u] = 0
  <2>1. LineFacts'
    BY DEF Known
  <2> QED
    BY <1>2, <1>3, <1>4, <2>1 DEF LineFacts
<1> QED
  BY <1>0, <1>1, <1>2, <1>5, MovesAlone DEF Known

LEMMA ActiveLine ==
  ASSUME Known, NEW j \in DOMAIN loans, loans[j].status = "active"
  PROVE  LET u == loans[j].borrower
         IN u \in Users /\ LineCredit[u] = "active" /\ Escrow[u] = Freed(loans[j], TRUE)
<1>1. loans[j].borrower \in Users
  BY Entries DEF Known, LoanType
<1> QED
  BY <1>1 DEF Known, LineFacts

LEMMA LastPaymentMoves ==
  ASSUME Known, Known', NEW j \in DOMAIN loans, RepayInstallment(j),
         loans[j].paid + 1 = loans[j].total
  PROVE  LineMoves(loans[j].borrower, "idle", 0)
<1> DEFINE m == AfterInstallment(loans[j])
<1>1. /\ loans[j].status = "active" /\ requests' = requests
      /\ loans' = [loans EXCEPT ![j] = m]
  BY DEF RepayInstallment
<1>2. m \in LoanType /\ SameTerms(m, loans[j]) /\ m.status = "repaid"
  BY Entries, AfterInstallmentType, InstallmentFacts DEF Known
<1> HIDE DEF m
<1> QED
  BY <1>1, <1>2, SettledIsIdle

LEMMA EarlierPaymentMoves ==
  ASSUME Known, Known', NEW j \in DOMAIN loans, RepayInstallment(j),
         loans[j].paid + 1 # loans[j].total
  PROVE  LineCredit' = LineCredit /\ Escrow' = Escrow
<1> DEFINE m == AfterInstallment(loans[j])
           u == loans[j].borrower
<1>1. /\ loans[j].status = "active" /\ requests' = requests
      /\ loans' = [loans EXCEPT ![j] = m]
  BY DEF RepayInstallment
<1>2. /\ m \in LoanType /\ SameTerms(m, loans[j]) /\ m.status = "active"
      /\ m.collateralState = loans[j].collateralState
  BY <1>1, Entries, AfterInstallmentType, InstallmentFacts DEF Known
<1> HIDE DEF m
<1>3. /\ DOMAIN loans' = DOMAIN loans /\ loans'[j] = m
      /\ \A v \in Users : v # u => SameEntries(v)
  BY <1>1, <1>2, ServiceEntries DEF Known
<1>4. u \in Users /\ LineCredit[u] = "active" /\ Escrow[u] = Freed(loans[j], TRUE)
  BY <1>1, ActiveLine
<1>5. LineCredit'[u] = "active" /\ Escrow'[u] = Freed(m, TRUE)
  <2>1. LineFacts' /\ m.borrower = u
    BY <1>2 DEF Known, SameTerms
  <2> QED
    BY <1>2, <1>3, <1>4, <2>1 DEF LineFacts
<1>6. Freed(m, TRUE) = Freed(loans[j], TRUE)
  BY <1>2 DEF SameTerms, Freed
<1>7. LineMoves(u, LineCredit[u], Escrow[u])
  BY <1>3, <1>4, <1>5, <1>6, MovesAlone DEF Known
<1> QED
  BY <1>4, <1>7 DEF LineMoves, LineCredit, Escrow

LEMMA DefaultMoves ==
  ASSUME Known, Known', NEW j \in DOMAIN loans, MarkDefault(j)
  PROVE  LineMoves(loans[j].borrower, "idle", 0)
<1> DEFINE m == AfterDefault(loans[j])
<1>1. /\ loans[j].status = "active" /\ requests' = requests
      /\ loans' = [loans EXCEPT ![j] = m]
  BY DEF MarkDefault
<1>2. m \in LoanType /\ SameTerms(m, loans[j]) /\ m.status = "defaulted"
  BY Entries, AfterDefaultType, DefaultFacts DEF Known
<1> HIDE DEF m
<1> QED
  BY <1>1, <1>2, SettledIsIdle

LEMMA UntouchedLines ==
  UNCHANGED book => LineCredit' = LineCredit /\ Escrow' = Escrow
BY DEF book, LineCredit, Escrow, HasActive, HasPending, LockedCollateralOf,
       ActiveOf, PendingOf

-----------------------------------------------------------------------------
(* Every step is a step of CreditLine, and the vault follows the escrows.    *)

\* Neither minting nor staking, and what the reserve loses was burned.
SupplyKept ==
  /\ lend'.minted = lend.minted /\ lend'.stakingVault = lend.stakingVault
  /\ lend'.reserve + lend'.burned = lend.reserve + lend.burned

\* The vault changes by what the escrow of u changes.
VaultFollows(u) ==
  treasury'.collateralVault = treasury.collateralVault - Escrow[u] + Escrow'[u]

LineStep ==
  \/ \E u \in Users :
       /\ Line!Ask(u) \/ Line!Grant(u) \/ Line!Close(u) \/ Line!Forfeit(u)
       /\ VaultFollows(u)
  \/ /\ \E u \in Users : Line!Dispose(u)
     /\ treasury'.collateralVault = treasury.collateralVault
  \/ UNCHANGED <<LineCredit, Escrow, lend.wallet, treasury.seizedVault,
                 treasury.collateralVault>>

\* What the operators of the ledger and of the treasury do to these numbers.
SameSupply(m, l) ==
  /\ m.minted = l.minted /\ m.stakingVault = l.stakingVault
  /\ m.reserve = l.reserve /\ m.burned = l.burned

LEMMA DebitFacts ==
  ASSUME NEW l \in LendType, NEW u \in Users, NEW a \in Nat
  PROVE  /\ Debit(l, u, a).wallet = [l.wallet EXCEPT ![u] = @ - a]
         /\ SameSupply(Debit(l, u, a), l)
BY Zenon DEF LendType, Debit, SameSupply

LEMMA CreditFacts ==
  ASSUME NEW l \in LendType, NEW u \in Users, NEW a \in Nat
  PROVE  /\ Credit(l, u, a).wallet = [l.wallet EXCEPT ![u] = @ + a]
         /\ SameSupply(Credit(l, u, a), l)
BY Zenon DEF LendType, Credit, SameSupply

LEMMA BurnFacts ==
  ASSUME NEW l \in LendType, NEW a \in Nat
  PROVE  /\ BurnReserve(l, a).wallet = l.wallet
         /\ BurnReserve(l, a).minted = l.minted
         /\ BurnReserve(l, a).stakingVault = l.stakingVault
         /\ BurnReserve(l, a).reserve + BurnReserve(l, a).burned = l.reserve + l.burned
<1>1. /\ BurnReserve(l, a).wallet = l.wallet
      /\ BurnReserve(l, a).minted = l.minted
      /\ BurnReserve(l, a).stakingVault = l.stakingVault
      /\ BurnReserve(l, a).reserve = l.reserve - a
      /\ BurnReserve(l, a).burned = l.burned + a
  BY Zenon DEF LendType, BurnReserve
<1>2. l.reserve \in Nat /\ l.burned \in Nat
  BY DEF LendType
<1> QED
  BY <1>1, <1>2

LEMMA VaultFacts ==
  ASSUME NEW t \in TreasuryType, NEW a \in Nat
  PROVE  /\ LockCollateral(t, a).collateralVault = t.collateralVault + a
         /\ LockCollateral(t, a).seizedVault = t.seizedVault
         /\ ReleaseCollateral(t, a).collateralVault = t.collateralVault - a
         /\ ReleaseCollateral(t, a).seizedVault = t.seizedVault
         /\ LiquidateCollateral(t, a).collateralVault = t.collateralVault - a
         /\ LiquidateCollateral(t, a).seizedVault = t.seizedVault + a
         /\ WithdrawFromSeized(t, a).collateralVault = t.collateralVault
         /\ WithdrawFromSeized(t, a).seizedVault = t.seizedVault - a
BY Zenon DEF TreasuryType, LockCollateral, ReleaseCollateral, LiquidateCollateral,
             WithdrawFromSeized

\* The other operators of the treasury leave both vaults of LEND alone.
SameVaults(s, t) ==
  s.collateralVault = t.collateralVault /\ s.seizedVault = t.seizedVault

LEMMA SameVaultsFacts ==
  ASSUME NEW t \in TreasuryType, NEW a \in Nat
  PROVE  /\ SameVaults(DepositLiquidityTo(t, a), t)
         /\ SameVaults(Disburse(t, a), t)
         /\ SameVaults(RecordRepayment(t, a), t)
         /\ SameVaults(BurnProtocolLend(t, a), t)
BY Zenon DEF TreasuryType, SameVaults, DepositLiquidityTo, Disburse, RecordRepayment,
             BurnProtocolLend

\* Lines are functions of the users.
LEMMA LineShape ==
  /\ LineCredit = [u \in Users |-> LineCredit[u]] /\ Escrow = [u \in Users |-> Escrow[u]]
BY DEF LineCredit, Escrow

LEMMA LineBorrow ==
  ASSUME Known, Known', NEW u \in Users, Borrow(u)
  PROVE  LineStep /\ SupplyKept
<1>1. PICK amount \in Amounts, tenor \in Tenors :
        \/ RequestLoan(u, amount, tenor)
        \/ \E p \in DOMAIN Profiles : RequestProfiledLoan(u, p, amount, tenor)
        \/ \E p \in DOMAIN Profiles, collateral \in Collaterals :
             RequestCollateralizedLoan(u, p, amount, collateral, tenor)
  BY DEF Borrow
<1>2. amount \in Nat /\ tenor \in Nat /\ 0 \in Nat
  BY LoanBookAssumption
<1>3. /\ lend \in LendType /\ treasury \in TreasuryType
      /\ lend.wallet[u] \in Nat /\ lend.wallet \in [Users -> Nat]
      /\ treasury.collateralVault \in Nat
  BY DEF Known, TypeOK, LendType, TreasuryType
<1>4. Escrow[u] \in Nat
  BY DEF Known, LineFacts
<1>5. ASSUME NEW p \in DOMAIN Profiles \cup {Unspecified}, UNCHANGED money,
             OpenRequest(u, p, amount, 0, tenor)
      PROVE  LineStep /\ SupplyKept
  <2>1. LineCredit[u] = "idle" /\ LineMoves(u, "pending", 0)
    BY <1>2, <1>5, OpenMoves
  <2>2. Escrow[u] = 0
    BY <1>5 DEF Known, LineFacts, OpenRequest
  <2>3. lend' = lend /\ treasury' = treasury
    BY <1>5 DEF money
  <2>4. Line!Ask(u)
    <3>1. 0 \in 0..lend.wallet[u] /\ lend.wallet = [lend.wallet EXCEPT ![u] = @ - 0]
      BY <1>3
    <3> QED
      BY <2>1, <2>3, <3>1 DEF LineMoves, Line!Ask, Line!Move
  <2>5. Escrow'[u] = 0
    BY <2>1, LineShape DEF LineMoves
  <2>6. VaultFollows(u)
    BY <1>3, <2>2, <2>3, <2>5 DEF VaultFollows
  <2> QED
    BY <2>3, <2>4, <2>6 DEF LineStep, SupplyKept
<1>6. ASSUME NEW p \in DOMAIN Profiles, NEW collateral \in Collaterals,
             RequestCollateralizedLoan(u, p, amount, collateral, tenor)
      PROVE  LineStep /\ SupplyKept
  <2>1. collateral \in Nat
    BY LoanBookAssumption
  <2>2. /\ CanPay(lend, u, collateral) /\ lend' = Debit(lend, u, collateral)
        /\ treasury' = LockCollateral(treasury, collateral)
        /\ OpenRequest(u, p, amount, collateral, tenor)
    BY <1>6 DEF RequestCollateralizedLoan
  <2>3. LineCredit[u] = "idle" /\ LineMoves(u, "pending", collateral)
    BY <1>2, <2>1, <2>2, OpenMoves
  <2>4. Escrow[u] = 0
    BY <2>2 DEF Known, LineFacts, OpenRequest
  <2>5. /\ lend'.wallet = [lend.wallet EXCEPT ![u] = @ - collateral]
        /\ treasury'.collateralVault = treasury.collateralVault + collateral
        /\ treasury'.seizedVault = treasury.seizedVault
    BY <1>3, <2>1, <2>2, DebitFacts, VaultFacts
  <2>6. SupplyKept
    BY ZenonT(40), <1>3, <2>1, <2>2, DebitFacts DEF SameSupply, SupplyKept
  <2>7. Line!Ask(u)
    <3>1. collateral \in 0..lend.wallet[u]
      BY <1>3, <2>1, <2>2 DEF CanPay
    <3> QED
      BY <2>3, <2>5, <3>1 DEF LineMoves, Line!Ask, Line!Move
  <2>8. Escrow'[u] = collateral
    BY <2>3, LineShape DEF LineMoves
  <2>9. VaultFollows(u)
    BY <1>3, <2>1, <2>4, <2>5, <2>8 DEF VaultFollows
  <2> QED
    BY <2>6, <2>7, <2>9 DEF LineStep
<1> QED
  BY <1>1, <1>5, <1>6 DEF RequestLoan, RequestProfiledLoan

LEMMA LineDecide ==
  ASSUME Known, Known', NEW i \in DOMAIN requests, Decide(i)
  PROVE  LineStep /\ SupplyKept
<1>0. PICK u \in Users : u = requests[i].borrower
  BY Entries DEF Known, RequestType
<1>1. /\ lend \in LendType /\ treasury \in TreasuryType
      /\ requests[i].amount \in Nat /\ requests[i].collateral \in Nat
      /\ treasury.collateralVault \in Nat /\ Escrow[u] \in Nat
  BY Entries DEF Known, TypeOK, RequestType, TreasuryType, LineFacts
<1>2. ASSUME NEW apr \in Aprs, NEW installment \in Installments, NEW grace \in Graces,
             ApproveRequest(i, apr, installment, grace)
      PROVE  LineStep /\ SupplyKept
  <2>1. LineCredit[u] = "pending" /\ LineMoves(u, "active", Escrow[u])
    BY <1>0, <1>2, ApproveMoves
  <2>2. lend' = lend /\ treasury' = Disburse(treasury, requests[i].amount)
    BY <1>2 DEF ApproveRequest
  <2>3. /\ treasury'.collateralVault = treasury.collateralVault
        /\ treasury'.seizedVault = treasury.seizedVault
    BY <1>1, <2>2, SameVaultsFacts DEF SameVaults
  <2>4. Escrow' = Escrow
    BY <2>1, LineShape DEF LineMoves
  <2>5. Line!Grant(u)
    BY <2>1, <2>2, <2>3, <2>4 DEF LineMoves, Line!Grant, Line!Move
  <2>6. VaultFollows(u)
    BY <1>1, <2>3, <2>4 DEF VaultFollows
  <2> QED
    BY <2>2, <2>5, <2>6 DEF LineStep, SupplyKept
<1>3. ASSUME NEW outcome \in {"rejected", "cancelled"}, CloseRequest(i, outcome)
      PROVE  LineStep /\ SupplyKept
  <2>1. /\ LineCredit[u] = "pending" /\ Escrow[u] = requests[i].collateral
        /\ LineMoves(u, "idle", 0)
    BY <1>0, <1>3, CloseMoves
  <2>2. /\ lend' = Credit(lend, u, Escrow[u])
        /\ treasury' = ReleaseCollateral(treasury, Escrow[u])
    BY <1>0, <1>3, <2>1 DEF CloseRequest
  <2>3. /\ lend'.wallet = [lend.wallet EXCEPT ![u] = @ + Escrow[u]]
        /\ treasury'.collateralVault = treasury.collateralVault - Escrow[u]
        /\ treasury'.seizedVault = treasury.seizedVault
    BY <1>1, <2>2, CreditFacts, VaultFacts
  <2>4. SupplyKept
    BY ZenonT(40), <1>1, <2>2, CreditFacts DEF SameSupply, SupplyKept
  <2>5. Line!Close(u)
    BY <2>1, <2>3 DEF LineMoves, Line!Close, Line!Move
  <2>6. Escrow'[u] = 0
    BY <2>1, LineShape DEF LineMoves
  <2>7. VaultFollows(u)
    BY <1>1, <2>3, <2>6 DEF VaultFollows
  <2> QED
    BY <2>4, <2>5, <2>7 DEF LineStep
<1> QED
  BY <1>2, <1>3 DEF Decide, RejectRequest, CancelRequest

LEMMA LineRepay ==
  ASSUME Known, Known', NEW j \in DOMAIN loans, RepayInstallment(j)
  PROVE  LineStep /\ SupplyKept
<1> DEFINE loan == loans[j]
           final == loan.paid + 1 = loan.total
<1>0. PICK u \in Users : u = loan.borrower
  BY Entries DEF Known, LoanType
<1>1. PICK refund : refund = Freed(loan, final)
  OBVIOUS
<1>2. PICK burn : burn = IF final THEN Burnable(lend, BurnForFullRepayment(loan.amount))
                         ELSE 0
  OBVIOUS
<1>3. /\ lend \in LendType /\ treasury \in TreasuryType /\ loan \in LoanType
      /\ loan.installment \in Nat /\ loan.amount \in Nat
  BY Entries DEF Known, TypeOK, LoanType
<1>4. /\ loan.status = "active" /\ CanUnlock(treasury, refund)
      /\ treasury' = BurnProtocolLend(
                       ReleaseCollateral(RecordRepayment(treasury, loan.installment),
                                         refund), burn)
      /\ lend' = BurnReserve(Credit(lend, u, refund), burn)
  BY <1>0, <1>1, <1>2 DEF RepayInstallment
<1>5. LineCredit[u] = "active" /\ Escrow[u] = Freed(loan, TRUE)
  BY <1>0, <1>4, ActiveLine
<1>6. refund \in Nat /\ refund = IF final THEN Escrow[u] ELSE 0
  <2>1. final \in BOOLEAN
    OBVIOUS
  <2> QED
    BY <1>1, <1>3, <1>5, <2>1, FreedType DEF Freed
<1>7. burn \in Nat
  <2>1. BurnForFullRepayment(loan.amount) \in Nat
    BY <1>3 DEF BurnForFullRepayment
  <2> QED
    BY <1>2, <1>3, <2>1, LendStep
<1>8. /\ lend'.wallet = [lend.wallet EXCEPT ![u] = @ + refund] /\ SupplyKept
  <2> DEFINE l1 == Credit(lend, u, refund)
  <2>0. refund \in Nat
    BY <1>6
  <2>1. l1 \in LendType
    BY <1>3, <2>0, LendStep
  <2>2. /\ SameSupply(l1, lend)
        /\ l1.wallet = [lend.wallet EXCEPT ![u] = @ + refund]
    BY <1>3, <2>0, CreditFacts
  <2>3. lend' = BurnReserve(l1, burn)
    BY <1>4
  <2> HIDE DEF l1
  <2> QED
    BY <1>7, <2>1, <2>2, <2>3, BurnFacts DEF SameSupply, SupplyKept
<1>9. /\ treasury'.collateralVault = treasury.collateralVault - refund
      /\ treasury'.seizedVault = treasury.seizedVault
  <2> DEFINE t1 == RecordRepayment(treasury, loan.installment)
             t2 == ReleaseCollateral(t1, refund)
  <2>1. t1 \in TreasuryType /\ SameVaults(t1, treasury)
    BY <1>3, TreasuryStep, SameVaultsFacts
  <2> HIDE DEF t1
  <2>2. CanUnlock(t1, refund)
    BY <1>4, <2>1 DEF CanUnlock, SameVaults
  <2>3. /\ t2 \in TreasuryType /\ t2.seizedVault = t1.seizedVault
        /\ t2.collateralVault = t1.collateralVault - refund
    BY <1>6, <2>1, <2>2, TreasuryStep, VaultFacts
  <2>4. treasury' = BurnProtocolLend(t2, burn)
    BY <1>4 DEF t1
  <2> HIDE DEF t2
  <2>5. SameVaults(treasury', t2)
    BY <1>7, <2>3, <2>4, SameVaultsFacts
  <2> QED
    BY <2>1, <2>3, <2>5 DEF SameVaults
<1>10. treasury.collateralVault \in Nat /\ Escrow[u] \in Nat
  BY <1>3 DEF TreasuryType, Known, LineFacts
<1>11. CASE final
  <2>1. LineMoves(u, "idle", 0)
    BY <1>0, <1>11, LastPaymentMoves
  <2>2. Line!Close(u)
    BY <1>5, <1>6, <1>8, <1>9, <1>11, <2>1 DEF LineMoves, Line!Close, Line!Move
  <2>3. Escrow'[u] = 0
    BY <2>1, LineShape DEF LineMoves
  <2>4. VaultFollows(u)
    BY <1>6, <1>9, <1>10, <1>11, <2>3 DEF VaultFollows
  <2> QED
    BY <1>8, <2>2, <2>4 DEF LineStep
<1>12. CASE ~final
  <2>1. LineCredit' = LineCredit /\ Escrow' = Escrow
    BY <1>12, EarlierPaymentMoves
  <2>2. refund = 0
    BY <1>6, <1>12
  <2>3. lend.wallet \in [Users -> Nat]
    BY <1>3 DEF LendType
  <2>4. lend'.wallet = lend.wallet
    BY <1>8, <2>2, <2>3
  <2>5. treasury'.collateralVault = treasury.collateralVault
    BY <1>9, <1>10, <2>2
  <2> QED
    BY <1>8, <1>9, <2>1, <2>4, <2>5 DEF LineStep
<1> QED
  BY <1>11, <1>12

LEMMA LineDefault ==
  ASSUME Known, Known', NEW j \in DOMAIN loans, MarkDefault(j)
  PROVE  LineStep /\ SupplyKept
<1>0. PICK u \in Users : u = loans[j].borrower
  BY Entries DEF Known, LoanType
<1>1. /\ treasury \in TreasuryType /\ loans[j] \in LoanType
      /\ treasury.collateralVault \in Nat
  BY Entries DEF Known, TypeOK, TreasuryType
<1>2. /\ loans[j].status = "active" /\ lend' = lend
      /\ treasury' = LiquidateCollateral(treasury, Freed(loans[j], TRUE))
  BY DEF MarkDefault
<1>3. LineCredit[u] = "active" /\ Escrow[u] = Freed(loans[j], TRUE)
  BY <1>0, <1>2, ActiveLine
<1>4. Escrow[u] \in Nat
  BY DEF Known, LineFacts
<1>5. /\ treasury'.collateralVault = treasury.collateralVault - Escrow[u]
      /\ treasury'.seizedVault = treasury.seizedVault + Escrow[u]
  <2>1. PICK seized : seized = Escrow[u]
    OBVIOUS
  <2>2. treasury' = LiquidateCollateral(treasury, seized) /\ seized \in Nat
    BY <1>2, <1>3, <1>4, <2>1
  <2> QED
    BY <1>1, <2>1, <2>2, VaultFacts
<1>6. LineMoves(u, "idle", 0)
  BY <1>0, DefaultMoves
<1>7. Line!Forfeit(u)
  BY <1>2, <1>3, <1>5, <1>6 DEF LineMoves, Line!Forfeit, Line!Move
<1>8. Escrow'[u] = 0
  BY <1>6, LineShape DEF LineMoves
<1>9. VaultFollows(u)
  BY <1>1, <1>4, <1>5, <1>8 DEF VaultFollows
<1> QED
  BY <1>2, <1>7, <1>9 DEF LineStep, SupplyKept

LEMMA LineAdminister ==
  ASSUME Known, Administer
  PROVE  LineStep /\ SupplyKept
<1>1. lend \in LendType /\ treasury \in TreasuryType
  BY DEF Known, TypeOK
<1>2. UNCHANGED book => LineCredit' = LineCredit /\ Escrow' = Escrow
  BY UntouchedLines
<1>3. ASSUME NEW amount \in Deposits, DepositLiquidity(amount)
      PROVE  LineStep /\ SupplyKept
  <2>1. /\ amount \in Nat /\ UNCHANGED book /\ lend' = lend
        /\ treasury' = DepositLiquidityTo(treasury, amount)
    BY <1>3, LoanBookAssumption DEF DepositLiquidity
  <2>2. SameVaults(treasury', treasury)
    BY <1>1, <2>1, SameVaultsFacts
  <2> QED
    BY <1>2, <2>1, <2>2 DEF SameVaults, LineStep, SupplyKept
<1>4. ASSUME NEW u \in Users, NEW amount \in Collaterals,
             WithdrawSeizedCollateral(u, amount)
      PROVE  LineStep /\ SupplyKept
  <2>1. /\ amount \in Nat /\ amount > 0 /\ treasury.seizedVault >= amount
        /\ UNCHANGED book /\ lend' = Credit(lend, u, amount)
        /\ treasury' = WithdrawFromSeized(treasury, amount)
    BY <1>4, LoanBookAssumption DEF WithdrawSeizedCollateral, CanWithdrawSeized
  <2>2. /\ lend'.wallet = [lend.wallet EXCEPT ![u] = @ + amount] /\ SupplyKept
    BY <1>1, <2>1, CreditFacts DEF SameSupply, SupplyKept
  <2>3. /\ treasury'.collateralVault = treasury.collateralVault
        /\ treasury'.seizedVault = treasury.seizedVault - amount
    BY <1>1, <2>1, VaultFacts
  <2>4. Line!Dispose(u)
    <3>1. amount \in 1..treasury.seizedVault
      BY <1>1, <2>1 DEF TreasuryType
    <3> QED
      BY <1>2, <2>1, <2>2, <2>3, <3>1 DEF Line!Dispose
  <2> QED
    BY <2>2, <2>3, <2>4 DEF LineStep
<1>5. ASSUME NEW value \in BOOLEAN, SetPause(value)
      PROVE  LineStep /\ SupplyKept
  BY <1>2, <1>5 DEF SetPause, money, LineStep, SupplyKept
<1> QED
  BY <1>3, <1>4, <1>5 DEF Administer

\* The steps of the specification, seen through the lines.
LEMMA LineSteps ==
  ASSUME Known, Known', [Next]_vars
  PROVE  LineStep /\ SupplyKept
<1>1. UNCHANGED book /\ UNCHANGED money => LineStep /\ SupplyKept
  BY UntouchedLines DEF money, LineStep, SupplyKept
<1>2. CASE \E u \in Users : Refer(u)
  BY <1>1, <1>2 DEF Refer, GenerateCode, ApplyCode, RewardReferrer
<1>3. CASE Tick \/ UNCHANGED vars
  BY <1>1, <1>3 DEF Tick, vars, book, money
<1> QED
  BY <1>2, <1>3, LineBorrow, LineDecide, LineRepay, LineDefault, LineAdminister
  DEF Next, Service

\* Known holds in every reachable state.
LEMMA KnownAlways == Spec => []Known
<1>1. TypeOK /\ OneOpenCredit => Known
  BY LineFactsHold DEF Known
<1> QED
  BY <1>1, TypeCorrect, OneOpenCreditAlways, PTL

-----------------------------------------------------------------------------
(* The refinement.                                                          *)

LEMMA LineStarts == Init => Line!LineInit
<1> SUFFICES ASSUME Init PROVE Line!LineInit
  OBVIOUS
<1>1. /\ requests = <<>> /\ loans = <<>>
      /\ treasury.seizedVault = 0 /\ lend.wallet = InitialWallet
  BY DEF Init, FundedTreasury
<1>2. TypeOK /\ OneOpenCredit
  BY TypeInit DEF Init, OneOpenCredit, HasPending, HasActive
<1>3. \A u \in Users : LineCredit[u] = "idle" /\ Escrow[u] = 0
  BY <1>1, <1>2, LineFactsHold DEF LineFacts, HasPending, HasActive
<1>4. LineCredit = [u \in Users |-> "idle"] /\ Escrow = [u \in Users |-> 0]
  BY <1>3, LineShape
<1> QED
  BY <1>1, <1>4, LoanBookAssumption DEF Line!LineInit

LEMMA LineStepImplements == LineStep => [Line!LineNext]_(Line!lineVars)
BY DEF LineStep, Line!LineNext, Line!lineVars

\* The contracts keep the promise of CreditLine to every borrower: whatever the
\* others do to the shared pool and the shared tables, a transaction moves one
\* line by one of its five steps, or none.
THEOREM ImplementsCreditLine == Spec => CreditLineSpec
<1>1. Known /\ Known' /\ [Next]_vars => [Line!LineNext]_(Line!lineVars)
  BY LineSteps, LineStepImplements
<1> QED
  BY <1>1, LineStarts, KnownAlways, PTL DEF Spec, CreditLineSpec, Line!LineSpec

-----------------------------------------------------------------------------
(* The pool of collateral.                                                  *)

\* What each kind of step of the lines does to the escrows, the wallets and
\* the seized vault.
LEMMA EscrowChanges ==
  ASSUME Known, Known', LineStep
  PROVE  treasury'.collateralVault
           = treasury.collateralVault - SumFunction(Escrow) + SumFunction(Escrow')
<1>1. /\ Escrow \in [Users -> Nat] /\ Escrow' \in [Users -> Nat]
      /\ treasury.collateralVault \in Nat /\ IsFiniteSet(Users)
  <2>1. \A u \in Users : Escrow[u] \in Nat
    BY DEF Known, LineFacts
  <2>2. LineFacts'
    BY DEF Known
  <2>3. \A u \in Users : Escrow'[u] \in Nat
    BY <2>2 DEF LineFacts
  <2>4. /\ Escrow = [u \in Users |-> Escrow[u]]
        /\ Escrow' = [u \in Users |-> Escrow'[u]]
    BY DEF Escrow
  <2>5. treasury.collateralVault \in Nat
    BY DEF Known, TypeOK, TreasuryType
  <2> QED
    BY <2>1, <2>3, <2>4, <2>5, LoanBookAssumption
<1>2. SumFunction(Escrow) \in Nat /\ SumFunction(Escrow') \in Nat
  BY <1>1, SumFunctionType
<1>3. ASSUME NEW u \in Users,
             Line!Ask(u) \/ Line!Grant(u) \/ Line!Close(u) \/ Line!Forfeit(u),
             VaultFollows(u)
      PROVE  treasury'.collateralVault
               = treasury.collateralVault - SumFunction(Escrow) + SumFunction(Escrow')
  <2>1. \A v \in Users : v # u => Escrow'[v] = Escrow[v]
    BY <1>1, <1>3 DEF Line!Ask, Line!Grant, Line!Close, Line!Forfeit
  <2>2. SumFunction(Escrow') = SumFunction(Escrow) - Escrow[u] + Escrow'[u]
    BY <1>1, <2>1, SumFunctionChanges
  <2>3. Escrow[u] \in Nat /\ Escrow'[u] \in Nat
    BY <1>1
  <2> QED
    BY <1>1, <1>2, <1>3, <2>2, <2>3 DEF VaultFollows
<1>4. CASE Escrow' = Escrow /\ treasury'.collateralVault = treasury.collateralVault
  BY <1>1, <1>2, <1>4
<1> QED
  BY <1>3, <1>4 DEF LineStep, Line!Dispose

LEMMA CollateralInit == Init => CollateralBacked
<1> SUFFICES ASSUME Init PROVE CollateralBacked
  OBVIOUS
<1>1. Escrow \in [Users -> Nat] /\ \A u \in Users : Escrow[u] = 0
  BY LineStarts DEF Line!LineInit
<1>2. SumFunction(Escrow) = 0
  BY <1>1, LoanBookAssumption, SumFunctionZero
<1> QED
  BY <1>2 DEF Init, FundedTreasury, CollateralBacked

LEMMA CollateralStep ==
  ASSUME Known, Known', CollateralBacked, [Next]_vars
  PROVE  CollateralBacked'
<1>1. /\ SumFunction(Escrow') \in Nat /\ treasury.collateralVault \in Nat
  <2>1. LineFacts'
    BY DEF Known
  <2>2. \A u \in Users : Escrow'[u] \in Nat
    BY <2>1 DEF LineFacts
  <2>3. Escrow' \in [Users -> Nat]
    BY <2>2 DEF Escrow
  <2> QED
    BY <2>3, LoanBookAssumption, SumFunctionType DEF Known, TypeOK, TreasuryType
<1>2. treasury'.collateralVault
        = treasury.collateralVault - SumFunction(Escrow) + SumFunction(Escrow')
  BY LineSteps, EscrowChanges
<1> QED
  BY <1>1, <1>2 DEF CollateralBacked

\* The pool covers what the book says is locked, to the unit: no path returns a
\* collateral twice, keeps one or pays it out of another borrower's.
THEOREM CollateralBackedAlways == Spec => []CollateralBacked
BY CollateralInit, CollateralStep, KnownAlways, PTL DEF Spec

-----------------------------------------------------------------------------
(* The supply of LEND.                                                      *)

\* A line that is idle holds no collateral.
LEMMA IdleHoldsNothing ==
  ASSUME Known, NEW u \in Users, LineCredit[u] = "idle"
  PROVE  Escrow[u] = 0
<1>1. ~HasActive(u) /\ ~HasPending(u)
  BY DEF LineCredit
<1> QED
  BY <1>1 DEF Known, LineFacts

\* LEND only changes place between the wallets and the two vaults.
LEMMA PoolKept ==
  ASSUME Known, Known', LineStep
  PROVE  SumFunction(lend'.wallet) + treasury'.collateralVault + treasury'.seizedVault
           = SumFunction(lend.wallet) + treasury.collateralVault + treasury.seizedVault
<1> DEFINE before == SumFunction(lend.wallet)
           after == SumFunction(lend'.wallet)
           kept == after + treasury'.collateralVault + treasury'.seizedVault
                     = before + treasury.collateralVault + treasury.seizedVault
<1>1. /\ lend.wallet \in [Users -> Nat] /\ lend'.wallet \in [Users -> Nat]
      /\ treasury.collateralVault \in Nat /\ treasury.seizedVault \in Nat
      /\ IsFiniteSet(Users)
  <2>1. lend \in LendType /\ lend' \in LendType /\ treasury \in TreasuryType
    BY DEF Known, TypeOK
  <2> QED
    BY <2>1, LoanBookAssumption DEF LendType, TreasuryType
<1>2. before \in Nat /\ after \in Nat
  BY <1>1, SumFunctionType
<1>3. \A u \in Users : Escrow[u] \in Nat
  BY DEF Known, LineFacts
<1>4. \A u \in Users, c \in Int :
        lend'.wallet = [lend.wallet EXCEPT ![u] = @ + c] => after = before + c
  <2> SUFFICES ASSUME NEW u \in Users, NEW c \in Int,
                      lend'.wallet = [lend.wallet EXCEPT ![u] = @ + c]
               PROVE  after = before + c
    OBVIOUS
  <2>1. /\ \A v \in Users : v # u => lend'.wallet[v] = lend.wallet[v]
        /\ lend'.wallet[u] = lend.wallet[u] + c /\ lend.wallet[u] \in Nat
    BY <1>1
  <2>2. after = before - lend.wallet[u] + lend'.wallet[u]
    BY <1>1, <2>1, SumFunctionChanges
  <2> QED
    BY <1>2, <2>1, <2>2
<1> HIDE DEF before, after
<1>5. ASSUME NEW u \in Users, Line!Ask(u), VaultFollows(u)
      PROVE  kept
  <2>1. PICK c \in 0..lend.wallet[u] :
          /\ Escrow' = [Escrow EXCEPT ![u] = c]
          /\ lend'.wallet = [lend.wallet EXCEPT ![u] = @ - c]
    BY <1>5 DEF Line!Ask
  <2>2. c \in Nat /\ -c \in Int /\ lend.wallet[u] \in Nat
    BY <1>1, <2>1
  <2>3. lend'.wallet = [lend.wallet EXCEPT ![u] = @ + (-c)]
    BY <1>1, <2>1, <2>2
  <2>4. after = before - c
    BY <1>2, <1>4, <2>2, <2>3
  <2>5. Escrow[u] = 0 /\ Escrow'[u] = c
    BY <1>5, <2>1, IdleHoldsNothing, LineShape DEF Line!Ask, Line!Move
  <2>6. treasury'.collateralVault = treasury.collateralVault + c
    BY <1>1, <1>5, <2>2, <2>5 DEF VaultFollows
  <2>7. treasury'.seizedVault = treasury.seizedVault
    BY <1>5 DEF Line!Ask
  <2> QED
    BY <1>1, <1>2, <2>2, <2>4, <2>6, <2>7
<1>6. ASSUME NEW u \in Users, Line!Grant(u), VaultFollows(u)
      PROVE  kept
  <2>1. /\ Escrow' = Escrow /\ lend'.wallet = lend.wallet
        /\ treasury'.seizedVault = treasury.seizedVault
    BY <1>6 DEF Line!Grant
  <2>2. treasury'.collateralVault = treasury.collateralVault
    BY <1>1, <1>3, <1>6, <2>1 DEF VaultFollows
  <2> QED
    BY <2>1, <2>2 DEF before, after
<1>7. ASSUME NEW u \in Users, Line!Close(u), VaultFollows(u)
      PROVE  kept
  <2>1. /\ Escrow' = [Escrow EXCEPT ![u] = 0]
        /\ lend'.wallet = [lend.wallet EXCEPT ![u] = @ + Escrow[u]]
        /\ treasury'.seizedVault = treasury.seizedVault
    BY <1>7 DEF Line!Close
  <2>2. after = before + Escrow[u]
    BY <1>3, <1>4, <2>1
  <2>3. treasury'.collateralVault = treasury.collateralVault - Escrow[u]
    BY <1>1, <1>3, <1>7, <2>1, LineShape DEF VaultFollows
  <2> QED
    BY <1>1, <1>2, <1>3, <2>1, <2>2, <2>3
<1>8. ASSUME NEW u \in Users, Line!Forfeit(u), VaultFollows(u)
      PROVE  kept
  <2>1. /\ Escrow' = [Escrow EXCEPT ![u] = 0] /\ lend'.wallet = lend.wallet
        /\ treasury'.seizedVault = treasury.seizedVault + Escrow[u]
    BY <1>8 DEF Line!Forfeit
  <2>2. treasury'.collateralVault = treasury.collateralVault - Escrow[u]
    BY <1>1, <1>3, <1>8, <2>1, LineShape DEF VaultFollows
  <2>3. after = before
    BY <2>1 DEF before, after
  <2> QED
    BY <1>1, <1>2, <1>3, <2>1, <2>2, <2>3
<1>9. ASSUME NEW u \in Users, Line!Dispose(u),
             treasury'.collateralVault = treasury.collateralVault
      PROVE  kept
  <2>1. PICK amount \in 1..treasury.seizedVault :
          /\ treasury'.seizedVault = treasury.seizedVault - amount
          /\ lend'.wallet = [lend.wallet EXCEPT ![u] = @ + amount]
    BY <1>9 DEF Line!Dispose
  <2>2. amount \in Int /\ after = before + amount
    BY <1>1, <1>4, <2>1
  <2> QED
    BY <1>1, <1>2, <1>9, <2>1, <2>2
<1>10. ASSUME lend'.wallet = lend.wallet,
              treasury'.seizedVault = treasury.seizedVault,
              treasury'.collateralVault = treasury.collateralVault
       PROVE  kept
  BY <1>10 DEF before, after
<1> HIDE DEF kept
<1>11. kept
  <2>1. ASSUME NEW u \in Users,
               Line!Ask(u) \/ Line!Grant(u) \/ Line!Close(u) \/ Line!Forfeit(u),
               VaultFollows(u)
        PROVE  kept
    BY <1>5, <1>6, <1>7, <1>8, <2>1
  <2>2. UNCHANGED <<LineCredit, Escrow, lend.wallet, treasury.seizedVault,
                    treasury.collateralVault>> => kept
    BY <1>10
  <2> QED
    BY <1>9, <2>1, <2>2 DEF LineStep
<1> QED
  BY <1>11 DEF before, after, kept

LEMMA ConservedInit == Init => LendConserved
<1> SUFFICES ASSUME Init PROVE LendConserved
  OBVIOUS
<1>1. /\ lend.minted = InitialReserve + InitialDistributed /\ lend.burned = 0
      /\ lend.stakingVault = 0 /\ lend.reserve = InitialReserve
      /\ lend.wallet = InitialWallet
      /\ treasury.collateralVault = 0 /\ treasury.seizedVault = 0
  BY DEF Init, FundedTreasury
<1> QED
  BY <1>1, LoanBookAssumption DEF LendConserved

\* What LendConserved adds up.
LEMMA BalanceParts ==
  ASSUME NEW l \in LendType, NEW t \in TreasuryType
  PROVE  /\ l.minted \in Nat /\ l.burned \in Nat /\ l.reserve \in Nat
         /\ l.stakingVault \in Nat /\ SumFunction(l.wallet) \in Nat
         /\ t.collateralVault \in Nat /\ t.seizedVault \in Nat
<1>1. /\ l.minted \in Nat /\ l.burned \in Nat /\ l.reserve \in Nat
      /\ l.stakingVault \in Nat /\ l.wallet \in [Users -> Nat]
      /\ t.collateralVault \in Nat /\ t.seizedVault \in Nat
  BY DEF LendType, TreasuryType
<1> QED
  BY <1>1, LoanBookAssumption, SumFunctionType

LEMMA ConservedStep ==
  ASSUME Known, Known', LendConserved, [Next]_vars
  PROVE  LendConserved'
<1>0. /\ lend \in LendType /\ lend' \in LendType
      /\ treasury \in TreasuryType /\ treasury' \in TreasuryType
  BY DEF Known, TypeOK
<1>1. /\ lend.minted \in Nat /\ lend.burned \in Nat /\ lend.reserve \in Nat
      /\ lend.stakingVault \in Nat /\ SumFunction(lend.wallet) \in Nat
      /\ treasury.collateralVault \in Nat /\ treasury.seizedVault \in Nat
  BY <1>0, BalanceParts
<1>2. /\ lend'.minted \in Nat /\ lend'.burned \in Nat /\ lend'.reserve \in Nat
      /\ lend'.stakingVault \in Nat /\ SumFunction(lend'.wallet) \in Nat
      /\ treasury'.collateralVault \in Nat /\ treasury'.seizedVault \in Nat
  BY <1>0, BalanceParts
<1>3. LineStep /\ SupplyKept
  BY LineSteps
<1>4. SumFunction(lend'.wallet) + treasury'.collateralVault + treasury'.seizedVault
        = SumFunction(lend.wallet) + treasury.collateralVault + treasury.seizedVault
  BY <1>3, PoolKept
<1> QED
  BY <1>1, <1>2, <1>3, <1>4 DEF LendConserved, SupplyKept

\* No LEND appears or vanishes over the whole life of a loan: what was minted
\* and not burned is in a wallet, in the reserve or in one of the three vaults.
THEOREM LendConservedAlways == Spec => []LendConserved
BY ConservedInit, ConservedStep, KnownAlways, PTL DEF Spec

-----------------------------------------------------------------------------
(* The totals of the treasury and the loans.                                *)

Lent == SumFunction([j \in DOMAIN loans |-> loans[j].amount])
Returned == SumFunction([j \in DOMAIN loans |-> loans[j].repaid])

LEMMA LoanSumsType ==
  ASSUME TypeOK
  PROVE  /\ IsFiniteSet(DOMAIN loans) /\ Lent \in Nat /\ Returned \in Nat
         /\ [j \in DOMAIN loans |-> loans[j].amount] \in [DOMAIN loans -> Nat]
         /\ [j \in DOMAIN loans |-> loans[j].repaid] \in [DOMAIN loans -> Nat]
<1>1. /\ [j \in DOMAIN loans |-> loans[j].amount] \in [DOMAIN loans -> Nat]
      /\ [j \in DOMAIN loans |-> loans[j].repaid] \in [DOMAIN loans -> Nat]
  BY Entries DEF LoanType
<1>2. IsFiniteSet(DOMAIN loans)
  <2>1. loans \in Seq(LoanType)
    BY DEF TypeOK
  <2>2. DOMAIN loans = 1..Len(loans) /\ Len(loans) \in Int /\ 1 \in Int
    BY <2>1
  <2> QED
    BY <2>2, FS_Interval
<1> QED
  BY <1>1, <1>2, SumFunctionType DEF Lent, Returned

\* A loan that is appended adds its amount, and nothing to what was repaid.
LEMMA LoanAppended ==
  ASSUME TypeOK, NEW l \in LoanType, loans' = Append(loans, l)
  PROVE  Lent' = Lent + l.amount /\ Returned' = Returned + l.repaid
<1> DEFINE b == Len(loans) + 1
           S == DOMAIN loans
           T == S \cup {b}
<1>0. T = S \cup {b}
  OBVIOUS
<1>1. /\ DOMAIN loans' = T /\ b \notin S /\ loans'[b] = l
      /\ \A j \in S : loans'[j] = loans[j]
  <2>1. loans \in Seq(LoanType)
    BY DEF TypeOK
  <2> QED
    BY <2>1
<1>2. l.amount \in Nat /\ l.repaid \in Nat
  BY DEF LoanType
<1> HIDE DEF b, S, T
<1> DEFINE f == [j \in S |-> loans[j].amount]
           g == [j \in T |-> loans'[j].amount]
           p == [j \in S |-> loans[j].repaid]
           q == [j \in T |-> loans'[j].repaid]
<1>3. /\ f \in [S -> Nat] /\ p \in [S -> Nat] /\ IsFiniteSet(S)
  BY LoanSumsType DEF S
<1>4. /\ g \in [T -> Nat] /\ q \in [T -> Nat]
      /\ \A j \in S : g[j] = f[j] /\ q[j] = p[j]
      /\ g[b] = l.amount /\ q[b] = l.repaid
  <2>1. \A j \in S : loans'[j].amount = loans[j].amount /\ loans'[j].repaid = loans[j].repaid
    BY <1>1
  <2>2. \A j \in S : loans[j].amount \in Nat /\ loans[j].repaid \in Nat
    BY <1>3
  <2> QED
    BY <1>0, <1>1, <1>2, <2>1, <2>2
<1>5. Lent = SumFunction(f) /\ Returned = SumFunction(p)
  BY DEF Lent, Returned, S
<1>6. Lent' = SumFunction(g) /\ Returned' = SumFunction(q)
  BY <1>1 DEF Lent, Returned
<1> HIDE DEF f, g, p, q
<1>7. SumFunction(g) = SumFunction(f) + g[b]
  <2>1. \A x \in S : g[x] = f[x]
    BY <1>4
  <2>2. /\ IsFiniteSet(S) /\ b \notin S
        /\ f \in [S -> Nat] /\ g \in [T -> Nat]
    BY <1>1, <1>3, <1>4
  <2> QED
    BY <1>0, <2>1, <2>2, SumFunctionExtends
<1>8. SumFunction(q) = SumFunction(p) + q[b]
  <2>1. \A x \in S : q[x] = p[x]
    BY <1>4
  <2>2. /\ IsFiniteSet(S) /\ b \notin S
        /\ p \in [S -> Nat] /\ q \in [T -> Nat]
    BY <1>1, <1>3, <1>4
  <2> QED
    BY <1>0, <2>1, <2>2, SumFunctionExtends
<1> QED
  BY <1>4, <1>5, <1>6, <1>7, <1>8

\* A loan that is replaced changes the sums by what changes in it.
LEMMA LoanReplaced ==
  ASSUME TypeOK, NEW i \in DOMAIN loans, NEW m \in LoanType,
         loans' = [loans EXCEPT ![i] = m]
  PROVE  /\ Lent' = Lent - loans[i].amount + m.amount
         /\ Returned' = Returned - loans[i].repaid + m.repaid
<1> DEFINE S == DOMAIN loans
           f == [j \in S |-> loans[j].amount]
           g == [j \in S |-> loans'[j].amount]
           p == [j \in S |-> loans[j].repaid]
           q == [j \in S |-> loans'[j].repaid]
<1>1. /\ DOMAIN loans' = S /\ loans'[i] = m
      /\ \A j \in S : j # i => loans'[j] = loans[j]
  OBVIOUS
<1>2. m.amount \in Nat /\ m.repaid \in Nat
  BY DEF LoanType
<1>3. /\ f \in [S -> Nat] /\ p \in [S -> Nat] /\ IsFiniteSet(S)
  BY LoanSumsType
<1>4. /\ g \in [S -> Nat] /\ q \in [S -> Nat]
      /\ \A j \in S : j # i => g[j] = f[j] /\ q[j] = p[j]
      /\ g[i] = m.amount /\ q[i] = m.repaid
      /\ f[i] = loans[i].amount /\ p[i] = loans[i].repaid
  <2>1. \A j \in S : loans[j].amount \in Nat /\ loans[j].repaid \in Nat
    BY <1>3
  <2> QED
    BY <1>1, <1>2, <2>1
<1>5. Lent = SumFunction(f) /\ Returned = SumFunction(p)
  BY DEF Lent, Returned
<1>6. Lent' = SumFunction(g) /\ Returned' = SumFunction(q)
  BY <1>1 DEF Lent, Returned
<1> HIDE DEF f, g, p, q
<1> QED
  BY <1>3, <1>4, <1>5, <1>6, SumFunctionChanges

\* What the operators of the treasury do to the two totals.
SameTotals(s, t) == s.disbursed = t.disbursed /\ s.repaid = t.repaid

LEMMA TotalsFacts ==
  ASSUME NEW t \in TreasuryType, NEW a \in Nat
  PROVE  /\ SameTotals(DepositLiquidityTo(t, a), t)
         /\ SameTotals(LockCollateral(t, a), t)
         /\ SameTotals(ReleaseCollateral(t, a), t)
         /\ SameTotals(LiquidateCollateral(t, a), t)
         /\ SameTotals(WithdrawFromSeized(t, a), t)
         /\ SameTotals(BurnProtocolLend(t, a), t)
         /\ Disburse(t, a).disbursed = t.disbursed + a
         /\ Disburse(t, a).repaid = t.repaid
         /\ RecordRepayment(t, a).disbursed = t.disbursed
         /\ RecordRepayment(t, a).repaid = t.repaid + a
BY Zenon DEF TreasuryType, SameTotals, DepositLiquidityTo, LockCollateral,
             ReleaseCollateral, LiquidateCollateral, WithdrawFromSeized,
             BurnProtocolLend, Disburse, RecordRepayment

LEMMA TotalsStep ==
  ASSUME TypeOK, TotalsMatchBook, [Next]_vars
  PROVE  TotalsMatchBook'
<1>1. /\ treasury \in TreasuryType
      /\ treasury.disbursed = Lent /\ treasury.repaid = Returned
      /\ Lent \in Nat /\ Returned \in Nat
  BY LoanSumsType DEF TypeOK, TotalsMatchBook, Lent, Returned
<1> SUFFICES treasury'.disbursed = Lent' /\ treasury'.repaid = Returned'
  BY DEF TotalsMatchBook, Lent, Returned
<1>2. loans' = loans /\ SameTotals(treasury', treasury)
        => treasury'.disbursed = Lent' /\ treasury'.repaid = Returned'
  BY <1>1 DEF SameTotals, Lent, Returned
<1>3. UNCHANGED <<loans, treasury>> => SameTotals(treasury', treasury)
  BY DEF SameTotals
<1>4. CASE \E u \in Users : Borrow(u)
  <2>1. PICK u \in Users, amount \in Amounts, tenor \in Tenors :
          \/ RequestLoan(u, amount, tenor)
          \/ \E p \in DOMAIN Profiles : RequestProfiledLoan(u, p, amount, tenor)
          \/ \E p \in DOMAIN Profiles, collateral \in Collaterals :
               RequestCollateralizedLoan(u, p, amount, collateral, tenor)
    BY <1>4 DEF Borrow
  <2>2. Collaterals \subseteq Nat
    BY LoanBookAssumption
  <2> QED
    BY <1>1, <1>2, <1>3, <2>1, <2>2, TotalsFacts
    DEF RequestLoan, RequestProfiledLoan, RequestCollateralizedLoan, OpenRequest, money
<1>5. CASE \E i \in DOMAIN requests : Decide(i)
  <2>1. PICK i \in DOMAIN requests : Decide(i)
    BY <1>5
  <2>2. requests[i].amount \in Nat /\ requests[i].collateral \in Nat
    BY Entries DEF RequestType
  <2>3. ASSUME NEW outcome, CloseRequest(i, outcome)
        PROVE  treasury'.disbursed = Lent' /\ treasury'.repaid = Returned'
    BY <1>1, <1>2, <2>2, <2>3, TotalsFacts DEF CloseRequest
  <2>4. ASSUME NEW apr \in Aprs, NEW installment \in Installments, NEW grace \in Graces,
               ApproveRequest(i, apr, installment, grace)
        PROVE  treasury'.disbursed = Lent' /\ treasury'.repaid = Returned'
    <3> DEFINE l == NewLoan(i, apr, installment, grace)
    <3>1. l \in LoanType
      BY LoanBookAssumption, NewLoanType
    <3>2. l.amount = requests[i].amount /\ l.repaid = 0
      BY DEF NewLoan
    <3>3. /\ loans' = Append(loans, l)
          /\ treasury' = Disburse(treasury, requests[i].amount)
      BY <2>4 DEF ApproveRequest
    <3> HIDE DEF l
    <3>4. Lent' = Lent + requests[i].amount /\ Returned' = Returned
      BY <1>1, <3>1, <3>2, <3>3, LoanAppended
    <3>5. /\ treasury'.disbursed = treasury.disbursed + requests[i].amount
          /\ treasury'.repaid = treasury.repaid
      BY <1>1, <2>2, <3>3, TotalsFacts
    <3> QED
      BY <1>1, <3>4, <3>5
  <2> QED
    BY <2>1, <2>3, <2>4 DEF Decide, RejectRequest, CancelRequest
<1>6. ASSUME NEW i \in DOMAIN loans, RepayInstallment(i)
      PROVE  treasury'.disbursed = Lent' /\ treasury'.repaid = Returned'
  <2> DEFINE loan == loans[i]
             final == loan.paid + 1 = loan.total
             m == AfterInstallment(loan)
  <2>1. PICK refund, burn :
          /\ refund = Freed(loan, final)
          /\ burn = IF final THEN Burnable(lend, BurnForFullRepayment(loan.amount)) ELSE 0
    OBVIOUS
  <2>2. /\ loans' = [loans EXCEPT ![i] = m]
        /\ treasury' = BurnProtocolLend(
                         ReleaseCollateral(RecordRepayment(treasury, loan.installment),
                                           refund), burn)
        /\ CanUnlock(treasury, refund)
    BY <1>6, <2>1 DEF RepayInstallment
  <2>3. loan \in LoanType /\ m \in LoanType
    BY Entries, AfterInstallmentType
  <2>4. /\ loan.installment \in Nat /\ loan.amount \in Nat /\ loan.repaid \in Nat
        /\ m.amount = loan.amount /\ m.repaid = loan.repaid + loan.installment
    <3>1. /\ loan.installment \in Nat /\ loan.amount \in Nat /\ loan.repaid \in Nat
      BY <2>3 DEF LoanType
    <3>2. /\ m.amount = loan.amount /\ m.repaid = loan.repaid + loan.installment
      BY <2>3, Zenon DEF AfterInstallment, LoanType
    <3> QED
      BY <3>1, <3>2
  <2>5. refund \in Nat /\ burn \in Nat
    <3>1. final \in BOOLEAN
      OBVIOUS
    <3>2. lend \in LendType /\ BurnForFullRepayment(loan.amount) \in Nat
      BY <2>4 DEF TypeOK, BurnForFullRepayment
    <3>3. loan.borrower \in Users
      BY <2>3 DEF LoanType
    <3> QED
      BY <2>1, <2>3, <3>1, <3>2, <3>3, FreedType, LendStep
  <2>6. Lent' = Lent /\ Returned' = Returned + loan.installment
    <3> HIDE DEF m
    <3>1. /\ Lent' = Lent - loan.amount + m.amount
          /\ Returned' = Returned - loan.repaid + m.repaid
      BY <2>2, <2>3, LoanReplaced
    <3> QED
      BY <1>1, <2>4, <3>1
  <2>7. /\ treasury'.disbursed = treasury.disbursed
        /\ treasury'.repaid = treasury.repaid + loan.installment
    <3> DEFINE t1 == RecordRepayment(treasury, loan.installment)
               t2 == ReleaseCollateral(t1, refund)
    <3>1. /\ t1 \in TreasuryType /\ t1.disbursed = treasury.disbursed
          /\ t1.repaid = treasury.repaid + loan.installment
      BY <1>1, <2>4, TreasuryStep, TotalsFacts
    <3>2. t1.collateralVault = treasury.collateralVault
      BY <1>1, <2>4, SameVaultsFacts DEF SameVaults
    <3> HIDE DEF t1
    <3>3. t2 \in TreasuryType /\ SameTotals(t2, t1)
      BY <2>2, <2>5, <3>1, <3>2, TreasuryStep, TotalsFacts DEF CanUnlock
    <3>4. treasury' = BurnProtocolLend(t2, burn)
      BY <2>2 DEF t1
    <3> HIDE DEF t2
    <3> QED
      BY <2>5, <3>1, <3>3, <3>4, TotalsFacts DEF SameTotals
  <2> QED
    BY <1>1, <2>6, <2>7
<1>7. ASSUME NEW i \in DOMAIN loans, MarkDefault(i)
      PROVE  treasury'.disbursed = Lent' /\ treasury'.repaid = Returned'
  <2> DEFINE m == AfterDefault(loans[i])
  <2>1. loans[i] \in LoanType /\ m \in LoanType
    BY Entries, AfterDefaultType
  <2>2. /\ loans[i].amount \in Nat /\ loans[i].repaid \in Nat
        /\ m.amount = loans[i].amount /\ m.repaid = loans[i].repaid
    <3>1. loans[i].amount \in Nat /\ loans[i].repaid \in Nat
      BY <2>1 DEF LoanType
    <3>2. m.amount = loans[i].amount /\ m.repaid = loans[i].repaid
      BY <2>1, Zenon DEF AfterDefault, LoanType
    <3> QED
      BY <3>1, <3>2
  <2>3. /\ loans' = [loans EXCEPT ![i] = m]
        /\ treasury' = LiquidateCollateral(treasury, Freed(loans[i], TRUE))
    BY <1>7 DEF MarkDefault
  <2>4. SameTotals(treasury', treasury)
    BY <1>1, <2>1, <2>3, FreedType, TotalsFacts
  <2> HIDE DEF m
  <2>5. Lent' = Lent /\ Returned' = Returned
    <3>1. /\ Lent' = Lent - loans[i].amount + m.amount
          /\ Returned' = Returned - loans[i].repaid + m.repaid
      BY <2>1, <2>3, LoanReplaced
    <3> QED
      BY <1>1, <2>2, <3>1
  <2> QED
    BY <1>1, <2>4, <2>5 DEF SameTotals
<1>8. CASE Administer
  <2>1. Deposits \subseteq Nat /\ Collaterals \subseteq Nat
    BY LoanBookAssumption
  <2> QED
    BY <1>1, <1>2, <1>3, <1>8, <2>1, TotalsFacts
    DEF Administer, DepositLiquidity, WithdrawSeizedCollateral, SetPause, book, money
<1>9. CASE \E u \in Users : Refer(u)
  BY <1>2, <1>3, <1>9 DEF Refer, GenerateCode, ApplyCode, RewardReferrer, book, money
<1>10. CASE Tick \/ UNCHANGED vars
  BY <1>2, <1>3, <1>10 DEF Tick, vars, book, money
<1> QED
  BY <1>4, <1>5, <1>6, <1>7, <1>8, <1>9, <1>10 DEF Next, Service

LEMMA TotalsStart == Init => TotalsMatchBook
<1> SUFFICES ASSUME Init PROVE TotalsMatchBook
  OBVIOUS
<1>1. DOMAIN loans = {} /\ treasury.disbursed = 0 /\ treasury.repaid = 0
  BY DEF Init, FundedTreasury
<1> QED
  BY <1>1, SumFunctionEmpty DEF TotalsMatchBook

\* Nothing is lent or repaid outside the book: the treasury's totals are sums
\* over the loans, whatever the order of approvals, payments and defaults.
THEOREM TotalsMatchBookAlways == Spec => []TotalsMatchBook
<1>1. Init => TotalsMatchBook
  BY TotalsStart
<1>2. TypeOK /\ TotalsMatchBook /\ [Next]_vars => TotalsMatchBook'
  BY TotalsStep
<1> QED
  BY <1>1, <1>2, TypeCorrect, PTL DEF Spec

=============================================================================
