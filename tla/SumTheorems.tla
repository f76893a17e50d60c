----------------------------- MODULE SumTheorems -----------------------------
(***************************************************************************)
(* What SumFunctionOnSet of the community modules returns, for finite sets *)
(* of any size: the lemmas with which the other proof modules reason about *)
(* amounts that add up.                                                    *)
(*                                                                         *)
(* The operator is a recursive function over the subsets of its set.  An   *)
(* induction theorem would take the induction hypothesis as an operator;   *)
(* each proof takes a least counterexample in the set of counterexamples   *)
(* instead, which exists because the subsets of a finite set are well      *)
(* founded under inclusion.                                                *)
(***************************************************************************)
EXTENDS Functions, FiniteSetTheorems, TLAPS

\* The element that the sum takes first.
Pick(S) == CHOOSE x \in S : TRUE

\* g is the recursive function that adds f up over the subsets of S.
Adds(f, S, g) ==
    g = [s \in SUBSET S |-> IF s = {} THEN 0 ELSE f[Pick(s)] + g[s \ {Pick(s)}]]

\* The definition, with its recursive function named.
LEMMA SumDef ==
  ASSUME NEW f, NEW S
  PROVE  SumFunctionOnSet(f, S) = (CHOOSE g : Adds(f, S, g))[S]
BY DEF SumFunctionOnSet, FoldFunctionOnSet, MapThenFoldSet, Adds, Pick

\* Of the subsets of S in Bad one is least.
LEMMA MinimalSubset ==
  ASSUME NEW S, IsFiniteSet(S), NEW Bad \in SUBSET SUBSET S, Bad # {}
  PROVE  \E T \in Bad : \A U \in Bad : ~(U \subseteq T /\ U # T)
<1>1. IsWellFoundedOn(StrictSubsetOrdering(S), SUBSET S)
  BY FS_StrictSubsetOrderingWellFounded, FS_FiniteSubsetsOfFinite
<1>2. \E T \in Bad : \A U \in Bad : ~(<<U, T>> \in StrictSubsetOrdering(S)) BY <1>1, WFMin
<1> QED BY <1>2 DEF StrictSubsetOrdering

\* A set that is not empty holds the element that is taken first.
LEMMA PickIn == \A S : S # {} => Pick(S) \in S
BY DEF Pick

\* What is left without it is a smaller subset.
LEMMA PickRest ==
  ASSUME NEW S, NEW s \in SUBSET S, s # {}
  PROVE  /\ Pick(s) \in s
         /\ s \ {Pick(s)} \in SUBSET S
         /\ s \ {Pick(s)} \subseteq s
         /\ s \ {Pick(s)} # s
BY PickIn

\* Two such functions agree where both are defined.
LEMMA AddsAgree ==
  ASSUME NEW f, NEW S, IsFiniteSet(S), NEW V \in SUBSET S, NEW W \in SUBSET V,
         NEW g, NEW h, Adds(f, V, g), Adds(f, W, h)
  PROVE  g[W] = h[W]
<1> DEFINE Bad == {s \in SUBSET W : g[s] # h[s]}
<1>1. IsFiniteSet(W) BY FS_Subset
<1>2. SUFFICES ASSUME Bad # {} PROVE FALSE OBVIOUS
<1>3. PICK T \in Bad : \A U \in Bad : ~(U \subseteq T /\ U # T)
  <2>1. Bad \in SUBSET SUBSET W OBVIOUS
  <2> HIDE DEF Bad
  <2> QED BY <1>1, <1>2, <2>1, MinimalSubset
<1>4. /\ g[T] = IF T = {} THEN 0 ELSE f[Pick(T)] + g[T \ {Pick(T)}]
      /\ h[T] = IF T = {} THEN 0 ELSE f[Pick(T)] + h[T \ {Pick(T)}]
  <2>1. T \in SUBSET V /\ T \in SUBSET W OBVIOUS
  <2> HIDE DEF Bad
  <2> QED BY <2>1 DEF Adds
<1>5. CASE T = {} BY <1>4, <1>5
<1>6. CASE T # {}
  <2>1. /\ T \ {Pick(T)} \in SUBSET W
        /\ T \ {Pick(T)} \subseteq T
        /\ T \ {Pick(T)} # T
          BY <1>6, PickRest
  <2>2. T \ {Pick(T)} \notin Bad BY <1>3, <2>1
  <2>3. g[T \ {Pick(T)}] = h[T \ {Pick(T)}] BY <2>1, <2>2
  <2> QED BY <1>4, <1>6, <2>3
<1> QED BY <1>5, <1>6

\* There is such a function for every finite set.
LEMMA AddsExists ==
  ASSUME NEW f, NEW S, IsFiniteSet(S)
  PROVE  \E g : Adds(f, S, g)
<1> DEFINE Bad == {s \in SUBSET S : ~ \E g : Adds(f, s, g)}
<1>1. SUFFICES ASSUME Bad # {} PROVE FALSE OBVIOUS
<1>2. PICK T \in Bad : \A U \in Bad : ~(U \subseteq T /\ U # T)
  <2>1. Bad \in SUBSET SUBSET S OBVIOUS
  <2> HIDE DEF Bad
  <2> QED BY <1>1, <2>1, MinimalSubset
<1> DEFINE h == [U \in SUBSET T |-> CHOOSE g : Adds(f, U, g)]
           k == [s \in SUBSET T |->
                   IF s = {} THEN 0
                   ELSE f[Pick(s)] + h[s \ {Pick(s)}][s \ {Pick(s)}]]
<1>3. \A U \in SUBSET T : U # T => Adds(f, U, h[U])
  <2>1. SUFFICES ASSUME NEW U \in SUBSET T, U # T PROVE Adds(f, U, h[U]) OBVIOUS
  <2>2. \E g : Adds(f, U, g) BY <1>2, <2>1
  <2>3. h[U] = CHOOSE g : Adds(f, U, g) OBVIOUS
  <2> HIDE DEF h
  <2> QED BY <2>2, <2>3
<1>4. \A v \in SUBSET T : v # T => k[v] = h[v][v]
  <2>1. SUFFICES ASSUME NEW v \in SUBSET T, v # T PROVE k[v] = h[v][v] OBVIOUS
  <2>2. h[v][v] = IF v = {} THEN 0 ELSE f[Pick(v)] + h[v][v \ {Pick(v)}]
    <3>1. Adds(f, v, h[v]) BY <1>3, <2>1
    <3> HIDE DEF h
    <3> QED BY <3>1 DEF Adds
  <2>3. CASE v = {} BY <2>2, <2>3
  <2>4. CASE v # {}
    <3> DEFINE w == v \ {Pick(v)}
    <3>1. w \in SUBSET v /\ w \in SUBSET T /\ w # T BY <2>1, <2>4, PickRest
    <3>2. Adds(f, v, h[v]) /\ Adds(f, w, h[w]) BY <1>3, <2>1, <3>1
    <3>3. h[v][w] = h[w][w]
      <4>1. IsFiniteSet(T) BY FS_Subset
      <4> HIDE DEF h, w
      <4> QED BY <3>1, <3>2, <4>1, AddsAgree
    <3>4. k[v] = f[Pick(v)] + h[w][w]
      <4> HIDE DEF h
      <4> QED BY <2>4
    <3> QED BY <2>2, <2>4, <3>3, <3>4
  <2> QED BY <2>3, <2>4
<1>5. Adds(f, T, k)
  <2>1. SUFFICES ASSUME NEW s \in SUBSET T
                 PROVE  k[s] = IF s = {} THEN 0 ELSE f[Pick(s)] + k[s \ {Pick(s)}]
    <3> DEFINE r == [s \in SUBSET T |-> IF s = {} THEN 0 ELSE f[Pick(s)] + k[s \ {Pick(s)}]]
    <3>1. k = r
      <4>1. k = [s \in SUBSET T |-> k[s]] OBVIOUS
      <4>2. \A s \in SUBSET T : k[s] = r[s]
        <5> HIDE DEF k
        <5> QED BY <2>1
      <4>3. r = [s \in SUBSET T |-> r[s]] OBVIOUS
      <4> HIDE DEF k, r
      <4> QED BY <4>1, <4>2, <4>3
    <3> HIDE DEF k
    <3> QED BY <3>1 DEF Adds
  <2>2. CASE s = {} BY <2>2
  <2>3. CASE s # {}
    <3>1. s \ {Pick(s)} \in SUBSET T /\ s \ {Pick(s)} # T BY <2>3, PickRest
    <3>2. k[s \ {Pick(s)}] = h[s \ {Pick(s)}][s \ {Pick(s)}] BY <1>4, <3>1
    <3>3. k[s] = f[Pick(s)] + h[s \ {Pick(s)}][s \ {Pick(s)}]
      <4> HIDE DEF h
      <4> QED BY <2>3
    <3> QED BY <2>3, <3>2, <3>3
  <2> QED BY <2>2, <2>3
<1> HIDE DEF k
<1> QED BY <1>2, <1>5

\* Nothing adds up to zero.
THEOREM SumEmpty == \A f : SumFunctionOnSet(f, {}) = 0
<1> SUFFICES ASSUME NEW f PROVE SumFunctionOnSet(f, {}) = 0 OBVIOUS
<1>1. \E g : Adds(f, {}, g) BY FS_EmptySet, AddsExists
<1>2. PICK g : g = (CHOOSE h : Adds(f, {}, h)) /\ Adds(f, {}, g) BY <1>1
<1>3. g[{}] = 0 BY <1>2 DEF Adds
<1> QED BY <1>2, <1>3, SumDef

\* The recursion, for the element that is taken first.
LEMMA SumPick ==
  ASSUME NEW f, NEW S, IsFiniteSet(S), S # {}
  PROVE  SumFunctionOnSet(f, S) = f[Pick(S)] + SumFunctionOnSet(f, S \ {Pick(S)})
<1> DEFINE R == S \ {Pick(S)}
<1>1. R \in SUBSET S /\ IsFiniteSet(R) BY PickRest, FS_Subset
<1>2. PICK g : g = (CHOOSE h : Adds(f, S, h)) /\ Adds(f, S, g) BY AddsExists
<1>3. PICK k : k = (CHOOSE h : Adds(f, R, h)) /\ Adds(f, R, k)
  <2> HIDE DEF R
  <2> QED BY <1>1, AddsExists
<1>4. g[R] = k[R]
  <2>1. S \in SUBSET S OBVIOUS
  <2> HIDE DEF R
  <2> QED BY <1>1, <1>2, <1>3, <2>1, AddsAgree
<1>5. g[S] = f[Pick(S)] + g[R] BY <1>2 DEF Adds
<1>6. SumFunctionOnSet(f, S) = g[S] /\ SumFunctionOnSet(f, R) = k[R]
  <2> HIDE DEF R
  <2> QED BY <1>2, <1>3, SumDef
<1> QED BY <1>4, <1>5, <1>6

\* Integers add up to an integer.
THEOREM SumInt ==
  ASSUME NEW f, NEW S, IsFiniteSet(S), \A x \in S : f[x] \in Int
  PROVE  SumFunctionOnSet(f, S) \in Int
<1> DEFINE Bad == {s \in SUBSET S : SumFunctionOnSet(f, s) \notin Int}
<1>1. SUFFICES ASSUME Bad # {} PROVE FALSE BY DEF Bad
<1>2. PICK T \in Bad : \A U \in Bad : ~(U \subseteq T /\ U # T)
  <2>1. Bad \in SUBSET SUBSET S OBVIOUS
  <2> HIDE DEF Bad
  <2> QED BY <1>1, <2>1, MinimalSubset
<1>3. T # {} BY SumEmpty
<1>4. /\ Pick(T) \in T
      /\ T \ {Pick(T)} \in SUBSET S
      /\ T \ {Pick(T)} \subseteq T
      /\ T \ {Pick(T)} # T
        BY <1>3, PickRest
<1>5. SumFunctionOnSet(f, T \ {Pick(T)}) \in Int BY <1>2, <1>4
<1>6. SumFunctionOnSet(f, T) = f[Pick(T)] + SumFunctionOnSet(f, T \ {Pick(T)})
  <2>1. IsFiniteSet(T) BY FS_Subset
  <2> QED BY <1>3, <2>1, SumPick
<1>7. f[Pick(T)] \in Int BY <1>4
<1>8. SumFunctionOnSet(f, T) \in Int BY <1>5, <1>6, <1>7
<1> QED BY <1>8

\* The order does not matter: any element may be taken first.
THEOREM SumRemove ==
  ASSUME NEW f, NEW S, IsFiniteSet(S), \A x \in S : f[x] \in Int, NEW e \in S
  PROVE  SumFunctionOnSet(f, S) = f[e] + SumFunctionOnSet(f, S \ {e})
<1> DEFINE Bad == {s \in SUBSET S : \E x \in s :
                     SumFunctionOnSet(f, s) # f[x] + SumFunctionOnSet(f, s \ {x})}
<1>1. SUFFICES ASSUME Bad # {} PROVE FALSE BY DEF Bad
<1>2. PICK T \in Bad : \A U \in Bad : ~(U \subseteq T /\ U # T)
  <2>1. Bad \in SUBSET SUBSET S OBVIOUS
  <2> HIDE DEF Bad
  <2> QED BY <1>1, <2>1, MinimalSubset
<1>3. PICK x \in T : SumFunctionOnSet(f, T) # f[x] + SumFunctionOnSet(f, T \ {x}) OBVIOUS
<1> DEFINE p == Pick(T)
<1>4. p \in T /\ T \in SUBSET S /\ IsFiniteSet(T) BY <1>3, PickIn, FS_Subset
<1>5. SumFunctionOnSet(f, T) = f[p] + SumFunctionOnSet(f, T \ {p}) BY <1>4, SumPick
<1>6. p # x BY <1>3, <1>5
<1>7. SumFunctionOnSet(f, T \ {p}) = f[x] + SumFunctionOnSet(f, (T \ {p}) \ {x})
  <2>1. T \ {p} \notin Bad BY <1>2, <1>4
  <2>2. x \in T \ {p} /\ T \ {p} \in SUBSET S BY <1>3, <1>4, <1>6
  <2> HIDE DEF p
  <2> QED BY <2>1, <2>2
<1>8. SumFunctionOnSet(f, T \ {x}) = f[p] + SumFunctionOnSet(f, (T \ {x}) \ {p})
  <2>1. T \ {x} \notin Bad BY <1>2, <1>3
  <2>2. p \in T \ {x} /\ T \ {x} \in SUBSET S BY <1>3, <1>4, <1>6
  <2> HIDE DEF p
  <2> QED BY <2>1, <2>2
<1>9. (T \ {p}) \ {x} = (T \ {x}) \ {p} OBVIOUS
<1>10. SumFunctionOnSet(f, (T \ {x}) \ {p}) \in Int
  <2> DEFINE R == (T \ {x}) \ {p}
  <2>1. R \in SUBSET S /\ IsFiniteSet(R) BY <1>4, FS_Subset
  <2>2. \A y \in R : f[y] \in Int BY <2>1
  <2> HIDE DEF R, p
  <2> QED BY <2>1, <2>2, SumInt DEF R
<1>11. f[x] \in Int /\ f[p] \in Int BY <1>3, <1>4
<1> HIDE DEF p, Bad
<1>12. SumFunctionOnSet(f, T) = f[p] + (f[x] + SumFunctionOnSet(f, (T \ {x}) \ {p}))
  BY <1>5, <1>7, <1>9
<1>13. f[x] + SumFunctionOnSet(f, T \ {x})
         = f[x] + (f[p] + SumFunctionOnSet(f, (T \ {x}) \ {p})) BY <1>8
<1>14. \A c \in Int : f[p] + (f[x] + c) = f[x] + (f[p] + c) BY <1>11
<1> QED BY <1>3, <1>10, <1>12, <1>13, <1>14

\* A new element adds its value.
THEOREM SumAdd ==
  ASSUME NEW f, NEW S, IsFiniteSet(S), \A x \in S : f[x] \in Int,
         NEW e, e \notin S, f[e] \in Int
  PROVE  SumFunctionOnSet(f, S \cup {e}) = SumFunctionOnSet(f, S) + f[e]
<1>1. IsFiniteSet(S \cup {e}) /\ (S \cup {e}) \ {e} = S BY FS_AddElement
<1>2. SumFunctionOnSet(f, S \cup {e}) = f[e] + SumFunctionOnSet(f, S) BY <1>1, SumRemove
<1>3. SumFunctionOnSet(f, S) \in Int BY SumInt
<1> QED BY <1>2, <1>3

\* Functions that agree on a set have the same sum over it.
THEOREM SumSame ==
  ASSUME NEW f, NEW g, NEW S, IsFiniteSet(S),
         \A x \in S : f[x] \in Int, \A x \in S : f[x] = g[x]
  PROVE  SumFunctionOnSet(f, S) = SumFunctionOnSet(g, S)
<1> DEFINE Bad == {s \in SUBSET S : SumFunctionOnSet(f, s) # SumFunctionOnSet(g, s)}
<1>1. SUFFICES ASSUME Bad # {} PROVE FALSE BY DEF Bad
<1>2. PICK T \in Bad : \A U \in Bad : ~(U \subseteq T /\ U # T)
  <2>1. Bad \in SUBSET SUBSET S OBVIOUS
  <2> HIDE DEF Bad
  <2> QED BY <1>1, <2>1, MinimalSubset
<1>3. T # {} BY SumEmpty
<1>4. /\ Pick(T) \in T
      /\ T \ {Pick(T)} \in SUBSET S
      /\ T \ {Pick(T)} \subseteq T
      /\ T \ {Pick(T)} # T
        BY <1>3, PickRest
<1>5. SumFunctionOnSet(f, T \ {Pick(T)}) = SumFunctionOnSet(g, T \ {Pick(T)})
  BY <1>2, <1>4
<1>6. /\ SumFunctionOnSet(f, T) = f[Pick(T)] + SumFunctionOnSet(f, T \ {Pick(T)})
      /\ SumFunctionOnSet(g, T) = g[Pick(T)] + SumFunctionOnSet(g, T \ {Pick(T)})
  <2>1. IsFiniteSet(T) BY FS_Subset
  <2> QED BY <1>3, <2>1, SumPick
<1>7. f[Pick(T)] = g[Pick(T)] BY <1>4
<1>8. SumFunctionOnSet(f, T) = SumFunctionOnSet(g, T) BY <1>5, <1>6, <1>7
<1> QED BY <1>8

\* Nothing adds up to nothing.
THEOREM SumZero ==
  ASSUME NEW f, NEW S, IsFiniteSet(S), \A x \in S : f[x] = 0
  PROVE  SumFunctionOnSet(f, S) = 0
<1> DEFINE Bad == {s \in SUBSET S : SumFunctionOnSet(f, s) # 0}
<1>1. SUFFICES ASSUME Bad # {} PROVE FALSE BY DEF Bad
<1>2. PICK T \in Bad : \A U \in Bad : ~(U \subseteq T /\ U # T)
  <2>1. Bad \in SUBSET SUBSET S OBVIOUS
  <2> HIDE DEF Bad
  <2> QED BY <1>1, <2>1, MinimalSubset
<1>3. T # {} BY SumEmpty
<1>4. T \in SUBSET S /\ Pick(T) \in T /\ T \ {Pick(T)} \in SUBSET S /\ T \ {Pick(T)} # T
  BY <1>3, PickIn
<1>5. SumFunctionOnSet(f, T) = f[Pick(T)] + SumFunctionOnSet(f, T \ {Pick(T)})
  BY <1>3, <1>4, FS_Subset, SumPick
<1>6. SumFunctionOnSet(f, T \ {Pick(T)}) = 0
  <2>1. T \ {Pick(T)} \notin Bad BY <1>2, <1>4
  <2> QED BY <1>4, <2>1
<1> QED BY <1>4, <1>5, <1>6

\* Naturals add up to a natural.
THEOREM SumNat ==
  ASSUME NEW f, NEW S, IsFiniteSet(S), \A x \in S : f[x] \in Nat
  PROVE  SumFunctionOnSet(f, S) \in Nat
<1> DEFINE Bad == {s \in SUBSET S : SumFunctionOnSet(f, s) \notin Nat}
<1>1. SUFFICES ASSUME Bad # {} PROVE FALSE BY DEF Bad
<1>2. PICK T \in Bad : \A U \in Bad : ~(U \subseteq T /\ U # T)
  <2>1. Bad \in SUBSET SUBSET S OBVIOUS
  <2> HIDE DEF Bad
  <2> QED BY <1>1, <2>1, MinimalSubset
<1>3. T # {} BY SumEmpty
<1>4. /\ Pick(T) \in T
      /\ T \ {Pick(T)} \in SUBSET S
      /\ T \ {Pick(T)} \subseteq T
      /\ T \ {Pick(T)} # T
        BY <1>3, PickRest
<1>5. SumFunctionOnSet(f, T \ {Pick(T)}) \in Nat BY <1>2, <1>4
<1>6. SumFunctionOnSet(f, T) = f[Pick(T)] + SumFunctionOnSet(f, T \ {Pick(T)})
  <2>1. IsFiniteSet(T) BY FS_Subset
  <2> QED BY <1>3, <2>1, SumPick
<1>7. f[Pick(T)] \in Nat BY <1>4
<1>8. SumFunctionOnSet(f, T) \in Nat BY <1>5, <1>6, <1>7
<1> QED BY <1>8

\* Sums over disjoint sets add up to the sum over their union.
THEOREM SumUnion ==
  ASSUME NEW f, NEW S, NEW R, IsFiniteSet(S), IsFiniteSet(R), S \cap R = {},
         \A x \in S \cup R : f[x] \in Int
  PROVE  SumFunctionOnSet(f, S \cup R) = SumFunctionOnSet(f, S) + SumFunctionOnSet(f, R)
<1> DEFINE Bad == {s \in SUBSET R : SumFunctionOnSet(f, S \cup s)
                                      # SumFunctionOnSet(f, S) + SumFunctionOnSet(f, s)}
<1>1. SUFFICES ASSUME Bad # {} PROVE FALSE BY DEF Bad
<1>2. PICK T \in Bad : \A U \in Bad : ~(U \subseteq T /\ U # T)
  <2>1. Bad \in SUBSET SUBSET R OBVIOUS
  <2> HIDE DEF Bad
  <2> QED BY <1>1, <2>1, MinimalSubset
<1>3. SumFunctionOnSet(f, S) \in Int BY SumInt
<1>4. T # {}
  <2>1. SumFunctionOnSet(f, {}) = 0 BY SumEmpty
  <2>2. S \cup {} = S OBVIOUS
  <2>3. {} \notin Bad BY <1>3, <2>1, <2>2
  <2> HIDE DEF Bad
  <2> QED BY <2>3
<1>5. PICK x \in T : TRUE BY <1>4
<1> DEFINE V == T \ {x}
<1>6. /\ V \in SUBSET R
      /\ V \notin Bad
      /\ IsFiniteSet(V)
      /\ IsFiniteSet(S \cup V)
      /\ T = V \cup {x}
      /\ S \cup T = (S \cup V) \cup {x}
      /\ x \notin V
      /\ x \notin S \cup V
      /\ x \in R
  <2>1. V \in SUBSET R /\ x \in R /\ x \notin V /\ x \notin S \cup V BY <1>5
  <2>2. V \notin Bad BY <1>2, <1>5
  <2>3. T = V \cup {x} /\ S \cup T = (S \cup V) \cup {x} BY <1>5
  <2> HIDE DEF V, Bad
  <2>4. IsFiniteSet(V) BY <2>1, FS_Subset
  <2>5. IsFiniteSet(S \cup V) BY <2>4, FS_Union
  <2> QED BY <2>1, <2>2, <2>3, <2>4, <2>5
<1>7. SumFunctionOnSet(f, S \cup V) = SumFunctionOnSet(f, S) + SumFunctionOnSet(f, V)
  BY <1>6
<1>8. /\ f[x] \in Int
      /\ \A y \in V : f[y] \in Int
      /\ \A y \in S \cup V : f[y] \in Int
        BY <1>6
<1> HIDE DEF V
<1>9. SumFunctionOnSet(f, T) = SumFunctionOnSet(f, V) + f[x] BY <1>6, <1>8, SumAdd
<1>10. SumFunctionOnSet(f, S \cup T) = SumFunctionOnSet(f, S \cup V) + f[x]
  BY <1>6, <1>8, SumAdd
<1>11. SumFunctionOnSet(f, V) \in Int BY <1>6, <1>8, SumInt
<1>12. SumFunctionOnSet(f, S \cup T)
         = SumFunctionOnSet(f, S) + SumFunctionOnSet(f, T)
           BY <1>3, <1>7, <1>8, <1>9, <1>10, <1>11
<1> QED BY <1>12

\* A value that changes changes the sum by as much.
THEOREM SumExcept ==
  ASSUME NEW f, NEW S, IsFiniteSet(S), \A x \in S : f[x] \in Int,
         NEW g, NEW e \in S, g[e] \in Int, \A x \in S \ {e} : g[x] = f[x]
  PROVE  SumFunctionOnSet(g, S) = SumFunctionOnSet(f, S) + g[e] - f[e]
<1>1. IsFiniteSet(S \ {e}) BY FS_RemoveElement
<1>2. \A x \in S : g[x] \in Int OBVIOUS
<1>3. /\ SumFunctionOnSet(f, S) = f[e] + SumFunctionOnSet(f, S \ {e})
      /\ SumFunctionOnSet(g, S) = g[e] + SumFunctionOnSet(g, S \ {e})
        BY <1>2, SumRemove
<1>4. SumFunctionOnSet(f, S \ {e}) = SumFunctionOnSet(g, S \ {e}) BY <1>1, SumSame
<1>5. SumFunctionOnSet(f, S \ {e}) \in Int BY <1>1, SumInt
<1> QED BY <1>3, <1>4, <1>5

\* A part of a set of naturals adds up to no more than the whole.
THEOREM SumAtMost ==
  ASSUME NEW f, NEW S, IsFiniteSet(S), \A x \in S : f[x] \in Nat, NEW R \in SUBSET S
  PROVE  SumFunctionOnSet(f, R) <= SumFunctionOnSet(f, S)
<1>1. IsFiniteSet(R) /\ IsFiniteSet(S \ R) BY FS_Subset
<1>2. SumFunctionOnSet(f, R \cup (S \ R))
        = SumFunctionOnSet(f, R) + SumFunctionOnSet(f, S \ R) BY <1>1, SumUnion
<1>3. R \cup (S \ R) = S OBVIOUS
<1>4. SumFunctionOnSet(f, R) \in Nat /\ SumFunctionOnSet(f, S \ R) \in Nat BY <1>1, SumNat
<1>5. \A m, n \in Nat : m <= m + n OBVIOUS
<1> QED BY <1>2, <1>3, <1>4, <1>5

\* Sums of two amounts per element add up.
THEOREM SumPlus ==
  ASSUME NEW f, NEW d, NEW g, NEW S, IsFiniteSet(S),
         \A x \in S : f[x] \in Int /\ d[x] \in Int /\ g[x] = f[x] + d[x]
  PROVE  SumFunctionOnSet(g, S) = SumFunctionOnSet(f, S) + SumFunctionOnSet(d, S)
<1> DEFINE Bad == {s \in SUBSET S : SumFunctionOnSet(g, s)
                                      # SumFunctionOnSet(f, s) + SumFunctionOnSet(d, s)}
<1>1. SUFFICES ASSUME Bad # {} PROVE FALSE BY DEF Bad
<1>2. PICK T \in Bad : \A U \in Bad : ~(U \subseteq T /\ U # T)
  <2>1. Bad \in SUBSET SUBSET S OBVIOUS
  <2> HIDE DEF Bad
  <2> QED BY <1>1, <2>1, MinimalSubset
<1>3. T # {}
  <2>1. \A h : SumFunctionOnSet(h, {}) = 0 BY SumEmpty
  <2>2. {} \notin Bad BY <2>1
  <2> HIDE DEF Bad
  <2> QED BY <2>2
<1> DEFINE p == Pick(T)
           V == T \ {p}
<1>4. /\ T \in SUBSET S
      /\ p \in T
      /\ V \in SUBSET S
      /\ V # T
        BY <1>3, PickIn
<1>5. SumFunctionOnSet(g, V) = SumFunctionOnSet(f, V) + SumFunctionOnSet(d, V)
  <2>1. V \notin Bad BY <1>2, <1>4
  <2> HIDE DEF V
  <2> QED BY <1>4, <2>1
<1>6. IsFiniteSet(T) /\ IsFiniteSet(V)
  <2> HIDE DEF V
  <2> QED BY <1>4, FS_Subset
<1>7. \A h : SumFunctionOnSet(h, T) = h[p] + SumFunctionOnSet(h, V) BY <1>3, <1>6, SumPick
<1>8. f[p] \in Int /\ d[p] \in Int /\ g[p] = f[p] + d[p]
  <2> HIDE DEF p
  <2> QED BY <1>4
<1>9. SumFunctionOnSet(f, V) \in Int /\ SumFunctionOnSet(d, V) \in Int
  <2>1. \A x \in V : f[x] \in Int /\ d[x] \in Int BY <1>4
  <2> HIDE DEF V
  <2> QED BY <1>6, <2>1, SumInt
<1>10. SumFunctionOnSet(g, T) # SumFunctionOnSet(f, T) + SumFunctionOnSet(d, T) BY <1>2
<1>11. /\ SumFunctionOnSet(f, T) = f[p] + SumFunctionOnSet(f, V)
       /\ SumFunctionOnSet(d, T) = d[p] + SumFunctionOnSet(d, V)
       /\ SumFunctionOnSet(g, T) = g[p] + SumFunctionOnSet(g, V)
         BY <1>7
<1> HIDE DEF p, V, Bad
<1> QED BY <1>5, <1>8, <1>9, <1>10, <1>11

\* Amounts that are raised on a part of a set raise the sum by what was added.
THEOREM SumRaised ==
  ASSUME NEW f, NEW d, NEW g, NEW S, IsFiniteSet(S), NEW R \in SUBSET S,
         \A x \in S : f[x] \in Int,
         \A x \in R : d[x] \in Int /\ g[x] = f[x] + d[x],
         \A x \in S \ R : g[x] = f[x]
  PROVE  SumFunctionOnSet(g, S) = SumFunctionOnSet(f, S) + SumFunctionOnSet(d, R)
<1>1. IsFiniteSet(R) /\ IsFiniteSet(S \ R) BY FS_Subset
<1>2. SumFunctionOnSet(g, R) = SumFunctionOnSet(f, R) + SumFunctionOnSet(d, R)
  BY <1>1, SumPlus
<1>3. SumFunctionOnSet(f, S \ R) = SumFunctionOnSet(g, S \ R) BY <1>1, SumSame
<1>4. R \cup (S \ R) = S /\ R \cap (S \ R) = {} OBVIOUS
<1>5. \A x \in S : g[x] \in Int OBVIOUS
<1>6. /\ SumFunctionOnSet(f, S) = SumFunctionOnSet(f, R) + SumFunctionOnSet(f, S \ R)
      /\ SumFunctionOnSet(g, S) = SumFunctionOnSet(g, R) + SumFunctionOnSet(g, S \ R)
  <2>1. \A x \in R \cup (S \ R) : f[x] \in Int /\ g[x] \in Int BY <1>5
  <2> QED BY <1>1, <1>4, <2>1, SumUnion
<1>7. /\ SumFunctionOnSet(f, R) \in Int
      /\ SumFunctionOnSet(d, R) \in Int
      /\ SumFunctionOnSet(f, S \ R) \in Int
        BY <1>1, SumInt
<1> QED BY <1>2, <1>3, <1>6, <1>7
=============================================================================
