--------------------------- MODULE SettlingProofs ---------------------------
(***************************************************************************)
(* The budget of a run and of the executions delegated below it, for every *)
(* hierarchy of accounts, every number of invocations, requests and        *)
(* dimensions and every order of reservations, settlements, cancellations  *)
(* and corrections: the ledger is explained by what is outstanding,        *)
(* nothing is overdrawn, and children spend from their parents.            *)
(*                                                                         *)
(* Sums over finite sets come first: the fold that SumFunctionOnSet is has *)
(* a solution, it does not depend on the order, and it is additive.  Each  *)
(* induction is a search for a least set that breaks the claim.            *)
(***************************************************************************)
EXTENDS MCSettling, FiniteSetTheorems, WellFoundedInduction, TLAPS

-----------------------------------------------------------------------------
(***************************************************************************)
(* Sums over finite sets                                                   *)
(***************************************************************************)

Pick(s) == CHOOSE y \in s : TRUE

\* h gives the sum of f over every subset of S.
SumsOn(h, f, S) ==
  h = [s \in SUBSET S |-> IF s = {} THEN 0 ELSE f[Pick(s)] + h[s \ {Pick(s)}]]

Sums(f, S) == CHOOSE h : SumsOn(h, f, S)

\* The community module's fold is the choice of such a function.
LEMMA SumIsChoice ==
  ASSUME NEW f, NEW S
  PROVE  SumFunctionOnSet(f, S) = Sums(f, S)[S]
PROOF
  BY DEF SumFunctionOnSet, FoldFunctionOnSet, MapThenFoldSet, Sums, SumsOn, Pick

\* A set of subsets of a finite set has a least member.
LEMMA LeastSubset ==
  ASSUME NEW S, IsFiniteSet(S), NEW Bad, Bad \subseteq SUBSET S, Bad # {}
  PROVE  \E m \in Bad : \A y \in Bad : y \subseteq m => y = m
PROOF
  <1>1. IsWellFoundedOn(StrictSubsetOrdering(S), SUBSET S)
    BY FS_StrictSubsetOrderingWellFounded, FS_FiniteSubsetsOfFinite
  <1>2. PICK m \in Bad : \A y \in Bad : ~(<<y, m>> \in StrictSubsetOrdering(S))
    BY <1>1, WFMin
  <1>3. \A y \in Bad : y \subseteq m => y = m
    BY <1>2 DEF StrictSubsetOrdering
  <1> QED BY <1>3

\* The equation has at most one solution.
LEMMA SumsUnique ==
  ASSUME NEW S, IsFiniteSet(S), NEW f, NEW g, NEW h, SumsOn(g, f, S), SumsOn(h, f, S)
  PROVE  g = h
PROOF
  <1>1. SUFFICES ASSUME \E s \in SUBSET S : g[s] # h[s] PROVE FALSE
    BY DEF SumsOn
  <1> DEFINE Bad == {s \in SUBSET S : g[s] # h[s]}
  <1>2. PICK m \in Bad : \A y \in Bad : y \subseteq m => y = m
    <2>1. Bad \subseteq SUBSET S /\ Bad # {}
      BY <1>1
    <2> HIDE DEF Bad
    <2> QED BY <2>1, LeastSubset
  <1>3. m # {}
    BY <1>2 DEF SumsOn
  <1>4. Pick(m) \in m
    BY <1>3 DEF Pick
  <1>5. m \ {Pick(m)} \in SUBSET S /\ g[m \ {Pick(m)}] = h[m \ {Pick(m)}]
    BY <1>2, <1>4
  <1> QED
    BY <1>2, <1>3, <1>5 DEF SumsOn

\* A solution for a set restricts to one for each of its subsets.
LEMMA SumsRestrict ==
  ASSUME NEW S, NEW T, T \subseteq S, NEW f, NEW h, SumsOn(h, f, S)
  PROVE  SumsOn([s \in SUBSET T |-> h[s]], f, T)
PROOF
  <1> DEFINE g == [s \in SUBSET T |-> h[s]]
  <1>1. ASSUME NEW s \in SUBSET T
        PROVE  g[s] = IF s = {} THEN 0 ELSE f[Pick(s)] + g[s \ {Pick(s)}]
    <2>1. s \in SUBSET S /\ s \ {Pick(s)} \in SUBSET T
      OBVIOUS
    <2> QED BY <2>1 DEF SumsOn
  <1>2. g = [s \in SUBSET T |-> IF s = {} THEN 0 ELSE f[Pick(s)] + g[s \ {Pick(s)}]]
    <2> DEFINE k == [s \in SUBSET T |-> IF s = {} THEN 0 ELSE f[Pick(s)] + g[s \ {Pick(s)}]]
    <2>1. \A s \in SUBSET T : g[s] = k[s]
      BY <1>1
    <2>2. g = [s \in SUBSET T |-> g[s]] /\ k = [s \in SUBSET T |-> k[s]]
      OBVIOUS
    <2> HIDE DEF g, k
    <2>3. g = k
      BY <2>1, <2>2
    <2> QED BY <2>3 DEF k
  <1> QED BY <1>2 DEF SumsOn

\* The equation has a solution: a least set without one is solved by what the
\* solutions of its proper subsets say of those.
LEMMA SumsExist ==
  ASSUME NEW S, IsFiniteSet(S), NEW f
  PROVE  SumsOn(Sums(f, S), f, S)
PROOF
  <1>1. SUFFICES \E h : SumsOn(h, f, S)
    BY DEF Sums
  <1> DEFINE Solved(T) == \E h : SumsOn(h, f, T)
             Bad == {T \in SUBSET S : ~Solved(T)}
  <1>2. SUFFICES ASSUME ~Solved(S) PROVE FALSE
    OBVIOUS
  <1>3. PICK m \in Bad : \A y \in Bad : y \subseteq m => y = m
    <2>1. Bad \subseteq SUBSET S /\ Bad # {}
      BY <1>2
    <2> HIDE DEF Bad
    <2> QED BY <2>1, LeastSubset
  <1>4. m \subseteq S /\ ~Solved(m) /\ IsFiniteSet(m)
    BY <1>3, FS_Subset
  <1>5. \A T \in SUBSET m : T # m => SumsOn(Sums(f, T), f, T)
    <2> SUFFICES ASSUME NEW T \in SUBSET m, T # m PROVE SumsOn(Sums(f, T), f, T)
      OBVIOUS
    <2>1. Solved(T)
      BY <1>3
    <2> QED BY <2>1 DEF Sums
  <1> DEFINE low(s) == Sums(f, s)[s]
             value(s) == IF s = {} THEN 0 ELSE f[Pick(s)] + low(s \ {Pick(s)})
             h == [s \in SUBSET m |-> value(s)]
  <1>6. ASSUME NEW s \in SUBSET m, s # m PROVE low(s) = value(s)
    <2>1. SumsOn(Sums(f, s), f, s) /\ IsFiniteSet(s) /\ s \in SUBSET s
      BY <1>4, <1>5, <1>6, FS_Subset
    <2>2. CASE s = {}
      BY <2>1, <2>2 DEF SumsOn
    <2>3. CASE s # {}
      <3> DEFINE t == s \ {Pick(s)}
      <3>1. Pick(s) \in s
        BY <2>3 DEF Pick
      <3>2. t \in SUBSET s /\ t \in SUBSET m /\ t # m /\ IsFiniteSet(t) /\ t \in SUBSET t
        BY <1>6, <2>1, <3>1, FS_Subset
      <3>3. SumsOn(Sums(f, t), f, t)
        BY <1>5, <3>2
      <3>4. SumsOn([u \in SUBSET t |-> Sums(f, s)[u]], f, t)
        <4>1. t \subseteq s /\ SumsOn(Sums(f, s), f, s)
          BY <2>1, <3>2
        <4> HIDE DEF t
        <4> QED BY <4>1, SumsRestrict
      <3>5. Sums(f, t) = [u \in SUBSET t |-> Sums(f, s)[u]]
        BY <3>2, <3>3, <3>4, SumsUnique
      <3>6. Sums(f, t)[t] = Sums(f, s)[t]
        BY <3>2, <3>5
      <3>7. Sums(f, s)[s] = f[Pick(s)] + Sums(f, s)[t]
        BY <2>1, <2>3 DEF SumsOn
      <3> QED BY <2>3, <3>6, <3>7
    <2> QED BY <2>2, <2>3
  <1>7. ASSUME NEW s \in SUBSET m, s # {} PROVE h[s \ {Pick(s)}] = low(s \ {Pick(s)})
    <2>1. Pick(s) \in s
      BY <1>7 DEF Pick
    <2>2. s \ {Pick(s)} \in SUBSET m /\ s \ {Pick(s)} # m
      BY <2>1
    <2>3. low(s \ {Pick(s)}) = value(s \ {Pick(s)})
      BY <1>6, <2>2
    <2> QED BY <2>2, <2>3
  <1>8. SumsOn(h, f, m)
    <2> DEFINE k == [s \in SUBSET m |-> IF s = {} THEN 0 ELSE f[Pick(s)] + h[s \ {Pick(s)}]]
    <2>1. \A s \in SUBSET m : h[s] = k[s]
      <3> SUFFICES ASSUME NEW s \in SUBSET m PROVE h[s] = k[s]
        OBVIOUS
      <3>1. CASE s = {}
        BY <3>1
      <3>2. CASE s # {}
        <4>1. h[s] = f[Pick(s)] + low(s \ {Pick(s)})
          BY <3>2
        <4>2. k[s] = f[Pick(s)] + h[s \ {Pick(s)}]
          BY <3>2
        <4> QED BY <1>7, <3>2, <4>1, <4>2
      <3> QED BY <3>1, <3>2
    <2>2. h = [s \in SUBSET m |-> h[s]] /\ k = [s \in SUBSET m |-> k[s]]
      OBVIOUS
    <2>3. h = k
      <3> HIDE DEF h, k
      <3> QED BY <2>1, <2>2
    <2> HIDE DEF h
    <2> QED BY <2>3 DEF SumsOn
  <1> QED BY <1>4, <1>8

SumOver(f, S) == SumFunctionOnSet(f, S)

\* The sum over the empty set is zero; over another, one term and the rest.
LEMMA SumStep ==
  ASSUME NEW S, IsFiniteSet(S), NEW f
  PROVE  /\ S = {} => SumOver(f, S) = 0
         /\ S # {} => Pick(S) \in S /\ SumOver(f, S) = f[Pick(S)] + SumOver(f, S \ {Pick(S)})
PROOF
  <1>1. SumOver(f, S) = Sums(f, S)[S] /\ SumsOn(Sums(f, S), f, S) /\ S \in SUBSET S
    BY SumIsChoice, SumsExist DEF SumOver
  <1>2. CASE S = {}
    BY <1>1, <1>2 DEF SumsOn
  <1>3. CASE S # {}
    <2> DEFINE T == S \ {Pick(S)}
    <2>1. T \subseteq S /\ IsFiniteSet(T) /\ T \in SUBSET T /\ Pick(S) \in S
      BY <1>3, FS_Subset DEF Pick
    <2>2. Sums(f, T) = [u \in SUBSET T |-> Sums(f, S)[u]]
      <3>1. SumsOn([u \in SUBSET T |-> Sums(f, S)[u]], f, T) /\ SumsOn(Sums(f, T), f, T)
        <4> HIDE DEF T
        <4>1. SumsOn([u \in SUBSET T |-> Sums(f, S)[u]], f, T)
          BY <1>1, <2>1, SumsRestrict
        <4>2. SumsOn(Sums(f, T), f, T)
          BY <2>1, SumsExist
        <4> QED BY <4>1, <4>2
      <3> DEFINE g == [u \in SUBSET T |-> Sums(f, S)[u]]
                 k == Sums(f, T)
      <3>2. SumsOn(g, f, T) /\ SumsOn(k, f, T) /\ IsFiniteSet(T)
        BY <2>1, <3>1
      <3>3. g = k
        <4> HIDE DEF T, g, k
        <4> QED BY <3>2, SumsUnique
      <3> QED BY <3>3
    <2>3. SumOver(f, T) = Sums(f, S)[T]
      BY <2>1, <2>2, SumIsChoice DEF SumOver
    <2>4. Sums(f, S)[S] = f[Pick(S)] + Sums(f, S)[T]
      BY <1>1, <1>3 DEF SumsOn
    <2> QED BY <1>1, <1>3, <2>1, <2>3, <2>4
  <1> QED BY <1>2, <1>3

\* Sums of integers are integers.
LEMMA SumInt ==
  ASSUME NEW S, IsFiniteSet(S), NEW f, \A x \in S : f[x] \in Int
  PROVE  SumOver(f, S) \in Int
PROOF
  <1> DEFINE Bad == {T \in SUBSET S : SumOver(f, T) \notin Int}
  <1>1. SUFFICES ASSUME Bad # {} PROVE FALSE
    OBVIOUS
  <1>2. PICK m \in Bad : \A y \in Bad : y \subseteq m => y = m
    <2>1. Bad \subseteq SUBSET S
      OBVIOUS
    <2> HIDE DEF Bad
    <2> QED BY <1>1, <2>1, LeastSubset
  <1>3. IsFiniteSet(m) /\ m \subseteq S
    BY <1>2, FS_Subset
  <1>4. m # {} /\ Pick(m) \in m /\ SumOver(f, m) = f[Pick(m)] + SumOver(f, m \ {Pick(m)})
    <2>1. SumOver(f, m) \notin Int
      BY <1>2
    <2>2. m # {}
      BY <1>3, <2>1, SumStep
    <2> HIDE DEF Bad
    <2> QED BY <1>3, <2>2, SumStep
  <1>5. SumOver(f, m \ {Pick(m)}) \in Int
    <2> DEFINE n == m \ {Pick(m)}
    <2>1. n \in SUBSET S /\ n \subseteq m /\ n # m
      BY <1>3, <1>4
    <2>2. n \notin Bad
      <3> HIDE DEF n, Bad
      <3> QED BY <1>2, <2>1
    <2> HIDE DEF n
    <2>3. SumOver(f, n) \in Int
      BY <2>1, <2>2
    <2> QED BY <2>3 DEF n
  <1> QED BY <1>2, <1>3, <1>4, <1>5

\* The order of the terms does not matter: any one may be taken first.
LEMMA SumTake ==
  ASSUME NEW S, IsFiniteSet(S), NEW f, \A x \in S : f[x] \in Int, NEW x \in S
  PROVE  SumOver(f, S) = f[x] + SumOver(f, S \ {x})
PROOF
  <1> DEFINE Fails(T) == \E y \in T : SumOver(f, T) # f[y] + SumOver(f, T \ {y})
             Bad == {T \in SUBSET S : Fails(T)}
  <1>1. SUFFICES ASSUME Bad # {} PROVE FALSE
    OBVIOUS
  <1>2. PICK m \in Bad : \A y \in Bad : y \subseteq m => y = m
    <2>1. Bad \subseteq SUBSET S
      OBVIOUS
    <2> HIDE DEF Bad
    <2> QED BY <1>1, <2>1, LeastSubset
  <1>3. m \subseteq S
    BY <1>2
  <1>4. \A T \in SUBSET S : IsFiniteSet(T) /\ SumOver(f, T) \in Int
    BY SumInt, FS_Subset
  <1>5. PICK y \in m : SumOver(f, m) # f[y] + SumOver(f, m \ {y})
    BY <1>2
  <1> DEFINE p == Pick(m)
             rest == (m \ {y}) \ {p}
  <1>6. p \in m /\ SumOver(f, m) = f[p] + SumOver(f, m \ {p})
    BY <1>3, <1>4, <1>5, SumStep
  <1>7. p # y
    BY <1>5, <1>6
  <1>8. ~Fails(m \ {p}) /\ ~Fails(m \ {y})
    <2> DEFINE mp == m \ {p}
               my == m \ {y}
    <2>1. mp \in SUBSET S /\ mp \subseteq m /\ mp # m /\ my \in SUBSET S /\ my \subseteq m /\ my # m
      BY <1>3, <1>6
    <2> HIDE DEF mp, my
    <2>2. mp \notin Bad /\ my \notin Bad
      <3> HIDE DEF Bad
      <3> QED BY <1>2, <2>1
    <2>3. ~Fails(mp) /\ ~Fails(my)
      <3> HIDE DEF Fails
      <3> QED BY <2>1, <2>2
    <2> QED BY <2>3 DEF mp, my
  <1>9. rest = (m \ {p}) \ {y} /\ y \in m \ {p} /\ p \in m \ {y}
    BY <1>6, <1>7
  <1>10. SumOver(f, m \ {p}) = f[y] + SumOver(f, rest)
    BY <1>8, <1>9
  <1>11. SumOver(f, m \ {y}) = f[p] + SumOver(f, rest)
    BY <1>8, <1>9
  <1>12. /\ SumOver(f, rest) \in Int /\ f[y] \in Int /\ f[p] \in Int
    BY <1>3, <1>4, <1>6
  <1> HIDE DEF p, rest
  <1> QED BY <1>5, <1>6, <1>10, <1>11, <1>12

\* Sums add up: f is g plus what h has of it.
LEMMA SumAdd ==
  ASSUME NEW S, IsFiniteSet(S), NEW T, T \subseteq S, NEW f, NEW g, NEW h,
         \A x \in S : f[x] \in Int /\ g[x] \in Int, \A x \in T : h[x] \in Int,
         \A x \in S : f[x] = g[x] + (IF x \in T THEN h[x] ELSE 0)
  PROVE  SumOver(f, S) = SumOver(g, S) + SumOver(h, T)
PROOF
  <1> DEFINE Bad == {U \in SUBSET S : SumOver(f, U) # SumOver(g, U) + SumOver(h, U \cap T)}
  <1>0. S \in SUBSET S /\ S \cap T = T
    OBVIOUS
  <1>1. SUFFICES ASSUME Bad # {} PROVE FALSE
    BY <1>0
  <1>2. PICK m \in Bad : \A y \in Bad : y \subseteq m => y = m
    <2>1. Bad \subseteq SUBSET S
      OBVIOUS
    <2> HIDE DEF Bad
    <2> QED BY <1>1, <2>1, LeastSubset
  <1>3. m \subseteq S /\ SumOver(f, m) # SumOver(g, m) + SumOver(h, m \cap T)
    BY <1>2
  <1>4. \A U \in SUBSET S : IsFiniteSet(U)
    BY FS_Subset
  <1>5. \A U \in SUBSET S : SumOver(f, U) \in Int /\ SumOver(g, U) \in Int
    BY <1>4, SumInt
  <1>6. \A U \in SUBSET T : IsFiniteSet(U) /\ SumOver(h, U) \in Int
    BY <1>4, SumInt
  <1>7. m # {}
    <2>1. ASSUME m = {} PROVE FALSE
      <3>1. IsFiniteSet({}) /\ SumOver(f, {}) = 0 /\ SumOver(g, {}) = 0 /\ SumOver(h, {}) = 0
        BY FS_EmptySet, SumStep
      <3>2. m \cap T = {}
        BY <2>1
      <3> QED BY <1>3, <2>1, <3>1, <3>2
    <2> QED BY <2>1
  <1>8. PICK x \in m : TRUE
    BY <1>7
  <1> DEFINE n == m \ {x}
  <1>9. n \subseteq S /\ x \in S /\ n \subseteq m /\ n # m
    BY <1>3
  <1>10. SumOver(f, n) = SumOver(g, n) + SumOver(h, n \cap T)
    <2>1. n \notin Bad
      BY <1>2, <1>9
    <2> QED BY <1>9, <2>1
  <1>11. SumOver(f, m) = f[x] + SumOver(f, n) /\ SumOver(g, m) = g[x] + SumOver(g, n)
    BY <1>3, <1>4, SumTake
  <1>12. /\ SumOver(f, n) \in Int /\ SumOver(g, n) \in Int /\ SumOver(h, n \cap T) \in Int
         /\ SumOver(h, m \cap T) \in Int /\ f[x] \in Int /\ g[x] \in Int
    <2>1. n \cap T \in SUBSET T /\ m \cap T \in SUBSET T
      OBVIOUS
    <2> HIDE DEF n
    <2> QED BY <1>3, <1>5, <1>6, <1>9, <2>1
  <1>13. CASE x \in T
    <2>1. x \in m \cap T /\ n \cap T = (m \cap T) \ {x} /\ m \cap T \in SUBSET T
      BY <1>13
    <2>2. \A y \in m \cap T : h[y] \in Int
      OBVIOUS
    <2>3. SumOver(h, m \cap T) = h[x] + SumOver(h, n \cap T)
      BY <1>6, <2>1, <2>2, SumTake
    <2>4. f[x] = g[x] + h[x] /\ h[x] \in Int
      BY <1>9, <1>13
    <2> HIDE DEF n
    <2> QED BY <1>3, <1>10, <1>11, <1>12, <2>3, <2>4
  <1>14. CASE x \notin T
    <2>1. n \cap T = m \cap T
      BY <1>14
    <2>2. f[x] = g[x]
      BY <1>9, <1>12, <1>14
    <2> HIDE DEF n
    <2>3. SumOver(f, m) = SumOver(g, m) + SumOver(h, n \cap T)
      BY <1>10, <1>11, <1>12, <2>2
    <2>4. SumOver(h, n \cap T) = SumOver(h, m \cap T)
      BY <2>1
    <2> QED BY <1>3, <2>3, <2>4
  <1> QED BY <1>13, <1>14

\* Sums of nothing are nothing.
LEMMA SumZero ==
  ASSUME NEW S, IsFiniteSet(S), NEW f, \A x \in S : f[x] = 0
  PROVE  SumOver(f, S) = 0
PROOF
  <1>1. SumOver(f, S) = SumOver(f, S) + SumOver(f, S)
    BY SumAdd
  <1> QED BY <1>1, SumInt

\* Functions that agree on a set have the same sum over it.
LEMMA SumSame ==
  ASSUME NEW S, IsFiniteSet(S), NEW f, NEW g, \A x \in S : f[x] \in Int /\ f[x] = g[x]
  PROVE  SumOver(f, S) = SumOver(g, S)
PROOF
  <1>1. IsFiniteSet({}) /\ SumOver(f, {}) = 0
    BY FS_EmptySet, SumStep
  <1>2. SumOver(f, S) = SumOver(g, S) + SumOver(f, {})
    BY SumAdd
  <1>3. SumOver(g, S) \in Int
    BY SumInt
  <1> QED BY <1>1, <1>2, <1>3

\* Sums of naturals are not negative.
LEMMA SumNat ==
  ASSUME NEW S, IsFiniteSet(S), NEW f, \A x \in S : f[x] \in Nat
  PROVE  SumOver(f, S) \in Nat
PROOF
  <1> DEFINE Bad == {T \in SUBSET S : SumOver(f, T) \notin Nat}
  <1>1. SUFFICES ASSUME Bad # {} PROVE FALSE
    OBVIOUS
  <1>2. PICK m \in Bad : \A y \in Bad : y \subseteq m => y = m
    <2>1. Bad \subseteq SUBSET S
      OBVIOUS
    <2> HIDE DEF Bad
    <2> QED BY <1>1, <2>1, LeastSubset
  <1>3. IsFiniteSet(m) /\ m \subseteq S
    BY <1>2, FS_Subset
  <1>4. m # {} /\ Pick(m) \in m /\ SumOver(f, m) = f[Pick(m)] + SumOver(f, m \ {Pick(m)})
    <2>1. SumOver(f, m) \notin Nat
      BY <1>2
    <2>2. m # {}
      BY <1>3, <2>1, SumStep
    <2> HIDE DEF Bad
    <2> QED BY <1>3, <2>2, SumStep
  <1>5. SumOver(f, m \ {Pick(m)}) \in Nat
    <2> DEFINE n == m \ {Pick(m)}
    <2>1. n \in SUBSET S /\ n \subseteq m /\ n # m
      BY <1>3, <1>4
    <2>2. n \notin Bad
      <3> HIDE DEF n, Bad
      <3> QED BY <1>2, <2>1
    <2> HIDE DEF n
    <2>3. SumOver(f, n) \in Nat
      BY <2>1, <2>2
    <2> QED BY <2>3 DEF n
  <1> QED BY <1>2, <1>3, <1>4, <1>5

\* A sum over a part of a set is the sum over the set of what is in the part.
LEMMA SumPart ==
  ASSUME NEW S, IsFiniteSet(S), NEW T, T \subseteq S, NEW f, \A x \in S : f[x] \in Int
  PROVE  SumOver(f, T) = SumOver([x \in S |-> IF x \in T THEN f[x] ELSE 0], S)
PROOF
  <1> DEFINE g == [x \in S |-> IF x \in T THEN f[x] ELSE 0]
             z == [x \in S |-> 0]
  <1>1. \A x \in S : g[x] \in Int /\ z[x] \in Int /\ z[x] = 0 /\ g[x] = z[x] + (IF x \in T THEN f[x] ELSE 0)
    OBVIOUS
  <1> HIDE DEF g, z
  <1>2. SumOver(g, S) = SumOver(z, S) + SumOver(f, T)
    BY <1>1, SumAdd
  <1>3. SumOver(z, S) = 0
    BY <1>1, SumZero
  <1>4. SumOver(f, T) \in Int
    BY FS_Subset, SumInt
  <1> QED BY <1>2, <1>3, <1>4 DEF g

\* From the terms of f in S to those of g in V, what changes is k in T.
Moves(U, S, V, T, f, g, k) ==
  /\ IsFiniteSet(U) /\ S \subseteq U /\ V \subseteq U /\ T \subseteq U
  /\ \A x \in U : f[x] \in Int /\ g[x] \in Int /\ k[x] \in Int
  /\ \A x \in U : (IF x \in V THEN g[x] ELSE 0)
                  = (IF x \in S THEN f[x] ELSE 0) + (IF x \in T THEN k[x] ELSE 0)

\* What changes between two sums is the sum of what changes between their terms.
LEMMA SumMove ==
  ASSUME NEW U, NEW S, NEW V, NEW T, NEW f, NEW g, NEW k, Moves(U, S, V, T, f, g, k)
  PROVE  /\ SumOver(g, V) = SumOver(f, S) + SumOver(k, T)
         /\ SumOver(g, V) \in Int /\ SumOver(f, S) \in Int /\ SumOver(k, T) \in Int
PROOF
  <1> USE DEF Moves
  <1> DEFINE fs == [x \in U |-> IF x \in S THEN f[x] ELSE 0]
             gv == [x \in U |-> IF x \in V THEN g[x] ELSE 0]
  <1>1. SumOver(f, S) = SumOver(fs, U)
    BY SumPart
  <1>2. SumOver(g, V) = SumOver(gv, U)
    BY SumPart
  <1>3. \A x \in U : fs[x] \in Int /\ gv[x] \in Int
    OBVIOUS
  <1>4. \A x \in U : gv[x] = fs[x] + (IF x \in T THEN k[x] ELSE 0)
    OBVIOUS
  <1>5. \A x \in T : k[x] \in Int
    OBVIOUS
  <1> HIDE DEF fs, gv
  <1>6. SumOver(gv, U) = SumOver(fs, U) + SumOver(k, T)
    BY <1>3, <1>4, <1>5, SumAdd
  <1>7. IsFiniteSet(T)
    BY FS_Subset
  <1>8. SumOver(gv, U) \in Int /\ SumOver(fs, U) \in Int
    BY <1>3, SumInt
  <1>9. SumOver(k, T) \in Int
    BY <1>5, <1>7, SumInt
  <1> QED BY <1>1, <1>2, <1>6, <1>8, <1>9

\* The terms of f in S are those of g in V; or all but the one at y are.
Agree(U, S, V, f, g) ==
  /\ IsFiniteSet(U) /\ S \subseteq U /\ V \subseteq U
  /\ \A x \in U : f[x] \in Int /\ g[x] \in Int
  /\ \A x \in U : (IF x \in V THEN g[x] ELSE 0) = (IF x \in S THEN f[x] ELSE 0)

AgreeBut(U, S, V, f, g, y, c) ==
  /\ IsFiniteSet(U) /\ S \subseteq U /\ V \subseteq U /\ y \in U /\ c \in Int
  /\ \A x \in U : f[x] \in Int /\ g[x] \in Int
  /\ \A x \in U : (IF x \in V THEN g[x] ELSE 0)
                  = (IF x \in S THEN f[x] ELSE 0) + (IF x = y THEN c ELSE 0)

\* Two sums whose terms agree are equal.
LEMMA SumStays ==
  ASSUME NEW U, NEW S, NEW V, NEW f, NEW g, Agree(U, S, V, f, g)
  PROVE  SumOver(g, V) = SumOver(f, S) /\ SumOver(f, S) \in Int
PROOF
  <1> USE DEF Agree
  <1>1. IsFiniteSet({}) /\ SumOver(f, {}) = 0
    BY FS_EmptySet, SumStep
  <1> DEFINE T == {}
  <1>2. T \subseteq U /\ SumOver(f, T) = 0
    BY <1>1
  <1>3. \A x \in U : (IF x \in V THEN g[x] ELSE 0)
                     = (IF x \in S THEN f[x] ELSE 0) + (IF x \in T THEN f[x] ELSE 0)
    OBVIOUS
  <1> HIDE DEF T
  <1>4. Moves(U, S, V, T, f, g, f)
    BY <1>2, <1>3 DEF Moves
  <1>5. /\ SumOver(g, V) = SumOver(f, S) + SumOver(f, T)
        /\ SumOver(g, V) \in Int /\ SumOver(f, S) \in Int
    BY <1>4, SumMove
  <1> QED BY <1>2, <1>5

\* Two sums of which one term differs differ by that.
LEMMA SumMovesOne ==
  ASSUME NEW U, NEW S, NEW V, NEW f, NEW g, NEW y, NEW c, AgreeBut(U, S, V, f, g, y, c)
  PROVE  SumOver(g, V) = SumOver(f, S) + c /\ SumOver(f, S) \in Int
PROOF
  <1> USE DEF AgreeBut
  <1> DEFINE k == [x \in U |-> c]
             T == {y}
  <1>1. /\ T \subseteq U /\ \A x \in U : k[x] \in Int
        /\ \A x \in U : (IF x \in V THEN g[x] ELSE 0)
                        = (IF x \in S THEN f[x] ELSE 0) + (IF x \in T THEN k[x] ELSE 0)
    OBVIOUS
  <1>2. k[y] = c /\ y \in T /\ IsFiniteSet(T)
    BY FS_Singleton
  <1>3. SumOver(k, T \ {y}) = 0
    <2>1. T \ {y} = {}
      OBVIOUS
    <2>2. IsFiniteSet({}) /\ SumOver(k, {}) = 0
      BY FS_EmptySet, SumStep
    <2> HIDE DEF T, k
    <2> QED BY <2>1, <2>2
  <1> HIDE DEF k, T
  <1>4. \A x \in T : k[x] \in Int
    BY <1>1
  <1>5. SumOver(k, T) = k[y] + SumOver(k, T \ {y})
    BY <1>2, <1>4, SumTake
  <1>6. SumOver(k, T) = c
    BY <1>2, <1>3, <1>5
  <1>7. SumOver(g, V) = SumOver(f, S) + SumOver(k, T) /\ SumOver(f, S) \in Int
    <2>1. Moves(U, S, V, T, f, g, k)
      BY <1>1 DEF Moves
    <2> QED BY <2>1, SumMove
  <1> QED BY <1>6, <1>7

-----------------------------------------------------------------------------
(***************************************************************************)
(* Chains of accounts                                                      *)
(***************************************************************************)

AccountTable == [Accounts -> [open : BOOLEAN, parent : Accounts \cup {NoAccount}, ceiling : Amounts]]

UpIn(acc, S) == \A b \in S : acc[b].parent \in S \cup {NoAccount}
ChainIn(acc, a) == {b \in Accounts : \A S \in SUBSET Accounts : a \in S /\ UpIn(acc, S) => b \in S}

\* An account that was never opened has no parent; the parent of an open
\* account is open.
Hierarchy(acc) ==
  /\ acc \in AccountTable
  /\ \A a \in Accounts : ~acc[a].open => acc[a] = Closed
  /\ \A a \in Accounts : acc[a].open =>
       acc[a].parent = NoAccount \/ (acc[a].parent \in Accounts /\ acc[acc[a].parent].open)

LEMMA ChainIs == \A a : Chain(a) = ChainIn(account, a) /\ Chain(a)' = ChainIn(account', a)
PROOF BY DEF Chain, ChainIn, HasParents, UpIn

LEMMA ChainSelf ==
  ASSUME NEW acc, NEW a \in Accounts
  PROVE  a \in ChainIn(acc, a) /\ ChainIn(acc, a) \subseteq Accounts
PROOF BY DEF ChainIn

\* A chain has the parents of its members.
LEMMA ChainUp ==
  ASSUME NEW acc, acc \in AccountTable, NEW a
  PROVE  UpIn(acc, ChainIn(acc, a))
PROOF
  <1>1. SUFFICES ASSUME NEW b \in ChainIn(acc, a), acc[b].parent # NoAccount
                 PROVE  acc[b].parent \in ChainIn(acc, a)
    BY DEF UpIn
  <1>2. b \in Accounts /\ acc[b].parent \in Accounts
    BY <1>1 DEF ChainIn, AccountTable
  <1>3. ASSUME NEW S \in SUBSET Accounts, a \in S, UpIn(acc, S) PROVE acc[b].parent \in S
    <2>1. b \in S
      BY <1>1, <1>3 DEF ChainIn
    <2> QED BY <1>1, <1>3, <2>1 DEF UpIn
  <1> QED BY <1>2, <1>3 DEF ChainIn

\* It is the least such set.
LEMMA ChainLeast ==
  ASSUME NEW acc, NEW a, NEW S \in SUBSET Accounts, a \in S, UpIn(acc, S)
  PROVE  ChainIn(acc, a) \subseteq S
PROOF BY DEF ChainIn

\* An account without a parent is alone in its chain; below another the chain
\* is the account and the chain of its parent.
LEMMA ChainBelow ==
  ASSUME NEW acc, acc \in AccountTable, NEW a \in Accounts
  PROVE  ChainIn(acc, a) = {a} \cup (IF acc[a].parent = NoAccount THEN {} ELSE ChainIn(acc, acc[a].parent))
PROOF
  <1> DEFINE p == acc[a].parent
             Above == IF p = NoAccount THEN {} ELSE ChainIn(acc, p)
  <1>1. ChainIn(acc, a) \subseteq {a} \cup Above
    <2>1. UpIn(acc, {a} \cup Above)
      <3>1. CASE p = NoAccount
        BY <3>1 DEF UpIn
      <3>2. CASE p # NoAccount
        <4>1. p \in Accounts
          BY <3>2 DEF AccountTable
        <4>2. p \in ChainIn(acc, p) /\ UpIn(acc, ChainIn(acc, p))
          BY <4>1, ChainSelf, ChainUp
        <4> HIDE DEF p
        <4>3. \A b \in ChainIn(acc, p) : acc[b].parent \in ChainIn(acc, p) \cup {NoAccount}
          BY <4>2 DEF UpIn
        <4>4. acc[a].parent \in ChainIn(acc, p)
          BY <4>2 DEF p
        <4>5. Above = ChainIn(acc, p)
          BY <3>2
        <4> HIDE DEF Above
        <4> QED BY <4>3, <4>4, <4>5 DEF UpIn
      <3> QED BY <3>1, <3>2
    <2>2. {a} \cup Above \in SUBSET Accounts /\ a \in {a} \cup Above
      BY DEF ChainIn
    <2> HIDE DEF Above
    <2> QED BY <2>1, <2>2, ChainLeast
  <1>2. a \in ChainIn(acc, a) /\ ChainIn(acc, a) \subseteq Accounts
    BY ChainSelf
  <1>3. Above \subseteq ChainIn(acc, a)
    <2>1. CASE p = NoAccount
      BY <2>1
    <2>2. CASE p # NoAccount
      <3>1. UpIn(acc, ChainIn(acc, a))
        BY ChainUp
      <3>2. p \in ChainIn(acc, a)
        BY <1>2, <2>2, <3>1 DEF UpIn
      <3> HIDE DEF p
      <3>3. ChainIn(acc, p) \subseteq ChainIn(acc, a)
        BY <1>2, <3>1, <3>2, ChainLeast
      <3> QED BY <3>3
    <2> QED BY <2>1, <2>2
  <1> HIDE DEF p
  <1> QED BY <1>1, <1>2, <1>3 DEF p

\* A closed account is alone in its chain; the chain of an open one is open.
LEMMA ChainOpen ==
  ASSUME NEW acc, Hierarchy(acc), NEW a \in Accounts
  PROVE  /\ ~acc[a].open => ChainIn(acc, a) = {a}
         /\ acc[a].open => \A b \in ChainIn(acc, a) : acc[b].open
PROOF
  <1>1. ASSUME ~acc[a].open PROVE ChainIn(acc, a) = {a}
    <2>1. acc[a].parent = NoAccount
      BY <1>1 DEF Hierarchy, Closed
    <2> QED BY <2>1, ChainBelow DEF Hierarchy
  <1>2. ASSUME acc[a].open PROVE \A b \in ChainIn(acc, a) : acc[b].open
    <2> DEFINE Up == {b \in Accounts : acc[b].open}
    <2>1. UpIn(acc, Up) /\ a \in Up /\ Up \in SUBSET Accounts
      BY <1>2 DEF Hierarchy, UpIn
    <2> HIDE DEF Up
    <2>2. ChainIn(acc, a) \subseteq Up
      BY <2>1, ChainLeast
    <2> QED BY <2>2 DEF Up
  <1> QED BY <1>1, <1>2

\* The account e is opened below p, which is open, or as a root.
Opens(acc, new, e, p, ceiling) ==
  /\ ~acc[e].open /\ ceiling \in Amounts
  /\ p = NoAccount \/ (p \in Accounts /\ acc[p].open)
  /\ new = [acc EXCEPT ![e] = [open |-> TRUE, parent |-> p, ceiling |-> ceiling]]

LEMMA HierarchyGrows ==
  ASSUME NEW acc, Hierarchy(acc), NEW new, NEW e \in Accounts, NEW p, NEW ceiling,
         Opens(acc, new, e, p, ceiling)
  PROVE  /\ Hierarchy(new) /\ new[e].open /\ new[e].parent = p /\ new[e].ceiling = ceiling
         /\ \A a \in Accounts \ {e} : new[a] = acc[a]
PROOF
  <1>1. /\ new \in AccountTable
        /\ new[e] = [open |-> TRUE, parent |-> p, ceiling |-> ceiling]
        /\ \A a \in Accounts \ {e} : new[a] = acc[a]
    BY DEF Opens, Hierarchy, AccountTable
  <1>2. p = NoAccount \/ (p \in Accounts \ {e} /\ acc[p].open)
    BY DEF Opens
  <1>3. ASSUME NEW a \in Accounts, new[a].open
        PROVE  new[a].parent = NoAccount \/ (new[a].parent \in Accounts /\ new[new[a].parent].open)
    <2>1. CASE a = e
      BY <1>1, <1>2, <2>1
    <2>2. CASE a # e
      BY <1>1, <1>3, <2>2 DEF Hierarchy
    <2> QED BY <2>1, <2>2
  <1>4. \A a \in Accounts : ~new[a].open => new[a] = Closed
    BY <1>1 DEF Hierarchy
  <1> QED BY <1>1, <1>3, <1>4 DEF Hierarchy

\* Opening an account leaves the chains of the others as they were.
LEMMA ChainsStand ==
  ASSUME NEW acc, Hierarchy(acc), NEW new, NEW e \in Accounts, NEW p, NEW ceiling,
         Opens(acc, new, e, p, ceiling)
  PROVE  /\ \A b \in Accounts \ {e} : ChainIn(new, b) = ChainIn(acc, b)
         /\ ChainIn(new, e) = {e} \cup (IF p = NoAccount THEN {} ELSE ChainIn(acc, p))
PROOF
  <1>1. /\ Hierarchy(new) /\ new[e].parent = p /\ acc \in AccountTable /\ new \in AccountTable
        /\ \A a \in Accounts \ {e} : new[a] = acc[a]
    <2>1. /\ Hierarchy(new) /\ new[e].parent = p
          /\ \A a \in Accounts \ {e} : new[a] = acc[a]
      BY HierarchyGrows
    <2>2. acc \in AccountTable /\ new \in AccountTable
      BY <2>1 DEF Hierarchy
    <2> QED BY <2>1, <2>2
  <1> DEFINE Up == {b \in Accounts : acc[b].open}
  <1>2. e \notin Up /\ \A b \in Up : new[b] = acc[b] /\ acc[b].parent \in Up \cup {NoAccount}
    BY <1>1 DEF Opens, Hierarchy
  <1>3. ASSUME NEW b \in Accounts \ {e} PROVE ChainIn(new, b) = ChainIn(acc, b)
    <2>1. CASE ~acc[b].open
      <3>1. ChainIn(acc, b) = {b}
        BY <2>1, ChainOpen
      <3>2. ~new[b].open
        BY <1>1, <2>1
      <3> QED BY <1>1, <3>1, <3>2, ChainOpen
    <2>2. CASE acc[b].open
      <3>1. b \in Up
        BY <2>2
      <3>2. ASSUME NEW S \in SUBSET Accounts, b \in S, UpIn(acc, S) \/ UpIn(new, S)
            PROVE  UpIn(acc, S \cap Up) /\ UpIn(new, S \cap Up) /\ b \in S \cap Up
                   /\ S \cap Up \in SUBSET Accounts
        <4> HIDE DEF Up
        <4>1. \A x \in S \cap Up : acc[x].parent \in (S \cap Up) \cup {NoAccount} /\ new[x] = acc[x]
          BY <1>2, <3>2 DEF UpIn
        <4>2. UpIn(acc, S \cap Up)
          BY <4>1 DEF UpIn
        <4>3. UpIn(new, S \cap Up)
          BY <4>1 DEF UpIn
        <4> QED BY <3>1, <3>2, <4>2, <4>3
      <3> HIDE DEF Up
      <3>3. ChainIn(new, b) \subseteq ChainIn(acc, b)
        <4> DEFINE S == ChainIn(acc, b)
        <4>1. S \in SUBSET Accounts /\ b \in S /\ UpIn(acc, S)
          BY <1>1, ChainSelf, ChainUp
        <4> HIDE DEF S
        <4>2. UpIn(new, S \cap Up) /\ b \in S \cap Up /\ S \cap Up \in SUBSET Accounts
          BY <3>2, <4>1
        <4>3. ChainIn(new, b) \subseteq S \cap Up
          BY <4>2, ChainLeast
        <4> QED BY <4>3 DEF S
      <3>4. ChainIn(acc, b) \subseteq ChainIn(new, b)
        <4> DEFINE S == ChainIn(new, b)
        <4>1. S \in SUBSET Accounts /\ b \in S /\ UpIn(new, S)
          BY <1>1, ChainSelf, ChainUp
        <4> HIDE DEF S
        <4>2. UpIn(acc, S \cap Up) /\ b \in S \cap Up /\ S \cap Up \in SUBSET Accounts
          BY <3>2, <4>1
        <4>3. ChainIn(acc, b) \subseteq S \cap Up
          BY <4>2, ChainLeast
        <4> QED BY <4>3 DEF S
      <3> QED BY <3>3, <3>4
    <2> QED BY <2>1, <2>2
  <1>4. ChainIn(new, e) = {e} \cup (IF p = NoAccount THEN {} ELSE ChainIn(new, p))
    BY <1>1, ChainBelow
  <1>5. p # NoAccount => p \in Accounts \ {e}
    BY DEF Opens
  <1> QED BY <1>3, <1>4, <1>5

-----------------------------------------------------------------------------
(***************************************************************************)
(* What an account's ledger is the sum of                                  *)
(***************************************************************************)

Corrected == [Accounts -> [Dims -> Int]]
Reservations == [Work -> [Dims ->
  [status : ReservationStatus, amount : Nat, committed : Nat, released : Nat]]]

\* The corrections at and below an account, and what the invocations at and
\* below it hold.
Correction(adj, a, d) == [b \in Accounts |-> IF b = a THEN adj[b][d] ELSE -adj[b][d]]
Holding(rv, d) == [w \in Work |-> rv[w][d].amount - rv[w][d].released]
BelowOf(acc, a) == {b \in Accounts : a \in ChainIn(acc, b)}
WorkBelow(acc, a) == {w \in Work : a \in ChainIn(acc, OwnerOf[w])}

CorrectedBy(adj, acc, a, d) == SumOver(Correction(adj, a, d), BelowOf(acc, a))
HeldBy(rv, acc, a, d) == SumOver(Holding(rv, d), WorkBelow(acc, a))

LEMMA ExplainedIs ==
  /\ LedgerExplained <=> \A a \in Accounts, d \in Dims :
       ledger[a][d] = CorrectedBy(adjusted, account, a, d) - HeldBy(resv, account, a, d)
  /\ LedgerExplained' <=> \A a \in Accounts, d \in Dims :
       ledger'[a][d] = CorrectedBy(adjusted', account', a, d) - HeldBy(resv', account', a, d)
PROOF
  <1>1. \A w \in Work : OwnerOf[w] \in Accounts
    BY BudgetAssumption DEF Accounts
  <1>2. \A a : Chain(a) = ChainIn(account, a) /\ Chain(a)' = ChainIn(account', a)
    BY ChainIs
  <1>3. \A a \in Accounts :
          /\ {w \in Work : a \in [c \in Accounts |-> Chain(c)][OwnerOf[w]]} = WorkBelow(account, a)
          /\ {b \in Accounts : a \in [c \in Accounts |-> Chain(c)][b]} = BelowOf(account, a)
    BY <1>1, <1>2 DEF WorkBelow, BelowOf
  <1>4. \A a \in Accounts :
          /\ {w \in Work : a \in [c \in Accounts |-> Chain(c)'][OwnerOf[w]]} = WorkBelow(account', a)
          /\ {b \in Accounts : a \in [c \in Accounts |-> Chain(c)'][b]} = BelowOf(account', a)
    BY <1>1, <1>2 DEF WorkBelow, BelowOf
  <1>5. LedgerExplained <=> \A a \in Accounts, d \in Dims :
          ledger[a][d] = CorrectedBy(adjusted, account, a, d) - HeldBy(resv, account, a, d)
    <2> DEFINE chain == [c \in Accounts |-> Chain(c)]
               C(a, d) == SumFunctionOnSet(
                 [b \in Accounts |-> IF b = a THEN adjusted[b][d] ELSE -adjusted[b][d]], {b \in Accounts : a \in chain[b]})
               H(a, d) == SumFunctionOnSet([w \in Work |-> Outstanding(w, d)], {w \in Work : a \in chain[OwnerOf[w]]})
    <2>1. \A a \in Accounts, d \in Dims : C(a, d) = CorrectedBy(adjusted, account, a, d)
      BY <1>3 DEF CorrectedBy, SumOver, Correction
    <2>2. \A a \in Accounts, d \in Dims : H(a, d) = HeldBy(resv, account, a, d)
      BY <1>3 DEF HeldBy, SumOver, Holding, Outstanding
    <2>3. LedgerExplained <=> \A a \in Accounts, d \in Dims : ledger[a][d] = C(a, d) - H(a, d)
      BY DEF LedgerExplained
    <2> HIDE DEF C, H
    <2> QED BY <2>1, <2>2, <2>3
  <1>6. LedgerExplained' <=> \A a \in Accounts, d \in Dims :
          ledger'[a][d] = CorrectedBy(adjusted', account', a, d) - HeldBy(resv', account', a, d)
    <2> DEFINE chain == [c \in Accounts |-> Chain(c)']
               C(a, d) == SumFunctionOnSet(
                 [b \in Accounts |-> IF b = a THEN adjusted'[b][d] ELSE -adjusted'[b][d]], {b \in Accounts : a \in chain[b]})
               H(a, d) == SumFunctionOnSet([w \in Work |-> Outstanding(w, d)'], {w \in Work : a \in chain[OwnerOf[w]]})
    <2>1. \A a \in Accounts, d \in Dims : C(a, d) = CorrectedBy(adjusted', account', a, d)
      BY <1>4 DEF CorrectedBy, SumOver, Correction
    <2>2. \A a \in Accounts, d \in Dims : H(a, d) = HeldBy(resv', account', a, d)
      BY <1>4 DEF HeldBy, SumOver, Holding, Outstanding
    <2>3. LedgerExplained' <=> \A a \in Accounts, d \in Dims : ledger'[a][d] = C(a, d) - H(a, d)
      BY DEF LedgerExplained
    <2> HIDE DEF C, H
    <2> QED BY <2>1, <2>2, <2>3
  <1> QED BY <1>5, <1>6

\* Opening an account at or below which nothing was corrected or reserved
\* changes no sum.
LEMMA OpeningKeepsSums ==
  ASSUME NEW acc, Hierarchy(acc), NEW new, NEW e \in Accounts, NEW p, NEW ceiling,
         Opens(acc, new, e, p, ceiling),
         NEW adj \in Corrected, adj[e] = Zero, NEW rv \in Reservations,
         \A w \in Work, d \in Dims : OwnerOf[w] = e => rv[w][d] = NoReservation,
         NEW a \in Accounts, NEW d \in Dims
  PROVE  /\ CorrectedBy(adj, new, a, d) = CorrectedBy(adj, acc, a, d)
         /\ HeldBy(rv, new, a, d) = HeldBy(rv, acc, a, d)
PROOF
  <1>1. \A b \in Accounts \ {e} : ChainIn(new, b) = ChainIn(acc, b)
    BY ChainsStand
  <1>2. IsFiniteSet(Accounts) /\ IsFiniteSet(Work) /\ \A w \in Work : OwnerOf[w] \in Accounts
    BY BudgetAssumption DEF Accounts
  <1>3. CorrectedBy(adj, new, a, d) = CorrectedBy(adj, acc, a, d)
    <2> DEFINE f == Correction(adj, a, d)
               S == BelowOf(acc, a)
               V == BelowOf(new, a)
    <2>1. \A x \in Accounts : f[x] \in Int
      BY DEF Correction, Corrected
    <2>2. f[e] = 0
      BY DEF Correction, Zero
    <2>3. S \subseteq Accounts /\ V \subseteq Accounts /\ \A x \in Accounts \ {e} : x \in V <=> x \in S
      BY <1>1 DEF BelowOf
    <2> HIDE DEF f, S, V
    <2>4. \A x \in Accounts : (IF x \in V THEN f[x] ELSE 0) = (IF x \in S THEN f[x] ELSE 0)
      BY <2>2, <2>3
    <2>5. Agree(Accounts, S, V, f, f)
      BY <1>2, <2>1, <2>3, <2>4 DEF Agree
    <2>6. SumOver(f, V) = SumOver(f, S)
      BY <2>5, SumStays
    <2> QED BY <2>6 DEF f, S, V, CorrectedBy
  <1>4. HeldBy(rv, new, a, d) = HeldBy(rv, acc, a, d)
    <2> DEFINE f == Holding(rv, d)
               S == WorkBelow(acc, a)
               V == WorkBelow(new, a)
    <2>1. \A x \in Work : f[x] \in Int
      BY DEF Holding, Reservations
    <2>2. \A x \in Work : OwnerOf[x] = e => f[x] = 0
      BY DEF Holding, NoReservation
    <2>3. S \subseteq Work /\ V \subseteq Work /\ \A x \in Work : OwnerOf[x] # e => (x \in V <=> x \in S)
      BY <1>1, <1>2 DEF WorkBelow
    <2> HIDE DEF f, S, V
    <2>4. \A x \in Work : (IF x \in V THEN f[x] ELSE 0) = (IF x \in S THEN f[x] ELSE 0)
      BY <2>2, <2>3
    <2>5. Agree(Work, S, V, f, f)
      BY <1>2, <2>1, <2>3, <2>4 DEF Agree
    <2>6. SumOver(f, V) = SumOver(f, S)
      BY <2>5, SumStays
    <2> QED BY <2>6 DEF f, S, V, HeldBy
  <1> QED BY <1>3, <1>4

\* What one invocation holds more, every account of its chain holds more.
LEMMA HoldingMovesOne ==
  ASSUME NEW acc, NEW rv \in Reservations, NEW new \in Reservations, NEW w \in Work, NEW d \in Dims,
         NEW c \in Int, \A x \in Work \ {w} : new[x][d] = rv[x][d],
         new[w][d].amount - new[w][d].released = rv[w][d].amount - rv[w][d].released + c,
         NEW a
  PROVE  /\ HeldBy(new, acc, a, d) = HeldBy(rv, acc, a, d) + (IF a \in ChainIn(acc, OwnerOf[w]) THEN c ELSE 0)
         /\ HeldBy(rv, acc, a, d) \in Int
PROOF
  <1> DEFINE f == Holding(rv, d)
             g == Holding(new, d)
             S == WorkBelow(acc, a)
             k == IF a \in ChainIn(acc, OwnerOf[w]) THEN c ELSE 0
  <1>1. \A x \in Work : f[x] \in Int /\ g[x] \in Int
    BY DEF Holding, Reservations
  <1>2. g[w] = f[w] + c /\ \A x \in Work \ {w} : g[x] = f[x]
    BY DEF Holding
  <1>3. S \subseteq Work /\ k \in Int /\ k = (IF w \in S THEN c ELSE 0)
    BY DEF WorkBelow
  <1> HIDE DEF f, g, S, k
  <1>4. \A x \in Work : (IF x \in S THEN g[x] ELSE 0)
                       = (IF x \in S THEN f[x] ELSE 0) + (IF x = w THEN k ELSE 0)
    BY <1>1, <1>2, <1>3
  <1>5. AgreeBut(Work, S, S, f, g, w, k)
    BY <1>1, <1>3, <1>4, BudgetAssumption DEF AgreeBut
  <1>6. SumOver(g, S) = SumOver(f, S) + k /\ SumOver(f, S) \in Int
    BY <1>5, SumMovesOne
  <1> QED BY <1>6 DEF f, g, S, k, HeldBy

\* A correction of an account shows in it and, with the opposite sign, above it.
LEMMA CorrectionMovesOne ==
  ASSUME NEW acc, NEW adj \in Corrected, NEW b \in Accounts, NEW d \in Dims, NEW delta \in Int,
         NEW new \in Corrected, new[b][d] = adj[b][d] + delta,
         \A x \in Accounts \ {b} : new[x][d] = adj[x][d], NEW a \in Accounts
  PROVE  /\ CorrectedBy(new, acc, a, d) = CorrectedBy(adj, acc, a, d)
              + (IF a \in ChainIn(acc, b) THEN (IF a = b THEN delta ELSE -delta) ELSE 0)
         /\ CorrectedBy(adj, acc, a, d) \in Int
PROOF
  <1> DEFINE f == Correction(adj, a, d)
             g == Correction(new, a, d)
             S == BelowOf(acc, a)
             s == IF a = b THEN delta ELSE -delta
             k == IF a \in ChainIn(acc, b) THEN s ELSE 0
  <1>1. \A x \in Accounts : f[x] \in Int /\ g[x] \in Int
    BY DEF Correction, Corrected
  <1>2. g[b] = f[b] + s /\ s \in Int
    BY DEF Correction, Corrected
  <1>3. \A x \in Accounts \ {b} : g[x] = f[x]
    BY DEF Correction
  <1>4. S \subseteq Accounts /\ k \in Int /\ k = (IF b \in S THEN s ELSE 0)
    BY DEF BelowOf
  <1> HIDE DEF f, g, S, s, k
  <1>5. \A x \in Accounts : (IF x \in S THEN g[x] ELSE 0)
                       = (IF x \in S THEN f[x] ELSE 0) + (IF x = b THEN k ELSE 0)
    BY <1>1, <1>2, <1>3, <1>4
  <1>6. AgreeBut(Accounts, S, S, f, g, b, k)
    BY <1>1, <1>4, <1>5, BudgetAssumption DEF AgreeBut
  <1>7. SumOver(g, S) = SumOver(f, S) + k /\ SumOver(f, S) \in Int
    BY <1>6, SumMovesOne
  <1> QED BY <1>7 DEF f, g, S, s, k, CorrectedBy

\* Every sum is an integer.
LEMMA SumsAreInt ==
  ASSUME NEW acc, NEW adj \in Corrected, NEW rv \in Reservations, NEW a \in Accounts, NEW d \in Dims
  PROVE  CorrectedBy(adj, acc, a, d) \in Int /\ HeldBy(rv, acc, a, d) \in Int
PROOF
  <1> DEFINE f == Correction(adj, a, d)
             g == Holding(rv, d)
             S == BelowOf(acc, a)
             V == WorkBelow(acc, a)
  <1>1. (\A x \in S : f[x] \in Int) /\ (\A x \in V : g[x] \in Int)
    BY DEF Correction, Corrected, BelowOf, Holding, Reservations, WorkBelow
  <1>2. IsFiniteSet(S) /\ IsFiniteSet(V)
    BY BudgetAssumption, FS_Subset DEF BelowOf, WorkBelow
  <1> HIDE DEF f, g, S, V
  <1>3. SumOver(f, S) \in Int
    BY <1>1, <1>2, SumInt
  <1>4. SumOver(g, V) \in Int
    BY <1>1, <1>2, SumInt
  <1> QED BY <1>3, <1>4 DEF f, g, S, V, CorrectedBy, HeldBy

-----------------------------------------------------------------------------
(***************************************************************************)
(* The ledger's inductive invariant                                        *)
(***************************************************************************)

\* Nothing is entered for an account before it is opened.
ClosedIsEmpty == \A a \in Accounts : ~account[a].open => ledger[a] = Zero /\ adjusted[a] = Zero

\* An invocation that was granted no work, or whose execution has no account,
\* holds nothing; what is still reserved was not given back, and what is
\* ACTIVE was not spent.
ReservationFits(w, d) ==
  /\ work[w] \in {"none", "waiting"} => resv[w][d] = NoReservation
  /\ ~account[OwnerOf[w]].open => resv[w][d] = NoReservation
  /\ resv[w][d].status \in {"ACTIVE", "COMMITTED"} => resv[w][d].released = 0
  /\ resv[w][d].status = "ACTIVE" => resv[w][d].committed = 0
ReservationsFit == \A w \in Work, d \in Dims : ReservationFits(w, d)

LedgerInv ==
  /\ LedgerTypeOK /\ Hierarchy(account) /\ ClosedIsEmpty /\ ReservationsFit
  /\ LedgerExplained /\ NeverOverdrawn /\ LiveWorkIsReserved /\ CommittedIsNeverRefunded

LEMMA LedgerTypes ==
  ASSUME LedgerTypeOK
  PROVE  /\ account \in AccountTable /\ adjusted \in Corrected /\ ledger \in Corrected
         /\ resv \in Reservations
PROOF BY DEF LedgerTypeOK, AccountTable, Corrected, Reservations

\* What an attempt needs is known before it asks: its budget and the grant of
\* the account it may open are amounts.
LEMMA AttemptTypes ==
  ASSUME LedgerTypeOK, NEW w \in Work
  PROVE  /\ StepBudget[w] \in Amounts /\ GrantOf(w) \in Amounts /\ OwnerOf[w] \in Accounts
         /\ OwnerOf[w] \in Executions /\ Declared(w) \subseteq Dims /\ ReservedDims(w) \subseteq Declared(w)
PROOF
  <1>1. StepBudget[w] \in Amounts /\ OwnerOf[w] \in Executions /\ OwnerOf[w] \in Accounts
    BY BudgetAssumption DEF Accounts
  <1>2. GrantOf(w) \in Amounts
    BY <1>1 DEF GrantOf, LedgerTypeOK
  <1>3. Declared(w) \subseteq Dims /\ ReservedDims(w) \subseteq Declared(w)
    BY DEF Declared, ReservedDims
  <1> QED BY <1>1, <1>2, <1>3

\* A reservation finds the account open, or opens it as the plan says.
LEMMA EnsuredAccount ==
  ASSUME LedgerTypeOK, NEW w \in Work,
         IF AccountReady(w) THEN EnsureExecutionAccount(w) ELSE UNCHANGED account
  PROVE  /\ \/ account' = account
            \/ Opens(account, account', OwnerOf[w], plan[OwnerOf[w]].parent, GrantOf(w))
         /\ AccountReady(w) => account'[OwnerOf[w]].open
         /\ AccountReady(w) /\ account[OwnerOf[w]].open => account' = account
         /\ AccountReady(w) /\ ~account[OwnerOf[w]].open =>
              /\ Opens(account, account', OwnerOf[w], plan[OwnerOf[w]].parent, GrantOf(w))
              /\ ChildCeilingSubset(GrantOf(w), plan[OwnerOf[w]].parent)
PROOF
  <1> DEFINE e == OwnerOf[w]
             p == plan[e].parent
             grant == GrantOf(w)
  <1>1. e \in Accounts /\ e \in Executions /\ grant \in Amounts /\ p \in Accounts \cup {NoAccount}
        /\ account \in AccountTable
    BY AttemptTypes, LedgerTypes DEF LedgerTypeOK
  <1>2. CASE ~AccountReady(w)
    BY <1>2
  <1>3. CASE AccountReady(w) /\ account[e].open
    BY <1>3 DEF EnsureExecutionAccount
  <1>4. CASE AccountReady(w) /\ ~account[e].open
    <2>1. account' = [account EXCEPT ![e] = [open |-> TRUE, parent |-> p, ceiling |-> grant]]
      BY <1>4 DEF EnsureExecutionAccount, OpenAccount
    <2>2. (p # NoAccount => account[p].open) /\ ChildCeilingSubset(grant, p)
      BY <1>4 DEF AccountReady
    <2> HIDE DEF grant
    <2>3. Opens(account, account', e, p, grant)
      BY <1>1, <1>4, <2>1, <2>2 DEF Opens
    <2>4. account'[e].open
      BY <1>1, <2>1 DEF AccountTable
    <2> QED BY <1>4, <2>2, <2>3, <2>4 DEF grant
  <1> QED BY <1>2, <1>3, <1>4

\* Every account that is charged for a reservation can afford it.
LEMMA ChainCanAfford ==
  ASSUME LedgerTypeOK, Hierarchy(account), ClosedIsEmpty, NEW w \in Work,
         IF AccountReady(w) THEN EnsureExecutionAccount(w) ELSE UNCHANGED account,
         NEW d \in ReservedDims(w), NEW b \in ChainIn(account', OwnerOf[w])
  PROVE  account'[b].ceiling[d] + ledger[b][d] >= StepBudget[w][d]
PROOF
  <1> DEFINE e == OwnerOf[w]
             p == plan[e].parent
             grant == GrantOf(w)
  <1>1. e \in Accounts /\ grant \in Amounts /\ p \in Accounts \cup {NoAccount} /\ d \in Dims
        /\ StepBudget[w] \in Amounts /\ NoAccount \notin Accounts
    BY AttemptTypes, BudgetAssumption DEF LedgerTypeOK
  <1>2. AccountReady(w) /\ Sufficient(w, d)
    <2>1. PICK i \in DOMAIN Dimensions :
            /\ d = Dimensions[i]
            /\ \A j \in 1 .. i : Dimensions[j] \in Declared(w) => Sufficient(w, Dimensions[j])
      BY DEF ReservedDims
    <2>2. i \in 1 .. i
      <3>1. DOMAIN Dimensions = 1 .. Len(Dimensions) /\ Len(Dimensions) \in Nat
        BY BudgetAssumption
      <3> QED BY <3>1
    <2> QED BY <2>1, <2>2 DEF ReservedDims
  <1>3. CASE account[e].open
    <2>1. account' = account
      BY <1>2, <1>3, EnsuredAccount
    <2>2. b = e \/ b \in Chain(e) \ {e}
      BY <2>1, ChainIs
    <2>3. Available(b, d) >= StepBudget[w][d]
      BY <1>2, <1>3, <2>2 DEF Sufficient
    <2> QED BY <2>1, <2>3 DEF Available
  <1>4. CASE ~account[e].open
    <2>1. Opens(account, account', e, p, grant)
      BY <1>2, <1>4, EnsuredAccount
    <2> HIDE DEF grant
    <2>2. /\ account'[e].ceiling = grant
          /\ \A a \in Accounts \ {e} : account'[a] = account[a]
      <3> HIDE DEF e, p
      <3>1. /\ Hierarchy(account') /\ account'[e].open /\ account'[e].parent = p /\ account'[e].ceiling = grant
            /\ \A a \in Accounts \ {e} : account'[a] = account[a]
        BY <1>1, <2>1, HierarchyGrows
      <3> QED BY <3>1
    <2>3. ChainIn(account', e) = {e} \cup (IF p = NoAccount THEN {} ELSE ChainIn(account, p))
      BY <1>1, <2>1, ChainsStand
    <2>4. grant[d] >= StepBudget[w][d]
      BY <1>2, <1>4 DEF Sufficient, grant
    <2>5. CASE b = e
      <3>1. ledger[e][d] = 0
        BY <1>1, <1>4 DEF ClosedIsEmpty, Zero
      <3>2. grant[d] \in Nat /\ StepBudget[w][d] \in Nat
        BY <1>1 DEF Amounts
      <3> QED BY <2>2, <2>4, <2>5, <3>1, <3>2
    <2>6. CASE b # e
      <3>1. p # NoAccount /\ b \in Chain(p) /\ b \in Accounts
        BY <2>3, <2>6, ChainIs DEF ChainIn
      <3>2. Available(b, d) >= StepBudget[w][d]
        BY <1>2, <1>4, <3>1 DEF Sufficient
      <3> QED BY <2>2, <2>6, <3>1, <3>2 DEF Available
    <2> QED BY <2>5, <2>6
  <1> QED BY <1>3, <1>4

\* A reservation charges the chain of the account and is kept with the attempt.
LEMMA GrantEffect ==
  ASSUME LedgerTypeOK, NEW w \in Work, ReserveForAttempt(w)
  PROVE  /\ ledger' \in Corrected /\ resv' \in Reservations
         /\ \A b \in Accounts, d \in Dims :
              ledger'[b][d] = ledger[b][d] - (IF b \in ChainIn(account', OwnerOf[w]) /\ d \in ReservedDims(w)
                                              THEN StepBudget[w][d] ELSE 0)
         /\ \A x \in Work \ {w} : resv'[x] = resv[x]
         /\ \A d \in Dims : resv'[w][d] =
              IF d \in ReservedDims(w)
              THEN [status |-> "ACTIVE", amount |-> StepBudget[w][d], committed |-> 0, released |-> 0]
              ELSE resv[w][d]
PROOF
  <1> DEFINE e == OwnerOf[w]
             ds == ReservedDims(w)
             own == ChainIn(account', e)
  <1>1. StepBudget[w] \in [Dims -> Nat] /\ ledger \in Corrected /\ resv \in Reservations
    BY AttemptTypes, LedgerTypes DEF Amounts
  <1>2. Chain(e)' = own
    BY ChainIs
  <1>3. ledger' = [b \in Accounts |-> IF b \notin own THEN ledger[b]
                     ELSE [d \in Dims |-> IF d \in ds THEN ledger[b][d] + (-1) * StepBudget[w][d] ELSE ledger[b][d]]]
    <2> HIDE DEF ds, own
    <2> QED BY <1>2 DEF ReserveForAttempt, WriteChainEntries, ds
  <1>4. resv' = [resv EXCEPT ![w] = [d \in Dims |-> IF d \in ds
                   THEN [status |-> "ACTIVE", amount |-> StepBudget[w][d], committed |-> 0, released |-> 0]
                   ELSE resv[w][d]]]
    <2> HIDE DEF ds
    <2> QED BY DEF ReserveForAttempt, ds
  <1> HIDE DEF ds, own
  <1>5. ledger' \in Corrected /\ \A b \in Accounts, d \in Dims :
          ledger'[b][d] = ledger[b][d] - (IF b \in own /\ d \in ds THEN StepBudget[w][d] ELSE 0)
    <2>1. ASSUME NEW b \in Accounts, NEW d \in Dims
          PROVE  /\ ledger'[b][d] \in Int
                 /\ ledger'[b][d] = ledger[b][d] - (IF b \in own /\ d \in ds THEN StepBudget[w][d] ELSE 0)
      <3>1. ledger[b][d] \in Int /\ StepBudget[w][d] \in Int
        BY <1>1 DEF Corrected
      <3>2. ledger'[b][d] = IF b \in own /\ d \in ds THEN ledger[b][d] + (-1) * StepBudget[w][d] ELSE ledger[b][d]
        BY <1>3
      <3> QED BY <3>1, <3>2
    <2>2. \A b \in Accounts : ledger'[b] = [d \in Dims |-> ledger'[b][d]]
      BY <1>1, <1>3 DEF Corrected
    <2>3. ledger' = [b \in Accounts |-> ledger'[b]]
      BY <1>3
    <2>4. \A b \in Accounts : ledger'[b] \in [Dims -> Int]
      BY <2>1, <2>2
    <2>5. ledger' \in Corrected
      BY <2>3, <2>4 DEF Corrected
    <2> QED BY <2>1, <2>5
  <1>6. /\ \A x \in Work \ {w} : resv'[x] = resv[x]
        /\ \A d \in Dims : resv'[w][d] = IF d \in ds
              THEN [status |-> "ACTIVE", amount |-> StepBudget[w][d], committed |-> 0, released |-> 0]
              ELSE resv[w][d]
    BY <1>1, <1>4 DEF Reservations
  <1>7. resv' \in Reservations
    <2>1. [d \in Dims |-> IF d \in ds
              THEN [status |-> "ACTIVE", amount |-> StepBudget[w][d], committed |-> 0, released |-> 0]
              ELSE resv[w][d]]
          \in [Dims -> [status : ReservationStatus, amount : Nat, committed : Nat, released : Nat]]
      BY <1>1 DEF Reservations, ReservationStatus
    <2> QED BY <1>1, <1>4, <2>1 DEF Reservations
  <1> QED BY <1>5, <1>6, <1>7 DEF ds, own

\* Whoever is affordable is reserved in full.
LEMMA AffordableIsReserved ==
  ASSUME NEW w \in Work, Affordable(w)
  PROVE  ReservedDims(w) = Declared(w)
PROOF
  <1>1. ASSUME NEW d \in Declared(w) PROVE d \in ReservedDims(w)
    <2>1. PICK i \in DOMAIN Dimensions : d = Dimensions[i]
      BY DEF Declared, Dims
    <2>2. \A j \in 1 .. i : Dimensions[j] \in Declared(w) => Sufficient(w, Dimensions[j])
      BY DEF Affordable
    <2> QED BY <2>1, <2>2 DEF Affordable, ReservedDims
  <1> QED BY <1>1 DEF ReservedDims

\* Granting work, or refusing it, keeps the books.
LEMMA GrantKeepsLedger ==
  ASSUME LedgerInv, NEW w \in Work, work[w] \in {"none", "waiting"}, Grant(w)
  PROVE  LedgerInv'
PROOF
  <1> DEFINE e == OwnerOf[w]
             ds == ReservedDims(w)
             own == ChainIn(account', e)
             sb == StepBudget[w]
             spent(b, d) == IF b \in own /\ d \in ds THEN sb[d] ELSE 0
  <1>1. /\ LedgerTypeOK /\ Hierarchy(account) /\ ClosedIsEmpty /\ ReservationsFit
        /\ LedgerExplained /\ NeverOverdrawn /\ LiveWorkIsReserved /\ CommittedIsNeverRefunded
    BY DEF LedgerInv
  <1>2. /\ account \in AccountTable /\ adjusted \in Corrected /\ ledger \in Corrected
        /\ resv \in Reservations
    BY <1>1, LedgerTypes
  <1>3. /\ sb \in [Dims -> Nat] /\ e \in Accounts /\ e \in Executions /\ ds \subseteq Dims
    BY <1>1, AttemptTypes DEF Amounts
  <1>4. ReserveForAttempt(w) /\ adjusted' = adjusted /\ plan' = plan
    BY DEF Grant, ReserveForAttempt
  <1>5. IF AccountReady(w) THEN EnsureExecutionAccount(w) ELSE UNCHANGED account
    BY <1>4 DEF ReserveForAttempt
  <1>6. /\ account' = account \/ Opens(account, account', e, plan[e].parent, GrantOf(w))
        /\ AccountReady(w) => account'[e].open
    BY <1>1, <1>5, EnsuredAccount
  <1>7. ds # {} => AccountReady(w)
    BY DEF ReservedDims
  <1>8. /\ ledger' \in Corrected /\ resv' \in Reservations
        /\ \A b \in Accounts, d \in Dims : ledger'[b][d] = ledger[b][d] - spent(b, d)
        /\ \A x \in Work \ {w} : resv'[x] = resv[x]
        /\ \A d \in Dims : resv'[w][d] = IF d \in ds
              THEN [status |-> "ACTIVE", amount |-> sb[d], committed |-> 0, released |-> 0]
              ELSE resv[w][d]
    BY <1>1, <1>4, GrantEffect
  <1>9. \A d \in ds, b \in own : account'[b].ceiling[d] + ledger[b][d] >= sb[d]
    BY <1>1, <1>5, ChainCanAfford
  <1>10. /\ Hierarchy(account') /\ \A a \in Accounts : account[a].open => account'[a].open
         /\ \A a \in Accounts : a # e => account'[a] = account[a]
         /\ account[e].open => account'[e] = account[e]
    <2>1. CASE account' = account
      BY <1>1, <2>1
    <2>2. CASE Opens(account, account', e, plan[e].parent, GrantOf(w))
      <3>1. /\ Hierarchy(account') /\ account'[e].open
            /\ \A a \in Accounts \ {e} : account'[a] = account[a]
        <4> DEFINE p == plan[e].parent
                   grant == GrantOf(w)
        <4>1. Opens(account, account', e, p, grant)
          BY <2>2
        <4> HIDE DEF e, p, grant
        <4>2. /\ Hierarchy(account') /\ account'[e].open /\ account'[e].parent = p
              /\ account'[e].ceiling = grant /\ \A a \in Accounts \ {e} : account'[a] = account[a]
          BY <1>1, <1>3, <4>1, HierarchyGrows
        <4> QED BY <4>2
      <3>2. ~account[e].open
        BY <2>2 DEF Opens
      <3> QED BY <3>1, <3>2
    <2> QED BY <1>6, <2>1, <2>2
  <1>11. \A d \in Dims : resv[w][d] = NoReservation
    BY <1>1 DEF ReservationsFit, ReservationFits
  <1>12. work' = [work EXCEPT ![w] = IF Affordable(w) THEN "live" ELSE "refused"]
    BY DEF Grant
  <1>13. \A x \in Work : x # w => work'[x] = work[x]
    BY <1>1, <1>12 DEF LedgerTypeOK
  <1>14. work'[w] = IF Affordable(w) THEN "live" ELSE "refused"
    BY <1>1, <1>12 DEF LedgerTypeOK
  <1>15. Affordable(w) => ds = Declared(w)
    BY AffordableIsReserved
  <1> HIDE DEF ds, own
  <1>16. \A d \in Dims :
           /\ d \in ds => /\ resv'[w][d].status = "ACTIVE" /\ resv'[w][d].amount = sb[d]
                         /\ resv'[w][d].committed = 0 /\ resv'[w][d].released = 0
           /\ d \notin ds => resv'[w][d] = resv[w][d]
    <2> SUFFICES ASSUME NEW d \in Dims
                 PROVE  /\ d \in ds => /\ resv'[w][d].status = "ACTIVE" /\ resv'[w][d].amount = sb[d]
                                      /\ resv'[w][d].committed = 0 /\ resv'[w][d].released = 0
                        /\ d \notin ds => resv'[w][d] = resv[w][d]
      OBVIOUS
    <2>1. resv'[w][d] = IF d \in ds
              THEN [status |-> "ACTIVE", amount |-> sb[d], committed |-> 0, released |-> 0]
              ELSE resv[w][d]
      BY <1>8
    <2> HIDE DEF sb
    <2> QED BY <2>1
  <1>20. LedgerTypeOK'
    <2>1. work' \in [Work -> {"none", "waiting", "live", "refused", "ended"}]
      BY <1>1, <1>12 DEF LedgerTypeOK
    <2>2. account' \in AccountTable
      BY <1>10 DEF Hierarchy
    <2> QED BY <1>1, <1>4, <1>8, <2>1, <2>2 DEF LedgerTypeOK, AccountTable, Corrected, Reservations
  <1>21. ClosedIsEmpty'
    <2> SUFFICES ASSUME NEW a \in Accounts, ~account'[a].open
                 PROVE  ledger'[a] = Zero /\ adjusted'[a] = Zero
      BY DEF ClosedIsEmpty
    <2>1. ~account[a].open
      BY <1>10
    <2>2. ledger[a] = Zero /\ adjusted[a] = Zero
      BY <1>1, <2>1 DEF ClosedIsEmpty
    <2>3. \A d \in Dims : spent(a, d) = 0
      <3>1. CASE ds = {}
        BY <3>1
      <3>2. CASE ds # {}
        <4>1. account'[e].open
          BY <1>6, <1>7, <3>2
        <4>2. a \notin own
          BY <1>3, <1>10, <4>1, ChainOpen DEF own
        <4> QED BY <4>2
      <3> QED BY <3>1, <3>2
    <2> HIDE DEF spent
    <2>4. \A d \in Dims : ledger'[a][d] = 0
      BY <1>8, <2>2, <2>3 DEF Zero
    <2>5. ledger'[a] = [d \in Dims |-> ledger'[a][d]]
      BY <1>8 DEF Corrected
    <2>6. ledger'[a] = Zero
      BY <2>4, <2>5 DEF Zero
    <2> QED BY <1>4, <2>2, <2>6
  <1>22. ReservationsFit'
    <2> SUFFICES ASSUME NEW x \in Work, NEW d \in Dims PROVE ReservationFits(x, d)'
      BY DEF ReservationsFit
    <2>0. ReservationFits(x, d) /\ OwnerOf[x] \in Accounts
      BY <1>1, BudgetAssumption DEF ReservationsFit, Accounts
    <2>1. CASE x # w
      <3>1. resv'[x] = resv[x] /\ work'[x] = work[x]
        BY <1>8, <1>13, <2>1
      <3> QED BY <1>10, <2>0, <3>1 DEF ReservationFits
    <2>2. CASE x = w /\ d \in ds
      <3>1. resv'[x][d] = [status |-> "ACTIVE", amount |-> sb[d], committed |-> 0, released |-> 0]
        BY <1>8, <2>2
      <3>2. account'[OwnerOf[x]].open
        BY <1>6, <1>7, <2>2
      <3>3. work'[x] \notin {"none", "waiting"}
        BY <1>14, <2>2
      <3> QED BY <3>1, <3>2, <3>3 DEF ReservationFits
    <2>3. CASE x = w /\ d \notin ds
      <3>1. resv'[x][d] = NoReservation
        BY <1>8, <1>11, <2>3
      <3> QED BY <3>1 DEF ReservationFits, NoReservation
    <2> QED BY <2>1, <2>2, <2>3
  <1>23. LedgerExplained'
    <2> SUFFICES ASSUME NEW a \in Accounts, NEW d \in Dims
                 PROVE  ledger'[a][d] = CorrectedBy(adjusted', account', a, d) - HeldBy(resv', account', a, d)
      BY ExplainedIs
    <2>1. ledger[a][d] = CorrectedBy(adjusted, account, a, d) - HeldBy(resv, account, a, d)
      BY <1>1, ExplainedIs
    <2>2. /\ CorrectedBy(adjusted, account', a, d) = CorrectedBy(adjusted, account, a, d)
          /\ HeldBy(resv, account', a, d) = HeldBy(resv, account, a, d)
      <3>1. CASE account' = account
        BY <3>1
      <3>2. CASE Opens(account, account', e, plan[e].parent, GrantOf(w))
        <4> DEFINE p == plan[e].parent
                   grant == GrantOf(w)
        <4>1. Opens(account, account', e, p, grant) /\ ~account[e].open
          BY <3>2 DEF Opens
        <4>2. adjusted[e] = Zero
          BY <1>1, <1>3, <4>1 DEF ClosedIsEmpty
        <4>3. \A x \in Work, k \in Dims : OwnerOf[x] = e => resv[x][k] = NoReservation
          BY <1>1, <4>1 DEF ReservationsFit, ReservationFits
        <4> HIDE DEF e, p, grant
        <4> QED BY <1>1, <1>2, <1>3, <4>1, <4>2, <4>3, OpeningKeepsSums
      <3> QED BY <1>6, <3>1, <3>2
    <2> DEFINE c == IF d \in ds THEN sb[d] ELSE 0
    <2>3. c \in Int
      BY <1>3
    <2>4. resv'[w][d].amount - resv'[w][d].released = resv[w][d].amount - resv[w][d].released + c
      <3>1. resv[w][d].amount = 0 /\ resv[w][d].released = 0 /\ sb[d] \in Nat
        BY <1>3, <1>11 DEF NoReservation
      <3> HIDE DEF sb
      <3> QED BY <1>16, <3>1
    <2>5. \A x \in Work \ {w} : resv'[x][d] = resv[x][d]
      BY <1>8
    <2>6. /\ HeldBy(resv', account', a, d) = HeldBy(resv, account', a, d) + (IF a \in own THEN c ELSE 0)
          /\ HeldBy(resv, account', a, d) \in Int
      <3> HIDE DEF c
      <3> QED BY <1>2, <1>8, <2>3, <2>4, <2>5, HoldingMovesOne DEF own
    <2>7. spent(a, d) = (IF a \in own THEN c ELSE 0) /\ spent(a, d) \in Int
      BY <1>3
    <2>8. CorrectedBy(adjusted, account, a, d) \in Int
      BY <1>2, SumsAreInt
    <2>9. ledger'[a][d] = ledger[a][d] - spent(a, d)
      BY <1>8
    <2> HIDE DEF spent, c
    <2> QED BY <1>4, <2>1, <2>2, <2>6, <2>7, <2>8, <2>9
  <1>24. NeverOverdrawn'
    <2> SUFFICES ASSUME NEW a \in Accounts, NEW d \in Dims PROVE account'[a].ceiling[d] + ledger'[a][d] >= 0
      BY DEF NeverOverdrawn, Available
    <2>1. account'[a].ceiling[d] \in Nat /\ ledger[a][d] \in Int /\ sb[d] \in Nat
      BY <1>2, <1>3, <1>10 DEF Hierarchy, AccountTable, Corrected, Amounts
    <2>2. ledger'[a][d] = ledger[a][d] - spent(a, d)
      BY <1>8
    <2>3. CASE a \in own /\ d \in ds
      BY <1>9, <2>1, <2>2, <2>3
    <2>4. CASE ~(a \in own /\ d \in ds) /\ account'[a] = account[a]
      <3>1. account[a].ceiling[d] + ledger[a][d] >= 0
        BY <1>1 DEF NeverOverdrawn, Available
      <3> QED BY <2>1, <2>2, <2>4, <3>1
    <2>5. CASE ~(a \in own /\ d \in ds) /\ account'[a] # account[a]
      <3>1. ~account[a].open
        BY <1>10, <2>5
      <3>2. ledger[a][d] = 0
        BY <1>1, <3>1 DEF ClosedIsEmpty, Zero
      <3> QED BY <2>1, <2>2, <2>5, <3>2
    <2> QED BY <2>3, <2>4, <2>5
  <1>25. LiveWorkIsReserved'
    <2> SUFFICES ASSUME NEW x \in Work, work'[x] = "live", NEW d \in Declared(x)
                 PROVE  resv'[x][d].status = "ACTIVE" /\ resv'[x][d].amount = StepBudget[x][d]
      BY DEF LiveWorkIsReserved, Declared
    <2>1. CASE x # w
      <3>1. resv'[x] = resv[x] /\ work'[x] = work[x]
        BY <1>8, <1>13, <2>1
      <3> QED BY <1>1, <3>1 DEF LiveWorkIsReserved
    <2>2. CASE x = w
      <3>1. d \in ds /\ d \in Dims
        BY <1>14, <1>15, <2>2 DEF Declared
      <3> QED BY <1>16, <2>2, <3>1
    <2> QED BY <2>1, <2>2
  <1>26. CommittedIsNeverRefunded'
    <2> SUFFICES ASSUME NEW x \in Work, NEW d \in Dims
                 PROVE  resv'[x][d].committed <= resv'[x][d].amount - resv'[x][d].released
      BY DEF CommittedIsNeverRefunded, Outstanding
    <2>0. resv[x][d].committed <= resv[x][d].amount - resv[x][d].released
      BY <1>1 DEF CommittedIsNeverRefunded, Outstanding
    <2>1. CASE x # w
      BY <1>8, <2>0, <2>1
    <2>2. CASE x = w
      <3>1. sb[d] \in Nat
        BY <1>3
      <3> HIDE DEF sb
      <3> QED BY <1>16, <2>0, <2>2, <3>1
    <2> QED BY <2>1, <2>2
  <1> QED BY <1>10, <1>20, <1>21, <1>22, <1>23, <1>24, <1>25, <1>26 DEF LedgerInv

\* Steps that leave the books alone: a request is decided, an attempt is held.
LEMMA LedgerRests ==
  ASSUME LedgerInv, account' = account, ledger' = ledger, adjusted' = adjusted, resv' = resv,
         plan' \in [Executions -> [parent : Accounts \cup {NoAccount}, ceiling : Amounts]],
         work' \in [Work -> {"none", "waiting", "live", "refused", "ended"}],
         \A w \in Work : /\ work'[w] = "live" => work[w] = "live"
                         /\ work'[w] \in {"none", "waiting"} => work[w] \in {"none", "waiting"}
  PROVE  LedgerInv'
PROOF
  <1>1. LedgerTypeOK'
    BY DEF LedgerInv, LedgerTypeOK
  <1>2. Hierarchy(account') /\ ClosedIsEmpty' /\ NeverOverdrawn' /\ CommittedIsNeverRefunded'
    BY DEF LedgerInv, ClosedIsEmpty, NeverOverdrawn, Available, CommittedIsNeverRefunded, Outstanding
  <1>3. LedgerExplained'
    BY ExplainedIs DEF LedgerInv
  <1>4. ReservationsFit'
    BY DEF LedgerInv, ReservationsFit, ReservationFits
  <1>5. LiveWorkIsReserved'
    BY DEF LedgerInv, LiveWorkIsReserved, Declared
  <1> QED BY <1>1, <1>2, <1>3, <1>4, <1>5 DEF LedgerInv

\* An operator opens an account.
LEMMA CreateKeepsLedger ==
  ASSUME LedgerInv, NEW a \in Accounts, NEW p \in Accounts \cup {NoAccount}, NEW c \in Amounts,
         CreateAccount(a, p, c)
  PROVE  LedgerInv'
PROOF
  <1>1. /\ LedgerTypeOK /\ Hierarchy(account) /\ ClosedIsEmpty /\ ReservationsFit
        /\ LedgerExplained /\ NeverOverdrawn /\ LiveWorkIsReserved /\ CommittedIsNeverRefunded
    BY DEF LedgerInv
  <1>2. /\ account \in AccountTable /\ adjusted \in Corrected /\ ledger \in Corrected
        /\ resv \in Reservations
    BY <1>1, LedgerTypes
  <1>3. /\ ledger' = ledger /\ adjusted' = adjusted /\ plan' = plan /\ resv' = resv /\ work' = work
        /\ ~account[a].open /\ Opens(account, account', a, p, c)
    BY DEF CreateAccount, OpenAccount, Opens
  <1>4. /\ Hierarchy(account') /\ account'[a].open /\ account'[a].parent = p /\ account'[a].ceiling = c
        /\ \A b \in Accounts \ {a} : account'[b] = account[b]
    BY <1>1, <1>3, HierarchyGrows
  <1>5. LedgerTypeOK'
    BY <1>1, <1>3, <1>4 DEF LedgerTypeOK, Hierarchy, AccountTable
  <1>6. ClosedIsEmpty'
    BY <1>1, <1>3, <1>4 DEF ClosedIsEmpty
  <1>7. ReservationsFit'
    <2> SUFFICES ASSUME NEW x \in Work, NEW d \in Dims PROVE ReservationFits(x, d)'
      BY DEF ReservationsFit
    <2>1. ReservationFits(x, d) /\ OwnerOf[x] \in Accounts
      BY <1>1, BudgetAssumption DEF ReservationsFit, Accounts
    <2>2. ~account'[OwnerOf[x]].open => ~account[OwnerOf[x]].open
      BY <1>4, <2>1
    <2> QED BY <1>3, <2>1, <2>2 DEF ReservationFits
  <1>8. LedgerExplained'
    <2> SUFFICES ASSUME NEW b \in Accounts, NEW d \in Dims
                 PROVE  ledger'[b][d] = CorrectedBy(adjusted', account', b, d) - HeldBy(resv', account', b, d)
      BY ExplainedIs
    <2>1. ledger[b][d] = CorrectedBy(adjusted, account, b, d) - HeldBy(resv, account, b, d)
      BY <1>1, ExplainedIs
    <2>2. adjusted[a] = Zero
      BY <1>1, <1>3 DEF ClosedIsEmpty
    <2>3. \A x \in Work, k \in Dims : OwnerOf[x] = a => resv[x][k] = NoReservation
      BY <1>1, <1>3 DEF ReservationsFit, ReservationFits
    <2>4. /\ CorrectedBy(adjusted, account', b, d) = CorrectedBy(adjusted, account, b, d)
          /\ HeldBy(resv, account', b, d) = HeldBy(resv, account, b, d)
      BY <1>1, <1>2, <1>3, <2>2, <2>3, OpeningKeepsSums
    <2> QED BY <1>3, <2>1, <2>4
  <1>9. NeverOverdrawn'
    <2> SUFFICES ASSUME NEW b \in Accounts, NEW d \in Dims PROVE account'[b].ceiling[d] + ledger'[b][d] >= 0
      BY DEF NeverOverdrawn, Available
    <2>1. CASE b = a
      <3>1. ledger[a][d] = 0 /\ c[d] \in Nat
        BY <1>1, <1>3 DEF ClosedIsEmpty, Zero, Amounts
      <3> QED BY <1>3, <1>4, <2>1, <3>1
    <2>2. CASE b # a
      BY <1>1, <1>3, <1>4, <2>2 DEF NeverOverdrawn, Available
    <2> QED BY <2>1, <2>2
  <1>10. LiveWorkIsReserved' /\ CommittedIsNeverRefunded'
    BY <1>1, <1>3 DEF LiveWorkIsReserved, CommittedIsNeverRefunded, Outstanding, Declared
  <1> QED BY <1>4, <1>5, <1>6, <1>7, <1>8, <1>9, <1>10 DEF LedgerInv

\* An operator corrects an account.
LEMMA AdjustKeepsLedger ==
  ASSUME LedgerInv, NEW a \in Accounts, NEW k \in Dims, NEW delta \in Int, Adjust(a, k, delta)
  PROVE  LedgerInv'
PROOF
  <1> DEFINE own == ChainIn(account, a)
             signed(b) == IF b = a THEN delta ELSE -delta
  <1>1. /\ LedgerTypeOK /\ Hierarchy(account) /\ ClosedIsEmpty /\ ReservationsFit
        /\ LedgerExplained /\ NeverOverdrawn /\ LiveWorkIsReserved /\ CommittedIsNeverRefunded
    BY DEF LedgerInv
  <1>2. /\ account \in AccountTable /\ adjusted \in Corrected /\ ledger \in Corrected
        /\ resv \in Reservations
    BY <1>1, LedgerTypes
  <1>3. /\ account' = account /\ plan' = plan /\ resv' = resv /\ work' = work /\ account[a].open
        /\ adjusted' = [adjusted EXCEPT ![a][k] = @ + delta]
    BY DEF Adjust
  <1>4. /\ \A b \in own : Available(b, k) + signed(b) >= 0
        /\ ledger' = [b \in Accounts |-> IF b \in own THEN [ledger[b] EXCEPT ![k] = @ + signed(b)] ELSE ledger[b]]
    BY ChainIs DEF Adjust
  <1>5. a \in own /\ \A b \in own : account[b].open
    BY <1>1, <1>3, ChainSelf, ChainOpen
  <1> HIDE DEF own
  <1>6. \A b \in Accounts : signed(b) \in Int
    OBVIOUS
  <1>7. /\ adjusted' \in Corrected
        /\ adjusted'[a][k] = adjusted[a][k] + delta
        /\ \A b \in Accounts \ {a} : adjusted'[b] = adjusted[b]
        /\ \A d \in Dims \ {k} : adjusted'[a][d] = adjusted[a][d]
    BY <1>2, <1>3 DEF Corrected
  <1>8. /\ ledger' \in Corrected
        /\ \A b \in Accounts : b \in own =>
             /\ ledger'[b][k] = ledger[b][k] + signed(b)
             /\ \A d \in Dims \ {k} : ledger'[b][d] = ledger[b][d]
        /\ \A b \in Accounts \ own : ledger'[b] = ledger[b]
    <2> HIDE DEF signed
    <2>1. \A b \in Accounts : ledger[b] \in [Dims -> Int]
      BY <1>2 DEF Corrected
    <2>2. \A b \in Accounts : [ledger[b] EXCEPT ![k] = @ + signed(b)] \in [Dims -> Int]
      <3> SUFFICES ASSUME NEW b \in Accounts PROVE [ledger[b] EXCEPT ![k] = @ + signed(b)] \in [Dims -> Int]
        OBVIOUS
      <3>1. ledger[b] \in [Dims -> Int] /\ ledger[b][k] + signed(b) \in Int
        BY <1>6, <2>1
      <3> QED BY <3>1
    <2>3. ledger' \in Corrected
      BY <1>4, <2>1, <2>2 DEF Corrected
    <2>4. ASSUME NEW b \in Accounts, b \in own
          PROVE  /\ ledger'[b][k] = ledger[b][k] + signed(b)
                 /\ \A d \in Dims \ {k} : ledger'[b][d] = ledger[b][d]
      <3>1. ledger'[b] = [ledger[b] EXCEPT ![k] = @ + signed(b)] /\ ledger[b] \in [Dims -> Int]
        BY <1>4, <2>1, <2>4
      <3> QED BY <3>1
    <2>5. \A b \in Accounts \ own : ledger'[b] = ledger[b]
      BY <1>4
    <2>6. \A b \in Accounts : b \in own => /\ ledger'[b][k] = ledger[b][k] + signed(b)
                                           /\ \A d \in Dims \ {k} : ledger'[b][d] = ledger[b][d]
      BY <2>4
    <2> QED BY <2>3, <2>5, <2>6
  <1>9. LedgerTypeOK'
    BY <1>1, <1>3, <1>7, <1>8 DEF LedgerTypeOK, Corrected
  <1>10. ClosedIsEmpty'
    BY <1>1, <1>3, <1>5, <1>7, <1>8 DEF ClosedIsEmpty
  <1>11. ReservationsFit' /\ LiveWorkIsReserved' /\ CommittedIsNeverRefunded'
    BY <1>1, <1>3 DEF ReservationsFit, ReservationFits, LiveWorkIsReserved, CommittedIsNeverRefunded, Outstanding, Declared
  <1>12. NeverOverdrawn'
    <2> SUFFICES ASSUME NEW b \in Accounts, NEW d \in Dims PROVE account[b].ceiling[d] + ledger'[b][d] >= 0
      BY <1>3 DEF NeverOverdrawn, Available
    <2>1. account[b].ceiling[d] \in Int /\ ledger[b][d] \in Int /\ account[b].ceiling[d] + ledger[b][d] >= 0
      BY <1>1, <1>2 DEF NeverOverdrawn, Available, AccountTable, Amounts, Corrected
    <2>2. CASE b \in own /\ d = k
      <3> HIDE DEF signed
      <3>1. Available(b, k) + signed(b) >= 0 /\ ledger'[b][k] = ledger[b][k] + signed(b)
        BY <1>4, <1>8, <2>2
      <3> QED BY <1>6, <2>1, <2>2, <3>1 DEF Available
    <2>3. CASE ~(b \in own /\ d = k)
      <3>1. ledger'[b][d] = ledger[b][d]
        BY <1>8, <2>3
      <3> QED BY <2>1, <3>1
    <2> QED BY <2>2, <2>3
  <1>13. LedgerExplained'
    <2> SUFFICES ASSUME NEW b \in Accounts, NEW d \in Dims
                 PROVE  ledger'[b][d] = CorrectedBy(adjusted', account, b, d) - HeldBy(resv, account, b, d)
      BY <1>3, ExplainedIs
    <2>1. ledger[b][d] = CorrectedBy(adjusted, account, b, d) - HeldBy(resv, account, b, d)
      BY <1>1, ExplainedIs
    <2>2. CorrectedBy(adjusted, account, b, d) \in Int /\ HeldBy(resv, account, b, d) \in Int
      BY <1>2, SumsAreInt
    <2> DEFINE s == IF d = k THEN delta ELSE 0
    <2>3. /\ s \in Int /\ adjusted'[a][d] = adjusted[a][d] + s
          /\ \A x \in Accounts \ {a} : adjusted'[x][d] = adjusted[x][d]
      BY <1>2, <1>7 DEF Corrected
    <2>4. CorrectedBy(adjusted', account, b, d) = CorrectedBy(adjusted, account, b, d)
            + (IF b \in own THEN (IF b = a THEN s ELSE -s) ELSE 0)
      <3> DEFINE new == adjusted'
      <3>1. /\ new \in Corrected /\ adjusted \in Corrected /\ new[a][d] = adjusted[a][d] + s
            /\ \A x \in Accounts \ {a} : new[x][d] = adjusted[x][d]
        BY <1>2, <1>7, <2>3
      <3> HIDE DEF s, new
      <3>2. /\ CorrectedBy(new, account, b, d) = CorrectedBy(adjusted, account, b, d)
                 + (IF b \in ChainIn(account, a) THEN (IF b = a THEN s ELSE -s) ELSE 0)
            /\ CorrectedBy(adjusted, account, b, d) \in Int
        BY <2>3, <3>1, CorrectionMovesOne
      <3> QED BY <3>2 DEF new, own
    <2>5. ledger'[b][d] = ledger[b][d] + (IF b \in own THEN (IF b = a THEN s ELSE -s) ELSE 0)
      <3>1. CASE b \in own /\ d = k
        BY <1>8, <3>1
      <3>2. CASE ~(b \in own /\ d = k)
        <4>1. ledger'[b][d] = ledger[b][d] /\ ledger[b][d] \in Int
          BY <1>2, <1>8, <3>2 DEF Corrected
        <4> QED BY <3>2, <4>1
      <3> QED BY <3>1, <3>2
    <2> DEFINE t == IF b \in own THEN (IF b = a THEN s ELSE -s) ELSE 0
    <2>6. t \in Int
      BY <2>3
    <2>7. /\ CorrectedBy(adjusted', account, b, d) = CorrectedBy(adjusted, account, b, d) + t
          /\ ledger'[b][d] = ledger[b][d] + t
      BY <2>4, <2>5
    <2> HIDE DEF t
    <2> QED BY <2>1, <2>2, <2>6, <2>7
  <1> QED BY <1>1, <1>3, <1>9, <1>10, <1>11, <1>12, <1>13 DEF LedgerInv

\* A step that gives back: the accounts stay, no ledger sinks, and what is
\* closed stays empty.
LEMMA ReturnKeepsLedger ==
  ASSUME LedgerInv, account' = account, adjusted' = adjusted, plan' = plan,
         work' \in [Work -> {"none", "waiting", "live", "refused", "ended"}],
         ledger' \in Corrected, resv' \in Reservations,
         \A a \in Accounts, d \in Dims :
           /\ ledger'[a][d] >= ledger[a][d]
           /\ ~account[a].open => ledger'[a][d] = ledger[a][d]
           /\ ledger'[a][d] - ledger[a][d] = HeldBy(resv, account, a, d) - HeldBy(resv', account, a, d),
         \A w \in Work : work'[w] = work[w] \/ (work'[w] = "ended"),
         \A w \in Work, d \in Dims :
           \/ resv'[w][d] = resv[w][d]
           \/ /\ resv[w][d].status # "NONE" /\ resv'[w][d].status \in {"COMMITTED", "RELEASED"}
              /\ resv'[w][d].status = "COMMITTED" => resv'[w][d].released = 0
              /\ resv'[w][d].committed <= resv'[w][d].amount - resv'[w][d].released
              /\ work'[w] = "ended"
  PROVE  LedgerInv'
PROOF
  <1>1. /\ LedgerTypeOK /\ Hierarchy(account) /\ ClosedIsEmpty /\ ReservationsFit
        /\ LedgerExplained /\ NeverOverdrawn /\ LiveWorkIsReserved /\ CommittedIsNeverRefunded
    BY DEF LedgerInv
  <1>2. /\ account \in AccountTable /\ adjusted \in Corrected /\ ledger \in Corrected
        /\ resv \in Reservations
    BY <1>1, LedgerTypes
  <1>3. LedgerTypeOK'
    BY <1>1 DEF LedgerTypeOK, Corrected, Reservations
  <1>4. ClosedIsEmpty'
    <2> SUFFICES ASSUME NEW a \in Accounts, ~account[a].open PROVE ledger'[a] = Zero /\ adjusted[a] = Zero
      BY DEF ClosedIsEmpty
    <2>1. ledger[a] = Zero /\ adjusted[a] = Zero
      BY <1>1 DEF ClosedIsEmpty
    <2>2. ledger'[a] = [d \in Dims |-> ledger'[a][d]] /\ \A d \in Dims : ledger'[a][d] = 0
      BY <2>1 DEF Corrected, Zero
    <2> QED BY <2>1, <2>2 DEF Zero
  <1>5. ReservationsFit'
    <2> SUFFICES ASSUME NEW w \in Work, NEW d \in Dims PROVE ReservationFits(w, d)'
      BY DEF ReservationsFit
    <2>1. ReservationFits(w, d)
      BY <1>1 DEF ReservationsFit
    <2>2. work'[w] \in {"none", "waiting"} => work[w] \in {"none", "waiting"}
      OBVIOUS
    <2>3. CASE resv'[w][d] = resv[w][d]
      BY <2>1, <2>2, <2>3 DEF ReservationFits
    <2>4. CASE resv'[w][d] # resv[w][d]
      <3>1. /\ resv[w][d].status # "NONE" /\ resv'[w][d].status \in {"COMMITTED", "RELEASED"}
            /\ resv'[w][d].status = "COMMITTED" => resv'[w][d].released = 0
            /\ work'[w] = "ended"
        BY <2>4
      <3>2. account[OwnerOf[w]].open
        BY <2>1, <3>1 DEF ReservationFits, NoReservation
      <3> QED BY <3>1, <3>2 DEF ReservationFits
    <2> QED BY <2>3, <2>4
  <1>6. LedgerExplained'
    <2> SUFFICES ASSUME NEW a \in Accounts, NEW d \in Dims
                 PROVE  ledger'[a][d] = CorrectedBy(adjusted, account, a, d) - HeldBy(resv', account, a, d)
      BY ExplainedIs
    <2> DEFINE new == resv'
    <2>1. ledger[a][d] = CorrectedBy(adjusted, account, a, d) - HeldBy(resv, account, a, d)
      BY <1>1, ExplainedIs
    <2>2. CorrectedBy(adjusted, account, a, d) \in Int /\ HeldBy(resv, account, a, d) \in Int
      BY <1>2, SumsAreInt
    <2>3. HeldBy(new, account, a, d) \in Int
      <3>1. new \in Reservations
        OBVIOUS
      <3> HIDE DEF new
      <3> QED BY <1>2, <3>1, SumsAreInt
    <2>4. /\ ledger'[a][d] \in Int /\ ledger[a][d] \in Int
          /\ ledger'[a][d] - ledger[a][d] = HeldBy(resv, account, a, d) - HeldBy(new, account, a, d)
      BY <1>2 DEF Corrected
    <2>5. ledger'[a][d] = CorrectedBy(adjusted, account, a, d) - HeldBy(new, account, a, d)
      <3> HIDE DEF new
      <3> QED BY <2>1, <2>2, <2>3, <2>4
    <2> QED BY <2>5
  <1>7. NeverOverdrawn'
    <2> SUFFICES ASSUME NEW a \in Accounts, NEW d \in Dims PROVE account[a].ceiling[d] + ledger'[a][d] >= 0
      BY DEF NeverOverdrawn, Available
    <2>1. /\ account[a].ceiling[d] \in Int /\ ledger[a][d] \in Int /\ ledger'[a][d] \in Int
          /\ account[a].ceiling[d] + ledger[a][d] >= 0 /\ ledger'[a][d] >= ledger[a][d]
      BY <1>1, <1>2 DEF NeverOverdrawn, Available, AccountTable, Amounts, Corrected
    <2> QED BY <2>1
  <1>8. LiveWorkIsReserved'
    <2> SUFFICES ASSUME NEW w \in Work, work'[w] = "live", NEW d \in Declared(w)
                 PROVE  resv'[w][d].status = "ACTIVE" /\ resv'[w][d].amount = StepBudget[w][d]
      BY DEF LiveWorkIsReserved, Declared
    <2>1. work[w] = "live" /\ d \in Dims
      BY DEF Declared
    <2>2. resv'[w][d] = resv[w][d]
      BY <2>1
    <2> QED BY <1>1, <2>1, <2>2 DEF LiveWorkIsReserved
  <1>9. CommittedIsNeverRefunded'
    BY <1>1 DEF CommittedIsNeverRefunded, Outstanding
  <1> QED BY <1>1, <1>3, <1>4, <1>5, <1>6, <1>7, <1>8, <1>9 DEF LedgerInv

\* A settled reservation gives back what was not used.
LEMMA SettleKeepsLedger ==
  ASSUME LedgerInv, NEW w \in Work, NEW usage \in Amounts, SettleWork(w, usage)
  PROVE  LedgerInv'
PROOF
  <1> DEFINE e == OwnerOf[w]
             own == ChainIn(account, e)
             settled == Reported(w, usage)
             spent == [d \in Dims |-> LeastOf(usage[d], resv[w][d].amount)]
             unused == [d \in Dims |-> resv[w][d].amount - spent[d]]
             back(b, d) == IF b \in own /\ d \in settled THEN unused[d] ELSE 0
  <1>1. LedgerTypeOK /\ Hierarchy(account) /\ ReservationsFit /\ e \in Accounts
    BY BudgetAssumption DEF LedgerInv, Accounts
  <1>2. /\ account \in AccountTable /\ adjusted \in Corrected /\ ledger \in Corrected
        /\ resv \in Reservations
    BY <1>1, LedgerTypes
  <1>3. /\ account' = account /\ adjusted' = adjusted /\ plan' = plan
        /\ work' = [work EXCEPT ![w] = "ended"]
        /\ \A d \in settled : resv[w][d].status = "ACTIVE"
    BY DEF SettleWork, ReconcileTerminal
  <1>4. resv' = [resv EXCEPT ![w] = [d \in Dims |->
          IF d \notin settled THEN resv[w][d]
          ELSE [resv[w][d] EXCEPT !.status = IF unused[d] > 0 THEN "RELEASED" ELSE "COMMITTED",
                                  !.committed = spent[d], !.released = unused[d]]]]
    BY DEF SettleWork, ReconcileTerminal
  <1>5. ledger' = [b \in Accounts |-> IF b \notin own THEN ledger[b]
          ELSE [d \in Dims |-> IF d \in settled THEN ledger[b][d] + 1 * unused[d] ELSE ledger[b][d]]]
    <2>1. Chain(e)' = own
      BY <1>3, ChainIs
    <2> QED BY <2>1 DEF SettleWork, ReconcileTerminal, WriteChainEntries
  <1>6. \A d \in Dims : /\ spent[d] \in Nat /\ unused[d] \in Nat /\ spent[d] = resv[w][d].amount - unused[d]
                        /\ resv[w][d].amount \in Nat
    <2> SUFFICES ASSUME NEW d \in Dims
                 PROVE  /\ spent[d] \in Nat /\ unused[d] \in Nat /\ spent[d] = resv[w][d].amount - unused[d]
                        /\ resv[w][d].amount \in Nat
      OBVIOUS
    <2>1. usage[d] \in Nat /\ resv[w][d].amount \in Nat
      BY <1>2 DEF Reservations, Amounts
    <2>2. /\ spent[d] = (IF usage[d] < resv[w][d].amount THEN usage[d] ELSE resv[w][d].amount)
          /\ unused[d] = resv[w][d].amount - spent[d]
      BY DEF LeastOf
    <2> HIDE DEF spent, unused
    <2> QED BY <2>1, <2>2
  <1>7. settled \subseteq Dims /\ \A d \in settled : /\ resv[w][d].released = 0 /\ resv[w][d].status # "NONE"
                                                     /\ account[e].open
    BY <1>1, <1>3 DEF Reported, ReservationsFit, ReservationFits, NoReservation
  <1> HIDE DEF own, settled, spent, unused
  <1>8. /\ resv' \in Reservations
        /\ \A x \in Work \ {w} : resv'[x] = resv[x]
        /\ \A d \in Dims \ settled : resv'[w][d] = resv[w][d]
        /\ \A d \in settled : /\ resv'[w][d].status = IF unused[d] > 0 THEN "RELEASED" ELSE "COMMITTED"
                              /\ resv'[w][d].amount = resv[w][d].amount
                              /\ resv'[w][d].committed = spent[d] /\ resv'[w][d].released = unused[d]
    <2> DEFINE R == [status : ReservationStatus, amount : Nat, committed : Nat, released : Nat]
               row == [d \in Dims |->
                 IF d \notin settled THEN resv[w][d]
                 ELSE [resv[w][d] EXCEPT !.status = IF unused[d] > 0 THEN "RELEASED" ELSE "COMMITTED",
                                         !.committed = spent[d], !.released = unused[d]]]
    <2>1. \A x \in Work : resv[x] \in [Dims -> R]
      BY <1>2 DEF Reservations
    <2>2. ASSUME NEW d \in Dims
          PROVE  /\ row[d] \in R
                 /\ d \notin settled => row[d] = resv[w][d]
                 /\ d \in settled => /\ row[d].status = IF unused[d] > 0 THEN "RELEASED" ELSE "COMMITTED"
                                     /\ row[d].amount = resv[w][d].amount
                                     /\ row[d].committed = spent[d] /\ row[d].released = unused[d]
      <3>1. resv[w][d] \in R /\ spent[d] \in Nat /\ unused[d] \in Nat
        BY <1>6, <2>1
      <3>2. CASE d \notin settled
        BY <3>1, <3>2
      <3>3. CASE d \in settled
        <4>1. row[d] = [resv[w][d] EXCEPT !.status = IF unused[d] > 0 THEN "RELEASED" ELSE "COMMITTED",
                                         !.committed = spent[d], !.released = unused[d]]
          BY <3>3
        <4> HIDE DEF row
        <4> QED BY <3>1, <3>3, <4>1 DEF ReservationStatus
      <3> QED BY <3>2, <3>3
    <2>3. row \in [Dims -> R]
      BY <2>2
    <2>4. resv' = [resv EXCEPT ![w] = row]
      BY <1>4
    <2> HIDE DEF row
    <2>5. resv'[w] = row /\ \A x \in Work \ {w} : resv'[x] = resv[x]
      BY <1>2, <2>4 DEF Reservations
    <2>6. resv' \in [Work -> [Dims -> R]]
      <3> HIDE DEF R
      <3>1. resv \in [Work -> [Dims -> R]]
        BY <1>2 DEF R, Reservations
      <3> QED BY <2>3, <2>4, <3>1
    <2>7. resv' \in Reservations
      BY <2>6 DEF Reservations
    <2> HIDE DEF R
    <2> QED BY <1>7, <2>2, <2>5, <2>7
  <1>9. ledger' \in Corrected /\ \A b \in Accounts, d \in Dims : ledger'[b][d] = ledger[b][d] + back(b, d)
    <2>1. ASSUME NEW b \in Accounts, NEW d \in Dims
          PROVE  ledger'[b][d] \in Int /\ ledger'[b][d] = ledger[b][d] + back(b, d)
      <3>1. ledger[b][d] \in Int /\ unused[d] \in Nat
        BY <1>2, <1>6 DEF Corrected
      <3>2. ledger'[b][d] = IF b \in own /\ d \in settled THEN ledger[b][d] + 1 * unused[d] ELSE ledger[b][d]
        BY <1>5
      <3> QED BY <3>1, <3>2
    <2>2. \A b \in Accounts : ledger'[b] = [d \in Dims |-> ledger'[b][d]]
      BY <1>2, <1>5 DEF Corrected
    <2>3. ledger' = [b \in Accounts |-> ledger'[b]]
      BY <1>5
    <2>4. \A b \in Accounts : ledger'[b] \in [Dims -> Int]
      BY <2>1, <2>2
    <2>5. ledger' \in Corrected
      BY <2>3, <2>4 DEF Corrected
    <2> QED BY <2>1, <2>5
  <1>10. ASSUME NEW a \in Accounts, NEW d \in Dims
         PROVE  /\ ledger'[a][d] >= ledger[a][d]
                /\ ~account[a].open => ledger'[a][d] = ledger[a][d]
                /\ ledger'[a][d] - ledger[a][d] = HeldBy(resv, account, a, d) - HeldBy(resv', account, a, d)
    <2>1. ledger[a][d] \in Int /\ back(a, d) \in Nat /\ ledger'[a][d] = ledger[a][d] + back(a, d)
      BY <1>2, <1>6, <1>9 DEF Corrected
    <2>2. ~account[a].open => back(a, d) = 0
      <3>1. ASSUME d \in settled, a \in own PROVE account[a].open
        BY <1>1, <1>7, <3>1, ChainOpen DEF own
      <3> QED BY <3>1
    <2> DEFINE new == resv'
               c == IF d \in settled THEN -unused[d] ELSE 0
    <2>3. /\ new \in Reservations /\ \A x \in Work \ {w} : new[x][d] = resv[x][d]
          /\ c \in Int
      BY <1>6, <1>8
    <2>4. new[w][d].amount - new[w][d].released = resv[w][d].amount - resv[w][d].released + c
      <3>1. CASE d \in settled
        <4>1. /\ new[w][d].amount = resv[w][d].amount /\ new[w][d].released = unused[d]
              /\ resv[w][d].released = 0 /\ unused[d] \in Nat /\ resv[w][d].amount \in Nat /\ c = -unused[d]
          BY <1>6, <1>7, <1>8, <3>1
        <4> HIDE DEF new, c
        <4> QED BY <4>1
      <3>2. CASE d \notin settled
        <4>1. new[w][d] = resv[w][d] /\ c = 0
          BY <1>8, <3>2
        <4>2. resv[w][d].amount \in Int /\ resv[w][d].released \in Int
          BY <1>2 DEF Reservations
        <4> HIDE DEF new, c
        <4> QED BY <4>1, <4>2
      <3> QED BY <3>1, <3>2
    <2>5. back(a, d) = -(IF a \in own THEN c ELSE 0)
      <3>1. unused[d] \in Nat
        BY <1>6
      <3> QED BY <3>1
    <2> HIDE DEF new, c, back
    <2>6. /\ HeldBy(new, account, a, d) = HeldBy(resv, account, a, d) + (IF a \in ChainIn(account, OwnerOf[w]) THEN c ELSE 0)
          /\ HeldBy(resv, account, a, d) \in Int
      <3>1. resv \in Reservations /\ new \in Reservations /\ w \in Work /\ d \in Dims /\ c \in Int
        BY <1>2, <2>3
      <3>2. \A x \in Work \ {w} : new[x][d] = resv[x][d]
        BY <2>3
      <3> QED BY <2>4, <3>1, <3>2, HoldingMovesOne
    <2>7. ledger'[a][d] - ledger[a][d] = HeldBy(resv, account, a, d) - HeldBy(new, account, a, d)
      BY <2>1, <2>3, <2>5, <2>6 DEF own
    <2> QED BY <2>1, <2>2, <2>7 DEF new
  <1>11. /\ work' \in [Work -> {"none", "waiting", "live", "refused", "ended"}]
         /\ work'[w] = "ended" /\ \A x \in Work : work'[x] = work[x] \/ work'[x] = "ended"
    BY <1>1, <1>3 DEF LedgerTypeOK
  <1>12. ASSUME NEW x \in Work, NEW d \in Dims
         PROVE  \/ resv'[x][d] = resv[x][d]
                \/ /\ resv[x][d].status # "NONE" /\ resv'[x][d].status \in {"COMMITTED", "RELEASED"}
                   /\ resv'[x][d].status = "COMMITTED" => resv'[x][d].released = 0
                   /\ resv'[x][d].committed <= resv'[x][d].amount - resv'[x][d].released
                   /\ work'[x] = "ended"
    <2>1. CASE x # w \/ d \notin settled
      BY <1>8, <2>1
    <2>2. CASE x = w /\ d \in settled
      <3>1. /\ resv'[w][d].status = IF unused[d] > 0 THEN "RELEASED" ELSE "COMMITTED"
            /\ resv'[w][d].amount = resv[w][d].amount
            /\ resv'[w][d].committed = spent[d] /\ resv'[w][d].released = unused[d]
        BY <1>8, <2>2
      <3>2. /\ spent[d] \in Nat /\ unused[d] \in Nat /\ spent[d] = resv[w][d].amount - unused[d]
        BY <1>6
      <3>3. resv[w][d].status # "NONE"
        BY <1>7, <2>2
      <3> QED BY <1>11, <2>2, <3>1, <3>2, <3>3
    <2> QED BY <2>1, <2>2
  <1> HIDE DEF back
  <1> QED BY <1>3, <1>8, <1>9, <1>10, <1>11, <1>12, ReturnKeepsLedger

\* Retiring attempts gives back all they reserved, to every account that was
\* charged, however many attempts one transaction retires.
LEMMA ReleaseKeepsLedger ==
  ASSUME LedgerInv, NEW ws \in SUBSET Work, ReleaseForAction(ws),
         account' = account, adjusted' = adjusted, plan' = plan,
         work' = [w \in Work |-> IF w \in ws THEN "ended" ELSE work[w]]
  PROVE  LedgerInv'
PROOF
  <1> DEFINE held(w) == {d \in Dims : resv[w][d].status # "NONE"}
             amounts(d) == [w \in Work |-> resv[w][d].amount]
             paid(a, d) == {w \in ws : d \in held(w) /\ a \in ChainIn(account, OwnerOf[w])}
             back(a, d) == SumOver(amounts(d), paid(a, d))
  <1>1. LedgerTypeOK /\ Hierarchy(account) /\ ReservationsFit /\ \A w \in Work : OwnerOf[w] \in Accounts
    BY BudgetAssumption DEF LedgerInv, Accounts
  <1>2. /\ account \in AccountTable /\ adjusted \in Corrected /\ ledger \in Corrected
        /\ resv \in Reservations
    BY <1>1, LedgerTypes
  <1>3. \A w \in ws : \A d \in held(w) : resv[w][d].status \in {"ACTIVE", "COMMITTED"} /\ resv[w][d].committed = 0
    BY DEF ReleaseForAction
  <1>4. resv' = [w \in Work |-> IF w \notin ws THEN resv[w]
                 ELSE [d \in Dims |-> IF d \notin held(w) THEN resv[w][d]
                       ELSE [resv[w][d] EXCEPT !.status = "RELEASED", !.released = resv[w][d].amount]]]
    BY DEF ReleaseForAction
  <1>5. ledger' = [a \in Accounts |-> [d \in Dims |-> ledger[a][d] + back(a, d)]]
    <2>1. \A a : Chain(a) = ChainIn(account, a)
      BY ChainIs
    <2>2. \A a \in Accounts, d \in Dims : paid(a, d) = {w \in ws : d \in held(w) /\ a \in Chain(OwnerOf[w])}
      BY <2>1
    <2>3. ledger' = [a \in Accounts |-> [d \in Dims |-> ledger[a][d]
             + SumOver(amounts(d), {w \in ws : d \in held(w) /\ a \in Chain(OwnerOf[w])})]]
      BY DEF ReleaseForAction, SumOver
    <2> HIDE DEF paid, held, amounts
    <2> QED BY <2>2, <2>3
  <1>6. \A w \in ws, d \in Dims : d \in held(w) => /\ resv[w][d].released = 0 /\ account[OwnerOf[w]].open
                                                   /\ resv[w][d].committed = 0 /\ resv[w][d].status # "NONE"
    BY <1>1, <1>3 DEF ReservationsFit, ReservationFits, NoReservation
  <1>7. \A d \in Dims, w \in Work : amounts(d)[w] \in Nat
    BY <1>2 DEF Reservations
  <1>8. \A a \in Accounts, d \in Dims : paid(a, d) \subseteq Work
    OBVIOUS
  <1>9. \A a \in Accounts, d \in Dims : back(a, d) \in Nat
    <2> SUFFICES ASSUME NEW a \in Accounts, NEW d \in Dims PROVE back(a, d) \in Nat
      OBVIOUS
    <2> DEFINE f == amounts(d)
               T == paid(a, d)
    <2>1. IsFiniteSet(T) /\ \A x \in T : f[x] \in Nat
      BY <1>7, <1>8, BudgetAssumption, FS_Subset
    <2> HIDE DEF f, T
    <2>2. SumOver(f, T) \in Nat
      BY <2>1, SumNat
    <2> QED BY <2>2 DEF f, T
  <1>10. \A a \in Accounts, d \in Dims : ~account[a].open => back(a, d) = 0
    <2> SUFFICES ASSUME NEW a \in Accounts, NEW d \in Dims, ~account[a].open PROVE back(a, d) = 0
      OBVIOUS
    <2> DEFINE T == paid(a, d)
    <2>1. \A w \in T : w \in Work /\ account[OwnerOf[w]].open /\ a \in ChainIn(account, OwnerOf[w])
      BY <1>6
    <2>2. T = {}
      <3> HIDE DEF T
      <3> QED BY <1>1, <2>1, ChainOpen
    <2>3. IsFiniteSet(T)
      BY <2>2, FS_EmptySet
    <2> HIDE DEF T, amounts
    <2> QED BY <2>2, <2>3, SumStep DEF T
  <1>11. \A a \in Accounts, d \in Dims : ledger'[a][d] = ledger[a][d] + back(a, d)
    <2> HIDE DEF back
    <2> QED BY <1>5
  <1>12. ledger' \in Corrected
    <2>1. \A a \in Accounts, d \in Dims : ledger[a][d] + back(a, d) \in Int
      <3> SUFFICES ASSUME NEW a \in Accounts, NEW d \in Dims PROVE ledger[a][d] + back(a, d) \in Int
        OBVIOUS
      <3>1. ledger[a][d] \in Int /\ back(a, d) \in Nat
        BY <1>2, <1>9 DEF Corrected
      <3> HIDE DEF back
      <3> QED BY <3>1
    <2> HIDE DEF back
    <2> QED BY <1>5, <2>1 DEF Corrected
  <1> HIDE DEF back
  <1>13. ASSUME NEW w \in Work, NEW d \in Dims
         PROVE  /\ ~(w \in ws /\ d \in held(w)) => resv'[w][d] = resv[w][d]
                /\ w \in ws /\ d \in held(w) =>
                     /\ resv'[w][d].status = "RELEASED" /\ resv'[w][d].amount = resv[w][d].amount
                     /\ resv'[w][d].released = resv[w][d].amount /\ resv'[w][d].committed = resv[w][d].committed
                /\ resv'[w][d] \in [status : ReservationStatus, amount : Nat, committed : Nat, released : Nat]
    <2>1. resv[w][d] \in [status : ReservationStatus, amount : Nat, committed : Nat, released : Nat]
      BY <1>2 DEF Reservations
    <2>2. CASE ~(w \in ws /\ d \in held(w))
      <3>1. resv'[w][d] = resv[w][d]
        BY <1>4, <2>2
      <3> QED BY <2>1, <2>2, <3>1
    <2>3. CASE w \in ws /\ d \in held(w)
      <3>1. resv'[w][d] = [resv[w][d] EXCEPT !.status = "RELEASED", !.released = resv[w][d].amount]
        BY <1>4, <2>3
      <3> QED BY <2>1, <2>3, <3>1 DEF ReservationStatus
    <2> QED BY <2>2, <2>3
  <1>14. resv' \in Reservations
    <2>1. resv' = [w \in Work |-> resv'[w]] /\ \A w \in Work : resv'[w] = [d \in Dims |-> resv'[w][d]]
      BY <1>2, <1>4 DEF Reservations
    <2>2. \A w \in Work : resv'[w] \in [Dims -> [status : ReservationStatus, amount : Nat, committed : Nat, released : Nat]]
      <3> HIDE DEF held
      <3> QED BY <1>13, <2>1
    <2> QED BY <2>1, <2>2 DEF Reservations
  <1> HIDE DEF held
  <1>15. ASSUME NEW a \in Accounts, NEW d \in Dims
         PROVE  ledger'[a][d] - ledger[a][d] = HeldBy(resv, account, a, d) - HeldBy(resv', account, a, d)
    <2> DEFINE f == Holding(resv', d)
               g == Holding(resv, d)
               k == amounts(d)
               S == WorkBelow(account, a)
               T == paid(a, d)
    <2>1. \A x \in Work : f[x] \in Int /\ g[x] \in Int /\ k[x] \in Int
      BY <1>2, <1>7, <1>14 DEF Holding, Reservations
    <2>2. S \subseteq Work /\ T \subseteq Work
      BY DEF WorkBelow
    <2>3. ASSUME NEW x \in Work
          PROVE  (IF x \in S THEN g[x] ELSE 0) = (IF x \in S THEN f[x] ELSE 0) + (IF x \in T THEN k[x] ELSE 0)
      <3>0. f[x] \in Int /\ g[x] \in Int /\ k[x] \in Int
        BY <2>1
      <3>1. CASE x \notin S
        <4>1. x \notin T
          BY <3>1 DEF WorkBelow
        <4> HIDE DEF f, g, k, S, T
        <4> QED BY <3>1, <4>1
      <3>2. CASE x \in S /\ x \in T
        <4>1. x \in ws /\ d \in held(x)
          BY <3>2
        <4>2. /\ resv'[x][d].amount = resv[x][d].amount /\ resv'[x][d].released = resv[x][d].amount
              /\ resv[x][d].released = 0 /\ resv[x][d].amount \in Nat
          BY <1>6, <1>7, <1>13, <4>1
        <4>3. f[x] = resv'[x][d].amount - resv'[x][d].released /\ g[x] = resv[x][d].amount - resv[x][d].released
              /\ k[x] = resv[x][d].amount
          BY DEF Holding
        <4> HIDE DEF f, g, k, S, T
        <4> QED BY <3>2, <4>2, <4>3
      <3>3. CASE x \in S /\ x \notin T
        <4>1. ~(x \in ws /\ d \in held(x))
          BY <3>3 DEF WorkBelow
        <4>2. resv'[x][d] = resv[x][d]
          BY <1>13, <4>1
        <4>3. f[x] = g[x]
          BY <4>2 DEF Holding
        <4> HIDE DEF f, g, k, S, T
        <4> QED BY <3>0, <3>3, <4>3
      <3> QED BY <3>1, <3>2, <3>3
    <2>4. back(a, d) = SumOver(k, T) /\ HeldBy(resv, account, a, d) = SumOver(g, S)
          /\ HeldBy(resv', account, a, d) = SumOver(f, S)
      BY DEF back, HeldBy
    <2>5. ledger[a][d] \in Int /\ ledger'[a][d] = ledger[a][d] + back(a, d)
      BY <1>2, <1>11 DEF Corrected
    <2> HIDE DEF f, g, k, S, T
    <2>6. Moves(Work, S, S, T, f, g, k)
      BY <2>1, <2>2, <2>3, BudgetAssumption DEF Moves
    <2>7. /\ SumOver(g, S) = SumOver(f, S) + SumOver(k, T)
          /\ SumOver(g, S) \in Int /\ SumOver(f, S) \in Int /\ SumOver(k, T) \in Int
      BY <2>6, SumMove
    <2> QED BY <2>4, <2>5, <2>7
  <1> HIDE DEF paid, amounts
  <1>16. \A a \in Accounts, d \in Dims :
           /\ ledger'[a][d] >= ledger[a][d]
           /\ ~account[a].open => ledger'[a][d] = ledger[a][d]
           /\ ledger'[a][d] - ledger[a][d] = HeldBy(resv, account, a, d) - HeldBy(resv', account, a, d)
    <2> SUFFICES ASSUME NEW a \in Accounts, NEW d \in Dims
                 PROVE  /\ ledger'[a][d] >= ledger[a][d]
                        /\ ~account[a].open => ledger'[a][d] = ledger[a][d]
      BY <1>15
    <2>1. ledger[a][d] \in Int /\ ledger'[a][d] = ledger[a][d] + back(a, d) /\ back(a, d) \in Nat
      BY <1>2, <1>9, <1>11 DEF Corrected
    <2> QED BY <1>10, <2>1
  <1>17. /\ work' \in [Work -> {"none", "waiting", "live", "refused", "ended"}]
         /\ \A x \in Work : work'[x] = work[x] \/ work'[x] = "ended"
         /\ \A x \in ws : work'[x] = "ended"
    BY <1>1 DEF LedgerTypeOK
  <1>18. \A w \in Work, d \in Dims :
           \/ resv'[w][d] = resv[w][d]
           \/ /\ resv[w][d].status # "NONE" /\ resv'[w][d].status \in {"COMMITTED", "RELEASED"}
              /\ resv'[w][d].status = "COMMITTED" => resv'[w][d].released = 0
              /\ resv'[w][d].committed <= resv'[w][d].amount - resv'[w][d].released
              /\ work'[w] = "ended"
    <2> SUFFICES ASSUME NEW w \in Work, NEW d \in Dims, w \in ws, d \in held(w)
                 PROVE  /\ resv[w][d].status # "NONE" /\ resv'[w][d].status \in {"COMMITTED", "RELEASED"}
                        /\ resv'[w][d].status = "COMMITTED" => resv'[w][d].released = 0
                        /\ resv'[w][d].committed <= resv'[w][d].amount - resv'[w][d].released
                        /\ work'[w] = "ended"
      BY <1>13
    <2>1. /\ resv'[w][d].status = "RELEASED" /\ resv'[w][d].amount = resv[w][d].amount
          /\ resv'[w][d].released = resv[w][d].amount /\ resv'[w][d].committed = resv[w][d].committed
      BY <1>13
    <2>2. resv[w][d].committed = 0 /\ resv[w][d].status # "NONE" /\ resv[w][d].amount \in Nat
      BY <1>2, <1>6 DEF Reservations
    <2> QED BY <1>17, <2>1, <2>2
  <1> QED BY <1>12, <1>14, <1>16, <1>17, <1>18, ReturnKeepsLedger

-----------------------------------------------------------------------------
(***************************************************************************)
(* Delegation                                                              *)
(***************************************************************************)

Approved(r) == request[r].status = "APPROVED"
LiveOf(w) == {r \in Requests : RequestedBy[r] = w /\ request[r].status \in LiveRequest}

\* Only an execution that exists has attempts or an account.
HasBegun ==
  /\ \A w \in Work : work[w] # "none" => exec[OwnerOf[w]] # "NONE"
  /\ \A e \in Executions : account[e].open => exec[e] # "NONE"

\* An execution other than the root exists through one approved request.
Born ==
  /\ \A e \in Executions : exec[e] # "NONE" => e = Root \/ \E q \in Requests : Approved(q) /\ Child[q] = e
  /\ \A r \in Requests : Approved(r) =>
       exec[Child[r]] # "NONE" /\ \A q \in Requests : Approved(q) /\ Child[q] = Child[r] => q = r

\* A live request is one generation below the request its requester runs by.
Generations ==
  \A r \in Requests : request[r].status \in LiveRequest =>
    /\ request[r].depth >= 1
    /\ Parent(r) = Root \/ \E q \in Requests :
         Approved(q) /\ Child[q] = Parent(r) /\ request[q].depth = request[r].depth - 1

FanoutFits == \A w \in Work : IsFiniteSet(LiveOf(w)) /\ Cardinality(LiveOf(w)) <= MaxRequests

\* A delegated child runs without a budget or below its parent's account.
Envelopes ==
  \A r \in Requests : Approved(r) =>
    \/ plan[Child[r]] = NoEnvelope /\ \A w \in Work : OwnerOf[w] = Child[r] => Declared(w) = {}
    \/ plan[Child[r]].parent = Parent(r) /\ plan[Child[r]].ceiling # Zero

ChildAccounts ==
  \A r \in Requests : Approved(r) /\ account[Child[r]].open =>
    /\ account[Child[r]].parent = Parent(r)
    /\ \A d \in Dims : account[Child[r]].ceiling[d] <= account[Parent(r)].ceiling[d]

DelegationInv ==
  /\ DelegationTypeOK /\ LedgerInv /\ HasBegun /\ Born /\ Generations /\ FanoutFits /\ Envelopes /\ ChildAccounts

LEMMA RequestTypes ==
  ASSUME NEW r \in Requests
  PROVE  /\ RequestedBy[r] \in Work /\ Parent(r) \in Executions /\ Parent(r) \in Accounts
         /\ Child[r] \in Executions /\ Child[r] \in Accounts /\ Child[r] # Root /\ Parent(r) # NoAccount
PROOF BY BudgetAssumption, DelegationAssumption DEF Parent, Accounts

\* Steps that touch no request and create no execution.
LEMMA RequestsRest ==
  ASSUME DelegationInv, LedgerInv', request' = request, plan' = plan,
         exec' \in [Executions -> {"NONE", "RUNNING"} \cup Ended],
         \A e \in Executions : exec'[e] = "NONE" <=> exec[e] = "NONE",
         HasBegun', ChildAccounts'
  PROVE  DelegationInv'
PROOF
  <1>1. DelegationTypeOK'
    BY DEF DelegationInv, DelegationTypeOK, LedgerInv
  <1>2. Born'
    BY RequestTypes DEF DelegationInv, Born, Approved
  <1>3. Generations' /\ Envelopes'
    BY DEF DelegationInv, Generations, Envelopes, Approved, Parent, Declared
  <1>4. FanoutFits'
    BY DEF DelegationInv, FanoutFits, LiveOf
  <1> QED BY <1>1, <1>2, <1>3, <1>4 DEF DelegationInv

\* Steps that open no account of an execution.
LEMMA AccountsRest ==
  ASSUME DelegationInv, LedgerInv', request' = request, plan' = plan,
         exec' \in [Executions -> {"NONE", "RUNNING"} \cup Ended],
         \A e \in Executions : exec'[e] = "NONE" <=> exec[e] = "NONE",
         \A e \in Executions : account'[e] = account[e],
         \A w \in Work : work'[w] # "none" => work[w] # "none" \/ exec[OwnerOf[w]] # "NONE"
  PROVE  DelegationInv'
PROOF
  <1>1. HasBegun'
    <2>1. \A w \in Work : OwnerOf[w] \in Executions
      BY BudgetAssumption
    <2> QED BY <2>1 DEF DelegationInv, HasBegun
  <1>2. ChildAccounts'
    BY RequestTypes DEF DelegationInv, ChildAccounts, Approved, Parent
  <1> QED BY <1>1, <1>2, RequestsRest

\* Granting work to an attempt of an execution that exists.
LEMMA GrantKeepsDelegation ==
  ASSUME DelegationInv, NEW w \in Work, work[w] \in {"none", "waiting"}, exec[OwnerOf[w]] # "NONE",
         Grant(w), UNCHANGED requestVars
  PROVE  DelegationInv'
PROOF
  <1> DEFINE e == OwnerOf[w]
             p == plan[e].parent
  <1>1. /\ LedgerInv /\ LedgerTypeOK /\ Hierarchy(account) /\ DelegationTypeOK /\ HasBegun /\ Envelopes /\ ChildAccounts
    BY DEF DelegationInv, LedgerInv
  <1>2. LedgerInv'
    BY <1>1, GrantKeepsLedger
  <1>3. request' = request /\ exec' = exec /\ plan' = plan /\ Declared(w) # {} /\ e \in Executions /\ e \in Accounts
    BY <1>1, AttemptTypes DEF requestVars, Grant, ReserveForAttempt
  <1>4. IF AccountReady(w) THEN EnsureExecutionAccount(w) ELSE UNCHANGED account
    BY DEF Grant, ReserveForAttempt
  <1>5. \A x \in Work : work'[x] # "none" => work[x] # "none" \/ x = w
    BY <1>1 DEF Grant, LedgerTypeOK
  <1>6. CASE account' = account
    <2>1. /\ exec' \in [Executions -> {"NONE", "RUNNING"} \cup Ended]
          /\ \A x \in Executions : exec'[x] = "NONE" <=> exec[x] = "NONE"
          /\ \A x \in Executions : account'[x] = account[x]
          /\ \A x \in Work : work'[x] # "none" => work[x] # "none" \/ exec[OwnerOf[x]] # "NONE"
      BY <1>1, <1>3, <1>5, <1>6 DEF DelegationTypeOK
    <2> QED BY <1>2, <1>3, <2>1, AccountsRest
  <1>7. CASE account' # account
    <2>1. AccountReady(w) /\ ~account[e].open
      BY <1>1, <1>4, <1>7, EnsuredAccount
    <2> DEFINE grant == GrantOf(w)
    <2>2. Opens(account, account', e, p, grant) /\ ChildCeilingSubset(grant, p)
      BY <1>1, <1>4, <2>1, EnsuredAccount
    <2>3. /\ Hierarchy(account') /\ account'[e].open /\ account'[e].parent = p /\ account'[e].ceiling = grant
          /\ \A a \in Accounts \ {e} : account'[a] = account[a]
      <3> HIDE DEF grant, e, p
      <3> QED BY <1>1, <1>3, <2>2, HierarchyGrows
    <2> HIDE DEF grant
    <2>4. HasBegun'
      <3>1. \A x \in Executions : x \in Accounts
        BY DEF Accounts
      <3> QED BY <1>1, <1>3, <1>5, <2>3, <3>1 DEF HasBegun
    <2>5. ChildAccounts'
      <3> SUFFICES ASSUME NEW r \in Requests, Approved(r), account'[Child[r]].open
                   PROVE  /\ account'[Child[r]].parent = Parent(r)
                          /\ \A d \in Dims : account'[Child[r]].ceiling[d] <= account'[Parent(r)].ceiling[d]
        BY <1>3 DEF ChildAccounts, Approved, Parent
      <3>1. Parent(r) \in Accounts /\ Child[r] \in Accounts /\ Parent(r) # NoAccount
        BY RequestTypes
      <3>2. CASE Child[r] = e
        <4>1. p = Parent(r) /\ plan[e].ceiling # Zero
          BY <1>1, <1>3, <3>2 DEF Envelopes
        <4>2. \A d \in Dims : grant[d] <= account[Parent(r)].ceiling[d]
          BY <2>2, <3>1, <4>1 DEF ChildCeilingSubset
        <4>3. account[Parent(r)].open
          BY <2>2, <3>1, <4>1 DEF Opens
        <4>4. account'[Parent(r)] = account[Parent(r)]
          BY <2>1, <2>3, <3>1, <4>3
        <4> QED BY <2>3, <3>2, <4>1, <4>2, <4>4
      <3>3. CASE Child[r] # e
        <4>1. account'[Child[r]] = account[Child[r]]
          BY <2>3, <3>1, <3>3
        <4>2. /\ account[Child[r]].parent = Parent(r)
              /\ \A d \in Dims : account[Child[r]].ceiling[d] <= account[Parent(r)].ceiling[d]
          BY <1>1, <4>1 DEF ChildAccounts
        <4>3. account[Parent(r)].open
          BY <1>1, <3>1, <4>1, <4>2 DEF Hierarchy
        <4>4. account'[Parent(r)] = account[Parent(r)]
          BY <2>1, <2>3, <3>1, <4>3
        <4> QED BY <4>1, <4>2, <4>4
      <3> QED BY <3>2, <3>3
    <2>6. /\ exec' \in [Executions -> {"NONE", "RUNNING"} \cup Ended]
          /\ \A x \in Executions : exec'[x] = "NONE" <=> exec[x] = "NONE"
      BY <1>1, <1>3 DEF DelegationTypeOK
    <2> QED BY <1>2, <1>3, <2>4, <2>5, <2>6, RequestsRest
  <1> QED BY <1>6, <1>7

LEMMA SpendKeepsDelegation ==
  ASSUME DelegationInv, NEW w \in Work, Spend(w), UNCHANGED requestVars
  PROVE  DelegationInv'
PROOF
  <1>1. /\ LedgerInv /\ LedgerTypeOK /\ HasBegun
        /\ exec \in [Executions -> {"NONE", "RUNNING"} \cup Ended]
    BY DEF DelegationInv, DelegationTypeOK, LedgerInv
  <1>2. request' = request /\ exec' = exec
    BY DEF requestVars
  <1>3. CASE exec[OwnerOf[w]] = "RUNNING" /\ ClaimWork(w)
    BY <1>3, GrantKeepsDelegation DEF ClaimWork
  <1>4. CASE ResumeWork(w)
    <2>1. exec[OwnerOf[w]] # "NONE" /\ work[w] = "waiting" /\ Grant(w)
      BY <1>1, <1>4 DEF ResumeWork, HasBegun
    <2> QED BY <2>1, GrantKeepsDelegation
  <1>5. CASE exec[OwnerOf[w]] = "RUNNING" /\ HoldForApproval(w)
    <2>1. /\ account' = account /\ ledger' = ledger /\ adjusted' = adjusted /\ resv' = resv /\ plan' = plan
          /\ work[w] = "none" /\ work' = [work EXCEPT ![w] = "waiting"]
      BY <1>5 DEF HoldForApproval
    <2>2. /\ work' \in [Work -> {"none", "waiting", "live", "refused", "ended"}]
          /\ \A x \in Work : /\ work'[x] = "live" => work[x] = "live"
                             /\ work'[x] \in {"none", "waiting"} => work[x] \in {"none", "waiting"}
          /\ \A x \in Work : work'[x] # "none" => work[x] # "none" \/ exec[OwnerOf[x]] # "NONE"
      BY <1>1, <1>5, <2>1 DEF LedgerTypeOK
    <2>3. plan' \in [Executions -> [parent : Accounts \cup {NoAccount}, ceiling : Amounts]]
      BY <1>1, <2>1 DEF LedgerTypeOK
    <2>4. LedgerInv'
      BY <1>1, <2>1, <2>2, <2>3, LedgerRests
    <2> QED BY <1>1, <1>2, <2>1, <2>2, <2>4, AccountsRest
  <1>6. ASSUME NEW usage \in Usages, SettleWork(w, usage) PROVE DelegationInv'
    <2>1. usage \in Amounts
      BY BudgetAssumption
    <2>2. LedgerInv'
      BY <1>1, <1>6, <2>1, SettleKeepsLedger
    <2>3. account' = account /\ plan' = plan /\ work[w] = "live" /\ work' = [work EXCEPT ![w] = "ended"]
      BY <1>6 DEF SettleWork
    <2>4. \A x \in Work : work'[x] # "none" => work[x] # "none" \/ exec[OwnerOf[x]] # "NONE"
      BY <1>1, <2>3 DEF LedgerTypeOK
    <2> QED BY <1>1, <1>2, <2>2, <2>3, <2>4, AccountsRest
  <1>7. CASE RejectWork(w)
    <2>1. /\ ReleaseForAction({w}) /\ account' = account /\ adjusted' = adjusted /\ plan' = plan
          /\ work[w] = "live" /\ work' = [work EXCEPT ![w] = "ended"]
      BY <1>7 DEF RejectWork
    <2> DEFINE ws == {w}
    <2>2. work' = [x \in Work |-> IF x \in ws THEN "ended" ELSE work[x]]
      BY <1>1, <2>1 DEF LedgerTypeOK
    <2>3. ws \in SUBSET Work /\ ReleaseForAction(ws)
      BY <2>1
    <2>4. LedgerInv'
      <3> HIDE DEF ws
      <3> QED BY <1>1, <2>1, <2>2, <2>3, ReleaseKeepsLedger
    <2>5. \A x \in Work : work'[x] # "none" => work[x] # "none" \/ exec[OwnerOf[x]] # "NONE"
      BY <1>1, <2>1 DEF LedgerTypeOK
    <2> QED BY <1>1, <1>2, <2>1, <2>4, <2>5, AccountsRest
  <1> QED BY <1>3, <1>4, <1>5, <1>6, <1>7 DEF Spend

LEMMA OperateKeepsDelegation ==
  ASSUME DelegationInv, Operate, UNCHANGED requestVars
  PROVE  DelegationInv'
PROOF
  <1>1. /\ LedgerInv /\ exec \in [Executions -> {"NONE", "RUNNING"} \cup Ended] /\ Hierarchy(account)
    BY DEF DelegationInv, DelegationTypeOK, LedgerInv
  <1>2. request' = request /\ exec' = exec
    BY DEF requestVars
  <1>3. ASSUME NEW a \in OperatorAccounts, NEW p \in OperatorAccounts \cup {NoAccount}, NEW c \in Ceilings,
               CreateAccount(a, p, c)
        PROVE  DelegationInv'
    <2>1. a \in Accounts /\ p \in Accounts \cup {NoAccount} /\ c \in Amounts
      BY BudgetAssumption DEF Accounts
    <2>2. LedgerInv'
      BY <1>1, <1>3, <2>1, CreateKeepsLedger
    <2>3. /\ plan' = plan /\ work' = work
          /\ account' = [account EXCEPT ![a] = [open |-> TRUE, parent |-> p, ceiling |-> c]]
      BY <1>3 DEF CreateAccount, OpenAccount
    <2>4. \A e \in Executions : account'[e] = account[e]
      BY <1>1, <2>3, BudgetAssumption DEF Hierarchy, AccountTable, Accounts
    <2> QED BY <1>1, <1>2, <2>2, <2>3, <2>4, AccountsRest
  <1>4. ASSUME NEW a \in Accounts, NEW d \in Dims, NEW delta \in Deltas, Adjust(a, d, delta)
        PROVE  DelegationInv'
    <2>1. delta \in Int
      BY BudgetAssumption
    <2>2. LedgerInv'
      BY <1>1, <1>4, <2>1, AdjustKeepsLedger
    <2>3. plan' = plan /\ work' = work /\ account' = account
      BY <1>4 DEF Adjust
    <2> QED BY <1>1, <1>2, <2>2, <2>3, AccountsRest
  <1> QED BY <1>3, <1>4 DEF Operate

LEMMA CancelKeepsDelegation ==
  ASSUME DelegationInv, NEW e \in Executions, CancelExecution(e)
  PROVE  DelegationInv'
PROOF
  <1> DEFINE ws == {w \in Work : OwnerOf[w] = e /\ work[w] \in {"live", "waiting"}}
  <1>1. /\ LedgerInv /\ exec \in [Executions -> {"NONE", "RUNNING"} \cup Ended]
    BY DEF DelegationInv, DelegationTypeOK, LedgerInv
  <1>2. /\ request' = request /\ exec' = [exec EXCEPT ![e] = "CANCELLED"] /\ exec[e] = "RUNNING"
        /\ ReleaseForAction(ws) /\ account' = account /\ adjusted' = adjusted /\ plan' = plan
        /\ work' = [w \in Work |-> IF w \in ws THEN "ended" ELSE work[w]]
    BY DEF CancelExecution, CancelWork
  <1>3. ws \in SUBSET Work /\ \A x \in ws : work[x] # "none"
    OBVIOUS
  <1> HIDE DEF ws
  <1>4. LedgerInv'
    BY <1>1, <1>2, <1>3, ReleaseKeepsLedger
  <1>5. /\ \A x \in Work : work'[x] # "none" => work[x] # "none" \/ exec[OwnerOf[x]] # "NONE"
        /\ exec' \in [Executions -> {"NONE", "RUNNING"} \cup Ended]
        /\ \A x \in Executions : exec'[x] = "NONE" <=> exec[x] = "NONE"
    BY <1>1, <1>2, <1>3 DEF Ended
  <1> QED BY <1>2, <1>4, <1>5, AccountsRest

LEMMA EndKeepsDelegation ==
  ASSUME DelegationInv, NEW e \in Executions, NEW status \in {"COMPLETED", "FAILED"}, EndExecution(e, status)
  PROVE  DelegationInv'
PROOF
  <1>1. /\ LedgerInv /\ exec \in [Executions -> {"NONE", "RUNNING"} \cup Ended] /\ LedgerTypeOK
    BY DEF DelegationInv, DelegationTypeOK, LedgerInv
  <1>2. /\ request' = request /\ exec' = [exec EXCEPT ![e] = status] /\ exec[e] = "RUNNING"
        /\ account' = account /\ ledger' = ledger /\ adjusted' = adjusted /\ resv' = resv /\ plan' = plan
        /\ work' = work
    BY DEF EndExecution, ledgerVars
  <1>3. LedgerInv'
    <2>1. /\ plan' \in [Executions -> [parent : Accounts \cup {NoAccount}, ceiling : Amounts]]
          /\ work' \in [Work -> {"none", "waiting", "live", "refused", "ended"}]
      BY <1>1, <1>2 DEF LedgerTypeOK
    <2> QED BY <1>1, <1>2, <2>1, LedgerRests
  <1>4. /\ exec' \in [Executions -> {"NONE", "RUNNING"} \cup Ended]
        /\ \A x \in Executions : exec'[x] = "NONE" <=> exec[x] = "NONE"
    BY <1>1, <1>2 DEF Ended
  <1> QED BY <1>2, <1>3, <1>4, AccountsRest

\* The depth of a requester is the depth of the request it runs by.
LEMMA ParentDepthIs ==
  ASSUME DelegationInv, NEW r \in Requests, work[RequestedBy[r]] # "none"
  PROVE  /\ ParentDepth(Parent(r)) \in Nat
         /\ Parent(r) = Root \/ \E q \in Requests :
              Approved(q) /\ Child[q] = Parent(r) /\ request[q].depth = ParentDepth(Parent(r))
PROOF
  <1> DEFINE e == Parent(r)
             D == {0} \cup {request[x].depth : x \in {q \in Requests : request[q].status = "APPROVED" /\ Child[q] = e}}
  <1>1. e \in Executions /\ exec[e] # "NONE"
    BY RequestTypes DEF DelegationInv, HasBegun, Parent
  <1>2. \A q \in Requests : request[q].depth \in Nat /\ Child[q] # Root
    BY RequestTypes, DelegationAssumption DEF DelegationInv, DelegationTypeOK
  <1>3. ParentDepth(e) = Max(D)
    BY DEF ParentDepth
  <1>4. CASE e = Root
    <2>1. D = {0}
      BY <1>2, <1>4
    <2> HIDE DEF D, e
    <2>2. Max(D) = 0
      BY <2>1 DEF Max
    <2> QED BY <1>3, <1>4, <2>2 DEF e
  <1>5. CASE e # Root
    <2>1. PICK q \in Requests : Approved(q) /\ Child[q] = e
      BY <1>1, <1>5 DEF DelegationInv, Born
    <2>2. \A x \in Requests : Approved(x) /\ Child[x] = e => x = q
      BY <2>1 DEF DelegationInv, Born
    <2> DEFINE n == request[q].depth
    <2>3. D = {0, n}
      <3>1. {x \in Requests : request[x].status = "APPROVED" /\ Child[x] = e} = {q}
        BY <2>1, <2>2 DEF Approved
      <3> QED BY <3>1
    <2>4. n \in Nat
      BY <1>2
    <2> HIDE DEF D, e, n
    <2>5. Max(D) = n
      <3>1. n \in D /\ \A y \in D : n >= y
        BY <2>3, <2>4
      <3>2. Max(D) \in D /\ \A y \in D : Max(D) >= y
        BY <3>1 DEF Max
      <3> QED BY <2>3, <2>4, <3>1, <3>2
    <2> QED BY <1>3, <2>1, <2>4, <2>5 DEF e, n
  <1> QED BY <1>4, <1>5

LEMMA RequestKeepsDelegation ==
  ASSUME DelegationInv, NEW r \in Requests, RequestDelegation(r)
  PROVE  DelegationInv'
PROOF
  <1> DEFINE n == ParentDepth(Parent(r)) + 1
             R == [status : {"NONE", "REJECTED", "EXPIRED"} \cup LiveRequest, depth : 0 .. MaxDepth]
  <1>1. /\ LedgerInv /\ LedgerTypeOK /\ exec \in [Executions -> {"NONE", "RUNNING"} \cup Ended]
        /\ request \in [Requests -> R]
    BY DEF DelegationInv, DelegationTypeOK, LedgerInv
  <1>2. /\ request[r].status = "NONE" /\ work[RequestedBy[r]] # "none"
        /\ Fanout(RequestedBy[r]) < MaxRequests /\ n <= MaxDepth
        /\ request' = [request EXCEPT ![r] = [status |-> "PENDING", depth |-> n]]
        /\ exec' = exec /\ account' = account /\ ledger' = ledger /\ adjusted' = adjusted
        /\ resv' = resv /\ plan' = plan /\ work' = work
    BY DEF RequestDelegation, ledgerVars
  <1>3. /\ n \in Nat \ {0}
        /\ Parent(r) = Root \/ \E q \in Requests : Approved(q) /\ Child[q] = Parent(r) /\ request[q].depth = n - 1
    <2>1. /\ ParentDepth(Parent(r)) \in Nat
          /\ Parent(r) = Root \/ \E q \in Requests :
               Approved(q) /\ Child[q] = Parent(r) /\ request[q].depth = ParentDepth(Parent(r))
      BY <1>2, ParentDepthIs
    <2>2. ParentDepth(Parent(r)) = n - 1 /\ n \in Nat \ {0}
      BY <2>1
    <2> HIDE DEF n
    <2> QED BY <2>1, <2>2
  <1> HIDE DEF n
  <1>4. /\ request'[r] = [status |-> "PENDING", depth |-> n]
        /\ \A q \in Requests \ {r} : request'[q] = request[q]
        /\ request' \in [Requests -> R]
    <2>1. [status |-> "PENDING", depth |-> n] \in R
      BY <1>2, <1>3, DelegationAssumption DEF LiveRequest
    <2> HIDE DEF R
    <2> QED BY <1>1, <1>2, <2>1
  <1>5. LedgerInv'
    <2>1. /\ plan' \in [Executions -> [parent : Accounts \cup {NoAccount}, ceiling : Amounts]]
          /\ work' \in [Work -> {"none", "waiting", "live", "refused", "ended"}]
      BY <1>1, <1>2 DEF LedgerTypeOK
    <2> QED BY <1>1, <1>2, <2>1, LedgerRests
  <1>6. \A q \in Requests : Approved(q)' <=> Approved(q)
    BY <1>2, <1>4 DEF Approved
  <1>7. \A q \in Requests : Approved(q) => request'[q] = request[q]
    BY <1>2, <1>4 DEF Approved
  <1>8. DelegationTypeOK'
    BY <1>1, <1>2, <1>4, <1>5 DEF DelegationTypeOK, LedgerInv
  <1>9. HasBegun' /\ Born' /\ Envelopes' /\ ChildAccounts'
    BY <1>2, <1>6 DEF DelegationInv, HasBegun, Born, Envelopes, ChildAccounts, Parent, Declared
  <1>10. Generations'
    <2> SUFFICES ASSUME NEW x \in Requests, request'[x].status \in LiveRequest
                 PROVE  /\ request'[x].depth >= 1
                        /\ Parent(x) = Root \/ \E q \in Requests :
                             Approved(q)' /\ Child[q] = Parent(x) /\ request'[q].depth = request'[x].depth - 1
      BY DEF Generations, Parent
    <2>1. CASE x = r
      <3>1. request'[x].depth = n
        BY <1>4, <2>1
      <3> QED BY <1>3, <1>6, <1>7, <2>1, <3>1
    <2>2. CASE x # r
      <3>1. request'[x] = request[x]
        BY <1>4, <2>2
      <3> QED BY <1>6, <1>7, <3>1 DEF DelegationInv, Generations
    <2> QED BY <2>1, <2>2
  <1>11. FanoutFits'
    <2> SUFFICES ASSUME NEW w \in Work PROVE IsFiniteSet(LiveOf(w)') /\ Cardinality(LiveOf(w)') <= MaxRequests
      BY DEF FanoutFits
    <2>1. IsFiniteSet(LiveOf(w)) /\ Cardinality(LiveOf(w)) <= MaxRequests
      BY DEF DelegationInv, FanoutFits
    <2>2. CASE RequestedBy[r] = w
      <3>1. LiveOf(w)' = LiveOf(w) \cup {r} /\ r \notin LiveOf(w)
        BY <1>2, <1>4, <2>2 DEF LiveOf, LiveRequest
      <3>2. Cardinality(LiveOf(w)) < MaxRequests
        BY <1>2, <2>2 DEF Fanout, LiveOf
      <3>3. IsFiniteSet(LiveOf(w) \cup {r}) /\ Cardinality(LiveOf(w) \cup {r}) = Cardinality(LiveOf(w)) + 1
        BY <2>1, <3>1, FS_AddElement
      <3>4. Cardinality(LiveOf(w)) \in Nat /\ MaxRequests \in Nat
        BY <2>1, FS_CardinalityType, DelegationAssumption
      <3> QED BY <3>1, <3>2, <3>3, <3>4
    <2>3. CASE RequestedBy[r] # w
      <3>1. LiveOf(w)' = LiveOf(w)
        BY <1>4, <2>3 DEF LiveOf
      <3> QED BY <2>1, <3>1
    <2> QED BY <2>2, <2>3
  <1> QED BY <1>5, <1>8, <1>9, <1>10, <1>11 DEF DelegationInv

\* A decision leaves fewer live requests, or as many, and changes no depth.
LEMMA DecideEffect ==
  ASSUME DelegationInv, NEW r \in Requests,
         NEW status \in {"REJECTED", "EXPIRED", "APPROVED"}, Decide(r, status)
  PROVE  /\ request' \in [Requests ->
              [status : {"NONE", "REJECTED", "EXPIRED"} \cup LiveRequest, depth : 0 .. MaxDepth]]
         /\ request[r].status = "PENDING" /\ request'[r].status = status
         /\ \A q \in Requests : request'[q].depth = request[q].depth
         /\ \A q \in Requests \ {r} : request'[q] = request[q]
         /\ \A q \in Requests : request'[q].status \in LiveRequest => request[q].status \in LiveRequest
         /\ FanoutFits'
PROOF
  <1> DEFINE R == [status : {"NONE", "REJECTED", "EXPIRED"} \cup LiveRequest, depth : 0 .. MaxDepth]
  <1>1. /\ request \in [Requests -> R] /\ request[r].status = "PENDING"
        /\ request' = [request EXCEPT ![r].status = status]
    BY DEF DelegationInv, DelegationTypeOK, Decide
  <1>2. /\ request'[r] = [request[r] EXCEPT !.status = status]
        /\ \A q \in Requests \ {r} : request'[q] = request[q]
    <2> HIDE DEF R
    <2> QED BY <1>1
  <1>3. /\ request'[r].status = status /\ request'[r].depth = request[r].depth /\ request'[r] \in R
    BY <1>1, <1>2 DEF LiveRequest
  <1>4. request' \in [Requests -> R]
    <2> HIDE DEF R
    <2>1. [request EXCEPT ![r].status = status] = [request EXCEPT ![r] = request'[r]]
      BY <1>1
    <2> QED BY <1>1, <1>3, <2>1
  <1>5. \A q \in Requests : request'[q].status \in LiveRequest => request[q].status \in LiveRequest
    BY <1>1, <1>2 DEF LiveRequest
  <1>6. FanoutFits'
    <2> SUFFICES ASSUME NEW w \in Work PROVE IsFiniteSet(LiveOf(w)') /\ Cardinality(LiveOf(w)') <= MaxRequests
      BY DEF FanoutFits
    <2>1. IsFiniteSet(LiveOf(w)) /\ Cardinality(LiveOf(w)) <= MaxRequests /\ MaxRequests \in Nat
      BY DelegationAssumption DEF DelegationInv, FanoutFits
    <2>2. LiveOf(w)' \subseteq LiveOf(w)
      BY <1>5 DEF LiveOf
    <2> DEFINE S == LiveOf(w)
               T == LiveOf(w)'
    <2>3. IsFiniteSet(S) /\ T \subseteq S
      BY <2>1, <2>2
    <2> HIDE DEF S, T
    <2>4. IsFiniteSet(T) /\ Cardinality(T) <= Cardinality(S)
      BY <2>3, FS_Subset
    <2>5. Cardinality(T) \in Nat /\ Cardinality(S) \in Nat
      BY <2>3, <2>4, FS_CardinalityType
    <2> QED BY <2>1, <2>4, <2>5 DEF S, T
  <1> QED BY <1>1, <1>2, <1>3, <1>4, <1>5, <1>6

\* A rejected or expired request is gone.
LEMMA RefuseKeepsDelegation ==
  ASSUME DelegationInv, NEW r \in Requests, NEW status \in {"REJECTED", "EXPIRED"},
         Decide(r, status), UNCHANGED <<ledgerVars, exec>>
  PROVE  DelegationInv'
PROOF
  <1>1. /\ LedgerInv /\ LedgerTypeOK /\ exec \in [Executions -> {"NONE", "RUNNING"} \cup Ended]
    BY DEF DelegationInv, DelegationTypeOK, LedgerInv
  <1>2. /\ exec' = exec /\ account' = account /\ ledger' = ledger /\ adjusted' = adjusted
        /\ resv' = resv /\ plan' = plan /\ work' = work
    BY DEF ledgerVars
  <1>3. /\ request' \in [Requests ->
             [status : {"NONE", "REJECTED", "EXPIRED"} \cup LiveRequest, depth : 0 .. MaxDepth]]
        /\ request[r].status = "PENDING" /\ request'[r].status = status
        /\ \A q \in Requests : request'[q].depth = request[q].depth
        /\ \A q \in Requests \ {r} : request'[q] = request[q]
        /\ \A q \in Requests : request'[q].status \in LiveRequest => request[q].status \in LiveRequest
        /\ FanoutFits'
    BY DecideEffect
  <1>4. LedgerInv'
    <2>1. /\ plan' \in [Executions -> [parent : Accounts \cup {NoAccount}, ceiling : Amounts]]
          /\ work' \in [Work -> {"none", "waiting", "live", "refused", "ended"}]
      BY <1>1, <1>2 DEF LedgerTypeOK
    <2> QED BY <1>1, <1>2, <2>1, LedgerRests
  <1>5. \A q \in Requests : Approved(q)' <=> Approved(q)
    <2>1. ~Approved(r) /\ ~Approved(r)'
      BY <1>3 DEF Approved
    <2> QED BY <1>3, <2>1 DEF Approved
  <1>6. DelegationTypeOK'
    BY <1>1, <1>2, <1>3, <1>4 DEF DelegationTypeOK, LedgerInv
  <1>7. HasBegun' /\ Born' /\ Envelopes' /\ ChildAccounts'
    BY <1>2, <1>5 DEF DelegationInv, HasBegun, Born, Envelopes, ChildAccounts, Parent, Declared
  <1>8. Generations'
    BY <1>3, <1>5 DEF DelegationInv, Generations, Parent
  <1> QED BY <1>3, <1>4, <1>6, <1>7, <1>8 DEF DelegationInv

\* An approval materializes a child that did not exist, below its parent.
LEMMA ApproveKeepsDelegation ==
  ASSUME DelegationInv, NEW r \in Requests, NEW c \in Amounts, ApproveDelegation(r, c)
  PROVE  DelegationInv'
PROOF
  <1> DEFINE e == Child[r]
             env == IF c = Zero THEN NoEnvelope ELSE [parent |-> Parent(r), ceiling |-> c]
  <1>1. /\ LedgerInv /\ LedgerTypeOK /\ exec \in [Executions -> {"NONE", "RUNNING"} \cup Ended]
        /\ HasBegun /\ Born /\ Generations /\ Envelopes /\ ChildAccounts
    BY DEF DelegationInv, DelegationTypeOK, LedgerInv
  <1>2. /\ exec[e] = "NONE" /\ BudgetSubset(r, c) /\ Decide(r, "APPROVED")
        /\ exec' = [exec EXCEPT ![e] = "RUNNING"] /\ plan' = [plan EXCEPT ![e] = env]
        /\ account' = account /\ ledger' = ledger /\ adjusted' = adjusted /\ resv' = resv /\ work' = work
    BY DEF ApproveDelegation
  <1>3. /\ request' \in [Requests ->
             [status : {"NONE", "REJECTED", "EXPIRED"} \cup LiveRequest, depth : 0 .. MaxDepth]]
        /\ request[r].status = "PENDING" /\ request'[r].status = "APPROVED"
        /\ \A q \in Requests : request'[q].depth = request[q].depth
        /\ \A q \in Requests \ {r} : request'[q] = request[q]
        /\ \A q \in Requests : request'[q].status \in LiveRequest => request[q].status \in LiveRequest
        /\ FanoutFits'
    BY <1>2, DecideEffect
  <1>4. e \in Executions /\ Parent(r) \in Accounts
    BY RequestTypes
  <1>5. plan' \in [Executions -> [parent : Accounts \cup {NoAccount}, ceiling : Amounts]]
    <2>1. env \in [parent : Accounts \cup {NoAccount}, ceiling : Amounts]
      BY <1>4 DEF NoEnvelope, Zero, Amounts
    <2> QED BY <1>1, <1>2, <1>4, <2>1 DEF LedgerTypeOK
  <1>6. LedgerInv'
    <2>1. work' \in [Work -> {"none", "waiting", "live", "refused", "ended"}]
      BY <1>1, <1>2 DEF LedgerTypeOK
    <2> QED BY <1>1, <1>2, <1>5, <2>1, LedgerRests
  <1>7. \A q \in Requests : Approved(q)' <=> Approved(q) \/ q = r
    BY <1>3 DEF Approved
  <1>8. \A q \in Requests : Approved(q) => Child[q] # e
    BY <1>1, <1>2 DEF Born
  <1>9. /\ exec' \in [Executions -> {"NONE", "RUNNING"} \cup Ended]
        /\ exec'[e] = "RUNNING" /\ \A x \in Executions \ {e} : exec'[x] = exec[x]
    BY <1>1, <1>2, <1>4
  <1>10. plan'[e] = env /\ \A x \in Executions \ {e} : plan'[x] = plan[x]
    BY <1>1, <1>2, <1>4 DEF LedgerTypeOK
  <1>11. DelegationTypeOK'
    BY <1>3, <1>6, <1>9 DEF DelegationTypeOK, LedgerInv
  <1>12. HasBegun'
    BY <1>1, <1>2, <1>9, BudgetAssumption DEF HasBegun
  <1>13. Born'
    <2>1. \A x \in Executions : exec'[x] # "NONE" => x = Root \/ \E q \in Requests : Approved(q)' /\ Child[q] = x
      BY <1>1, <1>7, <1>9 DEF Born
    <2>2. ASSUME NEW x \in Requests, Approved(x)'
          PROVE  exec'[Child[x]] # "NONE" /\ \A q \in Requests : Approved(q)' /\ Child[q] = Child[x] => q = x
      BY <1>1, <1>7, <1>8, <1>9, <2>2, RequestTypes DEF Born
    <2> QED BY <2>1, <2>2 DEF Born
  <1>14. Generations'
    BY <1>1, <1>3, <1>7 DEF Generations, Parent
  <1>15. Envelopes'
    <2> SUFFICES ASSUME NEW x \in Requests, Approved(x)'
                 PROVE  \/ plan'[Child[x]] = NoEnvelope /\ \A w \in Work : OwnerOf[w] = Child[x] => Declared(w) = {}
                        \/ plan'[Child[x]].parent = Parent(x) /\ plan'[Child[x]].ceiling # Zero
      BY DEF Envelopes, Parent, Declared
    <2>1. CASE x = r
      <3>1. CASE c = Zero
        BY <1>2, <1>10, <2>1, <3>1 DEF BudgetSubset
      <3>2. CASE c # Zero
        BY <1>10, <2>1, <3>2
      <3> QED BY <3>1, <3>2
    <2>2. CASE x # r
      <3>1. Approved(x) /\ Child[x] \in Executions \ {e}
        BY <1>7, <1>8, <2>2, RequestTypes
      <3>2. plan'[Child[x]] = plan[Child[x]]
        BY <1>10, <3>1
      <3> QED BY <1>1, <3>1, <3>2 DEF Envelopes
    <2> QED BY <2>1, <2>2
  <1>16. ChildAccounts'
    <2>1. ~account[e].open
      BY <1>1, <1>2, <1>4 DEF HasBegun
    <2> QED BY <1>1, <1>2, <1>7, <2>1 DEF ChildAccounts, Parent
  <1> QED BY <1>3, <1>6, <1>11, <1>12, <1>13, <1>14, <1>15, <1>16 DEF DelegationInv

-----------------------------------------------------------------------------
(***************************************************************************)
(* The theorems                                                            *)
(***************************************************************************)

LEMMA DelegationInvInit == DelegationInit => DelegationInv
PROOF
  <1> SUFFICES ASSUME DelegationInit PROVE DelegationInv
    OBVIOUS
  <1>1. /\ account = [a \in Accounts |-> Closed] /\ ledger = [a \in Accounts |-> Zero]
        /\ adjusted = [a \in Accounts |-> Zero]
        /\ resv = [w \in Work |-> [d \in Dims |-> NoReservation]] /\ work = [w \in Work |-> "none"]
        /\ plan = [e \in Executions |-> IF e = Root THEN RootEnvelope ELSE NoEnvelope]
        /\ exec = [e \in Executions |-> IF e = Root THEN "RUNNING" ELSE "NONE"]
        /\ request = [r \in Requests |-> [status |-> "NONE", depth |-> 0]]
    BY DEF DelegationInit, LedgerInit
  <1>2. Zero \in Amounts /\ Zero \in [Dims -> Int]
    BY DEF Zero, Amounts
  <1>3. LedgerTypeOK
    <2>1. account \in [Accounts -> [open : BOOLEAN, parent : Accounts \cup {NoAccount}, ceiling : Amounts]]
      BY <1>1, <1>2 DEF Closed
    <2>2. ledger \in [Accounts -> [Dims -> Int]] /\ adjusted \in [Accounts -> [Dims -> Int]]
      BY <1>1, <1>2
    <2>3. plan \in [Executions -> [parent : Accounts \cup {NoAccount}, ceiling : Amounts]]
      BY <1>1, <1>2, DelegationAssumption DEF NoEnvelope
    <2>4. resv \in [Work -> [Dims ->
            [status : ReservationStatus, amount : Nat, committed : Nat, released : Nat]]]
      BY <1>1 DEF NoReservation, ReservationStatus
    <2>5. work \in [Work -> {"none", "waiting", "live", "refused", "ended"}]
      BY <1>1
    <2> QED BY <2>1, <2>2, <2>3, <2>4, <2>5 DEF LedgerTypeOK
  <1>4. Hierarchy(account) /\ ClosedIsEmpty
    BY <1>1, <1>3 DEF Hierarchy, ClosedIsEmpty, LedgerTypeOK, AccountTable, Closed
  <1>5. ReservationsFit /\ LiveWorkIsReserved /\ CommittedIsNeverRefunded
    BY <1>1 DEF ReservationsFit, ReservationFits, LiveWorkIsReserved, CommittedIsNeverRefunded, Outstanding, NoReservation, Declared
  <1>6. NeverOverdrawn
    BY <1>1 DEF NeverOverdrawn, Available, Closed, Zero
  <1>7. LedgerExplained
    <2> SUFFICES ASSUME NEW a \in Accounts, NEW d \in Dims
                 PROVE  ledger[a][d] = CorrectedBy(adjusted, account, a, d) - HeldBy(resv, account, a, d)
      BY ExplainedIs
    <2> DEFINE f == Correction(adjusted, a, d)
               g == Holding(resv, d)
               S == BelowOf(account, a)
               V == WorkBelow(account, a)
    <2>1. \A x \in S : f[x] = 0
      <3>1. \A x \in Accounts : adjusted[x][d] = 0
        BY <1>1 DEF Zero
      <3>2. \A x \in Accounts : f[x] = IF x = a THEN adjusted[x][d] ELSE -adjusted[x][d]
        BY DEF Correction
      <3>3. S \subseteq Accounts
        BY DEF BelowOf
      <3> HIDE DEF f, S
      <3> QED BY <3>1, <3>2, <3>3
    <2>2. \A x \in V : g[x] = 0
      BY <1>1 DEF Holding, WorkBelow, NoReservation
    <2>3. IsFiniteSet(S) /\ IsFiniteSet(V)
      BY BudgetAssumption, FS_Subset DEF BelowOf, WorkBelow
    <2>4. ledger[a][d] = 0
      BY <1>1 DEF Zero
    <2> HIDE DEF f, g, S, V
    <2>5. SumOver(f, S) = 0
      BY <2>1, <2>3, SumZero
    <2>6. SumOver(g, V) = 0
      BY <2>2, <2>3, SumZero
    <2>7. CorrectedBy(adjusted, account, a, d) = 0 /\ HeldBy(resv, account, a, d) = 0
      BY <2>5, <2>6 DEF CorrectedBy, HeldBy, f, g, S, V
    <2> QED BY <2>4, <2>7
  <1>8. DelegationTypeOK
    <2>1. exec \in [Executions -> {"NONE", "RUNNING"} \cup Ended]
      BY <1>1
    <2>2. request \in [Requests ->
            [status : {"NONE", "REJECTED", "EXPIRED"} \cup LiveRequest, depth : 0 .. MaxDepth]]
      BY <1>1, DelegationAssumption
    <2> QED BY <1>3, <2>1, <2>2 DEF DelegationTypeOK
  <1>9. \A r \in Requests : ~Approved(r) /\ request[r].status \notin LiveRequest
    BY <1>1 DEF Approved, LiveRequest
  <1>10. HasBegun /\ Born /\ Generations /\ Envelopes /\ ChildAccounts
    <2>1. HasBegun
      <3>1. \A e \in Executions : ~account[e].open
        BY <1>1 DEF Closed, Accounts
      <3> QED BY <1>1, <3>1 DEF HasBegun
    <2>2. Born
      BY <1>1, <1>9 DEF Born
    <2> QED BY <1>9, <2>1, <2>2 DEF Generations, Envelopes, ChildAccounts
  <1>11. FanoutFits
    <2> SUFFICES ASSUME NEW w \in Work PROVE IsFiniteSet(LiveOf(w)) /\ Cardinality(LiveOf(w)) <= MaxRequests
      BY DEF FanoutFits
    <2>1. LiveOf(w) = {}
      BY <1>9 DEF LiveOf
    <2>2. IsFiniteSet({}) /\ Cardinality({}) = 0
      BY FS_EmptySet
    <2> QED BY <2>1, <2>2, DelegationAssumption
  <1> QED BY <1>3, <1>4, <1>5, <1>6, <1>7, <1>8, <1>10, <1>11 DEF DelegationInv, LedgerInv

LEMMA DelegationInvStep == DelegationInv /\ [DelegationNext]_delegationVars => DelegationInv'
PROOF
  <1> SUFFICES ASSUME DelegationInv, [DelegationNext]_delegationVars PROVE DelegationInv'
    OBVIOUS
  <1>1. CASE (\E w \in Work : Spend(w)) /\ UNCHANGED requestVars
    BY <1>1, SpendKeepsDelegation
  <1>2. CASE Operate /\ UNCHANGED requestVars
    BY <1>2, OperateKeepsDelegation
  <1>3. ASSUME NEW r \in Requests, Delegate(r) PROVE DelegationInv'
    <2>1. CASE RequestDelegation(r)
      BY <2>1, RequestKeepsDelegation
    <2>2. ASSUME NEW c \in Ceilings \cup {Zero}, ApproveDelegation(r, c) PROVE DelegationInv'
      <3>1. c \in Amounts
        BY BudgetAssumption DEF Zero, Amounts
      <3> QED BY <2>2, <3>1, ApproveKeepsDelegation
    <2>3. CASE RejectDelegation(r)
      BY <2>3, RefuseKeepsDelegation DEF RejectDelegation
    <2>4. CASE ExpireDelegation(r)
      BY <2>4, RefuseKeepsDelegation DEF ExpireDelegation
    <2>5. CASE CancelOrphan(r)
      <3>1. Child[r] \in Executions /\ CancelExecution(Child[r])
        BY <2>5, RequestTypes DEF CancelOrphan
      <3> QED BY <3>1, CancelKeepsDelegation
    <2> QED BY <1>3, <2>1, <2>2, <2>3, <2>4, <2>5 DEF Delegate
  <1>4. ASSUME NEW e \in Executions, CancelExecution(e) PROVE DelegationInv'
    BY <1>4, CancelKeepsDelegation
  <1>5. ASSUME NEW e \in Executions, NEW status \in {"COMPLETED", "FAILED"}, EndExecution(e, status)
        PROVE  DelegationInv'
    BY <1>5, EndKeepsDelegation
  <1>6. CASE UNCHANGED delegationVars
    <2>1. /\ exec' = exec /\ request' = request /\ account' = account /\ ledger' = ledger
          /\ adjusted' = adjusted /\ resv' = resv /\ plan' = plan /\ work' = work
      BY <1>6 DEF delegationVars, ledgerVars, requestVars
    <2>2. /\ LedgerInv /\ LedgerTypeOK /\ exec \in [Executions -> {"NONE", "RUNNING"} \cup Ended]
      BY DEF DelegationInv, DelegationTypeOK, LedgerInv
    <2>3. /\ plan' \in [Executions -> [parent : Accounts \cup {NoAccount}, ceiling : Amounts]]
          /\ work' \in [Work -> {"none", "waiting", "live", "refused", "ended"}]
      BY <2>1, <2>2 DEF LedgerTypeOK
    <2>4. LedgerInv'
      BY <2>1, <2>2, <2>3, LedgerRests
    <2> QED BY <2>1, <2>2, <2>4, AccountsRest
  <1> QED BY <1>1, <1>2, <1>3, <1>4, <1>5, <1>6 DEF DelegationNext

\* What the invariant says of requests and their children.
LEMMA DelegationInvMeans ==
  ASSUME DelegationInv
  PROVE  DelegationIsBounded /\ ChildSpendsItsParentsBudget
PROOF
  <1>1. DelegationIsBounded
    <2>1. ASSUME NEW r \in Requests, request[r].status = "APPROVED"
          PROVE  /\ Parent(r) = Root \/ \E q \in Requests :
                      request[q].status = "APPROVED" /\ Child[q] = Parent(r) /\ request[q].depth = request[r].depth - 1
                 /\ request[r].depth <= MaxDepth
      <3>1. request[r].depth <= MaxDepth
        BY DelegationAssumption DEF DelegationInv, DelegationTypeOK
      <3> QED BY <2>1, <3>1 DEF DelegationInv, Generations, Approved, LiveRequest
    <2>2. \A w \in Work : Cardinality({r \in Requests : RequestedBy[r] = w /\ request[r].status \in LiveRequest})
                            <= MaxRequests
      BY DEF DelegationInv, FanoutFits, LiveOf
    <2> QED BY <2>1, <2>2 DEF DelegationIsBounded
  <1>2. ChildSpendsItsParentsBudget
    <2> SUFFICES ASSUME NEW r \in Requests, request[r].status = "APPROVED", account[Child[r]].open
                 PROVE  /\ Parent(r) \in Chain(Child[r])
                        /\ \A d \in Dims : account[Child[r]].ceiling[d] <= account[Parent(r)].ceiling[d]
      BY DEF ChildSpendsItsParentsBudget
    <2>1. /\ account[Child[r]].parent = Parent(r)
          /\ \A d \in Dims : account[Child[r]].ceiling[d] <= account[Parent(r)].ceiling[d]
      BY DEF DelegationInv, ChildAccounts, Approved
    <2>2. Child[r] \in Accounts /\ Parent(r) # NoAccount /\ account \in AccountTable
      BY RequestTypes DEF DelegationInv, LedgerInv, Hierarchy
    <2>3. Child[r] \in ChainIn(account, Child[r]) /\ UpIn(account, ChainIn(account, Child[r]))
      BY <2>2, ChainSelf, ChainUp
    <2>4. Parent(r) \in ChainIn(account, Child[r])
      BY <2>1, <2>2, <2>3 DEF UpIn
    <2> QED BY <2>1, <2>4, ChainIs
  <1> QED BY <1>1, <1>2

\* The books of a run and of everything delegated below it balance in every
\* state: each account's ledger is the corrections and reservations at and
\* below it (writeChainEntries charges whole chains and releases them whole),
\* none is overdrawn, live attempts hold their full reservation, reported
\* usage is never refunded, and a delegated child is bounded by and spends
\* from its parent's account.
THEOREM BudgetIsSoundHolds == DelegationSpec => []BudgetIsSound
PROOF
  <1>1. DelegationInv => BudgetIsSound
    BY DelegationInvMeans DEF DelegationInv, LedgerInv, BudgetIsSound
  <1> QED BY <1>1, DelegationInvInit, DelegationInvStep, PTL DEF DelegationSpec

\* The same of the specification the settling run checks, in which the
\* delegation component takes its steps or rests.
THEOREM SettlingIsSound == SettlingSpec => []BudgetIsSound
PROOF
  <1>1. SettlingInit => DelegationInit
    BY DEF SettlingInit
  <1>2. [SettlingNext]_settlingVars => [DelegationNext]_delegationVars
    <2> SUFFICES ASSUME [SettlingNext]_settlingVars PROVE DelegationNext \/ UNCHANGED delegationVars
      OBVIOUS
    <2>1. CASE UNCHANGED settlingVars
      BY <2>1 DEF settlingVars
    <2>2. CASE focus = "delegation" /\ DelegationNext
      BY <2>2
    <2>3. CASE focus # "delegation" /\ OthersRest
      BY <2>3 DEF OthersRest, Frozen
    <2> QED BY <2>1, <2>2, <2>3 DEF SettlingNext
  <1> QED BY <1>1, <1>2, BudgetIsSoundHolds, PTL DEF SettlingSpec, DelegationSpec
=============================================================================
