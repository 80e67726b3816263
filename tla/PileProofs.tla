----------------------------- MODULE PileProofs -----------------------------
(* Sums over finite sets, and what every operation of Stacks does to a pile *)
(* list: its shape, its tidiness and what it comes to, for any length.      *)
EXTENDS Stacks, FiniteSetTheorems, WellFoundedInduction, TLAPS

-----------------------------------------------------------------------------
(* Least numbers and least sets: how a fold over a finite set is reached. *)

LEMMA LeastNat ==
  ASSUME NEW B, B \subseteq Nat, B # {}
  PROVE  \E m \in B : \A k \in B : m <= k
<1>1. PICK m \in B : \A k \in B : <<k, m>> \notin OpToRel(<, Nat)
  BY NatLessThanWellFounded, WFMin
<1>2. \A k \in B : ~(k < m)
  BY <1>1 DEF OpToRel
<1> QED BY <1>2

\* What a fold over the finite set S needs: c picks the element to fold in last, st is a step.
Folds(S, T, base, c, st) ==
  /\ IsFiniteSet(S) /\ base \in T
  /\ \A s \in SUBSET S : s # {} => c[s] \in s
  /\ \A y \in T, x \in S : st[<<y, x>>] \in T

\* it holds the fold of every subset.
FoldOf(it, S, T, base, c, st) ==
  /\ it \in [SUBSET S -> T]
  /\ \A s \in SUBSET S : it[s] = IF s = {} THEN base ELSE st[<<it[s \ {c[s]}], c[s]>>]

LEMMA FoldExists ==
  ASSUME NEW S, NEW T, NEW base, NEW c, NEW st, Folds(S, T, base, c, st)
  PROVE  \E it : FoldOf(it, S, T, base, c, st)
<1> USE DEF Folds
<1> DEFINE Sub(k) == {s \in SUBSET S : Cardinality(s) <= k}
           Good(k, it) == /\ it \in [Sub(k) -> T]
                          /\ \A s \in Sub(k) : it[s] = IF s = {} THEN base ELSE st[<<it[s \ {c[s]}], c[s]>>]
           Bad == {k \in Nat : ~ \E it : Good(k, it)}
<1>1. \A s \in SUBSET S : IsFiniteSet(s) /\ Cardinality(s) \in Nat /\ (Cardinality(s) = 0 <=> s = {})
  BY FS_Subset, FS_CardinalityType, FS_EmptySet
<1>2. \A s \in SUBSET S : \A x \in s : s \ {x} \in SUBSET S /\ Cardinality(s \ {x}) = Cardinality(s) - 1
  BY <1>1, FS_RemoveElement
<1>3. Good(0, [s \in Sub(0) |-> base])
  <2>1. \A s \in Sub(0) : s = {}
    BY <1>1
  <2> QED BY <2>1
<1>4. ASSUME NEW k \in Nat, NEW it, Good(k, it)
      PROVE  \E jt : Good(k + 1, jt)
  <2> DEFINE jt == [s \in Sub(k + 1) |-> IF s = {} THEN base ELSE st[<<it[s \ {c[s]}], c[s]>>]]
  <2>1. ASSUME NEW s \in Sub(k + 1), s # {}
        PROVE  s \ {c[s]} \in Sub(k) /\ s \ {c[s]} \in Sub(k + 1) /\ c[s] \in S
    BY <1>1, <1>2, <2>1
  <2>2. \A s \in Sub(k) : s \in Sub(k + 1) /\ jt[s] = it[s]
    BY <1>1, <1>4
  <2>3. jt \in [Sub(k + 1) -> T]
    BY <1>4, <2>1
  <2>4. ASSUME NEW s \in Sub(k + 1)
        PROVE jt[s] = IF s = {} THEN base ELSE st[<<jt[s \ {c[s]}], c[s]>>]
    BY <2>1, <2>2
  <2> HIDE DEF jt
  <2> QED BY <2>3, <2>4
<1> HIDE DEF Good
<1>5. Bad = {}
  <2> SUFFICES ASSUME Bad # {} PROVE FALSE
    OBVIOUS
  <2>1. PICK m \in Bad : \A k \in Bad : m <= k
    BY LeastNat
  <2>2. m # 0 /\ m \in Nat
    BY <1>3
  <2>3. m - 1 \in Nat /\ m - 1 \notin Bad
    BY <2>1, <2>2
  <2> QED BY <1>4, <2>1, <2>3
<1>6. Cardinality(S) \in Nat /\ SUBSET S = Sub(Cardinality(S))
  BY <1>1, FS_Subset
<1>7. PICK it : Good(Cardinality(S), it)
  BY <1>5, <1>6
<1> QED BY <1>6, <1>7 DEF Good, FoldOf

\* Where some subset of a finite set is bad, one is that is good without any of its elements.
LEMMA LeastSet ==
  ASSUME NEW S, IsFiniteSet(S), NEW B, B \subseteq SUBSET S, B # {}
  PROVE  \E s \in B : \A x \in s : s \ {x} \notin B
<1>1. \A s \in B : IsFiniteSet(s) /\ Cardinality(s) \in Nat
  BY FS_Subset, FS_CardinalityType
<1> DEFINE N == {n \in Nat : \E s \in B : Cardinality(s) = n}
<1>2. PICK n \in N : \A k \in N : n <= k
  <2>1. N # {} /\ N \subseteq Nat
    BY <1>1
  <2> QED BY <2>1, LeastNat
<1>3. PICK s \in B : Cardinality(s) = n
  BY <1>2
<1>4. ASSUME NEW x \in s, s \ {x} \in B PROVE FALSE
  <2>1. Cardinality(s \ {x}) = n - 1 /\ n - 1 \in Nat
    BY <1>1, <1>3, <1>4, FS_RemoveElement
  <2> QED BY <1>2, <1>4, <2>1
<1> QED BY <1>3, <1>4

\* A sum is made of partial sums over the subsets.
Pick(s) == CHOOSE x \in s : TRUE

SumsOf(it, v, S) ==
  /\ it \in [SUBSET S -> Nat]
  /\ it[S] = SumFunctionOnSet(v, S)
  /\ \A s \in SUBSET S : it[s] = IF s = {} THEN 0 ELSE v[Pick(s)] + it[s \ {Pick(s)}]

LEMMA SumSteps ==
  ASSUME NEW S, IsFiniteSet(S), NEW v, \A x \in S : v[x] \in Nat
  PROVE  \E it : SumsOf(it, v, S)
<1> USE DEF Pick
<1> DEFINE jt == CHOOSE iter : iter = [s \in SUBSET S |->
          IF s = {} THEN 0 ELSE v[CHOOSE x \in s : TRUE] + iter[s \ {CHOOSE x \in s : TRUE}]]
<1>1. SumFunctionOnSet(v, S) = jt[S]
  BY DEF SumFunctionOnSet, FoldFunctionOnSet, MapThenFoldSet
<1> DEFINE c == [s \in SUBSET S |-> CHOOSE x \in s : TRUE]
           st == [p \in Nat \X S |-> v[p[2]] + p[1]]
<1>2. \A s \in SUBSET S : s # {} => c[s] \in s
  OBVIOUS
<1>3. \A y \in Nat, x \in S : st[<<y, x>>] = v[x] + y
  OBVIOUS
<1>10. \A y \in Nat, x \in S : st[<<y, x>>] \in Nat
  OBVIOUS
<1> HIDE DEF c, st, jt
<1>4. PICK it : FoldOf(it, S, Nat, 0, c, st)
  <2>1. Folds(S, Nat, 0, c, st)
    BY <1>2, <1>10 DEF Folds
  <2> QED BY <2>1, FoldExists
<1>5. \A s \in SUBSET S : s # {} => /\ s \ {c[s]} \in SUBSET S /\ c[s] \in S
                                    /\ st[<<it[s \ {c[s]}], c[s]>>] = v[c[s]] + it[s \ {c[s]}]
  BY <1>2, <1>3, <1>4 DEF FoldOf
<1>6. it = [s \in SUBSET S |->
          IF s = {} THEN 0 ELSE v[CHOOSE x \in s : TRUE] + it[s \ {CHOOSE x \in s : TRUE}]]
  <2>1. \A s \in SUBSET S : it[s] = IF s = {} THEN 0 ELSE v[c[s]] + it[s \ {c[s]}]
    BY <1>4, <1>5 DEF FoldOf
  <2>2. \A s \in SUBSET S : c[s] = CHOOSE x \in s : TRUE
    BY DEF c
  <2>3. it = [s \in SUBSET S |-> IF s = {} THEN 0 ELSE v[c[s]] + it[s \ {c[s]}]]
    BY <1>4, <2>1 DEF FoldOf
  <2> QED BY <2>2, <2>3
<1>7. jt = [s \in SUBSET S |->
          IF s = {} THEN 0 ELSE v[CHOOSE x \in s : TRUE] + jt[s \ {CHOOSE x \in s : TRUE}]]
  BY <1>6 DEF jt
<1>8. \A s \in SUBSET S : jt[s] = it[s]
  <2> DEFINE B == {s \in SUBSET S : jt[s] # it[s]}
  <2> SUFFICES ASSUME B # {} PROVE FALSE
    OBVIOUS
  <2>1. PICK s \in B : \A x \in s : s \ {x} \notin B
    BY LeastSet
  <2>2. CASE s = {}
    BY <1>6, <1>7, <2>1, <2>2
  <2>3. CASE s # {}
    <3> DEFINE x == Pick(s)
    <3>1. x \in s /\ s \in SUBSET S /\ s \ {x} \in SUBSET S /\ jt[s \ {x}] = it[s \ {x}]
      BY <2>1, <2>3
    <3>2. jt[s] = v[x] + jt[s \ {x}] /\ it[s] = v[x] + it[s \ {x}]
      BY <1>6, <1>7, <2>3, <3>1
    <3> QED BY <2>1, <3>1, <3>2
  <2> QED BY <2>2, <2>3
<1>9. it[S] = SumFunctionOnSet(v, S)
  BY <1>1, <1>8 DEF jt
<1> QED BY <1>4, <1>6, <1>9 DEF FoldOf, SumsOf

LEMMA SumEmpty == ASSUME NEW v PROVE SumFunctionOnSet(v, {}) = 0
<1>1. IsFiniteSet({})
  BY FS_EmptySet
<1>2. PICK it : SumsOf(it, v, {})
  BY <1>1, SumSteps
<1> QED BY <1>2 DEF SumsOf

\* A sum's parts are sums.
LEMMA SumParts ==
  ASSUME NEW S, IsFiniteSet(S), NEW v, \A x \in S : v[x] \in Nat,
         NEW it, SumsOf(it, v, S), NEW t \in SUBSET S
  PROVE  it[t] = SumFunctionOnSet(v, t)
<1>1. IsFiniteSet(t) /\ \A x \in t : v[x] \in Nat
  BY FS_Subset
<1>2. PICK jt : SumsOf(jt, v, t)
  BY <1>1, SumSteps
<1> DEFINE B == {s \in SUBSET t : jt[s] # it[s]}
<1>3. B = {}
  <2> SUFFICES ASSUME B # {} PROVE FALSE
    OBVIOUS
  <2>1. PICK s \in B : \A x \in s : s \ {x} \notin B
    BY <1>1, LeastSet
  <2>2. s \in SUBSET t /\ s \in SUBSET S
    BY <2>1
  <2>3. s # {}
    BY <1>2, <2>1, <2>2 DEF SumsOf
  <2>4. Pick(s) \in s
    BY <2>3 DEF Pick
  <2>5. s \ {Pick(s)} \in SUBSET t /\ jt[s \ {Pick(s)}] = it[s \ {Pick(s)}]
    BY <2>1, <2>2, <2>4
  <2>6. /\ jt[s] = v[Pick(s)] + jt[s \ {Pick(s)}]
        /\ it[s] = v[Pick(s)] + it[s \ {Pick(s)}]
    BY <1>2, <2>2, <2>3 DEF SumsOf
  <2> QED BY <2>1, <2>5, <2>6
<1> QED BY <1>2, <1>3 DEF SumsOf

LEMMA SumNat ==
  ASSUME NEW S, IsFiniteSet(S), NEW v, \A x \in S : v[x] \in Nat
  PROVE  SumFunctionOnSet(v, S) \in Nat
<1>1. PICK it : SumsOf(it, v, S)
  BY SumSteps
<1> QED BY <1>1 DEF SumsOf

LEMMA SumPick ==
  ASSUME NEW S, IsFiniteSet(S), NEW v, \A x \in S : v[x] \in Nat, S # {}
  PROVE  /\ Pick(S) \in S
         /\ SumFunctionOnSet(v, S) = v[Pick(S)] + SumFunctionOnSet(v, S \ {Pick(S)})
<1>1. PICK it : SumsOf(it, v, S)
  BY SumSteps
<1>2. Pick(S) \in S
  BY DEF Pick
<1>3. it[S \ {Pick(S)}] = SumFunctionOnSet(v, S \ {Pick(S)})
  BY <1>1, SumParts
<1> QED BY <1>1, <1>2, <1>3 DEF SumsOf

\* The order of summing does not matter: any element may be the last.
LEMMA SumWithout ==
  ASSUME NEW S, IsFiniteSet(S), NEW v, \A x \in S : v[x] \in Nat, NEW y \in S
  PROVE  SumFunctionOnSet(v, S) = v[y] + SumFunctionOnSet(v, S \ {y})
<1> DEFINE F(s) == SumFunctionOnSet(v, s)
           B == {s \in SUBSET S : \E z \in s : F(s) # v[z] + F(s \ {z})}
<1>1. ASSUME NEW s \in SUBSET S
      PROVE  F(s) \in Nat /\ (s # {} => Pick(s) \in s /\ F(s) = v[Pick(s)] + F(s \ {Pick(s)}))
  BY FS_Subset, SumNat, SumPick
<1> HIDE DEF F
<1>2. B = {}
  <2> SUFFICES ASSUME B # {} PROVE FALSE
    OBVIOUS
  <2>1. PICK s \in B : \A x \in s : s \ {x} \notin B
    BY LeastSet
  <2>2. PICK z \in s : F(s) # v[z] + F(s \ {z})
    BY <2>1
  <2> DEFINE x == Pick(s)
  <2>3. x \in s /\ F(s) = v[x] + F(s \ {x})
    BY <1>1, <2>2
  <2> HIDE DEF x
  <2>4. x # z
    BY <2>2, <2>3
  <2>5. s \ {x} \in SUBSET S /\ s \ {z} \in SUBSET S /\ z \in s \ {x} /\ x \in s \ {z}
    BY <2>3, <2>4
  <2>6. F(s \ {x}) = v[z] + F((s \ {x}) \ {z}) /\ F(s \ {z}) = v[x] + F((s \ {z}) \ {x})
    BY <2>1, <2>2, <2>3, <2>5
  <2>7. (s \ {x}) \ {z} = (s \ {z}) \ {x} /\ F((s \ {x}) \ {z}) \in Nat /\ v[x] \in Nat /\ v[z] \in Nat
    BY <1>1, <2>2, <2>3
  <2> QED BY <2>2, <2>3, <2>6, <2>7
<1> QED BY <1>2 DEF F

\* Values that are the same have the same sum.
LEMMA SumSame ==
  ASSUME NEW S, IsFiniteSet(S), NEW v, \A x \in S : v[x] \in Nat,
         NEW w, \A x \in S : w[x] = v[x]
  PROVE  SumFunctionOnSet(w, S) = SumFunctionOnSet(v, S)
<1> DEFINE F(s) == SumFunctionOnSet(v, s)
           G(s) == SumFunctionOnSet(w, s)
           B == {s \in SUBSET S : F(s) # G(s)}
<1>1. ASSUME NEW s \in SUBSET S
      PROVE  F(s) \in Nat /\ (s # {} => Pick(s) \in s /\ F(s) = v[Pick(s)] + F(s \ {Pick(s)}))
  BY FS_Subset, SumNat, SumPick
<1>2. ASSUME NEW s \in SUBSET S
      PROVE  G(s) \in Nat /\ (s # {} => Pick(s) \in s /\ G(s) = w[Pick(s)] + G(s \ {Pick(s)}))
  BY FS_Subset, SumNat, SumPick
<1>3. F({}) = 0 /\ G({}) = 0
  BY SumEmpty
<1> HIDE DEF F, G
<1>4. B = {}
  <2> SUFFICES ASSUME B # {} PROVE FALSE
    OBVIOUS
  <2>1. PICK s \in B : \A x \in s : s \ {x} \notin B
    BY LeastSet
  <2>2. s # {}
    BY <1>3, <2>1
  <2> DEFINE x == Pick(s)
  <2>3. x \in s /\ F(s) = v[x] + F(s \ {x}) /\ G(s) = w[x] + G(s \ {x})
    BY <1>1, <1>2, <2>1, <2>2
  <2> HIDE DEF x
  <2>4. F(s \ {x}) = G(s \ {x}) /\ x \in S
    BY <2>1, <2>3
  <2> QED BY <2>1, <2>3, <2>4
<1> QED BY <1>4 DEF F, G

\* One value changed.
LEMMA SumChanged ==
  ASSUME NEW S, IsFiniteSet(S), NEW v, \A x \in S : v[x] \in Nat, NEW y \in S,
         NEW w, w[y] \in Nat, \A x \in S : x # y => w[x] = v[x]
  PROVE  /\ SumFunctionOnSet(w, S) + v[y] = SumFunctionOnSet(v, S) + w[y]
         /\ SumFunctionOnSet(w, S) \in Nat /\ SumFunctionOnSet(v, S) \in Nat
<1>1. IsFiniteSet(S \ {y}) /\ \A x \in S \ {y} : v[x] \in Nat /\ w[x] = v[x]
  BY FS_RemoveElement
<1>2. \A x \in S : w[x] \in Nat
  OBVIOUS
<1>3. SumFunctionOnSet(w, S \ {y}) = SumFunctionOnSet(v, S \ {y})
  BY <1>1, SumSame
<1>4. SumFunctionOnSet(v, S \ {y}) \in Nat
  BY <1>1, SumNat
<1>5. SumFunctionOnSet(v, S) = v[y] + SumFunctionOnSet(v, S \ {y})
  BY SumWithout
<1>6. SumFunctionOnSet(w, S) = w[y] + SumFunctionOnSet(w, S \ {y})
  BY <1>2, SumWithout
<1> QED BY <1>3, <1>4, <1>5, <1>6

\* f is one to one from S onto T.
Renames(f, S, T) ==
  /\ \A x \in S : f[x] \in T
  /\ \A x, y \in S : f[x] = f[y] => x = y
  /\ \A y \in T : \E x \in S : f[x] = y

\* Renaming the places of the values keeps the sum.
LEMMA SumRenamed ==
  ASSUME NEW S, IsFiniteSet(S), NEW T, IsFiniteSet(T), NEW v, \A x \in T : v[x] \in Nat,
         NEW f, Renames(f, S, T), NEW w, \A x \in S : w[x] = v[f[x]]
  PROVE  SumFunctionOnSet(w, S) = SumFunctionOnSet(v, T)
<1> USE DEF Renames
<1> DEFINE Img(s) == {f[x] : x \in s}
           F(s) == SumFunctionOnSet(w, s)
           G(t) == SumFunctionOnSet(v, t)
           B == {s \in SUBSET S : F(s) # G(Img(s))}
<1>1. \A s \in SUBSET S : IsFiniteSet(s) /\ \A x \in s : w[x] \in Nat
  BY FS_Subset
<1>2. \A t \in SUBSET T : IsFiniteSet(t) /\ \A x \in t : v[x] \in Nat
  BY FS_Subset
<1>3. ASSUME NEW s \in SUBSET S, NEW x \in s PROVE F(s) = w[x] + F(s \ {x})
  BY <1>1, SumWithout
<1>4. ASSUME NEW t \in SUBSET T, NEW y \in t PROVE G(t) = v[y] + G(t \ {y})
  BY <1>2, SumWithout
<1>5. F({}) = 0 /\ G({}) = 0
  BY SumEmpty
<1> HIDE DEF F, G
<1>6. B = {}
  <2> SUFFICES ASSUME B # {} PROVE FALSE
    OBVIOUS
  <2>1. PICK s \in B : \A x \in s : s \ {x} \notin B
    BY LeastSet
  <2>2. s # {}
    <3>1. Img({}) = {}
      OBVIOUS
    <3> QED BY <1>5, <2>1, <3>1
  <2>3. PICK x \in s : TRUE
    BY <2>2
  <2>4. Img(s) \in SUBSET T /\ f[x] \in Img(s) /\ Img(s) \ {f[x]} = Img(s \ {x})
    BY <2>1
  <2>5. F(s \ {x}) = G(Img(s \ {x})) /\ w[x] = v[f[x]]
    BY <2>1
  <2> HIDE DEF Img
  <2>6. F(s) = w[x] + F(s \ {x}) /\ G(Img(s)) = v[f[x]] + G(Img(s) \ {f[x]})
    BY <1>3, <1>4, <2>1, <2>4
  <2> QED BY <2>1, <2>4, <2>5, <2>6
<1>7. Img(S) = T
  OBVIOUS
<1> QED BY <1>6, <1>7 DEF F, G

\* Values that are zero outside R add nothing.
LEMMA SumPadded ==
  ASSUME NEW S, IsFiniteSet(S), NEW v, \A x \in S : v[x] \in Nat,
         NEW R, R \subseteq S, \A x \in S \ R : v[x] = 0
  PROVE  SumFunctionOnSet(v, S) = SumFunctionOnSet(v, R)
<1> DEFINE F(s) == SumFunctionOnSet(v, s)
           B == {s \in SUBSET S : F(s) # F(s \cap R)}
<1>1. \A s \in SUBSET S : IsFiniteSet(s) /\ \A x \in s : v[x] \in Nat
  BY FS_Subset
<1>2. ASSUME NEW s \in SUBSET S
      PROVE  F(s) \in Nat /\ \A x \in s : F(s) = v[x] + F(s \ {x})
  BY <1>1, SumNat, SumWithout
<1> HIDE DEF F
<1>3. B = {}
  <2> SUFFICES ASSUME B # {} PROVE FALSE
    OBVIOUS
  <2>1. PICK s \in B : \A x \in s : s \ {x} \notin B
    BY LeastSet
  <2>2. PICK x \in s : TRUE
    <3>1. {} \cap R = {}
      OBVIOUS
    <3> QED BY <2>1, <3>1
  <2>3. s \in SUBSET S /\ s \ {x} \in SUBSET S /\ x \in S /\ F(s \ {x}) = F((s \ {x}) \cap R)
    BY <2>1
  <2>4. F(s) = v[x] + F(s \ {x}) /\ F(s \ {x}) \in Nat /\ v[x] \in Nat
    BY <1>2, <2>3
  <2>5. CASE x \in R
    <3>1. s \cap R \in SUBSET S /\ x \in s \cap R /\ (s \cap R) \ {x} = (s \ {x}) \cap R
      BY <2>3, <2>5
    <3>2. F(s \cap R) = v[x] + F((s \cap R) \ {x})
      BY <1>2, <3>1
    <3> QED BY <2>1, <2>3, <2>4, <3>1, <3>2
  <2>6. CASE x \notin R
    <3>1. (s \ {x}) \cap R = s \cap R /\ v[x] = 0
      BY <2>3, <2>6
    <3> QED BY <2>1, <2>3, <2>4, <3>1
  <2> QED BY <2>5, <2>6
<1>4. S \cap R = R
  OBVIOUS
<1> QED BY <1>3, <1>4 DEF F

LEMMA SumZero ==
  ASSUME NEW S, IsFiniteSet(S), NEW v, \A x \in S : v[x] = 0
  PROVE  SumFunctionOnSet(v, S) = 0
<1> DEFINE F(s) == SumFunctionOnSet(v, s)
           B == {s \in SUBSET S : F(s) # 0}
<1>1. \A s \in SUBSET S : IsFiniteSet(s) /\ \A x \in s : v[x] \in Nat
  BY FS_Subset
<1>2. ASSUME NEW s \in SUBSET S, NEW x \in s PROVE F(s) = v[x] + F(s \ {x})
  BY <1>1, SumWithout
<1>3. F({}) = 0
  BY SumEmpty
<1> HIDE DEF F
<1>4. B = {}
  <2> SUFFICES ASSUME B # {} PROVE FALSE
    OBVIOUS
  <2>1. PICK s \in B : \A x \in s : s \ {x} \notin B
    BY LeastSet
  <2>2. PICK x \in s : TRUE
    BY <1>3, <2>1
  <2>3. F(s) = v[x] + F(s \ {x}) /\ F(s \ {x}) = 0 /\ v[x] = 0
    BY <1>2, <2>1
  <2> QED BY <2>1, <2>3
<1> QED BY <1>4 DEF F


-----------------------------------------------------------------------------
(* The shape of a pile list after each operation.                           *)

LEMMA Product ==
  ASSUME NEW a \in Nat, NEW b \in Nat
  PROVE  a * b \in Nat
OBVIOUS

LEMMA PileParts ==
  ASSUME NEW I, NEW b \in Seq(Pile(I)), NEW k \in 1..Len(b)
  PROVE  /\ b[k] \in Pile(I) /\ b[k].id \in I /\ b[k].n \in Nat
         /\ b[k] = [id |-> b[k].id, n |-> b[k].n]
         /\ DOMAIN b = 1..Len(b) /\ Len(b) \in Nat
<1>1. b[k] \in Pile(I) /\ DOMAIN b = 1..Len(b) /\ Len(b) \in Nat
  OBVIOUS
<1>2. ASSUME NEW x \in Pile(I)
      PROVE  x.id \in I /\ x.n \in Nat /\ x = [id |-> x.id, n |-> x.n]
  BY DEF Pile
<1> QED BY <1>1, <1>2

\* First is the least.
LEMMA FirstIs ==
  ASSUME NEW S, S \subseteq Nat, S # {}
  PROVE  First(S) \in S /\ \A j \in S : First(S) <= j
<1>1. \E m \in S : \A k \in S : m <= k
  BY LeastNat
<1> QED BY <1>1 DEF First

Units(b, k) == b[k].n

\* m is q and n; a name of its own keeps the sum out of the provers' sight.
Both(m, q, n) == m = q + n

\* b with the amount of pile k changed to m.
Altered(b, k, m) == [b EXCEPT ![k].n = m]

\* d is b with n units more, or fewer, in pile k.
Grows(b, k, n, d)   == \E m \in Nat : Both(m, Units(b, k), n) /\ d = Altered(b, k, m)
Shrinks(b, k, n, d) == \E m \in Nat : Both(Units(b, k), m, n) /\ m > 0 /\ d = Altered(b, k, m)

LEMMA AlteredIs ==
  ASSUME NEW I, NEW b \in Seq(Pile(I)), NEW k \in 1..Len(b), NEW m \in Nat
  PROVE  /\ Altered(b, k, m) \in Seq(Pile(I)) /\ Len(Altered(b, k, m)) = Len(b)
         /\ Altered(b, k, m)[k] = [id |-> b[k].id, n |-> m]
         /\ \A j \in 1..Len(b) : j # k => Altered(b, k, m)[j] = b[j]
<1>1. b[k] \in Pile(I) /\ DOMAIN b = 1..Len(b) /\ Len(b) \in Nat /\ b[k].id \in I
  BY PileParts
<1>2. ASSUME NEW x \in Pile(I) PROVE [x EXCEPT !.n = m] = [id |-> x.id, n |-> m]
  BY DEF Pile
<1>3. Altered(b, k, m) = [b EXCEPT ![k] = [id |-> b[k].id, n |-> m]]
  <2>1. Altered(b, k, m) = [b EXCEPT ![k] = [b[k] EXCEPT !.n = m]]
    BY DEF Altered
  <2>2. [b[k] EXCEPT !.n = m] = [id |-> b[k].id, n |-> m]
    BY <1>1, <1>2
  <2> QED BY <2>1, <2>2
<1> DEFINE x == [id |-> b[k].id, n |-> m]
<1>4. x \in Pile(I)
  BY <1>1 DEF Pile
<1> HIDE DEF x
<1>5. /\ [b EXCEPT ![k] = x] \in Seq(Pile(I)) /\ Len([b EXCEPT ![k] = x]) = Len(b)
      /\ [b EXCEPT ![k] = x][k] = x
      /\ \A j \in 1..Len(b) : j # k => [b EXCEPT ![k] = x][j] = b[j]
  BY <1>4
<1> QED BY <1>3, <1>5 DEF x

\* AddStack merges into a pile of the item or opens one behind the others.
LEMMA AddShape ==
  ASSUME NEW I, NEW b \in Seq(Pile(I)), NEW id \in I, NEW n \in Nat \ {0}
  PROVE  \/ /\ \A k \in 1..Len(b) : b[k].id # id
            /\ AddStack(b, id, n) = Append(b, [id |-> id, n |-> n])
         \/ \E k \in 1..Len(b) : b[k].id = id /\ Grows(b, k, n, AddStack(b, id, n))
<1>1. DOMAIN b = 1..Len(b) /\ Len(b) \in Nat
  OBVIOUS
<1>2. CASE Merging(b, id) = {}
  BY <1>1, <1>2 DEF AddStack, Merging
<1>3. CASE Merging(b, id) # {}
  <2> DEFINE k == First(Merging(b, id))
  <2>1. Merging(b, id) \subseteq Nat
    BY <1>1 DEF Merging
  <2>2. k \in 1..Len(b) /\ b[k].id = id
    BY <1>1, <1>3, <2>1, FirstIs DEF Merging
  <2>3. AddStack(b, id, n) = Altered(b, k, b[k].n + n)
    BY <1>3 DEF AddStack, Altered
  <2> HIDE DEF k
  <2>4. b[k].n + n \in Nat
    <3>1. \A q \in Nat : q + n \in Nat
      OBVIOUS
    <3>2. b[k].n \in Nat
      BY <2>2, PileParts
    <3> QED BY <3>1, <3>2
  <2>5. PICK m \in Nat : m = b[k].n + n
    BY <2>4
  <2>6. Both(m, Units(b, k), n)
    BY <2>5 DEF Both, Units
  <2>7. AddStack(b, id, n) = Altered(b, k, m)
    BY <2>3, <2>5
  <2> QED BY <2>2, <2>6, <2>7 DEF Grows
<1> QED BY <1>2, <1>3

\* Where the piles of a list come from when pile k is closed.
Shift(k, j) == IF j < k THEN j ELSE j + 1

Closed(b, k, d) ==
  /\ Len(d) = Len(b) - 1
  /\ \A j \in 1..Len(d) : d[j] = b[Shift(k, j)]

\* TakeStack serves from one pile: it gets smaller, or it is closed and those behind it
\* move up; the old array then keeps one slot more.
LEMMA TakeShape ==
  ASSUME NEW I, NEW b \in Seq(Pile(I)), NEW id, NEW n \in Nat, CanTake(b, id, n)
  PROVE  \E k \in 1..Len(b) :
           /\ b[k].id = id /\ b[k].n >= n /\ k = First(Serving(b, id, n))
           /\ TakeStack(b, id, n) \in Seq(Pile(I)) /\ Leftover(b, id, n) \in Seq(Pile(I))
           /\ Len(Leftover(b, id, n)) = Len(b)
           /\ \/ /\ Shrinks(b, k, n, TakeStack(b, id, n))
                 /\ Leftover(b, id, n) = TakeStack(b, id, n)
              \/ /\ b[k].n = n
                 /\ Closed(b, k, TakeStack(b, id, n))
                 /\ \A j \in 1..Len(TakeStack(b, id, n)) : Leftover(b, id, n)[j] = TakeStack(b, id, n)[j]
                 /\ Leftover(b, id, n)[Len(b)] = IF k = Len(b) THEN [id |-> id, n |-> 0] ELSE b[Len(b)]
<1> DEFINE k == First(Serving(b, id, n))
           a == Array(b, k, n)
           T == TakeStack(b, id, n)
<1>1. DOMAIN b = 1..Len(b) /\ Len(b) \in Nat
  OBVIOUS
<1>2. k \in 1..Len(b) /\ b[k].id = id /\ b[k].n >= n /\ n > 0
  <2>1. Serving(b, id, n) \subseteq Nat /\ Serving(b, id, n) # {} /\ n > 0
    BY <1>1 DEF CanTake, Serving, Merging
  <2>2. k \in Serving(b, id, n)
    BY <2>1, FirstIs
  <2> QED BY <1>1, <2>1, <2>2 DEF Serving, Merging
<1>3. T = SubSeq(a, 1, IF b[k].n = n THEN Len(b) - 1 ELSE Len(b)) /\ Leftover(b, id, n) = a
  BY DEF TakeStack, Leftover
<1>4. k = First(Serving(b, id, n))
  OBVIOUS
<1> HIDE DEF k, T
<1>5. b[k].n \in Nat
  BY <1>2, PileParts
<1>6. CASE b[k].n > n
  <2> DEFINE m == b[k].n - n
  <2>1. m \in Nat
    BY <1>2, <1>5, <1>6
  <2>2. a = Altered(b, k, m)
    BY <1>2, <1>6 DEF Array, Altered
  <2> HIDE DEF m, a
  <2>3. a = Altered(b, k, m) /\ a \in Seq(Pile(I)) /\ Len(a) = Len(b)
    BY <1>2, <2>1, <2>2, AlteredIs
  <2>4. T = a
    <3>1. T = SubSeq(a, 1, Len(a))
      BY <1>3, <1>2, <1>5, <1>6, <2>3
    <3> QED BY <2>3, <3>1
  <2>5. Shrinks(b, k, n, T)
    <3>1. Both(Units(b, k), m, n) /\ m > 0
      BY <1>5, <1>6 DEF m, Units, Both
    <3> QED BY <2>1, <2>3, <2>4, <3>1 DEF Shrinks
  <2> QED BY <1>2, <1>3, <1>4, <2>3, <2>4, <2>5 DEF T
<1>7. CASE b[k].n = n
  <2> DEFINE N == Len(b)
  <2>1. N \in Nat /\ N >= 1 /\ k \in 1..N /\ N - 1 \in Nat
    BY <1>1, <1>2
  <2>2. /\ a \in Seq(Pile(I)) /\ Len(a) = N
        /\ \A j \in 1..(N - 1) : a[j] = b[Shift(k, j)]
        /\ a[N] = IF k = N THEN [id |-> id, n |-> 0] ELSE b[N]
    <3>1. CASE k = N
      <4>1. a = Altered(b, k, 0)
        <5>1. ~(b[k].n > n) /\ b[k].n - n = 0
          BY <1>5, <1>7
        <5>2. a = Altered(b, k, b[k].n - n)
          BY <3>1 DEF Array, Altered
        <5> QED BY <5>1, <5>2
      <4>2. a = Altered(b, k, 0) /\ a \in Seq(Pile(I)) /\ Len(a) = N
            /\ a[k] = [id |-> b[k].id, n |-> 0]
            /\ \A j \in 1..N : j # k => a[j] = b[j]
        BY <1>2, <4>1, AlteredIs
      <4> HIDE DEF a
      <4>3. \A j \in 1..(N - 1) : j \in 1..N /\ j # k /\ Shift(k, j) = j
        BY <2>1, <3>1 DEF Shift
      <4> QED BY <1>2, <3>1, <4>2, <4>3
    <3>2. CASE k # N
      <4>1. a = [j \in 1..N |-> IF j < k \/ j = N THEN b[j] ELSE b[j + 1]]
        BY <1>1, <1>2, <1>5, <1>7, <3>2 DEF Array
      <4> HIDE DEF a
      <4>2. \A j \in 1..N : b[j] \in Pile(I)
        OBVIOUS
      <4>3. \A j \in 1..N : j # N => j + 1 \in 1..N
        BY <2>1
      <4> HIDE DEF N
      <4>4. a \in [1..N -> Pile(I)]
        BY <4>1, <4>2, <4>3
      <4>5. a \in Seq(Pile(I)) /\ Len(a) = N
        BY <2>1, <4>4
      <4>6. \A j \in 1..(N - 1) : j \in 1..N /\ j # N
        BY <2>1
      <4>7. \A j \in 1..(N - 1) : a[j] = b[Shift(k, j)]
        BY <4>1, <4>6 DEF Shift
      <4>8. N \in 1..N /\ a[N] = b[N]
        BY <2>1, <4>1
      <4> QED BY <3>2, <4>5, <4>7, <4>8
    <3> QED BY <3>1, <3>2
  <2>3. T = SubSeq(a, 1, N - 1)
    BY <1>3, <1>7
  <2> HIDE DEF N, a
  <2>4. T \in Seq(Pile(I)) /\ Len(T) = N - 1 /\ \A j \in 1..(N - 1) : T[j] = a[j]
    BY <2>1, <2>2, <2>3
  <2>5. Closed(b, k, T)
    BY <2>2, <2>4 DEF Closed, N
  <2> QED BY <1>2, <1>3, <1>4, <1>7, <2>2, <2>4, <2>5 DEF N, T
<1> QED BY <1>2, <1>5, <1>6, <1>7


LEMMA ShiftIs ==
  ASSUME NEW I, NEW b \in Seq(Pile(I)), NEW k \in 1..Len(b), NEW d \in Seq(Pile(I)), Closed(b, k, d)
  PROVE  /\ Len(b) \in Nat /\ Len(d) \in Nat /\ Len(d) = Len(b) - 1
         /\ \A j \in 1..Len(d) : Shift(k, j) \in 1..Len(b) /\ Shift(k, j) # k /\ d[j] = b[Shift(k, j)]
         /\ \A i, j \in 1..Len(d) : Shift(k, i) = Shift(k, j) => i = j
         /\ \A i, j \in 1..Len(d) : i < j => Shift(k, i) < Shift(k, j)
         /\ \A j \in 1..Len(b) : j # k => \E i \in 1..Len(d) : Shift(k, i) = j
<1>1. Len(b) \in Nat /\ Len(d) \in Nat /\ Len(d) = Len(b) - 1
  BY DEF Closed
<1>2. \A j \in 1..Len(d) : Shift(k, j) \in 1..Len(b) /\ Shift(k, j) # k /\ d[j] = b[Shift(k, j)]
  BY <1>1 DEF Closed, Shift
<1>3. /\ \A i, j \in 1..Len(d) : Shift(k, i) = Shift(k, j) => i = j
      /\ \A i, j \in 1..Len(d) : i < j => Shift(k, i) < Shift(k, j)
  BY <1>1 DEF Shift
<1>4. ASSUME NEW j \in 1..Len(b), j # k
      PROVE  \E i \in 1..Len(d) : Shift(k, i) = j
  <2>1. CASE j < k
    <3>1. j \in 1..Len(d)
      BY <1>1, <2>1
    <3> QED BY <2>1, <3>1 DEF Shift
  <2>2. CASE j > k
    <3>1. j - 1 \in 1..Len(d) /\ ~(j - 1 < k) /\ j - 1 + 1 = j
      BY <1>1, <2>2
    <3> QED BY <3>1 DEF Shift
  <2> QED BY <1>4, <2>1, <2>2
<1> QED BY <1>1, <1>2, <1>3, <1>4

-----------------------------------------------------------------------------
(* What a pile list comes to, for any count of a unit of each item. *)

Worth(c, id, n) == c[id] * n
Val(c, b) == [k \in 1..Len(b) |-> Worth(c, b[k].id, b[k].n)]

LEMMA WeighIs ==
  ASSUME NEW I, NEW c, NEW b \in Seq(Pile(I))
  PROVE  Weigh(c, b) = SumFunctionOnSet(Val(c, b), 1..Len(b))
BY DEF Weigh, Val, Worth, SumFunction

LEMMA WorthNat ==
  ASSUME NEW I, NEW c \in [I -> Nat], NEW id \in I, NEW m \in Nat, NEW n \in Nat
  PROVE  /\ Worth(c, id, n) \in Nat /\ Worth(c, id, 0) = 0 /\ Worth(c, id, 1) = c[id]
         /\ Worth(c, id, m + n) = Worth(c, id, m) + Worth(c, id, n)
<1>1. c[id] \in Nat
  OBVIOUS
<1> QED BY <1>1 DEF Worth

LEMMA ValNat ==
  ASSUME NEW I, NEW c \in [I -> Nat], NEW b \in Seq(Pile(I))
  PROVE  /\ IsFiniteSet(1..Len(b)) /\ \A k \in 1..Len(b) : Val(c, b)[k] \in Nat
         /\ \A k \in 1..Len(b) : Val(c, b)[k] = Worth(c, b[k].id, b[k].n)
<1>1. ASSUME NEW k \in 1..Len(b)
      PROVE  Val(c, b)[k] \in Nat /\ Val(c, b)[k] = Worth(c, b[k].id, b[k].n)
  BY PileParts, WorthNat DEF Val
<1>2. IsFiniteSet(1..Len(b))
  BY FS_Interval
<1> QED BY <1>1, <1>2

LEMMA WeighNat ==
  ASSUME NEW I, NEW c \in [I -> Nat], NEW b \in Seq(Pile(I))
  PROVE  Weigh(c, b) \in Nat
BY ValNat, SumNat, WeighIs

LEMMA WeighEmpty == ASSUME NEW c PROVE Weigh(c, <<>>) = 0
<1>1. <<>> \in Seq(Pile({})) /\ Len(<<>>) = 0 /\ 1..0 = {}
  OBVIOUS
<1> QED BY <1>1, SumEmpty, WeighIs

\* One pile altered.
LEMMA WeighAltered ==
  ASSUME NEW I, NEW c \in [I -> Nat], NEW b \in Seq(Pile(I)), NEW k \in 1..Len(b), NEW m \in Nat
  PROVE  /\ Weigh(c, Altered(b, k, m)) + Worth(c, b[k].id, b[k].n) = Weigh(c, b) + Worth(c, b[k].id, m)
         /\ Weigh(c, Altered(b, k, m)) \in Nat /\ Weigh(c, b) \in Nat
<1> DEFINE d == Altered(b, k, m)
           v == Val(c, b)
           w == Val(c, d)
<1>1. /\ d \in Seq(Pile(I)) /\ Len(d) = Len(b) /\ d[k].id = b[k].id /\ d[k].n = m
      /\ \A j \in 1..Len(b) : j # k => d[j] = b[j]
  <2>1. /\ d \in Seq(Pile(I)) /\ Len(d) = Len(b) /\ d[k] = [id |-> b[k].id, n |-> m]
        /\ \A j \in 1..Len(b) : j # k => d[j] = b[j]
    BY AlteredIs
  <2> HIDE DEF d
  <2> QED BY <2>1
<1> HIDE DEF d
<1>2. /\ IsFiniteSet(1..Len(b)) /\ \A j \in 1..Len(b) : v[j] \in Nat
      /\ \A j \in 1..Len(b) : v[j] = Worth(c, b[j].id, b[j].n)
  BY ValNat
<1>3. /\ \A j \in 1..Len(b) : w[j] \in Nat
      /\ \A j \in 1..Len(b) : w[j] = Worth(c, d[j].id, d[j].n)
  BY <1>1, ValNat
<1>4. v[k] = Worth(c, b[k].id, b[k].n) /\ w[k] = Worth(c, b[k].id, m)
  BY <1>1, <1>2, <1>3
<1>5. \A j \in 1..Len(b) : j # k => w[j] = v[j]
  BY <1>1, <1>2, <1>3
<1>6. Weigh(c, b) = SumFunctionOnSet(v, 1..Len(b)) /\ Weigh(c, d) = SumFunctionOnSet(w, 1..Len(b))
  BY <1>1, WeighIs
<1> HIDE DEF v, w
<1>7. w[k] \in Nat
  BY <1>3
<1>8. /\ SumFunctionOnSet(w, 1..Len(b)) + v[k] = SumFunctionOnSet(v, 1..Len(b)) + w[k]
      /\ SumFunctionOnSet(w, 1..Len(b)) \in Nat /\ SumFunctionOnSet(v, 1..Len(b)) \in Nat
  BY <1>2, <1>5, <1>7, SumChanged
<1> QED BY <1>4, <1>6, <1>8 DEF d

\* One pile closed.
LEMMA WeighClosed ==
  ASSUME NEW I, NEW c \in [I -> Nat], NEW b \in Seq(Pile(I)), NEW k \in 1..Len(b),
         NEW d \in Seq(Pile(I)), Closed(b, k, d)
  PROVE  /\ Weigh(c, b) = Weigh(c, d) + Worth(c, b[k].id, b[k].n)
         /\ Weigh(c, d) \in Nat /\ Weigh(c, b) \in Nat
<1> DEFINE v == Val(c, b)
           w == Val(c, d)
           S == 1..Len(d)
           T == (1..Len(b)) \ {k}
           f == [j \in S |-> Shift(k, j)]
<1>1. /\ IsFiniteSet(1..Len(b)) /\ \A j \in 1..Len(b) : v[j] \in Nat
      /\ \A j \in 1..Len(b) : v[j] = Worth(c, b[j].id, b[j].n)
  BY ValNat
<1>2. /\ IsFiniteSet(S) /\ \A j \in S : w[j] = Worth(c, d[j].id, d[j].n)
  BY ValNat
<1>3. IsFiniteSet(T) /\ \A j \in T : v[j] \in Nat
  BY <1>1, FS_RemoveElement
<1>4. \A j \in S : f[j] \in T /\ f[j] \in 1..Len(b) /\ d[j] = b[f[j]]
  BY ShiftIs
<1>5. Renames(f, S, T)
  BY ShiftIs DEF Renames
<1> HIDE DEF f
<1>6. \A j \in S : w[j] = v[f[j]]
  BY <1>1, <1>2, <1>4
<1>7. Weigh(c, b) = SumFunctionOnSet(v, 1..Len(b)) /\ Weigh(c, d) = SumFunctionOnSet(w, S)
  BY WeighIs
<1>8. v[k] = Worth(c, b[k].id, b[k].n)
  BY <1>1
<1> HIDE DEF v, w, S
<1>9. SumFunctionOnSet(w, S) = SumFunctionOnSet(v, T)
  <2> HIDE DEF T
  <2> QED BY <1>2, <1>3, <1>5, <1>6, SumRenamed
<1>10. SumFunctionOnSet(v, 1..Len(b)) = v[k] + SumFunctionOnSet(v, T)
  BY <1>1, SumWithout
<1>11. SumFunctionOnSet(v, T) \in Nat /\ v[k] \in Nat
  BY <1>1, <1>3, SumNat
<1> QED BY <1>7, <1>8, <1>9, <1>10, <1>11

\* One pile more.
LEMMA WeighAppended ==
  ASSUME NEW I, NEW c \in [I -> Nat], NEW b \in Seq(Pile(I)), NEW x \in Pile(I)
  PROVE  Weigh(c, Append(b, x)) = Weigh(c, b) + Worth(c, x.id, x.n) /\ Weigh(c, b) \in Nat
<1> DEFINE d == Append(b, x)
<1>1. /\ d \in Seq(Pile(I)) /\ Len(d) = Len(b) + 1 /\ Len(b) \in Nat /\ d[Len(b) + 1] = x
      /\ \A j \in 1..Len(b) : d[j] = b[j]
  OBVIOUS
<1> HIDE DEF d
<1>2. Len(d) \in 1..Len(d) /\ Closed(d, Len(d), b) /\ d[Len(d)] = x
  BY <1>1 DEF Closed, Shift
<1>3. Weigh(c, d) = Weigh(c, b) + Worth(c, d[Len(d)].id, d[Len(d)].n) /\ Weigh(c, b) \in Nat
  BY <1>1, <1>2, WeighClosed
<1> QED BY <1>2, <1>3 DEF d

LEMMA WorthAdds ==
  ASSUME NEW I, NEW c \in [I -> Nat], NEW id \in I, NEW q \in Nat, NEW n \in Nat, NEW m \in Nat, Both(m, q, n)
  PROVE  /\ Worth(c, id, m) = Worth(c, id, q) + Worth(c, id, n)
         /\ Worth(c, id, q) \in Nat /\ Worth(c, id, n) \in Nat /\ Worth(c, id, m) \in Nat
<1>1. c[id] \in Nat
  OBVIOUS
<1> QED BY <1>1 DEF Worth, Both

LEMMA Grown ==
  ASSUME NEW I, NEW c \in [I -> Nat], NEW i \in I, NEW q \in Nat, NEW n \in Nat, NEW m \in Nat, Both(m, q, n),
         NEW L \in Nat, NEW M \in Nat, L + Worth(c, i, q) = M + Worth(c, i, m)
  PROVE  L = M + Worth(c, i, n)
<1> DEFINE x == Worth(c, i, q)  y == Worth(c, i, m)  z == Worth(c, i, n)
<1>1. y = x + z /\ x \in Nat /\ y \in Nat /\ z \in Nat
  BY WorthAdds
<1> HIDE DEF x, y, z
<1>2. L + x = M + y
  BY DEF x, y
<1> QED BY <1>1, <1>2 DEF z

\* A pile that grows or shrinks by n units.
LEMMA WeighGrown ==
  ASSUME NEW I, NEW c \in [I -> Nat], NEW b \in Seq(Pile(I)), NEW k \in 1..Len(b),
         NEW n \in Nat, NEW d, Grows(b, k, n, d)
  PROVE  d \in Seq(Pile(I)) /\ Weigh(c, d) = Weigh(c, b) + Worth(c, b[k].id, n)
<1>1. PICK m \in Nat : Both(m, Units(b, k), n) /\ d = Altered(b, k, m)
  BY DEF Grows
<1>2. d \in Seq(Pile(I)) /\ b[k].id \in I /\ Units(b, k) \in Nat
  BY <1>1, AlteredIs, PileParts DEF Units
<1>3. /\ Weigh(c, d) + Worth(c, b[k].id, Units(b, k)) = Weigh(c, b) + Worth(c, b[k].id, m)
      /\ Weigh(c, d) \in Nat /\ Weigh(c, b) \in Nat
  BY <1>1, WeighAltered DEF Units
<1>4. \A L, M, q \in Nat : Both(m, q, n) /\ L + Worth(c, b[k].id, q) = M + Worth(c, b[k].id, m)
        => L = M + Worth(c, b[k].id, n)
  BY <1>2, Grown
<1> QED BY <1>1, <1>2, <1>3, <1>4

LEMMA WeighShrunk ==
  ASSUME NEW I, NEW c \in [I -> Nat], NEW b \in Seq(Pile(I)), NEW k \in 1..Len(b),
         NEW n \in Nat, NEW d, Shrinks(b, k, n, d)
  PROVE  d \in Seq(Pile(I)) /\ Weigh(c, b) = Weigh(c, d) + Worth(c, b[k].id, n)
<1>1. PICK m \in Nat : Both(Units(b, k), m, n) /\ d = Altered(b, k, m)
  BY DEF Shrinks
<1>2. d \in Seq(Pile(I)) /\ b[k].id \in I /\ Units(b, k) \in Nat
  BY <1>1, AlteredIs, PileParts DEF Units
<1>3. /\ Weigh(c, d) + Worth(c, b[k].id, Units(b, k)) = Weigh(c, b) + Worth(c, b[k].id, m)
      /\ Weigh(c, d) \in Nat /\ Weigh(c, b) \in Nat
  BY <1>1, WeighAltered DEF Units
<1>4. \A L, M, q \in Nat : Both(q, m, n) /\ L + Worth(c, b[k].id, m) = M + Worth(c, b[k].id, q)
        => L = M + Worth(c, b[k].id, n)
  BY <1>2, Grown
<1> QED BY <1>1, <1>2, <1>3, <1>4

\* Slots that do not count add nothing.
LEMMA WeighBeyond ==
  ASSUME NEW I, NEW c \in [I -> Nat], NEW a \in Seq(Pile(I)), NEW d \in Seq(Pile(I)),
         Len(d) <= Len(a), \A j \in 1..Len(d) : a[j] = d[j],
         \A j \in 1..Len(a) : j > Len(d) => c[a[j].id] = 0
  PROVE  Weigh(c, a) = Weigh(c, d)
<1> DEFINE S == 1..Len(a)
           R == 1..Len(d)
           v == Val(c, a)
           w == Val(c, d)
<1>1. /\ Len(a) \in Nat /\ Len(d) \in Nat /\ R \subseteq S
      /\ \A j \in S : j \in R \/ j > Len(d)
  OBVIOUS
<1>2. /\ IsFiniteSet(S) /\ \A j \in S : v[j] \in Nat
      /\ \A j \in S : v[j] = Worth(c, a[j].id, a[j].n)
  BY ValNat
<1>3. IsFiniteSet(R) /\ \A j \in R : w[j] = Worth(c, d[j].id, d[j].n)
  BY ValNat
<1>4. ASSUME NEW j \in S \ R PROVE v[j] = 0
  <2>1. j \in S /\ c[a[j].id] = 0 /\ a[j].n \in Nat
    BY <1>1, PileParts
  <2>2. Worth(c, a[j].id, a[j].n) = 0
    BY <2>1 DEF Worth
  <2> QED BY <1>2, <2>1, <2>2
<1>5. \A j \in R : w[j] = v[j] /\ v[j] \in Nat
  BY <1>1, <1>2, <1>3
<1>6. Weigh(c, a) = SumFunctionOnSet(v, S) /\ Weigh(c, d) = SumFunctionOnSet(w, R)
  BY WeighIs
<1> HIDE DEF v, w, S, R
<1>7. SumFunctionOnSet(v, S) = SumFunctionOnSet(v, R)
  BY <1>1, <1>2, <1>4, SumPadded
<1>8. SumFunctionOnSet(w, R) = SumFunctionOnSet(v, R)
  BY <1>3, <1>5, SumSame
<1> QED BY <1>6, <1>7, <1>8

\* AddStack brings in the n units and changes nothing else.
LEMMA AddWeighs ==
  ASSUME NEW I, NEW c \in [I -> Nat], NEW b \in Seq(Pile(I)), NEW id \in I, NEW n \in Nat
  PROVE  /\ AddStack(b, id, n) \in Seq(Pile(I))
         /\ Weigh(c, AddStack(b, id, n)) = Weigh(c, b) + Worth(c, id, n)
         /\ Weigh(c, b) \in Nat
<1>1. Weigh(c, b) \in Nat /\ Worth(c, id, 0) = 0
  BY WeighNat, WorthNat
<1>2. CASE n = 0
  BY <1>1, <1>2 DEF AddStack
<1>3. CASE n # 0 /\ AddStack(b, id, n) = Append(b, [id |-> id, n |-> n])
  <2> DEFINE x == [id |-> id, n |-> n]
  <2>1. x \in Pile(I) /\ x.id = id /\ x.n = n
    BY DEF Pile
  <2> HIDE DEF x
  <2>2. Append(b, x) \in Seq(Pile(I)) /\ Weigh(c, Append(b, x)) = Weigh(c, b) + Worth(c, x.id, x.n)
    BY <2>1, WeighAppended
  <2> QED BY <1>1, <1>3, <2>1, <2>2 DEF x
<1>4. ASSUME NEW k \in 1..Len(b), b[k].id = id, Grows(b, k, n, AddStack(b, id, n))
      PROVE  AddStack(b, id, n) \in Seq(Pile(I)) /\ Weigh(c, AddStack(b, id, n)) = Weigh(c, b) + Worth(c, id, n)
  BY <1>4, WeighGrown
<1>5. CASE n # 0
  <2>1. n \in Nat \ {0}
    BY <1>5
  <2>2. \/ AddStack(b, id, n) = Append(b, [id |-> id, n |-> n])
        \/ \E k \in 1..Len(b) : b[k].id = id /\ Grows(b, k, n, AddStack(b, id, n))
    BY <2>1, AddShape
  <2> QED BY <1>1, <1>3, <1>4, <1>5, <2>2
<1> QED BY <1>1, <1>2, <1>5

\* TakeStack takes out the n units and changes nothing else.
LEMMA TakeWeighs ==
  ASSUME NEW I, NEW c \in [I -> Nat], NEW b \in Seq(Pile(I)), NEW id, NEW n \in Nat, CanTake(b, id, n)
  PROVE  /\ TakeStack(b, id, n) \in Seq(Pile(I)) /\ id \in I
         /\ Weigh(c, b) = Weigh(c, TakeStack(b, id, n)) + Worth(c, id, n)
         /\ Weigh(c, TakeStack(b, id, n)) \in Nat /\ Weigh(c, b) \in Nat
<1> DEFINE T == TakeStack(b, id, n)
<1>1. PICK k \in 1..Len(b) :
           /\ b[k].id = id /\ T \in Seq(Pile(I))
           /\ \/ Shrinks(b, k, n, T)
              \/ b[k].n = n /\ Closed(b, k, T)
  BY TakeShape
<1> HIDE DEF T
<1>2. id \in I
  BY <1>1, PileParts
<1>3. Weigh(c, T) \in Nat /\ Weigh(c, b) \in Nat
  BY <1>1, WeighNat
<1>4. Weigh(c, b) = Weigh(c, T) + Worth(c, id, n)
  BY <1>1, WeighShrunk, WeighClosed
<1> QED BY <1>1, <1>2, <1>3, <1>4 DEF T

-----------------------------------------------------------------------------
(* Tidiness. *)

LEMMA AlteredTidy ==
  ASSUME NEW I, NEW b \in Seq(Pile(I)), Tidy(b), NEW k \in 1..Len(b), NEW m \in Nat, m > 0
  PROVE  Tidy(Altered(b, k, m))
<1> DEFINE d == Altered(b, k, m)
<1>1. /\ d \in Seq(Pile(I)) /\ Len(d) = Len(b) /\ d[k] = [id |-> b[k].id, n |-> m]
      /\ \A j \in 1..Len(b) : j # k => d[j] = b[j]
  BY AlteredIs
<1> HIDE DEF d
<1>2. DOMAIN b = 1..Len(b) /\ DOMAIN d = 1..Len(b)
  BY <1>1
<1>3. d[k].id = b[k].id /\ d[k].n = m
  BY <1>1
<1>4. \A j \in 1..Len(b) : d[j].id = b[j].id /\ d[j].n > 0
  BY <1>1, <1>2, <1>3 DEF Tidy
<1>5. Tidy(d)
  BY <1>2, <1>4 DEF Tidy
<1> QED BY <1>5 DEF d

LEMMA GrowsTidy ==
  ASSUME NEW I, NEW b \in Seq(Pile(I)), Tidy(b), NEW k \in 1..Len(b), NEW n \in Nat, NEW d,
         Grows(b, k, n, d)
  PROVE  Tidy(d)
<1>1. PICK m \in Nat : Both(m, Units(b, k), n) /\ d = Altered(b, k, m)
  BY DEF Grows
<1>2. Units(b, k) \in Nat /\ Units(b, k) > 0
  BY PileParts DEF Units, Tidy
<1>3. m > 0
  BY <1>1, <1>2 DEF Both
<1> QED BY <1>1, <1>3, AlteredTidy

LEMMA ShrinksTidy ==
  ASSUME NEW I, NEW b \in Seq(Pile(I)), Tidy(b), NEW k \in 1..Len(b), NEW n \in Nat, NEW d,
         Shrinks(b, k, n, d)
  PROVE  Tidy(d)
BY AlteredTidy DEF Shrinks

LEMMA ClosedTidy ==
  ASSUME NEW I, NEW b \in Seq(Pile(I)), Tidy(b), NEW k \in 1..Len(b),
         NEW d \in Seq(Pile(I)), Closed(b, k, d)
  PROVE  Tidy(d)
<1>1. /\ \A j \in 1..Len(d) : Shift(k, j) \in 1..Len(b) /\ d[j] = b[Shift(k, j)]
      /\ \A i, j \in 1..Len(d) : Shift(k, i) = Shift(k, j) => i = j
  BY ShiftIs
<1>2. DOMAIN b = 1..Len(b) /\ DOMAIN d = 1..Len(d)
  OBVIOUS
<1>3. \A j \in 1..Len(d) : d[j].n > 0
  BY <1>1, <1>2 DEF Tidy
<1>4. ASSUME NEW i \in 1..Len(d), NEW j \in 1..Len(d), d[i].id = d[j].id
      PROVE  i = j
  <2>1. Shift(k, i) = Shift(k, j)
    BY <1>1, <1>2, <1>4 DEF Tidy
  <2> QED BY <1>1, <2>1
<1> QED BY <1>2, <1>3, <1>4 DEF Tidy

LEMMA AppendTidy ==
  ASSUME NEW I, NEW b \in Seq(Pile(I)), Tidy(b), NEW x \in Pile(I), x.n > 0,
         \A k \in 1..Len(b) : b[k].id # x.id
  PROVE  Tidy(Append(b, x))
<1> DEFINE d == Append(b, x)
<1>1. /\ Len(b) \in Nat /\ DOMAIN b = 1..Len(b) /\ DOMAIN d = 1..(Len(b) + 1)
      /\ d[Len(b) + 1] = x /\ \A j \in 1..Len(b) : d[j] = b[j]
  OBVIOUS
<1> HIDE DEF d
<1>2. \A j \in DOMAIN d : j \in 1..Len(b) \/ j = Len(b) + 1
  BY <1>1
<1>3. \A j \in DOMAIN d : d[j].n > 0
  BY <1>1, <1>2 DEF Tidy
<1>4. ASSUME NEW i \in DOMAIN d, NEW j \in DOMAIN d, d[i].id = d[j].id
      PROVE  i = j
  BY <1>1, <1>2, <1>4 DEF Tidy
<1>5. Tidy(d)
  BY <1>3, <1>4 DEF Tidy
<1> QED BY <1>5 DEF d

\* AddStack keeps a list tidy: it merges into the one pile of the item or opens one.
\* (world.AddStack)
THEOREM AddKeepsTidy ==
  ASSUME NEW I, NEW b \in Seq(Pile(I)), Tidy(b), NEW id \in I, NEW n \in Nat
  PROVE  AddStack(b, id, n) \in Seq(Pile(I)) /\ Tidy(AddStack(b, id, n))
<1>1. CASE n = 0
  BY <1>1 DEF AddStack
<1>2. CASE n # 0
  <2> DEFINE x == [id |-> id, n |-> n]
  <2>1. x \in Pile(I) /\ x.id = id /\ x.n > 0
    BY <1>2 DEF Pile
  <2> HIDE DEF x
  <2>2. \/ (\A k \in 1..Len(b) : b[k].id # id) /\ AddStack(b, id, n) = Append(b, x)
        \/ \E k \in 1..Len(b) : b[k].id = id /\ Grows(b, k, n, AddStack(b, id, n))
    <3>1. n \in Nat \ {0}
      BY <1>2
    <3> QED BY <3>1, AddShape DEF x
  <2>3. Append(b, x) \in Seq(Pile(I))
    BY <2>1
  <2>4. CASE (\A k \in 1..Len(b) : b[k].id # id) /\ AddStack(b, id, n) = Append(b, x)
    BY <2>1, <2>3, <2>4, AppendTidy
  <2>5. CASE \E k \in 1..Len(b) : b[k].id = id /\ Grows(b, k, n, AddStack(b, id, n))
    <3>1. AddStack(b, id, n) \in Seq(Pile(I))
      BY <2>5, AlteredIs DEF Grows
    <3> QED BY <2>5, <3>1, GrowsTidy
  <2> QED BY <2>2, <2>4, <2>5
<1> QED BY <1>1, <1>2

\* TakeStack keeps a list tidy: a used-up pile is closed, the piles behind it move up.
\* (world.TakeStack)
THEOREM TakeKeepsTidy ==
  ASSUME NEW I, NEW b \in Seq(Pile(I)), Tidy(b), NEW id, NEW n \in Nat, CanTake(b, id, n)
  PROVE  TakeStack(b, id, n) \in Seq(Pile(I)) /\ Tidy(TakeStack(b, id, n))
<1>1. PICK k \in 1..Len(b) :
           /\ TakeStack(b, id, n) \in Seq(Pile(I))
           /\ Shrinks(b, k, n, TakeStack(b, id, n)) \/ Closed(b, k, TakeStack(b, id, n))
  BY TakeShape
<1> QED BY <1>1, ShrinksTidy, ClosedTidy

\* Where the first pile of an item has n units, TakeStack can serve them.
LEMMA QtyServes ==
  ASSUME NEW I, NEW b \in Seq(Pile(I)), NEW id, NEW n \in Nat, n > 0, QtyOf(b, id) >= n
  PROVE  CanTake(b, id, n)
<1>1. Merging(b, id) # {} /\ Merging(b, id) \subseteq Nat
  BY DEF QtyOf, Merging
<1> DEFINE k == First(Merging(b, id))
<1>2. k \in Merging(b, id)
  BY <1>1, FirstIs
<1>3. b[k].n >= n
  BY <1>1 DEF QtyOf
<1> QED BY <1>2, <1>3 DEF CanTake, Serving

=============================================================================
