----------------------------- MODULE SumLemmas ------------------------------
(***************************************************************************)
(* Sums over finite sets.  MapThenSumSet of the community modules adds up  *)
(* by recursion over the subsets of a set; here that recursion is shown to *)
(* define one function, with a smallest counterexample (WFMin) in place of *)
(* an induction.                                                           *)
(***************************************************************************)
EXTENDS Integers, FiniteSetsExt, FiniteSetTheorems, WellFoundedInduction, TLAPS

\* The element that the recursion takes from s next.
Next1(s) == CHOOSE x \in s : TRUE

\* it is the function of the subsets of S that the recursion defines for f.
Sums(f, S, it) ==
    it = [s \in SUBSET S |-> IF s = {} THEN 0 ELSE f[Next1(s)] + it[s \ {Next1(s)}]]

\* A family of subsets of a finite set has a smallest member.
LEMMA Smallest ==
    ASSUME NEW S, IsFiniteSet(S), NEW T \in SUBSET SUBSET S, T # {}
    PROVE  \E s \in T : \A r \in T : r \subseteq s => r = s
<1>1. IsWellFoundedOn(StrictSubsetOrdering(S), SUBSET S)
  BY FS_StrictSubsetOrderingWellFounded, FS_FiniteSubsetsOfFinite
<1>2. PICK s \in T : \A r \in T : <<r, s>> \notin StrictSubsetOrdering(S)
  BY <1>1, WFMin
<1>3. \A r \in T : r \subseteq s => r = s
  BY <1>2 DEF StrictSubsetOrdering
<1> QED
  BY <1>3

\* The next element is one of them.
LEMMA Next1In == ASSUME NEW s, s # {} PROVE Next1(s) \in s
  BY DEF Next1

\* What the recursion says of one subset.
LEMMA SumsAt ==
    ASSUME NEW S, NEW f, NEW it, Sums(f, S, it), NEW s \in SUBSET S
    PROVE  it[s] = IF s = {} THEN 0 ELSE f[Next1(s)] + it[s \ {Next1(s)}]
  BY DEF Sums

\* Two such functions agree on the subsets they share.
LEMMA SumsUnique ==
    ASSUME NEW S, NEW R, NEW f, NEW g, NEW it, NEW jt, Sums(f, S, it), Sums(g, R, jt),
           NEW s, s \subseteq S, s \subseteq R, IsFiniteSet(s), \A x \in s : f[x] = g[x]
    PROVE  it[s] = jt[s]
<1> DEFINE T == {r \in SUBSET s : it[r] # jt[r]}
<1>1. SUFFICES ASSUME T # {} PROVE FALSE
  BY DEF T
<1>2. PICK r \in T : \A q \in T : q \subseteq r => q = r
  <2>1. T \in SUBSET SUBSET s
    OBVIOUS
  <2> HIDE DEF T
  <2> QED
    BY <1>1, <2>1, Smallest
<1>3. r \in SUBSET S /\ r \in SUBSET R /\ r \subseteq s /\ it[r] # jt[r]
  OBVIOUS
<1>4. /\ it[r] = IF r = {} THEN 0 ELSE f[Next1(r)] + it[r \ {Next1(r)}]
      /\ jt[r] = IF r = {} THEN 0 ELSE g[Next1(r)] + jt[r \ {Next1(r)}]
  <2> HIDE DEF T
  <2>1. it[r] = IF r = {} THEN 0 ELSE f[Next1(r)] + it[r \ {Next1(r)}]
    BY <1>3 DEF Sums
  <2>2. jt[r] = IF r = {} THEN 0 ELSE g[Next1(r)] + jt[r \ {Next1(r)}]
    BY <1>3 DEF Sums
  <2> QED
    BY <2>1, <2>2
<1>5. CASE r = {}
  BY <1>4, <1>5
<1>6. CASE r # {}
  <2>1. Next1(r) \in r
    BY <1>6, Next1In
  <2>2. r \ {Next1(r)} \notin T
    BY <1>2, <2>1
  <2>3. it[r \ {Next1(r)}] = jt[r \ {Next1(r)}]
    BY <1>3, <2>2
  <2>4. f[Next1(r)] = g[Next1(r)]
    BY <1>3, <2>1
  <2>5. it[r] = jt[r]
    BY <1>4, <1>6, <2>3, <2>4
  <2> QED
    BY <2>5
<1> QED
  BY <1>5, <1>6

\* There is such a function.
LEMMA SumsExist ==
    ASSUME NEW S, IsFiniteSet(S), NEW f
    PROVE  \E it : Sums(f, S, it)
<1> DEFINE T == {s \in SUBSET S : ~ \E it : Sums(f, s, it)}
<1>1. SUFFICES ASSUME T # {} PROVE FALSE
  BY DEF T
<1>2. PICK s \in T : \A r \in T : r \subseteq s => r = s
  <2>1. T \in SUBSET SUBSET S
    OBVIOUS
  <2> HIDE DEF T
  <2> QED
    BY <1>1, <2>1, Smallest
<1>3. ASSUME NEW r \in SUBSET s, r # s PROVE \E it : Sums(f, r, it)
  BY <1>2, <1>3
<1>4. PICK V : V = [r \in SUBSET s |-> (CHOOSE it : Sums(f, r, it))]
  OBVIOUS
<1>5. ASSUME NEW r \in SUBSET s, r # s PROVE Sums(f, r, V[r])
  <2>1. \E it : Sums(f, r, it)
    BY <1>3, <1>5
  <2>2. Sums(f, r, CHOOSE it : Sums(f, r, it))
    BY <2>1
  <2> QED
    BY <1>4, <2>2
<1>6. PICK h : h = [r \in SUBSET s |->
                      IF r = {} THEN 0 ELSE f[Next1(r)] + V[r \ {Next1(r)}][r \ {Next1(r)}]]
  OBVIOUS
<1>7. \A r \in SUBSET s : h[r] = IF r = {} THEN 0 ELSE f[Next1(r)] + V[r \ {Next1(r)}][r \ {Next1(r)}]
  BY <1>6
<1>8. IsFiniteSet(s)
  BY FS_Subset
<1>9. ASSUME NEW r \in SUBSET s, r # s PROVE h[r] = V[r][r]
  <2>1. Sums(f, r, V[r])
    BY <1>5, <1>9
  <2>2. V[r][r] = IF r = {} THEN 0 ELSE f[Next1(r)] + V[r][r \ {Next1(r)}]
    BY <2>1, SumsAt
  <2>3. CASE r = {}
    BY <1>7, <2>2, <2>3
  <2>4. CASE r # {}
    <3>1. PICK q : q = r \ {Next1(r)}
      OBVIOUS
    <3>2. Next1(r) \in r
      BY <2>4, Next1In
    <3>3. q \in SUBSET s /\ q # s /\ q \subseteq r
      BY <3>1, <3>2
    <3>4. Sums(f, q, V[q]) /\ IsFiniteSet(q)
      BY <1>5, <1>8, <3>3, FS_Subset
    <3>5. V[r][q] = V[q][q]
      BY <2>1, <3>3, <3>4, SumsUnique
    <3> QED
      BY <1>7, <2>2, <2>4, <3>1, <3>5
  <2> QED
    BY <2>3, <2>4
<1>10. \A r \in SUBSET s : r # {} => h[r \ {Next1(r)}] = V[r \ {Next1(r)}][r \ {Next1(r)}]
  <2>1. SUFFICES ASSUME NEW r \in SUBSET s, r # {}
                 PROVE  h[r \ {Next1(r)}] = V[r \ {Next1(r)}][r \ {Next1(r)}]
    OBVIOUS
  <2>2. Next1(r) \in r
    BY <2>1, Next1In
  <2>3. r \ {Next1(r)} \in SUBSET s /\ r \ {Next1(r)} # s
    BY <2>2
  <2> QED
    BY <1>9, <2>3
<1>11. \A r \in SUBSET s : h[r] = IF r = {} THEN 0 ELSE f[Next1(r)] + h[r \ {Next1(r)}]
  BY <1>7, <1>10
<1>12. Sums(f, s, h)
  <2>1. h = [r \in SUBSET s |-> h[r]]
    BY <1>6
  <2> QED
    BY <1>11, <2>1 DEF Sums
<1> QED
  BY <1>2, <1>12

\* The sum of f over a finite set S.
SumOf(f, S) == MapThenSumSet(LAMBDA x : f[x], S)

LEMMA TotalIs ==
    ASSUME NEW S, IsFiniteSet(S), NEW f, NEW it, Sums(f, S, it)
    PROVE  SumOf(f, S) = it[S]
<1>1. \E jt : Sums(f, S, jt)
  OBVIOUS
<1>2. SumOf(f, S) = (CHOOSE jt : Sums(f, S, jt))[S]
  BY DEF SumOf, MapThenSumSet, MapThenFoldSet, Sums, Next1
<1>3. Sums(f, S, CHOOSE jt : Sums(f, S, jt))
  BY <1>1
<1> QED
  BY <1>2, <1>3, SumsUnique

LEMMA TotalSame ==
    ASSUME NEW S, IsFiniteSet(S), NEW f, NEW g, \A x \in S : f[x] = g[x]
    PROVE  SumOf(f, S) = SumOf(g, S)
<1>1. PICK it : Sums(f, S, it)
  BY SumsExist
<1>2. PICK jt : Sums(g, S, jt)
  BY SumsExist
<1>3. it[S] = jt[S]
  BY <1>1, <1>2, SumsUnique
<1> QED
  BY <1>1, <1>2, <1>3, TotalIs

LEMMA TotalEmpty == ASSUME NEW f PROVE SumOf(f, {}) = 0
<1>1. IsFiniteSet({})
  BY FS_EmptySet
<1>2. PICK it : Sums(f, {}, it)
  BY <1>1, SumsExist
<1>3. it[{}] = 0
  BY <1>2 DEF Sums
<1> QED
  BY <1>1, <1>2, <1>3, TotalIs

LEMMA TotalNext ==
    ASSUME NEW S, IsFiniteSet(S), NEW f, S # {}
    PROVE  SumOf(f, S) = f[Next1(S)] + SumOf(f, S \ {Next1(S)})
<1>1. PICK it : Sums(f, S, it)
  BY SumsExist
<1>2. PICK R : R = S \ {Next1(S)}
  OBVIOUS
<1>3. R \subseteq S /\ IsFiniteSet(R)
  BY <1>2, FS_Subset
<1>4. PICK jt : Sums(f, R, jt)
  BY <1>3, SumsExist
<1>5. it[R] = jt[R]
  BY <1>1, <1>3, <1>4, SumsUnique
<1>6. SumOf(f, S) = it[S] /\ SumOf(f, R) = jt[R]
  BY <1>1, <1>3, <1>4, TotalIs
<1>7. it[S] = f[Next1(S)] + it[R]
  BY <1>1, <1>2 DEF Sums
<1> QED
  BY <1>2, <1>5, <1>6, <1>7

\* A sum of integers is an integer.
LEMMA TotalInt ==
    ASSUME NEW S, IsFiniteSet(S), NEW f, \A x \in S : f[x] \in Int
    PROVE  SumOf(f, S) \in Int
<1> DEFINE T == {r \in SUBSET S : SumOf(f, r) \notin Int}
<1>1. SUFFICES ASSUME T # {} PROVE FALSE
  BY DEF T
<1>2. PICK r \in T : \A q \in T : q \subseteq r => q = r
  <2>1. T \in SUBSET SUBSET S
    OBVIOUS
  <2> HIDE DEF T
  <2> QED
    BY <1>1, <2>1, Smallest
<1>3. r # {}
  BY TotalEmpty
<1>4. Next1(r) \in r /\ r \subseteq S
  BY <1>3, Next1In
<1>5. SumOf(f, r \ {Next1(r)}) \in Int
  BY <1>2, <1>4
<1>6. SumOf(f, r) = f[Next1(r)] + SumOf(f, r \ {Next1(r)})
  BY <1>3, <1>4, FS_Subset, TotalNext
<1> QED
  BY <1>4, <1>5, <1>6

\* Any element may be added last.
LEMMA TotalAt ==
    ASSUME NEW S, IsFiniteSet(S), NEW f, \A x \in S : f[x] \in Int, NEW e \in S
    PROVE  SumOf(f, S) = f[e] + SumOf(f, S \ {e})
<1> DEFINE T == {r \in SUBSET S : \E x \in r : SumOf(f, r) # f[x] + SumOf(f, r \ {x})}
<1>1. SUFFICES ASSUME T # {} PROVE FALSE
  BY DEF T
<1>2. PICK r \in T : \A q \in T : q \subseteq r => q = r
  <2>1. T \in SUBSET SUBSET S
    OBVIOUS
  <2> HIDE DEF T
  <2> QED
    BY <1>1, <2>1, Smallest
<1>3. PICK x \in r : SumOf(f, r) # f[x] + SumOf(f, r \ {x})
  OBVIOUS
<1>4. PICK y : y = Next1(r)
  OBVIOUS
<1>5. y \in r /\ r \subseteq S
  BY <1>3, <1>4, Next1In
<1>6. y # x
  BY <1>3, <1>4, <1>5, FS_Subset, TotalNext
<1>7. SumOf(f, r) = f[y] + SumOf(f, r \ {y})
  BY <1>3, <1>4, <1>5, FS_Subset, TotalNext
<1>8. PICK q : q = (r \ {y}) \ {x}
  OBVIOUS
<1>9. SumOf(f, r \ {y}) = f[x] + SumOf(f, q)
  <2>1. r \ {y} \notin T
    BY <1>2, <1>5
  <2> QED
    BY <1>3, <1>5, <1>6, <1>8, <2>1
<1>10. SumOf(f, r \ {x}) = f[y] + SumOf(f, q)
  <2>1. r \ {x} \notin T
    BY <1>2, <1>3
  <2>2. (r \ {x}) \ {y} = q
    BY <1>8
  <2> QED
    BY <1>3, <1>5, <1>6, <2>1, <2>2
<1>11. SumOf(f, q) \in Int /\ f[x] \in Int /\ f[y] \in Int
  BY <1>3, <1>5, <1>8, FS_Subset, TotalInt
<1> HIDE DEF T
<1> QED
  BY <1>3, <1>7, <1>9, <1>10, <1>11

\* The sum of a sum.
LEMMA TotalPlus ==
    ASSUME NEW S, IsFiniteSet(S), NEW f, NEW g, NEW h,
           \A x \in S : f[x] \in Int /\ g[x] \in Int /\ h[x] = f[x] + g[x]
    PROVE  SumOf(h, S) = SumOf(f, S) + SumOf(g, S)
<1> DEFINE T == {r \in SUBSET S : SumOf(h, r) # SumOf(f, r) + SumOf(g, r)}
<1>1. SUFFICES ASSUME T # {} PROVE FALSE
  BY DEF T
<1>2. PICK r \in T : \A q \in T : q \subseteq r => q = r
  <2>1. T \in SUBSET SUBSET S
    OBVIOUS
  <2> HIDE DEF T
  <2> QED
    BY <1>1, <2>1, Smallest
<1>3. r # {}
  <2>1. SumOf(f, {}) = 0 /\ SumOf(g, {}) = 0 /\ SumOf(h, {}) = 0
    BY TotalEmpty
  <2>2. SumOf(h, {}) = SumOf(f, {}) + SumOf(g, {})
    BY <2>1
  <2>3. SumOf(h, r) # SumOf(f, r) + SumOf(g, r)
    OBVIOUS
  <2> HIDE DEF T
  <2> QED
    BY <2>2, <2>3
<1>4. PICK y, q : y = Next1(r) /\ q = r \ {y}
  OBVIOUS
<1>5. y \in r /\ y \in S /\ r \subseteq S /\ q \subseteq S /\ IsFiniteSet(r) /\ IsFiniteSet(q)
  BY <1>3, <1>4, Next1In, FS_Subset
<1>6. SumOf(h, q) = SumOf(f, q) + SumOf(g, q)
  BY <1>2, <1>4, <1>5
<1>7. /\ SumOf(h, r) = h[y] + SumOf(h, q)
      /\ SumOf(f, r) = f[y] + SumOf(f, q)
      /\ SumOf(g, r) = g[y] + SumOf(g, q)
  BY <1>3, <1>4, <1>5, TotalNext
<1>8. SumOf(f, q) \in Int /\ SumOf(g, q) \in Int
  BY <1>5, TotalInt
<1>9. h[y] = f[y] + g[y] /\ f[y] \in Int /\ g[y] \in Int
  BY <1>5
<1>10. SumOf(h, r) # SumOf(f, r) + SumOf(g, r)
  OBVIOUS
<1> HIDE DEF T
<1> QED
  BY <1>6, <1>7, <1>8, <1>9, <1>10

\* Larger terms, a larger sum.
LEMMA TotalUp ==
    ASSUME NEW S, IsFiniteSet(S), NEW f, NEW g,
           \A x \in S : f[x] \in Int /\ g[x] \in Int /\ f[x] <= g[x]
    PROVE  SumOf(f, S) <= SumOf(g, S)
<1> DEFINE T == {r \in SUBSET S : ~ (SumOf(f, r) <= SumOf(g, r))}
<1>1. SUFFICES ASSUME T # {} PROVE FALSE
  BY DEF T
<1>2. PICK r \in T : \A q \in T : q \subseteq r => q = r
  <2>1. T \in SUBSET SUBSET S
    OBVIOUS
  <2> HIDE DEF T
  <2> QED
    BY <1>1, <2>1, Smallest
<1>3. r # {}
  <2>1. SumOf(f, {}) = 0 /\ SumOf(g, {}) = 0
    BY TotalEmpty
  <2> QED
    BY <2>1
<1>4. PICK y, q : y = Next1(r) /\ q = r \ {y}
  OBVIOUS
<1>5. y \in r /\ y \in S /\ r \subseteq S /\ q \subseteq S /\ IsFiniteSet(r) /\ IsFiniteSet(q)
  BY <1>3, <1>4, Next1In, FS_Subset
<1>6. SumOf(f, q) <= SumOf(g, q)
  BY <1>2, <1>4, <1>5
<1>7. /\ SumOf(f, r) = f[y] + SumOf(f, q)
      /\ SumOf(g, r) = g[y] + SumOf(g, q)
  BY <1>3, <1>4, <1>5, TotalNext
<1>8. SumOf(f, q) \in Int /\ SumOf(g, q) \in Int
  BY <1>5, TotalInt
<1>9. f[y] <= g[y] /\ f[y] \in Int /\ g[y] \in Int
  BY <1>5
<1>10. ~ (SumOf(f, r) <= SumOf(g, r))
  OBVIOUS
<1> HIDE DEF T
<1> QED
  BY <1>6, <1>7, <1>8, <1>9, <1>10

\* Terms that are zero add nothing.
LEMMA TotalOver ==
    ASSUME NEW S, IsFiniteSet(S), NEW R, R \subseteq S, NEW f,
           \A x \in S : f[x] \in Int, \A x \in S \ R : f[x] = 0
    PROVE  SumOf(f, S) = SumOf(f, R)
<1> DEFINE T == {r \in SUBSET S : R \subseteq r /\ SumOf(f, r) # SumOf(f, R)}
<1>1. SUFFICES ASSUME T # {} PROVE FALSE
  BY DEF T
<1>2. PICK r \in T : \A q \in T : q \subseteq r => q = r
  <2>1. T \in SUBSET SUBSET S
    OBVIOUS
  <2> HIDE DEF T
  <2> QED
    BY <1>1, <2>1, Smallest
<1>3. R \subseteq r /\ r \subseteq S /\ SumOf(f, r) # SumOf(f, R)
  OBVIOUS
<1>4. PICK y \in r : y \notin R
  BY <1>3
<1>5. PICK q : q = r \ {y}
  OBVIOUS
<1>6. SumOf(f, q) = SumOf(f, R)
  BY <1>2, <1>3, <1>4, <1>5
<1>7. IsFiniteSet(r) /\ IsFiniteSet(q) /\ y \in S /\ q \subseteq S
  BY <1>3, <1>4, <1>5, FS_Subset
<1>8. SumOf(f, r) = f[y] + SumOf(f, q)
  BY <1>3, <1>4, <1>5, <1>7, TotalAt
<1>9. f[y] = 0 /\ SumOf(f, q) \in Int
  BY <1>4, <1>7, TotalInt
<1> HIDE DEF T
<1> QED
  BY <1>3, <1>6, <1>8, <1>9

\* Only one term differs.
LEMMA TotalChange ==
    ASSUME NEW S, IsFiniteSet(S), NEW f, NEW g, NEW e \in S,
           \A x \in S : f[x] \in Int /\ g[x] \in Int,
           \A x \in S \ {e} : f[x] = g[x]
    PROVE  SumOf(g, S) = SumOf(f, S) - f[e] + g[e]
<1>1. IsFiniteSet(S \ {e})
  BY FS_Subset
<1>2. SumOf(f, S \ {e}) = SumOf(g, S \ {e}) /\ SumOf(f, S \ {e}) \in Int
  BY <1>1, TotalSame, TotalInt
<1>3. SumOf(f, S) = f[e] + SumOf(f, S \ {e}) /\ SumOf(g, S) = g[e] + SumOf(g, S \ {e})
  BY TotalAt
<1> QED
  BY <1>2, <1>3

\* The sum over two sets that share nothing.
LEMMA TotalUnion ==
    ASSUME NEW S, IsFiniteSet(S), NEW R, IsFiniteSet(R), S \cap R = {}, NEW f,
           \A x \in S \cup R : f[x] \in Int
    PROVE  SumOf(f, S \cup R) = SumOf(f, S) + SumOf(f, R)
<1>1. PICK U : U = S \cup R
  OBVIOUS
<1>2. IsFiniteSet(U) /\ S \subseteq U /\ R \subseteq U
  BY <1>1, FS_Union
<1>3. PICK g : \A x \in U : g[x] = IF x \in S THEN f[x] ELSE 0
  <2>1. \A x \in U : [x1 \in U |-> IF x1 \in S THEN f[x1] ELSE 0][x] = IF x \in S THEN f[x] ELSE 0
    OBVIOUS
  <2> QED
    BY <2>1
<1>4. PICK h : \A x \in U : h[x] = IF x \in R THEN f[x] ELSE 0
  <2>1. \A x \in U : [x1 \in U |-> IF x1 \in R THEN f[x1] ELSE 0][x] = IF x \in R THEN f[x] ELSE 0
    OBVIOUS
  <2> QED
    BY <2>1
<1>5. \A x \in U : g[x] \in Int /\ h[x] \in Int /\ f[x] = g[x] + h[x]
  BY <1>1, <1>3, <1>4
<1>6. SumOf(f, U) = SumOf(g, U) + SumOf(h, U)
  BY <1>2, <1>5, TotalPlus
<1>7. SumOf(g, U) = SumOf(g, S)
  BY <1>2, <1>3, <1>5, TotalOver
<1>8. SumOf(h, U) = SumOf(h, R)
  BY <1>2, <1>4, <1>5, TotalOver
<1>9. SumOf(g, S) = SumOf(f, S) /\ SumOf(h, R) = SumOf(f, R)
  BY <1>2, <1>3, <1>4, TotalSame
<1> QED
  BY <1>1, <1>6, <1>7, <1>8, <1>9

\* A sum of terms that are not negative grows with its set.
LEMMA TotalSub ==
    ASSUME NEW S, IsFiniteSet(S), NEW R, R \subseteq S, NEW f, \A x \in S : f[x] \in Nat
    PROVE  SumOf(f, R) \in Nat /\ SumOf(f, R) <= SumOf(f, S)
<1>1. PICK g : \A x \in S : g[x] = IF x \in R THEN f[x] ELSE 0
  <2>1. \A x \in S : [x1 \in S |-> IF x1 \in R THEN f[x1] ELSE 0][x] = IF x \in R THEN f[x] ELSE 0
    OBVIOUS
  <2> QED
    BY <2>1
<1>2. PICK z : \A x \in S : z[x] = 0
  <2>1. \A x \in S : [x1 \in S |-> 0][x] = 0
    OBVIOUS
  <2> QED
    BY <2>1
<1>3. IsFiniteSet(R) /\ \A x \in S : f[x] \in Int /\ g[x] \in Int /\ z[x] \in Int
  BY <1>1, <1>2, FS_Subset
<1>4. SumOf(g, S) <= SumOf(f, S) /\ SumOf(z, S) <= SumOf(g, S)
  <2>1. \A x \in S : g[x] <= f[x] /\ z[x] <= g[x]
    BY <1>1, <1>2
  <2>2. SumOf(g, S) <= SumOf(f, S)
    BY <1>3, <2>1, TotalUp
  <2>3. SumOf(z, S) <= SumOf(g, S)
    BY <1>3, <2>1, TotalUp
  <2> QED
    BY <2>2, <2>3
<1>5. SumOf(g, S) = SumOf(g, R) /\ SumOf(g, R) = SumOf(f, R)
  <2>1. SumOf(g, S) = SumOf(g, R)
    BY <1>1, <1>3, TotalOver
  <2>2. SumOf(g, R) = SumOf(f, R)
    BY <1>1, <1>3, TotalSame
  <2> QED
    BY <2>1, <2>2
<1>6. SumOf(z, S) = 0
  <2>1. IsFiniteSet({}) /\ {} \subseteq S
    BY FS_EmptySet
  <2>2. SumOf(z, S) = SumOf(z, {})
    BY <1>2, <1>3, <2>1, TotalOver
  <2> QED
    BY <2>2, TotalEmpty
<1>7. SumOf(f, R) \in Int
  BY <1>3, TotalInt
<1> QED
  BY <1>4, <1>5, <1>6, <1>7

\* The parts of a set, one for each value of f, add up to it.
LEMMA CountByValue ==
    ASSUME NEW S, IsFiniteSet(S), NEW D, IsFiniteSet(D), NEW f, \A x \in S : f[x] \in D
    PROVE  SumOf([d \in D |-> Cardinality({x \in S : f[x] = d})], D) = Cardinality(S)
<1> DEFINE Parts(r) == [d \in D |-> Cardinality({x \in r : f[x] = d})]
           T == {r \in SUBSET S : SumOf(Parts(r), D) # Cardinality(r)}
<1>1. SUFFICES ASSUME T # {} PROVE FALSE
  OBVIOUS
<1>2. PICK r \in T : \A q \in T : q \subseteq r => q = r
  <2>1. T \in SUBSET SUBSET S
    OBVIOUS
  <2> HIDE DEF T
  <2> QED
    BY <1>1, <2>1, Smallest
<1>3. r \subseteq S /\ IsFiniteSet(r) /\ SumOf(Parts(r), D) # Cardinality(r)
  BY <1>2, FS_Subset
<1>4. r # {}
  <2>1. ASSUME r = {} PROVE FALSE
    <3>1. PICK g : g = Parts(r)
      OBVIOUS
    <3>2. \A d \in D : g[d] = 0
      BY <2>1, <3>1, FS_EmptySet
    <3>3. SumOf(g, D) = SumOf(g, {})
      BY <3>2, FS_EmptySet, TotalOver
    <3>4. SumOf(g, {}) = 0
      BY TotalEmpty
    <3> QED
      BY <1>3, <2>1, <3>1, <3>3, <3>4, FS_EmptySet
  <2> QED
    BY <2>1
<1>5. PICK y \in r : TRUE
  BY <1>4
<1>6. PICK q : q = r \ {y}
  OBVIOUS
<1>7. q \subseteq S /\ IsFiniteSet(q) /\ SumOf(Parts(q), D) = Cardinality(q)
  BY <1>2, <1>3, <1>5, <1>6, FS_Subset
<1>8. Cardinality(r) = Cardinality(q) + 1
  <2>1. q \cup {y} = r /\ y \notin q
    BY <1>5, <1>6
  <2> QED
    BY <1>7, <2>1, FS_AddElement
<1>9. PICK g : g = Parts(q)
  OBVIOUS
<1>10. PICK h : h = Parts(r)
  OBVIOUS
<1>11. ASSUME NEW d \in D PROVE g[d] \in Nat /\ h[d] = g[d] + IF d = f[y] THEN 1 ELSE 0
  <2>1. PICK A : A = {x \in q : f[x] = d}
    OBVIOUS
  <2>2. PICK B : B = {x \in r : f[x] = d}
    OBVIOUS
  <2>3. IsFiniteSet(A) /\ Cardinality(A) \in Nat /\ y \notin A
    BY <1>6, <1>7, <2>1, FS_Subset, FS_CardinalityType
  <2>4. CASE d = f[y]
    <3>1. B = A \cup {y}
      BY <1>5, <1>6, <2>1, <2>2, <2>4
    <3>2. Cardinality(B) = Cardinality(A) + 1
      BY <2>3, <3>1, FS_AddElement
    <3> QED
      BY <1>9, <1>10, <2>1, <2>2, <2>3, <2>4, <3>2
  <2>5. CASE d # f[y]
    <3>1. B = A
      BY <1>5, <1>6, <2>1, <2>2, <2>5
    <3> QED
      BY <1>9, <1>10, <2>1, <2>2, <2>3, <2>5, <3>1
  <2> QED
    BY <2>4, <2>5
<1>12. PICK e : e = f[y]
  OBVIOUS
<1>13. e \in D /\ h[e] = g[e] + 1 /\ g[e] \in Nat
  BY <1>3, <1>5, <1>11, <1>12
<1>14. \A d \in D : g[d] \in Int /\ h[d] \in Int
  BY <1>11
<1>15. \A d \in D \ {e} : g[d] = h[d]
  BY <1>11, <1>12
<1> HIDE DEF Parts, T
<1>16. SumOf(h, D) = SumOf(g, D) - g[e] + h[e]
  <2>1. e \in D
    BY <1>13
  <2>2. \A x \in D : g[x] \in Int /\ h[x] \in Int
    BY <1>14
  <2>3. \A x \in D \ {e} : g[x] = h[x]
    BY <1>15
  <2> QED
    BY <2>1, <2>2, <2>3, TotalChange
<1>17. SumOf(g, D) = Cardinality(q) /\ Cardinality(q) \in Nat
  BY <1>7, <1>9, FS_CardinalityType
<1> QED
  BY <1>3, <1>8, <1>10, <1>13, <1>16, <1>17
=============================================================================
