---------------------------- MODULE SharedLemmas ----------------------------
(***************************************************************************)
(* The lemmas that the proofs of several components rest on: the sum of a  *)
(* function over a finite set (Sums), the order in which the keys of a     *)
(* cache were used (UseOrder), the quiet hours (RuntimePolicy) for hours   *)
(* and days of any length, what the loads of an animation yield            *)
(* (PetFrames) for any pictures and limits, and how the documents of a     *)
(* configuration are merged and saved (ConfigDocs), for any modules,       *)
(* settings and entries.  Where a fact needs induction the least           *)
(* counterexample stands for it: of a set of numbers, or of finite sets.   *)
(***************************************************************************)
EXTENDS RuntimePolicy, Sums, UseOrder, ConfigBook, Functions, SequencesExt,
        FiniteSetTheorems, SequenceTheorems, WellFoundedInduction, TLAPS

-----------------------------------------------------------------------------
(* Sums.                                                                   *)

\* The equation of the fold: iter has the sum of f over every subset of S.
Folds0(iter, f, S) ==
    iter = [s \in SUBSET S |-> IF s = {} THEN 0
                               ELSE f[CHOOSE x \in s : TRUE] + iter[s \ {CHOOSE x \in s : TRUE}]]

LEMMA TotalUnfolds ==
    ASSUME NEW f, NEW S
    PROVE  Total(f, S) = (CHOOSE iter : Folds0(iter, f, S))[S]
BY DEF Total, MapThenSumSet, MapThenFoldSet, Folds0

\* A set of finite sets has one that contains no other: what stands for induction here.
LEMMA LeastSet ==
    ASSUME NEW S, IsFiniteSet(S), NEW B, B \subseteq SUBSET S, B # {}
    PROVE  \E T \in B : \A U \in B : U \subseteq T => U = T
<1> DEFINE R == StrictSubsetOrdering(S)
<1>1. IsWellFoundedOn(R, SUBSET S)
  BY FS_StrictSubsetOrderingWellFounded, FS_FiniteSubsetsOfFinite
<1>2. PICK T \in B : \A U \in B : ~ (<<U, T>> \in R)
  <2> HIDE DEF R
  <2> QED BY <1>1, WFMin
<1>3. \A U \in B : U \subseteq T => U = T
  <2> SUFFICES ASSUME NEW U \in B, U \subseteq T, U # T
               PROVE  FALSE
    OBVIOUS
  <2>1. <<U, T>> \in R
    BY DEF StrictSubsetOrdering
  <2> QED BY <2>1, <1>2
<1> QED BY <1>3

\* Two folds of one function agree where both are defined.
LEMMA FoldsAgree ==
    ASSUME NEW f, NEW S, NEW T, NEW g, NEW h, IsFiniteSet(S),
           Folds0(g, f, S), Folds0(h, f, T)
    PROVE  \A u \in SUBSET S : u \subseteq T => g[u] = h[u]
<1> DEFINE bad == {u \in SUBSET S : u \subseteq T /\ g[u] # h[u]}
<1> SUFFICES ASSUME bad # {}
             PROVE  FALSE
  OBVIOUS
<1>1. PICK u \in bad : \A v \in bad : v \subseteq u => v = u
  <2>1. bad \subseteq SUBSET S
    OBVIOUS
  <2> HIDE DEF bad
  <2> QED BY <2>1, LeastSet
<1>2. u \in SUBSET S /\ u \in SUBSET T /\ g[u] # h[u]
  OBVIOUS
<1>3. u # {}
  BY <1>2 DEF Folds0
<1> DEFINE c == CHOOSE x \in u : TRUE
<1>4. c \in u
  BY <1>3
<1> HIDE DEF c
<1>5. g[u] = f[c] + g[u \ {c}] /\ h[u] = f[c] + h[u \ {c}]
  BY <1>2, <1>3 DEF Folds0, c
<1>6. u \ {c} \in SUBSET S /\ u \ {c} \subseteq T /\ u \ {c} # u
  BY <1>2, <1>4
<1>7. u \ {c} \notin bad
  BY <1>1, <1>6
<1>8. g[u \ {c}] = h[u \ {c}]
  BY <1>6, <1>7
<1> QED
  BY <1>2, <1>5, <1>8

\* The fold over a finite set exists.
LEMMA FoldExists ==
    ASSUME NEW f, NEW S, IsFiniteSet(S)
    PROVE  \E iter : Folds0(iter, f, S)
<1> DEFINE bad == {u \in SUBSET S : ~ \E iter : Folds0(iter, f, u)}
           V(u) == (CHOOSE iter : Folds0(iter, f, u))[u]
<1> SUFFICES ASSUME bad # {}
             PROVE  FALSE
  OBVIOUS
<1>1. PICK T \in bad : \A v \in bad : v \subseteq T => v = T
  <2>1. bad \subseteq SUBSET S
    OBVIOUS
  <2> HIDE DEF bad
  <2> QED BY <2>1, LeastSet
<1>2. T \in SUBSET S /\ ~ \E iter : Folds0(iter, f, T)
  OBVIOUS
<1>3. \A u \in SUBSET T : u # T => \E iter : Folds0(iter, f, u)
  BY <1>1, <1>2
<1>4. \A u \in SUBSET T : u # T => Folds0(CHOOSE iter : Folds0(iter, f, u), f, u)
  BY <1>3
<1> DEFINE C(u) == CHOOSE x \in u : TRUE
           it == [u \in SUBSET T |-> IF u = {} THEN 0 ELSE f[C(u)] + V(u \ {C(u)})]
<1>5. \A u \in SUBSET T : u # {} => C(u) \in u
  OBVIOUS
<1>6. ASSUME NEW u \in SUBSET T, u # T
      PROVE  it[u] = V(u)
  <2> DEFINE g == CHOOSE iter : Folds0(iter, f, u)
  <2>1. Folds0(g, f, u)
    BY <1>4, <1>6
  <2> HIDE DEF g
  <2>2. V(u) = g[u]
    BY DEF g
  <2>3. CASE u = {}
    <3>1. g[u] = 0
      BY <2>1, <2>3 DEF Folds0
    <3>2. it[u] = 0
      BY <2>3
    <3> HIDE DEF it, V
    <3> QED BY <2>2, <3>1, <3>2
  <2>4. CASE u # {}
    <3> DEFINE w == u \ {C(u)}
    <3>1. w \in SUBSET T /\ w # T /\ w \subseteq u /\ C(u) \in u
      BY <1>5, <2>4, <1>6
    <3>2. g[u] = f[C(u)] + g[w]
      BY <2>1, <2>4, <3>1 DEF Folds0
    <3>3. g[w] = V(w)
      <4> DEFINE k == CHOOSE iter : Folds0(iter, f, w)
      <4>1. Folds0(k, f, w)
        BY <1>4, <3>1
      <4>2. IsFiniteSet(u)
        BY FS_Subset, <1>2
      <4> HIDE DEF k, w
      <4>3. g[w] = k[w]
        BY <2>1, <4>1, <4>2, <3>1, FoldsAgree
      <4> QED BY <4>3 DEF k
    <3>4. it[u] = f[C(u)] + V(w)
      BY <2>4
    <3> HIDE DEF it, V, w, C
    <3> QED BY <2>2, <3>2, <3>3, <3>4
  <2> QED BY <2>3, <2>4
<1>7. \A u \in SUBSET T : u # {} => it[u] = f[C(u)] + it[u \ {C(u)}]
  <2> SUFFICES ASSUME NEW u \in SUBSET T, u # {}
               PROVE  it[u] = f[C(u)] + it[u \ {C(u)}]
    OBVIOUS
  <2>1. u \ {C(u)} \in SUBSET T /\ u \ {C(u)} # T
    BY <1>5
  <2>2. it[u] = f[C(u)] + V(u \ {C(u)})
    OBVIOUS
  <2> HIDE DEF it, V, C
  <2> QED BY <2>1, <2>2, <1>6
<1>8. it = [u \in SUBSET T |-> IF u = {} THEN 0 ELSE f[C(u)] + it[u \ {C(u)}]]
  <2>1. it[{}] = 0 \/ TRUE
    OBVIOUS
  <2>2. it = [u \in SUBSET T |-> it[u]] /\ it[{}] = 0
    OBVIOUS
  <2> HIDE DEF it, C
  <2> QED BY <2>2, <1>7
<1>9. Folds0(it, f, T)
  <2> HIDE DEF it
  <2> QED BY <1>8 DEF Folds0
<1> QED
  BY <1>2, <1>9

LEMMA TotalIsFold ==
    ASSUME NEW f, NEW S, IsFiniteSet(S), NEW iter, Folds0(iter, f, S)
    PROVE  \A u \in SUBSET S : Total(f, u) = iter[u]
<1> SUFFICES ASSUME NEW u \in SUBSET S
             PROVE  Total(f, u) = iter[u]
  OBVIOUS
<1> DEFINE g == CHOOSE it : Folds0(it, f, u)
<1>1. IsFiniteSet(u)
  BY FS_Subset
<1>2. Folds0(g, f, u)
  BY <1>1, FoldExists
<1>3. Total(f, u) = g[u]
  BY TotalUnfolds
<1> HIDE DEF g
<1>4. g[u] = iter[u]
  BY <1>1, <1>2, FoldsAgree
<1> QED BY <1>3, <1>4

LEMMA TotalEmpty ==
    ASSUME NEW f
    PROVE  Total(f, {}) = 0
<1>1. PICK iter : Folds0(iter, f, {})
  BY FoldExists, FS_EmptySet
<1>2. Total(f, {}) = iter[{}]
  BY <1>1, TotalIsFold, FS_EmptySet
<1> QED BY <1>1, <1>2 DEF Folds0

LEMMA TotalChosen ==
    ASSUME NEW f, NEW S, IsFiniteSet(S), S # {}
    PROVE  \E c \in S : Total(f, S) = f[c] + Total(f, S \ {c})
<1>1. PICK iter : Folds0(iter, f, S)
  BY FoldExists
<1> DEFINE c == CHOOSE x \in S : TRUE
<1>2. c \in S
  OBVIOUS
<1>3. iter[S] = f[c] + iter[S \ {c}]
  BY <1>1 DEF Folds0
<1> HIDE DEF c
<1>4. Total(f, S) = iter[S] /\ Total(f, S \ {c}) = iter[S \ {c}]
  BY <1>1, TotalIsFold
<1> QED BY <1>2, <1>3, <1>4

LEMMA TotalNat ==
    ASSUME NEW S, IsFiniteSet(S), NEW f, \A x \in S : f[x] \in Nat
    PROVE  Total(f, S) \in Nat
<1> DEFINE bad == {u \in SUBSET S : Total(f, u) \notin Nat}
<1> SUFFICES ASSUME bad # {}
             PROVE  FALSE
  OBVIOUS
<1>1. PICK u \in bad : \A v \in bad : v \subseteq u => v = u
  <2>1. bad \subseteq SUBSET S
    OBVIOUS
  <2> HIDE DEF bad
  <2> QED BY <2>1, LeastSet
<1>2. u \in SUBSET S /\ Total(f, u) \notin Nat /\ IsFiniteSet(u)
  BY FS_Subset
<1>3. u # {}
  BY <1>2, TotalEmpty
<1>4. PICK c \in u : Total(f, u) = f[c] + Total(f, u \ {c})
  BY <1>2, <1>3, TotalChosen
<1>5. u \ {c} \notin bad
  BY <1>1, <1>4
<1>6. Total(f, u \ {c}) \in Nat /\ f[c] \in Nat
  BY <1>2, <1>5
<1> QED BY <1>2, <1>4, <1>6

\* The sum of f over S is f of any element and the sum over the others.
LEMMA TotalSplit ==
    ASSUME NEW S, IsFiniteSet(S), NEW f, \A x \in S : f[x] \in Nat, NEW e \in S
    PROVE  Total(f, S) = f[e] + Total(f, S \ {e})
<1> DEFINE bad == {u \in SUBSET S : \E d \in u : Total(f, u) # f[d] + Total(f, u \ {d})}
<1> SUFFICES ASSUME bad # {}
             PROVE  FALSE
  OBVIOUS
<1>1. PICK u \in bad : \A v \in bad : v \subseteq u => v = u
  <2>1. bad \subseteq SUBSET S
    OBVIOUS
  <2> HIDE DEF bad
  <2> QED BY <2>1, LeastSet
<1>2. u \in SUBSET S /\ IsFiniteSet(u) /\ u # {}
  BY FS_Subset
<1>3. PICK d \in u : Total(f, u) # f[d] + Total(f, u \ {d})
  OBVIOUS
<1>4. PICK c \in u : Total(f, u) = f[c] + Total(f, u \ {c})
  BY <1>2, TotalChosen
<1>5. c # d
  BY <1>3, <1>4
<1>6. \A v \in SUBSET u : v # u => \A x \in v : Total(f, v) = f[x] + Total(f, v \ {x})
  BY <1>1, <1>2
<1>7. Total(f, u \ {c}) = f[d] + Total(f, (u \ {c}) \ {d})
  BY <1>5, <1>6
<1>8. Total(f, u \ {d}) = f[c] + Total(f, (u \ {d}) \ {c})
  BY <1>5, <1>6
<1>9. (u \ {d}) \ {c} = (u \ {c}) \ {d}
  OBVIOUS
<1>10. Total(f, (u \ {c}) \ {d}) \in Nat /\ f[c] \in Nat /\ f[d] \in Nat
  <2>1. IsFiniteSet((u \ {c}) \ {d})
    BY <1>2, FS_RemoveElement
  <2> HIDE DEF bad
  <2> QED BY <2>1, <1>2, TotalNat
<1> HIDE DEF bad
<1> QED
  BY <1>3, <1>4, <1>7, <1>8, <1>9, <1>10

\* Functions that agree on S have one sum over it.
LEMMA TotalSame ==
    ASSUME NEW S, IsFiniteSet(S), NEW f, NEW g, \A x \in S : f[x] = g[x]
    PROVE  Total(f, S) = Total(g, S)
<1>1. PICK a : Folds0(a, f, S)
  BY FoldExists
<1>2. Folds0(a, g, S)
  <2> DEFINE C(u) == CHOOSE x \in u : TRUE
  <2>1. \A u \in SUBSET S : u # {} => f[C(u)] = g[C(u)]
    OBVIOUS
  <2>2. a = [u \in SUBSET S |-> IF u = {} THEN 0 ELSE f[C(u)] + a[u \ {C(u)}]]
    BY <1>1 DEF Folds0
  <2> HIDE DEF C
  <2>3. a = [u \in SUBSET S |-> IF u = {} THEN 0 ELSE g[C(u)] + a[u \ {C(u)}]]
    BY <2>1, <2>2
  <2> QED BY <2>3 DEF Folds0, C
<1> QED
  BY <1>1, <1>2, TotalIsFold

\* A part of S has no larger a sum.
LEMMA TotalPart ==
    ASSUME NEW S, IsFiniteSet(S), NEW f, \A x \in S : f[x] \in Nat, NEW P \in SUBSET S
    PROVE  /\ Total(f, P) \in Nat /\ Total(f, S \ P) \in Nat /\ Total(f, S) \in Nat
           /\ Total(f, S) = Total(f, P) + Total(f, S \ P)
<1> DEFINE bad == {u \in SUBSET P : Total(f, S \ (P \ u)) # Total(f, u) + Total(f, S \ P)}
<1>1. ASSUME NEW u \in SUBSET S
      PROVE  IsFiniteSet(u) /\ Total(f, u) \in Nat
  BY <1>1, FS_Subset, TotalNat
<1>2. ASSUME bad # {}
      PROVE  FALSE
  <2>1. PICK u \in bad : \A v \in bad : v \subseteq u => v = u
    <3>1. bad \subseteq SUBSET S
      OBVIOUS
    <3> HIDE DEF bad
    <3> QED BY <3>1, <1>2, LeastSet
  <2>2. u \in SUBSET P /\ Total(f, S \ (P \ u)) # Total(f, u) + Total(f, S \ P)
    OBVIOUS
  <2>3. u # {}
    <3>1. ASSUME u = {} PROVE FALSE
      <4>1. S \ (P \ u) = S \ P /\ Total(f, u) = 0
        BY <3>1, TotalEmpty
      <4>2. Total(f, S \ P) \in Nat
        BY <1>1
      <4> QED BY <2>2, <4>1, <4>2
    <3> QED BY <3>1
  <2>4. PICK d : d \in u
    BY <2>3
  <2>5. u \ {d} \notin bad
    BY <2>1, <2>4
  <2>6. Total(f, S \ (P \ (u \ {d}))) = Total(f, u \ {d}) + Total(f, S \ P)
    BY <2>2, <2>5
  <2>7. S \ (P \ (u \ {d})) = (S \ (P \ u)) \ {d} /\ d \in S \ (P \ u)
    BY <2>2, <2>4
  <2>8. Total(f, S \ (P \ u)) = f[d] + Total(f, (S \ (P \ u)) \ {d})
    BY <2>7, TotalSplit, <1>1
  <2>9. Total(f, u) = f[d] + Total(f, u \ {d})
    BY <2>2, <2>4, TotalSplit, <1>1
  <2>10. /\ f[d] \in Nat /\ Total(f, u \ {d}) \in Nat /\ Total(f, S \ P) \in Nat
    BY <2>2, <2>4, <1>1
  <2>11. Total(f, (S \ (P \ u)) \ {d}) = Total(f, u \ {d}) + Total(f, S \ P)
    BY <2>6, <2>7
  <2>12. Total(f, S \ (P \ u)) = f[d] + (Total(f, u \ {d}) + Total(f, S \ P))
    BY <2>8, <2>11
  <2>13. Total(f, u) + Total(f, S \ P) = f[d] + (Total(f, u \ {d}) + Total(f, S \ P))
    BY <2>9, <2>10
  <2> HIDE DEF bad
  <2> QED BY <2>2, <2>12, <2>13
<1>3. S \ (P \ P) = S /\ P \in SUBSET P
  OBVIOUS
<1> QED
  BY <1>1, <1>2, <1>3

-----------------------------------------------------------------------------
(* Orders of use.                                                          *)

\* A set of natural numbers has a least one.
LEMMA LeastNumber ==
    ASSUME NEW B, B \subseteq Nat, B # {}
    PROVE  \E n \in B : \A m \in B : n <= m
<1> DEFINE R == {p \in Nat \X Nat : p[1] < p[2]}
<1>1. IsWellFoundedOn(R, Nat)
  BY NatLessThanWellFounded DEF OpToRel
<1>2. PICK n \in B : \A m \in B : ~ (<<m, n>> \in R)
  <2> HIDE DEF R
  <2> QED BY <1>1, WFMin
<1>3. \A m \in B : n <= m
  <2> SUFFICES ASSUME NEW m \in B, ~ (n <= m)
               PROVE  FALSE
    OBVIOUS
  <2>1. m \in Nat /\ n \in Nat
    OBVIOUS
  <2>2. m < n
    BY <2>1
  <2>3. <<m, n>> \in R
    BY <2>1, <2>2
  <2> QED BY <2>3, <1>2
<1> QED BY <1>3

\* The equation of Without: kept has what is left of the first n keys.
Keeps(kept, s, X, N) ==
    kept = [n \in 0 .. N |->
              IF n = 0 THEN <<>>
              ELSE IF s[n] \in X THEN kept[n - 1] ELSE Append(kept[n - 1], s[n])]

LEMMA KeepsExists ==
    ASSUME NEW s, NEW X, NEW N \in Nat
    PROVE  \E kept : Keeps(kept, s, X, N)
<1> DEFINE bad == {n \in Nat : ~ \E kept : Keeps(kept, s, X, n)}
<1> SUFFICES ASSUME bad # {}
             PROVE  FALSE
  OBVIOUS
<1>1. PICK n \in bad : \A m \in bad : n <= m
  <2>1. bad \subseteq Nat
    OBVIOUS
  <2> HIDE DEF bad
  <2> QED BY <2>1, LeastNumber
<1>2. n # 0
  <2> SUFFICES ASSUME n = 0
               PROVE  \E kept : Keeps(kept, s, X, 0)
    OBVIOUS
  <2> DEFINE k == [m \in 0 .. 0 |-> <<>>]
  <2>1. Keeps(k, s, X, 0)
    BY DEF Keeps
  <2> QED BY <2>1
<1>3. n - 1 \in Nat /\ n - 1 \notin bad
  <2>1. n \in Nat
    OBVIOUS
  <2> HIDE DEF bad
  <2> QED BY <1>1, <1>2, <2>1
<1>4. PICK k : Keeps(k, s, X, n - 1)
  BY <1>3
<1> DEFINE last == IF s[n] \in X THEN k[n - 1] ELSE Append(k[n - 1], s[n])
           g == [m \in 0 .. n |-> IF m = n THEN last ELSE k[m]]
<1>5. n \in Nat
  OBVIOUS
<1>6. \A m \in 0 .. n - 1 : g[m] = k[m]
  BY <1>5
<1>7. g[n] = last
  BY <1>5
<1>8. \A m \in 0 .. n - 1 : k[m] = IF m = 0 THEN <<>>
                                   ELSE IF s[m] \in X THEN k[m - 1] ELSE Append(k[m - 1], s[m])
  BY <1>4 DEF Keeps
<1>9. \A m \in 0 .. n : g[m] = IF m = 0 THEN <<>>
                               ELSE IF s[m] \in X THEN g[m - 1] ELSE Append(g[m - 1], s[m])
  <2> SUFFICES ASSUME NEW m \in 0 .. n
               PROVE  g[m] = IF m = 0 THEN <<>>
                             ELSE IF s[m] \in X THEN g[m - 1] ELSE Append(g[m - 1], s[m])
    OBVIOUS
  <2>1. CASE m = n
    <3>1. g[n - 1] = k[n - 1]
      BY <1>6, <1>2, <1>5
    <3> HIDE DEF g
    <3> QED BY <2>1, <3>1, <1>7, <1>2
  <2>2. CASE m # n
    <3>1. m \in 0 .. n - 1 /\ (m # 0 => m - 1 \in 0 .. n - 1)
      BY <2>2, <1>5
    <3> HIDE DEF g
    <3> QED BY <3>1, <1>6, <1>8
  <2> QED BY <2>1, <2>2
<1>10. g = [m \in 0 .. n |-> g[m]]
  OBVIOUS
<1>11. Keeps(g, s, X, n)
  <2> HIDE DEF g
  <2> QED BY <1>9, <1>10 DEF Keeps
<1> QED
  BY <1>11

\* Places(w, s, X, N, e): w has the keys of s at the places e, in their order, and these are
\* all the places up to N whose key is not in X.
Places(w, s, X, N, e) ==
    /\ e \in [1 .. Len(w) -> 1 .. N]
    /\ \A i, j \in 1 .. Len(w) : i < j => e[i] < e[j]
    /\ \A i \in 1 .. Len(w) : w[i] = s[e[i]] /\ s[e[i]] \notin X
    /\ \A p \in 1 .. N : s[p] \notin X => \E i \in 1 .. Len(w) : e[i] = p

LEMMA WithoutPlaces ==
    ASSUME NEW K, NEW s \in Seq(K), NEW X
    PROVE  /\ Without(s, X) \in Seq(K)
           /\ \E e : Places(Without(s, X), s, X, Len(s), e)
<1> DEFINE N == Len(s)
           kept == CHOOSE k : Keeps(k, s, X, N)
<1>1. N \in Nat /\ \A n \in 1 .. N : s[n] \in K
  OBVIOUS
<1>2. Keeps(kept, s, X, N)
  BY <1>1, KeepsExists
<1>3. Without(s, X) = kept[N]
  BY DEF Without, Keeps
<1> HIDE DEF kept
<1> DEFINE good(n) == kept[n] \in Seq(K) /\ \E e : Places(kept[n], s, X, n, e)
           bad == {n \in 0 .. N : ~ good(n)}
<1>4. good(0)
  <2>1. kept[0] = <<>>
    BY <1>1, <1>2 DEF Keeps
  <2>2. Places(<<>>, s, X, 0, [i \in 1 .. 0 |-> 0])
    BY DEF Places
  <2> QED BY <2>1, <2>2
<1>5. ASSUME NEW n \in 1 .. N, good(n - 1)
      PROVE  good(n)
  <2>1. n \in Nat /\ n - 1 \in Nat /\ s[n] \in K /\ n # 0 /\ n \in 0 .. N
    BY <1>1
  <2> DEFINE v == kept[n - 1]
  <2>2. PICK e : Places(v, s, X, n - 1, e)
    BY <1>5
  <2>3. v \in Seq(K) /\ Len(v) \in Nat
    BY <1>5
  <2>4. kept[n] = IF s[n] \in X THEN v ELSE Append(v, s[n])
    BY <1>2, <2>1 DEF Keeps
  <2> HIDE DEF v
  <2>5. CASE s[n] \in X
    <3>1. Places(v, s, X, n, e)
      <4>1. e \in [1 .. Len(v) -> 1 .. n]
        BY <2>1, <2>2 DEF Places
      <4>2. \A p \in 1 .. n : s[p] \notin X => p \in 1 .. n - 1
        BY <2>1, <2>5
      <4> QED BY <2>2, <4>1, <4>2 DEF Places
    <3> QED BY <2>3, <2>4, <2>5, <3>1
  <2>6. CASE s[n] \notin X
    <3> DEFINE w == Append(v, s[n])
               d == [i \in 1 .. Len(v) + 1 |-> IF i = Len(v) + 1 THEN n ELSE e[i]]
    <3>1. /\ w \in Seq(K) /\ Len(w) = Len(v) + 1 /\ w[Len(v) + 1] = s[n]
          /\ \A i \in 1 .. Len(v) : w[i] = v[i]
      BY <2>1, <2>3, AppendProperties
    <3>2. \A i \in 1 .. Len(v) : e[i] \in 1 .. n - 1 /\ d[i] = e[i]
      BY <2>2, <2>3 DEF Places
    <3>3. d[Len(v) + 1] = n /\ DOMAIN d = 1 .. Len(v) + 1
      BY <2>3
    <3>4. d \in [1 .. Len(v) + 1 -> 1 .. n]
      <4>1. \A i \in 1 .. Len(v) + 1 : d[i] \in 1 .. n
        <5> SUFFICES ASSUME NEW i \in 1 .. Len(v) + 1
                     PROVE  d[i] \in 1 .. n
          OBVIOUS
        <5>1. i \in 1 .. Len(v) \/ i = Len(v) + 1
          BY <2>3
        <5>2. n \in 1 .. n /\ \A q \in 1 .. n - 1 : q \in 1 .. n
          BY <2>1
        <5> HIDE DEF d
        <5> QED BY <3>2, <3>3, <5>1, <5>2
      <4>2. d = [i \in 1 .. Len(v) + 1 |-> d[i]]
        OBVIOUS
      <4> HIDE DEF d
      <4> QED BY <4>1, <4>2
    <3> HIDE DEF d, w
    <3>5. \A i, j \in 1 .. Len(v) + 1 : i < j => d[i] < d[j]
      <4> SUFFICES ASSUME NEW i \in 1 .. Len(v) + 1, NEW j \in 1 .. Len(v) + 1, i < j
                   PROVE  d[i] < d[j]
        OBVIOUS
      <4>1. i \in 1 .. Len(v) /\ (j \in 1 .. Len(v) \/ j = Len(v) + 1)
        BY <2>3
      <4>2. CASE j \in 1 .. Len(v)
        BY <2>2, <3>2, <4>1, <4>2 DEF Places
      <4>3. CASE j = Len(v) + 1
        BY <2>1, <3>2, <3>3, <4>1, <4>3
      <4> QED BY <4>1, <4>2, <4>3
    <3>6. \A i \in 1 .. Len(v) + 1 : w[i] = s[d[i]] /\ s[d[i]] \notin X
      <4> SUFFICES ASSUME NEW i \in 1 .. Len(v) + 1
                   PROVE  w[i] = s[d[i]] /\ s[d[i]] \notin X
        OBVIOUS
      <4>1. i \in 1 .. Len(v) \/ i = Len(v) + 1
        BY <2>3
      <4>2. CASE i \in 1 .. Len(v)
        BY <2>2, <3>1, <3>2, <4>2 DEF Places
      <4>3. CASE i = Len(v) + 1
        BY <2>6, <3>1, <3>3, <4>3
      <4> QED BY <4>1, <4>2, <4>3
    <3>7. \A p \in 1 .. n : s[p] \notin X => \E i \in 1 .. Len(v) + 1 : d[i] = p
      <4> SUFFICES ASSUME NEW p \in 1 .. n, s[p] \notin X
                   PROVE  \E i \in 1 .. Len(v) + 1 : d[i] = p
        OBVIOUS
      <4>1. CASE p = n
        BY <2>3, <3>3, <4>1
      <4>2. CASE p # n
        <5>1. p \in 1 .. n - 1
          BY <2>1, <4>2
        <5>2. PICK i \in 1 .. Len(v) : e[i] = p
          BY <2>2, <5>1 DEF Places
        <5> QED BY <2>3, <3>2, <5>2
      <4> QED BY <4>1, <4>2
    <3>8. Places(w, s, X, n, d)
      BY <3>1, <3>4, <3>5, <3>6, <3>7 DEF Places
    <3> QED BY <2>4, <2>6, <3>1, <3>8 DEF w
  <2> QED BY <2>5, <2>6
<1>6. ASSUME bad # {}
      PROVE  FALSE
  <2>1. bad \subseteq Nat
    BY <1>1
  <2>2. PICK n \in bad : \A m \in bad : n <= m
    <3> HIDE DEF bad
    <3> QED BY <2>1, <1>6, LeastNumber
  <2>3. n \in 0 .. N /\ ~ good(n)
    OBVIOUS
  <2>4. n \in 1 .. N /\ n - 1 \in 0 .. N
    <3> HIDE DEF good
    <3> QED BY <1>1, <1>4, <2>3
  <2>5. n - 1 \notin bad
    <3>1. n - 1 < n
      BY <2>3, <1>1
    <3> HIDE DEF bad
    <3> QED BY <2>2, <2>1, <3>1, <2>3, <1>1
  <2>6. good(n - 1)
    <3> HIDE DEF good
    <3> QED BY <2>4, <2>5
  <2> HIDE DEF good, bad
  <2> QED BY <1>5, <2>3, <2>4, <2>6
<1>7. good(N)
  <2>1. N \in 0 .. N
    BY <1>1
  <2> HIDE DEF good
  <2> QED BY <1>6, <2>1
<1> QED
  BY <1>3, <1>7

Distinct(s) == \A i, j \in 1 .. Len(s) : i # j => s[i] # s[j]

LEMMA WithoutProperties ==
    ASSUME NEW K, NEW s \in Seq(K), NEW X
    PROVE  /\ Without(s, X) \in Seq(K)
           /\ ToSet(Without(s, X)) = ToSet(s) \ X
           /\ Distinct(s) => Distinct(Without(s, X))
<1> DEFINE w == Without(s, X)
<1>1. w \in Seq(K) /\ DOMAIN w = 1 .. Len(w) /\ DOMAIN s = 1 .. Len(s) /\ Len(w) \in Nat
  BY WithoutPlaces
<1>2. PICK e : Places(w, s, X, Len(s), e)
  BY WithoutPlaces
<1> HIDE DEF w
<1>3. ToSet(w) = ToSet(s) \ X
  <2>1. ASSUME NEW i \in 1 .. Len(w)
        PROVE  e[i] \in 1 .. Len(s) /\ w[i] = s[e[i]] /\ w[i] \notin X
    BY <1>2 DEF Places
  <2>2. ASSUME NEW p \in 1 .. Len(s), s[p] \notin X
        PROVE  \E i \in 1 .. Len(w) : w[i] = s[p]
    BY <1>2, <2>2 DEF Places
  <2>3. ToSet(w) = {w[i] : i \in 1 .. Len(w)} /\ ToSet(s) = {s[i] : i \in 1 .. Len(s)}
    BY <1>1 DEF ToSet
  <2> QED BY <2>1, <2>2, <2>3
<1>4. ASSUME Distinct(s)
      PROVE  Distinct(w)
  <2> SUFFICES ASSUME NEW i \in 1 .. Len(w), NEW j \in 1 .. Len(w), i # j
               PROVE  w[i] # w[j]
    BY DEF Distinct
  <2>1. e[i] \in 1 .. Len(s) /\ e[j] \in 1 .. Len(s) /\ e[i] # e[j]
    BY <1>1, <1>2 DEF Places
  <2> QED BY <1>2, <1>4, <2>1 DEF Distinct, Places
<1> QED
  BY <1>1, <1>3, <1>4 DEF w

LEMMA AppendDistinct ==
    ASSUME NEW K, NEW s \in Seq(K), NEW k \in K
    PROVE  /\ Append(s, k) \in Seq(K) /\ Len(Append(s, k)) = Len(s) + 1
           /\ ToSet(Append(s, k)) = ToSet(s) \cup {k}
           /\ Distinct(s) /\ k \notin ToSet(s) => Distinct(Append(s, k))
<1> DEFINE w == Append(s, k)
<1>1. /\ w \in Seq(K) /\ Len(w) = Len(s) + 1 /\ w[Len(s) + 1] = k
      /\ \A i \in 1 .. Len(s) : w[i] = s[i]
  BY AppendProperties
<1>2. Len(s) \in Nat /\ DOMAIN w = 1 .. Len(s) + 1 /\ DOMAIN s = 1 .. Len(s)
  BY <1>1
<1> HIDE DEF w
<1>3. \A i \in 1 .. Len(s) + 1 : i \in 1 .. Len(s) \/ i = Len(s) + 1
  BY <1>2
<1>4. \A i \in 1 .. Len(s) : i \in 1 .. Len(s) + 1
  BY <1>2
<1>5. Len(s) + 1 \in 1 .. Len(s) + 1
  BY <1>2
<1>6. ToSet(w) = ToSet(s) \cup {k}
  BY <1>1, <1>2, <1>3, <1>4, <1>5 DEF ToSet
<1>7. ASSUME Distinct(s), k \notin ToSet(s)
      PROVE  Distinct(w)
  <2>1. \A i \in 1 .. Len(s) : s[i] # k
    BY <1>2, <1>7 DEF ToSet
  <2> QED BY <1>1, <1>3, <1>7, <2>1 DEF Distinct
<1> QED
  BY <1>1, <1>6, <1>7 DEF w

LEMMA UsedLastProperties ==
    ASSUME NEW K, NEW s \in Seq(K), NEW k \in K
    PROVE  /\ UsedLast(s, k) \in Seq(K)
           /\ ToSet(UsedLast(s, k)) = ToSet(s) \cup {k}
           /\ Distinct(s) => Distinct(UsedLast(s, k))
<1>1. /\ Without(s, {k}) \in Seq(K) /\ ToSet(Without(s, {k})) = ToSet(s) \ {k}
      /\ Distinct(s) => Distinct(Without(s, {k}))
  BY WithoutProperties
<1> DEFINE w == Without(s, {k})
<1>2. /\ Append(w, k) \in Seq(K) /\ ToSet(Append(w, k)) = ToSet(w) \cup {k}
      /\ Distinct(w) /\ k \notin ToSet(w) => Distinct(Append(w, k))
  <2> HIDE DEF w
  <2> QED BY <1>1, AppendDistinct DEF w
<1>3. ToSet(w) = ToSet(s) \ {k}
  BY <1>1
<1>4. UsedLast(s, k) = Append(w, k)
  BY DEF UsedLast
<1> HIDE DEF w
<1> QED
  BY <1>1, <1>2, <1>3, <1>4 DEF w

LEMMA SuffixProperties ==
    ASSUME NEW K, NEW s \in Seq(K), NEW n \in 0 .. Len(s)
    PROVE  LET t == SubSeq(s, n + 1, Len(s))
           IN  /\ t \in Seq(K) /\ Len(t) = Len(s) - n
               /\ ToSet(t) = {s[i] : i \in n + 1 .. Len(s)}
               /\ ToSet(t) \subseteq ToSet(s)
               /\ Distinct(s) => Distinct(t)
<1> DEFINE t == SubSeq(s, n + 1, Len(s))
<1>1. Len(s) \in Nat /\ n \in Nat /\ n <= Len(s) /\ DOMAIN s = 1 .. Len(s)
  OBVIOUS
<1>2. /\ t \in Seq(K)
      /\ Len(t) = IF n + 1 <= Len(s) THEN Len(s) - (n + 1) + 1 ELSE 0
      /\ \A i \in 1 .. Len(s) - (n + 1) + 1 : t[i] = s[n + 1 + i - 1]
  <2>1. \A i \in n + 1 .. Len(s) : s[i] \in K
    BY <1>1
  <2>2. n + 1 \in Int /\ Len(s) \in Int
    BY <1>1
  <2> HIDE DEF t
  <2> QED BY <2>1, <2>2, SubSeqProperties DEF t
<1> HIDE DEF t
<1>3. Len(t) = Len(s) - n /\ \A i \in 1 .. Len(s) - n : t[i] = s[n + i]
  <2>1. \A L \in Nat, m \in Nat : m <= L => /\ L - (m + 1) + 1 = L - m
                                           /\ (m + 1 <= L \/ L - m = 0)
    OBVIOUS
  <2>2. Len(s) - (n + 1) + 1 = Len(s) - n
    BY <1>1, <2>1
  <2>3. n + 1 <= Len(s) \/ Len(s) - n = 0
    BY <1>1, <2>1
  <2>4. \A i \in 1 .. Len(s) - n : n + 1 + i - 1 = n + i
    BY <1>1
  <2> QED BY <1>2, <2>2, <2>3, <2>4
<1>4. DOMAIN t = 1 .. Len(s) - n
  BY <1>2, <1>3
<1>5. ToSet(t) = {s[i] : i \in n + 1 .. Len(s)}
  <2>1. ASSUME NEW i \in 1 .. Len(s) - n
        PROVE  t[i] = s[n + i] /\ n + i \in n + 1 .. Len(s)
    BY <1>1, <1>3
  <2>2. ASSUME NEW i \in n + 1 .. Len(s)
        PROVE  i - n \in 1 .. Len(s) - n /\ t[i - n] = s[i]
    <3>1. i - n \in 1 .. Len(s) - n /\ n + (i - n) = i
      BY <1>1
    <3> QED BY <1>3, <3>1
  <2>3. ToSet(t) = {t[i] : i \in 1 .. Len(s) - n}
    BY <1>4 DEF ToSet
  <2>4. \A k \in ToSet(t) : k \in {s[i] : i \in n + 1 .. Len(s)}
    BY <2>1, <2>3, Zenon
  <2>5. \A i \in n + 1 .. Len(s) : s[i] \in ToSet(t)
    BY <2>2, <2>3, Zenon
  <2> QED BY <2>4, <2>5, Zenon
<1>6. ToSet(t) \subseteq ToSet(s)
  <2>1. \A i \in n + 1 .. Len(s) : i \in 1 .. Len(s)
    BY <1>1
  <2> QED BY <1>1, <1>5, <2>1 DEF ToSet
<1>7. ASSUME Distinct(s)
      PROVE  Distinct(t)
  <2> SUFFICES ASSUME NEW i \in 1 .. Len(t), NEW j \in 1 .. Len(t), i # j
               PROVE  t[i] # t[j]
    BY DEF Distinct
  <2>1. i \in 1 .. Len(s) - n /\ j \in 1 .. Len(s) - n
    BY <1>3
  <2>2. n + i \in 1 .. Len(s) /\ n + j \in 1 .. Len(s) /\ n + i # n + j
    BY <1>1, <2>1
  <2> QED BY <1>3, <1>7, <2>1, <2>2 DEF Distinct
<1> QED
  BY <1>2, <1>3, <1>5, <1>6, <1>7 DEF t

LEMMA DistinctCount ==
    ASSUME NEW K, NEW s \in Seq(K), Distinct(s)
    PROVE  IsFiniteSet(ToSet(s)) /\ Cardinality(ToSet(s)) = Len(s)
<1>1. Len(s) \in Nat /\ DOMAIN s = 1 .. Len(s) /\ s \in [1 .. Len(s) -> K]
  OBVIOUS
<1>2. s \in [1 .. Len(s) -> ToSet(s)] /\ \A k \in ToSet(s) : \E i \in 1 .. Len(s) : s[i] = k
  BY <1>1 DEF ToSet
<1>3. ExistsBijection(1 .. Len(s), ToSet(s))
  BY <1>2 DEF ExistsBijection, Bijection, Injection, Surjection, Distinct, IsInjective
<1>4. IsFiniteSet(ToSet(s))
  BY <1>1, <1>3, FS_NatBijection
<1> QED
  BY <1>1, <1>3, <1>4, FS_CountingElements

-----------------------------------------------------------------------------
(* Quiet hours.                                                            *)

LEMMA Day == DaySeconds \in Nat \ {0}
BY RuntimePolicyAssumption DEF DaySeconds

\* The second of the day after this one.
LEMMA NextSecond ==
    ASSUME NEW s \in 0 .. DaySeconds - 1
    PROVE  (s + 1) % DaySeconds = IF s = DaySeconds - 1 THEN 0 ELSE s + 1
<1> DEFINE D == DaySeconds
<1>1. D \in Nat \ {0}
  BY Day
<1> HIDE DEF D
<1>2. \A n \in 0 .. D - 1 : n % D = n
  BY <1>1
<1>3. D % D = 0
  BY <1>1
<1> QED
  BY <1>1, <1>2, <1>3 DEF D

\* A boundary lies ahead in the day, or in the next one.
LEMMA Until ==
    ASSUME NEW hour \in Nat, hour < DayHours, NEW s \in 0 .. DaySeconds - 1
    PROVE  /\ hour * HourSeconds \in 0 .. DaySeconds - 1
           /\ SecondsUntil(hour, s) = IF hour * HourSeconds > s THEN hour * HourSeconds - s
                                      ELSE hour * HourSeconds - s + DaySeconds
<1> DEFINE at == hour * HourSeconds
           D  == DaySeconds
<1>1. D \in Nat \ {0}
  BY Day
<1>2. at \in 0 .. D - 1
  <2>1. at \in Nat
    BY RuntimePolicyAssumption
  <2>2. (hour + 1) * HourSeconds = at + HourSeconds
    BY RuntimePolicyAssumption
  <2>3. (hour + 1) * HourSeconds <= DayHours * HourSeconds
    <3>1. \A a, b, c \in Nat : a <= b => a * c <= b * c
      OBVIOUS
    <3> QED
      BY <3>1, RuntimePolicyAssumption
  <2>4. DayHours * HourSeconds = D
    BY DEF DaySeconds
  <2> HIDE DEF at, D
  <2> QED
    BY <2>1, <2>2, <2>3, <2>4, <1>1, RuntimePolicyAssumption
<1> HIDE DEF D, at
<1>3. \A n \in 0 .. D - 1 : n % D = n
  BY <1>1
<1>4. \A n \in Int : (-D < n /\ n < 0) => n % D = n + D
  BY <1>1
<1>5. (at - s) % D = IF at >= s THEN at - s ELSE at - s + D
  <2>1. s \in 0 .. D - 1
    BY DEF D
  <2>2. CASE at >= s
    <3>1. at - s \in 0 .. D - 1
      BY <1>1, <1>2, <2>1, <2>2
    <3> QED
      BY <3>1, <1>3, <2>2
  <2>3. CASE ~(at >= s)
    <3>1. at - s \in Int /\ -D < at - s /\ at - s < 0
      BY <1>1, <1>2, <2>1, <2>3
    <3> QED
      BY <3>1, <1>4, <2>3
  <2> QED
    BY <2>2, <2>3
<1>6. SecondsUntil(hour, s) = IF (at - s) % D = 0 THEN D ELSE (at - s) % D
  BY DEF SecondsUntil, at, D
<1>7. SecondsUntil(hour, s) = IF at > s THEN at - s ELSE at - s + D
  <2>1. s \in 0 .. D - 1
    BY DEF D
  <2> QED
    BY <2>1, <1>1, <1>2, <1>5, <1>6
<1> QED
  BY <1>2, <1>7 DEF at, D

\* The hour of a second is past another exactly when the second is.
LEMMA HourReached ==
    ASSUME NEW hour \in Nat, NEW s \in Nat
    PROVE  (s \div HourSeconds) >= hour <=> s >= hour * HourSeconds
<1> DEFINE q == s \div HourSeconds
           r == s % HourSeconds
<1>1. q \in Nat /\ r \in 0 .. HourSeconds - 1 /\ s = HourSeconds * q + r
  BY RuntimePolicyAssumption
<1> HIDE DEF q, r
<1>2. \A a, b, c \in Nat : a <= b => a * c <= b * c
  OBVIOUS
<1>3. CASE q >= hour
  <2>1. hour * HourSeconds <= q * HourSeconds
    BY <1>1, <1>2, <1>3, RuntimePolicyAssumption
  <2>2. q * HourSeconds = HourSeconds * q /\ q * HourSeconds \in Nat
    BY <1>1, RuntimePolicyAssumption
  <2>3. hour * HourSeconds \in Nat
    BY RuntimePolicyAssumption
  <2>4. s >= hour * HourSeconds
    <3> DEFINE a == hour * HourSeconds
               b == q * HourSeconds
               c == HourSeconds * q
    <3>1. a <= b /\ b = c /\ b \in Nat /\ a \in Nat /\ s = c + r /\ r >= 0 /\ r \in Int
      BY <1>1, <2>1, <2>2, <2>3, RuntimePolicyAssumption
    <3> HIDE DEF a, b, c
    <3>2. s >= a
      BY <3>1
    <3> QED
      BY <3>2 DEF a
  <2> QED
    BY <1>3, <2>4 DEF q
<1>4. CASE ~(q >= hour)
  <2>1. (q + 1) * HourSeconds <= hour * HourSeconds
    BY <1>1, <1>2, <1>4, RuntimePolicyAssumption
  <2>2. (q + 1) * HourSeconds = HourSeconds * q + HourSeconds
    BY <1>1, RuntimePolicyAssumption
  <2>3. hour * HourSeconds \in Nat /\ HourSeconds * q \in Nat
    BY <1>1, RuntimePolicyAssumption
  <2>4. ~(s >= hour * HourSeconds)
    <3> DEFINE a == hour * HourSeconds
               b == (q + 1) * HourSeconds
               c == HourSeconds * q
    <3>1. b <= a /\ b = c + HourSeconds /\ c \in Nat /\ a \in Nat /\ s = c + r /\ r < HourSeconds
          /\ r \in Int
      BY <1>1, <2>1, <2>2, <2>3, RuntimePolicyAssumption
    <3> HIDE DEF a, b, c
    <3>2. ~(s >= a)
      BY <3>1, RuntimePolicyAssumption
    <3> QED
      BY <3>2 DEF a
  <2> QED
    BY <1>4, <2>4 DEF q
<1> QED
  BY <1>3, <1>4

\* Quiet hours change only where a boundary was announced, and every boundary is one
\* second nearer with every second that passes (seconds_until_quiet_boundary).
LEMMA Boundary ==
    ASSUME NEW cfg, cfg.quietStart \in Nat, cfg.quietEnd \in Nat, QuietWindow(cfg),
           NEW s \in 0 .. DaySeconds - 1
    PROVE  LET next == (s + 1) % DaySeconds
               ahead == SecondsUntilQuietBoundary(cfg, s)
           IN  /\ ahead \in Nat \ {0}
               /\ QuietHoursActive(cfg, s) # QuietHoursActive(cfg, next) <=> ahead = 1
               /\ ahead # 1 => SecondsUntilQuietBoundary(cfg, next) = ahead - 1
<1> DEFINE a    == cfg.quietStart * HourSeconds
           b    == cfg.quietEnd * HourSeconds
           D    == DaySeconds
           next == (s + 1) % D
<1>1. D \in Nat \ {0} /\ s \in 0 .. D - 1
  BY Day
<1>2. /\ cfg.quietStart < DayHours /\ cfg.quietEnd < DayHours /\ cfg.quietStart # cfg.quietEnd
      /\ cfg.quietStart \in Nat /\ cfg.quietEnd \in Nat
  BY DEF QuietWindow
<1>3. next = (IF s = D - 1 THEN 0 ELSE s + 1) /\ next \in 0 .. D - 1
  <2>1. next = IF s = D - 1 THEN 0 ELSE s + 1
    BY NextSecond
  <2> HIDE DEF next, D
  <2> QED
    BY <1>1, <2>1
<1>4. \A t \in 0 .. D - 1 :
         /\ a \in 0 .. D - 1 /\ b \in 0 .. D - 1
         /\ SecondsUntil(cfg.quietStart, t) = IF a > t THEN a - t ELSE a - t + D
         /\ SecondsUntil(cfg.quietEnd, t) = IF b > t THEN b - t ELSE b - t + D
  BY <1>2, Until
<1>5. (cfg.quietStart < cfg.quietEnd <=> a < b) /\ a # b
  <2>1. \A x, y, c \in Nat : x < y /\ c > 0 => x * c < y * c
    OBVIOUS
  <2>2. cfg.quietStart < cfg.quietEnd => a < b
    BY <1>2, <2>1, RuntimePolicyAssumption
  <2>3. cfg.quietEnd < cfg.quietStart => b < a
    BY <1>2, <2>1, RuntimePolicyAssumption
  <2>4. a \in Nat /\ b \in Nat
    BY <1>2, RuntimePolicyAssumption
  <2> HIDE DEF a, b
  <2> QED
    BY <1>2, <2>2, <2>3, <2>4
<1>6. \A t \in 0 .. D - 1 :
         QuietHoursActive(cfg, t) <=> IF a < b THEN t >= a /\ t < b ELSE t >= a \/ t < b
  <2> SUFFICES ASSUME NEW t \in 0 .. D - 1
               PROVE  QuietHoursActive(cfg, t)
                        <=> IF a < b THEN t >= a /\ t < b ELSE t >= a \/ t < b
    OBVIOUS
  <2>1. t \in Nat
    BY <1>1
  <2>2. /\ (t \div HourSeconds) >= cfg.quietStart <=> t >= a
        /\ (t \div HourSeconds) >= cfg.quietEnd <=> t >= b
    BY <1>2, <2>1, HourReached
  <2>3. (t \div HourSeconds) \in Nat
    BY <2>1, RuntimePolicyAssumption
  <2>4. (t \div HourSeconds) < cfg.quietEnd <=> ~((t \div HourSeconds) >= cfg.quietEnd)
    BY <1>2, <2>3
  <2>5. t < b <=> ~(t >= b)
    BY <1>1, <1>4, <2>1
  <2> DEFINE hour == t \div HourSeconds
  <2>6. QuietHoursActive(cfg, t)
          <=> IF cfg.quietStart < cfg.quietEnd
                THEN hour >= cfg.quietStart /\ hour < cfg.quietEnd
                ELSE hour >= cfg.quietStart \/ hour < cfg.quietEnd
    BY DEF QuietHoursActive
  <2> HIDE DEF hour, a, b, D
  <2> QED
    BY <1>5, <2>2, <2>4, <2>5, <2>6 DEF hour
<1>7. \A t \in 0 .. D - 1 :
         SecondsUntilQuietBoundary(cfg, t)
           = LET start == IF a > t THEN a - t ELSE a - t + D
                 end   == IF b > t THEN b - t ELSE b - t + D
             IN  IF start <= end THEN start ELSE end
  BY <1>4 DEF SecondsUntilQuietBoundary
<1>8. a \in 0 .. D - 1 /\ b \in 0 .. D - 1
  BY <1>1, <1>4
<1> HIDE DEF a, b, D, next
<1>9. SecondsUntilQuietBoundary(cfg, s) \in Nat \ {0}
  BY <1>1, <1>7, <1>8
<1>10. SecondsUntilQuietBoundary(cfg, s) = 1 <=> next = a \/ next = b
  BY <1>1, <1>3, <1>7, <1>8
<1>11. SecondsUntilQuietBoundary(cfg, s) # 1 =>
         SecondsUntilQuietBoundary(cfg, next) = SecondsUntilQuietBoundary(cfg, s) - 1
  BY <1>1, <1>3, <1>7, <1>8
<1>12. QuietHoursActive(cfg, s) # QuietHoursActive(cfg, next) <=> next = a \/ next = b
  <2> DEFINE quiet(t) == IF a < b THEN t >= a /\ t < b ELSE t >= a \/ t < b
  <2>1. (quiet(s) <=> ~quiet(next)) <=> next = a \/ next = b
    BY <1>1, <1>3, <1>5, <1>8
  <2>2. (QuietHoursActive(cfg, s) <=> quiet(s)) /\ (QuietHoursActive(cfg, next) <=> quiet(next))
    BY <1>1, <1>3, <1>6
  <2>3. QuietHoursActive(cfg, s) \in BOOLEAN /\ QuietHoursActive(cfg, next) \in BOOLEAN
    BY DEF QuietHoursActive
  <2> HIDE DEF quiet
  <2>4. QuietHoursActive(cfg, s) # QuietHoursActive(cfg, next)
          <=> ~(QuietHoursActive(cfg, s) <=> QuietHoursActive(cfg, next))
    BY <2>3
  <2> QED
    BY <2>1, <2>2, <2>4
<1> QED
  BY <1>9, <1>10, <1>11, <1>12 DEF next, D

-----------------------------------------------------------------------------
(* The frames of an animation                                              *)

\* The animations of a pet, within the limits of lim.
Film(lim) ==
    INSTANCE PetFrames WITH
        MaxFrameCount <- lim.count, MaxFramePixels <- lim.pixels, MaxStateBytes <- lim.bytes,
        MaxCacheStates <- lim.states, MaxCacheBytes <- lim.held

\* What holds of 0, and of every number after one it holds of.
LEMMA UpTo ==
    ASSUME NEW N \in Nat, NEW good, 0 \in good, \A n \in 1 .. N : n - 1 \in good => n \in good
    PROVE  \A n \in 0 .. N : n \in good
<1> DEFINE bad == {n \in 0 .. N : n \notin good}
<1> SUFFICES ASSUME bad # {}
             PROVE  FALSE
  OBVIOUS
<1>1. bad \subseteq Nat
  OBVIOUS
<1>2. PICK n \in bad : \A m \in bad : n <= m
  <2> HIDE DEF bad
  <2> QED BY <1>1, LeastNumber
<1>3. n \in 1 .. N /\ n - 1 \in 0 .. N /\ ~(n <= n - 1)
  <2>1. n \in 0 .. N /\ n # 0
    OBVIOUS
  <2> HIDE DEF bad
  <2> QED BY <2>1
<1>4. n - 1 \notin bad
  <2> HIDE DEF bad
  <2> QED BY <1>2, <1>3
<1> QED BY <1>3, <1>4

\* What load_frames has yielded after each of the first N paths.
Loads(lim, f, P, N) ==
    f = [n \in 0 .. N |-> IF n = 0 THEN [frames |-> <<>>, failures |-> {}]
                          ELSE Film(lim)!LoadOne(f[n - 1], P[n])]

LEMMA LoadsExists ==
    ASSUME NEW lim, NEW P, NEW N \in Nat
    PROVE  \E f : Loads(lim, f, P, N)
<1> DEFINE good == {n \in 0 .. N : \E f : Loads(lim, f, P, n)}
           start == [frames |-> <<>>, failures |-> {}]
<1>1. 0 \in good
  <2> DEFINE f == [m \in 0 .. 0 |-> start]
  <2>1. Loads(lim, f, P, 0)
    BY DEF Loads
  <2> QED BY <2>1
<1>2. ASSUME NEW n \in 1 .. N, n - 1 \in good
      PROVE  n \in good
  <2>1. n \in Nat /\ n # 0
    OBVIOUS
  <2>2. PICK k : Loads(lim, k, P, n - 1)
    BY <1>2
  <2> DEFINE last == Film(lim)!LoadOne(k[n - 1], P[n])
             g == [m \in 0 .. n |-> IF m = n THEN last ELSE k[m]]
  <2>3. \A m \in 0 .. n - 1 : k[m] = IF m = 0 THEN start ELSE Film(lim)!LoadOne(k[m - 1], P[m])
    BY <2>2 DEF Loads
  <2>4. \A m \in 0 .. n - 1 : g[m] = k[m]
    BY <2>1
  <2>5. g[n] = last
    BY <2>1
  <2> HIDE DEF start
  <2>6. \A m \in 0 .. n : g[m] = IF m = 0 THEN start ELSE Film(lim)!LoadOne(g[m - 1], P[m])
    <3> SUFFICES ASSUME NEW m \in 0 .. n
                 PROVE  g[m] = IF m = 0 THEN start ELSE Film(lim)!LoadOne(g[m - 1], P[m])
      OBVIOUS
    <3>1. CASE m = n
      <4>1. n - 1 \in 0 .. n - 1 /\ g[n - 1] = k[n - 1]
        BY <2>1, <2>4
      <4> HIDE DEF g
      <4> QED BY <2>1, <2>5, <3>1, <4>1
    <3>2. CASE m # n
      <4>1. m \in 0 .. n - 1 /\ (m # 0 => m - 1 \in 0 .. n - 1)
        BY <2>1, <3>2
      <4> HIDE DEF g
      <4> QED BY <2>3, <2>4, <4>1
    <3> QED BY <3>1, <3>2
  <2>7. g = [m \in 0 .. n |-> g[m]]
    OBVIOUS
  <2>8. Loads(lim, g, P, n)
    <3> HIDE DEF g
    <3> QED BY <2>6, <2>7 DEF Loads, start
  <2>9. n \in 0 .. N
    BY <2>1
  <2> HIDE DEF g
  <2> QED BY <2>8, <2>9
<1> HIDE DEF good
<1>3. N \in good
  BY <1>1, <1>2, UpTo
<1> QED BY <1>3 DEF good

LEMMA LoadFramesLoads ==
    ASSUME NEW lim, NEW P, Len(P) \in Nat, lim.count \in Nat
    PROVE  \E f : /\ Loads(lim, f, P, Len(P))
                  /\ Film(lim)!LoadFrames(P) = IF Len(P) > lim.count
                                               THEN [frames |-> <<>>, failures |-> {"<animation>"}]
                                               ELSE f[Len(P)]
<1> DEFINE f == CHOOSE g : Loads(lim, g, P, Len(P))
<1>1. Loads(lim, f, P, Len(P))
  BY LoadsExists
<1>2. Film(lim)!LoadFrames(P) = IF Len(P) > lim.count
                                THEN [frames |-> <<>>, failures |-> {"<animation>"}]
                                ELSE f[Len(P)]
  BY DEF Film!LoadFrames, Loads
<1> QED BY <1>1, <1>2

-----------------------------------------------------------------------------
FilmLimits(lim) == {lim.count, lim.pixels, lim.bytes} \subseteq Nat

\* The pictures a load may show.
Shown(lim) == {p \in Film(lim)!Pictures : p.pixels \in 1 .. lim.pixels /\ p.header # "beyond"}

LEMMA FilmTotal ==
    ASSUME NEW lim, NEW f, NEW S
    PROVE  Film(lim)!Total(f, S) = Total(f, S)
BY DEF Film!Total, Film!MapThenSumSet, Film!MapThenFoldSet, Total, MapThenSumSet, MapThenFoldSet

LEMMA BytesNat ==
    ASSUME NEW lim, NEW s \in Seq(Film(lim)!Pictures)
    PROVE  Film(lim)!FramesBytes(s) \in Nat
<1> DEFINE b == [n \in DOMAIN s |-> Film(lim)!Bytes(s[n])]
<1>1. DOMAIN s = 1 .. Len(s) /\ Len(s) \in Nat /\ \A n \in DOMAIN s : s[n] \in Film(lim)!Pictures
  OBVIOUS
<1>2. \A n \in DOMAIN s : b[n] \in Nat
  <2>1. \A p \in Film(lim)!Pictures : Film(lim)!Bytes(p) \in Nat
    BY DEF Film!Bytes, Film!Pictures
  <2> QED BY <1>1, <2>1
<1>3. IsFiniteSet(DOMAIN s)
  BY <1>1, FS_Interval
<1> HIDE DEF b
<1>4. Total(b, DOMAIN s) \in Nat
  BY <1>2, <1>3, TotalNat
<1>5. Film(lim)!FramesBytes(s) = Film(lim)!Total(b, DOMAIN s)
  BY DEF Film!FramesBytes, b
<1> QED BY <1>4, <1>5, FilmTotal

LEMMA BytesAppended ==
    ASSUME NEW lim, NEW s \in Seq(Film(lim)!Pictures), NEW p \in Film(lim)!Pictures
    PROVE  Film(lim)!FramesBytes(Append(s, p)) = Film(lim)!FramesBytes(s) + Film(lim)!Bytes(p)
<1> DEFINE L == Len(s)
           t == Append(s, p)
           b == [n \in DOMAIN t |-> Film(lim)!Bytes(t[n])]
           a == [n \in DOMAIN s |-> Film(lim)!Bytes(s[n])]
<1>1. L \in Nat /\ DOMAIN s = 1 .. L /\ DOMAIN t = 1 .. L + 1 /\ t[L + 1] = p
      /\ \A n \in 1 .. L : t[n] = s[n]
  BY AppendProperties
<1>2. t \in Seq(Film(lim)!Pictures)
  BY AppendProperties
<1>3. \A n \in DOMAIN t : b[n] \in Nat
  <2> SUFFICES ASSUME NEW n \in DOMAIN t
               PROVE  b[n] \in Nat
    OBVIOUS
  <2>1. t[n] \in Film(lim)!Pictures
    BY <1>2
  <2> HIDE DEF t
  <2> QED BY <2>1 DEF Film!Bytes, Film!Pictures
<1>4. IsFiniteSet(1 .. L + 1) /\ IsFiniteSet(1 .. L)
  BY <1>1, FS_Interval
<1>5. L + 1 \in 1 .. L + 1 /\ (1 .. L + 1) \ {L + 1} = 1 .. L
  BY <1>1
<1>6. b[L + 1] = Film(lim)!Bytes(p) /\ \A n \in 1 .. L : b[n] = a[n]
  BY <1>1, <1>5
<1> HIDE DEF a, b, t, L
<1>7. Total(b, 1 .. L + 1) = b[L + 1] + Total(b, 1 .. L)
  BY <1>1, <1>3, <1>4, <1>5, TotalSplit
<1>8. Total(b, 1 .. L) = Total(a, 1 .. L)
  BY <1>4, <1>6, TotalSame
<1>9. Total(a, 1 .. L) \in Nat /\ Film(lim)!Bytes(p) \in Nat
  <2>1. Film(lim)!FramesBytes(s) \in Nat
    BY BytesNat
  <2>2. Film(lim)!FramesBytes(s) = Total(a, 1 .. L)
    BY <1>1, FilmTotal DEF Film!FramesBytes, a
  <2> QED BY <2>1, <2>2 DEF Film!Bytes, Film!Pictures
<1>10. Film(lim)!FramesBytes(t) = Total(b, 1 .. L + 1) /\ Film(lim)!FramesBytes(s) = Total(a, 1 .. L)
  BY <1>1, FilmTotal DEF Film!FramesBytes, a, b
<1> QED BY <1>6, <1>7, <1>8, <1>9, <1>10 DEF t

LEMMA BytesNone == ASSUME NEW lim PROVE Film(lim)!FramesBytes(<<>>) = 0
<1> DEFINE b == [n \in DOMAIN <<>> |-> Film(lim)!Bytes(<<>>[n])]
<1>1. DOMAIN <<>> = {}
  OBVIOUS
<1>2. Total(b, {}) = 0
  BY TotalEmpty
<1> QED BY <1>1, <1>2, FilmTotal DEF Film!FramesBytes
-----------------------------------------------------------------------------
\* The path at n is skipped: its picture does not decode after those before it.
Skipped(lim, f, P, n) ==
    ~Film(lim)!Decodes(P[n].picture, Film(lim)!FramesBytes(f[n - 1].frames))

\* What is true of a load at every path.
Loading(lim, f, P, n) ==
    /\ f[n] = [frames |-> f[n].frames, failures |-> f[n].failures]
    /\ f[n].frames \in Seq(Shown(lim)) /\ Len(f[n].frames) <= n
    /\ Film(lim)!FramesBytes(f[n].frames) <= lim.bytes
    /\ f[n].failures = {P[m].name : m \in {m \in 1 .. n : Skipped(lim, f, P, m)}}

LEMMA LoadStep ==
    ASSUME NEW lim, NEW f, NEW P, NEW N \in Nat, Loads(lim, f, P, N), NEW n \in 1 .. N,
           f[n - 1] = [frames |-> f[n - 1].frames, failures |-> f[n - 1].failures]
    PROVE  f[n] = IF Skipped(lim, f, P, n)
                  THEN [frames |-> f[n - 1].frames, failures |-> f[n - 1].failures \cup {P[n].name}]
                  ELSE [frames |-> Append(f[n - 1].frames, P[n].picture),
                        failures |-> f[n - 1].failures]
<1>1. n \in 0 .. N /\ n # 0
  OBVIOUS
<1>2. f[n] = Film(lim)!LoadOne(f[n - 1], P[n])
  BY <1>1 DEF Loads
<1> DEFINE l == f[n - 1]
<1>3. l = [frames |-> l.frames, failures |-> l.failures]
  OBVIOUS
<1>4. f[n] = IF Skipped(lim, f, P, n) THEN [l EXCEPT !.failures = l.failures \cup {P[n].name}]
             ELSE [l EXCEPT !.frames = Append(l.frames, P[n].picture)]
  BY <1>2 DEF Film!LoadOne, Skipped
<1> HIDE DEF l
<1>5. f[n] = IF Skipped(lim, f, P, n)
             THEN [frames |-> l.frames, failures |-> l.failures \cup {P[n].name}]
             ELSE [frames |-> Append(l.frames, P[n].picture), failures |-> l.failures]
  BY <1>3, <1>4
<1> QED BY <1>5 DEF l

LEMMA FramesStep ==
    ASSUME NEW lim, NEW f, NEW P, NEW N \in Nat, Loads(lim, f, P, N), NEW n \in 1 .. N,
           f[n - 1] = [frames |-> f[n - 1].frames, failures |-> f[n - 1].failures]
    PROVE  /\ f[n].frames = IF Skipped(lim, f, P, n) THEN f[n - 1].frames
                            ELSE Append(f[n - 1].frames, P[n].picture)
           /\ f[n].failures = f[n - 1].failures
                              \cup (IF Skipped(lim, f, P, n) THEN {P[n].name} ELSE {})
<1> DEFINE skips  == [frames |-> f[n - 1].frames, failures |-> f[n - 1].failures \cup {P[n].name}]
           shows  == [frames |-> Append(f[n - 1].frames, P[n].picture), failures |-> f[n - 1].failures]
<1>1. f[n] = IF Skipped(lim, f, P, n) THEN skips ELSE shows
  BY LoadStep
<1>2. /\ skips.frames = f[n - 1].frames /\ shows.frames = Append(f[n - 1].frames, P[n].picture)
      /\ skips.failures = f[n - 1].failures \cup {P[n].name} /\ shows.failures = f[n - 1].failures
  OBVIOUS
<1> HIDE DEF skips, shows
<1> QED BY <1>1, <1>2

LEMMA AllLoading ==
    ASSUME NEW lim, FilmLimits(lim), NEW f, NEW P, NEW N \in Nat, Loads(lim, f, P, N),
           \A n \in 1 .. N : P[n].picture \in Film(lim)!Pictures
    PROVE  \A n \in 0 .. N : Loading(lim, f, P, n)
<1> DEFINE good == {n \in 0 .. N : Loading(lim, f, P, n)}
<1>1. 0 \in good
  <2>1. f[0] = [frames |-> <<>>, failures |-> {}]
    BY DEF Loads
  <2>2. <<>> \in Seq(Shown(lim)) /\ Len(<<>>) = 0 /\ {m \in 1 .. 0 : Skipped(lim, f, P, m)} = {}
    OBVIOUS
  <2>3. Film(lim)!FramesBytes(<<>>) <= lim.bytes
    BY BytesNone DEF FilmLimits
  <2>4. f[0].failures = {P[m].name : m \in {m \in 1 .. 0 : Skipped(lim, f, P, m)}}
    BY <2>1, <2>2
  <2>5. Loading(lim, f, P, 0)
    BY <2>1, <2>2, <2>3, <2>4 DEF Loading
  <2> QED BY <2>5
<1>2. ASSUME NEW n \in 1 .. N, n - 1 \in good
      PROVE  n \in good
  <2>1. n \in 0 .. N /\ n - 1 \in Nat /\ n \in Nat
    OBVIOUS
  <2>2. Loading(lim, f, P, n - 1)
    BY <1>2
  <2> DEFINE l == f[n - 1]
             p == P[n].picture
             skipped(k) == {m \in 1 .. k : Skipped(lim, f, P, m)}
  <2>3. /\ l = [frames |-> l.frames, failures |-> l.failures]
        /\ l.frames \in Seq(Shown(lim)) /\ Len(l.frames) <= n - 1
        /\ Film(lim)!FramesBytes(l.frames) <= lim.bytes
        /\ l.failures = {P[m].name : m \in skipped(n - 1)}
    BY <2>2 DEF Loading
  <2>4. p \in Film(lim)!Pictures
    OBVIOUS
  <2>5. f[n] = IF Skipped(lim, f, P, n)
               THEN [frames |-> l.frames, failures |-> l.failures \cup {P[n].name}]
               ELSE [frames |-> Append(l.frames, p), failures |-> l.failures]
    BY <2>3, LoadStep
  <2>6. Skipped(lim, f, P, n) <=> ~Film(lim)!Decodes(p, Film(lim)!FramesBytes(l.frames))
    BY DEF Skipped
  <2>7. CASE Skipped(lim, f, P, n)
    <3>1. skipped(n) = skipped(n - 1) \cup {n}
      BY <2>1, <2>7
    <3>2. {P[m].name : m \in skipped(n)} = {P[m].name : m \in skipped(n - 1)} \cup {P[n].name}
      <4> HIDE DEF skipped
      <4> QED BY <3>1
    <3>3. f[n].failures = {P[m].name : m \in skipped(n)}
      BY <2>3, <2>5, <2>7, <3>2
    <3>4. f[n].frames = l.frames /\ f[n] = [frames |-> f[n].frames, failures |-> f[n].failures]
      BY <2>5, <2>7
    <3>5. Len(f[n].frames) <= n
      <4> HIDE DEF l
      <4> QED BY <2>1, <2>3, <3>4
    <3>6. Loading(lim, f, P, n)
      BY <2>3, <3>3, <3>4, <3>5 DEF Loading
    <3> QED BY <2>1, <3>6
  <2>8. CASE ~Skipped(lim, f, P, n)
    <3>1. skipped(n) = skipped(n - 1)
      BY <2>1, <2>8
    <3>2. f[n] = [frames |-> Append(l.frames, p), failures |-> l.failures]
      BY <2>5, <2>8
    <3>3. p.pixels \in 1 .. lim.pixels /\ p.header # "beyond"
          /\ Film(lim)!FramesBytes(l.frames) + Film(lim)!Bytes(p) <= lim.bytes
      BY <2>6, <2>8 DEF Film!Decodes, Film!PassesPreflight
    <3>4. p \in Shown(lim)
      BY <2>4, <3>3 DEF Shown
    <3> HIDE DEF l, p, skipped
    <3>5. Append(l.frames, p) \in Seq(Shown(lim)) /\ Len(Append(l.frames, p)) = Len(l.frames) + 1
      BY <2>3, <3>4, AppendProperties
    <3>6. l.frames \in Seq(Film(lim)!Pictures)
      <4>1. Shown(lim) \subseteq Film(lim)!Pictures
        BY DEF Shown
      <4> QED BY <2>3, <4>1
    <3>7. Film(lim)!FramesBytes(Append(l.frames, p)) <= lim.bytes
      BY <2>4, <3>3, <3>6, BytesAppended
    <3>8. Len(f[n].frames) <= n
      BY <2>1, <2>3, <3>2, <3>5
    <3>9. f[n].failures = {P[m].name : m \in skipped(n)}
      BY <2>3, <3>1, <3>2
    <3>10. Loading(lim, f, P, n)
      BY <3>2, <3>5, <3>7, <3>8, <3>9 DEF Loading, skipped
    <3> QED BY <2>1, <3>10
  <2> QED BY <2>7, <2>8
<1> HIDE DEF good
<1>3. \A n \in 0 .. N : n \in good
  BY <1>1, <1>2, UpTo
<1> QED BY <1>3 DEF good
-----------------------------------------------------------------------------
\* What is kept of the first paths is the beginning of what is kept of all of them.
LEMMA WithoutKeeps ==
    ASSUME NEW K, NEW s \in Seq(K), NEW X
    PROVE  \E k : /\ Keeps(k, s, X, Len(s)) /\ Without(s, X) = k[Len(s)]
                  /\ \A n \in 0 .. Len(s) :
                       /\ k[n] \in Seq(K) /\ Len(k[n]) <= Len(Without(s, X))
                       /\ Len(k[n]) <= n /\ (X = {} => Len(k[n]) = n)
                       /\ \A i \in 1 .. Len(k[n]) : Without(s, X)[i] = k[n][i]
<1> DEFINE N == Len(s)
           k == CHOOSE kept : Keeps(kept, s, X, N)
           Begins(v, w) == Len(v) <= Len(w) /\ \A i \in 1 .. Len(v) : w[i] = v[i]
           Measured(n) == Len(k[n]) <= n /\ (X = {} => Len(k[n]) = n)
           good == {n \in 0 .. N : Measured(n) /\ \A m \in 0 .. n : k[m] \in Seq(K) /\ Begins(k[m], k[n])}
<1>1. N \in Nat /\ \A n \in 1 .. N : s[n] \in K
  OBVIOUS
<1>2. Keeps(k, s, X, N)
  BY <1>1, KeepsExists
<1>3. Without(s, X) = k[N]
  BY DEF Without, Keeps
<1> HIDE DEF k
<1>4. 0 \in good
  <2>1. k[0] = <<>>
    BY <1>1, <1>2 DEF Keeps
  <2>2. k[0] \in Seq(K) /\ Begins(k[0], k[0]) /\ Measured(0)
    BY <2>1
  <2>3. \A m \in 0 .. 0 : m = 0
    OBVIOUS
  <2>4. 0 \in 0 .. N
    BY <1>1
  <2> QED BY <2>2, <2>3, <2>4
<1>5. ASSUME NEW n \in 1 .. N, n - 1 \in good
      PROVE  n \in good
  <2>1. n \in 0 .. N /\ n # 0 /\ n - 1 \in Nat /\ n \in Nat /\ s[n] \in K
    BY <1>1
  <2>2. Measured(n - 1) /\ k[n - 1] \in Seq(K) /\ \A m \in 0 .. n - 1 : k[m] \in Seq(K) /\ Begins(k[m], k[n - 1])
    BY <1>5, <2>1
  <2>3. k[n] = IF s[n] \in X THEN k[n - 1] ELSE Append(k[n - 1], s[n])
    BY <1>2, <2>1 DEF Keeps
  <2>4. k[n] \in Seq(K) /\ Begins(k[n - 1], k[n]) /\ Measured(n)
    <3> DEFINE v == k[n - 1]
    <3>1. v \in Seq(K) /\ Len(v) \in Nat /\ Len(v) <= n - 1 /\ (X = {} => Len(v) = n - 1)
      BY <2>2
    <3> HIDE DEF v
    <3>2. /\ Append(v, s[n]) \in Seq(K) /\ Begins(v, Append(v, s[n])) /\ Begins(v, v)
          /\ Len(Append(v, s[n])) = Len(v) + 1
      BY <2>1, <3>1, AppendProperties
    <3>3. /\ Len(v) <= n /\ Len(Append(v, s[n])) <= n
          /\ X = {} => s[n] \notin X /\ Len(Append(v, s[n])) = n
      BY <2>1, <3>1, <3>2
    <3> QED BY <2>3, <3>1, <3>2, <3>3 DEF v
  <2>5. ASSUME NEW m \in 0 .. n
        PROVE  k[m] \in Seq(K) /\ Begins(k[m], k[n])
    <3>1. CASE m = n
      <4>1. Len(k[n]) \in Nat
        BY <2>4
      <4> QED BY <2>4, <3>1, <4>1
    <3>2. CASE m # n
      <4>1. m \in 0 .. n - 1
        BY <2>1, <3>2
      <4>2. k[m] \in Seq(K) /\ Begins(k[m], k[n - 1]) /\ Begins(k[n - 1], k[n])
        BY <2>2, <2>4, <4>1
      <4>3. Len(k[m]) \in Nat /\ Len(k[n - 1]) \in Nat /\ Len(k[n]) \in Nat
        BY <2>2, <2>4, <4>2
      <4> QED BY <4>2, <4>3
    <3> QED BY <3>1, <3>2
  <2> QED BY <2>1, <2>4, <2>5
<1> HIDE DEF good
<1>6. \A n \in 0 .. N : n \in good
  BY <1>1, <1>4, <1>5, UpTo
<1>7. ASSUME NEW n \in 0 .. N
      PROVE  k[n] \in Seq(K) /\ Begins(k[n], k[N]) /\ Measured(n)
  BY <1>1, <1>6 DEF good
<1> QED BY <1>2, <1>3, <1>7
-----------------------------------------------------------------------------
\* A load that leaves out paths another one skipped shows the same frames.
LEMMA LeavingOut ==
    ASSUME NEW lim, FilmLimits(lim), NEW K, \A path \in K : path.picture \in Film(lim)!Pictures,
           NEW P \in Seq(K), NEW f, Loads(lim, f, P, Len(P)),
           NEW X, \A n \in 1 .. Len(P) : P[n] \in X => Skipped(lim, f, P, n),
           NEW g, Loads(lim, g, Without(P, X), Len(Without(P, X)))
    PROVE  /\ g[Len(Without(P, X))].frames = f[Len(P)].frames
           /\ g[Len(Without(P, X))].failures \subseteq f[Len(P)].failures
<1> DEFINE N == Len(P)
           w == Without(P, X)
           M == Len(w)
<1>1. N \in Nat /\ \A n \in 1 .. N : P[n] \in K
  OBVIOUS
<1>2. PICK k : /\ Keeps(k, P, X, N) /\ w = k[N]
               /\ \A n \in 0 .. N : k[n] \in Seq(K) /\ Len(k[n]) <= M
                                    /\ \A i \in 1 .. Len(k[n]) : w[i] = k[n][i]
  BY WithoutKeeps
<1>3. w \in Seq(K) /\ M \in Nat
  BY <1>1, <1>2
<1>4. \A n \in 0 .. N : Loading(lim, f, P, n)
  BY <1>1, AllLoading
<1>5. \A m \in 1 .. M : w[m].picture \in Film(lim)!Pictures
  BY <1>3
<1> HIDE DEF w
<1>6. \A m \in 0 .. M : Loading(lim, g, w, m)
  <2>1. Loads(lim, g, w, M)
    BY DEF w
  <2> HIDE DEF M
  <2> QED BY <1>3, <1>5, <2>1, AllLoading
<1> DEFINE Same(a, b) == a.frames = b.frames /\ a.failures \subseteq b.failures
           good == {n \in 0 .. N : Same(g[Len(k[n])], f[n])}
<1>7. 0 \in good
  <2>1. k[0] = <<>> /\ Len(k[0]) = 0
    BY <1>1, <1>2 DEF Keeps
  <2>2. Same(g[0], f[0])
    BY <1>1, <1>3 DEF Loads, w
  <2> QED BY <1>1, <2>1, <2>2
<1>8. ASSUME NEW n \in 1 .. N, n - 1 \in good
      PROVE  n \in good
  <2>1. n \in 0 .. N /\ n # 0 /\ n - 1 \in 0 .. N /\ P[n] \in K
    BY <1>1
  <2>2. Same(g[Len(k[n - 1])], f[n - 1])
    BY <1>8
  <2>3. k[n] = IF P[n] \in X THEN k[n - 1] ELSE Append(k[n - 1], P[n])
    BY <1>2, <2>1 DEF Keeps
  <2>4. f[n - 1] = [frames |-> f[n - 1].frames, failures |-> f[n - 1].failures]
    BY <1>4, <2>1 DEF Loading
  <2>5. /\ f[n].frames = IF Skipped(lim, f, P, n) THEN f[n - 1].frames
                         ELSE Append(f[n - 1].frames, P[n].picture)
        /\ f[n].failures = f[n - 1].failures
                           \cup (IF Skipped(lim, f, P, n) THEN {P[n].name} ELSE {})
    BY <1>1, <2>4, FramesStep
  <2>6. CASE P[n] \in X
    BY <2>1, <2>2, <2>3, <2>5, <2>6
  <2>7. CASE P[n] \notin X
    <3> DEFINE m == Len(k[n])
    <3>1. k[n] = Append(k[n - 1], P[n]) /\ k[n - 1] \in Seq(K)
      BY <1>2, <2>1, <2>3, <2>7
    <3>2. m = Len(k[n - 1]) + 1 /\ Len(k[n - 1]) \in Nat /\ k[n][m] = P[n]
      <4> DEFINE v == k[n - 1]
      <4>1. v \in Seq(K)
        BY <3>1
      <4> HIDE DEF v
      <4>2. Len(Append(v, P[n])) = Len(v) + 1 /\ Append(v, P[n])[Len(v) + 1] = P[n] /\ Len(v) \in Nat
        BY <2>1, <4>1, AppendProperties
      <4> QED BY <3>1, <4>2 DEF v
    <3>3. m <= M /\ \A i \in 1 .. m : w[i] = k[n][i]
      BY <1>2, <2>1
    <3> HIDE DEF m, M
    <3>4. m \in 1 .. M /\ m - 1 = Len(k[n - 1]) /\ m - 1 \in 0 .. M /\ m \in 1 .. m
      BY <1>3, <3>2, <3>3
    <3>5. w[m] = P[n]
      BY <3>2, <3>3, <3>4
    <3>6. g[m - 1] = [frames |-> g[m - 1].frames, failures |-> g[m - 1].failures]
      BY <1>6, <3>4 DEF Loading
    <3>7. Loads(lim, g, w, M)
      BY DEF w, M
    <3>8. /\ g[m].frames = IF Skipped(lim, g, w, m) THEN g[m - 1].frames
                           ELSE Append(g[m - 1].frames, w[m].picture)
          /\ g[m].failures = g[m - 1].failures
                             \cup (IF Skipped(lim, g, w, m) THEN {w[m].name} ELSE {})
      <4> HIDE DEF good, Same
      <4>1. M \in Nat /\ m \in 1 .. M
        BY <1>3, <3>4
      <4>2. g[m].frames = IF Skipped(lim, g, w, m) THEN g[m - 1].frames
                          ELSE Append(g[m - 1].frames, w[m].picture)
        BY <3>6, <3>7, <4>1, FramesStep
      <4>3. g[m].failures = g[m - 1].failures
                            \cup (IF Skipped(lim, g, w, m) THEN {w[m].name} ELSE {})
        BY <3>6, <3>7, <4>1, FramesStep
      <4> QED BY <4>2, <4>3
    <3>9. Same(g[m - 1], f[n - 1])
      BY <2>2, <3>4
    <3>10. Skipped(lim, g, w, m) <=> Skipped(lim, f, P, n)
      BY <3>5, <3>9 DEF Skipped
    <3>11. Same(g[m], f[n])
      BY <2>5, <3>5, <3>8, <3>9, <3>10
    <3> QED BY <2>1, <3>11 DEF m
  <2> QED BY <2>6, <2>7
<1> HIDE DEF good, N
<1>9. \A n \in 0 .. N : n \in good
  BY <1>1, <1>7, <1>8, UpTo
<1>10. Same(g[Len(k[N])], f[N])
  BY <1>1, <1>9 DEF good
<1> QED BY <1>2, <1>10 DEF w, N
-----------------------------------------------------------------------------
\* The paths of K name pictures, one picture by each name.
Album(lim, K) ==
    /\ \A path \in K : path.picture \in Film(lim)!Pictures /\ path.name # "<animation>"
    /\ \A p, q \in K : p.name = q.name => p = q

PictureBytes(lim, P) == [n \in DOMAIN P |-> Film(lim)!Bytes(P[n].picture)]

\* What all pictures of the paths would take.
AllBytes(lim, P) == Film(lim)!FramesBytes([n \in DOMAIN P |-> P[n].picture])

LEMMA BytesSoFar ==
    ASSUME NEW lim, FilmLimits(lim), NEW K, Album(lim, K), NEW P \in Seq(K),
           NEW f, Loads(lim, f, P, Len(P)), NEW n \in 1 .. Len(P)
    PROVE  /\ AllBytes(lim, P) \in Nat
           /\ Film(lim)!FramesBytes(f[n - 1].frames) + Film(lim)!Bytes(P[n].picture)
                <= AllBytes(lim, P)
<1> DEFINE N == Len(P)
           b == PictureBytes(lim, P)
           used(m) == Film(lim)!FramesBytes(f[m].frames)
<1>1. N \in Nat /\ DOMAIN P = 1 .. N /\ \A m \in 1 .. N : P[m] \in K
  OBVIOUS
<1>2. \A m \in 1 .. N : P[m].picture \in Film(lim)!Pictures
  BY <1>1 DEF Album
<1>3. \A m \in 1 .. N : b[m] = Film(lim)!Bytes(P[m].picture) /\ b[m] \in Nat
  BY <1>1, <1>2 DEF PictureBytes, Film!Bytes, Film!Pictures
<1>4. AllBytes(lim, P) = Total(b, 1 .. N)
  <2> DEFINE s == [m \in DOMAIN P |-> P[m].picture]
             a == [m \in DOMAIN s |-> Film(lim)!Bytes(s[m])]
  <2>1. DOMAIN s = 1 .. N /\ a = b
    BY <1>1 DEF PictureBytes
  <2>2. AllBytes(lim, P) = Film(lim)!Total(a, DOMAIN s)
    BY DEF AllBytes, Film!FramesBytes
  <2> HIDE DEF a, b, s
  <2> QED BY <2>1, <2>2, FilmTotal
<1>5. \A m \in 0 .. N : Loading(lim, f, P, m)
  BY <1>1, <1>2, AllLoading
<1>6. \A m \in 0 .. N : f[m].frames \in Seq(Film(lim)!Pictures) /\ used(m) \in Nat
  <2>1. Shown(lim) \subseteq Film(lim)!Pictures
    BY DEF Shown
  <2> SUFFICES ASSUME NEW m \in 0 .. N
               PROVE  f[m].frames \in Seq(Film(lim)!Pictures) /\ used(m) \in Nat
    OBVIOUS
  <2>2. f[m].frames \in Seq(Shown(lim))
    BY <1>5 DEF Loading
  <2>3. f[m].frames \in Seq(Film(lim)!Pictures)
    <3> DEFINE t == f[m].frames
    <3> HIDE DEF t
    <3>1. t \in Seq(Shown(lim)) => t \in Seq(Film(lim)!Pictures)
      BY <2>1
    <3> QED BY <2>2, <3>1 DEF t
  <2> QED BY <2>3, BytesNat
<1> HIDE DEF b
<1>7. \A m \in 0 .. N : Total(b, 1 .. m) \in Nat
  <2> SUFFICES ASSUME NEW m \in 0 .. N
               PROVE  Total(b, 1 .. m) \in Nat
    OBVIOUS
  <2>1. IsFiniteSet(1 .. m) /\ \A i \in 1 .. m : b[i] \in Nat
    BY <1>1, <1>3, FS_Interval
  <2> QED BY <2>1, TotalNat
<1>8. \A m \in 1 .. N : Total(b, 1 .. m) = b[m] + Total(b, 1 .. m - 1)
  <2> SUFFICES ASSUME NEW m \in 1 .. N
               PROVE  Total(b, 1 .. m) = b[m] + Total(b, 1 .. m - 1)
    OBVIOUS
  <2> DEFINE S == 1 .. m
  <2>1. IsFiniteSet(S)
    BY <1>1, FS_Interval
  <2>2. m \in S /\ S \ {m} = 1 .. m - 1
    BY <1>1
  <2>3. \A i \in S : b[i] \in Nat
    BY <1>1, <1>3
  <2> HIDE DEF S
  <2>4. Total(b, S) = b[m] + Total(b, S \ {m})
    BY <2>1, <2>2, <2>3, TotalSplit
  <2> QED BY <2>2, <2>4 DEF S
<1> DEFINE good == {m \in 0 .. N : used(m) <= Total(b, 1 .. m)}
<1>9. 0 \in good
  <2>1. f[0].frames = <<>>
    BY <1>1 DEF Loads
  <2>2. used(0) = 0
    BY <2>1, BytesNone
  <2>3. 0 \in 0 .. N /\ Total(b, 1 .. 0) \in Nat
    BY <1>1, <1>7
  <2> HIDE DEF used
  <2> QED BY <2>2, <2>3
<1>10. ASSUME NEW m \in 1 .. N, m - 1 \in good
       PROVE  m \in good
  <2>1. m \in 0 .. N /\ m - 1 \in 0 .. N
    BY <1>1
  <2>2. used(m - 1) <= Total(b, 1 .. m - 1)
    BY <1>10
  <2>3. f[m - 1] = [frames |-> f[m - 1].frames, failures |-> f[m - 1].failures]
    BY <1>5, <2>1 DEF Loading
  <2>4. f[m].frames = IF Skipped(lim, f, P, m) THEN f[m - 1].frames
                      ELSE Append(f[m - 1].frames, P[m].picture)
    BY <1>1, <2>3, FramesStep
  <2>5. used(m) = used(m - 1) \/ used(m) = used(m - 1) + b[m]
    BY <1>2, <1>3, <1>6, <2>1, <2>4, BytesAppended
  <2>6. used(m) <= Total(b, 1 .. m)
    <3>1. used(m - 1) \in Nat /\ b[m] \in Nat /\ Total(b, 1 .. m - 1) \in Nat
      BY <1>3, <1>6, <1>7, <2>1
    <3>2. Total(b, 1 .. m) = b[m] + Total(b, 1 .. m - 1)
      BY <1>8
    <3> HIDE DEF used
    <3> QED BY <2>2, <2>5, <3>1, <3>2
  <2> QED BY <2>1, <2>6
<1> HIDE DEF good
<1>11. \A m \in 0 .. N : m \in good
  BY <1>1, <1>9, <1>10, UpTo
<1>12. Total(b, 1 .. n) <= Total(b, 1 .. N)
  <2> DEFINE S == 1 .. N
             T == 1 .. n
  <2>1. IsFiniteSet(S)
    BY <1>1, FS_Interval
  <2>0. (\A i \in S : b[i] \in Nat) /\ T \in SUBSET S
    BY <1>1, <1>3
  <2> HIDE DEF S, T
  <2>2. Total(b, S) = Total(b, T) + Total(b, S \ T) /\ Total(b, T) \in Nat /\ Total(b, S \ T) \in Nat
    BY <2>0, <2>1, TotalPart
  <2>3. Total(b, T) <= Total(b, S)
    BY <2>2
  <2> QED BY <2>3 DEF S, T
<1>13. n - 1 \in 0 .. N /\ n \in 0 .. N /\ N \in 0 .. N
  BY <1>1
<1>14. used(n - 1) <= Total(b, 1 .. n - 1)
  BY <1>11, <1>13 DEF good
<1>15. /\ used(n - 1) \in Nat /\ b[n] \in Nat /\ Total(b, 1 .. n - 1) \in Nat
       /\ Total(b, 1 .. N) \in Nat /\ Total(b, 1 .. n) = b[n] + Total(b, 1 .. n - 1)
  BY <1>3, <1>6, <1>7, <1>8, <1>13
<1> HIDE DEF used
<1>16. used(n - 1) + b[n] <= Total(b, 1 .. N)
  BY <1>12, <1>14, <1>15
<1> QED BY <1>3, <1>4, <1>15, <1>16 DEF used

\* Where all pictures fit together, a path is skipped for its picture alone.
LEMMA FitsAlone ==
    ASSUME NEW lim, FilmLimits(lim), NEW K, Album(lim, K), NEW P \in Seq(K),
           NEW f, Loads(lim, f, P, Len(P)), AllBytes(lim, P) <= lim.bytes, NEW n \in 1 .. Len(P)
    PROVE  Skipped(lim, f, P, n) <=> ~Film(lim)!DecodesEach(P[n].picture, 0)
<1> DEFINE p == P[n].picture
           used == Film(lim)!FramesBytes(f[n - 1].frames)
<1>1. AllBytes(lim, P) \in Nat /\ used + Film(lim)!Bytes(p) <= AllBytes(lim, P)
  BY BytesSoFar
<1>2. used \in Nat /\ Film(lim)!Bytes(p) \in Nat /\ lim.bytes \in Nat
  <2>1. \A m \in 1 .. Len(P) : P[m] \in K /\ P[m].picture \in Film(lim)!Pictures
    <3>1. \A m \in 1 .. Len(P) : P[m] \in K
      OBVIOUS
    <3> QED BY <3>1 DEF Album
  <2>2. Loading(lim, f, P, n - 1)
    <3>1. Len(P) \in Nat /\ n - 1 \in 0 .. Len(P)
      OBVIOUS
    <3> QED BY <2>1, <3>1, AllLoading
  <2>3. f[n - 1].frames \in Seq(Film(lim)!Pictures)
    <3> DEFINE t == f[n - 1].frames
    <3>1. t \in Seq(Shown(lim)) /\ Shown(lim) \subseteq Film(lim)!Pictures
      BY <2>2 DEF Loading, Shown
    <3> HIDE DEF t
    <3>2. t \in Seq(Film(lim)!Pictures)
      BY <3>1
    <3> QED BY <3>2 DEF t
  <2>4. used \in Nat
    BY <2>3, BytesNat
  <2> QED BY <2>1, <2>4 DEF Film!Bytes, Film!Pictures, FilmLimits
<1>3. used + Film(lim)!Bytes(p) <= lim.bytes
  <2> HIDE DEF used, p
  <2> QED BY <1>1, <1>2
<1> HIDE DEF used
<1> QED BY <1>3 DEF Skipped, Film!Decodes, Film!DecodesEach, used

\* One load of an animation stays within its limits, and the next one, which leaves out what
\* failed in the first, shows the same frames.
LEMMA Settling ==
    ASSUME NEW lim, FilmLimits(lim), NEW K, Album(lim, K), NEW P \in Seq(K)
    PROVE  Film(lim)!LoadSettles(P)
<1> DEFINE N == Len(P)
           loaded == Film(lim)!LoadFrames(P)
           X == {path \in Film(lim)!Range(P) : path.name \in loaded.failures}
           w == Without(P, X)
           again == Film(lim)!LoadFrames(w)
<1>1. N \in Nat /\ DOMAIN P = 1 .. N /\ (\A n \in 1 .. N : P[n] \in K) /\ lim.count \in Nat
  BY DEF FilmLimits
<1>2. \A n \in 1 .. N : P[n].picture \in Film(lim)!Pictures /\ P[n].name # "<animation>"
  BY <1>1 DEF Album
<1>3. Film(lim)!Range(P) = {P[n] : n \in 1 .. N}
  BY <1>1 DEF Film!Range
<1>4. Film(lim)!Untried(P, loaded.failures) = w
  BY DEF Film!Untried, Film!Without, Without
<1>5. w \in Seq(K) /\ Len(w) \in Nat /\ Len(w) <= N /\ (X = {} => Len(w) = N)
  <2> HIDE DEF X
  <2>1. PICK k : /\ Keeps(k, P, X, N) /\ w = k[N]
                 /\ \A n \in 0 .. N :
                      k[n] \in Seq(K) /\ Len(k[n]) <= n /\ (X = {} => Len(k[n]) = n)
    BY WithoutKeeps
  <2>2. N \in 0 .. N
    BY <1>1
  <2>3. k[N] \in Seq(K) /\ Len(k[N]) <= N /\ (X = {} => Len(k[N]) = N)
    BY <2>1, <2>2
  <2> QED BY <2>1, <2>3
<1>6. CASE N > lim.count
  <2>1. loaded = [frames |-> <<>>, failures |-> {"<animation>"}]
    BY <1>6 DEF Film!LoadFrames
  <2>2. X = {}
    <3> SUFFICES ASSUME NEW path \in X
                 PROVE  FALSE
      OBVIOUS
    <3>1. PICK n \in 1 .. N : path = P[n]
      BY <1>3
    <3>2. path.name \in {"<animation>"}
      BY <2>1
    <3> QED BY <1>2, <3>1, <3>2
  <2>3. Len(w) > lim.count
    BY <1>5, <1>6, <2>2
  <2>4. again.frames = <<>>
    <3> HIDE DEF w
    <3>1. again = [frames |-> <<>>, failures |-> {"<animation>"}]
      BY <2>3 DEF Film!LoadFrames
    <3> QED BY <3>1
  <2>5. loaded.frames = <<>> /\ lim.bytes \in Nat
    BY <2>1 DEF FilmLimits
  <2> HIDE DEF loaded, again, X, w
  <2>6. Film(lim)!FramesBytes(loaded.frames) <= lim.bytes
    BY <2>5, BytesNone
  <2>7. \A n \in DOMAIN loaded.frames : loaded.frames[n].header # "beyond"
    BY <2>5
  <2> QED BY <1>4, <2>4, <2>5, <2>6, <2>7 DEF Film!LoadSettles, loaded, again
<1>7. CASE ~(N > lim.count)
  <2>1. PICK f : Loads(lim, f, P, N) /\ loaded = f[N]
    BY <1>1, <1>7, LoadFramesLoads
  <2>2. PICK g : Loads(lim, g, w, Len(w)) /\ again = g[Len(w)]
    <3> HIDE DEF w
    <3>1. ~(Len(w) > lim.count)
      BY <1>1, <1>5, <1>7
    <3> QED BY <1>1, <1>5, <3>1, LoadFramesLoads
  <2>3. Loading(lim, f, P, N)
    <3>1. N \in 0 .. N
      BY <1>1
    <3> QED BY <1>1, <1>2, <2>1, <3>1, AllLoading
  <2> HIDE DEF loaded, again, X, w, N
  <2>4. Film(lim)!FramesBytes(loaded.frames) <= lim.bytes
    BY <2>1, <2>3 DEF Loading
  <2>5. \A n \in DOMAIN loaded.frames : loaded.frames[n].header # "beyond"
    <3>1. loaded.frames \in Seq(Shown(lim))
      BY <2>1, <2>3 DEF Loading
    <3> QED BY <3>1 DEF Shown
  <2>6. ASSUME ~Film(lim)!CutRepeat(P)
        PROVE  again.frames = loaded.frames
    <3>1. ASSUME NEW n \in 1 .. N, P[n] \in X
          PROVE  Skipped(lim, f, P, n)
      <4>1. P[n].name \in {P[m].name : m \in {m \in 1 .. N : Skipped(lim, f, P, m)}}
        BY <2>1, <2>3, <3>1 DEF Loading, X
      <4>2. PICK m \in 1 .. N : Skipped(lim, f, P, m) /\ P[m].name = P[n].name
        BY <4>1
      <4>3. P[m] = P[n]
        BY <1>1, <4>2 DEF Album
      <4>4. CASE m = n
        BY <4>2, <4>4
      <4>5. CASE m # n
        <5>1. ~(AllBytes(lim, P) > lim.bytes)
          BY <1>1, <2>6, <4>2, <4>5 DEF Film!CutRepeat, AllBytes
        <5>2. AllBytes(lim, P) \in Nat /\ lim.bytes \in Nat
          BY <2>1, BytesSoFar DEF FilmLimits, N
        <5>3. AllBytes(lim, P) <= lim.bytes
          BY <5>1, <5>2
        <5> QED BY <2>1, <4>2, <4>3, <5>3, FitsAlone DEF N
      <4> QED BY <4>4, <4>5
    <3>2. \A path \in K : path.picture \in Film(lim)!Pictures
      BY DEF Album
    <3>3. Loads(lim, f, P, Len(P)) /\ Loads(lim, g, Without(P, X), Len(Without(P, X)))
      BY <2>1, <2>2 DEF N, w
    <3>4. g[Len(Without(P, X))].frames = f[Len(P)].frames
      BY <3>1, <3>2, <3>3, LeavingOut DEF N
    <3> QED BY <2>1, <2>2, <3>4 DEF w, N
  <2> QED BY <1>4, <2>4, <2>5, <2>6 DEF Film!LoadSettles, loaded, again
<1> QED BY <1>6, <1>7

\* No picture under a name of F decodes, even alone.
Undecodable(lim, K, F) ==
    \A path \in K : path.name \in F => ~Film(lim)!DecodesEach(path.picture, 0)

\* Where all pictures of an animation fit together, a load shows the same frames whatever
\* failed before is left out, and what fails in it is undecodable for its own sake.
LEMMA FitLoads ==
    ASSUME NEW lim, FilmLimits(lim), NEW K, Album(lim, K), NEW P \in Seq(K),
           Len(P) <= lim.count, AllBytes(lim, P) <= lim.bytes, NEW F, Undecodable(lim, K, F)
    PROVE  LET rest == Film(lim)!LoadFrames(Film(lim)!Untried(P, F))
           IN  /\ rest.frames = Film(lim)!LoadFrames(P).frames
               /\ rest.frames \in Seq(Film(lim)!Pictures)
               /\ Undecodable(lim, K, F \cup rest.failures)
<1> DEFINE N == Len(P)
           all0 == Film(lim)!LoadFrames(P)
           X == {path \in Film(lim)!Range(P) : path.name \in F}
           w == Without(P, X)
           rest == Film(lim)!LoadFrames(w)
<1>1. N \in Nat /\ DOMAIN P = 1 .. N /\ (\A n \in 1 .. N : P[n] \in K) /\ lim.count \in Nat
  BY DEF FilmLimits
<1>2. \A path \in K : path.picture \in Film(lim)!Pictures
  BY DEF Album
<1>3. \A n \in 1 .. N : P[n].picture \in Film(lim)!Pictures
  BY <1>1, <1>2
<1>4. Film(lim)!Untried(P, F) = w
  BY DEF Film!Untried, Film!Without, Without
<1>5. Len(w) \in Nat /\ Len(w) <= N
  <2> HIDE DEF X
  <2>1. PICK k : w = k[N] /\ \A n \in 0 .. N : k[n] \in Seq(K) /\ Len(k[n]) <= n
    BY WithoutKeeps
  <2>2. N \in 0 .. N
    BY <1>1
  <2>3. k[N] \in Seq(K) /\ Len(k[N]) <= N
    BY <2>1, <2>2
  <2> QED BY <2>1, <2>3
<1>6. PICK f : Loads(lim, f, P, N) /\ all0 = f[N]
  <2>1. ~(N > lim.count)
    BY <1>1
  <2> QED BY <1>1, <2>1, LoadFramesLoads
<1>7. PICK g : Loads(lim, g, w, Len(w)) /\ rest = g[Len(w)]
  <2> HIDE DEF w
  <2>1. ~(Len(w) > lim.count)
    BY <1>1, <1>5
  <2> QED BY <1>1, <1>5, <2>1, LoadFramesLoads
<1>8. Loading(lim, f, P, N)
  <2>1. N \in 0 .. N
    BY <1>1
  <2> QED BY <1>1, <1>3, <1>6, <2>1, AllLoading
<1> HIDE DEF all0, rest, w, N
<1>9. \A n \in 1 .. N : Skipped(lim, f, P, n) <=> ~Film(lim)!DecodesEach(P[n].picture, 0)
  BY <1>6, FitsAlone DEF N
<1>10. ASSUME NEW n \in 1 .. N, P[n] \in X
       PROVE  Skipped(lim, f, P, n)
  <2>1. P[n].name \in F /\ P[n] \in K
    BY <1>1, <1>10
  <2> QED BY <1>9, <2>1 DEF Undecodable
<1> HIDE DEF X
<1>11. Loads(lim, f, P, Len(P)) /\ Loads(lim, g, Without(P, X), Len(Without(P, X)))
  BY <1>6, <1>7 DEF N, w
<1>12. /\ g[Len(Without(P, X))].frames = f[Len(P)].frames
       /\ g[Len(Without(P, X))].failures \subseteq f[Len(P)].failures
  BY <1>2, <1>10, <1>11, LeavingOut DEF N
<1>13. rest.frames = all0.frames /\ rest.failures \subseteq all0.failures
  BY <1>6, <1>7, <1>12 DEF w, N
<1>14. rest.frames \in Seq(Film(lim)!Pictures)
  <2> DEFINE t == f[N].frames
  <2>1. t \in Seq(Shown(lim)) /\ Shown(lim) \subseteq Film(lim)!Pictures
    BY <1>8 DEF Loading, Shown
  <2>2. rest.frames = t
    BY <1>6, <1>13
  <2> HIDE DEF t
  <2>3. t \in Seq(Film(lim)!Pictures)
    BY <2>1
  <2> QED BY <2>2, <2>3
<1>15. Undecodable(lim, K, rest.failures)
  <2> SUFFICES ASSUME NEW path \in K, path.name \in rest.failures
               PROVE  ~Film(lim)!DecodesEach(path.picture, 0)
    BY DEF Undecodable
  <2>1. path.name \in {P[m].name : m \in {m \in 1 .. N : Skipped(lim, f, P, m)}}
    BY <1>6, <1>8, <1>13 DEF Loading
  <2>2. PICK m \in 1 .. N : Skipped(lim, f, P, m) /\ P[m].name = path.name
    BY <2>1
  <2>3. P[m] = path
    BY <1>1, <2>2 DEF Album
  <2> QED BY <1>9, <2>2, <2>3
<1>16. Undecodable(lim, K, F \cup rest.failures)
  BY <1>15 DEF Undecodable
<1> QED BY <1>4, <1>13, <1>14, <1>16 DEF rest, all0

\* Nothing is shown of no paths.
LEMMA NoPaths ==
    ASSUME NEW lim, lim.count \in Nat
    PROVE  Film(lim)!LoadFrames(<<>>).frames = <<>>
<1>1. Len(<<>>) = 0 /\ ~(Len(<<>>) > lim.count)
  OBVIOUS
<1>2. PICK f : Loads(lim, f, <<>>, 0) /\ Film(lim)!LoadFrames(<<>>) = f[0]
  BY <1>1, LoadFramesLoads
<1> QED BY <1>2 DEF Loads

\* What a load yields is determined by its paths.
LEMMA LoadsUnique ==
    ASSUME NEW lim, NEW P, NEW N \in Nat, NEW f, Loads(lim, f, P, N), NEW g, Loads(lim, g, P, N)
    PROVE  f[N] = g[N]
<1> DEFINE good == {n \in 0 .. N : f[n] = g[n]}
<1>1. 0 \in good
  BY DEF Loads
<1>2. ASSUME NEW n \in 1 .. N, n - 1 \in good
      PROVE  n \in good
  <2>1. n \in 0 .. N /\ n # 0 /\ f[n - 1] = g[n - 1]
    BY <1>2
  <2>2. f[n] = Film(lim)!LoadOne(f[n - 1], P[n]) /\ g[n] = Film(lim)!LoadOne(g[n - 1], P[n])
    BY <2>1 DEF Loads
  <2> QED BY <2>1, <2>2
<1> HIDE DEF good
<1>3. \A n \in 0 .. N : n \in good
  BY <1>1, <1>2, UpTo
<1> QED BY <1>3 DEF good

-----------------------------------------------------------------------------
(* What is left of an order, key by key.                                   *)

LEMMA KeepsNone ==
    ASSUME NEW s, NEW X, NEW N \in Nat, NEW k, Keeps(k, s, X, N)
    PROVE  k[0] = <<>>
BY 0 \in 0 .. N DEF Keeps

LEMMA KeepsAt ==
    ASSUME NEW s, NEW X, NEW N \in Nat, NEW k, Keeps(k, s, X, N), NEW n \in 1 .. N
    PROVE  k[n] = IF s[n] \in X THEN k[n - 1] ELSE Append(k[n - 1], s[n])
<1>1. \A m \in 0 .. N : k[m] = IF m = 0 THEN <<>>
                               ELSE IF s[m] \in X THEN k[m - 1] ELSE Append(k[m - 1], s[m])
  BY DEF Keeps
<1>2. n \in 0 .. N /\ n # 0
  OBVIOUS
<1> QED BY <1>1, <1>2

\* One key less: those after it move up.
LEMMA WithoutOne ==
    ASSUME NEW K, NEW s \in Seq(K), Distinct(s), NEW i \in 1 .. Len(s)
    PROVE  LET w == Without(s, {s[i]})
           IN  /\ w \in Seq(K) /\ Len(w) = Len(s) - 1
               /\ \A m \in 1 .. Len(w) : w[m] = IF m < i THEN s[m] ELSE s[m + 1]
<1> DEFINE N == Len(s)
           X == {s[i]}
           w == Without(s, X)
<1>1. N \in Nat /\ i \in 1 .. N /\ DOMAIN s = 1 .. N
  OBVIOUS
<1>2. PICK k : /\ Keeps(k, s, X, N) /\ w = k[N]
               /\ \A n \in 0 .. N : k[n] \in Seq(K) /\ Len(k[n]) <= n
  BY WithoutKeeps
<1>3. ASSUME NEW n \in 1 .. N
      PROVE  s[n] \in X <=> n = i
  <2>1. s[n] \in X <=> s[n] = s[i]
    OBVIOUS
  <2>2. n \in DOMAIN s /\ i \in DOMAIN s
    BY <1>1
  <2> HIDE DEF X, N
  <2> QED BY <2>1, <2>2 DEF Distinct
<1>4. k[0] = <<>> /\ \A n \in 1 .. N : k[n] = IF s[n] \in X THEN k[n - 1] ELSE Append(k[n - 1], s[n])
  <2> HIDE DEF X, N
  <2> QED BY <1>1, <1>2, KeepsAt, KeepsNone
<1> HIDE DEF X, w
<1> DEFINE fits(v, n) == /\ Len(v) = IF n < i THEN n ELSE n - 1
                         /\ \A m \in 1 .. Len(v) : v[m] = IF m < i THEN s[m] ELSE s[m + 1]
           good == {n \in 0 .. N : fits(k[n], n)}
<1>5. 0 \in good
  BY <1>1, <1>4
<1>6. ASSUME NEW n \in 1 .. N, n - 1 \in good
      PROVE  n \in good
  <2> DEFINE v == k[n - 1]
  <2>1. n \in Nat /\ n - 1 \in 0 .. N /\ n \in 0 .. N
    BY <1>1
  <2>2. fits(v, n - 1) /\ v \in Seq(K) /\ s[n] \in K
    BY <1>2, <1>6, <2>1
  <2> HIDE DEF v
  <2>3. CASE n = i
    <3>1. k[n] = v
      BY <1>3, <1>4, <2>3 DEF v
    <3>2. fits(v, n)
      BY <1>1, <2>1, <2>2, <2>3
    <3> QED BY <2>1, <3>1, <3>2
  <2>4. CASE n # i
    <3>1. k[n] = Append(v, s[n])
      BY <1>3, <1>4, <2>4 DEF v
    <3> DEFINE u == Append(v, s[n])
    <3>2. /\ Len(u) = Len(v) + 1 /\ u[Len(v) + 1] = s[n]
          /\ \A m \in 1 .. Len(v) : u[m] = v[m]
      BY <2>2, AppendProperties
    <3>3. Len(v) \in Nat
      BY <2>2
    <3> HIDE DEF u
    <3>4. Len(u) = IF n < i THEN n ELSE n - 1
      BY <1>1, <2>1, <2>2, <2>4, <3>2, <3>3
    <3>5. ASSUME NEW m \in 1 .. Len(u)
          PROVE  u[m] = IF m < i THEN s[m] ELSE s[m + 1]
      <4>1. CASE m \in 1 .. Len(v)
        BY <2>2, <3>2, <4>1
      <4>2. CASE m \notin 1 .. Len(v)
        <5>1. m = Len(v) + 1
          BY <3>2, <3>3, <4>2
        <5>2. n = IF m < i THEN m ELSE m + 1
          BY <1>1, <2>1, <2>2, <2>4, <3>3, <5>1
        <5> QED BY <3>2, <5>1, <5>2
      <4> QED BY <4>1, <4>2
    <3> QED BY <2>1, <3>1, <3>4, <3>5 DEF u
  <2> QED BY <2>3, <2>4
<1> HIDE DEF good
<1>7. \A n \in 0 .. N : n \in good
  BY <1>1, <1>5, <1>6, UpTo
<1>8. N \in good /\ N \in 0 .. N /\ ~(N < i)
  BY <1>1, <1>7
<1> QED BY <1>2, <1>8 DEF good, w, X

\* No key less.
LEMMA WithoutNone ==
    ASSUME NEW K, NEW s \in Seq(K), NEW X, ToSet(s) \cap X = {}
    PROVE  Without(s, X) = s
<1> DEFINE N == Len(s)
           w == Without(s, X)
<1>1. N \in Nat /\ DOMAIN s = 1 .. N
  OBVIOUS
<1>2. PICK k : /\ Keeps(k, s, X, N) /\ w = k[N]
               /\ \A n \in 0 .. N : k[n] \in Seq(K) /\ Len(k[n]) <= n
  BY WithoutKeeps
<1>3. \A n \in 1 .. N : s[n] \notin X
  BY <1>1 DEF ToSet
<1>4. k[0] = <<>> /\ \A n \in 1 .. N : k[n] = Append(k[n - 1], s[n])
  <2> HIDE DEF N
  <2>1. k[0] = <<>> /\ \A n \in 1 .. N : k[n] = IF s[n] \in X THEN k[n - 1] ELSE Append(k[n - 1], s[n])
    BY <1>1, <1>2, KeepsAt, KeepsNone
  <2> QED BY <1>3, <2>1
<1> HIDE DEF w
<1> DEFINE fits(v, n) == Len(v) = n /\ \A m \in 1 .. n : v[m] = s[m]
           good == {n \in 0 .. N : fits(k[n], n)}
<1>5. 0 \in good
  BY <1>1, <1>4
<1>6. ASSUME NEW n \in 1 .. N, n - 1 \in good
      PROVE  n \in good
  <2> DEFINE v == k[n - 1]
  <2>1. n \in Nat /\ n - 1 \in 0 .. N /\ n \in 0 .. N
    BY <1>1
  <2>2. fits(v, n - 1) /\ v \in Seq(K) /\ s[n] \in K /\ k[n] = Append(v, s[n])
    <3>1. fits(v, n - 1)
      BY <1>6
    <3>2. v \in Seq(K)
      BY <1>2, <2>1
    <3>3. s[n] \in K
      OBVIOUS
    <3>4. k[n] = Append(v, s[n])
      BY <1>4
    <3> QED BY <3>1, <3>2, <3>3, <3>4
  <2> HIDE DEF v
  <2>3. /\ Len(Append(v, s[n])) = Len(v) + 1 /\ Append(v, s[n])[Len(v) + 1] = s[n]
        /\ \A m \in 1 .. Len(v) : Append(v, s[n])[m] = v[m]
    BY <2>2, AppendProperties
  <2>4. fits(k[n], n)
    BY <2>1, <2>2, <2>3
  <2> QED BY <2>1, <2>4
<1> HIDE DEF good
<1>7. \A n \in 0 .. N : n \in good
  BY <1>1, <1>5, <1>6, UpTo
<1>8. fits(w, N) /\ w \in Seq(K)
  <2>1. N \in 0 .. N
    BY <1>1
  <2> QED BY <1>2, <1>7, <2>1 DEF good
<1>9. w = s
  BY <1>1, <1>8
<1> QED BY <1>9 DEF w

LEMMA KeepsAgree ==
    ASSUME NEW s, NEW t, NEW X, NEW N \in Nat, NEW M \in Nat, N <= M, NEW k, NEW l,
           Keeps(k, s, X, N), Keeps(l, t, X, M), \A n \in 1 .. N : s[n] = t[n]
    PROVE  \A n \in 0 .. N : k[n] = l[n]
<1> DEFINE good == {n \in 0 .. N : k[n] = l[n]}
<1>1. /\ \A n \in 1 .. N : k[n] = IF s[n] \in X THEN k[n - 1] ELSE Append(k[n - 1], s[n])
      /\ \A n \in 1 .. M : l[n] = IF t[n] \in X THEN l[n - 1] ELSE Append(l[n - 1], t[n])
  <2>1. \A n \in 1 .. N : k[n] = IF s[n] \in X THEN k[n - 1] ELSE Append(k[n - 1], s[n])
    BY KeepsAt
  <2>2. \A n \in 1 .. M : l[n] = IF t[n] \in X THEN l[n - 1] ELSE Append(l[n - 1], t[n])
    BY KeepsAt
  <2> QED BY <2>1, <2>2
<1>2. 0 \in good
  BY KeepsNone
<1>3. ASSUME NEW n \in 1 .. N, n - 1 \in good
      PROVE  n \in good
  <2>1. n \in 1 .. M /\ n \in 0 .. N /\ s[n] = t[n]
    OBVIOUS
  <2>2. k[n - 1] = l[n - 1]
    BY <1>3
  <2> QED BY <1>1, <2>1, <2>2
<1> HIDE DEF good
<1>4. \A n \in 0 .. N : n \in good
  BY <1>2, <1>3, UpTo
<1> QED BY <1>4 DEF good

LEMMA WithoutIs ==
    ASSUME NEW s, NEW X, NEW k, Len(s) \in Nat, Keeps(k, s, X, Len(s))
    PROVE  Without(s, X) = k[Len(s)]
<1> DEFINE l == CHOOSE kept : Keeps(kept, s, X, Len(s))
<1>1. Keeps(l, s, X, Len(s))
  OBVIOUS
<1>2. Without(s, X) = l[Len(s)]
  BY DEF Without, Keeps
<1> HIDE DEF l
<1>3. Len(s) \in 0 .. Len(s)
  OBVIOUS
<1> QED BY <1>1, <1>2, <1>3, KeepsAgree

LEMMA WithoutAppend ==
    ASSUME NEW K, NEW s \in Seq(K), NEW X, NEW e \in K
    PROVE  Without(Append(s, e), X) = IF e \in X THEN Without(s, X) ELSE Append(Without(s, X), e)
<1> DEFINE N == Len(s)
           t == Append(s, e)
<1>1. N \in Nat /\ Len(t) = N + 1 /\ t[N + 1] = e /\ \A n \in 1 .. N : t[n] = s[n]
  BY AppendProperties
<1> HIDE DEF N, t
<1>2. PICK k : Keeps(k, s, X, N)
  BY <1>1, KeepsExists
<1>3. PICK l : Keeps(l, t, X, N + 1)
  <2>1. N + 1 \in Nat
    BY <1>1
  <2> QED BY <2>1, KeepsExists
<1>4. N + 1 \in Nat /\ N <= N + 1 /\ N \in 0 .. N /\ N + 1 \in 1 .. N + 1 /\ N + 1 - 1 = N
  BY <1>1
<1>5. k[N] = l[N]
  <2>1. \A n \in 1 .. N : s[n] = t[n]
    BY <1>1
  <2>2. \A n \in 0 .. N : k[n] = l[n]
    BY <1>1, <1>2, <1>3, <1>4, <2>1, KeepsAgree
  <2> QED BY <1>4, <2>2
<1>6. l[N + 1] = IF e \in X THEN l[N] ELSE Append(l[N], e)
  BY <1>1, <1>3, <1>4, KeepsAt, KeepsNone
<1>7. Without(s, X) = k[N]
  BY <1>1, <1>2, WithoutIs DEF N
<1>8. Without(t, X) = l[N + 1]
  BY <1>1, <1>3, <1>4, WithoutIs
<1> QED BY <1>5, <1>6, <1>7, <1>8 DEF t

LEMMA WithoutEmpty ==
    ASSUME NEW X
    PROVE  Without(<<>>, X) = <<>>
<1> DEFINE s == <<>>
<1>1. Len(s) = 0 /\ 0 \in Nat
  OBVIOUS
<1> HIDE DEF s
<1>2. PICK k : Keeps(k, s, X, 0)
  BY <1>1, KeepsExists
<1>3. k[0] = <<>>
  BY <1>1, <1>2, KeepsAt, KeepsNone
<1>4. Without(s, X) = k[0]
  <2>1. Keeps(k, s, X, Len(s)) /\ Len(s) \in Nat
    BY <1>1, <1>2
  <2>2. Without(s, X) = k[Len(s)]
    BY <2>1, WithoutIs
  <2> QED BY <1>1, <2>2
<1> QED BY <1>3, <1>4 DEF s

\* What is taken out in turn.
LEMMA WithoutTwice ==
    ASSUME NEW K, NEW s \in Seq(K), NEW X, NEW x
    PROVE  Without(Without(s, X), {x}) = Without(s, X \cup {x})
<1> DEFINE N == Len(s)
           Y == X \cup {x}
<1>1. N \in Nat /\ \A n \in 1 .. N : s[n] \in K
  OBVIOUS
<1>2. PICK k : /\ Keeps(k, s, X, N) /\ Without(s, X) = k[N]
               /\ \A n \in 0 .. N : k[n] \in Seq(K)
  BY WithoutKeeps
<1>3. PICK l : /\ Keeps(l, s, Y, N) /\ Without(s, Y) = l[N]
  BY WithoutKeeps
<1> DEFINE good == {n \in 0 .. N : Without(k[n], {x}) = l[n]}
<1> HIDE DEF N
<1>4. /\ k[0] = <<>> /\ l[0] = <<>>
      /\ \A n \in 1 .. N : k[n] = IF s[n] \in X THEN k[n - 1] ELSE Append(k[n - 1], s[n])
      /\ \A n \in 1 .. N : l[n] = IF s[n] \in Y THEN l[n - 1] ELSE Append(l[n - 1], s[n])
  <2> HIDE DEF Y
  <2>1. /\ k[0] = <<>>
        /\ \A n \in 1 .. N : k[n] = IF s[n] \in X THEN k[n - 1] ELSE Append(k[n - 1], s[n])
    <3>1. Keeps(k, s, X, N) /\ N \in Nat
      BY <1>1, <1>2
    <3>2. k[0] = <<>>
      BY ONLY <3>1, KeepsNone
    <3>3. ASSUME NEW n \in 1 .. N
          PROVE  k[n] = IF s[n] \in X THEN k[n - 1] ELSE Append(k[n - 1], s[n])
      BY <3>1, KeepsAt
    <3> QED BY <3>2, <3>3
  <2>2. /\ l[0] = <<>>
        /\ \A n \in 1 .. N : l[n] = IF s[n] \in Y THEN l[n - 1] ELSE Append(l[n - 1], s[n])
    <3>1. Keeps(l, s, Y, N) /\ N \in Nat
      BY <1>1, <1>3
    <3>2. l[0] = <<>>
      BY ONLY <3>1, KeepsNone
    <3>3. ASSUME NEW n \in 1 .. N
          PROVE  l[n] = IF s[n] \in Y THEN l[n - 1] ELSE Append(l[n - 1], s[n])
      BY <3>1, KeepsAt
    <3> QED BY <3>2, <3>3
  <2> QED BY <2>1, <2>2
<1>5. 0 \in good
  BY <1>1, <1>4, WithoutEmpty
<1>6. ASSUME NEW n \in 1 .. N, n - 1 \in good
      PROVE  n \in good
  <2> DEFINE v == k[n - 1]
             e == s[n]
  <2>1. n \in 0 .. N /\ n - 1 \in 0 .. N
    BY <1>1
  <2>2. v \in Seq(K) /\ e \in K /\ Without(v, {x}) = l[n - 1]
    BY <1>1, <1>2, <1>6, <2>1
  <2>3. k[n] = (IF e \in X THEN v ELSE Append(v, e))
    BY <1>4
  <2>4. l[n] = IF e \in X \/ e = x THEN l[n - 1] ELSE Append(l[n - 1], e)
    BY <1>4
  <2> HIDE DEF v, e
  <2>5. Without(Append(v, e), {x}) = IF e = x THEN Without(v, {x}) ELSE Append(Without(v, {x}), e)
    <3>1. Without(Append(v, e), {x}) = IF e \in {x} THEN Without(v, {x})
                                       ELSE Append(Without(v, {x}), e)
      BY <2>2, WithoutAppend
    <3> QED BY <3>1
  <2>6. Without(k[n], {x}) = l[n]
    BY <2>2, <2>3, <2>4, <2>5
  <2> QED BY <2>1, <2>6
<1> HIDE DEF good
<1>7. N \in good
  <2>1. \A n \in 0 .. N : n \in good
    BY <1>1, <1>5, <1>6, UpTo
  <2> QED BY <1>1, <2>1
<1> QED BY <1>2, <1>3, <1>7 DEF good, Y

-----------------------------------------------------------------------------
(* The documents of a configuration                                        *)

LEMMA BookBasics ==
    ASSUME NEW lib
    PROVE  /\ \A s : Book(lib)!Range(s) = ToSet(s)
           /\ \A s, X : Book(lib)!Without(s, X) = Without(s, X)
           /\ \A s : Book(lib)!Ids(s) = {e.id : e \in ToSet(s)}
           /\ Book(lib)!Modules = ToSet(lib.names)
<1>1. \A s : Book(lib)!Range(s) = ToSet(s)
  BY DEF Book!Range, ToSet
<1>2. \A s, X : Book(lib)!Without(s, X) = Without(s, X)
  BY DEF Book!Without, Without
<1> QED
  BY <1>1, <1>2 DEF Book!Ids, Book!Modules

\* Entries of which no two have one id, and the ids and entries that remain when incoming
\* is put over base.
LEMMA NewToIs ==
    ASSUME NEW lib, NEW E, NEW s \in Seq(E), NEW known
    PROVE  LET t == Book(lib)!NewTo(known, s)
           IN  /\ t \in Seq(E)
               /\ ToSet(t) = {e \in ToSet(s) : e.id \notin known}
               /\ Book(lib)!Distinct(s) => Book(lib)!Distinct(t)
<1> DEFINE X == {e \in ToSet(s) : e.id \in known}
           t == Without(s, X)
<1>1. Book(lib)!NewTo(known, s) = t
  <2> DEFINE Y == {e \in Book(lib)!Range(s) : e.id \in known}
  <2>1. Book(lib)!NewTo(known, s) = Book(lib)!Without(s, Y)
    BY DEF Book!NewTo
  <2>2. Y = X
    BY BookBasics
  <2> HIDE DEF X, Y
  <2> QED BY <2>1, <2>2, BookBasics
<1>2. /\ t \in Seq(E)
      /\ ToSet(t) = ToSet(s) \ X
  BY WithoutProperties
<1>3. PICK at : Places(t, s, X, Len(s), at)
  BY WithoutPlaces
<1>4. Book(lib)!Distinct(s) => Book(lib)!Distinct(t)
  <2> HIDE DEF t, X
  <2> SUFFICES ASSUME Book(lib)!Distinct(s), NEW i \in DOMAIN t, NEW j \in DOMAIN t, t[i].id = t[j].id
               PROVE  i = j
    BY DEF Book!Distinct
  <2>1. i \in 1 .. Len(t) /\ j \in 1 .. Len(t) /\ Len(t) \in Nat
    BY <1>2
  <2>2. t[i] = s[at[i]] /\ t[j] = s[at[j]] /\ at[i] \in DOMAIN s /\ at[j] \in DOMAIN s
    BY <1>3, <2>1 DEF Places
  <2>3. at[i] = at[j] /\ at[i] \in Int
    BY <2>2 DEF Book!Distinct
  <2> QED BY <1>3, <2>1, <2>3 DEF Places
<1>5. ToSet(t) = {e \in ToSet(s) : e.id \notin known}
  BY <1>2
<1> QED BY <1>1, <1>2, <1>4, <1>5

LEMMA EntryOfIs ==
    ASSUME NEW lib, NEW s
    PROVE  /\ \A id \in Book(lib)!Ids(s) :
                Book(lib)!EntryOf(s, id) \in ToSet(s) /\ Book(lib)!EntryOf(s, id).id = id
           /\ \A e \in ToSet(s) : e.id \in Book(lib)!Ids(s)
           /\ Book(lib)!Distinct(s) =>
                /\ \A e \in ToSet(s), d \in ToSet(s) : e.id = d.id => e = d
                /\ \A e \in ToSet(s) : Book(lib)!EntryOf(s, e.id) = e
<1>1. ASSUME NEW id \in Book(lib)!Ids(s)
      PROVE  Book(lib)!EntryOf(s, id) \in ToSet(s) /\ Book(lib)!EntryOf(s, id).id = id
  <2>1. \E e \in ToSet(s) : e.id = id
    <3>1. id \in {e.id : e \in ToSet(s)}
      BY <1>1, BookBasics, Zenon
    <3> QED BY <3>1
  <2>2. Book(lib)!EntryOf(s, id) = CHOOSE e \in ToSet(s) : e.id = id
    BY BookBasics DEF Book!EntryOf
  <2> QED BY <2>1, <2>2
<1>2. \A e \in ToSet(s) : e.id \in Book(lib)!Ids(s)
  BY BookBasics
<1>3. ASSUME Book(lib)!Distinct(s), NEW e \in ToSet(s), NEW d \in ToSet(s), e.id = d.id
      PROVE  e = d
  <2>1. PICK i \in DOMAIN s : e = s[i]
    BY DEF ToSet
  <2>2. PICK j \in DOMAIN s : d = s[j]
    BY DEF ToSet
  <2> QED BY <1>3, <2>1, <2>2 DEF Book!Distinct
<1> QED BY <1>1, <1>2, <1>3

\* Two sequences of entries behind one another.
LEMMA Joined ==
    ASSUME NEW lib, NEW E, NEW a \in Seq(E), NEW b \in Seq(E)
    PROVE  /\ a \o b \in Seq(E) /\ ToSet(a \o b) = ToSet(a) \cup ToSet(b)
           /\ (/\ Book(lib)!Distinct(a) /\ Book(lib)!Distinct(b)
               /\ Book(lib)!Ids(a) \cap Book(lib)!Ids(b) = {})
                => Book(lib)!Distinct(a \o b)
<1> DEFINE t == a \o b
<1>1. Len(a) \in Nat /\ Len(b) \in Nat /\ DOMAIN a = 1 .. Len(a) /\ DOMAIN b = 1 .. Len(b)
  OBVIOUS
<1>2. /\ t \in Seq(E) /\ DOMAIN t = 1 .. Len(a) + Len(b)
      /\ \A i \in 1 .. Len(a) + Len(b) : t[i] = IF i <= Len(a) THEN a[i] ELSE b[i - Len(a)]
  BY ConcatProperties
<1> HIDE DEF t
<1>3. \A i \in DOMAIN a : i \in DOMAIN t /\ t[i] = a[i]
  BY <1>1, <1>2
<1>4. \A i \in DOMAIN b : Len(a) + i \in DOMAIN t /\ t[Len(a) + i] = b[i]
  BY <1>1, <1>2
<1>5. \A k \in DOMAIN t : \/ k \in DOMAIN a /\ t[k] = a[k]
                          \/ k - Len(a) \in DOMAIN b /\ t[k] = b[k - Len(a)]
  BY <1>1, <1>2
<1>6. ToSet(t) = ToSet(a) \cup ToSet(b)
  BY <1>3, <1>4, <1>5 DEF ToSet
<1>7. ASSUME Book(lib)!Distinct(a), Book(lib)!Distinct(b),
             Book(lib)!Ids(a) \cap Book(lib)!Ids(b) = {}
      PROVE  Book(lib)!Distinct(t)
  <2> SUFFICES ASSUME NEW i \in DOMAIN t, NEW j \in DOMAIN t, t[i].id = t[j].id
               PROVE  i = j
    BY DEF Book!Distinct
  <2>1. \A k \in DOMAIN a : a[k].id \in Book(lib)!Ids(a)
    BY EntryOfIs DEF ToSet
  <2>2. \A k \in DOMAIN b : b[k].id \in Book(lib)!Ids(b)
    BY EntryOfIs DEF ToSet
  <2>3. CASE i \in DOMAIN a /\ t[i] = a[i] /\ j \in DOMAIN a /\ t[j] = a[j]
    BY <1>7, <2>3 DEF Book!Distinct
  <2>4. CASE /\ i - Len(a) \in DOMAIN b /\ t[i] = b[i - Len(a)]
             /\ j - Len(a) \in DOMAIN b /\ t[j] = b[j - Len(a)]
    <3>1. i - Len(a) = j - Len(a)
      BY <1>7, <2>4 DEF Book!Distinct
    <3> QED BY <1>1, <1>2, <3>1
  <2> QED BY <1>5, <1>7, <2>1, <2>2, <2>3, <2>4
<1> QED BY <1>2, <1>6, <1>7 DEF t

\* The last definition of an id wins.
LEMMA MergedEntriesAre ==
    ASSUME NEW lib, NEW E, NEW base \in Seq(E), NEW incoming \in Seq(E),
           Book(lib)!Distinct(base), Book(lib)!Distinct(incoming)
    PROVE  LET t == Book(lib)!MergedEntries(base, incoming)
           IN  /\ t \in Seq(E) /\ Book(lib)!Distinct(t)
               /\ ToSet(t) = {e \in ToSet(base) : e.id \notin Book(lib)!Ids(incoming)}
                             \cup ToSet(incoming)
<1> DEFINE new   == Book(lib)!NewTo(Book(lib)!Ids(base), incoming)
           front == [i \in DOMAIN base |->
                       IF base[i].id \in Book(lib)!Ids(incoming)
                       THEN Book(lib)!EntryOf(incoming, base[i].id) ELSE base[i]]
           t == Book(lib)!MergedEntries(base, incoming)
<1>1. /\ new \in Seq(E) /\ Book(lib)!Distinct(new)
      /\ ToSet(new) = {e \in ToSet(incoming) : e.id \notin Book(lib)!Ids(base)}
  BY NewToIs
<1>2. /\ DOMAIN front = 1 .. Len(base) /\ Len(base) \in Nat
      /\ \A i \in DOMAIN base : front[i] \in E /\ front[i].id = base[i].id
  <2> SUFFICES ASSUME NEW i \in DOMAIN base
               PROVE  front[i] \in E /\ front[i].id = base[i].id
    OBVIOUS
  <2>1. base[i] \in E
    OBVIOUS
  <2>2. \A e \in ToSet(incoming) : e \in E
    BY DEF ToSet
  <2> QED BY <2>1, <2>2, EntryOfIs
<1>3. front \in Seq(E) /\ Len(front) = Len(base)
  BY <1>2
<1>4. t = front \o new
  BY DEF Book!MergedEntries
<1>5. Book(lib)!Distinct(front) /\ Book(lib)!Ids(front) \cap Book(lib)!Ids(new) = {}
  <2>1. DOMAIN front = DOMAIN base /\ \A i \in DOMAIN base : front[i].id = base[i].id
    BY <1>2
  <2>2. \A i \in DOMAIN base : base[i].id \in Book(lib)!Ids(base)
    BY EntryOfIs DEF ToSet
  <2> HIDE DEF front, new
  <2>3. Book(lib)!Distinct(front)
    BY <2>1 DEF Book!Distinct
  <2>4. \A e \in ToSet(front) : e.id \in Book(lib)!Ids(base)
    BY <2>1, <2>2 DEF ToSet
  <2>5. Book(lib)!Ids(front) = {e.id : e \in ToSet(front)} /\ Book(lib)!Ids(new) = {e.id : e \in ToSet(new)}
    BY BookBasics
  <2> QED BY <1>1, <2>3, <2>4, <2>5
<1>6. t \in Seq(E) /\ Book(lib)!Distinct(t) /\ ToSet(t) = ToSet(front) \cup ToSet(new)
  <2> HIDE DEF front, new, t
  <2> QED BY <1>1, <1>3, <1>4, <1>5, Joined
<1>7. ToSet(front) = {e \in ToSet(base) : e.id \notin Book(lib)!Ids(incoming)}
                      \cup {e \in ToSet(incoming) : e.id \in Book(lib)!Ids(base)}
  <2>1. ASSUME NEW i \in DOMAIN base
        PROVE  \/ base[i].id \notin Book(lib)!Ids(incoming) /\ front[i] = base[i]
               \/ /\ front[i] \in ToSet(incoming) /\ front[i].id \in Book(lib)!Ids(base)
    <3>1. base[i].id \in Book(lib)!Ids(base)
      BY EntryOfIs DEF ToSet
    <3> QED BY <1>2, <3>1, EntryOfIs
  <2>2. ASSUME NEW e \in ToSet(incoming), e.id \in Book(lib)!Ids(base)
        PROVE  \E i \in DOMAIN base : front[i] = e
    <3>1. PICK d \in ToSet(base) : d.id = e.id
      BY <2>2, BookBasics
    <3>2. PICK i \in DOMAIN base : base[i].id = e.id
      BY <3>1 DEF ToSet
    <3>3. front[i] = Book(lib)!EntryOf(incoming, e.id)
      BY <3>2, EntryOfIs
    <3> QED BY <3>2, <3>3, EntryOfIs
  <2>3. \A e \in ToSet(base) : e.id \notin Book(lib)!Ids(incoming) => \E i \in DOMAIN base : front[i] = e
    BY DEF ToSet
  <2>4. DOMAIN front = DOMAIN base
    OBVIOUS
  <2>5. \A i \in DOMAIN base : base[i] \in ToSet(base)
    BY DEF ToSet
  <2> HIDE DEF front
  <2>6. ToSet(front) = {front[i] : i \in DOMAIN base}
    BY <2>4 DEF ToSet
  <2> QED BY <2>1, <2>2, <2>3, <2>5, <2>6
<1>8. ToSet(t) = {e \in ToSet(base) : e.id \notin Book(lib)!Ids(incoming)} \cup ToSet(incoming)
  BY <1>1, <1>6, <1>7
<1> QED BY <1>6, <1>8

\* What merge_config has after each of the first N modules.
Layers(lib, f, root, modules, N) ==
    f = [n \in 0 .. N |->
           IF n > 0 THEN Book(lib)!Layered(f[n - 1], modules[lib.names[n]])
           ELSE IF Book(lib)!Distinct(root.entries) THEN root
           ELSE lib.failed]

LEMMA LayersExist ==
    ASSUME NEW lib, NEW root, NEW modules, NEW N \in Nat
    PROVE  \E f : Layers(lib, f, root, modules, N)
<1> DEFINE good == {n \in 0 .. N : \E f : Layers(lib, f, root, modules, n)}
           start == IF Book(lib)!Distinct(root.entries) THEN root ELSE lib.failed
           Next(k, n) == Book(lib)!Layered(k[n - 1], modules[lib.names[n]])
<1>1. 0 \in good
  <2> DEFINE f == [m \in 0 .. 0 |-> start]
  <2>1. Layers(lib, f, root, modules, 0)
    <3>1. \A m \in 0 .. 0 : m = 0 /\ ~(m > 0)
      OBVIOUS
    <3> QED BY <3>1 DEF Layers
  <2> QED BY <2>1
<1>2. ASSUME NEW n \in 1 .. N, n - 1 \in good
      PROVE  n \in good
  <2>1. n \in Nat /\ n > 0 /\ n \in 0 .. N
    OBVIOUS
  <2>2. PICK k : Layers(lib, k, root, modules, n - 1)
    BY <1>2
  <2> DEFINE last == Next(k, n)
             g == [m \in 0 .. n |-> IF m = n THEN last ELSE k[m]]
  <2>3. \A m \in 0 .. n - 1 : k[m] = IF m > 0 THEN Next(k, m) ELSE start
    BY <2>2 DEF Layers
  <2>4. \A m \in 0 .. n - 1 : g[m] = k[m]
    BY <2>1
  <2>5. g[n] = last
    BY <2>1
  <2>6. ASSUME NEW m \in 0 .. n
        PROVE  g[m] = IF m > 0 THEN Next(g, m) ELSE start
    <3>1. CASE m = n
      <4>1. n - 1 \in 0 .. n - 1 /\ g[n - 1] = k[n - 1]
        BY <2>1, <2>4
      <4> HIDE DEF g
      <4> QED BY <2>1, <2>5, <3>1, <4>1
    <3>2. CASE m # n
      <4>1. m \in 0 .. n - 1 /\ (m > 0 => m - 1 \in 0 .. n - 1)
        BY <2>1, <3>2
      <4>2. m > 0 => g[m - 1] = k[m - 1]
        BY <2>4, <4>1
      <4>3. g[m] = IF m > 0 THEN Next(k, m) ELSE start
        <5> HIDE DEF g, Next, start
        <5> QED BY <2>3, <2>4, <4>1
      <4> HIDE DEF g
      <4> QED BY <4>2, <4>3
    <3> QED BY <3>1, <3>2
  <2>7. g = [m \in 0 .. n |-> g[m]]
    OBVIOUS
  <2>8. Layers(lib, g, root, modules, n)
    <3> HIDE DEF g
    <3> QED BY <2>6, <2>7 DEF Layers
  <2> HIDE DEF g
  <2> QED BY <2>1, <2>8
<1> HIDE DEF good
<1>3. N \in good
  BY <1>1, <1>2, UpTo
<1> QED BY <1>3 DEF good

LEMMA MergeIsLayers ==
    ASSUME NEW lib, NEW root, NEW modules, Len(lib.names) \in Nat
    PROVE  \E f : /\ Layers(lib, f, root, modules, Len(lib.names))
                  /\ Book(lib)!Merge(root, modules) =
                       IF f[Len(lib.names)] # lib.failed /\ Book(lib)!Valid(f[Len(lib.names)])
                       THEN f[Len(lib.names)] ELSE lib.failed
<1> DEFINE f == CHOOSE g : Layers(lib, g, root, modules, Len(lib.names))
<1>1. Layers(lib, f, root, modules, Len(lib.names))
  BY LayersExist
<1>2. Book(lib)!Merge(root, modules) =
        IF f[Len(lib.names)] # lib.failed /\ Book(lib)!Valid(f[Len(lib.names)])
        THEN f[Len(lib.names)] ELSE lib.failed
  BY DEF Book!Merge, Layers
<1> QED BY <1>1, <1>2

LEMMA OverriddenIs ==
    ASSUME NEW lib, Book(lib)!Wellformed, NEW s \in lib.settings,
           NEW over \in Book(lib)!Parts \cup {lib.noSection}
    PROVE  /\ Book(lib)!Overridden(s, over) \in lib.settings
           /\ over # lib.noSection =>
                Book(lib)!Overridden(s, over)
                  = [f \in DOMAIN s |-> IF f \in DOMAIN over THEN over[f] ELSE s[f]]
<1>1. CASE over = lib.noSection
  BY <1>1 DEF Book!Overridden
<1>2. CASE over # lib.noSection
  <2>1. PICK t \in lib.settings :
           over \in {Book(lib)!Restrict(t, fields) : fields \in SUBSET DOMAIN t}
    BY <1>2 DEF Book!Parts
  <2>5. PICK fields \in SUBSET DOMAIN t : over = Book(lib)!Restrict(t, fields)
    BY <2>1
  <2>2. over = [f \in fields |-> t[f]]
    BY <2>5 DEF Book!Restrict
  <2>3. [f \in DOMAIN s |-> IF f \in fields THEN t[f] ELSE s[f]] \in lib.settings
    BY DEF Book!Wellformed
  <2>4. [f \in DOMAIN s |-> IF f \in DOMAIN over THEN over[f] ELSE s[f]]
          = [f \in DOMAIN s |-> IF f \in fields THEN t[f] ELSE s[f]]
    BY <2>2
  <2> QED BY <1>2, <2>3, <2>4 DEF Book!Overridden
<1> QED BY <1>1, <1>2

-----------------------------------------------------------------------------
\* The documents a program may have loaded.
Documented(lib, root, modules) ==
    /\ root \in Book(lib)!RootDocs
    /\ \A name \in Book(lib)!Modules : modules[name] \in Book(lib)!ModuleDocs \cup {lib.absent}

\* The entries and the ids of the document in place n.
EntriesAt(lib, modules, n) ==
    IF modules[lib.names[n]] = lib.absent THEN <<>> ELSE modules[lib.names[n]].entries

\* Each entry is that of the last document that has its id.
Sourced(lib, entries, root, modules, n) ==
    \A e \in ToSet(entries) :
        \/ /\ e \in ToSet(root.entries)
           /\ \A j \in 1 .. n : e.id \notin Book(lib)!Ids(EntriesAt(lib, modules, j))
        \/ \E k \in 1 .. n :
             /\ e \in ToSet(EntriesAt(lib, modules, k))
             /\ \A j \in k + 1 .. n : e.id \notin Book(lib)!Ids(EntriesAt(lib, modules, j))

IdsUpTo(lib, root, modules, n) ==
    Book(lib)!Ids(root.entries)
      \cup UNION {Book(lib)!Ids(EntriesAt(lib, modules, k)) : k \in 1 .. n}

\* The configuration after the first n modules.
Layer(lib, c, root, modules, n) ==
    /\ c \in Book(lib)!RootDocs /\ Book(lib)!Distinct(c.entries)
    /\ Book(lib)!Ids(c.entries) = IdsUpTo(lib, root, modules, n)
    /\ Sourced(lib, c.entries, root, modules, n)

LEMMA NamesAre ==
    ASSUME NEW lib, Book(lib)!Wellformed
    PROVE  /\ Len(lib.names) \in Nat /\ DOMAIN lib.names = 1 .. Len(lib.names)
           /\ \A n \in 1 .. Len(lib.names) : lib.names[n] \in Book(lib)!Modules
           /\ \A name \in Book(lib)!Modules : \E n \in 1 .. Len(lib.names) : name = lib.names[n]
           /\ \A m, n \in 1 .. Len(lib.names) : lib.names[m] = lib.names[n] => m = n
<1>1. lib.names \in Seq(Book(lib)!Modules)
  BY DEF Book!Wellformed
<1>2. Len(lib.names) \in Nat /\ DOMAIN lib.names = 1 .. Len(lib.names)
  BY <1>1
<1>3. Book(lib)!Modules = {lib.names[n] : n \in DOMAIN lib.names}
  BY DEF Book!Modules, Book!Range
<1>4. \A m, n \in DOMAIN lib.names : lib.names[m] = lib.names[n] => m = n
  BY DEF Book!Wellformed, Book!IsInjective
<1> QED BY <1>2, <1>3, <1>4

SettingsAt(lib, modules, n) ==
    IF modules[lib.names[n]] = lib.absent THEN lib.noSection
    ELSE modules[lib.names[n]].settings

\* What a document must be to be merged behind those before it.
Admitted(lib, root, modules, n) ==
    modules[lib.names[n]] # lib.absent =>
        /\ Book(lib)!Distinct(EntriesAt(lib, modules, n))
        /\ \/ modules[lib.names[n]].replaces
           \/ /\ modules[lib.names[n]].settings = lib.noSection
              /\ IdsUpTo(lib, root, modules, n - 1)
                   \cap Book(lib)!Ids(EntriesAt(lib, modules, n)) = {}

SoundUpTo(lib, root, modules, n) ==
    Book(lib)!Distinct(root.entries) /\ \A k \in 1 .. n : Admitted(lib, root, modules, k)

LEMMA DocumentAt ==
    ASSUME NEW lib, Book(lib)!Wellformed, NEW root, NEW modules,
           Documented(lib, root, modules), NEW n \in 1 .. Len(lib.names)
    PROVE  /\ EntriesAt(lib, modules, n) \in Seq(lib.entries)
           /\ SettingsAt(lib, modules, n) \in Book(lib)!Parts \cup {lib.noSection}
           /\ modules[lib.names[n]] # lib.absent => modules[lib.names[n]] \in Book(lib)!ModuleDocs
<1>1. modules[lib.names[n]] \in Book(lib)!ModuleDocs \cup {lib.absent}
  BY NamesAre DEF Documented
<1>2. CASE modules[lib.names[n]] = lib.absent
  BY <1>2 DEF EntriesAt, SettingsAt
<1>3. CASE modules[lib.names[n]] # lib.absent
  BY <1>1, <1>3 DEF EntriesAt, SettingsAt, Book!ModuleDocs
<1> QED BY <1>2, <1>3

LEMMA IdsGrow ==
    ASSUME NEW lib, NEW root, NEW modules, NEW n \in Nat \ {0}
    PROVE  IdsUpTo(lib, root, modules, n)
             = IdsUpTo(lib, root, modules, n - 1) \cup Book(lib)!Ids(EntriesAt(lib, modules, n))
<1>1. 1 .. n = (1 .. n - 1) \cup {n}
  OBVIOUS
<1> QED BY <1>1 DEF IdsUpTo

\* One more module.
LEMMA LayerStep ==
    ASSUME NEW lib, Book(lib)!Wellformed, NEW root, NEW modules,
           Documented(lib, root, modules), NEW n \in 1 .. Len(lib.names),
           NEW c, Layer(lib, c, root, modules, n - 1)
    PROVE  LET d == Book(lib)!Layered(c, modules[lib.names[n]])
           IN  /\ d # lib.failed <=> Admitted(lib, root, modules, n)
               /\ d # lib.failed =>
                    /\ Layer(lib, d, root, modules, n)
                    /\ d.settings = Book(lib)!Overridden(c.settings, SettingsAt(lib, modules, n))
<1> DEFINE m == modules[lib.names[n]]
           d == Book(lib)!Layered(c, m)
           s == EntriesAt(lib, modules, n)
<1>1. /\ c \in Book(lib)!RootDocs /\ Book(lib)!Distinct(c.entries) /\ lib.failed \notin Book(lib)!RootDocs
      /\ Book(lib)!Ids(c.entries) = IdsUpTo(lib, root, modules, n - 1)
      /\ Sourced(lib, c.entries, root, modules, n - 1)
  BY DEF Layer, Book!Wellformed
<1>2. /\ c.settings \in lib.settings /\ c.entries \in Seq(lib.entries) /\ c # lib.failed
  BY <1>1 DEF Book!RootDocs
<1>3. /\ s \in Seq(lib.entries) /\ SettingsAt(lib, modules, n) \in Book(lib)!Parts \cup {lib.noSection}
      /\ m # lib.absent => m \in Book(lib)!ModuleDocs
  BY DocumentAt
<1>4. /\ n \in Nat \ {0} /\ n - 1 \in Nat
      /\ \A j : j \in 1 .. n <=> j \in 1 .. n - 1 \/ j = n
      /\ \A j : j \notin n + 1 .. n
      /\ \A k \in 1 .. n - 1 : \A j \in k + 1 .. n : j \in k + 1 .. n - 1 \/ j = n
  BY NamesAre
<1>5. CASE m = lib.absent
  <2>1. d = c /\ s = <<>> /\ SettingsAt(lib, modules, n) = lib.noSection
    BY <1>5 DEF Book!Layered, EntriesAt, SettingsAt
  <2>2. Book(lib)!Ids(s) = {}
    <3>1. ToSet(<<>>) = {}
      BY DEF ToSet
    <3> QED BY <2>1, <3>1, BookBasics
  <2>3. Sourced(lib, c.entries, root, modules, n)
    <3> HIDE DEF m, d
    <3> QED BY <1>1, <1>4, <2>2 DEF Sourced
  <2>4. IdsUpTo(lib, root, modules, n) = IdsUpTo(lib, root, modules, n - 1)
    <3>1. IdsUpTo(lib, root, modules, n) = IdsUpTo(lib, root, modules, n - 1) \cup Book(lib)!Ids(s)
      BY <1>4, IdsGrow
    <3> QED BY <2>2, <3>1
  <2>5. d.settings = Book(lib)!Overridden(c.settings, SettingsAt(lib, modules, n))
    BY <2>1 DEF Book!Overridden
  <2> QED BY <1>1, <1>2, <1>5, <2>1, <2>3, <2>4, <2>5 DEF Layer, Admitted
<1>6. CASE m # lib.absent
  <2>1. s = m.entries /\ SettingsAt(lib, modules, n) = m.settings /\ m.replaces \in BOOLEAN
    BY <1>3, <1>6 DEF EntriesAt, SettingsAt, Book!ModuleDocs
  <2>2. Book(lib)!Acceptable(c, m) <=> Admitted(lib, root, modules, n)
    BY <1>1, <1>6, <2>1 DEF Book!Acceptable, Admitted
  <2>3. d = IF ~Book(lib)!Acceptable(c, m) THEN lib.failed
            ELSE [settings |-> Book(lib)!Overridden(c.settings, m.settings),
                  entries  |-> Book(lib)!MergedEntries(c.entries, s)]
    BY <1>2, <1>6, <2>1 DEF Book!Layered
  <2>4. CASE ~Admitted(lib, root, modules, n)
    BY <2>2, <2>3, <2>4
  <2>5. CASE Admitted(lib, root, modules, n)
    <3> DEFINE t == Book(lib)!MergedEntries(c.entries, s)
    <3>1. Book(lib)!Distinct(s)
      BY <1>6, <2>5 DEF Admitted
    <3>2. /\ t \in Seq(lib.entries) /\ Book(lib)!Distinct(t)
          /\ ToSet(t) = {e \in ToSet(c.entries) : e.id \notin Book(lib)!Ids(s)} \cup ToSet(s)
      BY <1>1, <1>2, <1>3, <3>1, MergedEntriesAre
    <3>3. /\ d = [settings |-> Book(lib)!Overridden(c.settings, m.settings), entries |-> t]
          /\ d.settings = Book(lib)!Overridden(c.settings, m.settings) /\ d.entries = t
      BY <2>2, <2>3, <2>5
    <3>4. d \in Book(lib)!RootDocs
      <4>1. Book(lib)!Overridden(c.settings, m.settings) \in lib.settings
        BY <1>2, <1>3, <2>1, OverriddenIs
      <4> HIDE DEF t, d
      <4> QED BY <3>2, <3>3, <4>1 DEF Book!RootDocs
    <3> HIDE DEF t, d
    <3>5. Book(lib)!Ids(t) = IdsUpTo(lib, root, modules, n)
      <4>1. Book(lib)!Ids(t) = {e.id : e \in ToSet(t)} /\ Book(lib)!Ids(s) = {e.id : e \in ToSet(s)}
            /\ Book(lib)!Ids(c.entries) = {e.id : e \in ToSet(c.entries)}
        BY BookBasics
      <4>2. Book(lib)!Ids(t) = Book(lib)!Ids(c.entries) \cup Book(lib)!Ids(s)
        <5> HIDE DEF m, s
        <5> QED BY <3>2, <4>1
      <4> QED BY <1>1, <1>4, <4>2, IdsGrow
    <3>6. Sourced(lib, t, root, modules, n)
      <4> SUFFICES ASSUME NEW e \in ToSet(t)
                   PROVE  \/ /\ e \in ToSet(root.entries)
                             /\ \A j \in 1 .. n : e.id \notin Book(lib)!Ids(EntriesAt(lib, modules, j))
                          \/ \E k \in 1 .. n :
                               /\ e \in ToSet(EntriesAt(lib, modules, k))
                               /\ \A j \in k + 1 .. n : e.id \notin Book(lib)!Ids(EntriesAt(lib, modules, j))
        BY DEF Sourced
      <4>1. CASE e \in ToSet(s)
        BY <1>4, <4>1
      <4>2. CASE e \in ToSet(c.entries) /\ e.id \notin Book(lib)!Ids(s)
        <5> HIDE DEF m
        <5> QED BY <1>1, <1>4, <4>2 DEF Sourced
      <4> QED BY <3>2, <4>1, <4>2
    <3>7. Layer(lib, d, root, modules, n)
      BY <3>2, <3>3, <3>4, <3>5, <3>6 DEF Layer
    <3>8. d # lib.failed
      BY <1>1, <3>4
    <3> QED BY <2>1, <2>5, <3>3, <3>7, <3>8 DEF d
  <2> QED BY <2>4, <2>5
<1> QED BY <1>5, <1>6

LEMMA LayersAre ==
    ASSUME NEW lib, Book(lib)!Wellformed, NEW root, NEW modules,
           Documented(lib, root, modules), NEW f, Layers(lib, f, root, modules, Len(lib.names))
    PROVE  \A n \in 0 .. Len(lib.names) :
             /\ f[n] # lib.failed <=> SoundUpTo(lib, root, modules, n)
             /\ f[n] # lib.failed => Layer(lib, f[n], root, modules, n)
<1> DEFINE N == Len(lib.names)
           good == {n \in 0 .. N : /\ f[n] # lib.failed <=> SoundUpTo(lib, root, modules, n)
                                   /\ f[n] # lib.failed => Layer(lib, f[n], root, modules, n)}
<1>1. N \in Nat
  BY NamesAre
<1>2. f[0] = IF Book(lib)!Distinct(root.entries) THEN root ELSE lib.failed
  BY <1>1 DEF Layers
<1>3. \A n \in 1 .. N : f[n] = Book(lib)!Layered(f[n - 1], modules[lib.names[n]])
  BY <1>1 DEF Layers
<1>4. lib.failed \notin Book(lib)!RootDocs /\ root \in Book(lib)!RootDocs
  BY DEF Book!Wellformed, Documented
<1>5. 0 \in good
  <2>1. SoundUpTo(lib, root, modules, 0) <=> Book(lib)!Distinct(root.entries)
    BY DEF SoundUpTo
  <2>2. IdsUpTo(lib, root, modules, 0) = Book(lib)!Ids(root.entries)
    BY DEF IdsUpTo
  <2>3. Sourced(lib, root.entries, root, modules, 0)
    BY DEF Sourced
  <2>4. Book(lib)!Distinct(root.entries) => Layer(lib, root, root, modules, 0)
    BY <1>4, <2>2, <2>3 DEF Layer
  <2> QED BY <1>1, <1>2, <1>4, <2>1, <2>4
<1>6. ASSUME NEW n \in 1 .. N, n - 1 \in good
      PROVE  n \in good
  <2>1. n - 1 \in 0 .. N /\ n \in 0 .. N /\ \A k : k \in 1 .. n <=> k \in 1 .. n - 1 \/ k = n
    BY <1>1
  <2>2. /\ f[n - 1] # lib.failed <=> SoundUpTo(lib, root, modules, n - 1)
        /\ f[n - 1] # lib.failed => Layer(lib, f[n - 1], root, modules, n - 1)
    BY <1>6
  <2>3. SoundUpTo(lib, root, modules, n)
          <=> SoundUpTo(lib, root, modules, n - 1) /\ Admitted(lib, root, modules, n)
    BY <2>1 DEF SoundUpTo
  <2>4. CASE f[n - 1] = lib.failed
    <3>1. f[n] = lib.failed
      BY <1>3, <2>4 DEF Book!Layered
    <3> QED BY <2>1, <2>2, <2>3, <2>4, <3>1
  <2>5. CASE f[n - 1] # lib.failed
    <3>1. /\ f[n] # lib.failed <=> Admitted(lib, root, modules, n)
          /\ f[n] # lib.failed => Layer(lib, f[n], root, modules, n)
      <4>1. Layer(lib, f[n - 1], root, modules, n - 1)
        BY <2>2, <2>5
      <4>2. f[n] = Book(lib)!Layered(f[n - 1], modules[lib.names[n]])
        BY <1>3
      <4> QED BY <4>1, <4>2, LayerStep
    <3> QED BY <2>1, <2>2, <2>3, <2>5, <3>1
  <2> QED BY <2>4, <2>5
<1> HIDE DEF good
<1>7. \A n \in 0 .. N : n \in good
  BY <1>1, <1>5, <1>6, UpTo
<1> QED BY <1>7 DEF good

\* The settings of each layer.
LEMMA SettingsFollow ==
    ASSUME NEW lib, Book(lib)!Wellformed, NEW root, NEW modules,
           Documented(lib, root, modules), NEW f, Layers(lib, f, root, modules, Len(lib.names)),
           f[Len(lib.names)] # lib.failed
    PROVE  /\ f[0] = root /\ \A n \in 0 .. Len(lib.names) : Layer(lib, f[n], root, modules, n)
           /\ \A n \in 1 .. Len(lib.names) :
                f[n].settings = Book(lib)!Overridden(f[n - 1].settings, SettingsAt(lib, modules, n))
<1> DEFINE N == Len(lib.names)
<1>1. N \in Nat
  BY NamesAre
<1>2. SoundUpTo(lib, root, modules, N)
  BY <1>1, LayersAre
<1>3. \A n \in 0 .. N : SoundUpTo(lib, root, modules, n)
  BY <1>1, <1>2 DEF SoundUpTo
<1>4. \A n \in 0 .. N : f[n] # lib.failed /\ Layer(lib, f[n], root, modules, n)
  BY <1>3, LayersAre
<1>5. f[0] = root
  BY <1>1, <1>3 DEF Layers, SoundUpTo
<1>6. ASSUME NEW n \in 1 .. N
      PROVE  f[n].settings = Book(lib)!Overridden(f[n - 1].settings, SettingsAt(lib, modules, n))
  <2>1. n - 1 \in 0 .. N /\ n \in 0 .. N
    BY <1>1
  <2>2. f[n] = Book(lib)!Layered(f[n - 1], modules[lib.names[n]])
    BY <1>1 DEF Layers
  <2> QED BY <1>4, <2>1, <2>2, LayerStep
<1> QED BY <1>4, <1>5, <1>6

\* The last of the modules among holders, or the root.
LEMMA OwnerOfIs ==
    ASSUME NEW lib, Book(lib)!Wellformed, NEW holders
    PROVE  \/ /\ Book(lib)!OwnerOf(holders) = "root"
              /\ \A n \in 1 .. Len(lib.names) : lib.names[n] \notin holders
           \/ \E p \in 1 .. Len(lib.names) :
                /\ Book(lib)!OwnerOf(holders) = lib.names[p] /\ lib.names[p] \in holders
                /\ \A n \in p + 1 .. Len(lib.names) : lib.names[n] \notin holders
<1> DEFINE places == {n \in DOMAIN lib.names : lib.names[n] \in holders}
           N == Len(lib.names)
<1>1. N \in Nat /\ DOMAIN lib.names = 1 .. N
  BY NamesAre
<1>2. CASE places = {}
  BY <1>1, <1>2 DEF Book!OwnerOf, Book!Root
<1>3. CASE places # {}
  <2> DEFINE back == {N - n : n \in places}
  <2>1. back \subseteq Nat /\ back # {}
    <3>1. \A n \in places : n \in 1 .. N
      BY <1>1
    <3>2. \A n \in places : N - n \in Nat
      BY <1>1, <3>1
    <3> HIDE DEF places
    <3> QED BY <1>3, <3>2
  <2>2. PICK b \in back : \A c \in back : b <= c
    <3> HIDE DEF back
    <3> QED BY <2>1, LeastNumber
  <2>3. PICK p \in places : b = N - p
    BY <2>2
  <2>4. \A q \in places : p >= q
    <3> SUFFICES ASSUME NEW q \in places
                 PROVE  p >= q
      OBVIOUS
    <3>1. N - q \in back
      OBVIOUS
    <3>2. N - p <= N - q
      BY <2>2, <2>3, <3>1
    <3> QED BY <1>1, <3>2
  <2>5. \E x \in places : \A y \in places : x >= y
    BY <2>4
  <2> DEFINE top == Book(lib)!Max(places)
  <2>6. top \in places /\ \A y \in places : top >= y
    <3> HIDE DEF places
    <3> QED BY <2>5 DEF Book!Max
  <2>7. Book(lib)!OwnerOf(holders) = lib.names[top]
    BY <1>3 DEF Book!OwnerOf
  <2> HIDE DEF top
  <2>8. \A n \in top + 1 .. N : n \notin places /\ n \in DOMAIN lib.names
    <3> HIDE DEF places
    <3>1. top \in 1 .. N
      BY <1>1, <2>6 DEF places
    <3> QED BY <1>1, <2>6, <3>1
  <2> QED BY <1>1, <2>6, <2>7, <2>8
<1> QED BY <1>2, <1>3

-----------------------------------------------------------------------------
\* A save puts the entries of an owner in the place of those it has.
LEMMA SyncedAre ==
    ASSUME NEW lib, NEW modules, NEW owner, NEW config, NEW s \in Seq(lib.entries),
           config.entries \in Seq(lib.entries)
    PROVE  LET t == Book(lib)!Synced(s, config, modules, owner)
           IN  /\ t \in Seq(lib.entries) /\ DOMAIN t = DOMAIN s
               /\ \A i \in DOMAIN s :
                    /\ t[i].id = s[i].id
                    /\ t[i] = IF /\ Book(lib)!EntryOwner(modules, s[i].id) = owner
                                 /\ s[i].id \in Book(lib)!Ids(config.entries)
                              THEN Book(lib)!EntryOf(config.entries, s[i].id) ELSE s[i]
               /\ Book(lib)!Ids(t) = Book(lib)!Ids(s)
               /\ Book(lib)!Distinct(t) <=> Book(lib)!Distinct(s)
<1> DEFINE t == Book(lib)!Synced(s, config, modules, owner)
<1>1. /\ DOMAIN t = DOMAIN s /\ DOMAIN s = 1 .. Len(s) /\ Len(s) \in Nat
      /\ t = [i \in 1 .. Len(s) |-> t[i]]
      /\ \A i \in DOMAIN s :
           t[i] = IF /\ Book(lib)!EntryOwner(modules, s[i].id) = owner
                     /\ s[i].id \in Book(lib)!Ids(config.entries)
                  THEN Book(lib)!EntryOf(config.entries, s[i].id) ELSE s[i]
  BY DEF Book!Synced
<1> HIDE DEF t
<1>2. \A e \in ToSet(config.entries) : e \in lib.entries
  BY DEF ToSet
<1>3. ASSUME NEW i \in DOMAIN s
      PROVE  t[i].id = s[i].id /\ t[i] \in lib.entries
  <2>1. s[i] \in lib.entries
    OBVIOUS
  <2> QED BY <1>1, <1>2, <2>1, EntryOfIs
<1>4. t \in Seq(lib.entries)
  <2>1. t \in [1 .. Len(s) -> lib.entries]
    BY <1>1, <1>3
  <2> QED BY <1>1, <2>1
<1>5. Book(lib)!Ids(t) = Book(lib)!Ids(s)
  <2>1. ToSet(t) = {t[i] : i \in DOMAIN s} /\ ToSet(s) = {s[i] : i \in DOMAIN s}
    BY <1>1 DEF ToSet
  <2>2. Book(lib)!Ids(t) = {e.id : e \in ToSet(t)} /\ Book(lib)!Ids(s) = {e.id : e \in ToSet(s)}
    BY BookBasics
  <2>3. ASSUME NEW id \in Book(lib)!Ids(t)
        PROVE  id \in Book(lib)!Ids(s)
    <3>1. PICK i \in DOMAIN s : id = t[i].id
      BY <2>1, <2>2
    <3> QED BY <1>3, <2>1, <2>2, <3>1
  <2>4. ASSUME NEW id \in Book(lib)!Ids(s)
        PROVE  id \in Book(lib)!Ids(t)
    <3>1. PICK i \in DOMAIN s : id = s[i].id
      BY <2>1, <2>2
    <3> QED BY <1>3, <2>1, <2>2, <3>1
  <2> QED BY <2>3, <2>4
<1>6. Book(lib)!Distinct(t) <=> Book(lib)!Distinct(s)
  BY <1>1, <1>3 DEF Book!Distinct
<1> QED BY <1>1, <1>3, <1>4, <1>5, <1>6 DEF t

\* Only a field that changed becomes an override of its own.
LEMMA RecordedIs ==
    ASSUME NEW lib, Book(lib)!Wellformed, NEW over \in Book(lib)!Parts,
           NEW previous \in lib.settings, NEW next \in lib.settings
    PROVE  LET r == Book(lib)!Recorded(over, previous, next)
           IN  /\ r \in Book(lib)!Parts
               /\ \A f \in DOMAIN next :
                    /\ previous[f] # next[f] => f \in DOMAIN r /\ r[f] = next[f]
                    /\ previous[f] = next[f] => f \in DOMAIN r <=> f \in DOMAIN over
                    /\ previous[f] = next[f] /\ f \in DOMAIN over => r[f] = over[f]
               /\ previous = next => r = over
<1> DEFINE C == {f \in DOMAIN next : previous[f] # next[f]}
           r == Book(lib)!Recorded(over, previous, next)
<1>1. /\ DOMAIN r = DOMAIN over \cup C
      /\ \A f \in DOMAIN r :
           r[f] = IF f \in DOMAIN next /\ previous[f] # next[f] THEN next[f] ELSE over[f]
      /\ r = [f \in DOMAIN over \cup C |-> r[f]]
  BY DEF Book!Recorded
<1> HIDE DEF r
<1>2. PICK t \in lib.settings : over \in {Book(lib)!Restrict(t, fields) : fields \in SUBSET DOMAIN t}
  BY DEF Book!Parts
<1>3. PICK A \in SUBSET DOMAIN t : over = Book(lib)!Restrict(t, A)
  BY <1>2
<1>4. over = [f \in A |-> t[f]]
  BY <1>3 DEF Book!Restrict
<1>5. DOMAIN t = DOMAIN next
  BY DEF Book!Wellformed
<1> DEFINE u == [f \in DOMAIN t |-> IF f \in C THEN next[f] ELSE t[f]]
<1>6. u \in lib.settings
  <2>1. C \in SUBSET DOMAIN t
    BY <1>5
  <2> HIDE DEF C
  <2> QED BY <2>1 DEF Book!Wellformed
<1>7. DOMAIN over = A /\ A \cup C \in SUBSET DOMAIN u
  BY <1>4, <1>5
<1>8. r = [f \in A \cup C |-> u[f]]
  <2>1. \A f \in A \cup C : r[f] = u[f]
    BY <1>1, <1>4, <1>5, <1>7
  <2> HIDE DEF u, C
  <2> QED BY <1>1, <1>7, <2>1
<1>9. r \in Book(lib)!Parts
  <2>1. r = Book(lib)!Restrict(u, A \cup C)
    BY <1>8 DEF Book!Restrict
  <2>2. r \in {Book(lib)!Restrict(u, fields) : fields \in SUBSET DOMAIN u}
    <3> HIDE DEF u, C
    <3> QED BY <1>7, <2>1
  <2> HIDE DEF u, C
  <2> QED BY <1>6, <2>2 DEF Book!Parts
<1>10. previous = next => r = over
  <2> SUFFICES ASSUME previous = next
               PROVE  r = over
    OBVIOUS
  <2>1. C = {}
    OBVIOUS
  <2>2. DOMAIN over \cup C = A
    BY <1>7, <2>1
  <2>3. \A f \in A : r[f] = over[f]
    BY <1>1, <2>2
  <2>4. r = [f \in A |-> r[f]] /\ over = [f \in A |-> over[f]]
    <3> HIDE DEF C
    <3> QED BY <1>1, <1>4, <2>2
  <2> HIDE DEF C
  <2> QED BY <2>3, <2>4
<1>11. \A f \in DOMAIN next :
         /\ previous[f] # next[f] => f \in DOMAIN r /\ r[f] = next[f]
         /\ previous[f] = next[f] => f \in DOMAIN r <=> f \in DOMAIN over
         /\ previous[f] = next[f] /\ f \in DOMAIN over => r[f] = over[f]
  BY <1>1
<1> QED BY <1>9, <1>10, <1>11 DEF r

LEMMA KnownIds ==
    ASSUME NEW lib, Book(lib)!Wellformed, NEW root, NEW modules
    PROVE  IdsUpTo(lib, root, modules, Len(lib.names))
             = Book(lib)!Ids(root.entries)
               \cup UNION {Book(lib)!Ids(modules[n].entries) :
                             n \in {m \in Book(lib)!Modules : modules[m] # lib.absent}}
<1> DEFINE N == Len(lib.names)
           L == UNION {Book(lib)!Ids(EntriesAt(lib, modules, k)) : k \in 1 .. N}
           R == UNION {Book(lib)!Ids(modules[n].entries) :
                         n \in {m \in Book(lib)!Modules : modules[m] # lib.absent}}
<1>1. Book(lib)!Ids(<<>>) = {}
  <2>1. ToSet(<<>>) = {}
    BY DEF ToSet
  <2> QED BY <2>1, BookBasics
<1>2. ASSUME NEW id \in L
      PROVE  id \in R
  <2>1. PICK k \in 1 .. N : id \in Book(lib)!Ids(EntriesAt(lib, modules, k))
    OBVIOUS
  <2>2. modules[lib.names[k]] # lib.absent
    BY <1>1, <2>1 DEF EntriesAt
  <2> QED BY <2>1, <2>2, NamesAre DEF EntriesAt
<1>3. ASSUME NEW id \in R
      PROVE  id \in L
  <2>1. PICK n \in Book(lib)!Modules : modules[n] # lib.absent /\ id \in Book(lib)!Ids(modules[n].entries)
    OBVIOUS
  <2>2. PICK k \in 1 .. N : n = lib.names[k]
    BY NamesAre
  <2>3. id \in Book(lib)!Ids(EntriesAt(lib, modules, k))
    BY <2>1, <2>2 DEF EntriesAt
  <2> QED BY <2>2, <2>3
<1>4. L = R
  BY <1>2, <1>3
<1> QED BY <1>4 DEF IdsUpTo

\* A configuration that may be saved to the documents it was loaded from: it has every
\* entry they have, and may have more.
MayBeSaved(lib, root, modules, config) ==
    /\ Documented(lib, root, modules) /\ SoundUpTo(lib, root, modules, Len(lib.names))
    /\ config \in Book(lib)!RootDocs /\ Book(lib)!Distinct(config.entries)
    /\ IdsUpTo(lib, root, modules, Len(lib.names)) \subseteq Book(lib)!Ids(config.entries)
    /\ Book(lib)!Merge(root, modules) # lib.failed

LEMMA MergedLayer ==
    ASSUME NEW lib, Book(lib)!Wellformed, NEW root, NEW modules,
           Documented(lib, root, modules), Book(lib)!Merge(root, modules) # lib.failed
    PROVE  /\ SoundUpTo(lib, root, modules, Len(lib.names))
           /\ Book(lib)!Valid(Book(lib)!Merge(root, modules))
           /\ Layer(lib, Book(lib)!Merge(root, modules), root, modules, Len(lib.names))
<1>1. Len(lib.names) \in Nat
  BY NamesAre
<1>2. PICK f : /\ Layers(lib, f, root, modules, Len(lib.names))
               /\ Book(lib)!Merge(root, modules) =
                    IF f[Len(lib.names)] # lib.failed /\ Book(lib)!Valid(f[Len(lib.names)])
                    THEN f[Len(lib.names)] ELSE lib.failed
  BY <1>1, MergeIsLayers
<1>3. /\ Book(lib)!Merge(root, modules) = f[Len(lib.names)]
      /\ Book(lib)!Valid(f[Len(lib.names)])
  BY <1>2
<1> QED BY <1>1, <1>2, <1>3, LayersAre

\* The place of the owner of an entry, and of the settings.
LEMMA EntryOwnerIs ==
    ASSUME NEW lib, Book(lib)!Wellformed, NEW modules, NEW id
    PROVE  LET In(n) == id \in Book(lib)!Ids(EntriesAt(lib, modules, n))
           IN  \/ /\ Book(lib)!EntryOwner(modules, id) = "root"
                  /\ \A n \in 1 .. Len(lib.names) : ~In(n)
               \/ \E p \in 1 .. Len(lib.names) :
                    /\ Book(lib)!EntryOwner(modules, id) = lib.names[p] /\ In(p)
                    /\ \A n \in p + 1 .. Len(lib.names) : ~In(n)
<1> DEFINE holders == {n \in Book(lib)!Modules :
                         modules[n] # lib.absent /\ id \in Book(lib)!Ids(modules[n].entries)}
<1>1. Book(lib)!Ids(<<>>) = {}
  <2>1. ToSet(<<>>) = {}
    BY DEF ToSet
  <2> QED BY <2>1, BookBasics
<1>2. \A n \in 1 .. Len(lib.names) :
        lib.names[n] \in holders <=> id \in Book(lib)!Ids(EntriesAt(lib, modules, n))
  BY <1>1, NamesAre DEF EntriesAt
<1>3. Book(lib)!EntryOwner(modules, id) = Book(lib)!OwnerOf(holders)
  BY DEF Book!EntryOwner
<1>4. Len(lib.names) \in Nat
  BY NamesAre
<1> HIDE DEF holders
<1>5. CASE /\ Book(lib)!OwnerOf(holders) = "root"
           /\ \A n \in 1 .. Len(lib.names) : lib.names[n] \notin holders
  BY <1>2, <1>3, <1>5
<1>6. ASSUME NEW p \in 1 .. Len(lib.names),
             Book(lib)!OwnerOf(holders) = lib.names[p] /\ lib.names[p] \in holders,
             \A n \in p + 1 .. Len(lib.names) : lib.names[n] \notin holders
      PROVE  /\ Book(lib)!EntryOwner(modules, id) = lib.names[p]
             /\ id \in Book(lib)!Ids(EntriesAt(lib, modules, p))
             /\ \A n \in p + 1 .. Len(lib.names) : id \notin Book(lib)!Ids(EntriesAt(lib, modules, n))
  <2>1. \A n \in p + 1 .. Len(lib.names) : n \in 1 .. Len(lib.names)
    BY <1>4
  <2> QED BY <1>2, <1>3, <1>6, <2>1
<1> QED BY <1>5, <1>6, OwnerOfIs

LEMMA SettingsOwnerIs ==
    ASSUME NEW lib, Book(lib)!Wellformed, NEW modules
    PROVE  LET In(n) == SettingsAt(lib, modules, n) # lib.noSection
           IN  \/ /\ Book(lib)!SettingsOwner(modules) = "root"
                  /\ \A n \in 1 .. Len(lib.names) : ~In(n)
               \/ \E p \in 1 .. Len(lib.names) :
                    /\ Book(lib)!SettingsOwner(modules) = lib.names[p] /\ In(p)
                    /\ \A n \in p + 1 .. Len(lib.names) : ~In(n)
<1> DEFINE holders == {n \in Book(lib)!Modules :
                         modules[n] # lib.absent /\ modules[n].settings # lib.noSection}
<1>1. \A n \in 1 .. Len(lib.names) :
        lib.names[n] \in holders <=> SettingsAt(lib, modules, n) # lib.noSection
  BY NamesAre DEF SettingsAt
<1>2. Book(lib)!SettingsOwner(modules) = Book(lib)!OwnerOf(holders)
  BY DEF Book!SettingsOwner
<1>3. Len(lib.names) \in Nat
  BY NamesAre
<1> HIDE DEF holders
<1>4. CASE /\ Book(lib)!OwnerOf(holders) = "root"
           /\ \A n \in 1 .. Len(lib.names) : lib.names[n] \notin holders
  BY <1>1, <1>2, <1>4
<1>5. ASSUME NEW p \in 1 .. Len(lib.names),
             Book(lib)!OwnerOf(holders) = lib.names[p] /\ lib.names[p] \in holders,
             \A n \in p + 1 .. Len(lib.names) : lib.names[n] \notin holders
      PROVE  /\ Book(lib)!SettingsOwner(modules) = lib.names[p]
             /\ SettingsAt(lib, modules, p) # lib.noSection
             /\ \A n \in p + 1 .. Len(lib.names) : SettingsAt(lib, modules, n) = lib.noSection
  <2>1. \A n \in p + 1 .. Len(lib.names) : n \in 1 .. Len(lib.names)
    BY <1>3
  <2> QED BY <1>1, <1>2, <1>5, <2>1
<1> QED BY <1>4, <1>5, OwnerOfIs

\* The modules after a save.
LEMMA SavedModules ==
    ASSUME NEW lib, Book(lib)!Wellformed, NEW root, NEW modules, NEW config,
           MayBeSaved(lib, root, modules, config)
    PROVE  LET after == Book(lib)!Saved(root, modules, config).modules
               previous == Book(lib)!Merge(root, modules)
           IN  \A n \in 1 .. Len(lib.names) :
                 /\ after[lib.names[n]] \in Book(lib)!ModuleDocs \cup {lib.absent}
                 /\ after[lib.names[n]] = lib.absent <=> modules[lib.names[n]] = lib.absent
                 /\ modules[lib.names[n]] # lib.absent =>
                      after[lib.names[n]].replaces = modules[lib.names[n]].replaces
                 /\ EntriesAt(lib, after, n)
                      = Book(lib)!Synced(EntriesAt(lib, modules, n), config, modules, lib.names[n])
                 /\ SettingsAt(lib, after, n) =
                      IF Book(lib)!SettingsOwner(modules) = lib.names[n]
                      THEN Book(lib)!Recorded(SettingsAt(lib, modules, n), previous.settings,
                                              config.settings)
                      ELSE SettingsAt(lib, modules, n)
                 /\ after[lib.names[n]] = modules[lib.names[n]] <=>
                      /\ EntriesAt(lib, after, n) = EntriesAt(lib, modules, n)
                      /\ SettingsAt(lib, after, n) = SettingsAt(lib, modules, n)
<1> DEFINE after == Book(lib)!Saved(root, modules, config).modules
           previous == Book(lib)!Merge(root, modules)
<1> SUFFICES ASSUME NEW n \in 1 .. Len(lib.names)
             PROVE  /\ after[lib.names[n]] \in Book(lib)!ModuleDocs \cup {lib.absent}
                    /\ after[lib.names[n]] = lib.absent <=> modules[lib.names[n]] = lib.absent
                    /\ modules[lib.names[n]] # lib.absent =>
                         after[lib.names[n]].replaces = modules[lib.names[n]].replaces
                    /\ EntriesAt(lib, after, n)
                         = Book(lib)!Synced(EntriesAt(lib, modules, n), config, modules, lib.names[n])
                    /\ SettingsAt(lib, after, n) =
                         IF Book(lib)!SettingsOwner(modules) = lib.names[n]
                         THEN Book(lib)!Recorded(SettingsAt(lib, modules, n), previous.settings,
                                                 config.settings)
                         ELSE SettingsAt(lib, modules, n)
                    /\ after[lib.names[n]] = modules[lib.names[n]] <=>
                         /\ EntriesAt(lib, after, n) = EntriesAt(lib, modules, n)
                         /\ SettingsAt(lib, after, n) = SettingsAt(lib, modules, n)
  BY DEF after, previous
<1> DEFINE d == modules[lib.names[n]]
           e == after[lib.names[n]]
           s == Book(lib)!Synced(d.entries, config, modules, lib.names[n])
           o == IF Book(lib)!SettingsOwner(modules) = lib.names[n]
                THEN Book(lib)!Recorded(d.settings, previous.settings, config.settings)
                ELSE d.settings
<1>1. e = Book(lib)!SavedModule(modules, lib.names[n], previous, config)
  BY NamesAre DEF Book!Saved
<1>2. lib.absent \notin Book(lib)!ModuleDocs /\ lib.noSection \notin Book(lib)!Parts
  BY DEF Book!Wellformed
<1> HIDE DEF after
<1>3. CASE d = lib.absent
  <2>1. e = lib.absent
    BY <1>1, <1>3 DEF Book!SavedModule
  <2>2. EntriesAt(lib, after, n) = <<>> /\ EntriesAt(lib, modules, n) = <<>>
    BY <1>3, <2>1 DEF EntriesAt
  <2>3. Book(lib)!Synced(<<>>, config, modules, lib.names[n]) = <<>>
    BY DEF Book!Synced
  <2>4. SettingsAt(lib, after, n) = lib.noSection /\ SettingsAt(lib, modules, n) = lib.noSection
    BY <1>3, <2>1 DEF SettingsAt
  <2>5. Book(lib)!SettingsOwner(modules) # lib.names[n]
    <3>1. lib.names[n] # "root"
      BY NamesAre DEF Book!Wellformed, Book!Root
    <3>2. ASSUME NEW p \in 1 .. Len(lib.names), SettingsAt(lib, modules, p) # lib.noSection
          PROVE  lib.names[p] # lib.names[n]
      BY <2>4, <3>2, NamesAre
    <3> QED BY <3>1, <3>2, SettingsOwnerIs
  <2> QED BY <1>3, <2>1, <2>2, <2>3, <2>4, <2>5
<1>4. CASE d # lib.absent
  <2>1. d \in Book(lib)!ModuleDocs
    BY <1>4, DocumentAt DEF MayBeSaved
  <2>2. /\ d = [settings |-> d.settings, entries |-> d.entries, replaces |-> d.replaces]
        /\ d.settings \in Book(lib)!Parts \cup {lib.noSection} /\ d.entries \in Seq(lib.entries)
        /\ d.replaces \in BOOLEAN
    BY <2>1 DEF Book!ModuleDocs
  <2>3. e = [settings |-> o, entries |-> s, replaces |-> d.replaces]
    <3>1. e = [d EXCEPT !.entries = s, !.settings = o]
      BY <1>1, <1>4 DEF Book!SavedModule
    <3> HIDE DEF s, o, d, e
    <3> QED BY <2>2, <3>1
  <2>4. s \in Seq(lib.entries)
    BY <2>2, SyncedAre DEF MayBeSaved, Book!RootDocs
  <2>5. o \in Book(lib)!Parts \cup {lib.noSection}
    <3>1. CASE Book(lib)!SettingsOwner(modules) = lib.names[n]
      <4>1. d.settings # lib.noSection
        <5>1. lib.names[n] # "root"
          BY NamesAre DEF Book!Wellformed, Book!Root
        <5>2. PICK p \in 1 .. Len(lib.names) : /\ lib.names[p] = lib.names[n]
                                               /\ SettingsAt(lib, modules, p) # lib.noSection
          BY <3>1, <5>1, SettingsOwnerIs
        <5> QED BY <1>4, <5>2 DEF SettingsAt
      <4>2. previous.settings \in lib.settings /\ config.settings \in lib.settings
        BY MergedLayer DEF MayBeSaved, Layer, Book!RootDocs
      <4>3. d.settings \in Book(lib)!Parts
        BY <2>2, <4>1
      <4> HIDE DEF d, previous
      <4> QED BY <3>1, <4>2, <4>3, RecordedIs
    <3>2. CASE Book(lib)!SettingsOwner(modules) # lib.names[n]
      BY <2>2, <3>2
    <3> QED BY <3>1, <3>2
  <2> HIDE DEF s, o, d, e
  <2>6. e \in Book(lib)!ModuleDocs
    BY <2>2, <2>3, <2>4, <2>5 DEF Book!ModuleDocs
  <2>7. e.entries = s /\ e.settings = o /\ e.replaces = d.replaces /\ e # lib.absent
    BY <1>2, <2>3, <2>6
  <2>8. /\ EntriesAt(lib, after, n) = s /\ SettingsAt(lib, after, n) = o
        /\ EntriesAt(lib, modules, n) = d.entries /\ SettingsAt(lib, modules, n) = d.settings
    BY <1>4, <2>7 DEF EntriesAt, SettingsAt, d, e
  <2>9. e = d <=> s = d.entries /\ o = d.settings
    BY <2>2, <2>3
  <2> QED BY <1>4, <2>6, <2>7, <2>8, <2>9 DEF s, o, d, e
<1> QED BY <1>3, <1>4

\* The root after a save, and the ids the documents have then.
LEMMA SavedRootIs ==
    ASSUME NEW lib, Book(lib)!Wellformed, NEW root, NEW modules, NEW config,
           MayBeSaved(lib, root, modules, config)
    PROVE  LET after == Book(lib)!Saved(root, modules, config).root
               known == IdsUpTo(lib, root, modules, Len(lib.names))
           IN  /\ after \in Book(lib)!RootDocs /\ Book(lib)!Distinct(after.entries)
               /\ Book(lib)!Ids(after.entries)
                    = Book(lib)!Ids(root.entries) \cup (Book(lib)!Ids(config.entries) \ known)
               /\ \A e \in ToSet(after.entries) :
                    Book(lib)!EntryOwner(modules, e.id) = "root" => e \in ToSet(config.entries)
               /\ after.settings = IF Book(lib)!SettingsOwner(modules) = "root"
                                   THEN config.settings ELSE root.settings
<1> DEFINE known  == IdsUpTo(lib, root, modules, Len(lib.names))
           synced == Book(lib)!Synced(root.entries, config, modules, "root")
           new    == Book(lib)!NewTo(known, config.entries)
           set    == IF Book(lib)!SettingsOwner(modules) = "root"
                     THEN config.settings ELSE root.settings
           after  == Book(lib)!Saved(root, modules, config).root
<1>1. /\ after = [settings |-> set, entries |-> synced \o new]
      /\ after.settings = set /\ after.entries = synced \o new
  <2>1. after = Book(lib)!SavedRoot(root, modules, config)
    BY DEF Book!Saved
  <2>2. after = [settings |-> set, entries |-> synced \o new]
    BY <2>1, KnownIds DEF Book!SavedRoot, Book!Root
  <2> QED BY <2>2
<1>2. /\ root.entries \in Seq(lib.entries) /\ config.entries \in Seq(lib.entries)
      /\ root.settings \in lib.settings /\ config.settings \in lib.settings
      /\ Book(lib)!Distinct(root.entries) /\ Book(lib)!Distinct(config.entries)
      /\ known \subseteq Book(lib)!Ids(config.entries)
  BY DEF MayBeSaved, Documented, SoundUpTo, Book!RootDocs
<1> HIDE DEF after
<1>3. /\ synced \in Seq(lib.entries) /\ DOMAIN synced = DOMAIN root.entries
      /\ \A i \in DOMAIN root.entries :
           /\ synced[i].id = root.entries[i].id
           /\ synced[i] = IF /\ Book(lib)!EntryOwner(modules, root.entries[i].id) = "root"
                             /\ root.entries[i].id \in Book(lib)!Ids(config.entries)
                          THEN Book(lib)!EntryOf(config.entries, root.entries[i].id)
                          ELSE root.entries[i]
      /\ Book(lib)!Ids(synced) = Book(lib)!Ids(root.entries) /\ Book(lib)!Distinct(synced)
  BY <1>2, SyncedAre
<1>4. /\ new \in Seq(lib.entries) /\ Book(lib)!Distinct(new)
      /\ ToSet(new) = {e \in ToSet(config.entries) : e.id \notin known}
  BY <1>2, NewToIs
<1>5. Book(lib)!Ids(root.entries) \subseteq known
  BY DEF IdsUpTo
<1>6. Book(lib)!Ids(new) = Book(lib)!Ids(config.entries) \ known
  <2>1. /\ Book(lib)!Ids(new) = {e.id : e \in ToSet(new)}
        /\ Book(lib)!Ids(config.entries) = {e.id : e \in ToSet(config.entries)}
    BY BookBasics
  <2> HIDE DEF new, known
  <2> QED BY <1>4, <2>1
<1> HIDE DEF synced, new, known
<1>7. /\ synced \o new \in Seq(lib.entries) /\ ToSet(synced \o new) = ToSet(synced) \cup ToSet(new)
      /\ Book(lib)!Distinct(synced \o new)
  BY <1>3, <1>4, <1>5, <1>6, Joined
<1>8. after \in Book(lib)!RootDocs
  BY <1>1, <1>2, <1>7 DEF Book!RootDocs
<1>9. Book(lib)!Ids(after.entries) = Book(lib)!Ids(root.entries) \cup (Book(lib)!Ids(config.entries) \ known)
  <2>1. /\ Book(lib)!Ids(synced) = {e.id : e \in ToSet(synced)}
        /\ Book(lib)!Ids(new) = {e.id : e \in ToSet(new)}
        /\ Book(lib)!Ids(after.entries) = {e.id : e \in ToSet(synced \o new)}
    BY <1>1, BookBasics
  <2>2. Book(lib)!Ids(after.entries) = Book(lib)!Ids(synced) \cup Book(lib)!Ids(new)
    BY <1>7, <2>1
  <2> QED BY <1>3, <1>6, <2>2
<1>10. ASSUME NEW e \in ToSet(after.entries), Book(lib)!EntryOwner(modules, e.id) = "root"
       PROVE  e \in ToSet(config.entries)
  <2>1. CASE e \in ToSet(new)
    BY <1>4, <2>1
  <2>2. CASE e \in ToSet(synced)
    <3>1. PICK i \in DOMAIN root.entries : e = synced[i]
      BY <1>3, <2>2 DEF ToSet
    <3>2. root.entries[i].id \in Book(lib)!Ids(config.entries)
      BY <1>2, <1>5, EntryOfIs DEF ToSet
    <3>3. e = Book(lib)!EntryOf(config.entries, root.entries[i].id)
      BY <1>3, <1>10, <3>1, <3>2
    <3> QED BY <3>2, <3>3, EntryOfIs
  <2> QED BY <1>1, <1>7, <2>1, <2>2
<1> QED BY <1>1, <1>7, <1>8, <1>9, <1>10 DEF after, known

\* The documents after a save can be merged.
LEMMA SavedSound ==
    ASSUME NEW lib, Book(lib)!Wellformed, NEW root, NEW modules, NEW config,
           MayBeSaved(lib, root, modules, config)
    PROVE  LET saved == Book(lib)!Saved(root, modules, config)
               known == IdsUpTo(lib, root, modules, Len(lib.names))
           IN  /\ Documented(lib, saved.root, saved.modules)
               /\ SoundUpTo(lib, saved.root, saved.modules, Len(lib.names))
               /\ IdsUpTo(lib, saved.root, saved.modules, Len(lib.names))
                    = Book(lib)!Ids(config.entries)
               /\ \A n \in 1 .. Len(lib.names) :
                    Book(lib)!Ids(EntriesAt(lib, saved.modules, n))
                      = Book(lib)!Ids(EntriesAt(lib, modules, n))
<1> DEFINE N == Len(lib.names)
           R == Book(lib)!Saved(root, modules, config).root
           M == Book(lib)!Saved(root, modules, config).modules
           known == IdsUpTo(lib, root, modules, N)
           extra == Book(lib)!Ids(config.entries) \ known
<1>1. N \in Nat
  BY NamesAre
<1>2. /\ R \in Book(lib)!RootDocs /\ Book(lib)!Distinct(R.entries)
      /\ Book(lib)!Ids(R.entries) = Book(lib)!Ids(root.entries) \cup extra
  BY SavedRootIs
<1>3. \A n \in 1 .. N :
        /\ M[lib.names[n]] \in Book(lib)!ModuleDocs \cup {lib.absent}
        /\ M[lib.names[n]] = lib.absent <=> modules[lib.names[n]] = lib.absent
        /\ modules[lib.names[n]] # lib.absent =>
             M[lib.names[n]].replaces = modules[lib.names[n]].replaces
        /\ EntriesAt(lib, M, n)
             = Book(lib)!Synced(EntriesAt(lib, modules, n), config, modules, lib.names[n])
        /\ SettingsAt(lib, M, n) =
             IF Book(lib)!SettingsOwner(modules) = lib.names[n]
             THEN Book(lib)!Recorded(SettingsAt(lib, modules, n),
                                     Book(lib)!Merge(root, modules).settings, config.settings)
             ELSE SettingsAt(lib, modules, n)
  BY SavedModules
<1> HIDE DEF R, M
<1>4. /\ Documented(lib, root, modules) /\ SoundUpTo(lib, root, modules, N)
      /\ config.entries \in Seq(lib.entries) /\ known \subseteq Book(lib)!Ids(config.entries)
  BY DEF MayBeSaved, Book!RootDocs
<1>5. Documented(lib, R, M)
  BY <1>2, <1>3, NamesAre DEF Documented
<1>6. \A n \in 1 .. N :
        /\ Book(lib)!Ids(EntriesAt(lib, M, n)) = Book(lib)!Ids(EntriesAt(lib, modules, n))
        /\ Book(lib)!Distinct(EntriesAt(lib, M, n))
             <=> Book(lib)!Distinct(EntriesAt(lib, modules, n))
  BY <1>3, <1>4, DocumentAt, SyncedAre
<1>7. ASSUME NEW n \in 0 .. N
      PROVE  IdsUpTo(lib, R, M, n) = IdsUpTo(lib, root, modules, n) \cup extra
  <2>1. \A k \in 1 .. n : k \in 1 .. N
    BY <1>1
  <2>2. UNION {Book(lib)!Ids(EntriesAt(lib, M, k)) : k \in 1 .. n}
          = UNION {Book(lib)!Ids(EntriesAt(lib, modules, k)) : k \in 1 .. n}
    BY <1>6, <2>1
  <2> HIDE DEF extra
  <2> QED BY <1>2, <2>2 DEF IdsUpTo
<1>8. ASSUME NEW n \in 1 .. N
      PROVE  Admitted(lib, R, M, n)
  <2>1. Admitted(lib, root, modules, n)
    BY <1>4 DEF SoundUpTo
  <2>2. SUFFICES ASSUME M[lib.names[n]] # lib.absent
                 PROVE  /\ Book(lib)!Distinct(EntriesAt(lib, M, n))
                        /\ \/ M[lib.names[n]].replaces
                           \/ /\ M[lib.names[n]].settings = lib.noSection
                              /\ IdsUpTo(lib, R, M, n - 1)
                                   \cap Book(lib)!Ids(EntriesAt(lib, M, n)) = {}
    BY DEF Admitted
  <2>3. /\ modules[lib.names[n]] # lib.absent
        /\ M[lib.names[n]].replaces = modules[lib.names[n]].replaces
    BY <1>3, <2>2
  <2>4. Book(lib)!Distinct(EntriesAt(lib, M, n))
    BY <1>6, <2>1, <2>3 DEF Admitted
  <2>5. CASE modules[lib.names[n]].replaces
    BY <2>3, <2>4, <2>5
  <2>6. CASE /\ modules[lib.names[n]].settings = lib.noSection
             /\ IdsUpTo(lib, root, modules, n - 1)
                  \cap Book(lib)!Ids(EntriesAt(lib, modules, n)) = {}
    <3>1. SettingsAt(lib, modules, n) = lib.noSection
      BY <2>6 DEF SettingsAt
    <3>2. Book(lib)!SettingsOwner(modules) # lib.names[n]
      <4>1. lib.names[n] # "root"
        BY NamesAre DEF Book!Wellformed, Book!Root
      <4>2. ASSUME NEW p \in 1 .. N, SettingsAt(lib, modules, p) # lib.noSection
            PROVE  lib.names[p] # lib.names[n]
        BY <3>1, <4>2, NamesAre
      <4> QED BY <4>1, <4>2, SettingsOwnerIs
    <3>3. M[lib.names[n]].settings = lib.noSection
      BY <1>3, <2>2, <3>1, <3>2 DEF SettingsAt
    <3>4. n - 1 \in 0 .. N
      BY <1>1
    <3>5. Book(lib)!Ids(EntriesAt(lib, modules, n)) \subseteq known
      BY DEF IdsUpTo
    <3>6. IdsUpTo(lib, R, M, n - 1) = IdsUpTo(lib, root, modules, n - 1) \cup extra
      BY <1>7, <3>4
    <3>7. IdsUpTo(lib, R, M, n - 1) \cap Book(lib)!Ids(EntriesAt(lib, M, n)) = {}
      <4>1. extra \cap known = {}
        OBVIOUS
      <4> HIDE DEF extra, known
      <4> QED BY <1>6, <2>6, <3>5, <3>6, <4>1
    <3> QED BY <2>4, <3>3, <3>7
  <2> QED BY <2>1, <2>3, <2>5, <2>6 DEF Admitted
<1>9. SoundUpTo(lib, R, M, N)
  BY <1>2, <1>8 DEF SoundUpTo
<1>10. IdsUpTo(lib, R, M, N) = Book(lib)!Ids(config.entries)
  <2>1. IdsUpTo(lib, R, M, N) = known \cup extra
    BY <1>1, <1>7
  <2> QED BY <1>4, <2>1
<1> QED BY <1>5, <1>6, <1>9, <1>10 DEF R, M

\* The entries that are merged after a save are those that were saved.
LEMMA SavedEntries ==
    ASSUME NEW lib, Book(lib)!Wellformed, NEW root, NEW modules, NEW config,
           MayBeSaved(lib, root, modules, config), NEW c,
           LET saved == Book(lib)!Saved(root, modules, config)
           IN  Layer(lib, c, saved.root, saved.modules, Len(lib.names))
    PROVE  ToSet(c.entries) = ToSet(config.entries)
<1> DEFINE N == Len(lib.names)
           R == Book(lib)!Saved(root, modules, config).root
           M == Book(lib)!Saved(root, modules, config).modules
<1>1. N \in Nat
  BY NamesAre
<1>2. /\ \A e \in ToSet(R.entries) :
           Book(lib)!EntryOwner(modules, e.id) = "root" => e \in ToSet(config.entries)
  BY SavedRootIs
<1>3. /\ IdsUpTo(lib, R, M, N) = Book(lib)!Ids(config.entries)
      /\ \A n \in 1 .. N :
           Book(lib)!Ids(EntriesAt(lib, M, n)) = Book(lib)!Ids(EntriesAt(lib, modules, n))
  BY SavedSound
<1>4. \A n \in 1 .. N :
        EntriesAt(lib, M, n)
          = Book(lib)!Synced(EntriesAt(lib, modules, n), config, modules, lib.names[n])
  BY SavedModules
<1>5. Layer(lib, c, R, M, N)
  OBVIOUS
<1> HIDE DEF R, M
<1>6. /\ Documented(lib, root, modules) /\ config.entries \in Seq(lib.entries)
      /\ Book(lib)!Distinct(config.entries)
      /\ IdsUpTo(lib, root, modules, N) \subseteq Book(lib)!Ids(config.entries)
  BY DEF MayBeSaved, Book!RootDocs
<1>7. ASSUME NEW e \in ToSet(c.entries)
      PROVE  e \in ToSet(config.entries)
  <2>1. CASE /\ e \in ToSet(R.entries)
             /\ \A j \in 1 .. N : e.id \notin Book(lib)!Ids(EntriesAt(lib, M, j))
    <3>1. \A j \in 1 .. N : e.id \notin Book(lib)!Ids(EntriesAt(lib, modules, j))
      BY <1>3, <2>1
    <3>2. Book(lib)!EntryOwner(modules, e.id) = "root"
      BY <3>1, EntryOwnerIs
    <3> QED BY <1>2, <2>1, <3>2
  <2>2. ASSUME NEW k \in 1 .. N, e \in ToSet(EntriesAt(lib, M, k)),
               \A j \in k + 1 .. N : e.id \notin Book(lib)!Ids(EntriesAt(lib, M, j))
        PROVE  e \in ToSet(config.entries)
    <3> DEFINE s == EntriesAt(lib, modules, k)
               t == Book(lib)!Synced(s, config, modules, lib.names[k])
    <3>1. s \in Seq(lib.entries)
      BY <1>6, DocumentAt
    <3>2. /\ DOMAIN t = DOMAIN s
          /\ \A i \in DOMAIN s :
               /\ t[i].id = s[i].id
               /\ t[i] = IF /\ Book(lib)!EntryOwner(modules, s[i].id) = lib.names[k]
                            /\ s[i].id \in Book(lib)!Ids(config.entries)
                         THEN Book(lib)!EntryOf(config.entries, s[i].id) ELSE s[i]
      BY <1>6, <3>1, SyncedAre
    <3> HIDE DEF t
    <3>3. PICK i \in DOMAIN s : e = t[i]
      BY <1>4, <2>2, <3>2 DEF ToSet, t
    <3>4. e.id = s[i].id /\ e.id \in Book(lib)!Ids(s)
      <4>1. s[i] \in ToSet(s)
        BY DEF ToSet
      <4> HIDE DEF s
      <4> QED BY <3>2, <3>3, <4>1, EntryOfIs
    <3>5. Book(lib)!EntryOwner(modules, e.id) = lib.names[k]
      <4>1. \A j \in k + 1 .. N : j \in 1 .. N
        BY <1>1
      <4>2. \A j \in k + 1 .. N : e.id \notin Book(lib)!Ids(EntriesAt(lib, modules, j))
        BY <1>3, <2>2, <4>1
      <4>3. ~(\A n \in 1 .. N : e.id \notin Book(lib)!Ids(EntriesAt(lib, modules, n)))
        BY <3>4
      <4>4. PICK p \in 1 .. N :
               /\ Book(lib)!EntryOwner(modules, e.id) = lib.names[p]
               /\ e.id \in Book(lib)!Ids(EntriesAt(lib, modules, p))
               /\ \A n \in p + 1 .. N : e.id \notin Book(lib)!Ids(EntriesAt(lib, modules, n))
        BY <4>3, EntryOwnerIs
      <4>5. p \notin k + 1 .. N /\ k \notin p + 1 .. N
        BY <3>4, <4>2, <4>4
      <4>6. p = k
        BY <1>1, <4>5
      <4> QED BY <4>4, <4>6
    <3>6. e.id \in Book(lib)!Ids(config.entries)
      BY <1>6, <3>4 DEF IdsUpTo
    <3>7. e = Book(lib)!EntryOf(config.entries, e.id)
      BY <3>2, <3>3, <3>4, <3>5, <3>6
    <3> QED BY <3>6, <3>7, EntryOfIs
  <2> QED BY <1>5, <2>1, <2>2 DEF Layer, Sourced
<1>8. ASSUME NEW e \in ToSet(config.entries)
      PROVE  e \in ToSet(c.entries)
  <2>1. e.id \in Book(lib)!Ids(c.entries)
    BY <1>3, <1>5, EntryOfIs DEF Layer
  <2>2. Book(lib)!EntryOf(c.entries, e.id) \in ToSet(c.entries)
        /\ Book(lib)!EntryOf(c.entries, e.id).id = e.id
    BY <2>1, EntryOfIs
  <2>3. Book(lib)!EntryOf(c.entries, e.id) = e
    BY <1>6, <1>7, <2>2, EntryOfIs
  <2> QED BY <2>2, <2>3
<1> QED BY <1>7, <1>8

\* Layers behind the last that has settings keep them.
LEMMA SettingsStay ==
    ASSUME NEW lib, Book(lib)!Wellformed, NEW root, NEW modules,
           Documented(lib, root, modules), NEW f, Layers(lib, f, root, modules, Len(lib.names)),
           f[Len(lib.names)] # lib.failed, NEW p \in 0 .. Len(lib.names),
           \A n \in p + 1 .. Len(lib.names) : SettingsAt(lib, modules, n) = lib.noSection
    PROVE  f[Len(lib.names)].settings = f[p].settings
<1> DEFINE N == Len(lib.names)
           good == {n \in 0 .. N - p : f[p + n].settings = f[p].settings}
<1>1. N \in Nat /\ p \in Nat /\ N - p \in Nat /\ p + 0 = p /\ p + (N - p) = N
  BY NamesAre
<1>2. 0 \in good
  BY <1>1
<1>3. ASSUME NEW n \in 1 .. N - p, n - 1 \in good
      PROVE  n \in good
  <2>1. /\ p + n \in 1 .. N /\ p + n \in p + 1 .. N /\ p + n - 1 = p + (n - 1) /\ n \in 0 .. N - p
    BY <1>1
  <2>2. f[p + n].settings
          = Book(lib)!Overridden(f[p + n - 1].settings, SettingsAt(lib, modules, p + n))
    BY <2>1, SettingsFollow
  <2>3. SettingsAt(lib, modules, p + n) = lib.noSection
    BY <2>1
  <2>4. f[p + n].settings = f[p + (n - 1)].settings
    BY <2>1, <2>2, <2>3 DEF Book!Overridden
  <2> QED BY <1>3, <2>1, <2>4
<1> HIDE DEF good
<1>4. N - p \in good
  <2>1. \A n \in 0 .. N - p : n \in good
    BY <1>1, <1>2, <1>3, UpTo
  <2>2. N - p \in 0 .. N - p
    BY <1>1
  <2> QED BY <2>1, <2>2
<1> QED BY <1>1, <1>4 DEF good

\* Documents with the same settings up to a place give the same settings there.
LEMMA SettingsAgree ==
    ASSUME NEW lib, Book(lib)!Wellformed, NEW root, NEW modules, NEW other, NEW others,
           Documented(lib, root, modules), Documented(lib, other, others),
           NEW f, Layers(lib, f, root, modules, Len(lib.names)), f[Len(lib.names)] # lib.failed,
           NEW g, Layers(lib, g, other, others, Len(lib.names)), g[Len(lib.names)] # lib.failed,
           NEW p \in 0 .. Len(lib.names), root.settings = other.settings,
           \A n \in 1 .. p : SettingsAt(lib, modules, n) = SettingsAt(lib, others, n)
    PROVE  f[p].settings = g[p].settings
<1> DEFINE good == {n \in 0 .. p : f[n].settings = g[n].settings}
<1>1. Len(lib.names) \in Nat /\ p \in Nat
  BY NamesAre
<1>2. f[0] = root /\ g[0] = other
  BY SettingsFollow
<1>3. 0 \in good
  BY <1>1, <1>2
<1>4. ASSUME NEW n \in 1 .. p, n - 1 \in good
      PROVE  n \in good
  <2>1. n \in 1 .. Len(lib.names) /\ n \in 0 .. p
    BY <1>1
  <2>2. /\ f[n].settings = Book(lib)!Overridden(f[n - 1].settings, SettingsAt(lib, modules, n))
        /\ g[n].settings = Book(lib)!Overridden(g[n - 1].settings, SettingsAt(lib, others, n))
    BY <2>1, SettingsFollow
  <2> QED BY <1>4, <2>1, <2>2
<1> HIDE DEF good
<1>5. p \in good
  <2>1. \A n \in 0 .. p : n \in good
    BY <1>1, <1>3, <1>4, UpTo
  <2>2. p \in 0 .. p
    BY <1>1
  <2> QED BY <2>1, <2>2
<1> QED BY <1>5 DEF good

\* The settings that are merged after a save are those that were saved.
LEMMA SavedSettings ==
    ASSUME NEW lib, Book(lib)!Wellformed, NEW root, NEW modules, NEW config,
           MayBeSaved(lib, root, modules, config), NEW g,
           LET saved == Book(lib)!Saved(root, modules, config)
           IN  Layers(lib, g, saved.root, saved.modules, Len(lib.names)),
           g[Len(lib.names)] # lib.failed
    PROVE  g[Len(lib.names)].settings = config.settings
<1> DEFINE N == Len(lib.names)
           R == Book(lib)!Saved(root, modules, config).root
           M == Book(lib)!Saved(root, modules, config).modules
           previous == Book(lib)!Merge(root, modules)
           owner == Book(lib)!SettingsOwner(modules)
<1>1. N \in Nat /\ \A n \in 1 .. N : lib.names[n] # "root"
  BY NamesAre DEF Book!Wellformed, Book!Root
<1>2. R.settings = IF owner = "root" THEN config.settings ELSE root.settings
  BY SavedRootIs
<1>3. \A n \in 1 .. N :
        SettingsAt(lib, M, n) =
          IF owner = lib.names[n]
          THEN Book(lib)!Recorded(SettingsAt(lib, modules, n), previous.settings, config.settings)
          ELSE SettingsAt(lib, modules, n)
  BY SavedModules
<1>4. Documented(lib, R, M)
  BY SavedSound
<1>5. Layers(lib, g, R, M, N)
  OBVIOUS
<1>6. /\ Documented(lib, root, modules) /\ previous # lib.failed
      /\ config \in Book(lib)!RootDocs /\ config.settings \in lib.settings
  BY DEF MayBeSaved, Book!RootDocs
<1>7. PICK f : Layers(lib, f, root, modules, N) /\ f[N] = previous /\ f[N] # lib.failed
  <2>1. PICK f : /\ Layers(lib, f, root, modules, N)
                 /\ previous = IF f[N] # lib.failed /\ Book(lib)!Valid(f[N])
                               THEN f[N] ELSE lib.failed
    BY <1>1, MergeIsLayers
  <2> QED BY <1>6, <2>1
<1> HIDE DEF R, M, previous, owner
<1>8. \A n \in 0 .. N : f[n].settings \in lib.settings /\ g[n].settings \in lib.settings
  <2>1. \A n \in 0 .. N : Layer(lib, f[n], root, modules, n) /\ Layer(lib, g[n], R, M, n)
    BY <1>4, <1>5, <1>6, <1>7, SettingsFollow
  <2> QED BY <2>1 DEF Layer, Book!RootDocs
<1>9. CASE owner = "root" /\ \A n \in 1 .. N : SettingsAt(lib, modules, n) = lib.noSection
  <2>1. \A n \in 0 + 1 .. N : SettingsAt(lib, M, n) = lib.noSection
    BY <1>1, <1>3, <1>9
  <2>2. 0 \in 0 .. N
    BY <1>1
  <2>3. g[N].settings = g[0].settings
    BY <1>4, <1>5, <2>1, <2>2, SettingsStay
  <2>4. g[0] = R
    BY <1>4, <1>5, SettingsFollow
  <2> QED BY <1>2, <1>9, <2>3, <2>4
<1>10. ASSUME NEW p \in 1 .. N, owner = lib.names[p], SettingsAt(lib, modules, p) # lib.noSection,
              \A n \in p + 1 .. N : SettingsAt(lib, modules, n) = lib.noSection
       PROVE  g[N].settings = config.settings
  <2> DEFINE over == SettingsAt(lib, modules, p)
             r == SettingsAt(lib, M, p)
             s == f[p - 1].settings
             next == config.settings
             last == previous.settings
  <2>1. p \in 0 .. N /\ p - 1 \in 0 .. N /\ \A n \in 1 .. p - 1 : n \in 1 .. N /\ n # p
    BY <1>1
  <2>2. \A n \in 1 .. N : n # p => SettingsAt(lib, M, n) = SettingsAt(lib, modules, n)
    BY <1>3, <1>10, NamesAre
  <2>3. \A n \in p + 1 .. N : n \in 1 .. N /\ n # p
    BY <1>1
  <2>4. \A n \in p + 1 .. N : SettingsAt(lib, M, n) = lib.noSection
    BY <1>10, <2>2, <2>3
  <2>5. g[N].settings = g[p].settings
    BY <1>4, <1>5, <2>1, <2>4, SettingsStay
  <2>6. f[N].settings = f[p].settings
    <3>1. f[N] # lib.failed /\ Layers(lib, f, root, modules, N) /\ Documented(lib, root, modules)
      BY <1>6, <1>7
    <3>2. p \in 0 .. Len(lib.names)
      BY <2>1
    <3>3. \A n \in p + 1 .. Len(lib.names) : SettingsAt(lib, modules, n) = lib.noSection
      BY <1>10
    <3>4. f[Len(lib.names)].settings = f[p].settings
      <4> HIDE DEF over, r, s, next, last
      <4> QED BY <3>1, <3>2, <3>3, SettingsStay
    <3> QED BY <3>4
  <2>7. g[p - 1].settings = s
    <3>1. root.settings = R.settings
      BY <1>1, <1>2, <1>10
    <3>2. \A n \in 1 .. p - 1 : SettingsAt(lib, modules, n) = SettingsAt(lib, M, n)
      BY <2>1, <2>2
    <3> QED BY <1>4, <1>5, <1>6, <1>7, <2>1, <3>1, <3>2, SettingsAgree
  <2>8. /\ f[p].settings = Book(lib)!Overridden(s, over)
        /\ g[p].settings = Book(lib)!Overridden(s, r)
    BY <1>4, <1>5, <1>6, <1>7, <2>7, SettingsFollow
  <2>9. over \in Book(lib)!Parts /\ s \in lib.settings /\ last \in lib.settings /\ next \in lib.settings
    BY <1>6, <1>7, <1>8, <1>10, <2>1, DocumentAt
  <2>10. /\ r \in Book(lib)!Parts
         /\ \A x \in DOMAIN next :
              /\ last[x] # next[x] => x \in DOMAIN r /\ r[x] = next[x]
              /\ last[x] = next[x] => x \in DOMAIN r <=> x \in DOMAIN over
              /\ last[x] = next[x] /\ x \in DOMAIN over => r[x] = over[x]
    <3>1. r = Book(lib)!Recorded(over, last, next)
      BY <1>3, <1>10
    <3> HIDE DEF r, over, last, next
    <3> QED BY <2>9, <3>1, RecordedIs
  <2>11. over # lib.noSection /\ r # lib.noSection
    BY <1>10, <2>9, <2>10 DEF Book!Wellformed
  <2>12. /\ last = [x \in DOMAIN s |-> IF x \in DOMAIN over THEN over[x] ELSE s[x]]
         /\ g[N].settings = [x \in DOMAIN s |-> IF x \in DOMAIN r THEN r[x] ELSE s[x]]
    <3>1. last = f[p].settings /\ g[N].settings = g[p].settings
      BY <1>7, <2>5, <2>6
    <3> HIDE DEF r, over, s, last
    <3>2. r \in Book(lib)!Parts \cup {lib.noSection} /\ over \in Book(lib)!Parts \cup {lib.noSection}
      BY <2>9, <2>10
    <3>3. /\ f[p].settings = [x \in DOMAIN s |-> IF x \in DOMAIN over THEN over[x] ELSE s[x]]
          /\ g[p].settings = [x \in DOMAIN s |-> IF x \in DOMAIN r THEN r[x] ELSE s[x]]
      BY <2>8, <2>9, <2>11, <3>2, OverriddenIs
    <3> QED BY <3>1, <3>3
  <2>13. DOMAIN next = DOMAIN s /\ next = [x \in DOMAIN s |-> next[x]]
    <3> HIDE DEF next, s
    <3> QED BY <2>9 DEF Book!Wellformed, Book!Tabular
  <2>14. \A x \in DOMAIN s : (IF x \in DOMAIN r THEN r[x] ELSE s[x]) = next[x]
    <3> HIDE DEF r, over, s, last, next
    <3> QED BY <2>10, <2>12, <2>13
  <2> HIDE DEF r, s, next
  <2> QED BY <2>12, <2>13, <2>14 DEF next
<1> QED BY <1>1, <1>9, <1>10, SettingsOwnerIs DEF owner

\* Whether a configuration is valid depends on its settings and its ids.
LEMMA ValidOf ==
    ASSUME NEW lib, NEW c, NEW d, c.settings = d.settings,
           Book(lib)!Ids(c.entries) = Book(lib)!Ids(d.entries), Book(lib)!Valid(c)
    PROVE  Book(lib)!Valid(d)
BY DEF Book!Valid, Book!KnownPages

\* A save is what the next load merges, whatever is changed (ConfigManager::save).
THEOREM EverySaveReloads ==
    ASSUME NEW lib, Book(lib)!Wellformed, NEW root, NEW modules, NEW config,
           MayBeSaved(lib, root, modules, config)
    PROVE  Book(lib)!SaveReloads(root, modules, config)
<1> DEFINE N == Len(lib.names)
           R == Book(lib)!Saved(root, modules, config).root
           M == Book(lib)!Saved(root, modules, config).modules
           again == Book(lib)!Merge(R, M)
<1> SUFFICES ASSUME Book(lib)!Valid(config)
             PROVE  again # lib.failed /\ Book(lib)!SameValues(again, config)
  BY DEF Book!SaveReloads
<1>1. N \in Nat
  BY NamesAre
<1>2. PICK g : /\ Layers(lib, g, R, M, N)
               /\ again = IF g[N] # lib.failed /\ Book(lib)!Valid(g[N]) THEN g[N] ELSE lib.failed
  BY <1>1, MergeIsLayers
<1>3. /\ Documented(lib, R, M) /\ SoundUpTo(lib, R, M, N)
      /\ IdsUpTo(lib, R, M, N) = Book(lib)!Ids(config.entries)
  BY SavedSound
<1>4. g[N] # lib.failed /\ Layer(lib, g[N], R, M, N)
  <2>1. N \in 0 .. N
    BY <1>1
  <2> HIDE DEF R, M
  <2> QED BY <1>2, <1>3, <2>1, LayersAre
<1>5. ToSet(g[N].entries) = ToSet(config.entries)
  BY <1>4, SavedEntries
<1>6. g[N].settings = config.settings
  BY <1>2, <1>4, SavedSettings
<1>7. Book(lib)!Ids(g[N].entries) = Book(lib)!Ids(config.entries)
  BY <1>3, <1>4 DEF Layer
<1>8. Book(lib)!Valid(g[N])
  BY <1>6, <1>7, ValidOf
<1>9. again = g[N] /\ again # lib.failed
  BY <1>2, <1>4, <1>8
<1> HIDE DEF again, R, M
<1>10. Book(lib)!SameValues(again, config)
  BY <1>5, <1>6, <1>9, BookBasics DEF Book!SameValues
<1> QED BY <1>9, <1>10

\* A save leaves alone the documents that own nothing of what changed.
THEOREM EverySaveIsLocal ==
    ASSUME NEW lib, Book(lib)!Wellformed, NEW root, NEW modules, NEW config,
           MayBeSaved(lib, root, modules, config)
    PROVE  Book(lib)!SaveIsLocal(root, modules, config)
<1> DEFINE N == Len(lib.names)
           M == Book(lib)!Saved(root, modules, config).modules
           previous == Book(lib)!Merge(root, modules)
           fresh == Book(lib)!Range(config.entries) \ Book(lib)!Range(previous.entries)
           touched == {Book(lib)!EntryOwner(modules, e.id) : e \in fresh}
                      \cup (IF config.settings = previous.settings THEN {}
                            ELSE {Book(lib)!SettingsOwner(modules)})
<1> SUFFICES ASSUME NEW name \in Book(lib)!Modules, M[name] # modules[name]
             PROVE  name \in touched
  BY DEF Book!SaveIsLocal
<1>1. N \in Nat
  BY NamesAre
<1>2. PICK n \in 1 .. N : name = lib.names[n]
  BY NamesAre
<1> DEFINE s == EntriesAt(lib, modules, n)
           t == Book(lib)!Synced(s, config, modules, name)
<1>3. /\ EntriesAt(lib, M, n) = t
      /\ SettingsAt(lib, M, n) =
           IF Book(lib)!SettingsOwner(modules) = name
           THEN Book(lib)!Recorded(SettingsAt(lib, modules, n), previous.settings, config.settings)
           ELSE SettingsAt(lib, modules, n)
      /\ M[name] = modules[name] <=> /\ EntriesAt(lib, M, n) = s
                                     /\ SettingsAt(lib, M, n) = SettingsAt(lib, modules, n)
  BY <1>2, SavedModules
<1>4. /\ Documented(lib, root, modules) /\ config \in Book(lib)!RootDocs
      /\ config.settings \in lib.settings /\ config.entries \in Seq(lib.entries)
      /\ Book(lib)!Distinct(config.entries) /\ previous # lib.failed
  BY DEF MayBeSaved, Book!RootDocs
<1>5. /\ Layer(lib, previous, root, modules, N) /\ SoundUpTo(lib, root, modules, N)
      /\ previous.settings \in lib.settings /\ previous.entries \in Seq(lib.entries)
  BY <1>4, MergedLayer DEF Layer, Book!RootDocs
<1> HIDE DEF M, previous
<1>6. CASE SettingsAt(lib, M, n) # SettingsAt(lib, modules, n)
  <2>1. Book(lib)!SettingsOwner(modules) = name
    BY <1>3, <1>6
  <2>2. SettingsAt(lib, modules, n) \in Book(lib)!Parts
    <3>1. name # "root"
      BY DEF Book!Wellformed, Book!Root
    <3>2. SettingsAt(lib, modules, n) # lib.noSection
      BY <1>2, <2>1, <3>1, SettingsOwnerIs, NamesAre
    <3> QED BY <1>4, <3>2, DocumentAt
  <2>3. previous.settings # config.settings
    <3>1. SettingsAt(lib, M, n)
            = Book(lib)!Recorded(SettingsAt(lib, modules, n), previous.settings, config.settings)
      BY <1>3, <2>1
    <3> QED BY <1>4, <1>5, <1>6, <2>2, <3>1, RecordedIs
  <2> QED BY <2>1, <2>3
<1>7. CASE t # s
  <2>1. s \in Seq(lib.entries)
    BY <1>4, DocumentAt
  <2>2. /\ t \in Seq(lib.entries) /\ DOMAIN t = DOMAIN s
        /\ \A i \in DOMAIN s :
             /\ t[i].id = s[i].id
             /\ t[i] = IF /\ Book(lib)!EntryOwner(modules, s[i].id) = name
                          /\ s[i].id \in Book(lib)!Ids(config.entries)
                       THEN Book(lib)!EntryOf(config.entries, s[i].id) ELSE s[i]
    BY <1>4, <2>1, SyncedAre
  <2> HIDE DEF t
  <2>3. PICK i \in DOMAIN s : t[i] # s[i]
    <3> HIDE DEF s
    <3>1. t = [i \in 1 .. Len(t) |-> t[i]] /\ s = [i \in 1 .. Len(s) |-> s[i]]
          /\ DOMAIN t = 1 .. Len(t) /\ DOMAIN s = 1 .. Len(s)
      BY <2>1, <2>2
    <3> QED BY <1>7, <2>2, <3>1
  <2> DEFINE e == Book(lib)!EntryOf(config.entries, s[i].id)
  <2>4. /\ Book(lib)!EntryOwner(modules, s[i].id) = name
        /\ s[i].id \in Book(lib)!Ids(config.entries) /\ t[i] = e
    BY <2>2, <2>3
  <2>5. e \in ToSet(config.entries) /\ e.id = s[i].id
    BY <2>4, EntryOfIs
  <2> HIDE DEF e
  <2>6. e \notin ToSet(previous.entries)
    <3> SUFFICES ASSUME e \in ToSet(previous.entries)
                 PROVE  FALSE
      OBVIOUS
    <3>1. s[i] \in ToSet(s)
      BY DEF ToSet
    <3>2. name # "root"
      BY DEF Book!Wellformed, Book!Root
    <3>3. PICK p \in 1 .. N :
             /\ Book(lib)!EntryOwner(modules, s[i].id) = lib.names[p]
             /\ \A m \in p + 1 .. N : s[i].id \notin Book(lib)!Ids(EntriesAt(lib, modules, m))
      BY <2>4, <3>2, EntryOwnerIs
    <3>4. p = n
      BY <1>2, <2>4, <3>3, NamesAre
    <3>5. e.id \in Book(lib)!Ids(s)
      BY <2>5, <3>1, EntryOfIs
    <3>6. e \in ToSet(s)
      <4>1. PICK k \in 1 .. N :
               /\ e \in ToSet(EntriesAt(lib, modules, k))
               /\ \A j \in k + 1 .. N : e.id \notin Book(lib)!Ids(EntriesAt(lib, modules, j))
        BY <1>5, <3>5 DEF Layer, Sourced
      <4>2. e.id \in Book(lib)!Ids(EntriesAt(lib, modules, k))
        BY <4>1, EntryOfIs
      <4>3. n \notin k + 1 .. N /\ k \notin n + 1 .. N
        BY <2>5, <3>3, <3>4, <3>5, <4>1, <4>2
      <4>4. k = n
        BY <1>1, <4>3
      <4> QED BY <4>1, <4>4
    <3>7. Book(lib)!Distinct(s)
      <4>1. modules[lib.names[n]] # lib.absent
        <5>1. ToSet(<<>>) = {}
          BY DEF ToSet
        <5> QED BY <3>6, <5>1 DEF EntriesAt
      <4> QED BY <1>5, <4>1 DEF SoundUpTo, Admitted
    <3>8. e = s[i]
      BY <2>5, <3>1, <3>6, <3>7, EntryOfIs
    <3> QED BY <2>3, <2>4, <3>8
  <2>7. e \in fresh
    BY <2>5, <2>6, BookBasics
  <2> HIDE DEF fresh
  <2>8. Book(lib)!EntryOwner(modules, e.id) = name
    BY <2>4, <2>5
  <2> QED BY <2>7, <2>8
<1> QED BY <1>3, <1>6, <1>7

LEMMA OneEntry ==
    ASSUME NEW lib, NEW E, NEW e \in E
    PROVE  <<e>> \in Seq(E) /\ ToSet(<<e>>) = {e} /\ Book(lib)!Distinct(<<e>>)
<1>1. <<e>> \in Seq(E) /\ <<e>>[1] = e
  OBVIOUS
<1>2. Len(<<e>>) = 1
  OBVIOUS
<1>3. DOMAIN <<e>> = 1 .. 1
  BY <1>1, <1>2
<1>4. \A i \in DOMAIN <<e>> : i = 1
  BY <1>3
<1>5. 1 \in DOMAIN <<e>>
  BY <1>3
<1>6. ToSet(<<e>>) = {e}
  BY <1>1, <1>4, <1>5 DEF ToSet
<1>7. Book(lib)!Distinct(<<e>>)
  BY <1>4 DEF Book!Distinct
<1> QED BY <1>1, <1>6, <1>7

\* An added card is what the merged configuration shows, when the module it is added to
\* is the last that has its id.
THEOREM EveryCardIsAdded ==
    ASSUME NEW lib, Book(lib)!Wellformed, NEW root, NEW modules,
           Documented(lib, root, modules), NEW name \in Book(lib)!Modules,
           modules \in [Book(lib)!Modules -> Book(lib)!ModuleDocs \cup {lib.absent}],
           modules[name] # lib.absent => Book(lib)!Distinct(modules[name].entries),
           NEW entry \in lib.entries
    PROVE  Book(lib)!AddTakesEffect(root, modules, name, entry)
<1> DEFINE N == Len(lib.names)
           M == Book(lib)!Upserted(modules, name, entry)
           after == Book(lib)!Merge(root, M)
<1> SUFFICES ASSUME after # lib.failed, Book(lib)!EntryOwner(M, entry.id) = name
             PROVE  entry \in Book(lib)!Range(after.entries)
  BY DEF Book!AddTakesEffect
<1>1. N \in Nat
  BY NamesAre
<1>2. PICK n \in 1 .. N : name = lib.names[n]
  BY NamesAre
<1> DEFINE old == modules[name]
           one == <<entry>>
           new == IF old = lib.absent
                  THEN [settings |-> lib.noSection, entries |-> one, replaces |-> TRUE]
                  ELSE [old EXCEPT !.entries = Book(lib)!MergedEntries(old.entries, one)]
<1>3. M = [modules EXCEPT ![name] = new]
  BY DEF Book!Upserted
<1>4. one \in Seq(lib.entries) /\ ToSet(one) = {entry} /\ Book(lib)!Distinct(one)
  BY OneEntry
<1>5. /\ new \in Book(lib)!ModuleDocs /\ entry \in ToSet(new.entries)
      /\ Book(lib)!Distinct(new.entries)
  <2> HIDE DEF one
  <2>1. CASE old = lib.absent
    BY <1>4, <2>1 DEF Book!ModuleDocs
  <2>2. CASE old # lib.absent
    <3> DEFINE t == Book(lib)!MergedEntries(old.entries, one)
    <3>1. old \in Book(lib)!ModuleDocs
      BY <2>2
    <3>2. old.entries \in Seq(lib.entries) /\ Book(lib)!Distinct(old.entries)
      BY <2>2, <3>1 DEF Book!ModuleDocs
    <3>3. /\ t \in Seq(lib.entries) /\ Book(lib)!Distinct(t)
          /\ ToSet(t) = {e \in ToSet(old.entries) : e.id \notin Book(lib)!Ids(one)} \cup ToSet(one)
      BY <1>4, <3>2, MergedEntriesAre
    <3> HIDE DEF t
    <3>4. new = [old EXCEPT !.entries = t]
      BY <2>2 DEF t
    <3> HIDE DEF old, new
    <3>5. new.entries = t /\ new \in Book(lib)!ModuleDocs
      BY <3>1, <3>3, <3>4 DEF Book!ModuleDocs
    <3> QED BY <1>4, <3>3, <3>5
  <2> QED BY <2>1, <2>2
<1> HIDE DEF M, new, after
<1>6. M[name] = new /\ \A m \in Book(lib)!Modules : M[m] \in Book(lib)!ModuleDocs \cup {lib.absent}
  BY <1>3, <1>5
<1>7. Documented(lib, root, M)
  BY <1>6 DEF Documented
<1>8. Layer(lib, after, root, M, N)
  BY <1>7, MergedLayer DEF after
<1>9. EntriesAt(lib, M, n) = new.entries
  BY <1>2, <1>5, <1>6 DEF EntriesAt, Book!Wellformed
<1>10. name # "root"
  BY DEF Book!Wellformed, Book!Root
<1>11. PICK p \in 1 .. N :
          /\ Book(lib)!EntryOwner(M, entry.id) = lib.names[p]
          /\ \A m \in p + 1 .. N : entry.id \notin Book(lib)!Ids(EntriesAt(lib, M, m))
  BY <1>10, EntryOwnerIs
<1>12. p = n
  BY <1>2, <1>11, NamesAre
<1>13. entry.id \in Book(lib)!Ids(EntriesAt(lib, M, n))
  BY <1>5, <1>9, EntryOfIs
<1>14. entry.id \in Book(lib)!Ids(after.entries)
  BY <1>8, <1>13 DEF Layer, IdsUpTo
<1>15. PICK e \in ToSet(after.entries) : e.id = entry.id
  BY <1>14, EntryOfIs
<1>16. PICK k \in 1 .. N :
          /\ e \in ToSet(EntriesAt(lib, M, k))
          /\ \A j \in k + 1 .. N : e.id \notin Book(lib)!Ids(EntriesAt(lib, M, j))
  BY <1>8, <1>13, <1>15 DEF Layer, Sourced
<1>17. e.id \in Book(lib)!Ids(EntriesAt(lib, M, k))
  BY <1>16, EntryOfIs
<1>18. n \notin k + 1 .. N /\ k \notin n + 1 .. N
  BY <1>11, <1>12, <1>13, <1>15, <1>16, <1>17
<1>19. k = n
  BY <1>1, <1>18
<1>20. e = entry
  BY <1>5, <1>9, <1>15, <1>16, <1>19, EntryOfIs
<1> QED BY <1>15, <1>20, BookBasics

=============================================================================
