------------------------------ MODULE ErcSums -------------------------------
(***************************************************************************)
(* A sum over a finite set is the sum of its parts, by induction on its    *)
(* subsets. What sets of transfers add to balances and supplies follows    *)
(* the laws that ErcProofs rests on, so its results hold without them.     *)
(***************************************************************************)
EXTENDS ErcProofs, FiniteSetTheorems, WellFoundedInduction

-----------------------------------------------------------------------------
(* Sums over finite sets *)

(* The equation of the fold behind a sum, on the subsets of S. *)
Pick(s) == CHOOSE x \in s : TRUE
SumStep(f, g, S) == [s \in SUBSET S |-> IF s = {} THEN 0 ELSE f[Pick(s)] + g[s \ {Pick(s)}]]

(* A non-empty set of subsets of a finite set has a minimal member. *)
LEMMA MinimalSubset ==
    ASSUME NEW S, IsFiniteSet(S), NEW B, B \subseteq SUBSET S, B # {}
    PROVE  \E T \in B : \A U \in SUBSET T : U # T => U \notin B
<1>1. IsWellFoundedOn(StrictSubsetOrdering(S), SUBSET S)
  BY FS_StrictSubsetOrderingWellFounded, FS_FiniteSubsetsOfFinite, Zenon
<1>2. PICK T \in B : \A U \in B : <<U, T>> \notin StrictSubsetOrdering(S)
  BY <1>1, WFMin
<1>3. ASSUME NEW U \in SUBSET T, U # T PROVE U \notin B
  BY <1>2, <1>3, Zenon DEF StrictSubsetOrdering
<1> QED BY <1>3

(* Two solutions agree where both are defined. *)
LEMMA StepUnique ==
    ASSUME NEW f, NEW S, NEW T, NEW g, NEW h, g = SumStep(f, g, S), h = SumStep(f, h, T),
           NEW s, s \in SUBSET S, s \in SUBSET T, IsFiniteSet(s)
    PROVE  g[s] = h[s]
<1> DEFINE B == {u \in SUBSET s : g[u] # h[u]}
<1> SUFFICES ASSUME g[s] # h[s] PROVE FALSE
  OBVIOUS
<1>1. B \subseteq SUBSET s /\ B # {}
  OBVIOUS
<1>2. PICK u \in B : \A v \in SUBSET u : v # u => v \notin B
  <2> HIDE DEF B
  <2> QED BY <1>1, MinimalSubset
<1>3. \A v \in SUBSET s : /\ g[v] = IF v = {} THEN 0 ELSE f[Pick(v)] + g[v \ {Pick(v)}]
                          /\ h[v] = IF v = {} THEN 0 ELSE f[Pick(v)] + h[v \ {Pick(v)}]
  <2> SUFFICES ASSUME NEW v \in SUBSET s
               PROVE  /\ g[v] = IF v = {} THEN 0 ELSE f[Pick(v)] + g[v \ {Pick(v)}]
                      /\ h[v] = IF v = {} THEN 0 ELSE f[Pick(v)] + h[v \ {Pick(v)}]
    OBVIOUS
  <2>1. v \in SUBSET S /\ v \in SUBSET T
    OBVIOUS
  <2>2. g[v] = SumStep(f, g, S)[v] /\ h[v] = SumStep(f, h, T)[v]
    OBVIOUS
  <2> QED BY <2>1, <2>2 DEF SumStep
<1>4. u # {} /\ u \in SUBSET s /\ g[u] # h[u]
  BY <1>3
<1>5. Pick(u) \in u
  BY <1>4 DEF Pick
<1>6. g[u \ {Pick(u)}] = h[u \ {Pick(u)}]
  BY <1>2, <1>4, <1>5
<1> QED BY <1>3, <1>4, <1>6

(* Every finite set has a solution. *)
LEMMA StepExists ==
    ASSUME NEW f, NEW S, IsFiniteSet(S)
    PROVE  \E g : g = SumStep(f, g, S)
<1> DEFINE B == {T \in SUBSET S : ~ \E g : g = SumStep(f, g, T)}
<1> SUFFICES ASSUME ~ \E g : g = SumStep(f, g, S) PROVE FALSE
  OBVIOUS
<1>1. B \subseteq SUBSET S /\ B # {}
  OBVIOUS
<1>2. PICK T \in B : \A U \in SUBSET T : U # T => U \notin B
  <2> HIDE DEF B
  <2> QED BY <1>1, MinimalSubset
<1>3. T \in SUBSET S /\ ~ \E g : g = SumStep(f, g, T)
  OBVIOUS
<1>4. \A U \in SUBSET T : U # T => \E g : g = SumStep(f, g, U)
  BY <1>2
<1> DEFINE G(U) == CHOOSE g : g = SumStep(f, g, U)
           h == [s \in SUBSET T |-> IF s = {} THEN 0 ELSE f[Pick(s)] + G(s \ {Pick(s)})[s \ {Pick(s)}]]
<1>5. \A U \in SUBSET T : U # T => G(U) = SumStep(f, G(U), U)
  BY <1>4
<1>6. ASSUME NEW s \in SUBSET T, s # {} PROVE h[s \ {Pick(s)}] = G(s \ {Pick(s)})[s \ {Pick(s)}]
  <2> DEFINE u == s \ {Pick(s)}
             w == u \ {Pick(u)}
  <2>1. Pick(s) \in s
    BY <1>6 DEF Pick
  <2>2. u \in SUBSET T /\ u # T
    BY <2>1
  <2>3. G(u) = SumStep(f, G(u), u)
    BY <1>5, <2>2
  <2>4. CASE u = {}
    <3>1. h[u] = 0
      BY <2>2, <2>4
    <3>2. G(u)[u] = 0
      <4> HIDE DEF G
      <4>1. SumStep(f, G(u), u)[u] = 0
        BY <2>4 DEF SumStep
      <4> QED BY <2>3, <4>1
    <3> QED BY <3>1, <3>2
  <2>5. CASE u # {}
    <3>1. h[u] = f[Pick(u)] + G(w)[w]
      BY <2>2, <2>5
    <3>2. Pick(u) \in u
      BY <2>5 DEF Pick
    <3>3. w \in SUBSET T /\ w # T /\ w \in SUBSET u
      BY <2>2, <3>2
    <3>4. G(w) = SumStep(f, G(w), w)
      BY <1>5, <3>3, Zenon
    <3>5. IsFiniteSet(w)
      BY <1>3, <3>3, FS_Subset
    <3> HIDE DEF G, h
    <3>6. G(u)[w] = G(w)[w]
      <4>1. w \in SUBSET w
        OBVIOUS
      <4> HIDE DEF w, u
      <4> QED BY <2>3, <3>3, <3>4, <3>5, <4>1, StepUnique
    <3>7. G(u)[u] = f[Pick(u)] + G(u)[w]
      <4>1. SumStep(f, G(u), u)[u] = f[Pick(u)] + G(u)[w]
        BY <2>5 DEF SumStep
      <4> QED BY <2>3, <4>1
    <3> QED BY <3>1, <3>6, <3>7
  <2> QED BY <2>4, <2>5
<1>7. h = SumStep(f, h, T)
  <2> DEFINE q == SumStep(f, h, T)
  <2>3. \A s \in SUBSET T : h[s] = IF s = {} THEN 0 ELSE f[Pick(s)] + G(s \ {Pick(s)})[s \ {Pick(s)}]
    OBVIOUS
  <2>4. h = [s \in SUBSET T |-> h[s]]
    OBVIOUS
  <2> HIDE DEF h, G
  <2>1. \A s \in SUBSET T : q[s] = IF s = {} THEN 0 ELSE f[Pick(s)] + h[s \ {Pick(s)}]
    BY DEF SumStep
  <2>2. q = [s \in SUBSET T |-> q[s]]
    BY DEF SumStep
  <2> HIDE DEF q
  <2>5. \A s \in SUBSET T : h[s] = q[s]
    BY <1>6, <2>1, <2>3, Zenon
  <2>6. h = q
    BY <2>2, <2>4, <2>5, Zenon
  <2> QED BY <2>6 DEF q
<1> QED BY <1>3, <1>7

(* The sum of the library over a finite set, by its fold. *)
LEMMA SumIsFold ==
    ASSUME NEW f, NEW S, IsFiniteSet(S)
    PROVE  \E g : g = SumStep(f, g, S) /\ SumFunctionOnSet(f, S) = g[S]
<1> DEFINE g == CHOOSE g : g = SumStep(f, g, S)
<1>1. g = SumStep(f, g, S)
  BY StepExists
<1>2. SumFunctionOnSet(f, S) = g[S]
  BY DEF SumFunctionOnSet, FoldFunctionOnSet, MapThenFoldSet, SumStep, Pick
<1> QED BY <1>1, <1>2, Zenon

(* A sum, by the element its fold takes first. *)
LEMMA SumPick ==
    ASSUME NEW f, NEW S, IsFiniteSet(S)
    PROVE  SumFunctionOnSet(f, S) =
               IF S = {} THEN 0 ELSE f[Pick(S)] + SumFunctionOnSet(f, S \ {Pick(S)})
<1> DEFINE T == S \ {Pick(S)}
<1>1. PICK g : g = SumStep(f, g, S) /\ SumFunctionOnSet(f, S) = g[S]
  BY SumIsFold
<1>2. IsFiniteSet(T) /\ T \in SUBSET S /\ T \in SUBSET T
  BY FS_Subset
<1>3. PICK h : h = SumStep(f, h, T) /\ SumFunctionOnSet(f, T) = h[T]
  BY <1>2, SumIsFold
<1> HIDE DEF T
<1>4. g[T] = h[T]
  BY <1>1, <1>2, <1>3, StepUnique
<1>5. SumStep(f, g, S)[S] = IF S = {} THEN 0 ELSE f[Pick(S)] + g[T]
  BY DEF SumStep, T
<1>6. g[S] = IF S = {} THEN 0 ELSE f[Pick(S)] + g[T]
  BY <1>1, <1>5
<1> QED BY <1>1, <1>3, <1>4, <1>6 DEF T

(* The empty sum, and the type of a sum. *)
LEMMA SumType ==
    ASSUME NEW f, NEW S, IsFiniteSet(S), \A x \in S : f[x] \in Int
    PROVE  SumFunctionOnSet(f, S) \in Int /\ SumFunctionOnSet(f, {}) = 0
<1> DEFINE B == {T \in SUBSET S : SumFunctionOnSet(f, T) \notin Int}
<1>1. SumFunctionOnSet(f, {}) = 0
  BY SumPick, FS_EmptySet, Zenon
<1>2. SUFFICES ASSUME SumFunctionOnSet(f, S) \notin Int PROVE FALSE
  BY <1>1
<1>3. B \subseteq SUBSET S /\ B # {}
  BY <1>2
<1>4. PICK T \in B : \A U \in SUBSET T : U # T => U \notin B
  <2> HIDE DEF B
  <2> QED BY <1>3, MinimalSubset
<1>5. T \in SUBSET S /\ SumFunctionOnSet(f, T) \notin Int /\ T # {}
  BY <1>1
<1>6. Pick(T) \in T
  BY <1>5 DEF Pick
<1>7. SumFunctionOnSet(f, T \ {Pick(T)}) \in Int
  BY <1>4, <1>5, <1>6
<1>8. IsFiniteSet(T)
  BY <1>5, FS_Subset
<1> QED BY <1>5, <1>6, <1>7, <1>8, SumPick, SMTT(30)

(* A sum, by any of its elements. *)
LEMMA SumSplit ==
    ASSUME NEW f, NEW S, IsFiniteSet(S), \A x \in S : f[x] \in Int, NEW x \in S
    PROVE  SumFunctionOnSet(f, S) = f[x] + SumFunctionOnSet(f, S \ {x})
<1> DEFINE Bad(T) == \E y \in T : SumFunctionOnSet(f, T) # f[y] + SumFunctionOnSet(f, T \ {y})
           B == {T \in SUBSET S : Bad(T)}
<1>2. SUFFICES ASSUME Bad(S) PROVE FALSE
  OBVIOUS
<1>3. B \subseteq SUBSET S /\ B # {}
  BY <1>2, Zenon
<1>4. PICK T \in B : \A U \in SUBSET T : U # T => U \notin B
  <2> HIDE DEF B
  <2> QED BY <1>3, MinimalSubset
<1>5. PICK y \in T : SumFunctionOnSet(f, T) # f[y] + SumFunctionOnSet(f, T \ {y})
  BY <1>4
<1>6. T \in SUBSET S /\ Pick(T) \in T
  BY <1>4 DEF Pick
<1> DEFINE p == Pick(T)
<1>7. \A U \in SUBSET T : U # T => \A z \in U : SumFunctionOnSet(f, U) = f[z] + SumFunctionOnSet(f, U \ {z})
  BY <1>4, <1>6, Zenon
<1>8. \A U \in SUBSET T : IsFiniteSet(U) /\ SumFunctionOnSet(f, U) \in Int
  <2> SUFFICES ASSUME NEW U \in SUBSET T PROVE IsFiniteSet(U) /\ SumFunctionOnSet(f, U) \in Int
    OBVIOUS
  <2>1. U \in SUBSET S /\ IsFiniteSet(U)
    BY <1>6, FS_Subset
  <2> QED BY <2>1, SumType
<1>9. SumFunctionOnSet(f, T) = f[p] + SumFunctionOnSet(f, T \ {p})
  BY <1>6, <1>8, SumPick
<1> HIDE DEF p
<1>10. y # p /\ p \in T
  BY <1>5, <1>6, <1>9 DEF p
<1>11. SumFunctionOnSet(f, T \ {p}) = f[y] + SumFunctionOnSet(f, (T \ {p}) \ {y})
  BY <1>5, <1>7, <1>10
<1>12. SumFunctionOnSet(f, T \ {y}) = f[p] + SumFunctionOnSet(f, (T \ {y}) \ {p})
  BY <1>5, <1>7, <1>10
<1>13. (T \ {p}) \ {y} = (T \ {y}) \ {p}
  OBVIOUS
<1>14. f[p] \in Int /\ f[y] \in Int /\ SumFunctionOnSet(f, (T \ {y}) \ {p}) \in Int
  BY <1>5, <1>6, <1>8, <1>10, SMTT(30)
<1> DEFINE a == SumFunctionOnSet(f, (T \ {y}) \ {p})
           b == SumFunctionOnSet(f, T \ {y})
           c == SumFunctionOnSet(f, T \ {p})
           fp == f[p]
           fy == f[y]
<1>15. a \in Int /\ fp \in Int /\ fy \in Int /\ b = fp + a /\ c = fy + a
  BY <1>11, <1>12, <1>13, <1>14, Zenon
<1>16. SumFunctionOnSet(f, T) = fp + c /\ SumFunctionOnSet(f, T) # fy + b
  BY <1>5, <1>9
<1> HIDE DEF a, b, c, fp, fy
<1> QED BY <1>15, <1>16

(* Adding an element. *)
LEMMA SumAdd ==
    ASSUME NEW f, NEW S, IsFiniteSet(S), NEW x, x \notin S, \A y \in S \cup {x} : f[y] \in Int
    PROVE  SumFunctionOnSet(f, S \cup {x}) = SumFunctionOnSet(f, S) + f[x]
<1>1. IsFiniteSet(S \cup {x}) /\ (S \cup {x}) \ {x} = S
  BY FS_AddElement
<1>2. SumFunctionOnSet(f, S \cup {x}) = f[x] + SumFunctionOnSet(f, (S \cup {x}) \ {x})
  BY <1>1, SumSplit
<1> DEFINE a == SumFunctionOnSet(f, S)
           fx == f[x]
<1>3. a \in Int /\ fx \in Int
  BY SumType
<1>4. SumFunctionOnSet(f, S \cup {x}) = fx + a
  BY <1>1, <1>2
<1>5. fx + a = a + fx
  <2> HIDE DEF a, fx
  <2> QED BY <1>3
<1> QED BY <1>4, <1>5

(* Induction over the subsets of a finite set. *)
LEMMA FiniteInduction ==
  ASSUME NEW S, IsFiniteSet(S), NEW G, {} \in G,
         \A T \in SUBSET S, x \in S : T \in G /\ x \notin T => T \cup {x} \in G
  PROVE  S \in G
<1> DEFINE B == {T \in SUBSET S : T \notin G}
<1> SUFFICES ASSUME S \notin G PROVE FALSE
  OBVIOUS
<1>1. B # {} /\ B \subseteq SUBSET S
  OBVIOUS
<1>2. PICK T \in B : \A U \in SUBSET T : U # T => U \notin B
  <2> HIDE DEF B
  <2> QED BY <1>1, MinimalSubset
<1>3. PICK x \in T : TRUE
  BY Zenon
<1>4. T \ {x} \notin B /\ T \in SUBSET S /\ T \notin G
  BY <1>2, <1>3
<1>5. T \ {x} \in G /\ x \in S
  BY <1>4
<1>6. (T \ {x}) \cup {x} \in G
  BY <1>4, <1>5
<1>7. (T \ {x}) \cup {x} = T
  BY <1>3
<1> QED BY <1>4, <1>6, <1>7, Zenon

(* Terms that are equal have equal sums. *)
LEMMA SumSame ==
    ASSUME NEW f, NEW g, NEW S, IsFiniteSet(S), \A x \in S : f[x] \in Int /\ g[x] = f[x]
    PROVE  SumFunctionOnSet(f, S) = SumFunctionOnSet(g, S)
<1> DEFINE G == {T \in SUBSET S : SumFunctionOnSet(f, T) = SumFunctionOnSet(g, T)}
<1>1. {} \in G
  BY SumPick, FS_EmptySet, Zenon
<1>2. ASSUME NEW T \in SUBSET S, NEW x \in S, T \in G, x \notin T PROVE T \cup {x} \in G
  <2>1. IsFiniteSet(T) /\ T \cup {x} \in SUBSET S
    BY FS_Subset
  <2>2. \A y \in T \cup {x} : f[y] \in Int /\ g[y] \in Int
    BY <2>1
  <2>3. SumFunctionOnSet(f, T \cup {x}) = SumFunctionOnSet(f, T) + f[x]
    BY <1>2, <2>1, <2>2, SumAdd, SMTT(30)
  <2>4. SumFunctionOnSet(g, T \cup {x}) = SumFunctionOnSet(g, T) + g[x]
    BY <1>2, <2>1, <2>2, SumAdd, SMTT(30)
  <2> QED BY <1>2, <2>1, <2>3, <2>4
<1>3. S \in G
  <2> HIDE DEF G
  <2> QED BY <1>1, <1>2, FiniteInduction, Zenon
<1> QED BY <1>3

(* The sum of a sum of two terms. *)
LEMMA SumPlus ==
    ASSUME NEW f, NEW g, NEW h, NEW S, IsFiniteSet(S),
           \A x \in S : f[x] \in Int /\ g[x] \in Int /\ h[x] = f[x] + g[x]
    PROVE  SumFunctionOnSet(h, S) = SumFunctionOnSet(f, S) + SumFunctionOnSet(g, S)
<1> DEFINE G == {T \in SUBSET S : SumFunctionOnSet(h, T) = SumFunctionOnSet(f, T) + SumFunctionOnSet(g, T)}
<1>1. {} \in G
  <2>1. SumFunctionOnSet(h, {}) = 0 /\ SumFunctionOnSet(f, {}) = 0 /\ SumFunctionOnSet(g, {}) = 0
    BY SumPick, FS_EmptySet, Zenon
  <2> QED BY <2>1
<1>2. ASSUME NEW T \in SUBSET S, NEW x \in S, T \in G, x \notin T PROVE T \cup {x} \in G
  <2>1. IsFiniteSet(T) /\ T \cup {x} \in SUBSET S
    BY FS_Subset
  <2>2. \A y \in T \cup {x} : f[y] \in Int /\ g[y] \in Int /\ h[y] \in Int
    BY <2>1
  <2> DEFINE a == SumFunctionOnSet(f, T)
             b == SumFunctionOnSet(g, T)
             c == SumFunctionOnSet(h, T)
             fx == f[x]
             gx == g[x]
             hx == h[x]
  <2>3. SumFunctionOnSet(f, T \cup {x}) = a + fx /\ SumFunctionOnSet(g, T \cup {x}) = b + gx
    BY <1>2, <2>1, <2>2, SumAdd, SMTT(30)
  <2>4. SumFunctionOnSet(h, T \cup {x}) = c + hx
    BY <1>2, <2>1, <2>2, SumAdd, SMTT(30)
  <2>5. a \in Int /\ b \in Int
    BY <2>1, <2>2, SumType
  <2>6. fx \in Int /\ gx \in Int /\ hx = fx + gx /\ c = a + b
    BY <1>2
  <2>7. c + hx = (a + fx) + (b + gx)
    <3> HIDE DEF a, b, c, fx, gx, hx
    <3> QED BY <2>5, <2>6
  <2> HIDE DEF a, b, c, fx, gx, hx
  <2> QED BY <2>1, <2>3, <2>4, <2>7
<1>3. S \in G
  <2> HIDE DEF G
  <2> QED BY <1>1, <1>2, FiniteInduction, Zenon
<1> QED BY <1>3

(* The sum over two disjoint sets. *)
LEMMA SumUnion ==
    ASSUME NEW f, NEW S, NEW R, IsFiniteSet(S), IsFiniteSet(R), S \cap R = {}, \A x \in S \cup R : f[x] \in Int
    PROVE  SumFunctionOnSet(f, R \cup S) = SumFunctionOnSet(f, R) + SumFunctionOnSet(f, S)
<1> DEFINE G == {T \in SUBSET S : SumFunctionOnSet(f, R \cup T) = SumFunctionOnSet(f, R) + SumFunctionOnSet(f, T)}
           r == SumFunctionOnSet(f, R)
<1>0. r \in Int
  BY SumType
<1>1. {} \in G
  <2>1. SumFunctionOnSet(f, {}) = 0 /\ R \cup {} = R
    BY SumPick, FS_EmptySet, Zenon
  <2>2. r + 0 = r
    <3> HIDE DEF r
    <3> QED BY <1>0
  <2> QED BY <2>1, <2>2
<1>2. ASSUME NEW T \in SUBSET S, NEW x \in S, T \in G, x \notin T PROVE T \cup {x} \in G
  <2>1. IsFiniteSet(T) /\ IsFiniteSet(R \cup T) /\ T \cup {x} \in SUBSET S
    BY FS_Subset, FS_Union, Zenon
  <2>2. x \notin R \cup T /\ R \cup (T \cup {x}) = (R \cup T) \cup {x}
    BY <1>2
  <2>3. \A y \in (R \cup T) \cup {x} : f[y] \in Int
    BY <2>1
  <2> DEFINE a == SumFunctionOnSet(f, T)
             c == SumFunctionOnSet(f, R \cup T)
             fx == f[x]
  <2>4. SumFunctionOnSet(f, T \cup {x}) = a + fx
    BY <1>2, <2>1, <2>3, SumAdd
  <2>5. SumFunctionOnSet(f, (R \cup T) \cup {x}) = c + fx
    BY <2>1, <2>2, <2>3, SumAdd
  <2>6. a \in Int /\ fx \in Int
    BY <2>1, <2>3, SumType
  <2>7. c = r + a
    BY <1>2
  <2>8. c + fx = r + (a + fx)
    <3> HIDE DEF a, c, fx, r
    <3> QED BY <1>0, <2>6, <2>7
  <2> HIDE DEF a, c, fx, r
  <2>9. SumFunctionOnSet(f, R \cup (T \cup {x})) = r + SumFunctionOnSet(f, T \cup {x})
    BY <2>2, <2>4, <2>5, <2>8
  <2> QED BY <2>1, <2>9 DEF r
<1>3. S \in G
  <2> HIDE DEF G
  <2> QED BY <1>1, <1>2, FiniteInduction, Zenon
<1> QED BY <1>3

(* A sum with one term that is not zero. *)
LEMMA SumPoint ==
    ASSUME NEW f, NEW S, IsFiniteSet(S), NEW k, NEW v \in Int, \A x \in S : f[x] = IF x = k THEN v ELSE 0
    PROVE  SumFunctionOnSet(f, S) = IF k \in S THEN v ELSE 0
<1> DEFINE G == {T \in SUBSET S : SumFunctionOnSet(f, T) = IF k \in T THEN v ELSE 0}
<1>1. {} \in G
  BY SumPick, FS_EmptySet
<1>2. ASSUME NEW T \in SUBSET S, NEW x \in S, T \in G, x \notin T PROVE T \cup {x} \in G
  <2>1. IsFiniteSet(T) /\ T \cup {x} \in SUBSET S
    BY FS_Subset
  <2>2. \A y \in T \cup {x} : f[y] \in Int
    BY <2>1
  <2>3. SumFunctionOnSet(f, T \cup {x}) = SumFunctionOnSet(f, T) + f[x]
    BY <1>2, <2>1, <2>2, SumAdd
  <2>4. SumFunctionOnSet(f, T) = (IF k \in T THEN v ELSE 0) /\ f[x] = (IF x = k THEN v ELSE 0)
    BY <1>2
  <2>5. SumFunctionOnSet(f, T \cup {x}) = IF k \in T \cup {x} THEN v ELSE 0
    BY <1>2, <2>3, <2>4
  <2> QED BY <2>1, <2>5
<1>3. S \in G
  <2> HIDE DEF G
  <2> QED BY <1>1, <1>2, FiniteInduction, Zenon
<1> QED BY <1>3

(* A sum of terms that are not negative is not negative. *)
LEMMA SumNat ==
    ASSUME NEW f, NEW S, IsFiniteSet(S), \A x \in S : f[x] \in Nat
    PROVE  SumFunctionOnSet(f, S) \in Nat
<1> DEFINE G == {T \in SUBSET S : SumFunctionOnSet(f, T) \in Nat}
<1>1. {} \in G
  <2>1. SumFunctionOnSet(f, {}) = 0
    BY SumPick, FS_EmptySet, Zenon
  <2> QED BY <2>1
<1>2. ASSUME NEW T \in SUBSET S, NEW x \in S, T \in G, x \notin T PROVE T \cup {x} \in G
  <2>1. IsFiniteSet(T) /\ T \cup {x} \in SUBSET S
    BY FS_Subset
  <2>2. \A y \in T \cup {x} : f[y] \in Nat
    BY <2>1
  <2>3. SumFunctionOnSet(f, T \cup {x}) = SumFunctionOnSet(f, T) + f[x]
    BY <1>2, <2>1, <2>2, SumAdd
  <2> QED BY <1>2, <2>1, <2>2, <2>3
<1>3. S \in G
  <2> HIDE DEF G
  <2> QED BY <1>1, <1>2, FiniteInduction, Zenon
<1> QED BY <1>3

-----------------------------------------------------------------------------
(* Sums of transfers *)

(* What a transfer adds to a supply is an integer. *)
LEMMA MintedType ==
    ASSUME NEW e \in TransferEvent, NEW t
    PROVE  Minted(e, t) \in Int
<1>1. e.value \in Nat
  BY DEF TransferEvent
<1> QED BY <1>1 DEF Minted

(* Sets of transfers are finite, and their entries are transfers. *)
LEMMA TransferSet ==
    ASSUME NEW E \in Seq(TransferEvent), NEW I, I \subseteq DOMAIN E
    PROVE  /\ IsFiniteSet(I) /\ \A i \in I : E[i] \in TransferEvent
           /\ \A n \in Nat : n <= Len(E) => 1..n \subseteq DOMAIN E
<1>1. Len(E) \in Nat /\ DOMAIN E = 1..Len(E) /\ \A i \in DOMAIN E : E[i] \in TransferEvent
  OBVIOUS
<1>2. IsFiniteSet(1..Len(E))
  BY <1>1, FS_Interval
<1>3. IsFiniteSet(I)
  BY <1>1, <1>2, FS_Subset
<1> QED BY <1>1, <1>3

(* What a set of transfers adds to a balance: nothing for no transfer, and each
   transfer once. *)
LEMMA NetSumsLaw ==
    ASSUME NEW E \in Seq(TransferEvent), NEW a, NEW t, NEW I, I \subseteq DOMAIN E
    PROVE  /\ Net(E, a, t, I) \in Int /\ Net(E, a, t, {}) = 0
           /\ \A i \in DOMAIN E \ I : Net(E, a, t, I \cup {i}) = Net(E, a, t, I) + Moved(E[i], a, t)
<1> DEFINE f == [i \in DOMAIN E |-> Moved(E[i], a, t)]
<1>1. IsFiniteSet(I) /\ \A i \in DOMAIN E : E[i] \in TransferEvent
  BY TransferSet
<1>2. \A i \in DOMAIN E : f[i] \in Int /\ f[i] = Moved(E[i], a, t)
  BY <1>1, MovedType
<1> HIDE DEF f
<1>3. SumFunctionOnSet(f, I) \in Int /\ SumFunctionOnSet(f, {}) = 0
  BY <1>1, <1>2, SumType
<1>4. ASSUME NEW i \in DOMAIN E \ I PROVE SumFunctionOnSet(f, I \cup {i}) = SumFunctionOnSet(f, I) + f[i]
  BY <1>1, <1>2, SumAdd
<1> QED BY <1>2, <1>3, <1>4 DEF Net, f

(* What two disjoint sets of transfers add to a balance. *)
LEMMA NetUnionLaw ==
    ASSUME NEW E \in Seq(TransferEvent), NEW a, NEW t, NEW I, NEW J, I \subseteq DOMAIN E, J \subseteq DOMAIN E,
           I \cap J = {}
    PROVE  Net(E, a, t, I \cup J) = Net(E, a, t, I) + Net(E, a, t, J)
<1> DEFINE f == [i \in DOMAIN E |-> Moved(E[i], a, t)]
<1>1. IsFiniteSet(I) /\ IsFiniteSet(J) /\ \A i \in DOMAIN E : E[i] \in TransferEvent
  BY TransferSet
<1>2. \A i \in DOMAIN E : f[i] \in Int
  BY <1>1, MovedType
<1> HIDE DEF f
<1>3. J \cap I = {} /\ \A x \in J \cup I : f[x] \in Int
  BY <1>2
<1>4. SumFunctionOnSet(f, I \cup J) = SumFunctionOnSet(f, I) + SumFunctionOnSet(f, J)
  BY <1>1, <1>3, SumUnion
<1> QED BY <1>4 DEF Net, f

(* Transfers that come later do not count. *)
LEMMA NetAppendLaw ==
    ASSUME NEW E \in Seq(TransferEvent), NEW e \in TransferEvent, NEW a, NEW t, NEW I, I \subseteq DOMAIN E
    PROVE  Net(Append(E, e), a, t, I) = Net(E, a, t, I)
<1> DEFINE F == Append(E, e)
           f == [i \in DOMAIN E |-> Moved(E[i], a, t)]
           g == [i \in DOMAIN F |-> Moved(F[i], a, t)]
<1>1. IsFiniteSet(I) /\ \A i \in DOMAIN E : E[i] \in TransferEvent
  BY TransferSet
<1>2. \A i \in DOMAIN E : i \in DOMAIN F /\ F[i] = E[i]
  OBVIOUS
<1> HIDE DEF F
<1>3. \A i \in I : f[i] \in Int /\ g[i] = f[i]
  BY <1>1, <1>2, MovedType
<1> HIDE DEF f, g
<1>4. SumFunctionOnSet(f, I) = SumFunctionOnSet(g, I)
  BY <1>1, <1>3, SumSame
<1> QED BY <1>4 DEF Net, f, g, F

(* The balance on the chain is what the transfers so far add to it. *)
LEMMA BalanceIsNetLaw ==
    ASSUME NEW E \in Seq(TransferEvent), NEW n \in Nat, n <= Len(E), NEW a, NEW t
    PROVE  SumFunction([i \in 1..n |-> Moved(E[i], a, t)]) = Net(E, a, t, 1..n)
<1> DEFINE f == [i \in 1..n |-> Moved(E[i], a, t)]
           g == [i \in DOMAIN E |-> Moved(E[i], a, t)]
<1>1. IsFiniteSet(1..n) /\ 1..n \subseteq DOMAIN E /\ \A i \in 1..n : E[i] \in TransferEvent
  BY FS_Interval
<1>2. \A i \in 1..n : f[i] \in Int /\ g[i] = f[i]
  BY <1>1, MovedType
<1>3. DOMAIN f = 1..n
  OBVIOUS
<1> HIDE DEF f, g
<1>4. SumFunctionOnSet(f, 1..n) = SumFunctionOnSet(g, 1..n)
  BY <1>1, <1>2, SumSame, SMTT(30)
<1> QED BY <1>3, <1>4 DEF SumFunction, Net, f, g

(* The same for supplies. *)
LEMMA SupplySumsLaw ==
    ASSUME NEW E \in Seq(TransferEvent), NEW t, NEW I, I \subseteq DOMAIN E
    PROVE  /\ NetSupply(E, t, I) \in Int /\ NetSupply(E, t, {}) = 0
           /\ \A i \in DOMAIN E \ I : NetSupply(E, t, I \cup {i}) = NetSupply(E, t, I) + Minted(E[i], t)
<1> DEFINE f == [i \in DOMAIN E |-> Minted(E[i], t)]
<1>1. IsFiniteSet(I) /\ \A i \in DOMAIN E : E[i] \in TransferEvent
  BY TransferSet
<1>2. \A i \in DOMAIN E : f[i] \in Int /\ f[i] = Minted(E[i], t)
  BY <1>1, MintedType
<1> HIDE DEF f
<1>3. SumFunctionOnSet(f, I) \in Int /\ SumFunctionOnSet(f, {}) = 0
  BY <1>1, <1>2, SumType, SMTT(30)
<1>4. ASSUME NEW i \in DOMAIN E \ I PROVE SumFunctionOnSet(f, I \cup {i}) = SumFunctionOnSet(f, I) + f[i]
  BY <1>1, <1>2, SumAdd
<1> QED BY <1>2, <1>3, <1>4 DEF NetSupply, f

(* What two disjoint sets of transfers add to a supply. *)
LEMMA SupplyUnionLaw ==
    ASSUME NEW E \in Seq(TransferEvent), NEW t, NEW I, NEW J, I \subseteq DOMAIN E, J \subseteq DOMAIN E, I \cap J = {}
    PROVE  NetSupply(E, t, I \cup J) = NetSupply(E, t, I) + NetSupply(E, t, J)
<1> DEFINE f == [i \in DOMAIN E |-> Minted(E[i], t)]
<1>1. IsFiniteSet(I) /\ IsFiniteSet(J) /\ \A i \in DOMAIN E : E[i] \in TransferEvent
  BY TransferSet
<1>2. \A i \in DOMAIN E : f[i] \in Int
  BY <1>1, MintedType
<1> HIDE DEF f
<1>3. J \cap I = {} /\ \A x \in J \cup I : f[x] \in Int
  BY <1>2
<1>4. SumFunctionOnSet(f, I \cup J) = SumFunctionOnSet(f, I) + SumFunctionOnSet(f, J)
  BY <1>1, <1>3, SumUnion, SMTT(30)
<1> QED BY <1>4 DEF NetSupply, f

(* Transfers that come later do not count for a supply either. *)
LEMMA SupplyAppendLaw ==
    ASSUME NEW E \in Seq(TransferEvent), NEW e \in TransferEvent, NEW t, NEW I, I \subseteq DOMAIN E
    PROVE  NetSupply(Append(E, e), t, I) = NetSupply(E, t, I)
<1> DEFINE F == Append(E, e)
           f == [i \in DOMAIN E |-> Minted(E[i], t)]
           g == [i \in DOMAIN F |-> Minted(F[i], t)]
<1>1. IsFiniteSet(I) /\ \A i \in DOMAIN E : E[i] \in TransferEvent
  BY TransferSet
<1>2. \A i \in DOMAIN E : i \in DOMAIN F /\ F[i] = E[i]
  OBVIOUS
<1> HIDE DEF F
<1>3. \A i \in I : f[i] \in Int /\ g[i] = f[i]
  BY <1>1, <1>2, MintedType, SMTT(30)
<1> HIDE DEF f, g
<1>4. SumFunctionOnSet(f, I) = SumFunctionOnSet(g, I)
  BY <1>1, <1>3, SumSame, SMTT(30)
<1> QED BY <1>4, SMTT(30) DEF NetSupply, f, g, F

(* What one transfer adds to all balances together is what it mints or burns. *)
LEMMA MovedSum ==
    ASSUME NEW e \in TransferEvent, NEW t
    PROVE  SumFunctionOnSet([a \in Account |-> Moved(e, a, t)], Account) = Minted(e, t)
<1> DEFINE v == IF e.token = t THEN e.value ELSE 0
           w == 0 - v
           p == [a \in Account |-> IF a = e.to THEN v ELSE 0]
           m == [a \in Account |-> IF a = e.from THEN w ELSE 0]
           g == [a \in Account |-> Moved(e, a, t)]
<1>1. e.value \in Nat /\ e.from \in Account \cup {Zero} /\ e.to \in Account \cup {Zero}
  BY DEF TransferEvent, Address
<1>2. v \in Int /\ w \in Int /\ w = 0 - v
  BY <1>1
<1>3. \A a \in Account : p[a] \in Int /\ m[a] \in Int /\ g[a] = p[a] + m[a]
  BY <1>1 DEF Moved
<1>4. \A a \in Account : p[a] = (IF a = e.to THEN v ELSE 0) /\ m[a] = (IF a = e.from THEN w ELSE 0)
  OBVIOUS
<1>5. Minted(e, t) = (IF e.to \in Account THEN v ELSE 0) + (IF e.from \in Account THEN w ELSE 0)
  BY <1>1, Addresses DEF Minted
<1> HIDE DEF v, w, p, m, g
<1>6. SumFunctionOnSet(p, Account) = IF e.to \in Account THEN v ELSE 0
  BY <1>2, <1>4, AccountsFinite, SumPoint, SMTT(30)
<1>7. SumFunctionOnSet(m, Account) = IF e.from \in Account THEN w ELSE 0
  BY <1>2, <1>4, AccountsFinite, SumPoint, SMTT(30)
<1>8. SumFunctionOnSet(g, Account) = SumFunctionOnSet(p, Account) + SumFunctionOnSet(m, Account)
  BY <1>3, AccountsFinite, SumPlus, SMTT(30)
<1> QED BY <1>5, <1>6, <1>7, <1>8, SMTT(30) DEF g

(* The supply is what the accounts hold together. *)
LEMMA SupplyIsSum ==
    ASSUME NEW E \in Seq(TransferEvent), NEW t, NEW I, I \subseteq DOMAIN E
    PROVE  SumFunctionOnSet([a \in Account |-> Net(E, a, t, I)], Account) = NetSupply(E, t, I)
<1> DEFINE Held(J) == [a \in Account |-> Net(E, a, t, J)]
           G == {J \in SUBSET I : SumFunctionOnSet(Held(J), Account) = NetSupply(E, t, J)}
<1>1. {} \in G
  <2> DEFINE h == Held({})
  <2>1. \A a \in Account : h[a] = 0
    BY NetSumsLaw
  <2>2. NetSupply(E, t, {}) = 0
    BY SupplySumsLaw
  <2> HIDE DEF h
  <2>3. SumFunctionOnSet(h, Account) = 0
    <3>1. \A a \in Account : h[a] = IF a = Zero THEN 0 ELSE 0
      BY <2>1
    <3> QED BY <3>1, AccountsFinite, SumPoint
  <2> QED BY <2>2, <2>3 DEF h
<1>2. ASSUME NEW J \in SUBSET I, NEW i \in I, J \in G, i \notin J PROVE J \cup {i} \in G
  <2> DEFINE f == Held(J)
             h == Held(J \cup {i})
             g == [a \in Account |-> Moved(E[i], a, t)]
  <2>1. J \subseteq DOMAIN E /\ i \in DOMAIN E \ J /\ E[i] \in TransferEvent /\ J \cup {i} \in SUBSET I
    BY <1>2
  <2>2. \A a \in Account : f[a] \in Int /\ g[a] \in Int /\ h[a] = f[a] + g[a]
    BY <2>1, NetSumsLaw, MovedType
  <2>3. SumFunctionOnSet(g, Account) = Minted(E[i], t)
    BY <2>1, MovedSum
  <2>4. SumFunctionOnSet(f, Account) = NetSupply(E, t, J)
    BY <1>2
  <2> HIDE DEF f, g, h
  <2>5. SumFunctionOnSet(h, Account) = SumFunctionOnSet(f, Account) + SumFunctionOnSet(g, Account)
    BY <2>2, AccountsFinite, SumPlus, SMTT(30)
  <2>6. NetSupply(E, t, J \cup {i}) = NetSupply(E, t, J) + Minted(E[i], t)
    BY <2>1, SupplySumsLaw
  <2>7. SumFunctionOnSet(h, Account) = NetSupply(E, t, J \cup {i})
    BY <2>3, <2>4, <2>5, <2>6, SMTT(30)
  <2> QED BY <2>1, <2>7 DEF h
<1>3. IsFiniteSet(I)
  BY TransferSet
<1>4. I \in G
  <2> HIDE DEF G
  <2> QED BY <1>1, <1>2, <1>3, FiniteInduction, Zenon
<1> QED BY <1>4

-----------------------------------------------------------------------------
(* The laws *)

(* The sums of ErcProofs obey the laws it uses. *)
LEMMA SumLawsHold == SumLaws
<1>1. AddLaw
  <2>1. ASSUME NEW E \in Seq(TransferEvent), NEW I \in SUBSET DOMAIN E
        PROVE  (\A a, t : NetAdds(E, a, t, I)) /\ (\A t : SupplyAdds(E, t, I))
    BY NetSumsLaw, SupplySumsLaw DEF NetAdds, SupplyAdds
  <2> QED BY <2>1, Zenon DEF AddLaw
<1>2. UnionLaw
  <2>1. ASSUME NEW E \in Seq(TransferEvent), NEW I \in SUBSET DOMAIN E, NEW J \in SUBSET DOMAIN E, I \cap J = {}
        PROVE  (\A a, t : NetJoins(E, a, t, I, J)) /\ (\A t : SupplyJoins(E, t, I, J))
    BY <2>1, NetUnionLaw, SupplyUnionLaw DEF NetJoins, SupplyJoins
  <2> QED BY <2>1, Zenon DEF UnionLaw
<1>3. AppendLaw
  BY NetAppendLaw, SupplyAppendLaw DEF AppendLaw
<1>4. ChainLaw
  <2> SUFFICES ASSUME NEW E \in Seq(TransferEvent), NEW n \in Nat, n <= Len(E)
               PROVE  /\ \A a, t : SumFunction([i \in 1..n |-> Moved(E[i], a, t)]) = Net(E, a, t, 1..n)
                      /\ \A t : SumFunction([a \in Account |-> Net(E, a, t, 1..n)]) = NetSupply(E, t, 1..n)
                      /\ \A t : (\A a \in Account : Net(E, a, t, 1..n) >= 0) => NetSupply(E, t, 1..n) >= 0
    BY DEF ChainLaw
  <2>1. 1..n \subseteq DOMAIN E
    OBVIOUS
  <2>2. \A a, t : SumFunction([i \in 1..n |-> Moved(E[i], a, t)]) = Net(E, a, t, 1..n)
    BY BalanceIsNetLaw
  <2>3. ASSUME NEW t
        PROVE  /\ SumFunction([a \in Account |-> Net(E, a, t, 1..n)]) = NetSupply(E, t, 1..n)
               /\ (\A a \in Account : Net(E, a, t, 1..n) >= 0) => NetSupply(E, t, 1..n) >= 0
    <3> DEFINE h == [a \in Account |-> Net(E, a, t, 1..n)]
    <3>1. SumFunctionOnSet(h, Account) = NetSupply(E, t, 1..n)
      BY <2>1, SupplyIsSum
    <3>2. DOMAIN h = Account /\ \A a \in Account : h[a] = Net(E, a, t, 1..n) /\ h[a] \in Int
      BY <2>1, NetSumsLaw
    <3> HIDE DEF h
    <3>3. SumFunction(h) = NetSupply(E, t, 1..n)
      BY <3>1, <3>2 DEF SumFunction
    <3>4. ASSUME \A a \in Account : Net(E, a, t, 1..n) >= 0 PROVE NetSupply(E, t, 1..n) >= 0
      <4>1. \A a \in Account : h[a] \in Nat
        BY <3>2, <3>4
      <4>2. SumFunctionOnSet(h, Account) \in Nat
        BY <4>1, AccountsFinite, SumNat
      <4> QED BY <3>1, <4>2
    <3> QED BY <3>3, <3>4 DEF h
  <2> QED BY <2>2, <2>3, Zenon
<1>5. CountLaw
  <2>1. IsFiniteSet({}) /\ Cardinality({}) = 0
    BY FS_EmptySet
  <2>2. \A S : IsFiniteSet(S) => Cardinality(S) \in Nat
    BY FS_CardinalityType
  <2>3. ASSUME NEW S, NEW x, IsFiniteSet(S), x \notin S
        PROVE  IsFiniteSet(S \cup {x}) /\ Cardinality(S \cup {x}) = Cardinality(S) + 1
    BY <2>3, FS_AddElement
  <2> QED BY <2>1, <2>2, <2>3 DEF CountLaw
<1> QED BY <1>1, <1>2, <1>3, <1>4, <1>5 DEF SumLaws

(* Whatever handlers, failed batches and crashes register a token, it is
   inserted once, and every stored transfer is of a token that was inserted. *)
THEOREM TokensRegisteredOnce == Spec => []RegisteredOnce
BY SumLawsHold, RegisteredUnderLaws

(* BalancesAgree of Erc: the committed balances are those of the chain after the
   committed transfers and the supplies are what the accounts hold, for any set
   of accounts and tokens, any transfers and whatever fails. *)
THEOREM BalancesFollowChain == Spec => []BalancesAgree
BY SumLawsHold, BalancesUnderLaws
=============================================================================
