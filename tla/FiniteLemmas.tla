---------------------------- MODULE FiniteLemmas ----------------------------
(***************************************************************************)
(* What the proofs of several components need to know about finite sets,   *)
(* lists and sums.  A fact about every finite set, or every number, is     *)
(* proved from a smallest counterexample: the strict subset order on       *)
(* finite sets is well-founded.                                            *)
(***************************************************************************)
EXTENDS Integers, FiniteSetsExt, SequencesExt, WellFoundedInduction, FiniteSetTheorems,
        SequenceTheorems, TLAPS

-----------------------------------------------------------------------------
(* Smallest and largest elements.                                          *)

\* Of finite sets there is always one that contains no other.
LEMMA MinimalFiniteSet ==
  ASSUME NEW U, U # {}, \A T \in U : IsFiniteSet(T)
  PROVE  \E T \in U : \A V \in U : V \subseteq T => V = T
<1>. DEFINE S == UNION U
<1>1. U \subseteq FiniteSubsetsOf(S)
  BY DEF FiniteSubsetsOf
<1>. HIDE DEF S
<1>2. \E x \in U : \A y \in U : ~(<<y, x>> \in StrictSubsetOrdering(S))
  BY <1>1, WFMin, FS_StrictSubsetOrderingWellFounded
<1>. QED  BY <1>2 DEF StrictSubsetOrdering, S

\* Every set of natural numbers has a least one.
LEMMA LeastNatural ==
  ASSUME NEW T, T \subseteq Nat, T # {}
  PROVE  \E x \in T : \A y \in T : x <= y
<1>. DEFINE U == {0 .. x : x \in T}
<1>1. \A x \in T : IsFiniteSet(0 .. x)
  BY FS_Interval
<1>2. U # {} /\ \A V \in U : IsFiniteSet(V)
  BY <1>1
<1>. HIDE DEF U
<1>3. PICK I \in U : \A V \in U : V \subseteq I => V = I
  BY <1>2, MinimalFiniteSet
<1>4. PICK x \in T : I = 0 .. x
  BY DEF U
<1>5. ASSUME NEW y \in T, y < x PROVE FALSE
  <2>1. 0 .. y \in U
    BY DEF U
  <2>2. 0 .. y \subseteq 0 .. x
    BY <1>5
  <2>3. 0 .. y = 0 .. x
    BY <1>3, <1>4, <2>1, <2>2
  <2>4. x \in 0 .. x /\ x \notin 0 .. y
    BY <1>5
  <2>. QED  BY <2>3, <2>4
<1>. QED  BY <1>5

\* A finite set of integers has a largest element.
LEMMA LargestExists ==
  ASSUME NEW S, IsFiniteSet(S), S # {}, S \subseteq Int
  PROVE  \E x \in S : \A y \in S : x >= y
<1>. DEFINE Bad == {T \in SUBSET S : T # {} /\ ~\E x \in T : \A y \in T : x >= y}
<1>1. SUFFICES ASSUME Bad # {} PROVE FALSE
  OBVIOUS
<1>2. \A T \in Bad : IsFiniteSet(T)
  BY FS_Subset
<1>. HIDE DEF Bad
<1>3. PICK T \in Bad : \A V \in Bad : V \subseteq T => V = T
  BY <1>1, <1>2, MinimalFiniteSet
<1>4. T \in SUBSET S /\ T # {} /\ ~\E x \in T : \A y \in T : x >= y
  BY DEF Bad
<1>5. PICK z \in T : TRUE
  BY <1>4
<1>6. PICK V : V = T \ {z}
  OBVIOUS
<1>7. V \in SUBSET S /\ V \subseteq T /\ V # T
  BY <1>4, <1>5, <1>6
<1>8. CASE V = {}
  BY <1>4, <1>5, <1>6, <1>8
<1>9. CASE V # {}
  <2>1. PICK x \in V : \A y \in V : x >= y
    BY <1>3, <1>7, <1>9 DEF Bad
  <2>2. \E w \in {x, z} : w >= x /\ w >= z
    BY <1>4, <1>5, <1>7, <2>1
  <2>3. PICK w \in {x, z} : w >= x /\ w >= z
    BY <2>2
  <2>4. w \in T /\ \A y \in T : y = z \/ x >= y
    BY <1>5, <1>6, <1>7, <2>1
  <2>5. \A y \in T : w >= y
    BY <1>4, <1>5, <1>7, <2>1, <2>3, <2>4
  <2>. QED  BY <1>4, <2>4, <2>5
<1>. QED  BY <1>8, <1>9

\* Max of a finite set of integers, however it is computed.
LEMMA MaxProperties ==
  ASSUME NEW S, IsFiniteSet(S), S # {}, S \subseteq Int
  PROVE  Max(S) \in S /\ \A y \in S : Max(S) >= y
BY LargestExists DEF Max

LEMMA FiniteImage ==
  ASSUME NEW D, IsFiniteSet(D), NEW f
  PROVE  IsFiniteSet({f[x] : x \in D})
<1>1. PICK T : T = {f[x] : x \in D}
  OBVIOUS
<1>2. PICK g : g = [x \in D |-> f[x]]
  OBVIOUS
<1>3. g \in Surjection(D, T)
  BY <1>1, <1>2 DEF Surjection
<1>. QED  BY <1>1, <1>3, FS_Surjection

\* The larger of two numbers.
LEMMA MaxOfTwo ==
  ASSUME NEW a \in Int, NEW b \in Int
  PROVE  /\ Max({a, b}) \in {a, b} /\ Max({a, b}) >= a /\ Max({a, b}) >= b
<1>1. PICK S : S = {a, b}
  OBVIOUS
<1>2. {a} \cup {b} = {a, b} /\ IsFiniteSet({a} \cup {b})
  BY FS_Singleton, FS_AddElement
<1>3. IsFiniteSet(S) /\ S # {} /\ S \subseteq Int
  BY <1>1, <1>2
<1>. QED  BY <1>1, <1>3, MaxProperties

-----------------------------------------------------------------------------
(* Lists.                                                                  *)

\* Erasing an element of a list keeps the others, in order (list::erase,
\* pop_front of candidates).
LEMMA RemoveAtProperties ==
    ASSUME NEW S, NEW s \in Seq(S), NEW i \in DOMAIN s
    PROVE  /\ RemoveAt(s, i) \in Seq(S)
           /\ Len(RemoveAt(s, i)) = Len(s) - 1
           /\ \A j \in 1 .. Len(s) - 1 :
                 RemoveAt(s, i)[j] = IF j < i THEN s[j] ELSE s[j + 1]
  <1> DEFINE front == SubSeq(s, 1, i - 1)
             back == SubSeq(s, i + 1, Len(s))
  <1>1. Len(s) \in Nat /\ DOMAIN s = 1 .. Len(s) /\ i \in 1 .. Len(s)
    BY LenProperties
  <1>2. \A j \in 1 .. Len(s) : s[j] \in S
    BY ElementOfSeq
  <1>3. /\ front \in Seq(S) /\ Len(front) = i - 1
        /\ \A j \in 1 .. i - 1 : front[j] = s[j]
    <2>1. \A j \in 1 .. i - 1 : s[j] \in S
      BY <1>1, <1>2
    <2>2. 1 \in Int /\ i - 1 \in Int
      BY <1>1
    <2> HIDE DEF front
    <2>3. /\ front \in Seq(S)
          /\ Len(front) = IF 1 <= i - 1 THEN i - 1 - 1 + 1 ELSE 0
          /\ \A j \in 1 .. i - 1 - 1 + 1 : front[j] = s[1 + j - 1]
      BY <2>1, <2>2, SubSeqProperties DEF front
    <2> QED BY <2>3, <1>1
  <1>4. /\ back \in Seq(S) /\ Len(back) = Len(s) - i
        /\ \A j \in 1 .. Len(s) - i : back[j] = s[i + j]
    <2>1. \A j \in i + 1 .. Len(s) : s[j] \in S
      BY <1>1, <1>2
    <2>2. i + 1 \in Int /\ Len(s) \in Int
      BY <1>1
    <2> HIDE DEF back
    <2>3. /\ back \in Seq(S)
          /\ Len(back) = IF i + 1 <= Len(s) THEN Len(s) - (i + 1) + 1 ELSE 0
          /\ \A j \in 1 .. Len(s) - (i + 1) + 1 : back[j] = s[i + 1 + j - 1]
      BY <2>1, <2>2, SubSeqProperties DEF back
    <2>4. Len(back) = Len(s) - i
      BY <2>3, <1>1
    <2>5. ASSUME NEW j \in 1 .. Len(s) - i PROVE back[j] = s[i + j]
      <3>1. j \in 1 .. Len(s) - (i + 1) + 1 /\ i + 1 + j - 1 = i + j
        BY <1>1
      <3> QED BY <2>3, <3>1
    <2> QED BY <2>3, <2>4, <2>5
  <1>5. RemoveAt(s, i) = front \o back
    BY DEF RemoveAt
  <1> HIDE DEF front, back
  <1>6. /\ front \o back \in Seq(S)
        /\ Len(front \o back) = Len(front) + Len(back)
        /\ \A j \in 1 .. Len(front) + Len(back) :
              (front \o back)[j] = IF j <= Len(front) THEN front[j] ELSE back[j - Len(front)]
    BY <1>3, <1>4, ConcatProperties
  <1>7. \A j \in 1 .. Len(s) - 1 : (front \o back)[j] = IF j < i THEN s[j] ELSE s[j + 1]
    <2> SUFFICES ASSUME NEW j \in 1 .. Len(s) - 1
                 PROVE  (front \o back)[j] = IF j < i THEN s[j] ELSE s[j + 1]
      OBVIOUS
    <2>a. j \in 1 .. Len(front) + Len(back)
      BY <1>1, <1>3, <1>4
    <2>b. (front \o back)[j] = IF j <= Len(front) THEN front[j] ELSE back[j - Len(front)]
      BY <2>a, <1>6
    <2>c. (front \o back)[j] = IF j <= i - 1 THEN front[j] ELSE back[j - (i - 1)]
      BY <2>b, <1>3
    <2>1. CASE j < i
      <3>1. j \in 1 .. i - 1 /\ j <= i - 1
        BY <2>1, <1>1
      <3> QED BY <3>1, <2>1, <2>c, <1>3
    <2>2. CASE ~(j < i)
      <3>1. j - (i - 1) \in 1 .. Len(s) - i /\ i + (j - (i - 1)) = j + 1
        BY <2>2, <1>1
      <3>2. back[j - (i - 1)] = s[j + 1]
        BY <3>1, <1>4
      <3>3. ~(j <= i - 1)
        BY <2>2, <1>1
      <3> QED BY <2>2, <3>2, <3>3, <2>c
    <2> QED BY <2>1, <2>2
  <1> QED BY <1>1, <1>3, <1>4, <1>5, <1>6, <1>7

-----------------------------------------------------------------------------
(* Sums.  SumFunctionOnSet adds up the values of a function in an order    *)
(* that CHOOSE picks; the lemmas say that the order does not matter.       *)

Pick(s) == CHOOSE x \in s : TRUE

\* g adds up the values of f, element by element, on every subset of S.
AddsUp(g, f, S) ==
  g = [s \in SUBSET S |-> IF s = {} THEN 0 ELSE f[Pick(s)] + g[s \ {Pick(s)}]]

LEMMA SumDef ==
  ASSUME NEW f, NEW S
  PROVE  SumFunctionOnSet(f, S) = (CHOOSE g : AddsUp(g, f, S))[S]
BY DEF SumFunctionOnSet, FoldFunctionOnSet, MapThenFoldSet, AddsUp, Pick

LEMMA PickIn == ASSUME NEW s, s # {} PROVE Pick(s) \in s
BY DEF Pick

LEMMA AddsUpUnique ==
  ASSUME NEW f, NEW S, NEW T, S \subseteq T, IsFiniteSet(S),
         NEW g, AddsUp(g, f, S), NEW h, AddsUp(h, f, T)
  PROVE  \A s \in SUBSET S : g[s] = h[s]
<1>. DEFINE Bad == {s \in SUBSET S : g[s] # h[s]}
<1>1. SUFFICES ASSUME Bad # {} PROVE FALSE
  OBVIOUS
<1>2. \A s \in Bad : IsFiniteSet(s)
  BY FS_Subset
<1>. HIDE DEF Bad
<1>3. PICK s \in Bad : \A v \in Bad : v \subseteq s => v = s
  BY <1>1, <1>2, MinimalFiniteSet
<1>4. s \in SUBSET S /\ s \in SUBSET T /\ g[s] # h[s]
  BY DEF Bad
<1>5. /\ g[s] = IF s = {} THEN 0 ELSE f[Pick(s)] + g[s \ {Pick(s)}]
      /\ h[s] = IF s = {} THEN 0 ELSE f[Pick(s)] + h[s \ {Pick(s)}]
  <2>1. g = [u \in SUBSET S |-> IF u = {} THEN 0 ELSE f[Pick(u)] + g[u \ {Pick(u)}]]
    BY DEF AddsUp
  <2>2. h = [u \in SUBSET T |-> IF u = {} THEN 0 ELSE f[Pick(u)] + h[u \ {Pick(u)}]]
    BY DEF AddsUp
  <2>. QED  BY <2>1, <2>2, <1>4
<1>6. s # {} /\ Pick(s) \in s
  BY <1>4, <1>5, PickIn
<1>7. PICK v : v = s \ {Pick(s)}
  OBVIOUS
<1>8. v \subseteq s /\ v # s /\ v \in SUBSET S
  BY <1>4, <1>6, <1>7
<1>9. g[v] = h[v]
  BY <1>3, <1>8 DEF Bad
<1>. QED  BY <1>4, <1>5, <1>6, <1>7, <1>9

LEMMA AddsUpExists ==
  ASSUME NEW f, NEW S, IsFiniteSet(S)
  PROVE  \E g : AddsUp(g, f, S)
<1>. DEFINE Bad == {T \in SUBSET S : ~\E g : AddsUp(g, f, T)}
<1>1. SUFFICES ASSUME Bad # {} PROVE FALSE
  OBVIOUS
<1>2. \A T \in Bad : IsFiniteSet(T)
  BY FS_Subset
<1>. HIDE DEF Bad
<1>3. PICK T \in Bad : \A V \in Bad : V \subseteq T => V = T
  BY <1>1, <1>2, MinimalFiniteSet
<1>4. T \in SUBSET S /\ ~\E g : AddsUp(g, f, T)
  BY DEF Bad
<1>. DEFINE Of(V) == CHOOSE g : AddsUp(g, f, V)
<1>5. ASSUME NEW V \in SUBSET T, V # T PROVE AddsUp(Of(V), f, V)
  <2>1. \E g : AddsUp(g, f, V)
    BY <1>3, <1>4, <1>5 DEF Bad
  <2>. QED  BY <2>1
<1>. HIDE DEF Of
<1>. DEFINE G == [V \in SUBSET T |-> IF V = {} THEN 0
                                     ELSE f[Pick(V)] + Of(V \ {Pick(V)})[V \ {Pick(V)}]]
<1>6. ASSUME NEW W \in SUBSET T, W # T PROVE G[W] = Of(W)[W]
  <2>1. AddsUp(Of(W), f, W)
    BY <1>5, <1>6
  <2>2. Of(W)[W] = IF W = {} THEN 0 ELSE f[Pick(W)] + Of(W)[W \ {Pick(W)}]
    <3>1. PICK h : h = Of(W)
      OBVIOUS
    <3>2. h = [u \in SUBSET W |-> IF u = {} THEN 0 ELSE f[Pick(u)] + h[u \ {Pick(u)}]]
      BY <2>1, <3>1 DEF AddsUp
    <3>3. h[W] = IF W = {} THEN 0 ELSE f[Pick(W)] + h[W \ {Pick(W)}]
      BY <3>2
    <3>. QED  BY <3>1, <3>3
  <2>3. CASE W = {}
    BY <2>2, <2>3
  <2>4. CASE W # {}
    <3>1. PICK X : X = W \ {Pick(W)}
      OBVIOUS
    <3>2. X \subseteq W /\ X \in SUBSET T /\ X # T /\ IsFiniteSet(X)
      BY <1>4, <1>6, <3>1, <2>4, PickIn, FS_Subset
    <3>3. AddsUp(Of(X), f, X)
      BY <1>5, <3>2
    <3>4. Of(X)[X] = Of(W)[X]
      BY <2>1, <3>2, <3>3, AddsUpUnique
    <3>. QED  BY <2>2, <2>4, <3>1, <3>4
  <2>. QED  BY <2>3, <2>4
<1>7. ASSUME NEW V \in SUBSET T
      PROVE  G[V] = IF V = {} THEN 0 ELSE f[Pick(V)] + G[V \ {Pick(V)}]
  <2>1. CASE V = {}
    BY <2>1
  <2>2. CASE V # {}
    <3>1. PICK W : W = V \ {Pick(V)}
      OBVIOUS
    <3>2. W \in SUBSET T /\ W # T
      BY <2>2, <3>1, PickIn
    <3>3. G[V] = f[Pick(V)] + Of(W)[W]
      BY <2>2, <3>1
    <3>4. G[W] = Of(W)[W]
      BY <1>6, <3>2
    <3>. HIDE DEF G
    <3>. QED  BY <2>2, <3>1, <3>3, <3>4
  <2>. QED  BY <2>1, <2>2
<1>8. G = [V \in SUBSET T |-> G[V]]
  OBVIOUS
<1>. HIDE DEF G
<1>9. AddsUp(G, f, T)
  BY <1>7, <1>8 DEF AddsUp
<1>. QED  BY <1>4, <1>9

LEMMA SumIsAddedUp ==
  ASSUME NEW f, NEW S, IsFiniteSet(S), NEW g, AddsUp(g, f, S)
  PROVE  \A T \in SUBSET S : SumFunctionOnSet(f, T) = g[T]
<1>. SUFFICES ASSUME NEW T \in SUBSET S PROVE SumFunctionOnSet(f, T) = g[T]
  OBVIOUS
<1>1. IsFiniteSet(T)
  BY FS_Subset
<1>2. PICK h : h = CHOOSE k : AddsUp(k, f, T)
  OBVIOUS
<1>3. AddsUp(h, f, T)
  BY <1>1, <1>2, AddsUpExists
<1>4. SumFunctionOnSet(f, T) = h[T]
  BY <1>2, SumDef
<1>5. T \subseteq S /\ T \in SUBSET T
  OBVIOUS
<1>6. \A s \in SUBSET T : h[s] = g[s]
  BY <1>1, <1>3, <1>5, AddsUpUnique
<1>. QED  BY <1>4, <1>5, <1>6

LEMMA SumEmpty == ASSUME NEW f PROVE SumFunctionOnSet(f, {}) = 0
<1>1. PICK g : AddsUp(g, f, {})
  BY AddsUpExists, FS_EmptySet
<1>2. g[{}] = 0
  <2>1. g = [s \in SUBSET {} |-> IF s = {} THEN 0 ELSE f[Pick(s)] + g[s \ {Pick(s)}]]
    BY <1>1 DEF AddsUp
  <2>. QED  BY <2>1
<1>. QED  BY <1>1, <1>2, SumIsAddedUp, FS_EmptySet

LEMMA SumPick ==
  ASSUME NEW f, NEW S, IsFiniteSet(S), S # {}
  PROVE  SumFunctionOnSet(f, S) = f[Pick(S)] + SumFunctionOnSet(f, S \ {Pick(S)})
<1>1. PICK g : AddsUp(g, f, S)
  BY AddsUpExists
<1>2. g[S] = f[Pick(S)] + g[S \ {Pick(S)}]
  <2>1. g = [s \in SUBSET S |-> IF s = {} THEN 0 ELSE f[Pick(s)] + g[s \ {Pick(s)}]]
    BY <1>1 DEF AddsUp
  <2>. QED  BY <2>1
<1>3. SumFunctionOnSet(f, S) = g[S]
  BY <1>1, SumIsAddedUp
<1>4. SumFunctionOnSet(f, S \ {Pick(S)}) = g[S \ {Pick(S)}]
  BY <1>1, SumIsAddedUp
<1>. QED  BY <1>2, <1>3, <1>4

\* The sum of integers is one, and does not look at values outside of the set.
LEMMA SumType ==
  ASSUME NEW f, NEW S, IsFiniteSet(S), \A x \in S : f[x] \in Int
  PROVE  SumFunctionOnSet(f, S) \in Int
<1>. DEFINE Bad == {T \in SUBSET S : SumFunctionOnSet(f, T) \notin Int}
<1>1. SUFFICES ASSUME Bad # {} PROVE FALSE
  OBVIOUS
<1>2. \A T \in Bad : IsFiniteSet(T)
  BY FS_Subset
<1>. HIDE DEF Bad
<1>3. PICK T \in Bad : \A V \in Bad : V \subseteq T => V = T
  BY <1>1, <1>2, MinimalFiniteSet
<1>4. T \in SUBSET S /\ SumFunctionOnSet(f, T) \notin Int /\ IsFiniteSet(T)
  BY <1>2 DEF Bad
<1>5. T # {} /\ Pick(T) \in T
  BY <1>4, SumEmpty, PickIn
<1>6. PICK V : V = T \ {Pick(T)}
  OBVIOUS
<1>7. V \subseteq T /\ V # T /\ V \in SUBSET S
  BY <1>4, <1>5, <1>6
<1>8. SumFunctionOnSet(f, V) \in Int
  BY <1>3, <1>7 DEF Bad
<1>9. SumFunctionOnSet(f, T) = f[Pick(T)] + SumFunctionOnSet(f, V)
  BY <1>4, <1>5, <1>6, SumPick
<1>. QED  BY <1>4, <1>5, <1>8, <1>9

\* Any element may be taken out of the sum.
LEMMA SumTakeOut ==
  ASSUME NEW f, NEW S, IsFiniteSet(S), \A x \in S : f[x] \in Int
  PROVE  \A x \in S : SumFunctionOnSet(f, S) = f[x] + SumFunctionOnSet(f, S \ {x})
<1>. DEFINE Good(T) == \A x \in T : SumFunctionOnSet(f, T) = f[x] + SumFunctionOnSet(f, T \ {x})
            Bad == {T \in SUBSET S : ~Good(T)}
<1>1. SUFFICES ASSUME Bad # {} PROVE FALSE
  OBVIOUS
<1>2. \A T \in Bad : IsFiniteSet(T)
  BY FS_Subset
<1>. HIDE DEF Bad
<1>3. PICK T \in Bad : \A V \in Bad : V \subseteq T => V = T
  BY <1>1, <1>2, MinimalFiniteSet
<1>4. T \in SUBSET S /\ IsFiniteSet(T) /\ ~Good(T)
  BY <1>2 DEF Bad
<1>5. PICK x \in T : SumFunctionOnSet(f, T) # f[x] + SumFunctionOnSet(f, T \ {x})
  BY <1>4
<1>6. PICK p : p = Pick(T)
  OBVIOUS
<1>7. p \in T /\ SumFunctionOnSet(f, T) = f[p] + SumFunctionOnSet(f, T \ {p})
  BY <1>4, <1>5, <1>6, PickIn, SumPick
<1>8. x # p
  BY <1>5, <1>7
<1>9. PICK V : V = T \ {p}
  OBVIOUS
<1>10. PICK W : W = T \ {x}
  OBVIOUS
<1>11. /\ V \subseteq T /\ V # T /\ V \in SUBSET S /\ x \in V
       /\ W \subseteq T /\ W # T /\ W \in SUBSET S /\ p \in W
       /\ V \ {x} = W \ {p}
  BY <1>4, <1>5, <1>7, <1>8, <1>9, <1>10
<1>12. Good(V) /\ Good(W)
  BY <1>3, <1>11 DEF Bad
<1>13. PICK R : R = V \ {x}
  OBVIOUS
<1>14. /\ SumFunctionOnSet(f, V) = f[x] + SumFunctionOnSet(f, R)
       /\ SumFunctionOnSet(f, W) = f[p] + SumFunctionOnSet(f, R)
  BY <1>11, <1>12, <1>13
<1>15. IsFiniteSet(R) /\ \A y \in R : f[y] \in Int
  BY <1>4, <1>9, <1>13, FS_Subset
<1>16. SumFunctionOnSet(f, R) \in Int /\ f[x] \in Int /\ f[p] \in Int
  BY <1>4, <1>7, <1>15, SumType
<1>17. /\ SumFunctionOnSet(f, T) = f[p] + SumFunctionOnSet(f, V)
       /\ SumFunctionOnSet(f, T) # f[x] + SumFunctionOnSet(f, W)
  BY <1>5, <1>7, <1>9, <1>10
<1>. QED  BY <1>14, <1>16, <1>17

LEMMA SumSame ==
  ASSUME NEW f, NEW g, NEW S, IsFiniteSet(S), \A x \in S : f[x] = g[x]
  PROVE  SumFunctionOnSet(f, S) = SumFunctionOnSet(g, S)
<1>. DEFINE Bad == {T \in SUBSET S : SumFunctionOnSet(f, T) # SumFunctionOnSet(g, T)}
<1>1. SUFFICES ASSUME Bad # {} PROVE FALSE
  OBVIOUS
<1>2. \A T \in Bad : IsFiniteSet(T)
  BY FS_Subset
<1>. HIDE DEF Bad
<1>3. PICK T \in Bad : \A V \in Bad : V \subseteq T => V = T
  BY <1>1, <1>2, MinimalFiniteSet
<1>4. /\ T \in SUBSET S /\ IsFiniteSet(T)
      /\ SumFunctionOnSet(f, T) # SumFunctionOnSet(g, T)
  BY <1>2 DEF Bad
<1>5. T # {} /\ Pick(T) \in T
  BY <1>4, SumEmpty, PickIn
<1>6. PICK V : V = T \ {Pick(T)}
  OBVIOUS
<1>7. V \subseteq T /\ V # T /\ V \in SUBSET S
  BY <1>4, <1>5, <1>6
<1>8. SumFunctionOnSet(f, V) = SumFunctionOnSet(g, V)
  BY <1>3, <1>7 DEF Bad
<1>9. /\ SumFunctionOnSet(f, T) = f[Pick(T)] + SumFunctionOnSet(f, V)
      /\ SumFunctionOnSet(g, T) = g[Pick(T)] + SumFunctionOnSet(g, V)
  BY <1>4, <1>5, <1>6, SumPick
<1>. QED  BY <1>4, <1>5, <1>8, <1>9

\* Two functions that differ in one place have sums that differ by as much.
LEMMA SumChange ==
  ASSUME NEW S, IsFiniteSet(S), NEW f, NEW g, NEW x \in S,
         \A y \in S : f[y] \in Int /\ g[y] \in Int,
         \A y \in S : y # x => g[y] = f[y]
  PROVE  SumFunctionOnSet(g, S) = SumFunctionOnSet(f, S) + (g[x] - f[x])
<1>1. PICK R : R = S \ {x}
  OBVIOUS
<1>2. IsFiniteSet(R) /\ R \subseteq S
  BY <1>1, FS_Subset
<1>3. SumFunctionOnSet(f, R) = SumFunctionOnSet(g, R)
  BY <1>1, <1>2, SumSame
<1>4. SumFunctionOnSet(f, R) \in Int
  BY <1>2, SumType
<1>5. SumFunctionOnSet(f, S) = f[x] + SumFunctionOnSet(f, R)
  BY <1>1, SumTakeOut
<1>6. SumFunctionOnSet(g, S) = g[x] + SumFunctionOnSet(g, R)
  BY <1>1, SumTakeOut
<1>. QED  BY <1>3, <1>4, <1>5, <1>6

LEMMA SumZero ==
  ASSUME NEW f, NEW S, IsFiniteSet(S), \A x \in S : f[x] = 0
  PROVE  SumFunctionOnSet(f, S) = 0
<1>. DEFINE Bad == {T \in SUBSET S : SumFunctionOnSet(f, T) # 0}
<1>1. SUFFICES ASSUME Bad # {} PROVE FALSE
  OBVIOUS
<1>2. \A T \in Bad : IsFiniteSet(T)
  BY FS_Subset
<1>. HIDE DEF Bad
<1>3. PICK T \in Bad : \A V \in Bad : V \subseteq T => V = T
  BY <1>1, <1>2, MinimalFiniteSet
<1>4. T \in SUBSET S /\ IsFiniteSet(T) /\ SumFunctionOnSet(f, T) # 0
  BY <1>2 DEF Bad
<1>5. T # {} /\ Pick(T) \in T
  BY <1>4, SumEmpty, PickIn
<1>6. PICK V : V = T \ {Pick(T)}
  OBVIOUS
<1>7. V \subseteq T /\ V # T /\ V \in SUBSET S
  BY <1>4, <1>5, <1>6
<1>8. SumFunctionOnSet(f, V) = 0
  BY <1>3, <1>7 DEF Bad
<1>9. SumFunctionOnSet(f, T) = f[Pick(T)] + SumFunctionOnSet(f, V)
  BY <1>4, <1>5, <1>6, SumPick
<1>. QED  BY <1>4, <1>5, <1>8, <1>9

\* Adding value by value adds the sums.
LEMMA SumAdd ==
  ASSUME NEW S, IsFiniteSet(S), NEW f, NEW g, NEW h,
         \A x \in S : f[x] \in Int /\ g[x] \in Int /\ h[x] = f[x] + g[x]
  PROVE  SumFunctionOnSet(h, S) = SumFunctionOnSet(f, S) + SumFunctionOnSet(g, S)
<1>. DEFINE Bad == {T \in SUBSET S : SumFunctionOnSet(h, T)
                                     # SumFunctionOnSet(f, T) + SumFunctionOnSet(g, T)}
<1>1. SUFFICES ASSUME Bad # {} PROVE FALSE
  OBVIOUS
<1>2. \A T \in Bad : IsFiniteSet(T)
  BY FS_Subset
<1>. HIDE DEF Bad
<1>3. PICK T \in Bad : \A V \in Bad : V \subseteq T => V = T
  BY <1>1, <1>2, MinimalFiniteSet
<1>4. /\ T \in SUBSET S /\ IsFiniteSet(T)
      /\ SumFunctionOnSet(h, T) # SumFunctionOnSet(f, T) + SumFunctionOnSet(g, T)
  BY <1>2 DEF Bad
<1>5. T # {} /\ Pick(T) \in T
  <2>0. /\ SumFunctionOnSet(f, {}) = 0 /\ SumFunctionOnSet(g, {}) = 0
        /\ SumFunctionOnSet(h, {}) = 0
    BY SumEmpty
  <2>1. ASSUME T = {} PROVE FALSE
    <3>1. /\ SumFunctionOnSet(f, T) = 0 /\ SumFunctionOnSet(g, T) = 0
          /\ SumFunctionOnSet(h, T) = 0
      BY <2>0, <2>1, Zenon
    <3>. QED  BY <1>4, <3>1
  <2>. QED  BY <2>1, PickIn
<1>6. PICK V : V = T \ {Pick(T)}
  OBVIOUS
<1>7. V \subseteq T /\ V # T /\ V \in SUBSET S
  BY <1>4, <1>5, <1>6
<1>8. SumFunctionOnSet(h, V) = SumFunctionOnSet(f, V) + SumFunctionOnSet(g, V)
  BY <1>3, <1>7 DEF Bad
<1>9. /\ SumFunctionOnSet(f, T) = f[Pick(T)] + SumFunctionOnSet(f, V)
      /\ SumFunctionOnSet(g, T) = g[Pick(T)] + SumFunctionOnSet(g, V)
      /\ SumFunctionOnSet(h, T) = h[Pick(T)] + SumFunctionOnSet(h, V)
  BY <1>4, <1>5, <1>6, SumPick
<1>10. SumFunctionOnSet(f, V) \in Int /\ SumFunctionOnSet(g, V) \in Int
  <2>1. IsFiniteSet(V) /\ \A x \in V : f[x] \in Int /\ g[x] \in Int
    BY <1>4, <1>7, FS_Subset
  <2>. QED  BY <2>1, SumType
<1>11. /\ f[Pick(T)] \in Int /\ g[Pick(T)] \in Int
       /\ h[Pick(T)] = f[Pick(T)] + g[Pick(T)]
  BY <1>4, <1>5
<1>. QED  BY <1>4, <1>8, <1>9, <1>10, <1>11

\* G holds for every owner in S the sum of its part of f, and every element of T
\* that counts has its owner in S.
SplitByOwner(f, T, own, S, part, G) ==
  /\ \A x \in T : f[x] \in Int /\ (f[x] = 0 \/ own[x] \in S)
  /\ \A p \in S, x \in T : part[p][x] = IF own[x] = p THEN f[x] ELSE 0
  /\ \A p \in S : G[p] = SumFunctionOnSet(part[p], T)

\* A sum may be taken owner by owner.
LEMMA SumByOwner ==
  ASSUME NEW S, IsFiniteSet(S), NEW T, IsFiniteSet(T), NEW f, NEW own, NEW part, NEW G,
         SplitByOwner(f, T, own, S, part, G)
  PROVE  SumFunctionOnSet(G, S) = SumFunctionOnSet(f, T)
<1>s. /\ \A x \in T : f[x] \in Int /\ (f[x] = 0 \/ own[x] \in S)
      /\ \A p \in S, x \in T : part[p][x] = IF own[x] = p THEN f[x] ELSE 0
      /\ \A p \in S : G[p] = SumFunctionOnSet(part[p], T)
  BY DEF SplitByOwner
<1>. DEFINE Of(V) == [x \in T |-> IF own[x] \in V THEN f[x] ELSE 0]
            Bad == {V \in SUBSET S : SumFunctionOnSet(G, V) # SumFunctionOnSet(Of(V), T)}
<1>0. ASSUME NEW V PROVE \A x \in T : Of(V)[x] \in Int
  BY <1>s
<1>1. ASSUME Bad # {} PROVE FALSE
  <2>2. \A V \in Bad : IsFiniteSet(V)
    BY FS_Subset
  <2>. HIDE DEF Bad
  <2>3. PICK V \in Bad : \A W \in Bad : W \subseteq V => W = V
    BY <1>1, <2>2, MinimalFiniteSet
  <2>4. /\ V \in SUBSET S /\ IsFiniteSet(V)
        /\ SumFunctionOnSet(G, V) # SumFunctionOnSet(Of(V), T)
    BY <2>2 DEF Bad
  <2>5. V # {}
    <3>1. ASSUME V = {} PROVE FALSE
      <4>1. \A x \in T : Of(V)[x] = 0
        BY <3>1
      <4>. HIDE DEF Of
      <4>2. SumFunctionOnSet(Of(V), T) = 0
        BY <4>1, SumZero
      <4>. QED  BY <2>4, <3>1, <4>2, SumEmpty
    <3>. QED  BY <3>1
  <2>6. PICK p : p = Pick(V)
    OBVIOUS
  <2>7. p \in V /\ p \in S
    BY <2>4, <2>5, <2>6, PickIn
  <2>8. PICK W : W = V \ {p}
    OBVIOUS
  <2>9. W \subseteq V /\ W # V /\ W \in SUBSET S
    BY <2>4, <2>7, <2>8
  <2>10. SumFunctionOnSet(G, W) = SumFunctionOnSet(Of(W), T)
    BY <2>3, <2>9 DEF Bad
  <2>11. SumFunctionOnSet(G, V) = G[p] + SumFunctionOnSet(G, W)
    BY <2>4, <2>5, <2>6, <2>8, SumPick
  <2>12. PICK h : h = part[p]
    OBVIOUS
  <2>13. G[p] = SumFunctionOnSet(h, T)
    BY <1>s, <2>7, <2>12
  <2>14. \A x \in T : h[x] \in Int /\ Of(V)[x] = h[x] + Of(W)[x]
    BY <1>s, <2>7, <2>8, <2>12
  <2>15. \A x \in T : Of(W)[x] \in Int
    BY <1>0
  <2>. HIDE DEF Of
  <2>16. SumFunctionOnSet(Of(V), T) = SumFunctionOnSet(h, T) + SumFunctionOnSet(Of(W), T)
    BY <2>14, <2>15, SumAdd
  <2>. QED  BY <2>4, <2>10, <2>11, <2>13, <2>16
<1>2. SumFunctionOnSet(G, S) = SumFunctionOnSet(Of(S), T)
  BY <1>1
<1>3. \A x \in T : Of(S)[x] = f[x]
  BY <1>s
<1>. HIDE DEF Of
<1>4. SumFunctionOnSet(Of(S), T) = SumFunctionOnSet(f, T)
  BY <1>3, SumSame
<1>. QED  BY <1>2, <1>4

\* A sum of smaller values is smaller.
LEMMA SumMonotone ==
  ASSUME NEW S, IsFiniteSet(S), NEW f, NEW g,
         \A x \in S : f[x] \in Int /\ g[x] \in Int /\ f[x] <= g[x]
  PROVE  SumFunctionOnSet(f, S) <= SumFunctionOnSet(g, S)
<1>. DEFINE Bad == {T \in SUBSET S : ~(SumFunctionOnSet(f, T) <= SumFunctionOnSet(g, T))}
<1>1. SUFFICES ASSUME Bad # {} PROVE FALSE
  OBVIOUS
<1>2. \A T \in Bad : IsFiniteSet(T)
  BY FS_Subset
<1>. HIDE DEF Bad
<1>3. PICK T \in Bad : \A V \in Bad : V \subseteq T => V = T
  BY <1>1, <1>2, MinimalFiniteSet
<1>4. /\ T \in SUBSET S /\ IsFiniteSet(T)
      /\ ~(SumFunctionOnSet(f, T) <= SumFunctionOnSet(g, T))
  BY <1>2 DEF Bad
<1>5. T # {}
  <2>1. SumFunctionOnSet(f, {}) = 0 /\ SumFunctionOnSet(g, {}) = 0
    BY SumEmpty
  <2>. QED  BY <1>4, <2>1
<1>6. PICK x \in T : TRUE
  BY <1>5
<1>7. PICK V : V = T \ {x}
  OBVIOUS
<1>8. V \in SUBSET S /\ V \subseteq T /\ V # T /\ IsFiniteSet(V)
  BY <1>4, <1>6, <1>7, FS_Subset
<1>9. SumFunctionOnSet(f, V) <= SumFunctionOnSet(g, V)
  BY <1>3, <1>8 DEF Bad
<1>10. SumFunctionOnSet(f, V) \in Int /\ SumFunctionOnSet(g, V) \in Int
  <2>1. \A y \in V : f[y] \in Int /\ g[y] \in Int
    BY <1>8
  <2>. QED  BY <1>8, <2>1, SumType
<1>11. /\ SumFunctionOnSet(f, T) = f[x] + SumFunctionOnSet(f, V)
       /\ SumFunctionOnSet(g, T) = g[x] + SumFunctionOnSet(g, V)
  <2>1. \A y \in T : f[y] \in Int /\ g[y] \in Int
    BY <1>4
  <2>2. \A y \in T : SumFunctionOnSet(f, T) = f[y] + SumFunctionOnSet(f, T \ {y})
    BY <1>4, <2>1, SumTakeOut
  <2>3. \A y \in T : SumFunctionOnSet(g, T) = g[y] + SumFunctionOnSet(g, T \ {y})
    BY <1>4, <2>1, SumTakeOut
  <2>. QED  BY <1>7, <2>2, <2>3
<1>12. f[x] \in Int /\ g[x] \in Int /\ f[x] <= g[x]
  BY <1>4, <1>6
<1>. QED  BY <1>4, <1>9, <1>10, <1>11, <1>12

\* The sum over two sets that have nothing in common.
LEMMA SumUnion ==
  ASSUME NEW S, IsFiniteSet(S), NEW R, IsFiniteSet(R), S \cap R = {}, NEW f,
         \A x \in S \cup R : f[x] \in Int
  PROVE  SumFunctionOnSet(f, S \cup R) = SumFunctionOnSet(f, S) + SumFunctionOnSet(f, R)
<1>. DEFINE Good(T) == SumFunctionOnSet(f, T \cup R)
                         = SumFunctionOnSet(f, T) + SumFunctionOnSet(f, R)
            Bad == {T \in SUBSET S : ~Good(T)}
<1>0. SumFunctionOnSet(f, R) \in Int
  BY SumType
<1>1. SUFFICES ASSUME Bad # {} PROVE FALSE
  OBVIOUS
<1>2. \A T \in Bad : IsFiniteSet(T)
  BY FS_Subset
<1>. HIDE DEF Bad
<1>3. PICK T \in Bad : \A V \in Bad : V \subseteq T => V = T
  BY <1>1, <1>2, MinimalFiniteSet
<1>4. T \in SUBSET S /\ IsFiniteSet(T) /\ ~Good(T)
  BY <1>2 DEF Bad
<1>5. T # {}
  <2>1. SumFunctionOnSet(f, {}) = 0 /\ {} \cup R = R
    BY SumEmpty
  <2>2. Good({})
    BY <1>0, <2>1
  <2>. QED  BY <1>4, <2>2
<1>6. PICK x \in T : x \notin R
  BY <1>4, <1>5
<1>7. PICK V : V = T \ {x}
  OBVIOUS
<1>8. V \in SUBSET S /\ V \subseteq T /\ V # T /\ IsFiniteSet(V)
  BY <1>4, <1>6, <1>7, FS_Subset
<1>9. Good(V)
  BY <1>3, <1>8 DEF Bad
<1>10. SumFunctionOnSet(f, T) = f[x] + SumFunctionOnSet(f, V)
  <2>1. \A y \in T : f[y] \in Int
    BY <1>4
  <2>2. \A y \in T : SumFunctionOnSet(f, T) = f[y] + SumFunctionOnSet(f, T \ {y})
    BY <1>4, <2>1, SumTakeOut
  <2>. QED  BY <1>7, <2>2
<1>11. SumFunctionOnSet(f, T \cup R) = f[x] + SumFunctionOnSet(f, V \cup R)
  <2>1. PICK W : W = T \cup R
    OBVIOUS
  <2>2. IsFiniteSet(W) /\ x \in W /\ W \ {x} = V \cup R /\ \A y \in W : f[y] \in Int
    BY <1>4, <1>6, <1>7, <2>1, FS_Union
  <2>3. \A y \in W : SumFunctionOnSet(f, W) = f[y] + SumFunctionOnSet(f, W \ {y})
    BY <2>2, SumTakeOut
  <2>. QED  BY <2>1, <2>2, <2>3
<1>12. f[x] \in Int /\ SumFunctionOnSet(f, V) \in Int
  <2>1. \A y \in V : f[y] \in Int
    BY <1>8
  <2>. QED  BY <1>4, <1>8, <2>1, SumType
<1>. QED  BY <1>0, <1>4, <1>9, <1>10, <1>11, <1>12

\* Values that are not negative only add to a sum.
LEMMA SumPart ==
  ASSUME NEW S, IsFiniteSet(S), NEW T \in SUBSET S, NEW f, \A x \in S : f[x] \in Nat
  PROVE  SumFunctionOnSet(f, T) <= SumFunctionOnSet(f, S)
<1>1. PICK R : R = S \ T
  OBVIOUS
<1>2. IsFiniteSet(T) /\ IsFiniteSet(R) /\ T \cap R = {} /\ T \cup R = S
  BY <1>1, FS_Subset
<1>3. \A x \in T \cup R : f[x] \in Int
  BY <1>2
<1>4. SumFunctionOnSet(f, T \cup R) = SumFunctionOnSet(f, T) + SumFunctionOnSet(f, R)
  BY <1>2, <1>3, SumUnion
<1>5. PICK z : z = [x \in S |-> 0]
  OBVIOUS
<1>6. SumFunctionOnSet(z, R) = 0
  BY <1>1, <1>2, <1>5, SumZero
<1>7. \A x \in R : z[x] \in Int /\ f[x] \in Int /\ z[x] <= f[x]
  BY <1>1, <1>5
<1>8. SumFunctionOnSet(z, R) <= SumFunctionOnSet(f, R)
  BY <1>2, <1>7, SumMonotone
<1>9. SumFunctionOnSet(f, T) \in Int /\ SumFunctionOnSet(f, R) \in Int
  BY <1>2, <1>3, SumType
<1>10. SumFunctionOnSet(f, S) = SumFunctionOnSet(f, T) + SumFunctionOnSet(f, R)
  BY <1>2, <1>4, Zenon
<1>. QED  BY <1>6, <1>8, <1>9, <1>10

\* The same values one place further on add up to the same.
LEMMA SumShift ==
  ASSUME NEW a \in Int, NEW b \in Int, NEW f, NEW g,
         \A t \in a .. b : f[t] \in Int /\ f[t] = g[t + 1]
  PROVE  SumFunctionOnSet(f, a .. b) = SumFunctionOnSet(g, a + 1 .. b + 1)
<1>. DEFINE Bad == {d \in Nat : a + d - 1 <= b /\ SumFunctionOnSet(f, a .. a + d - 1)
                                             # SumFunctionOnSet(g, a + 1 .. a + d)}
<1>0. CASE b < a
  <2>1. a .. b = {} /\ a + 1 .. b + 1 = {}
    BY <1>0
  <2>. QED  BY <2>1, SumEmpty
<1>1. CASE a <= b /\ Bad = {}
  <2>1. PICK d \in Nat : d = b - a + 1
    BY <1>1
  <2>2. a + d - 1 = b /\ a + d = b + 1
    BY <2>1
  <2>3. d \notin Bad
    BY <1>1, Zenon
  <2>4. SumFunctionOnSet(f, a .. a + d - 1) = SumFunctionOnSet(g, a + 1 .. a + d)
    BY <2>2, <2>3
  <2>. QED  BY <2>2, <2>4
<1>2. ASSUME Bad # {} PROVE FALSE
  <2>1. PICK d \in Bad : \A e \in Bad : d <= e
    <3>1. Bad \subseteq Nat
      OBVIOUS
    <3>. HIDE DEF Bad
    <3>. QED  BY <1>2, <3>1, LeastNatural
  <2>2. /\ d \in Nat /\ a + d - 1 <= b
        /\ SumFunctionOnSet(f, a .. a + d - 1) # SumFunctionOnSet(g, a + 1 .. a + d)
    OBVIOUS
  <2>3. d # 0
    <3>1. a .. a + 0 - 1 = {} /\ a + 1 .. a + 0 = {}
      OBVIOUS
    <3>2. SumFunctionOnSet(f, a .. a + 0 - 1) = SumFunctionOnSet(g, a + 1 .. a + 0)
      BY <3>1, SumEmpty
    <3>. QED  BY <2>2, <3>2
  <2>4. PICK e \in Nat : d = e + 1
    <3>1. d - 1 \in Nat /\ d = (d - 1) + 1
      BY <2>2, <2>3
    <3>. QED  BY <3>1
  <2>5. SumFunctionOnSet(f, a .. a + e - 1) = SumFunctionOnSet(g, a + 1 .. a + e)
    <3>1. e \notin Bad
      <4>. HIDE DEF Bad
      <4>. QED  BY <2>1, <2>2, <2>4
    <3>2. a + e - 1 <= b
      BY <2>2, <2>4
    <3>. QED  BY <3>1, <3>2
  <2>6. PICK x \in Int : x = a + e
    OBVIOUS
  <2>7. PICK F : F = a .. x
    OBVIOUS
  <2>8. PICK G : G = a + 1 .. x + 1
    OBVIOUS
  <2>9. /\ F = a .. a + d - 1 /\ G = a + 1 .. a + d
        /\ x \in F /\ F \ {x} = a .. a + e - 1
        /\ x + 1 \in G /\ G \ {x + 1} = a + 1 .. a + e
    <3>1. a + d - 1 = x /\ a + d = x + 1 /\ a <= x /\ a + e - 1 = x - 1
      BY <2>4, <2>6
    <3>2. F = a .. a + d - 1 /\ G = a + 1 .. a + d
      BY <2>7, <2>8, <3>1
    <3>3. x \in F /\ F \ {x} = a .. x - 1
      BY <2>7, <3>1
    <3>4. x + 1 \in G /\ G \ {x + 1} = a + 1 .. x
      BY <2>8, <3>1
    <3>. QED  BY <2>6, <3>1, <3>2, <3>3, <3>4
  <2>10. IsFiniteSet(F) /\ IsFiniteSet(G)
    BY <2>7, <2>8, FS_Interval
  <2>11. x <= b
    BY <2>2, <2>4, <2>6
  <2>12. (\A t \in F : f[t] \in Int) /\ \A u \in G : g[u] \in Int
    <3>1. ASSUME NEW t \in F PROVE f[t] \in Int
      <4>1. t \in a .. b
        BY <2>7, <2>11
      <4>. QED  BY <4>1
    <3>2. ASSUME NEW u \in G PROVE g[u] \in Int
      <4>1. u - 1 \in a .. b /\ (u - 1) + 1 = u
        BY <2>8, <2>11
      <4>2. f[u - 1] \in Int /\ f[u - 1] = g[(u - 1) + 1]
        BY <4>1
      <4>. QED  BY <4>1, <4>2
    <3>. QED  BY <3>1, <3>2, Zenon
  <2>13. \A t \in F : SumFunctionOnSet(f, F) = f[t] + SumFunctionOnSet(f, F \ {t})
    BY <2>10, <2>12, SumTakeOut
  <2>14. \A t \in G : SumFunctionOnSet(g, G) = g[t] + SumFunctionOnSet(g, G \ {t})
    <3>1. IsFiniteSet(G) /\ \A t \in G : g[t] \in Int
      BY <2>10, <2>12, Zenon
    <3>. QED  BY <3>1, SumTakeOut
  <2>15. f[x] = g[x + 1]
    <3>1. x \in a .. b
      BY <2>6, <2>11
    <3>. QED  BY <3>1
  <2>16. SumFunctionOnSet(f, F) = SumFunctionOnSet(g, G)
    <3>1. SumFunctionOnSet(f, F) = f[x] + SumFunctionOnSet(f, a .. a + e - 1)
      BY <2>9, <2>13
    <3>2. SumFunctionOnSet(g, G) = g[x + 1] + SumFunctionOnSet(g, a + 1 .. a + e)
      BY <2>9, <2>14
    <3>. QED  BY <2>5, <2>15, <3>1, <3>2, Zenon
  <2>. QED  BY <2>2, <2>9, <2>16
<1>. QED  BY <1>0, <1>1, <1>2

\* A stretch of equal values adds its length times the value.
LEMMA ConstantStretch ==
  ASSUME NEW f, NEW ws \in Int, NEW p \in Int, NEW x \in Int, ws <= p, p <= x, NEW k \in Int,
         \A t \in ws .. x - 1 : f[t] \in Int, \A t \in p .. x - 1 : f[t] = k
  PROVE  SumFunctionOnSet(f, ws .. x - 1) = SumFunctionOnSet(f, ws .. p - 1) + (x - p) * k
<1>. DEFINE F(q) == SumFunctionOnSet(f, ws .. q - 1)
            Bad == {d \in Nat : p + d <= x /\ F(p + d) # F(p) + d * k}
<1>0. ASSUME NEW q \in ws .. x PROVE F(q) \in Int /\ IsFiniteSet(ws .. q - 1)
  <2>1. IsFiniteSet(ws .. q - 1) /\ \A t \in ws .. q - 1 : f[t] \in Int
    BY FS_Interval
  <2>. QED  BY <2>1, SumType
<1>1. SUFFICES ASSUME Bad # {} PROVE FALSE
  <2>1. PICK d \in Nat : d = x - p
    OBVIOUS
  <2>2. d \notin Bad
    BY <1>1, Zenon
  <2>3. p + d = x
    BY <2>1
  <2>4. F(p + d) = F(p) + d * k
    BY <2>2, <2>3
  <2>. QED  BY <2>1, <2>3, <2>4
<1>2. PICK d \in Bad : \A e \in Bad : d <= e
  <2>1. Bad \subseteq Nat
    OBVIOUS
  <2>. HIDE DEF Bad
  <2>. QED  BY <1>1, <2>1, LeastNatural
<1>3. d \in Nat /\ p + d <= x /\ F(p + d) # F(p) + d * k
  OBVIOUS
<1>4. d # 0
  <2>1. F(p) \in Int
    BY <1>0
  <2>2. 0 * k = 0 /\ p + 0 = p
    OBVIOUS
  <2>. HIDE DEF F
  <2>. QED  BY <1>3, <2>1, <2>2
<1>5. PICK q \in Int : q = p + d - 1
  OBVIOUS
<1>6. q \in ws .. x /\ q + 1 = p + d /\ q + 1 \in ws .. x /\ d - 1 \in Nat /\ q = p + (d - 1)
  BY <1>3, <1>4, <1>5
<1>7. F(q) = F(p) + (d - 1) * k
  <2>1. d - 1 \notin Bad
    <3>. HIDE DEF Bad
    <3>. QED  BY <1>2, <1>3, <1>6
  <2>. QED  BY <1>3, <1>6, <2>1
<1>8. F(q + 1) = k + F(q)
  <2>1. PICK S : S = ws .. (q + 1) - 1
    OBVIOUS
  <2>2. (q + 1) - 1 = q /\ q <= x - 1 /\ ws <= q
    BY <1>3, <1>4, <1>5
  <2>5. q \in S /\ S \ {q} = ws .. q - 1
    BY <2>1, <2>2
  <2>6. \A t \in S : f[t] \in Int
    BY <2>1, <2>2
  <2>7. IsFiniteSet(S)
    BY <1>0, <1>6, <2>1
  <2>8. \A y \in S : SumFunctionOnSet(f, S) = f[y] + SumFunctionOnSet(f, S \ {y})
    BY <2>6, <2>7, SumTakeOut
  <2>3. SumFunctionOnSet(f, S) = f[q] + SumFunctionOnSet(f, S \ {q})
    BY <2>5, <2>8, Zenon
  <2>4. f[q] = k
    BY <1>3, <1>5, <1>6
  <2>. QED  BY <2>1, <2>3, <2>4, <2>5
<1>9. (d - 1) * k + k = d * k /\ (d - 1) * k \in Int /\ d * k \in Int
  BY <1>3
<1>10. F(p) \in Int /\ F(q) \in Int
  BY <1>0, <1>6
<1>11. F(p + d) = k + F(q)
  BY <1>6, <1>8
<1>. HIDE DEF F
<1>. QED  BY <1>3, <1>7, <1>9, <1>10, <1>11

-----------------------------------------------------------------------------
(* Where in a list the elements of a set T are.                            *)

Occurs(q, T) == \E i \in DOMAIN q : q[i] \in T
AtMostOnce(q, T) == \A i, j \in DOMAIN q : q[i] \in T /\ q[j] \in T => i = j

LEMMA AppendOccurs ==
  ASSUME NEW S, NEW q \in Seq(S), NEW e \in S, NEW T
  PROVE  /\ Occurs(Append(q, e), T) <=> Occurs(q, T) \/ e \in T
         /\ AtMostOnce(q, T) /\ (e \in T => ~Occurs(q, T)) => AtMostOnce(Append(q, e), T)
<1>1. PICK n \in Nat : n = Len(q) /\ DOMAIN q = 1 .. n
  BY LenProperties
<1>2. PICK a : a = Append(q, e)
  OBVIOUS
<1>3. /\ DOMAIN a = 1 .. n + 1 /\ a[n + 1] = e /\ \A i \in 1 .. n : a[i] = q[i]
  BY <1>1, <1>2, AppendProperties, LenProperties
<1>4. \A i \in 1 .. n + 1 : i \in 1 .. n \/ i = n + 1
  OBVIOUS
<1>5. (\A i \in 1 .. n : i \in 1 .. n + 1 /\ i # n + 1) /\ n + 1 \in 1 .. n + 1
  OBVIOUS
<1>6. Occurs(a, T) <=> Occurs(q, T) \/ e \in T
  BY <1>1, <1>3, <1>4, <1>5 DEF Occurs
<1>7. AtMostOnce(q, T) /\ (e \in T => ~Occurs(q, T)) => AtMostOnce(a, T)
  BY <1>1, <1>3, <1>4, <1>5 DEF Occurs, AtMostOnce
<1>. QED  BY <1>2, <1>6, <1>7

LEMMA RemoveOccurs ==
  ASSUME NEW S, NEW q \in Seq(S), NEW k \in DOMAIN q, NEW T, AtMostOnce(q, T)
  PROVE  /\ AtMostOnce(RemoveAt(q, k), T)
         /\ q[k] \in T => ~Occurs(RemoveAt(q, k), T)
         /\ q[k] \notin T => (Occurs(RemoveAt(q, k), T) <=> Occurs(q, T))
<1>1. PICK n \in Nat : n = Len(q) /\ DOMAIN q = 1 .. n
  BY LenProperties
<1>2. PICK a : a = RemoveAt(q, k)
  OBVIOUS
<1>3. /\ DOMAIN a = 1 .. n - 1
      /\ \A i \in 1 .. n - 1 : a[i] = IF i < k THEN q[i] ELSE q[i + 1]
  BY <1>1, <1>2, RemoveAtProperties, LenProperties
<1>4. k \in 1 .. n
  BY <1>1
<1>5. ASSUME NEW i \in 1 .. n - 1
      PROVE  \E u \in 1 .. n : u = (IF i < k THEN i ELSE i + 1) /\ a[i] = q[u] /\ u # k
  BY <1>3, <1>4
<1>6. ASSUME NEW j \in 1 .. n, j # k
      PROVE  \E i \in 1 .. n - 1 : a[i] = q[j]
  <2>1. CASE j < k
    <3>1. j \in 1 .. n - 1
      BY <1>4, <2>1
    <3>. QED  BY <1>3, <2>1, <3>1
  <2>2. CASE j > k
    <3>1. j - 1 \in 1 .. n - 1 /\ ~(j - 1 < k) /\ (j - 1) + 1 = j
      BY <1>4, <2>2
    <3>2. a[j - 1] = q[j]
      BY <1>3, <3>1
    <3>. QED  BY <3>1, <3>2
  <2>. QED  BY <1>4, <1>6, <2>1, <2>2
<1>7. AtMostOnce(a, T)
  <2>. SUFFICES ASSUME NEW i \in 1 .. n - 1, NEW j \in 1 .. n - 1, a[i] \in T, a[j] \in T
                PROVE  i = j
    BY <1>3 DEF AtMostOnce
  <2>1. PICK u \in 1 .. n : u = (IF i < k THEN i ELSE i + 1) /\ a[i] = q[u]
    BY <1>5
  <2>2. PICK v \in 1 .. n : v = (IF j < k THEN j ELSE j + 1) /\ a[j] = q[v]
    BY <1>5
  <2>3. u = v
    BY <1>1, <2>1, <2>2 DEF AtMostOnce
  <2>. QED  BY <1>4, <2>1, <2>2, <2>3
<1>8. ASSUME q[k] \in T PROVE ~Occurs(a, T)
  <2>1. \A j \in 1 .. n : j # k => q[j] \notin T
    BY <1>1, <1>4, <1>8 DEF AtMostOnce
  <2>. QED  BY <1>3, <1>5, <2>1 DEF Occurs
<1>9. ASSUME q[k] \notin T PROVE Occurs(a, T) <=> Occurs(q, T)
  BY <1>1, <1>3, <1>5, <1>6, <1>9 DEF Occurs
<1>. QED  BY <1>2, <1>7, <1>8, <1>9

LEMMA TailOccurs ==
  ASSUME NEW S, NEW q \in Seq(S), q # <<>>, NEW T, AtMostOnce(q, T)
  PROVE  /\ AtMostOnce(Tail(q), T)
         /\ Head(q) \in T => ~Occurs(Tail(q), T) /\ Occurs(q, T)
         /\ Head(q) \notin T => (Occurs(Tail(q), T) <=> Occurs(q, T))
<1>1. PICK n \in Nat : n = Len(q) /\ DOMAIN q = 1 .. n
  BY LenProperties
<1>2. PICK a : a = Tail(q)
  OBVIOUS
<1>3. /\ n >= 1 /\ Head(q) = q[1] /\ DOMAIN a = 1 .. n - 1
      /\ \A i \in 1 .. n - 1 : a[i] = q[i + 1]
  BY <1>1, <1>2, HeadTailProperties, LenProperties
<1>4. 1 \in 1 .. n /\ (\A i \in 1 .. n - 1 : i + 1 \in 1 .. n /\ i + 1 # 1)
  BY <1>3
<1>5. ASSUME NEW j \in 1 .. n, j # 1 PROVE \E i \in 1 .. n - 1 : a[i] = q[j]
  <2>1. j - 1 \in 1 .. n - 1 /\ (j - 1) + 1 = j
    BY <1>5
  <2>2. a[j - 1] = q[j]
    BY <1>3, <2>1
  <2>. QED  BY <2>1, <2>2
<1>6. AtMostOnce(a, T)
  <2>. SUFFICES ASSUME NEW i \in 1 .. n - 1, NEW j \in 1 .. n - 1, a[i] \in T, a[j] \in T
                PROVE  i = j
    BY <1>3 DEF AtMostOnce
  <2>1. i + 1 = j + 1
    BY <1>1, <1>3, <1>4 DEF AtMostOnce
  <2>. QED  BY <2>1
<1>7. ASSUME q[1] \in T PROVE ~Occurs(a, T) /\ Occurs(q, T)
  <2>1. \A j \in 1 .. n : j # 1 => q[j] \notin T
    BY <1>1, <1>4, <1>7 DEF AtMostOnce
  <2>. QED  BY <1>1, <1>3, <1>4, <1>7, <2>1 DEF Occurs
<1>8. ASSUME q[1] \notin T PROVE Occurs(a, T) <=> Occurs(q, T)
  BY <1>1, <1>3, <1>4, <1>5, <1>8 DEF Occurs
<1>. QED  BY <1>2, <1>3, <1>6, <1>7, <1>8

LEMMA CountOccurs ==
  ASSUME NEW q, NEW T, AtMostOnce(q, T)
  PROVE  Cardinality({i \in DOMAIN q : q[i] \in T}) = IF Occurs(q, T) THEN 1 ELSE 0
<1>1. CASE Occurs(q, T)
  <2>1. PICK k \in DOMAIN q : q[k] \in T
    BY <1>1 DEF Occurs
  <2>2. {i \in DOMAIN q : q[i] \in T} = {k}
    BY <2>1 DEF AtMostOnce
  <2>. QED  BY <1>1, <2>2, FS_Singleton
<1>2. CASE ~Occurs(q, T)
  <2>1. {i \in DOMAIN q : q[i] \in T} = {}
    BY <1>2 DEF Occurs
  <2>. QED  BY <1>2, <2>1, FS_EmptySet
<1>. QED  BY <1>1, <1>2

\* How many there are.
PlacesIn(q, T) == {i \in DOMAIN q : q[i] \in T}
NumIn(q, T) == Cardinality(PlacesIn(q, T))

LEMMA PlacesFinite ==
  ASSUME NEW S, NEW q \in Seq(S), NEW T
  PROVE  /\ IsFiniteSet(PlacesIn(q, T)) /\ NumIn(q, T) \in Nat
         /\ Occurs(q, T) => NumIn(q, T) > 0
<1>1. PICK n \in Nat : DOMAIN q = 1 .. n
  BY LenProperties
<1>2. IsFiniteSet(1 .. n) /\ PlacesIn(q, T) \subseteq 1 .. n
  BY <1>1, FS_Interval DEF PlacesIn
<1>3. IsFiniteSet(PlacesIn(q, T))
  BY <1>2, FS_Subset
<1>4. NumIn(q, T) \in Nat
  BY <1>3, FS_CardinalityType DEF NumIn
<1>5. Occurs(q, T) => PlacesIn(q, T) # {}
  BY DEF Occurs, PlacesIn
<1>6. PlacesIn(q, T) # {} => NumIn(q, T) # 0
  BY <1>3, FS_EmptySet DEF NumIn
<1>. QED  BY <1>3, <1>4, <1>5, <1>6

LEMMA AppendCounted ==
  ASSUME NEW S, NEW q \in Seq(S), NEW e \in S, NEW T
  PROVE  NumIn(Append(q, e), T) = NumIn(q, T) + (IF e \in T THEN 1 ELSE 0)
<1>1. PICK n \in Nat : n = Len(q) /\ DOMAIN q = 1 .. n
  BY LenProperties
<1>2. PICK a : a = Append(q, e)
  OBVIOUS
<1>3. /\ DOMAIN a = 1 .. n + 1 /\ a[n + 1] = e /\ \A i \in 1 .. n : a[i] = q[i]
  BY <1>1, <1>2, AppendProperties, LenProperties
<1>4. 1 .. n + 1 = (1 .. n) \cup {n + 1} /\ n + 1 \notin 1 .. n
  OBVIOUS
<1>5. IsFiniteSet(PlacesIn(q, T)) /\ n + 1 \notin PlacesIn(q, T) /\ NumIn(q, T) \in Nat
  BY <1>1, <1>4, PlacesFinite DEF PlacesIn
<1>6. CASE e \in T
  <2>1. PlacesIn(a, T) = PlacesIn(q, T) \cup {n + 1}
    BY <1>1, <1>3, <1>4, <1>6 DEF PlacesIn
  <2>2. Cardinality(PlacesIn(a, T)) = Cardinality(PlacesIn(q, T)) + 1
    BY <1>5, <2>1, FS_AddElement
  <2>. QED  BY <1>2, <1>6, <2>2 DEF NumIn
<1>7. CASE e \notin T
  <2>1. PlacesIn(a, T) = PlacesIn(q, T)
    BY <1>1, <1>3, <1>4, <1>7 DEF PlacesIn
  <2>. QED  BY <1>2, <1>5, <1>7, <2>1 DEF NumIn
<1>. QED  BY <1>6, <1>7

\* a is q without its element k.
Without(a, q, k, n) ==
  /\ DOMAIN q = 1 .. n /\ DOMAIN a = 1 .. n - 1
  /\ \A i \in 1 .. n - 1 : a[i] = IF i < k THEN q[i] ELSE q[i + 1]

LEMMA WithoutCounted ==
  ASSUME NEW S, NEW q \in Seq(S), NEW n \in Nat, NEW k \in 1 .. n, NEW a, Without(a, q, k, n),
         NEW T
  PROVE  NumIn(a, T) = NumIn(q, T) - (IF q[k] \in T THEN 1 ELSE 0)
<1>1. /\ DOMAIN q = 1 .. n /\ DOMAIN a = 1 .. n - 1
      /\ \A i \in 1 .. n - 1 : a[i] = IF i < k THEN q[i] ELSE q[i + 1]
  BY DEF Without
<1>2. PICK P : P = PlacesIn(a, T)
  OBVIOUS
<1>3. PICK Q : Q = PlacesIn(q, T) \ {k}
  OBVIOUS
<1>4. PICK f : f = [i \in P |-> IF i < k THEN i ELSE i + 1]
  OBVIOUS
<1>5. \A i \in P : i \in 1 .. n - 1 /\ a[i] \in T
  BY <1>1, <1>2 DEF PlacesIn
<1>6. f \in [P -> Q]
  <2>. SUFFICES ASSUME NEW i \in P PROVE f[i] \in Q
    BY <1>4
  <2>1. i \in 1 .. n - 1 /\ a[i] \in T
    BY <1>5
  <2>2. f[i] = (IF i < k THEN i ELSE i + 1) /\ f[i] \in 1 .. n /\ f[i] # k
    BY <1>4, <2>1
  <2>3. a[i] = q[f[i]]
    BY <1>1, <2>1, <2>2
  <2>. QED  BY <1>1, <1>3, <2>1, <2>2, <2>3 DEF PlacesIn
<1>7. \A i, j \in P : f[i] = f[j] => i = j
  <2>. SUFFICES ASSUME NEW i \in P, NEW j \in P, f[i] = f[j] PROVE i = j
    OBVIOUS
  <2>. QED  BY <1>4, <1>5
<1>8. \A j \in Q : \E i \in P : f[i] = j
  <2>. SUFFICES ASSUME NEW j \in Q PROVE \E i \in P : f[i] = j
    OBVIOUS
  <2>1. j \in 1 .. n /\ q[j] \in T /\ j # k
    BY <1>1, <1>3 DEF PlacesIn
  <2>2. CASE j < k
    <3>1. j \in 1 .. n - 1 /\ a[j] = q[j]
      BY <1>1, <2>1, <2>2
    <3>2. j \in P
      BY <1>1, <1>2, <2>1, <3>1 DEF PlacesIn
    <3>. QED  BY <1>4, <2>2, <3>2
  <2>3. CASE ~(j < k)
    <3>1. j - 1 \in 1 .. n - 1 /\ ~(j - 1 < k) /\ (j - 1) + 1 = j
      BY <2>1, <2>3
    <3>2. a[j - 1] = q[j]
      BY <1>1, <3>1
    <3>3. j - 1 \in P
      BY <1>1, <1>2, <2>1, <3>1, <3>2 DEF PlacesIn
    <3>. QED  BY <1>4, <3>1, <3>3
  <2>. QED  BY <2>2, <2>3
<1>9. ExistsBijection(P, Q)
  BY <1>6, <1>7, <1>8 DEF ExistsBijection, Bijection, Injection, Surjection, IsInjective
<1>10. IsFiniteSet(PlacesIn(q, T)) /\ NumIn(q, T) \in Nat
  BY PlacesFinite
<1>11. IsFiniteSet(P)
  <2>1. P \subseteq 1 .. n - 1 /\ IsFiniteSet(1 .. n - 1)
    BY <1>5, FS_Interval
  <2>. QED  BY <2>1, FS_Subset
<1>12. Cardinality(P) = Cardinality(Q)
  BY <1>9, <1>11, FS_Bijection
<1>13. Cardinality(Q) = Cardinality(PlacesIn(q, T)) - (IF k \in PlacesIn(q, T) THEN 1 ELSE 0)
  <2>1. PICK R : R = PlacesIn(q, T)
    OBVIOUS
  <2>2. IsFiniteSet(R) /\ Cardinality(R) \in Nat
    BY <1>10, <2>1 DEF NumIn
  <2>3. Cardinality(R \ {k}) = IF k \in R THEN Cardinality(R) - 1 ELSE Cardinality(R)
    BY <2>2, FS_RemoveElement
  <2>4. Cardinality(R \ {k}) = Cardinality(R) - (IF k \in R THEN 1 ELSE 0)
    BY <2>2, <2>3
  <2>. QED  BY <1>3, <2>1, <2>4
<1>14. k \in PlacesIn(q, T) <=> q[k] \in T
  BY <1>1 DEF PlacesIn
<1>. QED  BY <1>2, <1>12, <1>13, <1>14 DEF NumIn

LEMMA RemoveCounted ==
  ASSUME NEW S, NEW q \in Seq(S), NEW k \in DOMAIN q, NEW T
  PROVE  NumIn(RemoveAt(q, k), T) = NumIn(q, T) - (IF q[k] \in T THEN 1 ELSE 0)
<1>1. PICK n \in Nat : n = Len(q) /\ DOMAIN q = 1 .. n
  BY LenProperties
<1>2. Without(RemoveAt(q, k), q, k, n)
  BY <1>1, RemoveAtProperties, LenProperties DEF Without
<1>. QED  BY <1>1, <1>2, WithoutCounted

LEMMA TailCounted ==
  ASSUME NEW S, NEW q \in Seq(S), q # <<>>, NEW T
  PROVE  NumIn(Tail(q), T) = NumIn(q, T) - (IF Head(q) \in T THEN 1 ELSE 0)
<1>1. PICK n \in Nat : n = Len(q) /\ DOMAIN q = 1 .. n
  BY LenProperties
<1>2. PICK a : a = Tail(q)
  OBVIOUS
<1>3. /\ n >= 1 /\ Head(q) = q[1] /\ DOMAIN a = 1 .. n - 1
      /\ \A i \in 1 .. n - 1 : a[i] = q[i + 1]
  BY <1>1, <1>2, HeadTailProperties, LenProperties
<1>4. Without(a, q, 1, n) /\ 1 \in 1 .. n
  BY <1>1, <1>3 DEF Without
<1>5. NumIn(a, T) = NumIn(q, T) - (IF q[1] \in T THEN 1 ELSE 0)
  BY <1>4, WithoutCounted
<1>. QED  BY <1>2, <1>3, <1>5
=============================================================================
