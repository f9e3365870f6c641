----------------------------- MODULE LimitProofs -----------------------------
(***************************************************************************)
(* The accounting of select_candidate(), for any history that any number   *)
(* of clients, requests in flight and reloads can leave: the sweep over    *)
(* the slots of the window computes every client's equal share of every    *)
(* tick, the sort puts a client that is short of its REQUEST first, and a  *)
(* client never uses more of the window than the LIMIT of its latest grant *)
(* and the one slot that took it over.  The invariant behind the limit is  *)
(* WithinLimit: before its latest slot the client was below that limit.    *)
(***************************************************************************)
EXTENDS TokenProofs

-----------------------------------------------------------------------------
(* The sweep, over any history.                                            *)

\* The slots the sweep walks over: none ends where the window begins.
Sweepable(slots, ws) ==
    /\ IsFiniteSet(slots)
    /\ \A h \in slots : /\ h.start \in Int /\ h.end \in Int
                        /\ h.start <= h.end /\ ws < h.end

\* Without an end at or before the start of the window, overlap_check_vector
\* holds exactly the slots that cover the stretch.
LEMMA EntriesCover ==
  ASSUME NEW slots, NEW ws \in Int, Sweepable(slots, ws), NEW t \in Int
  PROVE  OverlapEntries(slots, ws, t) = Covering(slots, t)
<1>1. PICK B : B = {h \in slots : h.start <= t}
  OBVIOUS
<1>2. PICK E : E = {h \in slots : ws < h.end /\ h.end <= t}
  OBVIOUS
<1>3. {h \in slots : h.end <= ws} = {}
  BY DEF Sweepable
<1>4. {h \in slots : h.start <= t /\ t < h.end} = B \ E /\ B \cap E = E
  BY <1>1, <1>2 DEF Sweepable
<1>5. IsFiniteSet(B) /\ IsFiniteSet(E)
  BY <1>1, <1>2, FS_Subset DEF Sweepable
<1>6. Cardinality(B \ E) = Cardinality(B) - Cardinality(E)
  BY <1>4, <1>5, FS_Difference
<1>7. Cardinality(B) \in Nat /\ Cardinality(E) \in Nat /\ Cardinality({}) = 0
  BY <1>5, FS_CardinalityType, FS_EmptySet
<1>8. OverlapEntries(slots, ws, t) = Cardinality(B) + Cardinality({}) - Cardinality(E)
  BY <1>1, <1>2, <1>3 DEF OverlapEntries
<1>9. Covering(slots, t) = Cardinality(B \ E)
  BY <1>4 DEF Covering
<1>. QED  BY <1>6, <1>7, <1>8, <1>9

\* A client has no more slots over a tick than there are.
LEMMA CoveringType ==
  ASSUME NEW slots, IsFiniteSet(slots), NEW name, NEW t \in Int
  PROVE  /\ Covering(slots, t) \in Nat
         /\ Covering(SlotsOf(slots, name), t) \in Nat
         /\ Covering(SlotsOf(slots, name), t) <= Covering(slots, t)
<1>1. PICK A : A = {h \in slots : h.start <= t /\ t < h.end}
  OBVIOUS
<1>2. PICK M : M = {h \in SlotsOf(slots, name) : h.start <= t /\ t < h.end}
  OBVIOUS
<1>3. M \in SUBSET A /\ A \in SUBSET slots
  BY <1>1, <1>2 DEF SlotsOf
<1>4. IsFiniteSet(A)
  BY <1>3, FS_Subset
<1>5. IsFiniteSet(M) /\ Cardinality(M) <= Cardinality(A)
  BY <1>3, <1>4, FS_Subset
<1>6. Cardinality(A) \in Nat /\ Cardinality(M) \in Nat
  BY <1>4, <1>5, FS_CardinalityType
<1>7. Covering(slots, t) = Cardinality(A) /\ Covering(SlotsOf(slots, name), t) = Cardinality(M)
  BY <1>1, <1>2, Zenon DEF Covering
<1>. QED  BY <1>5, <1>6, <1>7

\* Between two stops no slot begins or ends.
LEMMA CoveringConstant ==
  ASSUME NEW hist, NEW slots, slots \subseteq hist, NEW ws \in Int, Sweepable(hist, ws),
         NEW p \in Int, ws <= p, NEW t \in Int, p <= t,
         \A s \in Stops(hist, ws) : s <= p \/ t < s
  PROVE  Covering(slots, t) = Covering(slots, p)
<1>1. ASSUME NEW h \in slots
      PROVE  (h.start <= t /\ t < h.end) <=> (h.start <= p /\ p < h.end)
  <2>1. h \in hist /\ h.start \in Int /\ h.end \in Int /\ ws < h.end
    BY DEF Sweepable
  <2>2. h.end \in Stops(hist, ws)
    BY <2>1 DEF Stops
  <2>3. h.start > ws => h.start \in Stops(hist, ws)
    BY <2>1 DEF Stops
  <2>4. (h.end <= p \/ t < h.end) /\ (h.start <= ws \/ h.start <= p \/ t < h.start)
    BY <2>1, <2>2, <2>3
  <2>. QED  BY <2>1, <2>4
<1>2. {h \in slots : h.start <= t /\ t < h.end} = {h \in slots : h.start <= p /\ p < h.end}
  BY <1>1
<1>. QED  BY <1>2 DEF Covering

\* A tick is shared exactly between up to six slots, so shares of ticks add up.
LEMMA ExactShare ==
  ASSUME NEW mine \in Nat, NEW n \in 1 .. 6, NEW length \in Nat
  PROVE  (UNIT * mine * length) \div n = length * ((UNIT * mine) \div n)
<1>1. PICK z \in Nat : z = FRAC_UNIT * mine
  BY FracUnitAssumption
<1>2. PICK w \in Nat : w = length * z
  BY <1>1
<1>3. UNIT * mine = 60 * z
  BY <1>1, FracUnitAssumption DEF UNIT, SHARE
<1>4. UNIT * mine * length = 60 * w
  <2>1. (60 * z) * length = 60 * (length * z)
    BY <1>1
  <2>. QED  BY <1>2, <1>3, <2>1
<1>5. PICK k \in Nat : 60 = k * n
  <2>1. n \in {1, 2, 3, 4, 5, 6}
    BY SMT
  <2>. QED  BY <2>1
<1>6. ASSUME NEW x \in Nat PROVE (60 * x) \div n = k * x
  <2>1. n \in {1, 2, 3, 4, 5, 6}
    BY SMT
  <2>. QED  BY <1>5, <2>1
<1>7. length * (k * z) = k * w
  BY <1>1, <1>2, <1>5
<1>. QED  BY <1>3, <1>4, <1>6, <1>7

\* The stops of the sweep are finitely many, from the start of the window on.
LEMMA StopsShape ==
  ASSUME NEW hist, NEW ws \in Int, Sweepable(hist, ws)
  PROVE  /\ IsFiniteSet(Stops(hist, ws)) /\ ws \in Stops(hist, ws)
         /\ Stops(hist, ws) \subseteq Int /\ \A s \in Stops(hist, ws) : ws <= s
<1>1. IsFiniteSet({h.start : h \in hist}) /\ IsFiniteSet({h.end : h \in hist})
  <2>1. PICK f : f = [h \in hist |-> h.start]
    OBVIOUS
  <2>2. PICK g : g = [h \in hist |-> h.end]
    OBVIOUS
  <2>3. {f[h] : h \in hist} = {h.start : h \in hist} /\ {g[h] : h \in hist} = {h.end : h \in hist}
    BY <2>1, <2>2
  <2>4. IsFiniteSet({f[h] : h \in hist}) /\ IsFiniteSet({g[h] : h \in hist})
    BY FiniteImage DEF Sweepable
  <2>. QED  BY <2>3, <2>4
<1>2. PICK A : A = {h.start : h \in hist} \cup {h.end : h \in hist}
  OBVIOUS
<1>3. IsFiniteSet(A)
  BY <1>1, <1>2, FS_Union
<1>4. IsFiniteSet({ws} \cup {t \in A : t > ws})
  BY <1>3, FS_Subset, FS_Singleton, FS_Union
<1>5. A \subseteq Int
  BY <1>2 DEF Sweepable
<1>6. Stops(hist, ws) = {ws} \cup {t \in A : t > ws}
  BY <1>2 DEF Stops
<1>7. PICK T : T = {ws} \cup {t \in A : t > ws}
  OBVIOUS
<1>8. ws \in T /\ T \subseteq Int /\ \A s \in T : ws <= s
  <2>1. ws \in T /\ \A s \in T : s = ws \/ (s \in A /\ s > ws)
    BY <1>7, Zenon
  <2>2. ASSUME NEW s \in T PROVE s \in Int /\ ws <= s
    BY <1>5, <2>1
  <2>. QED  BY <2>1, <2>2
<1>. QED  BY <1>4, <1>6, <1>7, <1>8, Zenon

\* Slots lie deepest where one of them begins.
LEMMA DeepestAtStart ==
  ASSUME NEW hist, IsFiniteSet(hist), Shareable(hist), NEW t \in Int,
         \A h \in hist : h.start \in Int /\ h.end \in Int
  PROVE  Covering(hist, t) <= 6
<1>1. PICK A : A = {h \in hist : h.start <= t /\ t < h.end}
  OBVIOUS
<1>2. A \in SUBSET hist /\ Covering(hist, t) = Cardinality(A)
  BY <1>1 DEF Covering
<1>3. IsFiniteSet(A)
  BY <1>2, FS_Subset
<1>4. CASE A = {}
  BY <1>2, <1>4, FS_EmptySet
<1>5. CASE A # {}
  <2>1. PICK f : f = [h \in A |-> h.start]
    OBVIOUS
  <2>2. PICK X : X = {f[h] : h \in A}
    OBVIOUS
  <2>3. IsFiniteSet(X) /\ X # {} /\ X \subseteq Int
    <3>1. IsFiniteSet(X)
      BY <1>3, <2>2, FiniteImage
    <3>. QED  BY <1>2, <1>5, <2>1, <2>2, <3>1
  <2>4. PICK x \in X : \A y \in X : x >= y
    BY <2>3, LargestExists
  <2>5. PICK d \in A : x = d.start
    BY <2>1, <2>2
  <2>6. PICK B : B = {h \in hist : h.start <= x /\ x < h.end}
    OBVIOUS
  <2>7. A \in SUBSET B
    <3>. SUFFICES ASSUME NEW h \in A PROVE h \in B
      OBVIOUS
    <3>1. h \in hist /\ h.start \in Int /\ h.end \in Int /\ t < h.end /\ h.start <= x
      BY <1>1, <1>2, <2>1, <2>2, <2>4
    <3>2. x \in Int /\ x <= t
      BY <1>1, <1>2, <2>5
    <3>. QED  BY <2>6, <3>1, <3>2
  <2>8. B \in SUBSET hist /\ IsFiniteSet(B)
    <3>1. B \in SUBSET hist
      BY <2>6
    <3>. QED  BY <3>1, FS_Subset
  <2>9. Cardinality(A) <= Cardinality(B)
    BY <2>7, <2>8, FS_Subset
  <2>10. Cardinality(B) <= 6
    <3>1. x \in {h.start : h \in hist}
      BY <1>2, <2>5
    <3>2. Covering(hist, x) <= 6
      BY <3>1 DEF Shareable
    <3>. QED  BY <2>6, <3>2 DEF Covering
  <2>11. Cardinality(A) \in Nat /\ Cardinality(B) \in Nat
    BY <1>3, <2>8, FS_CardinalityType
  <2>. QED  BY <1>2, <2>9, <2>10, <2>11
<1>. QED  BY <1>4, <1>5

LEMMA TickShareType ==
  ASSUME NEW hist, IsFiniteSet(hist), NEW name, NEW t \in Int
  PROVE  TickShare(hist, name, t) \in Nat
<1>1. PICK m \in Nat : m = Covering(SlotsOf(hist, name), t)
  BY CoveringType
<1>2. PICK n \in Nat : n = Covering(hist, t) /\ m <= n
  BY <1>1, CoveringType
<1>3. TickShare(hist, name, t) = IF m = 0 THEN 0 ELSE (UNIT * m) \div n
  BY <1>1, <1>2 DEF TickShare
<1>4. PICK u \in Nat : u = UNIT * m
  BY FracUnitAssumption DEF UNIT, SHARE
<1>5. n > 0 => u \div n \in Nat
  BY SMT
<1>. QED  BY <1>1, <1>2, <1>3, <1>4, <1>5

\* The sweep's step from one stop to the next adds what the ticks in between
\* add up to.
LEMMA StretchIsTicks ==
  ASSUME NEW hist, NEW name, NEW ws \in Int, Sweepable(hist, ws), Shareable(hist),
         NEW p \in Stops(hist, ws), NEW x \in Stops(hist, ws), p < x,
         \A s \in Stops(hist, ws) : s <= p \/ x <= s
  PROVE  /\ StretchShare(hist, name, ws, p) = (x - p) * TickShare(hist, name, p)
         /\ \A t \in p .. x - 1 : TickShare(hist, name, t) = TickShare(hist, name, p)
<1>1. p \in Int /\ x \in Int /\ ws <= p /\ x - p \in Nat
  BY StopsShape
<1>2. SlotsOf(hist, name) \subseteq hist /\ Sweepable(SlotsOf(hist, name), ws)
  <2>1. SlotsOf(hist, name) \in SUBSET hist
    BY DEF SlotsOf
  <2>2. IsFiniteSet(SlotsOf(hist, name))
    BY <2>1, FS_Subset DEF Sweepable
  <2>. QED  BY <2>1, <2>2 DEF Sweepable
<1>3. PICK m \in Nat : m = Covering(SlotsOf(hist, name), p)
  BY <1>1, CoveringType DEF Sweepable
<1>4. PICK n \in Nat : n = Covering(hist, p) /\ m <= n /\ n <= 6
  <2>1. Covering(hist, p) <= 6
    BY <1>1, DeepestAtStart DEF Sweepable
  <2>. QED  BY <1>1, <1>3, <2>1, CoveringType DEF Sweepable
<1>5. Min({s \in Stops(hist, ws) : s > p}) = x
  <2>1. PICK S : S = {s \in Stops(hist, ws) : s > p}
    OBVIOUS
  <2>2. x \in S /\ S \subseteq Int /\ \A s \in S : x <= s
    <3>1. Stops(hist, ws) \subseteq Int
      BY StopsShape
    <3>. QED  BY <1>1, <2>1, <3>1
  <2>3. Min(S) \in S /\ \A s \in S : Min(S) <= s
    BY <2>2 DEF Min
  <2>4. Min(S) = x
    <3>1. Min(S) \in Int /\ x <= Min(S) /\ Min(S) <= x
      BY <2>2, <2>3
    <3>. QED  BY <1>1, <3>1
  <2>. QED  BY <2>1, <2>4
<1>6. OverlapEntries(hist, ws, p) = n /\ OverlapEntries(SlotsOf(hist, name), ws, p) = m
  BY <1>1, <1>2, <1>3, <1>4, EntriesCover
<1>7. StretchShare(hist, name, ws, p)
        = IF m = 0 THEN 0 ELSE (UNIT * m * (x - p)) \div n
  BY <1>5, <1>6 DEF StretchShare
<1>8. TickShare(hist, name, p) = IF m = 0 THEN 0 ELSE (UNIT * m) \div n
  BY <1>3, <1>4 DEF TickShare
<1>9. StretchShare(hist, name, ws, p) = (x - p) * TickShare(hist, name, p)
  <2>1. CASE m = 0
    <3>1. (x - p) * 0 = 0
      BY <1>1
    <3>. QED  BY <1>7, <1>8, <2>1, <3>1
  <2>2. CASE m # 0
    <3>1. n \in 1 .. 6
      BY <1>3, <1>4, <2>2
    <3>2. (UNIT * m * (x - p)) \div n = (x - p) * ((UNIT * m) \div n)
      BY <1>1, <3>1, ExactShare
    <3>. QED  BY <1>7, <1>8, <2>2, <3>2, Zenon
  <2>. QED  BY <2>1, <2>2
<1>10. ASSUME NEW t \in p .. x - 1 PROVE TickShare(hist, name, t) = TickShare(hist, name, p)
  <2>1. t \in Int /\ p <= t /\ \A s \in Stops(hist, ws) : s <= p \/ t < s
    <3>1. Stops(hist, ws) \subseteq Int
      BY StopsShape
    <3>. QED  BY <1>1, <3>1
  <2>2. Covering(hist, t) = Covering(hist, p)
    BY <1>1, <2>1, CoveringConstant
  <2>3. Covering(SlotsOf(hist, name), t) = Covering(SlotsOf(hist, name), p)
    BY <1>1, <1>2, <2>1, CoveringConstant
  <2>. QED  BY <2>2, <2>3 DEF TickShare
<1>. QED  BY <1>9, <1>10

\* The last stop is the latest end.
LEMMA LastStop ==
  ASSUME NEW hist, NEW ws \in Int, Sweepable(hist, ws)
  PROVE  /\ Max({h.end : h \in hist} \cup {ws}) = Max(Stops(hist, ws))
         /\ Max(Stops(hist, ws)) \in Stops(hist, ws)
         /\ \A s \in Stops(hist, ws) : s <= Max(Stops(hist, ws))
<1>1. PICK V : V = Stops(hist, ws)
  OBVIOUS
<1>2. PICK E : E = {h.end : h \in hist} \cup {ws}
  OBVIOUS
<1>3. IsFiniteSet(V) /\ ws \in V /\ V \subseteq Int /\ \A s \in V : ws <= s
  BY <1>1, StopsShape
<1>4. E \in SUBSET V /\ ws \in E
  BY <1>1, <1>2 DEF Stops, Sweepable
<1>5. IsFiniteSet(E)
  BY <1>3, <1>4, FS_Subset
<1>6. Max(V) \in V /\ \A s \in V : Max(V) >= s
  BY <1>3, MaxProperties
<1>7. Max(E) \in E /\ \A s \in E : Max(E) >= s
  BY <1>3, <1>4, <1>5, MaxProperties
<1>8. \A s \in V : \E e \in E : s <= e
  <2>1. ASSUME NEW s \in V PROVE \E e \in E : s <= e
    <3>1. s \in E \/ \E h \in hist : s = h.start
      BY <1>1, <1>2 DEF Stops
    <3>2. CASE s \in E
      BY <1>3, <3>2
    <3>3. ASSUME NEW h \in hist, s = h.start PROVE s <= h.end /\ h.end \in E
      BY <1>2, <3>3 DEF Sweepable
    <3>. QED  BY <3>1, <3>2, <3>3
  <2>. QED  BY <2>1
<1>9. PICK e \in E : Max(V) <= e
  BY <1>6, <1>8
<1>10. Max(E) = Max(V)
  <2>1. Max(V) \in Int /\ Max(E) \in Int /\ e \in Int /\ Max(V) >= Max(E) /\ Max(E) >= e
    BY <1>3, <1>4, <1>6, <1>7
  <2>. QED  BY <1>9, <2>1
<1>. QED  BY <1>1, <1>2, <1>3, <1>6, <1>10

\* The sweep over the events of the history computes every client's equal share
\* of the ticks, for any history whose slots end inside the window and overlap
\* at most six deep (select_candidate, scheduler.cpp:327-365).
THEOREM SweepIsEqualShare ==
  ASSUME NEW hist, NEW name, NEW at \in Int,
         Sweepable(hist, window_start(at)), Shareable(hist)
  PROVE  usage(hist, name, at) = ReferenceUsage(hist, name, at)
<1>1. PICK ws \in Int : ws = window_start(at)
  BY WindowAssumption DEF window_start
<1>2. Sweepable(hist, ws) /\ IsFiniteSet(hist)
  BY <1>1 DEF Sweepable
<1>3. PICK V : V = Stops(hist, ws)
  OBVIOUS
<1>4. IsFiniteSet(V) /\ ws \in V /\ V \subseteq Int /\ \A s \in V : ws <= s
  BY <1>2, <1>3, StopsShape
<1>5. PICK last \in V : last = Max(V) /\ \A s \in V : s <= last
  BY <1>2, <1>3, LastStop
<1>6. PICK share : share = [t \in V \ {last} |-> StretchShare(hist, name, ws, t)]
  OBVIOUS
<1>7. PICK tick : tick = [t \in Int |-> TickShare(hist, name, t)]
  OBVIOUS
<1>8. \A t \in Int : tick[t] = TickShare(hist, name, t) /\ tick[t] \in Int
  BY <1>2, <1>7, TickShareType
<1>. DEFINE Before(x) == {s \in V : s < x}
            U(x) == SumFunctionOnSet(share, Before(x))
            R(x) == SumFunctionOnSet(tick, ws .. x - 1)
            Bad == {d \in Nat : ws + d \in V /\ U(ws + d) # R(ws + d)}
\* Between a stop and the one before it.
<1>9. ASSUME NEW p \in V, NEW x \in V, p < x, \A s \in V : s <= p \/ x <= s, U(p) = R(p)
      PROVE  U(x) = R(x)
  <2>1. p \in Int /\ x \in Int /\ ws <= p /\ p <= x /\ p \in V \ {last}
    BY <1>4, <1>5, <1>9
  <2>2. /\ StretchShare(hist, name, ws, p) = (x - p) * TickShare(hist, name, p)
        /\ \A t \in p .. x - 1 : TickShare(hist, name, t) = TickShare(hist, name, p)
    <3>1. /\ p \in Stops(hist, ws) /\ x \in Stops(hist, ws)
          /\ \A s \in Stops(hist, ws) : s <= p \/ x <= s
      BY <1>3, <1>9, Zenon
    <3>. QED  BY <1>2, <1>9, <3>1, StretchIsTicks
  <2>3. PICK k \in Int : k = tick[p]
    BY <1>8, <2>1
  <2>4. share[p] = (x - p) * k
    BY <1>6, <1>8, <2>1, <2>2, <2>3
  <2>5. \A t \in p .. x - 1 : tick[t] = k
    BY <1>8, <2>1, <2>2, <2>3
  <2>6. R(x) = R(p) + (x - p) * k
    <3>1. \A t \in ws .. x - 1 : tick[t] \in Int
      BY <1>8, <2>1
    <3>2. ws \in Int /\ p \in Int /\ x \in Int /\ ws <= p /\ p <= x /\ k \in Int
      BY <2>1
    <3>3. SumFunctionOnSet(tick, ws .. x - 1) = SumFunctionOnSet(tick, ws .. p - 1) + (x - p) * k
      <4>. HIDE DEF Before, U, R, Bad
      <4>. QED  BY ONLY <2>5, <3>1, <3>2, ConstantStretch
    <3>. QED  BY <3>3
  <2>7. \A s \in Before(x) : share[s] \in Int
    \* Every stretch before x is one of the sweep.
    <3>. SUFFICES ASSUME NEW s \in V, s < x PROVE share[s] \in Int
      OBVIOUS
    <3>1. s \in Int /\ s \in V \ {last}
      BY <1>4, <1>5, <2>1
    <3>2. PICK A : A = {y \in V : y > s}
      OBVIOUS
    <3>3. PICK y \in A : \A z \in A : y <= z
      <4>1. x \in A /\ A \subseteq Int
        BY <1>4, <3>2
      <4>2. PICK D : D = {d \in Nat : s + d \in A}
        OBVIOUS
      <4>3. x - s \in D
        BY <2>1, <3>1, <4>1, <4>2
      <4>4. PICK d \in D : \A e \in D : d <= e
        BY <4>2, <4>3, LeastNatural
      <4>5. ASSUME NEW z \in A PROVE s + d <= z
        <5>1. z \in Int /\ z - s \in Nat /\ s + (z - s) = z
          BY <1>4, <3>1, <3>2
        <5>2. z - s \in D
          BY <4>2, <5>1
        <5>. QED  BY <3>1, <4>2, <4>4, <5>1, <5>2
      <4>. QED  BY <4>2, <4>4, <4>5
    <3>4. y \in V /\ s < y /\ \A z \in V : z <= s \/ y <= z
      BY <1>4, <3>1, <3>2, <3>3
    <3>5. StretchShare(hist, name, ws, s) = (y - s) * TickShare(hist, name, s)
      BY <1>2, <1>3, <3>4, StretchIsTicks
    <3>6. y \in Int /\ TickShare(hist, name, s) \in Int
      BY <1>4, <1>8, <3>1, <3>4
    <3>. QED  BY <1>6, <3>1, <3>5, <3>6
  <2>8. IsFiniteSet(Before(x)) /\ p \in Before(x) /\ Before(x) \ {p} = Before(p)
    <3>1. IsFiniteSet(Before(x))
      BY <1>4, FS_Subset
    <3>2. p \in Before(x)
      BY <1>9
    <3>3. \A s \in V : (s < x /\ s # p) <=> s < p
      BY <1>4, <1>9, <2>1
    <3>. QED  BY <3>1, <3>2, <3>3
  <2>9. U(x) = share[p] + U(p)
    <3>1. PICK B : B = Before(x)
      OBVIOUS
    <3>2. IsFiniteSet(B) /\ p \in B /\ B \ {p} = Before(p) /\ \A s \in B : share[s] \in Int
      BY <2>7, <2>8, <3>1, Zenon
    <3>3. \A s \in B : SumFunctionOnSet(share, B) = share[s] + SumFunctionOnSet(share, B \ {s})
      BY <3>2, SumTakeOut
    <3>. QED  BY <3>1, <3>2, <3>3
  <2>10. R(p) \in Int /\ (x - p) * k \in Int
    <3>1. p - 1 \in Int /\ \A t \in ws .. p - 1 : t \in Int
      BY <2>1
    <3>2. IsFiniteSet(ws .. p - 1)
      BY <3>1, FS_Interval
    <3>3. \A t \in ws .. p - 1 : tick[t] \in Int
      BY <1>8, <3>1
    <3>. QED  BY <2>1, <3>2, <3>3, SumType
  <2>. HIDE DEF U, R
  <2>. QED  BY <1>9, <2>4, <2>6, <2>9, <2>10
<1>10. U(ws) = R(ws)
  <2>1. Before(ws) = {} /\ ws .. ws - 1 = {}
    <3>1. \A s \in V : ~(s < ws)
      BY <1>4
    <3>2. \A t \in ws .. ws - 1 : FALSE
      OBVIOUS
    <3>. QED  BY <3>1, <3>2
  <2>. QED  BY <2>1, SumEmpty
<1>11. Bad = {}
  <2>. SUFFICES ASSUME Bad # {} PROVE FALSE
    OBVIOUS
  <2>1. PICK d \in Bad : \A e \in Bad : d <= e
    <3>1. Bad \subseteq Nat
      OBVIOUS
    <3>. HIDE DEF Bad
    <3>. QED  BY <3>1, LeastNatural
  <2>2. d \in Nat /\ ws + d \in V /\ U(ws + d) # R(ws + d)
    OBVIOUS
  <2>3. PICK x \in V : x = ws + d
    BY <2>2
  <2>4. x # ws
    <3>. HIDE DEF U, R
    <3>. QED  BY <1>10, <2>2, <2>3
  <2>5. PICK B : B = Before(x)
    OBVIOUS
  <2>6. IsFiniteSet(B) /\ ws \in B /\ B \subseteq Int /\ B \subseteq V
    <3>1. B \in SUBSET V
      BY <2>5
    <3>2. ws < x
      BY <2>2, <2>3, <2>4
    <3>3. ws \in B
      BY <1>4, <2>5, <3>2
    <3>. QED  BY <1>4, <3>1, <3>3, FS_Subset
  <2>7. PICK p \in B : \A s \in B : p >= s
    BY <2>6, LargestExists
  <2>8. p \in V /\ p < x /\ \A s \in V : s <= p \/ x <= s
    BY <1>4, <2>5, <2>6, <2>7
  <2>9. PICK e \in Nat : p = ws + e /\ e < d
    <3>1. p \in Int /\ ws <= p
      BY <1>4, <2>8
    <3>2. p - ws \in Nat /\ p = ws + (p - ws) /\ p - ws < d
      BY <2>2, <2>3, <2>8, <3>1
    <3>. QED  BY <3>2
  <2>10. U(p) = R(p)
    <3>1. e \notin Bad
      <4>. HIDE DEF Bad
      <4>. QED  BY <2>1, <2>2, <2>9
    <3>. HIDE DEF U, R
    <3>. QED  BY <2>8, <2>9, <3>1
  <2>11. U(x) = R(x)
    <3>. HIDE DEF U, R
    <3>. QED  BY <1>9, <2>8, <2>10
  <2>. HIDE DEF U, R
  <2>. QED  BY <2>2, <2>3, <2>11
<1>12. U(last) = R(last)
  <2>1. PICK d \in Nat : last = ws + d
    <3>1. last \in Int /\ ws <= last
      BY <1>4
    <3>2. last - ws \in Nat /\ last = ws + (last - ws)
      BY <3>1
    <3>. QED  BY <3>2
  <2>. HIDE DEF U, R
  <2>. QED  BY <1>11, <2>1
<1>13. usage(hist, name, at) = U(last)
  <2>1. Before(last) = V \ {last}
    <3>1. \A s \in V : s < last <=> s # last
      BY <1>4, <1>5
    <3>. QED  BY <3>1
  <2>2. usage(hist, name, at) = SumFunction(share)
    BY <1>1, <1>3, <1>5, <1>6 DEF usage
  <2>3. SumFunction(share) = SumFunctionOnSet(share, V \ {last})
    BY <1>6 DEF SumFunction
  <2>. QED  BY <2>1, <2>2, <2>3
<1>14. ReferenceUsage(hist, name, at) = R(last)
  <2>1. Max({h.end : h \in hist} \cup {ws}) = last
    BY <1>2, <1>3, <1>5, LastStop
  <2>2. PICK f : f = [t \in ws .. (last - 1) |-> TickShare(hist, name, t)]
    OBVIOUS
  <2>3. ReferenceUsage(hist, name, at) = SumFunction(f)
    BY <1>1, <2>1, <2>2 DEF ReferenceUsage
  <2>4. SumFunction(f) = SumFunctionOnSet(f, ws .. (last - 1))
    BY <2>2 DEF SumFunction
  <2>5. IsFiniteSet(ws .. (last - 1)) /\ \A t \in ws .. (last - 1) : f[t] = tick[t]
    <3>1. last \in Int
      BY <1>4
    <3>2. last - 1 \in Int /\ \A t \in ws .. (last - 1) : t \in Int
      BY <3>1
    <3>3. IsFiniteSet(ws .. (last - 1))
      BY <3>2, FS_Interval
    <3>. QED  BY <1>8, <2>2, <3>2, <3>3
  <2>6. SumFunctionOnSet(f, ws .. (last - 1)) = SumFunctionOnSet(tick, ws .. (last - 1))
    BY <2>5, SumSame
  <2>. QED  BY <2>3, <2>4, <2>6
<1>. QED  BY <1>12, <1>13, <1>14

-----------------------------------------------------------------------------
(* What the sweep computes is a natural number, ties or not.               *)

LEMMA EntriesType ==
  ASSUME NEW slots, IsFiniteSet(slots), NEW ws \in Int, NEW t \in Int, NEW name,
         \A h \in slots : h.start \in Int /\ h.end \in Int /\ h.start <= h.end
  PROVE  /\ OverlapEntries(slots, ws, t) \in Nat
         /\ OverlapEntries(SlotsOf(slots, name), ws, t) \in Nat
         /\ OverlapEntries(SlotsOf(slots, name), ws, t) <= OverlapEntries(slots, ws, t)
<1>1. ASSUME NEW T, T \in SUBSET slots
      PROVE  \E n \in Nat, m \in Nat :
                /\ n = Cardinality({h \in T : h.end <= ws})
                /\ m = Cardinality({h \in T : h.start <= t /\ ~(ws < h.end /\ h.end <= t)})
                /\ OverlapEntries(T, ws, t) = n + m
  <2>1. PICK B : B = {h \in T : h.start <= t}
    OBVIOUS
  <2>2. PICK E : E = {h \in T : ws < h.end /\ h.end <= t}
    OBVIOUS
  <2>3. PICK O : O = {h \in T : h.end <= ws}
    OBVIOUS
  <2>4. \A h \in T : h \in slots /\ h.start \in Int /\ h.end \in Int /\ h.start <= h.end
    BY <1>1
  <2>5. B \in SUBSET T /\ E \in SUBSET B /\ O \in SUBSET T
    BY <2>1, <2>2, <2>3, <2>4
  <2>6. IsFiniteSet(T)
    BY <1>1, FS_Subset
  <2>7. IsFiniteSet(B) /\ IsFiniteSet(E) /\ IsFiniteSet(O)
    BY <2>5, <2>6, FS_Subset
  <2>8. B \cap E = E /\ B \ E = {h \in T : h.start <= t /\ ~(ws < h.end /\ h.end <= t)}
    BY <2>1, <2>2, <2>5
  <2>9. Cardinality(B \ E) = Cardinality(B) - Cardinality(E) /\ IsFiniteSet(B \ E)
    BY <2>7, <2>8, FS_Difference
  <2>10. /\ Cardinality(B) \in Nat /\ Cardinality(E) \in Nat /\ Cardinality(O) \in Nat
         /\ Cardinality(B \ E) \in Nat
    BY <2>7, <2>9, FS_CardinalityType
  <2>11. OverlapEntries(T, ws, t) = Cardinality(B) + Cardinality(O) - Cardinality(E)
    BY <2>1, <2>2, <2>3 DEF OverlapEntries
  <2>12. OverlapEntries(T, ws, t) = Cardinality(O) + Cardinality(B \ E)
    BY <2>9, <2>10, <2>11
  <2>. QED  BY <2>3, <2>8, <2>10, <2>12
<1>2. PICK M : M = SlotsOf(slots, name)
  OBVIOUS
<1>3. M \in SUBSET slots
  BY <1>2 DEF SlotsOf
<1>4. PICK n \in Nat, m \in Nat :
         /\ n = Cardinality({h \in slots : h.end <= ws})
         /\ m = Cardinality({h \in slots : h.start <= t /\ ~(ws < h.end /\ h.end <= t)})
         /\ OverlapEntries(slots, ws, t) = n + m
  BY <1>1
<1>5. PICK k \in Nat, l \in Nat :
         /\ k = Cardinality({h \in M : h.end <= ws})
         /\ l = Cardinality({h \in M : h.start <= t /\ ~(ws < h.end /\ h.end <= t)})
         /\ OverlapEntries(M, ws, t) = k + l
  BY <1>1, <1>3
<1>6. k <= n
  <2>1. PICK P : P = {h \in M : h.end <= ws}
    OBVIOUS
  <2>2. PICK Q : Q = {h \in slots : h.end <= ws}
    OBVIOUS
  <2>3. P \in SUBSET Q /\ Q \in SUBSET slots
    BY <1>3, <2>1, <2>2
  <2>4. IsFiniteSet(Q)
    BY <2>3, FS_Subset
  <2>5. Cardinality(P) <= Cardinality(Q)
    BY <2>3, <2>4, FS_Subset
  <2>. QED  BY <1>4, <1>5, <2>1, <2>2, <2>5
<1>7. l <= m
  <2>1. PICK P : P = {h \in M : h.start <= t /\ ~(ws < h.end /\ h.end <= t)}
    OBVIOUS
  <2>2. PICK Q : Q = {h \in slots : h.start <= t /\ ~(ws < h.end /\ h.end <= t)}
    OBVIOUS
  <2>3. P \in SUBSET Q /\ Q \in SUBSET slots
    BY <1>3, <2>1, <2>2
  <2>4. IsFiniteSet(Q)
    BY <2>3, FS_Subset
  <2>5. Cardinality(P) <= Cardinality(Q)
    BY <2>3, <2>4, FS_Subset
  <2>. QED  BY <1>4, <1>5, <2>1, <2>2, <2>5
<1>. QED  BY <1>2, <1>4, <1>5, <1>6, <1>7

LEMMA UsageType ==
  ASSUME NEW hist, IsFiniteSet(hist), NEW name, NEW at \in Int,
         \A h \in hist : h.start \in Int /\ h.end \in Int /\ h.start <= h.end
  PROVE  usage(hist, name, at) \in Nat
<1>1. PICK ws \in Int : ws = window_start(at)
  BY WindowAssumption DEF window_start
<1>2. PICK V : V = Stops(hist, ws)
  OBVIOUS
<1>3. IsFiniteSet(V) /\ V \subseteq Int /\ V # {}
  <2>1. PICK f : f = [h \in hist |-> h.start]
    OBVIOUS
  <2>2. PICK g : g = [h \in hist |-> h.end]
    OBVIOUS
  <2>3. {f[h] : h \in hist} = {h.start : h \in hist} /\ {g[h] : h \in hist} = {h.end : h \in hist}
    BY <2>1, <2>2
  <2>4. IsFiniteSet({f[h] : h \in hist}) /\ IsFiniteSet({g[h] : h \in hist})
    BY FiniteImage
  <2>5. PICK A : A = {h.start : h \in hist} \cup {h.end : h \in hist}
    OBVIOUS
  <2>6. IsFiniteSet(A)
    BY <2>3, <2>4, <2>5, FS_Union
  <2>7. IsFiniteSet({ws} \cup {t \in A : t > ws})
    BY <2>6, FS_Subset, FS_Singleton, FS_Union
  <2>8. V = {ws} \cup {t \in A : t > ws} /\ A \subseteq Int
    BY <1>2, <2>5 DEF Stops
  <2>. QED  BY <2>7, <2>8
<1>4. PICK last \in V : last = Max(V) /\ \A s \in V : s <= last
  BY <1>3, MaxProperties
<1>5. PICK D : D = V \ {last}
  OBVIOUS
<1>6. PICK share : share = [t \in D |-> StretchShare(hist, name, ws, t)]
  OBVIOUS
<1>7. ASSUME NEW t \in D PROVE share[t] \in Nat
  <2>1. t \in Int /\ t \in V /\ last \in Int /\ t < last
    BY <1>3, <1>4, <1>5
  <2>2. PICK n \in Nat : n = OverlapEntries(hist, ws, t)
    BY <2>1, EntriesType
  <2>3. PICK m \in Nat : m = OverlapEntries(SlotsOf(hist, name), ws, t) /\ m <= n
    BY <2>1, <2>2, EntriesType
  <2>4. PICK S : S = {s \in V : s > t}
    OBVIOUS
  <2>5. last \in S /\ S \in SUBSET V /\ S \subseteq Int
    BY <1>3, <2>1, <2>4
  <2>6. IsFiniteSet(S)
    BY <1>3, <2>5, FS_Subset
  <2>7. PICK x \in S : \A s \in S : x <= s
    <3>1. PICK f : f = [s \in S |-> -s]
      OBVIOUS
    <3>2. PICK X : X = {f[s] : s \in S}
      OBVIOUS
    <3>3. IsFiniteSet(X) /\ X # {} /\ X \subseteq Int
      <4>1. IsFiniteSet(X)
        BY <2>6, <3>2, FiniteImage
      <4>. QED  BY <2>5, <3>1, <3>2, <4>1
    <3>4. PICK y \in X : \A z \in X : y >= z
      BY <3>3, LargestExists
    <3>5. PICK x \in S : y = -x
      BY <3>1, <3>2
    <3>6. ASSUME NEW s \in S PROVE x <= s
      <4>1. -s \in X /\ s \in Int /\ x \in Int
        BY <2>5, <3>1, <3>2
      <4>2. -x >= -s
        BY <3>4, <3>5, <4>1
      <4>. QED  BY <4>1, <4>2
    <3>. QED  BY <3>6
  <2>8. Min(S) \in S
    BY <2>7 DEF Min
  <2>9. PICK l \in Nat : l = Min(S) - t
    <3>1. PICK y \in S : y = Min(S)
      BY <2>8
    <3>2. y \in Int /\ y > t
      BY <2>4, <2>5
    <3>3. y - t \in Nat
      BY <2>1, <3>2
    <3>. QED  BY <3>1, <3>3
  <2>10. StretchShare(hist, name, ws, t) = IF m = 0 THEN 0 ELSE (UNIT * m * l) \div n
    BY <1>2, <2>2, <2>3, <2>4, <2>9 DEF StretchShare
  <2>11. PICK u \in Nat : u = UNIT * m * l
    <3>1. PICK v \in Nat : v = UNIT * m
      BY FracUnitAssumption DEF UNIT, SHARE
    <3>. QED  BY <3>1
  <2>12. n > 0 => u \div n \in Nat
    BY SMT
  <2>. QED  BY <1>6, <2>3, <2>10, <2>11, <2>12
<1>8. usage(hist, name, at) = SumFunctionOnSet(share, D)
  <2>1. usage(hist, name, at) = SumFunction(share)
    BY <1>1, <1>2, <1>4, <1>5, <1>6 DEF usage
  <2>2. DOMAIN share = D
    BY <1>6
  <2>. QED  BY <2>1, <2>2 DEF SumFunction
<1>9. IsFiniteSet(D) /\ {} \in SUBSET D
  <2>1. D \in SUBSET V
    BY <1>5
  <2>. QED  BY <1>3, <2>1, FS_Subset
<1>10. SumFunctionOnSet(share, D) \in Int
  <2>1. \A t \in D : share[t] \in Int
    BY <1>7
  <2>. QED  BY <1>9, <2>1, SumType
<1>11. SumFunctionOnSet(share, {}) <= SumFunctionOnSet(share, D)
  BY <1>7, <1>9, SumPart
<1>. QED  BY <1>8, <1>10, <1>11, SumEmpty

-----------------------------------------------------------------------------
(* The history.                                                            *)

\* Finitely many slots, none of which begins after it ends or after now.
SlotShape ==
    /\ now > 0 /\ IsFiniteSet(history_list)
    /\ \A h \in history_list : h.start <= h.end /\ h.start <= now

ShapeInv == IndType /\ SlotShape

\* Only a selection takes the daemon from the top of its loop to the send.
LEMMA GrantingSelects ==
  ASSUME Next, daemon_pc = "top", daemon_pc' = "send"
  PROVE  SelectFirst \/ SelectByPriority
<1>1. Daemon
  BY DEF Next, daemon_vars, net_vars, Handler, IgnoreUnknown, HandleQuota, PushCandidate,
         HandleMemLimit, HandleMemUpdate, Answer, ReloadLine, PodSend, PodRecv, Connection,
         PodConnects, PodEnds, HandlerEnds, SpuriousWakeup, Tick
<1>. QED  BY <1>1 DEF Daemon, WaitForCandidates, WakeIdle, SleepUntilWindowMoves, WakeLimited,
                      SendQuota, BeginHold, HoldReturned, HoldTimeout, EndHold, HoldAgain

\* What a step may do to the history.
LEMMA HistoryCases ==
  ASSUME IndType, [Next]_vars
  PROVE  \/ UNCHANGED <<now, history_list>>
         \/ history_list' = window_history /\ now' = now
         \/ \E c \in Clients, o \in Nat : history_list' = update_return_time(c, o) /\ now' = now
         \/ Tick
         \/ /\ Selecting /\ daemon_pc = "top" /\ daemon_pc' = "send"
            /\ \E i \in DOMAIN candidates :
                  /\ Grant(i)
                  /\ SlotsOf(window_history, candidates[i].name) = {} \/ i \in valid_candidates
<1>. USE DEF net_vars, daemon_vars, conn_vars
<1>1. CASE SelectFirst
  <2>1. 1 \in DOMAIN candidates /\ Head(candidates) = candidates[1]
    BY <1>1, EmptySeq, LenProperties, HeadTailProperties
       DEF SelectFirst, Selecting, IndType, TypeOK
  <2>2. Grant(1) /\ Selecting /\ SlotsOf(window_history, candidates[1].name) = {}
    BY <1>1, <2>1 DEF SelectFirst, QuickExit
  <2>3. daemon_pc = "top" /\ daemon_pc' = "send"
    BY <2>2 DEF Grant, Selecting
  <2>. QED  BY <2>1, <2>2, <2>3
<1>2. CASE SelectByPriority
  <2>1. PICK i \in DOMAIN candidates : Grant(i) /\ i \in valid_candidates
    BY <1>2 DEF SelectByPriority, Winners, valid_candidates
  <2>2. Selecting /\ daemon_pc = "top" /\ daemon_pc' = "send"
    BY <1>2, <2>1 DEF SelectByPriority, Grant, Selecting
  <2>. QED  BY <2>1, <2>2
<1>3. CASE SleepUntilWindowMoves
  BY <1>3 DEF SleepUntilWindowMoves
<1>4. ASSUME NEW c \in Clients, HandleQuota(c)
      PROVE  \E o \in Nat : history_list' = update_return_time(c, o) /\ now' = now
  <2>1. PICK m : m = Head(inbox[c])
    OBVIOUS
  <2>2. m \in Request
    BY <1>4, <2>1, HeadTailProperties DEF HandleQuota, Received, IndType, TypeOK
  <2>3. m.overuse \in Nat
    <3>1. m.overuse \in Overuses \cup {0}
      BY <2>2 DEF Request
    <3>2. Overuses \cup {0} \subseteq Nat
      BY ReportAssumption
    <3>. QED  BY <3>1, <3>2, Zenon
  <2>4. history_list' = update_return_time(c, m.overuse) /\ now' = now
    BY <1>4, <2>1 DEF HandleQuota
  <2>. QED  BY <2>3, <2>4
<1>5. CASE \/ WaitForCandidates \/ WakeIdle \/ WakeLimited \/ SendQuota \/ BeginHold
           \/ HoldReturned \/ HoldAgain \/ HoldTimeout \/ SpuriousWakeup \/ UNCHANGED vars
  BY <1>5 DEF WaitForCandidates, WakeIdle, WakeLimited, SendQuota, BeginHold, HoldReturned,
              HoldAgain, HoldTimeout, EndHold, SpuriousWakeup, vars
<1>6. ASSUME NEW c \in Clients,
             \/ IgnoreUnknown(c) \/ PushCandidate(c) \/ HandleMemLimit(c)
             \/ HandleMemUpdate(c) \/ PodRecv(c)
      PROVE  UNCHANGED <<now, history_list>>
  BY <1>6 DEF IgnoreUnknown, PushCandidate, HandleMemLimit, HandleMemUpdate, Answer, PodRecv
<1>7. CASE \E c \in Clients, line \in ConfigLines : ReloadLine(c, line)
  BY <1>7 DEF ReloadLine
<1>8. CASE \E c \in Clients, r \in ReqIds : \E m \in Sendable(c) : PodSend(c, r, m)
  BY <1>8 DEF PodSend
<1>9. CASE \E c \in Mortal : Connection(c)
  BY <1>9 DEF Connection, PodConnects, PodEnds, HandlerEnds
<1>. QED  BY <1>1, <1>2, <1>3, <1>4, <1>5, <1>6, <1>7, <1>8, <1>9 DEF Next, Daemon, Handler

\* The slot that a grant adds.
LEMMA GrantAdds ==
  ASSUME IndType, NEW i \in DOMAIN candidates, Grant(i)
  PROVE  /\ candidates[i].name \in Clients
         /\ client_info_map[candidates[i].name] \in ClientInfoType
         /\ now' = now /\ \A h \in history_list : h.start < now
         /\ \E q \in Nat : history_list' = window_history \cup {Record(candidates[i].name, q)}
<1>1. PICK n \in Clients : n = candidates[i].name
  BY CandidateAt DEF IndType
<1>2. client_info_map[n] \in ClientInfoType
  BY <1>1 DEF IndType, CandidatesKnown, known, TypeOK
<1>3. PICK q \in Nat : q = get_quota(client_info_map[n])
  BY <1>2, GetQuotaType
<1>4. /\ history_list' = window_history \cup {Record(n, q)}
      /\ now' = now /\ \A h \in history_list : h.start < now
  BY <1>1, <1>3 DEF Grant
<1>. QED  BY <1>1, <1>2, <1>3, <1>4

\* update_return_time moves the end of the client's latest slot only, to a time
\* between its start and now, and never behind a tick that has passed.
LEMMA ReturnMoves ==
  ASSUME ShapeInv, NEW c \in Clients, NEW o \in Nat, NEW g \in history_list,
         NEW h, h = IF g.name = c /\ IsLatestSlot(history_list, g) THEN ReturnTime(g, o) ELSE g
  PROVE  /\ h.name = g.name /\ h.start = g.start /\ h.end \in Int /\ h.start <= h.end
         /\ h = g \/ (IsLatestSlot(history_list, g) /\ g.name = c)
         /\ \A t \in Int : t < now /\ t < g.end => t < h.end
<1>1. g \in Slot /\ now \in Int /\ g.start \in Int /\ g.end \in Int
  BY DEF ShapeInv, IndType, TypeOK, Slot
<1>2. g.start <= now /\ g.start <= g.end
  BY DEF ShapeInv, SlotShape
<1>3. PICK e \in Int : e = Smaller(now, g.end + o)
  BY <1>1 DEF Smaller
<1>4. g.start <= e /\ \A t \in Int : t < now /\ t < g.end => t < e
  BY <1>1, <1>2, <1>3 DEF Smaller
<1>5. ReturnTime(g, o) = [g EXCEPT !.end = e]
  BY <1>3 DEF ReturnTime
<1>6. PICK k : k = ReturnTime(g, o)
  OBVIOUS
<1>7. k.name = g.name /\ k.start = g.start /\ k.end = e
  BY <1>1, <1>5, <1>6 DEF Slot
<1>8. CASE g.name = c /\ IsLatestSlot(history_list, g)
  <2>1. h = k
    BY <1>6, <1>8
  <2>. QED  BY <1>3, <1>4, <1>7, <1>8, <2>1
<1>9. CASE ~(g.name = c /\ IsLatestSlot(history_list, g))
  <2>1. h = g
    BY <1>9
  <2>. QED  BY <1>1, <1>2, <2>1
<1>. QED  BY <1>8, <1>9

LEMMA NextShape ==
  ASSUME ShapeInv, [Next]_vars
  PROVE  SlotShape'
<1>1. /\ now \in Int /\ now \in Nat /\ now > 0 /\ IsFiniteSet(history_list) /\ IndType
      /\ \A h \in history_list : /\ h.start \in Int /\ h.end \in Int
                                 /\ h.start <= h.end /\ h.start <= now
  BY DEF ShapeInv, SlotShape, IndType, TypeOK, Slot
<1>2. window_history \in SUBSET history_list
  BY DEF window_history, InWindow
<1>3. IsFiniteSet(window_history)
  BY <1>1, <1>2, FS_Subset
<1>4. CASE UNCHANGED <<now, history_list>>
  BY <1>4 DEF ShapeInv, SlotShape
<1>5. CASE history_list' = window_history /\ now' = now
  <2>1. now' > 0 /\ IsFiniteSet(history_list')
    BY <1>1, <1>3, <1>5
  <2>2. \A h \in history_list' : h.start <= h.end /\ h.start <= now'
    BY <1>1, <1>2, <1>5
  <2>. QED  BY <2>1, <2>2 DEF SlotShape
<1>6. ASSUME NEW c \in Clients, NEW o \in Nat, history_list' = update_return_time(c, o), now' = now
      PROVE  SlotShape'
  <2>1. PICK f : f = [g \in history_list |->
                        IF g.name = c /\ IsLatestSlot(history_list, g) THEN ReturnTime(g, o) ELSE g]
    OBVIOUS
  <2>2. {f[g] : g \in history_list} = history_list'
    BY <1>6, <2>1 DEF update_return_time
  <2>3. IsFiniteSet(history_list')
    <3>1. IsFiniteSet({f[g] : g \in history_list})
      BY <1>1, FiniteImage
    <3>. QED  BY <2>2, <3>1
  <2>4. ASSUME NEW g \in history_list PROVE f[g].start <= f[g].end /\ f[g].start <= now
    <3>1. f[g].start = g.start /\ f[g].start <= f[g].end
      BY <2>1, ReturnMoves
    <3>. QED  BY <1>1, <3>1
  <2>5. \A h \in history_list' : h.start <= h.end /\ h.start <= now
    BY <2>2, <2>4
  <2>. QED  BY <1>1, <1>6, <2>3, <2>5 DEF SlotShape
<1>7. CASE Tick
  <2>1. CASE now < HORIZON
    <3>1. now' = now + 1 /\ history_list' = history_list
      BY <1>7, <2>1 DEF Tick
    <3>. QED  BY <1>1, <3>1 DEF SlotShape
  <2>2. CASE ~(now < HORIZON)
    <3>1. PICK K : K = {g \in history_list : ~Forgettable(g.name)}
      OBVIOUS
    <3>2. history_list' = {Earlier(g) : g \in K} /\ now' = now
      BY <1>7, <2>2, <3>1 DEF Tick
    <3>3. K \in SUBSET history_list /\ IsFiniteSet(K)
      <4>1. K \in SUBSET history_list
        BY <3>1
      <4>. QED  BY <1>1, <4>1, FS_Subset
    <3>4. PICK f : f = [g \in K |-> Earlier(g)]
      OBVIOUS
    <3>5. {f[g] : g \in K} = history_list'
      BY <3>2, <3>4
    <3>6. IsFiniteSet(history_list')
      <4>1. IsFiniteSet({f[g] : g \in K})
        BY <3>3, FiniteImage
      <4>. QED  BY <3>5, <4>1
    <3>7. ASSUME NEW g \in K PROVE f[g].start <= f[g].end /\ f[g].start <= now
      <4>1. f[g].start = g.start - 1 /\ f[g].end = g.end - 1
        BY <3>4 DEF Earlier
      <4>2. g \in history_list
        BY <3>3
      <4>. QED  BY <1>1, <4>1, <4>2
    <3>8. \A h \in history_list' : h.start <= h.end /\ h.start <= now
      BY <3>5, <3>7
    <3>. QED  BY <1>1, <3>2, <3>6, <3>8 DEF SlotShape
  <2>. QED  BY <2>1, <2>2
<1>8. ASSUME NEW i \in DOMAIN candidates, Grant(i) PROVE SlotShape'
  <2>1. PICK q \in Nat : /\ history_list' = window_history \cup {Record(candidates[i].name, q)}
                         /\ now' = now
    BY <1>1, <1>8, GrantAdds
  <2>2. PICK new : new = Record(candidates[i].name, q)
    OBVIOUS
  <2>3. new.start = now /\ new.end = now + q
    BY <2>2 DEF Record
  <2>4. IsFiniteSet(window_history \cup {new})
    BY <1>3, FS_AddElement
  <2>5. IsFiniteSet(history_list')
    BY <2>1, <2>2, <2>4
  <2>6. \A h \in history_list' : h.start <= h.end /\ h.start <= now
    BY <1>1, <1>2, <2>1, <2>2, <2>3
  <2>. QED  BY <1>1, <2>1, <2>5, <2>6 DEF SlotShape
<1>. QED  BY <1>1, <1>4, <1>5, <1>6, <1>7, <1>8, HistoryCases

LEMMA InitShape == Init => ShapeInv
<1>1. Init => SlotShape
  BY FS_EmptySet DEF Init, SlotShape
<1>. QED  BY <1>1, InitIndType DEF ShapeInv

LEMMA NextShapeInv == ShapeInv /\ [Next]_vars => ShapeInv'
  BY NextShape, NextIndType DEF ShapeInv

\* The pruned history that the sweep walks over.
LEMMA WindowShape ==
  ASSUME ShapeInv
  PROVE  /\ now \in Int /\ window_start(now) \in Int /\ window_start(now) <= now
         /\ window_history \in SUBSET history_list /\ IsFiniteSet(window_history)
         /\ \A h \in window_history : /\ h.start \in Int /\ h.end \in Int /\ h.start <= h.end
                                      /\ window_start(now) <= h.end
<1>1. now \in Int /\ window_start(now) \in Int /\ window_start(now) <= now
  BY WindowAssumption DEF ShapeInv, IndType, TypeOK, window_start
<1>2. window_history \in SUBSET history_list
  BY DEF window_history, InWindow
<1>3. IsFiniteSet(window_history)
  BY <1>2, FS_Subset DEF ShapeInv, SlotShape
<1>4. ASSUME NEW h \in window_history
      PROVE  h.start \in Int /\ h.end \in Int /\ h.start <= h.end /\ window_start(now) <= h.end
  <2>1. h \in history_list /\ h.start \in Int /\ h.end \in Int /\ h.start <= h.end
    BY <1>2 DEF ShapeInv, IndType, TypeOK, Slot, SlotShape
  <2>2. ~(h.end < window_start(now))
    BY DEF window_history, InWindow, BeyondWindow
  <2>. QED  BY <1>1, <2>1, <2>2
<1>. QED  BY <1>1, <1>2, <1>3, <1>4

\* Whenever the daemon selects, the sweep has computed every client's equal share
\* of the ticks in the window (scheduler.cpp:327-365), for every number of clients,
\* of requests in flight and of reloads.
THEOREM SweepIsExact == Spec => []UsageIsEqualShare
<1>1. ASSUME ShapeInv PROVE UsageIsEqualShare
  <2>. SUFFICES ASSUME ~SlotEndsAtWindowStart, Shareable(window_history), NEW c \in Clients
                PROVE  usage(window_history, c, now) = ReferenceUsage(window_history, c, now)
    BY DEF UsageIsEqualShare
  <2>1. /\ now \in Int /\ window_start(now) \in Int /\ IsFiniteSet(window_history)
        /\ window_history \in SUBSET history_list
        /\ \A h \in window_history : /\ h.start \in Int /\ h.end \in Int /\ h.start <= h.end
                                     /\ window_start(now) <= h.end
    BY <1>1, WindowShape
  <2>2. \A h \in window_history : h.end # window_start(now)
    BY <2>1 DEF SlotEndsAtWindowStart
  <2>3. Sweepable(window_history, window_start(now))
    BY <2>1, <2>2 DEF Sweepable
  <2>. QED  BY <2>1, <2>3, SweepIsEqualShare
<1>. QED  BY <1>1, InitShape, NextShapeInv, PTL DEF Spec

-----------------------------------------------------------------------------
(* The sort.                                                               *)

\* A candidate with integer amounts that is not exactly at its requirement.
Proper(s) == s.missing \in Int /\ s.missing # 0 /\ s.usage \in Nat

LEMMA MultiplyOrder ==
    ASSUME NEW k \in Int, k > 0, NEW x \in Int, NEW y \in Int
    PROVE  (x > y) <=> (k * x > k * y)
  <1>1. CASE x > y
    <2>1. x - y > 0 /\ k * (x - y) > 0
      BY <1>1, SMT
    <2>2. k * (x - y) = k * x - k * y
      BY SMT
    <2> QED BY <1>1, <2>1, <2>2
  <1>2. CASE ~(x > y)
    <2>1. y - x >= 0 /\ k * (y - x) >= 0
      BY <1>2, SMT
    <2>2. k * (y - x) = k * y - k * x
      BY SMT
    <2> QED BY <1>2, <2>1, <2>2
  <1> QED BY <1>1, <1>2

\* Among candidates short of their requirement the comparison of the two
\* quotients is a comparison of products.
Ahead(a, b) == a.missing * b.usage > b.missing * a.usage

LEMMA QuotientOrder ==
    ASSUME NEW a, NEW b, Proper(a), Proper(b), a.missing > 0, b.missing > 0
    PROVE  schd_priority(a, b) <=> Ahead(a, b)
  <1>1. a.missing * (b.missing + b.usage) = a.missing * b.missing + a.missing * b.usage
    BY DEF Proper
  <1>2. b.missing * (a.missing + a.usage) = a.missing * b.missing + b.missing * a.usage
    BY DEF Proper
  <1>3. a.missing * b.missing \in Int /\ a.missing * b.usage \in Int /\ b.missing * a.usage \in Int
    BY DEF Proper
  <1> QED BY <1>1, <1>2, <1>3 DEF schd_priority, Ahead

\* If a is not behind b and b is not behind c then a is not behind c.
LEMMA AheadTransitive ==
    ASSUME NEW a, NEW b, NEW c, Proper(a), Proper(b), Proper(c),
           a.missing > 0, b.missing > 0, c.missing > 0
    PROVE  /\ Ahead(a, b) /\ Ahead(b, c) => Ahead(a, c)
           /\ ~Ahead(b, a) /\ ~Ahead(c, b) => ~Ahead(c, a)
  <1> DEFINE am == a.missing  au == a.usage  bm == b.missing
             bu == b.usage    cm == c.missing  cu == c.usage
  <1>1. /\ am \in Int /\ bm \in Int /\ cm \in Int /\ au \in Int /\ bu \in Int /\ cu \in Int
        /\ am > 0 /\ bm > 0 /\ cm > 0
    BY DEF Proper
  <1> HIDE DEF am, au, bm, bu, cm, cu
  <1>2. /\ am * bu \in Int /\ bm * au \in Int /\ bm * cu \in Int
        /\ cm * bu \in Int /\ am * cu \in Int /\ cm * au \in Int
    BY <1>1
  <1>3. /\ (am * bu > bm * au) <=> (cm * (am * bu) > cm * (bm * au))
        /\ (bm * au > am * bu) <=> (cm * (bm * au) > cm * (am * bu))
    BY <1>1, <1>2, MultiplyOrder
  <1>4. /\ (bm * cu > cm * bu) <=> (am * (bm * cu) > am * (cm * bu))
        /\ (cm * bu > bm * cu) <=> (am * (cm * bu) > am * (bm * cu))
    BY <1>1, <1>2, MultiplyOrder
  <1>5. /\ (am * cu > cm * au) <=> (bm * (am * cu) > bm * (cm * au))
        /\ (cm * au > am * cu) <=> (bm * (cm * au) > bm * (am * cu))
    BY <1>1, <1>2, MultiplyOrder
  <1>6. /\ cm * (am * bu) = am * (cm * bu)
        /\ am * (bm * cu) = bm * (am * cu)
        /\ cm * (bm * au) = bm * (cm * au)
    BY <1>1
  <1>7. am * (cm * bu) \in Int /\ bm * (am * cu) \in Int /\ bm * (cm * au) \in Int
    BY <1>1, <1>2
  <1>8. /\ am * bu > bm * au /\ bm * cu > cm * bu => am * cu > cm * au
        /\ ~(bm * au > am * bu) /\ ~(cm * bu > bm * cu) => ~(cm * au > am * cu)
    <2> DEFINE x == am * (cm * bu)  y == bm * (am * cu)  z == bm * (cm * au)
    <2> HIDE DEF x, y, z
    <2>1. /\ (am * bu > bm * au) <=> (x > z)
          /\ (bm * au > am * bu) <=> (z > x)
          /\ (bm * cu > cm * bu) <=> (y > x)
          /\ (cm * bu > bm * cu) <=> (x > y)
          /\ (am * cu > cm * au) <=> (y > z)
          /\ (cm * au > am * cu) <=> (z > y)
      BY <1>3, <1>4, <1>5, <1>6, Zenon DEF x, y, z
    <2>2. x \in Int /\ y \in Int /\ z \in Int
      BY <1>7 DEF x, y, z
    <2> QED BY <2>1, <2>2
  <1> QED BY <1>8 DEF Ahead, am, au, bm, bu, cm, cu

\* The comparator of select_candidate's sort is a strict weak order on proper
\* candidates, however many there are (schd-priority.cpp:19-26): std::sort is
\* defined on them.
THEOREM ProperOrder ==
    ASSUME NEW S, \A s \in S : Proper(s)
    PROVE  IsStrictWeakOrder(S)
  <1>1. \A a, b \in S : a.missing > 0 /\ b.missing > 0 => (schd_priority(a, b) <=> Ahead(a, b))
    BY QuotientOrder
  <1>2. \A a, b \in S : a.missing > 0 /\ ~(b.missing > 0) =>
                          schd_priority(a, b) /\ ~schd_priority(b, a)
    BY DEF schd_priority, Proper
  <1>3. \A a, b \in S : ~(a.missing > 0) /\ ~(b.missing > 0) =>
                          (schd_priority(a, b) <=> a.usage < b.usage)
    BY DEF schd_priority, Proper
  <1>4. ASSUME NEW a \in S PROVE ~schd_priority(a, a)
    <2>1. CASE a.missing > 0
      <3>1. ~Ahead(a, a)
        BY DEF Ahead, Proper
      <3> QED BY <2>1, <3>1, <1>1
    <2>2. CASE ~(a.missing > 0)
      BY <2>2, <1>3 DEF Proper
    <2> QED BY <2>1, <2>2
  <1>5. ASSUME NEW a \in S, NEW b \in S, NEW c \in S
        PROVE  /\ schd_priority(a, b) /\ schd_priority(b, c) => schd_priority(a, c)
               /\ Incomparable(a, b) /\ Incomparable(b, c) => Incomparable(a, c)
    <2>1. CASE a.missing > 0 /\ b.missing > 0 /\ c.missing > 0
      <3>1. /\ Ahead(a, b) /\ Ahead(b, c) => Ahead(a, c)
            /\ ~Ahead(b, a) /\ ~Ahead(c, b) => ~Ahead(c, a)
            /\ ~Ahead(b, c) /\ ~Ahead(a, b) => ~Ahead(a, c)
        BY <2>1, AheadTransitive
      <3> QED BY <2>1, <3>1, <1>1 DEF Incomparable
    <2>2. CASE ~(a.missing > 0) /\ ~(b.missing > 0) /\ ~(c.missing > 0)
      BY <2>2, <1>3 DEF Incomparable, Proper
    <2>3. CASE ~(a.missing > 0 /\ b.missing > 0 /\ c.missing > 0)
               /\ ~(~(a.missing > 0) /\ ~(b.missing > 0) /\ ~(c.missing > 0))
      BY <2>3, <1>2 DEF Incomparable
    <2> QED BY <2>1, <2>2, <2>3
  <1> QED BY <1>4, <1>5 DEF IsStrictWeakOrder

\* Whatever the sort puts first is short of its REQUEST if any valid candidate
\* is, and otherwise nobody has used less.
LEMMA ShortfallFirst ==
  ASSUME NEW S, \A s \in S : Proper(s), NEW w \in SortedFirst(S)
  PROVE  /\ w \in S
         /\ IF \E s \in S : s.missing > 0 THEN w.missing > 0 ELSE \A s \in S : w.usage <= s.usage
<1>1. w \in S /\ \A s \in S : ~schd_priority(s, w)
  BY ProperOrder DEF SortedFirst
<1>2. CASE \E s \in S : s.missing > 0
  <2>1. PICK s \in S : s.missing > 0
    BY <1>2
  <2>2. ~schd_priority(s, w) /\ Proper(s) /\ Proper(w)
    BY <1>1
  <2>. QED  BY <1>1, <1>2, <2>1, <2>2 DEF schd_priority, Proper
<1>3. CASE ~\E s \in S : s.missing > 0
  <2>1. ASSUME NEW s \in S PROVE w.usage <= s.usage
    <3>1. ~schd_priority(s, w) /\ Proper(s) /\ Proper(w)
      BY <1>1
    <3>2. ~(s.missing > 0) /\ ~(w.missing > 0)
      BY <1>1, <1>3
    <3>. QED  BY <3>1, <3>2 DEF schd_priority, Proper
  <2>. QED  BY <1>1, <1>3, <2>1
<1>. QED  BY <1>2, <1>3

\* What the daemon knows of a candidate when it sorts.
LEMMA StandingType ==
  ASSUME ShapeInv, NEW i \in DOMAIN candidates
  PROVE  Standing(i).missing \in Int /\ Standing(i).usage \in Nat
<1>1. PICK n \in Clients : n = candidates[i].name
  BY CandidateAt DEF ShapeInv, IndType
<1>2. client_info_map[n].MIN_FRAC \in Nat
  BY <1>1 DEF ShapeInv, IndType, CandidatesKnown, known, TypeOK, ClientInfoType
<1>3. usage(window_history, n, now) \in Nat
  BY WindowShape, UsageType
<1>4. window_size(now) \in Nat
  BY WindowAssumption DEF ShapeInv, IndType, TypeOK, window_size, window_start
<1>5. PICK u \in Nat : u = usage(window_history, n, now)
  BY <1>3
<1>6. PICK k \in Nat : k = client_info_map[n].MIN_FRAC * window_size(now)
  BY <1>2, <1>4
<1>7. Standing(i).missing = k * 60 - u /\ Standing(i).usage = u
  BY <1>1, <1>5, <1>6 DEF Standing, missing, SHARE
<1>. QED  BY <1>7

\* Whenever the daemon sorts the valid candidates and none is exactly at its
\* REQUEST, it selects one that is short of its REQUEST if any is, and otherwise
\* one that has used least (schd-priority.cpp:19-26, scheduler.cpp:390-394), for
\* every number of candidates and every history.
THEOREM RequirementsComeFirst == Spec => RequirementsFirst
<1>. DEFINE Chosen == Selecting /\ ~QuickExit /\ daemon_pc' = "send"
                        /\ (\A i \in valid_candidates : Standing(i).missing # 0) =>
                        \E i \in valid_candidates :
                          /\ selected' = candidates[i]
                          /\ IF \E j \in valid_candidates : Standing(j).missing > 0
                             THEN Standing(i).missing > 0
                             ELSE \A j \in valid_candidates : Standing(i).usage <= Standing(j).usage
<1>1. ASSUME ShapeInv, [Next]_vars PROVE [Chosen]_vars
  <2>. SUFFICES ASSUME Next, Selecting, ~QuickExit, daemon_pc' = "send",
                       \A i \in valid_candidates : Standing(i).missing # 0
                PROVE  \E i \in valid_candidates :
                          /\ selected' = candidates[i]
                          /\ IF \E j \in valid_candidates : Standing(j).missing > 0
                             THEN Standing(i).missing > 0
                             ELSE \A j \in valid_candidates : Standing(i).usage <= Standing(j).usage
    BY <1>1 DEF Chosen
  <2>1. SelectByPriority
    BY GrantingSelects DEF Selecting, SelectFirst
  <2>2. PICK i \in Winners : Grant(i)
    BY <2>1 DEF SelectByPriority
  <2>3. PICK S : S = {Standing(j) : j \in valid_candidates}
    OBVIOUS
  <2>4. PICK f : f = [j \in valid_candidates |-> Standing(j)]
    OBVIOUS
  <2>5. {f[j] : j \in valid_candidates} = S
    BY <2>3, <2>4
  <2>6. i \in valid_candidates /\ f[i] \in SortedFirst(S)
    BY <2>2, <2>4, <2>5, Zenon DEF Winners
  <2>7. valid_candidates \in SUBSET DOMAIN candidates
    BY DEF valid_candidates
  <2>8. \A s \in S : Proper(s)
    <3>1. ASSUME NEW j \in valid_candidates PROVE Proper(Standing(j))
      <4>1. Standing(j).missing \in Int /\ Standing(j).usage \in Nat
        BY <1>1, <2>7, StandingType
      <4>. QED  BY <4>1 DEF Proper
    <3>. QED  BY <2>3, <3>1, Zenon
  <2>9. PICK w \in SortedFirst(S) : w = Standing(i)
    BY <2>4, <2>6
  <2>10. IF \E s \in S : s.missing > 0 THEN w.missing > 0 ELSE \A s \in S : w.usage <= s.usage
    BY <2>8, ShortfallFirst
  <2>11. IF \E j \in valid_candidates : Standing(j).missing > 0
         THEN Standing(i).missing > 0
         ELSE \A j \in valid_candidates : Standing(i).usage <= Standing(j).usage
    BY <2>3, <2>9, <2>10, Zenon
  <2>12. selected' = candidates[i]
    BY <2>2 DEF Grant
  <2>. QED  BY <2>6, <2>11, <2>12
<1>. QED  BY <1>1, InitShape, NextShapeInv, PTL DEF Spec, RequirementsFirst, Chosen

-----------------------------------------------------------------------------
(* Shares of ticks.                                                        *)

\* A smaller dividend and a larger divisor.
LEMMA QuotientMonotone ==
  ASSUME NEW a \in Nat, NEW b \in Nat, a <= b, NEW m \in Nat, NEW n \in Nat, 0 < m, m <= n
  PROVE  a \div n <= b \div m
<1>1. PICK q \in Nat : q = a \div n /\ n * q <= a
  BY SMT
<1>2. PICK r \in Nat : r = b \div m /\ b < m * (r + 1)
  BY SMT
<1>3. m * (r + 1) <= n * (r + 1)
  BY SMT
<1>4. n * q < n * (r + 1)
  BY <1>1, <1>2, <1>3, SMT
<1>5. q < r + 1
  BY <1>4, SMT
<1>. QED  BY <1>1, <1>2, <1>5

\* The share of a tick shrinks when the client's own slots do not grow and
\* those of the others do not shrink.
LEMMA ShareMonotone ==
  ASSUME NEW old, IsFiniteSet(old), NEW new, IsFiniteSet(new), NEW c, NEW t \in Int, NEW u \in Int,
         Covering(SlotsOf(new, c), u) <= Covering(SlotsOf(old, c), t),
         Covering(old, t) <= Covering(new, u)
  PROVE  TickShare(new, c, u) <= TickShare(old, c, t)
<1>1. PICK m \in Nat : m = Covering(SlotsOf(old, c), t)
  BY CoveringType
<1>2. PICK n \in Nat : n = Covering(old, t) /\ m <= n
  BY <1>1, CoveringType
<1>3. PICK k \in Nat : k = Covering(SlotsOf(new, c), u) /\ k <= m
  BY <1>1, CoveringType
<1>4. PICK l \in Nat : l = Covering(new, u) /\ n <= l
  BY <1>2, CoveringType
<1>5. TickShare(old, c, t) = IF m = 0 THEN 0 ELSE (UNIT * m) \div n
  BY <1>1, <1>2 DEF TickShare
<1>6. TickShare(new, c, u) = IF k = 0 THEN 0 ELSE (UNIT * k) \div l
  BY <1>3, <1>4 DEF TickShare
<1>7. PICK v \in Nat : v = UNIT
  BY FracUnitAssumption DEF UNIT, SHARE
<1>8. PICK a \in Nat : a = v * k
  OBVIOUS
<1>9. PICK b \in Nat : b = v * m
  OBVIOUS
<1>10. a <= b
  BY <1>3, <1>8, <1>9, SMT
<1>11. CASE k = 0
  <2>1. TickShare(old, c, t) \in Nat
    BY TickShareType
  <2>. QED  BY <1>6, <1>11, <2>1
<1>12. CASE k # 0
  <2>1. 0 < n /\ m # 0
    BY <1>2, <1>3, <1>12
  <2>2. a \div l <= b \div n
    BY <1>4, <1>10, <2>1, QuotientMonotone
  <2>. QED  BY <1>5, <1>6, <1>7, <1>8, <1>9, <1>12, <2>1, <2>2
<1>. QED  BY <1>11, <1>12

\* Nobody gets more than the tick.
LEMMA ShareBound ==
  ASSUME NEW hist, IsFiniteSet(hist), NEW c, NEW t \in Int
  PROVE  TickShare(hist, c, t) <= UNIT
<1>1. PICK m \in Nat : m = Covering(SlotsOf(hist, c), t)
  BY CoveringType
<1>2. PICK n \in Nat : n = Covering(hist, t) /\ m <= n
  BY <1>1, CoveringType
<1>3. TickShare(hist, c, t) = IF m = 0 THEN 0 ELSE (UNIT * m) \div n
  BY <1>1, <1>2 DEF TickShare
<1>4. PICK v \in Nat : v = UNIT
  BY FracUnitAssumption DEF UNIT, SHARE
<1>5. PICK a \in Nat : a = v * m
  OBVIOUS
<1>6. CASE m = 0
  BY <1>3, <1>4, <1>6
<1>7. CASE m # 0
  <2>1. 0 < n /\ a <= v * n
    BY <1>2, <1>5, <1>7, SMT
  <2>2. PICK q \in Nat : q = a \div n /\ n * q <= a
    BY <2>1, SMT
  <2>3. n * q <= n * v
    BY <2>1, <2>2, SMT
  <2>4. q <= v
    BY <2>1, <2>3, SMT
  <2>. QED  BY <1>3, <1>4, <1>5, <1>7, <2>2, <2>4
<1>. QED  BY <1>6, <1>7

\* Slots that do not cover a tick do not matter to it.
LEMMA ShareOfPart ==
  ASSUME NEW hist, NEW part, part \subseteq hist, NEW c, NEW t \in Int,
         \A h \in hist : h \notin part => ~(h.start <= t /\ t < h.end)
  PROVE  TickShare(part, c, t) = TickShare(hist, c, t)
<1>1. {h \in part : h.start <= t /\ t < h.end} = {h \in hist : h.start <= t /\ t < h.end}
  OBVIOUS
<1>2. {h \in SlotsOf(part, c) : h.start <= t /\ t < h.end}
        = {h \in SlotsOf(hist, c) : h.start <= t /\ t < h.end}
  BY DEF SlotsOf
<1>3. /\ Covering(part, t) = Covering(hist, t)
      /\ Covering(SlotsOf(part, c), t) = Covering(SlotsOf(hist, c), t)
  BY <1>1, <1>2, Zenon DEF Covering
<1>. QED  BY <1>3 DEF TickShare

LEMMA NoSlotNoShare ==
  ASSUME NEW hist, NEW c, NEW t, \A h \in SlotsOf(hist, c) : ~(h.start <= t /\ t < h.end)
  PROVE  TickShare(hist, c, t) = 0
<1>1. {h \in SlotsOf(hist, c) : h.start <= t /\ t < h.end} = {}
  OBVIOUS
<1>2. Covering(SlotsOf(hist, c), t) = 0
  BY <1>1, FS_EmptySet DEF Covering
<1>. QED  BY <1>2 DEF TickShare

-----------------------------------------------------------------------------
(* Usage in a stretch of time.                                             *)

UsageIn(hist, c, a, b) == SumFunction([t \in a .. b - 1 |-> TickShare(hist, c, t)])

LEMMA UsageInSum ==
  ASSUME NEW hist, IsFiniteSet(hist), NEW c, NEW a \in Int, NEW b \in Int, NEW f,
         \A t \in a .. b - 1 : f[t] = TickShare(hist, c, t)
  PROVE  /\ UsageIn(hist, c, a, b) = SumFunctionOnSet(f, a .. b - 1)
         /\ UsageIn(hist, c, a, b) \in Int
<1>1. PICK g : g = [t \in a .. b - 1 |-> TickShare(hist, c, t)]
  OBVIOUS
<1>2. UsageIn(hist, c, a, b) = SumFunctionOnSet(g, a .. b - 1)
  BY <1>1 DEF UsageIn, SumFunction
<1>3. IsFiniteSet(a .. b - 1)
  BY FS_Interval
<1>4. \A t \in a .. b - 1 : g[t] = f[t] /\ g[t] \in Int
  <2>1. \A t \in a .. b - 1 : t \in Int
    OBVIOUS
  <2>. QED  BY <1>1, <2>1, TickShareType
<1>5. SumFunctionOnSet(g, a .. b - 1) = SumFunctionOnSet(f, a .. b - 1)
  BY <1>3, <1>4, SumSame
<1>6. SumFunctionOnSet(g, a .. b - 1) \in Int
  BY <1>3, <1>4, SumType
<1>. QED  BY <1>2, <1>5, <1>6

LEMMA UsageInType ==
  ASSUME NEW hist, IsFiniteSet(hist), NEW c, NEW a \in Int, NEW b \in Int
  PROVE  UsageIn(hist, c, a, b) \in Int
<1>1. PICK f : f = [t \in a .. b - 1 |-> TickShare(hist, c, t)]
  OBVIOUS
<1>. QED  BY <1>1, UsageInSum

LEMMA NoSlotNoUsage ==
  ASSUME NEW hist, IsFiniteSet(hist), NEW c, SlotsOf(hist, c) = {}, NEW a \in Int, NEW b \in Int
  PROVE  UsageIn(hist, c, a, b) = 0
<1>1. PICK f : f = [t \in a .. b - 1 |-> TickShare(hist, c, t)]
  OBVIOUS
<1>2. UsageIn(hist, c, a, b) = SumFunctionOnSet(f, a .. b - 1)
  <2>1. \A t \in a .. b - 1 : f[t] = TickShare(hist, c, t)
    BY <1>1
  <2>. QED  BY <2>1, UsageInSum
<1>3. IsFiniteSet(a .. b - 1)
  BY FS_Interval
<1>4. \A t \in a .. b - 1 : f[t] = 0
  BY <1>1, NoSlotNoShare
<1>. QED  BY <1>2, <1>3, <1>4, SumZero

\* A later start of the window and smaller shares: a smaller usage.
LEMMA UsageMonotone ==
  ASSUME NEW old, IsFiniteSet(old), NEW new, IsFiniteSet(new), NEW c,
         NEW a \in Int, NEW z \in Int, a <= z, NEW b \in Int,
         \A t \in z .. b - 1 : TickShare(new, c, t) <= TickShare(old, c, t)
  PROVE  UsageIn(new, c, z, b) <= UsageIn(old, c, a, b)
<1>1. PICK f : f = [t \in Int |-> TickShare(old, c, t)]
  OBVIOUS
<1>2. PICK g : g = [t \in Int |-> TickShare(new, c, t)]
  OBVIOUS
<1>3. \A t \in Int : /\ f[t] = TickShare(old, c, t) /\ f[t] \in Nat
                     /\ g[t] = TickShare(new, c, t) /\ g[t] \in Nat
  BY <1>1, <1>2, TickShareType
<1>4. (\A t \in a .. b - 1 : t \in Int) /\ \A t \in z .. b - 1 : t \in Int /\ t \in a .. b - 1
  OBVIOUS
<1>5. UsageIn(old, c, a, b) = SumFunctionOnSet(f, a .. b - 1)
  BY <1>3, <1>4, UsageInSum
<1>6. UsageIn(new, c, z, b) = SumFunctionOnSet(g, z .. b - 1)
  BY <1>3, <1>4, UsageInSum
<1>7. IsFiniteSet(a .. b - 1) /\ IsFiniteSet(z .. b - 1) /\ z .. b - 1 \in SUBSET (a .. b - 1)
  BY <1>4, FS_Interval
<1>8. SumFunctionOnSet(g, z .. b - 1) <= SumFunctionOnSet(f, z .. b - 1)
  <2>1. \A t \in z .. b - 1 : g[t] \in Int /\ f[t] \in Int /\ g[t] <= f[t]
    BY <1>3, <1>4
  <2>. QED  BY <1>7, <2>1, SumMonotone
<1>9. SumFunctionOnSet(f, z .. b - 1) <= SumFunctionOnSet(f, a .. b - 1)
  BY <1>3, <1>4, <1>7, SumPart
<1>10. /\ SumFunctionOnSet(g, z .. b - 1) \in Int /\ SumFunctionOnSet(f, z .. b - 1) \in Int
       /\ SumFunctionOnSet(f, a .. b - 1) \in Int
  <2>1. /\ \A t \in z .. b - 1 : g[t] \in Int /\ f[t] \in Int
        /\ \A t \in a .. b - 1 : f[t] \in Int
    BY <1>3, <1>4
  <2>. QED  BY <1>7, <2>1, SumType
<1>. QED  BY <1>5, <1>6, <1>8, <1>9, <1>10

\* The same when every time is counted one tick earlier.
LEMMA UsageShifted ==
  ASSUME NEW old, IsFiniteSet(old), NEW new, IsFiniteSet(new), NEW c,
         NEW a \in Int, NEW b \in Int,
         \A t \in a .. b - 2 : TickShare(new, c, t) <= TickShare(old, c, t + 1)
  PROVE  UsageIn(new, c, a, b - 1) <= UsageIn(old, c, a, b)
<1>1. PICK f : f = [t \in Int |-> TickShare(old, c, t + 1)]
  OBVIOUS
<1>2. PICK g : g = [t \in Int |-> TickShare(new, c, t)]
  OBVIOUS
<1>3. PICK h : h = [t \in Int |-> TickShare(old, c, t)]
  OBVIOUS
<1>4. \A t \in Int : /\ f[t] = TickShare(old, c, t + 1) /\ f[t] = h[t + 1]
                     /\ g[t] = TickShare(new, c, t) /\ h[t] = TickShare(old, c, t)
                     /\ f[t] \in Nat /\ g[t] \in Nat /\ h[t] \in Nat
  <2>1. \A t \in Int : t + 1 \in Int
    OBVIOUS
  <2>. QED  BY <1>1, <1>2, <1>3, <2>1, TickShareType
<1>5. /\ b - 1 \in Int /\ b - 2 \in Int /\ (b - 1) - 1 = b - 2 /\ (b - 2) + 1 = b - 1 /\ a + 1 \in Int
      /\ (\A t \in a .. b - 2 : t \in Int) /\ (\A t \in a .. b - 1 : t \in Int)
  OBVIOUS
<1>6. UsageIn(new, c, a, b - 1) = SumFunctionOnSet(g, a .. b - 2)
  <2>1. \A t \in a .. (b - 1) - 1 : g[t] = TickShare(new, c, t)
    BY <1>4, <1>5
  <2>2. UsageIn(new, c, a, b - 1) = SumFunctionOnSet(g, a .. (b - 1) - 1)
    BY <1>5, <2>1, UsageInSum
  <2>. QED  BY <1>5, <2>2
<1>7. UsageIn(old, c, a, b) = SumFunctionOnSet(h, a .. b - 1)
  BY <1>4, <1>5, UsageInSum
<1>8. SumFunctionOnSet(f, a .. b - 2) = SumFunctionOnSet(h, a + 1 .. b - 1)
  <2>1. \A t \in a .. b - 2 : f[t] \in Int /\ f[t] = h[t + 1]
    BY <1>4, <1>5
  <2>2. SumFunctionOnSet(f, a .. b - 2) = SumFunctionOnSet(h, a + 1 .. (b - 2) + 1)
    BY <1>5, <2>1, SumShift
  <2>. QED  BY <1>5, <2>2
<1>9. IsFiniteSet(a .. b - 1) /\ IsFiniteSet(a .. b - 2) /\ a + 1 .. b - 1 \in SUBSET (a .. b - 1)
  BY <1>5, FS_Interval
<1>10. SumFunctionOnSet(h, a + 1 .. b - 1) <= SumFunctionOnSet(h, a .. b - 1)
  <2>1. \A t \in a .. b - 1 : h[t] \in Nat
    BY <1>4, <1>5
  <2>. QED  BY <1>9, <2>1, SumPart
<1>11. SumFunctionOnSet(g, a .. b - 2) <= SumFunctionOnSet(f, a .. b - 2)
  <2>1. \A t \in a .. b - 2 : g[t] \in Int /\ f[t] \in Int /\ g[t] <= f[t]
    BY <1>4, <1>5
  <2>. QED  BY <1>9, <2>1, SumMonotone
<1>12. /\ SumFunctionOnSet(g, a .. b - 2) \in Int /\ SumFunctionOnSet(f, a .. b - 2) \in Int
       /\ SumFunctionOnSet(h, a .. b - 1) \in Int
  <2>1. /\ \A t \in a .. b - 2 : g[t] \in Int /\ f[t] \in Int
        /\ \A t \in a .. b - 1 : h[t] \in Int
    BY <1>4, <1>5
  <2>. QED  BY <1>9, <2>1, SumType
<1>. QED  BY <1>6, <1>7, <1>8, <1>10, <1>11, <1>12

\* Slots outside of a stretch do not count in it.
LEMMA UsageOfPart ==
  ASSUME NEW hist, NEW part, part \subseteq hist, NEW c, NEW a \in Int, NEW b \in Int,
         \A h \in hist : h \notin part => /\ h.start \in Int /\ h.end \in Int
                                          /\ h.end <= a \/ b <= h.start
  PROVE  UsageIn(part, c, a, b) = UsageIn(hist, c, a, b)
<1>1. ASSUME NEW t \in a .. b - 1 PROVE TickShare(part, c, t) = TickShare(hist, c, t)
  <2>1. t \in Int /\ a <= t /\ t < b
    OBVIOUS
  <2>2. \A h \in hist : h \notin part => ~(h.start <= t /\ t < h.end)
    BY <2>1
  <2>. QED  BY <2>1, <2>2, ShareOfPart
<1>2. [t \in a .. b - 1 |-> TickShare(part, c, t)] = [t \in a .. b - 1 |-> TickShare(hist, c, t)]
  BY <1>1
<1>. QED  BY <1>2 DEF UsageIn

\* One slot adds at most its length.
LEMMA UsageOfSlot ==
  ASSUME NEW hist, IsFiniteSet(hist), NEW c, NEW s \in Int, NEW e \in Int, s <= e,
         NEW b \in Int, e <= b,
         \A h \in SlotsOf(hist, c) : h.start \in Int /\ h.end \in Int /\ h.end <= e
  PROVE  UsageIn(hist, c, s, b) <= (e - s) * UNIT
<1>1. PICK f : f = [t \in Int |-> TickShare(hist, c, t)]
  OBVIOUS
<1>2. \A t \in Int : f[t] = TickShare(hist, c, t) /\ f[t] \in Int /\ f[t] <= UNIT
  <2>1. \A t \in Int : TickShare(hist, c, t) \in Nat /\ TickShare(hist, c, t) <= UNIT
    BY TickShareType, ShareBound
  <2>. QED  BY <1>1, <2>1
<1>3. PICK v \in Int : v = UNIT
  BY FracUnitAssumption DEF UNIT, SHARE
<1>4. PICK g : g = [t \in Int |-> v]
  OBVIOUS
<1>5. PICK S : S = s .. e - 1
  OBVIOUS
<1>6. PICK R : R = e .. b - 1
  OBVIOUS
<1>7. IsFiniteSet(S) /\ IsFiniteSet(R)
  BY <1>5, <1>6, FS_Interval
<1>8. S \cap R = {} /\ S \cup R = s .. b - 1 /\ (\A t \in S \cup R : t \in Int)
  BY <1>5, <1>6
<1>9. UsageIn(hist, c, s, b) = SumFunctionOnSet(f, s .. b - 1)
  <2>1. \A t \in s .. b - 1 : f[t] = TickShare(hist, c, t)
    BY <1>2
  <2>. QED  BY <2>1, UsageInSum
<1>10. SumFunctionOnSet(f, S \cup R) = SumFunctionOnSet(f, S) + SumFunctionOnSet(f, R)
  <2>1. \A t \in S \cup R : f[t] \in Int
    BY <1>2, <1>8
  <2>. QED  BY <1>7, <1>8, <2>1, SumUnion
<1>11. SumFunctionOnSet(f, R) = 0
  <2>1. ASSUME NEW t \in R PROVE f[t] = 0
    <3>1. t \in Int /\ e <= t
      BY <1>6
    <3>2. \A h \in SlotsOf(hist, c) : ~(h.start <= t /\ t < h.end)
      BY <3>1
    <3>. QED  BY <1>2, <3>1, <3>2, NoSlotNoShare
  <2>. QED  BY <1>7, <2>1, SumZero
<1>12. SumFunctionOnSet(f, S) <= SumFunctionOnSet(g, S)
  <2>1. \A t \in S : f[t] \in Int /\ g[t] \in Int /\ f[t] <= g[t]
    BY <1>2, <1>3, <1>4, <1>8
  <2>. QED  BY <1>7, <2>1, SumMonotone
<1>13. SumFunctionOnSet(g, S) = (e - s) * v
  <2>1. /\ \A t \in s .. e - 1 : g[t] \in Int
        /\ \A t \in s .. e - 1 : g[t] = v
    BY <1>4
  <2>2. SumFunctionOnSet(g, s .. e - 1) = SumFunctionOnSet(g, s .. s - 1) + (e - s) * v
    BY <2>1, ConstantStretch
  <2>3. SumFunctionOnSet(g, s .. s - 1) = 0
    <3>1. s .. s - 1 = {}
      OBVIOUS
    <3>. QED  BY <3>1, SumEmpty
  <2>4. (e - s) * v \in Int
    OBVIOUS
  <2>. QED  BY <1>5, <2>2, <2>3, <2>4
<1>14. SumFunctionOnSet(f, S) \in Int
  <2>1. \A t \in S : f[t] \in Int
    BY <1>2, <1>8
  <2>. QED  BY <1>7, <2>1, SumType
<1>15. UsageIn(hist, c, s, b) = SumFunctionOnSet(f, S)
  <2>1. UsageIn(hist, c, s, b) = SumFunctionOnSet(f, S) + SumFunctionOnSet(f, R)
    BY <1>8, <1>9, <1>10
  <2>. QED  BY <1>11, <1>14, <2>1
<1>. QED  BY <1>3, <1>12, <1>13, <1>15

\* Usage in two stretches that cover a third.
LEMMA UsageSplit ==
  ASSUME NEW hist, IsFiniteSet(hist), NEW c, NEW a \in Int, NEW m \in Int, NEW b \in Int,
         NEW d \in Int, d <= b
  PROVE  UsageIn(hist, c, a, d) <= UsageIn(hist, c, a, m) + UsageIn(hist, c, m, b)
<1>1. PICK f : f = [t \in Int |-> TickShare(hist, c, t)]
  OBVIOUS
<1>2. \A t \in Int : f[t] = TickShare(hist, c, t) /\ f[t] \in Nat
  BY <1>1, TickShareType
<1>3. PICK S : S = a .. m - 1
  OBVIOUS
<1>4. PICK R : R = m .. b - 1
  OBVIOUS
<1>5. PICK T : T = a .. d - 1
  OBVIOUS
<1>6. IsFiniteSet(S) /\ IsFiniteSet(R) /\ IsFiniteSet(S \cup R)
  <2>1. IsFiniteSet(S) /\ IsFiniteSet(R)
    BY <1>3, <1>4, FS_Interval
  <2>. QED  BY <2>1, FS_Union
<1>7. S \cap R = {} /\ (\A t \in S \cup R : t \in Int)
  BY <1>3, <1>4
<1>8. T \in SUBSET (S \cup R)
  BY <1>3, <1>4, <1>5
<1>9. /\ UsageIn(hist, c, a, m) = SumFunctionOnSet(f, S) /\ UsageIn(hist, c, a, m) \in Int
      /\ UsageIn(hist, c, m, b) = SumFunctionOnSet(f, R) /\ UsageIn(hist, c, m, b) \in Int
      /\ UsageIn(hist, c, a, d) = SumFunctionOnSet(f, T)
  <2>1. /\ \A t \in a .. m - 1 : f[t] = TickShare(hist, c, t)
        /\ \A t \in m .. b - 1 : f[t] = TickShare(hist, c, t)
    BY <1>2
  <2>2. UsageIn(hist, c, a, m) = SumFunctionOnSet(f, a .. m - 1) /\ UsageIn(hist, c, a, m) \in Int
    BY <2>1, UsageInSum
  <2>3. UsageIn(hist, c, m, b) = SumFunctionOnSet(f, m .. b - 1) /\ UsageIn(hist, c, m, b) \in Int
    BY <2>1, UsageInSum
  <2>4. UsageIn(hist, c, a, d) = SumFunctionOnSet(f, a .. d - 1) /\ UsageIn(hist, c, a, d) \in Int
    <3>1. \A t \in a .. d - 1 : f[t] = TickShare(hist, c, t)
      BY <1>2
    <3>. QED  BY <3>1, UsageInSum
  <2>. QED  BY <1>3, <1>4, <1>5, <2>2, <2>3, <2>4
<1>10. \A t \in S \cup R : f[t] \in Nat /\ f[t] \in Int
  BY <1>2, <1>7
<1>11. SumFunctionOnSet(f, S \cup R) = SumFunctionOnSet(f, S) + SumFunctionOnSet(f, R)
  BY <1>6, <1>7, <1>10, SumUnion
<1>12. SumFunctionOnSet(f, T) <= SumFunctionOnSet(f, S \cup R)
  BY <1>6, <1>8, <1>10, SumPart
<1>. QED  BY <1>9, <1>11, <1>12

-----------------------------------------------------------------------------
(***************************************************************************)
(* The limit.  For a client that is not hasty, and whose usage the sweep   *)
(* did not understate at its latest grant: its other slots had ended when  *)
(* the latest began, and up to then it was below the limit.                *)
(***************************************************************************)
Counted(h) == IsLatestSlot(history_list, h) /\ h.name \notin hasty

SlotsInTurn ==
    \A h \in history_list : Counted(h) =>
        \A g \in history_list : g.name = h.name /\ g.start < h.start => g.end <= h.start

LimitOf(c) == granted[c] * window_size(now) * SHARE

WithinLimit ==
    \A h \in history_list : Counted(h) /\ granted[h.name] # NONE =>
        UsageIn(history_list, h.name, window_start(now), h.start) < LimitOf(h.name)

LimitInv == ServerInv /\ SlotShape /\ SlotsInTurn /\ WithinLimit

\* What the proofs below need of the types.
LEMMA LimitTypes ==
  ASSUME LimitInv
  PROVE  /\ now \in Int /\ now \in Nat /\ now > 0 /\ window_start(now) \in Int
         /\ IsFiniteSet(history_list) /\ ShapeInv
         /\ window_history \in SUBSET history_list /\ IsFiniteSet(window_history)
         /\ \A h \in history_list : /\ h \in Slot /\ h.start \in Int /\ h.end \in Int
                                    /\ h.name \in Clients /\ h.start <= h.end /\ h.start <= now
         /\ \A c \in Clients : granted[c] # NONE => granted[c] \in Nat /\ LimitOf(c) \in Nat
<1>1. ShapeInv
  BY DEF LimitInv, ServerInv, IndToken, ShapeInv
<1>2. /\ now \in Nat /\ now > 0 /\ window_start(now) \in Int
      /\ IsFiniteSet(history_list)
      /\ \A h \in history_list : /\ h \in Slot /\ h.start \in Int /\ h.end \in Int
                                 /\ h.name \in Clients /\ h.start <= h.end /\ h.start <= now
  BY <1>1, WindowAssumption DEF ShapeInv, SlotShape, IndType, TypeOK, Slot, window_start
<1>3. window_history \in SUBSET history_list /\ IsFiniteSet(window_history)
  BY <1>1, WindowShape
<1>4. ASSUME NEW c \in Clients, granted[c] # NONE PROVE granted[c] \in Nat /\ LimitOf(c) \in Nat
  <2>1. PICK f \in Nat : f = granted[c]
    BY <1>4 DEF LimitInv, ServerInv, IndToken, HistoryTyped
  <2>2. PICK w \in Nat : w = window_size(now)
    BY <1>2, WindowAssumption DEF window_size, window_start
  <2>3. PICK p \in Nat : p = f * w
    OBVIOUS
  <2>4. LimitOf(c) = p * 60
    BY <2>1, <2>2, <2>3 DEF LimitOf, SHARE
  <2>. QED  BY <2>1, <2>3, <2>4
<1>. QED  BY <1>1, <1>2, <1>3, <1>4

LEMMA LatestExists ==
  ASSUME LimitInv, NEW g \in history_list
  PROVE  \E h \in history_list : h.name = g.name /\ IsLatestSlot(history_list, h) /\ g.start <= h.start
<1>1. PICK S : S = SlotsOf(history_list, g.name)
  OBVIOUS
<1>2. /\ S \in SUBSET history_list /\ g \in S /\ \A f \in S : f.name = g.name
      /\ IsFiniteSet(history_list) /\ \A f \in history_list : f.start \in Int
  BY <1>1, LimitTypes DEF SlotsOf
<1>3. IsFiniteSet(S)
  BY <1>2, FS_Subset
<1>4. PICK f : f = [e \in S |-> e.start]
  OBVIOUS
<1>5. PICK X : X = {f[e] : e \in S}
  OBVIOUS
<1>6. IsFiniteSet(X) /\ X # {} /\ X \subseteq Int
  <2>1. IsFiniteSet(X)
    BY <1>3, <1>5, FiniteImage
  <2>. QED  BY <1>2, <1>4, <1>5, <2>1
<1>7. PICK x \in X : \A y \in X : x >= y
  BY <1>6, LargestExists
<1>8. PICK h \in S : f[h] = x
  BY <1>5
<1>9. \A e \in S : e.start <= h.start
  <2>. SUFFICES ASSUME NEW e \in S PROVE e.start <= h.start
    OBVIOUS
  <2>1. f[e] \in X /\ f[e] = e.start /\ f[h] = h.start
    BY <1>4, <1>5
  <2>2. e.start \in Int /\ h.start \in Int
    BY <1>2
  <2>. QED  BY <1>7, <1>8, <2>1, <2>2
<1>10. h.name = g.name
  BY <1>2
<1>. QED  BY <1>1, <1>2, <1>9, <1>10 DEF IsLatestSlot

\* The slots of such a client leave the window in order: the latest one that is
\* left is the latest one.
LEMMA LatestStays ==
  ASSUME LimitInv, NEW h \in window_history, IsLatestSlot(window_history, h), h.name \notin hasty
  PROVE  h \in history_list /\ IsLatestSlot(history_list, h)
<1>1. h \in history_list
  BY DEF window_history, InWindow
<1>2. /\ window_start(now) \in Int
      /\ \A g \in history_list : g.start \in Int /\ g.end \in Int /\ g.start <= g.end
  BY LimitTypes
<1>3. PICK k \in history_list :
         k.name = h.name /\ IsLatestSlot(history_list, k) /\ h.start <= k.start
  BY <1>1, LatestExists
<1>4. k.start <= h.start
  <2>1. CASE k \in window_history
    BY <1>3, <2>1 DEF IsLatestSlot, SlotsOf
  <2>2. CASE k \notin window_history /\ h.start < k.start
    <3>1. k.end < window_start(now) /\ ~(h.end < window_start(now))
      BY <2>2 DEF window_history, InWindow, BeyondWindow
    <3>2. h.end <= k.start
      BY <1>1, <1>3, <2>2 DEF LimitInv, SlotsInTurn, Counted
    <3>. QED  BY <1>1, <1>2, <3>1, <3>2
  <2>3. CASE ~(h.start < k.start)
    BY <1>1, <1>2, <2>3
  <2>. QED  BY <2>1, <2>2, <2>3
<1>5. ASSUME NEW g \in history_list, g.name = h.name PROVE g.start <= h.start
  <2>1. g.start <= k.start
    BY <1>3, <1>5 DEF IsLatestSlot, SlotsOf
  <2>. QED  BY <1>1, <1>2, <1>4, <2>1
<1>. QED  BY <1>1, <1>5 DEF IsLatestSlot, SlotsOf

\* Pruning changes no usage inside of the window.
LEMMA PrunedUsage ==
  ASSUME LimitInv, NEW c, NEW b \in Int
  PROVE  UsageIn(window_history, c, window_start(now), b)
           = UsageIn(history_list, c, window_start(now), b)
<1>1. /\ window_start(now) \in Int
      /\ \A h \in history_list : h.start \in Int /\ h.end \in Int
  BY LimitTypes
<1>2. window_history \subseteq history_list
  BY DEF window_history, InWindow
<1>3. ASSUME NEW h \in history_list, h \notin window_history
      PROVE  h.start \in Int /\ h.end \in Int /\ (h.end <= window_start(now) \/ b <= h.start)
  <2>1. h.end < window_start(now)
    BY <1>3 DEF window_history, InWindow, BeyondWindow
  <2>. QED  BY <1>1, <2>1
<1>. QED  BY <1>1, <1>2, <1>3, UsageOfPart

\* A step that leaves slots and clock alone.
LEMMA SlotsStayWithin ==
  ASSUME LimitInv, UNCHANGED <<now, history_list, hasty, granted>>
  PROVE  SlotsInTurn' /\ WithinLimit'
  BY DEF LimitInv, SlotsInTurn, WithinLimit, Counted, LimitOf

\* The sweep has pruned the history before the daemon sleeps.
LEMMA SleepWithin ==
  ASSUME LimitInv, history_list' = window_history, UNCHANGED <<now, hasty, granted>>
  PROVE  SlotsInTurn' /\ WithinLimit'
<1>1. ASSUME NEW h \in window_history, IsLatestSlot(window_history, h), h.name \notin hasty
      PROVE  /\ \A g \in window_history : g.name = h.name /\ g.start < h.start => g.end <= h.start
             /\ granted[h.name] # NONE =>
                  UsageIn(window_history, h.name, window_start(now), h.start) < LimitOf(h.name)
  <2>1. h \in history_list /\ IsLatestSlot(history_list, h) /\ h.start \in Int
    BY <1>1, LatestStays, LimitTypes
  <2>2. \A g \in window_history : g \in history_list
    BY DEF window_history, InWindow
  <2>3. \A g \in history_list : g.name = h.name /\ g.start < h.start => g.end <= h.start
    BY <1>1, <2>1 DEF LimitInv, SlotsInTurn, Counted
  <2>4. granted[h.name] # NONE =>
          UsageIn(history_list, h.name, window_start(now), h.start) < LimitOf(h.name)
    BY <1>1, <2>1 DEF LimitInv, WithinLimit, Counted
  <2>. QED  BY <2>1, <2>2, <2>3, <2>4, PrunedUsage
<1>2. SlotsInTurn'
  BY <1>1 DEF SlotsInTurn, Counted
<1>3. WithinLimit'
  BY <1>1 DEF WithinLimit, Counted, LimitOf
<1>. QED  BY <1>2, <1>3

\* The reference usage is the usage up to the end of the last slot.
LEMMA ReferenceIsUsageIn ==
  ASSUME LimitInv, NEW c
  PROVE  \E last \in Int :
           /\ ReferenceUsage(window_history, c, now)
                = UsageIn(window_history, c, window_start(now), last)
           /\ \A h \in window_history : h.end <= last
           /\ last = window_start(now) \/ \E h \in window_history : last = h.end
<1>1. PICK E : E = {h.end : h \in window_history} \cup {window_start(now)}
  OBVIOUS
<1>2. window_start(now) \in Int /\ window_history \in SUBSET history_list
  BY LimitTypes
<1>3. IsFiniteSet(E)
  <2>1. IsFiniteSet(window_history)
    BY LimitTypes
  <2>2. PICK f : f = [h \in window_history |-> h.end]
    OBVIOUS
  <2>3. {f[h] : h \in window_history} = {h.end : h \in window_history}
    BY <2>2
  <2>4. IsFiniteSet({f[h] : h \in window_history})
    BY <2>1, FiniteImage
  <2>. QED  BY <1>1, <2>3, <2>4, FS_AddElement
<1>4. E \subseteq Int /\ E # {}
  BY <1>1, <1>2, LimitTypes
<1>5. Max(E) \in E /\ \A e \in E : Max(E) >= e
  BY <1>3, <1>4, MaxProperties
<1>6. PICK last \in Int : last = Max(E) /\ last \in E /\ \A e \in E : e <= last
  BY <1>4, <1>5
<1>7. ReferenceUsage(window_history, c, now) = UsageIn(window_history, c, window_start(now), last)
  BY <1>1, <1>6 DEF ReferenceUsage, UsageIn
<1>. QED  BY <1>1, <1>6, <1>7

\* select_candidate() returns only a client that is below its limit, or, on the
\* quick exit, one that has no slot in the window.
LEMMA SelectedBelowLimit ==
  ASSUME LimitInv, NEW i \in DOMAIN candidates, NEW n \in Clients, n = candidates[i].name,
         SlotsOf(window_history, n) = {} \/ i \in valid_candidates, FairlyMeasured(n)
  PROVE  UsageIn(window_history, n, window_start(now), now)
           < client_info_map[n].MAX_FRAC * window_size(now) * SHARE
<1>1. /\ now \in Int /\ now \in Nat /\ now > 0 /\ window_start(now) \in Int
      /\ window_history \in SUBSET history_list /\ IsFiniteSet(window_history) /\ ShapeInv
      /\ \A h \in window_history : h.start \in Int /\ h.end \in Int /\ h.start <= h.end
  BY LimitTypes
<1>2. PICK f \in Nat : f = client_info_map[n].MAX_FRAC /\ f # 0
  <2>1. known(n) /\ client_info_map[n] \in ClientInfoType
    BY DEF LimitInv, ServerInv, IndToken, IndType, CandidatesKnown, known, TypeOK
  <2>2. PICK f \in Nat : f = client_info_map[n].MAX_FRAC
    BY <2>1 DEF ClientInfoType
  <2>3. MaxQuota(f) > 0
    BY <2>1, <2>2 DEF LimitInv, ServerInv, ConfigKept
  <2>4. MaxQuota(0) = 0
    BY WindowAssumption, FracUnitAssumption, SMT DEF MaxQuota
  <2>. QED  BY <2>2, <2>3, <2>4
<1>3. PICK l \in Nat : l = client_info_map[n].MAX_FRAC * window_size(now) * SHARE /\ l > 0
  <2>1. PICK w \in Nat : w = window_size(now) /\ w > 0
    BY <1>1, WindowAssumption DEF window_size, window_start
  <2>2. PICK p \in Nat : p = f * w
    OBVIOUS
  <2>3. p > 0
    <3>1. f > 0
      BY <1>2
    <3>. QED  BY <2>1, <2>2, <3>1, SMT
  <2>4. client_info_map[n].MAX_FRAC * window_size(now) * SHARE = p * 60
    BY <1>2, <2>1, <2>2 DEF SHARE
  <2>. QED  BY <2>3, <2>4
<1>4. CASE SlotsOf(window_history, n) = {}
  <2>1. UsageIn(window_history, n, window_start(now), now) = 0
    BY <1>1, <1>4, NoSlotNoUsage
  <2>. QED  BY <1>3, <2>1
<1>5. CASE i \in valid_candidates
  <2>1. PICK last \in Int :
           /\ ReferenceUsage(window_history, n, now)
                = UsageIn(window_history, n, window_start(now), last)
           /\ \A h \in window_history : h.end <= last
           /\ last = window_start(now) \/ \E h \in window_history : last = h.end
    BY ReferenceIsUsageIn
  <2>2. PICK u \in Nat : u = usage(window_history, n, now)
    BY <1>1, UsageType
  <2>3. PICK r \in Int : r = UsageIn(window_history, n, window_start(now), last)
    BY <1>1, UsageInType
  <2>4. r <= u
    BY <2>1, <2>2, <2>3 DEF FairlyMeasured
  <2>5. u < l
    <3>1. Standing(i).remaining > 0
      BY <1>5 DEF valid_candidates
    <3>2. Standing(i).remaining = l - u
      BY <1>3, <2>2 DEF Standing, remaining
    <3>. QED  BY <3>1, <3>2
  <2>6. PICK k \in Int : last <= k /\ now <= k
    <3>1. last <= now \/ now <= last
      BY <1>1
    <3>. QED  BY <1>1, <3>1
  <2>7. UsageIn(window_history, n, last, k) <= (last - last) * UNIT
    <3>1. \A h \in SlotsOf(window_history, n) : h.start \in Int /\ h.end \in Int /\ h.end <= last
      BY <1>1, <2>1 DEF SlotsOf
    <3>2. last <= last
      OBVIOUS
    <3>. QED  BY <1>1, <2>6, <3>1, <3>2, UsageOfSlot
  <2>8. UsageIn(window_history, n, window_start(now), now)
          <= UsageIn(window_history, n, window_start(now), last)
               + UsageIn(window_history, n, last, k)
    BY <1>1, <2>6, UsageSplit
  <2>9. PICK v \in Int : v = UsageIn(window_history, n, last, k)
    BY <1>1, UsageInType
  <2>10. PICK w \in Int : w = UsageIn(window_history, n, window_start(now), now)
    BY <1>1, UsageInType
  <2>11. (last - last) * UNIT = 0
    BY FracUnitAssumption DEF UNIT, SHARE
  <2>12. w <= r + v /\ v <= 0
    BY <2>3, <2>7, <2>8, <2>9, <2>10, <2>11
  <2>. QED  BY <1>3, <2>4, <2>5, <2>10, <2>12
<1>. QED  BY <1>4, <1>5

\* A grant to a client that is below its limit.
LEMMA GrantWithin ==
  ASSUME LimitInv, daemon_pc = "top", NEW i \in DOMAIN candidates, Grant(i),
         Remember(candidates[i].name),
         SlotsOf(window_history, candidates[i].name) = {} \/ i \in valid_candidates
  PROVE  SlotsInTurn' /\ WithinLimit'
<1>1. PICK n \in Clients : n = candidates[i].name /\ client_info_map[n] \in ClientInfoType
  BY GrantAdds DEF LimitInv, ServerInv, IndToken
<1>2. PICK q \in Nat : /\ history_list' = window_history \cup {Record(n, q)}
                       /\ now' = now /\ \A h \in history_list : h.start < now
  BY <1>1, GrantAdds DEF LimitInv, ServerInv, IndToken
<1>3. /\ now \in Int /\ window_start(now) \in Int
      /\ window_history \in SUBSET history_list
      /\ \A h \in history_list : h.start \in Int /\ h.end \in Int /\ h.name \in Clients
  BY LimitTypes
<1>4. PICK new : new = Record(n, q)
  OBVIOUS
<1>5. new.name = n /\ new.start = now /\ new.end = now + q
  BY <1>4 DEF Record
<1>6. PICK H : H = window_history \cup {new}
  OBVIOUS
<1>7. history_list' = H
  BY <1>2, <1>4, <1>6
<1>8. /\ \A c \in Clients : c # n => (c \in hasty' <=> c \in hasty) /\ granted'[c] = granted[c]
      /\ granted'[n] # NONE => granted'[n] = client_info_map[n].MAX_FRAC /\ FairlyMeasured(n)
      /\ n \notin hasty' => ~HasLiveSlot(n) \/ n \notin hasty
  <2>1. PICK v : v = IF FairlyMeasured(n) THEN client_info_map[n].MAX_FRAC ELSE NONE
    OBVIOUS
  <2>2. granted' = [granted EXCEPT ![n] = v] /\ granted \in [Clients -> Nat \cup {NONE}]
    BY <1>1, <2>1 DEF Remember, LimitInv, ServerInv, IndToken, HistoryTyped
  <2>3. \A c \in Clients : granted'[c] = IF c = n THEN v ELSE granted[c]
    BY <2>2
  <2>4. \A c \in Clients : c # n => (c \in hasty' <=> c \in hasty)
    BY <1>1 DEF Remember
  <2>5. n \notin hasty' => ~HasLiveSlot(n) \/ n \notin hasty
    BY <1>1 DEF Remember
  <2>. QED  BY <2>1, <2>3, <2>4, <2>5
<1>9. ASSUME NEW c, NEW b \in Int, b <= now
      PROVE  UsageIn(H, c, window_start(now), b) = UsageIn(window_history, c, window_start(now), b)
  <2>1. \A h \in H : h \notin window_history =>
          h.start \in Int /\ h.end \in Int /\ (h.end <= window_start(now) \/ b <= h.start)
    BY <1>3, <1>5, <1>6, <1>9
  <2>2. window_history \subseteq H
    BY <1>6
  <2>. QED  BY <1>3, <2>1, <2>2, UsageOfPart
<1>10. ASSUME NEW h \in H, IsLatestSlot(H, h), h.name \notin hasty'
       PROVE  /\ \A g \in H : g.name = h.name /\ g.start < h.start => g.end <= h.start
              /\ granted'[h.name] # NONE =>
                   UsageIn(H, h.name, window_start(now), h.start)
                     < granted'[h.name] * window_size(now) * SHARE
  <2>1. CASE h = new
    <3>1. ASSUME NEW g \in H, g.name = n, g.start < now PROVE g.end <= now
      <4>1. g \in history_list
        BY <1>3, <1>5, <1>6, <3>1
      <4>2. ~Live(g)
        <5>1. CASE ~HasLiveSlot(n)
          BY <3>1, <4>1, <5>1 DEF HasLiveSlot, SlotsOf
        <5>2. CASE n \notin hasty
          <6>1. ~Watched(g)
            BY <4>1 DEF LimitInv, ServerInv, IndToken, SlotDiscipline, WatchedSlot, ServingPcs
          <6>. QED  BY <3>1, <5>2, <6>1 DEF Watched
        <5>. QED  BY <1>5, <1>8, <1>10, <2>1, <5>1, <5>2
      <4>. QED  BY <1>3, <4>1, <4>2 DEF Live
    <3>2. ASSUME granted'[n] # NONE
          PROVE  UsageIn(H, n, window_start(now), now) < granted'[n] * window_size(now) * SHARE
      <4>1. UsageIn(H, n, window_start(now), now) = UsageIn(window_history, n, window_start(now), now)
        <5>1. now <= now
          BY <1>3
        <5>. QED  BY <1>3, <1>9, <5>1
      <4>2. UsageIn(window_history, n, window_start(now), now)
              < client_info_map[n].MAX_FRAC * window_size(now) * SHARE
        BY <1>1, <1>8, <3>2, SelectedBelowLimit
      <4>. QED  BY <1>8, <3>2, <4>1, <4>2
    <3>. QED  BY <1>5, <2>1, <3>1, <3>2
  <2>2. CASE h # new
    <3>1. h \in window_history /\ h \in history_list /\ h.name \in Clients
      BY <1>3, <1>6, <2>2
    <3>2. h.name # n
      <4>1. new \in H /\ h.start < new.start
        BY <1>2, <1>5, <1>6, <3>1
      <4>2. CASE h.name = n
        <5>1. new.start <= h.start
          BY <1>5, <1>10, <4>1, <4>2 DEF IsLatestSlot, SlotsOf
        <5>. QED  BY <1>3, <1>5, <3>1, <4>1, <5>1
      <4>. QED  BY <4>2
    <3>3. h.name \notin hasty /\ granted'[h.name] = granted[h.name]
      BY <1>8, <1>10, <3>1, <3>2
    <3>4. IsLatestSlot(window_history, h)
      BY <1>6, <1>10 DEF IsLatestSlot, SlotsOf
    <3>5. IsLatestSlot(history_list, h)
      BY <3>1, <3>3, <3>4, LatestStays
    <3>6. /\ \A g \in history_list : g.name = h.name /\ g.start < h.start => g.end <= h.start
          /\ granted[h.name] # NONE =>
               UsageIn(history_list, h.name, window_start(now), h.start) < LimitOf(h.name)
      BY <3>1, <3>3, <3>5 DEF LimitInv, SlotsInTurn, WithinLimit, Counted
    <3>7. ASSUME NEW g \in H, g.name = h.name PROVE g \in history_list
      BY <1>3, <1>5, <1>6, <3>2, <3>7
    <3>8. UsageIn(H, h.name, window_start(now), h.start)
            = UsageIn(history_list, h.name, window_start(now), h.start)
      <4>1. h.start \in Int /\ h.start <= now
        BY <1>2, <1>3, <3>1
      <4>2. UsageIn(H, h.name, window_start(now), h.start)
              = UsageIn(window_history, h.name, window_start(now), h.start)
        BY <1>9, <4>1
      <4>. QED  BY <4>1, <4>2, PrunedUsage
    <3>9. \A g \in H : g.name = h.name /\ g.start < h.start => g.end <= h.start
      BY <3>6, <3>7
    <3>10. granted'[h.name] # NONE =>
             UsageIn(H, h.name, window_start(now), h.start)
               < granted'[h.name] * window_size(now) * SHARE
      BY <3>3, <3>6, <3>8 DEF LimitOf
    <3>. QED  BY <3>9, <3>10
  <2>. QED  BY <2>1, <2>2
<1>11. SlotsInTurn'
  BY <1>7, <1>10 DEF SlotsInTurn, Counted
<1>12. WithinLimit'
  BY <1>2, <1>7, <1>10 DEF WithinLimit, Counted, LimitOf
<1>. QED  BY <1>11, <1>12

\* A client that asks again: its latest slot ends now, or grows by what it ran
\* over (update_return_time).  The others only lose by it.
LEMMA ReturnWithin ==
  ASSUME LimitInv, NEW d \in Clients, NEW o \in Nat, history_list' = update_return_time(d, o),
         UNCHANGED <<now, hasty, granted>>
  PROVE  SlotsInTurn' /\ WithinLimit'
<1>5. /\ now \in Int /\ window_start(now) \in Int /\ ShapeInv
      /\ \A h \in history_list : /\ h \in Slot /\ h.start \in Int /\ h.end \in Int
                                 /\ h.name \in Clients /\ h.start <= now
  BY LimitTypes
<1>. DEFINE new(g) == IF g.name = d /\ IsLatestSlot(history_list, g)
                      THEN ReturnTime(g, o) ELSE g
<1>6. PICK H : H = {new(g) : g \in history_list}
  OBVIOUS
<1>7. history_list' = H
  BY <1>6 DEF update_return_time
<1>8. ASSUME NEW g \in history_list
      PROVE  /\ new(g).name = g.name /\ new(g).start = g.start /\ new(g).end \in Int
             /\ new(g) = g \/ (IsLatestSlot(history_list, g) /\ g.name = d)
             /\ \A t \in Int : t < now /\ t < g.end => t < new(g).end
  BY <1>5, ReturnMoves
<1>. HIDE DEF new
<1>9. IsFiniteSet(history_list) /\ IsFiniteSet(H)
  <2>1. PICK f : f = [g \in history_list |-> new(g)]
    OBVIOUS
  <2>2. {f[g] : g \in history_list} = H
    BY <1>6, <2>1
  <2>3. IsFiniteSet(history_list) /\ IsFiniteSet({f[g] : g \in history_list})
    BY LimitTypes, FiniteImage
  <2>. QED  BY <2>2, <2>3
<1>10. ASSUME NEW h \in H, IsLatestSlot(H, h), h.name \notin hasty
       PROVE  /\ \A g \in H : g.name = h.name /\ g.start < h.start => g.end <= h.start
              /\ granted[h.name] # NONE =>
                   UsageIn(H, h.name, window_start(now), h.start) < LimitOf(h.name)
  <2>1. PICK g \in history_list : h = new(g)
    BY <1>6
  <2>2. h.name = g.name /\ h.start = g.start /\ g.name \in Clients
    BY <1>5, <1>8, <2>1
  <2>3. IsLatestSlot(history_list, g)
    <3>1. ASSUME NEW f \in history_list, f.name = g.name PROVE f.start <= g.start
      <4>1. new(f) \in H /\ new(f).name = h.name /\ new(f).start = f.start
        BY <1>6, <1>8, <2>2, <3>1
      <4>2. new(f).start <= h.start
        BY <1>10, <4>1 DEF IsLatestSlot, SlotsOf
      <4>. QED  BY <2>2, <4>1, <4>2
    <3>. QED  BY <3>1 DEF IsLatestSlot, SlotsOf
  <2>4. /\ \A f \in history_list : f.name = g.name /\ f.start < g.start => f.end <= g.start
        /\ granted[g.name] # NONE =>
             UsageIn(history_list, g.name, window_start(now), g.start) < LimitOf(g.name)
    BY <1>10, <2>2, <2>3 DEF LimitInv, SlotsInTurn, WithinLimit, Counted
  <2>5. ASSUME NEW f \in H, f.name = h.name, f.start < h.start PROVE f.end <= h.start
    <3>1. PICK k \in history_list : f = new(k)
      BY <1>6
    <3>2. k.name = g.name /\ k.start < g.start
      BY <1>8, <2>2, <2>5, <3>1
    <3>3. ~IsLatestSlot(history_list, k)
      BY <1>5, <3>2 DEF IsLatestSlot, SlotsOf
    <3>4. f = k
      BY <1>8, <3>1, <3>3
    <3>. QED  BY <2>2, <2>4, <3>2, <3>4
  <2>6. ASSUME NEW t \in window_start(now) .. g.start - 1
        PROVE  TickShare(H, g.name, t) <= TickShare(history_list, g.name, t)
    <3>1. t \in Int /\ t < g.start /\ t < now
      BY <1>5
    <3>2. PICK A : A = {f \in history_list : f.start <= t /\ t < f.end}
      OBVIOUS
    <3>3. PICK B : B = {f \in H : f.start <= t /\ t < f.end}
      OBVIOUS
    <3>4. PICK P : P = {f \in SlotsOf(history_list, g.name) : f.start <= t /\ t < f.end}
      OBVIOUS
    <3>5. PICK Q : Q = {f \in SlotsOf(H, g.name) : f.start <= t /\ t < f.end}
      OBVIOUS
    <3>6. A \in SUBSET history_list /\ B \in SUBSET H /\ P \in SUBSET history_list
      BY <3>2, <3>3, <3>4 DEF SlotsOf
    <3>7. IsFiniteSet(A) /\ IsFiniteSet(B) /\ IsFiniteSet(P)
      BY <1>9, <3>6, FS_Subset
    <3>8. Q \in SUBSET P
      <4>. SUFFICES ASSUME NEW f \in Q PROVE f \in P
        OBVIOUS
      <4>1. f \in H /\ f.name = g.name /\ f.start <= t /\ t < f.end
        BY <3>5 DEF SlotsOf
      <4>2. PICK k \in history_list : f = new(k)
        BY <1>6, <4>1
      <4>3. k.name = g.name /\ k.start <= t
        BY <1>8, <4>1, <4>2
      <4>4. ~IsLatestSlot(history_list, k)
        <5>1. k.start < g.start
          BY <1>5, <3>1, <4>3
        <5>. QED  BY <1>5, <4>3, <5>1 DEF IsLatestSlot, SlotsOf
      <4>5. f = k
        BY <1>8, <4>2, <4>4
      <4>. QED  BY <3>4, <4>1, <4>5 DEF SlotsOf
    <3>9. Cardinality(Q) <= Cardinality(P)
      BY <3>7, <3>8, FS_Subset
    <3>10. Cardinality(A) <= Cardinality(B)
      <4>1. PICK m : m = [f \in A |-> new(f)]
        OBVIOUS
      <4>2. ASSUME NEW f \in A PROVE m[f] \in B /\ m[f].start = f.start
        <5>1. f \in history_list /\ f.start <= t /\ t < f.end
          BY <3>2
        <5>2. new(f) \in H /\ new(f).start = f.start /\ t < new(f).end
          BY <1>6, <1>8, <3>1, <5>1
        <5>. QED  BY <3>3, <4>1, <5>1, <5>2
      <4>3. ASSUME NEW f \in A, NEW k \in A, m[f] = m[k] PROVE f = k
        <5>1. f.start = k.start
          BY <4>2, <4>3
        <5>. QED  BY <3>6, <5>1 DEF LimitInv, ServerInv, IndToken, SlotDiscipline, StartsDistinct
      <4>4. m \in [A -> B]
        BY <4>1, <4>2
      <4>5. m \in Injection(A, B)
        BY <4>3, <4>4 DEF Injection, IsInjective
      <4>. QED  BY <3>7, <4>5, FS_Injection
    <3>11. /\ Covering(SlotsOf(H, g.name), t) <= Covering(SlotsOf(history_list, g.name), t)
           /\ Covering(history_list, t) <= Covering(H, t)
      BY <3>2, <3>3, <3>4, <3>5, <3>9, <3>10 DEF Covering
    <3>. QED  BY <1>9, <3>1, <3>11, ShareMonotone
  <2>7. UsageIn(H, g.name, window_start(now), g.start)
          <= UsageIn(history_list, g.name, window_start(now), g.start)
    <3>1. window_start(now) <= window_start(now)
      BY <1>5
    <3>. QED  BY <1>5, <1>9, <2>6, <3>1, UsageMonotone
  <2>8. ASSUME granted[g.name] # NONE
        PROVE  UsageIn(H, g.name, window_start(now), g.start) < LimitOf(g.name)
    <3>1. /\ UsageIn(H, g.name, window_start(now), g.start) \in Int
          /\ UsageIn(history_list, g.name, window_start(now), g.start) \in Int
      BY <1>5, <1>9, UsageInType
    <3>2. LimitOf(g.name) \in Nat
      BY <2>2, <2>8, LimitTypes
    <3>. QED  BY <2>4, <2>7, <2>8, <3>1, <3>2
  <2>. QED  BY <2>2, <2>5, <2>8
<1>11. SlotsInTurn'
  BY <1>7, <1>10 DEF SlotsInTurn, Counted
<1>12. WithinLimit'
  BY <1>7, <1>10 DEF WithinLimit, Counted, LimitOf
<1>. QED  BY <1>11, <1>12

\* Time moves on: the window loses a tick, and a slot whose client cannot bring
\* it back into the window has no share in it.
LEMMA TickWithin ==
  ASSUME LimitInv, Tick, UNCHANGED <<hasty, granted>>
  PROVE  SlotsInTurn' /\ WithinLimit'
<1>1. /\ now \in Int /\ now \in Nat /\ now > 0 /\ window_start(now) \in Int
      /\ IsFiniteSet(history_list)
      /\ \A h \in history_list : h \in Slot /\ h.start \in Int /\ h.end \in Int /\ h.name \in Clients
  BY LimitTypes
<1>4. CASE now < HORIZON
  <2>1. now' = now + 1 /\ history_list' = history_list
    BY <1>4 DEF Tick
  <2>2. PICK n \in Nat : n = now + 1
    BY <1>1
  <2>3. ASSUME NEW c \in Clients, granted[c] # NONE
        PROVE  LimitOf(c) \in Nat /\ LimitOf(c)' \in Nat /\ LimitOf(c) <= LimitOf(c)'
    <3>1. PICK f \in Nat : f = granted[c]
      BY <2>3, LimitTypes
    <3>2. PICK w \in Nat : w = window_size(now)
      BY <1>1, WindowAssumption DEF window_size, window_start
    <3>3. PICK v \in Nat : v = window_size(n) /\ w <= v
      BY <1>1, <2>2, <3>2, WindowAssumption DEF window_size, window_start
    <3>4. PICK p \in Nat : p = f * w
      OBVIOUS
    <3>5. PICK r \in Nat : r = f * v
      OBVIOUS
    <3>6. p <= r
      BY <3>3, <3>4, <3>5, SMT
    <3>7. LimitOf(c) = p * 60 /\ LimitOf(c)' = r * 60
      BY <2>1, <2>2, <3>1, <3>2, <3>3, <3>4, <3>5 DEF LimitOf, SHARE
    <3>. QED  BY <3>6, <3>7
  <2>4. window_start(now)' = window_start(now) + 1
    BY <1>1, <2>1, WindowAssumption DEF window_start
  <2>5. SlotsInTurn'
    BY <2>1 DEF LimitInv, SlotsInTurn, Counted
  <2>. SUFFICES ASSUME NEW h \in history_list, Counted(h), granted[h.name] # NONE
                PROVE  UsageIn(history_list, h.name, window_start(now) + 1, h.start) < LimitOf(h.name)'
    BY <2>1, <2>4, <2>5 DEF WithinLimit, Counted
  <2>6. UsageIn(history_list, h.name, window_start(now), h.start) < LimitOf(h.name)
    BY DEF LimitInv, WithinLimit
  <2>7. PICK z \in Int : z = window_start(now) + 1 /\ window_start(now) <= z
    BY <1>1
  <2>8. ASSUME NEW t \in z .. h.start - 1
        PROVE  TickShare(history_list, h.name, t) <= TickShare(history_list, h.name, t)
    <3>1. t \in Int
      BY <1>1
    <3>2. TickShare(history_list, h.name, t) \in Nat
      BY <1>1, <3>1, TickShareType
    <3>. QED  BY <3>2
  <2>9. UsageIn(history_list, h.name, z, h.start)
          <= UsageIn(history_list, h.name, window_start(now), h.start)
    BY <1>1, <2>7, <2>8, UsageMonotone
  <2>10. /\ UsageIn(history_list, h.name, z, h.start) \in Int
         /\ UsageIn(history_list, h.name, window_start(now), h.start) \in Int
    BY <1>1, <2>7, UsageInType
  <2>11. UsageIn(history_list, h.name, z, h.start) < LimitOf(h.name)'
    BY <1>1, <2>3, <2>6, <2>9, <2>10
  <2>. QED  BY <2>7, <2>11
<1>5. CASE ~(now < HORIZON)
  <2>1. PICK K : K = {g \in history_list : ~Forgettable(g.name)}
    OBVIOUS
  <2>2. PICK H : H = {Earlier(g) : g \in K}
    OBVIOUS
  <2>3. now' = now /\ history_list' = H
    BY <1>5, <2>1, <2>2 DEF Tick
  <2>4. K \in SUBSET history_list /\ IsFiniteSet(K)
    BY <1>1, <2>1, FS_Subset
  <2>5. IsFiniteSet(H)
    <3>1. PICK f : f = [g \in K |-> Earlier(g)]
      OBVIOUS
    <3>2. {f[g] : g \in K} = H
      BY <2>2, <3>1
    <3>. QED  BY <2>4, <3>2, FiniteImage
  <2>6. \A g \in history_list : /\ Earlier(g).name = g.name /\ Earlier(g).start = g.start - 1
                                /\ Earlier(g).end = g.end - 1
    BY DEF Earlier
  <2>. SUFFICES ASSUME NEW h \in H, IsLatestSlot(H, h), h.name \notin hasty
                PROVE  /\ \A f \in H : f.name = h.name /\ f.start < h.start => f.end <= h.start
                       /\ granted[h.name] # NONE =>
                            UsageIn(H, h.name, window_start(now), h.start) < LimitOf(h.name)
    BY <2>3 DEF SlotsInTurn, WithinLimit, Counted, LimitOf
  <2>7. PICK g \in K : h = Earlier(g)
    BY <2>2
  <2>8. g \in history_list /\ h.name = g.name /\ h.start = g.start - 1 /\ h.end = g.end - 1
    BY <2>4, <2>6, <2>7
  <2>9. IsLatestSlot(history_list, g)
    <3>1. ASSUME NEW f \in history_list, f.name = g.name PROVE f.start <= g.start
      <4>1. f \in K
        BY <2>1, <3>1
      <4>2. Earlier(f) \in H /\ Earlier(f).name = h.name /\ Earlier(f).start = f.start - 1
        BY <2>2, <2>6, <2>8, <3>1, <4>1
      <4>3. Earlier(f).start <= h.start
        BY <4>2 DEF IsLatestSlot, SlotsOf
      <4>. QED  BY <1>1, <2>8, <4>2, <4>3
    <3>. QED  BY <3>1 DEF IsLatestSlot, SlotsOf
  <2>10. /\ \A f \in history_list : f.name = g.name /\ f.start < g.start => f.end <= g.start
         /\ granted[g.name] # NONE =>
              UsageIn(history_list, g.name, window_start(now), g.start) < LimitOf(g.name)
    BY <2>8, <2>9 DEF LimitInv, SlotsInTurn, WithinLimit, Counted
  <2>11. ASSUME NEW t \in window_start(now) .. g.start - 2
         PROVE  TickShare(H, g.name, t) <= TickShare(history_list, g.name, t + 1)
    <3>1. t \in Int /\ t + 1 \in Int /\ window_start(now) <= t
      BY <1>1, <2>8
    <3>2. PICK A : A = {f \in history_list : f.start <= t + 1 /\ t + 1 < f.end}
      OBVIOUS
    <3>3. PICK B : B = {f \in H : f.start <= t /\ t < f.end}
      OBVIOUS
    <3>4. PICK P : P = {f \in SlotsOf(history_list, g.name) : f.start <= t + 1 /\ t + 1 < f.end}
      OBVIOUS
    <3>5. PICK Q : Q = {f \in SlotsOf(H, g.name) : f.start <= t /\ t < f.end}
      OBVIOUS
    <3>6. A \in SUBSET history_list /\ B \in SUBSET H /\ P \in SUBSET history_list /\ Q \in SUBSET H
      BY <3>2, <3>3, <3>4, <3>5 DEF SlotsOf
    <3>7. IsFiniteSet(A) /\ IsFiniteSet(B) /\ IsFiniteSet(P) /\ IsFiniteSet(Q)
      BY <1>1, <2>5, <3>6, FS_Subset
    <3>8. Cardinality(A) <= Cardinality(B)
      <4>1. PICK m : m = [f \in A |-> Earlier(f)]
        OBVIOUS
      <4>2. ASSUME NEW f \in A PROVE m[f] \in B /\ m[f].start = f.start - 1
        <5>1. f \in history_list /\ f.start <= t + 1 /\ t + 1 < f.end /\ f.start \in Int /\ f.end \in Int
          BY <1>1, <3>2
        <5>2. f \in K
          <6>1. CASE Forgettable(f.name)
            <7>1. f \in SlotsOf(history_list, f.name) /\ 0 \in Overuses \cup {0}
              BY <5>1 DEF SlotsOf
            <7>2. BeyondWindow([f EXCEPT !.end = @ + 0], now)
              BY <6>1, <7>1, Zenon DEF Forgettable
            <7>3. [f EXCEPT !.end = @ + 0].end = f.end
              BY <1>1, <5>1 DEF Slot
            <7>4. f.end < window_start(now)
              BY <7>2, <7>3 DEF BeyondWindow
            <7>. QED  BY <1>1, <3>1, <5>1, <7>4
          <6>. QED  BY <2>1, <5>1, <6>1
        <5>3. Earlier(f) \in H /\ Earlier(f).start = f.start - 1 /\ Earlier(f).end = f.end - 1
          BY <2>2, <2>6, <5>1, <5>2
        <5>4. Earlier(f).start <= t /\ t < Earlier(f).end
          BY <3>1, <5>1, <5>3
        <5>. QED  BY <3>3, <4>1, <5>3, <5>4
      <4>3. ASSUME NEW f \in A, NEW k \in A, m[f] = m[k] PROVE f = k
        <5>1. f.start - 1 = k.start - 1 /\ f.start \in Int /\ k.start \in Int
          BY <1>1, <3>6, <4>2, <4>3
        <5>2. f.start = k.start
          BY <5>1
        <5>. QED  BY <3>6, <5>2 DEF LimitInv, ServerInv, IndToken, SlotDiscipline, StartsDistinct
      <4>4. m \in [A -> B]
        BY <4>1, <4>2
      <4>5. m \in Injection(A, B)
        BY <4>3, <4>4 DEF Injection, IsInjective
      <4>. QED  BY <3>7, <4>5, FS_Injection
    <3>9. Cardinality(Q) <= Cardinality(P)
      <4>. DEFINE origin(f) == CHOOSE k \in P : f = Earlier(k)
      <4>1. ASSUME NEW f \in Q PROVE \E k \in P : f = Earlier(k)
        <5>1. f \in H /\ f.name = g.name /\ f.start <= t /\ t < f.end
          BY <3>5 DEF SlotsOf
        <5>2. PICK k \in K : f = Earlier(k)
          BY <2>2, <5>1
        <5>3. /\ k \in history_list /\ k.name = f.name /\ f.start = k.start - 1 /\ f.end = k.end - 1
              /\ k.start \in Int /\ k.end \in Int
          BY <1>1, <2>4, <2>6, <5>2
        <5>4. k.start <= t + 1 /\ t + 1 < k.end
          BY <3>1, <5>1, <5>3
        <5>5. k \in P
          BY <3>4, <5>1, <5>3, <5>4 DEF SlotsOf
        <5>. QED  BY <5>2, <5>5
      <4>2. \A f \in Q : origin(f) \in P /\ f = Earlier(origin(f))
        BY <4>1
      <4>. HIDE DEF origin
      <4>3. PICK m : m = [f \in Q |-> origin(f)]
        OBVIOUS
      <4>4. m \in [Q -> P]
        BY <4>2, <4>3
      <4>5. ASSUME NEW f \in Q, NEW k \in Q, m[f] = m[k] PROVE f = k
        <5>1. m[f] = origin(f) /\ m[k] = origin(k)
          BY <4>3
        <5>. QED  BY <4>2, <4>5, <5>1, Zenon
      <4>6. m \in Injection(Q, P)
        BY <4>4, <4>5 DEF Injection, IsInjective
      <4>. QED  BY <3>7, <4>6, FS_Injection
    <3>10. /\ Covering(SlotsOf(H, g.name), t) <= Covering(SlotsOf(history_list, g.name), t + 1)
           /\ Covering(history_list, t + 1) <= Covering(H, t)
      BY <3>2, <3>3, <3>4, <3>5, <3>8, <3>9 DEF Covering
    <3>. QED  BY <1>1, <2>5, <3>1, <3>10, ShareMonotone
  <2>12. UsageIn(H, g.name, window_start(now), g.start - 1)
           <= UsageIn(history_list, g.name, window_start(now), g.start)
    BY <1>1, <2>5, <2>8, <2>11, UsageShifted
  <2>13. ASSUME granted[g.name] # NONE
         PROVE  UsageIn(H, g.name, window_start(now), h.start) < LimitOf(g.name)
    <3>1. g.start \in Int /\ g.start - 1 \in Int /\ g.name \in Clients
      BY <1>1, <2>8
    <3>2. /\ UsageIn(H, g.name, window_start(now), g.start - 1) \in Int
          /\ UsageIn(history_list, g.name, window_start(now), g.start) \in Int
      BY <1>1, <2>5, <2>8, <3>1, UsageInType
    <3>3. LimitOf(g.name) \in Nat
      BY <2>13, <3>1, LimitTypes
    <3>4. UsageIn(H, g.name, window_start(now), g.start - 1) < LimitOf(g.name)
      BY <2>10, <2>12, <2>13, <3>2, <3>3
    <3>. QED  BY <2>8, <3>4
  <2>14. ASSUME NEW f \in H, f.name = h.name, f.start < h.start PROVE f.end <= h.start
    <3>1. PICK k \in K : f = Earlier(k)
      BY <2>2
    <3>2. /\ k \in history_list /\ k.name = f.name /\ f.start = k.start - 1 /\ f.end = k.end - 1
          /\ k.start \in Int /\ k.end \in Int /\ g.start \in Int
      BY <1>1, <2>4, <2>6, <2>8, <3>1
    <3>3. k.name = g.name /\ k.start < g.start
      BY <2>8, <2>14, <3>2
    <3>4. k.end <= g.start
      BY <2>10, <3>2, <3>3
    <3>. QED  BY <2>8, <3>2, <3>4
  <2>. QED  BY <2>8, <2>13, <2>14
<1>. QED  BY <1>4, <1>5

\* Only a grant adds a slot, and it goes to a client below its limit.
LEMMA NextWithin ==
  ASSUME LimitInv, [HistoryNext]_all_vars
  PROVE  SlotsInTurn' /\ WithinLimit'
<1>1. IndType
  BY DEF LimitInv, ServerInv, IndToken
<1>2. [Next]_vars
  BY <1>1, HistoryStep
<1>3. CASE UNCHANGED history_vars /\ ~(daemon_pc = "top" /\ daemon_pc' = "send")
  <2>1. UNCHANGED <<hasty, granted>>
    BY <1>3 DEF history_vars
  <2>2. CASE UNCHANGED <<now, history_list>>
    BY <2>1, <2>2, SlotsStayWithin
  <2>3. CASE history_list' = window_history /\ now' = now
    BY <2>1, <2>3, SleepWithin
  <2>4. CASE \E c \in Clients, o \in Nat : history_list' = update_return_time(c, o) /\ now' = now
    BY <2>1, <2>4, ReturnWithin
  <2>5. CASE Tick
    BY <2>1, <2>5, TickWithin
  <2>. QED  BY <1>1, <1>2, <1>3, <2>2, <2>3, <2>4, <2>5, HistoryCases
<1>4. CASE /\ daemon_pc = "top" /\ daemon_pc' = "send"
           /\ \E i \in DOMAIN candidates : Grant(i) /\ Remember(candidates[i].name)
  <2>1. PICK i \in DOMAIN candidates : Grant(i) /\ Remember(candidates[i].name)
    BY <1>4
  <2>2. SelectFirst \/ SelectByPriority
    <3>1. Next
      BY <1>2, <1>4 DEF vars, daemon_vars
    <3>. QED  BY <1>4, <3>1, GrantingSelects
  <2>3. PICK j \in DOMAIN candidates :
           Grant(j) /\ (SlotsOf(window_history, candidates[j].name) = {} \/ j \in valid_candidates)
    <3>1. CASE SelectFirst
      <4>1. 1 \in DOMAIN candidates /\ Head(candidates) = candidates[1]
        BY <1>1, <3>1, EmptySeq, LenProperties, HeadTailProperties
           DEF SelectFirst, Selecting, IndType, TypeOK
      <4>. QED  BY <3>1, <4>1 DEF SelectFirst, QuickExit
    <3>2. CASE SelectByPriority
      BY <3>2 DEF SelectByPriority, Winners, valid_candidates
    <3>. QED  BY <2>2, <3>1, <3>2
  <2>4. candidates[i] = candidates[j]
    BY <2>1, <2>3 DEF Grant
  <2>5. Remember(candidates[j].name)
    BY <2>1, <2>4
  <2>. QED  BY <1>4, <2>3, <2>5, GrantWithin
<1>. QED  BY <1>1, <1>3, <1>4, HistoryStep

\* One slot more than the limit.
LEMMA WithinIsBounded ==
  ASSUME LimitInv
  PROVE  LimitOvershootBounded
<1>. SUFFICES ASSUME NEW h \in history_list, IsLatestSlot(history_list, h),
                     h.name \notin hasty, granted[h.name] # NONE
              PROVE  ReferenceUsage(window_history, h.name, now) <
                       granted[h.name] * window_size(now) * SHARE + (h.end - h.start) * UNIT
  BY DEF LimitOvershootBounded
<1>1. /\ window_start(now) \in Int /\ IsFiniteSet(history_list)
      /\ \A g \in history_list : /\ g.start \in Int /\ g.end \in Int /\ g.name \in Clients
                                 /\ g.start <= g.end
  BY LimitTypes
<1>2. PICK limit \in Nat : limit = LimitOf(h.name)
  BY <1>1, LimitTypes
<1>3. PICK last \in Int :
         /\ ReferenceUsage(window_history, h.name, now)
              = UsageIn(window_history, h.name, window_start(now), last)
         /\ \A g \in window_history : g.end <= last
         /\ last = window_start(now) \/ \E g \in window_history : last = g.end
  BY ReferenceIsUsageIn
<1>4. PICK u \in Int : /\ u = UsageIn(history_list, h.name, window_start(now), last)
                       /\ u = ReferenceUsage(window_history, h.name, now)
  <2>1. UsageIn(history_list, h.name, window_start(now), last) \in Int
    BY <1>1, UsageInType
  <2>. QED  BY <1>3, <2>1, PrunedUsage
<1>5. h.start \in Int /\ h.end \in Int /\ h.start <= h.end
  BY <1>1
<1>6. /\ UsageIn(history_list, h.name, window_start(now), h.start) < limit
      /\ \A g \in history_list : g.name = h.name /\ g.start < h.start => g.end <= h.start
  BY <1>2 DEF LimitInv, WithinLimit, SlotsInTurn, Counted
<1>7. \A g \in SlotsOf(history_list, h.name) : g.start \in Int /\ g.end \in Int /\ g.end <= h.end
  <2>1. ASSUME NEW g \in history_list, g.name = h.name PROVE g.end <= h.end
    <3>1. g.start <= h.start
      BY <2>1 DEF IsLatestSlot, SlotsOf
    <3>2. CASE g.start < h.start
      <4>1. g.end <= h.start
        BY <1>6, <2>1, <3>2
      <4>. QED  BY <1>1, <1>5, <4>1
    <3>3. CASE g.start = h.start
      <4>1. g = h
        BY <3>3 DEF LimitInv, ServerInv, IndToken, SlotDiscipline, StartsDistinct
      <4>. QED  BY <1>5, <4>1
    <3>. QED  BY <1>1, <1>5, <3>1, <3>2, <3>3
  <2>. QED  BY <1>1, <2>1 DEF SlotsOf
<1>8. PICK k \in Int : last <= k /\ h.end <= k
  <2>1. last <= h.end \/ h.end <= last
    BY <1>5
  <2>2. last <= last /\ h.end <= h.end
    BY <1>5
  <2>. QED  BY <1>5, <2>1, <2>2
<1>9. UsageIn(history_list, h.name, h.start, k) <= (h.end - h.start) * UNIT
  BY <1>1, <1>5, <1>7, <1>8, UsageOfSlot
<1>10. UsageIn(history_list, h.name, window_start(now), last)
         <= UsageIn(history_list, h.name, window_start(now), h.start)
              + UsageIn(history_list, h.name, h.start, k)
  BY <1>1, <1>5, <1>8, UsageSplit
<1>11. PICK a \in Int : a = UsageIn(history_list, h.name, window_start(now), h.start)
  BY <1>1, <1>5, UsageInType
<1>12. PICK b \in Int : b = UsageIn(history_list, h.name, h.start, k)
  BY <1>1, <1>5, <1>8, UsageInType
<1>13. PICK v \in Int : v = (h.end - h.start) * UNIT
  BY <1>5, FracUnitAssumption DEF UNIT, SHARE
<1>14. a < limit /\ u <= a + b /\ b <= v
  BY <1>4, <1>6, <1>9, <1>10, <1>11, <1>12, <1>13
<1>15. u < limit + v
  BY <1>14
<1>. QED  BY <1>2, <1>4, <1>13, <1>15 DEF LimitOf

\* However the slots of the clients overlap after late returns, second requests,
\* ties and reloads, what a client has used of the window stays below the LIMIT of
\* its latest grant and the one slot of that grant, unless it was granted the token
\* while it was asking for the next or the sweep had understated its usage:
\* select_candidate() (scheduler.cpp:367-397) grants below the limit only.
THEOREM LimitIsKept == HistorySpec => []LimitOvershootBounded
<1>1. HistoryInit => LimitInv
  <2>. SUFFICES ASSUME HistoryInit PROVE LimitInv
    OBVIOUS
  <2>1. Init /\ history_list = {}
    BY DEF HistoryInit, Init
  <2>2. ServerInv /\ SlotShape
    BY <2>1, InitIndToken, InitConfigKept, InitShape DEF ServerInv, ShapeInv
  <2>3. SlotsInTurn /\ WithinLimit
    BY <2>1 DEF SlotsInTurn, WithinLimit
  <2>. QED  BY <2>2, <2>3 DEF LimitInv
<1>2. LimitInv /\ [HistoryNext]_all_vars => LimitInv'
  <2>. SUFFICES ASSUME LimitInv, [HistoryNext]_all_vars PROVE LimitInv'
    OBVIOUS
  <2>1. ServerInv /\ IndToken /\ IndType /\ ConfigKept /\ ShapeInv
    BY DEF LimitInv, ServerInv, IndToken, ShapeInv
  <2>2. [Next]_vars
    BY <2>1, HistoryStep
  <2>3. ServerInv'
    BY <2>1, <2>2, NextIndToken, NextConfigKept DEF ServerInv
  <2>4. SlotShape'
    BY <2>1, <2>2, NextShape
  <2>. QED  BY <2>3, <2>4, NextWithin DEF LimitInv
<1>. QED  BY <1>1, <1>2, WithinIsBounded, PTL DEF HistorySpec
=============================================================================
