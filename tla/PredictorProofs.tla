--------------------------- MODULE PredictorProofs ---------------------------
(***************************************************************************)
(* The predictor at any threshold, validity and time.  It never measures   *)
(* with, or decides by, one of its sentinels; a record keeper, which       *)
(* forgets every record that a later and longer one overtakes, still       *)
(* forecasts the longest recent record; the merged forecast covers the     *)
(* unmerged one; a long burst is exactly an unbroken chain of bursts.      *)
(***************************************************************************)
EXTENDS Predictor, FiniteLemmas

IndSentinels == now \in Nat /\ SentinelsUnused

LEMMA InitSentinels == Init => IndSentinels
  BY DEF Init, IndSentinels, SentinelsUnused, ongoing_unmerged, ongoing_merged

LEMMA NextSentinels == IndSentinels /\ [Next]_vars => IndSentinels'
  <1> SUFFICES ASSUME IndSentinels, [Next]_vars PROVE IndSentinels'
    OBVIOUS
  <1> USE DEF IndSentinels, SentinelsUnused, ongoing_unmerged, ongoing_merged, periods
  <1>1. now # TP_MAX /\ now # TP_MIN
    BY PredictorAssumption
  <1>2. CASE record_stop
    <2>1. period_begin_' = TP_MAX /\ long_period_end_' = now /\ now' = now
      BY <1>2 DEF record_stop
    <2> QED BY <1>1, <2>1
  <1>3. CASE record_start
    <2>1. now' = now /\ period_begin_' = now
      BY <1>3 DEF record_start
    <2>2. long_period_begin_' # TP_MAX
      BY <1>1, <1>3 DEF record_start
    <2> QED BY <1>1, <2>1, <2>2
  <1>4. CASE interrupt
    BY <1>4 DEF interrupt
  <1>5. CASE predict_unmerged
    BY <1>5 DEF predict_unmerged
  <1>6. CASE predict_merged
    BY <1>6 DEF predict_merged
  <1>7. ASSUME NEW bound \in Bounds, set_upperbound(bound) PROVE IndSentinels'
    BY <1>7 DEF set_upperbound
  <1>8. CASE reset
    BY <1>8 DEF reset
  <1>9. CASE Tick
    <2>1. now' \in Nat /\ UNCHANGED periods
      BY <1>9 DEF Tick
    <2> QED BY <2>1
  <1>10. CASE UNCHANGED vars
    BY <1>10 DEF vars
  <1> QED BY <1>2, <1>3, <1>4, <1>5, <1>6, <1>7, <1>8, <1>9, <1>10 DEF Next

\* A running burst always lies in a long burst, and while a long burst waits
\* for its next burst the end of the last one is known: neither
\* timepoint_t::max() nor timepoint_t::min() ever decides a merge or enters a
\* record (predictor.cpp:83-123), at any threshold and any time.
THEOREM SentinelsNeverUsed == Spec => []SentinelsUnused
  <1>1. IndSentinels => SentinelsUnused
    BY DEF IndSentinels
  <1> QED BY <1>1, InitSentinels, NextSentinels, PTL DEF Spec

-----------------------------------------------------------------------------
(* A record keeper.  M is everything that was ever given to add.           *)

\* Times ascend and lengths descend along the deque; it holds only records that
\* were added; and whatever was added is either outdated by t or overtaken by
\* a record that is still there.
Keeps(records, M, t) ==
    /\ records \in Seq(Record) /\ M \subseteq Record
    /\ \A i, j \in DOMAIN records : i < j =>
          records[i].tp <= records[j].tp /\ records[i].data >= records[j].data
    /\ \A i \in DOMAIN records : records[i] \in M
    /\ \A m \in M : m.tp <= t
    /\ \A m \in M : \/ Outdated(m, t)
                    \/ \E i \in DOMAIN records : /\ records[i].tp >= m.tp
                                                 /\ records[i].data >= m.data

\* A prefix, and what add makes of it.
LEMMA AddShape ==
  ASSUME NEW records \in Seq(Record), NEW d \in Nat, NEW t \in Nat,
         NEW k \in 0 .. Len(records)
  PROVE  /\ add(records, d, t, k) \in Seq(Record)
         /\ DOMAIN add(records, d, t, k) = 1 .. k + 1
         /\ add(records, d, t, k)[k + 1] = [tp |-> t, data |-> d]
         /\ \A i \in 1 .. k : add(records, d, t, k)[i] = records[i]
<1>1. PICK n \in Nat : n = Len(records) /\ DOMAIN records = 1 .. n
  BY LenProperties
<1>2. k \in Nat /\ k \in Int /\ k <= n
  BY <1>1
<1>3. \A i \in 1 .. k : records[i] \in Record
  BY <1>1, <1>2, ElementOfSeq
<1>4. PICK s : s = SubSeq(records, 1, k)
  OBVIOUS
<1>5. /\ s \in Seq(Record) /\ Len(s) = (IF 1 <= k THEN k - 1 + 1 ELSE 0)
      /\ \A i \in 1 .. k - 1 + 1 : s[i] = records[1 + i - 1]
  BY <1>2, <1>3, <1>4, SubSeqProperties
<1>6. Len(s) = k /\ (\A i \in 1 .. k : s[i] = records[i]) /\ DOMAIN s = 1 .. k
  BY <1>2, <1>5, LenProperties
<1>7. PICK e \in Record : e = [tp |-> t, data |-> d]
  BY DEF Record
<1>8. PICK a : a = Append(s, e)
  OBVIOUS
<1>9. /\ a \in Seq(Record) /\ DOMAIN a = 1 .. k + 1 /\ a[k + 1] = e
      /\ \A i \in 1 .. k : a[i] = s[i]
  BY <1>2, <1>5, <1>6, <1>7, <1>8, AppendProperties, LenProperties
<1>10. a = add(records, d, t, k)
  BY <1>4, <1>7, <1>8 DEF add
<1>. QED  BY <1>6, <1>7, <1>9, <1>10

LEMMA AddKeeps ==
  ASSUME NEW records, NEW M, NEW t \in Nat, Keeps(records, M, t), NEW d \in Nat,
         NEW k \in 0 .. Len(records), IsKept(records, d, k)
  PROVE  Keeps(add(records, d, t, k), M \cup {[tp |-> t, data |-> d]}, t)
<1>0. records \in Seq(Record) /\ M \subseteq Record
  BY DEF Keeps
<1>1. PICK n \in Nat : n = Len(records) /\ DOMAIN records = 1 .. n
  BY <1>0, LenProperties
<1>2. PICK a : a = add(records, d, t, k)
  OBVIOUS
<1>3. PICK e \in Record : e = [tp |-> t, data |-> d] /\ e.tp = t /\ e.data = d
  <2>1. [tp |-> t, data |-> d] \in Record
    BY DEF Record
  <2>. QED  BY <2>1
<1>4. /\ a \in Seq(Record) /\ DOMAIN a = 1 .. k + 1 /\ a[k + 1] = e
      /\ \A i \in 1 .. k : a[i] = records[i]
  <2>1. /\ add(records, d, t, k) \in Seq(Record)
        /\ DOMAIN add(records, d, t, k) = 1 .. k + 1
        /\ add(records, d, t, k)[k + 1] = [tp |-> t, data |-> d]
        /\ \A i \in 1 .. k : add(records, d, t, k)[i] = records[i]
    BY <1>0, AddShape
  <2>. QED  BY <1>2, <1>3, <2>1, Zenon
<1>5. k \in Nat /\ k <= n /\ (\A i \in 1 .. k : i \in 1 .. n)
      /\ \A i \in 1 .. k + 1 : i \in 1 .. k \/ i = k + 1
  BY <1>1
<1>6. \A i \in 1 .. n : records[i] \in M /\ records[i] \in Record
                        /\ records[i].tp \in Nat /\ records[i].data \in Nat
  BY <1>0, <1>1, ElementOfSeq DEF Keeps, Record
<1>7. \A i \in 1 .. k : records[i].data >= d /\ records[i].tp <= t
  <2>. SUFFICES ASSUME NEW i \in 1 .. k PROVE records[i].data >= d /\ records[i].tp <= t
    OBVIOUS
  <2>1. k > 0 /\ k \in 1 .. n /\ i \in 1 .. n /\ records[k].data >= d
    BY <1>1, <1>5 DEF IsKept
  <2>2. records[i].data >= records[k].data
    <3>1. CASE i = k
      BY <1>6, <2>1, <3>1
    <3>2. CASE i < k
      BY <1>1, <2>1, <3>2 DEF Keeps
    <3>. QED  BY <1>5, <3>1, <3>2
  <2>3. records[i].tp <= t
    BY <1>6, <2>1 DEF Keeps
  <2>. QED  BY <1>6, <2>1, <2>2, <2>3
<1>8. ASSUME NEW i \in DOMAIN a, NEW j \in DOMAIN a, i < j
      PROVE  a[i].tp <= a[j].tp /\ a[i].data >= a[j].data
  <2>1. i \in 1 .. k /\ i \in 1 .. n
    BY <1>4, <1>5, <1>8
  <2>2. CASE j \in 1 .. k
    BY <1>1, <1>4, <1>5, <1>8, <2>1, <2>2 DEF Keeps
  <2>3. CASE j = k + 1
    BY <1>3, <1>4, <1>7, <2>1, <2>3
  <2>. QED  BY <1>4, <1>5, <2>2, <2>3
<1>9. \A i \in DOMAIN a : a[i] \in M \cup {e}
  BY <1>4, <1>5, <1>6
<1>10. \A m \in M \cup {e} : m.tp <= t
  BY <1>3 DEF Keeps
<1>11. ASSUME NEW m \in M \cup {e}, ~Outdated(m, t)
       PROVE  \E i \in DOMAIN a : a[i].tp >= m.tp /\ a[i].data >= m.data
  <2>0. k + 1 \in DOMAIN a /\ m \in Record /\ m.tp \in Nat /\ m.data \in Nat
    <3>1. k + 1 \in 1 .. k + 1
      BY <1>5
    <3>2. m \in Record
      BY <1>0, <1>11, Zenon
    <3>3. m.tp \in Nat /\ m.data \in Nat
      BY <3>2 DEF Record
    <3>. QED  BY <1>4, <3>1, <3>2, <3>3
  <2>1. CASE m = e
    BY <1>4, <2>0, <2>1
  <2>2. CASE m \in M
    <3>1. PICK i \in DOMAIN records : records[i].tp >= m.tp /\ records[i].data >= m.data
      BY <1>11, <2>2 DEF Keeps
    <3>2. CASE i \in 1 .. k
      BY <1>4, <1>5, <3>1, <3>2
    <3>3. CASE i \notin 1 .. k
      <4>1. i \in (k + 1) .. Len(records)
        BY <1>1, <1>5, <3>3
      <4>2. records[i].data < d
        BY <4>1 DEF IsKept
      <4>3. m.tp <= t /\ m.data <= d
        BY <1>1, <1>6, <1>10, <2>0, <2>2, <3>1, <4>2
      <4>. QED  BY <1>3, <1>4, <2>0, <4>3
    <3>. QED  BY <3>2, <3>3
  <2>. QED  BY <2>1, <2>2
<1>12. Keeps(a, M \cup {e}, t)
  BY <1>0, <1>4, <1>8, <1>9, <1>10, <1>11 DEF Keeps
<1>. QED  BY <1>2, <1>3, <1>12

LEMMA DropShape ==
  ASSUME NEW records \in Seq(Record), NEW k \in 0 .. Len(records)
  PROVE  LET b == drop_outdated(records, k) IN
         /\ b \in Seq(Record) /\ DOMAIN b = 1 .. Len(records) - k
         /\ \A i \in 1 .. Len(records) - k : b[i] = records[k + i]
<1>1. PICK n \in Nat : n = Len(records) /\ DOMAIN records = 1 .. n
  BY LenProperties
<1>2. k \in Nat /\ k <= n /\ k + 1 \in Int /\ n \in Int
  BY <1>1
<1>3. \A i \in k + 1 .. n : records[i] \in Record
  BY <1>1, <1>2, ElementOfSeq
<1>4. PICK b : b = SubSeq(records, k + 1, n)
  OBVIOUS
<1>5. /\ b \in Seq(Record)
      /\ Len(b) = (IF k + 1 <= n THEN n - (k + 1) + 1 ELSE 0)
      /\ \A i \in 1 .. n - (k + 1) + 1 : b[i] = records[k + 1 + i - 1]
  BY <1>2, <1>3, <1>4, SubSeqProperties
<1>6. Len(b) = n - k /\ DOMAIN b = 1 .. n - k
  BY <1>2, <1>5, LenProperties
<1>7. ASSUME NEW i \in 1 .. n - k PROVE b[i] = records[k + i]
  <2>1. i \in 1 .. n - (k + 1) + 1 /\ k + 1 + i - 1 = k + i
    BY <1>2
  <2>. QED  BY <1>5, <2>1
<1>. QED  BY <1>1, <1>4, <1>5, <1>6, <1>7 DEF drop_outdated

LEMMA DropKeeps ==
  ASSUME NEW records, NEW M, NEW t \in Nat, Keeps(records, M, t),
         NEW k \in 0 .. Len(records), IsDropped(records, t, k)
  PROVE  Keeps(drop_outdated(records, k), M, t)
<1>0. records \in Seq(Record) /\ M \subseteq Record
  BY DEF Keeps
<1>1. PICK n \in Nat : n = Len(records) /\ DOMAIN records = 1 .. n
  BY <1>0, LenProperties
<1>2. PICK b : b = drop_outdated(records, k)
  OBVIOUS
<1>3. /\ b \in Seq(Record) /\ DOMAIN b = 1 .. n - k
      /\ \A i \in 1 .. n - k : b[i] = records[k + i]
  BY <1>0, <1>1, <1>2, DropShape
<1>4. k \in Nat /\ k <= n /\ \A i \in 1 .. n - k : k + i \in 1 .. n
  BY <1>1
<1>5. \A i \in 1 .. n : records[i] \in M /\ records[i].tp \in Nat /\ records[i].data \in Nat
  <2>1. \A i \in 1 .. n : records[i] \in M
    BY <1>1 DEF Keeps
  <2>. QED  BY <1>0, <2>1 DEF Record
<1>6. ASSUME NEW i \in DOMAIN b, NEW j \in DOMAIN b, i < j
      PROVE  b[i].tp <= b[j].tp /\ b[i].data >= b[j].data
  <2>1. k + i \in 1 .. n /\ k + j \in 1 .. n /\ k + i < k + j
    BY <1>3, <1>4, <1>6
  <2>. QED  BY <1>1, <1>3, <2>1 DEF Keeps
<1>7. \A i \in DOMAIN b : b[i] \in M
  BY <1>3, <1>4, <1>5
<1>8. ASSUME NEW m \in M, ~Outdated(m, t)
      PROVE  \E i \in DOMAIN b : b[i].tp >= m.tp /\ b[i].data >= m.data
  <2>1. PICK i \in DOMAIN records : records[i].tp >= m.tp /\ records[i].data >= m.data
    BY <1>8 DEF Keeps
  <2>2. m.tp \in Nat /\ records[i].tp \in Nat
    BY <1>0, <1>1, <1>5 DEF Record
  <2>3. ~Outdated(records[i], t)
    BY <1>8, <2>1, <2>2, PredictorAssumption DEF Outdated
  <2>4. i \notin 1 .. k
    BY <2>3 DEF IsDropped
  <2>5. i - k \in 1 .. n - k /\ k + (i - k) = i
    BY <1>1, <1>4, <2>4
  <2>. QED  BY <1>3, <2>1, <2>5
<1>9. Keeps(b, M, t)
  BY <1>0, <1>3, <1>6, <1>7, <1>8 DEF Keeps
<1>. QED  BY <1>2, <1>9

LEMMA AgeKeeps ==
  ASSUME NEW records, NEW M, NEW t \in Nat, Keeps(records, M, t)
  PROVE  Keeps(records, M, t + 1)
<1>1. \A m \in M : m.tp \in Nat /\ m.tp <= t
  BY DEF Keeps, Record
<1>2. \A m \in M : m.tp <= t + 1 /\ (Outdated(m, t) => Outdated(m, t + 1))
  BY <1>1, PredictorAssumption DEF Outdated
<1>. QED  BY <1>2 DEF Keeps

\* There is a number of records to drop.
LEMMA DropExists ==
  ASSUME NEW records \in Seq(Record), NEW t \in Nat
  PROVE  \E k \in 0 .. Len(records) : IsDropped(records, t, k)
<1>1. PICK n \in Nat : n = Len(records)
  BY LenProperties
<1>. DEFINE T == {k \in 0 .. n : k < n => ~Outdated(records[k + 1], t)}
<1>2. n \in T /\ T \subseteq Nat
  OBVIOUS
<1>3. PICK k \in T : \A j \in T : k <= j
  <2>. HIDE DEF T
  <2>. QED  BY <1>2, LeastNatural
<1>4. ASSUME NEW i \in 1 .. k PROVE Outdated(records[i], t)
  <2>1. i - 1 \in 0 .. n /\ i - 1 < k /\ (i - 1) + 1 = i
    OBVIOUS
  <2>2. i - 1 \notin T
    <3>1. k \in Nat
      BY <1>2
    <3>. HIDE DEF T
    <3>. QED  BY <1>3, <2>1, <3>1
  <2>. QED  BY <2>1, <2>2
<1>. QED  BY <1>1, <1>4 DEF IsDropped

\* The forecast at time t: no added record that counts is longer, and it is the
\* length of one that counts, unless none does.
LEMMA ForecastMeans ==
  ASSUME NEW M, now \in Nat, NEW records, Keeps(records, M, now)
  PROVE  LET R == {m \in M : ~Outdated(m, now)} IN
         \/ R = {} /\ Forecast(records) = 0
         \/ /\ \E m \in R : Forecast(records) = m.data
            /\ \A m \in R : Forecast(records) >= m.data
<1>. DEFINE R == {m \in M : ~Outdated(m, now)}
<1>0. records \in Seq(Record) /\ M \subseteq Record
  BY DEF Keeps
<1>1. PICK n \in Nat : n = Len(records) /\ DOMAIN records = 1 .. n
  BY <1>0, LenProperties
<1>2. PICK k : k = CHOOSE j \in 0 .. Len(records) : IsDropped(records, now, j)
  OBVIOUS
<1>3. k \in 0 .. n /\ IsDropped(records, now, k)
  <2>1. \E j \in 0 .. Len(records) : IsDropped(records, now, j)
    BY <1>0, DropExists
  <2>. QED  BY <1>1, <1>2, <2>1
<1>4. PICK b : b = drop_outdated(records, k)
  OBVIOUS
<1>5. Keeps(b, M, now)
  BY <1>1, <1>3, <1>4, DropKeeps
<1>6. /\ b \in Seq(Record) /\ DOMAIN b = 1 .. n - k
      /\ \A i \in 1 .. n - k : b[i] = records[k + i]
  BY <1>0, <1>1, <1>3, <1>4, DropShape
<1>7. Forecast(records) = get_max(b)
  BY <1>2, <1>4 DEF Forecast
<1>8. CASE k = n
  <2>1. DOMAIN b = {} /\ b = <<>>
    <3>1. Len(b) = 0
      BY <1>6, <1>8, LenProperties
    <3>. QED  BY <1>6, <1>8, <3>1, EmptySeq
  <2>2. R = {}
    BY <1>5, <2>1 DEF Keeps
  <2>. QED  BY <1>7, <2>1, <2>2 DEF get_max
<1>9. CASE k < n
  <2>1. b # <<>> /\ 1 \in DOMAIN b /\ Head(b) = b[1] /\ k + 1 \in 1 .. n /\ b[1] = records[k + 1]
    <3>1. 1 \in DOMAIN b /\ k + 1 \in 1 .. n
      BY <1>3, <1>6, <1>9
    <3>2. b # <<>>
      BY <3>1
    <3>. QED  BY <1>6, <3>1, <3>2, HeadTailProperties
  <2>2. Forecast(records) = b[1].data
    BY <1>7, <2>1 DEF get_max
  <2>3. b[1] \in R
    BY <1>1, <1>3, <1>5, <1>9, <2>1 DEF Keeps, IsDropped
  <2>4. ASSUME NEW m \in R PROVE b[1].data >= m.data
    <3>1. PICK i \in DOMAIN b : b[i].data >= m.data
      BY <1>5 DEF Keeps
    <3>2. b[1].data \in Nat /\ b[i].data \in Nat /\ m.data \in Nat
      <4>1. b[1] \in Record /\ b[i] \in Record
        BY <1>0, <1>5, <2>1 DEF Keeps
      <4>2. m \in Record
        BY <1>0
      <4>. QED  BY <4>1, <4>2 DEF Record
    <3>3. b[1].data >= b[i].data
      <4>1. CASE i = 1
        BY <3>2, <4>1
      <4>2. CASE 1 < i
        BY <1>5, <2>1, <4>2 DEF Keeps
      <4>. QED  BY <1>6, <4>1, <4>2
    <3>. QED  BY <3>1, <3>2, <3>3
  <2>. QED  BY <2>2, <2>3, <2>4
<1>. QED  BY <1>3, <1>8, <1>9

-----------------------------------------------------------------------------
(* The predictor's two keepers.                                            *)

Measurement == [tp : Nat, normal : Nat, long : Nat]
NormalOf(ms) == {[tp |-> m.tp, data |-> m.normal] : m \in ms}
LongOf(ms) == {[tp |-> m.tp, data |-> m.long] : m \in ms}

\* A burst never begins before the long burst around it, nor in the future.
InOrder ==
    /\ ongoing_unmerged => long_period_begin_ <= period_begin_ /\ period_begin_ <= now
    /\ ongoing_merged => long_period_begin_ <= now

KeepersInv ==
    /\ TypeOK /\ SentinelsUnused /\ InOrder
    /\ IsFiniteSet(measured)
    /\ \A m \in measured : m.normal <= m.long
    /\ Keeps(normal_records, NormalOf(measured), now)
    /\ Keeps(long_records, LongOf(measured), now)

\* What a burst's end measures.
LEMMA StopMeasures ==
  ASSUME KeepersInv, record_stop
  PROVE  /\ now - period_begin_ \in Nat /\ now - long_period_begin_ \in Nat
         /\ now - period_begin_ <= now - long_period_begin_
         /\ now \in Nat /\ period_begin_ \in Nat /\ long_period_begin_ \in Nat
<1>1. period_begin_ # TP_MAX /\ long_period_begin_ # TP_MAX
  BY DEF KeepersInv, SentinelsUnused, ongoing_unmerged, ongoing_merged, record_stop
<1>2. /\ now \in Nat /\ period_begin_ \in Nat /\ long_period_begin_ \in Nat
      /\ long_period_begin_ <= period_begin_ /\ period_begin_ <= now
  BY <1>1, PredictorAssumption DEF KeepersInv, TypeOK, InOrder, ongoing_unmerged
<1>. QED  BY <1>2

LEMMA NextPeriods ==
  ASSUME KeepersInv, [Next]_vars
  PROVE  /\ now' \in 0 .. HORIZON
         /\ period_begin_' \in Nat \cup {TP_MAX} /\ long_period_begin_' \in Nat \cup {TP_MAX}
         /\ long_period_end_' \in Nat \cup {TP_MIN}
         /\ upperbound_' \in Bounds \cup {NO_BOUND}
         /\ InOrder' /\ SentinelsUnused'
<1>. USE DEF periods, keepers, ghosts, ongoing_unmerged, ongoing_merged
<1>0. /\ now \in Nat /\ now \in 0 .. HORIZON /\ now # TP_MAX /\ now # TP_MIN
      /\ period_begin_ \in Nat \cup {TP_MAX} /\ long_period_begin_ \in Nat \cup {TP_MAX}
      /\ long_period_end_ \in Nat \cup {TP_MIN} /\ upperbound_ \in Bounds \cup {NO_BOUND}
      /\ TP_MAX \notin Int /\ TP_MIN \notin Int /\ HORIZON \in Nat
  BY PredictorAssumption DEF KeepersInv, TypeOK
<1>1. /\ period_begin_ # TP_MAX => long_period_begin_ <= period_begin_ /\ period_begin_ <= now
      /\ long_period_begin_ # TP_MAX => long_period_begin_ <= now
  BY DEF KeepersInv, InOrder
<1>2. SentinelsUnused'
  BY <1>0, NextSentinels DEF IndSentinels, KeepersInv
<1>3. CASE record_stop
  <2>1. /\ period_begin_' = TP_MAX /\ long_period_end_' = now
        /\ UNCHANGED <<now, long_period_begin_, upperbound_>>
    BY <1>3 DEF record_stop
  <2>. QED  BY <1>0, <1>1, <1>2, <2>1 DEF InOrder
<1>4. CASE record_start
  <2>1. period_begin_' = now /\ UNCHANGED <<now, upperbound_>>
    BY <1>4 DEF record_start
  <2>2. \/ long_period_begin_' = now /\ long_period_end_' = TP_MIN
        \/ ongoing_merged /\ UNCHANGED <<long_period_begin_, long_period_end_>>
    BY <1>4 DEF record_start
  <2>. QED  BY <1>0, <1>1, <1>2, <2>1, <2>2 DEF InOrder
<1>5. CASE interrupt \/ reset
  <2>1. /\ period_begin_' = TP_MAX /\ long_period_begin_' = TP_MAX /\ long_period_end_' = TP_MIN
        /\ UNCHANGED <<now, upperbound_>>
    BY <1>5 DEF interrupt, reset
  <2>. QED  BY <1>0, <1>2, <2>1 DEF InOrder
<1>6. ASSUME NEW bound \in Bounds, set_upperbound(bound)
      PROVE  /\ upperbound_' \in Bounds /\ UNCHANGED <<now, periods>>
  BY <1>6 DEF set_upperbound
<1>7. CASE Tick
  <2>1. now < HORIZON /\ now' = now + 1 /\ UNCHANGED <<periods, upperbound_>>
    BY <1>7 DEF Tick
  <2>2. now' \in 0 .. HORIZON /\ now' \in Nat /\ now < now'
    BY <1>0, <2>1
  <2>. QED  BY <1>0, <1>1, <1>2, <2>1, <2>2 DEF InOrder
<1>8. CASE UNCHANGED <<now, periods>> /\ upperbound_' \in Bounds \cup {NO_BOUND}
  BY <1>0, <1>1, <1>2, <1>8 DEF InOrder
<1>9. ASSUME predict_unmerged \/ predict_merged \/ UNCHANGED vars
      PROVE  UNCHANGED <<now, periods, upperbound_>>
  BY <1>9 DEF predict_unmerged, predict_merged, vars
<1>. QED  BY <1>0, <1>3, <1>4, <1>5, <1>6, <1>7, <1>8, <1>9 DEF Next

LEMMA NextKeepers ==
  ASSUME KeepersInv, [Next]_vars
  PROVE  /\ measured' \subseteq Measurement /\ IsFiniteSet(measured')
         /\ \A m \in measured' : m.normal <= m.long
         /\ Keeps(normal_records', NormalOf(measured'), now')
         /\ Keeps(long_records', LongOf(measured'), now')
<1>. USE DEF keepers, ghosts
<1>0. /\ now \in Nat /\ measured \subseteq Measurement /\ IsFiniteSet(measured)
      /\ \A m \in measured : m.normal <= m.long
      /\ Keeps(normal_records, NormalOf(measured), now)
      /\ Keeps(long_records, LongOf(measured), now)
  BY PredictorAssumption DEF KeepersInv, TypeOK, Measurement
<1>1. CASE record_stop
  <2>1. PICK d \in Nat, e \in Nat :
          d = now - period_begin_ /\ e = now - long_period_begin_ /\ d <= e
    BY <1>1, StopMeasures
  <2>2. PICK k \in 0 .. Len(normal_records), l \in 0 .. Len(long_records) :
          /\ IsKept(normal_records, d, k) /\ IsKept(long_records, e, l)
          /\ normal_records' = add(normal_records, d, now, k)
          /\ long_records' = add(long_records, e, now, l)
          /\ measured' = measured \cup {[tp |-> now, normal |-> d, long |-> e]}
    BY <1>1, <2>1 DEF record_stop
  <2>3. now' = now
    BY <1>1 DEF record_stop
  <2>4. PICK m \in Measurement : /\ m = [tp |-> now, normal |-> d, long |-> e]
                                 /\ m.tp = now /\ m.normal = d /\ m.long = e
    <3>1. [tp |-> now, normal |-> d, long |-> e] \in Measurement
      BY <1>0 DEF Measurement
    <3>. QED  BY <3>1
  <2>5. measured' = measured \cup {m}
    BY <2>2, <2>4
  <2>6. NormalOf(measured') = NormalOf(measured) \cup {[tp |-> now, data |-> d]}
    BY <2>4, <2>5 DEF NormalOf
  <2>7. LongOf(measured') = LongOf(measured) \cup {[tp |-> now, data |-> e]}
    BY <2>4, <2>5 DEF LongOf
  <2>8. Keeps(add(normal_records, d, now, k), NormalOf(measured) \cup {[tp |-> now, data |-> d]}, now)
    BY <1>0, <2>2, AddKeeps
  <2>9. Keeps(add(long_records, e, now, l), LongOf(measured) \cup {[tp |-> now, data |-> e]}, now)
    BY <1>0, <2>2, AddKeeps
  <2>10. Keeps(normal_records', NormalOf(measured'), now')
    BY <2>2, <2>3, <2>6, <2>8
  <2>11. Keeps(long_records', LongOf(measured'), now')
    BY <2>2, <2>3, <2>7, <2>9
  <2>12. IsFiniteSet(measured')
    BY <1>0, <2>5, FS_AddElement
  <2>13. \A x \in measured' : x.normal <= x.long
    BY <1>0, <2>1, <2>4, <2>5
  <2>. QED  BY <1>0, <2>5, <2>10, <2>11, <2>12, <2>13
<1>2. CASE predict_unmerged
  <2>1. PICK k \in 0 .. Len(normal_records) :
          /\ IsDropped(normal_records, now, k)
          /\ normal_records' = drop_outdated(normal_records, k)
    BY <1>2 DEF predict_unmerged
  <2>2. UNCHANGED <<now, long_records, measured>>
    BY <1>2 DEF predict_unmerged
  <2>3. Keeps(drop_outdated(normal_records, k), NormalOf(measured), now)
    BY <1>0, <2>1, DropKeeps
  <2>. QED  BY <1>0, <2>1, <2>2, <2>3
<1>3. CASE predict_merged
  <2>1. PICK k \in 0 .. Len(long_records) :
          /\ IsDropped(long_records, now, k)
          /\ long_records' = drop_outdated(long_records, k)
    BY <1>3 DEF predict_merged
  <2>2. UNCHANGED <<now, normal_records, measured>>
    BY <1>3 DEF predict_merged
  <2>3. Keeps(drop_outdated(long_records, k), LongOf(measured), now)
    BY <1>0, <2>1, DropKeeps
  <2>. QED  BY <1>0, <2>1, <2>2, <2>3
<1>4. CASE reset
  <2>1. measured' = {} /\ normal_records' = <<>> /\ long_records' = <<>>
    BY <1>4 DEF reset
  <2>2. /\ IsFiniteSet(measured') /\ NormalOf(measured') = {} /\ LongOf(measured') = {}
    BY <2>1, FS_EmptySet DEF NormalOf, LongOf
  <2>3. Keeps(<<>>, {}, now')
    BY DEF Keeps
  <2>. QED  BY <2>1, <2>2, <2>3
<1>5. CASE Tick
  <2>1. now' = now + 1 /\ UNCHANGED <<normal_records, long_records, measured>>
    BY <1>5 DEF Tick
  <2>. QED  BY <1>0, <2>1, AgeKeeps
<1>6. CASE UNCHANGED <<now, normal_records, long_records, measured>>
  BY <1>0, <1>6
<1>7. ASSUME \/ record_start \/ interrupt \/ (\E bound \in Bounds : set_upperbound(bound))
             \/ UNCHANGED vars
      PROVE  UNCHANGED <<now, normal_records, long_records, measured>>
  BY <1>7 DEF record_start, interrupt, set_upperbound, vars
<1>. QED  BY <1>1, <1>2, <1>3, <1>4, <1>5, <1>6, <1>7 DEF Next

LEMMA NextBursts ==
  ASSUME KeepersInv, [Next]_vars
  PROVE  bursts' \subseteq [begin : Nat, end : Nat]
<1>0. bursts \subseteq [begin : Nat, end : Nat]
  BY DEF KeepersInv, TypeOK
<1>1. CASE record_stop
  <2>1. [begin |-> period_begin_, end |-> now] \in [begin : Nat, end : Nat]
    BY <1>1, StopMeasures
  <2>. QED  BY <1>0, <1>1, <2>1 DEF record_stop
<1>2. CASE ~record_stop
  BY <1>0, <1>2 DEF Next, record_start, interrupt, predict_unmerged, predict_merged,
                    set_upperbound, reset, Tick, vars, ghosts
<1>. QED  BY <1>1, <1>2

LEMMA NextKeepersInv == KeepersInv /\ [Next]_vars => KeepersInv'
<1>. SUFFICES ASSUME KeepersInv, [Next]_vars PROVE KeepersInv'
  OBVIOUS
<1>1. normal_records' \in Seq(Record) /\ long_records' \in Seq(Record)
  BY NextKeepers DEF Keeps
<1>2. TypeOK'
  BY <1>1, NextPeriods, NextKeepers, NextBursts DEF TypeOK, Measurement
<1>. QED  BY <1>2, NextPeriods, NextKeepers DEF KeepersInv

LEMMA InitKeepersInv == Init => KeepersInv
<1>. SUFFICES ASSUME Init PROVE KeepersInv
  OBVIOUS
<1>1. TypeOK
  BY PredictorAssumption DEF Init, TypeOK
<1>2. SentinelsUnused /\ InOrder
  BY DEF Init, SentinelsUnused, InOrder, ongoing_unmerged, ongoing_merged
<1>3. measured = {} /\ normal_records = <<>> /\ long_records = <<>>
  BY DEF Init
<1>4. NormalOf(measured) = {} /\ LongOf(measured) = {} /\ IsFiniteSet(measured)
  BY <1>3, FS_EmptySet DEF NormalOf, LongOf
<1>5. Keeps(<<>>, {}, now)
  BY DEF Keeps
<1>. QED  BY <1>1, <1>2, <1>3, <1>4, <1>5 DEF KeepersInv

\* The predictor's state keeps its types; above all, no duration it records is
\* negative.
THEOREM PredictorTypeCorrect == Spec => []TypeOK
<1>1. KeepersInv => TypeOK
  BY DEF KeepersInv
<1>. QED  BY <1>1, InitKeepersInv, NextKeepersInv, PTL DEF Spec

\* The forecasts as maxima over what was measured.
LEMMA ForecastsMean ==
  ASSUME KeepersInv
  PROVE  \/ /\ Recent = {} /\ Forecast(normal_records) = 0 /\ Forecast(long_records) = 0
         \/ /\ \E m \in Recent : Forecast(normal_records) = m.normal
            /\ \A m \in Recent : Forecast(normal_records) >= m.normal
            /\ \E m \in Recent : Forecast(long_records) = m.long
            /\ \A m \in Recent : Forecast(long_records) >= m.long
<1>0. now \in Nat /\ measured \subseteq Measurement
  BY PredictorAssumption DEF KeepersInv, TypeOK, Measurement
<1>1. \A m \in measured : m.tp \in Nat
  BY <1>0 DEF Measurement
<1>. DEFINE RN == {m \in NormalOf(measured) : ~Outdated(m, now)}
            RL == {m \in LongOf(measured) : ~Outdated(m, now)}
<1>2. /\ \A m \in Recent : [tp |-> m.tp, data |-> m.normal] \in RN
      /\ \A r \in RN : \E m \in Recent : r.data = m.normal
  BY <1>0, <1>1, PredictorAssumption DEF NormalOf, Recent, Outdated
<1>3. /\ \A m \in Recent : [tp |-> m.tp, data |-> m.long] \in RL
      /\ \A r \in RL : \E m \in Recent : r.data = m.long
  BY <1>0, <1>1, PredictorAssumption DEF LongOf, Recent, Outdated
<1>4. \/ RN = {} /\ Forecast(normal_records) = 0
      \/ /\ \E m \in RN : Forecast(normal_records) = m.data
         /\ \A m \in RN : Forecast(normal_records) >= m.data
  BY <1>0, ForecastMeans DEF KeepersInv
<1>5. \/ RL = {} /\ Forecast(long_records) = 0
      \/ /\ \E m \in RL : Forecast(long_records) = m.data
         /\ \A m \in RL : Forecast(long_records) >= m.data
  BY <1>0, ForecastMeans DEF KeepersInv
<1>. HIDE DEF RN, RL
<1>6. CASE Recent = {}
  <2>1. RN = {} /\ RL = {}
    BY <1>2, <1>3, <1>6
  <2>. QED  BY <1>4, <1>5, <1>6, <2>1
<1>7. CASE Recent # {}
  <2>1. RN # {} /\ RL # {}
    BY <1>2, <1>3, <1>7
  <2>2. \E m \in Recent : Forecast(normal_records) = m.normal
    BY <1>2, <1>4, <2>1
  <2>3. \A m \in Recent : Forecast(normal_records) >= m.normal
    BY <1>2, <1>4, <2>1
  <2>4. \E m \in Recent : Forecast(long_records) = m.long
    BY <1>3, <1>5, <2>1
  <2>5. \A m \in Recent : Forecast(long_records) >= m.long
    BY <1>3, <1>5, <2>1
  <2>. QED  BY <2>2, <2>3, <2>4, <2>5
<1>. QED  BY <1>6, <1>7

\* Each forecast is the longest measurement of the last VALID_TIME, for any
\* number of records: what add and drop_outdated throw away never mattered.
THEOREM ForecastsAreRecentMaxima == Spec => []ForecastIsRecentMax
<1>1. KeepersInv => ForecastIsRecentMax
  <2>. SUFFICES ASSUME KeepersInv PROVE ForecastIsRecentMax
    OBVIOUS
  <2>0. measured \subseteq Measurement
    BY DEF KeepersInv, TypeOK, Measurement
  <2>1. \A m \in Recent : m.normal \in Nat /\ m.long \in Nat
    BY <2>0 DEF Recent, Measurement
  <2>2. CASE Recent = {}
    BY <2>2, ForecastsMean DEF ForecastIsRecentMax, Longest
  <2>3. CASE Recent # {}
    <3>1. Forecast(normal_records) = Max({m.normal : m \in Recent})
      <4>1. PICK f : f = Forecast(normal_records)
        OBVIOUS
      <4>2. PICK S : S = {m.normal : m \in Recent}
        OBVIOUS
      <4>3. f \in S /\ (\A y \in S : f >= y) /\ S \subseteq Nat
        BY <2>1, <2>3, <4>1, <4>2, ForecastsMean
      <4>4. \A x \in S : (\A y \in S : x >= y) => x = f
        BY <4>3
      <4>5. Max(S) = f
        BY <4>3, <4>4 DEF Max
      <4>. QED  BY <4>1, <4>2, <4>5
    <3>2. Forecast(long_records) = Max({m.long : m \in Recent})
      <4>1. PICK f : f = Forecast(long_records)
        OBVIOUS
      <4>2. PICK S : S = {m.long : m \in Recent}
        OBVIOUS
      <4>3. f \in S /\ (\A y \in S : f >= y) /\ S \subseteq Nat
        BY <2>1, <2>3, <4>1, <4>2, ForecastsMean
      <4>4. \A x \in S : (\A y \in S : x >= y) => x = f
        BY <4>3
      <4>5. Max(S) = f
        BY <4>3, <4>4 DEF Max
      <4>. QED  BY <4>1, <4>2, <4>5
    <3>3. {m.normal : m \in Recent} # {} /\ {m.long : m \in Recent} # {}
      BY <2>3
    <3>. QED  BY <3>1, <3>2, <3>3 DEF ForecastIsRecentMax, Longest
  <2>. QED  BY <2>2, <2>3
<1>. QED  BY <1>1, InitKeepersInv, NextKeepersInv, PTL DEF Spec

\* The forecast that sizes the token request is never below the one that decides
\* whether to ask, at any time and for any sequence of bursts.
THEOREM MergedCovers == Spec => []MergedCoversUnmerged
<1>1. KeepersInv => MergedCoversUnmerged
  <2>. SUFFICES ASSUME KeepersInv PROVE MergedCoversUnmerged
    OBVIOUS
  <2>0. measured \subseteq Measurement
    BY DEF KeepersInv, TypeOK, Measurement
  <2>1. \A m \in Recent : m.normal \in Nat /\ m.long \in Nat /\ m.normal <= m.long
    BY <2>0 DEF Recent, Measurement, KeepersInv
  <2>2. CASE Recent = {}
    BY <2>2, ForecastsMean DEF MergedCoversUnmerged
  <2>3. CASE Recent # {}
    <3>1. PICK m \in Recent : Forecast(normal_records) = m.normal
      BY <2>3, ForecastsMean
    <3>2. Forecast(long_records) >= m.long /\ Forecast(long_records) \in Nat
      BY <2>1, <2>3, ForecastsMean
    <3>. QED  BY <2>1, <3>1, <3>2 DEF MergedCoversUnmerged
  <2>. QED  BY <2>2, <2>3
<1>. QED  BY <1>1, InitKeepersInv, NextKeepersInv, PTL DEF Spec

-----------------------------------------------------------------------------
(* LongBurstIsChain.  With L the beginning of the long burst: the bursts   *)
(* from L on are linked by short gaps up to the running one or to the last *)
(* end, the first of them begins at L, and any burst before L is cut off   *)
(* by one that nothing follows closely enough.                             *)

Follows(y, x) == y.begin >= x.end /\ y.begin - x.end <= MERGE_THRES

\* A finished burst ends before the next one begins.
BurstsInOrder ==
    \A x \in bursts : /\ x.begin <= x.end /\ x.end <= now
                      /\ ongoing_unmerged => x.end <= period_begin_

FirstBurst ==
    ongoing_merged => \/ \E b \in bursts : b.begin = long_period_begin_
                      \/ ongoing_unmerged /\ period_begin_ = long_period_begin_

Linked ==
    ongoing_merged => \A x \in bursts : x.begin >= long_period_begin_ =>
        \/ \E y \in bursts \ {x} : Follows(y, x)
        \/ ongoing_unmerged /\ period_begin_ - x.end <= MERGE_THRES
        \/ ~ongoing_unmerged /\ x.end = long_period_end_

CutOff ==
    ongoing_merged => \A b \in bursts : b.begin < long_period_begin_ =>
        \E x \in bursts : /\ b.begin <= x.begin
                          /\ long_period_begin_ - x.end > MERGE_THRES
                          /\ \A y \in bursts \ {x} :
                                y.begin < long_period_begin_ => y.begin < x.end

LastBurst ==
    ongoing_merged /\ ~ongoing_unmerged =>
        \E x \in bursts : /\ x.end = long_period_end_
                          /\ \A y \in bursts : y.begin <= x.begin
                          /\ \A y \in bursts \ {x} : y.begin < x.end

ChainInv ==
    /\ KeepersInv /\ BurstsInOrder /\ FirstBurst /\ Linked /\ CutOff /\ LastBurst
    /\ ~ongoing_merged => bursts = {}

LEMMA ChainTypes ==
  ASSUME ChainInv
  PROVE  /\ now \in Nat /\ now # TP_MAX /\ now # TP_MIN /\ MERGE_THRES \in Nat
         /\ ongoing_unmerged => /\ ongoing_merged /\ period_begin_ \in Nat
                                /\ long_period_begin_ <= period_begin_ /\ period_begin_ <= now
         /\ ongoing_merged => long_period_begin_ \in Nat /\ long_period_begin_ <= now
         /\ ongoing_merged /\ ~ongoing_unmerged => long_period_end_ \in Nat
         /\ \A x \in bursts : x.begin \in Nat /\ x.end \in Nat /\ x.begin <= x.end /\ x.end <= now
         /\ \A x, y \in bursts : x.begin = y.begin /\ x.end = y.end => x = y
BY PredictorAssumption DEF ChainInv, KeepersInv, TypeOK, InOrder, SentinelsUnused,
   ongoing_unmerged, ongoing_merged, BurstsInOrder

LEMMA StopKeepsChain ==
  ASSUME ChainInv, KeepersInv', record_stop
  PROVE  ChainInv'
<1>. USE DEF ongoing_unmerged, ongoing_merged
<1>0. /\ ongoing_unmerged /\ ongoing_merged
      /\ now \in Nat /\ period_begin_ \in Nat /\ long_period_begin_ \in Nat /\ MERGE_THRES \in Nat
      /\ long_period_begin_ <= period_begin_ /\ period_begin_ <= now
  BY ChainTypes DEF record_stop
<1>1. \A x \in bursts : x.begin \in Nat /\ x.end \in Nat /\ x.begin <= x.end
                        /\ x.end <= period_begin_
  BY <1>0, ChainTypes DEF ChainInv, BurstsInOrder
<1>2. PICK n \in [begin : Nat, end : Nat] : /\ n = [begin |-> period_begin_, end |-> now]
                                            /\ n.begin = period_begin_ /\ n.end = now
  <2>1. PICK n \in [begin : Nat, end : Nat] : n = [begin |-> period_begin_, end |-> now]
    BY <1>0
  <2>2. n.begin = period_begin_ /\ n.end = now
    BY <2>1
  <2>. QED  BY <2>1, <2>2
<1>3. /\ bursts' = bursts \cup {n} /\ period_begin_' = TP_MAX /\ long_period_end_' = now
      /\ UNCHANGED <<now, long_period_begin_>>
  BY <1>2 DEF record_stop
<1>4. ongoing_merged' /\ ~ongoing_unmerged'
  BY <1>0, <1>3
<1>5. BurstsInOrder'
  BY <1>0, <1>1, <1>2, <1>3, <1>4 DEF BurstsInOrder
<1>6. FirstBurst'
  BY <1>0, <1>2, <1>3 DEF ChainInv, FirstBurst
<1>7. ASSUME NEW x \in bursts', x.begin >= long_period_begin_, x.end # now
      PROVE  \E y \in bursts' \ {x} : Follows(y, x)
  <2>1. x \in bursts /\ x # n
    BY <1>2, <1>3, <1>7
  <2>2. CASE \E y \in bursts \ {x} : Follows(y, x)
    BY <1>3, <2>2
  <2>3. CASE period_begin_ - x.end <= MERGE_THRES
    <3>1. Follows(n, x)
      BY <1>1, <1>2, <2>1, <2>3 DEF Follows
    <3>. QED  BY <1>3, <2>1, <3>1
  <2>. QED  BY <1>0, <1>7, <2>1, <2>2, <2>3 DEF ChainInv, Linked
<1>8. Linked'
  BY <1>3, <1>4, <1>7 DEF Linked, Follows
<1>9. CutOff'
  <2>. SUFFICES ASSUME NEW b \in bursts', b.begin < long_period_begin_
                PROVE  \E x \in bursts' : /\ b.begin <= x.begin
                                          /\ long_period_begin_ - x.end > MERGE_THRES
                                          /\ \A y \in bursts' \ {x} :
                                                y.begin < long_period_begin_ => y.begin < x.end
    BY <1>3 DEF CutOff
  <2>1. b \in bursts
    BY <1>0, <1>2, <1>3
  <2>2. PICK x \in bursts : /\ b.begin <= x.begin
                            /\ long_period_begin_ - x.end > MERGE_THRES
                            /\ \A y \in bursts \ {x} :
                                  y.begin < long_period_begin_ => y.begin < x.end
    BY <1>0, <2>1 DEF ChainInv, CutOff
  <2>3. ~(n.begin < long_period_begin_)
    BY <1>0, <1>2
  <2>. QED  BY <1>3, <2>2, <2>3
<1>10. LastBurst'
  <2>1. \A y \in bursts : y.begin <= n.begin
    BY <1>0, <1>1, <1>2
  <2>2. ASSUME NEW y \in bursts, y # n PROVE y.begin < n.end
    <3>1. y \in [begin : Nat, end : Nat]
      BY DEF ChainInv, KeepersInv, TypeOK
    <3>2. ~(y.begin = n.begin /\ y.end = n.end)
      BY <2>2, <3>1
    <3>. QED  BY <1>0, <1>1, <1>2, <3>2
  <2>3. \A y \in bursts' : y.begin <= n.begin
    BY <1>2, <1>3, <2>1
  <2>4. \A y \in bursts' \ {n} : y.begin < n.end
    BY <1>3, <2>2
  <2>. QED  BY <1>2, <1>3, <2>3, <2>4 DEF LastBurst
<1>. QED  BY <1>4, <1>5, <1>6, <1>8, <1>9, <1>10 DEF ChainInv

LEMMA StartKeepsChain ==
  ASSUME ChainInv, KeepersInv', record_start
  PROVE  ChainInv'
<1>. USE DEF ongoing_unmerged, ongoing_merged
<1>0. /\ ~ongoing_unmerged /\ period_begin_' = now /\ UNCHANGED <<now, bursts>>
      /\ now \in Nat /\ now # TP_MAX /\ MERGE_THRES \in Nat
  BY ChainTypes DEF record_start, ghosts
<1>1. \A x \in bursts : x.begin \in Nat /\ x.end \in Nat /\ x.begin <= x.end /\ x.end <= now
  BY ChainTypes
<1>2. ongoing_unmerged'
  BY <1>0
<1>3. BurstsInOrder'
  BY <1>0, <1>1 DEF BurstsInOrder
<1>4. LastBurst'
  BY <1>2 DEF LastBurst
<1>5. CASE ongoing_merged
  <2>1. long_period_begin_ \in Nat /\ long_period_begin_ <= now /\ long_period_end_ \in Nat
    BY <1>0, <1>5, ChainTypes
  <2>2. LastTooLongAgo = {now - long_period_end_ > MERGE_THRES}
    BY <2>1, PredictorAssumption DEF LastTooLongAgo
  <2>3. PICK x \in bursts : /\ x.end = long_period_end_
                            /\ \A y \in bursts : y.begin <= x.begin
                            /\ \A y \in bursts \ {x} : y.begin < x.end
    BY <1>0, <1>5 DEF ChainInv, LastBurst
  <2>4. CASE now - long_period_end_ > MERGE_THRES
    <3>1. long_period_begin_' = now
      BY <2>2, <2>4 DEF record_start
    <3>2. \A b \in bursts : b.begin < now
      BY <1>0, <1>1, <2>3, <2>4
    <3>3. FirstBurst'
      BY <1>0, <3>1 DEF FirstBurst
    <3>4. Linked'
      BY <1>0, <1>1, <3>1, <3>2 DEF Linked
    <3>5. CutOff'
      BY <1>0, <1>1, <2>3, <2>4, <3>1 DEF CutOff
    <3>6. ongoing_merged'
      BY <1>0, <3>1
    <3>. QED  BY <1>3, <1>4, <3>3, <3>4, <3>5, <3>6 DEF ChainInv
  <2>5. CASE ~(now - long_period_end_ > MERGE_THRES)
    <3>1. UNCHANGED <<long_period_begin_, long_period_end_>>
      BY <1>5, <2>2, <2>5 DEF record_start
    <3>2. FirstBurst'
      BY <1>0, <1>5, <3>1 DEF ChainInv, FirstBurst
    <3>3. Linked'
      <4>1. ASSUME NEW z \in bursts, z.begin >= long_period_begin_
            PROVE  \/ \E y \in bursts \ {z} : Follows(y, z)
                   \/ now - z.end <= MERGE_THRES
        <5>1. CASE z.end = long_period_end_
          BY <1>0, <2>1, <2>5, <5>1
        <5>. QED  BY <1>0, <1>5, <4>1, <5>1 DEF ChainInv, Linked
      <4>. QED  BY <1>0, <1>2, <3>1, <4>1 DEF Linked, Follows
    <3>4. CutOff'
      BY <1>0, <1>5, <3>1 DEF ChainInv, CutOff
    <3>5. ongoing_merged'
      BY <1>5, <3>1
    <3>. QED  BY <1>3, <1>4, <3>2, <3>3, <3>4, <3>5 DEF ChainInv
  <2>. QED  BY <2>4, <2>5
<1>6. CASE ~ongoing_merged
  <2>1. bursts' = {}
    BY <1>0, <1>6 DEF ChainInv
  <2>2. long_period_begin_' = now
    BY <1>6 DEF record_start, LastTooLongAgo
  <2>. QED  BY <1>0, <1>3, <1>4, <2>1, <2>2 DEF ChainInv, FirstBurst, Linked, CutOff
<1>. QED  BY <1>5, <1>6

LEMMA NextChain == ChainInv /\ [Next]_vars => ChainInv'
<1>. SUFFICES ASSUME ChainInv, [Next]_vars PROVE ChainInv'
  OBVIOUS
<1>. USE DEF ongoing_unmerged, ongoing_merged, periods, ghosts
<1>0. KeepersInv /\ KeepersInv'
  BY NextKeepersInv DEF ChainInv
<1>1. CASE interrupt \/ reset
  <2>1. period_begin_' = TP_MAX /\ long_period_begin_' = TP_MAX /\ bursts' = {}
    BY <1>1 DEF interrupt, reset
  <2>. QED
    BY <1>0, <2>1 DEF ChainInv, BurstsInOrder, FirstBurst, Linked, CutOff, LastBurst
<1>2. CASE UNCHANGED <<periods, bursts>> /\ now' \in Nat /\ now <= now'
  <2>1. BurstsInOrder'
    BY <1>2, ChainTypes DEF ChainInv, BurstsInOrder
  <2>2. FirstBurst' /\ Linked' /\ CutOff' /\ LastBurst'
    BY <1>2 DEF ChainInv, FirstBurst, Linked, CutOff, LastBurst, Follows
  <2>. QED  BY <1>0, <1>2, <2>1, <2>2 DEF ChainInv
<1>3. now \in Nat
  BY ChainTypes
<1>4. ASSUME \/ predict_unmerged \/ predict_merged \/ (\E bound \in Bounds : set_upperbound(bound))
             \/ Tick \/ UNCHANGED vars
      PROVE  UNCHANGED <<periods, bursts>> /\ now' \in Nat /\ now <= now'
  BY <1>3, <1>4 DEF predict_unmerged, predict_merged, set_upperbound, Tick, vars
<1>. QED  BY <1>0, <1>1, <1>2, <1>4, StopKeepsChain, StartKeepsChain DEF Next

\* The long burst around the running burst begins with the first burst of the
\* unbroken chain that leads up to it: record_start decides by the last gap
\* alone, and that is enough for every sequence of bursts, interrupts and resets
\* (predictor.cpp:105-123), bursts of no length included.
THEOREM LongBurstsAreChains == Spec => []LongBurstIsChain
<1>1. Init => ChainInv
  <2>1. Init => /\ BurstsInOrder /\ FirstBurst /\ Linked /\ CutOff /\ LastBurst /\ bursts = {}
    BY DEF Init, BurstsInOrder, FirstBurst, Linked, CutOff, LastBurst, ongoing_merged,
           ongoing_unmerged
  <2>. QED  BY <2>1, InitKeepersInv DEF ChainInv
<1>2. ChainInv => LongBurstIsChain
  <2>. SUFFICES ASSUME ChainInv, ongoing_unmerged
                PROVE  LET all == bursts \cup {[begin |-> period_begin_, end |-> now + 1]}
                       IN  long_period_begin_ =
                             Min({b.begin : b \in {c \in all : Chained(c, all)}})
    BY DEF LongBurstIsChain
  <2>. DEFINE L == long_period_begin_
  <2>0. /\ now \in Nat /\ period_begin_ \in Nat /\ L \in Nat /\ MERGE_THRES \in Nat
        /\ L <= period_begin_ /\ period_begin_ <= now /\ ongoing_merged
    BY ChainTypes
  <2>1. \A x \in bursts : x.begin \in Nat /\ x.end \in Nat /\ x.begin <= x.end
                          /\ x.end <= period_begin_
    BY ChainTypes DEF ChainInv, BurstsInOrder
  <2>2. PICK run : /\ run = [begin |-> period_begin_, end |-> now + 1]
                   /\ run.begin = period_begin_ /\ run.end = now + 1
    <3>1. PICK run : run = [begin |-> period_begin_, end |-> now + 1]
      OBVIOUS
    <3>2. run.begin = period_begin_ /\ run.end = now + 1
      BY <3>1
    <3>. QED  BY <3>1, <3>2
  <2>3. PICK all : all = bursts \cup {run}
    OBVIOUS
  <2>4. \A x \in bursts : x # run
    BY <2>0, <2>1, <2>2
  <2>5. ASSUME NEW c \in all, c.begin = L PROVE Chained(c, all)
    <3>. SUFFICES ASSUME NEW x \in bursts, x.begin >= L
                  PROVE  \E y \in all \ {x} : y.begin >= x.end /\ y.begin - x.end <= MERGE_THRES
      BY <2>5 DEF Chained
    <3>1. CASE \E y \in bursts \ {x} : Follows(y, x)
      BY <2>3, <3>1 DEF Follows
    <3>2. CASE period_begin_ - x.end <= MERGE_THRES
      BY <2>1, <2>2, <2>3, <2>4, <3>2
    <3>. QED  BY <2>0, <3>1, <3>2 DEF ChainInv, Linked
  <2>6. ASSUME NEW c \in all, c.begin < L, Chained(c, all) PROVE FALSE
    <3>1. c \in bursts
      BY <2>0, <2>2, <2>3, <2>6
    <3>2. PICK x \in bursts : /\ c.begin <= x.begin
                              /\ L - x.end > MERGE_THRES
                              /\ \A y \in bursts \ {x} : y.begin < L => y.begin < x.end
      BY <2>0, <2>6, <3>1 DEF ChainInv, CutOff
    <3>3. PICK y \in all \ {x} : y.begin >= x.end /\ y.begin - x.end <= MERGE_THRES
      BY <2>1, <2>6, <3>1, <3>2 DEF Chained
    <3>4. CASE y = run
      BY <2>0, <2>1, <2>2, <3>2, <3>3, <3>4
    <3>5. CASE y \in bursts
      BY <2>0, <2>1, <3>2, <3>3, <3>5
    <3>. QED  BY <2>3, <3>3, <3>4, <3>5
  <2>7. \E c \in all : c.begin = L
    BY <2>0, <2>2, <2>3 DEF ChainInv, FirstBurst
  <2>8. PICK S : S = {b.begin : b \in {c \in all : Chained(c, all)}}
    OBVIOUS
  <2>9. S \subseteq Nat /\ L \in S /\ \A y \in S : L <= y
    <3>1. \A c \in all : c.begin \in Nat
      BY <2>0, <2>1, <2>2, <2>3
    <3>2. S \subseteq Nat
      BY <2>8, <3>1
    <3>3. L \in S
      BY <2>5, <2>7, <2>8
    <3>4. \A y \in S : ~(y < L)
      BY <2>6, <2>8
    <3>. QED  BY <2>0, <3>2, <3>3, <3>4
  <2>10. Min(S) = L
    <3>1. \A x \in S : (\A y \in S : x <= y) => x = L
      BY <2>9
    <3>. QED  BY <2>9, <3>1 DEF Min
  <2>. QED  BY <2>2, <2>3, <2>8, <2>10
<1>. QED  BY <1>1, <1>2, NextChain, PTL DEF Spec
=============================================================================
