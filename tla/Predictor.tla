------------------------------ MODULE Predictor ------------------------------
(***************************************************************************)
(* The kernel-burst predictor of the hook library (predictor.cpp): bursts  *)
(* begin and stop, bursts a short gap apart merge into a long one, and the *)
(* longest burst, and long burst, of the last VALID_TIME is the forecast.  *)
(* Each method runs under the predictor's mutex and is one action.  A tick *)
(* is a millisecond.                                                       *)
(***************************************************************************)
EXTENDS Integers, Sequences, FiniteSets, FiniteSetsExt

CONSTANTS
    VALID_TIME,    \* PREDICT_MAX_KEEP, how long a record counts
    MERGE_THRES,   \* bursts at most this far apart are one long burst
    Bounds,        \* arguments of set_upperbound
    TP_MAX,        \* timepoint_t::max(), "no such time"
    TP_MIN,        \* timepoint_t::min(), "no such time"
    NO_BOUND,      \* the largest double
    MAX_BURSTS,    \* bound: records made before the next reset
    HORIZON        \* bound: last time of the model

ASSUME PredictorAssumption ==
    /\ VALID_TIME \in Nat /\ MERGE_THRES \in Nat /\ HORIZON \in Nat /\ MAX_BURSTS \in Nat
    /\ Bounds \subseteq Nat
    /\ TP_MAX \notin Int /\ TP_MIN \notin Int /\ NO_BOUND \notin Int

VARIABLES
    now,                 \* steady_clock::now()
    period_begin_, long_period_begin_, long_period_end_,
    normal_records, long_records,    \* the two RecordKeepers' deques
    upperbound_,
    measured,            \* ghost: every record made since the last reset
    bursts               \* ghost: finished bursts since the last interrupt

periods == <<period_begin_, long_period_begin_, long_period_end_>>
keepers == <<normal_records, long_records>>
ghosts == <<measured, bursts>>
vars == <<now, periods, keepers, upperbound_, ghosts>>

Record == [tp : Nat, data : Nat]

TypeOK ==
    /\ now \in 0 .. HORIZON
    /\ period_begin_ \in Nat \cup {TP_MAX}
    /\ long_period_begin_ \in Nat \cup {TP_MAX}
    /\ long_period_end_ \in Nat \cup {TP_MIN}
    /\ normal_records \in Seq(Record) /\ long_records \in Seq(Record)
    /\ upperbound_ \in Bounds \cup {NO_BOUND}
    /\ measured \subseteq [tp : Nat, normal : Nat, long : Nat]
    /\ bursts \subseteq [begin : Nat, end : Nat]

-----------------------------------------------------------------------------
(* RecordKeeper.                                                           *)

\* add pops the smaller records off the back: k entries stay.
IsKept(records, data, k) ==
    /\ k \in 0 .. Len(records)
    /\ \A i \in (k + 1) .. Len(records) : records[i].data < data
    /\ k > 0 => records[k].data >= data

add(records, data, tp, k) ==
    Append(SubSeq(records, 1, k), [tp |-> tp, data |-> data])

\* Fault: one millisecond early.
OutdatedEarly(r, tp) == tp - r.tp >= VALID_TIME

Outdated(r, tp) == tp - r.tp > VALID_TIME

\* drop_outdated pops outdated records off the front: k of them.
IsDropped(records, tp, k) ==
    /\ k \in 0 .. Len(records)
    /\ \A i \in 1 .. k : Outdated(records[i], tp)
    /\ k < Len(records) => ~Outdated(records[k + 1], tp)

drop_outdated(records, k) == SubSeq(records, k + 1, Len(records))

get_max(records) == IF records = <<>> THEN 0 ELSE Head(records).data

-----------------------------------------------------------------------------
(* Predictor.                                                              *)

ongoing_unmerged == period_begin_ # TP_MAX
ongoing_merged == long_period_begin_ # TP_MAX

\* The model's bound on records.
RoomForRecord ==
    /\ Cardinality(measured) < MAX_BURSTS
    /\ Len(normal_records) < MAX_BURSTS /\ Len(long_records) < MAX_BURSTS

\* A burst ends: its length, and that of the long burst so far, are recorded.
record_stop ==
    /\ RoomForRecord
    /\ ongoing_unmerged
    /\ long_period_end_' = now
    /\ \E k \in 0 .. Len(normal_records), l \in 0 .. Len(long_records) :
        LET duration == now - period_begin_
            long_duration == now - long_period_begin_
        IN  /\ IsKept(normal_records, duration, k) /\ IsKept(long_records, long_duration, l)
            /\ normal_records' = add(normal_records, duration, now, k)
            /\ long_records' = add(long_records, long_duration, now, l)
            /\ measured' = measured \cup
                 {[tp |-> now, normal |-> duration, long |-> long_duration]}
    /\ bursts' = bursts \cup {[begin |-> period_begin_, end |-> now]}
    /\ period_begin_' = TP_MAX
    /\ UNCHANGED <<now, long_period_begin_, upperbound_>>

\* Fault: a gap of exactly MERGE_THRES separates.
LastJustTooLongAgo ==
    IF long_period_end_ = TP_MIN THEN BOOLEAN ELSE {now - long_period_end_ >= MERGE_THRES}

\* intv > MERGE_THRES; the subtraction of timepoint_t::min() overflows and
\* may come out either way.
LastTooLongAgo ==
    IF long_period_end_ = TP_MIN THEN BOOLEAN ELSE {now - long_period_end_ > MERGE_THRES}

\* Fault: the guard protects the burst only, not the long burst.
StartRestartsLong ==
    /\ period_begin_' = IF ongoing_unmerged THEN period_begin_ ELSE now
    /\ \E too_long_ago \in LastTooLongAgo :
         IF ~ongoing_merged \/ too_long_ago
         THEN long_period_begin_' = now /\ long_period_end_' = TP_MIN
         ELSE UNCHANGED <<long_period_begin_, long_period_end_>>
    /\ UNCHANGED <<now, keepers, upperbound_, ghosts>>

\* A burst begins, and with it a long burst unless it joins the last one.
record_start ==
    /\ ~ongoing_unmerged
    /\ period_begin_' = now
    /\ \E too_long_ago \in LastTooLongAgo :
         IF ~ongoing_merged \/ too_long_ago
         THEN long_period_begin_' = now /\ long_period_end_' = TP_MIN
         ELSE UNCHANGED <<long_period_begin_, long_period_end_>>
    /\ UNCHANGED <<now, keepers, upperbound_, ghosts>>

\* Fault: the wrong sentinel.
InterruptSwapped ==
    /\ period_begin_' = TP_MAX
    /\ long_period_begin_' = TP_MAX /\ long_period_end_' = TP_MAX
    /\ bursts' = {}
    /\ UNCHANGED <<now, keepers, upperbound_, measured>>

\* Fault: the long burst goes on.
InterruptHalf ==
    /\ period_begin_' = TP_MAX
    /\ long_period_end_' = TP_MIN
    /\ bursts' = {}
    /\ UNCHANGED <<now, long_period_begin_, keepers, upperbound_, measured>>

interrupt ==
    /\ period_begin_' = TP_MAX
    /\ long_period_begin_' = TP_MAX /\ long_period_end_' = TP_MIN
    /\ bursts' = {}
    /\ UNCHANGED <<now, keepers, upperbound_, measured>>

predict_unmerged ==
    /\ \E k \in 0 .. Len(normal_records) :
         /\ IsDropped(normal_records, now, k)
         /\ normal_records' = drop_outdated(normal_records, k)
    /\ UNCHANGED <<now, periods, long_records, upperbound_, ghosts>>

predict_merged ==
    /\ \E k \in 0 .. Len(long_records) :
         /\ IsDropped(long_records, now, k)
         /\ long_records' = drop_outdated(long_records, k)
    /\ UNCHANGED <<now, periods, normal_records, upperbound_, ghosts>>

set_upperbound(bound) ==
    /\ upperbound_' = bound
    /\ UNCHANGED <<now, periods, keepers, ghosts>>

reset ==
    /\ normal_records' = <<>> /\ long_records' = <<>>
    /\ period_begin_' = TP_MAX
    /\ long_period_begin_' = TP_MAX /\ long_period_end_' = TP_MIN
    /\ measured' = {} /\ bursts' = {}
    /\ UNCHANGED <<now, upperbound_>>

Tick ==
    /\ now < HORIZON
    /\ now' = now + 1
    /\ UNCHANGED <<periods, keepers, upperbound_, ghosts>>

Init ==
    /\ now = 0
    /\ period_begin_ = TP_MAX
    /\ long_period_begin_ = TP_MAX /\ long_period_end_ = TP_MIN
    /\ normal_records = <<>> /\ long_records = <<>>
    /\ upperbound_ = NO_BOUND
    /\ measured = {} /\ bursts = {}

Next ==
    \/ record_stop \/ record_start \/ interrupt
    \/ predict_unmerged \/ predict_merged
    \/ \E bound \in Bounds : set_upperbound(bound)
    \/ reset \/ Tick

Spec == Init /\ [][Next]_vars

-----------------------------------------------------------------------------
(* Properties.                                                             *)

Longest(lengths) == IF lengths = {} THEN 0 ELSE Max(lengths)

Recent == {m \in measured : now - m.tp <= VALID_TIME}

\* What a call of predict_unmerged or predict_merged at this moment returns.
Forecast(records) ==
    LET k == CHOOSE j \in 0 .. Len(records) : IsDropped(records, now, j)
    IN  get_max(drop_outdated(records, k))

\* The forecast is the longest record of the last VALID_TIME, although add has
\* thrown away every record that a later and longer one overtook.
ForecastIsRecentMax ==
    /\ Forecast(normal_records) = Longest({m.normal : m \in Recent})
    /\ Forecast(long_records) = Longest({m.long : m \in Recent})

\* The merged forecast, which sizes the token request (hook.cpp:545), is never
\* shorter than the unmerged one, which decides whether to ask (hook.cpp:542).
MergedCoversUnmerged == Forecast(normal_records) <= Forecast(long_records)

\* The two sentinels never enter a measurement or a decision: a running burst
\* has a long burst around it, and between two bursts of a long one the end of
\* the last is known, so the overflowing interval at predictor.cpp:112 is
\* computed only where the other disjunct decides.
SentinelsUnused ==
    /\ ongoing_unmerged => ongoing_merged
    /\ ongoing_merged /\ ~ongoing_unmerged => long_period_end_ # TP_MIN

\* b and the bursts after it, up to the running one, follow one another with
\* gaps of at most MERGE_THRES.
Chained(b, all) ==
    \A x \in bursts : x.begin >= b.begin =>
        \E y \in all \ {x} : y.begin >= x.end /\ y.begin - x.end <= MERGE_THRES

\* The long burst around the running burst begins with the first burst of the
\* unbroken chain that leads up to it.
LongBurstIsChain ==
    ongoing_unmerged =>
        LET all == bursts \cup {[begin |-> period_begin_, end |-> now + 1]}
        IN  long_period_begin_ = Min({b.begin : b \in {c \in all : Chained(c, all)}})
=============================================================================
