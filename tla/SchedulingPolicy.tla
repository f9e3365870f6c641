-------------------------- MODULE SchedulingPolicy --------------------------
(***************************************************************************)
(* The pure half of select_candidate() (scheduler.cpp) and the comparator  *)
(* schd_priority() (schd-priority.cpp): how much GPU time every client has *)
(* used inside the sliding window, which waiting requests are still under  *)
(* their LIMIT, and which of those gets the token.                         *)
(*                                                                         *)
(* Times are integers.  The history list is a set of slots                 *)
(*     [name |-> client, start |-> time, end |-> time]                     *)
(* whose list order is the order of the starts.  Fractions are integers in *)
(* units of 1/FRAC_UNIT.  Usages, and the amounts compared with them, are  *)
(* integers in units of 1/UNIT of a tick, so that sharing a tick between   *)
(* up to six overlapping slots is exact.                                   *)
(***************************************************************************)
EXTENDS Integers, FiniteSets, FiniteSetsExt, Functions

CONSTANTS WINDOW_SIZE, FRAC_UNIT

ASSUME WindowAssumption == WINDOW_SIZE \in Nat \ {0}
ASSUME FracUnitAssumption == FRAC_UNIT \in Nat \ {0}

SHARE == 60
UNIT == SHARE * FRAC_UNIT

-----------------------------------------------------------------------------
(* The sliding window.                                                     *)

window_start(now) == now - WINDOW_SIZE

\* Before one whole window has elapsed, fractions are taken of the time so far.
window_size(now) == IF window_start(now) < 0 THEN now ELSE WINDOW_SIZE

\* history_list.remove_if(beyond_window)
BeyondWindow(h, now) == h.end < window_start(now)

InWindow(hist, now) == {h \in hist : ~BeyondWindow(h, now)}

SlotsOf(hist, name) == {h \in hist : h.name = name}

-----------------------------------------------------------------------------
(***************************************************************************)
(* The sweep.  timestamp_vector holds both ends of every slot; the sweep   *)
(* stops at each one after window_start and divides the stretch since the  *)
(* previous stop among the entries of overlap_check_vector.  Every         *)
(* timestamp at or before window_start, an end included, enters the vector *)
(* as a start; every later end takes one entry of its client out.          *)
(***************************************************************************)
Stops(hist, ws) ==
    {ws} \cup {t \in {h.start : h \in hist} \cup {h.end : h \in hist} : t > ws}

\* Fault: an end takes no entry out again.
OverlapNeverEnds(slots, ws, t) ==
      Cardinality({h \in slots : h.start <= t})
    + Cardinality({h \in slots : h.end <= ws})

\* Occurrences of the slots' owners in overlap_check_vector once every
\* timestamp up to t is processed.
OverlapEntries(slots, ws, t) ==
      Cardinality({h \in slots : h.start <= t})
    + Cardinality({h \in slots : h.end <= ws})
    - Cardinality({h \in slots : ws < h.end /\ h.end <= t})

\* What name gets of the stretch from stop t to the next one.
StretchShare(hist, name, ws, t) ==
    LET overlap_cnt == OverlapEntries(hist, ws, t)
        mine == OverlapEntries(SlotsOf(hist, name), ws, t)
        length == Min({s \in Stops(hist, ws) : s > t}) - t
    IN  IF mine = 0 THEN 0 ELSE (UNIT * mine * length) \div overlap_cnt

\* usage[name] when the sweep of the pruned list ends.
usage(hist, name, now) ==
    LET ws == window_start(now)
        stops == Stops(hist, ws)
    IN  SumFunction([t \in stops \ {Max(stops)} |-> StretchShare(hist, name, ws, t)])

\* What the sweep is meant to compute, tick by tick: a tick of the window is
\* divided equally among the slots that cover it.
Covering(slots, t) == Cardinality({h \in slots : h.start <= t /\ t < h.end})

TickShare(hist, name, t) ==
    LET mine == Covering(SlotsOf(hist, name), t)
    IN  IF mine = 0 THEN 0 ELSE (UNIT * mine) \div Covering(hist, t)

\* At most six slots at any time: up to there this arithmetic shares exactly.
Shareable(hist) == \A t \in {h.start : h \in hist} : Covering(hist, t) <= 6

ReferenceUsage(hist, name, now) ==
    LET ws == window_start(now)
        last == Max({h.end : h \in hist} \cup {ws})
    IN  SumFunction([t \in ws .. (last - 1) |-> TickShare(hist, name, t)])

-----------------------------------------------------------------------------
(* Requirement, limit and the order among valid candidates.                *)

missing(min_frac, used, now) == min_frac * window_size(now) * SHARE - used
remaining(max_frac, used, now) == max_frac * window_size(now) * SHARE - used

\* Fault: least used first, whatever the requirements.
PriorityByUsage(a, b) == a.usage < b.usage

\* a and b carry the fields missing and usage; the two quotients
\* missing / (missing + usage) are compared by cross-multiplication.
schd_priority(a, b) ==
    IF a.missing > 0 /\ b.missing > 0
    THEN a.missing * (b.missing + b.usage) > b.missing * (a.missing + a.usage)
    ELSE IF a.missing > 0 /\ b.missing < 0 THEN TRUE
    ELSE IF a.missing < 0 /\ b.missing > 0 THEN FALSE
    ELSE a.usage < b.usage

Incomparable(a, b) == ~schd_priority(a, b) /\ ~schd_priority(b, a)

\* What std::sort requires of its comparator on the elements it is given.
IsStrictWeakOrder(S) ==
    /\ \A a \in S : ~schd_priority(a, a)
    /\ \A a, b, c \in S :
          /\ schd_priority(a, b) /\ schd_priority(b, c) => schd_priority(a, c)
          /\ Incomparable(a, b) /\ Incomparable(b, c) => Incomparable(a, c)

\* The valid candidates std::sort may put first.  The sort is not stable, so
\* ties go either way; on elements that schd_priority does not order, the
\* result of the sort is undefined and any of them may come first.
SortedFirst(S) ==
    IF IsStrictWeakOrder(S)
    THEN {a \in S : \A b \in S : ~schd_priority(b, a)}
    ELSE S
=============================================================================
