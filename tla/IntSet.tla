------------------------------- MODULE IntSet -------------------------------
(* upload/intSet.js: sets of integers as sorted lists of intervals.  In the  *)
(* code the list is changed in place, so that whoever shares it sees it.     *)
EXTENDS Integers, Sequences

Intervals == [start : Int, end : Int]
Lists == Seq(Intervals)
Interval(start, end) == [start |-> start, end |-> end]

(* createIntSet(start, end)                                                  *)
CreateIntSet(start, end) == IF start > end THEN << >> ELSE <<Interval(start, end)>>

(* The check of createIntSet(ranges), which throws on any other list.        *)
WellFormed(v) ==
  \A i \in DOMAIN v : /\ v[i].start <= v[i].end
                      /\ i > 1 => v[i].start > v[i - 1].end

Disjoint(v, start, end) == v.start > end \/ v.end < start

Intersects(v, start, end) == \E i \in DOMAIN v : ~Disjoint(v[i], start, end)

(* Mutant: an interval that is split or cut keeps the first integer.         *)
WithoutKeepsFirst(v, start, end) ==
  IF Disjoint(v, start, end) THEN <<v>>
  ELSE CreateIntSet(v.start, start) \o CreateIntSet(end + 1, v.end)

(* Mutant: the two parts are put back in the wrong order.                    *)
WithoutSwapped(v, start, end) ==
  IF Disjoint(v, start, end) THEN <<v>>
  ELSE CreateIntSet(end + 1, v.end) \o CreateIntSet(v.start, start - 1)

(* What subtractInterval() leaves of one interval: all of it, nothing, the   *)
(* part before, the part after, or both.                                     *)
Without(v, start, end) ==
  IF Disjoint(v, start, end) THEN <<v>>
  ELSE CreateIntSet(v.start, start - 1) \o CreateIntSet(end + 1, v.end)

SubtractInterval(v, start, end) ==
  IF start > end THEN v
  ELSE LET left[i \in 0 .. Len(v)] ==
             IF i = 0 THEN << >> ELSE left[i - 1] \o Without(v[i], start, end)
       IN  left[Len(v)]

(* subtractRanges(); undefined is an empty list here: for-in passes over it. *)
SubtractRanges(v, ranges) ==
  LET rest[i \in 0 .. Len(ranges)] ==
        IF i = 0 THEN v
        ELSE SubtractInterval(rest[i - 1], ranges[i].start, ranges[i].end)
  IN  rest[Len(ranges)]

(* The integers a list stands for.                                           *)
Members(v) == UNION {v[i].start .. v[i].end : i \in DOMAIN v}

(* The list the service gives for a set of pages 0..n-1: its longest runs.   *)
IntervalsOf(S, n) ==
  LET runs[k \in 0 .. n] ==
        IF k = 0 THEN << >>
        ELSE IF k - 1 \notin S THEN runs[k - 1]
        ELSE IF k - 2 \in S THEN [runs[k - 1] EXCEPT ![Len(runs[k - 1])].end = k - 1]
        ELSE Append(runs[k - 1], Interval(k - 1, k - 1))
  IN  runs[n]
=============================================================================
