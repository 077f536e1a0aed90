----------------------------- MODULE RetryQueue -----------------------------
(* The job tracker as the upload uses it: the number of indices given out,   *)
(* the failed ones that wait, in order, for another try, and the two         *)
(* counters the error rate is computed from.  JobTracker, which keeps every  *)
(* error it has ever seen in one list, implements this specification.        *)
EXTENDS Integers, Sequences

CONSTANT IndexCount

Indices == 0 .. IndexCount - 1

VARIABLES issued, retry, errors, completed

Init ==
  /\ issued = 0
  /\ retry = << >>
  /\ errors = 0
  /\ completed = 0

(* nextIndex() returns i: the next index never given out, else the oldest    *)
(* failed one.                                                               *)
Take(i) ==
  /\ \/ /\ issued < IndexCount /\ i = issued
        /\ issued' = issued + 1
        /\ UNCHANGED retry
     \/ /\ issued = IndexCount
        /\ retry # << >> /\ i = Head(retry)
        /\ retry' = Tail(retry)
        /\ UNCHANGED issued
  /\ UNCHANGED errors

(* nextIndex() returns undefined.                                            *)
NothingToTake == issued = IndexCount /\ retry = << >>

(* n calls of done(), which stops counting at IndexCount.                    *)
Complete(n) ==
  completed' = IF completed + n > IndexCount THEN IndexCount ELSE completed + n

(* error(i)                                                                  *)
Fail(i) ==
  /\ retry' = Append(retry, i)
  /\ errors' = errors + 1
  /\ UNCHANGED issued

Next ==
  \/ \E i \in Indices : Take(i) /\ UNCHANGED completed
  \/ \E i \in Indices : Fail(i) /\ UNCHANGED completed
  \/ Complete(1) /\ UNCHANGED <<issued, retry, errors>>

Spec == Init /\ [][Next]_<<issued, retry, errors, completed>>

(* getErrorRate() > num / den                                                *)
ErrorRateAbove(num, den, errs) ==
  errs > 0 /\ errs * den > num * (completed + errs)
=============================================================================
