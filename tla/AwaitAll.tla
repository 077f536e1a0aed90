------------------------------ MODULE AwaitAll ------------------------------
(* What a callback aggregator promises: the final callback runs once, with   *)
(* an error as soon as one of the awaited callbacks reports one, and without *)
(* an error only when every awaited callback has succeeded.                  *)
CONSTANT Keys

VARIABLES answer,        \* per key: "pending", "ok" or "error"
          verdict        \* the final callback: "none", "ok" or "error"

Init ==
  /\ answer = [k \in Keys |-> "pending"]
  /\ verdict = "none"

(* k answers; the verdict, if there is none yet, follows in the same step.   *)
Answer(k, res) ==
  /\ answer[k] = "pending"
  /\ answer' = [answer EXCEPT ![k] = res]
  /\ verdict' = IF verdict = "none" /\ res = "error" THEN "error"
                ELSE IF \A j \in Keys : answer'[j] = "ok" THEN "ok"
                ELSE verdict

Next == \E k \in Keys, res \in {"ok", "error"} : Answer(k, res)

Spec == Init /\ [][Next]_<<answer, verdict>> /\ WF_<<answer, verdict>>(Next)
=============================================================================
