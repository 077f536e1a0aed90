------------------------------ MODULE WorkPool ------------------------------
(* What a job tracker promises to the workers that share it: every index is  *)
(* handed out in order, exactly once, and again only after it has failed;    *)
(* retries wait until every index has had its first try.                     *)
EXTENDS Integers

CONSTANT IndexCount

Indices == 0 .. IndexCount - 1

VARIABLE status

Init == status = [i \in Indices |-> "fresh"]

ClaimFresh(i) ==
  /\ status[i] = "fresh"
  /\ \A j \in 0 .. i - 1 : status[j] # "fresh"
  /\ status' = [status EXCEPT ![i] = "claimed"]

ClaimRetry(i) ==
  /\ status[i] = "failed"
  /\ \A j \in Indices : status[j] # "fresh"
  /\ status' = [status EXCEPT ![i] = "claimed"]

Complete(i) ==
  /\ status[i] = "claimed"
  /\ status' = [status EXCEPT ![i] = "done"]

Fail(i) ==
  /\ status[i] = "claimed"
  /\ status' = [status EXCEPT ![i] = "failed"]

Next == \E i \in Indices :
          ClaimFresh(i) \/ ClaimRetry(i) \/ Complete(i) \/ Fail(i)

Spec == Init /\ [][Next]_status
=============================================================================
