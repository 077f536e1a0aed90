------------------------- MODULE JobTracker_proofs --------------------------
(* Type correctness of the job tracker and its main safety property, for any *)
(* number of indices and workers: no index is ever in two places.            *)
EXTENDS JobTracker, SequenceTheorems, TLAPS

(* What a successful nextIndex() does to the position in the error list: a   *)
(* first try leaves it alone, a retry moves it by one.                       *)
LEMMA RetryPosition ==
  ASSUME TypeOK, NEW w \in Workers, NextIndex(w)
  PROVE  \/ /\ fullIndex + 1 < IndexCount
            /\ held'[w] = fullIndex + 1
            /\ RetryPos = 1 /\ RetryPos' = 1
         \/ /\ fullIndex + 1 >= IndexCount
            /\ RetryPos \in 1 .. Len(errorList)
            /\ held'[w] = errorList[RetryPos]
            /\ RetryPos' = RetryPos + 1
<1>1. CASE fullIndex + 1 < IndexCount
  BY <1>1, IndexCountAssumption DEF TypeOK, NextIndex, GetIndex, RetryPos
<1>2. CASE fullIndex + 1 >= IndexCount
  <2>1. fullIndex + 1 - IndexCount < Len(errorList)
    BY <1>2, IndexCountAssumption DEF TypeOK, NextIndex, GetIndex
  <2>2. GetIndex(fullIndex + 1) = errorList[fullIndex + 1 - IndexCount + 1]
    BY <1>2, <2>1, IndexCountAssumption DEF TypeOK, GetIndex
  <2>3. RetryPos = fullIndex + 1 - IndexCount + 1 /\ RetryPos' = RetryPos + 1
    BY <1>2, IndexCountAssumption DEF TypeOK, NextIndex, RetryPos
  <2>4. QED
    BY <1>2, <2>1, <2>2, <2>3, IndexCountAssumption DEF TypeOK, NextIndex
<1>3. QED
  BY <1>1, <1>2, IndexCountAssumption DEF TypeOK

(* The counters stay in range and only indices are handed out.               *)
THEOREM TypeCorrect == Spec => []TypeOK
<1> USE IndexCountAssumption DEF Indices, NoIndex
<1>1. Init => TypeOK
  BY DEF Init, TypeOK
<1>2. TypeOK /\ [Next]_vars => TypeOK'
  <2> SUFFICES ASSUME TypeOK, [Next]_vars PROVE TypeOK'
    OBVIOUS
  <2>1. ASSUME NEW w \in Workers, NextIndex(w) PROVE TypeOK'
    <3>1. held'[w] \in Indices /\ fullIndex' \in -1 .. IndexCount + Len(errorList) - 1
      BY <2>1, RetryPosition DEF TypeOK, NextIndex, GetIndex
    <3>2. QED
      BY <2>1, <3>1 DEF TypeOK, NextIndex
  <2>2. ASSUME NEW w \in Workers, GoIdle(w) PROVE TypeOK'
    BY <2>2 DEF TypeOK, GoIdle
  <2>3. ASSUME NEW w \in Workers, Done(w) PROVE TypeOK'
    BY <2>3 DEF TypeOK, Done
  <2>4. ASSUME NEW w \in Workers, Error(w) PROVE TypeOK'
    <3>1. errorList' \in Seq(Indices) /\ Len(errorList') = Len(errorList) + 1
      BY <2>4 DEF TypeOK, Error
    <3>2. QED
      BY <2>4, <3>1 DEF TypeOK, Error
  <2>5. CASE UNCHANGED vars
    BY <2>5 DEF TypeOK, vars
  <2>6. QED
    BY <2>1, <2>2, <2>3, <2>4, <2>5 DEF Next
<1>3. QED
  BY <1>1, <1>2, PTL DEF Spec

(* nextIndex() moves the index it returns from "not given out" or "waiting   *)
(* for a retry" to "held", and no other index.                               *)
LEMMA NextIndexMoves ==
  ASSUME TypeOK, OnePlace, NEW w \in Workers, NextIndex(w)
  PROVE  /\ held'[w] \in Indices
         /\ HeldIndices' = HeldIndices \cup {held'[w]}
         /\ \/ /\ held'[w] \in Unissued
               /\ \A j \in 0 .. held'[w] - 1 : j \notin Unissued
               /\ Unissued' = Unissued \ {held'[w]}
               /\ RetryIndices' = RetryIndices
               /\ RetryPos' = RetryPos
            \/ /\ held'[w] \in RetryIndices
               /\ Unissued = {} /\ Unissued' = {}
               /\ RetryIndices' = RetryIndices \ {held'[w]}
               /\ RetryPos' = RetryPos + 1 /\ RetryPos \in Nat
<1> USE IndexCountAssumption DEF Indices, NoIndex
<1> DEFINE i == held'[w]
<1>1. /\ UNCHANGED errorList /\ fullIndex' = fullIndex + 1 /\ fullIndex \in Int
      /\ held[w] = -1
      /\ \A v \in Workers \ {w} : held'[v] = held[v]
  BY DEF NextIndex, TypeOK
<1>2. i \in Indices
  BY RetryPosition DEF TypeOK
<1>3. HeldIndices' = HeldIndices \cup {i}
  BY <1>1, <1>2 DEF HeldIndices
<1>4. CASE fullIndex + 1 < IndexCount /\ i = fullIndex + 1 /\ RetryPos = 1 /\ RetryPos' = 1
  <2>1. i \in Unissued /\ Unissued' = Unissued \ {i} /\ \A j \in 0 .. i - 1 : j \notin Unissued
    BY <1>1, <1>4 DEF Unissued, TypeOK
  <2>2. RetryIndices' = RetryIndices
    BY <1>1, <1>4 DEF RetryIndices
  <2>3. QED
    BY <1>2, <1>3, <1>4, <2>1, <2>2
<1>5. CASE fullIndex + 1 >= IndexCount /\ RetryPos \in 1 .. Len(errorList)
           /\ i = errorList[RetryPos] /\ RetryPos' = RetryPos + 1
  <2>1. Unissued = {} /\ Unissued' = {}
    BY <1>1, <1>5 DEF Unissued, TypeOK
  <2>2. RetryPos .. Len(errorList) = {RetryPos} \cup (RetryPos + 1 .. Len(errorList))
    BY <1>5 DEF TypeOK
  <2>3. \A k \in RetryPos + 1 .. Len(errorList) : errorList[k] # i
    BY <1>5 DEF OnePlace, TypeOK
  <2>4. i \in RetryIndices /\ RetryIndices' = RetryIndices \ {i}
    BY <1>1, <1>5, <2>2, <2>3 DEF RetryIndices
  <2>5. QED
    BY <1>2, <1>3, <1>5, <2>1, <2>4
<1>6. QED
  BY <1>4, <1>5, RetryPosition

(* An answer takes the index of the worker out of "held".                    *)
LEMMA AnswerReleases ==
  ASSUME TypeOK, OnePlace, NEW w \in Workers, held[w] # NoIndex,
         held' = [held EXCEPT ![w] = NoIndex]
  PROVE  held[w] \in HeldIndices /\ HeldIndices' = HeldIndices \ {held[w]}
<1>1. \A v \in Workers : held'[v] = IF v = w THEN NoIndex ELSE held[v]
  BY DEF TypeOK
<1>2. \A v \in Workers \ {w} : held[v] # held[w]
  BY DEF OnePlace
<1>3. QED
  BY <1>1, <1>2 DEF HeldIndices

(* error() appends the index of the worker to those waiting for a retry.     *)
LEMMA ErrorAppends ==
  ASSUME TypeOK, NEW w \in Workers, Error(w)
  PROVE  /\ Len(errorList') = Len(errorList) + 1
         /\ errorList'[Len(errorList) + 1] = held[w]
         /\ \A k \in 1 .. Len(errorList) : errorList'[k] = errorList[k]
         /\ RetryPos' = RetryPos /\ RetryPos \in 1 .. Len(errorList) + 1
         /\ Unissued' = Unissued
         /\ RetryIndices' = RetryIndices \cup {held[w]}
<1> USE IndexCountAssumption DEF Indices, NoIndex
<1>1. /\ Len(errorList') = Len(errorList) + 1
      /\ errorList'[Len(errorList) + 1] = held[w]
      /\ \A k \in 1 .. Len(errorList) : errorList'[k] = errorList[k]
  BY DEF TypeOK, Error
<1>2. Unissued' = Unissued /\ RetryPos' = RetryPos /\ RetryPos \in 1 .. Len(errorList) + 1
  BY DEF TypeOK, Error, Unissued, RetryPos
<1>3. RetryPos .. Len(errorList') = (RetryPos .. Len(errorList)) \cup {Len(errorList) + 1}
  BY <1>1, <1>2 DEF TypeOK
<1>4. \A k \in RetryPos .. Len(errorList) : errorList'[k] = errorList[k]
  BY <1>1, <1>2 DEF TypeOK
<1>5. RetryIndices' = RetryIndices \cup {held[w]}
  BY <1>1, <1>2, <1>3, <1>4 DEF RetryIndices
<1>6. QED
  BY <1>1, <1>2, <1>5

(* No index is in two places: OnePlace is inductive on top of TypeOK.        *)
THEOREM NoIndexInTwoPlaces == Spec => []OnePlace
<1> USE IndexCountAssumption DEF Indices, NoIndex
<1>1. Init => OnePlace
  BY DEF Init, OnePlace, Unissued, RetryIndices, RetryPos
<1>2. TypeOK /\ TypeOK' /\ OnePlace /\ [Next]_vars => OnePlace'
  <2> SUFFICES ASSUME TypeOK, TypeOK', OnePlace, [Next]_vars PROVE OnePlace'
    OBVIOUS
  <2>1. ASSUME NEW w \in Workers, NextIndex(w) PROVE OnePlace'
    <3> DEFINE i == held'[w]
    <3>1. UNCHANGED errorList /\ \A v \in Workers \ {w} : held'[v] = held[v]
      BY <2>1 DEF NextIndex, TypeOK
    <3>2. /\ i \in Unissued \cup RetryIndices
          /\ i \notin Unissued' /\ i \notin RetryIndices'
          /\ Unissued' \subseteq Unissued /\ RetryIndices' \subseteq RetryIndices
          /\ RetryPos' = RetryPos \/ (RetryPos' = RetryPos + 1 /\ RetryPos \in Nat)
      BY <2>1, NextIndexMoves DEF OnePlace
    <3>3. \A j, k \in RetryPos' .. Len(errorList') : j # k => errorList'[j] # errorList'[k]
      BY <3>1, <3>2 DEF OnePlace, TypeOK
    <3>4. \A v \in Workers : held[v] # i
      BY <3>2 DEF OnePlace
    <3>5. QED
      BY <3>1, <3>2, <3>3, <3>4 DEF OnePlace
  <2>2. ASSUME NEW w \in Workers, GoIdle(w) PROVE OnePlace'
    BY <2>2 DEF OnePlace, TypeOK, GoIdle, Unissued, RetryIndices, RetryPos
  <2>3. ASSUME NEW w \in Workers, Done(w) PROVE OnePlace'
    <3>1. \A v \in Workers : held'[v] = IF v = w THEN -1 ELSE held[v]
      BY <2>3 DEF TypeOK, Done
    <3>2. -1 \notin RetryIndices /\ -1 \notin Unissued
      BY DEF TypeOK, RetryIndices, Unissued, RetryPos
    <3>3. RetryIndices' = RetryIndices /\ Unissued' = Unissued /\ RetryPos' = RetryPos
      BY <2>3 DEF Done, RetryIndices, Unissued, RetryPos
    <3>4. QED
      BY <2>3, <3>1, <3>2, <3>3 DEF OnePlace, TypeOK, Done
  <2>4. ASSUME NEW w \in Workers, Error(w) PROVE OnePlace'
    <3>1. \A v \in Workers : held'[v] = IF v = w THEN -1 ELSE held[v]
      BY <2>4 DEF TypeOK, Error
    <3>2. /\ Len(errorList') = Len(errorList) + 1
          /\ errorList'[Len(errorList) + 1] = held[w]
          /\ \A k \in 1 .. Len(errorList) : errorList'[k] = errorList[k]
          /\ RetryPos' = RetryPos /\ RetryPos \in 1 .. Len(errorList) + 1
          /\ Unissued' = Unissued
          /\ RetryIndices' = RetryIndices \cup {held[w]}
      BY <2>4, ErrorAppends
    <3>3. -1 \notin RetryIndices' /\ -1 \notin Unissued'
      <4>1. -1 \notin RetryIndices /\ -1 \notin Unissued
        BY DEF TypeOK, RetryIndices, Unissued, RetryPos
      <4>2. QED
        BY <2>4, <3>2, <4>1 DEF Error
    <3>4. \A j, k \in RetryPos' .. Len(errorList') : j # k => errorList'[j] # errorList'[k]
      <4>1. \A k \in RetryPos .. Len(errorList) : errorList[k] # held[w]
        BY DEF OnePlace, RetryIndices
      <4>2. \A j \in RetryPos .. Len(errorList') :
              j = Len(errorList) + 1 \/ (j \in RetryPos .. Len(errorList) /\ errorList'[j] = errorList[j])
        BY <3>2 DEF TypeOK
      <4>3. QED
        BY <3>2, <4>1, <4>2 DEF OnePlace
    <3>5. QED
      BY <2>4, <3>1, <3>2, <3>3, <3>4 DEF OnePlace, TypeOK, Error
  <2>5. CASE UNCHANGED vars
    BY <2>5 DEF OnePlace, vars, Unissued, RetryIndices, RetryPos
  <2>6. QED
    BY <2>1, <2>2, <2>3, <2>4, <2>5 DEF Next
<1>3. QED
  BY <1>1, <1>2, TypeCorrect, PTL DEF Spec

(* The tracker with its workers implements the pool of work: every step is a *)
(* step of WorkPool or leaves the status of every index as it is.            *)
THEOREM TrackerImplementsPool == Spec => ImplementsWorkPool
<1> USE IndexCountAssumption DEF Indices, NoIndex, Pool!Indices
<1>1. Init => Pool!Init
  BY DEF Init, Pool!Init, status, Unissued
<1>2. TypeOK /\ OnePlace /\ OnePlace' /\ [Next]_vars => [Pool!Next]_status
  <2> SUFFICES ASSUME TypeOK, OnePlace, OnePlace', [Next]_vars
               PROVE  Pool!Next \/ status' = status
    BY DEF Pool!Next
  <2>1. ASSUME NEW w \in Workers, NextIndex(w) PROVE Pool!Next
    <3> DEFINE i == held'[w]
    <3>1. i \in Indices /\ HeldIndices' = HeldIndices \cup {i}
      BY <2>1, NextIndexMoves
    <3>2. i \notin HeldIndices
      BY <2>1, NextIndexMoves DEF OnePlace, HeldIndices
    <3>3. CASE /\ i \in Unissued /\ \A j \in 0 .. i - 1 : j \notin Unissued
               /\ Unissued' = Unissued \ {i} /\ RetryIndices' = RetryIndices
      <4>1. status[i] = "fresh" /\ \A j \in 0 .. i - 1 : status[j] # "fresh"
        BY <3>1, <3>3 DEF status
      <4>2. status' = [status EXCEPT ![i] = "claimed"]
        BY <3>1, <3>2, <3>3 DEF status
      <4>3. QED
        BY <3>1, <4>1, <4>2 DEF Pool!Next, Pool!ClaimFresh
    <3>4. CASE /\ i \in RetryIndices /\ Unissued = {} /\ Unissued' = {}
               /\ RetryIndices' = RetryIndices \ {i}
      <4>1. status[i] = "failed" /\ \A j \in Indices : status[j] # "fresh"
        BY <3>1, <3>2, <3>4 DEF status
      <4>2. status' = [status EXCEPT ![i] = "claimed"]
        BY <3>1, <3>2, <3>4 DEF status
      <4>3. QED
        BY <3>1, <4>1, <4>2 DEF Pool!Next, Pool!ClaimRetry
    <3>5. QED
      BY <2>1, <3>3, <3>4, NextIndexMoves
  <2>2. ASSUME NEW w \in Workers, GoIdle(w) PROVE status' = status
    BY <2>2 DEF GoIdle, status, Unissued, HeldIndices, RetryIndices, RetryPos
  <2>3. ASSUME NEW w \in Workers, Done(w) PROVE Pool!Next
    <3> DEFINE i == held[w]
    <3>1. /\ i \in Indices /\ i \in HeldIndices /\ i \notin Unissued /\ i \notin RetryIndices
          /\ HeldIndices' = HeldIndices \ {i}
      BY <2>3, AnswerReleases DEF Done, TypeOK, OnePlace
    <3>2. Unissued' = Unissued /\ RetryIndices' = RetryIndices
      BY <2>3 DEF Done, Unissued, RetryIndices, RetryPos
    <3>3. status[i] = "claimed" /\ status' = [status EXCEPT ![i] = "done"]
      BY <3>1, <3>2 DEF status
    <3>4. QED
      BY <3>1, <3>3 DEF Pool!Next, Pool!Complete
  <2>4. ASSUME NEW w \in Workers, Error(w) PROVE Pool!Next
    <3> DEFINE i == held[w]
    <3>1. /\ i \in Indices /\ i \in HeldIndices /\ i \notin Unissued /\ i \notin RetryIndices
          /\ HeldIndices' = HeldIndices \ {i}
      BY <2>4, AnswerReleases DEF Error, TypeOK, OnePlace
    <3>2. Unissued' = Unissued /\ RetryIndices' = RetryIndices \cup {i}
      BY <2>4, ErrorAppends
    <3>3. status[i] = "claimed" /\ status' = [status EXCEPT ![i] = "failed"]
      BY <3>1, <3>2 DEF status
    <3>4. QED
      BY <3>1, <3>3 DEF Pool!Next, Pool!Fail
  <2>5. CASE UNCHANGED vars
    BY <2>5 DEF vars, status, Unissued, HeldIndices, RetryIndices, RetryPos
  <2>6. QED
    BY <2>1, <2>2, <2>3, <2>4, <2>5 DEF Next
<1>3. QED
  BY <1>1, <1>2, TypeCorrect, NoIndexInTwoPlaces, PTL
     DEF Spec, ImplementsWorkPool, Pool!Spec

(* The list of what waits is a part of the error list, perhaps empty.        *)
LEMMA WaitingList ==
  ASSUME TypeOK
  PROVE  /\ RetryPos \in 1 .. Len(errorList) + 1 /\ Len(errorList) \in Nat
         /\ retry \in Seq(Indices)
         /\ Len(retry) = Len(errorList) - RetryPos + 1
         /\ \A k \in 1 .. Len(retry) : retry[k] = errorList[RetryPos + k - 1]
<1>1. RetryPos \in 1 .. Len(errorList) + 1 /\ Len(errorList) \in Nat
  BY IndexCountAssumption DEF TypeOK, RetryPos
<1>2. \A k \in RetryPos .. Len(errorList) : errorList[k] \in Indices
  BY <1>1 DEF TypeOK
<1> QED
  BY <1>1, <1>2, SubSeqProperties DEF retry

(* nextIndex() takes the next index of either list.                          *)
LEMMA NextIndexTakes ==
  ASSUME TypeOK, NEW w \in Workers, NextIndex(w), held'[w] \in Indices
  PROVE  Queue!Take(held'[w])
<1>1. CASE fullIndex + 1 < IndexCount /\ held'[w] = fullIndex + 1 /\ RetryPos = 1 /\ RetryPos' = 1
  BY <1>1, IndexCountAssumption DEF TypeOK, NextIndex, Queue!Take, issued, retry, errors
<1>2. CASE /\ fullIndex + 1 >= IndexCount /\ RetryPos \in 1 .. Len(errorList)
           /\ held'[w] = errorList[RetryPos] /\ RetryPos' = RetryPos + 1
  <2>1. issued = IndexCount /\ issued' = issued
    BY <1>2, IndexCountAssumption DEF TypeOK, NextIndex, issued
  <2>2. Head(retry) = held'[w] /\ Tail(retry) = retry' /\ retry # << >>
    <3>1. errorList \in Seq(Indices) /\ Len(errorList) \in RetryPos .. Len(errorList)
      BY <1>2 DEF TypeOK
    <3>2. /\ Head(retry) = errorList[RetryPos]
          /\ Tail(retry) = SubSeq(errorList, RetryPos + 1, Len(errorList))
      BY <1>2, <3>1, HeadTailOfSubSeq DEF retry
    <3>3. Len(retry) > 0
      BY <1>2, WaitingList
    <3>4. retry' = SubSeq(errorList, RetryPos + 1, Len(errorList))
      BY <1>2 DEF NextIndex, retry
    <3>5. retry # << >>
      BY <3>3
    <3> QED
      BY <1>2, <3>2, <3>4, <3>5
  <2> QED
    BY <2>1, <2>2 DEF NextIndex, Queue!Take, errors
<1> QED
  BY <1>1, <1>2, RetryPosition

(* error() puts the index of the worker at the end of what waits.            *)
LEMMA ErrorFails ==
  ASSUME TypeOK, NEW w \in Workers, Error(w)
  PROVE  held[w] \in Indices /\ Queue!Fail(held[w])
<1>1. held[w] \in Indices
  BY DEF TypeOK, Error
<1>2. errorList' = Append(errorList, held[w]) /\ UNCHANGED fullIndex
  BY DEF Error
<1>3. /\ Len(errorList') = Len(errorList) + 1 /\ RetryPos' = RetryPos
      /\ \A k \in 1 .. Len(errorList) : errorList'[k] = errorList[k]
      /\ errorList'[Len(errorList) + 1] = held[w]
  BY ErrorAppends
<1>4. /\ RetryPos' \in 1 .. Len(errorList') + 1
      /\ retry' \in Seq(Indices)
      /\ Len(retry') = Len(errorList') - RetryPos' + 1
      /\ \A k \in 1 .. Len(retry') : retry'[k] = errorList'[RetryPos' + k - 1]
  <2>1. errorList' \in Seq(Indices)
    BY <1>1, <1>2 DEF TypeOK
  <2>2. RetryPos' \in 1 .. Len(errorList') + 1 /\ Len(errorList') \in Nat
    BY <1>3, WaitingList
  <2>3. \A k \in RetryPos' .. Len(errorList') : errorList'[k] \in Indices
    BY <2>1, <2>2
  <2> QED
    BY <2>2, <2>3, SubSeqProperties DEF retry
<1>5. retry' = Append(retry, held[w])
  <2> DEFINE longer == Append(retry, held[w])
  <2>1. /\ longer \in Seq(Indices) /\ Len(longer) = Len(retry) + 1
        /\ \A k \in 1 .. Len(retry) : longer[k] = retry[k]
        /\ longer[Len(retry) + 1] = held[w]
    BY <1>1, WaitingList, AppendProperties
  <2> HIDE DEF longer
  <2> DEFINE n == Len(errorList) - RetryPos + 1
  <2>2. /\ n \in Nat /\ Len(retry) = n /\ Len(longer) = n + 1 /\ Len(retry') = n + 1
        /\ RetryPos \in Nat /\ RetryPos + n = Len(errorList) + 1
    <3>1. RetryPos \in 1 .. Len(errorList) + 1 /\ Len(errorList) \in Nat /\ Len(retry) = n
      BY WaitingList
    <3>2. Len(retry') = Len(errorList) + 1 - RetryPos + 1
      BY <1>3, <1>4
    <3>3. n \in Nat /\ Len(retry') = n + 1 /\ RetryPos \in Nat /\ RetryPos + n = Len(errorList) + 1
      BY <3>1, <3>2
    <3>4. Len(longer) = n + 1
      BY <2>1, <3>1
    <3> QED
      BY <3>1, <3>3, <3>4
  <2> HIDE DEF n
  <2>3. ASSUME NEW k \in 1 .. n + 1 PROVE retry'[k] = longer[k]
    <3>1. retry'[k] = errorList'[RetryPos + k - 1]
      BY <1>3, <1>4, <2>2
    <3>2. CASE k \in 1 .. n
      <4>1. RetryPos + k - 1 \in 1 .. Len(errorList)
        BY <2>2, <3>2, WaitingList
      <4> QED
        BY <1>3, <2>1, <2>2, <3>1, <3>2, <4>1, WaitingList
    <3>3. CASE k = n + 1
      BY <1>3, <2>1, <2>2, <3>1, <3>3, WaitingList
    <3> QED
      BY <2>2, <3>2, <3>3
  <2>4. retry' = longer
    BY <1>4, <2>1, <2>2, <2>3, SeqEqual
  <2> QED
    BY <2>4 DEF longer
<1> QED
  BY <1>1, <1>2, <1>3, <1>5 DEF Queue!Fail, errors, issued

(* The one counter over two lists behaves in every call like a counter and a *)
(* queue (jobTracker.js, nextIndex()): the upload may rely on the queue.     *)
THEOREM TrackerImplementsQueue == Spec => ImplementsRetryQueue
<1>1. Init => Queue!Init
  BY IndexCountAssumption DEF Init, Queue!Init, issued, retry, errors, RetryPos
<1>2. TypeOK /\ OnePlace /\ [Next]_vars
        => [Queue!Next]_<<issued, retry, errors, completed>>
  <2> SUFFICES ASSUME TypeOK, OnePlace, [Next]_vars
               PROVE  Queue!Next \/ UNCHANGED <<issued, retry, errors, completed>>
    OBVIOUS
  <2>1. ASSUME NEW w \in Workers, NextIndex(w) PROVE Queue!Next
    <3>1. held'[w] \in Indices
      BY <2>1, NextIndexMoves
    <3> QED
      BY <2>1, <3>1, NextIndexTakes DEF NextIndex, Queue!Next, Queue!Indices, Indices
  <2>2. ASSUME NEW w \in Workers, GoIdle(w)
        PROVE  UNCHANGED <<issued, retry, errors, completed>>
    BY <2>2 DEF GoIdle, issued, retry, errors, RetryPos
  <2>3. ASSUME NEW w \in Workers, Done(w) PROVE Queue!Next
    BY <2>3, IndexCountAssumption
       DEF TypeOK, Done, Queue!Next, Queue!Complete, issued, retry, errors, RetryPos
  <2>4. ASSUME NEW w \in Workers, Error(w) PROVE Queue!Next
    BY <2>4, ErrorFails DEF Error, Queue!Next, Queue!Indices, Indices
  <2>5. CASE UNCHANGED vars
    BY <2>5 DEF vars, issued, retry, errors, RetryPos
  <2> QED
    BY <2>1, <2>2, <2>3, <2>4, <2>5 DEF Next
<1> QED
  BY <1>1, <1>2, TypeCorrect, NoIndexInTwoPlaces, PTL
     DEF Spec, ImplementsRetryQueue, Queue!Spec
=============================================================================
