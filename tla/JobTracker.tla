----------------------------- MODULE JobTracker -----------------------------
(* The job tracker of the page blob upload (upload/jobTracker.js) together   *)
(* with the workers that call it (next() and toNext() in pageBlob.js).       *)
(*                                                                           *)
(* One counter, fullIndex, walks first over the indices 0..IndexCount-1 and  *)
(* then over the list of failed indices, whose consumed prefix is kept; the  *)
(* undefined that JavaScript reads past the end of that list means "nothing  *)
(* to do now".                                                               *)
EXTENDS Integers, Sequences, FiniteSets

CONSTANTS IndexCount,    \* number of blocks to upload (totalBlocks)
          Workers,       \* the parallel connections ("threads")
          MaxErrors      \* bound: failed requests in one behaviour

ASSUME IndexCountAssumption == IndexCount \in Nat \ {0}
ASSUME MaxErrorsAssumption == MaxErrors \in Nat

Indices == 0 .. IndexCount - 1
NoIndex == -1

VARIABLES fullIndex,     \* the last position given out, -1 at first
          errorList,     \* every failed index, in the order of the failures
          completed,     \* how many requests have succeeded
          held,          \* the index a worker is uploading, or NoIndex
          stopped        \* workers that will not ask for an index again

vars == <<fullIndex, errorList, completed, held, stopped>>

Init ==
  /\ fullIndex = -1
  /\ errorList = << >>
  /\ completed = 0
  /\ held = [w \in Workers |-> NoIndex]
  /\ stopped = {}

(* Mutant: the offset into the error list is forgotten.                      *)
GetIndexFirst(f) ==
  IF f < IndexCount THEN f
  ELSE IF f - IndexCount < Len(errorList) THEN errorList[1] ELSE NoIndex

(* The index at position f of "all indices, then the error list".            *)
GetIndex(f) ==
  IF f < IndexCount THEN f
  ELSE IF f - IndexCount < Len(errorList) THEN errorList[f - IndexCount + 1]
  ELSE NoIndex

(* nextIndex() finds something to do.                                        *)
NextIndex(w) ==
  /\ held[w] = NoIndex /\ w \notin stopped
  /\ GetIndex(fullIndex + 1) # NoIndex
  /\ fullIndex' = fullIndex + 1
  /\ held' = [held EXCEPT ![w] = GetIndex(fullIndex + 1)]
  /\ UNCHANGED <<errorList, completed, stopped>>

(* Mutant: nextIndex() does not take its increment back.                     *)
GoIdleNoUndo(w) ==
  /\ held[w] = NoIndex /\ w \notin stopped
  /\ GetIndex(fullIndex + 1) = NoIndex
  /\ fullIndex' = fullIndex + 1
  /\ stopped' = stopped \cup {w}
  /\ UNCHANGED <<errorList, completed, held>>

(* nextIndex() returns undefined and takes its increment back; the worker    *)
(* that asked is idle for good.                                              *)
GoIdle(w) ==
  /\ held[w] = NoIndex /\ w \notin stopped
  /\ GetIndex(fullIndex + 1) = NoIndex
  /\ stopped' = stopped \cup {w}
  /\ UNCHANGED <<fullIndex, errorList, completed, held>>

(* done(): the request of w succeeded.                                       *)
Done(w) ==
  /\ held[w] # NoIndex
  /\ completed' = IF completed < IndexCount THEN completed + 1 ELSE completed
  /\ held' = [held EXCEPT ![w] = NoIndex]
  /\ UNCHANGED <<fullIndex, errorList, stopped>>

(* Mutant: the caller does not return after an error and calls done() too.   *)
ErrorThenDone(w) ==
  /\ held[w] # NoIndex
  /\ Len(errorList) < MaxErrors
  /\ errorList' = Append(errorList, held[w])
  /\ completed' = IF completed < IndexCount THEN completed + 1 ELSE completed
  /\ held' = [held EXCEPT ![w] = NoIndex]
  /\ UNCHANGED <<fullIndex, stopped>>

(* error(): the request of w failed; the caller may drop the worker.         *)
Error(w) ==
  /\ held[w] # NoIndex
  /\ Len(errorList) < MaxErrors
  /\ errorList' = Append(errorList, held[w])
  /\ held' = [held EXCEPT ![w] = NoIndex]
  /\ stopped' \in {stopped, stopped \cup {w}}
  /\ UNCHANGED <<fullIndex, completed>>

Next == \E w \in Workers : NextIndex(w) \/ GoIdle(w) \/ Done(w) \/ Error(w)

Spec == Init /\ [][Next]_vars
-----------------------------------------------------------------------------
Unissued == {i \in Indices : i > fullIndex}
HeldIndices == {held[w] : w \in Workers} \ {NoIndex}

(* The first error list position that has not been given out again.          *)
RetryPos == IF fullIndex < IndexCount THEN 1 ELSE fullIndex - IndexCount + 2
RetryIndices == {errorList[k] : k \in RetryPos .. Len(errorList)}

(* What WorkPool calls the status of each index.                             *)
status == [i \in Indices |->
             IF i \in Unissued THEN "fresh"
             ELSE IF i \in HeldIndices THEN "claimed"
             ELSE IF i \in RetryIndices THEN "failed"
             ELSE "done"]

(* What RetryQueue keeps of it.                                              *)
issued == IF fullIndex < IndexCount THEN fullIndex + 1 ELSE IndexCount
retry == SubSeq(errorList, RetryPos, Len(errorList))
errors == Len(errorList)

Pool == INSTANCE WorkPool
Queue == INSTANCE RetryQueue
-----------------------------------------------------------------------------
(* The type invariant: the counters of jobTracker.js stay in range; fullIndex *)
(* never runs past the end of the error list it reads.                       *)
TypeOK ==
  /\ fullIndex \in -1 .. IndexCount + Len(errorList) - 1
  /\ errorList \in Seq(Indices)
  /\ completed \in 0 .. IndexCount
  /\ held \in [Workers -> Indices \cup {NoIndex}]
  /\ stopped \in SUBSET Workers

(* No index is ever in two places: two workers never upload one block at the *)
(* same time, and a block being uploaded, or not yet given out, does not     *)
(* also wait for a retry (the error list keeps the entries it has consumed). *)
OnePlace ==
  /\ \A v, w \in Workers : v # w /\ held[v] # NoIndex => held[v] # held[w]
  /\ \A w \in Workers : held[w] \notin Unissued /\ held[w] \notin RetryIndices
  /\ \A j, k \in RetryPos .. Len(errorList) : j # k => errorList[j] # errorList[k]
  /\ RetryIndices \cap Unissued = {}

(* The tracker implements the pool: first tries in order (the footer, index  *)
(* 0, before everything else), retries after them, nothing twice at a time,  *)
(* nothing again once it is done.                                            *)
ImplementsWorkPool == Pool!Spec

(* A reader of the upload may think of the tracker as a queue of retries:    *)
(* the one counter over two lists behaves like it in every call.             *)
ImplementsRetryQueue == Queue!Spec
=============================================================================
