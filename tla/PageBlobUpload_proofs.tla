------------------------ MODULE PageBlobUpload_proofs -----------------------
(* One upload, for any number of blocks and threads and any error rate: no   *)
(* block is forgotten, and success is reported only of a complete blob.      *)
EXTENDS PageBlobUpload, FiniteSetTheorems, TLAPS

Running == {"scheduled", "uploading", "idle", "retired"}

Types ==
  /\ issued \in 0 .. NumBlocks
  /\ retry \in Seq(Blocks)
  /\ thread \in [Threads -> {"new", "unused"} \cup Running]
  /\ block \in [Threads -> Blocks]
  /\ present \subseteq cloud
  /\ cloud \subseteq Blocks
  /\ finished \in [{"upload", "md5"} -> {"no", "ok", "error"}]
  /\ reports \in Seq({"success", "failure"})

(* The threads start together, and nothing waits for a retry before.         *)
StartTogether ==
  \/ /\ \A t \in Threads : thread[t] \in {"new", "unused"}
     /\ issued = 0 /\ retry = << >>
  \/ \A t \in Threads : thread[t] \in Running

(* Every block the blob lacks is still to be given out, in flight or waits.  *)
Accounted == Blocks \ cloud \subseteq Unissued \cup InFlight \cup Waiting

(* While the upload has not been given up somebody comes back for the blocks *)
(* that wait.                                                                *)
Attended ==
  ~Reported("failure") /\ Waiting # {} =>
    \E t \in Threads : thread[t] \in {"scheduled", "uploading"}

(* md5AggUpload is called only when the blob is complete.                    *)
EndVouches == finished["upload"] # "no" \/ Reported("success") => cloud = Blocks

IInv == Types /\ StartTogether /\ Accounted /\ Attended /\ EndVouches
-----------------------------------------------------------------------------
(* What an Append adds to the elements of a sequence, and what Tail takes.   *)
LEMMA AppendElements ==
  ASSUME NEW S, NEW s \in Seq(S), NEW e \in S
  PROVE  {Append(s, e)[k] : k \in DOMAIN Append(s, e)} = {s[k] : k \in DOMAIN s} \cup {e}
<1>1. /\ Append(s, e) \in Seq(S) /\ DOMAIN Append(s, e) = 1 .. Len(s) + 1
      /\ DOMAIN s = 1 .. Len(s) /\ Len(s) \in Nat
      /\ \A k \in 1 .. Len(s) : Append(s, e)[k] = s[k]
      /\ Append(s, e)[Len(s) + 1] = e
  OBVIOUS
<1> QED
  BY <1>1

LEMMA TailElements ==
  ASSUME NEW S, NEW s \in Seq(S), s # << >>
  PROVE  /\ Tail(s) \in Seq(S)
         /\ {s[k] : k \in DOMAIN s} = {Tail(s)[k] : k \in DOMAIN Tail(s)} \cup {Head(s)}
<1>1. /\ Tail(s) \in Seq(S) /\ DOMAIN Tail(s) = 1 .. Len(s) - 1
      /\ DOMAIN s = 1 .. Len(s) /\ Len(s) \in Nat /\ Len(s) > 0
      /\ \A k \in 1 .. Len(s) - 1 : Tail(s)[k] = s[k + 1]
      /\ Head(s) = s[1]
  OBVIOUS
<1>2. ASSUME NEW k \in DOMAIN s
      PROVE  s[k] = Head(s) \/ \E j \in DOMAIN Tail(s) : s[k] = Tail(s)[j]
  <2>1. CASE k = 1
    BY <1>1, <2>1
  <2>2. CASE k # 1
    <3>1. k - 1 \in 1 .. Len(s) - 1 /\ Tail(s)[k - 1] = s[(k - 1) + 1] /\ (k - 1) + 1 = k
      BY <1>1, <2>2
    <3> QED
      BY <1>1, <3>1
  <2> QED
    BY <2>1, <2>2
<1>3. ASSUME NEW j \in DOMAIN Tail(s)
      PROVE  \E k \in DOMAIN s : Tail(s)[j] = s[k]
  <2>1. j + 1 \in 1 .. Len(s)
    BY <1>1
  <2> QED
    BY <1>1, <2>1
<1>4. 1 \in DOMAIN s
  BY <1>1
<1> QED
  BY <1>1, <1>2, <1>3, <1>4

LEMMA SizeFacts ==
  /\ NumBlocks \in Nat /\ NumThreads \in Nat /\ NumThreads > 0 /\ Threads \subseteq Blocks
BY SizeAssumption DEF Threads, Blocks

LEMMA ReportAdds ==
  ASSUME Types, NEW r \in {"success", "failure"}, reports' = Append(reports, r)
  PROVE  /\ reports' \in Seq({"success", "failure"})
         /\ \A x : Reported(x)' <=> Reported(x) \/ x = r
<1> DEFINE S == {"success", "failure"}
<1>1. reports \in Seq(S) /\ r \in S
  BY DEF Types
<1>2. {reports'[k] : k \in DOMAIN reports'} = {reports[k] : k \in DOMAIN reports} \cup {r}
  BY <1>1, AppendElements
<1>3. reports' \in Seq(S)
  BY <1>1
<1> QED
  BY <1>2, <1>3 DEF Reported
-----------------------------------------------------------------------------
LEMMA InitHolds == Init => IInv
<1> SUFFICES ASSUME Init PROVE IInv
  OBVIOUS
<1>1. Types
  <2>1. 0 \in Blocks /\ 0 \in 0 .. NumBlocks
    BY SizeAssumption DEF Blocks
  <2>2. issued = 0 /\ retry = << >> /\ reports = << >>
    BY DEF Init, Tracker!Init
  <2>3. retry \in Seq(Blocks) /\ reports \in Seq({"success", "failure"})
    BY <2>2
  <2>4. present \subseteq cloud /\ cloud \subseteq Blocks
    BY DEF Init
  <2>5. thread \in [Threads -> {"new", "unused"} \cup Running] /\ block \in [Threads -> Blocks]
        /\ finished \in [{"upload", "md5"} -> {"no", "ok", "error"}]
    BY <2>1 DEF Init
  <2> QED
    BY <2>1, <2>2, <2>3, <2>4, <2>5 DEF Types
<1>2. StartTogether
  BY DEF Init, Tracker!Init, StartTogether
<1>3. Accounted /\ Attended
  BY DEF Init, Tracker!Init, Accounted, Attended, Unissued, Waiting, Blocks
<1>4. EndVouches
  BY DEF Init, EndVouches, Reported
<1> QED
  BY <1>1, <1>2, <1>3, <1>4 DEF IInv

(* The threads 0..NumThreads-1 get the blocks of these numbers.              *)
LEMMA StartThreadsKeeps == IInv /\ StartThreads => IInv'
<1> SUFFICES ASSUME IInv, StartThreads PROVE IInv'
  OBVIOUS
<1>1. /\ thread' = [t \in Threads |-> IF t \in Threads \cap present THEN "scheduled" ELSE "uploading"]
      /\ block' = [t \in Threads |-> t]
      /\ issued' = NumThreads
      /\ UNCHANGED <<retry, present, cloud, finished, reports>>
  BY DEF StartThreads, aggVars
<1>2. retry = << >>
  <2>1. PICK t \in Threads : thread[t] = "new"
    BY DEF StartThreads, Started
  <2> QED
    BY <2>1 DEF IInv, StartTogether, Running
<1>3. Types'
  BY <1>1, SizeAssumption, SizeFacts DEF IInv, Types, Running
<1>4. StartTogether'
  BY <1>1 DEF StartTogether, Running
<1>5. Accounted'
  <2> SUFFICES ASSUME NEW b \in Blocks, b \notin cloud
               PROVE  b >= NumThreads \/ \E t \in Threads : thread'[t] = "uploading" /\ block'[t] = b
    BY <1>1 DEF Accounted, Unissued, InFlight, Busy
  <2>1. b \notin present
    BY DEF IInv, Types
  <2>2. b >= NumThreads \/ b \in Threads
    BY SizeFacts DEF Blocks, Threads
  <2> QED
    BY <1>1, <2>1, <2>2
<1>6. Attended'
  BY <1>1, <1>2 DEF Attended, Waiting
<1>7. EndVouches'
  BY <1>1 DEF IInv, EndVouches, Reported
<1> QED
  BY <1>3, <1>4, <1>5, <1>6, <1>7 DEF IInv

LEMMA ScanFailsKeeps == IInv /\ ScanFails => IInv'
<1> SUFFICES ASSUME IInv, ScanFails PROVE IInv'
  OBVIOUS
<1>1. /\ thread' = [t \in Threads |-> "unused"] /\ reports' = Append(reports, "failure")
      /\ UNCHANGED <<issued, retry, block, present, cloud, finished>>
  BY DEF ScanFails, trackerVars, aggVars
<1>2. issued = 0 /\ retry = << >>
  <2>1. PICK t \in Threads : thread[t] = "new"
    BY DEF ScanFails, Started
  <2> QED
    BY <2>1 DEF IInv, StartTogether, Running
<1>3. reports' \in Seq({"success", "failure"}) /\ (Reported("success")' <=> Reported("success"))
  BY <1>1, ReportAdds DEF IInv
<1>4. Types' /\ StartTogether'
  BY <1>1, <1>2, <1>3 DEF IInv, Types, StartTogether, Running
<1>5. Accounted' /\ Attended'
  BY <1>1, <1>2 DEF Accounted, Attended, Unissued, Waiting, Blocks
<1>6. EndVouches'
  BY <1>1, <1>3 DEF IInv, EndVouches
<1> QED
  BY <1>4, <1>5, <1>6 DEF IInv

LEMMA NextBlockKeeps == IInv /\ (\E t \in Threads : NextBlock(t)) => IInv'
<1> SUFFICES ASSUME IInv, NEW t \in Threads, NextBlock(t) PROVE IInv'
  OBVIOUS
<1>1. PICK i \in Blocks :
        /\ thread[t] = "scheduled" /\ Tracker!Take(i) /\ block' = [block EXCEPT ![t] = i]
        /\ \/ i \in present /\ UNCHANGED thread
           \/ i \notin present /\ thread' = [thread EXCEPT ![t] = "uploading"]
        /\ UNCHANGED <<present, cloud, finished, reports>>
  BY DEF NextBlock, aggVars
<1>2. /\ block'[t] = i /\ \A u \in Threads : u # t => block'[u] = block[u] /\ thread'[u] = thread[u]
      /\ thread'[t] \in {"scheduled", "uploading"} /\ (i \notin present => thread'[t] = "uploading")
  BY <1>1 DEF IInv, Types
<1>3. /\ issued' \in 0 .. NumBlocks /\ retry' \in Seq(Blocks)
      /\ Unissued \cup Waiting \subseteq Unissued' \cup Waiting' \cup {i}
      /\ Waiting' \subseteq Waiting
  <2>1. CASE issued < NumBlocks /\ i = issued /\ issued' = issued + 1 /\ UNCHANGED retry
    BY <2>1, SizeAssumption DEF IInv, Types, Unissued, Waiting, Blocks
  <2>2. CASE issued = NumBlocks /\ retry # << >> /\ i = Head(retry) /\ retry' = Tail(retry) /\ UNCHANGED issued
    <3>1. retry' \in Seq(Blocks) /\ Waiting = Waiting' \cup {i}
      BY <2>2, TailElements DEF IInv, Types, Waiting
    <3> QED
      BY <2>2, <3>1 DEF IInv, Types, Unissued
  <2> QED
    BY <1>1, <2>1, <2>2 DEF Tracker!Take
<1>4. Types'
  BY <1>1, <1>3 DEF IInv, Types, Running
<1>5. StartTogether'
  BY <1>1, <1>2 DEF IInv, StartTogether, Running
<1>6. Accounted'
  <2>1. InFlight \subseteq InFlight'
    BY <1>1, <1>2 DEF InFlight, Busy
  <2>2. i \in cloud \/ i \in InFlight'
    BY <1>2 DEF InFlight, Busy, IInv, Types
  <2> QED
    BY <1>1, <1>3, <2>1, <2>2 DEF IInv, Accounted
<1>7. Attended'
  BY <1>2 DEF Attended
<1>8. EndVouches'
  BY <1>1 DEF IInv, EndVouches, Reported
<1> QED
  BY <1>4, <1>5, <1>6, <1>7, <1>8 DEF IInv

(* What the aggregator and its final callback do: they append to the reports *)
(* only after the upload has been called back.                               *)
LEMMA Aggregating ==
  ASSUME IInv, NEW k \in {"upload", "md5"}, NEW res \in {"ok", "error"},
         Agg!Callback(k, res), OnAggregated
  PROVE  /\ finished' = [finished EXCEPT ![k] = res]
         /\ reports' \in Seq({"success", "failure"})
         /\ (Reported("failure")' <=> Reported("failure"))
         /\ Reported("success")' => Reported("success") \/ finished'["upload"] # "no"
<1>1. finished' = [finished EXCEPT ![k] = res]
  BY DEF Agg!Callback
<1>2. CASE reports' = reports
  BY <1>1, <1>2 DEF IInv, Types, Reported
<1>3. CASE reports' = Append(reports, "success") /\ finished'["upload"] # "no"
  BY <1>1, <1>3, ReportAdds DEF IInv
<1> QED
  BY <1>2, <1>3 DEF OnAggregated

(* The last thread finds nothing to do: no block is waiting, none in flight. *)
LEMMA NextIdleKeeps == IInv /\ (\E t \in Threads : NextIdle(t)) => IInv'
<1> SUFFICES ASSUME IInv, NEW t \in Threads, NextIdle(t) PROVE IInv'
  OBVIOUS
<1>1. /\ thread[t] = "scheduled" /\ issued = NumBlocks /\ retry = << >>
      /\ thread' = [thread EXCEPT ![t] = "idle"]
      /\ UNCHANGED <<issued, retry, block, present, cloud>>
  BY DEF NextIdle, Tracker!NothingToTake, trackerVars
<1>2. thread'[t] = "idle" /\ \A u \in Threads : u # t => thread'[u] = thread[u]
  BY <1>1 DEF IInv, Types
<1>3. Unissued = {} /\ Waiting = {}
  BY <1>1, SizeFacts DEF Unissued, Waiting, Blocks
<1>4. InFlight' = InFlight
  BY <1>1, <1>2 DEF InFlight, Busy
<1>5. /\ finished' \in [{"upload", "md5"} -> {"no", "ok", "error"}]
      /\ reports' \in Seq({"success", "failure"})
      /\ EndVouches'
  <2>1. CASE OthersOver(t)
    <3>1. Agg!Callback("upload", "ok") /\ OnAggregated
      BY <2>1 DEF NextIdle
    <3>2. InFlight = {}
      BY <1>1, <2>1 DEF OthersOver, Over, InFlight, Busy
    <3>3. cloud = Blocks
      BY <1>3, <3>2 DEF IInv, Types, Accounted
    <3> QED
      BY <1>1, <3>1, <3>3, Aggregating DEF IInv, Types, EndVouches
  <2>2. CASE ~OthersOver(t)
    <3>1. UNCHANGED <<finished, reports>>
      BY <2>2 DEF NextIdle, aggVars
    <3> QED
      BY <1>1, <3>1 DEF IInv, Types, EndVouches, Reported
  <2> QED
    BY <2>1, <2>2
<1>6. Types'
  BY <1>1, <1>5 DEF IInv, Types, Running
<1>7. StartTogether'
  BY <1>1, <1>2 DEF IInv, StartTogether, Running
<1>8. Accounted' /\ Attended'
  BY <1>1, <1>3, <1>4 DEF IInv, Accounted, Attended, Unissued, Waiting
<1> QED
  BY <1>5, <1>6, <1>7, <1>8 DEF IInv

LEMMA UploadOkKeeps == IInv /\ (\E t \in Threads : UploadOk(t)) => IInv'
<1> SUFFICES ASSUME IInv, NEW t \in Threads, UploadOk(t) PROVE IInv'
  OBVIOUS
<1>1. /\ thread[t] = "uploading" /\ cloud' = cloud \cup {block[t]}
      /\ thread' = [thread EXCEPT ![t] = "scheduled"]
      /\ UNCHANGED <<issued, retry, block, present, finished, reports>>
  BY DEF UploadOk, aggVars
<1>2. thread'[t] = "scheduled" /\ \A u \in Threads : u # t => thread'[u] = thread[u]
  BY <1>1 DEF IInv, Types
<1>3. Types'
  BY <1>1 DEF IInv, Types, Running
<1>4. StartTogether'
  BY <1>1, <1>2 DEF IInv, StartTogether, Running
<1>5. Accounted'
  <2>1. InFlight \subseteq InFlight' \cup {block[t]}
    BY <1>1, <1>2 DEF InFlight, Busy
  <2> QED
    BY <1>1, <2>1 DEF IInv, Accounted, Unissued, Waiting
<1>6. Attended'
  BY <1>2 DEF Attended
<1>7. EndVouches'
  BY <1>1, <1>3 DEF IInv, Types, EndVouches, Reported
<1> QED
  BY <1>3, <1>4, <1>5, <1>6, <1>7 DEF IInv

(* The block waits, and another thread comes back for it, or the upload is   *)
(* given up.                                                                 *)
LEMMA UploadFailsKeeps == IInv /\ (\E t \in Threads : UploadFails(t)) => IInv'
<1> SUFFICES ASSUME IInv, NEW t \in Threads, UploadFails(t) PROVE IInv'
  OBVIOUS
<1>1. /\ thread[t] = "uploading" /\ cloud' \in {cloud, cloud \cup {block[t]}}
      /\ retry' = Append(retry, block[t])
      /\ UNCHANGED <<issued, block, present, finished>>
  BY DEF UploadFails, Tracker!Fail, aggVars
<1>2. \/ /\ thread' = [thread EXCEPT ![t] = "retired"]
         /\ reports' = IF OthersOver(t) THEN Append(reports, "failure") ELSE reports
      \/ thread' = [thread EXCEPT ![t] = "scheduled"] /\ reports' = reports
  BY DEF UploadFails
<1>3. /\ thread'[t] \in {"retired", "scheduled"}
      /\ \A u \in Threads : u # t => thread'[u] = thread[u]
  BY <1>2 DEF IInv, Types
<1>4. block[t] \in Blocks /\ cloud' \subseteq Blocks
  BY <1>1 DEF IInv, Types
<1>5. retry' \in Seq(Blocks) /\ Waiting' = Waiting \cup {block[t]}
  BY <1>1, <1>4, AppendElements DEF IInv, Types, Waiting
<1>6. /\ reports' \in Seq({"success", "failure"})
      /\ (Reported("success")' <=> Reported("success"))
      /\ Reported("failure") => Reported("failure")'
      /\ reports' = Append(reports, "failure") => Reported("failure")'
  <2>1. CASE reports' = reports
    BY <2>1 DEF IInv, Types, Reported
  <2>2. CASE reports' = Append(reports, "failure")
    BY <2>2, ReportAdds DEF IInv
  <2> QED
    BY <1>2, <2>1, <2>2
<1>7. Types'
  BY <1>1, <1>2, <1>4, <1>5, <1>6 DEF IInv, Types, Running
<1>8. StartTogether'
  BY <1>1, <1>3 DEF IInv, StartTogether, Running
<1>9. Accounted'
  <2>1. InFlight \subseteq InFlight' \cup {block[t]}
    BY <1>1, <1>3 DEF InFlight, Busy
  <2> QED
    BY <1>1, <1>5, <2>1 DEF IInv, Accounted, Unissued
<1>10. Attended'
  <2>1. CASE thread'[t] = "scheduled"
    BY <2>1 DEF Attended
  <2>2. CASE thread'[t] = "retired" /\ OthersOver(t)
    BY <1>2, <1>6, <2>2 DEF Attended, IInv, Types
  <2>3. CASE thread'[t] = "retired" /\ ~OthersOver(t)
    <3>1. PICK u \in Threads : u # t /\ ~Over(u)
      BY <2>3 DEF OthersOver
    <3>2. thread[u] \in {"scheduled", "uploading"}
      BY <1>1, <3>1 DEF IInv, StartTogether, Running, Over
    <3> QED
      BY <1>3, <3>1, <3>2 DEF Attended
  <2> QED
    BY <1>3, <2>1, <2>2, <2>3
<1>11. EndVouches'
  BY <1>1, <1>4, <1>6 DEF IInv, Types, EndVouches
<1> QED
  BY <1>7, <1>8, <1>9, <1>10, <1>11 DEF IInv

(* The MD5 beside the upload reports a failure of its own, or what the       *)
(* upload has ended with.                                                    *)
LEMMA Md5Keeps == IInv /\ Md5Step => IInv'
<1> SUFFICES ASSUME IInv, Md5Step PROVE IInv'
  OBVIOUS
<1>1. UNCHANGED <<issued, retry, thread, block, present, cloud>>
  BY DEF Md5Step, Md5Read, Md5ReadFails, Md5Set, Md5SetFails, Md5Unchanged, trackerVars, threadVars
<1>2. StartTogether' /\ Accounted'
  BY <1>1 DEF IInv, StartTogether, Accounted, Unissued, InFlight, Busy, Waiting
<1>3. /\ finished' \in [{"upload", "md5"} -> {"no", "ok", "error"}]
      /\ finished'["upload"] = finished["upload"]
      /\ reports' \in Seq({"success", "failure"})
      /\ Reported("failure") => Reported("failure")'
      /\ Reported("success")' => Reported("success") \/ finished["upload"] # "no"
  <2>1. CASE Md5Read
    BY <2>1 DEF Md5Read, aggVars, IInv, Types, Reported
  <2>2. CASE Md5ReadFails
    <3>1. reports' = Append(reports, "failure") /\ finished' = finished
      BY <2>2 DEF Md5ReadFails, aggVars
    <3> QED
      BY <3>1, ReportAdds DEF IInv, Types
  <2>3. CASE Md5Set \/ Md5SetFails
    <3>1. PICK res \in {"ok", "error"} : Agg!Callback("md5", res) /\ OnAggregated
      BY <2>3 DEF Md5Set, Md5SetFails
    <3>2. /\ finished' = [finished EXCEPT !["md5"] = res]
          /\ reports' \in Seq({"success", "failure"})
          /\ (Reported("failure")' <=> Reported("failure"))
          /\ Reported("success")' => Reported("success") \/ finished'["upload"] # "no"
      BY <3>1, Aggregating
    <3> QED
      BY <3>2 DEF IInv, Types
  <2> QED
    BY <2>1, <2>2, <2>3 DEF Md5Step
<1>4. Types'
  BY <1>1, <1>3 DEF IInv, Types
<1>5. Attended'
  BY <1>1, <1>3 DEF IInv, Attended, Waiting
<1>6. EndVouches'
  BY <1>1, <1>3 DEF IInv, EndVouches
<1> QED
  BY <1>2, <1>4, <1>5, <1>6 DEF IInv
-----------------------------------------------------------------------------
LEMMA NextKeeps == IInv /\ [Next]_vars => IInv'
<1> SUFFICES ASSUME IInv, [Next]_vars PROVE IInv'
  OBVIOUS
<1>1. CASE UNCHANGED vars
  BY <1>1 DEF vars, trackerVars, aggVars, threadVars, IInv, Types, StartTogether, Accounted,
              Attended, EndVouches, Unissued, InFlight, Busy, Waiting, Reported
<1>2. CASE Next
  BY <1>2, StartThreadsKeeps, ScanFailsKeeps, NextBlockKeeps, NextIdleKeeps, UploadOkKeeps,
     UploadFailsKeeps, Md5Keeps DEF Next, ThreadStep
<1> QED
  BY <1>1, <1>2

(* The invariant, for any number of blocks and threads and any error rate.   *)
THEOREM Inductive == Spec => []IInv
  BY InitHolds, NextKeeps, PTL DEF Spec

(* Success is reported only of a complete blob (pageBlob.js, onIdle()).      *)
THEOREM SuccessIsSound == Spec => []SuccessMeansUploaded
<1>1. IInv => SuccessMeansUploaded
  BY DEF IInv, EndVouches, SuccessMeansUploaded
<1> QED
  BY <1>1, Inductive, PTL

(* Threads that leave for good, idle or retired, leave no block behind.      *)
THEOREM NothingIsForgotten == Spec => []NoBlockForgotten
<1>1. IInv => NoBlockForgotten
  BY DEF IInv, Accounted, Attended, NoBlockForgotten
<1> QED
  BY <1>1, Inductive, PTL
-----------------------------------------------------------------------------
(* The two counters.  A block is settled when it was skipped or stored: it is*)
(* neither to be given out nor in flight nor waiting.                        *)
Settled == Blocks \ (Unissued \cup InFlight \cup Waiting)

(* A block is in one place at a time, and a block that needs no upload is    *)
(* never sent.                                                               *)
OnePlace ==
  /\ \A t, u \in Busy : t # u => block[t] # block[u]
  /\ \A t \in Busy : block[t] \notin Waiting \cup Unissued
  /\ \A j, k \in DOMAIN retry : j # k => retry[j] # retry[k]
  /\ Waiting \cap Unissued = {}
  /\ (InFlight \cup Waiting) \cap present = {}

(* completed counts what is settled, alreadyDone what was skipped.           *)
Counted ==
  /\ completed = Cardinality(Settled)
  /\ alreadyDone = Cardinality(Settled \cap present)

(* What md5AggUpload was told stays true, since no thread runs any more.     *)
Judged ==
  /\ alreadyExisted \in BOOLEAN
  /\ finished["upload"] # "no" =>
       (\A t \in Threads : Over(t)) /\ (alreadyExisted <=> present = Blocks)

CountInv == OnePlace /\ Counted /\ Judged

LEMMA BlocksCount ==
  /\ IsFiniteSet(Blocks) /\ Cardinality(Blocks) = NumBlocks
  /\ \A S \in SUBSET Blocks :
       IsFiniteSet(S) /\ Cardinality(S) \in 0 .. NumBlocks
       /\ (Cardinality(S) = NumBlocks => S = Blocks)
<1>1. IsFiniteSet(Blocks) /\ Cardinality(Blocks) = NumBlocks
  BY SizeFacts, FS_Interval DEF Blocks
<1>2. ASSUME NEW S \in SUBSET Blocks
      PROVE  IsFiniteSet(S) /\ Cardinality(S) \in 0 .. NumBlocks
             /\ (Cardinality(S) = NumBlocks => S = Blocks)
  <2>1. IsFiniteSet(S) /\ Cardinality(S) <= NumBlocks /\ (Cardinality(S) = NumBlocks => S = Blocks)
    BY <1>1, FS_Subset
  <2>2. Cardinality(S) \in Nat
    BY <2>1, FS_CardinalityType
  <2> QED
    BY <2>1, <2>2, SizeFacts
<1> QED
  BY <1>1, <1>2

(* tracker.done() counts a block that gets settled, and never reaches its    *)
(* limit by it.                                                              *)
LEMMA Settles ==
  ASSUME Types, Counted, NEW b \in Blocks \ Settled, Settled' = Settled \cup {b},
         UNCHANGED present, Tracker!Complete(1),
         alreadyDone' = IF b \in present THEN alreadyDone + 1 ELSE alreadyDone
  PROVE  Counted'
<1>1. Settled \in SUBSET Blocks /\ Settled \cap present \in SUBSET Blocks /\ Settled' \in SUBSET Blocks
  BY DEF Settled
<1>2. Cardinality(Settled') = Cardinality(Settled) + 1
  BY <1>1, BlocksCount, FS_AddElement
<1>3. Cardinality(Settled') \in 0 .. NumBlocks /\ Cardinality(Settled) \in 0 .. NumBlocks
  BY <1>1, BlocksCount
<1>4. completed' = Cardinality(Settled')
  BY <1>2, <1>3, SizeFacts DEF Counted, Tracker!Complete
<1>5. alreadyDone' = Cardinality(Settled' \cap present')
  <2>1. CASE b \in present
    <3>1. Settled' \cap present' = (Settled \cap present) \cup {b} /\ b \notin Settled \cap present
      BY <2>1
    <3>2. Cardinality((Settled \cap present) \cup {b}) = Cardinality(Settled \cap present) + 1
      BY <1>1, <3>1, BlocksCount, FS_AddElement
    <3> QED
      BY <2>1, <3>1, <3>2 DEF Counted
  <2>2. CASE b \notin present
    <3>1. Settled' \cap present' = Settled \cap present
      BY <2>2
    <3> QED
      BY <2>2, <3>1 DEF Counted
  <2> QED
    BY <2>1, <2>2
<1> QED
  BY <1>4, <1>5 DEF Counted

LEMMA AppendUnique ==
  ASSUME NEW S, NEW s \in Seq(S), NEW e \in S, \A k \in DOMAIN s : s[k] # e,
         \A j, k \in DOMAIN s : j # k => s[j] # s[k]
  PROVE  \A j, k \in DOMAIN Append(s, e) : j # k => Append(s, e)[j] # Append(s, e)[k]
<1>1. /\ DOMAIN Append(s, e) = 1 .. Len(s) + 1 /\ DOMAIN s = 1 .. Len(s) /\ Len(s) \in Nat
      /\ \A k \in 1 .. Len(s) : Append(s, e)[k] = s[k]
      /\ Append(s, e)[Len(s) + 1] = e
  OBVIOUS
<1>2. \A k \in DOMAIN Append(s, e) : k \in 1 .. Len(s) \/ k = Len(s) + 1
  BY <1>1
<1> QED
  BY <1>1, <1>2

LEMMA TailUnique ==
  ASSUME NEW S, NEW s \in Seq(S), s # << >>,
         \A j, k \in DOMAIN s : j # k => s[j] # s[k]
  PROVE  /\ \A k \in DOMAIN Tail(s) : Tail(s)[k] # Head(s)
         /\ \A j, k \in DOMAIN Tail(s) : j # k => Tail(s)[j] # Tail(s)[k]
<1>1. /\ DOMAIN Tail(s) = 1 .. Len(s) - 1 /\ DOMAIN s = 1 .. Len(s) /\ Len(s) \in Nat
      /\ \A k \in 1 .. Len(s) - 1 : Tail(s)[k] = s[k + 1]
      /\ Head(s) = s[1] /\ Len(s) > 0
  OBVIOUS
<1>2. \A k \in DOMAIN Tail(s) : k + 1 \in DOMAIN s /\ k + 1 # 1
  BY <1>1
<1>3. 1 \in DOMAIN s
  BY <1>1
<1>4. \A j, k \in DOMAIN Tail(s) : j # k => j + 1 # k + 1
  BY <1>1
<1> QED
  BY <1>1, <1>2, <1>3, <1>4

LEMMA CountInit == Init => CountInv
<1> SUFFICES ASSUME Init PROVE CountInv
  OBVIOUS
<1>1. /\ issued = 0 /\ retry = << >> /\ completed = 0 /\ alreadyDone = 0 /\ Busy = {}
      /\ alreadyExisted = FALSE /\ finished["upload"] = "no"
  BY DEF Init, Tracker!Init, Busy
<1>2. InFlight = {} /\ Waiting = {} /\ Unissued = Blocks
  BY <1>1, SizeFacts DEF InFlight, Waiting, Unissued, Blocks
<1>3. Settled = {} /\ Settled \cap present = {}
  BY <1>2 DEF Settled
<1>4. Counted
  BY <1>1, <1>3, FS_EmptySet DEF Counted
<1>5. OnePlace
  <2>1. DOMAIN retry = {}
    BY <1>1
  <2> QED
    BY <1>1, <1>2, <2>1 DEF OnePlace
<1>6. Judged
  BY <1>1 DEF Judged
<1> QED
  BY <1>4, <1>5, <1>6 DEF CountInv

(* Steps that touch neither the tracker nor a thread.                        *)
LEMMA CountUntouched ==
  ASSUME CountInv, UNCHANGED <<issued, retry, completed, thread, block, alreadyDone, present,
                               alreadyExisted>>,
         finished'["upload"] = finished["upload"]
  PROVE  CountInv'
BY DEF CountInv, OnePlace, Counted, Judged, Settled, Unissued, InFlight, Busy, Waiting, Over

LEMMA StartThreadsCounts == IInv /\ CountInv /\ StartThreads => CountInv'
<1> SUFFICES ASSUME IInv, CountInv, StartThreads PROVE CountInv'
  OBVIOUS
<1> DEFINE skipped == Threads \cap present
<1>1. /\ thread' = [t \in Threads |-> IF t \in skipped THEN "scheduled" ELSE "uploading"]
      /\ Tracker!Complete(Cardinality(skipped)) /\ alreadyDone' = Cardinality(skipped)
      /\ block' = [t \in Threads |-> t] /\ issued' = NumThreads
      /\ UNCHANGED <<retry, present, finished, alreadyExisted>>
  BY DEF StartThreads, aggVars
<1>2. /\ issued = 0 /\ retry = << >> /\ Busy = {}
      /\ \E t \in Threads : ~Over(t)
  <2>1. PICK t \in Threads : thread[t] = "new"
    BY DEF StartThreads, Started
  <2> QED
    BY <2>1 DEF IInv, StartTogether, Running, Busy, Over
<1>3. Unissued = Blocks /\ Waiting = {} /\ Settled = {} /\ completed = 0
  <2>1. Unissued = Blocks /\ Waiting = {}
    BY <1>2, SizeFacts DEF Unissued, Waiting, Blocks
  <2>2. Settled = {}
    BY <2>1 DEF Settled
  <2> QED
    BY <2>1, <2>2, FS_EmptySet DEF CountInv, Counted
<1>4. /\ Busy' = Threads \ present /\ Waiting' = {} /\ Unissued' = Blocks \ Threads
      /\ \A t \in Threads : block'[t] = t
  BY <1>1, <1>2, SizeFacts DEF Busy, Waiting, Unissued, Blocks, Threads
<1>5. InFlight' = Threads \ present
  BY <1>4 DEF InFlight
<1>6. Settled' = skipped /\ Settled' \cap present' = skipped
  BY <1>1, <1>4, <1>5, SizeFacts DEF Settled
<1>7. Cardinality(skipped) \in 0 .. NumBlocks
  BY <1>6, BlocksCount, SizeFacts
<1>8. Counted'
  BY <1>1, <1>3, <1>6, <1>7, SizeFacts DEF Counted, Tracker!Complete
<1>9. OnePlace'
  BY <1>1, <1>2, <1>4, <1>5, SizeFacts DEF OnePlace
<1>10. Judged'
  BY <1>1, <1>2 DEF CountInv, Judged
<1> QED
  BY <1>8, <1>9, <1>10 DEF CountInv

LEMMA NextBlockCounts == IInv /\ CountInv /\ (\E t \in Threads : NextBlock(t)) => CountInv'
<1> SUFFICES ASSUME IInv, CountInv, NEW t \in Threads, NextBlock(t) PROVE CountInv'
  OBVIOUS
<1>1. PICK i \in Blocks :
        /\ thread[t] = "scheduled" /\ Tracker!Take(i) /\ block' = [block EXCEPT ![t] = i]
        /\ \/ /\ i \in present /\ Tracker!Complete(1) /\ alreadyDone' = alreadyDone + 1
              /\ UNCHANGED thread
           \/ /\ i \notin present /\ thread' = [thread EXCEPT ![t] = "uploading"]
              /\ UNCHANGED <<completed, alreadyDone>>
        /\ UNCHANGED <<present, finished, alreadyExisted>>
  BY DEF NextBlock, aggVars
<1>2. /\ block'[t] = i /\ \A u \in Threads \ {t} : block'[u] = block[u] /\ thread'[u] = thread[u]
      /\ t \notin Busy
  BY <1>1 DEF IInv, Types, Busy
<1>3. /\ i \in Unissued \cup Waiting
      /\ Unissued' = Unissued \ {i} /\ Waiting' = Waiting \ {i}
      /\ \A j, k \in DOMAIN retry' : j # k => retry'[j] # retry'[k]
  <2>1. CASE issued < NumBlocks /\ i = issued /\ issued' = issued + 1 /\ UNCHANGED retry
    <3>1. i \in Unissued /\ Unissued' = Unissued \ {i}
      BY <2>1, SizeAssumption DEF IInv, Types, Unissued, Blocks
    <3> QED
      BY <2>1, <3>1 DEF CountInv, OnePlace, Waiting
  <2>2. CASE issued = NumBlocks /\ retry # << >> /\ i = Head(retry) /\ retry' = Tail(retry) /\ UNCHANGED issued
    <3>1. retry \in Seq(Blocks) /\ \A j, k \in DOMAIN retry : j # k => retry[j] # retry[k]
      BY DEF IInv, Types, CountInv, OnePlace
    <3>2. Waiting = Waiting' \cup {i}
      BY <2>2, <3>1, TailElements DEF Waiting
    <3>3. i \notin Waiting' /\ \A j, k \in DOMAIN retry' : j # k => retry'[j] # retry'[k]
      BY <2>2, <3>1, TailUnique DEF Waiting
    <3>4. Unissued = {} /\ Unissued' = {}
      BY <2>2, SizeFacts DEF Unissued, Blocks
    <3> QED
      BY <3>2, <3>3, <3>4
  <2> QED
    BY <1>1, <2>1, <2>2 DEF Tracker!Take
<1>4. i \notin InFlight /\ (i \in Waiting => i \notin present)
  BY <1>3 DEF CountInv, OnePlace, InFlight
<1>5. Judged'
  BY <1>1 DEF CountInv, Judged, Over
<1>6. CASE i \in present
  <2>1. Busy' = Busy
    BY <1>1, <1>6 DEF Busy
  <2>2. InFlight' = InFlight /\ \A u \in Busy : block'[u] = block[u]
    BY <1>2, <2>1 DEF InFlight, Busy
  <2>3. Settled' = Settled \cup {i} /\ i \notin Settled
    BY <1>3, <1>4, <2>2 DEF Settled
  <2>4. Counted'
    BY <1>1, <1>6, <2>3, Settles DEF IInv, CountInv
  <2>5. OnePlace'
    BY <1>1, <1>3, <2>1, <2>2 DEF CountInv, OnePlace
  <2> QED
    BY <1>5, <2>4, <2>5 DEF CountInv
<1>7. CASE i \notin present
  <2>1. Busy' = Busy \cup {t}
    BY <1>1, <1>2, <1>7 DEF Busy, IInv, Types
  <2>2. InFlight' = InFlight \cup {i} /\ \A u \in Busy : block'[u] = block[u]
    BY <1>2, <2>1 DEF InFlight, Busy
  <2>3. Settled' = Settled
    BY <1>3, <2>2 DEF Settled
  <2>4. Counted'
    BY <1>1, <1>7, <2>3 DEF CountInv, Counted
  <2>5. OnePlace'
    <3>1. \A u \in Busy' : (u = t /\ block'[u] = i) \/ (u \in Busy /\ block'[u] = block[u] /\ block[u] # i)
      BY <1>2, <1>4, <2>1, <2>2 DEF InFlight
    <3>2. \A u, v \in Busy' : u # v => block'[u] # block'[v]
      BY <3>1 DEF CountInv, OnePlace
    <3>3. \A u \in Busy' : block'[u] \notin Waiting' \cup Unissued'
      BY <1>3, <3>1 DEF CountInv, OnePlace
    <3> QED
      BY <1>1, <1>3, <1>7, <2>2, <3>2, <3>3 DEF CountInv, OnePlace
  <2> QED
    BY <1>5, <2>4, <2>5 DEF CountInv
<1> QED
  BY <1>6, <1>7

(* The last thread compares the counters when every block is settled: they   *)
(* are the number of the blocks and of those that were skipped.              *)
LEMMA NextIdleCounts == IInv /\ CountInv /\ (\E t \in Threads : NextIdle(t)) => CountInv'
<1> SUFFICES ASSUME IInv, CountInv, NEW t \in Threads, NextIdle(t) PROVE CountInv'
  OBVIOUS
<1>1. /\ thread[t] = "scheduled" /\ issued = NumBlocks /\ retry = << >>
      /\ thread' = [thread EXCEPT ![t] = "idle"]
      /\ UNCHANGED <<issued, retry, completed, block, alreadyDone, present>>
  BY DEF NextIdle, Tracker!NothingToTake, trackerVars
<1>2. thread'[t] = "idle" /\ \A u \in Threads \ {t} : thread'[u] = thread[u]
  BY <1>1 DEF IInv, Types
<1>3. Busy' = Busy
  BY <1>1, <1>2 DEF Busy
<1>4. Unissued' = Unissued /\ Waiting' = Waiting /\ InFlight' = InFlight /\ Settled' = Settled
  BY <1>1, <1>3 DEF Unissued, Waiting, InFlight, Settled
<1>5. OnePlace' /\ Counted'
  BY <1>1, <1>3, <1>4 DEF CountInv, OnePlace, Counted
<1>6. CASE OthersOver(t)
  <2>1. alreadyExisted' = (alreadyDone = completed)
    BY <1>6 DEF NextIdle
  <2>2. Unissued = {} /\ Waiting = {} /\ InFlight = {}
    BY <1>1, <1>6, SizeFacts DEF Unissued, Waiting, Blocks, InFlight, Busy, OthersOver, Over
  <2>3. Settled = Blocks /\ Settled \cap present = present
    BY <2>2 DEF Settled, IInv, Types
  <2>4. completed = NumBlocks /\ alreadyDone = Cardinality(present)
    BY <2>3, BlocksCount DEF CountInv, Counted
  <2>5. Cardinality(present) = NumBlocks <=> present = Blocks
    BY BlocksCount DEF IInv, Types
  <2>6. \A u \in Threads : Over(u)'
    BY <1>2, <1>6 DEF OthersOver, Over
  <2>7. alreadyExisted' \in BOOLEAN /\ (alreadyExisted' <=> present' = Blocks)
    BY <1>1, <2>1, <2>4, <2>5
  <2> QED
    BY <1>5, <2>6, <2>7 DEF CountInv, Judged
<1>7. CASE ~OthersOver(t)
  <2>1. UNCHANGED <<finished, alreadyExisted>>
    BY <1>7 DEF NextIdle, aggVars
  <2> QED
    BY <1>1, <1>5, <2>1 DEF CountInv, Judged, Over
<1> QED
  BY <1>6, <1>7

(* What an answer does to the blocks in flight.                              *)
LEMMA Answered ==
  ASSUME Types, OnePlace, NEW t \in Busy, thread'[t] # "uploading", UNCHANGED block,
         \A u \in Threads \ {t} : thread'[u] = thread[u]
  PROVE  /\ Busy' = Busy \ {t} /\ InFlight' = InFlight \ {block[t]}
         /\ block[t] \in InFlight /\ block[t] \notin Settled /\ block[t] \in Blocks \ present
<1>1. Busy' = Busy \ {t}
  BY DEF Busy
<1>2. InFlight' = InFlight \ {block[t]} /\ block[t] \in InFlight
  BY <1>1 DEF InFlight, OnePlace
<1>3. block[t] \in Blocks
  BY DEF Types, Busy
<1> QED
  BY <1>1, <1>2, <1>3 DEF Settled, OnePlace

LEMMA UploadOkCounts == IInv /\ CountInv /\ (\E t \in Threads : UploadOk(t)) => CountInv'
<1> SUFFICES ASSUME IInv, CountInv, NEW t \in Threads, UploadOk(t) PROVE CountInv'
  OBVIOUS
<1>1. /\ thread[t] = "uploading" /\ thread' = [thread EXCEPT ![t] = "scheduled"]
      /\ Tracker!Complete(1)
      /\ UNCHANGED <<issued, retry, block, present, finished, alreadyDone, alreadyExisted>>
  BY DEF UploadOk, aggVars
<1>2. thread'[t] = "scheduled" /\ \A u \in Threads \ {t} : thread'[u] = thread[u]
  BY <1>1 DEF IInv, Types
<1>3. /\ Busy' = Busy \ {t} /\ InFlight' = InFlight \ {block[t]}
      /\ block[t] \in InFlight /\ block[t] \notin Settled /\ block[t] \in Blocks \ present
  BY <1>1, <1>2, Answered DEF IInv, CountInv, Busy
<1>4. Unissued' = Unissued /\ Waiting' = Waiting /\ block[t] \notin Waiting \cup Unissued
  BY <1>1 DEF Unissued, Waiting, Busy, CountInv, OnePlace
<1>5. Settled' = Settled \cup {block[t]}
  BY <1>3, <1>4 DEF Settled
<1>6. Counted'
  BY <1>1, <1>3, <1>5, Settles DEF IInv, CountInv
<1>7. OnePlace'
  BY <1>1, <1>3, <1>4 DEF CountInv, OnePlace
<1>8. Judged'
  BY <1>1 DEF CountInv, Judged, Over
<1> QED
  BY <1>6, <1>7, <1>8 DEF CountInv

LEMMA UploadFailsCounts == IInv /\ CountInv /\ (\E t \in Threads : UploadFails(t)) => CountInv'
<1> SUFFICES ASSUME IInv, CountInv, NEW t \in Threads, UploadFails(t) PROVE CountInv'
  OBVIOUS
<1>1. /\ thread[t] = "uploading" /\ retry' = Append(retry, block[t])
      /\ UNCHANGED <<issued, completed, block, present, finished, alreadyDone, alreadyExisted>>
  BY DEF UploadFails, Tracker!Fail, aggVars
<1>2. \/ thread' = [thread EXCEPT ![t] = "retired"]
      \/ thread' = [thread EXCEPT ![t] = "scheduled"]
  BY DEF UploadFails
<1>3. thread'[t] # "uploading" /\ \A u \in Threads \ {t} : thread'[u] = thread[u]
  BY <1>2 DEF IInv, Types
<1>4. /\ Busy' = Busy \ {t} /\ InFlight' = InFlight \ {block[t]}
      /\ block[t] \in InFlight /\ block[t] \notin Settled /\ block[t] \in Blocks \ present
  BY <1>1, <1>3, Answered DEF IInv, CountInv, Busy
<1>5. Unissued' = Unissued /\ block[t] \notin Waiting \cup Unissued
  BY <1>1 DEF Unissued, Busy, CountInv, OnePlace
<1>6. /\ Waiting' = Waiting \cup {block[t]}
      /\ \A j, k \in DOMAIN retry' : j # k => retry'[j] # retry'[k]
  <2>1. retry \in Seq(Blocks) /\ block[t] \in Blocks
    BY <1>4 DEF IInv, Types
  <2>2. Waiting' = Waiting \cup {block[t]}
    BY <1>1, <2>1, AppendElements DEF Waiting
  <2>3. \A k \in DOMAIN retry : retry[k] # block[t]
    BY <1>5 DEF Waiting
  <2>4. \A j, k \in DOMAIN retry : j # k => retry[j] # retry[k]
    BY DEF CountInv, OnePlace
  <2> QED
    BY <1>1, <2>1, <2>2, <2>3, <2>4, AppendUnique
<1>7. Settled' = Settled
  BY <1>4, <1>5, <1>6 DEF Settled
<1>8. Counted'
  BY <1>1, <1>7 DEF CountInv, Counted
<1>9. OnePlace'
  <2>1. \A u \in Busy' : u \in Busy /\ block[u] # block[t]
    BY <1>1, <1>4 DEF CountInv, OnePlace, Busy
  <2> QED
    BY <1>1, <1>4, <1>5, <1>6, <2>1 DEF CountInv, OnePlace
<1>10. Judged'
  BY <1>1 DEF CountInv, Judged, Over
<1> QED
  BY <1>8, <1>9, <1>10 DEF CountInv

LEMMA ScanFailsCounts == IInv /\ CountInv /\ ScanFails => CountInv'
<1> SUFFICES ASSUME IInv, CountInv, ScanFails PROVE CountInv'
  OBVIOUS
<1>1. /\ thread' = [t \in Threads |-> "unused"]
      /\ UNCHANGED <<issued, retry, completed, block, present, finished, alreadyDone, alreadyExisted>>
  BY DEF ScanFails, trackerVars, aggVars
<1>2. Busy = {} /\ \E t \in Threads : ~Over(t)
  <2>1. PICK t \in Threads : thread[t] = "new"
    BY DEF ScanFails, Started
  <2> QED
    BY <2>1 DEF IInv, StartTogether, Running, Busy, Over
<1>3. Busy' = {}
  BY <1>1 DEF Busy
<1> QED
  BY <1>1, <1>2, <1>3 DEF CountInv, OnePlace, Counted, Judged, Settled, Unissued, InFlight, Waiting

LEMMA Md5Counts == IInv /\ CountInv /\ Md5Step => CountInv'
<1> SUFFICES ASSUME IInv, CountInv, Md5Step PROVE CountInv'
  OBVIOUS
<1>1. /\ UNCHANGED <<issued, retry, completed, thread, block, alreadyDone, present, alreadyExisted>>
      /\ \/ UNCHANGED finished
         \/ \E res \in {"ok", "error"} : finished' = [finished EXCEPT !["md5"] = res]
  BY DEF Md5Step, Md5Read, Md5ReadFails, Md5Set, Md5SetFails, Md5Unchanged, trackerVars,
         threadVars, aggVars, Agg!Callback
<1>2. finished'["upload"] = finished["upload"]
  BY <1>1 DEF IInv, Types
<1> QED
  BY <1>1, <1>2, CountUntouched

LEMMA CountKeeps == IInv /\ CountInv /\ [Next]_vars => CountInv'
<1> SUFFICES ASSUME IInv, CountInv, [Next]_vars PROVE CountInv'
  OBVIOUS
<1>1. CASE UNCHANGED vars
  BY <1>1, CountUntouched DEF vars, trackerVars, aggVars, threadVars
<1>2. CASE Next
  BY <1>2, StartThreadsCounts, ScanFailsCounts, NextBlockCounts, NextIdleCounts, UploadOkCounts,
     UploadFailsCounts, Md5Counts DEF Next, ThreadStep
<1> QED
  BY <1>1, <1>2

(* The two counters that skips and uploads move apart count blocks, and the  *)
(* comparison of them tells what was there before (pageBlob.js:644-659).     *)
THEOREM CountersAgree == Spec => []CountInv
  BY CountInit, CountKeeps, Inductive, PTL DEF Spec

(* alreadyDone === completed says "nothing was uploaded" exactly when every  *)
(* block was in the cloud before (pageBlob.js:644-659).                      *)
THEOREM NothingToUploadIsTrue == Spec => []AlreadyExistedIsTrue
<1>1. CountInv => AlreadyExistedIsTrue
  BY DEF CountInv, Judged, AlreadyExistedIsTrue
<1> QED
  BY <1>1, CountersAgree, PTL
-----------------------------------------------------------------------------
(* The outcome.  The aggregator's books: an error can only come from the MD5,*)
(* and the final callback has been called as the two results demand.         *)
Verdict ==
  IF finished["md5"] = "error" THEN <<"error">>
  ELSE IF \A k \in registered : finished[k] = "ok" THEN <<"ok">> ELSE << >>

Joined ==
  /\ registered = IF md5 = "skipped" THEN {"upload"} ELSE {"upload", "md5"}
  /\ finished["md5"] # "no" => md5 = "over"
  /\ finished["upload"] # "error"
  /\ (isErrorState <=> finished["md5"] = "error")
  /\ finals = Verdict

(* The small variables have their types.                                     *)
Flags ==
  /\ errors \in Nat
  /\ wasIdle \in BOOLEAN /\ exiting \in BOOLEAN
  /\ isErrorState \in BOOLEAN /\ done \in BOOLEAN /\ alive \in BOOLEAN
  /\ md5 \in {"skipped", "reading", "setting", "clearing", "over", "abandoned"}
  /\ blobMd5 \in {"none", "hash"}

Unread == \E t \in Threads : thread[t] = "unused"

(* The three ways to conclude exclude each other: an upload that was given up*)
(* or never started does not end, and ends only once.                        *)
Concluded == exiting \/ Unread \/ finals # << >>
Hashless == md5 \in {"clearing", "over"} /\ blobMd5 = "none"

OnlyOnce ==
  /\ finals # << >> /\ alive => finished["upload"] # "no"
  /\ exiting \/ Unread =>
       /\ finished["upload"] = "no"
       /\ \A t \in Threads : thread[t] \in {"idle", "retired", "unused"}
  /\ blobMd5 # "none" => md5 = "over"
  /\ Len(reports) <= (IF Concluded THEN 1 ELSE 0) + (IF Hashless THEN 1 ELSE 0)

OutcomeInv == Joined /\ Flags /\ OnlyOnce
-----------------------------------------------------------------------------
LEMMA OutcomeInit == Init => OutcomeInv
<1> SUFFICES ASSUME Init PROVE OutcomeInv
  OBVIOUS
<1>1. /\ finished["upload"] = "no" /\ finished["md5"] = "no" /\ finals = << >>
      /\ registered = (IF md5 = "skipped" THEN {"upload"} ELSE {"upload", "md5"})
      /\ isErrorState = FALSE /\ done = FALSE /\ alive = TRUE /\ exiting = FALSE /\ wasIdle = FALSE
      /\ md5 \in {"reading", "skipped"} /\ blobMd5 = "none" /\ errors = 0 /\ reports = << >>
      /\ \A t \in Threads : thread[t] = "new"
  BY DEF Init, Tracker!Init
<1>2. "upload" \in registered
  BY <1>1
<1>3. Joined
  BY <1>1, <1>2 DEF Joined, Verdict
<1>4. Flags
  BY <1>1 DEF Flags
<1>5. Len(reports) = 0 /\ ~Concluded /\ ~Hashless
  BY <1>1 DEF Concluded, Unread, Hashless
<1>6. OnlyOnce
  BY <1>1, <1>5 DEF OnlyOnce, Unread
<1> QED
  BY <1>3, <1>4, <1>6 DEF OutcomeInv

(* The aggregator counts as this module does.                                *)
LEMMA SameCardinality == ASSUME NEW S PROVE Agg!Cardinality(S) = Cardinality(S)
  BY DEF Agg!Cardinality, Cardinality

(* When the last of the registered keys finishes, and only then, as many     *)
(* have finished as were registered.                                         *)
LEMMA AllFinished ==
  ASSUME IInv, Joined, NEW k \in registered
  PROVE  Agg!IsFinished(Agg!FinishedKeys \cup {k})
         <=> \A j \in registered \ {k} : finished[j] # "no"
<1> DEFINE F == Agg!FinishedKeys \cup {k}
<1>1. registered \in SUBSET {"upload", "md5"} /\ "upload" \in registered
  BY DEF Joined
<1>2. F \subseteq registered
  BY <1>1 DEF Joined, Agg!FinishedKeys
<1>3. IsFiniteSet(registered)
  <2>1. IsFiniteSet({"upload"} \cup {"md5"})
    BY FS_AddElement, FS_Singleton
  <2>2. registered \in SUBSET ({"upload"} \cup {"md5"})
    BY <1>1
  <2> QED
    BY <2>1, <2>2, FS_Subset
<1>4. Cardinality(registered) = Cardinality(F) <=> F = registered
  <2> HIDE DEF F
  <2> QED
    BY <1>2, <1>3, FS_Subset
<1>5. F = registered <=> \A j \in registered \ {k} : finished[j] # "no"
  <2>1. \A j \in registered \ {k} : j \in F <=> finished[j] # "no"
    BY <1>1 DEF Agg!FinishedKeys
  <2>2. k \in F
    OBVIOUS
  <2> HIDE DEF F
  <2> QED
    BY <1>2, <2>1, <2>2
<1> QED
  BY <1>4, <1>5, SameCardinality DEF Agg!IsFinished

(* A result that comes in: the final callback is called when the results     *)
(* demand it for the first time.                                             *)
LEMMA Joins ==
  ASSUME IInv, Joined, NEW k \in {"upload", "md5"}, NEW res \in {"ok", "error"},
         finished[k] = "no", k = "upload" => res = "ok" /\ UNCHANGED md5,
         k = "md5" => md5 # "skipped" /\ md5' = "over", Agg!Callback(k, res)
  PROVE  /\ Joined'
         /\ finished' = [finished EXCEPT ![k] = res]
         /\ finals' # finals => finals = << >> /\ finals' # << >>
         /\ finals' = finals => (finals' = << >> \/ finished["md5"] = "error")
<1> DEFINE ending == Agg!IsFinished(Agg!FinishedKeys \cup {k})
<1>1. /\ k \in registered /\ finished' = [finished EXCEPT ![k] = res] /\ registered' = registered
      /\ (isErrorState' <=> isErrorState \/ res = "error")
      /\ finals' = IF ~isErrorState /\ (res = "error" \/ ending) THEN Append(finals, res) ELSE finals
  BY DEF Agg!Callback
<1>2. ending <=> \A j \in registered \ {k} : finished[j] # "no"
  BY <1>1, AllFinished
<1> HIDE DEF ending
<1>3. /\ finished'[k] = res /\ \A j \in {"upload", "md5"} \ {k} : finished'[j] = finished[j]
      /\ \A j \in {"upload", "md5"} : finished[j] \in {"no", "ok", "error"}
      /\ "upload" \in registered /\ registered \subseteq {"upload", "md5"}
  BY <1>1 DEF IInv, Types, Joined
<1>4. /\ registered' = (IF md5' = "skipped" THEN {"upload"} ELSE {"upload", "md5"})
      /\ finished'["md5"] # "no" => md5' = "over"
      /\ finished'["upload"] # "error"
      /\ (isErrorState' <=> finished'["md5"] = "error")
  BY <1>1, <1>3 DEF Joined
<1>5. Append(<< >>, res) = <<res>> /\ <<res>> # << >> /\ <<"error">> # << >> /\ <<"ok">> # << >>
  OBVIOUS
<1>6. finals = IF finished["md5"] = "error" THEN <<"error">> ELSE << >>
  BY <1>1 DEF Joined, Verdict
<1>7. CASE isErrorState
  <2>1. finals' = <<"error">> /\ finals = <<"error">> /\ finished'["md5"] = "error" /\ finished["md5"] = "error"
    BY <1>1, <1>4, <1>6, <1>7 DEF Joined
  <2> QED
    BY <1>1, <1>4, <2>1 DEF Joined, Verdict
<1>8. CASE ~isErrorState /\ res = "error"
  <2>1. finals = << >> /\ finals' = <<"error">> /\ finished'["md5"] = "error"
    BY <1>1, <1>4, <1>5, <1>6, <1>8 DEF Joined
  <2> QED
    BY <1>1, <1>4, <1>5, <2>1 DEF Joined, Verdict
<1>9. CASE ~isErrorState /\ res = "ok"
  <2>1. finals = << >> /\ finals' = (IF ending THEN <<"ok">> ELSE << >>) /\ finished'["md5"] # "error"
    BY <1>1, <1>4, <1>5, <1>6, <1>9 DEF Joined
  <2>2. ending <=> \A j \in registered' : finished'[j] = "ok"
    BY <1>1, <1>2, <1>3, <1>4, <1>9, <2>1 DEF Joined
  <2> QED
    BY <1>1, <1>4, <1>5, <2>1, <2>2 DEF Joined, Verdict
<1> QED
  BY <1>7, <1>8, <1>9
-----------------------------------------------------------------------------
(* While a thread runs, nothing is concluded.                                *)
LEMMA Open ==
  ASSUME IInv, CountInv, OutcomeInv, alive, NEW t \in Threads,
         thread[t] \in {"new", "scheduled", "uploading"}
  PROVE  /\ ~exiting /\ ~Unread /\ finals = << >> /\ ~Concluded
         /\ finished["upload"] = "no" /\ Len(reports) <= (IF Hashless THEN 1 ELSE 0)
<1>1. ~exiting /\ ~Unread
  BY DEF OutcomeInv, OnlyOnce
<1>2. finished["upload"] = "no"
  BY DEF CountInv, Judged, Over
<1>3. finals = << >>
  BY <1>2 DEF OutcomeInv, OnlyOnce
<1>4. ~Concluded
  BY <1>1, <1>3 DEF Concluded
<1> QED
  BY <1>1, <1>2, <1>3, <1>4 DEF OutcomeInv, OnlyOnce

LEMMA ReportCounts ==
  ASSUME Types, NEW r \in {"success", "failure"}
  PROVE  Len(reports) \in Nat /\ Len(Append(reports, r)) = Len(reports) + 1
<1>1. reports \in Seq({"success", "failure"})
  BY DEF Types
<1> QED
  BY <1>1

LEMMA FlagsKeep == IInv /\ OutcomeInv /\ Next => Flags'
<1> SUFFICES ASSUME IInv, OutcomeInv, Next PROVE Flags'
  OBVIOUS
<1> USE DEF OutcomeInv, Flags
<1>1. CASE StartThreads
  BY <1>1 DEF StartThreads, aggVars
<1>2. CASE ScanFails
  BY <1>2 DEF ScanFails, aggVars, trackerVars
<1>3. ASSUME NEW t \in Threads, NextBlock(t) PROVE Flags'
  BY <1>3 DEF NextBlock, aggVars, Tracker!Take
<1>4. ASSUME NEW t \in Threads, NextIdle(t) PROVE Flags'
  <2>1. UNCHANGED <<errors, exiting, md5, blobMd5>> /\ wasIdle' = TRUE /\ alive
    BY <1>4 DEF NextIdle, trackerVars
  <2>2. CASE UNCHANGED <<aggVars, alive>>
    BY <2>1, <2>2 DEF aggVars
  <2>3. CASE Agg!Callback("upload", "ok") /\ OnAggregated
    BY <2>1, <2>3 DEF Agg!Callback, OnAggregated
  <2> QED
    BY <1>4, <2>2, <2>3 DEF NextIdle
<1>5. ASSUME NEW t \in Threads, UploadOk(t) PROVE Flags'
  BY <1>5 DEF UploadOk, aggVars
<1>6. ASSUME NEW t \in Threads, UploadFails(t) PROVE Flags'
  <2>1. UNCHANGED <<wasIdle, isErrorState, done, alive, md5, blobMd5>> /\ errors' = errors + 1
    BY <1>6 DEF UploadFails, aggVars, Tracker!Fail
  <2>2. exiting' \in BOOLEAN
    <3>1. OthersOver(t) \in BOOLEAN
      BY DEF OthersOver
    <3> QED
      BY <1>6, <3>1 DEF UploadFails
  <2> QED
    BY <2>1, <2>2
<1>7. CASE Md5Step
  <2>1. UNCHANGED <<errors, wasIdle, exiting>>
    BY <1>7 DEF Md5Step, Md5Read, Md5ReadFails, Md5Set, Md5SetFails, Md5Unchanged, trackerVars, threadVars
  <2>2. CASE Md5Read \/ Md5ReadFails
    BY <2>1, <2>2 DEF Md5Read, Md5ReadFails, aggVars
  <2>3. CASE Md5Set \/ Md5SetFails
    <3>1. md5' = "over" /\ blobMd5' \in {"none", "hash"}
      BY <2>3 DEF Md5Set, Md5SetFails
    <3>2. PICK res \in {"ok", "error"} : Agg!Callback("md5", res) /\ OnAggregated
      BY <2>3 DEF Md5Set, Md5SetFails
    <3>3. isErrorState' \in BOOLEAN /\ done' \in BOOLEAN /\ alive' \in BOOLEAN
      BY <3>2 DEF Agg!Callback, OnAggregated
    <3> QED
      BY <2>1, <3>1, <3>3
  <2> QED
    BY <1>7, <2>2, <2>3 DEF Md5Step
<1> QED
  BY <1>1, <1>2, <1>3, <1>4, <1>5, <1>6, <1>7 DEF Next, ThreadStep

(* Steps that leave the aggregator alone.                                    *)
LEMMA JoinedUntouched ==
  ASSUME Joined, UNCHANGED aggVars, md5' = "skipped" <=> md5 = "skipped",
         md5 = "over" => md5' = "over"
  PROVE  Joined'
<1>1. registered' = registered /\ finished' = finished /\ isErrorState' = isErrorState /\ finals' = finals
  BY DEF aggVars
<1>2. Verdict' = Verdict
  BY <1>1 DEF Verdict
<1> QED
  BY <1>1, <1>2 DEF Joined

LEMMA OutcomeStarts == IInv /\ CountInv /\ OutcomeInv /\ (StartThreads \/ ScanFails) => Joined' /\ OnlyOnce'
<1> SUFFICES ASSUME IInv, CountInv, OutcomeInv, StartThreads \/ ScanFails PROVE Joined' /\ OnlyOnce'
  OBVIOUS
<1>1. alive /\ UNCHANGED <<aggVars, exiting, md5, blobMd5, alive>>
  BY DEF StartThreads, ScanFails
<1>2. PICK t \in Threads : thread[t] = "new"
  BY DEF StartThreads, ScanFails, Started
<1>3. /\ ~exiting /\ finals = << >> /\ finished["upload"] = "no"
      /\ Len(reports) <= (IF Hashless THEN 1 ELSE 0)
  BY <1>1, <1>2, Open
<1>4. Joined'
  BY <1>1, JoinedUntouched DEF OutcomeInv
<1>5. Hashless' = Hashless /\ ~exiting' /\ finals' = << >> /\ finished'["upload"] = "no"
      /\ (blobMd5' # "none" => md5' = "over")
  BY <1>1, <1>3 DEF Hashless, aggVars, OutcomeInv, OnlyOnce
<1>6. CASE StartThreads
  <2>1. ~Unread' /\ reports' = reports
    BY <1>6 DEF StartThreads, Unread
  <2>2. ~Concluded'
    BY <1>5, <2>1 DEF Concluded
  <2> QED
    BY <1>3, <1>4, <1>5, <2>1, <2>2 DEF OnlyOnce
<1>7. CASE ScanFails
  <2>1. (\A u \in Threads : thread'[u] = "unused") /\ reports' = Append(reports, "failure")
    BY <1>7 DEF ScanFails
  <2>2. Concluded'
    BY <1>2, <2>1 DEF Concluded, Unread
  <2>3. Len(reports) \in Nat /\ Len(reports') = Len(reports) + 1
    BY <2>1, ReportCounts DEF IInv
  <2> QED
    BY <1>3, <1>4, <1>5, <2>1, <2>2, <2>3 DEF OnlyOnce
<1> QED
  BY <1>6, <1>7

(* A thread's step that concludes nothing.                                   *)
LEMMA GoesOn ==
  ASSUME IInv, OutcomeInv, ~exiting, ~Unread, finals = << >>, finished["upload"] = "no",
         Len(reports) <= (IF Hashless THEN 1 ELSE 0),
         UNCHANGED <<aggVars, exiting, md5, blobMd5, reports, alive>>,
         \A u \in Threads : thread'[u] = thread[u] \/ thread'[u] # "unused"
  PROVE  Joined' /\ OnlyOnce'
<1>1. Joined'
  BY JoinedUntouched DEF OutcomeInv
<1>2. Hashless' = Hashless /\ ~exiting' /\ finals' = << >> /\ finished'["upload"] = "no"
      /\ (blobMd5' # "none" => md5' = "over")
  BY DEF Hashless, aggVars, OutcomeInv, OnlyOnce
<1>3. ~Unread'
  BY DEF Unread
<1>4. ~Concluded'
  BY <1>2, <1>3 DEF Concluded
<1> QED
  BY <1>1, <1>2, <1>3, <1>4 DEF OnlyOnce

LEMMA OutcomeThreads ==
  ASSUME IInv, CountInv, OutcomeInv, NEW t \in Threads, ThreadStep(t)
  PROVE  Joined' /\ OnlyOnce'
<1>1. alive /\ thread[t] \in {"scheduled", "uploading"}
  BY DEF ThreadStep, NextBlock, NextIdle, UploadOk, UploadFails
<1>2. /\ ~exiting /\ ~Unread /\ finals = << >> /\ finished["upload"] = "no"
      /\ Len(reports) <= (IF Hashless THEN 1 ELSE 0)
  BY <1>1, Open
<1>3. thread \in [Threads -> {"new", "unused"} \cup Running]
  BY DEF IInv, Types
<1>4. CASE NextBlock(t)
  <2>1. UNCHANGED <<aggVars, exiting, md5, blobMd5, reports, alive>>
    BY <1>4 DEF NextBlock
  <2>2. UNCHANGED thread \/ thread' = [thread EXCEPT ![t] = "uploading"]
    BY <1>4 DEF NextBlock
  <2>3. \A u \in Threads : thread'[u] = thread[u] \/ thread'[u] # "unused"
    BY <1>3, <2>2
  <2> QED
    BY <1>2, <2>1, <2>3, GoesOn
<1>5. CASE UploadOk(t)
  <2>1. UNCHANGED <<aggVars, exiting, md5, blobMd5, reports, alive>>
        /\ thread' = [thread EXCEPT ![t] = "scheduled"]
    BY <1>5 DEF UploadOk
  <2>2. \A u \in Threads : thread'[u] = thread[u] \/ thread'[u] # "unused"
    BY <1>3, <2>1
  <2> QED
    BY <1>2, <2>1, <2>2, GoesOn
<1>6. CASE NextIdle(t)
  <2>1. UNCHANGED <<exiting, md5, blobMd5>> /\ thread' = [thread EXCEPT ![t] = "idle"]
    BY <1>6 DEF NextIdle
  <2>2. \A u \in Threads : thread'[u] = thread[u] \/ thread'[u] # "unused"
    BY <1>3, <2>1
  <2>3. CASE UNCHANGED <<aggVars, reports, alive>>
    BY <1>2, <2>1, <2>2, <2>3, GoesOn
  <2>4. CASE Agg!Callback("upload", "ok") /\ OnAggregated
    <3>1. /\ Joined' /\ finished' = [finished EXCEPT !["upload"] = "ok"]
          /\ finals' # finals => finals = << >> /\ finals' # << >>
      BY <1>2, <2>1, <2>4, Joins DEF OutcomeInv
    <3>2. finished'["upload"] = "ok"
      BY <3>1 DEF IInv, Types
    <3>3. Hashless' = Hashless /\ ~exiting' /\ (blobMd5' # "none" => md5' = "over")
      BY <1>2, <2>1 DEF Hashless, OutcomeInv, OnlyOnce
    <3>4. ~Unread'
      BY <1>2, <2>2 DEF Unread
    <3>5. CASE finals' = finals
      <4>1. reports' = reports /\ ~Concluded'
        BY <1>2, <2>4, <3>3, <3>4, <3>5 DEF OnAggregated, Concluded
      <4> QED
        BY <1>2, <3>1, <3>2, <3>3, <3>4, <3>5, <4>1 DEF OnlyOnce
    <3>6. CASE finals' # finals
      <4>1. reports' = Append(reports, "success") /\ Concluded'
        BY <2>4, <3>1, <3>2, <3>6 DEF OnAggregated, Concluded
      <4>2. Len(reports) \in Nat /\ Len(reports') = Len(reports) + 1
        BY <4>1, ReportCounts DEF IInv
      <4> QED
        BY <1>2, <3>1, <3>2, <3>3, <3>4, <4>1, <4>2 DEF OnlyOnce
    <3> QED
      BY <3>5, <3>6
  <2> QED
    BY <1>6, <2>3, <2>4 DEF NextIdle
<1>7. CASE UploadFails(t)
  <2>1. UNCHANGED <<aggVars, md5, blobMd5, alive>>
    BY <1>7 DEF UploadFails
  <2>2. CASE thread' = [thread EXCEPT ![t] = "scheduled"] /\ UNCHANGED <<exiting, reports>>
    <3>1. \A u \in Threads : thread'[u] = thread[u] \/ thread'[u] # "unused"
      BY <1>3, <2>2
    <3> QED
      BY <1>2, <2>1, <2>2, <3>1, GoesOn
  <2>3. CASE /\ thread' = [thread EXCEPT ![t] = "retired"] /\ exiting' = OthersOver(t)
             /\ reports' = IF OthersOver(t) THEN Append(reports, "failure") ELSE reports
    <3>1. \A u \in Threads : thread'[u] = thread[u] \/ thread'[u] # "unused"
      BY <1>3, <2>3
    <3>2. CASE ~OthersOver(t)
      <4>1. UNCHANGED <<exiting, reports>>
        <5>1. exiting' = FALSE /\ reports' = reports
          BY <2>3, <3>2
        <5>2. exiting = FALSE
          BY <1>2 DEF OutcomeInv, Flags
        <5> QED
          BY <5>1, <5>2
      <4> QED
        BY <1>2, <2>1, <3>1, <4>1, GoesOn
    <3>3. CASE OthersOver(t)
      <4>1. exiting' /\ Concluded' /\ reports' = Append(reports, "failure")
        BY <2>3, <3>3 DEF Concluded
      <4>2. \A u \in Threads : thread'[u] \in {"idle", "retired"}
        BY <1>3, <2>3, <3>3 DEF OthersOver, Over
      <4>3. Len(reports) \in Nat /\ Len(reports') = Len(reports) + 1
        BY <4>1, ReportCounts DEF IInv
      <4>4. Hashless' = Hashless /\ finals' = << >> /\ finished'["upload"] = "no"
            /\ (blobMd5' # "none" => md5' = "over")
        BY <1>2, <2>1 DEF Hashless, aggVars, OutcomeInv, OnlyOnce
      <4>5. Joined'
        BY <2>1, JoinedUntouched DEF OutcomeInv
      <4> QED
        BY <1>2, <4>1, <4>2, <4>3, <4>4, <4>5 DEF OnlyOnce
    <3> QED
      BY <3>2, <3>3
  <2> QED
    BY <1>7, <2>2, <2>3 DEF UploadFails
<1> QED
  BY <1>4, <1>5, <1>6, <1>7 DEF ThreadStep

(* The hash is read, or cannot be: an abandoned or a hashless blob follows.  *)
LEMMA OutcomeReads == IInv /\ OutcomeInv /\ (Md5Read \/ Md5ReadFails) => Joined' /\ OnlyOnce'
<1> SUFFICES ASSUME IInv, OutcomeInv, Md5Read \/ Md5ReadFails PROVE Joined' /\ OnlyOnce'
  OBVIOUS
<1>1. /\ md5 = "reading" /\ md5' \in {"abandoned", "setting", "clearing"}
      /\ UNCHANGED <<thread, exiting, aggVars, blobMd5, alive>>
  BY DEF Md5Read, Md5ReadFails, Md5Unchanged, threadVars
<1>2. Joined'
  BY <1>1, JoinedUntouched DEF OutcomeInv
<1>3. blobMd5 = "none" /\ ~Hashless
  BY <1>1 DEF Hashless, OutcomeInv, OnlyOnce, Flags
<1>4. Concluded' <=> Concluded
  BY <1>1 DEF Concluded, Unread, aggVars
<1>5. Len(reports') <= Len(reports) + (IF Hashless' THEN 1 ELSE 0)
  <2>1. CASE Md5Read
    <3>1. Len(reports) \in Nat
      BY ReportCounts DEF IInv
    <3> QED
      BY <2>1, <3>1 DEF Md5Read
  <2>2. CASE Md5ReadFails
    <3>1. reports' = Append(reports, "failure") /\ Hashless'
      BY <1>1, <1>3, <2>2 DEF Md5ReadFails, Hashless
    <3> QED
      BY <3>1, ReportCounts DEF IInv
  <2> QED
    BY <2>1, <2>2
<1>6. Len(reports) \in Nat /\ Len(reports') \in Nat
  <2>1. reports' = reports \/ reports' = Append(reports, "failure")
    BY DEF Md5Read, Md5ReadFails
  <2> QED
    BY <2>1, ReportCounts DEF IInv
<1>7. Len(reports') <= (IF Concluded' THEN 1 ELSE 0) + (IF Hashless' THEN 1 ELSE 0)
  BY <1>3, <1>4, <1>5, <1>6 DEF OutcomeInv, OnlyOnce
<1> QED
  BY <1>1, <1>2, <1>3, <1>7 DEF OutcomeInv, OnlyOnce, Unread, aggVars

(* The property has been written, or not, and the MD5 calls the aggregator.  *)
LEMMA OutcomeSets == IInv /\ OutcomeInv /\ (Md5Set \/ Md5SetFails) => Joined' /\ OnlyOnce'
<1> SUFFICES ASSUME IInv, OutcomeInv, Md5Set \/ Md5SetFails PROVE Joined' /\ OnlyOnce'
  OBVIOUS
<1>1. PICK res \in {"ok", "error"} : Agg!Callback("md5", res) /\ OnAggregated
  BY DEF Md5Set, Md5SetFails
<1>2. md5 \in {"setting", "clearing"} /\ md5' = "over" /\ UNCHANGED <<thread, exiting>> /\ alive
  BY DEF Md5Set, Md5SetFails, Md5Unchanged, threadVars, Md5May
<1>3. finished["md5"] = "no" /\ blobMd5 = "none"
  BY <1>2 DEF OutcomeInv, Joined, OnlyOnce, Flags
<1>4. /\ Joined' /\ finished' = [finished EXCEPT !["md5"] = res]
      /\ finals' # finals => finals = << >> /\ finals' # << >>
  BY <1>1, <1>2, <1>3, Joins DEF OutcomeInv
<1>5. finished'["upload"] = finished["upload"]
  BY <1>4 DEF IInv, Types
<1>6. Hashless => Hashless'
  BY <1>2, <1>3 DEF Hashless, Md5Set, Md5SetFails
<1>7. Len(reports) \in Nat
  BY ReportCounts DEF IInv
<1>8. CASE finals' = finals
  <2>1. UNCHANGED <<reports, alive>> /\ (Concluded' <=> Concluded)
    BY <1>1, <1>2, <1>8 DEF OnAggregated, Concluded, Unread
  <2>2. Len(reports') <= (IF Concluded' THEN 1 ELSE 0) + (IF Hashless' THEN 1 ELSE 0)
    BY <1>6, <1>7, <2>1 DEF OutcomeInv, OnlyOnce
  <2> QED
    BY <1>2, <1>4, <1>5, <1>8, <2>1, <2>2 DEF OutcomeInv, OnlyOnce, Unread
<1>9. CASE finals' # finals /\ finished["upload"] = "no"
  <2>1. ~alive' /\ reports' = reports /\ Concluded'
    BY <1>1, <1>4, <1>5, <1>9 DEF OnAggregated, Concluded
  <2>2. Len(reports') <= (IF Concluded' THEN 1 ELSE 0) + (IF Hashless' THEN 1 ELSE 0)
    BY <1>6, <1>7, <2>1 DEF OutcomeInv, OnlyOnce
  <2> QED
    BY <1>2, <1>4, <1>5, <2>1, <2>2 DEF OutcomeInv, OnlyOnce, Unread
<1>10. CASE finals' # finals /\ finished["upload"] # "no"
  <2>1. ~Concluded
    BY <1>4, <1>10 DEF Concluded, OutcomeInv, OnlyOnce
  <2>2. reports' = Append(reports, "success") /\ alive' = alive /\ Concluded'
    BY <1>1, <1>4, <1>5, <1>10 DEF OnAggregated, Concluded
  <2>3. Len(reports') = Len(reports) + 1
    BY <2>2, ReportCounts DEF IInv
  <2>4. Len(reports') <= (IF Concluded' THEN 1 ELSE 0) + (IF Hashless' THEN 1 ELSE 0)
    BY <1>6, <1>7, <2>1, <2>2, <2>3 DEF OutcomeInv, OnlyOnce
  <2> QED
    BY <1>2, <1>4, <1>5, <1>10, <2>1, <2>2, <2>4 DEF OutcomeInv, OnlyOnce, Concluded, Unread
<1> QED
  BY <1>8, <1>9, <1>10

LEMMA OutcomeKeeps == IInv /\ CountInv /\ OutcomeInv /\ [Next]_vars => OutcomeInv'
<1> SUFFICES ASSUME IInv, CountInv, OutcomeInv, [Next]_vars PROVE OutcomeInv'
  OBVIOUS
<1>1. CASE UNCHANGED vars
  BY <1>1 DEF vars, trackerVars, aggVars, threadVars, OutcomeInv, Joined, Verdict, Flags,
              OnlyOnce, Concluded, Unread, Hashless
<1>2. CASE Next
  <2>1. Flags'
    BY <1>2, FlagsKeep
  <2>2. Joined' /\ OnlyOnce'
    BY <1>2, OutcomeStarts, OutcomeThreads, OutcomeReads, OutcomeSets DEF Next, Md5Step
  <2> QED
    BY <2>1, <2>2 DEF OutcomeInv
<1> QED
  BY <1>1, <1>2

LEMMA OutcomeHolds == Spec => []OutcomeInv
  BY OutcomeInit, OutcomeKeeps, Inductive, CountersAgree, PTL DEF Spec

(* The callback of the caller is called once, whatever fails, except after a *)
(* failure of the MD5 or of the scan beside it (exitWithError() returns).    *)
THEOREM OneOutcomeOnly == Spec => []OneOutcome
<1>1. IInv /\ OutcomeInv => OneOutcome
  <2> SUFFICES ASSUME IInv, OutcomeInv, Len(reports) > 1 PROVE Hashless
    BY DEF OneOutcome, Hashless
  <2>1. Len(reports) \in Nat /\ Len(reports) <= (IF Concluded THEN 1 ELSE 0) + (IF Hashless THEN 1 ELSE 0)
    BY ReportCounts DEF IInv, OutcomeInv, OnlyOnce
  <2> QED
    BY <2>1
<1> QED
  BY <1>1, Inductive, OutcomeHolds, PTL

(* The variables keep their types.                                           *)
THEOREM TypeCorrect == Spec => []TypeOK
<1>1. IInv /\ CountInv /\ OutcomeInv => TypeOK
  <2> SUFFICES ASSUME IInv, CountInv, OutcomeInv PROVE TypeOK
    OBVIOUS
  <2>1. completed \in 0 .. NumBlocks /\ alreadyDone \in 0 .. NumBlocks
    <3>1. Settled \in SUBSET Blocks /\ Settled \cap present \in SUBSET Blocks
      BY DEF Settled
    <3> QED
      BY <3>1, BlocksCount DEF CountInv, Counted
  <2>2. Agg!AggTypeOK
    <3>1. registered \subseteq {"upload", "md5"}
      BY DEF OutcomeInv, Joined
    <3>2. finals \in {<< >>} \cup {<<res>> : res \in {"ok", "error"}}
      BY DEF OutcomeInv, Joined, Verdict
    <3>3. finished \in [{"upload", "md5"} -> {"ok", "error"} \cup {"no"}]
      BY DEF IInv, Types
    <3> QED
      BY <3>1, <3>2, <3>3 DEF Agg!AggTypeOK, Agg!Results, OutcomeInv, Flags
  <2>3. thread \in [Threads -> {"new", "scheduled", "uploading", "idle", "retired", "unused"}]
    BY DEF IInv, Types, Running
  <2>4. present \in SUBSET Blocks /\ cloud \in SUBSET Blocks
    BY DEF IInv, Types
  <2> QED
    BY <2>1, <2>2, <2>3, <2>4 DEF TypeOK, IInv, Types, CountInv, Judged, OutcomeInv, Flags
<1> QED
  BY <1>1, Inductive, CountersAgree, OutcomeHolds, PTL
=============================================================================
