--------------------------- MODULE PageBlobUpload ---------------------------
(* uploadPageBlobFromBlobService (upload/pageBlob.js) from the moment the    *)
(* blob exists: parallel "threads" of requests that share a job tracker,     *)
(* retries with a shrinking pool, the MD5 computation that runs beside them, *)
(* and the aggregator that joins the two.                                    *)
(*                                                                           *)
(* Everything runs on one event loop: an action is one callback of that      *)
(* loop.  Blocks are named by the tracker's index; index 0 is the footer.    *)
EXTENDS Integers, Sequences, FiniteSets

CONSTANTS NumBlocks,     \* totalBlocks
          NumThreads,    \* numThreads, after it is cut to totalBlocks
          DynVHD,        \* a dynamic VHD needs no scan for zero blocks
          RateNum,       \* a pool with an idle thread shrinks only above
          RateDen        \*   the error rate RateNum / RateDen (0.95)

ASSUME SizeAssumption ==
  /\ NumBlocks \in Nat \ {0}
  /\ NumThreads \in 1 .. NumBlocks
ASSUME RateAssumption ==
  /\ RateNum \in Nat \ {0}
  /\ RateDen \in Nat
  /\ RateNum < RateDen
ASSUME DynVHDAssumption == DynVHD \in BOOLEAN

Blocks == 0 .. NumBlocks - 1
Threads == 0 .. NumThreads - 1

VARIABLES issued, retry, errors, completed,                 \* the tracker
          registered, finished, isErrorState, done, finals, \* md5Agg
          thread,        \* what each thread waits for
          block,         \* the index a thread works on
          wasIdle, exiting,
          alreadyDone,   \* number of blocks skipped
          present,       \* blocks that need no upload: already in the cloud
                         \*   (uploadedRegions), or all zero
          cloud,         \* blocks whose content the blob has
          md5,           \* the MD5 computation
          blobMd5,       \* the contentMD5 property of the blob
          alreadyExisted,\* second argument of md5AggUpload
          reports,       \* calls of the caller's callback
          alive          \* FALSE after an uncaught exception

Tracker == INSTANCE RetryQueue WITH IndexCount <- NumBlocks
Agg == INSTANCE CallbackAggregator WITH Keys <- {"upload", "md5"}

trackerVars == <<issued, retry, errors, completed>>
aggVars == <<registered, finished, isErrorState, done, finals>>
threadVars == <<thread, block, wasIdle, alreadyDone>>
vars == <<trackerVars, aggVars, threadVars, exiting, present, cloud,
          md5, blobMd5, alreadyExisted, reports, alive>>

skipMd5 == md5 = "skipped"
Started == \A t \in Threads : thread[t] # "new"
Over(t) == thread[t] \in {"idle", "retired"}

(* Mutant: the first thread that ends is taken for the last one.             *)
OthersOverAlways(t) == TRUE

(* Mutant: threads that retired after an error are not counted.              *)
OthersIdle(t) == \A u \in Threads \ {t} : thread[u] = "idle"

(* doneThreads == runningThreads, or numThreads, once t is counted.          *)
OthersOver(t) == \A u \in Threads \ {t} : Over(u)

Init ==
  /\ Tracker!Init
  /\ thread = [t \in Threads |-> "new"]
  /\ block = [t \in Threads |-> 0]
  /\ wasIdle = FALSE /\ exiting = FALSE
  /\ alreadyDone = 0
  /\ present \in SUBSET Blocks
  /\ cloud = present
  /\ md5 \in {"reading", "skipped"}
  /\ blobMd5 = "none"
  /\ registered = IF md5 = "skipped" THEN {"upload"} ELSE {"upload", "md5"}
  /\ finished = [k \in {"upload", "md5"} |-> "no"]
  /\ isErrorState = FALSE /\ done = FALSE /\ finals = << >>
  /\ alreadyExisted = FALSE
  /\ reports = << >>
  /\ alive = TRUE

(* The final callback of md5Agg.  It does not look at the key of an error;   *)
(* it reads finished.upload[1], which throws when the upload has not ended.  *)
OnAggregated ==
  IF finals' = finals THEN UNCHANGED <<reports, alive>>
  ELSE IF finished'["upload"] = "no" THEN alive' = FALSE /\ UNCHANGED reports
  ELSE reports' = Append(reports, "success") /\ UNCHANGED alive
-----------------------------------------------------------------------------
(* startThreads(): thread t asks for an index in turn and gets index t.      *)
StartThreads ==
  /\ alive /\ ~Started
  /\ LET skipped == Threads \cap present
     IN  /\ thread' = [t \in Threads |->
                         IF t \in skipped THEN "scheduled" ELSE "uploading"]
         /\ Tracker!Complete(Cardinality(skipped))
         /\ alreadyDone' = Cardinality(skipped)
  /\ block' = [t \in Threads |-> t]
  /\ issued' = NumThreads
  /\ UNCHANGED <<retry, errors, aggVars, wasIdle, exiting, present, cloud,
                 md5, blobMd5, alreadyExisted, reports, alive>>

(* findNonZeroBlocks() fails: no thread is ever started.                     *)
ScanFails ==
  /\ alive /\ ~Started /\ ~DynVHD
  /\ reports' = Append(reports, "failure")
  /\ thread' = [t \in Threads |-> "unused"]
  /\ UNCHANGED <<trackerVars, aggVars, block, wasIdle, alreadyDone, exiting,
                 present, cloud, md5, blobMd5, alreadyExisted, alive>>

(* Mutant: alreadyDone also counts the blocks that are sent.                 *)
NextBlockCountsAll(t) ==
  /\ alive /\ thread[t] = "scheduled"
  /\ \E i \in Blocks :
       /\ Tracker!Take(i)
       /\ block' = [block EXCEPT ![t] = i]
       /\ alreadyDone' = alreadyDone + 1
       /\ IF i \in present
            THEN Tracker!Complete(1) /\ UNCHANGED thread
            ELSE /\ thread' = [thread EXCEPT ![t] = "uploading"]
                 /\ UNCHANGED completed
  /\ UNCHANGED <<aggVars, wasIdle, exiting, present, cloud, md5, blobMd5,
                 alreadyExisted, reports, alive>>

(* next(t) gets an index and sends the block, or skips it.                   *)
NextBlock(t) ==
  /\ alive /\ thread[t] = "scheduled"
  /\ \E i \in Blocks :
       /\ Tracker!Take(i)
       /\ block' = [block EXCEPT ![t] = i]
       /\ \/ /\ i \in present
             /\ Tracker!Complete(1)
             /\ alreadyDone' = alreadyDone + 1
             /\ UNCHANGED thread
          \/ /\ i \notin present
             /\ thread' = [thread EXCEPT ![t] = "uploading"]
             /\ UNCHANGED <<completed, alreadyDone>>
  /\ UNCHANGED <<aggVars, wasIdle, exiting, present, cloud, md5, blobMd5,
                 alreadyExisted, reports, alive>>

(* next(t) finds nothing to do; the last thread to end reports the upload.   *)
NextIdle(t) ==
  /\ alive /\ thread[t] = "scheduled"
  /\ Tracker!NothingToTake
  /\ thread' = [thread EXCEPT ![t] = "idle"]
  /\ wasIdle' = TRUE
  /\ IF OthersOver(t)
       THEN /\ alreadyExisted' = (alreadyDone = completed)
            /\ Agg!Callback("upload", "ok")
            /\ OnAggregated
       ELSE UNCHANGED <<aggVars, alreadyExisted, reports, alive>>
  /\ UNCHANGED <<trackerVars, block, alreadyDone, exiting, present, cloud, md5,
                 blobMd5>>

(* toNext() without an error: the service has stored the block.              *)
UploadOk(t) ==
  /\ alive /\ thread[t] = "uploading"
  /\ cloud' = cloud \cup {block[t]}
  /\ Tracker!Complete(1)
  /\ thread' = [thread EXCEPT ![t] = "scheduled"]
  /\ UNCHANGED <<issued, retry, errors, aggVars, block, wasIdle, alreadyDone,
                 exiting, present, md5, blobMd5, alreadyExisted, reports, alive>>

(* Every other error retires a thread, unless some thread already found      *)
(* nothing to do and the error rate is not extreme.                          *)
Retires == errors' % 2 = 1 /\ (~wasIdle \/ Tracker!ErrorRateAbove(RateNum, RateDen, errors'))

(* Mutant: tracker.error() is given the thread's number, not the index.      *)
UploadFailsWrongIndex(t) ==
  /\ alive /\ thread[t] = "uploading"
  /\ cloud' \in {cloud, cloud \cup {block[t]}}
  /\ Tracker!Fail(t)
  /\ thread' = [thread EXCEPT ![t] = IF Retires THEN "retired" ELSE "scheduled"]
  /\ exiting' = (Retires /\ OthersOver(t))
  /\ reports' = IF exiting' THEN Append(reports, "failure") ELSE reports
  /\ UNCHANGED <<completed, aggVars, block, wasIdle, alreadyDone, present, md5,
                 blobMd5, alreadyExisted, alive>>

(* toNext() with an error.  The block may have been stored all the same.     *)
UploadFails(t) ==
  /\ alive /\ thread[t] = "uploading"
  /\ cloud' \in {cloud, cloud \cup {block[t]}}
  /\ Tracker!Fail(block[t])
  /\ IF Retires
       THEN /\ thread' = [thread EXCEPT ![t] = "retired"]
            /\ exiting' = OthersOver(t)
            /\ reports' = IF OthersOver(t) THEN Append(reports, "failure") ELSE reports
       ELSE /\ thread' = [thread EXCEPT ![t] = "scheduled"]
            /\ UNCHANGED <<exiting, reports>>
  /\ UNCHANGED <<completed, aggVars, block, wasIdle, alreadyDone, present, md5,
                 blobMd5, alreadyExisted, alive>>
-----------------------------------------------------------------------------
Md5Unchanged == UNCHANGED <<trackerVars, threadVars, exiting, present, cloud, alreadyExisted>>
Md5May == alive /\ (DynVHD => Started)

(* The file has been read; nothing more happens when the upload gave up.     *)
Md5Read ==
  /\ Md5May /\ md5 = "reading"
  /\ md5' = IF exiting THEN "abandoned" ELSE "setting"
  /\ Md5Unchanged /\ UNCHANGED <<aggVars, blobMd5, reports, alive>>

(* Reading fails: exitWithError() is the caller's callback, so that control  *)
(* comes back and setBlobProperties() is called without a hash.              *)
Md5ReadFails ==
  /\ Md5May /\ md5 = "reading"
  /\ reports' = Append(reports, "failure")
  /\ md5' = "clearing"
  /\ Md5Unchanged /\ UNCHANGED <<aggVars, blobMd5, alive>>

(* setBlobProperties() answers.                                              *)
Md5Set ==
  /\ Md5May /\ md5 \in {"setting", "clearing"}
  /\ blobMd5' = IF md5 = "setting" THEN "hash" ELSE "none"
  /\ md5' = "over"
  /\ Agg!Callback("md5", "ok")
  /\ OnAggregated
  /\ Md5Unchanged

Md5SetFails ==
  /\ Md5May /\ md5 \in {"setting", "clearing"}
  /\ blobMd5' \in {blobMd5, IF md5 = "setting" THEN "hash" ELSE "none"}
  /\ md5' = "over"
  /\ Agg!Callback("md5", "error")
  /\ OnAggregated
  /\ Md5Unchanged

ThreadStep(t) == NextBlock(t) \/ NextIdle(t) \/ UploadOk(t) \/ UploadFails(t)
Md5Step == Md5Read \/ Md5ReadFails \/ Md5Set \/ Md5SetFails

Next ==
  \/ StartThreads
  \/ ScanFails
  \/ \E t \in Threads : ThreadStep(t)
  \/ Md5Step

(* The event loop runs what is scheduled, every request is answered, and the *)
(* file can be read to its end or fails.                                     *)
Fairness ==
  /\ WF_vars(StartThreads)
  /\ \A t \in Threads : WF_vars(ThreadStep(t))
  /\ WF_vars(Md5Step)

Spec == Init /\ [][Next]_vars /\ Fairness
-----------------------------------------------------------------------------
Reported(r) == r \in {reports[k] : k \in DOMAIN reports}

Unissued == {i \in Blocks : i >= issued}
Waiting == {retry[k] : k \in DOMAIN retry}
Busy == {t \in Threads : thread[t] = "uploading"}
InFlight == {block[t] : t \in Busy}

(* The type invariant.                                                       *)
TypeOK ==
  /\ issued \in 0 .. NumBlocks
  /\ retry \in Seq(Blocks)
  /\ errors \in Nat
  /\ completed \in 0 .. NumBlocks
  /\ Agg!AggTypeOK
  /\ thread \in [Threads -> {"new", "scheduled", "uploading", "idle",
                             "retired", "unused"}]
  /\ block \in [Threads -> Blocks]
  /\ wasIdle \in BOOLEAN
  /\ exiting \in BOOLEAN
  /\ alreadyDone \in 0 .. NumBlocks
  /\ present \in SUBSET Blocks
  /\ cloud \in SUBSET Blocks
  /\ md5 \in {"skipped", "reading", "setting", "clearing", "over", "abandoned"}
  /\ blobMd5 \in {"none", "hash"}
  /\ alreadyExisted \in BOOLEAN
  /\ reports \in Seq({"success", "failure"})
  /\ alive \in BOOLEAN

(* Success is never reported while the blob lacks a block of the file,       *)
(* whatever requests failed, were retried, or were given up by a thread      *)
(* that retired.                                                             *)
SuccessMeansUploaded == Reported("success") => cloud = Blocks

(* A thread that finds nothing to do leaves for good although a request in   *)
(* flight may still fail.  No block is forgotten for that: while the upload  *)
(* runs, a block the blob lacks is still to be given out, in flight, or      *)
(* waiting for a thread that will come back for it.                          *)
NoBlockForgotten ==
  ~Reported("failure") =>
    /\ Blocks \ cloud \subseteq Unissued \cup InFlight \cup Waiting
    /\ Waiting # {} => \E t \in Threads : thread[t] \in {"scheduled", "uploading"}

(* "Nothing to upload" (alreadyDone === completed, two counters that skips,  *)
(* uploads and retries move apart) is said exactly of an upload that found   *)
(* every block in the cloud.                                                 *)
AlreadyExistedIsTrue ==
  finished["upload"] # "no" => (alreadyExisted <=> present = Blocks)

(* One outcome: the callback is called once, unless the file could not be    *)
(* read for the MD5 (exitWithError() reports that and the upload goes on) or *)
(* the scan for zero blocks failed beside a running MD5 computation.         *)
OneOutcome ==
  Len(reports) > 1 => md5 \in {"clearing", "over"} /\ blobMd5 = "none"

(* The upload ends: with every request answered, even a service that always  *)
(* fails, or fails one block for ever, is given up.                          *)
Terminates == <>(reports # << >> \/ ~alive)
=============================================================================
