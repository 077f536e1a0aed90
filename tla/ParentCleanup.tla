--------------------------- MODULE ParentCleanup ----------------------------
(* createDiffVHDPageBlob (upload/pageBlob.js): the blob of the parent VHD is *)
(* copied and the regions the difference VHD will write are cleared by a     *)
(* pool of workers that share the counter next, before the upload starts.    *)
(* The list of what is left of the parent is an intSet, shared with the      *)
(* upload, which skips what the list covers.                                 *)
EXTENDS IntSet, FiniteSets

CONSTANTS NumBlocks,     \* blocks of the difference VHD
          BlockSize,     \* pages of a block
          MaxThreads,    \* options.threads, or 128
          Null           \* uploadedRegions when nothing is known of the blob

ASSUME BlockAssumption == NumBlocks \in Nat /\ BlockSize \in Nat \ {0}
ASSUME ThreadAssumption == MaxThreads \in Nat \ {0}
ASSUME NullAssumption == Null \notin Lists

Blocks == 0 .. NumBlocks - 1
FooterPage == NumBlocks * BlockSize
AllPages == 0 .. FooterPage

BlockAt(b) == Interval(BlockSize * b, BlockSize * b + BlockSize - 1)
PagesOf(iv) == iv.start .. iv.end

VARIABLES phase,         \* "copy", "list", "clear", "md5", "over"
          pages,         \* the pages of the copy that hold parent data
          uploadedRegions,
          deleteRegions,
          clearing,      \* positions whose clearPageRange() is in flight
          next, running, exiting,
          hasMd5,        \* the copy has the contentMD5 of the parent
          calls          \* calls of the callback: onBlobCreated()

cleanupVars == <<phase, pages, uploadedRegions, deleteRegions, clearing, next, running,
          exiting, hasMd5, calls>>

CleanupInit ==
  /\ phase = "copy"
  /\ pages = {}
  /\ uploadedRegions = Null
  /\ deleteRegions = << >>
  /\ clearing = {}
  /\ next = 0 /\ running = 0
  /\ exiting = FALSE
  /\ hasMd5 \in BOOLEAN
  /\ calls = << >>

(* startCopyBlob() is answered.  An error ends in a message only.            *)
CopyOk ==
  /\ phase = "copy"
  /\ phase' = "list"
  /\ pages' \in SUBSET AllPages
  /\ UNCHANGED <<uploadedRegions, deleteRegions, clearing, next, running, exiting,
                 hasMd5, calls>>

CopyFails ==
  /\ phase = "copy"
  /\ phase' = "over"
  /\ UNCHANGED <<pages, uploadedRegions, deleteRegions, clearing, next, running,
                 exiting, hasMd5, calls>>

threads == IF MaxThreads < Len(deleteRegions) THEN MaxThreads ELSE Len(deleteRegions)

(* The footer, and each block of the table bat that meets a page of the copy. *)
Regions(v, bat) ==
  LET regions[n \in 0 .. NumBlocks] ==
        IF n = 0 THEN <<Interval(FooterPage, FooterPage)>>
        ELSE IF n - 1 \in bat /\ Intersects(v, BlockAt(n - 1).start, BlockAt(n - 1).end)
          THEN Append(regions[n - 1], BlockAt(n - 1))
          ELSE regions[n - 1]
  IN  regions[NumBlocks]

(* The regions of the copy are known; the workers 0..threads-1 start.        *)
StartWorkers ==
  /\ phase = "list"
  /\ phase' = "clear"
  /\ uploadedRegions' = IntervalsOf(pages, FooterPage + 1)
  /\ \E bat \in SUBSET Blocks : deleteRegions' = Regions(uploadedRegions', bat)
  /\ next' = threads'
  /\ running' = threads'
  /\ clearing' = 0 .. threads' - 1
  /\ UNCHANGED <<pages, exiting, hasMd5, calls>>

(* An error is passed on.  A blob that is not found is none: it is taken for *)
(* a success, and the upload will skip nothing.                              *)
ListFails ==
  /\ phase = "list"
  /\ phase' = "over"
  /\ \/ calls' = Append(calls, "error") /\ UNCHANGED pages
     \/ calls' = Append(calls, "ok") /\ pages' = {}
  /\ UNCHANGED <<uploadedRegions, deleteRegions, clearing, next, running, exiting, hasMd5>>

DeleteRegion(i) == deleteRegions[i + 1]

(* Mutant: every worker strides over the list.                               *)
ClearedStride(i) ==
  /\ phase = "clear" /\ i \in clearing
  /\ pages' = pages \ PagesOf(DeleteRegion(i))
  /\ uploadedRegions' = SubtractInterval(uploadedRegions, DeleteRegion(i).start, DeleteRegion(i).end)
  /\ next' = next + threads

(* clearPageRange() of region i is answered without an error.                *)
Cleared(i) ==
  /\ phase = "clear" /\ i \in clearing
  /\ pages' = pages \ PagesOf(DeleteRegion(i))
  /\ uploadedRegions' = SubtractInterval(uploadedRegions, DeleteRegion(i).start, DeleteRegion(i).end)
  /\ next' = next + 1

(* The worker goes on with region next, unless a worker has failed ...       *)
ClearOk(i) ==
  /\ Cleared(i)
  /\ next' < Len(deleteRegions)
  /\ clearing' = (clearing \ {i}) \cup (IF exiting THEN {} ELSE {next'})
  /\ UNCHANGED <<phase, deleteRegions, running, exiting, hasMd5, calls>>

(* Mutant: the first worker without work is taken for the last one.          *)
LastWorkerFirst == TRUE

(* Mutant: running is compared before it is decremented.                     *)
LastWorkerNever == running <= 0

(* --running <= 0                                                            *)
LastWorker == running - 1 <= 0

(* ... or ends, when next is past the last region; the last one to end goes  *)
(* on to onDeleted().                                                        *)
ClearLast(i) ==
  /\ Cleared(i)
  /\ next' >= Len(deleteRegions)
  /\ clearing' = clearing \ {i}
  /\ running' = running - 1
  /\ IF LastWorker
       THEN IF hasMd5 THEN phase' = "md5" /\ UNCHANGED calls
                      ELSE phase' = "over" /\ calls' = Append(calls, "ok")
       ELSE UNCHANGED <<phase, calls>>
  /\ UNCHANGED <<deleteRegions, exiting, hasMd5>>

(* An error, carried out or not, stops the others at their next step.        *)
ClearFails(i) ==
  /\ phase = "clear" /\ i \in clearing
  /\ pages' \in {pages, pages \ PagesOf(DeleteRegion(i))}
  /\ clearing' = clearing \ {i}
  /\ exiting' = TRUE
  /\ calls' = Append(calls, "error")
  /\ UNCHANGED <<phase, uploadedRegions, deleteRegions, next, running, hasMd5>>

(* setBlobProperties() removes the parent's MD5.  An error is reported by    *)
(* exitWithError(), which may return, and the callback is called again.      *)
Md5Ok ==
  /\ phase = "md5"
  /\ phase' = "over"
  /\ hasMd5' = FALSE
  /\ calls' = Append(calls, "ok")
  /\ UNCHANGED <<pages, uploadedRegions, deleteRegions, clearing, next, running, exiting>>

Md5Fails ==
  /\ phase = "md5"
  /\ phase' = "over"
  /\ calls' = calls \o <<"error", "ok">>
  /\ UNCHANGED <<pages, uploadedRegions, deleteRegions, clearing, next, running, exiting, hasMd5>>

CleanupNext ==
  \/ CopyOk \/ CopyFails
  \/ StartWorkers \/ ListFails
  \/ \E i \in clearing : ClearOk(i) \/ ClearLast(i) \/ ClearFails(i)
  \/ Md5Ok \/ Md5Fails

(* Every request is answered.                                                *)
CleanupSpec == CleanupInit /\ [][CleanupNext]_cleanupVars /\ WF_cleanupVars(CleanupNext)
-----------------------------------------------------------------------------
(* isAlreadyUploaded(start, end): the upload skips the range.                *)
IsAlreadyUploaded(start, end) ==
  /\ uploadedRegions # Null
  /\ SubtractRanges(CreateIntSet(start, end), uploadedRegions) = << >>

Called(c) == c \in {calls[k] : k \in DOMAIN calls}

(* The type invariant; the list stays sorted and disjoint while the workers  *)
(* split and delete its intervals, and next never runs away from its list.   *)
CleanupTypeOK ==
  /\ phase \in {"copy", "list", "clear", "md5", "over"}
  /\ pages \in SUBSET AllPages
  /\ uploadedRegions # Null =>
       WellFormed(uploadedRegions) /\ Members(uploadedRegions) \subseteq AllPages
  /\ Len(deleteRegions) <= NumBlocks + 1
  /\ clearing \subseteq 0 .. Len(deleteRegions) - 1
  /\ next \in 0 .. NumBlocks + 1 + threads
  /\ running \in 0 .. threads
  /\ exiting \in BOOLEAN
  /\ hasMd5 \in BOOLEAN
  /\ calls \in Seq({"ok", "error"})

(* The upload starts only when no clearPageRange() is in flight: one that    *)
(* landed later would wipe a block already uploaded.  And it never starts    *)
(* from a pool that a failed request has stopped.                            *)
QuietBeforeUpload == Called("ok") => clearing = {} /\ ~exiting

(* The upload skips exactly the blocks whose pages are all still those of    *)
(* the parent, and the footer if it is: the list it consults is the one the  *)
(* workers shrink, whatever the parent's pages, the table, the order of the  *)
(* answers and the way the intervals are cut.                                *)
SkippedIsThere ==
  Called("ok") =>
    \A iv \in {BlockAt(b) : b \in Blocks} \cup {Interval(FooterPage, FooterPage)} :
      IsAlreadyUploaded(iv.start, iv.end) <=> PagesOf(iv) \subseteq pages

(* pageBlob.js:487: "Successfully copied and cleaned up base VHD".  Of the   *)
(* regions only the one at position threads stays, if there are so many,     *)
(* because next is incremented before it is first used.                      *)
OnlyOneSkipped ==
  Called("ok") => \A i \in 0 .. Len(deleteRegions) - 1 :
    i # threads => PagesOf(DeleteRegion(i)) \cap pages = {}

(* Except for a failed copy the caller hears of every way to end.            *)
AnswersAfterCopy == phase = "list" ~> calls # << >>
=============================================================================
