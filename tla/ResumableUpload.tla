-------------------------- MODULE ResumableUpload ---------------------------
(* A VHD is uploaded by a series of sessions ("azure vm disk upload" run     *)
(* again and again) that may be killed at any moment.  A session looks at    *)
(* the blob, decides between an incremental upload, a new page blob and a    *)
(* copy of the parent VHD's blob, and sends what it believes is missing      *)
(* (upload/pageBlob.js; upload/blobInfo.js for what it sees of the blob).    *)
(*                                                                           *)
(* Blocks are in the order of upload: block 0 is the VHD footer, which goes  *)
(* first.  The thread pool of PageBlobUpload appears as the set of requests  *)
(* in flight.                                                                *)
EXTENDS Integers, FiniteSets

CONSTANTS NumBlocks,
          Connections,     \* requests in flight at the same time
          Kind,            \* of the VHD: "fixed", "dynamic" or "difference"
          ZeroBlocks,      \* blocks of the local file that are all zero
          OwnBlocks,       \* blocks in the BAT of a difference VHD
          ParentRegions,   \* blocks the parent's blob has pages for
          ClearThreads,    \* clearPageRange() requests at the same time
          ForeignBlobs,    \* lengths of another file's blob found at first
          MaxSessions      \* bound: sessions started

Blocks == 0 .. NumBlocks - 1
Footer == 0

ASSUME SizeAssumption ==
  /\ NumBlocks \in Nat \ {0}
  /\ Connections \in Nat \ {0}
  /\ ClearThreads \in Nat \ {0}
  /\ MaxSessions \in Nat
ASSUME KindAssumption == Kind \in {"fixed", "dynamic", "difference"}
ASSUME ContentAssumption ==
  /\ ZeroBlocks \subseteq Blocks \ {Footer}
  /\ OwnBlocks \subseteq Blocks \ {Footer}
  /\ ParentRegions \subseteq Blocks
  /\ Footer \in ParentRegions
  /\ ForeignBlobs \subseteq {"same", "other"}

Dynamic == Kind # "fixed"

VARIABLES exists, size,    \* the blob: "same" if it is as long as the VHD
          data,            \* what each block of the blob holds
          blobMd5,         \* its contentMD5: "none", "file" or "wrong"
          origin,          \* (history) where the blob is from, see Origins
          pc,              \* where the session is
          force,           \* option -f
          parent,          \* option -b
          skipMd5,         \* option -m, or a contentMD5 found on the blob
          uploaded,        \* uploadedRegions
          toClear,         \* regions of the parent still to be cleared
          issued, inFlight, failed,
          md5Done,
          refused,         \* "Files are different" was reported
          exiting,         \* the process will end, but still runs
          result, sessions

blobVars == <<exists, size, data, blobMd5, origin>>
poolVars == <<issued, inFlight, failed>>
vars == <<blobVars, pc, force, parent, skipMd5, uploaded, toClear, poolVars,
          md5Done, refused, exiting, result, sessions>>

(* "file" is a page written from the local VHD, "parent" one copied from the *)
(* parent's blob; pages that were never written, or cleared, read as zero.   *)
Contents == {"zero", "file", "parent", "foreign"}

(* A blob is found at first, or a session created it or copied the parent.   *)
(* It is "unchecked" once a session writes over a blob that is found, or a   *)
(* copy that may not be cleaned up, though no footer vouches for it.  No     *)
(* action depends on this variable; the properties do.                       *)
Origins == {"found", "created", "copied", "unchecked"}

Init ==
  /\ \/ exists = FALSE /\ size = "other" /\ data = [b \in Blocks |-> "zero"]
     \/ /\ exists = TRUE /\ size \in ForeignBlobs
        /\ data \in [Blocks -> {"zero", "foreign"}]
  /\ blobMd5 \in IF exists THEN {"none", "wrong"} ELSE {"none"}
  /\ origin = "found"
  /\ pc = "off"
  /\ force = FALSE /\ parent = FALSE /\ skipMd5 = FALSE
  /\ uploaded = {} /\ toClear = {}
  /\ issued = 0 /\ inFlight = {} /\ failed = {}
  /\ md5Done = FALSE /\ refused = FALSE /\ exiting = FALSE
  /\ result = "none"
  /\ sessions = 0

(* The content the blob should have in block b.  A block that only the       *)
(* parent has (not in the BAT of a difference VHD) may come from its blob.   *)
Right(b) ==
  {"file"} \cup (IF b \in ZeroBlocks THEN {"zero"} ELSE {})
           \cup (IF Kind = "difference" /\ b \notin OwnBlocks \cup {Footer}
                   THEN {"parent"} ELSE {})

HasPages == {b \in Blocks : data[b] # "zero"}
-----------------------------------------------------------------------------
(* The command starts; with -f only the container is looked after.           *)
StartSession ==
  /\ pc = "off" /\ sessions < MaxSessions
  /\ force' \in BOOLEAN
  /\ parent' \in (IF Kind = "difference" THEN BOOLEAN ELSE {FALSE})
  /\ skipMd5' \in BOOLEAN
  /\ pc' = IF force' THEN "create" ELSE "info"
  /\ uploaded' = {} /\ toClear' = {}
  /\ issued' = 0 /\ inFlight' = {} /\ failed' = {}
  /\ md5Done' = FALSE /\ refused' = FALSE /\ exiting' = FALSE
  /\ result' = "none"
  /\ sessions' = sessions + 1
  /\ UNCHANGED blobVars

(* exitWithError() is the CLI's callback: the process exits at once, or,     *)
(* when telemetry is flushed first, after the caller has gone on.            *)
ExitWithError(goesOnTo) ==
  \/ exiting' = TRUE /\ pc' = goesOnTo /\ UNCHANGED result
  \/ exiting' = exiting /\ pc' = "off" /\ result' = "error"

Unchecked == IF origin = "created" THEN origin ELSE "unchecked"

(* onGotBlobInfo() with an error other than "no such blob".                  *)
InfoFails ==
  /\ pc = "info"
  /\ ExitWithError("create")
  /\ UNCHANGED <<blobVars, force, parent, skipMd5, uploaded, toClear, poolVars,
                 md5Done, refused, sessions>>

Incremental == exists /\ HasPages # {} /\ size = "same"

(* Mutant: any answer without an error leads to a new blob.                  *)
InfoAlwaysCreates ==
  /\ pc = "info"
  /\ pc' = "create"
  /\ UNCHANGED <<blobVars, force, parent, skipMd5, uploaded, toClear, poolVars,
                 md5Done, refused, exiting, result, sessions>>

(* No blob, an empty one, or one of another length.                          *)
InfoCreate ==
  /\ pc = "info" /\ ~Incremental
  /\ pc' = "create"
  /\ UNCHANGED <<blobVars, force, parent, skipMd5, uploaded, toClear, poolVars,
                 md5Done, refused, exiting, result, sessions>>

(* Mutant: the footers are not compared.                                     *)
InfoIncrementalUnchecked ==
  /\ pc = "info" /\ Incremental
  /\ uploaded' = HasPages
  /\ skipMd5' = (skipMd5 \/ blobMd5 # "none")
  /\ pc' = "upload"
  /\ origin' = IF Dynamic THEN origin ELSE Unchecked
  /\ UNCHANGED <<exists, size, data, blobMd5, force, parent, toClear, poolVars,
                 md5Done, refused, exiting, result, sessions>>

(* An incremental upload; a dynamic VHD compares the footers first.          *)
InfoIncremental ==
  /\ pc = "info" /\ Incremental
  /\ uploaded' = HasPages
  /\ skipMd5' = (skipMd5 \/ blobMd5 # "none")
  /\ IF Dynamic /\ data[Footer] # "file"
       THEN refused' = TRUE /\ ExitWithError("upload")
       ELSE pc' = "upload" /\ UNCHANGED <<refused, exiting, result>>
  /\ origin' = IF pc' = "upload" /\ (Dynamic => data[Footer] # "file")
                 THEN Unchecked ELSE origin
  /\ UNCHANGED <<exists, size, data, blobMd5, force, parent, toClear, poolVars,
                 md5Done, sessions>>

(* createPageBlob() replaces whatever blob there is by an empty one.         *)
EmptyBlob ==
  /\ exists' = TRUE /\ size' = "same" /\ blobMd5' = "none"
  /\ data' = [b \in Blocks |-> "zero"]
  /\ origin' = "created"

Create ==
  /\ pc = "create" /\ ~parent
  /\ EmptyBlob
  /\ pc' = "upload"
  /\ UNCHANGED <<force, parent, skipMd5, uploaded, toClear, poolVars, md5Done,
                 refused, exiting, result, sessions>>

(* It fails, carried out or not: the callback gets the error.                *)
CreateFails ==
  /\ pc = "create" /\ ~parent
  /\ EmptyBlob \/ UNCHANGED blobVars
  /\ pc' = "off" /\ result' = "error"
  /\ UNCHANGED <<force, parent, skipMd5, uploaded, toClear, poolVars, md5Done,
                 refused, exiting, sessions>>
-----------------------------------------------------------------------------
(* The regions to clear in a copy of the parent, in the order of the list:   *)
(* the footer and every block of the BAT the parent has pages for.           *)
DeleteRegions == {Footer} \cup (OwnBlocks \cap ParentRegions)

(* Workers 0..ClearThreads-1 clear the regions of these positions; then next, *)
(* which starts at ClearThreads, is incremented before it is used.           *)
Position(b) == Cardinality({c \in DeleteRegions : c < b})
ClearedRegions == {b \in DeleteRegions : Position(b) # ClearThreads}

ParentCopy ==
  /\ exists' = TRUE /\ size' = "same"
  /\ blobMd5' \in {"none", "wrong"}
  /\ data' = [b \in Blocks |-> IF b \in ParentRegions THEN "parent" ELSE "zero"]
  /\ origin' = "copied"

(* startCopyBlob(), then the page regions of the copy are listed.            *)
CopyParent ==
  /\ pc = "create" /\ parent
  /\ ParentCopy
  /\ uploaded' = ParentRegions
  /\ toClear' = ClearedRegions
  /\ pc' = "clear"
  /\ UNCHANGED <<force, parent, skipMd5, poolVars, md5Done, refused, exiting,
                 result, sessions>>

(* The copy fails: nothing but a message.  Listing its regions fails: the    *)
(* callback gets the error.                                                  *)
CopyFails ==
  /\ pc = "create" /\ parent
  /\ \/ UNCHANGED blobVars /\ result' = "none"
     \/ ParentCopy /\ result' = "error"
  /\ pc' = "off"
  /\ UNCHANGED <<force, parent, skipMd5, uploaded, toClear, poolVars, md5Done,
                 refused, exiting, sessions>>

(* One clearPageRange() is answered.                                         *)
ClearRegion(b) ==
  /\ pc = "clear" /\ b \in toClear
  /\ data' = [data EXCEPT ![b] = "zero"]
  /\ uploaded' = uploaded \ {b}
  /\ toClear' = toClear \ {b}
  /\ UNCHANGED <<exists, size, blobMd5, origin, pc, force, parent, skipMd5,
                 poolVars, md5Done, refused, exiting, result, sessions>>

(* One fails, carried out or not.                                            *)
ClearFails(b) ==
  /\ pc = "clear" /\ b \in toClear
  /\ data' \in {data, [data EXCEPT ![b] = "zero"]}
  /\ pc' = "off" /\ result' = "error"
  /\ UNCHANGED <<exists, size, blobMd5, origin, force, parent, skipMd5,
                 uploaded, toClear, poolVars, md5Done, refused, exiting,
                 sessions>>

(* Mutant: the upload starts when the first worker, not the last, is done.   *)
OnDeletedEarly ==
  /\ pc = "clear"
  /\ blobMd5' = "none"
  /\ pc' = "upload"
  /\ UNCHANGED <<exists, size, data, origin, force, parent, skipMd5, uploaded,
                 toClear, poolVars, md5Done, refused, exiting, result,
                 sessions>>

(* Mutant: the parent's MD5 is left on the copy.                             *)
OnDeletedKeepsMd5 ==
  /\ pc = "clear" /\ toClear = {}
  /\ pc' = "upload"
  /\ UNCHANGED <<blobVars, force, parent, skipMd5, uploaded, toClear, poolVars,
                 md5Done, refused, exiting, result, sessions>>

(* onDeleted(): the parent's MD5 is removed before the upload starts.        *)
OnDeleted ==
  /\ pc = "clear" /\ toClear = {}
  /\ blobMd5' = "none"
  /\ pc' = "upload"
  /\ UNCHANGED <<exists, size, data, origin, force, parent, skipMd5, uploaded,
                 toClear, poolVars, md5Done, refused, exiting, result,
                 sessions>>

(* The request to remove it fails; the error is reported by exitWithError(). *)
OnDeletedFails ==
  /\ pc = "clear" /\ toClear = {} /\ blobMd5 # "none"
  /\ ExitWithError("upload")
  /\ origin' = IF pc' = "upload" THEN Unchecked ELSE origin
  /\ UNCHANGED <<exists, size, data, blobMd5, force, parent, skipMd5, uploaded,
                 toClear, poolVars, md5Done, refused, sessions>>
-----------------------------------------------------------------------------
(* Blocks that uploadAtIndex() passes over.                                  *)
Skips(b) == b \in uploaded \/ (~Dynamic /\ b \in ZeroBlocks)

(* Mutant: one block too many.                                               *)
SendNextTooFar ==
  /\ pc = "upload" /\ issued <= NumBlocks
  /\ Cardinality(inFlight) < Connections
  /\ inFlight' = IF Skips(issued) THEN inFlight ELSE inFlight \cup {issued}
  /\ issued' = issued + 1
  /\ UNCHANGED <<blobVars, pc, force, parent, skipMd5, uploaded, toClear,
                 failed, md5Done, refused, exiting, result, sessions>>

(* A connection takes the next block, or after the last one a failed block.  *)
SendNext ==
  /\ pc = "upload" /\ issued < NumBlocks
  /\ Cardinality(inFlight) < Connections
  /\ inFlight' = IF Skips(issued) THEN inFlight ELSE inFlight \cup {issued}
  /\ issued' = issued + 1
  /\ UNCHANGED <<blobVars, pc, force, parent, skipMd5, uploaded, toClear,
                 failed, md5Done, refused, exiting, result, sessions>>

SendAgain(b) ==
  /\ pc = "upload" /\ issued = NumBlocks
  /\ b \in failed /\ Cardinality(inFlight) < Connections
  /\ inFlight' = inFlight \cup {b}
  /\ failed' = failed \ {b}
  /\ UNCHANGED <<blobVars, pc, force, parent, skipMd5, uploaded, toClear,
                 issued, md5Done, refused, exiting, result, sessions>>

UploadOk(b) ==
  /\ pc = "upload" /\ b \in inFlight
  /\ data' = [data EXCEPT ![b] = "file"]
  /\ inFlight' = inFlight \ {b}
  /\ UNCHANGED <<exists, size, blobMd5, origin, pc, force, parent, skipMd5,
                 uploaded, toClear, issued, failed, md5Done, refused, exiting,
                 result, sessions>>

(* A failed request may have written its block.                              *)
UploadFails(b) ==
  /\ pc = "upload" /\ b \in inFlight
  /\ data' \in {data, [data EXCEPT ![b] = "file"]}
  /\ inFlight' = inFlight \ {b}
  /\ failed' = failed \cup {b}
  /\ UNCHANGED <<exists, size, blobMd5, origin, pc, force, parent, skipMd5,
                 uploaded, toClear, issued, md5Done, refused, exiting, result,
                 sessions>>

(* The MD5 of the local file is written beside the upload.  If that fails    *)
(* the process ends (Stop) or, after the last block, the error is dropped.   *)
SetMd5 ==
  /\ pc = "upload" /\ ~skipMd5 /\ ~md5Done
  /\ blobMd5' \in {"file", blobMd5} /\ md5Done' = TRUE
  /\ UNCHANGED <<exists, size, data, origin, pc, force, parent, skipMd5,
                 uploaded, toClear, poolVars, refused, exiting, result,
                 sessions>>

(* The last connection gave up.                                              *)
GiveUp ==
  /\ pc = "upload" /\ failed # {} /\ inFlight = {}
  /\ pc' = "off" /\ result' = "error"
  /\ UNCHANGED <<blobVars, force, parent, skipMd5, uploaded, toClear, poolVars,
                 md5Done, refused, exiting, sessions>>

Succeed ==
  /\ pc = "upload" /\ issued = NumBlocks
  /\ inFlight = {} /\ failed = {} /\ (skipMd5 \/ md5Done)
  /\ pc' = "off" /\ result' = "success"
  /\ UNCHANGED <<blobVars, force, parent, skipMd5, uploaded, toClear, poolVars,
                 md5Done, refused, exiting, sessions>>

(* The process is killed, or ends after exitWithError(): of the requests in  *)
(* flight some are carried out, the others are lost.                         *)
Stop ==
  /\ pc # "off"
  /\ pc' = "off" /\ result' = "stopped"
  /\ \E written \in SUBSET inFlight :
       data' = [b \in Blocks |-> IF b \in written THEN "file" ELSE data[b]]
  /\ inFlight' = {}
  /\ UNCHANGED <<exists, size, blobMd5, origin, force, parent, skipMd5,
                 uploaded, toClear, issued, failed, md5Done, refused, exiting,
                 sessions>>

Next ==
  \/ StartSession \/ InfoFails \/ InfoCreate \/ InfoIncremental
  \/ Create \/ CreateFails
  \/ CopyParent \/ CopyFails
  \/ (\E b \in Blocks : ClearRegion(b) \/ ClearFails(b)) \/ OnDeleted \/ OnDeletedFails
  \/ SendNext \/ (\E b \in Blocks : SendAgain(b) \/ UploadOk(b) \/ UploadFails(b))
  \/ SetMd5 \/ GiveUp \/ Succeed
  \/ Stop

Spec == Init /\ [][Next]_vars
-----------------------------------------------------------------------------
(* The type invariant.                                                       *)
TypeOK ==
  /\ exists \in BOOLEAN
  /\ size \in {"same", "other"}
  /\ data \in [Blocks -> Contents]
  /\ blobMd5 \in {"none", "file", "wrong"}
  /\ origin \in Origins
  /\ pc \in {"off", "info", "create", "clear", "upload"}
  /\ force \in BOOLEAN /\ parent \in BOOLEAN /\ skipMd5 \in BOOLEAN
  /\ uploaded \in SUBSET Blocks /\ toClear \in SUBSET Blocks
  /\ issued \in 0 .. NumBlocks
  /\ inFlight \in SUBSET Blocks /\ failed \in SUBSET Blocks
  /\ md5Done \in BOOLEAN /\ refused \in BOOLEAN /\ exiting \in BOOLEAN
  /\ result \in {"none", "success", "error", "stopped"}
  /\ sessions \in 0 .. MaxSessions

(* Every block reads as the local VHD says.                                  *)
Complete == exists /\ size = "same" /\ \A b \in Blocks : data[b] \in Right(b)

(* The region of the parent that no worker clears, in a copy of it.          *)
LeftOut == IF origin = "copied" THEN DeleteRegions \ ClearedRegions ELSE {}

(* A session that ends well leaves the blob identical to the local VHD, no   *)
(* matter what earlier sessions wrote, which requests failed, and where they *)
(* were killed: what is skipped as already uploaded is what should be there. *)
(* A block may be wrong in two cases: in a blob that is unchecked (a fixed   *)
(* VHD took it over, with nothing to compare, or a session went on after     *)
(* exitWithError()), or in the region of the parent that no worker clears.   *)
(* Even then it holds a page that was there before: every block without a    *)
(* page was sent.                                                            *)
SuccessMeansDelivered ==
  result = "success" =>
    /\ exists /\ size = "same"
    /\ \A b \in Blocks :
         \/ data[b] \in Right(b)
         \/ data[b] # "zero" /\ (b \in LeftOut \/ origin = "unchecked")

(* The reason for "start uploading from the footer": once the footer of a    *)
(* dynamic or difference VHD is in the blob, every page the blob has is of   *)
(* that VHD (or rightly inherited), so that a later session may skip it;     *)
(* with the same two exceptions.                                             *)
FooterVouches ==
  Dynamic /\ size = "same" /\ data[Footer] = "file" /\ origin # "unchecked" =>
    \A b \in HasPages \ LeftOut : data[b] \in Right(b)

(* A session ends well with the contentMD5 of the file or with none, never   *)
(* with one left by the parent's blob or by another file, unless the blob is *)
(* unchecked.                                                                *)
Md5IsTheFiles ==
  result = "success" /\ origin # "unchecked" => blobMd5 \in {"none", "file"}

(* Without -f a complete blob is never damaged by running the command again, *)
(* with or without a parent, whatever fails, as long as no session goes on   *)
(* after exitWithError(): onGotBlobInfo() would create the blob again.       *)
RerunKeepsCompleteBlob ==
  [][Complete /\ ~force /\ ~exiting /\ (Dynamic => data[Footer] = "file")
       => Complete']_vars

(* What a user may think success means: the blob is identical to the file.   *)
(* The code breaks it in both cases that SuccessMeansDelivered names.        *)
SuccessMeansIdentical == result = "success" => Complete
=============================================================================
