----------------------- MODULE ResumableUpload_proofs -----------------------
(* The safety of resumed uploads for every number of blocks, connections,    *)
(* workers and sessions, every content of the local and the parent VHD, and  *)
(* every blob found at first, whether or not the process ends where          *)
(* exitWithError() is called.  A blob that is "unchecked", and the region no *)
(* worker clears, are excepted in the properties.                            *)
EXTENDS ResumableUpload, TLAPS

PageRight(b) == data[b] = "zero" \/ data[b] \in Right(b)

(* The pages that are spoken of.                                             *)
Judged == Blocks \ LeftOut

(* What a later session may rely on: all pages, and the MD5, of a blob that  *)
(* was created are right, and those of a copy that starts with the footer of *)
(* the file.  A blob that was only found has another footer.                 *)
Vouched ==
  /\ origin = "created" \/ (origin = "copied" /\ data[Footer] = "file") =>
       /\ \A b \in Judged : PageRight(b)
       /\ blobMd5 # "wrong"
  /\ origin = "copied" => Kind = "difference"
  /\ origin = "found" => data[Footer] # "file"

(* While blocks are sent every page is right, and what was skipped or        *)
(* answered is there.                                                        *)
Sent ==
  /\ blobMd5 # "wrong"
  /\ \A b \in Judged : PageRight(b)
  /\ \A b \in uploaded \ LeftOut : data[b] \in Right(b)
  /\ \A b \in (0 .. issued - 1) \ LeftOut :
       b \in inFlight \cup failed \/ data[b] \in Right(b)

UploadInv ==
  pc = "upload" =>
    /\ exists /\ size = "same" /\ origin # "found"
    /\ origin # "unchecked" => Sent

(* While the copy of the parent is cleaned up, only the regions that are     *)
(* still to be cleared, or never will be, hold pages that are not right.     *)
ClearInv ==
  pc = "clear" =>
    /\ exists /\ size = "same" /\ origin = "copied" /\ Kind = "difference"
    /\ data[Footer] # "file"
    /\ \A b \in Judged \ toClear : PageRight(b)
    /\ \A b \in (uploaded \ LeftOut) \ toClear : data[b] \in Right(b)

(* What success stands for.                                                  *)
Delivered ==
  origin # "unchecked" =>
    /\ exists /\ size = "same" /\ blobMd5 # "wrong"
    /\ \A b \in Judged : data[b] \in Right(b)

(* Between sessions and before the upload no request is in flight.  A blob   *)
(* is replaced only if it cannot be continued, or by a process that should   *)
(* have ended.                                                               *)
SessionInv ==
  /\ pc # "upload" => inFlight = {}
  /\ pc \in {"info", "create", "clear"} => issued = 0 /\ failed = {}
  /\ pc \in {"info", "create"} => uploaded = {}
  /\ parent => Kind = "difference"
  /\ pc = "create" /\ ~force => ~Incremental \/ exiting
  /\ result = "success" => pc = "off" /\ Delivered

IInv == TypeOK /\ Vouched /\ UploadInv /\ ClearInv /\ SessionInv
-----------------------------------------------------------------------------
LEMMA RightFacts ==
  /\ \A b \in Blocks : "file" \in Right(b) /\ "foreign" \notin Right(b)
  /\ \A b \in Blocks : "zero" \in Right(b) <=> b \in ZeroBlocks
  /\ \A b \in Blocks : "parent" \in Right(b) <=>
       Kind = "difference" /\ b \notin OwnBlocks \cup {Footer}
BY DEF Right

LEMMA FooterIsBlock == Footer \in Blocks /\ Footer \notin ZeroBlocks
BY SizeAssumption, ContentAssumption DEF Footer, Blocks

LEMMA JudgedSame ==
  ASSUME UNCHANGED origin
  PROVE  LeftOut' = LeftOut /\ Judged' = Judged
BY DEF LeftOut, Judged, DeleteRegions, ClearedRegions, Position, Blocks

LEMMA PagesSame ==
  ASSUME UNCHANGED data
  PROVE  \A b \in Blocks : PageRight(b)' <=> PageRight(b)
BY DEF PageRight, Right

(* A block that is written gets the content of the file and nothing else     *)
(* changes: pages stay right.                                                *)
LEMMA WritingKeepsRight ==
  ASSUME TypeOK, NEW W \in SUBSET Blocks,
         data' = [b \in Blocks |-> IF b \in W THEN "file" ELSE data[b]]
  PROVE  /\ \A b \in Blocks : PageRight(b) => PageRight(b)'
         /\ \A b \in Blocks : data[b] \in Right(b) => data'[b] \in Right(b)
         /\ \A b \in W : data'[b] \in Right(b)
BY RightFacts DEF PageRight, Right

LEMMA InitTypeOK == Init => TypeOK
<1> USE SizeAssumption, ContentAssumption, KindAssumption
<1> SUFFICES ASSUME Init PROVE TypeOK
  OBVIOUS
<1>1. exists \in BOOLEAN /\ size \in {"same", "other"} /\ data \in [Blocks -> Contents]
  BY DEF Init, Contents
<1>2. blobMd5 \in {"none", "file", "wrong"}
  BY DEF Init
<1>3. /\ force \in BOOLEAN /\ parent \in BOOLEAN /\ skipMd5 \in BOOLEAN
      /\ md5Done \in BOOLEAN /\ refused \in BOOLEAN /\ exiting \in BOOLEAN
  BY ZenonT(30) DEF Init
<1>4. issued \in 0 .. NumBlocks /\ sessions \in 0 .. MaxSessions
  BY DEF Init
<1>5. origin \in Origins
  BY DEF Init, Origins
<1>6. QED
  BY <1>1, <1>2, <1>3, <1>4, <1>5 DEF Init, TypeOK

LEMMA InitIInv == Init => IInv
<1> USE SizeAssumption, ContentAssumption, KindAssumption, FooterIsBlock
<1> SUFFICES ASSUME Init PROVE IInv
  OBVIOUS
<1>1. TypeOK
  BY InitTypeOK
<1>2. Vouched
  <2>1. data[Footer] # "file"
    BY DEF Init
  <2>2. QED
    BY <2>1 DEF Init, Vouched
<1>3. UploadInv /\ ClearInv /\ SessionInv
  BY DEF Init, UploadInv, ClearInv, SessionInv
<1>4. QED
  BY <1>1, <1>2, <1>3 DEF IInv
-----------------------------------------------------------------------------
LEMMA ExitTypes ==
  ASSUME TypeOK, NEW goesOnTo \in {"create", "upload"}, ExitWithError(goesOnTo)
  PROVE  /\ exiting' \in BOOLEAN
         /\ pc' \in {"off", "create", "upload"}
         /\ result' \in {"none", "success", "error", "stopped"}
BY DEF ExitWithError, TypeOK

(* Every step keeps the variables in their types.                            *)
LEMMA NextTypeOK == TypeOK /\ [Next]_vars => TypeOK'
<1> USE SizeAssumption, ContentAssumption DEF TypeOK, blobVars, poolVars
<1> SUFFICES ASSUME TypeOK, [Next]_vars PROVE TypeOK'
  OBVIOUS
<1>1. CASE StartSession
  <2>1. /\ force' \in BOOLEAN /\ parent' \in BOOLEAN /\ skipMd5' \in BOOLEAN
        /\ md5Done' \in BOOLEAN /\ refused' \in BOOLEAN /\ exiting' \in BOOLEAN
    BY <1>1, ZenonT(30) DEF StartSession
  <2>2. issued' \in 0 .. NumBlocks /\ sessions' \in 0 .. MaxSessions
    BY <1>1 DEF StartSession
  <2>3. pc' \in {"info", "create"}
    BY <1>1 DEF StartSession
  <2>4. QED
    BY <1>1, <2>1, <2>2, <2>3 DEF StartSession
<1>2. CASE InfoFails \/ InfoCreate
  BY <1>2, ExitTypes DEF InfoFails, InfoCreate
<1>3. CASE InfoIncremental
  <2>1. /\ exiting' \in BOOLEAN
        /\ pc' \in {"off", "create", "upload"}
        /\ result' \in {"none", "success", "error", "stopped"}
    BY <1>3, ExitTypes DEF InfoIncremental
  <2>2. refused' \in BOOLEAN /\ skipMd5' \in BOOLEAN /\ origin' \in Origins
    BY <1>3 DEF InfoIncremental, Unchecked, Origins
  <2>3. QED
    BY <1>3, <2>1, <2>2 DEF InfoIncremental, HasPages
<1>4. CASE Create \/ CreateFails
  BY <1>4 DEF Create, CreateFails, EmptyBlob, Contents, Origins
<1>5. CASE CopyParent \/ CopyFails
  <2>1. ParentCopy => /\ exists' \in BOOLEAN /\ size' \in {"same", "other"}
                      /\ data' \in [Blocks -> Contents]
                      /\ blobMd5' \in {"none", "file", "wrong"}
                      /\ origin' \in Origins
    BY DEF ParentCopy, Contents, Origins
  <2>2. ClearedRegions \in SUBSET Blocks
    BY FooterIsBlock DEF ClearedRegions, DeleteRegions
  <2>3. CASE CopyParent
    BY <2>1, <2>2, <2>3 DEF CopyParent
  <2>4. CASE CopyFails
    BY <2>1, <2>4 DEF CopyFails
  <2>5. QED
    BY <1>5, <2>3, <2>4
<1>6. ASSUME NEW b \in Blocks, ClearRegion(b) \/ ClearFails(b)
      PROVE  TypeOK'
  BY <1>6 DEF ClearRegion, ClearFails, Contents
<1>7. CASE OnDeleted \/ OnDeletedFails
  <2>1. CASE OnDeleted
    BY <2>1 DEF OnDeleted
  <2>2. CASE OnDeletedFails
    <3>1. /\ exiting' \in BOOLEAN
          /\ pc' \in {"off", "create", "upload"}
          /\ result' \in {"none", "success", "error", "stopped"}
      BY <2>2, ExitTypes DEF OnDeletedFails
    <3>2. origin' \in Origins
      BY <2>2 DEF OnDeletedFails, Unchecked, Origins
    <3>3. QED
      BY <2>2, <3>1, <3>2 DEF OnDeletedFails
  <2>3. QED
    BY <1>7, <2>1, <2>2
<1>8. CASE SendNext
  BY <1>8 DEF SendNext, Blocks
<1>9. ASSUME NEW b \in Blocks, SendAgain(b) \/ UploadOk(b) \/ UploadFails(b)
      PROVE  TypeOK'
  BY <1>9 DEF SendAgain, UploadOk, UploadFails, Contents
<1>10. CASE SetMd5 \/ GiveUp \/ Succeed
  BY <1>10 DEF SetMd5, GiveUp, Succeed
<1>11. CASE Stop
  BY <1>11 DEF Stop, Contents
<1>12. CASE UNCHANGED vars
  BY <1>12 DEF vars
<1>13. QED
  BY <1>1, <1>2, <1>3, <1>4, <1>5, <1>6, <1>7, <1>8, <1>9, <1>10, <1>11, <1>12
     DEF Next
-----------------------------------------------------------------------------
(* A session that ends without success leaves nothing to show but what a     *)
(* later one may rely on.                                                    *)
LEMMA Ending ==
  ASSUME IInv, TypeOK', Vouched', pc' = "off", inFlight' = {},
         parent' = parent, result' # "success"
  PROVE  IInv'
BY DEF IInv, UploadInv, ClearInv, SessionInv

(* The blob that a session finds, creates or copies.                         *)
LEMMA EmptyBlobIsRight ==
  ASSUME EmptyBlob
  PROVE  /\ exists' /\ size' = "same" /\ blobMd5' = "none"
         /\ \A b \in Blocks : PageRight(b)'
         /\ origin' = "created"
         /\ Vouched'
BY DEF EmptyBlob, PageRight, Vouched, Judged

LEMMA VouchedSame ==
  ASSUME Vouched, UNCHANGED <<size, data, blobMd5, origin>>
  PROVE  Vouched'
<1>1. /\ Judged' = Judged /\ Judged \subseteq Blocks
      /\ \A b \in Blocks : PageRight(b)' <=> PageRight(b)
  BY JudgedSame, PagesSame DEF Judged
<1>2. QED
  BY <1>1 DEF Vouched, Dynamic

(* An unchecked blob owes nothing.                                           *)
LEMMA VouchedUnchecked ==
  ASSUME origin' = "unchecked"
  PROVE  Vouched'
BY DEF Vouched

(* What was sent stays so when the blob is left alone.                       *)
LEMMA SentSame ==
  ASSUME UNCHANGED <<data, blobMd5, origin, uploaded>>,
         \A b \in (0 .. issued' - 1) \ LeftOut :
           b \in inFlight' \cup failed' \/ data[b] \in Right(b),
         Sent
  PROVE  Sent'
<1>1. /\ LeftOut' = LeftOut /\ Judged' = Judged /\ Judged \subseteq Blocks
      /\ \A b \in Blocks : PageRight(b)' <=> PageRight(b)
  BY JudgedSame, PagesSame DEF Judged
<1>2. QED
  BY <1>1 DEF Sent, Right

LEMMA SessionSteps ==
  ASSUME IInv, TypeOK',
         StartSession \/ InfoFails \/ InfoCreate \/ InfoIncremental
  PROVE  IInv'
<1> USE DEF IInv, blobVars, poolVars
<1>1. CASE StartSession
  <2>1. Vouched'
    BY <1>1, VouchedSame DEF StartSession
  <2>2. UploadInv' /\ ClearInv'
    BY <1>1 DEF StartSession, UploadInv, ClearInv
  <2>3. parent' => Kind = "difference"
    BY <1>1 DEF StartSession
  <2>4. pc' = "create" => force'
    BY <1>1 DEF StartSession
  <2>5. SessionInv'
    BY <1>1, <2>3, <2>4 DEF StartSession, SessionInv
  <2>6. QED
    BY <2>1, <2>2, <2>5
<1>2. CASE InfoFails
  <2>1. Vouched' /\ inFlight' = {}
    BY <1>2, VouchedSame DEF InfoFails, SessionInv
  <2>2. CASE pc' = "off" /\ result' = "error"
    BY <1>2, <2>1, <2>2, Ending DEF InfoFails
  <2>3. CASE pc' = "create" /\ exiting' /\ result' = result
    <3>1. UploadInv' /\ ClearInv'
      BY <2>3 DEF UploadInv, ClearInv
    <3>2. SessionInv'
      BY <1>2, <2>3 DEF InfoFails, SessionInv
    <3>3. QED
      BY <2>1, <3>1, <3>2
  <2>4. QED
    BY <1>2, <2>2, <2>3 DEF InfoFails, ExitWithError
<1>3. CASE InfoCreate
  <2>1. Vouched'
    BY <1>3, VouchedSame DEF InfoCreate
  <2>2. UploadInv' /\ ClearInv'
    BY <1>3 DEF InfoCreate, UploadInv, ClearInv
  <2>3. ~Incremental'
    BY <1>3 DEF InfoCreate, Incremental, HasPages
  <2>4. SessionInv'
    BY <1>3, <2>3 DEF InfoCreate, SessionInv
  <2>5. QED
    BY <2>1, <2>2, <2>4
<1>4. CASE InfoIncremental
  <2>1. size = "same" /\ exists /\ inFlight' = {} /\ issued' = 0 /\ failed' = {}
    BY <1>4 DEF InfoIncremental, Incremental, SessionInv
  <2>2. CASE pc' = "off" /\ result' = "error"
    <3>1. origin' = origin /\ Vouched'
      BY <1>4, <2>2, VouchedSame DEF InfoIncremental
    <3>2. QED
      BY <1>4, <2>1, <2>2, <3>1, Ending DEF InfoIncremental
  <2>3. CASE pc' = "upload" /\ result' = result
    <3>1. CASE origin' = "unchecked"
      <4>1. UploadInv'
        BY <1>4, <2>1, <3>1 DEF InfoIncremental, UploadInv
      <4>2. ClearInv' /\ SessionInv'
        BY <1>4, <2>3 DEF InfoIncremental, ClearInv, SessionInv
      <4>3. QED
        BY <3>1, <4>1, <4>2, VouchedUnchecked
    <3>2. CASE origin' # "unchecked"
      <4>1. origin' = origin /\ origin \in {"created", "copied"}
        BY <1>4, <2>3, <3>2
           DEF InfoIncremental, Unchecked, Vouched, TypeOK, Origins
      <4>2. Vouched'
        BY <1>4, <4>1, VouchedSame DEF InfoIncremental
      <4>3. origin = "copied" => data[Footer] = "file"
        BY <1>4, <2>3, <3>2, <4>1 DEF InfoIncremental, Unchecked, Vouched, Dynamic
      <4>4. (\A b \in Judged : PageRight(b)) /\ blobMd5 # "wrong"
        BY <4>1, <4>3 DEF Vouched
      <4>5. /\ LeftOut' = LeftOut /\ Judged' = Judged /\ Judged \subseteq Blocks
            /\ \A b \in Blocks : PageRight(b)' <=> PageRight(b)
        BY <1>4, <4>1, JudgedSame, PagesSame DEF InfoIncremental, Judged
      <4>6. \A b \in uploaded' \ LeftOut : data[b] \in Right(b)
        BY <1>4, <4>4 DEF InfoIncremental, HasPages, PageRight, Judged
      <4>7. 0 .. issued' - 1 = {}
        BY <2>1
      <4>8. Sent'
        BY <1>4, <4>4, <4>5, <4>6, <4>7 DEF InfoIncremental, Sent, Right
      <4>9. UploadInv'
        BY <1>4, <2>1, <4>1, <4>8 DEF InfoIncremental, UploadInv
      <4>10. ClearInv' /\ SessionInv'
        BY <1>4, <2>3 DEF InfoIncremental, ClearInv, SessionInv
      <4>11. QED
        BY <4>2, <4>9, <4>10
    <3>3. QED
      BY <3>1, <3>2
  <2>4. QED
    BY <1>4, <2>2, <2>3 DEF InfoIncremental, ExitWithError
<1>5. QED
  BY <1>1, <1>2, <1>3, <1>4

LEMMA CreateSteps ==
  ASSUME IInv, TypeOK', Create \/ CreateFails
  PROVE  IInv'
<1> USE DEF IInv, blobVars, poolVars
<1>1. CASE Create
  <2>1. /\ exists' /\ size' = "same" /\ blobMd5' = "none"
        /\ \A b \in Blocks : PageRight(b)'
        /\ origin' = "created" /\ Vouched'
    BY <1>1, EmptyBlobIsRight DEF Create
  <2>2. uploaded' = {} /\ 0 .. issued' - 1 = {}
    BY <1>1 DEF Create, SessionInv
  <2>3. Sent'
    BY <2>1, <2>2 DEF Sent, Judged
  <2>4. UploadInv'
    BY <2>1, <2>3 DEF UploadInv
  <2>5. ClearInv' /\ SessionInv'
    BY <1>1 DEF Create, ClearInv, SessionInv
  <2>6. QED
    BY <2>1, <2>4, <2>5
<1>2. CASE CreateFails
  <2>1. Vouched'
    BY <1>2, EmptyBlobIsRight, VouchedSame DEF CreateFails
  <2>2. inFlight' = {}
    BY <1>2 DEF CreateFails, SessionInv
  <2>3. QED
    BY <1>2, <2>1, <2>2, Ending DEF CreateFails
<1>3. QED
  BY <1>1, <1>2

LEMMA ParentCopyUnvouched ==
  ASSUME IInv, parent, ParentCopy
  PROVE  /\ Kind = "difference" /\ data'[Footer] = "parent"
         /\ origin' = "copied" /\ Vouched'
<1>1. Kind = "difference"
  BY DEF IInv, SessionInv
<1>2. data'[Footer] = "parent"
  BY ContentAssumption, FooterIsBlock DEF ParentCopy
<1>3. origin' = "copied"
  BY DEF ParentCopy
<1>4. QED
  BY <1>1, <1>2, <1>3 DEF Vouched

LEMMA CopySteps ==
  ASSUME IInv, TypeOK', CopyParent \/ CopyFails
  PROVE  IInv'
<1> USE DEF IInv, blobVars, poolVars
<1>1. CASE CopyParent
  <2>1. /\ Kind = "difference" /\ data'[Footer] = "parent"
        /\ origin' = "copied" /\ Vouched'
    BY <1>1, ParentCopyUnvouched DEF CopyParent
  <2>2. toClear' \cup LeftOut' = DeleteRegions /\ uploaded' = ParentRegions
    BY <1>1, <2>1
       DEF CopyParent, LeftOut, DeleteRegions, ClearedRegions, Position, Blocks
  <2>3. data' = [b \in Blocks |-> IF b \in ParentRegions THEN "parent" ELSE "zero"]
    BY <1>1 DEF CopyParent, ParentCopy
  <2>4. ASSUME NEW b \in Blocks \ DeleteRegions, b \in ParentRegions
        PROVE  data'[b] \in Right(b)
    <3>1. b \notin OwnBlocks \cup {Footer}
      BY <2>4 DEF DeleteRegions
    <3>2. "parent" \in Right(b)
      BY <2>1, <3>1, RightFacts
    <3>3. QED
      BY <2>3, <2>4, <3>2
  <2>5. \A b \in Judged' \ toClear' : PageRight(b)'
    <3>1. \A b \in Blocks \ DeleteRegions : PageRight(b)'
      BY <2>3, <2>4 DEF PageRight, Right
    <3>2. Judged' \ toClear' \subseteq Blocks \ DeleteRegions
      BY <2>2 DEF Judged, Blocks
    <3>3. QED
      BY <3>1, <3>2
  <2>6. \A b \in (uploaded' \ LeftOut') \ toClear' : data'[b] \in Right(b)
    BY <2>2, <2>4, ContentAssumption
  <2>7. exists' /\ size' = "same"
    BY <1>1 DEF CopyParent, ParentCopy
  <2>8. ClearInv'
    BY <2>1, <2>5, <2>6, <2>7 DEF ClearInv, Right
  <2>9. UploadInv' /\ SessionInv'
    BY <1>1 DEF CopyParent, UploadInv, SessionInv
  <2>10. QED
    BY <2>1, <2>8, <2>9
<1>2. CASE CopyFails
  <2>1. Vouched'
    BY <1>2, ParentCopyUnvouched, VouchedSame DEF CopyFails
  <2>2. inFlight' = {} /\ result' # "success"
    BY <1>2 DEF CopyFails, SessionInv
  <2>3. QED
    BY <1>2, <2>1, <2>2, Ending DEF CopyFails
<1>3. QED
  BY <1>1, <1>2

(* While the copy is cleaned up its footer is not the file's.                *)
LEMMA ClearSteps ==
  ASSUME IInv, TypeOK',
         \/ \E b \in Blocks : ClearRegion(b) \/ ClearFails(b)
         \/ OnDeleted \/ OnDeletedFails
  PROVE  IInv'
<1> USE DEF IInv, blobVars, poolVars
<1>1. ASSUME NEW b \in Blocks, ClearRegion(b)
      PROVE  IInv'
  <2>1. /\ Kind = "difference" /\ data[Footer] # "file"
        /\ origin = "copied" /\ origin' = origin
        /\ LeftOut' = LeftOut /\ Judged' = Judged /\ Judged \subseteq Blocks
    BY <1>1, JudgedSame DEF ClearRegion, ClearInv, Judged
  <2>2. data'[Footer] # "file" /\ data'[b] = "zero"
    BY <1>1, <2>1, FooterIsBlock DEF ClearRegion, TypeOK
  <2>3. Vouched'
    BY <2>1, <2>2 DEF Vouched
  <2>4. \A c \in Judged' \ toClear' : PageRight(c)'
    BY <1>1, <2>1, <2>2 DEF ClearRegion, ClearInv, PageRight, TypeOK, Right
  <2>5. \A c \in (uploaded' \ LeftOut') \ toClear' : data'[c] \in Right(c)
    BY <1>1, <2>1 DEF ClearRegion, ClearInv, TypeOK
  <2>6. ClearInv'
    BY <1>1, <2>1, <2>2, <2>4, <2>5 DEF ClearRegion, ClearInv, Right
  <2>7. UploadInv' /\ SessionInv'
    BY <1>1 DEF ClearRegion, UploadInv, SessionInv
  <2>8. QED
    BY <2>3, <2>6, <2>7
<1>2. ASSUME NEW b \in Blocks, ClearFails(b)
      PROVE  IInv'
  <2>1. Kind = "difference" /\ data[Footer] # "file" /\ origin' = "copied"
    BY <1>2 DEF ClearFails, ClearInv
  <2>2. data'[Footer] # "file"
    BY <1>2, <2>1, FooterIsBlock DEF ClearFails, TypeOK
  <2>3. Vouched'
    BY <2>1, <2>2 DEF Vouched
  <2>4. inFlight' = {}
    BY <1>2 DEF ClearFails, SessionInv
  <2>5. QED
    BY <1>2, <2>3, <2>4, Ending DEF ClearFails
<1>3. CASE OnDeleted
  <2>1. /\ Kind = "difference" /\ data[Footer] # "file" /\ exists /\ size = "same"
        /\ origin = "copied" /\ UNCHANGED <<data, origin>>
    BY <1>3 DEF OnDeleted, ClearInv
  <2>2. Vouched'
    BY <1>3, <2>1 DEF Vouched
  <2>3. /\ \A b \in Judged : PageRight(b)
        /\ \A b \in uploaded \ LeftOut : data[b] \in Right(b)
    BY <1>3 DEF OnDeleted, ClearInv
  <2>4. 0 .. issued' - 1 = {}
    BY <1>3 DEF OnDeleted, SessionInv
  <2>5. /\ LeftOut' = LeftOut /\ Judged' = Judged /\ Judged \subseteq Blocks
        /\ \A b \in Blocks : PageRight(b)' <=> PageRight(b)
    BY <2>1, JudgedSame, PagesSame DEF Judged
  <2>6. Sent'
    BY <1>3, <2>3, <2>4, <2>5 DEF OnDeleted, Sent, Right
  <2>7. UploadInv'
    BY <1>3, <2>1, <2>6 DEF OnDeleted, UploadInv
  <2>8. ClearInv' /\ SessionInv'
    BY <1>3 DEF OnDeleted, ClearInv, SessionInv
  <2>9. QED
    BY <2>2, <2>7, <2>8
<1>4. CASE OnDeletedFails
  <2>1. /\ origin = "copied" /\ exists /\ size = "same" /\ inFlight' = {}
        /\ UNCHANGED <<exists, size, data, blobMd5>>
    BY <1>4 DEF OnDeletedFails, ClearInv, SessionInv
  <2>2. CASE pc' = "off" /\ result' = "error"
    <3>1. Vouched'
      BY <1>4, <2>1, <2>2, VouchedSame DEF OnDeletedFails
    <3>2. QED
      BY <1>4, <2>1, <2>2, <3>1, Ending DEF OnDeletedFails
  <2>3. CASE pc' = "upload" /\ result' = result
    <3>1. origin' = "unchecked"
      BY <1>4, <2>1, <2>3 DEF OnDeletedFails, Unchecked
    <3>2. UploadInv'
      BY <2>1, <3>1 DEF UploadInv
    <3>3. ClearInv' /\ SessionInv'
      BY <1>4, <2>3 DEF OnDeletedFails, ClearInv, SessionInv
    <3>4. QED
      BY <3>1, <3>2, <3>3, VouchedUnchecked
  <2>4. QED
    BY <1>4, <2>2, <2>3 DEF OnDeletedFails, ExitWithError
<1>5. QED
  BY <1>1, <1>2, <1>3, <1>4
-----------------------------------------------------------------------------
LEMMA SendSteps ==
  ASSUME IInv, TypeOK',
         SendNext \/ \E b \in Blocks : SendAgain(b)
  PROVE  IInv'
<1> USE DEF IInv, blobVars, poolVars
<1>1. CASE SendNext
  <2>1. Vouched'
    BY <1>1, VouchedSame DEF SendNext
  <2>2. issued \in Blocks /\ 0 .. issued' - 1 = (0 .. issued - 1) \cup {issued}
    BY <1>1, SizeAssumption DEF SendNext, TypeOK, Blocks
  <2>3. exists /\ size = "same" /\ origin # "found" /\ (origin # "unchecked" => Sent)
    BY <1>1 DEF SendNext, UploadInv
  <2>4. ASSUME Sent
        PROVE  Sent'
    <3>1. Skips(issued) /\ issued \notin LeftOut => data[issued] \in Right(issued)
      BY <2>2, <2>4, RightFacts DEF Skips, PageRight, Sent, Judged
    <3>2. \A b \in (0 .. issued' - 1) \ LeftOut :
             b \in inFlight' \cup failed' \/ data[b] \in Right(b)
      BY <1>1, <2>2, <2>4, <3>1 DEF SendNext, Sent
    <3>3. QED
      BY <1>1, <2>4, <3>2, SentSame DEF SendNext
  <2>5. UploadInv'
    BY <1>1, <2>3, <2>4 DEF SendNext, UploadInv
  <2>6. ClearInv' /\ SessionInv'
    BY <1>1 DEF SendNext, ClearInv, SessionInv
  <2>7. QED
    BY <2>1, <2>5, <2>6
<1>2. ASSUME NEW b \in Blocks, SendAgain(b)
      PROVE  IInv'
  <2>1. Vouched'
    BY <1>2, VouchedSame DEF SendAgain
  <2>2. inFlight' \cup failed' = inFlight \cup failed
    BY <1>2 DEF SendAgain
  <2>3. Sent => Sent'
    BY <1>2, <2>2, SentSame DEF SendAgain, Sent
  <2>4. UploadInv'
    BY <1>2, <2>3 DEF SendAgain, UploadInv
  <2>5. ClearInv' /\ SessionInv'
    BY <1>2 DEF SendAgain, ClearInv, SessionInv
  <2>6. QED
    BY <2>1, <2>4, <2>5
<1>3. QED
  BY <1>1, <1>2

(* Answers write blocks of the file, if anything.                            *)
LEMMA AnswerSteps ==
  ASSUME IInv, TypeOK',
         \E b \in Blocks : UploadOk(b) \/ UploadFails(b)
  PROVE  IInv'
<1> USE DEF IInv, blobVars, poolVars
<1>1. PICK b \in Blocks : UploadOk(b) \/ UploadFails(b)
  OBVIOUS
<1>2. PICK W \in {{}, {b}} :
         data' = [c \in Blocks |-> IF c \in W THEN "file" ELSE data[c]]
  <2>1. CASE data' = data
    <3>1. data' = [c \in Blocks |-> IF c \in {} THEN "file" ELSE data[c]]
      BY <2>1 DEF TypeOK
    <3>2. QED
      BY <3>1
  <2>2. CASE data' = [data EXCEPT ![b] = "file"]
    <3>1. data' = [c \in Blocks |-> IF c \in {b} THEN "file" ELSE data[c]]
      BY <2>2 DEF TypeOK
    <3>2. QED
      BY <3>1
  <2>3. QED
    BY <1>1, <2>1, <2>2 DEF UploadOk, UploadFails
<1>3. /\ \A c \in Blocks : PageRight(c) => PageRight(c)'
      /\ \A c \in Blocks : data[c] \in Right(c) => data'[c] \in Right(c)
  BY <1>2, WritingKeepsRight
<1>4. /\ exists /\ size = "same" /\ origin # "found"
      /\ origin # "unchecked" => Sent
  BY <1>1 DEF UploadOk, UploadFails, UploadInv
<1>5. /\ pc' = "upload" /\ exists' = exists /\ size' = size /\ blobMd5' = blobMd5
      /\ origin' = origin /\ uploaded' = uploaded /\ issued' = issued
  BY <1>1 DEF UploadOk, UploadFails
<1>6. LeftOut' = LeftOut /\ Judged' = Judged /\ Judged \subseteq Blocks
  BY <1>5, JudgedSame DEF Judged
<1>7. Vouched'
  BY <1>3, <1>4, <1>5, <1>6 DEF Vouched, Sent, TypeOK, Origins
<1>8. ASSUME Sent, NEW c \in (0 .. issued - 1) \ LeftOut
      PROVE  c \in inFlight' \cup failed' \/ data'[c] \in Right(c)
  <2>1. c \in Blocks
    BY SizeAssumption DEF TypeOK, Blocks
  <2>2. CASE c = b
    <3>1. UploadOk(b) => data'[b] = "file"
      BY DEF UploadOk, TypeOK
    <3>2. UploadFails(b) => b \in failed'
      BY DEF UploadFails
    <3>3. QED
      BY <1>1, <2>2, <3>1, <3>2, RightFacts
  <2>3. CASE c # b
    <3>1. c \in inFlight \cup failed => c \in inFlight' \cup failed'
      BY <1>1, <2>3 DEF UploadOk, UploadFails
    <3>2. QED
      BY <1>3, <1>8, <2>1, <3>1 DEF Sent
  <2>4. QED
    BY <2>2, <2>3
<1>9. ASSUME Sent
      PROVE  Sent'
  <2>1. \A c \in uploaded' \ LeftOut' : data'[c] \in Right(c)
    BY <1>3, <1>5, <1>6, <1>9 DEF TypeOK, Sent
  <2>2. \A c \in (0 .. issued' - 1) \ LeftOut' :
           c \in inFlight' \cup failed' \/ data'[c] \in Right(c)
    BY <1>5, <1>6, <1>8, <1>9
  <2>3. \A c \in Judged' : PageRight(c)'
    BY <1>3, <1>6, <1>9 DEF Sent
  <2>4. QED
    BY <1>5, <1>9, <2>1, <2>2, <2>3 DEF Sent, Right
<1>10. UploadInv'
  BY <1>4, <1>5, <1>9 DEF UploadInv
<1>11. ClearInv' /\ SessionInv'
  BY <1>1 DEF UploadOk, UploadFails, ClearInv, SessionInv
<1>12. QED
  BY <1>7, <1>10, <1>11

LEMMA EndSteps ==
  ASSUME IInv, TypeOK', SetMd5 \/ GiveUp \/ Succeed \/ Stop
  PROVE  IInv'
<1> USE DEF IInv, blobVars, poolVars
<1>1. CASE SetMd5
  <2>1. /\ exists /\ size = "same" /\ origin # "found"
        /\ origin # "unchecked" => Sent
    BY <1>1 DEF SetMd5, UploadInv
  <2>2. /\ LeftOut' = LeftOut /\ Judged' = Judged /\ Judged \subseteq Blocks
        /\ \A b \in Blocks : PageRight(b)' <=> PageRight(b)
    BY <1>1, JudgedSame, PagesSame DEF SetMd5, Judged
  <2>3. Sent => Sent'
    BY <1>1, <2>2 DEF SetMd5, Sent, Right
  <2>4. UploadInv'
    BY <1>1, <2>1, <2>3 DEF SetMd5, UploadInv
  <2>5. Vouched'
    BY <1>1, <2>1, <2>2 DEF SetMd5, Vouched, Sent, TypeOK, Origins
  <2>6. ClearInv' /\ SessionInv'
    BY <1>1 DEF SetMd5, ClearInv, SessionInv
  <2>7. QED
    BY <2>4, <2>5, <2>6
<1>2. CASE GiveUp
  <2>1. Vouched'
    BY <1>2, VouchedSame DEF GiveUp
  <2>2. QED
    BY <1>2, <2>1, Ending DEF GiveUp
<1>3. CASE Succeed
  <2>1. Vouched'
    BY <1>3, VouchedSame DEF Succeed
  <2>2. 0 .. issued - 1 = Blocks /\ inFlight \cup failed = {}
    BY <1>3 DEF Succeed, Blocks
  <2>3. Delivered
    BY <1>3, <2>2 DEF Succeed, UploadInv, Delivered, Sent, Judged
  <2>4. Judged' = Judged
    BY <1>3, JudgedSame DEF Succeed
  <2>5. Delivered'
    BY <1>3, <2>3, <2>4 DEF Succeed, Delivered, Right
  <2>6. UploadInv' /\ ClearInv' /\ SessionInv'
    BY <1>3, <2>5 DEF Succeed, UploadInv, ClearInv, SessionInv
  <2>7. QED
    BY <2>1, <2>6
<1>4. CASE Stop
  <2>1. PICK W \in SUBSET inFlight :
           data' = [b \in Blocks |-> IF b \in W THEN "file" ELSE data[b]]
    BY <1>4 DEF Stop
  <2>2. Vouched'
    <3>1. CASE pc = "upload"
      <4>1. \A b \in Blocks : PageRight(b) => PageRight(b)'
        BY <2>1, WritingKeepsRight DEF TypeOK
      <4>2. origin # "found" /\ (origin # "unchecked" => Sent)
        BY <3>1 DEF UploadInv
      <4>3. origin' = origin /\ blobMd5' = blobMd5
        BY <1>4 DEF Stop
      <4>4. Judged' = Judged /\ Judged \subseteq Blocks
        BY <4>3, JudgedSame DEF Judged
      <4>5. QED
        BY <4>1, <4>2, <4>3, <4>4 DEF Vouched, Sent, TypeOK, Origins
    <3>2. CASE pc # "upload"
      <4>1. W = {}
        BY <2>1, <3>2 DEF SessionInv
      <4>2. data' = data
        BY <2>1, <4>1 DEF TypeOK
      <4>3. QED
        BY <1>4, <4>2, VouchedSame DEF Stop
    <3>3. QED
      BY <3>1, <3>2
  <2>3. QED
    BY <1>4, <2>2, Ending DEF Stop
<1>5. QED
  BY <1>1, <1>2, <1>3, <1>4
-----------------------------------------------------------------------------
LEMMA NextIInv == IInv /\ [Next]_vars => IInv'
<1> SUFFICES ASSUME IInv, [Next]_vars PROVE IInv'
  OBVIOUS
<1>1. TypeOK'
  BY NextTypeOK DEF IInv
<1>2. CASE StartSession \/ InfoFails \/ InfoCreate \/ InfoIncremental
  BY <1>1, <1>2, SessionSteps
<1>3. CASE Create \/ CreateFails
  BY <1>1, <1>3, CreateSteps
<1>4. CASE CopyParent \/ CopyFails
  BY <1>1, <1>4, CopySteps
<1>5. CASE \/ \E b \in Blocks : ClearRegion(b) \/ ClearFails(b)
           \/ OnDeleted \/ OnDeletedFails
  BY <1>1, <1>5, ClearSteps
<1>6. CASE SendNext \/ \E b \in Blocks : SendAgain(b)
  BY <1>1, <1>6, SendSteps
<1>7. CASE \E b \in Blocks : UploadOk(b) \/ UploadFails(b)
  BY <1>1, <1>7, AnswerSteps
<1>8. CASE SetMd5 \/ GiveUp \/ Succeed \/ Stop
  BY <1>1, <1>8, EndSteps
<1>9. CASE UNCHANGED vars
  <2>1. /\ UNCHANGED <<exists, size, data, blobMd5, origin, pc, force, parent>>
        /\ UNCHANGED <<uploaded, toClear, issued, inFlight, failed, exiting, result>>
    BY <1>9 DEF vars, blobVars, poolVars
  <2>2. /\ LeftOut' = LeftOut /\ Judged' = Judged /\ Judged \subseteq Blocks
        /\ \A b \in Blocks : PageRight(b)' <=> PageRight(b)
    BY <2>1, JudgedSame, PagesSame DEF Judged
  <2>3. Vouched'
    BY <2>1, VouchedSame DEF IInv
  <2>4. UploadInv'
    BY <2>1, SentSame DEF IInv, UploadInv, Sent
  <2>5. ClearInv'
    BY <2>1, <2>2 DEF IInv, ClearInv, Right
  <2>6. SessionInv'
    BY <2>1, <2>2
       DEF IInv, SessionInv, Incremental, HasPages, Delivered, Right
  <2>7. QED
    BY <1>1, <2>3, <2>4, <2>5, <2>6 DEF IInv
<1>10. QED
  BY <1>2, <1>3, <1>4, <1>5, <1>6, <1>7, <1>8, <1>9 DEF Next

LEMMA Inductive == Spec => []IInv
<1>1. Init => IInv
  BY InitIInv
<1>2. IInv /\ [Next]_vars => IInv'
  BY NextIInv
<1>3. QED
  BY <1>1, <1>2, PTL DEF Spec

(* The variables keep their types, in any setting.                           *)
THEOREM TypeCorrect == Spec => []TypeOK
<1>1. Init => TypeOK
  BY InitTypeOK
<1>2. QED
  BY <1>1, NextTypeOK, PTL DEF Spec

(* Whatever blob is written, what a session skips has a page, and what it    *)
(* has passed is answered, has a page or is a block of zeros.                *)
SkippedInv ==
  /\ pc \in {"clear", "upload"} => \A b \in uploaded : data[b] # "zero"
  /\ pc = "upload" =>
       \A b \in 0 .. issued - 1 :
         b \in inFlight \cup failed \cup ZeroBlocks \/ data[b] # "zero"
  /\ result = "success" =>
       /\ exists /\ size = "same"
       /\ \A b \in Blocks : b \in ZeroBlocks \/ data[b] # "zero"

LEMMA NextSkippedInv ==
  ASSUME IInv, SkippedInv, [Next]_vars
  PROVE  SkippedInv'
<1> USE SizeAssumption, ContentAssumption DEF IInv, blobVars, poolVars
<1>1. CASE StartSession \/ InfoFails \/ InfoCreate
  BY <1>1 DEF StartSession, InfoFails, InfoCreate, ExitWithError, SkippedInv
<1>2. CASE InfoIncremental
  <2>1. issued' = 0 /\ data' = data /\ uploaded' = HasPages
    BY <1>2 DEF InfoIncremental, SessionInv
  <2>2. result' \in {result, "error"} /\ UNCHANGED <<exists, size>>
    BY <1>2 DEF InfoIncremental, ExitWithError
  <2>3. QED
    BY <2>1, <2>2 DEF SkippedInv, HasPages
<1>3. CASE Create \/ CreateFails
  BY <1>3 DEF Create, CreateFails, SkippedInv, SessionInv
<1>4. CASE CopyParent \/ CopyFails
  BY <1>4 DEF CopyParent, CopyFails, ParentCopy, SkippedInv, SessionInv
<1>5. ASSUME NEW b \in Blocks, ClearRegion(b) \/ ClearFails(b)
      PROVE  SkippedInv'
  BY <1>5 DEF ClearRegion, ClearFails, SkippedInv, SessionInv, TypeOK
<1>6. CASE OnDeleted \/ OnDeletedFails
  BY <1>6 DEF OnDeleted, OnDeletedFails, ExitWithError, SkippedInv, SessionInv
<1>7. CASE SendNext
  <2>1. issued \in Blocks /\ 0 .. issued' - 1 = (0 .. issued - 1) \cup {issued}
    BY <1>7 DEF SendNext, TypeOK, Blocks
  <2>2. QED
    BY <1>7, <2>1 DEF SendNext, Skips, SkippedInv
<1>8. ASSUME NEW b \in Blocks, SendAgain(b)
      PROVE  SkippedInv'
  BY <1>8 DEF SendAgain, SkippedInv
<1>9. ASSUME NEW b \in Blocks, UploadOk(b) \/ UploadFails(b)
      PROVE  SkippedInv'
  <2>1. \A c \in Blocks : data'[c] \in {data[c], "file"}
    BY <1>9 DEF UploadOk, UploadFails, TypeOK
  <2>2. uploaded \subseteq Blocks /\ 0 .. issued - 1 \subseteq Blocks
    BY DEF TypeOK, Blocks
  <2>3. UploadOk(b) => data'[b] = "file"
    BY DEF UploadOk, TypeOK
  <2>4. QED
    BY <1>9, <2>1, <2>2, <2>3 DEF UploadOk, UploadFails, SkippedInv, SessionInv
<1>10. CASE SetMd5 \/ GiveUp
  BY <1>10 DEF SetMd5, GiveUp, SkippedInv
<1>11. CASE Succeed
  <2>1. 0 .. issued - 1 = Blocks /\ inFlight \cup failed = {}
    BY <1>11 DEF Succeed, Blocks
  <2>2. QED
    BY <1>11, <2>1 DEF Succeed, SkippedInv, UploadInv
<1>12. CASE Stop
  BY <1>12 DEF Stop, SkippedInv
<1>13. CASE UNCHANGED vars
  BY <1>13 DEF vars, SkippedInv
<1>14. QED
  BY <1>1, <1>2, <1>3, <1>4, <1>5, <1>6, <1>7, <1>8, <1>9, <1>10, <1>11, <1>12, <1>13
     DEF Next

(* Success is reported only for a blob that is identical to the local VHD;   *)
(* where it is unchecked, or the parent's region was left, what differs was  *)
(* there before.                                                             *)
THEOREM SuccessIsSound == Spec => []SuccessMeansDelivered
<1>1. Init => SkippedInv
  BY DEF Init, SkippedInv
<1>2. IInv /\ SkippedInv => SuccessMeansDelivered
  BY RightFacts
     DEF IInv, SessionInv, SkippedInv, Delivered, Judged, SuccessMeansDelivered
<1>3. QED
  BY <1>1, <1>2, NextSkippedInv, Inductive, PTL DEF Spec

(* The footer vouches for the rest of the blob: uploading it first makes     *)
(* skipping pages in a later session safe, with the same exceptions.         *)
THEOREM FooterIsEvidence == Spec => []FooterVouches
<1>1. IInv => FooterVouches
  BY DEF IInv, TypeOK, Origins, Vouched, Judged, FooterVouches, PageRight, HasPages
<1>2. QED
  BY <1>1, Inductive, PTL

(* The MD5 that success leaves on a blob that is not unchecked is of the     *)
(* file, or there is none.                                                   *)
THEOREM Md5IsSound == Spec => []Md5IsTheFiles
<1>1. IInv => Md5IsTheFiles
  BY DEF IInv, TypeOK, SessionInv, Delivered, Md5IsTheFiles
<1>2. QED
  BY <1>1, Inductive, PTL

(* A blob that is complete stays complete when the command is run again      *)
(* without -f, whatever blob was found at first: it is neither created again *)
(* nor copied from the parent, as long as exitWithError() was not passed.    *)
THEOREM RerunIsHarmless == Spec => RerunKeepsCompleteBlob
<1> USE DEF blobVars
<1>1. ASSUME IInv, [Next]_vars, Complete, ~force, ~exiting,
             Dynamic => data[Footer] = "file"
      PROVE  Complete'
  <2>1. Incremental
    <3>1. data[Footer] \in Right(Footer)
      BY <1>1, FooterIsBlock DEF Complete
    <3>2. data[Footer] # "zero"
      BY <3>1, FooterIsBlock, RightFacts
    <3>3. QED
      BY <1>1, <3>2, FooterIsBlock DEF Complete, Incremental, HasPages
  <2>2. pc # "create"
    BY <1>1, <2>1 DEF IInv, SessionInv
  <2>3. pc # "clear"
    BY <1>1 DEF IInv, ClearInv, Dynamic
  <2>4. /\ UNCHANGED <<exists, size>>
        /\ \A b \in Blocks : data'[b] \in {data[b], "file"}
    <3> USE <1>1 DEF IInv, TypeOK
    <3>1. CASE StartSession \/ InfoFails \/ InfoCreate \/ InfoIncremental
      BY <3>1 DEF StartSession, InfoFails, InfoCreate, InfoIncremental
    <3>2. CASE Create \/ CreateFails \/ CopyParent \/ CopyFails
      BY <2>2, <3>2 DEF Create, CreateFails, CopyParent, CopyFails
    <3>3. CASE \/ \E b \in Blocks : ClearRegion(b) \/ ClearFails(b)
               \/ OnDeleted \/ OnDeletedFails
      BY <2>3, <3>3 DEF ClearRegion, ClearFails, OnDeleted, OnDeletedFails
    <3>4. CASE SendNext \/ \E b \in Blocks : SendAgain(b)
      BY <3>4 DEF SendNext, SendAgain
    <3>5. CASE \E b \in Blocks : UploadOk(b) \/ UploadFails(b)
      BY <3>5 DEF UploadOk, UploadFails
    <3>6. CASE SetMd5 \/ GiveUp \/ Succeed \/ Stop
      BY <3>6 DEF SetMd5, GiveUp, Succeed, Stop
    <3>7. CASE UNCHANGED vars
      BY <3>7 DEF vars
    <3>8. QED
      BY <3>1, <3>2, <3>3, <3>4, <3>5, <3>6, <3>7 DEF Next
  <2>5. QED
    BY <1>1, <2>4, RightFacts DEF Complete, Right
<1>2. Spec => [][IInv /\ IInv' => (Complete /\ ~force /\ ~exiting
                   /\ (Dynamic => data[Footer] = "file") => Complete')]_vars
  BY <1>1, PTL DEF Spec
<1>3. QED
  BY <1>2, Inductive, PTL DEF RerunKeepsCompleteBlob
=============================================================================
