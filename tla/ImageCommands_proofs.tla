------------------------ MODULE ImageCommands_proofs ------------------------
(* What a command without overlap registers is whole, for any number of      *)
(* processes, blobs, names and commands, killed or not.                      *)
EXTENDS ImageCommands, TLAPS

Contents == {"none", "partial", "uploaded", "copying", "copied", "failed"}
Transfers == {"location", "name", "account", "new account", "info",
              "upload", "uploading", "copy", "poll", "register"}
Steps == Transfers \cup {"idle", "images", "disk", "delete", "capture"}
Found == {"unknown", "there", "not there"}

Commands ==
  [step : Steps, cmd : {"none", "create", "upload", "delete", "capture"},
   kind : {"os", "disk", "vm"}, name : Names, src : {"none", "file", "url"},
   blob : Blobs \cup {NoBlob}, complete : BOOLEAN, withBlob : BOOLEAN, valid : BOOLEAN,
   vm : Found, os : Found, alone : BOOLEAN]

TypeOK ==
  /\ blobs \in [Blobs -> Contents]
  /\ proc \in [Procs -> Commands]

(* A command that writes or registers a blob has one.                        *)
TransfersHaveBlobs == \A p \in Procs : proc[p].step \in Transfers => Mine(p) \in Blobs

(* While a command is alone nobody else does anything, so that nobody but    *)
(* the service and itself can change its blob.                               *)
AloneMeansAlone ==
  \A p, q \in Procs : proc[p].alone /\ p # q => Idle(q)

(* A blob that a command is about to register is whole, and stays so.        *)
WholeBeforeRegister ==
  \A p \in Procs :
    At(p, "register") /\ proc[p].alone /\ proc[p].src # "none" => Whole(Mine(p))

IInv == TypeOK /\ TransfersHaveBlobs /\ AloneMeansAlone /\ WholeBeforeRegister
-----------------------------------------------------------------------------
LEMMA FreshIsCommand == Fresh \in Commands
<1>1. (CHOOSE n \in Names : TRUE) \in Names
  BY ImageAssumption
<1> QED
  BY <1>1 DEF Fresh, Commands, Steps, Transfers, Found

LEMMA ExceptAlone ==
  ASSUME NEW c \in Commands, NEW a \in BOOLEAN
  PROVE  LET d == [c EXCEPT !.alone = a]
         IN  d \in Commands /\ d.step = c.step /\ d.blob = c.blob /\ d.alone = a
BY DEF Commands

(* A command that ends disturbs nobody: if it was not idle, no other command *)
(* is alone.                                                                 *)
LEMMA EndingKeeps ==
  ASSUME IInv, NEW p \in Procs, ~Idle(p), Ends(p), blobs' \in [Blobs -> Contents]
  PROVE  IInv'
<1>1. proc' = [proc EXCEPT ![p] = Fresh]
  BY DEF Ends
<1>2. proc'[p] = Fresh /\ \A q \in Procs : q # p => proc'[q] = proc[q]
  BY <1>1 DEF IInv, TypeOK
<1>3. \A q \in Procs : q # p => ~proc[q].alone
  BY DEF IInv, AloneMeansAlone
<1>4. ~Fresh.alone /\ Fresh.step = "idle"
  BY DEF Fresh
<1>5. TypeOK'
  BY <1>1, FreshIsCommand DEF IInv, TypeOK
<1>6. TransfersHaveBlobs'
  BY <1>2, <1>4 DEF IInv, TransfersHaveBlobs, Mine, Transfers
<1>7. AloneMeansAlone'
  BY <1>2, <1>3, <1>4 DEF AloneMeansAlone, Idle, At
<1>8. WholeBeforeRegister'
  BY <1>2, <1>3, <1>4 DEF WholeBeforeRegister, At
<1> QED
  BY <1>5, <1>6, <1>7, <1>8 DEF IInv

(* A command that goes on to step may write its blob; what it goes on to     *)
(* register must be whole by then.                                           *)
LEMMA GoingKeeps ==
  ASSUME IInv, NEW p \in Procs, NEW step \in Steps, ~Idle(p), Goes(p, step),
         blobs' \in [Blobs -> Contents],
         step \in Transfers => Mine(p) \in Blobs,
         step = "register" /\ proc[p].src # "none" =>
           blobs'[Mine(p)] \in {"uploaded", "copied"}
  PROVE  IInv'
<1>1. proc' = [proc EXCEPT ![p].step = step]
  BY DEF Goes
<1>2. /\ proc'[p].step = step
      /\ proc'[p].blob = proc[p].blob /\ proc'[p].src = proc[p].src
      /\ proc'[p].alone = proc[p].alone
      /\ \A q \in Procs : q # p => proc'[q] = proc[q]
  BY <1>1 DEF IInv, TypeOK, Commands
<1>3. \A q \in Procs : q # p => ~proc[q].alone
  BY DEF IInv, AloneMeansAlone
<1>4. TypeOK'
  BY <1>1 DEF IInv, TypeOK, Commands
<1>5. TransfersHaveBlobs'
  BY <1>2 DEF IInv, TransfersHaveBlobs, Mine
<1>6. AloneMeansAlone'
  BY <1>2, <1>3 DEF IInv, AloneMeansAlone, Idle, At
<1>7. WholeBeforeRegister'
  BY <1>2, <1>3 DEF WholeBeforeRegister, Whole, Mine, At
<1> QED
  BY <1>4, <1>5, <1>6, <1>7 DEF IInv

(* A command that begins is alone only if it is, and takes that from others. *)
LEMMA StartingKeeps ==
  ASSUME IInv, NEW p \in Procs, NEW r \in Commands, Starts(p, r),
         r.step # "register", r.step \in Transfers => r.blob \in Blobs
  PROVE  IInv'
<1> DEFINE lonely == \A o \in Procs \ {p} : Idle(o)
<1>1. /\ proc' = [q \in Procs |-> IF q = p THEN [r EXCEPT !.alone = lonely]
                                  ELSE [proc[q] EXCEPT !.alone = FALSE]]
      /\ blobs' = blobs
  BY DEF Starts, store
<1>2. lonely \in BOOLEAN
  OBVIOUS
<1>3. proc'[p] = [r EXCEPT !.alone = lonely]
  BY <1>1
<1>4. \A q \in Procs : q # p => proc'[q] = [proc[q] EXCEPT !.alone = FALSE]
  BY <1>1
<1> HIDE DEF lonely
<1>5. /\ proc'[p] \in Commands
      /\ proc'[p].step = r.step /\ proc'[p].blob = r.blob /\ proc'[p].alone = lonely
  BY <1>2, <1>3, ExceptAlone
<1>6. \A q \in Procs : q # p =>
        /\ proc'[q] \in Commands
        /\ proc'[q].step = proc[q].step /\ proc'[q].blob = proc[q].blob
        /\ proc'[q].alone = FALSE
  <2> TAKE q \in Procs
  <2> HAVE q # p
  <2>1. proc[q] \in Commands
    BY DEF IInv, TypeOK
  <2> QED
    BY <1>4, <2>1, ExceptAlone
<1>7. TypeOK'
  BY <1>1, <1>5, <1>6 DEF IInv, TypeOK
<1>8. TransfersHaveBlobs'
  BY <1>5, <1>6 DEF IInv, TransfersHaveBlobs, Mine
<1>9. AloneMeansAlone'
  <2> SUFFICES ASSUME NEW o \in Procs, NEW q \in Procs, proc'[o].alone, o # q
               PROVE  proc'[q].step = "idle"
    BY DEF AloneMeansAlone, Idle, At
  <2>1. o = p /\ lonely
    BY <1>5, <1>6
  <2> QED
    BY <2>1, <1>6 DEF lonely, Idle, At
<1>10. WholeBeforeRegister'
  BY <1>5, <1>6 DEF WholeBeforeRegister, At
<1> QED
  BY <1>7, <1>8, <1>9, <1>10 DEF IInv
-----------------------------------------------------------------------------
LEMMA StartKeeps ==
  ASSUME IInv, NEW p \in Procs, Start(p)
  PROVE  IInv'
<1>1. CASE \E kind \in {"os", "disk"}, name \in Names, src \in {"file", "url", "none"}, b \in Blobs,
             complete, valid \in BOOLEAN : StartCreate(p, kind, name, src, b, complete, valid)
  <2> PICK kind \in {"os", "disk"}, name \in Names, src \in {"file", "url", "none"}, b \in Blobs,
           complete \in BOOLEAN, valid \in BOOLEAN :
             StartCreate(p, kind, name, src, b, complete, valid)
    BY <1>1
  <2> DEFINE r == [Fresh EXCEPT !.step = "location", !.cmd = "create", !.kind = kind, !.name = name,
                                !.src = src, !.blob = b, !.complete = complete, !.valid = valid]
  <2>1. r \in Commands /\ r.step = "location" /\ r.blob = b
    BY FreshIsCommand DEF Commands, Steps, Transfers
  <2>2. Starts(p, r)
    BY DEF StartCreate
  <2> HIDE DEF r
  <2> QED
    BY <2>1, <2>2, StartingKeeps
<1>2. CASE \E src \in {"file", "url"}, b \in Blobs : StartUpload(p, src, b)
  <2> PICK src \in {"file", "url"}, b \in Blobs : StartUpload(p, src, b)
    BY <1>2
  <2> DEFINE r == [Fresh EXCEPT !.step = IF src = "url" THEN "copy" ELSE "upload", !.cmd = "upload",
                                !.src = src, !.blob = b]
  <2>1. r \in Commands /\ r.step \in {"copy", "upload"} /\ r.blob = b
    BY FreshIsCommand DEF Commands, Steps, Transfers
  <2>2. Starts(p, r)
    BY DEF StartUpload
  <2> HIDE DEF r
  <2> QED
    BY <2>1, <2>2, StartingKeeps
<1>3. CASE \E kind \in {"os", "disk"}, name \in Names, withBlob \in BOOLEAN :
             StartDelete(p, kind, name, withBlob)
  <2> PICK kind \in {"os", "disk"}, name \in Names, withBlob \in BOOLEAN :
             StartDelete(p, kind, name, withBlob)
    BY <1>3
  <2> DEFINE r == [Fresh EXCEPT !.step = IF kind # "disk" THEN "images"
                                         ELSE IF withBlob THEN "disk" ELSE "delete",
                                !.cmd = "delete", !.kind = kind, !.name = name, !.withBlob = withBlob]
  <2>1. r \in Commands /\ r.step \in {"images", "disk", "delete"}
    BY FreshIsCommand DEF Commands, Steps
  <2>2. Starts(p, r)
    BY DEF StartDelete
  <2> HIDE DEF r
  <2> QED
    BY <2>1, <2>2, StartingKeeps DEF Transfers
<1>4. CASE \E kind \in {"os", "vm"}, name \in Names : StartCapture(p, kind, name)
  <2> PICK kind \in {"os", "vm"}, name \in Names : StartCapture(p, kind, name)
    BY <1>4
  <2> DEFINE r == [Fresh EXCEPT !.step = "images", !.cmd = "capture", !.kind = kind, !.name = name]
  <2>1. r \in Commands /\ r.step = "images"
    BY FreshIsCommand DEF Commands, Steps
  <2>2. Starts(p, r)
    BY DEF StartCapture
  <2> HIDE DEF r
  <2> QED
    BY <2>1, <2>2, StartingKeeps DEF Transfers
<1> QED
  BY <1>1, <1>2, <1>3, <1>4 DEF Start

(* The steps to the name of the blob: only a command that transfers nothing  *)
(* registers at once.                                                        *)
LEMMA NamingKeeps ==
  ASSUME IInv, NEW p \in Procs,
         ResolveLocation(p) \/ GetBlobName(p) \/ FindAccount(p) \/ CreateAccount(p) \/ GetAccountInfo(p)
  PROVE  IInv'
<1>1. /\ ~Idle(p) /\ Mine(p) \in Blobs /\ blobs' = blobs /\ blobs' \in [Blobs -> Contents]
  BY DEF ResolveLocation, GetBlobName, FindAccount, CreateAccount, GetAccountInfo, store,
         IInv, TypeOK, TransfersHaveBlobs, Transfers, Idle, At
<1>2. AfterName(p) \in Steps /\ (AfterName(p) = "register" => proc[p].src = "none")
  BY DEF AfterName, Steps, Transfers
<1>3. Ends(p) \/ \E step \in {AfterName(p), "name", "account", "new account", "copy", "upload"} : Goes(p, step)
  BY DEF ResolveLocation, GetBlobName, FindAccount, CreateAccount, GetAccountInfo
<1>4. CASE Ends(p)
  BY <1>1, <1>4, EndingKeeps
<1>5. ASSUME NEW step \in {AfterName(p), "name", "account", "new account", "copy", "upload"}, Goes(p, step)
      PROVE  IInv'
  <2>1. step \in Steps /\ (step = "register" => proc[p].src = "none")
    BY <1>2 DEF Steps, Transfers
  <2> QED
    BY <1>1, <1>5, <2>1, GoingKeeps
<1> QED
  BY <1>3, <1>4, <1>5

(* The end of a transfer finds the blob whole.                               *)
LEMMA AfterTransferKeeps ==
  ASSUME IInv, NEW p \in Procs, ~Idle(p), Mine(p) \in Blobs, AfterTransfer(p),
         blobs' \in [Blobs -> Contents], blobs'[Mine(p)] \in {"uploaded", "copied"}
  PROVE  IInv'
<1>1. CASE Ends(p)
  BY <1>1, EndingKeeps
<1>2. CASE Goes(p, "register")
  <2>1. "register" \in Steps
    BY DEF Steps, Transfers
  <2> QED
    BY <1>2, <2>1, GoingKeeps
<1> QED
  BY <1>1, <1>2 DEF AfterTransfer

LEMMA TransferKeeps ==
  ASSUME IInv, NEW p \in Procs,
         \/ Upload(p) \/ UploadDone(p) \/ AlreadyUploaded(p) \/ UploadFails(p)
         \/ StartCopy(p) \/ StartCopyFails(p) \/ CheckStatus(p) \/ CheckStatusFails(p)
  PROVE  IInv'
<1>1. ~Idle(p) /\ Mine(p) \in Blobs
  BY DEF Upload, UploadDone, AlreadyUploaded, UploadFails, StartCopy, StartCopyFails, CheckStatus,
         CheckStatusFails, IInv, TransfersHaveBlobs, Transfers, Idle, At
<1>2. blobs \in [Blobs -> Contents]
  BY DEF IInv, TypeOK
<1>3. CASE Upload(p)
  <2>1. blobs' \in [Blobs -> Contents] /\ Goes(p, "uploading")
    BY <1>2, <1>3 DEF Upload, Contents
  <2> QED
    BY <1>1, <2>1, GoingKeeps DEF Steps, Transfers
<1>4. CASE UploadDone(p)
  <2>1. blobs' \in [Blobs -> Contents] /\ blobs'[Mine(p)] = "uploaded" /\ AfterTransfer(p)
    BY <1>1, <1>2, <1>4 DEF UploadDone, Contents
  <2> QED
    BY <1>1, <2>1, AfterTransferKeeps
<1>5. CASE AlreadyUploaded(p)
  <2>1. blobs' = blobs /\ Whole(Mine(p)) /\ AfterTransfer(p)
    BY <1>5 DEF AlreadyUploaded, store
  <2> QED
    BY <1>1, <1>2, <2>1, AfterTransferKeeps DEF Whole
<1>6. CASE StartCopy(p)
  <2>1. blobs' \in [Blobs -> Contents] /\ Goes(p, "poll")
    BY <1>2, <1>6 DEF StartCopy, Contents
  <2> QED
    BY <1>1, <2>1, GoingKeeps DEF Steps, Transfers
<1>7. CASE CheckStatus(p)
  <2>1. blobs' = blobs /\ (Ends(p) \/ (CopyOver(Mine(p)) /\ AfterTransfer(p)))
    BY <1>7 DEF CheckStatus, store
  <2>2. CASE Ends(p)
    BY <1>1, <1>2, <2>1, <2>2, EndingKeeps
  <2>3. CASE CopyOver(Mine(p)) /\ AfterTransfer(p)
    BY <1>1, <1>2, <2>1, <2>3, AfterTransferKeeps DEF CopyOver
  <2> QED
    BY <2>1, <2>2, <2>3
<1>8. CASE UploadFails(p) \/ StartCopyFails(p) \/ CheckStatusFails(p)
  <2>1. Ends(p) /\ blobs' = blobs
    BY <1>8 DEF UploadFails, StartCopyFails, CheckStatusFails, store
  <2> QED
    BY <1>1, <1>2, <2>1, EndingKeeps
<1> QED
  BY <1>3, <1>4, <1>5, <1>6, <1>7, <1>8

(* The steps after which a command is over, and those about names: only a    *)
(* deletion changes a blob, while nobody else is alone.                      *)
LEMMA EndKeeps ==
  ASSUME IInv, NEW p \in Procs,
         \/ CreateImage(p) \/ CreateImageFails(p) \/ DeleteImage(p) \/ DeleteImageFails(p)
         \/ Capture(p) \/ CaptureFails(p) \/ Kill(p)
  PROVE  IInv'
<1>1. ~Idle(p) /\ Ends(p)
  BY DEF CreateImage, CreateImageFails, DeleteImage, DeleteImageFails, Capture, CaptureFails, Kill, Idle, At
<1>2. blobs \in [Blobs -> Contents]
  BY DEF IInv, TypeOK
<1>3. blobs' \in [Blobs -> Contents]
  <2>1. CASE DeleteImage(p)
    BY <1>2, <2>1 DEF DeleteImage, Contents
  <2>2. CASE ~DeleteImage(p)
    BY <1>2, <2>2 DEF CreateImage, CreateImageFails, DeleteImageFails, Capture, CaptureFails, Kill, store
  <2> QED
    BY <2>1, <2>2
<1> QED
  BY <1>1, <1>3, EndingKeeps

LEMMA NamesKeep ==
  ASSUME IInv, NEW p \in Procs,
         GetDisk(p) \/ (\E kind \in {"vm", "os"} : GetImageInfo(p, kind)) \/ UseImageInfo(p)
  PROVE  IInv'
<1>1. ~Idle(p) /\ blobs' = blobs /\ blobs' \in [Blobs -> Contents]
  BY DEF GetDisk, GetImageInfo, UseImageInfo, store, IInv, TypeOK, Idle, At
<1>2. CASE Ends(p)
  BY <1>1, <1>2, EndingKeeps
<1>3. ASSUME NEW step \in {"delete", "capture"}, Goes(p, step)
      PROVE  IInv'
  BY <1>1, <1>3, GoingKeeps DEF Steps, Transfers
<1>4. ASSUME NEW c \in Commands, proc' = [proc EXCEPT ![p] = c],
             c.step \in {"images", "delete"}, c.blob = Mine(p), c.alone = proc[p].alone
      PROVE  IInv'
  <2>1. proc'[p] = c /\ \A q \in Procs : q # p => proc'[q] = proc[q]
    BY <1>4 DEF IInv, TypeOK
  <2>2. \A q \in Procs : q # p => ~proc[q].alone
    BY <1>1 DEF IInv, AloneMeansAlone
  <2>3. TypeOK'
    BY <1>1, <1>4 DEF IInv, TypeOK
  <2>4. TransfersHaveBlobs'
    BY <1>4, <2>1 DEF IInv, TransfersHaveBlobs, Mine, Transfers
  <2>5. AloneMeansAlone'
    BY <1>4, <2>1, <2>2 DEF IInv, AloneMeansAlone, Idle, At
  <2>6. WholeBeforeRegister'
    BY <1>4, <2>1, <2>2 DEF WholeBeforeRegister, At
  <2> QED
    BY <2>3, <2>4, <2>5, <2>6 DEF IInv
<1>5. proc[p] \in Commands /\ proc \in [Procs -> Commands]
  BY DEF IInv, TypeOK
<1>6. CASE GetDisk(p)
  BY <1>2, <1>3, <1>6 DEF GetDisk
<1>7. ASSUME NEW kind \in {"vm", "os"}, GetImageInfo(p, kind)
      PROVE  IInv'
  <2> DEFINE found == IF Named(proc[p].name, kind) # {} THEN "there" ELSE "not there"
  <2>1. Ends(p) \/ proc' = [proc EXCEPT ![p] = [@ EXCEPT ![kind] = found]]
    BY <1>7 DEF GetImageInfo
  <2>2. found \in Found /\ proc[p].step = "images"
    BY <1>7 DEF Found, GetImageInfo, At
  <2> HIDE DEF found
  <2> DEFINE c == [proc[p] EXCEPT ![kind] = found]
  <2>3. /\ c \in Commands /\ c.step = "images" /\ c.blob = Mine(p) /\ c.alone = proc[p].alone
    <3>1. CASE kind = "vm"
      BY <1>5, <2>2, <3>1 DEF Commands, Mine
    <3>2. CASE kind = "os"
      BY <1>5, <2>2, <3>2 DEF Commands, Mine
    <3> QED
      BY <3>1, <3>2
  <2>4. proc' = [proc EXCEPT ![p] = c] \/ Ends(p)
    BY <1>5, <2>1
  <2> HIDE DEF c
  <2> QED
    BY <1>2, <1>4, <2>3, <2>4
<1>8. CASE UseImageInfo(p)
  <2> DEFINE kind == IF proc[p].vm = "there" THEN "vm" ELSE "os"
             c == [proc[p] EXCEPT !.step = "delete", !.kind = kind]
  <2>1. \/ Ends(p) \/ Goes(p, "capture")
        \/ proc' = [proc EXCEPT ![p].step = "delete", ![p].kind = kind]
    BY <1>8 DEF UseImageInfo
  <2>2. kind \in {"vm", "os"}
    OBVIOUS
  <2> HIDE DEF kind
  <2>3. c \in Commands /\ c.step = "delete" /\ c.blob = Mine(p) /\ c.alone = proc[p].alone
    BY <1>5, <2>2 DEF Commands, Steps, Mine
  <2>4. \/ Ends(p) \/ Goes(p, "capture") \/ proc' = [proc EXCEPT ![p] = c]
    BY <1>5, <2>1
  <2> HIDE DEF c
  <2> QED
    BY <1>2, <1>3, <1>4, <2>3, <2>4
<1> QED
  BY <1>6, <1>7, <1>8

(* The service turns only a blob that is not whole.                          *)
LEMMA ServiceKeeps ==
  ASSUME IInv, NEW b \in Blobs, ServiceCopies(b)
  PROVE  IInv'
<1>1. /\ proc' = proc /\ blobs' \in [Blobs -> Contents]
      /\ blobs[b] = "copying" /\ \A d \in Blobs : d # b => blobs'[d] = blobs[d]
  BY DEF ServiceCopies, IInv, TypeOK, Contents
<1>2. TypeOK' /\ TransfersHaveBlobs' /\ AloneMeansAlone'
  BY <1>1 DEF IInv, TypeOK, TransfersHaveBlobs, AloneMeansAlone, Mine, Idle, At
<1>3. WholeBeforeRegister'
  <2> SUFFICES ASSUME NEW p \in Procs, At(p, "register"), proc[p].alone, proc[p].src # "none"
               PROVE  blobs'[Mine(p)] \in {"uploaded", "copied"}
    BY <1>1 DEF WholeBeforeRegister, Whole, Mine, At
  <2>1. Mine(p) \in Blobs /\ Whole(Mine(p))
    BY DEF IInv, TransfersHaveBlobs, WholeBeforeRegister, Transfers, At
  <2> QED
    BY <1>1, <2>1 DEF Whole
<1> QED
  BY <1>2, <1>3 DEF IInv
-----------------------------------------------------------------------------
LEMMA InitHolds == Init => IInv
<1> SUFFICES ASSUME Init PROVE IInv
  OBVIOUS
<1>1. TypeOK
  BY FreshIsCommand DEF Init, TypeOK, Contents
<1>2. \A p \in Procs : proc[p].step = "idle"
  BY DEF Init, Fresh
<1> QED
  BY <1>1, <1>2 DEF IInv, TransfersHaveBlobs, AloneMeansAlone, WholeBeforeRegister, Transfers, Idle, At

LEMMA NextKeeps == IInv /\ [Next]_vars => IInv'
<1> SUFFICES ASSUME IInv, [Next]_vars PROVE IInv'
  OBVIOUS
<1>1. ASSUME NEW p \in Procs, Start(p) \/ Answered(p) \/ CheckStatusFails(p) \/ Kill(p)
      PROVE  IInv'
  BY <1>1, StartKeeps, NamingKeeps, TransferKeeps, EndKeeps, NamesKeep DEF Answered
<1>2. ASSUME NEW b \in Blobs, ServiceCopies(b)
      PROVE  IInv'
  BY <1>2, ServiceKeeps
<1>3. CASE UNCHANGED vars
  BY <1>3 DEF vars, store, IInv, TypeOK, TransfersHaveBlobs, AloneMeansAlone, WholeBeforeRegister,
              Mine, Whole, Idle, At
<1> QED
  BY <1>1, <1>2, <1>3 DEF Next

(* The invariant, for any number of processes, blobs, names and commands.    *)
THEOREM Inductive == Spec => []IInv
  BY InitHolds, NextKeeps, PTL DEF Spec

(* What image.js registers after a transfer of its own is whole, unless      *)
(* another process was active in between.                                    *)
THEOREM RegistrationIsSound == Spec => RegistersWholeBlobs
<1>1. IInv => \A p \in Procs :
        At(p, "register") /\ images' # images /\ proc'[p] # proc[p]
          /\ proc[p].alone /\ proc[p].src # "none" => Whole(Mine(p))
  BY DEF IInv, WholeBeforeRegister
<1> QED
  BY <1>1, Inductive, PTL DEF RegistersWholeBlobs
=============================================================================
