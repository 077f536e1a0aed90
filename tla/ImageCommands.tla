---------------------------- MODULE ImageCommands ---------------------------
(* The commands about images and disks, by several processes at once: azure  *)
(* vm image|disk create and delete (iaas/image.js, iaas/deleteImage.js), vm  *)
(* disk upload and vm capture (vm/vmclient.js), and the copy of a blob that  *)
(* they wait for (upload/pageBlob.js).  The parallel upload of a file is two *)
(* steps here, and the subject of PageBlobUpload and ResumableUpload.        *)
(*                                                                           *)
(* Service (external): copies blobs on its own, also when nobody asks for    *)
(* the status any more; a registered image or disk leases its blob, which    *)
(* then cannot be written.  An "os" and a "vm" image may bear one name.      *)
EXTENDS Integers

CONSTANTS Procs, Names, Blobs,
          NoBlob,        \* the blob of a captured image: the service names it
          MaxCommands,   \* bound: commands that the processes begin
          ExitDeferred   \* the process goes on after its callback was called

ASSUME ImageAssumption == NoBlob \notin Blobs /\ Names # {} /\ ExitDeferred \in BOOLEAN

VARIABLES blobs,         \* what each blob holds
          images,        \* registered: [name, kind, blob]
          account,       \* the location has a storage account
          machine,       \* the VM to capture is there
          begun,         \* commands begun
          proc

store == <<blobs, images, account, machine>>
vars == <<store, begun, proc>>

Whole(b) == blobs[b] \in {"uploaded", "copied"}
Leased(b) == \E i \in images : i.blob = b
Writable(b) == ~Leased(b) /\ blobs[b] # "copying"
Named(name, kind) == {i \in images : i.name = name /\ i.kind = kind}

(* src: a local "file", the "url" of a blob, or "none" to register what is   *)
(* there.  complete: the blob is named by a complete URL.  alone: no other   *)
(* process has been active since the command began.                          *)
Fresh == [step |-> "idle", cmd |-> "none", kind |-> "os", name |-> CHOOSE n \in Names : TRUE,
          src |-> "none", blob |-> NoBlob, complete |-> FALSE, withBlob |-> FALSE, valid |-> TRUE,
          vm |-> "unknown", os |-> "unknown", alone |-> FALSE]

Init ==
  /\ blobs = [b \in Blobs |-> "none"]
  /\ images = {}
  /\ account \in BOOLEAN
  /\ machine = TRUE
  /\ begun = 0
  /\ proc = [p \in Procs |-> Fresh]

At(p, step) == proc[p].step = step
Idle(p) == At(p, "idle")
Mine(p) == proc[p].blob

Goes(p, step) == proc' = [proc EXCEPT ![p].step = step] /\ UNCHANGED begun

(* The command is over, well or not.                                         *)
Ends(p) == proc' = [proc EXCEPT ![p] = Fresh] /\ UNCHANGED begun

(* Command r begins.                                                         *)
Starts(p, r) ==
  /\ Idle(p) /\ begun < MaxCommands
  /\ begun' = begun + 1
  /\ proc' = [q \in Procs |->
       IF q = p THEN [r EXCEPT !.alone = \A o \in Procs \ {p} : Idle(o)]
       ELSE [proc[q] EXCEPT !.alone = FALSE]]
  /\ UNCHANGED store
-----------------------------------------------------------------------------
(* exports.create(): a mistake in the options is told by the callback, not   *)
(* by a return, so that with a deferred exit the command goes on.            *)
StartCreate(p, kind, name, src, b, complete, valid) ==
  /\ valid \/ ExitDeferred
  /\ src = "none" /\ valid => complete
  /\ Starts(p, [Fresh EXCEPT !.step = "location", !.cmd = "create", !.kind = kind, !.name = name,
                             !.src = src, !.blob = b, !.complete = complete, !.valid = valid])

(* uploadDataDisk(): a transfer alone.                                       *)
StartUpload(p, src, b) ==
  Starts(p, [Fresh EXCEPT !.step = IF src = "url" THEN "copy" ELSE "upload", !.cmd = "upload",
                          !.src = src, !.blob = b])

(* What comes after the name of the blob is known.                           *)
AfterName(p) == IF proc[p].src = "none" THEN "register" ELSE "info"

(* resolveLocationName(), if a location is given ...                         *)
ResolveLocation(p) ==
  /\ At(p, "location")
  /\ Goes(p, "name") \/ Ends(p)
  /\ UNCHANGED store

(* ... and getBlobName(): a complete URL is taken as it is.                  *)
GetBlobName(p) ==
  /\ At(p, "name")
  /\ Goes(p, IF proc[p].complete THEN AfterName(p) ELSE "account")
  /\ UNCHANGED store

(* getOrCreateBlobStorage(): the first account of the location, or else a    *)
(* new one, which stays when its properties cannot be read.                  *)
FindAccount(p) ==
  /\ At(p, "account")
  /\ Goes(p, IF account THEN AfterName(p) ELSE "new account") \/ Ends(p)
  /\ UNCHANGED store

CreateAccount(p) ==
  /\ At(p, "new account")
  /\ account' \in {account, TRUE}
  /\ (account' /\ Goes(p, AfterName(p))) \/ Ends(p)
  /\ UNCHANGED <<blobs, images, machine>>

(* getAccountInfo(): both requests must succeed.                             *)
GetAccountInfo(p) ==
  /\ At(p, "info")
  /\ Goes(p, IF proc[p].src = "url" THEN "copy" ELSE "upload") \/ Ends(p)
  /\ UNCHANGED store

(* What follows a blob that is there: createImage(), or the end of an upload.*)
AfterTransfer(p) == IF proc[p].cmd = "create" THEN Goes(p, "register") ELSE Ends(p)
-----------------------------------------------------------------------------
(* uploadPageBlob(), its parts being written one after the other ...         *)
Upload(p) ==
  /\ At(p, "upload") /\ Writable(Mine(p))
  /\ blobs' = [blobs EXCEPT ![Mine(p)] = "partial"]
  /\ Goes(p, "uploading")
  /\ UNCHANGED <<images, account, machine>>

UploadDone(p) ==
  /\ At(p, "uploading") /\ Writable(Mine(p))
  /\ blobs' = [blobs EXCEPT ![Mine(p)] = "uploaded"]
  /\ AfterTransfer(p)
  /\ UNCHANGED <<images, account, machine>>

(* ... or found in the cloud; it is only read then, image or not ...         *)
AlreadyUploaded(p) ==
  /\ At(p, "upload") /\ Whole(Mine(p))
  /\ AfterTransfer(p)
  /\ UNCHANGED store

(* ... or in error: "do not delete incomplete blob".                         *)
UploadFails(p) == proc[p].step \in {"upload", "uploading"} /\ Ends(p) /\ UNCHANGED store

(* copyBlob(): startCopyBlob() overwrites what is there ...                  *)
StartCopy(p) ==
  /\ At(p, "copy") /\ Writable(Mine(p))
  /\ \E now \in {"copying", "copied"} : blobs' = [blobs EXCEPT ![Mine(p)] = now]
  /\ Goes(p, "poll")
  /\ UNCHANGED <<images, account, machine>>

StartCopyFails(p) == At(p, "copy") /\ Ends(p) /\ UNCHANGED store

(* Mutant: the first answer of startCopyBlob() is taken for the last.        *)
CopyOverAtOnce(b) == blobs[b] \in {"copying", "copied"}

(* Mutant: the status is compared before it is turned to lower case.         *)
CopyNeverOver(b) == FALSE

(* The status is "success".                                                  *)
CopyOver(b) == blobs[b] = "copied"

(* ... and checkStatus() asks again while the status is not "success", also  *)
(* if the copy has failed; a blob that is gone or was written anew ends it.  *)
CheckStatus(p) ==
  /\ At(p, "poll")
  /\ \/ CopyOver(Mine(p)) /\ AfterTransfer(p)
     \/ blobs[Mine(p)] \in {"none", "partial", "uploaded"} /\ Ends(p)
  /\ UNCHANGED store

(* A question for the status fails; the copy itself goes on.                 *)
CheckStatusFails(p) == At(p, "poll") /\ Ends(p) /\ UNCHANGED store

(* The service ends a copy, well or not.                                     *)
ServiceCopies(b) ==
  /\ blobs[b] = "copying"
  /\ \E now \in {"copied", "failed"} : blobs' = [blobs EXCEPT ![b] = now]
  /\ UNCHANGED <<images, account, machine, begun, proc>>

(* createImage(): virtualMachineOSImages.create() or createDisk(), by which  *)
(* an image may have come to be although an error is answered.               *)
CreateImage(p) ==
  /\ At(p, "register")
  /\ proc[p].valid /\ ~Leased(Mine(p)) /\ Named(proc[p].name, proc[p].kind) = {}
  /\ blobs[Mine(p)] \notin {"none", "failed"}
  /\ images' = images \cup {[name |-> proc[p].name, kind |-> proc[p].kind, blob |-> Mine(p)]}
  /\ Ends(p)
  /\ UNCHANGED <<blobs, account, machine>>

CreateImageFails(p) == At(p, "register") /\ Ends(p) /\ UNCHANGED store
-----------------------------------------------------------------------------
(* deleteImage(), with -b or without: of a disk -b asks for the disk first.  *)
StartDelete(p, kind, name, withBlob) ==
  Starts(p, [Fresh EXCEPT !.step = IF kind # "disk" THEN "images" ELSE IF withBlob THEN "disk" ELSE "delete",
                          !.cmd = "delete", !.kind = kind, !.name = name, !.withBlob = withBlob])

(* captureVM(): the VM is found in the deployments, or nothing happens.      *)
StartCapture(p, kind, name) ==
  /\ machine
  /\ Starts(p, [Fresh EXCEPT !.step = "images", !.cmd = "capture", !.kind = kind, !.name = name])

GetDisk(p) ==
  /\ At(p, "disk")
  /\ (Named(proc[p].name, "disk") # {} /\ Goes(p, "delete")) \/ Ends(p)
  /\ UNCHANGED store

(* getImageInfo(): the VM images are listed and the OS image is asked for in *)
(* parallel; an error of either ends the command ...                         *)
GetImageInfo(p, kind) ==
  /\ At(p, "images") /\ proc[p][kind] = "unknown"
  /\ \/ /\ proc' = [proc EXCEPT ![p][kind] = IF Named(proc[p].name, kind) # {} THEN "there" ELSE "not there"]
        /\ UNCHANGED begun
     \/ Ends(p)
  /\ UNCHANGED store

(* ... and when both have answered: a name that both have cannot be deleted; *)
(* a capture stops at a VM image, and goes on over an OS image.              *)
UseImageInfo(p) ==
  /\ At(p, "images") /\ "unknown" \notin {proc[p].vm, proc[p].os}
  /\ LET vm == proc[p].vm = "there"
         os == proc[p].os = "there"
     IN  \/ vm /\ (os \/ proc[p].cmd # "delete") /\ Ends(p)
         \/ /\ proc[p].cmd = "delete" /\ ~(vm /\ os)
            /\ proc' = [proc EXCEPT ![p].step = "delete", ![p].kind = IF vm THEN "vm" ELSE "os"]
            /\ UNCHANGED begun
         \/ ~vm /\ proc[p].cmd # "delete" /\ Goes(p, "capture")
  /\ UNCHANGED store

(* deleteMethod() or deleteDisk(), by which the service deletes the blob too.*)
DeleteImage(p) ==
  /\ At(p, "delete")
  /\ \E i \in Named(proc[p].name, proc[p].kind) :
       /\ images' = images \ {i}
       /\ blobs' = [b \in Blobs |-> IF proc[p].withBlob /\ i.blob = b THEN "none" ELSE blobs[b]]
  /\ Ends(p)
  /\ UNCHANGED <<account, machine>>

DeleteImageFails(p) == At(p, "delete") /\ Ends(p) /\ UNCHANGED store

(* captureOSImage() deletes the VM, captureVMImage() leaves it.              *)
Capture(p) ==
  /\ At(p, "capture") /\ machine /\ Named(proc[p].name, proc[p].kind) = {}
  /\ images' = images \cup {[name |-> proc[p].name, kind |-> proc[p].kind, blob |-> NoBlob]}
  /\ machine' = (proc[p].kind = "vm")
  /\ Ends(p)
  /\ UNCHANGED <<blobs, account>>

CaptureFails(p) == At(p, "capture") /\ Ends(p) /\ UNCHANGED store
-----------------------------------------------------------------------------
(* The user ends the process; what the service is doing goes on.             *)
Kill(p) == ~Idle(p) /\ Ends(p) /\ UNCHANGED store

Start(p) ==
  \/ \E kind \in {"os", "disk"}, name \in Names, src \in {"file", "url", "none"}, b \in Blobs,
        complete, valid \in BOOLEAN : StartCreate(p, kind, name, src, b, complete, valid)
  \/ \E src \in {"file", "url"}, b \in Blobs : StartUpload(p, src, b)
  \/ \E kind \in {"os", "disk"}, name \in Names, withBlob \in BOOLEAN : StartDelete(p, kind, name, withBlob)
  \/ \E kind \in {"os", "vm"}, name \in Names : StartCapture(p, kind, name)

(* A step of a command that has begun, by an answer of the service.          *)
Answered(p) ==
  \/ ResolveLocation(p) \/ GetBlobName(p) \/ FindAccount(p) \/ CreateAccount(p)
  \/ GetAccountInfo(p)
  \/ Upload(p) \/ UploadDone(p) \/ AlreadyUploaded(p) \/ UploadFails(p)
  \/ StartCopy(p) \/ StartCopyFails(p) \/ CheckStatus(p)
  \/ CreateImage(p) \/ CreateImageFails(p)
  \/ GetDisk(p) \/ \E kind \in {"vm", "os"} : GetImageInfo(p, kind)
  \/ UseImageInfo(p) \/ DeleteImage(p) \/ DeleteImageFails(p) \/ Capture(p) \/ CaptureFails(p)

Next ==
  \/ \E p \in Procs : Start(p) \/ Answered(p) \/ CheckStatusFails(p) \/ Kill(p)
  \/ \E b \in Blobs : ServiceCopies(b)

(* Requests are answered and copies end; the network need not fail.          *)
Spec ==
  /\ Init /\ [][Next]_vars
  /\ \A p \in Procs : WF_vars(Answered(p))
  /\ \A b \in Blobs : WF_vars(ServiceCopies(b))
-----------------------------------------------------------------------------
(* What a command without overlap registers, after having copied or uploaded *)
(* it, is whole: whatever earlier commands, killed or given up, have left in *)
(* the blob or still let the service do with it (image.js, createImage()).   *)
RegistersWholeBlobs ==
  [][\A p \in Procs :
       At(p, "register") /\ images' # images /\ proc'[p] # proc[p]
         /\ proc[p].alone /\ proc[p].src # "none" => Whole(Mine(p))]_vars

(* Every command ends, unless the copy it waits for has failed: copyBlob()   *)
(* asks for its status for ever.                                             *)
EveryCommandEnds ==
  \A p \in Procs :
    ~Idle(p) ~> Idle(p) \/ (At(p, "poll") /\ blobs[Mine(p)] = "failed")
=============================================================================
