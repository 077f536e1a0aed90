# Models of the Azure cross-platform CLI

The repository is a command line tool: most of its 3000 files turn one command
into one REST call and print the answer.  Its own hard logic is elsewhere: in the
upload of virtual hard disks (many parallel requests, retries, sessions that are
killed and resumed, blobs that are copied from a parent), in the caches of tokens
and accounts that several processes share, and in a few commands that make a
series of calls and must take them back when one fails.  This project models
that logic in TLA+, checks it with TLC and proves the most important results with
TLAPS.  The upload comes first, because an error there destroys a disk.

## The system

Everything runs in one Node.js process on one event loop: the code between two
callbacks is atomic, and what interleaves are callbacks.  Files and blobs are
shared with other processes, and with earlier runs of the same command.

| Component | State | Operations | What makes it correct |
|---|---|---|---|
| Job tracker (`upload/jobTracker.js`) | `fullIndex`, `errorList`, `completed` | `nextIndex`, `done`, `error`, predicates | every block is given out once, and once more per failure; nothing is given out twice at a time |
| Callback aggregator (`util/callbackAggregator.js`) | `callbacks`, `finished`, `isErrorState`, `done` | `getCallback`, the callbacks | one final callback, with the right verdict, in every order of answers |
| Page blob upload (`upload/pageBlob.js`) | threads, tracker, `exiting`, MD5, `uploadedRegions`, the blob in the service | probe, create, copy from the parent, clear, upload, retry, give up, write the MD5 | success only for a blob identical to the file; one outcome; an end; resuming is safe |
| Blob information (`upload/blobInfo.js`) | an aggregator and the answers | `getBlobInfo` | says "no such blob" only of a blob that was not there; calls back once |
| Range sets (`upload/intSet.js`) | sorted intervals | `subtractInterval`, `intersects`, ... | is the set difference; stays sorted and disjoint |
| VHD reading (`upload/vhdTools.js`, `streamMerger.js`) | chain of VHDs, BATs, bitmaps, two streams per block | `getReadStream`, merging | every sector comes from the youngest VHD that has it; every stream ends |
| Blob copy (`copyBlob` in `pageBlob.js`) | copy status | start, poll | ends when the copy ends |
| Token cache (`authentication/token-cache.js` and its stores) | entries in memory, a file or a credential store | `add`, `remove`, `clear`, `find` | no entry of another user lost or resurrected |
| Profile (`profile/*.js`) | subscriptions, the default one, the file | login, logout, set, clear, import, save | one default; what is told to be done is in both files |
| ASM virtual machines (`vm/vmclient.js`, `endpointUtil.js`) | the role a command has read; what it has created so far | some thirty commands that read, edit and write back a role; create with rollback; delete | a role stays valid; nothing lost but by overlap; a failed creation leaves nothing behind, and nothing is removed that was there before |
| Address ranges (`vnet.util._js`) | none | `isCidrsOverlapping` | is the overlap of two intervals |
| Deployment and WebJob polling | last status | poll | ends when the remote state is final |
| Framework (`cli.js`, telemetry, logging) | options, pending telemetry | run a command, report an error | the process ends after an error |
| Generated ARM clients (`arm/armsdk/`) | none | one function per REST request | formatting |
| ARM, ASM, storage, batch, HDInsight commands | none of their own | one REST call each | formatting; the state is in the service |

How they meet: `uploadPageBlobFromBlobService()` calls `getBlobInfo()`, which
joins three requests by an aggregator.  From its answer the upload decides
whether to go on with an existing blob, to create one, or to copy the parent's
and clear what differs.  Then its "threads" (chains of requests on the one event
loop) share a tracker, while the MD5 of the file is computed beside them; a second
aggregator joins the two and calls the command's callback.  Errors leave either
by that callback or by `exitWithError`, which for the VM commands *is* that
callback: it ends the process, but only after telemetry has been flushed, so that
the code after it still runs.  In the models of the upload sessions, of the images
and of `vm create` an `exitWithError()` may therefore return.

What is hard to test: every order of answers, failures and retries; requests that
fail and are carried out all the same; the moment at which the last thread is the
last; a process killed between any two requests and started again, over a blob
that it, its parent or somebody else has left.  `PROJECT.json` lists these hazards
at their lines with the properties that cover them.

## Modules

| Module | Models | Uses |
|---|---|---|
| `WorkPool` | abstract: indices are fresh, claimed, failed or done | |
| `RetryQueue` | abstract: a count of indices given out and a queue of failed ones | |
| `JobTracker` | `jobTracker.js` with the workers that call it | implements both |
| `AwaitAll` | abstract: one verdict over several answers | |
| `CallbackAggregator` | `callbackAggregator.js` | implements `AwaitAll` |
| `BlobInfo` | `getBlobInfo()`, the service and another client | `CallbackAggregator` |
| `PageBlobUpload` | one upload from the moment the blob exists | `RetryQueue`, `CallbackAggregator` |
| `ResumableUpload` | a series of sessions on one blob | |
| `IntSet` | `intSet.js` | |
| `ParentCleanup` | `createDiffVHDPageBlob()`: the workers that clear regions | `IntSet` |
| `VhdReading` | `getReadStream()` over a chain of VHDs | |
| `RoleUpdate` | the commands that change one classic VM | |
| `VmLifecycle` | `vm create` and `vm delete` | |
| `AccountFiles` | profile and token file, login, logout, account | |
| `ImageCommands` | image and disk create and delete, disk upload, VM capture, `copyBlob()` | |
| `MC...` | the instances TLC checks | the module of that name |
| `JobTracker_proofs`, `PageBlobUpload_proofs`, `ResumableUpload_proofs`, `ImageCommands_proofs`, `RoleUpdate_proofs`, `VmLifecycle_proofs`, `AccountFiles_proofs` | theorems | the module of that name |
| `UploadData_proofs` | theorems about what an upload knows, cleans and reads before it sends a block | `BlobInfo`, `IntSet`, `ParentCleanup`, `VhdReading` |

Definitions marked "Mutant:" are not part of the models.  Each is a plausible
mistake in the operation after it and is there to show that the property named
with it in `PROJECT.json` can fail.

### JobTracker

`fullIndex` walks over `0..IndexCount-1` and then over `errorList`, which only
grows.  JavaScript's `undefined` for a position past the list is `NoIndex`, and
`GoIdle` is the call of `nextIndex()` that takes its increment back.  A worker
holds one index at a time; after `Error` it may or may not be dropped, so that
every policy of the caller is covered.  The refinement mappings read the status
of each index (for `WorkPool`) and the queue of retries (for `RetryQueue`) off the
counter and the list.

### CallbackAggregator and BlobInfo

`Callback(k, res)` is the closure that `getCallback(k)` returns; `finished`,
`isErrorState` and `done` are its variables, `finals` the calls of the final
callback.  Its users register every key before any can answer, which is what
`Register` and `Answer` say.  `PageBlobUpload` uses the same operators with `md5`
registered only when an MD5 is computed.

`BlobInfo` is the user whose keys are requests.  `Serve` is the moment at which the
service carries a request out, `OnAnswer` the later one at which the callback runs
(answers overtake each other), `OtherClient` creates or deletes the blob in between.
`OnFinal` is the final callback: a 404 answers without arguments, everything well
goes on with `OnSuccess`, which may download the footer.  With `-f` the function is
called without a blob, to create the container alone; that call joins one request
and is left out.  The stream of the footer is taken to end or to fail, not both:
`errorsCalled` guards against two errors, but not against an error after the end.

### PageBlobUpload

A thread is `new`, `scheduled` (a call of `next` is due), `uploading`, `idle`
(found nothing to do), `retired` (after an error) or `unused`.  `StartThreads`,
`NextBlock`, `NextIdle`, `UploadOk` and `UploadFails` are the calls of
`startThreads()`, `next()` and `toNext()`, each with all that it calls.  A failed
request may have stored its block.  `present` are the blocks that
`isAlreadyUploaded()` or the scan for zeros passes over.  `Md5...` are the
callbacks of `calculateMD5()` and `onMD5Calculated()`, which includes the run
after a failed read, when the properties are written without a hash.
`OnAggregated` is the final callback; it throws (`alive` becomes FALSE) when it
is called for an error of the MD5 before the upload has ended.  The tracker
appears as `RetryQueue`, which `JobTracker` implements.

### ResumableUpload

One behaviour is a series of runs of the command on one blob, with `-f`, `-b`
and `-m` chosen anew each time and a `Stop` (a kill, or the end of the process)
possible anywhere; requests in flight are then carried out or lost.  Initially
there is no blob, or one that somebody else has written, with any of its pages in
place and with or without an MD5.  A block of the blob holds `zero` (no page),
`file`, `parent` or `foreign` data; `Right(b)` is what it may hold in the end.
`InfoCreate`, `InfoIncremental` and `InfoFails` are `onGotBlobInfo()`; then comes
`Create` or `CopyParent`, the clearing of regions, `OnDeleted` and the upload with
the thread pool reduced to a set of requests in flight.  `ExitWithError` either ends
the session or lets it go on with what the code does next: a blob that could not be
accessed is created anew, and one of which "Files are different" was said is continued.
Files do not change between the sessions.

`origin` is a history variable: whether the blob was found at first, created by a
session, copied from the parent, or is "unchecked", because a session writes over
a blob that it found, or over a copy that it could not clean up, without a footer that
vouches for it.  That is so when a fixed VHD continues a blob of its length, whoever wrote
it (`pageBlob.js:383-390`), and when a session goes on after `exitWithError()`.  No action
depends on `origin`.  The properties need it to say what the code guarantees of every blob
and what only of a blob that was checked: after success all blocks that had no page
were sent and the length is right, always; the other pages, and the MD5, are those
of the file unless the blob is unchecked or the page is in the region of the parent that
no worker clears (`LeftOut`).

### IntSet and ParentCleanup

`IntSet` has the sorted intervals as sequences; `Without` is what `subtractInterval()`
does to one interval of the array it walks: leave it, delete it, cut it or split
it.  `Members` and `IntervalsOf`, the set a list stands for and the list the service
gives of a set of pages, are the reference.  What the code computes in a loop over an array is
a function defined by recursion on `0..n`, about which theorems can be proved.

`ParentCleanup` has the copy, the list of its regions, the workers with their shared
`next`, `running` and `exiting`, and the removal of the MD5.  `pages` is what the
service has, `uploadedRegions` what the upload will believe; `SkippedIsThere` asks of
every block whether `isAlreadyUploaded()` is right, computed by `IntSet` on the list as
the workers have cut it.  `CopyOk` starts from any set of pages, `StartWorkers` with any
block table.  A list of regions that is answered by 404 is taken for a success
(`callback(undefined)`), and the model says so.

### VhdReading

A chain of VHDs, each with a table of blocks (`bat`) and a bitmap of the block that is
read (`mask`).  `Mode` is the decision of `createNextStream()`: from the file, from the
parent, zeros, or both merged by the bitmap.  `FileData`, `FileEnd` and `FileError` are
the events of a file's stream; `OnData` and `OnEnd` are what `onData` and `onEnd` of the
merging streams above do at once, up to the upload, whose input is `out`: `Reaching` gives
the data that each level gets, level by level, and `Hears` the levels that hear of an end.
`buffs`, `bit` and `ended` are the state of the merging streams, one per level.  A file
delivers buffers of any size, in halves of a sector, so that sectors are cut.  `SectorsAreTheYoungest`
compares what arrives with the youngest VHD that has each sector.

Assumed: blocks of one size in the whole chain, files that are not truncated (the
code fills the missing part with zeros and says nothing), a range within one block,
as the upload asks for.  The number of blocks that are sent, which the upload takes from the
length of the parent's file and not of the grandparent's (`pageBlob.js:317`), is not modelled.  For a range that starts inside an absent block and spans
several the loop in `createNextStream()` would miscount; nothing asks for one.

### RoleUpdate

Each command goes `idle`, `read`, perhaps `confirm`, `write`: `List` is
`getDeployments()` with the checks made on the list, then comes one action per
command at the moment `virtualMachines.get()` is answered, then `Write` or
`WriteFails`.  `setVM()` and the extensions edit the role of the list itself; disks have
requests of their own (`Disk`, `DiskAnswered`).  `DebugSettings` is part of every write.
`base` keeps the role a process has read, for the properties only.

`LostOnlyByOverlap` says that an update is lost only when another command has written
between a process's read and its write, with two exceptions: the boot diagnostics, which
every command that has no option for them removes (`vmclient.js:5513-5522`), and rules of
the other members of a load-balanced set.  `SuccessMeansAchieved` compares the VM with every
field of what a command was asked for; what a command loses by itself is listed in `Forgets`
and nowhere else.  What the model takes over from the code as it is:

- `createEP()` takes the probe of an existing load-balanced set, but reads its direct
  server return under a misspelt name; `setEP()` does not look at the set at all.
- `setEndpointProperties()` reads a given idle time-out from `this`, where there is none:
  the time-out that the endpoint had is erased, and the command ends well.
- Which sets the VM is in is decided on a list that is read before the role: a VM can get
  two endpoints in one set.
- A name typed with capitals is not found in the lists of the sets (`OwnSets`), nor by
  the commands on disks, which say "No VMs found" and succeed (`Capitals`);
  `SuccessMeansAchieved` does not count these, which never send a request.
- The new order 0 of an ACL rule counts as none.
- `setChefExtension()` does not wait for the version it asks for.
- `createMultipleEP()` has a `return callback(...)` inside `forEach`, which does not leave
  the function: options that cannot be parsed are reported more than once.  The model's
  commands can be parsed.
- `getVMDeploymentExtended()` calls a `callback` that is not defined; the command ends by
  the exception.

Rules of a load-balanced endpoint are sent by `updateLoadBalancedEndpointSet()`.  A new rule
is sent with a list of the set's endpoints inside a network configuration
(`vmclient.js:1945-1950`); a deletion or an update sends it elsewhere and without that list
(`vmclient.js:2078-2079`, `2230-2232`).  The service is external: `Stored` lets it give a new
rule to all members of the set or ignore it, and ignore the other two.  The host caching of
a disk is not modelled.

### VmLifecycle

`vm create` as a series of requests: `LookupService`, `CreateService` or `GetService` and
`GetSlot`, `CopyImage`, `RoleReady`, `Send`, then `Hook` and `Rollback`; `vm delete` as
`StartDelete`, `Confirm`, `DeleteRole` or `DeleteDeployment`, `GetDetailed`,
`DeleteService`.  All commands are about one hosted service, which any process may
create, fill, empty or delete meanwhile.  The service may carry out the creation of the
hosted service, the copy of the image or the creation of the VM and its answer may be lost:
the command then does not know what it has made, and leaves it (`lost`).
`CleanupIsComplete` excepts what was lost, what the service refused to delete (`denied`) and
the commands whose cleanup was `skipped`, because an error of `createRole()` or
`configureCert()` goes to the command's callback and not to `cmdCallbackHook()`
(`vmclient.js:3926`, `3938`): the new service and the community image are left.
`RollbackSparesFound` is about a service that was there when the command looked; one
that was deleted and created again by others since its own creation cannot be told from
the command's own by its name, and is deleted if it is empty.

### AccountFiles

A process reads the profile when it starts (`Start`) and the tokens when it first needs
them (`loaded`), edits its copies and appends whole files to `writes`; `Truncate` and
`Fill` are the two halves of each write, between which others act and the process may be
killed.  `Forget`, `SaveKey`, `Authenticate` and `ListSubscriptions` are a login;
`LogOut`, `Set`, `Delete`, `Import` and `Clear` the account commands; `Use` any other
command, which takes a token from the cache or refreshes it.  `OthersChangeOnlyByOverlap`
says what a write may do to the entries of other users, relative to what the process had
`seen`; `DoneAloneIsDone` what holds after a command that nothing overlapped.  Also in the
model:

- A login that fails has already removed the user's tokens.
- A profile torn by a kill makes every later command throw (`Start`), a torn token file
  every command that needs a token (`Unreadable`); an empty one reads as no tokens.
- A process that read the file before a logout brings the entries back when it writes.
- The logout of a service principal whose id is typed in another case leaves its key.

Not in the model: the login of the cloud console (`account._js:214-259`), the
environments (`account clear -e` leaves subscriptions whose environment is gone, and
`toJSON()` throws for them, `subscription.js:173`), and that `TokenCache.clear()` keeps
the loaded entries, which no command uses afterwards.

### ImageCommands

Each process runs one command at a time: `vm image create` and `vm disk create`
(`ResolveLocation`, `GetBlobName`, `FindAccount` or `CreateAccount`, `GetAccountInfo`, the
transfer, `CreateImage`), `vm disk upload` (the transfer alone), their `delete` and
`vm capture`.  A transfer is an upload, of which only the begin, the end and the case of
a blob found in the cloud are kept, or a copy, `StartCopy` and `CheckStatus`, which the
service goes on with by itself (`ServiceCopies`) when its command is killed, or gives up
because a question for the status failed.  `RegistersWholeBlobs` asks what such a copy can
do to the next command; a command that transfers nothing registers whatever is there, and
the property is not about it.  `alone` is a record for that property: two commands that
overlap do write one blob.  A mistake in the options is told by a `callback()` without a
`return`, so that with `ExitDeferred` the command goes on (`valid`).  As in the code:

- A failed or aborted copy is polled for ever (`pageBlob.js:149`): `EveryCommandEnds`
  excepts it and nothing else.
- `captureVM()` says of an image of the same name that the "Image capture is being aborted
  to avoid duplicates" (`vmclient.js:577`), but the `return` is inside the branch for VM
  images: the capture goes on over an OS image, and `UseImageInfo` lets `image delete` then
  refuse the name that both have.
- A storage account that was created stays when the command fails.

`deleteImage.js` can also delete a blob by its URL in a request of its own
(`deleteImage.js:82-86`, `105-135`), but no command gives it a `blobUrl`: `vm image delete`
and `vm disk delete` have only `-b`, which asks the service to delete the blob with the image
(`vmclient.js:3560`).  `DeleteImage` is therefore one request.

Assumed of the service: a blob that is registered, or to which a copy is pending, cannot
be written; an image of a blob that is missing or whose copy has failed is refused.

## Runs

| Run | Instance | Shows |
|---|---|---|
| `job_tracker` | 4 indices, 3 workers (symmetric), 5 errors | `OnePlace`, both refinements |
| `blob_info` | three requests, two changes by another client | `NoneMeansNotThere`, `AnswersOnce`, refinement of `AwaitAll` |
| `upload_pool` | 4 blocks, 3 threads, shrinking above rate 1/2 | the safety of one upload, and that it ends |
| `resume` | a difference, a dynamic and a fixed VHD of 5 blocks, one of zeros, two of them to be cleared by one worker too few; 3 sessions; every blob of another file, of the same length or another | what a session skips is right: `SuccessMeansDelivered`, `FooterVouches`, `Md5IsTheFiles`, `RerunKeepsCompleteBlob` |
| `parent_cleanup` | 4 blocks of 2 pages and a footer, any pages and any table, 2 workers | the clearing of the parent's regions, whatever fails; the list the upload consults |
| `vhd_reading` | a chain of 3 VHDs with 2 blocks of 2 sectors: fixed and dynamic root, every table, bitmap and range | the sectors delivered, and that streams end |
| `role_update` | 2 processes (symmetric) with two of 24 commands each, 2 VMs | roles stay valid, what they lose, and that they have what was asked for |
| `vm_lifecycle` | 2 processes (symmetric) with two commands each, every combination of options, three initial services | the rollback, and what a deletion spares |
| `account_files` | 2 processes (symmetric), 14 commands, a person and two service principals | the default, the entries of others, the outcome |
| `image_commands` | 2 processes, 3 commands in all, one name, one blob, with or without an account | what is registered is whole; commands end |
| `resume_skipped_region`, `account_keys` | smallest instance each | disagreements between code and text, see below |

The bounds: three threads are the fewest for which one retires, one is idle and
one still works, and with four blocks a block can fail, wait and be retried while
others have not been started.  In `upload_pool` the rate 1/2 replaces 0.95 so that
the branch "error rate is extreme" happens within a few errors; the number of errors
is not limited: a pool retires on every second error until a thread was idle, and
then on the rate, so the state space is finite.  `MaxErrors` bounds the tracker's own
model, whose callers never give up.  Three sessions are one that leaves a state, one that
misreads it and one that relies on the result; the theorems need no bound.
Deadlock is not checked where the modelled call or series of sessions ends.

Two processes are the fewest that overlap, and every hazard of `RoleUpdate`,
`VmLifecycle` and `AccountFiles` is one of two: a read before and a write after what the
other does.  `MaxRuns` bounds the commands each runs; two in
`RoleUpdate` and `VmLifecycle`, so that one command can read before and write after two of
the other, and one in `AccountFiles`, whose initial states include what earlier commands
leave.
`ImageCommands` bounds the commands of all processes (`MaxCommands`): two whose transfers
overlap, or one that is killed, and a third over what they left.  One blob and one name are
enough, because commands meet only on the same.
`BlobInfo` allows two changes by others, so that a blob can vanish and come back.  In
`VhdReading` a sector comes in two halves, so that a buffer can end inside one.

Fairness: `PageBlobUpload` assumes that each thread's callback and the MD5's
callbacks eventually run, which is what the event loop does as long as the
service answers every request (the storage library times requests out) and the
file can be read.  Which answer comes is not assumed to be fair: a service that
fails for ever is included.  `AwaitAll`, `BlobInfo` and `ParentCleanup` assume that
every request is answered, for the same reason, and `VhdReading` that a file which has
not failed delivers what it has and ends.  In `ImageCommands` requests are answered and
pending copies end, well or not.  The commands of `RoleUpdate`, `VmLifecycle` and
`AccountFiles` have no fairness: a user need not confirm, and a process may be killed.  Safety never
depends on fairness.

### Disagreements

Two are runs that TLC ends with a counterexample of a few steps.

1. `resume_skipped_region`: `next++` before its first use (`pageBlob.js:484`) leaves
   one region of the parent in place when there are more regions than workers (128
   by default), and success is reported.
2. `account_keys`: the login of a service principal removes the cached keys of all
   others, because their entries have none of the fields that are compared
   (`token-cache.js:141`, under the comment "clean up entries with same fields").

Others can be read off the models' actions:

- A fixed VHD has a footer too, but it is not compared ("check footer (if vhd)",
  `pageBlob.js:387-388`): the pages, and the contentMD5, of another file's blob of its length
  are taken for its own (`InfoIncremental`, "unchecked").
- After "Files are different - cannot upload incrementally" (`pageBlob.js:390`), and after an
  error of `getBlobInfo()` (`pageBlob.js:372`), the code goes on when `exitWithError()`
  returns: the first uploads over the other file's blob, the second replaces a complete blob
  by an empty one without `-f` (`ExitWithError`, `exiting`).
- What `Forgets` lists: an endpoint that joins a load-balanced set gets no direct server
  return, against the comment at `vmclient.js:931` (`vmclient.js:951` against
  `endpointUtil.js:500`); an idle time-out that is set is erased (`endpointUtil.js:586`); the
  new order 0 counts as none (`vmclient.js:2211`, against `endpointUtil.js:46`); the Chef
  extension may be written without the newest version (`vmclient.js:3037`).
- Boot diagnostics are "enabled by default" (`vm._js:60`), but every command without the option
  removes their settings (`DebugSettings`).
- "lb set name should be unique" (`vmclient.js:941`) is checked on a stale list (`List`).
- A capture goes on over an OS image of the same name (`UseImageInfo`, above).
- The final callback of the MD5's aggregator ignores an error (`OnAggregated`,
  `pageBlob.js:350`), and success is reported without a hash, against the comment two
  lines above it.
- Nobody hears of a parent that cannot be copied (`CopyFails`, `pageBlob.js:424`).
- `InfoIncremental` refuses, with "Files are different", also a blob of the same
  file whose session was killed before it wrote the footer: a dynamic or difference VHD can
  then only be uploaded again from the start with `-f`.
- `InfoCreate` replaces a blob of another length without `-f`, although the option's text
  is "Force overwrite of prior uploads".
- A failed `vm create` may leave what it has made ("Error occurred. Deleting %s cloud service",
  `vmclient.js:3952`, but see `skipped` and `lost` above).

## Proofs

`JobTracker_proofs` proves for every number of indices and workers the type
invariant, `OnePlace` and the refinements of `WorkPool` and `RetryQueue`.  `OnePlace` is
inductive together with the types: what a worker holds, what waits in the unread part of
the error list and what was never given out are disjoint, and the unread part has no
entry twice.  `RetryPosition` and `NextIndexMoves` are the lemmas about the one
counter over two lists; `AnswerReleases` says that an answer frees one index.  Each
refinement takes a step to the abstract step for the same index; that of the pool uses
that fresh indices are exactly those after `fullIndex`, that of the queue that the
unread part of the error list, `SubSeq` from the counter on, loses its head when
`nextIndex()` moves past the indices and gains a last element when `error()` is called.
The constants are as the code has them: at least one index, any set of workers.

`ResumableUpload_proofs` proves, for every number of blocks, connections, workers and
sessions, every content of the VHDs and every blob found at first, that success means an
identical blob, that the footer vouches for the pages, that the MD5 is the file's and that a
complete blob survives being uploaded again, each with the exceptions the property names.
There is no hypothesis besides the types of the constants: `exitWithError()` may return, there
may be more regions than workers, and a fixed VHD may meet a blob of its length.  None of the
properties is inductive: a session believes what it finds, so that the invariant must say
what a blob looks like when it will be believed.  `Vouched` does (the pages and the MD5 of a
blob that was created are right, and so are those of a copy once it has the footer of the
file; a blob that was only found has not), `Sent` and `UploadInv` say that while blocks are
sent all pages are right and every block that was passed is there or still counted, unless
the blob is unchecked, `ClearInv` that only regions yet to be cleared, or never to be, hold
the parent's data and that the footer is not the file's meanwhile, and `SessionInv` ties
these to the phases.  `SkippedInv` is about every blob, unchecked or not: what is skipped has a
page.  It gives the part of `SuccessMeansDelivered` that has no exception.
There is one lemma per group of actions; `Ending` covers every way a session can
end without success.  The same invariant was checked by TLC before it was proved.

`ImageCommands_proofs` proves `RegistersWholeBlobs` for any number of processes, blobs,
names and commands.  The invariant says that while a command is alone nobody else does
anything (`AloneMeansAlone`), that a command that writes or registers has a blob, and that
the blob it is about to register is whole; it stays so because the service turns only blobs
whose copy is pending.  Every action either ends a command, moves one on, or starts one, and
`EndingKeeps`, `GoingKeeps` and `StartingKeeps` say what each needs.

`PageBlobUpload_proofs` proves, for any number of blocks and threads and any errors,
that success means a complete blob and that no block is forgotten.  The second is what
makes the first inductive: a block that the blob lacks is not given out yet, in flight
or in the list of errors (`Accounted`), and unless the upload was given up some thread
comes back for the list (`Attended`), hence the thread that finds nothing left and
nobody busy finds a complete blob (`EndVouches`).  The threads start in one step of
`startThreads()` (`StartTogether`), which is why no thread can be overlooked before it ran.

The other invariants of that module need the counts to be right.  `CountInv` says that a
block is in one place, that `completed` is the number of the settled blocks and
`alreadyDone` that of the skipped ones, two sets that no variable holds; hence
`alreadyDone === completed` at the end means that every block was there before
(`AlreadyExistedIsTrue`).  For `OneOutcome` the invariant lists what may have been
reported at each stage of the MD5 and of the upload: two reports need a failure of the
MD5 behind them.  `TypeOK` follows from these; that the number of running threads stays
in range needs that no thread is counted twice.

`UploadData_proofs` begins with `NoneMeansNotThere` (a request that did not find the blob was
served while it was not there, and only such a request leads to the answer "none") and
the safety of the aggregator under it: every step is a step of `AwaitAll`, and the
callback of `getBlobInfo()` is called at most once.  The invariant relates the keys that
were handed out, those that were answered and the verdict, which `AwaitAll` does not
have, to what it does have.  That the wait ends is liveness and stays with TLC.

The rest of that module is about data: lists of intervals, and sequences of sectors.  It
needs inductions, and the library's induction theorems, which take an operator as a
parameter, cannot be instantiated here.  The module has its own, about sets
(`SetInduction`: a set that has 0 and, with each number, the next has all of them), from the
theorem that `<` is well-founded on the naturals; with it come induction up to `n`, downwards
from `n`, and the existence of the function that a recursive definition on `0..n` describes
(`Recursion`, `RecursionDown`).  By these `Reaching`, `Regions`, `IntervalsOf`,
`SubtractInterval` and `SubtractRanges`, all defined by such recursion, can be reasoned
about for every length.

For `IntSet` the results are that `subtractInterval()` and `subtractRanges()` keep the list
sorted and disjoint and are the set difference (`SubtractRangesFacts`), for all lists.  The
clean-up of a parent then has an invariant (`CleanupInv`) that says, besides the types: the
list that the workers cut stands for the pages that are left, as long as no request has failed
(`ListIsThePages`); there are no more requests in flight than workers that count as running,
and fewer once one has failed (`PoolCounts`), so that the last one to end leaves no request
behind and does not come after a failure; and the regions up to `next` are cleared
or in flight, but for the one at position `threads` (`ClearedSoFar`), hence all but that one
at the end (`AfterWorkers`).  `QuietBeforeUpload`, `SkippedIsThere`, `OnlyOneSkipped` and
`CleanupTypeOK` follow.  `SkippedIsThere` is not true of a pool that has failed, where a
request may be carried out without an answer; that no upload follows is what saves it.

For `VhdReading` the invariant (`ReadingInv`) says how far every level of the chain has
come: there are numbers, one per level, such that a level has passed on that many pieces of
what the chain from it on down is to deliver (`Follows`).  A level that reads its own file
has passed on what the file has delivered, one that reads its parent as many as the parent,
and one that merges as many whole sectors as both have come to (`Joint`); its two buffers
are then the slices behind that number and `bit` its sector (`LevelOK`).  Nothing in a state
has these numbers but the lengths of what was delivered; that they exist is the invariant.
`MergeStep` is the step of one `processBuffers()`: it passes on, and keeps, slices of the
same data.  `FlowStep` carries it up the chain by induction from the level of the file to
the upload, and `EndStep` shows that when the upload hears of the end no level has anything
left.  `ReadsTheYoungest` follows for chains of any length, blocks of any size and any order
of the files.

`RoleUpdate_proofs` proves all the properties of the commands on a VM, for any processes,
VMs, commands and roles.  `RoleStaysValid` says nothing of the copies that are about to
replace a role; the invariant has it of every copy, and says what the copy has to do with
the role it was read from (`Edits`): it lacks only what the command takes away, it has what
the command was to do, and the endpoint whose rules are changed is in the set it was in.
There is one lemma for each way to edit a role (`AddingEdits`, `SettingEdits`,
`RulesEdits`, ...), and with them every step but `Write` and `DiskAnswered` is `Quiet`:
the process comes to something the invariant allows and the service is left alone.
What `Write` loses is then a matter of sets (`WriteLoses`), also when the rules go to all
members of a load-balanced set (`WithRulesIs`).  What a copy lacks of what was asked for is
followed field by field, with `Forgets` as the only exceptions; there is no other hypothesis.

`VmLifecycle_proofs` proves `CleanupIsComplete`, `DeleteSparesWhatItSaw` and
`RollbackSparesFound` for any processes and VMs.  The invariant follows a command from
step to step: one that has created the service did not find it, and is on the way to
`cmdCallbackHook()` while it runs (`Creator`); the community image is there only while
the command remembers it, or because its deletion was refused or skipped, or the
answer to the copy was lost (`Copier`); a whole deployment is deleted only if the list had
one VM (`Deleter`).  What a command made is told from what others made by its process and its run, so that the invariant says too
that nothing belongs to a run to come (`Runs`).

`AccountFiles_proofs` proves all the properties of the profile and the token file for any
users, subscriptions, commands and kills.  A process works on copies and its writes come
later, in halves, between those of others.  The invariant therefore describes not the files
but the way to them: what is pending leads from what the process has `seen` to its `cache`
by steps of which each spares the others' entries (`Writes`), every profile that is or will
be saved has one default (`FilesInv`), and what the command was to do is done to the copies
as far as it has come (`Stage`).  `DoneAloneIsDone` needs a second one on top, for a process
that nothing overlaps: the files are what the process has written of its copies so far
(`AloneInv`).

The named assumptions on the constants are what the proofs use of the arguments and of the
first state: in `AccountFiles` that the name for "no user" is no user, that a service
principal never logs in interactively (`login._js:73-85`) and that the first files are
well formed; in `RoleUpdate` that the first roles are valid, and that the endpoints of a
command are made by `verifyAndGetEndPointObj()`.  TLC evaluates them in every run.  Some
definitions had to change because the proof could not go through what TLC accepts: a `CASE`
with guards that overlap, of which TLC takes the first and TLA+ any (`Cache` and
`AfterForget`, `AfterService`, `UseImageInfo`), is now an `IF` or disjuncts with disjoint
guards; `UNION` beside `\cup` in `Parts` has its parentheses; and that a command settles one
endpoint per name is said without the cardinality of a set that need not be finite (`List`).

Left to TLC: liveness (`Terminates`, `AnswersAfterCopy`, `StreamEnds`, `EveryCommandEnds` and
the ends in `AnswersOnce` and `ImplementsAwaitAll`), which the prover does not handle.  Every
invariant and every action property of the passing runs is stated by a theorem.

## Not modelled, and the plan

Next: the pending copy of a parent in `ParentCleanup`; the certificates of docker VMs
(`vmclient.js:4260`) and the power commands; `cacheUtils.js`, which is
`AccountFiles` again for lists of sites; and the splitting of credentials on Windows.

Not planned, and why:

- `lib/commands/arm/armsdk/`, half of the lines under `lib/`, is generated code that turns
  objects into REST requests, without state or concurrency.  It is hardly used:
  `utils.js:378-382` takes the clients of the `azure-arm-*` packages, and only
  `provider.operations._js:50` one of these.
- The commands that only translate options into one request, parsing and formatting, the
  interactive parts, and the protocol of the authentication library.
- `group.deployment._js` and `site.jobs._js`: loops that poll a remote state, whose end is
  the service's; their order of requests is in the hazards.
- The content of a block byte by byte, and the offsets of blocks, which are taken as
  correct.
