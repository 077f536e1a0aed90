------------------------------ MODULE BlobInfo ------------------------------
(* getBlobInfo() (upload/blobInfo.js) for a blob that may or may not exist:  *)
(* three requests joined by the callback aggregator, the one that creates    *)
(* the container among them, and then the download of the footer.  Meanwhile *)
(* another client may create or delete the blob.                             *)
EXTENDS CallbackAggregator

CONSTANT MaxChanges      \* bounds the changes made by another client

ASSUME KeysAssumption ==
  \/ Keys = {"listBlobRegion", "getBlobProperties"}
  \/ Keys = {"listBlobRegion", "getBlobProperties", "createContainerIfNotExists"}
ASSUME ChangesAssumption == MaxChanges \in Nat

VARIABLES container, blob,   \* do they exist?
          changes,
          wasAbsent,         \* the blob was missing at some time of the call
          served,            \* what the service has made of each request
          download,          \* the request for the footer
          answers            \* the calls of callback

infoVars == <<container, blob, changes, wasAbsent, served, download, answers>>
vars == <<aggVars, infoVars>>

Outcomes == {"ok", "notFound", "error"}

Init ==
  /\ AggInit
  /\ container \in BOOLEAN
  /\ blob \in BOOLEAN /\ (blob => container)
  /\ changes = 0
  /\ wasAbsent = ~blob
  /\ served = [k \in Keys |-> "no"]
  /\ download = "no"
  /\ answers = << >>

Ask(k) == Register(k) /\ UNCHANGED infoVars

(* The service carries a request out, or fails to; the answer comes later.   *)
Serve(k) ==
  /\ registered = Keys /\ served[k] = "no"
  /\ \E outcome \in Outcomes :
       /\ served' = [served EXCEPT ![k] = outcome]
       /\ IF k = "createContainerIfNotExists"
            THEN outcome # "notFound" /\ container' = (container \/ outcome = "ok")
            ELSE /\ outcome = "ok" => blob
                 /\ outcome = "notFound" => ~blob
                 /\ UNCHANGED container
  /\ UNCHANGED <<aggVars, blob, changes, wasAbsent, download, answers>>

(* Another client creates or deletes the blob.                               *)
OtherClient ==
  /\ changes < MaxChanges
  /\ changes' = changes + 1
  /\ container
  /\ blob' = ~blob
  /\ wasAbsent' = (wasAbsent \/ ~blob')
  /\ UNCHANGED <<aggVars, container, served, download, answers>>

(* Mutant: every error is taken for a missing blob.                          *)
NotFoundAlways(k) == TRUE

(* error.code === 'BlobNotFound' || resp.statusCode == 404                   *)
NotFound(k) == served[k] = "notFound"

(* The footer is downloaded when there are pages and the blob is as long as  *)
(* the range asks: that it is among the pages is not found out, because      *)
(* blobProperties.pageRegions is undefined.                                  *)
OnSuccess ==
  \/ download' = "asked" /\ UNCHANGED answers
  \/ answers' = Append(answers, "info") /\ UNCHANGED download

(* The final callback; an answer without arguments says that there is no     *)
(* such blob, even if the container is still being created.                  *)
OnFinal(k) ==
  \/ finals' = finals /\ UNCHANGED <<download, answers>>
  \/ /\ finals' = Append(finals, "error")
     /\ answers' = Append(answers, IF NotFound(k) THEN "none" ELSE "error")
     /\ UNCHANGED download
  \/ finals' = Append(finals, "ok") /\ OnSuccess

OnAnswer(k) ==
  /\ served[k] # "no"
  /\ Answer(k, IF served[k] = "ok" THEN "ok" ELSE "error")
  /\ OnFinal(k)
  /\ UNCHANGED <<container, blob, changes, wasAbsent, served>>

(* The stream of the footer ends, or getBlobToStream() reports an error.     *)
OnDownloaded ==
  /\ download = "asked"
  /\ download' = "over"
  /\ \E result \in {"info", "error"} : answers' = Append(answers, result)
  /\ UNCHANGED <<aggVars, container, blob, changes, wasAbsent, served>>

Next ==
  \/ \E k \in Keys : Ask(k) \/ Serve(k) \/ OnAnswer(k)
  \/ OtherClient
  \/ OnDownloaded

(* Every request is served and answered.                                     *)
Spec == Init /\ [][Next]_vars /\ WF_vars(Next)
-----------------------------------------------------------------------------
(* The caller hears of the call once and only once, however many requests    *)
(* fail after the first failure and whatever the download does: a second     *)
(* call would start a second upload to the same blob.                        *)
AnswersOnce == [](Len(answers) <= 1) /\ <>(answers # << >>)

(* "There is no such blob", upon which the caller creates one and so empties *)
(* what is there, is said only if there was none at some time of the call.   *)
NoneMeansNotThere ==
  (\E i \in DOMAIN answers : answers[i] = "none") => wasAbsent
=============================================================================
