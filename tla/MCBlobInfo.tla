----------------------------- MODULE MCBlobInfo -----------------------------
(* The three requests of an upload that may go on with an existing blob.     *)
EXTENDS BlobInfo

MCKeys == {"listBlobRegion", "getBlobProperties", "createContainerIfNotExists"}
=============================================================================
