------------------------- MODULE MCResumableUpload --------------------------
(* Series of sessions for one VHD of each kind: the difference VHD that the  *)
(* configuration describes, and a dynamic and a fixed VHD of the same size   *)
(* and with the same blocks of zeros.  The properties need no distinction:   *)
(* data of a parent occurs only with a difference VHD, and a fixed VHD too   *)
(* has no zeros in its last sector.                                          *)
EXTENDS ResumableUpload

VARIABLE vhd             \* the kind of VHD in this behaviour

DynamicVhd == INSTANCE ResumableUpload WITH
  Kind <- "dynamic", OwnBlocks <- {}, ParentRegions <- {Footer}

FixedVhd == INSTANCE ResumableUpload WITH
  Kind <- "fixed", OwnBlocks <- {}, ParentRegions <- {Footer}

MCInit ==
  \/ vhd = "difference" /\ Init
  \/ vhd = "dynamic" /\ DynamicVhd!Init
  \/ vhd = "fixed" /\ FixedVhd!Init

MCNext ==
  /\ UNCHANGED vhd
  /\ \/ vhd = "difference" /\ Next
     \/ vhd = "dynamic" /\ DynamicVhd!Next
     \/ vhd = "fixed" /\ FixedVhd!Next

MCSpec == MCInit /\ [][MCNext]_<<vars, vhd>>
=============================================================================
