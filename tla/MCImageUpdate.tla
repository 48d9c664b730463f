--------------------------- MODULE MCImageUpdate ----------------------------
(* Small instances of ImageUpdate for TLC: images of which two fit, which   *)
(* has to be alone, and which besides goes on into the second partition.   *)
EXTENDS ImageUpdate
=============================================================================
