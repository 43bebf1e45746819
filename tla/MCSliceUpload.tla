--------------------------- MODULE MCSliceUpload ---------------------------
(* Model-checking instance of SliceUpload.                                 *)
EXTENDS SliceUpload
=============================================================================
