----------------------------- MODULE MCUploadTask -----------------------------
(* The instances of UploadTask that TLC checks. *)
EXTENDS UploadTask
=============================================================================
