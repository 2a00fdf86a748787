---------------------------- MODULE MCUploadFetcher ----------------------------
(* The instances of UploadFetcher that TLC checks. *)
EXTENDS UploadFetcher
=============================================================================
