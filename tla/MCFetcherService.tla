---------------------------- MODULE MCFetcherService ----------------------------
(* The instance of FetcherService that TLC checks. *)
EXTENDS FetcherService
=============================================================================
