------------------------------- MODULE MCFeedVC -------------------------------
(* The instances of FeedVC that TLC checks. *)
EXTENDS FeedVC
=============================================================================
