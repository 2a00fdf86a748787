------------------------------- MODULE MCCanvas -------------------------------
(* The instance of Canvas that TLC checks. *)
EXTENDS Canvas
=============================================================================
