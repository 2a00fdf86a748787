---------------------------- MODULE UploadContract ----------------------------
(***************************************************************************)
(* What the caller of putData(_:metadata:completion:) is promised: its     *)
(* completion block runs at most once, and when it runs without an error   *)
(* the object is in the bucket.  An error does not promise that it is not. *)
(***************************************************************************)
EXTENDS Naturals, Sequences

VARIABLES stored,    \* the bucket holds the object
          reported   \* what the completion block was called with, in order

Init == stored = FALSE /\ reported = <<>>

Store == stored' = TRUE /\ UNCHANGED reported

Report(outcome) ==
  /\ reported = <<>>
  /\ outcome = "success" => stored
  /\ reported' = <<outcome>>
  /\ UNCHANGED stored

Next == Store \/ \E outcome \in {"success", "failure"} : Report(outcome)

Spec == Init /\ [][Next]_<<stored, reported>>
=============================================================================
