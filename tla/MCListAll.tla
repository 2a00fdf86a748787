------------------------------ MODULE MCListAll ------------------------------
(* The instances of ListAll that TLC checks. *)
EXTENDS ListAll

MCNames == {1, 2, 4, 5}
=============================================================================
