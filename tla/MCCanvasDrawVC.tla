---------------------------- MODULE MCCanvasDrawVC ----------------------------
(* The instances of CanvasDrawVC that TLC checks. *)
EXTENDS CanvasDrawVC

MCWidths == {1}
=============================================================================
