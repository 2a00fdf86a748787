--------------------------- MODULE FetcherContract ---------------------------
(***************************************************************************)
(* What a GTMSessionUploadFetcher promises the one who began it, whatever  *)
(* happens to its requests: at most one answer, never after a stop, and a  *)
(* good one only when the server holds the whole object.  Being paused     *)
(* does not keep an answer away: what is in flight may still finish.       *)
(***************************************************************************)

VARIABLES phase,   \* of the upload, as its owner sees it
          stored   \* the server holds the object

Phases == {"none", "fetching", "paused", "succeeded", "failed", "stopped"}

Init == phase = "none" /\ stored = FALSE

Begin  == phase = "none"     /\ phase' = "fetching" /\ UNCHANGED stored
Pause  == phase = "fetching" /\ phase' = "paused"   /\ UNCHANGED stored
Resume == phase = "paused"   /\ phase' = "fetching" /\ UNCHANGED stored
Stop   == phase # "none"     /\ phase' = "stopped"  /\ UNCHANGED stored
Store  == phase # "none"     /\ stored' = TRUE      /\ UNCHANGED phase

Answer(ok) ==
  /\ phase \in {"fetching", "paused"}
  /\ ok => stored
  /\ phase' = IF ok THEN "succeeded" ELSE "failed"
  /\ UNCHANGED stored

Next ==
  \/ Begin \/ Pause \/ Resume \/ Stop \/ Store
  \/ \E ok \in BOOLEAN : Answer(ok)

Spec == Init /\ [][Next]_<<phase, stored>>
=============================================================================
