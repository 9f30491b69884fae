----------------------------- MODULE MCSpawnJoin -----------------------------
(* SpawnJoin for TLC: the main thread and two others. *)
EXTENDS SpawnJoin

CONSTANTS main, t1, t2
Three == {main, t1, t2}
=============================================================================
