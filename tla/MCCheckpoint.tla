---------------------------- MODULE MCCheckpoint ----------------------------
(* One name, so that a second export finds it taken; two directories, so    *)
(* that an import may follow another or meet what one has left behind.      *)
EXTENDS Checkpoint
=============================================================================
