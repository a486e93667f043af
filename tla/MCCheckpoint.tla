---------------------------- MODULE MCCheckpoint ----------------------------
(* A small instance of Checkpoint for TLC.                                 *)
EXTENDS Checkpoint
=============================================================================
