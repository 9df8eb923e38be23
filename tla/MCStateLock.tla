---------------------------- MODULE MCStateLock ----------------------------
(* Three processes for TLC; no two of them differ. *)
EXTENDS StateLock, TLC

Symmetric == Permutations(Procs)
=============================================================================
