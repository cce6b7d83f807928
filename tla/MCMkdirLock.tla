---------------------------- MODULE MCMkdirLock ----------------------------
(* Small instances of MkdirLock for TLC.                                     *)
EXTENDS MkdirLock

CONSTANTS r1, r2, w1, w2
=============================================================================
