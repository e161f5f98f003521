------------------------- MODULE MCRecoveryHandshake -------------------------
(* Model checking of the handshake: a log of one record the recovery passes *)
(* over and two it performs.                                               *)
EXTENDS RecoveryHandshake

ThreeRecords == <<FALSE, TRUE, TRUE>>
=============================================================================
