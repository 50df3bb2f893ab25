------------------------ MODULE MCCommandIdempotency ------------------------
(* Small instances of CommandIdempotency for TLC.                          *)
EXTENDS CommandIdempotency, TLC
=============================================================================
